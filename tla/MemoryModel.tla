----------------------------- MODULE MemoryModel -----------------------------
(***************************************************************************)
(* The memory model of the simulator: class SeqCstMemoryModel of           *)
(* twist/rt/sim/system/sync/model.hpp.  Atomic operations read the last    *)
(* store; vector clocks track which accesses happen before which, and an   *)
(* access to a non-atomic variable (twist::assist::Shared) that is not     *)
(* ordered with an earlier conflicting one is reported as a data race.     *)
(*                                                                         *)
(* Threads perform any operation at any time, one at a time, which is how  *)
(* the simulator runs them.  A memory order is abstracted to what it is    *)
(* asked for: IsAcquireOrder and IsReleaseOrder.  Values are left out.     *)
(***************************************************************************)
EXTENDS Integers

CONSTANTS
  Thread,     \* thread ids
  Main,       \* the main thread
  Atomic,     \* locations of atomic variables
  Var,        \* locations of non-atomic variables
  Addr,       \* addresses of allocations
  MaxEpoch,   \* bound on the number of operations of a thread
  None        \* no access

ASSUME MemoryModelAssumption ==
  /\ Main \in Thread
  /\ MaxEpoch \in Nat
  /\ None \notin [thread : Thread, epoch : Nat]

VARIABLES
  spawned,    \* the threads created so far
  current,    \* sync.clock.current of every thread
  acquire,    \* sync.clock.acquire
  release,    \* sync.clock.release
  epoch,      \* sync.clock.epoch
  atomics,    \* atomics_: "unknown", "live" or "dead" (dtor set)
  store,      \* last_store.clock of every atomic
  free,       \* Alloc::free of every address
  last_write, \* NonAtomicVar::last_write
  last_read,  \* NonAtomicVar::last_read: the epoch of each thread's last read, 0 if none
  vars_state, \* non_atomics_: "unknown", "live" or "dead" (dtor set)
  verdict,    \* the status the simulation was aborted with
  hist        \* history of the accesses accepted at every location, with the clock
              \* of the thread at that moment; not in the code

clocks == <<spawned, current, acquire, release, epoch>>
shadow == <<atomics, store>>
accesses == <<last_write, last_read, vars_state, hist>>
vars == <<clocks, shadow, free, accesses, verdict>>

Clock == [Thread -> Nat]
OldAccess == [thread : Thread, epoch : Nat]
Event == [thread : Thread, epoch : Nat, write : BOOLEAN, clock : Clock]

Zero == [u \in Thread |-> 0]

(* VectorClock::Join *)
Join(a, b) == [u \in Thread |-> IF a[u] >= b[u] THEN a[u] ELSE b[u]]

(* Tick of the clock c of thread t; epoch counts along. *)
Ticked(c, t) == [c EXCEPT ![t] = @ + 1]

Active(t) == verdict = "none" /\ t \in spawned /\ epoch[t] < MaxEpoch

TickEpoch(t, n) == epoch' = [epoch EXCEPT ![t] = @ + n]

SetCurrent(t, c) == current' = [current EXCEPT ![t] = c]

-----------------------------------------------------------------------------
Init ==
  /\ spawned = {Main}
  /\ current = [t \in Thread |-> Zero]
  /\ acquire = [t \in Thread |-> Zero]
  /\ release = [t \in Thread |-> Zero]
  /\ epoch = [t \in Thread |-> 0]
  /\ atomics = [a \in Atomic |-> "unknown"]
  /\ store = [a \in Atomic |-> Zero]
  /\ free = [m \in Addr |-> Zero]
  /\ last_write = [v \in Var |-> None]
  /\ last_read = [v \in Var |-> Zero]
  /\ vars_state = [v \in Var |-> "unknown"]
  /\ verdict = "none"
  /\ hist = [v \in Var |-> {}]

(* Spawn: the child starts with the parent's clock. *)
Spawn(t, c) ==
  /\ Active(t)
  /\ c \notin spawned
  /\ spawned' = spawned \cup {c}
  /\ SetCurrent(c, Ticked(current[t], c))
  /\ TickEpoch(c, 1)
  /\ UNCHANGED <<acquire, release, shadow, free, accesses, verdict>>

(* Wake: a futex wake-up passes the waker's release clock. *)
Wake(t, u) ==
  /\ Active(t) /\ Active(u) /\ u # t
  /\ SetCurrent(u, Ticked(Join(current[u], release[t]), u))
  /\ TickEpoch(u, 1)
  /\ UNCHANGED <<spawned, acquire, release, shadow, free, accesses, verdict>>

(* Sync of an AtomicInit: "Initialization is not atomic". *)
AtomicInit(t, a) ==
  /\ Active(t)
  /\ SetCurrent(t, Ticked(current[t], t))
  /\ TickEpoch(t, 1)
  /\ atomics' = [atomics EXCEPT ![a] = "live"]
  /\ store' = [store EXCEPT ![a] = Zero]
  /\ UNCHANGED <<spawned, acquire, release, free, accesses, verdict>>

AtomicDestroy(t, a) ==
  /\ Active(t)
  /\ atomics[a] = "live"
  /\ SetCurrent(t, Ticked(current[t], t))
  /\ TickEpoch(t, 1)
  /\ atomics' = [atomics EXCEPT ![a] = "dead"]
  /\ UNCHANGED <<spawned, acquire, release, store, free, accesses, verdict>>

(* GetShadowAtomicVar: any other operation on an unknown or destroyed atomic aborts. *)
InvalidAtomicAccess(t, a) ==
  /\ Active(t)
  /\ atomics[a] # "live"
  /\ SetCurrent(t, Ticked(current[t], t))
  /\ TickEpoch(t, 1)
  /\ verdict' = "InvalidMemoryAccess"
  /\ UNCHANGED <<spawned, acquire, release, shadow, free, accesses>>

(* AtomicLoad, and the load of a read-modify-write that fails: a relaxed load, then an
   acquire fence if the order asks for one. *)
AtomicLoad(t, a, acq) ==
  LET pending == Join(acquire[t], store[a])
      ticked  == Ticked(current[t], t)
  IN
  /\ Active(t)
  /\ atomics[a] = "live"
  /\ acquire' = [acquire EXCEPT ![t] = pending]
  /\ SetCurrent(t, IF acq THEN Join(ticked, pending) ELSE ticked)
  /\ TickEpoch(t, 1)
  /\ UNCHANGED <<spawned, release, shadow, free, accesses, verdict>>

(* AtomicDebugLoad reads the value only. *)
AtomicDebugLoad(t, a) ==
  /\ Active(t)
  /\ atomics[a] = "live"
  /\ SetCurrent(t, Ticked(current[t], t))
  /\ TickEpoch(t, 1)
  /\ UNCHANGED <<spawned, acquire, release, shadow, free, accesses, verdict>>

(* What a release operation of a thread with clock c publishes. *)
ReleaseClock(t, c, rel) == IF rel THEN c ELSE release[t]

(* AtomicStore: a release fence if the order asks for one, then a relaxed store. *)
AtomicStore(t, a, rel) ==
  LET ticked    == Ticked(current[t], t)
      published == ReleaseClock(t, ticked, rel)
  IN
  /\ Active(t)
  /\ atomics[a] = "live"
  /\ SetCurrent(t, ticked)
  /\ TickEpoch(t, 1)
  /\ release' = [release EXCEPT ![t] = published]
  /\ store' = [store EXCEPT ![a] = published]
  /\ UNCHANGED <<spawned, acquire, atomics, free, accesses, verdict>>

(* AtomicRmwLoad and AtomicRmwCommit, between which the thread is not preempted; the
   commit adds to the clock of the store it replaces (release sequence). *)
CommitClock(a, c) == Join(store[a], c)

AtomicRmw(t, a, acq, rel) ==
  LET pending   == Join(acquire[t], store[a])
      ticked    == Ticked(current[t], t)
      loaded    == IF acq THEN Join(ticked, pending) ELSE ticked
      committed == Ticked(loaded, t)
      published == ReleaseClock(t, committed, rel)
  IN
  /\ Active(t) /\ epoch[t] + 1 < MaxEpoch
  /\ atomics[a] = "live"
  /\ acquire' = [acquire EXCEPT ![t] = pending]
  /\ SetCurrent(t, committed)
  /\ TickEpoch(t, 2)
  /\ release' = [release EXCEPT ![t] = published]
  /\ store' = [store EXCEPT ![a] = CommitClock(a, published)]
  /\ UNCHANGED <<spawned, atomics, free, accesses, verdict>>

(* AtomicThreadFence with acquire, release or acq_rel; the acquire part comes first. *)
AtomicThreadFence(t, acq, rel) ==
  LET ticked == Ticked(current[t], t)
      fenced == IF acq THEN Join(ticked, acquire[t]) ELSE ticked
  IN
  /\ Active(t)
  /\ acq \/ rel
  /\ SetCurrent(t, fenced)
  /\ TickEpoch(t, 1)
  /\ release' = [release EXCEPT ![t] = ReleaseClock(t, fenced, rel)]
  /\ UNCHANGED <<spawned, acquire, shadow, free, accesses, verdict>>

(* Malloc of an address happens after the Free that released it.  No tick. *)
Malloc(t, m) ==
  /\ Active(t)
  /\ SetCurrent(t, Join(current[t], free[m]))
  /\ UNCHANGED <<spawned, acquire, release, epoch, shadow, free, accesses, verdict>>

FreeClock_OwnEntry(t) == [Zero EXCEPT ![t] = current[t][t]]

(* What Free records *)
FreeClock(t) == current[t]

Free(t, m) ==
  /\ Active(t)
  /\ free' = [free EXCEPT ![m] = FreeClock(t)]
  /\ UNCHANGED <<clocks, shadow, accesses, verdict>>

-----------------------------------------------------------------------------
(* Non-atomic variables *)

(* HappensBefore: the access of thread u in epoch e is known to a thread with clock c. *)
HappensBefore(u, e, c) == c[u] >= e

(* CheckDataRaces *)
RaceWithWrite(t, v, c) ==
  /\ last_write[v] # None
  /\ last_write[v].thread # t
  /\ ~HappensBefore(last_write[v].thread, last_write[v].epoch, c)

RaceWithRead_Unchecked(t, v, c) == FALSE

RaceWithRead(t, v, c) ==
  \E u \in Thread \ {t} :
    last_read[v][u] > 0 /\ ~HappensBefore(u, last_read[v][u], c)

Race(t, v, c, write) == RaceWithWrite(t, v, c) \/ (write /\ RaceWithRead(t, v, c))

(* NonAtomicVar::Log, and the history. *)
LogAccess(t, v, c, write) ==
  /\ hist' = [hist EXCEPT ![v] = @ \cup
       {[thread |-> t, epoch |-> epoch[t] + 1, write |-> write, clock |-> c]}]
  /\ last_write' = IF write
       THEN [last_write EXCEPT ![v] = [thread |-> t, epoch |-> epoch[t] + 1]]
       ELSE last_write

(* AccessNonAtomicVar: Tick, CheckDataRaces, Log.  A first Init of a location has nothing
   to be compared with; the reads of an earlier life are forgotten. *)
InitVar(t, v) ==
  LET c == Ticked(current[t], t) IN
  /\ Active(t)
  /\ vars_state[v] = "unknown" \/ (vars_state[v] = "dead" /\ ~Race(t, v, c, TRUE))
  /\ SetCurrent(t, c)
  /\ TickEpoch(t, 1)
  /\ LogAccess(t, v, c, TRUE)
  /\ last_read' = [last_read EXCEPT ![v] = Zero]
  /\ vars_state' = [vars_state EXCEPT ![v] = "live"]
  /\ UNCHANGED <<spawned, acquire, release, shadow, free, verdict>>

(* The location is still occupied by a live variable, or was never initialized. *)
InvalidVarAccess(t, v, init) ==
  /\ Active(t)
  /\ vars_state[v] = IF init THEN "live" ELSE "unknown"
  /\ SetCurrent(t, Ticked(current[t], t))
  /\ TickEpoch(t, 1)
  /\ verdict' = "InvalidMemoryAccess"
  /\ UNCHANGED <<spawned, acquire, release, shadow, free, accesses>>

ReadVar(t, v) ==
  LET c == Ticked(current[t], t) IN
  /\ Active(t)
  /\ vars_state[v] # "unknown"
  /\ ~Race(t, v, c, FALSE)
  /\ SetCurrent(t, c)
  /\ TickEpoch(t, 1)
  /\ LogAccess(t, v, c, FALSE)
  /\ last_read' = [last_read EXCEPT ![v] = [@ EXCEPT ![t] = epoch[t] + 1]]
  /\ UNCHANGED <<spawned, acquire, release, shadow, free, vars_state, verdict>>

(* AccessLiveNonAtomicVar for a Write or a Destroy. *)
WriteVar(t, v, destroy) ==
  LET c == Ticked(current[t], t) IN
  /\ Active(t)
  /\ vars_state[v] # "unknown"
  /\ ~Race(t, v, c, TRUE)
  /\ SetCurrent(t, c)
  /\ TickEpoch(t, 1)
  /\ LogAccess(t, v, c, TRUE)
  /\ vars_state' = IF destroy THEN [vars_state EXCEPT ![v] = "dead"] ELSE vars_state
  /\ UNCHANGED <<spawned, acquire, release, shadow, free, last_read, verdict>>

(* A race is reported: _SysAccessNonAtomicVar aborts. *)
DataRace(t, v, write) ==
  LET c == Ticked(current[t], t) IN
  /\ Active(t)
  /\ vars_state[v] # "unknown"
  /\ Race(t, v, c, write)
  /\ SetCurrent(t, c)
  /\ TickEpoch(t, 1)
  /\ verdict' = "DataRace"
  /\ UNCHANGED <<spawned, acquire, release, shadow, free, accesses>>

-----------------------------------------------------------------------------
ThreadStep(t) ==
  \/ \E c \in Thread : Spawn(t, c)
  \/ \E u \in Thread : Wake(t, u)
  \/ \E acq \in BOOLEAN, rel \in BOOLEAN : AtomicThreadFence(t, acq, rel)

AtomicStep(t) ==
  \E a \in Atomic :
    \/ AtomicInit(t, a)
    \/ AtomicDestroy(t, a)
    \/ InvalidAtomicAccess(t, a)
    \/ AtomicDebugLoad(t, a)
    \/ \E acq \in BOOLEAN : AtomicLoad(t, a, acq)
    \/ \E rel \in BOOLEAN : AtomicStore(t, a, rel)
    \/ \E acq \in BOOLEAN, rel \in BOOLEAN : AtomicRmw(t, a, acq, rel)

VarStep(t) ==
  \E v \in Var :
    \/ InitVar(t, v)
    \/ ReadVar(t, v)
    \/ \E destroy \in BOOLEAN : WriteVar(t, v, destroy)
    \/ \E init \in BOOLEAN : InvalidVarAccess(t, v, init)
    \/ \E write \in BOOLEAN : DataRace(t, v, write)

AllocStep(t) == \E m \in Addr : Malloc(t, m) \/ Free(t, m)

Next ==
  \E t \in Thread : ThreadStep(t) \/ AtomicStep(t) \/ VarStep(t) \/ AllocStep(t)

Spec == Init /\ [][Next]_vars

-----------------------------------------------------------------------------
(* Type invariant: clocks are vectors of epochs, and the history holds accesses. *)
TypeOK ==
  /\ spawned \subseteq Thread
  /\ current \in [Thread -> Clock]
  /\ acquire \in [Thread -> Clock]
  /\ release \in [Thread -> Clock]
  /\ epoch \in [Thread -> Nat]
  /\ atomics \in [Atomic -> {"unknown", "live", "dead"}]
  /\ store \in [Atomic -> Clock]
  /\ free \in [Addr -> Clock]
  /\ last_write \in [Var -> OldAccess \cup {None}]
  /\ last_read \in [Var -> Clock]
  /\ vars_state \in [Var -> {"unknown", "live", "dead"}]
  /\ verdict \in {"none", "DataRace", "InvalidMemoryAccess"}
  /\ hist \in [Var -> SUBSET Event]

(* Every clock the model keeps *)
AllClocks ==
  {current[t] : t \in Thread} \cup {acquire[t] : t \in Thread}
    \cup {release[t] : t \in Thread} \cup {store[a] : a \in Atomic}
    \cup {free[m] : m \in Addr}

(* The epoch a thread logs with an access is its own entry of its clock: the two counters
   of Tick(), which Spawn and Join touch differently, never drift apart. *)
EpochIsOwnTime == \A t \in Thread : epoch[t] = current[t][t]

(* No clock is ahead of the thread it speaks of: nothing can be known of an operation
   that has not happened. *)
NoClockFromTheFuture == \A c \in AllClocks, u \in Thread : c[u] <= current[u][u]

(* Knowledge is transitive: a clock that includes an access includes everything that
   happened before that access. *)
KnowledgeIsTransitive ==
  \A v \in Var : \A x \in hist[v] : \A c \in AllClocks :
    HappensBefore(x.thread, x.epoch, c) => \A u \in Thread : x.clock[u] <= c[u]

(* The clocks can be compared with the epochs of logged accesses, which CheckDataRaces() does: of a
   thread, of a store, of a freed block and after any joins in between. *)
ClocksAreSound == EpochIsOwnTime /\ NoClockFromTheFuture /\ KnowledgeIsTransitive

Ordered(x, y) ==
  \/ x.thread = y.thread
  \/ HappensBefore(x.thread, x.epoch, y.clock)
  \/ HappensBefore(y.thread, y.epoch, x.clock)

(* No race is missed although only the last write and the last read of each thread are
   kept: any two conflicting accesses the detector let pass, in any life of the variable,
   are ordered by the clocks. *)
NoRaceIsMissed ==
  \A v \in Var : \A x, y \in hist[v] : x.write \/ y.write => Ordered(x, y)
=============================================================================
