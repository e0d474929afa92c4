-------------------------- MODULE MemoryModelProofs --------------------------
(***************************************************************************)
(* The race detector of the memory model misses no race, for any number of *)
(* threads, atomics, variables and addresses and histories of any length.  *)
(*                                                                         *)
(* The argument.  A clock is sound when it is not ahead of any thread and  *)
(* knows, with an access, all that happened before it.  Joins and ticks    *)
(* keep clocks sound, so that the check against the last write covers all  *)
(* the writes and reads before it.                                         *)
(***************************************************************************)
EXTENDS MemoryModel, TLAPS

(* The time of every thread, and every access of the history *)
Top == [u \in Thread |-> current[u][u]]
Accesses == UNION {hist[v] : v \in Var}

(* The clock k is sound when threads have reached the time top and H happened. *)
Sound(k, top, H) ==
  /\ k \in Clock
  /\ \A u \in Thread : k[u] <= top[u]
  /\ \A x \in H : k[x.thread] >= x.epoch => \A u \in Thread : x.clock[u] <= k[u]

(* f assigns a sound clock to every member of D. *)
SoundAll(f, D, top, H) == f \in [D -> Clock] /\ \A i \in D : Sound(f[i], top, H)

SoundClocks ==
  /\ SoundAll(current, Thread, Top, Accesses)
  /\ SoundAll(acquire, Thread, Top, Accesses)
  /\ SoundAll(release, Thread, Top, Accesses)
  /\ SoundAll(store, Atomic, Top, Accesses)
  /\ SoundAll(free, Addr, Top, Accesses)

(* The accesses of the history are past. *)
PastAccesses ==
  \A x \in Accesses : x \in Event /\ x.epoch > 0 /\ x.epoch <= Top[x.thread]

(* The last write of a variable knows every write, and every read but those that
   last_read still covers. *)
Covers(w, v) ==
  /\ w \in hist[v]
  /\ last_write[v] = [thread |-> w.thread, epoch |-> w.epoch]
  /\ \A x \in hist[v] : \/ w.clock[x.thread] >= x.epoch
                        \/ ~x.write /\ x.epoch <= last_read[v][x.thread]

LastWriteCovers ==
  \A v \in Var : \/ /\ vars_state[v] = "unknown" /\ last_write[v] = None
                    /\ hist[v] = {}
                 \/ /\ vars_state[v] # "unknown" /\ last_write[v] # None
                    /\ \E w \in hist[v] : Covers(w, v)

UnspawnedIsZero == \A t \in Thread \ spawned : current[t] = Zero

(* The inductive invariant *)
IInv ==
  /\ TypeOK
  /\ EpochIsOwnTime
  /\ UnspawnedIsZero
  /\ PastAccesses
  /\ SoundClocks
  /\ LastWriteCovers
  /\ NoRaceIsMissed

(* The time when thread t has ticked n times *)
Later(t, n) == [Top EXCEPT ![t] = @ + n]

-----------------------------------------------------------------------------
(* Facts about clocks *)

(* The join of two sound clocks is sound. *)
LEMMA SoundJoin ==
  ASSUME NEW H, H \subseteq Event, NEW top \in Clock, NEW a, NEW b,
         Sound(a, top, H), Sound(b, top, H)
  PROVE  Sound(Join(a, b), top, H)
<1>1. Join(a, b) \in Clock
  BY DEF Sound, Join, Clock
<1>2. \A u \in Thread : Join(a, b)[u] <= top[u]
  BY DEF Sound, Join, Clock
<1>3. ASSUME NEW x \in H, Join(a, b)[x.thread] >= x.epoch, NEW u \in Thread
      PROVE  x.clock[u] <= Join(a, b)[u]
  <2>1. x \in Event /\ x.thread \in Thread /\ x.epoch \in Nat /\ x.clock[u] \in Nat
    BY DEF Event, Clock
  <2>2. a[x.thread] >= x.epoch \/ b[x.thread] >= x.epoch
    BY <1>3, <2>1 DEF Join
  <2>3. x.clock[u] <= a[u] \/ x.clock[u] <= b[u]
    BY <2>2 DEF Sound
  <2>4. a[u] \in Nat /\ b[u] \in Nat
    BY DEF Sound, Clock
  <2> QED
    BY <2>1, <2>3, <2>4 DEF Join
<1> QED
  BY <1>1, <1>2, <1>3 DEF Sound

(* A clock stays sound while threads move on. *)
LEMMA SoundLater ==
  ASSUME NEW H, NEW top \in Clock, NEW top2 \in Clock, NEW a,
         \A u \in Thread : top[u] <= top2[u], Sound(a, top, H)
  PROVE  Sound(a, top2, H)
BY DEF Sound, Clock

(* The clock of a thread stays sound when it ticks. *)
LEMMA SoundTick ==
  ASSUME NEW H, H \subseteq Event, NEW top \in Clock, NEW a, NEW t \in Thread,
         Sound(a, top, H), a[t] = top[t],
         \A x \in H : x.epoch <= top[x.thread]
  PROVE  /\ Ticked(a, t) \in Clock
         /\ Ticked(a, t)[t] = a[t] + 1
         /\ Sound(Ticked(a, t), [top EXCEPT ![t] = a[t] + 1], H)
<1>1. Ticked(a, t) \in Clock /\ Ticked(a, t)[t] = a[t] + 1
  BY DEF Sound, Ticked, Clock
<1>2. ASSUME NEW u \in Thread
      PROVE  Ticked(a, t)[u] <= [top EXCEPT ![t] = a[t] + 1][u]
  <2>1. a \in Clock /\ a[u] \in Nat /\ a[t] \in Nat /\ a[u] <= top[u]
    BY DEF Sound, Clock
  <2>2. CASE u = t
    BY <2>1, <2>2 DEF Ticked, Clock
  <2>3. CASE u # t
    BY <2>1, <2>3 DEF Ticked, Clock
  <2> QED
    BY <2>2, <2>3
<1>3. ASSUME NEW x \in H, Ticked(a, t)[x.thread] >= x.epoch, NEW u \in Thread
      PROVE  x.clock[u] <= Ticked(a, t)[u]
  <2>1. x \in Event /\ x.thread \in Thread /\ x.epoch \in Nat /\ x.clock[u] \in Nat
    BY DEF Event, Clock
  <2>2. a[x.thread] >= x.epoch
    BY <1>3, <2>1 DEF Ticked, Sound, Clock
  <2>3. x.clock[u] <= a[u]
    BY <2>2 DEF Sound
  <2> QED
    BY <2>1, <2>3 DEF Sound, Ticked, Clock
<1> QED
  BY <1>1, <1>2, <1>3 DEF Sound

(* A new clock that knows nothing is sound. *)
LEMMA SoundZero ==
  ASSUME NEW H, H \subseteq Event, NEW top \in Clock, \A x \in H : x.epoch > 0
  PROVE  Sound(Zero, top, H)
<1>1. \A x \in H : x.thread \in Thread /\ x.epoch \in Nat
  BY DEF Event
<1> QED
  BY <1>1 DEF Sound, Zero, Clock

(* Assignment of a sound clock *)
LEMMA SoundAssign ==
  ASSUME NEW D, NEW top, NEW H, NEW f, NEW i \in D, NEW k,
         SoundAll(f, D, top, H), Sound(k, top, H)
  PROVE  SoundAll([f EXCEPT ![i] = k], D, top, H)
BY DEF SoundAll, Sound

-----------------------------------------------------------------------------
(* What the invariant says when thread t has ticked n times: the clocks that do not
   change are still sound, and so is the ticked clock of t. *)
LEMMA AfterTick ==
  ASSUME IInv, NEW t \in Thread, NEW n \in Nat
  PROVE  /\ Top \in Clock /\ Later(t, n) \in Clock
         /\ \A u \in Thread : Top[u] <= Later(t, n)[u]
         /\ Accesses \subseteq Event
         /\ \A x \in Accesses : x.epoch > 0 /\ x.epoch <= Later(t, n)[x.thread]
         /\ SoundAll(current, Thread, Later(t, n), Accesses)
         /\ SoundAll(acquire, Thread, Later(t, n), Accesses)
         /\ SoundAll(release, Thread, Later(t, n), Accesses)
         /\ SoundAll(store, Atomic, Later(t, n), Accesses)
         /\ SoundAll(free, Addr, Later(t, n), Accesses)
<1>1. Top \in Clock
  BY DEF IInv, TypeOK, Top, Clock
<1>2. Later(t, n) \in Clock /\ \A u \in Thread : Top[u] <= Later(t, n)[u]
  BY <1>1 DEF Later, Clock
<1>3. Accesses \subseteq Event /\ \A x \in Accesses : x.epoch > 0
  BY DEF IInv, PastAccesses
<1>4. ASSUME NEW x \in Accesses
      PROVE  x.epoch <= Later(t, n)[x.thread]
  <2>1. x.thread \in Thread /\ x.epoch \in Nat /\ x.epoch <= Top[x.thread]
    BY DEF IInv, PastAccesses, Event
  <2> QED
    BY <2>1, <1>1, <1>2 DEF Clock
<1>5. ASSUME NEW f, NEW D, SoundAll(f, D, Top, Accesses)
      PROVE  SoundAll(f, D, Later(t, n), Accesses)
  BY <1>1, <1>2, <1>5, SoundLater DEF SoundAll
<1> QED
  BY <1>1, <1>2, <1>3, <1>4, <1>5 DEF IInv, SoundClocks

(* A tick of a thread's clock claims its next event, and no other. *)
LEMMA TickIsSound ==
  ASSUME IInv, NEW t \in Thread
  PROVE  /\ Ticked(current[t], t) \in Clock
         /\ Ticked(current[t], t)[t] = current[t][t] + 1
         /\ Sound(Ticked(current[t], t), Later(t, 1), Accesses)
<1>1. /\ Top \in Clock /\ Accesses \subseteq Event
      /\ \A x \in Accesses : x.epoch <= Top[x.thread]
  BY AfterTick, 0 \in Nat DEF IInv, PastAccesses
<1>2. Sound(current[t], Top, Accesses) /\ current[t][t] = Top[t]
  BY DEF IInv, SoundClocks, SoundAll, Top
<1>3. Later(t, 1) = [Top EXCEPT ![t] = current[t][t] + 1]
  BY <1>1, <1>2 DEF Later, Clock
<1>4. /\ Ticked(current[t], t) \in Clock
      /\ Ticked(current[t], t)[t] = current[t][t] + 1
      /\ Sound(Ticked(current[t], t), [Top EXCEPT ![t] = current[t][t] + 1], Accesses)
  <2> DEFINE a == current[t] H == Accesses top == Top
  <2> HIDE DEF a, H, top
  <2>1. H \subseteq Event /\ top \in Clock /\ Sound(a, top, H) /\ a[t] = top[t]
        /\ \A x \in H : x.epoch <= top[x.thread]
    BY <1>1, <1>2 DEF a, H, top
  <2>2. /\ Ticked(a, t) \in Clock
        /\ Ticked(a, t)[t] = a[t] + 1
        /\ Sound(Ticked(a, t), [top EXCEPT ![t] = a[t] + 1], H)
    BY <2>1, SoundTick
  <2> QED
    BY <2>2 DEF a, H, top
<1> QED
  BY <1>3, <1>4

(* Joining a clock does not make a thread run ahead of itself. *)
LEMMA JoinOwn ==
  ASSUME NEW H, NEW top, NEW a, NEW b, NEW t \in Thread,
         Sound(a, top, H), Sound(b, top, H), top \in Clock, a[t] = top[t]
  PROVE  Join(a, b)[t] = top[t]
BY DEF Sound, Join, Clock

(* A step of thread t that ticks n times and touches no non-atomic variable *)
LEMMA ClockStep ==
  ASSUME IInv, NEW t \in Thread, NEW n \in Nat, NEW k,
         Sound(k, Later(t, n), Accesses), k[t] = Later(t, n)[t],
         current' = [current EXCEPT ![t] = k],
         epoch' = [epoch EXCEPT ![t] = @ + n],
         spawned' \subseteq Thread, spawned \subseteq spawned', t \in spawned',
         SoundAll(acquire', Thread, Later(t, n), Accesses),
         SoundAll(release', Thread, Later(t, n), Accesses),
         SoundAll(store', Atomic, Later(t, n), Accesses),
         SoundAll(free', Addr, Later(t, n), Accesses),
         atomics' \in [Atomic -> {"unknown", "live", "dead"}],
         verdict' \in {"none", "DataRace", "InvalidMemoryAccess"},
         UNCHANGED accesses
  PROVE  IInv'
<1>1. /\ Top \in Clock /\ Later(t, n) \in Clock
      /\ SoundAll(current, Thread, Later(t, n), Accesses)
      /\ \A x \in Accesses : x.epoch <= Later(t, n)[x.thread]
  BY AfterTick
<1>2. Accesses' = Accesses
  BY DEF accesses, Accesses
<1>3. current \in [Thread -> Clock] /\ k \in Clock
  BY DEF IInv, TypeOK, Sound
<1>4. Top' = Later(t, n)
  <2>1. Top' = [u \in Thread |-> current'[u][u]]
    BY DEF Top
  <2>2. ASSUME NEW u \in Thread
        PROVE  current'[u][u] = Later(t, n)[u]
    BY <1>1, <1>3 DEF Top, Later, Clock
  <2> QED
    BY <2>1, <2>2, <1>1 DEF Clock
<1>5. SoundAll(current', Thread, Later(t, n), Accesses)
  BY <1>1, SoundAssign
<1>6. SoundClocks'
  BY <1>2, <1>4, <1>5 DEF SoundClocks
<1>7. TypeOK'
  <2>1. epoch' \in [Thread -> Nat]
    BY DEF IInv, TypeOK
  <2> QED
    BY <2>1, <1>5 DEF IInv, TypeOK, accesses, SoundAll
<1>8. EpochIsOwnTime'
  <2>1. ASSUME NEW u \in Thread
        PROVE  epoch'[u] = current'[u][u]
    <3>1. epoch[u] = Top[u] /\ epoch \in [Thread -> Nat]
      BY DEF IInv, EpochIsOwnTime, Top, TypeOK
    <3>2. current'[u][u] = Later(t, n)[u]
      BY <1>4 DEF Top
    <3> QED
      BY <3>1, <3>2, <1>1 DEF Later, Clock
  <2> QED
    BY <2>1 DEF EpochIsOwnTime
<1>9. UnspawnedIsZero'
  BY <1>3 DEF IInv, UnspawnedIsZero
<1>10. PastAccesses'
  BY <1>1, <1>2, <1>4 DEF IInv, PastAccesses
<1>11. LastWriteCovers' /\ NoRaceIsMissed'
  BY DEF IInv, LastWriteCovers, Covers, NoRaceIsMissed, Ordered, accesses
<1> QED
  BY <1>6, <1>7, <1>8, <1>9, <1>10, <1>11 DEF IInv

-----------------------------------------------------------------------------
(* Steps that touch no non-atomic variable *)

(* A step that only ticks, and aborts perhaps. *)
LEMMA TickStep ==
  ASSUME IInv, NEW t \in Thread, t \in spawned,
         SetCurrent(t, Ticked(current[t], t)), TickEpoch(t, 1),
         UNCHANGED <<spawned, acquire, release, free, accesses>>,
         SoundAll(store', Atomic, Later(t, 1), Accesses),
         atomics' \in [Atomic -> {"unknown", "live", "dead"}],
         verdict' \in {"none", "DataRace", "InvalidMemoryAccess"}
  PROVE  IInv'
<1>1. /\ Sound(Ticked(current[t], t), Later(t, 1), Accesses)
      /\ Ticked(current[t], t)[t] = current[t][t] + 1
  BY TickIsSound
<1>2. /\ SoundAll(acquire, Thread, Later(t, 1), Accesses)
      /\ SoundAll(release, Thread, Later(t, 1), Accesses)
      /\ SoundAll(free, Addr, Later(t, 1), Accesses)
      /\ Top \in Clock
  BY AfterTick, 1 \in Nat
<1>3. Ticked(current[t], t)[t] = Later(t, 1)[t]
  BY <1>1, <1>2 DEF Later, Top, Clock
<1>4. spawned' \subseteq Thread /\ spawned \subseteq spawned' /\ t \in spawned'
  BY DEF IInv, TypeOK
<1>5. /\ current' = [current EXCEPT ![t] = Ticked(current[t], t)]
      /\ epoch' = [epoch EXCEPT ![t] = @ + 1]
  BY DEF SetCurrent, TickEpoch
<1> QED
  BY <1>1, <1>2, <1>3, <1>4, <1>5, ClockStep, 1 \in Nat

(* The child starts from what its parent knows. *)
LEMMA SpawnStep ==
  ASSUME IInv, NEW t \in Thread, NEW c \in Thread, Spawn(t, c)
  PROVE  IInv'
<1> DEFINE k == Ticked(current[t], c)
<1>1. /\ Top \in Clock /\ Later(c, 1) \in Clock /\ Accesses \subseteq Event
      /\ \A x \in Accesses : x.epoch > 0
      /\ SoundAll(acquire, Thread, Later(c, 1), Accesses)
      /\ SoundAll(release, Thread, Later(c, 1), Accesses)
      /\ SoundAll(store, Atomic, Later(c, 1), Accesses)
      /\ SoundAll(free, Addr, Later(c, 1), Accesses)
  BY AfterTick, 1 \in Nat
<1>2. Top[c] = 0 /\ t # c
  BY DEF Spawn, Active, IInv, UnspawnedIsZero, Zero, Top
<1>3. Sound(current[t], Top, Accesses) /\ current[t][c] = 0
  BY <1>1, <1>2 DEF IInv, SoundClocks, SoundAll, Sound, Clock
<1>4. /\ Sound(k, Later(c, 1), Accesses) /\ k[c] = Later(c, 1)[c]
  <2> DEFINE a == current[t] H == Accesses top == Top
  <2> HIDE DEF a, H, top
  <2>1. /\ H \subseteq Event /\ top \in Clock /\ Sound(a, top, H) /\ a[c] = top[c]
        /\ \A x \in H : x.epoch <= top[x.thread]
    BY <1>1, <1>2, <1>3 DEF a, H, top, IInv, PastAccesses
  <2>2. /\ Ticked(a, c)[c] = a[c] + 1
        /\ Sound(Ticked(a, c), [top EXCEPT ![c] = a[c] + 1], H)
    BY <2>1, SoundTick
  <2>3. Later(c, 1) = [top EXCEPT ![c] = a[c] + 1]
    BY <1>1, <1>2, <1>3 DEF Later, Clock, a, top
  <2>4. Later(c, 1)[c] = a[c] + 1
    BY <2>1, <2>3 DEF Clock
  <2> QED
    BY <2>2, <2>3, <2>4 DEF a, H
<1>5. /\ current' = [current EXCEPT ![c] = k]
      /\ epoch' = [epoch EXCEPT ![c] = @ + 1]
      /\ spawned' = spawned \cup {c}
      /\ UNCHANGED <<acquire, release, atomics, store, free, accesses, verdict>>
  BY DEF Spawn, SetCurrent, TickEpoch, shadow
<1>6. /\ spawned' \subseteq Thread /\ spawned \subseteq spawned' /\ c \in spawned'
      /\ atomics' \in [Atomic -> {"unknown", "live", "dead"}]
      /\ verdict' \in {"none", "DataRace", "InvalidMemoryAccess"}
  BY <1>5 DEF IInv, TypeOK
<1> HIDE DEF k
<1> QED
  BY <1>1, <1>4, <1>5, <1>6, ClockStep, 1 \in Nat

(* A woken thread learns what its waker released. *)
LEMMA WakeStep ==
  ASSUME IInv, NEW t \in Thread, NEW u \in Thread, Wake(t, u)
  PROVE  IInv'
<1> DEFINE j == Join(current[u], release[t])
           k == Ticked(j, u)
<1>1. /\ Top \in Clock /\ Later(u, 1) \in Clock /\ Accesses \subseteq Event
      /\ SoundAll(acquire, Thread, Later(u, 1), Accesses)
      /\ SoundAll(release, Thread, Later(u, 1), Accesses)
      /\ SoundAll(store, Atomic, Later(u, 1), Accesses)
      /\ SoundAll(free, Addr, Later(u, 1), Accesses)
  BY AfterTick, 1 \in Nat
<1>2. /\ Sound(current[u], Top, Accesses) /\ Sound(release[t], Top, Accesses)
      /\ current[u][u] = Top[u]
  BY DEF IInv, SoundClocks, SoundAll, Top
<1>3. Sound(j, Top, Accesses) /\ j[u] = Top[u]
  BY <1>1, <1>2, SoundJoin, JoinOwn
<1>4. /\ Sound(k, Later(u, 1), Accesses) /\ k[u] = Later(u, 1)[u]
  <2> DEFINE H == Accesses top == Top
  <2> HIDE DEF j, H, top
  <2>1. /\ H \subseteq Event /\ top \in Clock /\ Sound(j, top, H) /\ j[u] = top[u]
        /\ \A x \in H : x.epoch <= top[x.thread]
    BY <1>1, <1>3 DEF H, top, IInv, PastAccesses
  <2>2. /\ Ticked(j, u)[u] = j[u] + 1
        /\ Sound(Ticked(j, u), [top EXCEPT ![u] = j[u] + 1], H)
    BY <2>1, SoundTick
  <2>3. Later(u, 1) = [top EXCEPT ![u] = j[u] + 1]
    BY <1>1, <1>3 DEF Later, Clock, top
  <2>4. Later(u, 1)[u] = j[u] + 1
    BY <2>1, <2>3 DEF Clock
  <2> QED
    BY <2>2, <2>3, <2>4 DEF H
<1>5. /\ current' = [current EXCEPT ![u] = k]
      /\ epoch' = [epoch EXCEPT ![u] = @ + 1]
      /\ u \in spawned
      /\ UNCHANGED <<spawned, acquire, release, atomics, store, free, accesses, verdict>>
  BY DEF Wake, Active, SetCurrent, TickEpoch, shadow
<1>6. /\ spawned' \subseteq Thread /\ spawned \subseteq spawned' /\ u \in spawned'
      /\ atomics' \in [Atomic -> {"unknown", "live", "dead"}]
      /\ verdict' \in {"none", "DataRace", "InvalidMemoryAccess"}
  BY <1>5 DEF IInv, TypeOK
<1> HIDE DEF k, j
<1> QED
  BY <1>1, <1>4, <1>5, <1>6, ClockStep, 1 \in Nat

(* Operations on atomics that change no clock but the caller's *)
LEMMA SimpleAtomicStep ==
  ASSUME IInv, NEW t \in Thread, NEW a \in Atomic,
         \/ AtomicInit(t, a)
         \/ AtomicDestroy(t, a)
         \/ InvalidAtomicAccess(t, a)
         \/ AtomicDebugLoad(t, a)
  PROVE  IInv'
<1>1. /\ Later(t, 1) \in Clock /\ Accesses \subseteq Event
      /\ \A x \in Accesses : x.epoch > 0
      /\ SoundAll(store, Atomic, Later(t, 1), Accesses)
  BY AfterTick, 1 \in Nat
<1>2. SoundAll([store EXCEPT ![a] = Zero], Atomic, Later(t, 1), Accesses)
  BY <1>1, SoundZero, SoundAssign
<1>3. /\ atomics \in [Atomic -> {"unknown", "live", "dead"}]
      /\ verdict \in {"none", "DataRace", "InvalidMemoryAccess"}
  BY DEF IInv, TypeOK
<1>4. CASE AtomicInit(t, a)
  <2>1. /\ t \in spawned /\ SetCurrent(t, Ticked(current[t], t)) /\ TickEpoch(t, 1)
        /\ UNCHANGED <<spawned, acquire, release, free, accesses, verdict>>
        /\ store' = [store EXCEPT ![a] = Zero]
        /\ atomics' = [atomics EXCEPT ![a] = "live"]
    BY <1>4 DEF AtomicInit, Active
  <2> QED
    BY <1>2, <1>3, <2>1, TickStep
<1>5. CASE AtomicDestroy(t, a)
  <2>1. /\ t \in spawned /\ SetCurrent(t, Ticked(current[t], t)) /\ TickEpoch(t, 1)
        /\ UNCHANGED <<spawned, acquire, release, store, free, accesses, verdict>>
        /\ atomics' = [atomics EXCEPT ![a] = "dead"]
    BY <1>5 DEF AtomicDestroy, Active
  <2> QED
    BY <1>1, <1>3, <2>1, TickStep
<1>6. CASE InvalidAtomicAccess(t, a)
  <2>1. /\ t \in spawned /\ SetCurrent(t, Ticked(current[t], t)) /\ TickEpoch(t, 1)
        /\ UNCHANGED <<spawned, acquire, release, atomics, store, free, accesses>>
        /\ verdict' = "InvalidMemoryAccess"
    BY <1>6 DEF InvalidAtomicAccess, Active, shadow
  <2> QED
    BY <1>1, <1>3, <2>1, TickStep
<1>7. CASE AtomicDebugLoad(t, a)
  <2>1. /\ t \in spawned /\ SetCurrent(t, Ticked(current[t], t)) /\ TickEpoch(t, 1)
        /\ UNCHANGED <<spawned, acquire, release, atomics, store, free, accesses, verdict>>
    BY <1>7 DEF AtomicDebugLoad, Active, shadow
  <2> QED
    BY <1>1, <1>3, <2>1, TickStep
<1> QED
  BY <1>4, <1>5, <1>6, <1>7

(* The caller ticks and acquires the clock p or not. *)
LEMMA AcquireIsSound ==
  ASSUME IInv, NEW t \in Thread, NEW p, NEW acq \in BOOLEAN,
         Sound(p, Later(t, 1), Accesses)
  PROVE  LET k == IF acq THEN Join(Ticked(current[t], t), p) ELSE Ticked(current[t], t)
         IN  Sound(k, Later(t, 1), Accesses) /\ k[t] = Later(t, 1)[t]
<1> DEFINE c == Ticked(current[t], t)
<1>1. /\ Sound(c, Later(t, 1), Accesses) /\ c[t] = current[t][t] + 1
  BY TickIsSound
<1>2. Top \in Clock /\ Later(t, 1) \in Clock /\ Accesses \subseteq Event
  BY AfterTick, 1 \in Nat
<1>3. c[t] = Later(t, 1)[t]
  BY <1>1, <1>2 DEF Later, Top, Clock
<1> HIDE DEF c
<1>4. Sound(Join(c, p), Later(t, 1), Accesses) /\ Join(c, p)[t] = Later(t, 1)[t]
  BY <1>1, <1>2, <1>3, SoundJoin, JoinOwn
<1> QED
  BY <1>1, <1>3, <1>4 DEF c

(* A load takes the clock of the last store: at once, or at the next acquire fence. *)
LEMMA LoadStep ==
  ASSUME IInv, NEW t \in Thread, NEW a \in Atomic, NEW acq \in BOOLEAN,
         AtomicLoad(t, a, acq)
  PROVE  IInv'
<1> DEFINE p == Join(acquire[t], store[a])
           k == IF acq THEN Join(Ticked(current[t], t), p) ELSE Ticked(current[t], t)
<1>1. /\ Later(t, 1) \in Clock /\ Accesses \subseteq Event
      /\ SoundAll(acquire, Thread, Later(t, 1), Accesses)
      /\ SoundAll(release, Thread, Later(t, 1), Accesses)
      /\ SoundAll(store, Atomic, Later(t, 1), Accesses)
      /\ SoundAll(free, Addr, Later(t, 1), Accesses)
  BY AfterTick, 1 \in Nat
<1>2. Sound(p, Later(t, 1), Accesses)
  <2>1. Sound(acquire[t], Later(t, 1), Accesses) /\ Sound(store[a], Later(t, 1), Accesses)
    BY <1>1 DEF SoundAll
  <2> QED
    BY <1>1, <2>1, SoundJoin
<1>3. /\ current' = [current EXCEPT ![t] = k]
      /\ epoch' = [epoch EXCEPT ![t] = @ + 1]
      /\ acquire' = [acquire EXCEPT ![t] = p]
      /\ t \in spawned
      /\ UNCHANGED <<spawned, release, atomics, store, free, accesses, verdict>>
  BY DEF AtomicLoad, Active, SetCurrent, TickEpoch, shadow
<1>4. Sound(k, Later(t, 1), Accesses) /\ k[t] = Later(t, 1)[t]
  BY <1>2, AcquireIsSound
<1>5. SoundAll(acquire', Thread, Later(t, 1), Accesses)
  BY <1>1, <1>2, <1>3, SoundAssign
<1>6. /\ spawned' \subseteq Thread /\ spawned \subseteq spawned' /\ t \in spawned'
      /\ atomics' \in [Atomic -> {"unknown", "live", "dead"}]
      /\ verdict' \in {"none", "DataRace", "InvalidMemoryAccess"}
  BY <1>3 DEF IInv, TypeOK
<1> HIDE DEF k, p
<1> QED
  BY <1>1, <1>3, <1>4, <1>5, <1>6, ClockStep, 1 \in Nat

(* A store leaves the clock of its thread, or that of the last release fence. *)
LEMMA StoreStep ==
  ASSUME IInv, NEW t \in Thread, NEW a \in Atomic, NEW rel \in BOOLEAN,
         AtomicStore(t, a, rel)
  PROVE  IInv'
<1> DEFINE k == Ticked(current[t], t)
           p == ReleaseClock(t, k, rel)
<1>1. /\ Top \in Clock
      /\ SoundAll(acquire, Thread, Later(t, 1), Accesses)
      /\ SoundAll(release, Thread, Later(t, 1), Accesses)
      /\ SoundAll(store, Atomic, Later(t, 1), Accesses)
      /\ SoundAll(free, Addr, Later(t, 1), Accesses)
  BY AfterTick, 1 \in Nat
<1>2. Sound(k, Later(t, 1), Accesses) /\ k[t] = Later(t, 1)[t]
  BY <1>1, TickIsSound DEF Later, Top, Clock
<1>3. Sound(p, Later(t, 1), Accesses)
  BY <1>1, <1>2 DEF ReleaseClock, SoundAll
<1>4. /\ current' = [current EXCEPT ![t] = k]
      /\ epoch' = [epoch EXCEPT ![t] = @ + 1]
      /\ release' = [release EXCEPT ![t] = p]
      /\ store' = [store EXCEPT ![a] = p]
      /\ t \in spawned
      /\ UNCHANGED <<spawned, acquire, atomics, free, accesses, verdict>>
  BY DEF AtomicStore, Active, SetCurrent, TickEpoch
<1>5. /\ SoundAll(release', Thread, Later(t, 1), Accesses)
      /\ SoundAll(store', Atomic, Later(t, 1), Accesses)
  BY <1>1, <1>3, <1>4, SoundAssign
<1>6. /\ spawned' \subseteq Thread /\ spawned \subseteq spawned' /\ t \in spawned'
      /\ atomics' \in [Atomic -> {"unknown", "live", "dead"}]
      /\ verdict' \in {"none", "DataRace", "InvalidMemoryAccess"}
  BY <1>4 DEF IInv, TypeOK
<1> HIDE DEF k, p
<1> QED
  BY <1>1, <1>2, <1>4, <1>5, <1>6, ClockStep, 1 \in Nat

(* A read-modify-write joins its clock with the one it found. *)
LEMMA RmwStep ==
  ASSUME IInv, NEW t \in Thread, NEW a \in Atomic, NEW acq \in BOOLEAN, NEW rel \in BOOLEAN,
         AtomicRmw(t, a, acq, rel)
  PROVE  IInv'
<1> DEFINE p == Join(acquire[t], store[a])
           loaded == IF acq THEN Join(Ticked(current[t], t), p) ELSE Ticked(current[t], t)
           k == Ticked(loaded, t)
           q == ReleaseClock(t, k, rel)
           top1 == Later(t, 1)
           top2 == Later(t, 2)
<1>1. /\ Top \in Clock /\ top1 \in Clock /\ Accesses \subseteq Event
      /\ \A x \in Accesses : x.epoch <= top1[x.thread]
      /\ SoundAll(acquire, Thread, top1, Accesses)
      /\ SoundAll(store, Atomic, top1, Accesses)
  BY AfterTick, 1 \in Nat
<1>2. /\ top2 \in Clock
      /\ SoundAll(acquire, Thread, top2, Accesses)
      /\ SoundAll(release, Thread, top2, Accesses)
      /\ SoundAll(store, Atomic, top2, Accesses)
      /\ SoundAll(free, Addr, top2, Accesses)
  BY AfterTick, 2 \in Nat
<1>3. Sound(p, top1, Accesses) /\ Sound(p, top2, Accesses)
  <2>1. /\ Sound(acquire[t], top1, Accesses) /\ Sound(store[a], top1, Accesses)
        /\ Sound(acquire[t], top2, Accesses) /\ Sound(store[a], top2, Accesses)
    BY <1>1, <1>2 DEF SoundAll
  <2> HIDE DEF top1, top2
  <2> QED
    BY <1>1, <1>2, <2>1, SoundJoin
<1>4. Sound(loaded, top1, Accesses) /\ loaded[t] = top1[t]
  BY <1>3, AcquireIsSound
<1>5. Sound(k, top2, Accesses) /\ k[t] = top2[t]
  <2>1. top2 = [top1 EXCEPT ![t] = loaded[t] + 1] /\ top2[t] = loaded[t] + 1
    BY <1>1, <1>4 DEF Later, Clock
  <2> DEFINE H == Accesses
  <2> HIDE DEF loaded, top1, top2, H
  <2>2. /\ Ticked(loaded, t)[t] = loaded[t] + 1
        /\ Sound(Ticked(loaded, t), [top1 EXCEPT ![t] = loaded[t] + 1], H)
    <3>1. /\ H \subseteq Event /\ \A x \in H : x.epoch <= top1[x.thread]
          /\ Sound(loaded, top1, H)
      BY <1>1, <1>4 DEF H
    <3> QED
      BY <1>1, <1>4, <3>1, SoundTick
  <2> QED
    BY <2>1, <2>2 DEF H
<1>6. Sound(q, top2, Accesses)
  BY <1>2, <1>5 DEF ReleaseClock, SoundAll
<1>7. Sound(CommitClock(a, q), top2, Accesses)
  <2>1. Sound(store[a], top2, Accesses)
    BY <1>2 DEF SoundAll
  <2> HIDE DEF q, top2
  <2> QED
    BY <1>1, <1>2, <1>6, <2>1, SoundJoin DEF CommitClock
<1>8. /\ current' = [current EXCEPT ![t] = k]
      /\ epoch' = [epoch EXCEPT ![t] = @ + 2]
      /\ acquire' = [acquire EXCEPT ![t] = p]
      /\ release' = [release EXCEPT ![t] = q]
      /\ store' = [store EXCEPT ![a] = CommitClock(a, q)]
      /\ t \in spawned
      /\ UNCHANGED <<spawned, atomics, free, accesses, verdict>>
  BY DEF AtomicRmw, Active, SetCurrent, TickEpoch
<1>9. /\ spawned' \subseteq Thread /\ spawned \subseteq spawned' /\ t \in spawned'
      /\ atomics' \in [Atomic -> {"unknown", "live", "dead"}]
      /\ verdict' \in {"none", "DataRace", "InvalidMemoryAccess"}
  BY <1>8 DEF IInv, TypeOK
<1> HIDE DEF p, k, q
<1>10. /\ SoundAll(acquire', Thread, top2, Accesses)
       /\ SoundAll(release', Thread, top2, Accesses)
       /\ SoundAll(store', Atomic, top2, Accesses)
  BY <1>2, <1>3, <1>6, <1>7, <1>8, SoundAssign
<1> QED
  BY <1>2, <1>5, <1>8, <1>9, <1>10, ClockStep, 2 \in Nat

(* A fence moves clocks between what a thread knows and what it offers. *)
LEMMA FenceStep ==
  ASSUME IInv, NEW t \in Thread, NEW acq \in BOOLEAN, NEW rel \in BOOLEAN,
         AtomicThreadFence(t, acq, rel)
  PROVE  IInv'
<1> DEFINE k == IF acq THEN Join(Ticked(current[t], t), acquire[t])
                       ELSE Ticked(current[t], t)
           p == ReleaseClock(t, k, rel)
<1>1. /\ SoundAll(acquire, Thread, Later(t, 1), Accesses)
      /\ SoundAll(release, Thread, Later(t, 1), Accesses)
      /\ SoundAll(store, Atomic, Later(t, 1), Accesses)
      /\ SoundAll(free, Addr, Later(t, 1), Accesses)
  BY AfterTick, 1 \in Nat
<1>2. Sound(k, Later(t, 1), Accesses) /\ k[t] = Later(t, 1)[t]
  BY <1>1, AcquireIsSound DEF SoundAll
<1>3. Sound(p, Later(t, 1), Accesses)
  BY <1>1, <1>2 DEF ReleaseClock, SoundAll
<1>4. /\ current' = [current EXCEPT ![t] = k]
      /\ epoch' = [epoch EXCEPT ![t] = @ + 1]
      /\ release' = [release EXCEPT ![t] = p]
      /\ t \in spawned
      /\ UNCHANGED <<spawned, acquire, atomics, store, free, accesses, verdict>>
  BY DEF AtomicThreadFence, Active, SetCurrent, TickEpoch, shadow
<1>5. SoundAll(release', Thread, Later(t, 1), Accesses)
  BY <1>1, <1>3, <1>4, SoundAssign
<1>6. /\ spawned' \subseteq Thread /\ spawned \subseteq spawned' /\ t \in spawned'
      /\ atomics' \in [Atomic -> {"unknown", "live", "dead"}]
      /\ verdict' \in {"none", "DataRace", "InvalidMemoryAccess"}
  BY <1>4 DEF IInv, TypeOK
<1> HIDE DEF k, p
<1> QED
  BY <1>1, <1>2, <1>4, <1>5, <1>6, ClockStep, 1 \in Nat

(* Malloc of an address learns what the Free of it knew. *)
LEMMA AllocStepKeeps ==
  ASSUME IInv, NEW t \in Thread, NEW m \in Addr, Malloc(t, m) \/ Free(t, m)
  PROVE  IInv'
<1>1. /\ Top \in Clock /\ Later(t, 0) \in Clock /\ Accesses \subseteq Event
      /\ SoundAll(current, Thread, Later(t, 0), Accesses)
      /\ SoundAll(acquire, Thread, Later(t, 0), Accesses)
      /\ SoundAll(release, Thread, Later(t, 0), Accesses)
      /\ SoundAll(store, Atomic, Later(t, 0), Accesses)
      /\ SoundAll(free, Addr, Later(t, 0), Accesses)
  BY AfterTick, 0 \in Nat
<1>2. /\ Sound(current[t], Later(t, 0), Accesses) /\ Sound(free[m], Later(t, 0), Accesses)
      /\ current[t][t] = Later(t, 0)[t]
  <2>1. Sound(current[t], Later(t, 0), Accesses) /\ Sound(free[m], Later(t, 0), Accesses)
    BY <1>1 DEF SoundAll
  <2>2. current[t][t] = Top[t] /\ Top[t] \in Nat
    BY <1>1 DEF Top, Clock
  <2> QED
    BY <1>1, <2>1, <2>2 DEF Later, Clock
<1>3. epoch = [epoch EXCEPT ![t] = @ + 0] /\ current = [current EXCEPT ![t] = current[t]]
  BY DEF IInv, TypeOK
<1>4. /\ spawned \subseteq Thread
      /\ atomics \in [Atomic -> {"unknown", "live", "dead"}]
      /\ verdict \in {"none", "DataRace", "InvalidMemoryAccess"}
  BY DEF IInv, TypeOK
<1>5. CASE Malloc(t, m)
  <2> DEFINE k == Join(current[t], free[m])
  <2>1. Sound(k, Later(t, 0), Accesses) /\ k[t] = Later(t, 0)[t]
    BY <1>1, <1>2, SoundJoin, JoinOwn
  <2>2. /\ current' = [current EXCEPT ![t] = k] /\ t \in spawned
        /\ UNCHANGED <<spawned, acquire, release, epoch, atomics, store, free, accesses,
                       verdict>>
    BY <1>5 DEF Malloc, Active, SetCurrent, shadow
  <2> HIDE DEF k
  <2>3. epoch' = [epoch EXCEPT ![t] = @ + 0]
    BY <1>3, <2>2
  <2> QED
    BY <1>1, <1>4, <2>1, <2>2, <2>3, ClockStep, 0 \in Nat
<1>6. CASE Free(t, m)
  <2>1. /\ free' = [free EXCEPT ![m] = current[t]] /\ t \in spawned
        /\ UNCHANGED <<spawned, current, acquire, release, epoch, atomics, store, accesses,
                       verdict>>
    BY <1>6 DEF Free, FreeClock, Active, clocks, shadow
  <2>2. SoundAll(free', Addr, Later(t, 0), Accesses)
    BY <1>1, <1>2, <2>1, SoundAssign
  <2>3. epoch' = [epoch EXCEPT ![t] = @ + 0] /\ current' = [current EXCEPT ![t] = current[t]]
    BY <1>3, <2>1
  <2> QED
    BY <1>1, <1>2, <1>4, <2>1, <2>2, <2>3, ClockStep, 0 \in Nat
<1> QED
  BY <1>5, <1>6

-----------------------------------------------------------------------------
(* Accesses to non-atomic variables *)

(* The access an accepted step of thread t adds to the history *)
Access(t, write) ==
  [thread |-> t, epoch |-> epoch[t] + 1, write |-> write, clock |-> Ticked(current[t], t)]

(* An access that passes the check is ordered after every conflicting one: the last write
   is known, and with it all that the last write knows. *)
LEMMA CheckCovers ==
  ASSUME IInv, NEW t \in Thread, NEW v \in Var, NEW write \in BOOLEAN,
         vars_state[v] = "unknown" \/ ~Race(t, v, Ticked(current[t], t), write),
         NEW x \in hist[v], x.write \/ write
  PROVE  Ticked(current[t], t)[x.thread] >= x.epoch
<1> DEFINE c == Ticked(current[t], t)
<1>1. /\ c \in Clock /\ c[t] = current[t][t] + 1
      /\ Sound(c, Later(t, 1), Accesses)
  BY TickIsSound
<1>2. vars_state[v] # "unknown" /\ last_write[v] # None /\ \E w \in hist[v] : Covers(w, v)
  BY DEF IInv, LastWriteCovers
<1>3. PICK w \in hist[v] : Covers(w, v)
  BY <1>2
<1>4. /\ w \in Accesses /\ w \in Event /\ w.thread \in Thread /\ w.epoch \in Nat
      /\ w.clock \in Clock /\ w.epoch <= Top[w.thread]
  BY DEF IInv, PastAccesses, Accesses, Event
<1>5. /\ x \in Event /\ x.thread \in Thread /\ x.epoch \in Nat /\ x.epoch > 0
      /\ x.epoch <= Top[x.thread]
  BY DEF IInv, PastAccesses, Accesses, Event
<1>6. Top \in Clock /\ Top[t] = current[t][t]
  BY AfterTick, 0 \in Nat DEF Top
<1> HIDE DEF c
<1>7. c[w.thread] >= w.epoch
  <2>1. CASE w.thread = t
    BY <1>1, <1>4, <1>6, <2>1 DEF Clock
  <2>2. CASE w.thread # t
    BY <1>2, <1>3, <2>2 DEF Race, RaceWithWrite, HappensBefore, Covers, c
  <2> QED
    BY <2>1, <2>2
<1>8. \A u \in Thread : w.clock[u] <= c[u]
  BY <1>1, <1>4, <1>7 DEF Sound
<1>9. CASE w.clock[x.thread] >= x.epoch
  BY <1>1, <1>4, <1>5, <1>8, <1>9 DEF Clock, c
<1>10. CASE ~x.write /\ x.epoch <= last_read[v][x.thread]
  <2>1. last_read[v][x.thread] \in Nat /\ last_read[v][x.thread] > 0
    BY <1>5, <1>10 DEF IInv, TypeOK, Clock
  <2>2. CASE x.thread = t
    BY <1>1, <1>5, <1>6, <2>2 DEF Clock, c
  <2>3. CASE x.thread # t
    <3>1. c[x.thread] >= last_read[v][x.thread]
      BY <1>2, <1>5, <1>10, <2>1, <2>3 DEF Race, RaceWithRead, HappensBefore, c
    <3> QED
      BY <1>1, <1>5, <1>10, <2>1, <3>1 DEF Clock, c
  <2> QED
    BY <2>2, <2>3
<1> QED
  BY <1>3, <1>9, <1>10 DEF Covers

(* An accepted access keeps the clocks sound and the history free of races. *)
LEMMA AccessStep ==
  ASSUME IInv, NEW t \in Thread, NEW v \in Var, NEW write \in BOOLEAN,
         Active(t),
         vars_state[v] = "unknown" \/ ~Race(t, v, Ticked(current[t], t), write),
         SetCurrent(t, Ticked(current[t], t)), TickEpoch(t, 1),
         LogAccess(t, v, Ticked(current[t], t), write),
         UNCHANGED <<spawned, acquire, release, shadow, free, verdict>>,
         last_read' \in [Var -> Clock],
         vars_state' \in [Var -> {"unknown", "live", "dead"}],
         LastWriteCovers'
  PROVE  IInv'
<1> DEFINE c == Ticked(current[t], t)
           e == Access(t, write)
<1>1. /\ c \in Clock /\ c[t] = current[t][t] + 1
      /\ Sound(c, Later(t, 1), Accesses)
  BY TickIsSound
<1>2. /\ Top \in Clock /\ Later(t, 1) \in Clock
      /\ Accesses \subseteq Event
      /\ \A x \in Accesses : x.epoch > 0 /\ x.epoch <= Later(t, 1)[x.thread]
      /\ SoundAll(current, Thread, Later(t, 1), Accesses)
  BY AfterTick, 1 \in Nat
<1>3. /\ current' = [current EXCEPT ![t] = c]
      /\ epoch' = [epoch EXCEPT ![t] = @ + 1]
      /\ hist' = [hist EXCEPT ![v] = @ \cup {e}]
      /\ UNCHANGED <<spawned, acquire, release, atomics, store, free, verdict>>
      /\ t \in spawned
  BY DEF SetCurrent, TickEpoch, LogAccess, shadow, Active, Access
<1>4. epoch[t] = Top[t] /\ epoch \in [Thread -> Nat] /\ current[t][t] = Top[t]
  BY DEF IInv, EpochIsOwnTime, Top, TypeOK
<1>5. /\ e \in Event /\ e.thread = t /\ e.epoch = Top[t] + 1 /\ e.clock = c
      /\ e.write = write /\ e.epoch > 0 /\ Later(t, 1)[t] = e.epoch
  BY <1>1, <1>2, <1>4 DEF Event, Access, Later, Clock
<1> HIDE DEF c, e
<1>6. Top' = Later(t, 1)
  <2>1. Top' = [u \in Thread |-> current'[u][u]]
    BY DEF Top
  <2>2. ASSUME NEW u \in Thread
        PROVE  current'[u][u] = Later(t, 1)[u]
    <3>1. current \in [Thread -> Clock]
      BY DEF IInv, TypeOK
    <3> QED
      BY <1>1, <1>2, <1>3, <3>1 DEF Top, Later, Clock
  <2> QED
    BY <2>1, <2>2, <1>2 DEF Clock
<1>7. hist' \in [Var -> SUBSET Event] /\ Accesses' = Accesses \cup {e}
  <2>1. hist \in [Var -> SUBSET Event]
    BY DEF IInv, TypeOK
  <2>2. hist' \in [Var -> SUBSET Event]
    BY <1>3, <1>5, <2>1
  <2>3. /\ hist'[v] = hist[v] \cup {e}
        /\ \A u \in Var \ {v} : hist'[u] = hist[u]
    BY <1>3, <2>1
  <2>4. ASSUME NEW x
        PROVE  x \in Accesses' <=> x \in Accesses \cup {e}
    BY <2>3 DEF Accesses
  <2> QED
    BY <2>2, <2>4
<1>8. ASSUME NEW f, NEW D, SoundAll(f, D, Top, Accesses)
      PROVE  SoundAll(f, D, Top', Accesses')
  <2>1. ASSUME NEW i \in D
        PROVE  Sound(f[i], Later(t, 1), Accesses \cup {e})
    <3>1. Sound(f[i], Top, Accesses) /\ f[i] \in Clock
      BY <1>8 DEF SoundAll
    <3>2. f[i][t] < e.epoch
      BY <3>1, <1>2, <1>5 DEF Sound, Clock
    <3>3. Sound(f[i], Later(t, 1), Accesses)
      <4>1. \A u \in Thread : Top[u] <= Later(t, 1)[u]
        BY AfterTick, 1 \in Nat
      <4> QED
        BY <3>1, <4>1, <1>2, SoundLater
    <3>4. ~(f[i][t] >= e.epoch)
      BY <3>1, <3>2, <1>2, <1>5 DEF Clock
    <3> QED
      BY <3>3, <3>4, <1>5 DEF Sound
  <2> QED
    BY <1>6, <1>7, <1>8, <2>1 DEF SoundAll
<1>9. Sound(c, Top', Accesses')
  <2>1. \A u \in Thread : e.clock[u] <= c[u]
    BY <1>1, <1>5 DEF Clock
  <2> QED
    BY <1>1, <1>6, <1>7, <2>1 DEF Sound
<1>10. SoundClocks'
  <2>1. /\ SoundAll(current, Thread, Top', Accesses')
        /\ SoundAll(acquire, Thread, Top', Accesses')
        /\ SoundAll(release, Thread, Top', Accesses')
        /\ SoundAll(store, Atomic, Top', Accesses')
        /\ SoundAll(free, Addr, Top', Accesses')
    BY <1>8 DEF IInv, SoundClocks
  <2>2. SoundAll(current', Thread, Top', Accesses')
    BY <1>3, <1>9, <2>1, SoundAssign
  <2> QED
    BY <1>3, <2>1, <2>2 DEF SoundClocks
<1>11. TypeOK'
  <2>1. epoch' \in [Thread -> Nat] /\ current' \in [Thread -> Clock]
    BY <1>1, <1>3 DEF IInv, TypeOK
  <2>2. last_write' \in [Var -> OldAccess \cup {None}]
    BY <1>4 DEF LogAccess, IInv, TypeOK, OldAccess
  <2> QED
    BY <1>3, <1>7, <2>1, <2>2 DEF IInv, TypeOK
<1>12. EpochIsOwnTime'
  <2>1. ASSUME NEW u \in Thread
        PROVE  epoch'[u] = current'[u][u]
    <3>1. epoch[u] = Top[u]
      BY DEF IInv, EpochIsOwnTime, Top
    <3>2. current'[u][u] = Later(t, 1)[u]
      BY <1>6 DEF Top
    <3> QED
      BY <3>1, <3>2, <1>2, <1>3, <1>4 DEF Later, Clock
  <2> QED
    BY <2>1 DEF EpochIsOwnTime
<1>13. UnspawnedIsZero'
  BY <1>3 DEF IInv, UnspawnedIsZero
<1>14. PastAccesses'
  <2>1. e \in Event /\ e.epoch > 0 /\ e.epoch <= Later(t, 1)[e.thread]
    BY <1>2, <1>5 DEF Clock
  <2> QED
    BY <1>2, <1>6, <1>7, <2>1 DEF PastAccesses
<1>15. NoRaceIsMissed'
  <2>1. ASSUME NEW u \in Var, NEW x \in hist'[u], NEW y \in hist'[u], x.write \/ y.write
        PROVE  Ordered(x, y)
    <3>1. hist \in [Var -> SUBSET Event]
      BY DEF IInv, TypeOK
    <3>2. CASE x \in hist[u] /\ y \in hist[u]
      BY <2>1, <3>2 DEF IInv, NoRaceIsMissed
    <3>3. CASE u = v /\ x \in hist[v] /\ y = e
      BY <1>5, <2>1, <3>3, CheckCovers DEF Ordered, HappensBefore, c
    <3>4. CASE u = v /\ x = e /\ y \in hist[v]
      BY <1>5, <2>1, <3>4, CheckCovers DEF Ordered, HappensBefore, c
    <3>5. CASE x = e /\ y = e
      BY <3>5 DEF Ordered
    <3> QED
      BY <1>3, <3>1, <3>2, <3>3, <3>4, <3>5
  <2> QED
    BY <2>1 DEF NoRaceIsMissed, Ordered, HappensBefore
<1> QED
  BY <1>10, <1>11, <1>12, <1>13, <1>14, <1>15 DEF IInv

(* After a write or an initialization the new access covers the variable. *)
LEMMA WriteCovers ==
  ASSUME IInv, NEW t \in Thread, NEW v \in Var,
         vars_state[v] = "unknown" \/ ~Race(t, v, Ticked(current[t], t), TRUE),
         LogAccess(t, v, Ticked(current[t], t), TRUE),
         \A u \in Var \ {v} : last_read'[u] = last_read[u] /\ vars_state'[u] = vars_state[u],
         vars_state'[v] # "unknown"
  PROVE  LastWriteCovers'
<1> DEFINE c == Ticked(current[t], t)
           e == Access(t, TRUE)
<1>1. /\ hist' = [hist EXCEPT ![v] = @ \cup {e}]
      /\ last_write' = [last_write EXCEPT ![v] = [thread |-> t, epoch |-> epoch[t] + 1]]
  BY DEF LogAccess, Access
<1>2. /\ e.thread = t /\ e.epoch = epoch[t] + 1 /\ e.clock = c
      /\ c[t] = epoch[t] + 1 /\ epoch[t] \in Nat
  BY TickIsSound DEF Access, IInv, EpochIsOwnTime, TypeOK
<1>3. \A x \in hist[v] : c[x.thread] >= x.epoch
  BY CheckCovers
<1> HIDE DEF c, e
<1>4. hist \in [Var -> SUBSET Event] /\ last_write \in [Var -> OldAccess \cup {None}]
  BY DEF IInv, TypeOK
<1>5. ASSUME NEW u \in Var \ {v}
      PROVE  \/ /\ vars_state'[u] = "unknown" /\ last_write'[u] = None
                /\ hist'[u] = {}
             \/ /\ vars_state'[u] # "unknown" /\ last_write'[u] # None
                /\ \E w \in hist'[u] : Covers(w, u)'
  <2>1. /\ hist'[u] = hist[u] /\ last_write'[u] = last_write[u]
        /\ last_read'[u] = last_read[u] /\ vars_state'[u] = vars_state[u]
    BY <1>1, <1>4
  <2> QED
    BY <2>1 DEF IInv, LastWriteCovers, Covers
<1>6. last_write'[v] # None
  <2>1. last_write'[v] = [thread |-> t, epoch |-> epoch[t] + 1]
    BY <1>1, <1>4
  <2>2. last_write'[v] \in [thread : Thread, epoch : Nat]
    BY <1>2, <2>1
  <2> QED
    BY <2>2, MemoryModelAssumption
<1>7. PICK w : w = e
  OBVIOUS
<1>8. w \in hist'[v] /\ Covers(w, v)'
  <2>1. hist'[v] = hist[v] \cup {e}
    BY <1>1, <1>4
  <2>2. last_write'[v] = [thread |-> w.thread, epoch |-> w.epoch]
    BY <1>1, <1>2, <1>4, <1>7
  <2>3. \A x \in hist'[v] : w.clock[x.thread] >= x.epoch
    BY <1>2, <1>3, <1>7, <2>1
  <2> QED
    BY <1>7, <2>1, <2>2, <2>3 DEF Covers
<1> QED
  BY <1>5, <1>6, <1>8 DEF LastWriteCovers

(* After a read the last write covers what it covered, and last_read the read. *)
LEMMA ReadCovers ==
  ASSUME IInv, NEW t \in Thread, NEW v \in Var, vars_state[v] # "unknown",
         LogAccess(t, v, Ticked(current[t], t), FALSE),
         last_read' = [last_read EXCEPT ![v] = [@ EXCEPT ![t] = epoch[t] + 1]],
         UNCHANGED vars_state
  PROVE  LastWriteCovers'
<1> DEFINE e == Access(t, FALSE)
<1>1. hist' = [hist EXCEPT ![v] = @ \cup {e}] /\ last_write' = last_write
  BY DEF LogAccess, Access
<1>2. /\ e.thread = t /\ e.epoch = epoch[t] + 1 /\ ~e.write /\ epoch[t] \in Nat
      /\ epoch[t] = Top[t]
  BY DEF Access, IInv, EpochIsOwnTime, TypeOK, Top
<1> HIDE DEF e
<1>3. hist \in [Var -> SUBSET Event] /\ last_read \in [Var -> Clock]
  BY DEF IInv, TypeOK
<1>4. ASSUME NEW u \in Var \ {v}
      PROVE  \/ /\ vars_state'[u] = "unknown" /\ last_write'[u] = None
                /\ hist'[u] = {}
             \/ /\ vars_state'[u] # "unknown" /\ last_write'[u] # None
                /\ \E w \in hist'[u] : Covers(w, u)'
  <2>1. hist'[u] = hist[u] /\ last_read'[u] = last_read[u]
    BY <1>1, <1>3
  <2> QED
    BY <1>1, <2>1 DEF IInv, LastWriteCovers, Covers
<1>5. last_write[v] # None /\ \E w \in hist[v] : Covers(w, v)
  BY DEF IInv, LastWriteCovers
<1>6. PICK w \in hist[v] : Covers(w, v)
  BY <1>5
<1>7. hist'[v] = hist[v] \cup {e} /\ last_read'[v] = [last_read[v] EXCEPT ![t] = epoch[t] + 1]
  BY <1>1, <1>3
<1>8. ASSUME NEW x \in hist'[v]
      PROVE  \/ w.clock[x.thread] >= x.epoch
             \/ ~x.write /\ x.epoch <= last_read'[v][x.thread]
  <2>1. CASE x = e
    <3>1. last_read'[v][t] = epoch[t] + 1
      BY <1>3, <1>7 DEF Clock
    <3> QED
      BY <1>2, <2>1, <3>1
  <2>2. CASE x \in hist[v]
    <3>1. x.thread \in Thread /\ x.epoch \in Nat /\ x.epoch <= Top[x.thread]
      BY <2>2 DEF IInv, PastAccesses, Accesses, Event
    <3>2. last_read'[v][x.thread] = IF x.thread = t THEN epoch[t] + 1
                                                    ELSE last_read[v][x.thread]
      BY <1>3, <1>7, <3>1 DEF Clock
    <3>3. x.thread = t => x.epoch <= last_read'[v][x.thread]
      BY <1>2, <3>1, <3>2
    <3> QED
      BY <1>6, <2>2, <3>2, <3>3 DEF Covers
  <2> QED
    BY <1>7, <2>1, <2>2
<1>9. Covers(w, v)'
  <2>1. w \in hist'[v]
    BY <1>7
  <2> QED
    BY <1>1, <1>6, <1>8, <2>1 DEF Covers
<1> QED
  BY <1>1, <1>4, <1>5, <1>7, <1>9 DEF LastWriteCovers

(* Accesses of shared variables: a read or a write that passes the check is ordered. *)
LEMMA VarStepKeeps ==
  ASSUME IInv, NEW t \in Thread, VarStep(t)
  PROVE  IInv'
<1>1. /\ last_read \in [Var -> Clock]
      /\ vars_state \in [Var -> {"unknown", "live", "dead"}]
      /\ atomics \in [Atomic -> {"unknown", "live", "dead"}]
      /\ verdict \in {"none", "DataRace", "InvalidMemoryAccess"}
      /\ epoch[t] \in Nat /\ Zero \in Clock
  BY DEF IInv, TypeOK, Zero, Clock
<1>2. SoundAll(store, Atomic, Later(t, 1), Accesses)
  BY AfterTick, 1 \in Nat
<1>3. ASSUME NEW v \in Var, InitVar(t, v)
      PROVE  IInv'
  <2>1. /\ Active(t) /\ SetCurrent(t, Ticked(current[t], t)) /\ TickEpoch(t, 1)
        /\ vars_state[v] = "unknown" \/ ~Race(t, v, Ticked(current[t], t), TRUE)
        /\ LogAccess(t, v, Ticked(current[t], t), TRUE)
        /\ last_read' = [last_read EXCEPT ![v] = Zero]
        /\ vars_state' = [vars_state EXCEPT ![v] = "live"]
        /\ UNCHANGED <<spawned, acquire, release, shadow, free, verdict>>
    BY <1>3 DEF InitVar
  <2>2. /\ \A u \in Var \ {v} : last_read'[u] = last_read[u] /\ vars_state'[u] = vars_state[u]
        /\ vars_state'[v] # "unknown"
    BY <1>1, <2>1
  <2>3. /\ last_read' \in [Var -> Clock]
        /\ vars_state' \in [Var -> {"unknown", "live", "dead"}]
    BY <1>1, <2>1
  <2>4. LastWriteCovers'
    BY <2>1, <2>2, WriteCovers
  <2> QED
    BY <2>1, <2>3, <2>4, AccessStep
<1>4. ASSUME NEW v \in Var, ReadVar(t, v)
      PROVE  IInv'
  <2>1. /\ Active(t) /\ SetCurrent(t, Ticked(current[t], t)) /\ TickEpoch(t, 1)
        /\ vars_state[v] # "unknown" /\ ~Race(t, v, Ticked(current[t], t), FALSE)
        /\ LogAccess(t, v, Ticked(current[t], t), FALSE)
        /\ last_read' = [last_read EXCEPT ![v] = [@ EXCEPT ![t] = epoch[t] + 1]]
        /\ UNCHANGED <<spawned, acquire, release, shadow, free, vars_state, verdict>>
    BY <1>4 DEF ReadVar
  <2>2. /\ last_read' \in [Var -> Clock]
        /\ vars_state' \in [Var -> {"unknown", "live", "dead"}]
    BY <1>1, <2>1 DEF Clock
  <2>3. LastWriteCovers'
    BY <2>1, ReadCovers
  <2> QED
    BY <2>1, <2>2, <2>3, AccessStep
<1>5. ASSUME NEW v \in Var, NEW destroy \in BOOLEAN, WriteVar(t, v, destroy)
      PROVE  IInv'
  <2>1. /\ Active(t) /\ SetCurrent(t, Ticked(current[t], t)) /\ TickEpoch(t, 1)
        /\ vars_state[v] # "unknown" /\ ~Race(t, v, Ticked(current[t], t), TRUE)
        /\ LogAccess(t, v, Ticked(current[t], t), TRUE)
        /\ vars_state' = IF destroy THEN [vars_state EXCEPT ![v] = "dead"] ELSE vars_state
        /\ UNCHANGED <<spawned, acquire, release, shadow, free, last_read, verdict>>
    BY <1>5 DEF WriteVar
  <2>2. /\ \A u \in Var \ {v} : last_read'[u] = last_read[u] /\ vars_state'[u] = vars_state[u]
        /\ vars_state'[v] # "unknown"
    BY <1>1, <2>1
  <2>3. /\ last_read' \in [Var -> Clock]
        /\ vars_state' \in [Var -> {"unknown", "live", "dead"}]
    BY <1>1, <2>1
  <2>4. LastWriteCovers'
    BY <2>1, <2>2, WriteCovers
  <2> QED
    BY <2>1, <2>3, <2>4, AccessStep
<1>6. ASSUME NEW v \in Var, NEW init \in BOOLEAN, InvalidVarAccess(t, v, init)
      PROVE  IInv'
  <2>1. /\ t \in spawned /\ SetCurrent(t, Ticked(current[t], t)) /\ TickEpoch(t, 1)
        /\ verdict' = "InvalidMemoryAccess"
        /\ UNCHANGED <<spawned, acquire, release, atomics, store, free, accesses>>
    BY <1>6 DEF InvalidVarAccess, Active, shadow
  <2> QED
    BY <1>1, <1>2, <2>1, TickStep
<1>7. ASSUME NEW v \in Var, NEW write \in BOOLEAN, DataRace(t, v, write)
      PROVE  IInv'
  <2>1. /\ t \in spawned /\ SetCurrent(t, Ticked(current[t], t)) /\ TickEpoch(t, 1)
        /\ verdict' = "DataRace"
        /\ UNCHANGED <<spawned, acquire, release, atomics, store, free, accesses>>
    BY <1>7 DEF DataRace, Active, shadow
  <2> QED
    BY <1>1, <1>2, <2>1, TickStep
<1> QED
  BY <1>3, <1>4, <1>5, <1>6, <1>7 DEF VarStep

-----------------------------------------------------------------------------
(* The inductive invariant holds: the race detector's clocks are sound and its last write
   covers what it has forgotten. *)
THEOREM DetectorInvariant == Spec => []IInv
<1>1. Init => IInv
  <2> SUFFICES ASSUME Init PROVE IInv
    OBVIOUS
  <2>1. Zero \in Clock
    BY DEF Zero, Clock
  <2>2. TypeOK
    BY <2>1, MemoryModelAssumption DEF Init, TypeOK
  <2>3. EpochIsOwnTime /\ UnspawnedIsZero /\ NoRaceIsMissed /\ LastWriteCovers
    BY DEF Init, EpochIsOwnTime, UnspawnedIsZero, NoRaceIsMissed, LastWriteCovers, Zero
  <2>4. Accesses = {} /\ PastAccesses
    BY DEF Init, Accesses, PastAccesses
  <2>5. Top \in Clock
    BY <2>2 DEF TypeOK, Top, Clock
  <2>6. Sound(Zero, Top, Accesses)
    BY <2>4, <2>5, SoundZero
  <2>7. SoundClocks
    BY <2>1, <2>6 DEF Init, SoundClocks, SoundAll
  <2> QED
    BY <2>2, <2>3, <2>4, <2>7 DEF IInv
<1>2. IInv /\ [Next]_vars => IInv'
  <2> SUFFICES ASSUME IInv, [Next]_vars PROVE IInv'
    OBVIOUS
  <2>1. CASE Next
    <3>1. PICK t \in Thread : ThreadStep(t) \/ AtomicStep(t) \/ VarStep(t) \/ AllocStep(t)
      BY <2>1 DEF Next
    <3>2. CASE ThreadStep(t)
      BY <3>2, SpawnStep, WakeStep, FenceStep DEF ThreadStep
    <3>3. CASE AtomicStep(t)
      BY <3>3, SimpleAtomicStep, LoadStep, StoreStep, RmwStep DEF AtomicStep
    <3>4. CASE VarStep(t)
      BY <3>4, VarStepKeeps
    <3>5. CASE AllocStep(t)
      BY <3>5, AllocStepKeeps DEF AllocStep
    <3> QED
      BY <3>1, <3>2, <3>3, <3>4, <3>5
  <2>2. CASE UNCHANGED vars
    <3>1. UNCHANGED <<spawned, current, acquire, release, epoch, atomics, store, free,
                      last_write, last_read, vars_state, hist, verdict>>
      BY <2>2 DEF vars, clocks, shadow, accesses
    <3>2. Top' = Top /\ Accesses' = Accesses
      BY <3>1 DEF Top, Accesses
    <3>3. TypeOK' /\ EpochIsOwnTime' /\ UnspawnedIsZero'
      BY <3>1 DEF IInv, TypeOK, EpochIsOwnTime, UnspawnedIsZero
    <3>4. PastAccesses' /\ SoundClocks'
      BY <3>1, <3>2 DEF IInv, PastAccesses, SoundClocks
    <3>5. LastWriteCovers' /\ NoRaceIsMissed'
      BY <3>1 DEF IInv, LastWriteCovers, Covers, NoRaceIsMissed, Ordered
    <3> QED
      BY <3>3, <3>4, <3>5 DEF IInv
  <2> QED
    BY <2>1, <2>2
<1> QED
  BY <1>1, <1>2, PTL DEF Spec

(* The memory model is type correct. *)
THEOREM MemoryModelTypeCorrect == Spec => []TypeOK
<1>1. IInv => TypeOK
  BY DEF IInv
<1> QED
  BY <1>1, DetectorInvariant, PTL

(* The epoch an access is logged with is the thread's own entry of its clock. *)
THEOREM EpochsAreOwnTime == Spec => []EpochIsOwnTime
<1>1. IInv => EpochIsOwnTime
  BY DEF IInv
<1> QED
  BY <1>1, DetectorInvariant, PTL

(* No clock is ahead of the thread it speaks of. *)
THEOREM ClocksAreNotAhead == Spec => []NoClockFromTheFuture
<1>1. IInv => NoClockFromTheFuture
  BY DEF IInv, SoundClocks, SoundAll, Sound, NoClockFromTheFuture, AllClocks, Top
<1> QED
  BY <1>1, DetectorInvariant, PTL

(* A clock that includes an access includes all that happened before it. *)
THEOREM ClocksAreTransitive == Spec => []KnowledgeIsTransitive
<1>1. IInv => KnowledgeIsTransitive
  <2> SUFFICES ASSUME IInv, NEW v \in Var, NEW x \in hist[v], NEW c \in AllClocks
               PROVE  HappensBefore(x.thread, x.epoch, c) =>
                        \A u \in Thread : x.clock[u] <= c[u]
    BY DEF KnowledgeIsTransitive
  <2>1. x \in Accesses
    BY DEF Accesses
  <2>2. Sound(c, Top, Accesses)
    BY DEF IInv, SoundClocks, SoundAll, AllClocks
  <2> QED
    BY <2>1, <2>2 DEF Sound, HappensBefore
<1> QED
  BY <1>1, DetectorInvariant, PTL

(* The clocks that the detector compares accesses with are sound. *)
THEOREM DetectorClocksAreSound == Spec => []ClocksAreSound
BY EpochsAreOwnTime, ClocksAreNotAhead, ClocksAreTransitive, PTL DEF ClocksAreSound

(* Any two conflicting accesses that the detector let pass are ordered by the clocks. *)
THEOREM RacesAreNotMissed == Spec => []NoRaceIsMissed
<1>1. IInv => NoRaceIsMissed
  BY DEF IInv
<1> QED
  BY <1>1, DetectorInvariant, PTL
=============================================================================
