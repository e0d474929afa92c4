------------------------------- MODULE SyncVar -------------------------------
(***************************************************************************)
(* Class SyncVar of twist/rt/sim/user/library/std_like/sync_var.hpp: the   *)
(* 32-bit atomic, with its futex, from which the replacements of the std   *)
(* primitives are built; and what the simulator does for its operations.   *)
(*                                                                         *)
(* A step of a thread is what it does between two points where it may be   *)
(* preempted: SysSync puts it back into the run queue BEFORE the atomic    *)
(* operation, so that the operation, a FutexWake after it and a FutexWait  *)
(* at the end are one step.                                                *)
(*                                                                         *)
(* The vector clocks of the memory model (module MemoryModel) are kept as  *)
(* the sets of those events that a clock knows: Join is union.             *)
(***************************************************************************)
EXTENDS Integers

CONSTANTS
  Thread,
  Loc       \* the locations of the SyncVars

VARIABLES
  value,    \* last_store.value
  stored,   \* last_store.clock
  waiters,  \* the threads parked on the futex
  current,  \* sync.clock.current of every thread
  acquire,  \* sync.clock.acquire
  release   \* sync.clock.release

syncVars == <<value, stored, waiters, current, acquire, release>>

SyncTypeOK ==
  /\ value \in [Loc -> Nat]
  /\ stored \in [Loc -> SUBSET Nat]
  /\ waiters \in [Loc -> SUBSET Thread]
  /\ current \in [Thread -> SUBSET Nat]
  /\ acquire \in [Thread -> SUBSET Nat]
  /\ release \in [Thread -> SUBSET Nat]

SyncInit(v) ==
  /\ value = v
  /\ stored = [l \in Loc |-> {}]
  /\ waiters = [l \in Loc |-> {}]
  /\ current = [t \in Thread |-> {}]
  /\ acquire = [t \in Thread |-> {}]
  /\ release = [t \in Thread |-> {}]

(* The current clocks after a step of t that leaves it with clock c and, its release clock
   being r, wakes the threads S: SeqCstMemoryModel::Wake. *)
Clocks(t, c, r, S) ==
  [u \in Thread |-> IF u = t THEN c
                    ELSE IF u \in S THEN current[u] \cup r
                    ELSE current[u]]

(* AtomicLoad, and a compare_exchange that fails. *)
Load(t, l, acq) ==
  /\ acquire' = [acquire EXCEPT ![t] = @ \cup stored[l]]
  /\ current' = [current EXCEPT ![t] =
                   IF acq THEN @ \cup acquire[t] \cup stored[l] ELSE @]
  /\ UNCHANGED <<value, stored, release>>

(* AtomicStore of v, then a FutexWake that wakes S. *)
Store(t, l, v, rel, S) ==
  LET r == IF rel THEN current[t] ELSE release[t] IN
  /\ value' = [value EXCEPT ![l] = v]
  /\ stored' = [stored EXCEPT ![l] = r]
  /\ release' = [release EXCEPT ![t] = r]
  /\ current' = Clocks(t, current[t], r, S)
  /\ UNCHANGED acquire

(* AtomicRmwLoad and AtomicRmwCommit of v, then a FutexWake that wakes S. *)
Rmw(t, l, v, acq, rel, S) ==
  LET c == IF acq THEN current[t] \cup acquire[t] \cup stored[l] ELSE current[t]
      r == IF rel THEN c ELSE release[t]
  IN
  /\ value' = [value EXCEPT ![l] = v]
  /\ stored' = [stored EXCEPT ![l] = @ \cup r]
  /\ acquire' = [acquire EXCEPT ![t] = @ \cup stored[l]]
  /\ release' = [release EXCEPT ![t] = r]
  /\ current' = Clocks(t, c, r, S)

(* The sets of threads FutexWake(l, 1) may wake: the scheduler chooses the waiter. *)
WakeOne(l) == IF waiters[l] = {} THEN {{}} ELSE {{u} : u \in waiters[l]}

(* The waiters left once S has been woken *)
Woken(l, S) == [waiters EXCEPT ![l] = @ \ S]

(* FutexWait(l, old) at the end of a step, W being the waiters so far.  It parks the thread
   if the value is still old and there is no spurious wake-up. *)
FutexWait(t, l, old, spurious, W) ==
  waiters' = IF value'[l] = old /\ ~spurious THEN [W EXCEPT ![l] = @ \cup {t}] ELSE W

IsParked(t) == \E l \in Loc : t \in waiters[l]
=============================================================================
