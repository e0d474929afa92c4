----------------------------- MODULE TimedMutex -----------------------------
(***************************************************************************)
(* Classes TimedMutexImpl and timed_mutex of                               *)
(* twist/rt/sim/user/library/std_like/timed_mutex.hpp.  Unlike mutex it    *)
(* keeps no contention count: every unlock makes a FutexWake.  The timed   *)
(* calls look at the clock between two waits and wait without a timeout.   *)
(***************************************************************************)
EXTENDS SyncVar

CONSTANTS
  Locked,    \* TimedMutexImpl::locked_
  MaxLocks,  \* bound on the number of times the mutex is taken
  None

TimedMutexConstants ==
  /\ Locked \in Loc
  /\ None \notin Thread
  /\ MaxLocks \in Nat

VARIABLES
  pc,        \* where each thread is, see PC
  deadline,  \* of a timed call: "none", or whether it has passed
  owner,     \* owner_.id_
  locks      \* the number of times the mutex was taken

vars == <<syncVars, pc, deadline, owner, locks>>

PC == {"idle", "exchange", "timed", "cas", "held", "store"}

Goto(t, l) == pc' = [pc EXCEPT ![t] = l]

Holders == {t \in Thread : pc[t] \in {"held", "store"}}

Init ==
  /\ SyncInit([l \in Loc |-> 0])
  /\ pc = [t \in Thread |-> "idle"]
  /\ deadline = [t \in Thread |-> "none"]
  /\ owner = None
  /\ locks = 0

-----------------------------------------------------------------------------
Enter(t, l, d) ==
  /\ pc[t] = "idle"
  /\ locks < MaxLocks
  /\ deadline' = [deadline EXCEPT ![t] = d]
  /\ Goto(t, l)
  /\ UNCHANGED <<syncVars, owner, locks>>

lock(t) == Enter(t, "exchange", "none")
try_lock(t) == Enter(t, "cas", "none")

(* try_lock_for, try_lock_until *)
try_lock_for(t) == Enter(t, "timed", "armed")

DeadlinePasses(t) ==
  /\ deadline[t] = "armed"
  /\ deadline' = [deadline EXCEPT ![t] = "passed"]
  /\ UNCHANGED <<syncVars, pc, owner, locks>>

(* The exchange of Lock or TryLockTimed takes the mutex, even after the deadline; so does
   the compare_exchange of TryLock. *)
Free_Ignored == TRUE

Free == value[Locked] = 0

Acquire(t) ==
  /\ pc[t] \in {"exchange", "timed", "cas"}
  /\ ~IsParked(t)
  /\ Free
  /\ Rmw(t, Locked, 1, TRUE, FALSE, {})
  /\ owner' = t
  /\ locks' = locks + 1
  /\ deadline' = [deadline EXCEPT ![t] = "none"]
  /\ Goto(t, "held")
  /\ UNCHANGED waiters

(* Lock and TryLockTimed wait; only the futex type of the latter, MutexTryLock, is
   vulnerable to spurious wake-ups.  The loop goes back to the exchange. *)
Wait(t, spurious) ==
  /\ pc[t] \in {"exchange", "timed"}
  /\ ~IsParked(t)
  /\ value[Locked] = 1
  /\ deadline[t] # "passed"
  /\ spurious => pc[t] = "timed"
  /\ Rmw(t, Locked, 1, TRUE, FALSE, {})
  /\ FutexWait(t, Locked, 1, spurious, waiters)
  /\ UNCHANGED <<pc, deadline, owner, locks>>

(* TryLockTimed finds the mutex locked after the deadline and returns false. *)
TimesOut(t) ==
  /\ pc[t] = "timed"
  /\ ~IsParked(t)
  /\ value[Locked] = 1
  /\ deadline[t] = "passed"
  /\ Rmw(t, Locked, 1, TRUE, FALSE, {})
  /\ deadline' = [deadline EXCEPT ![t] = "none"]
  /\ Goto(t, "idle")
  /\ UNCHANGED <<waiters, owner, locks>>

(* TryLock: the mutex is locked, or the failure is spurious. *)
TryLockFails(t) ==
  /\ pc[t] = "cas"
  /\ Load(t, Locked, FALSE)
  /\ Goto(t, "idle")
  /\ UNCHANGED <<waiters, deadline, owner, locks>>

(* unlock(): owner_.Unlock(), up to the store *)
unlock(t) ==
  /\ pc[t] = "held"
  /\ owner' = None
  /\ Goto(t, "store")
  /\ UNCHANGED <<syncVars, deadline, locks>>

(* Unlock: the store, FutexWake(1) *)
ToWake_None == {{}}

ToWake == WakeOne(Locked)

Unlock(t) ==
  /\ pc[t] = "store"
  /\ \E S \in ToWake :
       /\ Store(t, Locked, 0, TRUE, S)
       /\ waiters' = Woken(Locked, S)
  /\ Goto(t, "idle")
  /\ UNCHANGED <<deadline, owner, locks>>

-----------------------------------------------------------------------------
(* What the user decides: to call, and for how long to hold the mutex *)
Call(t) == lock(t) \/ try_lock(t) \/ try_lock_for(t) \/ unlock(t)

(* What the library and the simulator do *)
Step(t) ==
  \/ Acquire(t) \/ \E spurious \in BOOLEAN : Wait(t, spurious)
  \/ TimesOut(t) \/ TryLockFails(t) \/ Unlock(t)

(* The bound is reached, and no call is in progress. *)
Finished ==
  /\ locks >= MaxLocks
  /\ \A t \in Thread : pc[t] = "idle"
  /\ UNCHANGED vars

Next == (\E t \in Thread : Call(t) \/ Step(t) \/ DeadlinePasses(t)) \/ Finished

Spec == Init /\ [][Next]_vars

(* Runnable threads are picked in the end and time goes on; a thread may hold the mutex for
   as long as it likes, and in particular wait for another thread meanwhile. *)
FairSpec == Spec /\ \A t \in Thread : WF_vars(Step(t)) /\ WF_vars(DeadlinePasses(t))

-----------------------------------------------------------------------------
(* Type invariant *)
TypeOK ==
  /\ SyncTypeOK
  /\ pc \in [Thread -> PC]
  /\ deadline \in [Thread -> {"none", "armed", "passed"}]
  /\ owner \in Thread \cup {None}
  /\ locks \in Nat

(* One thread at a time, whose id MutexOwner has: timed_mutex is a lock. *)
Abstract == INSTANCE RwLockSpec WITH writers <- Holders, readers <- {}
ImplementsTimedLock == Abstract!Spec

(* No wake-up is lost, although a timed call may be woken, find the mutex taken by a third
   thread, and give up: when the mutex is free and a thread is parked, another one is on its
   way to the exchange. *)
NoLostTimedWakeup ==
  Free /\ waiters[Locked] # {} =>
    \E t \in Thread : pc[t] \in {"exchange", "timed"} /\ ~IsParked(t)

(* try_lock_for() and try_lock_until() return once their deadline has passed. *)
TimedCallsReturn == \A t \in Thread : pc[t] = "timed" ~> pc[t] # "timed"
=============================================================================
