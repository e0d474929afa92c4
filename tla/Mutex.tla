-------------------------------- MODULE Mutex --------------------------------
(***************************************************************************)
(* Classes MutexImpl and mutex of                                          *)
(* twist/rt/sim/user/library/std_like/mutex.hpp, used by threads that      *)
(* lock, try to lock and unlock it in any order.                           *)
(*                                                                         *)
(* A lock() that finds the mutex locked parks on the futex of locked_ in   *)
(* the same step, after it has counted itself in contention_; unlock()     *)
(* looks at contention_ to see whether a FutexWake is needed.              *)
(*                                                                         *)
(* The critical sections are numbered in the order in which they end; a    *)
(* clock knows a section when everything in it happens before what comes   *)
(* next in the thread.                                                     *)
(***************************************************************************)
EXTENDS SyncVar, FiniteSets

CONSTANTS
  Locked,       \* MutexImpl::locked_
  MaxSections,  \* bound: no lock() is called once so many sections have ended
  None

ASSUME MutexAssumption ==
  /\ Locked \in Loc
  /\ None \notin Thread
  /\ IsFiniteSet(Thread)
  /\ MaxSections \in Nat

VARIABLES
  pc,           \* where each thread is, see PC
  contention,   \* contention_
  owner,        \* owner_.id_
  sections      \* the number of critical sections that have ended

vars == <<syncVars, pc, contention, owner, sections>>

PC == {"idle", "exchange", "wait", "cas", "held", "store"}

Goto(t, l) == pc' = [pc EXCEPT ![t] = l]

(* The threads between a failed exchange and the --contention_ that follows the wait *)
Contending == {t \in Thread : pc[t] = "wait"}

Holders == {t \in Thread : pc[t] \in {"held", "store"}}

Init ==
  /\ SyncInit([l \in Loc |-> 0])
  /\ pc = [t \in Thread |-> "idle"]
  /\ contention = 0
  /\ owner = None
  /\ sections = 0

-----------------------------------------------------------------------------
(* lock(), up to the exchange *)
lock(t) ==
  /\ pc[t] = "idle"
  /\ sections < MaxSections
  /\ Goto(t, "exchange")
  /\ UNCHANGED <<syncVars, contention, owner, sections>>

(* The exchange takes the mutex, *)
LockSucceeds(t) ==
  /\ pc[t] = "exchange"
  /\ value[Locked] = 0
  /\ Rmw(t, Locked, 1, TRUE, FALSE, {})
  /\ owner' = t
  /\ Goto(t, "held")
  /\ UNCHANGED <<waiters, contention, sections>>

(* ... or finds it locked: ++contention_, FutexWait. *)
Contend_Flag == 1

Contend == contention + 1

LockFails(t) ==
  /\ pc[t] = "exchange"
  /\ value[Locked] = 1
  /\ Rmw(t, Locked, 1, TRUE, FALSE, {})
  /\ contention' = Contend
  /\ FutexWait(t, Locked, 1, FALSE, waiters)
  /\ Goto(t, "wait")
  /\ UNCHANGED <<owner, sections>>

(* FutexWait returns: --contention_, next turn of the loop. *)
LockRetries(t) ==
  /\ pc[t] = "wait"
  /\ ~IsParked(t)
  /\ contention' = contention - 1
  /\ Goto(t, "exchange")
  /\ UNCHANGED <<syncVars, owner, sections>>

(* try_lock(), up to the compare_exchange_weak *)
try_lock(t) ==
  /\ pc[t] = "idle"
  /\ sections < MaxSections
  /\ Goto(t, "cas")
  /\ UNCHANGED <<syncVars, contention, owner, sections>>

TryLockValue_Ignored == TRUE

TryLockValue == value[Locked] = 0

TryLockSucceeds(t) ==
  /\ pc[t] = "cas"
  /\ TryLockValue
  /\ Rmw(t, Locked, 1, TRUE, FALSE, {})
  /\ owner' = t
  /\ Goto(t, "held")
  /\ UNCHANGED <<waiters, contention, sections>>

(* The mutex is locked, or the failure is spurious. *)
TryLockFails(t) ==
  /\ pc[t] = "cas"
  /\ Load(t, Locked, FALSE)
  /\ Goto(t, "idle")
  /\ UNCHANGED <<waiters, contention, owner, sections>>

(* unlock(): owner_.Unlock(), up to the store; the critical section ends. *)
unlock(t) ==
  /\ pc[t] = "held"
  /\ owner' = None
  /\ sections' = sections + 1
  /\ current' = [current EXCEPT ![t] = @ \cup {sections + 1}]
  /\ Goto(t, "store")
  /\ UNCHANGED <<value, stored, waiters, acquire, release, contention>>

(* The store of Unlock() is a release operation. *)
UnlockOrder_Relaxed == FALSE

UnlockOrder == TRUE

(* The store; FutexWake(1) if a thread has announced itself. *)
ToWake_Never == {{}}

ToWake == IF contention > 0 THEN WakeOne(Locked) ELSE {{}}

Unlock(t) ==
  /\ pc[t] = "store"
  /\ \E S \in ToWake :
       /\ Store(t, Locked, 0, UnlockOrder, S)
       /\ waiters' = Woken(Locked, S)
  /\ Goto(t, "idle")
  /\ UNCHANGED <<contention, owner, sections>>

-----------------------------------------------------------------------------
(* Calls the thread makes of its own will, and the steps of a call in progress *)
Call(t) == lock(t) \/ try_lock(t)

Step(t) ==
  \/ LockSucceeds(t) \/ LockFails(t) \/ LockRetries(t)
  \/ TryLockSucceeds(t) \/ TryLockFails(t)
  \/ unlock(t) \/ Unlock(t)

(* The bound is reached, and no call is in progress. *)
Finished ==
  /\ sections >= MaxSections
  /\ \A t \in Thread : pc[t] = "idle"
  /\ UNCHANGED vars

Next == (\E t \in Thread : Call(t) \/ Step(t)) \/ Finished

Spec == Init /\ [][Next]_vars

(* A thread in the run queue is picked in the end (the random schedulers, with probability
   one), and critical sections are finite. *)
FairSpec == Spec /\ \A t \in Thread : WF_vars(Step(t))

-----------------------------------------------------------------------------
(* Type invariant; contention_ counts the threads in the loop of Lock(). *)
TypeOK ==
  /\ SyncTypeOK
  /\ value[Locked] \in {0, 1}
  /\ pc \in [Thread -> PC]
  /\ contention \in Nat
  /\ owner \in Thread \cup {None}
  /\ sections \in Nat

(* MutexOwner never fails its check for the thread that holds the mutex: the owner is the
   one thread in its critical section, and nobody while the mutex is free or is being
   released.  Mutual exclusion follows. *)
OwnerHolds ==
  /\ \A t \in Thread : owner = t <=> pc[t] = "held"
  /\ value[Locked] = 0 <=> Holders = {}
  /\ \A t, u \in Holders : t = u

(* contention_, a plain integer shared by all threads, counts the threads that wait and
   those that were woken and have not run yet: it does not underflow, and 0 means that
   Unlock() may leave out the FutexWake. *)
ContentionCounts == contention = Cardinality(Contending)

(* The word, the owner and the counter, which are changed one after the other, tell the same
   story at every point where a thread can be preempted. *)
WordIsExact == OwnerHolds /\ ContentionCounts

(* No wake-up is lost: when the mutex is free and a thread is parked on it, another one is
   on its way to the exchange, and will wake it when it unlocks. *)
NoLostWakeup ==
  value[Locked] = 0 /\ waiters[Locked] # {} =>
    \E t \in Thread : \/ pc[t] = "exchange"
                      \/ pc[t] = "wait" /\ ~IsParked(t)

(* Critical sections are ordered by happens-before: the thread in its critical section
   knows every section before, whether it got the mutex at once, after a wait, or with
   try_lock().  Otherwise the race detector would report accesses the mutex protects. *)
SectionsAreOrdered ==
  \A t \in Thread : pc[t] = "held" => 1 .. sections \subseteq current[t]

(* The mutex is a lock. *)
Abstract == INSTANCE RwLockSpec WITH writers <- Holders, readers <- {}
ImplementsLock == Abstract!Spec

(* When threads want the mutex, one of them gets it: nobody sleeps on a free mutex. *)
LockIsGranted ==
  (\E t \in Thread : pc[t] \in {"exchange", "wait"}) ~> (\E t \in Thread : pc[t] = "held")
=============================================================================
