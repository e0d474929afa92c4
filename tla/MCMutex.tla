------------------------------- MODULE MCMutex -------------------------------
(***************************************************************************)
(* mutex and timed_mutex: each behaviour uses one of them.                 *)
(***************************************************************************)
EXTENDS Mutex

CONSTANTS
  TimedThread,  \* the threads that use the timed_mutex
  MaxLocks

VARIABLES part, tValue, tStored, tWaiters, tCurrent, tAcquire, tRelease, tPc, deadline, tOwner, locks

timed == <<tValue, tStored, tWaiters, tCurrent, tAcquire, tRelease, tPc, deadline, tOwner, locks>>

T == INSTANCE TimedMutex WITH
       Thread <- TimedThread,
       value <- tValue, stored <- tStored, waiters <- tWaiters, current <- tCurrent,
       acquire <- tAcquire, release <- tRelease, pc <- tPc, owner <- tOwner

ASSUME TimedAssumption == T!TimedMutexConstants

MCInit == part \in {"mutex", "timed_mutex"} /\ Init /\ T!Init

MCNext ==
  \/ part = "mutex" /\ Next /\ UNCHANGED <<part, timed>>
  \/ part = "timed_mutex" /\ T!Next /\ UNCHANGED <<part, vars>>

MCSpec ==
  MCInit /\ [][MCNext]_<<part, vars, timed>> /\ \A t \in Thread : WF_vars(Step(t))

\* See TimedMutex.
NoLostTimedWakeup == T!NoLostTimedWakeup

\* See TimedMutex.
ImplementsTimedLock == T!ImplementsTimedLock
==============================================================================
