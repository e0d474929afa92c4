------------------------------ MODULE MCThreads ------------------------------
(***************************************************************************)
(* Threads and their handles, a WaitGroup, and a condition variable of the *)
(* simulator; the condition variable and the adversary of tests in real    *)
(* threads: each behaviour is one of one of them.                          *)
(***************************************************************************)
EXTENDS ThreadHandle

CONSTANTS
  GroupThread, Joiner,                        \* of the WaitGroup
  CvThread, Width, MaxPuts,                   \* of the condition variable
  RtThread,                                   \* real threads,
  Producer, Consumer, MaxRtPuts,              \* ... of FaultyCondVar,
  Limit, MaxOps                               \* ... of the adversary

VARIABLES part,
  gValue, gStored, gWaiters, gCurrent, gAcquire, gRelease, added, group, stage,
  cValue, cStored, cWaiters, cCurrent, cAcquire, cRelease, cPc, old, deadline, holder, items, puts,
  fPc, fHolder, guard, fQueue, node, asleep, timeout, woken, batch, key, fItems, fPuts,
  aPc, ops, park, mutex, seen, count, suspended, aQueue, ready

waitGroup == <<gValue, gStored, gWaiters, gCurrent, gAcquire, gRelease, added, group, stage>>
condVar == <<cValue, cStored, cWaiters, cCurrent, cAcquire, cRelease, cPc, old, deadline, holder, items,
             puts>>
faultyCondVar == <<fPc, fHolder, guard, fQueue, node, asleep, timeout, woken, batch, key, fItems, fPuts>>
adversary == <<aPc, ops, park, mutex, seen, count, suspended, aQueue, ready>>

G == INSTANCE WaitGroup WITH
       Thread <- GroupThread, Loc <- {"left", "done"},
       value <- gValue, stored <- gStored, waiters <- gWaiters,
       current <- gCurrent, acquire <- gAcquire, release <- gRelease

C == INSTANCE CondVar WITH
       Thread <- CvThread, Loc <- {"count"}, Count <- "count", pc <- cPc,
       value <- cValue, stored <- cStored, waiters <- cWaiters,
       current <- cCurrent, acquire <- cAcquire, release <- cRelease

F == INSTANCE FaultyCondVar WITH
       Thread <- RtThread, MaxPuts <- MaxRtPuts,
       pc <- fPc, holder <- fHolder, queue <- fQueue,
       items <- fItems, puts <- fPuts

A == INSTANCE LockFreeAdversary WITH
       Thread <- RtThread, pc <- aPc, guard <- mutex, queue <- aQueue

ASSUME WaitGroupAssumption == G!WaitGroupConstants
ASSUME CondVarAssumption == C!CondVarConstants
ASSUME FaultyCondVarAssumption == F!FaultyCondVarConstants

MCInit ==
  /\ part \in {"thread", "wait_group", "condition_variable", "faulty_condvar", "adversary"}
  /\ Init /\ G!Init /\ C!Init /\ F!Init /\ A!Init

\* The programs of the condition variables end in a step of their own; the others just end.
MCNext ==
  \/ part = "thread" /\ Next /\ UNCHANGED <<part, waitGroup, condVar, faultyCondVar, adversary>>
  \/ part = "wait_group" /\ G!Next /\ UNCHANGED <<part, vars, condVar, faultyCondVar, adversary>>
  \/ part = "condition_variable" /\ C!Next /\ UNCHANGED <<part, vars, waitGroup, faultyCondVar, adversary>>
  \/ part = "faulty_condvar" /\ F!Next /\ UNCHANGED <<part, vars, waitGroup, condVar, adversary>>
  \/ part = "adversary" /\ A!Next /\ UNCHANGED <<part, vars, waitGroup, condVar, faultyCondVar>>
  \/ /\ part \in {"thread", "wait_group", "adversary"}
     /\ UNCHANGED <<part, vars, waitGroup, condVar, faultyCondVar, adversary>>

\* The fairness of ThreadHandle, of WaitGroup and of LockFreeAdversary, each of its own part
MCSpec ==
  /\ MCInit /\ [][MCNext]_<<part, vars, waitGroup, condVar, faultyCondVar, adversary>>
  /\ \A t \in Thread :
       /\ WF_vars(part = "thread" /\ Step(t))
       /\ WF_vars(part = "thread" /\ (Call(t) \/ AtThreadExit(t)))
  /\ WF_waitGroup(part = "wait_group" /\ (G!SpawnAll \/ G!CheckDone))
  /\ \A u \in GroupThread : WF_waitGroup(part = "wait_group" /\ G!Exit(u))
  /\ \A u \in RtThread : WF_adversary(part = "adversary" /\ A!Step(u))

\* See WaitGroup.
GroupIsJoined == G!GroupIsJoined

\* The join of a thread and the join of a group return, see ThreadHandle and WaitGroup.
AllJoinsReturn == JoinsReturn /\ G!GroupJoinReturns

\* See CondVar and FaultyCondVar.
NoLostNotify == C!NoLostNotify /\ F!NoLostNotify

\* See FaultyCondVar.
NodesAreAlive == F!NodesAreAlive

\* See LockFreeAdversary.
SuspendedAreResumed == A!SuspendedAreResumed
==============================================================================
