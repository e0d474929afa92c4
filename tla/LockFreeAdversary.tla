-------------------------- MODULE LockFreeAdversary --------------------------
(***************************************************************************)
(* Class LockFreeAdversary of twist/rt/thr/fault/adversary/lockfree.cpp.   *)
(* In tests of lock-free code in real threads it suspends threads at their *)
(* accesses to shared memory, for as long as others make progress.  The    *)
(* counters of threads and of suspended threads are atomics, changed       *)
(* outside of mutex_ too; the queue of suspended threads changes under it. *)
(*                                                                         *)
(* Threads interleave at every access to shared memory.  Whether one of    *)
(* the random events happens (RandomEvent::Test) is a free choice.         *)
(***************************************************************************)
EXTENDS Naturals, FiniteSets

CONSTANTS
  Thread,
  Limit,    \* suspended_thread_limit_
  MaxOps,   \* bound: the faults and reports of progress of one thread
  None

VARIABLES
  pc,         \* where each thread is
  ops,        \* its faults and reports of progress so far
  park,       \* ThreadInfo::park_
  guard,      \* who holds mutex_
  seen,       \* suspended_thread_count_ as the holder of mutex_ has read it
  count,      \* thread_count_
  suspended,  \* suspended_thread_count_
  queue,      \* suspended_threads_
  ready       \* threads whose event is set: OneShotEvent::ready_

vars == <<pc, ops, park, guard, seen, count, suspended, queue, ready>>

Goto(t, l) == pc' = [pc EXCEPT ![t] = l]

Init ==
  /\ pc = [t \in Thread |-> "new"]
  /\ ops = [t \in Thread |-> 0]
  /\ park = [t \in Thread |-> 0]
  /\ guard = None /\ seen = 0
  /\ count = 0 /\ suspended = 0
  /\ queue = {} /\ ready = {}

-----------------------------------------------------------------------------
Enter(t) ==
  /\ pc[t] = "new"
  /\ count' = count + 1
  /\ Goto(t, "run")
  /\ UNCHANGED <<ops, park, guard, seen, suspended, queue, ready>>

\* EnablePark, DisablePark: scopes are not nested here.
SetPark(t) ==
  /\ pc[t] = "run"
  /\ park' = [park EXCEPT ![t] = 1 - @]
  /\ UNCHANGED <<pc, ops, guard, seen, count, suspended, queue, ready>>

\* Fault, when suspend_ fires in a thread that may be parked
Fault(t) ==
  /\ pc[t] = "run" /\ ops[t] < MaxOps /\ park[t] > 0
  /\ ops' = [ops EXCEPT ![t] = @ + 1]
  /\ Goto(t, "suspend")
  /\ UNCHANGED <<park, guard, seen, count, suspended, queue, ready>>

\* SuspendThisThread: the limit, and the left operand of the comparison that follows
CheckLimit(t) ==
  /\ pc[t] = "suspend" /\ guard = None
  /\ IF suspended >= Limit
     THEN Goto(t, "run") /\ UNCHANGED <<guard, seen>>
     ELSE guard' = t /\ seen' = suspended /\ Goto(t, "compare")
  /\ UNCHANGED <<ops, park, count, suspended, queue, ready>>

\* At least one thread should run.
IsLastRunning_OffByOne == seen >= count

IsLastRunning == seen + 1 >= count

\* ... the right operand, and either the return or the place in the queue
Suspend(t) ==
  /\ pc[t] = "compare"
  /\ guard' = None /\ seen' = 0
  /\ IF IsLastRunning
     THEN Goto(t, "run") /\ UNCHANGED <<suspended, queue>>
     ELSE Goto(t, "await") /\ suspended' = suspended + 1 /\ queue' = queue \cup {t}
  /\ UNCHANGED <<ops, park, count, ready>>

\* Await returns; the counter follows later than the queue, and without mutex_.
Resumed(t) ==
  /\ pc[t] = "await" /\ t \in ready
  /\ ready' = ready \ {t}
  /\ suspended' = suspended - 1
  /\ Goto(t, "run")
  /\ UNCHANGED <<ops, park, guard, seen, count, queue>>

\* ReportProgress, when resume_ fires
ReportProgress(t) ==
  /\ pc[t] = "run" /\ ops[t] < MaxOps /\ suspended > 0
  /\ ops' = [ops EXCEPT ![t] = @ + 1]
  /\ Goto(t, "resume")
  /\ UNCHANGED <<park, guard, seen, count, suspended, queue, ready>>

Exit(t) ==
  /\ pc[t] = "run"
  /\ count' = count - 1
  /\ Goto(t, "exit")
  /\ UNCHANGED <<ops, park, guard, seen, suspended, queue, ready>>

\* ResumeThread of a report or of an exit: ResumeRandomThread, under mutex_
ResumeThread(t) ==
  /\ pc[t] \in {"resume", "exit"} /\ guard = None
  /\ \/ queue = {} /\ UNCHANGED <<queue, ready>>
     \/ \E w \in queue : queue' = queue \ {w} /\ ready' = ready \cup {w}
  /\ Goto(t, IF pc[t] = "resume" THEN "run" ELSE "exited")
  /\ UNCHANGED <<ops, park, guard, seen, count, suspended>>

-----------------------------------------------------------------------------
\* What a thread of a finite program does in the end, when it is not suspended
Step(t) ==
  Enter(t) \/ CheckLimit(t) \/ Suspend(t) \/ Resumed(t) \/ Exit(t) \/ ResumeThread(t)

Next == \E t \in Thread : Step(t) \/ SetPark(t) \/ Fault(t) \/ ReportProgress(t)

\* The system runs every thread that is not blocked.
FairSpec == Init /\ [][Next]_vars /\ \A t \in Thread : WF_vars(Step(t))

-----------------------------------------------------------------------------
\* When threads are suspended, they and the others run to their end all the same, in a program
\* that needs nothing else for that: whenever one exits, somebody is resumed or nobody is suspended, although the
\* counters that decide who may be suspended change while the decision is made. (That the counter
\* is 0 when all threads have exited is the WHEELS_VERIFY of PrintReport.)
SuspendedAreResumed ==
  /\ (queue # {}) ~> (\A t \in Thread : pc[t] = "exited")
  /\ []((\A t \in Thread : pc[t] = "exited") => suspended = 0)
==============================================================================
