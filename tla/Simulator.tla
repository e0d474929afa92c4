------------------------------ MODULE Simulator ------------------------------
(***************************************************************************)
(* The kernel of the deterministic simulation runtime: class Simulator of  *)
(* twist/rt/sim/system/simulator.cpp.  One OS thread runs the loop; user   *)
(* threads are stackful contexts that the loop resumes one at a time and   *)
(* that come back with a system call.  The model keeps the thread table,   *)
(* the run queue, the futex wait queues, the timer queue and the control   *)
(* of the loop; it is composed with the most general user program: a       *)
(* running thread may make any system call at any time.                    *)
(*                                                                         *)
(* Abstractions.  The scheduler (interface IScheduler) picks ANY thread of *)
(* the run queue and any waiter of a futex, and may suspend a thread that  *)
(* is about to execute an atomic operation (ThreadState::LfSuspended).     *)
(* Time is kept relative to Time::Now(): when[t] is Timer::when - Now().   *)
(* The value comparison of FutexWait is a free choice; the modules of the  *)
(* user library (Mutex, ...) keep the values.                              *)
(***************************************************************************)
EXTENDS Integers, FiniteSets

CONSTANTS
  Thread,             \* thread ids, at most kMaxThreads of them
  Main,               \* the main thread
  Loc,                \* futex keys
  Deadline,           \* deadlines user threads ask for, relative to Now()
  Tick,               \* Params::tick, in units of Timer::when
  MaintenancePeriod,  \* 8 in the code: Maintenance() runs when (iter_ & 7) == 0
  None                \* a null pointer

ASSUME SimulatorAssumption ==
  /\ Main \in Thread
  /\ None \notin Thread
  /\ None \notin Loc
  /\ Deadline \subseteq Int
  /\ Tick \in Nat \ {0}
  /\ MaintenancePeriod \in Nat \ {0}

VARIABLES
  phase,     \* where RunLoop() is, see Phase
  iter,      \* iter_ modulo MaintenancePeriod
  running,   \* running_
  runq,      \* the scheduler's run queue
  state,     \* Thread::state
  action,    \* whether Thread::action is set: a sync action waits for CompleteSync
  futex,     \* Thread::futex
  timer,     \* Thread::timer: "none", or the kind of timer it points to
  waiters,   \* Futex::waiters
  timerq,    \* the owners of the timers in timer_queue_
  when,      \* Timer::when - Now(), of the owners in timerq
  detached,  \* threads whose parent_id has been reset
  status     \* status_ of the simulation

vars == <<phase, iter, running, runq, state, action, futex, timer, waiters,
          timerq, when, detached, status>>

Phase == {"loop", "maintenance", "pick", "run", "poll", "polled", "advanced",
          "stopped", "done", "panic"}

ThreadState == {"Unborn", "Starting", "Runnable", "Running", "Sleeping",
                "LfSuspended", "Parked", "Destroyed"}

TimerKind == {"none", "sleep", "futex"}

Status == {"unset", "Ok", "Deadlock", "MemoryLeak", "Aborted"}

(* alive_ *)
alive == {t \in Thread : state[t] \notin {"Unborn", "Destroyed"}}

IsIdle == runq = {}

IsDeadlock_NoTimers == IsIdle /\ alive # {}

IsDeadlock == IsIdle /\ timerq = {} /\ alive # {}

(***************************************************************************)
(* TimerHeap keeps its minimum on top as long as it never holds more than  *)
(* five timers (module TimerHeap); a thread owns at most one timer.  With  *)
(* more threads the top of the heap may be any timer.                      *)
(***************************************************************************)
HeapIsOrdered == Cardinality(Thread) <= 5

(* TimerHeap::Min(): the timers that may be on top. *)
MinTimers ==
  IF HeapIsOrdered
    THEN {t \in timerq : \A u \in timerq : when[t] <= when[u]}
    ELSE timerq

ToTicks_RoundDown(d) == d \div Tick

(* Time::ToTicks: rounds up. *)
ToTicks(d) == (d \div Tick) + (IF d % Tick # 0 THEN 1 ELSE 0)

NextIter_TwicePeriod(i) == (i + 1) % (2 * MaintenancePeriod)

NextIter(i) == (i + 1) % MaintenancePeriod

-----------------------------------------------------------------------------
(* Init(), StartLoop(), SpawnMainThread() *)
Init ==
  /\ phase = "loop"
  /\ iter = 0
  /\ running = None
  /\ runq = {Main}
  /\ state = [t \in Thread |-> IF t = Main THEN "Starting" ELSE "Unborn"]
  /\ action = [t \in Thread |-> FALSE]
  /\ futex = [t \in Thread |-> None]
  /\ timer = [t \in Thread |-> "none"]
  /\ waiters = [l \in Loc |-> {}]
  /\ timerq = {}
  /\ when = [t \in Thread |-> 0]
  /\ detached = {}
  /\ status = "unset"

(***************************************************************************)
(* Wake: reset the waiters' state and hand them to the scheduler           *)
(* (ScheduleWaiter).                                                       *)
(***************************************************************************)
Wake_NotScheduled(S) ==
  /\ state' = [t \in Thread |-> IF t \in S THEN "Runnable" ELSE state[t]]
  /\ futex' = [t \in Thread |-> IF t \in S THEN None ELSE futex[t]]
  /\ timer' = [t \in Thread |-> IF t \in S THEN "none" ELSE timer[t]]
  /\ UNCHANGED runq

Wake(S) ==
  /\ state' = [t \in Thread |-> IF t \in S THEN "Runnable" ELSE state[t]]
  /\ futex' = [t \in Thread |-> IF t \in S THEN None ELSE futex[t]]
  /\ timer' = [t \in Thread |-> IF t \in S THEN "none" ELSE timer[t]]
  /\ runq' = runq \cup S

(* The timers CancelTimer takes out of the queue when the threads S are woken
   by FutexWake. *)
Cancelled(S) == {t \in S : timer[t] # "none"}

(* WaitQueue::Remove of a thread whose wait timed out, or that is burnt. *)
Unwait_Forgotten(S) == waiters

Unwait(S) == [l \in Loc |-> waiters[l] \ {t \in S : futex[t] = l}]

(* Burn(Thread* ): out of the run queue, the timer queue and the futex queue,
   then DestroyThread. *)
BurnTimers_Forgotten(S) == {}

BurnTimers(S) == {t \in S : timer[t] # "none"}

Burn(S) ==
  /\ runq' = runq \ S
  /\ timerq' = timerq \ BurnTimers(S)
  /\ waiters' = Unwait(S)
  /\ state' = [t \in Thread |-> IF t \in S THEN "Destroyed" ELSE state[t]]
  /\ futex' = [t \in Thread |-> IF t \in S THEN None ELSE futex[t]]
  /\ timer' = [t \in Thread |-> IF t \in S THEN "none" ELSE timer[t]]
  /\ action' = [t \in Thread |-> IF t \in S THEN FALSE ELSE action[t]]
  /\ detached' = detached \ S

(* _SysAbort throws, RunLoop catches and burns every thread. *)
Abort(s) ==
  /\ Burn(alive)
  /\ status' = s
  /\ running' = None
  /\ phase' = "stopped"
  /\ UNCHANGED <<iter, when>>

-----------------------------------------------------------------------------
(* The run loop *)

(* Iter(): count, tick; Maintenance() every MaintenancePeriod iterations. *)
Iter ==
  /\ phase = "loop" /\ ~IsIdle
  /\ iter' = NextIter(iter)
  /\ when' = [t \in Thread |-> IF t \in timerq THEN when[t] - Tick ELSE 0]
  /\ phase' = IF iter' = 0 THEN "maintenance" ELSE "pick"
  /\ UNCHANGED <<running, runq, state, action, futex, timer, waiters, timerq,
                 detached, status>>

(* The phases in which PollTimers() loops. *)
Polling == {"maintenance", "poll", "polled", "advanced"}

(* One turn of PollTimers(): the top timer has expired, its Alarm() wakes the
   sleeper (SleepTimer) or times the waiter out (FutexTimer). *)
Alarm(t) ==
  /\ phase \in Polling
  /\ t \in MinTimers
  /\ when[t] <= 0
  /\ timerq' = timerq \ {t}
  /\ waiters' = IF timer[t] = "futex" THEN Unwait({t}) ELSE waiters
  /\ Wake({t})
  /\ phase' = IF phase = "poll" THEN "polled" ELSE phase
  /\ UNCHANGED <<iter, running, action, when, detached, status>>

NoneExpired == timerq = {} \/ \E t \in MinTimers : when[t] > 0

(* The end of the loop of PollTimers(): Maintenance() goes on to PickNext(),
   Idle() returns true. *)
PollDone ==
  /\ phase \in Polling \ {"poll"}
  /\ NoneExpired
  /\ phase' = IF phase = "maintenance" THEN "pick" ELSE "loop"
  /\ UNCHANGED <<iter, running, runq, state, action, futex, timer, waiters,
                 timerq, when, detached, status>>

(* Idle(): nothing had expired, so time jumps to NextDeadLine(). *)
AdvanceTo ==
  /\ phase = "poll"
  /\ \E t \in MinTimers :
       /\ when[t] > 0
       /\ when' = [u \in Thread |->
                     IF u \in timerq THEN when[u] - ToTicks(when[t]) * Tick
                                     ELSE 0]
  /\ phase' = "advanced"
  /\ UNCHANGED <<iter, running, runq, state, action, futex, timer, waiters,
                 timerq, detached, status>>

(* What PickNext leaves in the run queue *)
Picked(t) == runq \ {t}

(* PickNext(), CompleteSync(), Run() *)
PickNext(t) ==
  /\ phase = "pick"
  /\ t \in runq
  /\ runq' = Picked(t)
  /\ action' = [action EXCEPT ![t] = FALSE]
  /\ state' = [state EXCEPT ![t] = "Running"]
  /\ running' = t
  /\ phase' = "run"
  /\ UNCHANGED <<iter, futex, timer, waiters, timerq, when, detached, status>>

(* Idle(): CheckDeadlock() aborts the simulation, *)
Deadlock ==
  /\ phase = "loop" /\ IsDeadlock
  /\ Abort("Deadlock")

(* ... the loop stops when nothing is left to wait for, or polls the timers. *)
Idle ==
  /\ phase = "loop" /\ IsIdle /\ ~IsDeadlock
  /\ phase' = IF timerq = {} THEN "stopped" ELSE "poll"
  /\ UNCHANGED <<iter, running, runq, state, action, futex, timer, waiters,
                 timerq, when, detached, status>>

StopLoop ==
  /\ phase = "stopped"
  /\ phase' = "done"
  /\ UNCHANGED <<iter, running, runq, state, action, futex, timer, waiters,
                 timerq, when, detached, status>>

(* The public Burn(), called between two calls of RunFor() (DetCheckSim). *)
BurnAll ==
  /\ phase = "loop"
  /\ Burn(alive)
  /\ phase' = "done"
  /\ UNCHANGED <<iter, running, when, status>>

-----------------------------------------------------------------------------
(* System calls that resume the caller *)

Caller(t) == phase = "run" /\ running = t

(* SysSpawn: the child starts in the run queue. *)
SysSpawn(t, c) ==
  /\ Caller(t)
  /\ state[c] = "Unborn"
  /\ state' = [state EXCEPT ![c] = "Starting"]
  /\ runq' = runq \cup {c}
  /\ UNCHANGED <<phase, iter, running, action, futex, timer, waiters, timerq,
                 when, detached, status>>

(* SysDetach: no-op for a thread that is no longer alive. *)
SysDetach(t, c) ==
  /\ Caller(t)
  /\ c # Main
  /\ c \in alive
  /\ detached' = detached \cup {c}
  /\ UNCHANGED <<phase, iter, running, runq, state, action, futex, timer,
                 waiters, timerq, when, status>>

(* SysFutexWake, with count 1 and count All. *)
SysFutexWake(t, l, count) ==
  /\ Caller(t)
  /\ \E S \in SUBSET waiters[l] :
       /\ IF count = 1 THEN Cardinality(S) = (IF waiters[l] = {} THEN 0 ELSE 1)
                       ELSE S = waiters[l]
       /\ waiters' = [waiters EXCEPT ![l] = @ \ S]
       /\ timerq' = timerq \ Cancelled(S)
       /\ Wake(S)
  /\ UNCHANGED <<phase, iter, running, action, when, detached, status>>

(* SysSetThreadAttrLockFree, SysSchedHintProgress: the scheduler may resume a
   thread it has suspended. *)
SysHint(t, s) ==
  /\ Caller(t)
  /\ state[s] = "LfSuspended"
  /\ state' = [state EXCEPT ![s] = "Runnable"]
  /\ runq' = runq \cup {s}
  /\ UNCHANGED <<phase, iter, running, action, futex, timer, waiters, timerq,
                 when, detached, status>>

-----------------------------------------------------------------------------
(* System calls that suspend the caller *)

Suspend(t) == Caller(t) /\ running' = None /\ phase' = "loop"

SysYield(t) ==
  /\ Suspend(t)
  /\ runq' = runq \cup {t}
  /\ UNCHANGED <<iter, state, action, futex, timer, waiters, timerq, when,
                 detached, status>>

(* SysSync: the action waits for CompleteSync; IScheduler::Interrupt keeps the
   thread in the run queue or suspends it. *)
SysSync(t, suspend) ==
  /\ Suspend(t)
  /\ action' = [action EXCEPT ![t] = TRUE]
  /\ IF suspend
       THEN /\ state' = [state EXCEPT ![t] = "LfSuspended"]
            /\ UNCHANGED runq
       ELSE /\ runq' = runq \cup {t}
            /\ UNCHANGED state
  /\ UNCHANGED <<iter, futex, timer, waiters, timerq, when, detached, status>>

(* SysSleepUntil *)
SysSleep(t, d) ==
  /\ Suspend(t)
  /\ timerq' = timerq \cup {t}
  /\ when' = [when EXCEPT ![t] = d]
  /\ state' = [state EXCEPT ![t] = "Sleeping"]
  /\ futex' = [futex EXCEPT ![t] = None]
  /\ timer' = [timer EXCEPT ![t] = "sleep"]
  /\ UNCHANGED <<iter, runq, action, waiters, detached, status>>

(* SysFutexWait(Timed) that does not park: a spurious wake-up, or the value
   differs from the expected one. *)
FutexWaitReturns(t) ==
  /\ Suspend(t)
  /\ runq' = runq \cup {t}
  /\ UNCHANGED <<iter, state, action, futex, timer, waiters, timerq, when,
                 detached, status>>

(* SysFutexWait *)
FutexWait(t, l) ==
  /\ Suspend(t)
  /\ waiters' = [waiters EXCEPT ![l] = @ \cup {t}]
  /\ state' = [state EXCEPT ![t] = "Parked"]
  /\ futex' = [futex EXCEPT ![t] = l]
  /\ UNCHANGED <<iter, runq, action, timer, timerq, when, detached, status>>

(* SysFutexWaitTimed *)
FutexWaitTimed(t, l, d) ==
  /\ Suspend(t)
  /\ waiters' = [waiters EXCEPT ![l] = @ \cup {t}]
  /\ timerq' = timerq \cup {t}
  /\ when' = [when EXCEPT ![t] = d]
  /\ state' = [state EXCEPT ![t] = "Parked"]
  /\ futex' = [futex EXCEPT ![t] = l]
  /\ timer' = [timer EXCEPT ![t] = "futex"]
  /\ UNCHANGED <<iter, runq, action, detached, status>>

(* SysAbort, and the aborts of data races, failed assertions, ... *)
SysAbort(t) == Caller(t) /\ Abort("Aborted")

(* SysThreadExit of a thread that is not the main thread. *)
SysThreadExit(t) ==
  /\ Suspend(t)
  /\ t # Main
  /\ state' = [state EXCEPT ![t] = "Destroyed"]
  /\ detached' = detached \ {t}
  /\ UNCHANGED <<iter, runq, action, futex, timer, waiters, timerq, when,
                 status>>

(* MainCompleted: BurnDetachedThreads takes the threads without a parent. *)
Leftover == alive \ (detached \cup {Main})

(* SysThreadExit of the main thread: MainCompleted() burns the detached threads,
   panics when others are alive, and checks for leaks if none was burnt. *)
MainExit(leak) ==
  /\ Caller(Main)
  /\ Burn({Main} \cup detached)
  /\ running' = None
  /\ \/ /\ Leftover # {}
        /\ ~leak
        /\ phase' = "panic"
        /\ UNCHANGED status
     \/ /\ Leftover = {}
        /\ leak /\ detached = {}
        /\ status' = "MemoryLeak"
        /\ phase' = "stopped"
     \/ /\ Leftover = {}
        /\ ~leak
        /\ status' = "Ok"
        /\ phase' = "loop"
  /\ UNCHANGED <<iter, when>>

-----------------------------------------------------------------------------
(* The loop's own steps *)
LoopStep ==
  \/ Iter
  \/ \E t \in Thread : Alarm(t)
  \/ PollDone
  \/ AdvanceTo
  \/ \E t \in Thread : PickNext(t)
  \/ Deadlock
  \/ Idle
  \/ StopLoop

(* System calls that give control back to the loop *)
SuspendStep ==
  \E t \in Thread :
    \/ SysYield(t)
    \/ \E suspend \in BOOLEAN : SysSync(t, suspend)
    \/ \E d \in Deadline : SysSleep(t, d)
    \/ FutexWaitReturns(t)
    \/ \E l \in Loc : FutexWait(t, l)
    \/ \E l \in Loc, d \in Deadline : FutexWaitTimed(t, l, d)
    \/ SysAbort(t)
    \/ SysThreadExit(t)

ExitStep == \E leak \in BOOLEAN : MainExit(leak)

ResumeStep ==
  \E t \in Thread :
    \/ \E c \in Thread : SysSpawn(t, c)
    \/ \E c \in Thread : SysDetach(t, c)
    \/ \E l \in Loc, count \in {0, 1} : SysFutexWake(t, l, count)
    \/ \E s \in Thread : SysHint(t, s)

(* The process is over. *)
Finished == phase \in {"done", "panic"} /\ UNCHANGED vars

Next == LoopStep \/ SuspendStep \/ ExitStep \/ ResumeStep \/ BurnAll \/ Finished

Spec == Init /\ [][Next]_vars

(***************************************************************************)
(* Fairness.  The loop is sequential code that never blocks, and user code *)
(* between two system calls is finite; that a thread does not make         *)
(* resuming system calls for ever is the assumption on the user program.   *)
(***************************************************************************)
Fairness == WF_vars(LoopStep) /\ WF_vars(SuspendStep \/ ExitStep)

FairSpec == Spec /\ Fairness

-----------------------------------------------------------------------------
(* Type invariant: the kernel's tables hold values of their types; iter_ is kept
   modulo MaintenancePeriod. *)
TypeOK ==
  /\ phase \in Phase
  /\ iter \in 0 .. MaintenancePeriod - 1
  /\ running \in Thread \cup {None}
  /\ runq \subseteq Thread
  /\ state \in [Thread -> ThreadState]
  /\ action \in [Thread -> BOOLEAN]
  /\ futex \in [Thread -> Loc \cup {None}]
  /\ timer \in [Thread -> TimerKind]
  /\ waiters \in [Loc -> SUBSET Thread]
  /\ timerq \subseteq Thread
  /\ when \in [Thread -> Int]
  /\ detached \subseteq Thread
  /\ status \in Status

(* A thread in the run queue can be run: it is alive, it does not run already,
   and it waits for nothing.  PickNext() relies on it. *)
QueuedIsRunnable ==
  \A t \in runq : /\ state[t] \in {"Starting", "Runnable", "Running"}
                  /\ t # running

(* A futex queue holds exactly the threads parked on that futex, so that
   WaitQueue::Remove finds the waiter ("Waiter not found in WaitQueue") and
   FutexWake wakes threads that wait: the assertion of Wake(). *)
WaitersAreParked ==
  /\ \A l \in Loc, t \in Thread : t \in waiters[l] <=> futex[t] = l
  /\ \A t \in Thread : state[t] = "Parked" <=> futex[t] # None

(* The timer queue holds exactly the timers its sleeping and timed-waiting owners
   point to: CancelTimer() finds its timer ("Timer not found"), no timer outlives
   the wait it belongs to (it lives on the waiter's stack), and an Alarm() finds
   its thread asleep or parked. *)
TimersAreOwned ==
  \A t \in Thread :
    /\ t \in timerq <=> timer[t] # "none"
    /\ timer[t] = "sleep" <=> state[t] = "Sleeping"
    /\ timer[t] = "futex" => state[t] = "Parked"

(* The run queue, the futex queues and the timer queue agree with what every thread says of itself,
   after each system call, wake-up, timeout and burn: the three places that Wake(), CancelTimer()
   and Burn() change one after the other. *)
QueuesAgree == QueuedIsRunnable /\ WaitersAreParked /\ TimersAreOwned

(* No thread is lost: an alive thread is in the run queue, runs, waits on a futex or
   for a timer, or is suspended in front of an atomic operation by the scheduler. *)
NoThreadIsLost ==
  \A t \in alive :
    \/ t \in runq
    \/ t = running
    \/ state[t] \in {"Parked", "Sleeping"}
    \/ state[t] = "LfSuspended" /\ action[t]

(* CheckDeadlock() validates a deadlock before it reports one: every thread is parked
   or suspended ("Internal error" otherwise).  None waits with a timeout, as
   ReportDeadlock() resumes the parked threads and SysFutexWaitTimed, unlike
   SysFutexWait, would go back to user code. *)
DeadlockIsValid ==
  phase = "loop" /\ IsDeadlock =>
    \A t \in alive : state[t] \in {"Parked", "LfSuspended"} /\ timer[t] = "none"

(* What StopLoop() and the destructors verify once the loop is left, whether main
   completed, the simulation was aborted or burnt in the middle: the scheduler is
   idle, no timer is armed ("Broken scheduler"), no futex queue has a waiter
   ("Destroying non-empty wait queue"). *)
StopsClean ==
  phase \in {"stopped", "done"} =>
    /\ alive = {} /\ runq = {} /\ timerq = {}
    /\ \A l \in Loc : waiters[l] = {}

(* MainCompleted() reports success, or a leak, only if no thread is left behind. *)
OkMeansAllExited == status \in {"Ok", "MemoryLeak"} => alive = {}

(* However the loop ends, nothing is left in the kernel's queues, and no result but a failure is
   reported of a run that leaves threads behind. *)
EndsClean == StopsClean /\ OkMeansAllExited

(* A timer is polled at most MaintenancePeriod ticks after its deadline, however busy
   the run queue is (Maintenance() every 8th iteration), unless it was armed with a
   deadline in the past. *)
TimersAreNotLate ==
  HeapIsOrdered /\ Deadline \subseteq Nat =>
    \A t \in timerq : when[t] >= -(MaintenancePeriod * Tick)

(* A sleeping or timed-waiting thread is woken, timed out, or burnt in the end, unless
   the process panics because main left joinable threads behind: the timers are polled
   while other threads keep the run queue busy, and Idle() jumps to the next deadline
   when none does. *)
TimersFire ==
  \A t \in Thread : t \in timerq ~> t \notin timerq \/ phase = "panic"
=============================================================================
