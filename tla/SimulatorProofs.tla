-------------------------- MODULE SimulatorProofs --------------------------
(***************************************************************************)
(* What holds of the kernel for any number of threads, futexes and any     *)
(* deadlines.  The properties of Simulator that relate the thread table to *)
(* the queues are inductive together, once the control of the loop is      *)
(* added: who runs, and that detached threads are alive.                   *)
(***************************************************************************)
EXTENDS Simulator, TLAPS

(* The control of the loop: a thread runs exactly in phase "run"; only threads that
   are alive are detached. *)
Control ==
  /\ phase = "run" <=> running # None
  /\ running # None => state[running] = "Running"
  /\ detached \subseteq alive

(* The inductive invariant of the kernel. *)
IInv ==
  /\ TypeOK
  /\ Control
  /\ QueuedIsRunnable
  /\ WaitersAreParked
  /\ TimersAreOwned
  /\ NoThreadIsLost
  /\ StopsClean
  /\ OkMeansAllExited

(* NextIter stays below the period. *)
LEMMA NextIterType ==
  ASSUME NEW i \in 0 .. MaintenancePeriod - 1
  PROVE  NextIter(i) \in 0 .. MaintenancePeriod - 1
BY SimulatorAssumption DEF NextIter

(* ToTicks of a distance to a deadline is a number of ticks. *)
LEMMA ToTicksType == ASSUME NEW d \in Int PROVE ToTicks(d) \in Int
BY SimulatorAssumption DEF ToTicks

(* The start of a simulation satisfies the invariant. *)
LEMMA InitIInv == Init => IInv
BY SimulatorAssumption
   DEF Init, IInv, TypeOK, Control, QueuedIsRunnable, WaitersAreParked,
       TimersAreOwned, NoThreadIsLost, StopsClean, OkMeansAllExited, alive,
       Phase, ThreadState, TimerKind, Status

(* Burning threads keeps the tables of the others in order, and leaves no trace of
   the burnt ones. *)
LEMMA BurnEffect ==
  ASSUME IInv, NEW S, S \subseteq Thread, Burn(S)
  PROVE  /\ runq' \subseteq Thread
         /\ state' \in [Thread -> ThreadState]
         /\ action' \in [Thread -> BOOLEAN]
         /\ futex' \in [Thread -> Loc \cup {None}]
         /\ timer' \in [Thread -> TimerKind]
         /\ waiters' \in [Loc -> SUBSET Thread]
         /\ timerq' \subseteq Thread
         /\ detached' \subseteq Thread
         /\ detached' \subseteq alive'
         /\ alive' = alive \ S
         /\ WaitersAreParked'
         /\ TimersAreOwned'
         /\ \A t \in runq' : t \in runq /\ t \notin S /\ state'[t] = state[t]
         /\ \A t \in alive' : (t \in runq => t \in runq') /\ state'[t] = state[t]
                                 /\ action'[t] = action[t]
<1> USE SimulatorAssumption
<1>1. /\ runq' \subseteq Thread
      /\ state' \in [Thread -> ThreadState]
      /\ action' \in [Thread -> BOOLEAN]
      /\ futex' \in [Thread -> Loc \cup {None}]
      /\ timer' \in [Thread -> TimerKind]
      /\ timerq' \subseteq Thread
      /\ detached' \subseteq Thread
  BY DEF IInv, TypeOK, Burn, BurnTimers, ThreadState, TimerKind
<1>2. waiters' \in [Loc -> SUBSET Thread]
  BY DEF IInv, TypeOK, Burn, Unwait
<1>3. alive' = alive \ S
  BY DEF IInv, TypeOK, Burn, alive
<1>4. detached' \subseteq alive'
  BY <1>3 DEF IInv, Control, Burn
<1>5. WaitersAreParked'
  BY DEF IInv, TypeOK, WaitersAreParked, Burn, Unwait
<1>6. TimersAreOwned'
  BY DEF IInv, TypeOK, TimersAreOwned, Burn, BurnTimers
<1>7. \A t \in runq' : t \in runq /\ t \notin S /\ state'[t] = state[t]
  BY DEF IInv, TypeOK, Burn
<1>8. \A t \in alive' : /\ t \in runq => t \in runq'
                        /\ state'[t] = state[t]
                        /\ action'[t] = action[t]
  BY <1>3 DEF IInv, TypeOK, Burn, alive
<1> QED
  BY <1>1, <1>2, <1>3, <1>4, <1>5, <1>6, <1>7, <1>8

(* An abort leaves no thread, and a clean kernel. *)
LEMMA AbortIInv ==
  ASSUME IInv, NEW s \in Status, Abort(s)
  PROVE  IInv'
<1>1. Burn(alive)
  BY DEF Abort
<1>2. alive \subseteq Thread
  BY DEF alive
<1>3. alive' = {}
  BY <1>1, <1>2, BurnEffect
<1>4. runq' = {}
  BY <1>1, <1>2, BurnEffect DEF IInv, QueuedIsRunnable, alive, TypeOK
<1>5. WaitersAreParked' /\ TimersAreOwned'
  BY <1>1, <1>2, BurnEffect
<1>6. timerq' = {} /\ \A l \in Loc : waiters'[l] = {}
  BY <1>1, <1>2, <1>3, <1>5, BurnEffect, SimulatorAssumption
     DEF WaitersAreParked, TimersAreOwned, alive, TypeOK, TimerKind
<1>7. TypeOK'
  BY <1>1, <1>2, BurnEffect DEF Abort, TypeOK, IInv, Phase
<1>8. Control'
  BY <1>1, <1>2, BurnEffect DEF Abort, Control
<1> QED
  BY <1>3, <1>4, <1>5, <1>6, <1>7, <1>8
     DEF IInv, QueuedIsRunnable, NoThreadIsLost, StopsClean, OkMeansAllExited

(* Every step of the loop preserves the invariant. *)
LEMMA LoopIInv ==
  ASSUME IInv, LoopStep
  PROVE  IInv'
<1> USE SimulatorAssumption
<1>1. CASE Iter
  BY <1>1, NextIterType
     DEF Iter, IsIdle, IInv, TypeOK, Control, QueuedIsRunnable, WaitersAreParked,
         TimersAreOwned, NoThreadIsLost, StopsClean, OkMeansAllExited, alive,
         Phase, ThreadState, TimerKind, Status
<1>2. CASE \E t \in Thread : Alarm(t)
  BY <1>2
     DEF Alarm, Polling, MinTimers, Wake, Unwait, IInv, TypeOK, Control, QueuedIsRunnable, WaitersAreParked,
         TimersAreOwned, NoThreadIsLost, StopsClean, OkMeansAllExited, alive,
         Phase, ThreadState, TimerKind, Status
<1>3. CASE PollDone
  BY <1>3
     DEF PollDone, Polling, IInv, TypeOK, Control, QueuedIsRunnable, WaitersAreParked,
         TimersAreOwned, NoThreadIsLost, StopsClean, OkMeansAllExited, alive,
         Phase, ThreadState, TimerKind, Status
<1>4. CASE AdvanceTo
  BY <1>4, ToTicksType
     DEF AdvanceTo, MinTimers, IInv, TypeOK, Control, QueuedIsRunnable, WaitersAreParked,
         TimersAreOwned, NoThreadIsLost, StopsClean, OkMeansAllExited, alive,
         Phase, ThreadState, TimerKind, Status
<1>5. CASE \E t \in Thread : PickNext(t)
  BY <1>5
     DEF PickNext, Picked, IInv, TypeOK, Control, QueuedIsRunnable, WaitersAreParked,
         TimersAreOwned, NoThreadIsLost, StopsClean, OkMeansAllExited, alive,
         Phase, ThreadState, TimerKind, Status
<1>6. CASE Idle
  BY <1>6
     DEF Idle, IsIdle, IsDeadlock, IInv, TypeOK, Control, QueuedIsRunnable, WaitersAreParked,
         TimersAreOwned, NoThreadIsLost, StopsClean, OkMeansAllExited, alive,
         Phase, ThreadState, TimerKind, Status
<1>7. CASE StopLoop
  BY <1>7
     DEF StopLoop, IInv, TypeOK, Control, QueuedIsRunnable, WaitersAreParked,
         TimersAreOwned, NoThreadIsLost, StopsClean, OkMeansAllExited, alive,
         Phase, ThreadState, TimerKind, Status
<1>8. CASE Deadlock
  BY <1>8, AbortIInv DEF Deadlock, Status
<1> QED
  BY <1>1, <1>2, <1>3, <1>4, <1>5, <1>6, <1>7, <1>8 DEF LoopStep

(* Every suspending system call preserves the invariant. *)
LEMMA SuspendIInv ==
  ASSUME IInv, SuspendStep
  PROVE  IInv'
<1> USE SimulatorAssumption
<1>1. CASE \E t \in Thread : SysYield(t)
  BY <1>1
     DEF SysYield, Suspend, Caller, IInv, TypeOK, Control, QueuedIsRunnable, WaitersAreParked,
         TimersAreOwned, NoThreadIsLost, StopsClean, OkMeansAllExited, alive,
         Phase, ThreadState, TimerKind, Status
<1>2. CASE \E t \in Thread, suspend \in BOOLEAN : SysSync(t, suspend)
  BY <1>2
     DEF SysSync, Suspend, Caller, IInv, TypeOK, Control, QueuedIsRunnable, WaitersAreParked,
         TimersAreOwned, NoThreadIsLost, StopsClean, OkMeansAllExited, alive,
         Phase, ThreadState, TimerKind, Status
<1>3. CASE \E t \in Thread, d \in Deadline : SysSleep(t, d)
  BY <1>3
     DEF SysSleep, Suspend, Caller, IInv, TypeOK, Control, QueuedIsRunnable, WaitersAreParked,
         TimersAreOwned, NoThreadIsLost, StopsClean, OkMeansAllExited, alive,
         Phase, ThreadState, TimerKind, Status
<1>4. CASE \E t \in Thread : FutexWaitReturns(t)
  BY <1>4
     DEF FutexWaitReturns, Suspend, Caller, IInv, TypeOK, Control, QueuedIsRunnable, WaitersAreParked,
         TimersAreOwned, NoThreadIsLost, StopsClean, OkMeansAllExited, alive,
         Phase, ThreadState, TimerKind, Status
<1>5. CASE \E t \in Thread, l \in Loc : FutexWait(t, l)
  BY <1>5
     DEF FutexWait, Suspend, Caller, IInv, TypeOK, Control, QueuedIsRunnable, WaitersAreParked,
         TimersAreOwned, NoThreadIsLost, StopsClean, OkMeansAllExited, alive,
         Phase, ThreadState, TimerKind, Status
<1>6. CASE \E t \in Thread, l \in Loc, d \in Deadline : FutexWaitTimed(t, l, d)
  BY <1>6
     DEF FutexWaitTimed, Suspend, Caller, IInv, TypeOK, Control, QueuedIsRunnable, WaitersAreParked,
         TimersAreOwned, NoThreadIsLost, StopsClean, OkMeansAllExited, alive,
         Phase, ThreadState, TimerKind, Status
<1>7. CASE \E t \in Thread : SysThreadExit(t)
  BY <1>7
     DEF SysThreadExit, Suspend, Caller, IInv, TypeOK, Control, QueuedIsRunnable, WaitersAreParked,
         TimersAreOwned, NoThreadIsLost, StopsClean, OkMeansAllExited, alive,
         Phase, ThreadState, TimerKind, Status
<1>8. CASE \E t \in Thread : SysAbort(t)
  BY <1>8, AbortIInv DEF SysAbort, Status
<1> QED
  BY <1>1, <1>2, <1>3, <1>4, <1>5, <1>6, <1>7, <1>8 DEF SuspendStep

(* Every resuming system call preserves the invariant. *)
LEMMA ResumeIInv ==
  ASSUME IInv, ResumeStep
  PROVE  IInv'
<1> USE SimulatorAssumption
<1>1. CASE \E t \in Thread, c \in Thread : SysSpawn(t, c)
  BY <1>1
     DEF SysSpawn, Caller, IInv, TypeOK, Control, QueuedIsRunnable, WaitersAreParked,
         TimersAreOwned, NoThreadIsLost, StopsClean, OkMeansAllExited, alive,
         Phase, ThreadState, TimerKind, Status
<1>2. CASE \E t \in Thread, c \in Thread : SysDetach(t, c)
  BY <1>2
     DEF SysDetach, Caller, IInv, TypeOK, Control, QueuedIsRunnable, WaitersAreParked,
         TimersAreOwned, NoThreadIsLost, StopsClean, OkMeansAllExited, alive,
         Phase, ThreadState, TimerKind, Status
<1>3. CASE \E t \in Thread, l \in Loc, count \in {0, 1} : SysFutexWake(t, l, count)
  BY <1>3
     DEF SysFutexWake, Wake, Cancelled, Caller, IInv, TypeOK, Control, QueuedIsRunnable, WaitersAreParked,
         TimersAreOwned, NoThreadIsLost, StopsClean, OkMeansAllExited, alive,
         Phase, ThreadState, TimerKind, Status
<1>4. CASE \E t \in Thread, s \in Thread : SysHint(t, s)
  BY <1>4
     DEF SysHint, Caller, IInv, TypeOK, Control, QueuedIsRunnable, WaitersAreParked,
         TimersAreOwned, NoThreadIsLost, StopsClean, OkMeansAllExited, alive,
         Phase, ThreadState, TimerKind, Status
<1> QED
  BY <1>1, <1>2, <1>3, <1>4 DEF ResumeStep

(* The exit of the main thread, with or without detached threads to burn. *)
LEMMA MainExitIInv ==
  ASSUME IInv, NEW leak \in BOOLEAN, MainExit(leak)
  PROVE  IInv'
<1> USE SimulatorAssumption
<1> DEFINE B == {Main} \cup detached
<1>1. Burn(B) /\ B \subseteq Thread
  BY DEF MainExit, IInv, TypeOK
<1> HIDE DEF B
<1>2. TypeOK' /\ Control'
  BY <1>1, BurnEffect DEF MainExit, Caller, TypeOK, IInv, Phase, Status, Control
<1>3. alive' = alive \ B
  BY <1>1, BurnEffect
<1>4. QueuedIsRunnable'
  BY <1>1, BurnEffect, <1>2 DEF IInv, QueuedIsRunnable, MainExit, TypeOK
<1>5. NoThreadIsLost'
  <2>1. SUFFICES ASSUME NEW t \in alive'
                 PROVE  \/ t \in runq'
                        \/ t = running'
                        \/ state'[t] \in {"Parked", "Sleeping"}
                        \/ state'[t] = "LfSuspended" /\ action'[t]
    BY DEF NoThreadIsLost
  <2>2. /\ t \in alive
        /\ t # running
        /\ state'[t] = state[t] /\ action'[t] = action[t]
        /\ t \in runq => t \in runq'
    BY <1>1, <1>3, <2>1, BurnEffect DEF B, MainExit, Caller
  <2> QED
    BY <2>2 DEF IInv, NoThreadIsLost
<1>6. phase' \in {"stopped", "loop"} => alive' = {}
  BY <1>3 DEF MainExit, Leftover, B
<1>7. WaitersAreParked' /\ TimersAreOwned'
  BY <1>1, BurnEffect
<1>8. StopsClean'
  <2>1. SUFFICES ASSUME alive' = {}
                 PROVE  /\ runq' = {} /\ timerq' = {}
                        /\ \A l \in Loc : waiters'[l] = {}
    BY <1>6 DEF StopsClean, MainExit
  <2>2. runq' = {}
    BY <1>2, <1>4, <2>1 DEF QueuedIsRunnable, alive, TypeOK
  <2>3. timerq' = {} /\ \A l \in Loc : waiters'[l] = {}
    BY <1>2, <1>7, <2>1 DEF WaitersAreParked, TimersAreOwned, alive, TypeOK, TimerKind
  <2> QED
    BY <2>2, <2>3
<1>9. OkMeansAllExited'
  BY <1>3, <1>6 DEF MainExit, IInv, OkMeansAllExited
<1> QED
  BY <1>2, <1>4, <1>5, <1>7, <1>8, <1>9 DEF IInv

(* The public Burn(). *)
LEMMA BurnAllIInv ==
  ASSUME IInv, BurnAll
  PROVE  IInv'
<1> USE SimulatorAssumption
<1>1. Burn(alive) /\ alive \subseteq Thread
  BY DEF BurnAll, alive
<1>2. alive' = {} /\ WaitersAreParked' /\ TimersAreOwned'
  BY <1>1, BurnEffect
<1>3. TypeOK' /\ Control'
  BY <1>1, BurnEffect DEF BurnAll, TypeOK, IInv, Phase, Control
<1>4. runq' = {}
  BY <1>1, BurnEffect DEF IInv, QueuedIsRunnable, alive, TypeOK
<1>5. timerq' = {} /\ \A l \in Loc : waiters'[l] = {}
  BY <1>2, <1>3 DEF WaitersAreParked, TimersAreOwned, alive, TypeOK, TimerKind
<1> QED
  BY <1>2, <1>3, <1>4, <1>5
     DEF IInv, QueuedIsRunnable, NoThreadIsLost, StopsClean, OkMeansAllExited

(* The kernel's tables are consistent in every reachable state, for any number of
   threads, futexes, timers, and whatever the scheduler picks. *)
THEOREM KernelInvariant == Spec => []IInv
<1>1. Init => IInv
  BY InitIInv
<1>2. IInv /\ [Next]_vars => IInv'
  <2> SUFFICES ASSUME IInv, [Next]_vars PROVE IInv'
    OBVIOUS
  <2>1. CASE UNCHANGED vars
    BY <2>1
       DEF vars, IInv, TypeOK, Control, QueuedIsRunnable, WaitersAreParked,
           TimersAreOwned, NoThreadIsLost, StopsClean, OkMeansAllExited, alive
  <2>2. CASE LoopStep
    BY <2>2, LoopIInv
  <2>3. CASE SuspendStep
    BY <2>3, SuspendIInv
  <2>4. CASE ExitStep
    BY <2>4, MainExitIInv DEF ExitStep
  <2>5. CASE ResumeStep
    BY <2>5, ResumeIInv
  <2>6. CASE BurnAll
    BY <2>6, BurnAllIInv
  <2> QED
    BY <2>1, <2>2, <2>3, <2>4, <2>5, <2>6 DEF Next, Finished
<1> QED
  BY <1>1, <1>2, PTL DEF Spec

(* The fields of the kernel keep their types. *)
THEOREM KernelTypeCorrect == Spec => []TypeOK
BY KernelInvariant, PTL DEF IInv

(* Wake() finds its waiter parked, WaitQueue::Remove and CancelTimer() find their
   entries: the queues and the thread table agree. *)
THEOREM QueuesAgreeWithThreads ==
  Spec => []QueuesAgree
<1>1. IInv => QueuesAgree
  BY DEF IInv, QueuesAgree
<1> QED
  BY <1>1, KernelInvariant, PTL

(* No thread is ever lost by the kernel. *)
THEOREM ThreadsAreNotLost == Spec => []NoThreadIsLost
<1>1. IInv => NoThreadIsLost
  BY DEF IInv
<1> QED
  BY <1>1, KernelInvariant, PTL

(* CheckDeadlock()'s validation never fails. *)
THEOREM DeadlocksAreValid == Spec => []DeadlockIsValid
<1>1. IInv => DeadlockIsValid
  BY SimulatorAssumption
     DEF IInv, DeadlockIsValid, IsDeadlock, IsIdle, TypeOK, Control,
         NoThreadIsLost, TimersAreOwned, TimerKind, alive
<1> QED
  BY <1>1, KernelInvariant, PTL

(* StopLoop()'s verifications never fail. *)
THEOREM SimulationStopsClean == Spec => []EndsClean
<1>1. IInv => EndsClean
  BY DEF IInv, EndsClean
<1> QED
  BY <1>1, KernelInvariant, PTL

-----------------------------------------------------------------------------
(***************************************************************************)
(* How late a timer can be.  Lateness bounds, in ticks, how long ago the   *)
(* deadline of an armed timer has passed: the iterations since the last    *)
(* Maintenance(), all of a period while Maintenance() polls, and one tick  *)
(* after the jump of Idle(), which rounds up.                              *)
(***************************************************************************)
Lateness ==
  CASE phase = "maintenance" -> MaintenancePeriod
    [] phase = "advanced" -> 1
    [] OTHER -> iter

LateInv == \A t \in timerq : when[t] >= -(Lateness * Tick)

(* In "pick", "run" and "loop" the bound is the number of iterations since Maintenance;
   a lateness never exceeds the period. *)
LEMMA LatenessBound ==
  ASSUME TypeOK
  PROVE  Lateness \in Nat /\ Lateness <= MaintenancePeriod
BY SimulatorAssumption DEF TypeOK, Lateness

(* ToTicks rounds up: it reaches the deadline, and overshoots by less than a tick. *)
LEMMA ToTicksRoundsUp ==
  ASSUME NEW d \in Nat \ {0}
  PROVE  /\ ToTicks(d) \in Nat
         /\ ToTicks(d) * Tick >= d
         /\ ToTicks(d) * Tick - d < Tick
<1> DEFINE q == d \div Tick
           r == d % Tick
<1>1. /\ q \in Nat /\ r \in 0 .. Tick - 1
      /\ d = Tick * q + r
  BY SimulatorAssumption
<1>2. ToTicks(d) = q + (IF r # 0 THEN 1 ELSE 0)
  BY DEF ToTicks
<1> HIDE DEF q, r
<1>3. CASE r = 0
  <2>1. ToTicks(d) * Tick = d
    BY <1>1, <1>2, <1>3, SimulatorAssumption
  <2> QED
    BY <1>1, <1>2, <1>3, <2>1, SimulatorAssumption
<1>4. CASE r # 0
  <2>1. ToTicks(d) * Tick = Tick * q + Tick
    BY <1>1, <1>2, <1>4, SimulatorAssumption
  <2>2. Tick * q \in Nat
    BY <1>1, SimulatorAssumption
  <2> QED
    BY <1>1, <1>2, <1>4, <2>1, <2>2, SimulatorAssumption
<1> QED
  BY <1>3, <1>4

(* Steps that neither move time nor arm a timer keep the bound when they stay among
   the phases in which it is iter. *)
LEMMA LateUnchanged ==
  ASSUME LateInv, timerq' \subseteq timerq, when' = when, iter' = iter,
         phase \notin {"maintenance", "advanced"},
         phase' \notin {"maintenance", "advanced"}
  PROVE  LateInv'
BY DEF LateInv, Lateness

(* Every step keeps the bound, if the heap is ordered and no deadline is past. *)
LEMMA LateStep ==
  ASSUME HeapIsOrdered, Deadline \subseteq Nat, TypeOK, LateInv, [Next]_vars
  PROVE  LateInv'
<1> USE SimulatorAssumption
<1>0. iter * Tick \in Nat /\ iter \in Nat
  BY DEF TypeOK
<1>1. CASE Iter
  <2>1. \A t \in timerq : when'[t] = when[t] - Tick /\ when[t] \in Int
    BY <1>1 DEF Iter, TypeOK
  <2>2. \A t \in timerq : when[t] >= -(iter * Tick)
    BY <1>1 DEF Iter, LateInv, Lateness
  <2>3. Lateness' = iter + 1
    <3>1. CASE iter + 1 = MaintenancePeriod
      <4>1. iter' = 0
        BY <1>1, <3>1 DEF Iter, NextIter
      <4> QED
        BY <1>1, <3>1, <4>1 DEF Iter, Lateness
    <3>2. CASE iter + 1 # MaintenancePeriod
      <4>1. iter' = iter + 1 /\ iter' # 0
        BY <1>1, <3>2 DEF Iter, NextIter, TypeOK
      <4> QED
        BY <1>1, <4>1 DEF Iter, Lateness
    <3> QED
      BY <3>1, <3>2
  <2>4. (iter + 1) * Tick = iter * Tick + Tick
    BY <1>0
  <2> QED
    BY <1>0, <1>1, <2>1, <2>2, <2>3, <2>4 DEF Iter, LateInv
<1>2. ASSUME NEW t \in Thread, Alarm(t)
      PROVE  LateInv'
  BY <1>2 DEF Alarm, LateInv, Lateness, Polling
<1>3. CASE PollDone
  <2>1. \A t \in timerq : when[t] > 0
    BY <1>3 DEF PollDone, NoneExpired, MinTimers, TypeOK
  <2>2. Lateness' = iter
    BY <1>3 DEF PollDone, Lateness
  <2> QED
    BY <1>0, <1>3, <2>1, <2>2 DEF PollDone, LateInv, TypeOK
<1>4. CASE AdvanceTo
  <2>1. PICK t \in MinTimers :
          /\ when[t] > 0
          /\ \A u \in timerq : when'[u] = when[u] - ToTicks(when[t]) * Tick
    BY <1>4 DEF AdvanceTo, TypeOK
  <2>2. when[t] \in Nat \ {0} /\ \A u \in timerq : when[u] >= when[t]
    BY <2>1 DEF MinTimers, TypeOK
  <2>3. /\ ToTicks(when[t]) * Tick - when[t] < Tick
        /\ ToTicks(when[t]) * Tick \in Int
    BY <2>2, ToTicksRoundsUp
  <2>4. \A u \in timerq : when'[u] >= -Tick
    BY <2>1, <2>2, <2>3 DEF TypeOK
  <2>5. Lateness' = 1 /\ timerq' = timerq
    BY <1>4 DEF AdvanceTo, Lateness
  <2> QED
    BY <2>4, <2>5 DEF LateInv
<1>5. ASSUME NEW t \in Thread, NEW d \in Deadline,
             SysSleep(t, d) \/ \E l \in Loc : FutexWaitTimed(t, l, d)
      PROVE  LateInv'
  <2>1. Lateness' = iter /\ Lateness = iter
    BY <1>5 DEF SysSleep, FutexWaitTimed, Suspend, Caller, Lateness
  <2>2. timerq' = timerq \cup {t} /\ when' = [when EXCEPT ![t] = d]
    BY <1>5 DEF SysSleep, FutexWaitTimed
  <2> QED
    BY <1>0, <2>1, <2>2 DEF LateInv, TypeOK
<1>6. ASSUME \/ \E t \in Thread : PickNext(t)
             \/ Idle \/ StopLoop \/ Deadlock \/ BurnAll
      PROVE  LateInv'
  BY <1>6, LateUnchanged
     DEF PickNext, Picked, Idle, StopLoop, Deadlock, BurnAll, Abort, Burn
<1>7. ASSUME NEW t \in Thread,
             \/ SysYield(t) \/ FutexWaitReturns(t) \/ SysAbort(t) \/ SysThreadExit(t)
             \/ \E suspend \in BOOLEAN : SysSync(t, suspend)
             \/ \E l \in Loc : FutexWait(t, l)
      PROVE  LateInv'
  BY <1>7, LateUnchanged
     DEF SysYield, FutexWaitReturns, SysAbort, SysThreadExit, SysSync, FutexWait,
         Suspend, Caller, Abort, Burn
<1>8. CASE ExitStep
  BY <1>8, LateUnchanged DEF ExitStep, MainExit, Caller, Burn
<1>9. CASE ResumeStep
  BY <1>9, LateUnchanged
     DEF ResumeStep, SysSpawn, SysDetach, SysFutexWake, SysHint, Caller
<1>10. CASE UNCHANGED vars
  BY <1>10 DEF vars, LateInv, Lateness
<1> QED
  BY <1>1, <1>2, <1>3, <1>4, <1>5, <1>6, <1>7, <1>8, <1>9, <1>10
     DEF Next, LoopStep, SuspendStep, Finished

(* A timer is polled at most a maintenance period after its deadline. *)
THEOREM TimersArePolledInTime == Spec => []TimersAreNotLate
<1>1. CASE HeapIsOrdered /\ Deadline \subseteq Nat
  <2>1. Init => LateInv
    BY DEF Init, LateInv
  <2>2. TypeOK /\ LateInv /\ [Next]_vars => LateInv'
    BY <1>1, LateStep
  <2>3. TypeOK /\ LateInv => TimersAreNotLate
    <3> SUFFICES ASSUME TypeOK, LateInv, NEW t \in timerq
                 PROVE  when[t] >= -(MaintenancePeriod * Tick)
      BY DEF TimersAreNotLate
    <3>1. Lateness \in Nat /\ Lateness <= MaintenancePeriod
      BY LatenessBound
    <3>2. /\ Lateness * Tick \in Nat
          /\ Lateness * Tick <= MaintenancePeriod * Tick
      BY <3>1, SimulatorAssumption
    <3>3. when[t] >= -(Lateness * Tick) /\ when[t] \in Int
      BY DEF LateInv, TypeOK
    <3> QED
      BY <3>2, <3>3, SimulatorAssumption
  <2> QED
    BY <2>1, <2>2, <2>3, KernelTypeCorrect, PTL DEF Spec
<1>2. CASE ~(HeapIsOrdered /\ Deadline \subseteq Nat)
  <2>1. TimersAreNotLate
    BY <1>2 DEF TimersAreNotLate
  <2> QED
    BY <2>1, PTL
<1> QED
  BY <1>1, <1>2

=============================================================================
