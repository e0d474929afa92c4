# Twist: a verification project

Twist (`src/twist`) tests concurrent C++ code. A program written against the replacements of
the `std` primitives runs in a deterministic simulator: one OS thread, user threads as stackful
contexts, a scheduler that decides at every atomic operation who goes on, a memory model with
vector clocks that reports data races, timers in simulated time. What the simulator reports is
only worth something if the simulator itself is right: a lost wake-up in its mutex is a deadlock
reported in a correct program, a missed edge in its clocks a race that is not there, a wrong
bound a bug that is never found. This project models that core in TLA+, checks it with TLC and
proves part of it with TLAPS.

Contents: [inventory](#1-inventory), [modules](#2-modules), [runs](#3-runs),
[bounds](#4-bounds), [fairness](#5-fairness), [proofs](#6-proofs), [findings](#7-findings),
[what is not modelled](#8-not-modelled), [plan](#9-plan).

## 1. Inventory

Paths are relative to `src/twist/source/twist/` unless they start with `src/`.

| Component | State | Operations | Hard behaviour | What makes it correct |
|---|---|---|---|---|
| Simulator kernel, `rt/sim/system/simulator.cpp` | thread table (`alive_`, `Thread::state/futex/timer/action`), `running_`, `iter_`, `status_` | run loop (`Iter`, `Maintenance`, `PollTimers`, `Idle`, `CheckDeadlock`), system calls, `MainCompleted`, `Burn` | wake-up against timeout of the same waiter; abort or completion with threads in any state; timers under a busy run queue | queues agree with the threads; no thread is lost; deadlocks are real; the loop leaves nothing behind; timers fire |
| Timer queue, `rt/sim/system/timer/` | array heap, positions, ids | `Add`, `Remove`, `Poll`, `NextDeadLine` | cancellation in the middle of the heap | takes the earliest timer, loses none |
| Time, `rt/sim/system/time.hpp` | tick count | `AdvanceTo`, `Now` | rounding to ticks | a jump reaches the deadline |
| Memory model, `rt/sim/system/sync/` | clocks of threads, atomics, freed blocks; last accesses of variables | `Sync` of every atomic action, fences, `AccessNonAtomicVar`, `Malloc`, `Free`, `Spawn`, `Wake` | release sequences, fences, forgotten accesses, reuse of locations | clocks are sound; no race is missed |
| Futex queues, `rt/sim/system/futex/` | waiters per key, one inline or a queue of the scheduler | `Push`, `Pop`, `PopAll`, `Remove` | change of representation | a timeout finds its waiter |
| Schedulers, `rt/sim/scheduler/{random,dfs,pct,coop,replay}` | run queue, suspended threads, decisions | `Interrupt`, `Yield`, `Wake`, `Spawn`, `PickNext`, `Remove`, hints | lock-free suspension, exhaustive enumeration, burnt threads, replay | every queued thread is returned by `PickNext`; DFS visits every schedule once |
| `mutex`, `rt/sim/user/library/std_like/mutex.hpp` | `locked_`, `contention_`, owner | `lock`, `try_lock`, `unlock` | barging, counter around a wait | mutual exclusion, no lost wake-up, ordering |
| `shared_mutex` | packed word, owner | exclusive and shared operations | load and compare_exchange in two steps, last reader wakes one | readers-writer lock, no lost wake-up, ordering |
| `timed_mutex` | `locked_`, owner | as `mutex`, and timed calls | timeout against wake-up | lock, no lost wake-up, timed calls return |
| `condition_variable` | `count_` | waits, notifications | load / unlock / wait window, wrap, timeouts | no notification is lost |
| `thread`, `std_like/thread.cpp` | `StateBase` with `sync`, handle | spawn, move, `join`, `detach`, exit | exit against detach and join | deleted once and not too early; join returns and synchronizes |
| `WaitGroup`, `rt/sim/user/test/` | `left_`, `done_`, list of routines | `Add`, `Join`, exit | last thread against the joiner, in whose frame the group lives | joined exactly when all have exited; the joiner is woken |
| Memory, `rt/sim/system/memory/` | segment, blocks and their index, free lists, pool of stacks, statistics | `Malloc`, `Free`, `Access`, stacks, leak check, burn | heap and stacks meet; buffers taken in the middle of a `Free` | nothing overlaps; free lists, leak report and access checks are exact |
| Statics, `rt/sim/user/static/` | lists of variables, table and slots of thread-locals | construct, register, destroy, burn | preempted constructors and destructors that use other variables, detached threads after main, aborted simulations | slots go with their threads; the next simulation finds no variable set or linked, but for those registered too late |
| Checks over runs, `mod/sim/` | parameters, digest of a failure | `Explore`, `Record`, `DetCheck` | backtracking over simulations, replay | every schedule once; a failure is repeated |
| Fault injection, `rt/thr/fault/` | adversary, waiters of a condition variable | wrappers of real primitives, suspension of threads | real concurrency | no notification is lost; somebody can always resume the others |

How they interact. User code calls the `std_like` primitives; these are built from a `SyncVar`
(an atomic of 32 bits with a futex) and make system calls. A system call switches to the loop,
which hands the calling thread, its waiters and its timers to the scheduler, the futex queues and
the timer queue, and every atomic action to the memory model. **A thread is preempted only in
front of an atomic action** (`SysSync` puts it back into the run queue and the action is executed
when it is picked again); the load and the commit of a read-modify-write are not separated. So
the unit of interleaving in the models of the primitives is: one atomic operation and everything
after it up to the next one, including a `FutexWake`, and a `FutexWait`.

The hazards, each at its line with the properties that would catch it, are listed in
`PROJECT.json`.

## 2. Modules

| Module | Models | Kind |
|---|---|---|
| `Simulator` | `system/simulator.cpp`: loop, system calls, futexes, timers, completion | component |
| `TimerHeap`, `TimerQueueSpec` | `timer_heap.hpp` + `timer_queue.hpp`; what the kernel expects of them | component and its abstract specification |
| `Schedulers`, `SchedulerSpec` | run queues and futex queues of `scheduler/{random,dfs,pct,coop}` and `futex/wait_queue.hpp`; what the kernel expects of them | component and its abstract specification |
| `Explore` | `mod/sim/sim.cpp` with the decisions of `scheduler/{dfs,random}` and `scheduler/replay` | composition of scheduler, recorder, replay and a small simulated program |
| `MemoryModel` | `sync/model.hpp`, `clock.hpp`, `non_atomic.hpp` | component |
| `Heap`, `HeapSpec` | `memory/isolated`; what `malloc` and `free` promise | component and its abstract specification |
| `Statics` | `user/static` and `user/static/thread_local` | component |
| `SyncVar` | `sync_var.hpp`, and what the kernel and the memory model do for it | operators shared by the primitives |
| `RwLockSpec` | what a lock promises | abstract specification |
| `Mutex`, `SharedMutex`, `TimedMutex` | the locks, composed with `SyncVar`, shown to implement `RwLockSpec` | components |
| `CondVar` | `condition_variable.hpp` with a producer-consumer program; its mutex is the abstract lock | component |
| `ThreadHandle` | `thread.cpp` | component |
| `WaitGroup` | `test/wait_group.{hpp,cpp}` | component |
| `FaultyCondVar` | `rt/thr/fault/std_like/condvar.hpp` and the waiting loops of `src/futex_like` | component |
| `LockFreeAdversary` | `rt/thr/fault/adversary/lockfree.cpp` | component |
| `SimulatorProofs`, `MemoryModelProofs`, `MutexProofs`, `SharedMutexProofs`, `ThreadsProofs`, `HeapProofs`, `SchedulersProofs`, `ExploreProofs` | | proofs |
| `MC*` | | instances for TLC |

`MCQueues`, `MCMutex`, `MCThreads` and `MCMemory` hold instances of several components. The
variable `part` is chosen in the initial state and never changes: each behaviour belongs to one
component, and the variables of the others keep their initial values. They are not compositions;
those are `Mutex` and the like (with `SyncVar`, and so with what the kernel and the memory model
do) and `Explore`. The MC modules take the constants of the instances as constants of their own and
assume what the components assume of them, so that the proof modules, which extend them, speak of
the very instances the runs check, for all values.

### Simulator

One variable per field: `state`, `futex`, `timer`, `action` are the fields of `Thread`;
`waiters`, `timerq`, `runq` the queues; `phase` says where `RunLoop()` is (`loop` the head of the
loop, `maintenance`, `poll`, `polled`, `advanced` the places `PollTimers()` is called from, `pick`
just before `PickNext`, `run` a user thread runs, `stopped`, `done`). The loop's actions are
`Iter`, `Alarm`, `PollDone`, `AdvanceTo`, `PickNext`, `Deadlock`, `Idle`, `StopLoop`; every system
call is an action of the running thread. The user program is the most general one: a running
thread may make any system call at any time.

Abstracted: the scheduler picks any queued thread and any waiter, and may suspend a thread in
front of an atomic action (the random scheduler's `LfSuspended`); the value comparison of
`FutexWait` is a free choice (the modules of the primitives keep the values); time is relative to
now, so `when[t]` decreases with the ticks. The heap's defect (section 7) is part of the model:
with more than five threads `MinTimers` allows any timer on top.

### TimerHeap

`heap` is the array, its size and the positions; `SiftUp`, `SiftDown`, `MinChild`, `HeapInsert`,
`HeapRemove`, `HeapExtractMin` follow the code step by step. A timer is named by the id that
breaks ties. What is behind the end of the array is forgotten (the timers live on stacks).

### MemoryModel

The clocks are functions from threads to numbers, the operations of `SeqCstMemoryModel` are
actions of any thread at any time. A memory order is reduced to the two questions the code asks
of it (`IsAcquireOrder`, `IsReleaseOrder`). The variable `hist` is a history variable: all
accesses accepted so far with the thread's clock; the code keeps only the last ones, and
`NoRaceIsMissed` compares the two.

### The primitives

`SyncVar` keeps for every word its value, its clock and its waiters. Vector clocks become sets of
known events (a join is a union): the modules put an event into the clock of a thread at the end
of a critical section, or at thread exit, and ask who knows it later. `pc` says in front of which
atomic operation a thread stands. Spurious wake-ups and failures are there exactly where the code
allows them (`FutexType` of the wait; `CompareExchangeWeak`).

In `Mutex`, `SharedMutex` and `TimedMutex` threads call what they like in any order. In `CondVar`
they are producers and consumers that notify with or without the mutex; consumers wait with or
without a deadline, a deadline passes at any time, and the alarm comes any time after it.
In `ThreadHandle` a handle may be moved to a thread with a smaller number than the thread it
stands for, which excludes circular joins and nothing else. In `WaitGroup` the exit of a thread is
one step, because it runs under a `PreemptionGuard`.

### Schedulers

The variable `kind` says which scheduler; the containers are common to all of them: `runq`, `next`
(the thread that goes on without passing through the run queue), `suspended`, and per futex either
a single waiter or a queue. Random numbers, time slices and branches are free choices. An action is
one call of the kernel with everything the scheduler does in it. At the end of a simulation threads
may be left, which the kernel burns one at a time; then the next simulation starts with the same
scheduler. A failed `WHEELS_VERIFY` is the phase `panic`. `ImplementsScheduler` maps the containers
to the place each thread is in, and shows that every call is a step of `SchedulerSpec`: this is the
scheduler that module `Simulator` assumes.

### Explore

A program is a list of operations per thread on one atomic, its futex and the random numbers of
the simulation. The depth-first scheduler keeps `schedule`, its branches with the index taken and
the number of alternatives, across simulations; `Backtrack` drops closed branches and advances the
last open one. For the random scheduler `schedule` holds the numbers the seed stands for: they are
drawn freely in the exploration and read again in the repetition. After a failure the same
simulation is run under the recorder, then its decisions are fed to the replay scheduler. The
history variable `seen` collects the schedules; `Interleavings` is the direct definition they are
compared with.

### Heap and Statics

The unit of memory in `Heap` is a block header. `up` and `down` are the two ends of the free part
of the segment; `blocks` is the index, in the order of addresses; the free list of a class is an
array whose buffer is itself a block, replaced by a larger one in the middle of a `Free`. A call of
the heap runs without a switch of threads and is one action. A simulation starts with the stack of
the main thread and dies if the segment cannot hold it. The index is reserved twice, by the
constructor of `BrkAllocator` and by the `Reset` of `InitMalloc` (`Base`). `HeapAssumption` says what the sizes of the
code satisfy: every size the program asks for has a class, and so has the first buffer of a list.

`Statics` keeps for every variable the simulation it was set in. A constructor may be preempted or
visit other variables (`Slow`, `ctor`), and a simulation may be aborted in any code of the program.
The constructor of a thread-local variable only takes a key (`thread_local/ptr.hpp:80`) and is never
slow; `Keys` is the table after the globals have taken theirs. `Visited` are the variables a thread
comes by, in any order and again and again.

Destructors are code of the program too. `tls::Manager::Destroy` is modelled slot by slot: `at` is
the slot whose destructor a leaving thread is in, and `DestroyVars` variable by variable, with `dtor`
the variable whose destructor main is in. In a destructor the thread can be preempted, can come by
the variables in `Uses`, for the first time or again, and the simulation can be aborted. Threads
other than main may run on, or start, while main is in `DestroyVars`; when main exits they are burnt
if they are detached, and it is an error if they are not (`MainCompleted`). `leaked` are the slots that
threads left behind; `CheckMemory` aborts the simulation for them if no thread was burnt. Step `panic`
is a failed assertion or the use of a variable that is gone; it is not followed further.

Two history variables say what came too late: `behind`, the slots taken by a destructor at or before
the place where `Destroy` is, and `late`, the variables registered after main had returned.
`OnlyLatecomersStay` says that nothing else is ever left: no slot that is not in `behind`
(`SlotsAreReleased`) and no variable that is not in `late` (`StaticsAreReset`). What is in them can stay,
which section 7 describes; the exceptions are the part of the property that the code does not keep.

### The thread runtime

`FaultyCondVar` and `LockFreeAdversary` run in real threads, so their steps are single accesses to
shared memory, or what is done under a mutex that excludes all who could look. `node` is the
lifetime of the waiter object on the stack together with its event. Which waiter is notified, in
which order, and when the lock is given away are free choices. `futex_like` appears as a sleep that
returns for a wake-up, a signal or the time, and a loop that looks at the event again.

## 3. Runs

| Run | Instance | Distinct states | Shows |
|---|---|---|---|
| `kernel` | 3 threads, 2 futexes, deadlines 0, 1, 3 at a tick of 2, maintenance every 2nd iteration | 198,551 | the safety properties of the kernel, and that timers fire |
| `queues` | 5 kinds of scheduler, 3 threads, 1 futex, scopes not nested, at most 2 suspended, PCT depth 2; 7 timers armed in a run, 5 at a time, 3 deadlines | 279,801 | no assertion of the queues fails, refinement of `SchedulerSpec`, a lock-free thread always runs, PCT priorities; refinement of `TimerQueueSpec` |
| `timer_heap_cancel` | 6 timers at a time | | violation: `MinIsOnTop` |
| `scheduler_burn` | PCT, runs end with threads to burn | | violation: `VerifiesHold` |
| `race_detector` | 3 threads, 1 atomic, 1 variable, 3 operations per thread; 2 threads, 1 variable, 1 address | 2,096,066 | the clocks are sound, `NoRaceIsMissed` |
| `mutex` | 4 threads, calls until 2 critical sections have ended; `timed_mutex` with 3 threads | 96,515 | refinement of `RwLockSpec`, counter, wake-ups, ordering, progress |
| `timed_mutex_timeout` | 2 threads | | violation: `TimedCallsReturn` |
| `shared_mutex` | 3 threads, calls until 2 sections have ended | 361,160 | refinement of `RwLockSpec`, exact word and who sleeps when, wake-ups, progress |
| `shared_mutex_order` | 2 threads | | violation: `SectionsAreOrdered` |
| `threads` | `ThreadHandle` with 4 threads; a group of 3 and its joiner; `CondVar` with 3 threads, 4 items, a counter modulo 2; `FaultyCondVar` with a producer, a consumer and a thread that is both, 2 items; the adversary with 3 threads, 2 operations each | 284,453 | lifetime, ordering and progress of joins; no lost notification; nodes are alive when they are fired; suspended threads are resumed |
| `explore` | 9 programs, 6 sets of limits of the depth-first scheduler, the random scheduler with lock-free suspension | 129,306 | every interleaving once, every branch taken, failures replayed, exploration ends |
| `memory` | a segment of 25 units, stacks of 4, 2 sizes, 5 allocations; statics of 2 threads over 2 simulations: 3 globals, one of them the `tls::Manager` and one thread-local, 3 locals, one of them thread-local | 612,808 | nothing overlaps, exact bookkeeping and access checks, refinement of `HeapSpec`; slots are released and statics reset, but for what came too late |

Every property of a passing run has a mutant in `PROJECT.json`: a change of a modelled definition
(the operators with a suffix such as `Wake_NotScheduled`) that makes it fail.

Deadlock is checked in all runs but those of the memory model and of the memory, which really stop
at their bounds. Where a program comes to its end the specification has a step for it.

## 4. Bounds

* Composed runs take the bounds of their components.
* Threads. A lost wake-up takes a waiter, a waker and a thread that barges in; a wrong wake-up of
  one of several takes two waiters. Four threads are enough for both at once (three in
  `SharedMutex`, where a thread that has unlocked comes back as the third). For the kernel, the
  schedulers and futex queues, the exploration, the memory model, the locks, both condition
  variables, the thread handle, the wait group, the adversary of the thread runtime, the heap and
  the statics the proofs remove the bounds from the safety properties; there the runs test the
  invariants, their mutants, and liveness.
* `MaintenancePeriod` is 8 in the code and 2 in the runs; the modules take it as a parameter, and
  with 2 both cases (maintenance or not) occur between any two steps of a thread.
* `Tick` 2 with odd deadlines makes deadlines fall between ticks (rounding).
* `Width` stands for 2^32 in `CondVar`. The run uses 2, so that the counter wraps all the time:
  `NoLostNotify` does not rest on the counter, because `mutex->unlock()` and `FutexWait` are one
  step of the simulator (the thread is not preempted after the store of the unlock).
* `MaxSections`, `MaxLocks`, `MaxPuts`, `MaxAdds`, `MaxEpoch` bound the length of a run: no
  operation is started once the bound is reached. `Finished` steps keep the runs that check for
  deadlock from taking the end of the bound for one: they are enabled only when nothing is in
  progress.
* Statics. Two simulations are needed for what one leaves to the next. Of the six variables each is
  there for a case: a thread-local global and a thread-local local, whose slots a thread may take in
  the order of their keys or against it; two locals with slow constructors, one of both threads and one of the
  worker only; a global destroyed after the `tls::Manager`, and the manager. Every
  destructor uses both thread-local variables, so each can find a slot of the other, or of its own kind,
  behind the loop or ahead of it; the worker is a detached thread whenever main returns before it.
* Five and six timers in `TimerHeap`: six is the smallest heap in which the last timer and the
  hole are in different subtrees at the needed depth.
* `Nesting` 1 in `queues`: with nested `LockFreeScope`s `SomeLockFreeThreadRuns` fails (section 7).
  `LfLimit` 2 with three threads lets the adversary suspend all but one. `MaxLow` bounds the
  priorities PCT hands out in a run.
* `BurnKinds` leaves out `pct`, which the run `scheduler_burn` shows to fail, and `coop` (section 7).
* The segment of `memory` is so small that heap and stacks meet after two blocks and two stacks,
  and `IndexCapacity` is reached.
* Producers {1, 2} and consumers {2, 3} of `FaultyCondVar`: two waiters with a notifier, and two
  notifiers with a waiter. (With three threads in both roles and three items, 715,757 states, and
  with one producer and three consumers, 1,722,084 states, the invariants hold as well.) The
  adversary was also run with four threads (914,985 states).

Symmetry is used in `race_detector` only, between the two threads that are not main; it checks
invariants only.

## 5. Fairness

* `Simulator`: weak fairness of the loop (sequential code that does not block) and of the system
  calls that give control back. That user code between two system calls is finite, and that it
  does not make resuming calls for ever, is an assumption on the program under test.
* `Mutex`, `SharedMutex`, `TimedMutex`, `ThreadHandle`, `WaitGroup`: weak fairness of the steps of
  a call in progress and of thread exits: the random schedulers pick each queued thread in the end
  with probability one, and user routines are finite. Critical sections are finite; in `TimedMutex`
  they need not be, which is what a timed call is for.
* `Explore`: weak fairness of `Next`; exploration is sequential code. That it ends is a result, for
  programs without endless loops.
* `LockFreeAdversary`: weak fairness of the steps of every thread that is not blocked, which the
  operating system gives; threads make a bounded number of operations.

The cooperative and the PCT scheduler do not give this fairness; the liveness results about the
primitives are about the random scheduler.

## 6. Proofs

All theorems hold for every value of the constants that satisfies the `ASSUME`s of the modules.

**`SimulatorProofs`.** The inductive invariant is the conjunction of the kernel's own properties
(`QueuedIsRunnable`, `WaitersAreParked`, `TimersAreOwned`, `NoThreadIsLost`, ...) with what links
them to `phase`: which thread runs in which phase, what a running thread's fields are, and how
late a timer can be at each place of the loop. None of the properties is inductive alone: that a
woken thread is not already queued follows from where it waited, that its timer can be cancelled
from the ownership of timers, and the bound on lateness from the iterations left until the next
maintenance. One lemma per group of actions, one step per conjunct.

**`MemoryModelProofs`.** `NoRaceIsMissed` speaks of all past accesses while the code compares with
the last ones. The invariant says that every access in the history is ordered before the last
write or covered by a kept read, and that clocks are transitive: whoever knows the kept access
knows the forgotten ones. Transitivity needs that no clock is ahead of the thread it speaks of
(`NoClockFromTheFuture`), which needs `EpochIsOwnTime`. Joins, ticks and what they preserve are
lemmas of their own.

**`MutexProofs`.** The invariant adds where parked threads are and what the clocks carry: the last
store of a free mutex knows all sections that have ended (`FreeKnows`), and so does the holder
(`HolderKnows`). `NoLostWakeup` needs the exact counter. The refinement of `RwLockSpec` follows
from the invariant: an acquisition finds no holder. The second part is about `timed_mutex`, which
has no counter and wakes at every unlock: its wake-ups are safe because a parked thread implies a
set word or a thread that is awake and will look at it again (`TimedParked`, `TimedOwnerHolds`).

**`SharedMutexProofs`.** The packed word is exactly the writer and the number of readers inside
(`StateIsExact`), only one of the two kinds is inside (`Exclusive`), and a parked thread has someone
inside, or someone awake on the way to the word, who will wake it (`NoLostWakeup`, `ParkedLoop`,
`ReadersWaitForWriter`). Both halves of load and compare_exchange are separate steps; what a thread
expects in between is only what it once saw (`CasExpects`), and nothing rests on it being current.
Readers are counted with `Cardinality`, one lemma per way a thread enters or leaves.

**`ThreadsProofs`.** The object a handle and its thread share is deleted once and after the
last of them (`ObjectLifetime`): the invariant says who owns the handle (`OneOwner`), what has not
been born (`Unborn`), and that the word `sync` counts who has arrived (`SyncCounts`). A join knows
what the thread did because the exit stores it before it arrives (`ExitIsStored`, `JoinedKnows`).

The wait group, in the same module: `Stages` gives the order in which the counter, the flag and the
joiner move, and the counter is the number of threads that have not exited, so `GroupIsJoined` for
any number of them. `condition_variable`: `CvHolding`, `CvParked` and `CvNothing` say who holds the
mutex, who sleeps, and that an empty store of items is the only reason to. The condition variable
of the thread runtime: nodes are alive as long as they are linked or being fired (`RtLinked`,
`RtAsleep`), under the spin lock of the list (`RtGuarding`), and every item is covered by a thread
that will look (`RtCovered`), where a thread whose time has passed while it is linked does not
count.

The adversary of the thread runtime: its two counters change outside of its mutex and are
nevertheless exact in every state (`AdvCounters`); between reading the counter of suspended threads
and acting on it, both under the mutex, that counter can only fall (`AdvGuard`: `suspended <= seen`),
so the comparison with `thread_count_` leaves somebody running (`SomebodyRuns`). It is the safety
side of `SuspendedAreResumed`.

**`HeapProofs`.** Blocks follow each other from the index to the end of the heap (`HeapLayout`) and
stacks, in use or pooled, from there to the end of the segment (`StackLayout`): disjointness is
arithmetic from there. `ListsAreExact` says that the free list of a class holds its free blocks
once; `CountIsExact` and `BytesAreExact` that the statistics count the live ones. The last is about
the sum the community module folds over a set: `SumComputed` reduces it to a function over the
subsets of the set, and what the sum does when a block is added or removed is shown by induction
over those subsets. The refinement of `HeapSpec` uses the same case split over the effect of a step.

The statics are in the same module (`StaticsInv`). A variable that is set is one that the loop of
`DestroyVars` is still to come to and that `BurnVars` finds, or it is in `late` (`SetIsFound`). This
holds from the first instant because a variable is linked before its constructor starts: a
constructor in progress is the only one of a variable that is linked, not set, and ahead of the loop
(`CtorsAreFound`), so its end sets nothing that will not be found. What is linked after `UnlinkLocals`
is in `late` (`LinkedIsLate`). Every slot in use has its key in the table (`KeysAreKnown`), so the walk
of a leaving thread meets all that are ahead of it, and those it has passed are in `behind`
(`PassedIsBehind`). Nothing is assumed of destructors, of detached threads or of how a simulation
ends; the assumptions are those on the constants (`StaticsAssumption`).

**`SchedulersProofs`.** The schedulers keep threads in sorted lists, swap-and-pop sets and linked
queues, and a futex in a singleton or in one of those. The proof first says what each operation of
a container does to the set of threads in it, and that no thread gets into it twice (`QueuedAdds`,
`DroppedRemoves`, `QueuedAll`, `PushWaiterAdds`, ...). Then every step has one of ten effects on
four sets: the threads that can run, the suspended ones, the running one and the waiters
(`Effect`). The invariant `IInv` says that each thread is in exactly one of them (`OnePlace`), that
the queue of a futex and `Thread::futex` agree (`WaitersAreParked`), and that the thread which goes
on next is outside of the run queue, except under the cooperative scheduler, where it is inside
(`NextIsApart`); so every removal finds its thread and no assertion fails. Each effect is one step
of `SchedulerSpec`. These theorems assume `BurnsAreSafe`, that runs of PCT and of the cooperative
scheduler end without threads to burn: with them it is false (section 7, run `scheduler_burn`).
That a lock-free thread always runs needs in addition `Nesting <= 1` (section 7): then
`lf_thread_count_` is the number of threads in a scope, and fewer are suspended (`LfInv`). That PCT
runs the thread with the strictly highest priority rests on `PriorInv`: initial priorities are a
permutation of positive numbers, the others are handed out downwards from zero, each once, so no
two threads have the same.

**`ExploreProofs`.** Three invariants about the exploration, for every program and all limits. Two
are about the depth-first scheduler. `BranchInv` is about the search: the schedules that have been run come before the running
one in the lexicographic order of their indices, and every alternative of a branch that was met has
been taken or comes after it (`Searched`); a simulation appends branches at their first alternative
(`Deepened`), `Backtrack` goes to the next schedule in that order, and when no branch is open nothing
is left ahead (`AllTaken`). `WordInv` is about programs without waiting (`Straight`): the state of the
scheduler (who can run, who goes on, bursts, preemptions used) is determined by the word of picks so
far, and the branches of the schedule are exactly the questions this word leaves open (`OnTheWay`,
`Guided`); so two different words part at a branch, a word that the limits allow is never missed
(`Finished`), and none is run twice. `RepeatInv` is about the repetitions of a failed simulation, with
either scheduler: a simulation is a function of the program and of the answers it is given, so two
trails of simulation states (`Trail`, one `Follows` the other) that were given the same answers are the
same trail. An exploration is at the end of the schedule made for it or, after `Backtrack`, on a way
that earlier simulations have gone (`Way`); the Recorder and the ReplayScheduler are at a state of the
failed simulation, and what the Recorder has logged is the log of that state (`Failed`). Hence every
entry of the log is of the kind that is asked for, names a thread that is in the queue, and both digests
agree. `FailuresRepeat` has the hypothesis `Unsuspended(par)`: the depth-first scheduler, or the random
one without its lock-free adversary. With suspended threads the repetition of a deadlock can fail
(section 7), so it cannot be dropped. The assumptions are those of the module on programs and
parameters (`ProgramsAssumption`, `ParamsAssumption`, and for the replay `SpawnsAssumption`: a spawn
starts a thread of its own, as `_SysSpawn` creates a thread whose id is never used again); the proofs are by
induction over positions in schedules, words and trails, with sets of numbers.

The library's induction theorems cannot be used here, because they take an operator as a parameter.
The proofs that need induction take a set instead: a set of numbers that contains 0 and is closed
under the successor contains all (`NumbersInduction`), and the same for the subsets of a finite set
(`SubsetInduction`); both follow from the existence of minimal elements, which the library has.
`HeapProofs` uses them for the sum over a set, `SchedulersProofs` for the fold that wakes all
waiters of a futex, `ExploreProofs` for schedules, words and trails.

The theorems that state a property of a run: `QueuesAgreeWithThreads` (`QueuesAgree`),
`ThreadsAreNotLost` (`NoThreadIsLost`), `DeadlocksAreValid` (`DeadlockIsValid`),
`SimulationStopsClean` (`EndsClean`), `TimersArePolledInTime` (`TimersAreNotLate`),
`DetectorClocksAreSound` (`ClocksAreSound`), `RacesAreNotMissed` (`NoRaceIsMissed`),
`MutexWordIsExact` (`WordIsExact`), `WakeupsAreNotLost` (`NoLostWakeup`), `MutexOrders`
(`SectionsAreOrdered`), `MutexImplementsLock` (`ImplementsLock`), `TimedWakeupsAreNotLost`
(`NoLostTimedWakeup`), `TimedMutexImplementsLock` (`ImplementsTimedLock`), `SharedWordIsExact`
(`StateGuidesWakeups`), `SharedWakeupsAreNotLost` (`NoLostWakeup`), `SharedMutexImplementsLock`
(`ImplementsLock`), `ObjectLivesAsLongAsUsed` (`ObjectLifetime`), `JoinsSynchronize`
(`JoinSynchronizes`), `GroupJoinIsExact` (`GroupIsJoined`), `NotifiersReachLiveNodes`
(`NodesAreAlive`), `NotificationsAreNotLost` (`NoLostNotify`), `SegmentIsDividedUp`
(`MemoryIsDisjoint`), `AccountsAreExact` (`BookkeepingIsExact`), `AccessChecksAreExact`
(`AccessIsExact`), `AllocatorImplementsHeap` (`ImplementsHeap`), `LatecomersOnly`
(`OnlyLatecomersStay`), `NoVerifyFails` (`VerifiesHold`), `SchedulersImplementContract`
(`ImplementsScheduler`), `AdversaryLeavesOneRunning` (`SomeLockFreeThreadRuns`),
`PctRunsHighestPriority` (`HighestPriorityRuns`), `BranchesAreTaken` (`EveryBranchIsTaken`),
`EveryInterleaving` (`EveryInterleavingOnce`), `FailuresRepeat` (`FailuresAreReplayed`, without
suspended lock-free threads).

Only model-checked: everything temporal that needs fairness (`TimersFire`, `LockIsGranted`,
`AllJoinsReturn`, `ExplorationEnds`, `SuspendedAreResumed`), which this prover does not do; the
timer heap (its sift operations are recursive operators); and `FailuresAreReplayed` with
the lock-free adversary of the random scheduler, which holds for the programs of the run and is false
for others (section 7).

## 7. Findings

1. **Cancelling a timer can break the heap** (`timer_heap.hpp:41`, run `timer_heap_cancel`).
   `Remove` fills the hole with the last timer and only sifts it down; it may have to go up. With
   six armed timers, one can be left below a later one. The kernel then polls late: a sleeping
   thread is woken after a later sleeper, and `Idle` may jump over its deadline. With at most
   five timers this cannot happen (`queues`), which is why `TimersAreNotLate` has that
   hypothesis.
2. **`shared_mutex` does not order all critical sections** (`shared_mutex.hpp:56`, also `:95` and
   `:113`; run `shared_mutex_order`). The load is an acquire operation, the compare_exchange that
   takes the lock is relaxed; a writer that comes and goes in between restores the value 0 and is
   not synchronized with. The simulator itself would report a race on data the lock protects. The
   order is the only thing wrong: exclusion and wake-ups hold, and with an acquire
   compare_exchange so does the order.
3. **The timed calls of `timed_mutex` do not time out** (`timed_mutex.hpp:115`, run
   `timed_mutex_timeout`): the wait in the loop has no timeout.
4. **A thread burnt under the PCT scheduler stays in its run queue** (`pct/scheduler.hpp:68`, run
   `scheduler_burn`). `Remove` is empty; main exits while a detached thread can run, the thread is
   destroyed, the queue keeps the pointer, and the loop ends in "Broken scheduler". The
   depth-first and the random scheduler remove the thread.
Found while modelling, and visible when the parameters named are changed:

* *Nested `LockFreeScope`s.* The inner scope and its destructor count the thread once more, so the
  adversary can suspend the last lock-free thread: with `Nesting = 2`, `SomeLockFreeThreadRuns`
  fails.
* *Burning under the cooperative scheduler.* Run queue and futex queues link a thread through the
  same node; `Remove` of a burnt waiter takes it out of its futex queue, and the kernel then finds
  "Waiter not found in WaitQueue": with `"coop"` in `BurnKinds`, `VerifiesHold` fails.
* *Replay of a deadlock with a suspended thread.* A lock-free thread awaits another lock-free
  thread that increments and wakes; when the latter is suspended at the deadlock, the repetition
  ends in "Unexpected schedule length". The programs of the `explore` run do not have such a pair.
* *Thread-local variables used by destructors.* `tls::Manager::Destroy` goes through the slots once, in
  the order of their keys (`thread_local/manager.hpp:57`). The destructor of a slot that uses a variable of
  a smaller key makes its slot anew behind the loop: it is never destroyed, and `CheckMemory` reports a
  leak. `std` destroys in the reverse order of construction, so the program is a legal one. With
  `Uses` such that `cached` uses `global`, `Left = {}` fails; with no `Uses` it holds.
* *Statics registered after main has returned.* At a preemption in a destructor a detached thread can
  come by a static of a function for the first time; it is registered behind the loops of `DestroyVars`
  (`static/manager.hpp:97`). The thread is burnt, the variable is not: in the next simulation it is still
  linked ("cannot link already linked node") or points into memory that is gone. A destructor that comes
  by a static for the first time does the same without any thread. Without the exception `late`,
  `StaticsAreReset` fails, with empty `Uses` too.
* *First visits of one static by two threads.* If the constructor can be preempted, both register
  it, and the second aborts with "cannot link already linked node" (`static/manager.hpp:67`); the
  step is `panic`.
* *Order of destruction.* Local statics are destroyed in the reverse order of registration, which
  is the beginning of construction, not its end as `std` has it (`manager.hpp:90`, "Destroy in
  reverse order").
* *PCT parameters.* `depth` is commented as the number of priority change points and gives
  depth - 1; `seed_` is never set from the parameters; the drawing of change points does not end
  when depth - 1 exceeds the estimated length of a run (7 at first), or when depth is 0.
* *Random exploration* runs one simulation more than the parameter "Number of simulations to run".
* *Heap overflow.* When the buffer of a free list does not fit, it is a null pointer that the next
  push writes through (`free_list/vector.hpp:88`); the model stops there (phase `dead`).
* *Thread runtime.* `FaultyTimedMutex::unlock()` (`rt/thr/fault/std_like/timed_mutex.hpp:46`) is
  empty: the second lock of the same mutex never returns.

## 8. Not modelled

* `DetCheck` compares digests of one program in differently filled memory; a model without memory
  contents and addresses cannot tell the two runs apart.
* The mapping of segments is the operating system's, the segment of statics a bump pointer.
* Logging, tracing, digests and formatting have no influence on the control.
* The facades (`ed`, `rt/cap`, `assist`, `test`) only select a runtime; `user/library/wait` and
  `user/assist` are thin wrappers of system calls that `Simulator` has.
* Of `rt/thr`: the wrappers that yield around a `std` primitive, whose behaviour is that of the
  primitive under any interleaving; pinning to cores.
* Context switching (`src/sure`) is assembly, `src/wheels` containers and assertions.
* `src/fmt`, `src/backward-cpp`, `src/function2` and `src/gflags` are third-party code. They are
  most of the lines of the repository, so the share of lines the map covers stays small: what is
  modelled is a large part of `src/twist/source/twist/rt/sim`.

## 9. Plan

Done: kernel, timer queue, schedulers and futex queues, exploration and replay, memory model,
isolated memory, statics, the locks, the condition variables, the thread handle, the wait group,
the adversary of the thread runtime; proofs of the kernel, the schedulers and futex queues, the
exploration and the replay, the memory model, the locks, the thread handle, the wait group, the condition variables
of both runtimes, the adversary of the thread runtime, the heap and the statics.

Next: the timer heap with its sift operations as functions, so that `MinIsOnTop` can be proved for at
most five timers; `DetCheck`, which needs a model of memory contents.
