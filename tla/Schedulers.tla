------------------------------ MODULE Schedulers ------------------------------
(***************************************************************************)
(* The run queues and futex queues of the schedulers (scheduler/random,    *)
(* scheduler/dfs, scheduler/pct, scheduler/coop), behind the WaitQueue of  *)
(* the futex (system/futex/wait_queue.hpp), and the calls the kernel makes *)
(* to them over several simulations, the burning of threads included.      *)
(*                                                                         *)
(* Random numbers, time slices and branches are free choices; what is kept *)
(* is which containers a thread is in. An action is one call of the kernel *)
(* with everything the scheduler does in it.                               *)
(***************************************************************************)
EXTENDS Integers, Sequences, FiniteSets, SequencesExt

CONSTANTS
  Threads,     \* ids 1 .. Threads
  Futex,
  None,
  Kinds,       \* the schedulers to look at
  BurnKinds,   \* those whose runs may end with threads to burn
  Nesting,     \* how deep LockFreeScopes are nested
  LfLimit,     \* params_.lf_suspended_threads_limit
  Depth,       \* params_.depth of the PCT scheduler
  MaxLow       \* bound: priorities handed out below the initial ones, per run

ASSUME ConstantsAssumption ==
  /\ Threads \in Nat \ {0} /\ Nesting \in Nat /\ LfLimit \in Nat /\ Depth \in Nat \ {0}
  /\ MaxLow \in Nat
  /\ Kinds \subseteq {"random", "dfs", "dfs_fifo", "pct", "coop"} /\ BurnKinds \subseteq Kinds
  /\ None \notin 1 .. Threads /\ None \notin Futex
  /\ Futex \cap {"ready", "running", "held"} = {}   \* names of places, see PlacesOf

Thread == 1 .. Threads
Main == 1

VARIABLES
  kind,        \* which scheduler
  phase,       \* "run", "burn" (threads are being burnt), "stopped" or "panic"
  ids,         \* next_id_: ids are not used again
  alive,       \* alive_ of the kernel
  running,     \* the thread that makes the calls
  futex,       \* Thread::futex
  preemptive,  \* Thread::attrs.preemptive
  scopes,      \* nesting of the thread's LockFreeScopes; attrs.lock_free is scopes # 0
  runq,        \* run_queue_
  next,        \* next_ of random and coop, active_ of dfs and pct
  single,      \* WaitQueue::singleton_ of each futex
  waiters,     \* WaitQueue::waiters_, NoQueue until two threads met there
  suspended,   \* suspended_threads_ of random
  lfCount,     \* lf_thread_count_ of random
  lfMarked,    \* threads with f2 = 1: suspended since their last progress
  prior,       \* Thread::sched.f1 under pct
  nextPrior,   \* next_prior_ of pct
  initPrior,   \* init_prior_ of pct
  estimate,    \* estimates_.threads of pct
  changes      \* priority change points left in this run of pct

kernel == <<ids, alive, running, futex, preemptive, scopes>>
lockFree == <<suspended, lfCount, lfMarked>>
priorities == <<prior, nextPrior, initPrior, estimate, changes>>
control == <<kind, phase>>
vars == <<control, kernel, runq, next, single, waiters, lockFree, priorities>>

NoQueue == <<None>>

-----------------------------------------------------------------------------
\* Containers of threads

Linked == {"coop", "pct", "dfs_fifo"}   \* futex queues linked through the thread's node

\* SortedList::Push comes from the back, up to a thread with a smaller id.
Sorted(q, t) == InsertAt(q, 1 + Max({0} \cup {i \in DOMAIN q : q[i] <= t}), t)

\* The run queue: SortedList::Push of both dfs kinds, ThreadSet::Push, RunQueue::Push, PushBack
Queued(q, t) == IF kind \in {"dfs", "dfs_fifo"} THEN Sorted(q, t) ELSE Append(q, t)

\* The futex queue
Pushed(q, t) == IF kind = "dfs" THEN Sorted(q, t) ELSE Append(q, t)

\* ThreadSet fills the hole with its last element, the lists close it.
Dropped(q, i) ==
  IF kind = "random" THEN SubSeq([q EXCEPT ![i] = q[Len(q)]], 1, Len(q) - 1)
                     ELSE RemoveAt(q, i)

Without(q, t) ==
  IF t \in Range(q) THEN Dropped(q, CHOOSE i \in DOMAIN q : q[i] = t) ELSE q

\* Which element Pop() of a futex queue may return.
PopIndices(q) == IF kind \in Linked /\ q # <<>> THEN {1} ELSE DOMAIN q

\* The order in which repeated PopAll() returns them.
PopAllOrder(q) == IF kind \in Linked THEN q ELSE Reverse(q)

-----------------------------------------------------------------------------
\* WaitQueue, the queue of a futex

Waiting(f) ==
  IF waiters[f] # NoQueue THEN waiters[f] ELSE IF single[f] = None THEN <<>> ELSE <<single[f]>>

PushWaiter_DropsFirst(f, t) ==
  IF waiters[f] # NoQueue THEN waiters' = [waiters EXCEPT ![f] = Pushed(@, t)] /\ UNCHANGED single
  ELSE IF single[f] = None THEN single' = [single EXCEPT ![f] = t] /\ UNCHANGED waiters
  ELSE waiters' = [waiters EXCEPT ![f] = Pushed(<<>>, t)] /\ single' = [single EXCEPT ![f] = None]

\* From the singleton to the scheduler's queue at the second waiter, never back.
PushWaiter(f, t) ==
  \/ /\ waiters[f] # NoQueue
     /\ waiters' = [waiters EXCEPT ![f] = Pushed(@, t)]
     /\ UNCHANGED single
  \/ /\ waiters[f] = NoQueue /\ single[f] = None
     /\ single' = [single EXCEPT ![f] = t]
     /\ UNCHANGED waiters
  \/ /\ waiters[f] = NoQueue /\ single[f] # None
     /\ waiters' = [waiters EXCEPT ![f] = Pushed(Pushed(<<>>, single[f]), t)]
     /\ single' = [single EXCEPT ![f] = None]

PopWaiter(f, i) ==
  \/ /\ waiters[f] # NoQueue
     /\ waiters' = [waiters EXCEPT ![f] = Dropped(@, i)]
     /\ UNCHANGED single
  \/ /\ waiters[f] = NoQueue
     /\ single' = [single EXCEPT ![f] = None]
     /\ UNCHANGED waiters

\* PopAll until it returns nullptr
PopAllWaiters(f) ==
  /\ waiters' = [waiters EXCEPT ![f] = IF @ = NoQueue THEN NoQueue ELSE <<>>]
  /\ single' = [single EXCEPT ![f] = None]

\* Remove, with the scheduler's queues as w has them: does it find the thread?
Removes(w, f, t) == IF w[f] # NoQueue THEN t \in Range(w[f]) ELSE single[f] = t

RemoveWaiter(w, f, t) ==
  \/ /\ w[f] # NoQueue
     /\ waiters' = [w EXCEPT ![f] = Without(@, t)]
     /\ UNCHANGED single
  \/ /\ w[f] = NoQueue
     /\ single' = [single EXCEPT ![f] = None]
     /\ waiters' = w

-----------------------------------------------------------------------------
\* Simulations: Start of the scheduler, and the end of the loop

IsIdle == runq = <<>> /\ (kind = "coop" \/ next = None)

\* Reset of pct: initial priorities are a permutation, the others come below.
ResetPriorities ==
  /\ initPrior' \in {p \in [1 .. estimate -> 1 .. estimate] : IsInjective(p)}
  /\ nextPrior' = 0 /\ changes' = Depth - 1
  /\ UNCHANGED <<prior, estimate>>

Init ==
  /\ kind \in Kinds
  /\ phase = "run" /\ ids = 0
  /\ alive = {} /\ running = None
  /\ futex = [t \in Thread |-> None]
  /\ preemptive = [t \in Thread |-> TRUE]
  /\ scopes = [t \in Thread |-> 0]
  /\ runq = <<>> /\ next = None
  /\ single = [f \in Futex |-> None] /\ waiters = [f \in Futex |-> NoQueue]
  /\ suspended = <<>> /\ lfCount = 0 /\ lfMarked = {}
  /\ prior = [t \in Thread |-> 0] /\ nextPrior = 0 /\ changes = Depth - 1
  /\ estimate = 1 /\ initPrior = [i \in {1} |-> 1]

\* StopLoop: WHEELS_VERIFY(RunQueue()->IsIdle()), and the futexes are destroyed with their queues,
\* which must be empty.
StopLoop ==
  /\ phase = "burn" /\ alive = {}
  /\ phase' = IF IsIdle /\ \A f \in Futex : Waiting(f) = <<>> THEN "stopped" ELSE "panic"
  /\ single' = [f \in Futex |-> None] /\ waiters' = [f \in Futex |-> NoQueue]
  /\ UNCHANGED <<kind, kernel, runq, next, lockFree, priorities>>

\* Start of the next simulation with the same scheduler.
Start ==
  /\ phase = "stopped"
  /\ phase' = IF kind \in {"pct", "coop"} /\ runq # <<>> THEN "panic" ELSE "run"
  /\ ids' = 0
  /\ runq' = IF kind \in {"pct", "coop"} THEN runq ELSE <<>>
  /\ next' = None
  /\ suspended' = <<>> /\ lfCount' = 0
  /\ IF kind = "pct" THEN ResetPriorities ELSE UNCHANGED priorities
  /\ UNCHANGED <<kind, alive, running, futex, preemptive, scopes, lfMarked, single, waiters>>

-----------------------------------------------------------------------------
\* Calls in simulator context

\* NextPriority, and its thread
Lowered(t) == nextPrior > -MaxLow /\ prior' = [prior EXCEPT ![t] = nextPrior] /\ nextPrior' = nextPrior - 1

\* Spawn, of the main thread or by a thread
Spawn(t) ==
  /\ phase = "run" /\ (ids = 0 \/ running # None)
  /\ t = ids + 1 /\ ids' = t
  /\ alive' = alive \cup {t}
  /\ runq' = Queued(runq, t)
  /\ \/ kind # "pct" /\ UNCHANGED <<prior, nextPrior, estimate>>
     \/ /\ kind = "pct" /\ t \in DOMAIN initPrior
        /\ prior' = [prior EXCEPT ![t] = initPrior[t]]
        /\ UNCHANGED <<nextPrior, estimate>>
     \/ /\ kind = "pct" /\ t \notin DOMAIN initPrior
        /\ Lowered(t)
        /\ estimate' = IF t > estimate THEN t ELSE estimate
  /\ UNCHANGED <<control, running, futex, preemptive, scopes, next, single, waiters, lockFree,
                 initPrior, changes>>

Runs(t) == running' = t /\ UNCHANGED <<ids, alive, futex, preemptive, scopes>>

Highest_Lowest(q) == {i \in DOMAIN q : \A j \in DOMAIN q : prior'[q[j]] >= prior'[q[i]]}

Highest(q) == {i \in DOMAIN q : \A j \in DOMAIN q : prior'[q[j]] <= prior'[q[i]]}

PickRandom ==
  /\ kind = "random" /\ UNCHANGED priorities
  /\ \/ next # None /\ Runs(next) /\ next' = None /\ UNCHANGED runq
     \/ /\ next = None
        /\ \E i \in DOMAIN runq : Runs(runq[i]) /\ runq' = Dropped(runq, i)
        /\ UNCHANGED next

\* Either goes on with the active thread or picks another one, and then queues the active one.
PickDfs ==
  /\ kind \in {"dfs", "dfs_fifo"} /\ UNCHANGED priorities
  /\ next' = None
  /\ \/ next # None /\ Runs(next) /\ UNCHANGED runq
     \/ /\ next # None => preemptive[next]
        /\ \E i \in DOMAIN runq :
             /\ Runs(runq[i])
             /\ runq' = IF next = None THEN Dropped(runq, i) ELSE Queued(Dropped(runq, i), next)

\* Preempt of pct: at a change point the active thread falls below all others.
ChangePoint == preemptive[next] /\ changes > 0 /\ Lowered(next) /\ changes' = changes - 1

Outranked == preemptive[next] /\ \E i \in DOMAIN runq : prior[next] < prior[runq[i]]

PickPct ==
  /\ kind = "pct" /\ UNCHANGED <<initPrior, estimate>>
  /\ next' = None
  /\ \/ /\ next # None /\ ~Outranked
        /\ Runs(next) /\ UNCHANGED <<runq, prior, nextPrior, changes>>
     \/ /\ next # None
        /\ ChangePoint \/ (Outranked /\ UNCHANGED <<prior, nextPrior, changes>>)
        /\ LET q == Append(runq, next) IN
             \E i \in Highest(q) : Runs(q[i]) /\ runq' = Dropped(q, i)
     \/ /\ next = None /\ UNCHANGED <<prior, nextPrior, changes>>
        /\ \E i \in Highest(runq) : Runs(runq[i]) /\ runq' = Dropped(runq, i)

PickCoop ==
  /\ kind = "coop" /\ UNCHANGED priorities
  /\ next' = None
  /\ IF next = None THEN Runs(Head(runq)) /\ runq' = Tail(runq)
                    ELSE Runs(next) /\ runq' = Without(runq, next)

PickNext ==
  /\ phase = "run" /\ running = None /\ ~IsIdle
  /\ PickRandom \/ PickDfs \/ PickPct \/ PickCoop
  /\ UNCHANGED <<control, single, waiters, lockFree>>

-----------------------------------------------------------------------------
\* System calls of the running thread

\* The thread's own fields go with it.
Destroyed(t) ==
  /\ alive' = alive \ {t}
  /\ preemptive' = [preemptive EXCEPT ![t] = TRUE]
  /\ scopes' = [scopes EXCEPT ![t] = 0]
  /\ prior' = [prior EXCEPT ![t] = 0]
  /\ lfMarked' = lfMarked \ {t}

Caller(t) == phase = "run" /\ running = t /\ t \in alive

Stops == running' = None

ToLfSuspend_CountsSelf(t) ==
  /\ scopes[t] # 0 /\ preemptive[t]
  /\ t \notin lfMarked
  /\ Len(suspended) < LfLimit
  /\ Len(suspended) < lfCount

\* ToLfSuspend of random, at an atomic store or read-modify-write
ToLfSuspend(t) ==
  /\ scopes[t] # 0 /\ preemptive[t]
  /\ t \notin lfMarked
  /\ Len(suspended) < LfLimit
  /\ 1 + Len(suspended) < lfCount

Interrupt(t) ==
  /\ Caller(t) /\ Stops
  /\ \/ /\ kind = "random" /\ preemptive[t]    \* the time slice is over
        /\ runq' = Queued(runq, t) /\ UNCHANGED <<next, lockFree>>
     \/ /\ kind = "random" /\ ToLfSuspend(t)
        /\ suspended' = Append(suspended, t) /\ lfMarked' = lfMarked \cup {t}
        /\ UNCHANGED <<runq, next, lfCount>>
     \/ /\ kind # "coop"
        /\ next' = t /\ UNCHANGED <<runq, lockFree>>
     \/ /\ kind = "coop"
        /\ runq' = <<t>> \o runq /\ UNCHANGED <<next, lockFree>>
  /\ UNCHANGED <<control, ids, alive, futex, preemptive, scopes, single, waiters, priorities>>

Yield(t) ==
  /\ Caller(t) /\ Stops
  /\ runq' = Queued(runq, t)
  /\ IF kind = "pct" THEN Lowered(t) ELSE UNCHANGED <<prior, nextPrior>>
  /\ UNCHANGED <<control, ids, alive, futex, preemptive, scopes, next, single, waiters, lockFree,
                 initPrior, estimate, changes>>

\* Only the cooperative scheduler has it; the program names a thread that can run.
SwitchTo(t, target) ==
  /\ Caller(t) /\ Stops
  /\ kind = "coop" /\ target \in Range(runq)
  /\ runq' = Append(runq, t) /\ next' = target
  /\ UNCHANGED <<control, ids, alive, futex, preemptive, scopes, single, waiters, lockFree, priorities>>

Park(t, f) ==
  /\ Caller(t) /\ Stops
  /\ futex' = [futex EXCEPT ![t] = f]
  /\ PushWaiter(f, t)
  /\ UNCHANGED <<control, ids, alive, preemptive, scopes, runq, next, lockFree, priorities>>

FutexWakeOne(t, f) ==
  /\ Caller(t)
  /\ \E i \in PopIndices(Waiting(f)) :
       /\ PopWaiter(f, i)
       /\ futex' = [futex EXCEPT ![Waiting(f)[i]] = None]
       /\ runq' = Queued(runq, Waiting(f)[i])
  /\ UNCHANGED <<control, ids, alive, running, preemptive, scopes, next, lockFree, priorities>>

FutexWakeAll(t, f) ==
  /\ Caller(t) /\ Waiting(f) # <<>>
  /\ PopAllWaiters(f)
  /\ futex' = [u \in Thread |-> IF futex[u] = f THEN None ELSE futex[u]]
  /\ runq' = FoldLeft(Queued, runq, PopAllOrder(Waiting(f)))
  /\ UNCHANGED <<control, ids, alive, running, preemptive, scopes, next, lockFree, priorities>>

\* A timer or a spurious wake-up, in simulator context
WakeWaiter(t) ==
  /\ phase = "run" /\ running = None /\ futex[t] # None
  /\ phase' = IF Removes(waiters, futex[t], t) THEN phase ELSE "panic"
  /\ RemoveWaiter(waiters, futex[t], t)
  /\ futex' = [futex EXCEPT ![t] = None]
  /\ runq' = Queued(runq, t)
  /\ UNCHANGED <<kind, ids, alive, running, preemptive, scopes, next, lockFree, priorities>>

\* LfResume: one suspended thread, if there is any
LfResume ==
  IF suspended = <<>> THEN UNCHANGED <<suspended, runq>>
  ELSE \E i \in DOMAIN suspended :
         suspended' = Dropped(suspended, i) /\ runq' = Queued(runq, suspended[i])

EnterScope(t) ==
  /\ Caller(t) /\ kind = "random" /\ scopes[t] < Nesting
  /\ scopes' = [scopes EXCEPT ![t] = @ + 1]
  /\ lfCount' = lfCount + 1
  /\ UNCHANGED <<control, ids, alive, running, futex, preemptive, runq, next, single, waiters,
                 suspended, lfMarked, priorities>>

\* The destructor restores the previous status: TRUE in an inner scope, and sets it again.
LeaveScope(t) ==
  /\ Caller(t) /\ kind = "random" /\ scopes[t] > 0
  /\ scopes' = [scopes EXCEPT ![t] = @ - 1]
  /\ IF scopes[t] > 1 THEN lfCount' = lfCount + 1 /\ UNCHANGED <<suspended, runq>>
                      ELSE lfCount' = lfCount - 1 /\ LfResume
  /\ UNCHANGED <<control, ids, alive, running, futex, preemptive, next, single, waiters, lfMarked,
                 priorities>>

\* The streak of progress reports is long enough to resume a thread, or is not.
Progress(t) ==
  /\ Caller(t) /\ kind = "random" /\ scopes[t] # 0
  /\ lfMarked' = lfMarked \ {t}
  /\ LfResume \/ UNCHANGED <<suspended, runq>>
  /\ UNCHANGED <<control, kernel, next, single, waiters, lfCount, priorities>>

\* The cooperative scheduler does not look at it.
SetPreemptive(t) ==
  /\ Caller(t) /\ kind # "coop"
  /\ preemptive' = [preemptive EXCEPT ![t] = ~@]
  /\ UNCHANGED <<control, ids, alive, running, futex, scopes, runq, next, single, waiters, lockFree,
                 priorities>>

\* Scopes and guards end before the thread does. When main completes, what is left is burnt.
Exit(t) ==
  /\ Caller(t) /\ Stops
  /\ scopes[t] = 0 /\ preemptive[t]
  /\ Destroyed(t)
  /\ t = Main => alive = {t} \/ kind \in BurnKinds
  /\ phase' = IF t = Main THEN "burn" ELSE phase
  /\ UNCHANGED <<kind, ids, futex, runq, next, single, waiters, suspended, lfCount, nextPrior,
                 initPrior, estimate, changes>>

-----------------------------------------------------------------------------
\* The loop is left with threads alive: abort by the running thread, deadlock, main completed

BurnAll ==
  /\ kind \in BurnKinds
  /\ phase = "run" /\ alive # {}
  /\ running # None \/ IsIdle
  /\ phase' = "burn"
  /\ UNCHANGED <<kind, kernel, runq, next, single, waiters, lockFree, priorities>>

LeftInRunQueue_Kept(t) == runq

\* IRunQueue::Remove. The run queue of pct keeps the thread; coop unlinks its node from whatever
\* list it is in, which can be a futex queue.
LeftInRunQueue(t) == IF kind = "pct" THEN runq ELSE Without(runq, t)

LeftInFutexQueues(t) ==
  IF kind # "coop" THEN waiters
  ELSE [f \in Futex |-> IF waiters[f] = NoQueue THEN NoQueue ELSE Without(waiters[f], t)]

Burn(t) ==
  /\ phase = "burn" /\ t \in alive
  /\ Destroyed(t)
  /\ running' = IF running = t THEN None ELSE running
  /\ runq' = LeftInRunQueue(t) /\ suspended' = Without(suspended, t)
  /\ IF futex[t] = None THEN UNCHANGED <<phase, futex, single>> /\ waiters' = LeftInFutexQueues(t)
     ELSE /\ phase' = IF Removes(LeftInFutexQueues(t), futex[t], t) THEN phase ELSE "panic"
          /\ RemoveWaiter(LeftInFutexQueues(t), futex[t], t)
          /\ futex' = [futex EXCEPT ![t] = None]
  /\ UNCHANGED <<kind, ids, next, lfCount, nextPrior, initPrior, estimate, changes>>

ThreadCall(t) ==
  \/ Interrupt(t) \/ Yield(t) \/ EnterScope(t) \/ LeaveScope(t) \/ Progress(t) \/ SetPreemptive(t)
  \/ Exit(t)
  \/ \E u \in Thread : SwitchTo(t, u)
  \/ \E f \in Futex : Park(t, f) \/ FutexWakeOne(t, f) \/ FutexWakeAll(t, f)

Next ==
  \/ StopLoop \/ Start \/ PickNext \/ BurnAll
  \/ \E t \in Thread : Spawn(t) \/ ThreadCall(t) \/ WakeWaiter(t) \/ Burn(t)

Spec == Init /\ [][Next]_vars

-----------------------------------------------------------------------------
\* Properties

\* Type invariant
TypeOK ==
  /\ kind \in Kinds /\ phase \in {"run", "burn", "stopped", "panic"}
  /\ ids \in Nat /\ alive \subseteq Thread /\ running \in Thread \cup {None}
  /\ futex \in [Thread -> Futex \cup {None}]
  /\ preemptive \in [Thread -> BOOLEAN] /\ scopes \in [Thread -> Nat]
  /\ runq \in Seq(Thread) /\ next \in Thread \cup {None}
  /\ single \in [Futex -> Thread \cup {None}]
  /\ waiters \in [Futex -> Seq(Thread) \cup {NoQueue}]
  /\ suspended \in Seq(Thread) /\ lfCount \in Int /\ lfMarked \subseteq Thread
  /\ prior \in [Thread -> Int] /\ nextPrior \in Int /\ changes \in Nat
  /\ estimate \in Nat /\ initPrior \in [DOMAIN initPrior -> Nat \ {0}]

\* Where the containers have thread t
PlacesOf(t) ==
  {"ready" : i \in {j \in DOMAIN runq : runq[j] = t}}
    \cup (IF t = next /\ kind # "coop" THEN {"ready"} ELSE {})
    \cup (IF t = running THEN {"running"} ELSE {})
    \cup {"held" : i \in {j \in DOMAIN suspended : suspended[j] = t}}
    \cup {f \in Futex : t \in Range(Waiting(f))}

Contract == INSTANCE SchedulerSpec WITH Thread <- Thread, at <- [t \in Thread |-> PlacesOf(t)]

\* Run queue, futex queues, suspended threads and the singleton waiters of every scheduler together
\* implement the contract of IScheduler: a thread is in one place at a time, only queued threads
\* are picked, only waiters are woken, and nothing is left of a thread that has been burnt
\* (system/scheduler.hpp, simulator.cpp Burn).
ImplementsScheduler == Contract!Spec

\* No WHEELS_VERIFY of the queues fails in any simulation: "Waiter not found in WaitQueue",
\* "Broken scheduler" in StopLoop, "Destroying non-empty wait queue", "Inconsistent state" in Start.
VerifiesHold == phase # "panic"

\* scheduler/random: "At least one runnable lf thread required". While the adversary keeps a
\* lock-free thread suspended there is a lock-free thread that it has not suspended; otherwise all
\* of them could be stopped for ever and a deadlock be reported of a lock-free program.
SomeLockFreeThreadRuns ==
  phase = "run" /\ suspended # <<>> => \E t \in alive : scopes[t] # 0 /\ t \notin Range(suspended)

\* scheduler/pct: whichever thread is picked, no queued thread has a higher priority, unless the
\* thread has switched preemption off; wake-ups, yields and change points in between included.
HighestPriorityRuns ==
  [][kind = "pct" /\ running = None /\ running' # None =>
       \/ ~preemptive[running']
       \/ \A i \in DOMAIN runq' : prior'[runq'[i]] < prior'[running']]_vars
==============================================================================
