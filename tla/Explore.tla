-------------------------------- MODULE Explore --------------------------------
(***************************************************************************)
(* Exploration of the schedules of a program (mod/sim/sim.cpp: Explore,    *)
(* Record) with the depth-first scheduler (scheduler/dfs), which keeps its *)
(* branches between simulations and backtracks, or with the random one     *)
(* (scheduler/random), whose choices are a function of its seed; and the   *)
(* Recorder and the ReplayScheduler (scheduler/replay), which log the      *)
(* decisions of a failed simulation and repeat it.                         *)
(*                                                                         *)
(* The program under test is a given list of operations per thread on one  *)
(* atomic variable, its futex and the random numbers of the simulation.    *)
(* A simulation is deterministic but for the answers of the scheduler.     *)
(***************************************************************************)
EXTENDS Integers, Sequences, FiniteSets, SequencesExt, FiniteSetsExt

CONSTANTS
  Programs,    \* of records [code: thread -> Seq of <<operation, argument>>, final: allowed values of x]
  Params,      \* of records [kind: "dfs" | "random", max_preemptions, max_steps, force_preempt,
               \*             lock_free, max_runs]; Unlimited where there is no limit
  Unlimited,
  None

Main == 1

ASSUME ProgramsAssumption ==
  /\ None \notin Nat
  /\ \A p \in Programs :
       /\ p.code \in Seq(Seq(STRING \X Int)) /\ p.code # <<>>
       /\ \A t \in DOMAIN p.code : \A i \in DOMAIN p.code[t] :
            /\ p.code[t][i][1] = "choice" => p.code[t][i][2] >= 1
            /\ p.code[t][i][1] = "spawn" => p.code[t][i][2] \in DOMAIN p.code \ {Main}

\* Every spawn starts a thread of its own.
ASSUME SpawnsAssumption ==
  \A p \in Programs : \A t, u \in DOMAIN p.code : \A i \in DOMAIN p.code[t], j \in DOMAIN p.code[u] :
    p.code[t][i][1] = "spawn" /\ p.code[u][j] = p.code[t][i] => t = u /\ i = j

ASSUME ParamsAssumption ==
  \A p \in Params :
    /\ p.kind \in {"dfs", "random"}
    /\ {p.max_preemptions, p.max_steps, p.force_preempt, p.max_runs} \subseteq Nat \cup {Unlimited}

VARIABLES
  prog, par,       \* what is explored, and with which parameters
  mode,            \* "explore", "record", "replay", "done" or "panic"
  count,           \* simulations of Explore so far
  seen,            \* history: <<schedule, word, status>> of the completed ones
  bug,             \* digest of the failed simulation, <<>>
  schedule,        \* schedule_ of dfs; for random, the numbers drawn from the seed
  branch,          \* branch_index_
  decisions, pos,  \* schedule_ of the recorder; next_ of the replay scheduler
  pc, x, reg,      \* program: position of each thread, the variable, a register per thread
  pending,         \* threads that stopped before an atomic operation (Thread::action)
  running,
  runq,            \* run_queue_, run_set_: ordered by id, so a set is enough
  active,          \* active_ of dfs, next_ of random
  parked, shared,  \* waiters of the futex, and whether its queue is one of the scheduler
  held, scoped, marked,  \* suspended_threads_, threads with attrs.lock_free, with f2 = 1
  preempts, steps, \* preempts_, steps_ of dfs
  burst,           \* Thread::sched.f1 under dfs: steps since the thread was picked
  word             \* history: the threads in the order in which they were picked (digest_)

question == <<prog, par>>
loop == <<mode, count, seen, bug>>
answers == <<schedule, branch, decisions, pos>>
program == <<pc, x, reg, pending>>
queues == <<runq, active, parked, shared, held, scoped, marked>>
limits == <<preempts, steps, burst>>
vars == <<question, loop, answers, program, running, queues, limits, word>>

Thread == DOMAIN prog.code

Exceeds(n, limit) == limit # Unlimited /\ n > limit
Reached(n, limit) == limit # Unlimited /\ n >= limit

-----------------------------------------------------------------------------
\* Answers

\* Choose(alts, type) of dfs: repeat the schedule, then go left. A random scheduler that is seeded
\* again repeats its numbers, too, and then draws any.
Choose(ch, type, alts) ==
  IF ch.branch < Len(ch.schedule)
  THEN {[schedule |-> ch.schedule, branch |-> ch.branch + 1, index |-> ch.schedule[ch.branch + 1].index]}
  ELSE {[schedule |-> Append(ch.schedule, [type |-> type, alts |-> alts, index |-> i]),
         branch |-> ch.branch + 1, index |-> i]
          : i \in IF par.kind = "dfs" THEN {0} ELSE 0 .. alts - 1}

Asked == [schedule |-> schedule, branch |-> branch, index |-> 0]

Answered(ch) == schedule' = ch.schedule /\ branch' = ch.branch

\* Pick(list): the thread at the chosen index, no branch if there is only one
Nth(S, i) == CHOOSE t \in S : Cardinality({u \in S : u < t}) = i

Pick(ch, S, type) ==
  IF Cardinality(S) = 1 THEN {[ch EXCEPT !.index = 0]} ELSE Choose(ch, type, Cardinality(S))

Open_OffByOne(s) == {i \in DOMAIN s : s[i].index + 2 < s[i].alts}

\* Backtrack(schedule_): branches without an alternative left are popped, the next one is advanced
Open(s) == {i \in DOMAIN s : s[i].index + 1 # s[i].alts}

Backtrack(s) == [SubSeq(s, 1, Max(Open(s))) EXCEPT ![Max(Open(s))].index = @ + 1]

Recorded_NoneSkipped(type, v) ==
  /\ mode # "replay"
  /\ decisions' = IF mode = "record" /\ v # None THEN Append(decisions, <<type, v>>) ELSE decisions
  /\ UNCHANGED pos

\* The Recorder logs an answer, the ReplayScheduler takes it from the log.
Recorded(type, v) ==
  /\ mode # "replay"
  /\ decisions' = IF mode = "record" THEN Append(decisions, <<type, v>>) ELSE decisions
  /\ UNCHANGED pos

Replayed(type, v) ==
  /\ mode = "replay" /\ pos < Len(decisions) /\ decisions[pos + 1] = <<type, v>>
  /\ pos' = pos + 1
  /\ UNCHANGED <<schedule, branch, decisions>>

\* "Unexpected schedule length", "Decision type mismatch", "Next thread not found in run queue"
ReplayFails(type, S) ==
  mode = "replay" /\ (pos = Len(decisions) \/ decisions[pos + 1] \notin {type} \X S)

-----------------------------------------------------------------------------
\* Simulations

StartWith(s) ==
  /\ schedule' = s /\ branch' = 0
  /\ pos' = 0
  /\ pc' = [t \in Thread |-> 1] /\ x' = 0 /\ reg' = [t \in Thread |-> 0]
  /\ pending' = {} /\ running' = None
  /\ runq' = {Main} /\ active' = None
  /\ parked' = {} /\ shared' = FALSE
  /\ held' = {} /\ scoped' = {} /\ marked' = {}
  /\ preempts' = 0 /\ steps' = 0 /\ burst' = [t \in Thread |-> 0]
  /\ word' = <<>>

Init ==
  /\ prog \in Programs /\ par \in Params
  /\ mode = "explore" /\ count = 0 /\ seen = {} /\ bug = <<>>
  /\ schedule = <<>> /\ branch = 0 /\ decisions = <<>> /\ pos = 0
  /\ pc = [t \in Thread |-> 1] /\ x = 0 /\ reg = [t \in Thread |-> 0]
  /\ pending = {} /\ running = None
  /\ runq = {Main} /\ active = None
  /\ parked = {} /\ shared = FALSE
  /\ held = {} /\ scoped = {} /\ marked = {}
  /\ preempts = 0 /\ steps = 0 /\ burst = [t \in Thread |-> 0]
  /\ word = <<>>

IsIdle == runq = {} /\ active = None

Exited(t) == pc[t] > Len(prog.code[t])

\* Deadlock if a thread is left; otherwise the program's own final check
Status == IF \A t \in Thread : Exited(t) /\ x \in prog.final THEN "Ok" ELSE "Failure"

\* NextSchedule of the two schedulers, after n simulations
HasNext(n) == IF par.kind = "dfs" THEN Open(schedule) # {} ELSE ~Exceeds(n, par.max_runs)

NextSchedule == IF par.kind = "dfs" THEN Backtrack(schedule) ELSE <<>>

\* Explore after a simulation: record a failure, go on or be done
Explored(status) ==
  /\ mode = "explore"
  /\ count' = count + 1
  /\ seen' = IF par.kind = "dfs" THEN seen \cup {<<schedule, word, status>>} ELSE seen
  /\ IF status = "Failure"
     THEN mode' = "record" /\ bug' = <<word, x>> /\ StartWith(schedule) /\ UNCHANGED decisions
     ELSE IF HasNext(count + 1) THEN StartWith(NextSchedule) /\ UNCHANGED <<mode, bug, decisions>>
     ELSE mode' = "done" /\ UNCHANGED <<bug, answers, program, running, queues, limits, word>>
  /\ UNCHANGED question

\* Record: the simulation is repeated under the Recorder, then by the ReplayScheduler, and each
\* time the digest is verified.
Repeated(status) ==
  /\ mode \in {"record", "replay"}
  /\ IF status # "Failure" \/ bug # <<word, x>>
     THEN mode' = "panic" /\ UNCHANGED <<answers, program, running, queues, limits, word>>
     ELSE IF mode = "record" THEN mode' = "replay" /\ StartWith(schedule) /\ UNCHANGED decisions
     ELSE mode' = "done" /\ UNCHANGED <<answers, program, running, queues, limits, word>>
  /\ UNCHANGED <<question, count, seen, bug>>

Panic ==
  /\ mode' = "panic"
  /\ UNCHANGED <<question, count, seen, bug, answers, program, running, queues, limits, word>>

Going == mode \in {"explore", "record", "replay"}

\* The loop finds nothing to run: main completed or deadlock
Finish == Going /\ running = None /\ IsIdle /\ (Explored(Status) \/ Repeated(Status))

-----------------------------------------------------------------------------
\* PickNext

Continues(t) == running' = t /\ active' = None /\ word' = Append(word, t)

\* AddStep of dfs; the simulation is pruned at max_steps.
OutOfSteps == par.kind = "dfs" /\ Exceeds(steps + 1, par.max_steps)

BurstOf(t) == IF t = None THEN 0 ELSE burst[t] + 1

Forced == active # None /\ runq # {} /\ Reached(BurstOf(active), par.force_preempt)

NoPreemptsLeft_OffByOne == Exceeds(preempts, par.max_preemptions)

NoPreemptsLeft == Reached(preempts, par.max_preemptions)

Blocked == par.kind = "dfs" /\ Forced /\ NoPreemptsLeft

\* Preempt(active): alone and at the limit the thread goes on, otherwise it is a branch (1: preempt).
Preempts ==
  IF Forced THEN {[Asked EXCEPT !.index = 1]}
  ELSE IF runq = {} \/ NoPreemptsLeft THEN {Asked}
  ELSE Choose(Asked, "Preempt", 2)

PickDfs ==
  /\ par.kind = "dfs" /\ ~OutOfSteps /\ ~Blocked
  /\ steps' = steps + 1
  /\ \E ch \in IF active = None THEN {[Asked EXCEPT !.index = 1]} ELSE Preempts :
       IF ch.index = 0
       THEN /\ Continues(active) /\ Answered(ch) /\ Recorded("PickNext", active)
            /\ burst' = [burst EXCEPT ![active] = @ + 1]
            /\ UNCHANGED <<runq, preempts>>
       ELSE \E pick \in Pick(ch, runq, "PickNext") :
            LET t == Nth(runq, pick.index) IN
            /\ Continues(t) /\ Answered(pick) /\ Recorded("PickNext", t)
            /\ runq' = (runq \ {t}) \cup ({active} \ {None})
            /\ preempts' = IF active = None THEN preempts ELSE preempts + 1
            /\ burst' = [u \in Thread |-> IF u = t THEN 0 ELSE IF u = active THEN burst[u] + 1 ELSE burst[u]]

PickRandom ==
  /\ par.kind = "random"
  /\ IF active # None
     THEN Continues(active) /\ Answered(Asked) /\ Recorded("PickNext", active) /\ UNCHANGED runq
     ELSE \E ch \in Choose(Asked, "PickNext", Cardinality(runq)) :
            LET t == Nth(runq, ch.index) IN
            Continues(t) /\ Answered(ch) /\ Recorded("PickNext", t) /\ runq' = runq \ {t}
  /\ UNCHANGED limits

PickReplay ==
  \E t \in runq : Continues(t) /\ Replayed("PickNext", t) /\ runq' = runq \ {t} /\ UNCHANGED limits

PickNext ==
  /\ Going /\ running = None /\ ~IsIdle
  /\ IF ReplayFails("PickNext", runq) THEN Panic
     ELSE /\ \/ mode # "replay" /\ (PickDfs \/ PickRandom)
             \/ PickReplay
          /\ UNCHANGED <<question, loop, program, parked, shared, held, scoped, marked>>

\* max_steps reached, or a forced preemption with none left. Only a failure is run again.
Prune ==
  /\ running = None /\ ~IsIdle
  /\ OutOfSteps \/ Blocked
  /\ Explored("Pruned")

-----------------------------------------------------------------------------
\* Operations of the running thread

Op(t) == prog.code[t][pc[t]]
At(t, name) == Going /\ running = t /\ ~Exited(t) /\ Op(t)[1] = name
Done(t) == pc' = [pc EXCEPT ![t] = @ + 1]

Atomic == {"load", "store", "inc", "await"}

\* ToLfSuspend of random: before a store or a read-modify-write, never the last lock-free thread
ToLfSuspend(t) ==
  /\ par.lock_free /\ t \in scoped /\ t \notin marked
  /\ Op(t)[1] \in {"store", "inc"}
  /\ held = {} /\ 1 + Cardinality(held) < Cardinality(scoped)

InterruptRandom(t) ==
  \E slice \in Choose(Asked, "Slice", 2) :
    IF slice.index = 1
    THEN Answered(slice) /\ runq' = runq \cup {t} /\ UNCHANGED <<active, held, marked>>
    ELSE \E lf \in IF ToLfSuspend(t) THEN Choose(slice, "Suspend", 2) ELSE {slice} :
           /\ Answered(lf)
           /\ IF lf.index = 1 THEN held' = held \cup {t} /\ marked' = marked \cup {t} /\ UNCHANGED active
                              ELSE active' = t /\ UNCHANGED <<held, marked>>
           /\ UNCHANGED runq

\* The thread stops before an atomic operation (_SysSync).
Sync(t) ==
  /\ Going /\ running = t /\ ~Exited(t) /\ Op(t)[1] \in Atomic /\ t \notin pending
  /\ pending' = pending \cup {t} /\ running' = None
  /\ \/ mode = "replay" /\ runq' = runq \cup {t} /\ UNCHANGED <<active, held, marked, schedule, branch>>
     \/ mode # "replay" /\ par.kind = "dfs" /\ active' = t
          /\ UNCHANGED <<runq, held, marked, schedule, branch>>
     \/ mode # "replay" /\ par.kind = "random" /\ InterruptRandom(t)
  /\ UNCHANGED <<question, loop, decisions, pos, pc, x, reg, parked, shared, scoped, limits, word>>

\* The thread runs again: CompleteSync. A thread that awaits another value parks.
Complete(t) ==
  /\ Going /\ running = t /\ t \in pending
  /\ pending' = pending \ {t}
  /\ \/ At(t, "load") /\ reg' = [reg EXCEPT ![t] = x] /\ Done(t) /\ UNCHANGED <<x, running, parked, shared>>
     \/ At(t, "store") /\ x' = reg[t] + Op(t)[2] /\ Done(t) /\ UNCHANGED <<reg, running, parked, shared>>
     \/ At(t, "inc") /\ x' = x + Op(t)[2] /\ Done(t) /\ UNCHANGED <<reg, running, parked, shared>>
     \/ At(t, "await") /\ x = Op(t)[2] /\ Done(t) /\ UNCHANGED <<x, reg, running, parked, shared>>
     \/ /\ At(t, "await") /\ x # Op(t)[2]
        /\ running' = None
        /\ parked' = parked \cup {t} /\ shared' = (shared \/ parked # {})
        /\ UNCHANGED <<pc, x, reg>>
  /\ UNCHANGED <<question, loop, answers, runq, active, held, scoped, marked, limits, word>>

Spawn(t) ==
  /\ At(t, "spawn") /\ Done(t)
  /\ runq' = runq \cup {Op(t)[2]}
  /\ UNCHANGED <<question, loop, answers, x, reg, pending, running, active, parked, shared, held, scoped,
                 marked, limits, word>>

Yield(t) ==
  /\ At(t, "yield") /\ Done(t)
  /\ runq' = runq \cup {t} /\ running' = None
  /\ UNCHANGED <<question, loop, answers, x, reg, pending, active, parked, shared, held, scoped, marked,
                 limits, word>>

\* FutexWake of one thread. The scheduler is asked only if the queue is one of its own.
WakeOne(t) ==
  /\ Done(t)
  /\ \/ ~shared /\ parked' = {} /\ runq' = runq \cup parked /\ UNCHANGED answers
     \/ /\ shared /\ parked = {}
        /\ \/ Recorded("WakeOne", None) /\ UNCHANGED <<schedule, branch>>
           \/ Replayed("WakeOne", None)
        /\ UNCHANGED <<parked, runq>>
     \/ /\ shared
        /\ \E w \in parked :
             /\ parked' = parked \ {w} /\ runq' = runq \cup {w}
             /\ \/ /\ Recorded("WakeOne", w)
                   /\ \E ch \in Pick(Asked, parked, "WakeOne") : Nth(parked, ch.index) = w /\ Answered(ch)
                \/ Replayed("WakeOne", w)
  /\ UNCHANGED <<question, loop, x, reg, pending, running, active, shared, held, scoped, marked, limits,
                 word>>

Wake(t) ==
  /\ At(t, "wake")
  /\ IF shared /\ ReplayFails("WakeOne", parked \cup {None}) THEN Panic ELSE WakeOne(t)

Choice(t) ==
  /\ Done(t)
  /\ \E i \in 0 .. Op(t)[2] - 1 :
       /\ reg' = [reg EXCEPT ![t] = i]
       /\ \/ /\ Recorded("RandomChoice", i)
             /\ \E ch \in Choose(Asked, "RandomChoice", Op(t)[2]) : ch.index = i /\ Answered(ch)
          \/ Replayed("RandomChoice", i)
  /\ UNCHANGED <<question, loop, x, pending, running, queues, limits, word>>

RandomChoice(t) ==
  /\ At(t, "choice")
  /\ IF ReplayFails("RandomChoice", 0 .. Op(t)[2] - 1) THEN Panic ELSE Choice(t)

\* LockFreeScope
EnterScope(t) ==
  /\ At(t, "enter") /\ Done(t)
  /\ scoped' = scoped \cup {t}
  /\ UNCHANGED <<question, loop, answers, x, reg, pending, running, runq, active, parked, shared, held,
                 marked, limits, word>>

LeaveScope_NoResume(t) ==
  /\ At(t, "leave") /\ Done(t)
  /\ scoped' = scoped \ {t}
  /\ UNCHANGED <<question, loop, answers, x, reg, pending, running, runq, active, parked, shared, held,
                 marked, limits, word>>

\* One suspended thread is resumed (LfExit).
LeaveScope(t) ==
  /\ At(t, "leave") /\ Done(t)
  /\ scoped' = scoped \ {t}
  /\ runq' = runq \cup held /\ held' = {}
  /\ UNCHANGED <<question, loop, answers, x, reg, pending, running, active, parked, shared, marked, limits,
                 word>>

\* The thread has exited; dfs counts the step.
Exit(t) ==
  /\ Going /\ running = t /\ Exited(t)
  /\ \/ OutOfSteps /\ Explored("Pruned")
     \/ /\ mode = "replay" \/ ~OutOfSteps
        /\ running' = None
        /\ steps' = steps + 1
        /\ UNCHANGED <<question, loop, answers, program, queues, preempts, burst, word>>

Step(t) ==
  \/ Sync(t) \/ Complete(t) \/ Spawn(t) \/ Yield(t) \/ Wake(t) \/ RandomChoice(t)
  \/ EnterScope(t) \/ LeaveScope(t) \/ Exit(t)

Terminating == mode \in {"done", "panic"} /\ UNCHANGED vars

Next == PickNext \/ Prune \/ Finish \/ (\E t \in Thread : Step(t)) \/ Terminating

Spec == Init /\ [][Next]_vars /\ WF_vars(Next)

-----------------------------------------------------------------------------
\* Properties

\* Steps of a thread: one to its first atomic operation, then one per atomic operation
StepsOf(t) == 1 + Cardinality({i \in DOMAIN prog.code[t] : prog.code[t][i][1] \in Atomic})

\* ... and those of t among the first n picks of w
Count(w, n, t) == Cardinality({i \in 1 .. n : w[i] = t})

\* Straight programs: main starts the others first, in the order of their numbers, nobody waits.
Spawned(t) == IF t = Main THEN Cardinality(Thread) - 1 ELSE 0

Straight ==
  \A t \in Thread :
    /\ \A i \in 1 .. Spawned(t) : i \in DOMAIN prog.code[t] /\ prog.code[t][i] = <<"spawn", i + 1>>
    /\ \A i \in DOMAIN prog.code[t] : i > Spawned(t) => prog.code[t][i][1] \in {"load", "store", "inc"}

\* The thread of the n-th pick could go on after it.
Unfinished(w, n) == Count(w, n, w[n]) < StepsOf(w[n])

PreemptionsOf(w, n) == Cardinality({i \in 1 .. n - 1 : w[i] # w[i + 1] /\ Unfinished(w, i)})

\* The next step of w[n] after n would be one more than the others have to wait for.
Overdue(w, n) ==
  /\ Reached(n, par.force_preempt) /\ Unfinished(w, n)
  /\ \A i \in n - par.force_preempt + 1 .. n : w[i] = w[n]
  /\ \E t \in Thread \ {w[n]} : Count(w, n, t) < StepsOf(t)

AllSteps == UNION {{t} \X (1 .. StepsOf(t)) : t \in Thread}

\* The reference: every interleaving of the threads' steps that starts with main and respects the
\* limits on preemptions
Interleavings ==
  {w \in [1 .. Cardinality(AllSteps) -> Thread] :
     /\ w[1] = Main
     /\ \A t \in Thread : Count(w, Len(w), t) = StepsOf(t)
     /\ ~Exceeds(PreemptionsOf(w, Len(w)), par.max_preemptions)
     /\ \A n \in 1 .. Len(w) - 1 : Overdue(w, n) => w[n + 1] # w[n]}

Exhausted == mode = "done" /\ bug = <<>> /\ par.kind = "dfs"

\* DfsScheduler, Explore: when the exploration ends without a failure it has run every
\* interleaving of the program that the limits allow, each exactly once, and no other.
EveryInterleavingOnce ==
  Exhausted /\ Straight /\ par.max_steps = Unlimited =>
    LET complete == {e \in seen : e[3] = "Ok"} IN
      /\ {e[2] : e \in complete} = Interleavings
      /\ Cardinality(complete) = Cardinality(Interleavings)
      /\ Cardinality(seen) = count

\* DfsScheduler, Backtrack: with wake-ups, random choices, yields and pruned simulations too, every
\* alternative of every branch that was met has been taken, and no schedule was run twice.
EveryBranchIsTaken ==
  Exhausted =>
    /\ Cardinality(seen) = count
    /\ \A e \in seen : \A k \in DOMAIN e[1] : \A i \in 0 .. e[1][k].alts - 1 :
         \E d \in seen : /\ Len(d[1]) >= k /\ d[1][k].index = i
                         /\ SubSeq(d[1], 1, k - 1) = SubSeq(e[1], 1, k - 1)

\* Record: a failed simulation is repeated by the Recorder and by the ReplayScheduler without a
\* failed WHEELS_VERIFY: "Digest mismatch", "Decision type mismatch", "Unexpected schedule length".
FailuresAreReplayed == mode # "panic"

\* Explore returns: backtracking and pruning come to an end, and so does the replay of a failure.
ExplorationEnds == <>(mode = "done")
================================================================================
