------------------------------- MODULE MCExplore -------------------------------
(***************************************************************************)
(* Small programs with a failure in all, in some or in no schedule, and    *)
(* limits of the schedulers that cut off some of the schedules.            *)
(***************************************************************************)
EXTENDS Explore

Spawning == <<<<"spawn", 2>>, <<"spawn", 3>>>>
Increment == <<<<"load", 0>>, <<"store", 1>>>>
P(code, final) == [code |-> code, final |-> final]

\* Two increments that may get lost, which is or is not a failure; the third fails only if
\* thread 2 is preempted.
Racy == P(<<Spawning, Increment, Increment>>, {1, 2})
Buggy == P(<<Spawning, Increment, Increment>>, {2})
Uneven == P(<<Spawning \o <<<<"inc", 1>>>>, Increment, <<<<"inc", 1>>>>>>, {1, 2, 3})

\* Two threads wait for main, which wakes one after the other
Waiting == P(<<Spawning \o <<<<"yield", 0>>, <<"inc", 1>>, <<"wake", 0>>, <<"wake", 0>>>>,
               <<<<"await", 1>>>>, <<<<"await", 1>>>>>>, {1})
Lost == P(<<Spawning \o <<<<"inc", 1>>, <<"wake", 0>>>>, <<<<"await", 1>>>>, <<<<"await", 1>>>>>>, {1})

\* The same without the increment: a deadlock in every schedule, with wake-ups of nobody
Spent == P(<<Spawning \o <<<<"yield", 0>>, <<"wake", 0>>, <<"wake", 0>>, <<"wake", 0>>>>,
             <<<<"await", 1>>>>, <<<<"await", 1>>>>>>, {1})

\* A random number decides on the result.
Guess == P(<<<<<<"spawn", 2>>, <<"inc", 1>>>>, <<<<"choice", 3>>, <<"store", 1>>>>>>, {1, 2, 3, 4})
Unlucky == P(<<<<<<"spawn", 2>>, <<"inc", 1>>>>, <<<<"choice", 3>>, <<"store", 1>>>>>>, {1, 2, 3})

\* Lock-free threads that make progress, with a failure at the end
LockFree == <<<<"enter", 0>>, <<"inc", 1>>, <<"leave", 0>>>>
Scoped == P(<<Spawning, LockFree, LockFree>>, {1})

AllPrograms == {Racy, Buggy, Uneven, Waiting, Lost, Spent, Guess, Unlucky, Scoped}

Dfs(maxPreempts, maxSteps, force) ==
  [kind |-> "dfs", max_preemptions |-> maxPreempts, max_steps |-> maxSteps, force_preempt |-> force,
   lock_free |-> FALSE, max_runs |-> Unlimited]

RandomParams ==
  [kind |-> "random", max_preemptions |-> Unlimited, max_steps |-> Unlimited, force_preempt |-> Unlimited,
   lock_free |-> TRUE, max_runs |-> 1]

AllParams ==
  {Dfs(Unlimited, Unlimited, Unlimited), Dfs(0, Unlimited, Unlimited), Dfs(1, Unlimited, Unlimited),
   Dfs(Unlimited, Unlimited, 1), Dfs(2, Unlimited, 2), Dfs(Unlimited, 9, Unlimited), RandomParams}
================================================================================
