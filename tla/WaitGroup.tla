------------------------------ MODULE WaitGroup ------------------------------
(***************************************************************************)
(* Class WaitGroup of twist/rt/sim/user/test/wait_group.{hpp,cpp}: the     *)
(* routines added before are run in threads of their own, and Join waits   *)
(* for all of them. The last thread to exit stores done_ and wakes the     *)
(* joiner, in whose frame the WaitGroup lives.                             *)
(*                                                                         *)
(* The exit of a thread is one step: AtThreadExit runs under a             *)
(* PreemptionGuard, so that nobody runs between its FetchSub, the store    *)
(* and the wake-up. Spawn does not give the joiner's turn away.            *)
(***************************************************************************)
EXTENDS SyncVar, FiniteSets

CONSTANT Joiner

WaitGroupConstants ==
  /\ Thread \subseteq Nat /\ IsFiniteSet(Thread)
  /\ Joiner \in Thread
  /\ Loc = {"left", "done"}

VARIABLES
  added,    \* the routines in the list head_; count_ is their number
  group,    \* the threads of the group that have been spawned and have not exited
  stage     \* the joiner: "new", "stored", "waiting" or "returned"

groupVars == <<added, group, stage>>
vars == <<syncVars, groupVars>>

Init ==
  /\ SyncInit([l \in Loc |-> 0])
  /\ added = {} /\ group = {}
  /\ stage = "new"

Add(u) ==
  /\ stage = "new" /\ u \notin added \cup {Joiner}
  /\ added' = added \cup {u}
  /\ UNCHANGED <<syncVars, group, stage>>

\* Join: an empty group returns at once; otherwise the counter is stored first.
Join ==
  /\ stage = "new"
  /\ IF added = {}
     THEN stage' = "returned" /\ UNCHANGED syncVars
     ELSE /\ Store(Joiner, "left", Cardinality(added), TRUE, {})
          /\ stage' = "stored" /\ UNCHANGED waiters
  /\ UNCHANGED <<added, group>>

\* All threads are spawned, then the first wait. A new thread starts with its parent's clock.
SpawnAll ==
  /\ stage = "stored"
  /\ group' = added
  /\ current' = [u \in Thread |-> IF u \in added THEN current[Joiner] ELSE current[u]]
  /\ stage' = "waiting"
  /\ UNCHANGED <<value, stored, acquire, release, added>>
  /\ FutexWait(Joiner, "done", 0, FALSE, waiters)

\* The thread's own work, an event that the others should know of
RunUser(u) ==
  /\ u \in group
  /\ current' = [current EXCEPT ![u] = @ \cup {u}]
  /\ UNCHANGED <<value, stored, waiters, acquire, release, groupVars>>

IsLast(v) == v = 1

FetchSubOrder_Relaxed == FALSE
FetchSubOrder == TRUE     \* left_.fetch_sub(1) is sequentially consistent

CompletionWakes == WakeOne("done")

\* AtThreadExit of a thread that is not the last one
LeaveGroup(u) ==
  /\ u \in group /\ ~IsLast(value["left"])
  /\ Rmw(u, "left", value["left"] - 1, FetchSubOrder, FetchSubOrder, {})
  /\ group' = group \ {u}
  /\ UNCHANGED <<waiters, added, stage>>

\* ... of the last one: FetchSub, done_.store(1), FutexWake
Complete(u) ==
  /\ u \in group /\ IsLast(value["left"])
  /\ group' = group \ {u}
  /\ LET c == IF FetchSubOrder THEN current[u] \cup acquire[u] \cup stored["left"] ELSE current[u]
     IN \E S \in CompletionWakes :
          /\ value' = [value EXCEPT !["left"] = @ - 1, !["done"] = 1]
          /\ stored' = [stored EXCEPT !["left"] = @ \cup c, !["done"] = c]
          /\ acquire' = [acquire EXCEPT ![u] = @ \cup stored["left"]]
          /\ release' = [release EXCEPT ![u] = c]
          /\ current' = Clocks(u, c, c, S)
          /\ waiters' = Woken("done", S)
  /\ UNCHANGED <<added, stage>>

\* done_.load(), and another wait or the return
CheckDone ==
  /\ stage = "waiting" /\ ~IsParked(Joiner)
  /\ Load(Joiner, "done", TRUE)
  /\ FutexWait(Joiner, "done", 0, FALSE, waiters)
  /\ stage' = IF value["done"] = 1 THEN "returned" ELSE stage
  /\ UNCHANGED <<added, group>>

JoinerStep == Join \/ SpawnAll \/ CheckDone

Exit(u) == LeaveGroup(u) \/ Complete(u)

Next == JoinerStep \/ \E u \in Thread : Add(u) \/ RunUser(u) \/ Exit(u)

Spec == Init /\ [][Next]_vars

\* Runnable threads are picked in the end, and user routines are finite.
FairSpec == Spec /\ WF_vars(SpawnAll \/ CheckDone) /\ \A u \in Thread : WF_vars(Exit(u))

-----------------------------------------------------------------------------
\* Type invariant; the counter does not go below zero.
TypeOK ==
  /\ SyncTypeOK
  /\ added \subseteq Thread \ {Joiner} /\ group \subseteq added
  /\ stage \in {"new", "stored", "waiting", "returned"}

\* Join returns when no thread of the group is left: nobody uses the WaitGroup, which is gone with
\* the joiner's frame, and what each thread did happens before the return.
GroupIsJoined ==
  stage = "returned" =>
    /\ group = {} /\ waiters["done"] = {}
    /\ \A u \in added : u \in current[u] => u \in current[Joiner]

\* Join returns: the wake-up of the last thread is not lost.
GroupJoinReturns == (stage = "waiting") ~> (stage = "returned")
=============================================================================
