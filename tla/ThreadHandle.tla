---------------------------- MODULE ThreadHandle ----------------------------
(***************************************************************************)
(* Class thread of twist/rt/sim/user/library/std_like/thread.cpp: the      *)
(* object (StateBase) that a thread shares with the owner of its handle,   *)
(* and that the last of the two deletes.  The word sync counts them; a     *)
(* join waits for it to leave 2, a detach and the exit of the thread       *)
(* decrement it.                                                           *)
(*                                                                         *)
(* Handles may be moved; they stay with threads of a smaller number than   *)
(* the thread they stand for, so that the program never joins in a circle. *)
(***************************************************************************)
EXTENDS SyncVar

CONSTANTS
  Main,    \* the main thread; threads are numbers
  None

ASSUME ThreadHandleAssumption ==
  /\ Thread \subseteq Nat
  /\ Main \in Thread
  /\ Loc = Thread       \* the word sync of every thread
  /\ None \notin Thread

VARIABLES
  object,    \* the StateBase of every thread: "none", "live" or "deleted"
  alive,     \* the threads that have been spawned and have not exited
  handle,    \* the thread whose std::thread object has a state_ pointer, or None
  pc,        \* "idle", or the call in progress
  target,    \* the thread this call is about
  detached   \* the threads the simulator was told to treat as detached

vars == <<syncVars, object, alive, handle, pc, target, detached>>

Init ==
  /\ SyncInit([l \in Loc |-> 2])
  /\ object = [u \in Thread |-> "none"]
  /\ alive = {Main}
  /\ handle = [u \in Thread |-> None]
  /\ pc = [t \in Thread |-> "idle"]
  /\ target = [t \in Thread |-> None]
  /\ detached = {}

Running(t) == t \in alive /\ pc[t] = "idle"

Enter(t, l, u) == pc' = [pc EXCEPT ![t] = l] /\ target' = [target EXCEPT ![t] = u]

Return(t) == Enter(t, "idle", None)

(* ReleaseState *)
Released(u) == [handle EXCEPT ![u] = None]

(* DestroySelf *)
DestroySelf(u) == object' = [object EXCEPT ![u] = "deleted"]

-----------------------------------------------------------------------------
(* The constructor: the object is allocated with sync = 2, the thread is spawned. *)
Spawn(t, u) ==
  /\ Running(t)
  /\ object[u] = "none" /\ u # Main /\ t < u
  /\ object' = [object EXCEPT ![u] = "live"]
  /\ alive' = alive \cup {u}
  /\ handle' = [handle EXCEPT ![u] = t]
  /\ current' = [current EXCEPT ![u] = current[t]]
  /\ UNCHANGED <<value, stored, waiters, acquire, release, pc, target, detached>>

(* Move construction or assignment, swap *)
Move(t, u, v) ==
  /\ Running(t)
  /\ handle[u] = t
  /\ v \in alive /\ v < u /\ v # t
  /\ handle' = [handle EXCEPT ![u] = v]
  /\ UNCHANGED <<syncVars, object, alive, pc, target, detached>>

(* join(): ReleaseState, up to the load *)
join(t, u) ==
  /\ Running(t)
  /\ handle[u] = t
  /\ handle' = Released(u)
  /\ Enter(t, "join", u)
  /\ UNCHANGED <<syncVars, object, alive, detached>>

(* Not completed: wait. *)
JoinWaits(t) ==
  /\ pc[t] = "join"
  /\ ~IsParked(t)
  /\ value[target[t]] = 2
  /\ Load(t, target[t], TRUE)
  /\ FutexWait(t, target[t], 2, FALSE, waiters)
  /\ UNCHANGED <<object, alive, handle, pc, target, detached>>

(* The load of Join is an acquire operation. *)
JoinOrder_Relaxed == FALSE

JoinOrder == TRUE

JoinReturns(t) ==
  /\ pc[t] = "join"
  /\ ~IsParked(t)
  /\ value[target[t]] # 2
  /\ Load(t, target[t], JoinOrder)
  /\ DestroySelf(target[t])
  /\ Enter(t, "joined", target[t])
  /\ UNCHANGED <<waiters, alive, handle, detached>>

(* The caller goes on. *)
Joined(t) ==
  /\ pc[t] = "joined"
  /\ Return(t)
  /\ UNCHANGED <<syncVars, object, alive, handle, detached>>

(* detach(): ReleaseState, the system call, up to the FetchSub *)
detach(t, u) ==
  /\ Running(t)
  /\ handle[u] = t
  /\ handle' = Released(u)
  /\ detached' = IF u \in alive THEN detached \cup {u} ELSE detached
  /\ Enter(t, "detach", u)
  /\ UNCHANGED <<syncVars, object, alive>>

(* Whether the FetchSub that saw v is the last one *)
Last_Any(v) == v <= 2

Last(v) == v = 1

Detach(t) ==
  /\ pc[t] = "detach"
  /\ Rmw(t, target[t], value[target[t]] - 1, TRUE, TRUE, {})
  /\ IF Last(value[target[t]]) THEN DestroySelf(target[t]) ELSE UNCHANGED object
  /\ Return(t)
  /\ UNCHANGED <<waiters, alive, handle, detached>>

(* AtThreadExit and SysThreadExit, without preemption.  A thread leaves no handle behind
   ("Thread join or detach required"). *)
ExitWakes_None(u) == {{}}

ExitWakes(u) == WakeOne(u)

AtThreadExit(u) ==
  LET known == current[u] \cup acquire[u] \cup stored[u] \cup {u} IN
  /\ Running(u) /\ u # Main
  /\ \A v \in Thread : handle[v] # u
  /\ alive' = alive \ {u}
  /\ detached' = detached \ {u}
  /\ \E S \in (IF Last(value[u]) THEN {{}} ELSE ExitWakes(u)) :
       /\ value' = [value EXCEPT ![u] = @ - 1]
       /\ stored' = [stored EXCEPT ![u] = @ \cup known]
       /\ acquire' = [acquire EXCEPT ![u] = @ \cup stored[u]]
       /\ release' = [release EXCEPT ![u] = known]
       /\ current' = Clocks(u, known, known, S)
       /\ waiters' = Woken(u, S)
  /\ IF Last(value[u]) THEN DestroySelf(u) ELSE UNCHANGED object
  /\ UNCHANGED <<handle, pc, target>>

-----------------------------------------------------------------------------
Call(t) == \E u \in Thread : join(t, u) \/ detach(t, u)

Step(t) == JoinWaits(t) \/ JoinReturns(t) \/ Joined(t) \/ Detach(t)

Next ==
  \/ \E t, u \in Thread : Spawn(t, u) \/ \E v \in Thread : Move(t, u, v)
  \/ \E t \in Thread : Call(t) \/ Step(t) \/ AtThreadExit(t)

Spec == Init /\ [][Next]_vars

(* Runnable threads are picked in the end; user threads are finite: each gives up its handles
   and exits. *)
FairSpec ==
  /\ Spec
  /\ \A t \in Thread : WF_vars(Step(t)) /\ WF_vars(Call(t) \/ AtThreadExit(t))

-----------------------------------------------------------------------------
(* Type invariant; sync stays between 0 and 2. *)
TypeOK ==
  /\ SyncTypeOK
  /\ value \in [Thread -> 0 .. 2]
  /\ object \in [Thread -> {"none", "live", "deleted"}]
  /\ alive \subseteq Thread
  /\ handle \in [Thread -> Thread \cup {None}]
  /\ pc \in [Thread -> {"idle", "join", "joined", "detach"}]
  /\ target \in [Thread -> Thread \cup {None}]
  /\ detached \subseteq alive

(* Who may still use the object of u: the thread itself until it has exited, the owner of
   the handle, a join or a detach in progress. *)
InUse(u) ==
  \/ u \in alive
  \/ handle[u] # None
  \/ \E t \in Thread : pc[t] \in {"join", "detach"} /\ target[t] = u

(* The object is live as long as somebody may use it: DestroySelf() is called by the last of
   the two sides, whichever that is, and nobody reads a deleted object. *)
NoUseAfterDelete == \A u \in Thread \ {Main} : InUse(u) => object[u] = "live"

(* ... and it is deleted once nobody will use it: the leak check stays silent. *)
NoLeak == \A u \in Thread \ {Main} : object[u] = "live" => InUse(u)

(* The object lives exactly as long as one of the two sides may use it, in whichever order they
   let go of it. *)
ObjectLifetime == NoUseAfterDelete /\ NoLeak

(* What a thread did happens before the return of the join(). *)
JoinSynchronizes ==
  \A t \in Thread : pc[t] = "joined" => target[t] \notin alive /\ target[t] \in current[t]

(* A join returns once the thread it waits for has exited. *)
JoinsReturn == \A t \in Thread : pc[t] = "join" ~> pc[t] = "idle"
=============================================================================
