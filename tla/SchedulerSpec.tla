---------------------------- MODULE SchedulerSpec ----------------------------
(***************************************************************************)
(* What the kernel of the simulator relies on when it calls a scheduler    *)
(* (system/scheduler.hpp: IScheduler, IRunQueue, IWaitQueue): a thread is  *)
(* in at most one place, the scheduler picks only threads that were handed *)
(* to it, a futex queue returns only threads that wait in it, and a thread *)
(* that exits or is burnt is nowhere any more.                             *)
(***************************************************************************)
CONSTANTS Thread, Futex

VARIABLES
  at,      \* at[t]: the set of places where thread t is
  alive

Nowhere == {}
Ready == {"ready"}
Running == {"running"}
Held == {"held"}   \* suspended by the scheduler

Init == at = [t \in Thread |-> Nowhere] /\ alive = {}

Move(t, from, to) == at[t] = from /\ at' = [at EXCEPT ![t] = to]

Spawn(t) == t \notin alive /\ alive' = alive \cup {t} /\ Move(t, Nowhere, Ready)

Dispatch(t) == (\A u \in Thread : at[u] # Running) /\ Move(t, Ready, Running)

Requeue(t) == Move(t, Running, Ready)

Hold(t) == Move(t, Running, Held)

Release(t) == Move(t, Held, Ready)

Park(t, f) == Move(t, Running, {f})

Wake(t, f) == Move(t, {f}, Ready)

WakeAll(f) == at' = [t \in Thread |-> IF at[t] = {f} THEN Ready ELSE at[t]]

\* By its own exit or burnt by the kernel: it leaves all places in the same step.
Leave(t) == t \in alive /\ alive' = alive \ {t} /\ at' = [at EXCEPT ![t] = Nowhere]

Next ==
  \/ \E t \in Thread : Spawn(t) \/ Leave(t)
  \/ /\ UNCHANGED alive
     /\ \/ \E t \in Thread : Dispatch(t) \/ Requeue(t) \/ Hold(t) \/ Release(t)
        \/ \E t \in Thread, f \in Futex : Park(t, f) \/ Wake(t, f)
        \/ \E f \in Futex : WakeAll(f)

Spec == Init /\ [][Next]_<<at, alive>>
==============================================================================
