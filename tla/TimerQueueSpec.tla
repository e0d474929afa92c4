--------------------------- MODULE TimerQueueSpec ---------------------------
(***************************************************************************)
(* What the simulator expects of TimerQueue: a set of armed timers from    *)
(* which Poll takes the earliest, and of equal deadlines the one that was  *)
(* armed first ("Tie-breaker").                                            *)
(***************************************************************************)
EXTENDS Integers

CONSTANTS Timer, Instant, None

VARIABLES
  armed,     \* the timers in the queue
  deadline,  \* Timer::when of the armed timers
  polled     \* the timer the last operation returned, if it was a Poll

(* A timer is named by its id, so a smaller name was armed earlier. *)
Earlier(s, t) ==
  \/ deadline[s] < deadline[t]
  \/ deadline[s] = deadline[t] /\ s <= t

Init == armed = {} /\ deadline = [t \in Timer |-> 0] /\ polled = None

Add(t, w) ==
  /\ t \notin armed
  /\ armed' = armed \cup {t}
  /\ deadline' = [deadline EXCEPT ![t] = w]
  /\ polled' = None

Remove(t) ==
  /\ t \in armed
  /\ armed' = armed \ {t}
  /\ deadline' = [deadline EXCEPT ![t] = 0]
  /\ polled' = None

Poll(t) ==
  /\ t \in armed
  /\ \A s \in armed : Earlier(t, s)
  /\ armed' = armed \ {t}
  /\ deadline' = [deadline EXCEPT ![t] = 0]
  /\ polled' = t

Next ==
  \E t \in Timer :
    \/ \E w \in Instant : Add(t, w)
    \/ Remove(t)
    \/ Poll(t)

Spec == Init /\ [][Next]_<<armed, deadline, polled>>
=============================================================================
