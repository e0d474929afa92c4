---------------------------- MODULE FaultyCondVar ----------------------------
(***************************************************************************)
(* Class FaultyCondVar of twist/rt/thr/fault/std_like/condvar.hpp, for     *)
(* tests that run in real threads: a list of waiters, each of them a node  *)
(* on the stack of a waiting thread with an event that a notifier fires.   *)
(*                                                                         *)
(* Threads interleave at every access to shared memory; what is done under *)
(* waiters_mutex_ alone is one step.  The random choices of the code (whom *)
(* to notify, in which order) and its counters (when to give the lock      *)
(* away) are free choices.  A spurious wake-up, every 13th call, returns   *)
(* to the predicate with the mutex still held: no step.  The program is    *)
(* that of module CondVar.                                                 *)
(***************************************************************************)
EXTENDS Naturals, FiniteSets

CONSTANTS
  Thread,
  Producer, Consumer,  \* the threads that put items, and those that wait for them
  MaxPuts,             \* bound: the items that are put
  None

FaultyCondVarConstants ==
  /\ Producer \cup Consumer \subseteq Thread
  /\ None \notin Thread
  /\ IsFiniteSet(Thread)
  /\ MaxPuts \in Nat

VARIABLES
  pc,       \* where each thread is
  holder,   \* who holds the mutex of the program
  guard,    \* who holds waiters_mutex_
  queue,    \* waiters_: the threads whose nodes are linked
  node,     \* the node of each thread: "none", or its event "unset" or "fired"
  asleep,   \* threads in the futex call of an event
  timeout,  \* of a consumer: "none", "zero", or a deadline "armed" or "passed"
  woken,    \* the result of the last wait
  batch,    \* the nodes a notifier has unlinked and has still to wake
  key,      \* the node whose event it has fired: WakeKey
  items, puts

waitVars == <<queue, node, asleep>>
notifyVars == <<batch, key>>
PC == {"idle", "lock", "check", "enqueue", "release", "link", "wait", "unlink", "relock", "give",
       "unlock", "notify", "fire", "wake"}

vars == <<pc, holder, guard, waitVars, timeout, woken, notifyVars, items, puts>>

Goto(t, l) == pc' = [pc EXCEPT ![t] = l]

Init ==
  /\ pc = [t \in Thread |-> "idle"]
  /\ holder = None /\ guard = None
  /\ queue = {} /\ asleep = {}
  /\ node = [t \in Thread |-> "none"]
  /\ timeout = [t \in Thread |-> "none"]
  /\ woken = [t \in Thread |-> TRUE]
  /\ batch = [t \in Thread |-> {}]
  /\ key = [t \in Thread |-> None]
  /\ items = 0 /\ puts = 0

-----------------------------------------------------------------------------
(* Consumers *)

Consume(t, d) ==
  /\ t \in Consumer /\ pc[t] = "idle" /\ puts < MaxPuts
  /\ timeout' = [timeout EXCEPT ![t] = d]
  /\ woken' = [woken EXCEPT ![t] = TRUE]
  /\ Goto(t, "lock")
  /\ UNCHANGED <<holder, guard, waitVars, notifyVars, items, puts>>

DeadlinePasses(t) ==
  /\ timeout[t] = "armed"
  /\ timeout' = [timeout EXCEPT ![t] = "passed"]
  /\ UNCHANGED <<pc, holder, guard, waitVars, woken, notifyVars, items, puts>>

Lock(t) ==
  /\ pc[t] = "lock" /\ holder = None
  /\ holder' = t
  /\ Goto(t, "check")
  /\ UNCHANGED <<guard, waitVars, timeout, woken, notifyVars, items, puts>>

\* The predicate: take an item, give up on cv_status::timeout, or wait for what is left
Check(t) ==
  /\ pc[t] = "check"
  /\ IF items > 0
     THEN items' = items - 1 /\ Goto(t, "unlock") /\ UNCHANGED timeout
     ELSE /\ UNCHANGED items
          /\ Goto(t, IF woken[t] THEN "enqueue" ELSE "unlock")
          /\ timeout' = [timeout EXCEPT ![t] = IF @ = "passed" THEN "zero" ELSE @]
  /\ UNCHANGED <<holder, guard, waitVars, woken, notifyVars, puts>>

\* WaitImpl: waiters_mutex_ is locked before the mutex of the program is released.
LockWaiters(t) ==
  /\ pc[t] = "enqueue" /\ guard = None
  /\ guard' = t
  /\ Goto(t, "release")
  /\ UNCHANGED <<holder, waitVars, timeout, woken, notifyVars, items, puts>>

ReleaseMutex(t) ==
  /\ pc[t] = "release"
  /\ holder' = None
  /\ Goto(t, "link")
  /\ UNCHANGED <<guard, waitVars, timeout, woken, notifyVars, items, puts>>

Link(t) ==
  /\ pc[t] = "link"
  /\ node' = [node EXCEPT ![t] = "unset"]
  /\ queue' = queue \cup {t}
  /\ guard' = None
  /\ Goto(t, "wait")
  /\ UNCHANGED <<holder, asleep, timeout, woken, notifyVars, items, puts>>

\* The futex call of Wait or WaitTimed sleeps while the event is unset. It returns for a wake-up,
\* for a signal, or when the time is up; the callers look at the event again.
Sleep(t) ==
  /\ pc[t] = "wait" /\ t \notin asleep /\ node[t] = "unset" /\ timeout[t] # "zero"
  /\ asleep' = asleep \cup {t}
  /\ UNCHANGED <<pc, holder, guard, queue, node, timeout, woken, notifyVars, items, puts>>

SleepReturns(t) ==
  /\ t \in asleep
  /\ asleep' = asleep \ {t}
  /\ UNCHANGED <<pc, holder, guard, queue, node, timeout, woken, notifyVars, items, puts>>

\* The event has been fired, or the time is up: a zero timeout does not look at the event.
WaitReturns(t) ==
  /\ pc[t] = "wait" /\ t \notin asleep
  /\ \/ timeout[t] # "zero" /\ node[t] = "fired" /\ woken' = [woken EXCEPT ![t] = TRUE]
     \/ /\ timeout[t] = "zero" \/ (timeout[t] = "passed" /\ node[t] = "unset")
        /\ woken' = [woken EXCEPT ![t] = FALSE]
  /\ Goto(t, IF timeout[t] = "none" THEN "relock" ELSE "unlink")
  /\ UNCHANGED <<holder, guard, waitVars, timeout, notifyVars, items, puts>>

UnlinkedSelf_Never(t) == queue

UnlinkedSelf(t) == queue \ {t}

\* Try to unlink self on timeout: under waiters_mutex_, so not while a notifier fires.
UnlinkSelf(t) ==
  /\ pc[t] = "unlink" /\ guard = None
  /\ queue' = UnlinkedSelf(t)
  /\ Goto(t, "relock")
  /\ UNCHANGED <<holder, guard, node, asleep, timeout, woken, notifyVars, items, puts>>

\* The mutex is taken again and the node is gone with its frame. FaultyWaitTimed may give the
\* lock away and come back for it.
Relock(t) ==
  /\ pc[t] = "relock" /\ holder = None
  /\ holder' = t
  /\ node' = [node EXCEPT ![t] = "none"]
  /\ \E l \in {"check", "give"} : Goto(t, l)
  /\ UNCHANGED <<guard, queue, asleep, timeout, woken, notifyVars, items, puts>>

GiveAway(t) ==
  /\ pc[t] = "give"
  /\ holder' = None
  /\ Goto(t, "lock")
  /\ UNCHANGED <<guard, waitVars, timeout, woken, notifyVars, items, puts>>

Unlock(t) ==
  /\ pc[t] = "unlock"
  /\ holder' = None
  /\ timeout' = [timeout EXCEPT ![t] = "none"]
  /\ Goto(t, "idle")
  /\ UNCHANGED <<guard, waitVars, woken, notifyVars, items, puts>>

-----------------------------------------------------------------------------
(* Producers *)

\* Lock, put an item, and notify with the mutex held or after its release.
Put(t) ==
  /\ t \in Producer /\ pc[t] = "idle" /\ puts < MaxPuts /\ holder = None
  /\ items' = items + 1 /\ puts' = puts + 1
  /\ holder' \in {t, None}
  /\ Goto(t, "notify")
  /\ UNCHANGED <<guard, waitVars, timeout, woken, notifyVars>>

\* Where notify_one and notify_all return to
Done(t) == IF holder = t THEN "unlock" ELSE "idle"

NotifyNobody(t) ==
  /\ pc[t] = "notify" /\ guard = None /\ queue = {}
  /\ Goto(t, Done(t))
  /\ UNCHANGED <<holder, guard, waitVars, timeout, woken, notifyVars, items, puts>>

\* NotifyOne, UnlinkRandomItem; NotifyAll, ShuffleToVector
Notify(t, S) ==
  /\ pc[t] = "notify" /\ guard = None /\ queue # {}
  /\ S = queue \/ \E w \in queue : S = {w}
  /\ guard' = t
  /\ queue' = queue \ S
  /\ batch' = [batch EXCEPT ![t] = S]
  /\ Goto(t, "fire")
  /\ UNCHANGED <<holder, node, asleep, timeout, woken, key, items, puts>>

\* Fire: the key is made of the address first, because after the store the node may be gone.
Fire(t, w) ==
  /\ pc[t] = "fire" /\ w \in batch[t]
  /\ node' = [node EXCEPT ![w] = "fired"]
  /\ key' = [key EXCEPT ![t] = w]
  /\ batch' = [batch EXCEPT ![t] = @ \ {w}]
  /\ Goto(t, "wake")
  /\ UNCHANGED <<holder, guard, queue, asleep, timeout, woken, items, puts>>

Wake(t) ==
  /\ pc[t] = "wake"
  /\ asleep' = asleep \ {key[t]}
  /\ key' = [key EXCEPT ![t] = None]
  /\ IF batch[t] = {} THEN guard' = None /\ Goto(t, Done(t)) ELSE guard' = guard /\ Goto(t, "fire")
  /\ UNCHANGED <<holder, queue, node, timeout, woken, batch, items, puts>>

-----------------------------------------------------------------------------
Step(t) ==
  \/ \E d \in {"none", "zero", "armed"} : Consume(t, d)
  \/ DeadlinePasses(t) \/ Lock(t) \/ Check(t)
  \/ LockWaiters(t) \/ ReleaseMutex(t) \/ Link(t) \/ Sleep(t) \/ SleepReturns(t)
  \/ WaitReturns(t) \/ UnlinkSelf(t) \/ Relock(t) \/ GiveAway(t) \/ Unlock(t)
  \/ Put(t) \/ NotifyNobody(t) \/ (\E S \in SUBSET queue : Notify(t, S))
  \/ (\E w \in Thread : Fire(t, w)) \/ Wake(t)

\* The producers are done; consumers may still wait for one more item.
Finished ==
  /\ puts = MaxPuts /\ UNCHANGED vars
  /\ \A t \in Thread : pc[t] = "idle" \/ t \in queue

Next == Finished \/ \E t \in Thread : Step(t)

Spec == Init /\ [][Next]_vars

-----------------------------------------------------------------------------
\* Type invariant
TypeOK ==
  /\ pc \in [Thread -> PC]
  /\ {holder, guard} \subseteq Thread \cup {None}
  /\ queue \subseteq Thread /\ asleep \subseteq Thread
  /\ node \in [Thread -> {"none", "unset", "fired"}]
  /\ timeout \in [Thread -> {"none", "zero", "armed", "passed"}]
  /\ woken \in [Thread -> BOOLEAN]
  /\ batch \in [Thread -> SUBSET Thread]
  /\ key \in [Thread -> Thread \cup {None}]
  /\ items \in Nat /\ puts \in 0 .. MaxPuts

\* Notifiers reach the nodes that are on the stacks of waiting threads, and only those: a linked
\* node, and one that is still to be fired, is that of a wait in progress, not yet fired. A thread
\* sleeps on a fired event only as long as the notifier that fired it is about to wake it. (The
\* self-unlink of a timed wait waits for waiters_mutex_; condvar.hpp WaitImpl, Fire.)
NodesAreAlive ==
  /\ \A w \in queue \cup UNION {batch[t] : t \in Thread} : node[w] = "unset"
  /\ \A w \in asleep : node[w] = "fired" => \E t \in Thread : pc[t] = "wake" /\ key[t] = w

\* Consumers that will look at the items without being notified again, and notifications to come
Awake == {t \in Thread : \/ pc[t] \in {"lock", "check", "unlink", "relock", "give"}
                         \/ pc[t] = "wait" /\ t \notin queue}
Notifying == {t \in Thread : pc[t] = "notify"}

\* No notification is lost: while a consumer waits there is, for each item, a consumer that will
\* look at it or a notification to come, also when a notify_one meets a waiter whose time is up.
NoLostNotify == queue # {} => items <= Cardinality(Awake) + Cardinality(Notifying)
==============================================================================
