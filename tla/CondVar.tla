------------------------------- MODULE CondVar -------------------------------
(***************************************************************************)
(* Classes CondVarImpl and condition_variable of                           *)
(* twist/rt/sim/user/library/std_like/condition_variable.hpp: a counter of *)
(* notifications on whose futex the waiting threads park.                  *)
(*                                                                         *)
(* It is driven by the program condition variables are made for: producers *)
(* put items under the mutex and notify, with the mutex or after they have *)
(* released it; consumers wait, with or without a timeout, while there is  *)
(* no item.  The mutex is taken by what it promises (RwLockSpec, which     *)
(* module Mutex implements): the variable holder.                          *)
(***************************************************************************)
EXTENDS SyncVar, FiniteSets

CONSTANTS
  Count,     \* CondVarImpl::count_
  Width,     \* 2^32: count_ is a uint32_t
  MaxPuts,   \* bound: the items that are put
  None

CondVarConstants ==
  /\ Count \in Loc
  /\ None \notin Thread
  /\ IsFiniteSet(Thread)
  /\ MaxPuts \in Nat
  /\ Width \in Nat \ {0}

VARIABLES
  pc,        \* where each thread is, see PC
  old,       \* old_count of a wait in progress
  deadline,  \* of a consumer: "none", or whether its deadline has passed
  holder,    \* who holds the mutex
  items,     \* what the mutex protects
  puts       \* the number of items put so far

vars == <<syncVars, pc, old, deadline, holder, items, puts>>

PC == {"idle", "lock", "load", "unlock_wait", "wait", "unlock",
       "put", "put_unlock", "notify_held", "notify"}

Goto(t, l) == pc' = [pc EXCEPT ![t] = l]

Init ==
  /\ SyncInit([l \in Loc |-> 0])
  /\ pc = [t \in Thread |-> "idle"]
  /\ old = [t \in Thread |-> 0]
  /\ deadline = [t \in Thread |-> "none"]
  /\ holder = None
  /\ items = 0
  /\ puts = 0

-----------------------------------------------------------------------------
(* Consumers *)

Consume(t, d) ==
  /\ pc[t] = "idle"
  /\ puts < MaxPuts
  /\ deadline' = [deadline EXCEPT ![t] = d]
  /\ Goto(t, "lock")
  /\ UNCHANGED <<syncVars, old, holder, items, puts>>

(* The mutex is taken, by lock() or at the end of a wait.  The predicate is evaluated in the
   same step: take an item, give up on cv_status::timeout, or wait (again). *)
Acquire(t) ==
  /\ pc[t] \in {"lock", "wait"}
  /\ ~IsParked(t)
  /\ holder = None
  /\ holder' = t
  /\ \/ items > 0 /\ items' = items - 1 /\ Goto(t, "unlock")
     \/ items = 0 /\ items' = 0 /\ pc[t] = "wait" /\ deadline[t] = "passed" /\ Goto(t, "unlock")
     \/ items = 0 /\ items' = 0 /\ (pc[t] = "lock" \/ deadline[t] # "passed") /\ Goto(t, "load")
  /\ UNCHANGED <<syncVars, old, deadline, puts>>

(* Wait, WaitTimed: the load of count_, *)
WaitLoad(t) ==
  /\ pc[t] = "load"
  /\ Load(t, Count, FALSE)
  /\ old' = [old EXCEPT ![t] = value[Count]]
  /\ Goto(t, "unlock_wait")
  /\ UNCHANGED <<waiters, deadline, holder, items, puts>>

(* ... then mutex->unlock() and FutexWait(Timed) in one step. *)
ParksIf(t) == value[Count] = old[t]

WaitParks(t) ==
  /\ pc[t] = "unlock_wait"
  /\ ParksIf(t)
  /\ holder' = None
  /\ waiters' = [waiters EXCEPT ![Count] = @ \cup {t}]
  /\ Goto(t, "wait")
  /\ UNCHANGED <<value, stored, current, acquire, release, old, deadline, items, puts>>

(* FutexWait returns at once: the value has changed, or a spurious wake-up. *)
WaitReturns(t) ==
  /\ pc[t] = "unlock_wait"
  /\ holder' = None
  /\ Goto(t, "wait")
  /\ UNCHANGED <<syncVars, old, deadline, items, puts>>

(* Time passes a deadline; FutexTimer::Alarm() takes the waiter out of the futex queue. *)
DeadlinePasses(t) ==
  /\ deadline[t] = "armed"
  /\ deadline' = [deadline EXCEPT ![t] = "passed"]
  /\ UNCHANGED <<syncVars, pc, old, holder, items, puts>>

AlarmDue(t) == t \in waiters[Count] /\ deadline[t] = "passed"

Alarm(t) ==
  /\ AlarmDue(t)
  /\ waiters' = Woken(Count, {t})
  /\ UNCHANGED <<value, stored, current, acquire, release, pc, old, deadline, holder, items, puts>>

(* The consumer, or a producer that will not notify any more, unlocks. *)
Release(t) ==
  /\ pc[t] = "unlock"
  /\ holder' = None
  /\ deadline' = [deadline EXCEPT ![t] = "none"]
  /\ Goto(t, "idle")
  /\ UNCHANGED <<syncVars, old, items, puts>>

-----------------------------------------------------------------------------
(* Producers *)

Produce(t) ==
  /\ pc[t] = "idle"
  /\ puts < MaxPuts
  /\ Goto(t, "put")
  /\ UNCHANGED <<syncVars, old, deadline, holder, items, puts>>

(* Lock, put an item, and go on to notify, or to unlock first. *)
Put(t) ==
  /\ pc[t] = "put"
  /\ puts < MaxPuts
  /\ holder = None
  /\ holder' = t
  /\ items' = items + 1
  /\ puts' = puts + 1
  /\ \E l \in {"notify_held", "put_unlock"} : Goto(t, l)
  /\ UNCHANGED <<syncVars, old, deadline>>

(* Another producer has put the last item. *)
PutNothing(t) ==
  /\ pc[t] = "put"
  /\ puts = MaxPuts
  /\ Goto(t, "idle")
  /\ UNCHANGED <<syncVars, old, deadline, holder, items, puts>>

PutUnlock(t) ==
  /\ pc[t] = "put_unlock"
  /\ holder' = None
  /\ Goto(t, "notify")
  /\ UNCHANGED <<syncVars, old, deadline, items, puts>>

(* NotifyOne, NotifyAll: FetchAdd(1), FutexWake *)
Bumped == (value[Count] + 1) % Width

NotifyWakes_None(all) == {{}}

NotifyWakes(all) == IF all THEN {waiters[Count]} ELSE WakeOne(Count)

Notify(t, all) ==
  /\ pc[t] \in {"notify_held", "notify"}
  /\ \E S \in NotifyWakes(all) :
       /\ Rmw(t, Count, Bumped, FALSE, FALSE, S)
       /\ waiters' = Woken(Count, S)
  /\ Goto(t, IF pc[t] = "notify" THEN "idle" ELSE "unlock")
  /\ UNCHANGED <<old, deadline, holder, items, puts>>

-----------------------------------------------------------------------------
Call(t) == Produce(t) \/ \E d \in {"none", "armed"} : Consume(t, d)

Step(t) ==
  \/ Acquire(t) \/ WaitLoad(t) \/ WaitParks(t) \/ WaitReturns(t) \/ Release(t)
  \/ DeadlinePasses(t) \/ Alarm(t)
  \/ Put(t) \/ PutNothing(t) \/ PutUnlock(t) \/ \E all \in BOOLEAN : Notify(t, all)

(* The producers are done, or everybody waits for somebody else to produce, which the
   simulator reports as a deadlock of the program. *)
Finished ==
  /\ \A t \in Thread : \/ pc[t] = "idle" /\ puts = MaxPuts
                       \/ t \in waiters[Count] /\ deadline[t] = "none"
  /\ UNCHANGED vars

Next == (\E t \in Thread : Call(t) \/ Step(t)) \/ Finished

Spec == Init /\ [][Next]_vars

-----------------------------------------------------------------------------
(* Type invariant; count_ stays within its width. *)
TypeOK ==
  /\ SyncTypeOK
  /\ value[Count] < Width
  /\ pc \in [Thread -> PC]
  /\ old \in [Thread -> Nat]
  /\ deadline \in [Thread -> {"none", "armed", "passed"}]
  /\ holder \in Thread \cup {None}
  /\ items \in Nat
  /\ puts \in 0 .. MaxPuts

(* Consumers that will look at the items without being notified, and pending notifications *)
Awake == {t \in Thread : pc[t] \in {"lock", "wait"} /\ ~IsParked(t)}
Notifying == {t \in Thread : pc[t] \in {"notify_held", "put_unlock", "notify"}}

(* No notification is lost: while a consumer is parked, there is for each item a consumer
   that is awake and will look for it, or a notification still to come.  In particular no
   item is put between the predicate and the FutexWait, a notification that comes there
   belongs to an item of another consumer, and a notify_one() is never spent on a waiter
   that had already timed out. *)
NoLostNotify ==
  waiters[Count] # {} => items <= Cardinality(Awake) + Cardinality(Notifying)
=============================================================================
