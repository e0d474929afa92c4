----------------------------- MODULE SharedMutex -----------------------------
(***************************************************************************)
(* Classes SharedMutexImpl and shared_mutex of                             *)
(* twist/rt/sim/user/library/std_like/shared_mutex.hpp.  One word holds    *)
(* the writer bit and the number of readers; writers and readers park on   *)
(* its futex.  The writer's unlock wakes everybody, the last reader's only *)
(* one thread.                                                             *)
(*                                                                         *)
(* Critical sections are numbered in the order in which they end, as in    *)
(* module Mutex.                                                           *)
(***************************************************************************)
EXTENDS SyncVar, FiniteSets

CONSTANTS
  State,        \* SharedMutexImpl::state_
  MaxSections,  \* bound: no lock is asked for once so many sections have ended
  None

ASSUME SharedMutexAssumption ==
  /\ State \in Loc
  /\ None \notin Thread
  /\ IsFiniteSet(Thread)
  /\ MaxSections \in Nat

VARIABLES
  pc,           \* where each thread is, see PC
  expected,     \* the state a compare_exchange of the thread expects
  owner,        \* owner_.id_
  sections,     \* the number of critical sections that have ended
  writes        \* those of them that were a writer's

vars == <<syncVars, pc, expected, owner, sections, writes>>
sectionVars == <<sections, writes>>

PC == {"idle", "load", "cas", "try", "held", "store",
       "load_shared", "cas_shared", "try_load_shared", "try_cas_shared",
       "shared", "fetch_sub"}

Goto(t, l) == pc' = [pc EXCEPT ![t] = l]

Pack(writer, readers) == 2 * readers + (IF writer THEN 1 ELSE 0)

(* Unpack *)
Writer(v) == v % 2 = 1
Readers(v) == v \div 2

Writing == {t \in Thread : pc[t] \in {"held", "store"}}
Reading == {t \in Thread : pc[t] \in {"shared", "fetch_sub"}}

Init ==
  /\ SyncInit([l \in Loc |-> Pack(FALSE, 0)])
  /\ pc = [t \in Thread |-> "idle"]
  /\ expected = [t \in Thread |-> 0]
  /\ owner = None
  /\ sections = 0
  /\ writes = {}

-----------------------------------------------------------------------------
(* The calls, up to the first atomic operation *)
Enter(t, l) ==
  /\ pc[t] = "idle"
  /\ sections < MaxSections
  /\ Goto(t, l)
  /\ UNCHANGED <<syncVars, expected, owner, sectionVars>>

lock(t) == Enter(t, "load")
try_lock(t) == Enter(t, "try")
lock_shared(t) == Enter(t, "load_shared")
try_lock_shared(t) == Enter(t, "try_load_shared")

(* A load that decides to try a compare_exchange, *)
LoadThenCas(t, from, to) ==
  /\ pc[t] = from
  /\ Load(t, State, TRUE)
  /\ expected' = [expected EXCEPT ![t] = value[State]]
  /\ Goto(t, to)
  /\ UNCHANGED <<waiters, owner, sectionVars>>

(* ... or waits for the state to change.  The loop goes back to the load after it. *)
LoadThenWait(t, from) ==
  /\ pc[t] = from
  /\ Load(t, State, TRUE)
  /\ FutexWait(t, State, value[State], FALSE, waiters)
  /\ UNCHANGED <<pc, expected, owner, sectionVars>>

(* compare_exchange_strong, relaxed *)
CasSucceeds(t, from, new, to) ==
  /\ pc[t] = from
  /\ value[State] = expected[t]
  /\ Rmw(t, State, new, FALSE, FALSE, {})
  /\ Goto(t, to)
  /\ UNCHANGED <<waiters, expected, sectionVars>>

CasFails(t, from, to) ==
  /\ pc[t] = from
  /\ value[State] # expected[t]
  /\ Load(t, State, FALSE)
  /\ Goto(t, to)
  /\ UNCHANGED <<waiters, expected, owner, sectionVars>>

(* Lock *)
CanLock_IgnoresReaders(v) == ~Writer(v)

CanLock(v) == ~Writer(v) /\ Readers(v) = 0

LockCas(t) == CasSucceeds(t, "cas", Pack(TRUE, 0), "held") /\ owner' = t

Lock(t) ==
  \/ ~IsParked(t) /\ CanLock(value[State]) /\ LoadThenCas(t, "load", "cas")
  \/ ~IsParked(t) /\ ~CanLock(value[State]) /\ LoadThenWait(t, "load")
  \/ LockCas(t)
  \/ CasFails(t, "cas", "load")

(* TryLock: compare_exchange_weak, acquire *)
TryLock(t) ==
  \/ /\ pc[t] = "try"
     /\ value[State] = Pack(FALSE, 0)
     /\ Rmw(t, State, Pack(TRUE, 0), TRUE, FALSE, {})
     /\ owner' = t
     /\ Goto(t, "held")
     /\ UNCHANGED <<waiters, expected, sectionVars>>
  \/ /\ pc[t] = "try"
     /\ Load(t, State, FALSE)
     /\ Goto(t, "idle")
     /\ UNCHANGED <<waiters, expected, owner, sectionVars>>

(* A critical section ends: unlock() or unlock_shared() up to its atomic operation. *)
EndSection(t) ==
  /\ sections' = sections + 1
  /\ current' = [current EXCEPT ![t] = @ \cup {sections + 1}]
  /\ UNCHANGED <<value, stored, waiters, acquire, release, expected>>

unlock(t) ==
  /\ pc[t] = "held"
  /\ owner' = None
  /\ writes' = writes \cup {sections + 1}
  /\ EndSection(t)
  /\ Goto(t, "store")

(* Unlock: the store, FutexWake(All) *)
UnlockWakes_One == WakeOne(State)

UnlockWakes == {waiters[State]}

Unlock(t) ==
  /\ pc[t] = "store"
  /\ \E S \in UnlockWakes :
       /\ Store(t, State, Pack(FALSE, 0), TRUE, S)
       /\ waiters' = Woken(State, S)
  /\ Goto(t, "idle")
  /\ UNCHANGED <<expected, owner, sectionVars>>

(* LockShared *)
LockSharedCas(t) ==
  /\ CasSucceeds(t, "cas_shared", Pack(FALSE, Readers(expected[t]) + 1), "shared")
  /\ UNCHANGED owner

LockShared(t) ==
  \/ ~IsParked(t) /\ ~Writer(value[State]) /\ LoadThenCas(t, "load_shared", "cas_shared")
  \/ ~IsParked(t) /\ Writer(value[State]) /\ LoadThenWait(t, "load_shared")
  \/ LockSharedCas(t)
  \/ CasFails(t, "cas_shared", "load_shared")

(* TryLockShared fails only behind a writer. *)
TryLockSharedFails(t) ==
  /\ pc[t] = "try_load_shared"
  /\ Writer(value[State])
  /\ Load(t, State, TRUE)
  /\ Goto(t, "idle")
  /\ UNCHANGED <<waiters, expected, owner, sectionVars>>

TryLockShared(t) ==
  \/ ~Writer(value[State]) /\ LoadThenCas(t, "try_load_shared", "try_cas_shared")
  \/ TryLockSharedFails(t)
  \/ /\ CasSucceeds(t, "try_cas_shared", Pack(FALSE, Readers(expected[t]) + 1), "shared")
     /\ UNCHANGED owner
  \/ CasFails(t, "try_cas_shared", "try_load_shared")

unlock_shared(t) ==
  /\ pc[t] = "shared"
  /\ EndSection(t)
  /\ Goto(t, "fetch_sub")
  /\ UNCHANGED <<owner, writes>>

(* UnlockShared: FetchSub(2), and FutexWake(1) by the last reader *)
LastReader_OffByOne == Readers(value[State]) = 0

LastReader == Readers(value[State]) = 1

UnlockShared(t) ==
  /\ pc[t] = "fetch_sub"
  /\ \E S \in (IF LastReader THEN WakeOne(State) ELSE {{}}) :
       /\ Rmw(t, State, value[State] - 2, FALSE, TRUE, S)
       /\ waiters' = Woken(State, S)
  /\ Goto(t, "idle")
  /\ UNCHANGED <<expected, owner, sectionVars>>

-----------------------------------------------------------------------------
Call(t) == lock(t) \/ try_lock(t) \/ lock_shared(t) \/ try_lock_shared(t)

Step(t) ==
  \/ Lock(t) \/ TryLock(t) \/ unlock(t) \/ Unlock(t)
  \/ LockShared(t) \/ TryLockShared(t) \/ unlock_shared(t) \/ UnlockShared(t)

(* The bound is reached, and no call is in progress. *)
Finished ==
  /\ sections >= MaxSections
  /\ \A t \in Thread : pc[t] = "idle"
  /\ UNCHANGED vars

Next == (\E t \in Thread : Call(t) \/ Step(t)) \/ Finished

Spec == Init /\ [][Next]_vars

(* As for the mutex: a runnable thread is picked in the end, critical sections are finite. *)
FairSpec == Spec /\ \A t \in Thread : WF_vars(Step(t))

-----------------------------------------------------------------------------
(* Type invariant; the word never holds a writer bit and readers at once. *)
TypeOK ==
  /\ SyncTypeOK
  /\ pc \in [Thread -> PC]
  /\ expected \in [Thread -> Nat]
  /\ owner \in Thread \cup {None}
  /\ sections \in Nat
  /\ writes \subseteq Nat

(* The word says who is inside: the writer bit, and the exact number of readers, so that
   FetchSub(2) never borrows from the writer bit ("Expected std::shared_mutex in readers
   state") and the last reader knows that it is the last; owner_ is the writer. *)
StateIsExact ==
  /\ value[State] = Pack(Writing # {}, Cardinality(Reading))
  /\ \A t \in Thread : owner = t <=> pc[t] = "held"

(* Readers park behind a writer only.  The last reader wakes one thread: were a reader
   parked then, the one wake-up could be all that it and a writer get. *)
ReadersWaitForWriter ==
  \A t \in waiters[State] : pc[t] = "load_shared" => Writer(value[State])

(* What the two wake-ups rely on: the word is exact, and whoever sleeps while readers hold the lock
   is a writer. *)
StateGuidesWakeups == StateIsExact /\ ReadersWaitForWriter

(* No wake-up is lost: when the lock is free and a thread is parked, another thread is in the
   loop of Lock() or LockShared(), awake, and will wake it when it unlocks. *)
NoLostWakeup ==
  value[State] = 0 /\ waiters[State] # {} =>
    \E t \in Thread : /\ pc[t] \in {"load", "cas", "load_shared", "cas_shared"}
                      /\ ~IsParked(t)

(* One writer or any number of readers: shared_mutex is a readers-writer lock. *)
Abstract == INSTANCE RwLockSpec WITH writers <- Writing, readers <- Reading
ImplementsLock == Abstract!Spec

(* When threads ask for the lock, one of them gets it. *)
LockIsGranted ==
  (\E t \in Thread : pc[t] \in {"load", "cas", "load_shared", "cas_shared"})
    ~> (\E t \in Thread : pc[t] \in {"held", "shared"})

(* Critical sections are ordered by happens-before: a writer knows every earlier section, a
   reader every earlier section of a writer. *)
SectionsAreOrdered ==
  \A t \in Thread :
    /\ pc[t] = "held" => 1 .. sections \subseteq current[t]
    /\ pc[t] = "shared" => writes \subseteq current[t]
=============================================================================
