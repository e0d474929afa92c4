---------------------------- MODULE ThreadsProofs ----------------------------
(***************************************************************************)
(* Threads and their handles, the join of a WaitGroup, the notifications   *)
(* of the two condition variables and the adversary of lock-free code, for *)
(* any number of threads and items.                                        *)
(***************************************************************************)
EXTENDS MCThreads, FiniteSetTheorems, TLAPS

-----------------------------------------------------------------------------
(* Threads and their handles. The object that a thread shares with its handle lives exactly as
   long as one of the two sides may use it, and a join synchronizes with the exit of the thread.

   The inductive invariant says what the word sync counts: the sides that have not let go of the
   object yet, where the side of the handle is its owner or the one call of join() or detach()
   that has taken it over. *)

(* Thread t is in a call that has taken over the handle of u. *)
Holding(t, u) == pc[t] \in {"join", "detach"} /\ target[t] = u

(* The side of the handle *)
Owned(u) == handle[u] # None \/ \E t \in Thread : Holding(t, u)

(* The handle is in one place, and the thread of a call is alive. *)
OneOwner ==
  /\ \A t \in Thread : pc[t] # "idle" => t \in alive /\ target[t] \in Thread \ {Main}
  /\ \A t, u \in Thread : Holding(t, u) => handle[u] = None
  /\ \A s, t, u \in Thread : Holding(s, u) /\ Holding(t, u) => s = t

(* The main thread has no object, a thread that has not been spawned neither. *)
Unborn ==
  /\ handle[Main] = None
  /\ \A u \in Thread \ {Main} :
       object[u] = "none" => u \notin alive /\ ~Owned(u) /\ value[u] = 2

(* sync is the number of sides that use the object. *)
SyncCounts ==
  \A u \in Thread \ {Main} :
    /\ object[u] = "live" => /\ u \in alive \/ Owned(u)
                             /\ value[u] = IF u \in alive /\ Owned(u) THEN 2 ELSE 1
    /\ object[u] = "deleted" => u \notin alive /\ ~Owned(u)

(* A thread that has exited has left its mark in the word. *)
ExitIsStored ==
  \A u \in Thread \ {Main} : object[u] # "none" /\ u \notin alive => u \in stored[u]

(* A completed join has deleted the object, and knows the thread's end. *)
JoinedKnows ==
  \A t \in Thread : pc[t] = "joined" => object[target[t]] = "deleted" /\ target[t] \in current[t]

HandleInv == TypeOK /\ OneOwner /\ Unborn /\ SyncCounts /\ ExitIsStored /\ JoinedKnows

-----------------------------------------------------------------------------
(* The initial states satisfy the invariant. *)
LEMMA HandleInit == Init => HandleInv
<1> SUFFICES ASSUME Init PROVE HandleInv
  OBVIOUS
<1> USE ThreadHandleAssumption DEF Init, SyncInit
<1>1. TypeOK
  BY DEF TypeOK, SyncTypeOK
<1>2. OneOwner /\ Unborn
  BY DEF OneOwner, Unborn, Owned, Holding
<1>3. SyncCounts /\ ExitIsStored /\ JoinedKnows
  BY DEF SyncCounts, ExitIsStored, JoinedKnows
<1>4. QED
  BY <1>1, <1>2, <1>3 DEF HandleInv

(* A new thread comes with both sides. *)
LEMMA SpawnKeeps == ASSUME NEW t \in Thread, NEW u \in Thread, HandleInv, Spawn(t, u) PROVE HandleInv'
<1> USE ThreadHandleAssumption DEF HandleInv, Spawn, Running
<1>1. TypeOK'
  BY DEF TypeOK, SyncTypeOK
<1>2. \A s, v \in Thread : Holding(s, v)' = Holding(s, v)
  BY DEF Holding
<1>3. OneOwner'
  BY <1>2 DEF TypeOK, OneOwner, Unborn, Owned
<1>4. \A v \in Thread : v # u => Owned(v)' = Owned(v)
  BY <1>2 DEF TypeOK, Owned
<1>5. Owned(u)'
  BY DEF TypeOK, Owned
<1>6. Unborn'
  BY <1>4 DEF TypeOK, Unborn
<1>7. SyncCounts'
  BY <1>4, <1>5 DEF TypeOK, Unborn, SyncCounts
<1>8. ExitIsStored'
  BY DEF TypeOK, ExitIsStored
<1>9. JoinedKnows'
  BY DEF TypeOK, SyncTypeOK, OneOwner, Unborn, JoinedKnows
<1>10. QED
  BY <1>1, <1>3, <1>6, <1>7, <1>8, <1>9

(* A moved handle stays the one side it was. *)
LEMMA MoveKeeps ==
  ASSUME NEW t \in Thread, NEW u \in Thread, NEW v \in Thread, HandleInv, Move(t, u, v) PROVE HandleInv'
<1> USE ThreadHandleAssumption DEF HandleInv, Move, Running, syncVars
<1>1. TypeOK'
  BY DEF TypeOK, SyncTypeOK
<1>2. \A s, w \in Thread : Holding(s, w)' = Holding(s, w)
  BY DEF Holding
<1>3. \A w \in Thread : Owned(w)' = Owned(w)
  BY <1>2 DEF TypeOK, Owned
<1>4. OneOwner' /\ Unborn'
  BY <1>2, <1>3 DEF TypeOK, OneOwner, Unborn
<1>5. SyncCounts' /\ ExitIsStored' /\ JoinedKnows'
  BY <1>3 DEF SyncCounts, ExitIsStored, JoinedKnows
<1>6. QED
  BY <1>1, <1>4, <1>5

(* join() and detach() take the handle over. *)
LEMMA CallKeeps ==
  ASSUME NEW t \in Thread, NEW u \in Thread, HandleInv, join(t, u) \/ detach(t, u) PROVE HandleInv'
<1> USE ThreadHandleAssumption DEF HandleInv
<1>1. /\ Running(t) /\ handle[u] = t
      /\ handle' = [handle EXCEPT ![u] = None]
      /\ target' = [target EXCEPT ![t] = u]
      /\ UNCHANGED <<value, stored, waiters, current, acquire, release, object, alive>>
  BY DEF join, detach, Released, Enter, syncVars
<1>2. PICK l \in {"join", "detach"} : pc' = [pc EXCEPT ![t] = l]
  BY DEF join, detach, Enter
<1>3. (detached \subseteq alive)'
  BY <1>1 DEF TypeOK, join, detach
<1>4. TypeOK'
  BY <1>1, <1>2, <1>3 DEF TypeOK, SyncTypeOK
<1>5. u # Main
  BY <1>1 DEF TypeOK, Unborn
<1>6. \A s, w \in Thread : Holding(s, w)' <=> Holding(s, w) \/ (s = t /\ w = u)
  BY <1>1, <1>2 DEF TypeOK, Holding, Running
<1>7. \A w \in Thread : Owned(w)' = Owned(w)
  BY <1>1, <1>6 DEF TypeOK, Owned
<1>8. OneOwner'
  BY <1>1, <1>2, <1>5, <1>6 DEF TypeOK, OneOwner, Running
<1>9. Unborn'
  BY <1>1, <1>5, <1>7 DEF TypeOK, Unborn
<1>10. SyncCounts' /\ ExitIsStored'
  BY <1>1, <1>7 DEF SyncCounts, ExitIsStored
<1>11. JoinedKnows'
  BY <1>1, <1>2 DEF TypeOK, JoinedKnows, Running
<1>12. QED
  BY <1>4, <1>8, <1>9, <1>10, <1>11

(* A join that has to wait changes only what its thread knows. *)
LEMMA JoinWaitsKeeps == ASSUME NEW t \in Thread, HandleInv, JoinWaits(t) PROVE HandleInv'
<1> USE ThreadHandleAssumption DEF HandleInv, JoinWaits, Load
<1>1. TypeOK'
  BY DEF TypeOK, SyncTypeOK, OneOwner, FutexWait
<1>2. \A s, w \in Thread : Holding(s, w)' = Holding(s, w)
  BY DEF Holding
<1>3. \A w \in Thread : Owned(w)' = Owned(w)
  BY <1>2 DEF Owned
<1>4. OneOwner' /\ Unborn'
  BY <1>2, <1>3 DEF OneOwner, Unborn
<1>5. SyncCounts' /\ ExitIsStored'
  BY <1>3 DEF SyncCounts, ExitIsStored
<1>6. JoinedKnows'
  BY DEF TypeOK, SyncTypeOK, JoinedKnows
<1>7. QED
  BY <1>1, <1>4, <1>5, <1>6

(* Of the two sides the joiner is the last: the thread has exited, and its mark is acquired. *)
LEMMA JoinReturnsKeeps == ASSUME NEW t \in Thread, HandleInv, JoinReturns(t) PROVE HandleInv'
<1> USE ThreadHandleAssumption DEF HandleInv, JoinReturns, Load, DestroySelf, Enter, JoinOrder
<1> DEFINE u == target[t]
<1>1. u \in Thread \ {Main} /\ Holding(t, u) /\ Owned(u)
  BY DEF OneOwner, Holding, Owned
<1>2. object[u] = "live" /\ u \notin alive /\ u \in stored[u]
  BY <1>1 DEF TypeOK, Unborn, SyncCounts, ExitIsStored
<1>3. TypeOK'
  BY <1>1 DEF TypeOK, SyncTypeOK
<1>4. \A s, w \in Thread : Holding(s, w)' <=> Holding(s, w) /\ s # t
  BY DEF TypeOK, Holding
<1>5. \A w \in Thread : Owned(w)' <=> Owned(w) /\ w # u
  BY <1>1, <1>4 DEF OneOwner, Owned, Holding
<1>6. OneOwner'
  BY <1>1, <1>4 DEF TypeOK, OneOwner
<1>7. Unborn'
  BY <1>1, <1>5 DEF TypeOK, Unborn
<1>8. SyncCounts'
  BY <1>1, <1>2, <1>5 DEF TypeOK, SyncCounts
<1>9. ExitIsStored'
  BY <1>1, <1>2 DEF TypeOK, ExitIsStored
<1>10. JoinedKnows'
  BY <1>1, <1>2 DEF TypeOK, SyncTypeOK, OneOwner, JoinedKnows
<1>11. QED
  BY <1>3, <1>6, <1>7, <1>8, <1>9, <1>10

(* The caller of join() goes on. *)
LEMMA JoinedKeeps == ASSUME NEW t \in Thread, HandleInv, Joined(t) PROVE HandleInv'
<1> USE ThreadHandleAssumption DEF HandleInv, Joined, Return, Enter, syncVars
<1>1. TypeOK'
  BY DEF TypeOK, SyncTypeOK
<1>2. \A s, w \in Thread : Holding(s, w)' = Holding(s, w)
  BY DEF TypeOK, Holding
<1>3. \A w \in Thread : Owned(w)' = Owned(w)
  BY <1>2 DEF Owned
<1>4. OneOwner' /\ Unborn'
  BY <1>2, <1>3 DEF TypeOK, OneOwner, Unborn
<1>5. SyncCounts' /\ ExitIsStored' /\ JoinedKnows'
  BY <1>3 DEF TypeOK, SyncCounts, ExitIsStored, JoinedKnows
<1>6. QED
  BY <1>1, <1>4, <1>5

(* detach() lets go: it deletes the object if the thread has exited. *)
LEMMA DetachKeeps == ASSUME NEW t \in Thread, HandleInv, Detach(t) PROVE HandleInv'
<1> USE ThreadHandleAssumption DEF HandleInv, Detach, Rmw, Clocks, DestroySelf, Return, Enter, Last
<1> DEFINE u == target[t]
<1>1. u \in Thread \ {Main} /\ Holding(t, u) /\ Owned(u)
  BY DEF OneOwner, Holding, Owned
<1>2. object[u] = "live" /\ value[u] = IF u \in alive THEN 2 ELSE 1
  BY <1>1 DEF TypeOK, Unborn, SyncCounts
<1>3. TypeOK'
  <2>1. (value \in [Thread -> 0 .. 2])'
    BY <1>1, <1>2 DEF TypeOK
  <2>2. SyncTypeOK'
    <3> DEFINE known == current[t] \cup acquire[t] \cup stored[u]
    <3>1. known \in SUBSET Nat /\ stored[u] \in SUBSET Nat
      BY <1>1 DEF TypeOK, SyncTypeOK
    <3>2. /\ stored' = [stored EXCEPT ![u] = @ \cup known]
          /\ acquire' = [acquire EXCEPT ![t] = @ \cup stored[u]]
          /\ release' = [release EXCEPT ![t] = known]
          /\ current' = Clocks(t, known, known, {})
      OBVIOUS
    <3> HIDE DEF known
    <3>3. (stored \in [Loc -> SUBSET Nat])' /\ (release \in [Thread -> SUBSET Nat])'
      BY <1>1, <3>1, <3>2 DEF TypeOK, SyncTypeOK
    <3>4. (acquire \in [Thread -> SUBSET Nat])' /\ (current \in [Thread -> SUBSET Nat])'
      BY <3>1, <3>2 DEF TypeOK, SyncTypeOK
    <3>5. QED
      BY <2>1, <3>3, <3>4 DEF TypeOK, SyncTypeOK
  <2>3. (object \in [Thread -> {"none", "live", "deleted"}])'
    BY <1>1 DEF TypeOK
  <2>4. /\ (pc \in [Thread -> {"idle", "join", "joined", "detach"}])'
        /\ (target \in [Thread -> Thread \cup {None}])'
    BY DEF TypeOK
  <2>5. QED
    BY <2>1, <2>2, <2>3, <2>4 DEF TypeOK
<1>4. \A s, w \in Thread : Holding(s, w)' <=> Holding(s, w) /\ s # t
  BY DEF TypeOK, Holding
<1>5. \A w \in Thread : Owned(w)' <=> Owned(w) /\ w # u
  BY <1>1, <1>4 DEF OneOwner, Owned, Holding
<1>6. OneOwner'
  BY <1>1, <1>4 DEF TypeOK, OneOwner
<1>7. Unborn'
  BY <1>1, <1>2, <1>5 DEF TypeOK, Unborn
<1>8. SyncCounts'
  BY <1>1, <1>2, <1>5 DEF TypeOK, SyncCounts
<1>9. ExitIsStored'
  BY <1>1, <1>2 DEF TypeOK, SyncTypeOK, ExitIsStored
<1>10. JoinedKnows'
  BY <1>1, <1>2 DEF TypeOK, SyncTypeOK, OneOwner, JoinedKnows
<1>11. QED
  BY <1>3, <1>6, <1>7, <1>8, <1>9, <1>10

(* The exit of the thread lets go of the other side, and leaves its mark. *)
LEMMA ExitKeeps == ASSUME NEW u \in Thread, HandleInv, AtThreadExit(u) PROVE HandleInv'
<1> USE ThreadHandleAssumption DEF HandleInv, AtThreadExit, Running, DestroySelf, Last
<1>1. u # Main /\ object[u] = "live" /\ value[u] = IF Owned(u) THEN 2 ELSE 1
  BY DEF TypeOK, Unborn, SyncCounts
<1>2. PICK S : /\ current' = Clocks(u, current[u] \cup acquire[u] \cup stored[u] \cup {u},
                                    current[u] \cup acquire[u] \cup stored[u] \cup {u}, S)
               /\ waiters' = Woken(u, S)
  OBVIOUS
<1>3. /\ value' = [value EXCEPT ![u] = @ - 1]
      /\ stored' = [stored EXCEPT ![u] = @ \cup (current[u] \cup acquire[u] \cup stored[u] \cup {u})]
      /\ acquire' = [acquire EXCEPT ![u] = @ \cup stored[u]]
      /\ release' = [release EXCEPT ![u] = current[u] \cup acquire[u] \cup stored[u] \cup {u}]
  OBVIOUS
<1>4. TypeOK'
  BY <1>1, <1>2, <1>3 DEF TypeOK, SyncTypeOK, Clocks, Woken
<1>5. \A s, w \in Thread : Holding(s, w)' = Holding(s, w)
  BY DEF Holding
<1>6. \A w \in Thread : Owned(w)' = Owned(w)
  BY <1>5 DEF Owned
<1>7. OneOwner'
  BY <1>5 DEF OneOwner
<1>8. Unborn'
  BY <1>1, <1>3, <1>6 DEF TypeOK, Unborn
<1>9. SyncCounts'
  BY <1>1, <1>3, <1>6 DEF TypeOK, SyncCounts
<1>10. ExitIsStored'
  BY <1>1, <1>3 DEF TypeOK, SyncTypeOK, ExitIsStored
<1>11. JoinedKnows'
  BY <1>1, <1>2 DEF TypeOK, SyncTypeOK, OneOwner, JoinedKnows, Clocks
<1>12. QED
  BY <1>4, <1>7, <1>8, <1>9, <1>10, <1>11

(* A stuttering step keeps the invariant. *)
LEMMA StutterKeeps == ASSUME HandleInv, UNCHANGED vars PROVE HandleInv'
  BY DEF vars, syncVars, HandleInv, TypeOK, SyncTypeOK, OneOwner, Holding, Unborn, Owned, SyncCounts,
         ExitIsStored, JoinedKnows

-----------------------------------------------------------------------------
(* The strengthened invariant holds in every state. *)
THEOREM HandleInvariant == Spec => []HandleInv
<1>1. HandleInv /\ [Next]_vars => HandleInv'
  BY SpawnKeeps, MoveKeeps, CallKeeps, JoinWaitsKeeps, JoinReturnsKeeps, JoinedKeeps,
     DetachKeeps, ExitKeeps, StutterKeeps
     DEF Next, Call, Step
<1>2. QED
  BY HandleInit, <1>1, PTL DEF Spec

(* thread.cpp: the state has its types; sync stays between 0 and 2. *)
THEOREM HandleTypeCorrect == Spec => []TypeOK
<1>1. HandleInv => TypeOK
  BY DEF HandleInv
<1>2. QED
  BY HandleInvariant, <1>1, PTL

(* StateBase::DestroySelf: the object of a thread lives exactly as long as the thread or its
   handle, or the call that took the handle over, may use it. *)
THEOREM ObjectLivesAsLongAsUsed == Spec => []ObjectLifetime
<1>1. HandleInv => ObjectLifetime
  <2> SUFFICES ASSUME HandleInv, NEW u \in Thread \ {Main} PROVE InUse(u) <=> object[u] = "live"
    BY DEF ObjectLifetime, NoUseAfterDelete, NoLeak
  <2>1. InUse(u) <=> u \in alive \/ Owned(u)
    BY DEF InUse, Owned, Holding
  <2>2. QED
    BY <2>1 DEF HandleInv, TypeOK, Unborn, SyncCounts
<1>2. QED
  BY HandleInvariant, <1>1, PTL

(* thread::join: when it returns the thread has exited, and all it did is known to the caller. *)
THEOREM JoinsSynchronize == Spec => []JoinSynchronizes
<1>1. HandleInv => JoinSynchronizes
  BY DEF HandleInv, OneOwner, SyncCounts, JoinedKnows, JoinSynchronizes
<1>2. QED
  BY HandleInvariant, <1>1, PTL

-----------------------------------------------------------------------------
(* The modules of the instances speak of the same finite sets. *)
LEMMA SameFinite ==
  /\ \A S : G!IsFiniteSet(S) <=> IsFiniteSet(S)
  /\ \A S : C!IsFiniteSet(S) <=> IsFiniteSet(S)
  /\ \A S : F!IsFiniteSet(S) <=> IsFiniteSet(S)
  BY DEF IsFiniteSet, G!IsFiniteSet, C!IsFiniteSet, F!IsFiniteSet

(* ... and of the same cardinality. *)
LEMMA SameCardinality ==
  /\ \A S : G!Cardinality(S) = Cardinality(S)
  /\ \A S : C!Cardinality(S) = Cardinality(S)
  /\ \A S : F!Cardinality(S) = Cardinality(S)
  BY DEF Cardinality, G!Cardinality, C!Cardinality, F!Cardinality

-----------------------------------------------------------------------------
(* WaitGroup *)

(* The counters and the futex at every stage of the joiner: left_ counts the threads that
   have not exited, done_ is set by the last one, and the joiner parks only before that. *)
Stages ==
  /\ gWaiters["left"] = {} /\ gWaiters["done"] \subseteq {Joiner}
  /\ gWaiters["done"] # {} => stage = "waiting" /\ group # {}
  /\ stage \in {"new", "stored"} => group = {} /\ gValue["done"] = 0
  /\ stage = "stored" => gValue["left"] = Cardinality(added) /\ added # {}
  /\ stage = "waiting" =>
       /\ gValue["left"] = Cardinality(group)
       /\ gValue["done"] = IF group = {} THEN 1 ELSE 0
  /\ stage = "returned" => group = {}

(* What a thread of the group has done travels from its fetch_sub to the last one's store,
   and from there to the joiner. *)
ExitsAreKnown ==
  /\ stage \in {"waiting", "returned"} =>
       \A u \in added \ group : u \in gCurrent[u] => u \in gStored["left"]
  /\ gValue["done"] = 1 => \A u \in added : u \in gCurrent[u] => u \in gStored["done"]
  /\ stage = "returned" => \A u \in added : u \in gCurrent[u] => u \in gCurrent[Joiner]

GroupInv == G!TypeOK /\ Stages /\ ExitsAreKnown

(* The initial states satisfy the invariant. *)
LEMMA GroupInit == G!Init => GroupInv
  BY WaitGroupAssumption DEF G!WaitGroupConstants, G!Init, G!SyncInit, GroupInv, G!TypeOK, G!SyncTypeOK,
     Stages, ExitsAreKnown

(* The routines added are finitely many, and so are the threads that run. *)
LEMMA GroupFinite ==
  ASSUME G!TypeOK
  PROVE  /\ IsFiniteSet(added) /\ Cardinality(added) \in Nat
         /\ IsFiniteSet(group) /\ Cardinality(group) \in Nat
<1>1. added \subseteq GroupThread /\ group \subseteq GroupThread
  BY DEF G!TypeOK
<1>2. IsFiniteSet(GroupThread)
  BY WaitGroupAssumption, SameFinite DEF G!WaitGroupConstants
<1>3. IsFiniteSet(added) /\ IsFiniteSet(group)
  BY <1>1, <1>2, FS_Subset
<1>4. QED
  BY <1>3, FS_CardinalityType

(* Add *)
LEMMA AddKeeps == ASSUME GroupInv, NEW u \in GroupThread, G!Add(u) PROVE GroupInv'
  BY DEF GroupInv, G!Add, G!TypeOK, G!SyncTypeOK, Stages, ExitsAreKnown, G!syncVars

(* Join: an empty group returns, otherwise left_ becomes the number of routines. *)
LEMMA JoinKeeps == ASSUME GroupInv, G!Join PROVE GroupInv'
<1> USE WaitGroupAssumption DEF G!WaitGroupConstants, GroupInv, G!Join
<1>1. CASE added = {}
  BY <1>1 DEF G!TypeOK, G!SyncTypeOK, Stages, ExitsAreKnown, G!syncVars
<1>2. CASE added # {}
  <2> USE <1>2 DEF G!Store, G!Clocks
  <2>1. Cardinality(added) \in Nat
    BY GroupFinite
  <2>2. PICK n \in Nat : n = Cardinality(added) /\ gValue' = [gValue EXCEPT !["left"] = n]
    BY <2>1, SameCardinality
  <2>3. G!TypeOK'
    BY <2>2 DEF G!TypeOK, G!SyncTypeOK
  <2>4. Stages'
    BY <2>2 DEF G!TypeOK, G!SyncTypeOK, Stages
  <2>5. ExitsAreKnown'
    BY DEF G!TypeOK, G!SyncTypeOK, Stages, ExitsAreKnown
  <2>6. QED
    BY <2>3, <2>4, <2>5
<1>3. QED
  BY <1>1, <1>2

(* The threads are spawned; done_ is 0, so the joiner parks. *)
LEMMA SpawnAllKeeps == ASSUME GroupInv, G!SpawnAll PROVE GroupInv'
<1> USE WaitGroupAssumption DEF G!WaitGroupConstants, GroupInv, G!SpawnAll, G!FutexWait
<1>1. G!TypeOK'
  BY DEF G!TypeOK, G!SyncTypeOK
<1>2. Stages'
  BY DEF G!TypeOK, G!SyncTypeOK, Stages
<1>3. ExitsAreKnown'
  BY DEF G!TypeOK, G!SyncTypeOK, Stages, ExitsAreKnown
<1>4. QED
  BY <1>1, <1>2, <1>3

(* A thread of the group is at work. *)
LEMMA RunUserKeeps == ASSUME GroupInv, NEW u \in GroupThread, G!RunUser(u) PROVE GroupInv'
<1> USE WaitGroupAssumption DEF G!WaitGroupConstants, GroupInv, G!RunUser, G!groupVars
<1>1. G!TypeOK'
  BY DEF G!TypeOK, G!SyncTypeOK
<1>2. Stages'
  BY DEF Stages
<1>3. ExitsAreKnown'
  BY DEF G!TypeOK, G!SyncTypeOK, Stages, ExitsAreKnown
<1>4. QED
  BY <1>1, <1>2, <1>3

(* A thread that is not the last one exits: another is left, and left_ stays positive. *)
LEMMA LeaveGroupKeeps == ASSUME GroupInv, NEW u \in GroupThread, G!LeaveGroup(u) PROVE GroupInv'
<1> USE WaitGroupAssumption
        DEF G!WaitGroupConstants, GroupInv, G!LeaveGroup, G!Rmw, G!Clocks, G!FetchSubOrder, G!IsLast
<1>1. stage = "waiting" /\ gValue["left"] = Cardinality(group)
  BY DEF G!TypeOK, Stages
<1>2. IsFiniteSet(group) /\ Cardinality(group \ {u}) = Cardinality(group) - 1
  BY GroupFinite, FS_RemoveElement
<1>3. Cardinality(group \ {u}) \in Nat /\ group \ {u} # {}
  <2>1. IsFiniteSet(group \ {u}) /\ Cardinality(group \ {u}) \in Nat
    BY <1>2, FS_RemoveElement, FS_CardinalityType
  <2>2. Cardinality(group \ {u}) # 0
    BY <1>1, <1>2, GroupFinite
  <2>3. QED
    BY <2>1, <2>2, FS_EmptySet
<1>4. G!TypeOK'
  BY <1>1, <1>2, <1>3 DEF G!TypeOK, G!SyncTypeOK
<1>5. Stages'
  BY <1>1, <1>2, <1>3 DEF G!TypeOK, G!SyncTypeOK, Stages
<1>6. ExitsAreKnown'
  BY <1>1 DEF G!TypeOK, G!SyncTypeOK, Stages, ExitsAreKnown
<1>7. QED
  BY <1>4, <1>5, <1>6

(* The last thread sets done_ and wakes the joiner, with all that the others passed on. *)
LEMMA CompleteKeeps == ASSUME GroupInv, NEW u \in GroupThread, G!Complete(u) PROVE GroupInv'
<1> USE WaitGroupAssumption DEF G!WaitGroupConstants, GroupInv, G!Complete, G!FetchSubOrder, G!IsLast
<1>1. stage = "waiting" /\ gValue["left"] = Cardinality(group) /\ gValue["done"] = 0
  BY DEF G!TypeOK, Stages
<1>2. group \ {u} = {}
  <2>1. IsFiniteSet(group \ {u}) /\ Cardinality(group \ {u}) = Cardinality(group) - 1
    BY GroupFinite, FS_RemoveElement
  <2>2. Cardinality(group \ {u}) = 0
    BY <1>1, <2>1
  <2>3. QED
    BY <2>1, <2>2, FS_EmptySet
<1>3. PICK c : c = gCurrent[u] \cup gAcquire[u] \cup gStored["left"]
  OBVIOUS
<1>4. PICK S \in G!CompletionWakes :
        /\ gValue' = [gValue EXCEPT !["left"] = @ - 1, !["done"] = 1]
        /\ gStored' = [gStored EXCEPT !["left"] = @ \cup c, !["done"] = c]
        /\ gAcquire' = [gAcquire EXCEPT ![u] = @ \cup gStored["left"]]
        /\ gRelease' = [gRelease EXCEPT ![u] = c]
        /\ gCurrent' = G!Clocks(u, c, c, S)
        /\ gWaiters' = G!Woken("done", S)
  BY <1>3
<1>5. S = gWaiters["done"]
  <2>1. gWaiters["done"] = {} \/ gWaiters["done"] = {Joiner}
    BY DEF Stages
  <2>2. QED
    BY <2>1 DEF G!CompletionWakes, G!WakeOne
<1>6. c \subseteq Nat
  BY <1>3 DEF G!TypeOK, G!SyncTypeOK
<1>7. G!TypeOK'
  BY <1>1, <1>4, <1>6 DEF G!TypeOK, G!SyncTypeOK, G!Woken, G!Clocks
<1>8. Stages'
  <2>1. gWaiters'["left"] = {} /\ gWaiters'["done"] = {}
    BY <1>4, <1>5 DEF G!TypeOK, G!SyncTypeOK, Stages, G!Woken
  <2>2. group' = {} /\ gValue'["left"] = 0 /\ gValue'["done"] = 1
    BY <1>1, <1>2, <1>4 DEF G!TypeOK, G!SyncTypeOK
  <2>3. Cardinality({}) = 0
    BY FS_EmptySet
  <2>4. QED
    BY <1>1, <2>1, <2>2, <2>3 DEF Stages
<1>9. ExitsAreKnown'
  <2>1. ASSUME NEW v \in added, v \in gCurrent'[v] PROVE v \in c
    <3>1. v \in GroupThread /\ v # Joiner
      BY DEF G!TypeOK
    <3>2. CASE v = u
      BY <1>4, <2>1, <3>1, <3>2 DEF G!Clocks
    <3>3. CASE v # u
      <4>1. v \in gCurrent[v] /\ v \notin group
        BY <1>2, <1>4, <1>5, <2>1, <3>1, <3>3 DEF G!Clocks, Stages
      <4>2. QED
        BY <1>1, <1>3, <4>1 DEF ExitsAreKnown
    <3>4. QED
      BY <3>2, <3>3
  <2>2. gStored'["done"] = c /\ c \subseteq gStored'["left"]
    BY <1>4 DEF G!TypeOK, G!SyncTypeOK
  <2>3. QED
    BY <1>1, <2>1, <2>2 DEF ExitsAreKnown
<1>10. QED
  BY <1>7, <1>8, <1>9

(* The joiner loads done_, and parks again or returns. *)
LEMMA CheckDoneKeeps == ASSUME GroupInv, G!CheckDone PROVE GroupInv'
<1> USE WaitGroupAssumption
        DEF G!WaitGroupConstants, GroupInv, G!CheckDone, G!FutexWait, G!Load, G!IsParked
<1>1. G!TypeOK'
  BY DEF G!TypeOK, G!SyncTypeOK
<1>2. Stages'
  BY DEF G!TypeOK, G!SyncTypeOK, Stages
<1>3. ExitsAreKnown'
  BY DEF G!TypeOK, G!SyncTypeOK, Stages, ExitsAreKnown
<1>4. QED
  BY <1>1, <1>2, <1>3

(* A stuttering step keeps the invariant. *)
LEMMA GroupStutterKeeps == ASSUME GroupInv, UNCHANGED G!vars PROVE GroupInv'
  BY DEF G!vars, G!groupVars, G!syncVars, GroupInv, G!TypeOK, G!SyncTypeOK, Stages, ExitsAreKnown

(* The strengthened invariant holds in every state of the group. *)
THEOREM GroupInvariant == G!Spec => []GroupInv
<1>1. GroupInv /\ [G!Next]_(G!vars) => GroupInv'
  BY AddKeeps, JoinKeeps, SpawnAllKeeps, RunUserKeeps, LeaveGroupKeeps, CompleteKeeps, CheckDoneKeeps,
     GroupStutterKeeps
     DEF G!Next, G!JoinerStep, G!Exit
<1>2. QED
  BY GroupInit, <1>1, PTL DEF G!Spec

(* wait_group.cpp: when Join() returns no thread of the group uses it any more, and what each
   of them did happens before the return. *)
THEOREM GroupJoinIsExact == G!Spec => []GroupIsJoined
<1>1. GroupInv => GroupIsJoined
  BY DEF GroupInv, Stages, ExitsAreKnown, GroupIsJoined, G!GroupIsJoined
<1>2. QED
  BY GroupInvariant, <1>1, PTL

-----------------------------------------------------------------------------
(* condition_variable *)

(* Who holds the mutex of the program *)
CvHolding ==
  \A t \in CvThread :
    cPc[t] \in {"load", "unlock_wait", "unlock", "put_unlock", "notify_held"} <=> holder = t

(* A parked thread is in a wait. *)
CvParked == \A t \in cWaiters["count"] : cPc[t] = "wait"

(* Between the predicate and the FutexWait the mutex is held, and no item appears. *)
CvNothing == \A t \in CvThread : cPc[t] \in {"load", "unlock_wait"} => items = 0

CondVarInv ==
  /\ C!TypeOK
  /\ CvHolding
  /\ CvParked
  /\ CvNothing
  /\ C!NoLostNotify

(* The sets that NoLostNotify counts are finite. *)
LEMMA CvFinite ==
  /\ IsFiniteSet(C!Awake) /\ Cardinality(C!Awake) \in Nat
  /\ IsFiniteSet(C!Notifying) /\ Cardinality(C!Notifying) \in Nat
<1>1. C!Awake \subseteq CvThread /\ C!Notifying \subseteq CvThread
  BY DEF C!Awake, C!Notifying
<1>2. IsFiniteSet(CvThread)
  BY CondVarAssumption, SameFinite DEF C!CondVarConstants
<1>3. IsFiniteSet(C!Awake) /\ IsFiniteSet(C!Notifying)
  BY <1>1, <1>2, FS_Subset
<1>4. QED
  BY <1>3, FS_CardinalityType

(* ... in the next state as well. *)
LEMMA CvFiniteNext ==
  /\ IsFiniteSet(C!Awake') /\ Cardinality(C!Awake') \in Nat
  /\ IsFiniteSet(C!Notifying') /\ Cardinality(C!Notifying') \in Nat
<1>1. C!Awake' \subseteq CvThread /\ C!Notifying' \subseteq CvThread
  BY DEF C!Awake, C!Notifying
<1>2. IsFiniteSet(CvThread)
  BY CondVarAssumption, SameFinite DEF C!CondVarConstants
<1>3. IsFiniteSet(C!Awake') /\ IsFiniteSet(C!Notifying')
  BY <1>1, <1>2, FS_Subset
<1>4. QED
  BY <1>3, FS_CardinalityType

(* NoLostNotify holds while there is no item, *)
LEMMA NoItemNoNotify == items' = 0 => C!NoLostNotify'
  BY CvFiniteNext, SameCardinality DEF C!NoLostNotify

(* ... and after a step that takes nobody from the two sets, adds no item and lets nobody
   park. *)
LEMMA NotifyKept ==
  ASSUME C!TypeOK, C!NoLostNotify, items' = items,
         C!Awake \subseteq C!Awake', C!Notifying \subseteq C!Notifying',
         cWaiters'["count"] # {} => cWaiters["count"] # {}
  PROVE  C!NoLostNotify'
<1>1. Cardinality(C!Awake) <= Cardinality(C!Awake')
  BY CvFiniteNext, FS_Subset
<1>2. Cardinality(C!Notifying) <= Cardinality(C!Notifying')
  BY CvFiniteNext, FS_Subset
<1>3. QED
  BY <1>1, <1>2, CvFinite, CvFiniteNext, SameCardinality DEF C!NoLostNotify, C!TypeOK

(* The initial states satisfy the invariant. *)
LEMMA CondVarInit == C!Init => CondVarInv
<1> USE CondVarAssumption DEF C!CondVarConstants, C!Init, C!SyncInit
<1>1. C!Init => C!TypeOK
  BY DEF C!TypeOK, C!SyncTypeOK, C!PC
<1>2. C!Init => CvHolding /\ CvParked /\ CvNothing /\ C!NoLostNotify
  BY DEF CvHolding, CvParked, CvNothing, C!NoLostNotify
<1>3. QED
  BY <1>1, <1>2 DEF CondVarInv

(* Steps that do not touch the items, the mutex or the futex *)
LEMMA CvQuietKeeps ==
  ASSUME CondVarInv, NEW t \in CvThread,
         \/ C!Produce(t) \/ (\E d \in {"none", "armed"} : C!Consume(t, d))
         \/ C!DeadlinePasses(t) \/ C!PutNothing(t)
  PROVE  CondVarInv'
<1> USE CondVarAssumption
        DEF C!CondVarConstants, CondVarInv, C!Produce, C!Consume, C!DeadlinePasses, C!PutNothing, C!Goto,
            C!syncVars
<1>1. C!TypeOK'
  BY DEF C!TypeOK, C!SyncTypeOK, C!PC
<1>2. CvHolding' /\ CvParked' /\ CvNothing'
  BY DEF C!TypeOK, C!SyncTypeOK, CvHolding, CvParked, CvNothing
<1>3. C!Awake \subseteq C!Awake' /\ C!Notifying \subseteq C!Notifying'
  BY DEF C!TypeOK, C!Awake, C!Notifying, C!IsParked
<1>4. C!NoLostNotify'
  BY <1>3, NotifyKept
<1>5. QED
  BY <1>1, <1>2, <1>4

(* The mutex is taken: an item leaves together with the consumer that looked for it. *)
LEMMA CvAcquireKeeps == ASSUME CondVarInv, NEW t \in CvThread, C!Acquire(t) PROVE CondVarInv'
<1> USE CondVarAssumption DEF C!CondVarConstants, CondVarInv, C!Acquire, C!Goto, C!syncVars
<1>1. C!TypeOK'
  BY DEF C!TypeOK, C!SyncTypeOK, C!PC
<1>2. CvHolding'
  BY DEF C!TypeOK, CvHolding
<1>3. CvParked' /\ CvNothing'
  BY DEF C!TypeOK, C!SyncTypeOK, CvHolding, CvParked, CvNothing, C!IsParked
<1>4. C!NoLostNotify'
  <2>1. CASE items = 0
    BY <2>1, NoItemNoNotify DEF C!TypeOK
  <2>2. CASE items > 0
    <3>1. items' = items - 1 /\ cWaiters' = cWaiters
      BY <2>2 DEF C!TypeOK
    <3>2. t \in C!Awake /\ C!Awake' = C!Awake \ {t} /\ C!Notifying' = C!Notifying
      BY <2>2 DEF C!TypeOK, C!Awake, C!Notifying, C!IsParked
    <3>3. Cardinality(C!Awake') = Cardinality(C!Awake) - 1
      BY <3>2, CvFinite, FS_RemoveElement
    <3>4. QED
      BY <3>1, <3>2, <3>3, CvFinite, SameCardinality DEF C!NoLostNotify, C!TypeOK
  <2>3. QED
    BY <2>1, <2>2 DEF C!TypeOK
<1>5. QED
  BY <1>1, <1>2, <1>3, <1>4

(* The wait, up to the place where it parks or returns: there is no item. *)
LEMMA CvWaitKeeps ==
  ASSUME CondVarInv, NEW t \in CvThread, C!WaitLoad(t) \/ C!WaitParks(t) \/ C!WaitReturns(t)
  PROVE  CondVarInv'
<1> USE CondVarAssumption
        DEF C!CondVarConstants, CondVarInv, C!WaitLoad, C!WaitParks, C!WaitReturns, C!Load, C!Goto,
            C!syncVars
<1>1. C!TypeOK'
  BY DEF C!TypeOK, C!SyncTypeOK, C!PC
<1>2. CvHolding'
  BY DEF C!TypeOK, CvHolding
<1>3. CvParked' /\ CvNothing'
  BY DEF C!TypeOK, C!SyncTypeOK, CvParked, CvNothing
<1>4. C!NoLostNotify'
  BY NoItemNoNotify DEF CvNothing
<1>5. QED
  BY <1>1, <1>2, <1>3, <1>4

(* The alarm of a timed wait wakes its thread; the mutex is released. *)
LEMMA CvLeaveKeeps ==
  ASSUME CondVarInv, NEW t \in CvThread, C!Alarm(t) \/ C!Release(t) \/ C!PutUnlock(t)
  PROVE  CondVarInv'
<1> USE CondVarAssumption
        DEF C!CondVarConstants, CondVarInv, C!Alarm, C!AlarmDue, C!Woken, C!Release, C!PutUnlock, C!Goto,
            C!syncVars
<1>1. C!TypeOK'
  BY DEF C!TypeOK, C!SyncTypeOK, C!PC
<1>2. CvHolding'
  BY DEF C!TypeOK, CvHolding
<1>3. CvParked' /\ CvNothing'
  BY DEF C!TypeOK, C!SyncTypeOK, CvParked, CvNothing
<1>4. C!Awake \subseteq C!Awake' /\ C!Notifying \subseteq C!Notifying'
  BY DEF C!TypeOK, C!SyncTypeOK, C!Awake, C!Notifying, C!IsParked
<1>5. C!NoLostNotify'
  BY <1>4, NotifyKept DEF C!TypeOK, C!SyncTypeOK
<1>6. QED
  BY <1>1, <1>2, <1>3, <1>5

(* An item comes with a notification. *)
LEMMA CvPutKeeps == ASSUME CondVarInv, NEW t \in CvThread, C!Put(t) PROVE CondVarInv'
<1> USE CondVarAssumption DEF C!CondVarConstants, CondVarInv, C!Put, C!Goto, C!syncVars
<1>1. C!TypeOK'
  BY DEF C!TypeOK, C!SyncTypeOK, C!PC
<1>2. CvHolding'
  BY DEF C!TypeOK, CvHolding
<1>3. CvParked' /\ CvNothing'
  BY DEF C!TypeOK, C!SyncTypeOK, CvHolding, CvParked, CvNothing
<1>4. C!Awake' = C!Awake /\ C!Notifying' = C!Notifying \cup {t} /\ t \notin C!Notifying
  BY DEF C!TypeOK, C!Awake, C!Notifying, C!IsParked
<1>5. Cardinality(C!Notifying') = Cardinality(C!Notifying) + 1
  BY <1>4, CvFinite, FS_AddElement
<1>6. C!NoLostNotify'
  BY <1>4, <1>5, CvFinite, SameCardinality DEF C!NoLostNotify, C!TypeOK
<1>7. QED
  BY <1>1, <1>2, <1>3, <1>6

(* A notification is spent on a parked thread, or nobody is left parked. *)
LEMMA CvNotifyKeeps ==
  ASSUME CondVarInv, NEW t \in CvThread, NEW all \in BOOLEAN, C!Notify(t, all)
  PROVE  CondVarInv'
<1> USE CondVarAssumption DEF C!CondVarConstants, CondVarInv, C!Notify, C!Goto
<1>1. PICK S \in C!NotifyWakes(all) : /\ C!Rmw(t, "count", C!Bumped, FALSE, FALSE, S)
                                      /\ cWaiters' = C!Woken("count", S)
  OBVIOUS
<1>2. S \subseteq cWaiters["count"]
  BY DEF C!NotifyWakes, C!WakeOne
<1>3. C!Bumped \in Nat /\ C!Bumped < Width
  BY DEF C!Bumped, C!TypeOK, C!SyncTypeOK
<1>4. PICK b \in Nat : b < Width /\ cValue' = [cValue EXCEPT !["count"] = b]
  BY <1>1, <1>3 DEF C!Rmw
<1>5. C!TypeOK'
  BY <1>1, <1>4 DEF C!TypeOK, C!SyncTypeOK, C!PC, C!Rmw, C!Clocks, C!Woken
<1>6. CvHolding'
  BY DEF C!TypeOK, CvHolding
<1>7. CvParked' /\ CvNothing'
  BY <1>1 DEF C!TypeOK, C!SyncTypeOK, CvParked, CvNothing, C!Woken
<1>8. C!NoLostNotify'
  <2> SUFFICES ASSUME cWaiters'["count"] # {}
               PROVE  items' <= Cardinality(C!Awake') + Cardinality(C!Notifying')
    BY SameCardinality DEF C!NoLostNotify
  <2>1. cWaiters'["count"] = cWaiters["count"] \ S
    BY <1>1 DEF C!TypeOK, C!SyncTypeOK, C!Woken
  <2>2. PICK u \in cWaiters["count"] : S = {u}
    BY <2>1 DEF C!NotifyWakes, C!WakeOne
  <2>3. u \in CvThread /\ cPc[u] = "wait" /\ u # t
    BY DEF C!TypeOK, C!SyncTypeOK, CvParked
  <2>4. C!Awake' = C!Awake \cup {u} /\ u \notin C!Awake
    BY <2>1, <2>2, <2>3 DEF C!TypeOK, C!Awake, C!IsParked
  <2>5. C!Notifying' = C!Notifying \ {t} /\ t \in C!Notifying
    BY DEF C!TypeOK, C!Notifying
  <2>6. Cardinality(C!Awake') = Cardinality(C!Awake) + 1
    BY <2>4, CvFinite, FS_AddElement
  <2>7. Cardinality(C!Notifying') = Cardinality(C!Notifying) - 1
    BY <2>5, CvFinite, FS_RemoveElement
  <2>8. items <= Cardinality(C!Awake) + Cardinality(C!Notifying)
    BY <2>2, SameCardinality DEF C!NoLostNotify
  <2>9. QED
    BY <2>6, <2>7, <2>8, CvFinite DEF C!TypeOK
<1>9. QED
  BY <1>5, <1>6, <1>7, <1>8

(* A stuttering step keeps the invariant. *)
LEMMA CvStutterKeeps == ASSUME CondVarInv, UNCHANGED C!vars PROVE CondVarInv'
<1> USE DEF C!vars, C!syncVars, CondVarInv
<1>1. C!TypeOK' /\ CvHolding' /\ CvParked' /\ CvNothing'
  BY DEF C!TypeOK, C!SyncTypeOK, CvHolding, CvParked, CvNothing
<1>2. C!Awake' = C!Awake /\ C!Notifying' = C!Notifying
  BY DEF C!Awake, C!Notifying, C!IsParked
<1>3. C!NoLostNotify'
  BY <1>2 DEF C!NoLostNotify
<1>4. QED
  BY <1>1, <1>3

(* The strengthened invariant holds in every state of the condition variable. *)
THEOREM CondVarInvariant == C!Spec => []CondVarInv
<1>1. CondVarInv /\ [C!Next]_(C!vars) => CondVarInv'
  BY CvQuietKeeps, CvAcquireKeeps, CvWaitKeeps, CvLeaveKeeps, CvPutKeeps, CvNotifyKeeps, CvStutterKeeps
     DEF C!Next, C!Call, C!Step, C!Finished
<1>2. QED
  BY CondVarInit, <1>1, PTL DEF C!Spec

-----------------------------------------------------------------------------
(* The condition variable of the thread runtime *)

(* Who holds the mutex of the program: a notifier may or may not. *)
RtHolding ==
  \A t \in RtThread :
    /\ fPc[t] \in {"check", "enqueue", "release", "give", "unlock"} => fHolder = t
    /\ fHolder = t =>
         fPc[t] \in {"check", "enqueue", "release", "give", "unlock", "notify", "fire", "wake"}

(* Who holds waiters_mutex_ *)
RtGuarding == \A t \in RtThread : fPc[t] \in {"release", "link", "fire", "wake"} <=> guard = t

(* A linked node is one of a wait in progress, and so is a node a notifier has unlinked and
   not fired yet; the notifier still has waiters_mutex_. *)
RtLinked ==
  /\ \A w \in fQueue : fPc[w] \in {"wait", "unlink"} /\ node[w] = "unset"
  /\ \A t \in RtThread : \A w \in batch[t] :
       /\ fPc[t] \in {"fire", "wake"}
       /\ fPc[w] \in {"wait", "unlink"} /\ node[w] = "unset" /\ w \notin fQueue

(* A sleeping thread waits; if its event has been fired, its wake-up is under way. *)
RtAsleep ==
  \A w \in asleep :
    /\ fPc[w] = "wait"
    /\ node[w] = "fired" => \E t \in RtThread : fPc[t] = "wake" /\ key[t] = w

(* Between the predicate and the release of the mutex no item appears. *)
RtNothing == \A t \in RtThread : fPc[t] \in {"enqueue", "release"} => fItems = 0

(* The consumers that look at the items again whatever a notifier does.  A thread whose time
   is up, and which is still linked, is not one of them: the notification it may take with it
   is what makes it look. *)
Looking == {t \in RtThread : \/ fPc[t] \in {"lock", "check", "relock", "give"}
                             \/ fPc[t] \in {"wait", "unlink"} /\ t \notin fQueue}

(* A consumer is linked, or about to be. *)
SomeoneWaits == fQueue # {} \/ \E t \in RtThread : fPc[t] = "link"

RtCovered == SomeoneWaits => fItems <= Cardinality(Looking) + Cardinality(F!Notifying)

FaultyInv ==
  /\ F!TypeOK
  /\ RtHolding
  /\ RtGuarding
  /\ RtLinked
  /\ RtAsleep
  /\ RtNothing
  /\ RtCovered

(* The sets that RtCovered counts are finite, *)
LEMMA RtFinite ==
  /\ IsFiniteSet(Looking) /\ Cardinality(Looking) \in Nat
  /\ IsFiniteSet(F!Notifying) /\ Cardinality(F!Notifying) \in Nat
<1>1. Looking \subseteq RtThread /\ F!Notifying \subseteq RtThread
  BY DEF Looking, F!Notifying
<1>2. IsFiniteSet(RtThread)
  BY FaultyCondVarAssumption, SameFinite DEF F!FaultyCondVarConstants
<1>3. IsFiniteSet(Looking) /\ IsFiniteSet(F!Notifying)
  BY <1>1, <1>2, FS_Subset
<1>4. QED
  BY <1>3, FS_CardinalityType

(* ... in the next state as well. *)
LEMMA RtFiniteNext ==
  /\ IsFiniteSet(Looking') /\ Cardinality(Looking') \in Nat
  /\ IsFiniteSet(F!Notifying') /\ Cardinality(F!Notifying') \in Nat
<1>1. Looking' \subseteq RtThread /\ F!Notifying' \subseteq RtThread
  BY DEF Looking, F!Notifying
<1>2. IsFiniteSet(RtThread)
  BY FaultyCondVarAssumption, SameFinite DEF F!FaultyCondVarConstants
<1>3. IsFiniteSet(Looking') /\ IsFiniteSet(F!Notifying')
  BY <1>1, <1>2, FS_Subset
<1>4. QED
  BY <1>3, FS_CardinalityType

(* The items are covered while there are none, *)
LEMMA NoItemCovered == fItems' = 0 => RtCovered'
  BY RtFiniteNext DEF RtCovered

(* ... and after a step that takes nobody from the two sets, adds no item and makes nobody
   wait. *)
LEMMA CoverKept ==
  ASSUME F!TypeOK, RtCovered, fItems' = fItems,
         Looking \subseteq Looking', F!Notifying \subseteq F!Notifying',
         SomeoneWaits' => SomeoneWaits
  PROVE  RtCovered'
<1>1. Cardinality(Looking) <= Cardinality(Looking')
  BY RtFiniteNext, FS_Subset
<1>2. Cardinality(F!Notifying) <= Cardinality(F!Notifying')
  BY RtFiniteNext, FS_Subset
<1>3. QED
  BY <1>1, <1>2, RtFinite, RtFiniteNext DEF RtCovered, F!TypeOK

(* The initial states satisfy the invariant. *)
LEMMA FaultyInit == F!Init => FaultyInv
<1> USE FaultyCondVarAssumption DEF F!FaultyCondVarConstants, F!Init
<1>1. F!Init => F!TypeOK
  BY DEF F!TypeOK, F!PC
<1>2. F!Init => RtHolding /\ RtGuarding /\ RtLinked /\ RtAsleep /\ RtNothing
  BY DEF RtHolding, RtGuarding, RtLinked, RtAsleep, RtNothing
<1>3. F!Init => RtCovered
  BY DEF RtCovered, SomeoneWaits
<1>4. QED
  BY <1>1, <1>2, <1>3 DEF FaultyInv

(* A call, a deadline that passes, and a step of the futex call of an event *)
LEMMA RtQuietKeeps ==
  ASSUME FaultyInv, NEW t \in RtThread,
         \/ \E d \in {"none", "zero", "armed"} : F!Consume(t, d)
         \/ F!DeadlinePasses(t) \/ F!Sleep(t) \/ F!SleepReturns(t)
  PROVE  FaultyInv'
<1> USE FaultyCondVarAssumption
        DEF F!FaultyCondVarConstants, FaultyInv, F!Consume, F!DeadlinePasses, F!Sleep, F!SleepReturns,
            F!Goto, F!waitVars, F!notifyVars
<1>1. F!TypeOK'
  <2>1. woken' \in [RtThread -> BOOLEAN]
    <3>1. woken \in [RtThread -> BOOLEAN]
      BY DEF F!TypeOK
    <3>2. PICK b \in BOOLEAN : woken' = [woken EXCEPT ![t] = b] \/ woken' = woken
      OBVIOUS
    <3>3. QED
      BY <3>1, <3>2
  <2>2. QED
    BY <2>1 DEF F!TypeOK, F!PC
<1>2. RtHolding' /\ RtGuarding' /\ RtNothing'
  BY DEF F!TypeOK, RtHolding, RtGuarding, RtNothing
<1>3. RtLinked'
  BY DEF F!TypeOK, RtLinked
<1>4. RtAsleep'
  BY DEF F!TypeOK, RtAsleep
<1>5. /\ Looking \subseteq Looking' /\ F!Notifying \subseteq F!Notifying'
      /\ SomeoneWaits' => SomeoneWaits
  BY DEF F!TypeOK, Looking, F!Notifying, SomeoneWaits
<1>6. RtCovered'
  BY <1>5, CoverKept
<1>7. QED
  BY <1>1, <1>2, <1>3, <1>4, <1>6

(* The mutex of the program is taken or given back. *)
LEMMA RtMutexKeeps ==
  ASSUME FaultyInv, NEW t \in RtThread,
         F!Lock(t) \/ F!Relock(t) \/ F!GiveAway(t) \/ F!Unlock(t)
  PROVE  FaultyInv'
<1> USE FaultyCondVarAssumption
        DEF F!FaultyCondVarConstants, FaultyInv, F!Lock, F!Relock, F!GiveAway, F!Unlock,
            F!Goto, F!waitVars, F!notifyVars
<1>1. F!TypeOK'
  BY DEF F!TypeOK, F!PC
<1>2. RtHolding'
  BY DEF F!TypeOK, RtHolding
<1>3. RtGuarding' /\ RtNothing'
  BY DEF F!TypeOK, RtGuarding, RtNothing
<1>4. RtLinked'
  BY DEF F!TypeOK, RtLinked
<1>5. RtAsleep'
  BY DEF F!TypeOK, RtAsleep
<1>6. /\ Looking \subseteq Looking' /\ F!Notifying \subseteq F!Notifying'
      /\ SomeoneWaits' => SomeoneWaits
  BY DEF F!TypeOK, Looking, F!Notifying, SomeoneWaits
<1>7. RtCovered'
  BY <1>6, CoverKept
<1>8. QED
  BY <1>1, <1>2, <1>3, <1>4, <1>5, <1>7

(* The predicate: an item leaves together with the consumer that looked for it. *)
LEMMA RtCheckKeeps == ASSUME FaultyInv, NEW t \in RtThread, F!Check(t) PROVE FaultyInv'
<1> USE FaultyCondVarAssumption
        DEF F!FaultyCondVarConstants, FaultyInv, F!Check, F!Goto, F!waitVars, F!notifyVars
<1>1. F!TypeOK'
  BY DEF F!TypeOK, F!PC
<1>2. RtHolding'
  BY DEF F!TypeOK, RtHolding
<1>3. RtGuarding' /\ RtNothing'
  BY DEF F!TypeOK, RtHolding, RtGuarding, RtNothing
<1>4. RtLinked' /\ RtAsleep'
  BY DEF F!TypeOK, RtLinked, RtAsleep
<1>5. RtCovered'
  <2>1. CASE fItems = 0
    BY <2>1, NoItemCovered
  <2>2. CASE fItems > 0
    <3>1. fItems' = fItems - 1 /\ (SomeoneWaits' => SomeoneWaits)
      BY <2>2 DEF F!TypeOK, SomeoneWaits
    <3>2. t \in Looking /\ Looking' = Looking \ {t} /\ F!Notifying' = F!Notifying
      BY <2>2 DEF F!TypeOK, Looking, F!Notifying
    <3>3. Cardinality(Looking') = Cardinality(Looking) - 1
      BY <3>2, RtFinite, FS_RemoveElement
    <3>4. QED
      BY <3>1, <3>2, <3>3, RtFinite DEF RtCovered, F!TypeOK
  <2>3. QED
    BY <2>1, <2>2 DEF F!TypeOK
<1>6. QED
  BY <1>1, <1>2, <1>3, <1>4, <1>5

(* WaitImpl, up to the release of the mutex: waiters_mutex_ is taken while there is no item,
   so that no notifier passes before the node is linked. *)
LEMMA RtEnqueueKeeps ==
  ASSUME FaultyInv, NEW t \in RtThread, F!LockWaiters(t) \/ F!ReleaseMutex(t)
  PROVE  FaultyInv'
<1> USE FaultyCondVarAssumption
        DEF F!FaultyCondVarConstants, FaultyInv, F!LockWaiters, F!ReleaseMutex, F!Goto, F!waitVars,
            F!notifyVars
<1>1. F!TypeOK'
  BY DEF F!TypeOK, F!PC
<1>2. RtHolding'
  BY DEF F!TypeOK, RtHolding
<1>3. RtGuarding'
  BY DEF F!TypeOK, RtGuarding
<1>4. RtLinked' /\ RtAsleep' /\ RtNothing'
  BY DEF F!TypeOK, RtLinked, RtAsleep, RtNothing
<1>5. RtCovered'
  BY NoItemCovered DEF RtNothing
<1>6. QED
  BY <1>1, <1>2, <1>3, <1>4, <1>5

(* The node is linked. *)
LEMMA RtLinkKeeps == ASSUME FaultyInv, NEW t \in RtThread, F!Link(t) PROVE FaultyInv'
<1> USE FaultyCondVarAssumption
        DEF F!FaultyCondVarConstants, FaultyInv, F!Link, F!Goto, F!notifyVars
<1>1. F!TypeOK'
  BY DEF F!TypeOK, F!PC
<1>2. RtHolding' /\ RtNothing'
  BY DEF F!TypeOK, RtHolding, RtNothing
<1>3. RtGuarding'
  BY DEF F!TypeOK, RtGuarding
<1>4. RtLinked'
  BY DEF F!TypeOK, RtLinked, RtGuarding
<1>5. RtAsleep'
  BY DEF F!TypeOK, RtAsleep
<1>6. /\ Looking \subseteq Looking' /\ F!Notifying \subseteq F!Notifying'
      /\ SomeoneWaits' => SomeoneWaits
  BY DEF F!TypeOK, Looking, F!Notifying, SomeoneWaits
<1>7. RtCovered'
  BY <1>6, CoverKept
<1>8. QED
  BY <1>1, <1>2, <1>3, <1>4, <1>5, <1>7

(* The wait returns, and a timed one unlinks its node; that takes waiters_mutex_, so no
   notifier has the node in its hands. *)
LEMMA RtReturnKeeps ==
  ASSUME FaultyInv, NEW t \in RtThread, F!WaitReturns(t) \/ F!UnlinkSelf(t)
  PROVE  FaultyInv'
<1> USE FaultyCondVarAssumption
        DEF F!FaultyCondVarConstants, FaultyInv, F!WaitReturns, F!UnlinkSelf, F!UnlinkedSelf, F!Goto,
            F!waitVars, F!notifyVars
<1>1. F!TypeOK'
  <2>1. woken' \in [RtThread -> BOOLEAN]
    <3>1. woken \in [RtThread -> BOOLEAN]
      BY DEF F!TypeOK
    <3>2. PICK b \in BOOLEAN : woken' = [woken EXCEPT ![t] = b] \/ woken' = woken
      OBVIOUS
    <3>3. QED
      BY <3>1, <3>2
  <2>2. QED
    BY <2>1 DEF F!TypeOK, F!PC
<1>2. RtHolding' /\ RtNothing'
  BY DEF F!TypeOK, RtHolding, RtNothing
<1>3. RtGuarding'
  BY DEF F!TypeOK, RtGuarding
<1>4. RtLinked'
  BY DEF F!TypeOK, RtLinked, RtGuarding
<1>5. RtAsleep'
  BY DEF F!TypeOK, RtAsleep
<1>6. /\ Looking \subseteq Looking' /\ F!Notifying \subseteq F!Notifying'
      /\ SomeoneWaits' => SomeoneWaits
  BY DEF F!TypeOK, RtLinked, Looking, F!Notifying, SomeoneWaits
<1>7. RtCovered'
  BY <1>6, CoverKept
<1>8. QED
  BY <1>1, <1>2, <1>3, <1>4, <1>5, <1>7

(* An item comes with a notification. *)
LEMMA RtPutKeeps == ASSUME FaultyInv, NEW t \in RtThread, F!Put(t) PROVE FaultyInv'
<1> USE FaultyCondVarAssumption
        DEF F!FaultyCondVarConstants, FaultyInv, F!Put, F!Goto, F!waitVars, F!notifyVars
<1>1. F!TypeOK'
  BY DEF F!TypeOK, F!PC
<1>2. RtHolding' /\ RtNothing'
  BY DEF F!TypeOK, RtHolding, RtNothing
<1>3. RtGuarding'
  BY DEF F!TypeOK, RtGuarding
<1>4. RtLinked' /\ RtAsleep'
  BY DEF F!TypeOK, RtLinked, RtAsleep
<1>5. Looking' = Looking /\ F!Notifying' = F!Notifying \cup {t} /\ t \notin F!Notifying
  BY DEF F!TypeOK, Looking, F!Notifying
<1>6. Cardinality(F!Notifying') = Cardinality(F!Notifying) + 1
  BY <1>5, RtFinite, FS_AddElement
<1>7. SomeoneWaits' => SomeoneWaits
  BY DEF F!TypeOK, SomeoneWaits
<1>8. RtCovered'
  BY <1>5, <1>6, <1>7, RtFinite DEF RtCovered, F!TypeOK
<1>9. QED
  BY <1>1, <1>2, <1>3, <1>4, <1>8

(* A notification finds the list empty under waiters_mutex_: nobody is about to be linked. *)
LEMMA RtNotifyNobodyKeeps == ASSUME FaultyInv, NEW t \in RtThread, F!NotifyNobody(t) PROVE FaultyInv'
<1> USE FaultyCondVarAssumption
        DEF F!FaultyCondVarConstants, FaultyInv, F!NotifyNobody, F!Done, F!Goto, F!waitVars, F!notifyVars
<1>1. F!TypeOK'
  BY DEF F!TypeOK, F!PC
<1>2. RtHolding' /\ RtNothing'
  BY DEF F!TypeOK, RtHolding, RtNothing
<1>3. RtGuarding'
  BY DEF F!TypeOK, RtGuarding
<1>4. RtLinked' /\ RtAsleep'
  BY DEF F!TypeOK, RtLinked, RtAsleep
<1>5. ~SomeoneWaits'
  BY DEF F!TypeOK, SomeoneWaits, RtGuarding
<1>6. QED
  BY <1>1, <1>2, <1>3, <1>4, <1>5 DEF RtCovered

(* A notifier unlinks one node or all: the thread of a node it takes will look, or nobody is
   left waiting. *)
LEMMA RtNotifyKeeps ==
  ASSUME FaultyInv, NEW t \in RtThread, NEW S \in SUBSET fQueue, F!Notify(t, S)
  PROVE  FaultyInv'
<1> USE FaultyCondVarAssumption DEF F!FaultyCondVarConstants, FaultyInv, F!Notify, F!Goto
<1>1. F!TypeOK'
  BY DEF F!TypeOK, F!PC
<1>2. RtHolding' /\ RtNothing'
  BY DEF F!TypeOK, RtHolding, RtNothing
<1>3. RtGuarding'
  BY DEF F!TypeOK, RtGuarding
<1>4. \A u \in RtThread : batch[u] = {}
  BY DEF F!TypeOK, RtLinked, RtGuarding
<1>5. RtLinked'
  BY <1>4 DEF F!TypeOK, RtLinked
<1>6. RtAsleep'
  BY DEF F!TypeOK, RtAsleep
<1>7. RtCovered'
  <2>1. \A u \in RtThread : fPc[u] # "link"
    BY DEF F!TypeOK, RtGuarding
  <2>2. CASE S = fQueue
    BY <2>1, <2>2 DEF F!TypeOK, RtCovered, SomeoneWaits
  <2>3. CASE S # fQueue
    <3>1. PICK w \in fQueue : S = {w}
      BY <2>3
    <3>2. w \in RtThread /\ w # t /\ fPc[w] \in {"wait", "unlink"}
      BY DEF F!TypeOK, RtLinked
    <3>3. Looking' = Looking \cup {w} /\ w \notin Looking
      BY <3>1, <3>2 DEF F!TypeOK, Looking
    <3>4. F!Notifying' = F!Notifying \ {t} /\ t \in F!Notifying
      BY DEF F!TypeOK, F!Notifying
    <3>5. Cardinality(Looking') = Cardinality(Looking) + 1
      BY <3>3, RtFinite, FS_AddElement
    <3>6. Cardinality(F!Notifying') = Cardinality(F!Notifying) - 1
      BY <3>4, RtFinite, FS_RemoveElement
    <3>7. fItems <= Cardinality(Looking) + Cardinality(F!Notifying)
      BY <3>1 DEF RtCovered, SomeoneWaits
    <3>8. QED
      BY <3>5, <3>6, <3>7, RtFinite DEF RtCovered, F!TypeOK
  <2>4. QED
    BY <2>2, <2>3
<1>8. QED
  BY <1>1, <1>2, <1>3, <1>5, <1>6, <1>7

(* The event of an unlinked node is fired, while its thread cannot leave the wait. *)
LEMMA RtFireKeeps ==
  ASSUME FaultyInv, NEW t \in RtThread, NEW w \in RtThread, F!Fire(t, w)
  PROVE  FaultyInv'
<1> USE FaultyCondVarAssumption DEF F!FaultyCondVarConstants, FaultyInv, F!Fire, F!Goto
<1>1. F!TypeOK'
  BY DEF F!TypeOK, F!PC
<1>2. RtHolding' /\ RtNothing'
  BY DEF F!TypeOK, RtHolding, RtNothing
<1>3. RtGuarding'
  BY DEF F!TypeOK, RtGuarding
<1>4. \A u \in RtThread : u # t => batch[u] = {}
  BY DEF F!TypeOK, RtLinked, RtGuarding
<1>5. RtLinked'
  BY <1>4 DEF F!TypeOK, RtLinked
<1>6. RtAsleep'
  BY DEF F!TypeOK, RtAsleep, RtLinked
<1>7. /\ Looking \subseteq Looking' /\ F!Notifying \subseteq F!Notifying'
      /\ SomeoneWaits' => SomeoneWaits
  BY DEF F!TypeOK, Looking, F!Notifying, SomeoneWaits
<1>8. RtCovered'
  BY <1>7, CoverKept
<1>9. QED
  BY <1>1, <1>2, <1>3, <1>5, <1>6, <1>8

(* The wake-up that follows; only one notifier at a time has one under way. *)
LEMMA RtWakeKeeps == ASSUME FaultyInv, NEW t \in RtThread, F!Wake(t) PROVE FaultyInv'
<1> USE FaultyCondVarAssumption DEF F!FaultyCondVarConstants, FaultyInv, F!Wake, F!Done, F!Goto
<1>1. F!TypeOK'
  BY DEF F!TypeOK, F!PC
<1>2. RtHolding' /\ RtNothing'
  BY DEF F!TypeOK, RtHolding, RtNothing
<1>3. RtGuarding'
  BY DEF F!TypeOK, RtGuarding
<1>4. RtLinked'
  BY DEF F!TypeOK, RtLinked, RtGuarding
<1>5. RtAsleep'
  BY DEF F!TypeOK, RtAsleep, RtGuarding
<1>6. /\ Looking \subseteq Looking' /\ F!Notifying \subseteq F!Notifying'
      /\ SomeoneWaits' => SomeoneWaits
  BY DEF F!TypeOK, Looking, F!Notifying, SomeoneWaits
<1>7. RtCovered'
  BY <1>6, CoverKept
<1>8. QED
  BY <1>1, <1>2, <1>3, <1>4, <1>5, <1>7

(* A stuttering step keeps the invariant. *)
LEMMA RtStutterKeeps == ASSUME FaultyInv, UNCHANGED F!vars PROVE FaultyInv'
<1> USE DEF F!vars, F!waitVars, F!notifyVars, FaultyInv
<1>1. F!TypeOK' /\ RtHolding' /\ RtGuarding' /\ RtLinked' /\ RtAsleep' /\ RtNothing'
  BY DEF F!TypeOK, RtHolding, RtGuarding, RtLinked, RtAsleep, RtNothing
<1>2. Looking' = Looking /\ F!Notifying' = F!Notifying /\ SomeoneWaits' = SomeoneWaits
  BY DEF Looking, F!Notifying, SomeoneWaits
<1>3. RtCovered'
  BY <1>2 DEF RtCovered
<1>4. QED
  BY <1>1, <1>3

(* The strengthened invariant holds in every state of the thread runtime's condition
   variable. *)
THEOREM FaultyCondVarInvariant == F!Spec => []FaultyInv
<1>1. FaultyInv /\ [F!Next]_(F!vars) => FaultyInv'
  BY RtQuietKeeps, RtMutexKeeps, RtCheckKeeps, RtEnqueueKeeps, RtLinkKeeps, RtReturnKeeps, RtPutKeeps,
     RtNotifyNobodyKeeps, RtNotifyKeeps, RtFireKeeps, RtWakeKeeps, RtStutterKeeps
     DEF F!Next, F!Step, F!Finished
<1>2. QED
  BY FaultyInit, <1>1, PTL DEF F!Spec

(* rt/thr condvar.hpp: a notifier touches only nodes on the stacks of waiting threads, and
   nobody sleeps on a fired event unless the wake-up is under way. *)
THEOREM NotifiersReachLiveNodes == F!Spec => []NodesAreAlive
<1>1. FaultyInv => NodesAreAlive
  BY DEF FaultyInv, RtLinked, RtAsleep, NodesAreAlive, F!NodesAreAlive
<1>2. QED
  BY FaultyCondVarInvariant, <1>1, PTL

(* condition_variable.hpp, rt/thr condvar.hpp: neither of the two condition variables loses a
   notification, however notifiers, waiters and timeouts interleave. *)
THEOREM NotificationsAreNotLost == C!Spec /\ F!Spec => []NoLostNotify
<1>1. CondVarInv => C!NoLostNotify
  BY DEF CondVarInv
<1>2. FaultyInv => F!NoLostNotify
  <2> SUFFICES ASSUME FaultyInv, fQueue # {}
               PROVE  fItems <= Cardinality(F!Awake) + Cardinality(F!Notifying)
    BY SameCardinality DEF F!NoLostNotify
  <2>1. Looking \subseteq F!Awake /\ F!Awake \subseteq RtThread
    BY DEF FaultyInv, F!TypeOK, Looking, F!Awake
  <2>2. IsFiniteSet(F!Awake)
    BY <2>1, FaultyCondVarAssumption, SameFinite, FS_Subset DEF F!FaultyCondVarConstants
  <2>3. Cardinality(Looking) <= Cardinality(F!Awake) /\ Cardinality(F!Awake) \in Nat
    BY <2>1, <2>2, FS_Subset, FS_CardinalityType
  <2>4. fItems <= Cardinality(Looking) + Cardinality(F!Notifying)
    BY DEF FaultyInv, RtCovered, SomeoneWaits
  <2>5. QED
    BY <2>3, <2>4, RtFinite DEF FaultyInv, F!TypeOK
<1>3. QED
  BY CondVarInvariant, FaultyCondVarInvariant, <1>1, <1>2, PTL DEF NoLostNotify

-----------------------------------------------------------------------------
(* The adversary of lock-free code *)

(* The threads that thread_count_ counts, *)
Entered == {t \in RtThread : aPc[t] \in {"run", "suspend", "compare", "await", "resume"}}

(* ... and the ones that suspended_thread_count_ counts *)
Suspended == {t \in RtThread : aPc[t] = "await"}

(* The states and the variables of the threads *)
AdvTypeOK ==
  /\ aPc \in [RtThread -> {"new", "run", "suspend", "compare", "await", "resume", "exit", "exited"}]
  /\ ops \in [RtThread -> Nat] /\ park \in [RtThread -> {0, 1}]
  /\ mutex \in RtThread \cup {None}
  /\ seen \in Nat /\ count \in Nat /\ suspended \in Nat
  /\ aQueue \subseteq RtThread /\ ready \subseteq RtThread

(* The two counters are exact whoever has mutex_, *)
AdvCounters == count = Cardinality(Entered) /\ suspended = Cardinality(Suspended)

(* ... a suspended thread is in the queue or its event is set, never both, *)
AdvQueue == aQueue \cap ready = {} /\ aQueue \cup ready = Suspended

(* ... and the counter that the holder of mutex_ has read can only have fallen since. *)
AdvGuard ==
  /\ \A t \in RtThread : aPc[t] = "compare" <=> mutex = t
  /\ mutex # None => suspended <= seen

(* Threads in the queue are never alone: another thread runs, or has its event set, or has still
   to resume one of them on its exit. *)
SomebodyRuns ==
  aQueue # {} => \E t \in RtThread : \/ aPc[t] \in {"run", "suspend", "compare", "resume", "exit"}
                                     \/ t \in ready

(* When every thread has exited nobody is suspended: the WHEELS_VERIFY of PrintReport. *)
NobodyLeftSuspended == (\A t \in RtThread : aPc[t] = "exited") => suspended = 0 /\ aQueue = {}

AdvInv == AdvTypeOK /\ AdvCounters /\ AdvQueue /\ AdvGuard /\ SomebodyRuns

(* The threads are finitely many, so the counters count. *)
LEMMA AdvFinite ==
  /\ IsFiniteSet(Entered) /\ IsFiniteSet(Suspended)
  /\ IsFiniteSet(Entered') /\ IsFiniteSet(Suspended')
  /\ None \notin RtThread
<1>1. IsFiniteSet(RtThread) /\ None \notin RtThread
  BY FaultyCondVarAssumption, SameFinite DEF F!FaultyCondVarConstants
<1>2. /\ Entered \subseteq RtThread /\ Suspended \subseteq RtThread
      /\ Entered' \subseteq RtThread /\ Suspended' \subseteq RtThread
  BY DEF Entered, Suspended
<1>3. QED
  BY <1>1, <1>2, FS_Subset

(* The initial states satisfy the invariant. *)
LEMMA AdvInit == A!Init => AdvInv
<1> SUFFICES ASSUME A!Init PROVE AdvInv
  OBVIOUS
<1>1. Entered = {} /\ Suspended = {}
  BY DEF A!Init, Entered, Suspended
<1>2. AdvCounters /\ AdvQueue /\ SomebodyRuns
  BY <1>1, FS_EmptySet DEF A!Init, AdvCounters, AdvQueue, SomebodyRuns
<1>3. AdvTypeOK /\ AdvGuard
  BY AdvFinite DEF A!Init, AdvTypeOK, AdvGuard
<1>4. QED
  BY <1>2, <1>3 DEF AdvInv

(* Enter: one thread more *)
LEMMA AdvEnterKeeps == ASSUME AdvInv, NEW t \in RtThread, A!Enter(t) PROVE AdvInv'
<1> USE DEF AdvInv, AdvTypeOK, A!Enter, A!Goto
<1>1. AdvTypeOK'
  OBVIOUS
<1>2. Entered' = Entered \cup {t} /\ t \notin Entered /\ Suspended' = Suspended
  BY DEF Entered, Suspended
<1>3. Cardinality(Entered') = Cardinality(Entered) + 1
  BY <1>2, AdvFinite, FS_AddElement
<1>4. AdvCounters' /\ AdvQueue'
  BY <1>2, <1>3 DEF AdvCounters, AdvQueue
<1>5. AdvGuard'
  BY DEF AdvGuard
<1>6. SomebodyRuns'
  BY DEF SomebodyRuns
<1>7. QED
  BY <1>1, <1>4, <1>5, <1>6

(* Exit: one thread less, which has still to resume another *)
LEMMA AdvExitKeeps == ASSUME AdvInv, NEW t \in RtThread, A!Exit(t) PROVE AdvInv'
<1> USE DEF AdvInv, AdvTypeOK, A!Exit, A!Goto
<1>1. Entered' = Entered \ {t} /\ t \in Entered /\ Suspended' = Suspended
  BY DEF Entered, Suspended
<1>2. Cardinality(Entered') = Cardinality(Entered) - 1 /\ Cardinality(Entered') \in Nat
  BY <1>1, AdvFinite, FS_RemoveElement, FS_CardinalityType
<1>3. AdvCounters' /\ AdvQueue'
  BY <1>1, <1>2 DEF AdvCounters, AdvQueue
<1>4. AdvTypeOK'
  BY <1>2 DEF AdvCounters
<1>5. AdvGuard'
  BY DEF AdvGuard
<1>6. SomebodyRuns'
  BY DEF SomebodyRuns
<1>7. QED
  BY <1>3, <1>4, <1>5, <1>6

(* SetPark, Fault, ReportProgress: no counter and no queue changes. *)
LEMMA AdvQuietKeeps ==
  ASSUME AdvInv, NEW t \in RtThread, A!SetPark(t) \/ A!Fault(t) \/ A!ReportProgress(t)
  PROVE  AdvInv'
<1> USE DEF AdvInv, AdvTypeOK, A!SetPark, A!Fault, A!ReportProgress, A!Goto
<1>1. AdvTypeOK'
  OBVIOUS
<1>2. Entered' = Entered /\ Suspended' = Suspended
  BY DEF Entered, Suspended
<1>3. AdvCounters' /\ AdvQueue'
  BY <1>2 DEF AdvCounters, AdvQueue
<1>4. AdvGuard'
  BY DEF AdvGuard
<1>5. SomebodyRuns'
  BY DEF SomebodyRuns
<1>6. QED
  BY <1>1, <1>3, <1>4, <1>5

(* The start of SuspendThisThread: mutex_ is taken with the counter as it is now. *)
LEMMA AdvCheckKeeps == ASSUME AdvInv, NEW t \in RtThread, A!CheckLimit(t) PROVE AdvInv'
<1> USE DEF AdvInv, AdvTypeOK, A!CheckLimit, A!Goto
<1>1. AdvTypeOK'
  OBVIOUS
<1>2. Entered' = Entered /\ Suspended' = Suspended
  BY DEF Entered, Suspended
<1>3. AdvCounters' /\ AdvQueue'
  BY <1>2 DEF AdvCounters, AdvQueue
<1>4. AdvGuard'
  BY AdvFinite DEF AdvGuard
<1>5. SomebodyRuns'
  BY DEF SomebodyRuns
<1>6. QED
  BY <1>1, <1>3, <1>4, <1>5

(* The end of SuspendThisThread: thread_count_ is exact when it is compared, and the counter of
   suspended threads is at most the one read, so somebody else runs. *)
LEMMA AdvSuspendKeeps == ASSUME AdvInv, NEW t \in RtThread, A!Suspend(t) PROVE AdvInv'
<1> USE DEF AdvInv, AdvTypeOK, A!Suspend, A!Goto, A!IsLastRunning
<1>1. mutex = t /\ mutex' = None /\ suspended <= seen
  BY AdvFinite DEF AdvGuard
<1>2. AdvTypeOK'
  OBVIOUS
<1>3. AdvGuard'
  BY <1>1, AdvFinite DEF AdvGuard
<1>4. Entered' = Entered
  BY DEF Entered
<1>5. CASE seen + 1 >= count
  <2>1. Suspended' = Suspended
    BY <1>5 DEF Suspended
  <2>2. AdvCounters' /\ AdvQueue' /\ SomebodyRuns'
    BY <1>4, <1>5, <2>1 DEF AdvCounters, AdvQueue, SomebodyRuns
  <2>3. QED
    BY <1>2, <1>3, <2>2
<1>6. CASE ~(seen + 1 >= count)
  <2>1. Suspended' = Suspended \cup {t} /\ t \notin Suspended
    BY <1>6 DEF Suspended
  <2>2. Cardinality(Suspended') = Cardinality(Suspended) + 1
    BY <2>1, AdvFinite, FS_AddElement
  <2>3. AdvCounters' /\ AdvQueue'
    BY <1>4, <1>6, <2>1, <2>2 DEF AdvCounters, AdvQueue
  <2>4. suspended' < count'
    BY <1>1, <1>6
  <2>5. Suspended' # Entered'
    BY <2>3, <2>4 DEF AdvCounters
  <2>6. PICK u \in Entered' : u \notin Suspended'
    BY <2>5 DEF Entered, Suspended
  <2>7. SomebodyRuns'
    BY <2>6 DEF Entered, Suspended, SomebodyRuns
  <2>8. QED
    BY <1>2, <1>3, <2>3, <2>7
<1>7. QED
  BY <1>5, <1>6

(* Await returns: the counter falls, without mutex_. *)
LEMMA AdvResumedKeeps == ASSUME AdvInv, NEW t \in RtThread, A!Resumed(t) PROVE AdvInv'
<1> USE DEF AdvInv, AdvTypeOK, A!Resumed, A!Goto
<1>1. Suspended' = Suspended \ {t} /\ t \in Suspended /\ Entered' = Entered
  BY DEF Entered, Suspended
<1>2. Cardinality(Suspended') = Cardinality(Suspended) - 1 /\ Cardinality(Suspended') \in Nat
  BY <1>1, AdvFinite, FS_RemoveElement, FS_CardinalityType
<1>3. AdvCounters' /\ AdvQueue'
  BY <1>1, <1>2 DEF AdvCounters, AdvQueue
<1>4. AdvTypeOK'
  BY <1>2 DEF AdvCounters
<1>5. AdvGuard'
  BY DEF AdvGuard
<1>6. SomebodyRuns'
  BY DEF SomebodyRuns
<1>7. QED
  BY <1>3, <1>4, <1>5, <1>6

(* ResumeRandomThread: the event of a thread of the queue is set, if there is one. *)
LEMMA AdvResumeKeeps == ASSUME AdvInv, NEW t \in RtThread, A!ResumeThread(t) PROVE AdvInv'
<1> USE DEF AdvInv, AdvTypeOK, A!ResumeThread, A!Goto
<1>1. AdvTypeOK'
  OBVIOUS
<1>2. Entered' = Entered /\ Suspended' = Suspended
  BY DEF Entered, Suspended
<1>3. AdvCounters' /\ AdvQueue'
  BY <1>2 DEF AdvCounters, AdvQueue
<1>4. AdvGuard'
  BY DEF AdvGuard
<1>5. SomebodyRuns'
  BY DEF SomebodyRuns
<1>6. QED
  BY <1>1, <1>3, <1>4, <1>5

(* Nothing changes. *)
LEMMA AdvStutterKeeps == ASSUME AdvInv, UNCHANGED A!vars PROVE AdvInv'
<1>1. Entered' = Entered /\ Suspended' = Suspended
  BY DEF A!vars, Entered, Suspended
<1>2. QED
  BY <1>1 DEF A!vars, AdvInv, AdvTypeOK, AdvCounters, AdvQueue, AdvGuard, SomebodyRuns

(* lockfree.cpp: thread_count_ and suspended_thread_count_ are exact in every state, although
   both change outside of mutex_, and the queue and the events split the suspended threads. *)
THEOREM AdversaryInvariant == A!Init /\ [][A!Next]_(A!vars) => []AdvInv
<1>1. AdvInv /\ [A!Next]_(A!vars) => AdvInv'
  BY AdvEnterKeeps, AdvExitKeeps, AdvQuietKeeps, AdvCheckKeeps, AdvSuspendKeeps, AdvResumedKeeps,
     AdvResumeKeeps, AdvStutterKeeps
     DEF A!Next, A!Step
<1>2. QED
  BY AdvInit, <1>1, PTL

(* lockfree.cpp, SuspendThisThread and PrintReport: the threads in the queue are never the last
   ones, so that an exit or a report of progress is still to come, and when all threads have
   exited none is left suspended. *)
THEOREM RtAdversaryLeavesOneRunning ==
  A!Init /\ [][A!Next]_(A!vars) => [](SomebodyRuns /\ NobodyLeftSuspended)
<1>1. AdvInv => SomebodyRuns /\ NobodyLeftSuspended
  <2> SUFFICES ASSUME AdvInv, \A t \in RtThread : aPc[t] = "exited" PROVE suspended = 0 /\ aQueue = {}
    BY DEF AdvInv, NobodyLeftSuspended
  <2>1. Suspended = {}
    BY DEF Suspended
  <2>2. QED
    BY <2>1, FS_EmptySet DEF AdvInv, AdvCounters, AdvQueue
<1>2. QED
  BY AdversaryInvariant, <1>1, PTL
==============================================================================
