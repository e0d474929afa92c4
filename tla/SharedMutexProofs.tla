-------------------------- MODULE SharedMutexProofs --------------------------
(***************************************************************************)
(* shared_mutex is a readers-writer lock whose one word is exact, and it   *)
(* loses no wake-up although the last reader wakes one thread only, for    *)
(* any number of threads.                                                  *)
(*                                                                         *)
(* The inductive invariant adds to the properties that a writer is alone,  *)
(* where the parked threads are, and what a pending compare_exchange       *)
(* expects.                                                                *)
(***************************************************************************)
EXTENDS SharedMutex, FiniteSetTheorems, TLAPS

(* A writer is alone. *)
Exclusive ==
  /\ \A s, t \in Writing : s = t
  /\ Writing # {} => Reading = {}

(* A parked thread is in one of the two loops. *)
ParkedLoop ==
  \A l \in Loc : \A t \in waiters[l] : l = State /\ pc[t] \in {"load", "load_shared"}

(* A compare_exchange expects a state in which its thread may enter. *)
CasExpects ==
  \A t \in Thread :
    /\ pc[t] = "cas" => expected[t] = 0
    /\ pc[t] \in {"cas_shared", "try_cas_shared"} => ~Writer(expected[t])

IInv ==
  /\ TypeOK
  /\ StateIsExact
  /\ ReadersWaitForWriter
  /\ NoLostWakeup
  /\ Exclusive
  /\ ParkedLoop
  /\ CasExpects

-----------------------------------------------------------------------------
(* Pack and Unpack are inverse. *)
LEMMA PackUnpack ==
  ASSUME NEW n \in Nat
  PROVE  /\ Pack(TRUE, n) \in Nat /\ Pack(FALSE, n) \in Nat
         /\ Writer(Pack(TRUE, n)) /\ ~Writer(Pack(FALSE, n))
         /\ Readers(Pack(TRUE, n)) = n /\ Readers(Pack(FALSE, n)) = n
  BY DEF Pack, Writer, Readers

(* The free state is 0, and no other state is. *)
LEMMA PackFree ==
  ASSUME NEW n \in Nat
  PROVE  /\ Pack(TRUE, n) # 0 /\ (Pack(FALSE, n) = 0 <=> n = 0)
         /\ Pack(TRUE, 0) = 1 /\ Pack(FALSE, 0) = 0
  BY DEF Pack

(* FetchSub(2) takes one reader away. *)
LEMMA PackFetchSub ==
  ASSUME NEW n \in Nat \ {0} PROVE Pack(FALSE, n) - 2 = Pack(FALSE, n - 1)
  BY DEF Pack

(* The readers are finitely many. *)
LEMMA ReadingFinite == IsFiniteSet(Reading) /\ Cardinality(Reading) \in Nat
<1>1. IsFiniteSet(Reading)
  BY FS_Subset, SharedMutexAssumption DEF Reading
<1>2. QED
  BY <1>1, FS_CardinalityType

(* What the exact word tells a thread that reads it. *)
LEMMA WordTells ==
  ASSUME TypeOK, StateIsExact, Exclusive
  PROVE  /\ Writer(value[State]) <=> Writing # {}
         /\ Readers(value[State]) = Cardinality(Reading)
         /\ value[State] = 0 <=> Writing = {} /\ Reading = {}
         /\ CanLock(value[State]) <=> value[State] = 0
<1>1. Cardinality(Reading) = 0 <=> Reading = {}
  BY ReadingFinite, FS_EmptySet
<1>2. CASE Writing # {}
  BY <1>1, <1>2, ReadingFinite, PackUnpack, PackFree DEF StateIsExact, CanLock
<1>3. CASE Writing = {}
  BY <1>1, <1>3, ReadingFinite, PackUnpack, PackFree DEF StateIsExact, CanLock
<1>4. QED
  BY <1>2, <1>3

-----------------------------------------------------------------------------
(* The atomic operations keep the clocks typed. *)
LEMMA LoadTyped ==
  ASSUME SyncTypeOK, NEW t \in Thread, NEW l \in Loc, NEW acq \in BOOLEAN, Load(t, l, acq),
         (waiters \in [Loc -> SUBSET Thread])'
  PROVE  SyncTypeOK'
<1>1. stored[l] \in SUBSET Nat /\ acquire[t] \in SUBSET Nat /\ current[t] \in SUBSET Nat
  BY DEF SyncTypeOK
<1>2. (acquire \in [Thread -> SUBSET Nat])'
  BY <1>1 DEF SyncTypeOK, Load
<1>3. (current \in [Thread -> SUBSET Nat])'
  BY <1>1 DEF SyncTypeOK, Load
<1>4. QED
  BY <1>2, <1>3 DEF SyncTypeOK, Load

(* ... a store, *)
LEMMA StoreTyped ==
  ASSUME SyncTypeOK, NEW t \in Thread, NEW l \in Loc, NEW v \in Nat, NEW S,
         Store(t, l, v, TRUE, S), (waiters \in [Loc -> SUBSET Thread])'
  PROVE  SyncTypeOK'
<1>1. stored[l] \in SUBSET Nat /\ current[t] \in SUBSET Nat
  BY DEF SyncTypeOK
<1>2. (value \in [Loc -> Nat])' /\ (stored \in [Loc -> SUBSET Nat])'
  BY <1>1 DEF SyncTypeOK, Store
<1>3. (release \in [Thread -> SUBSET Nat])' /\ (current \in [Thread -> SUBSET Nat])'
  BY <1>1 DEF SyncTypeOK, Store, Clocks
<1>4. QED
  BY <1>2, <1>3 DEF SyncTypeOK, Store

(* ... and a read-modify-write. *)
LEMMA RmwTyped ==
  ASSUME SyncTypeOK, NEW t \in Thread, NEW l \in Loc, NEW v \in Nat,
         NEW acq \in BOOLEAN, NEW rel \in BOOLEAN, NEW S,
         Rmw(t, l, v, acq, rel, S), (waiters \in [Loc -> SUBSET Thread])'
  PROVE  SyncTypeOK'
<1> DEFINE c == IF acq THEN current[t] \cup acquire[t] \cup stored[l] ELSE current[t]
           r == IF rel THEN c ELSE release[t]
<1>1. stored[l] \in SUBSET Nat /\ c \in SUBSET Nat /\ r \in SUBSET Nat
  BY DEF SyncTypeOK
<1>2. /\ value' = [value EXCEPT ![l] = v]
      /\ stored' = [stored EXCEPT ![l] = @ \cup r]
      /\ acquire' = [acquire EXCEPT ![t] = @ \cup stored[l]]
      /\ release' = [release EXCEPT ![t] = r]
      /\ current' = Clocks(t, c, r, S)
  BY DEF Rmw
<1> HIDE DEF c, r
<1>3. (value \in [Loc -> Nat])' /\ (stored \in [Loc -> SUBSET Nat])'
  BY <1>1, <1>2 DEF SyncTypeOK
<1>4. (release \in [Thread -> SUBSET Nat])' /\ (acquire \in [Thread -> SUBSET Nat])'
  BY <1>1, <1>2 DEF SyncTypeOK
<1>5. (current \in [Thread -> SUBSET Nat])'
  BY <1>1, <1>2 DEF SyncTypeOK, Clocks
<1>6. QED
  BY <1>3, <1>4, <1>5 DEF SyncTypeOK

-----------------------------------------------------------------------------
(* The initial states satisfy the invariant. *)
LEMMA SharedMutexInit == Init => IInv
<1> SUFFICES ASSUME Init PROVE IInv
  OBVIOUS
<1> USE SharedMutexAssumption DEF Init, SyncInit
<1>1. TypeOK
  <2>1. SyncTypeOK
    <3>1. Pack(FALSE, 0) \in Nat
      BY DEF Pack
    <3>2. QED
      BY <3>1 DEF SyncTypeOK
  <2>2. pc \in [Thread -> PC]
    BY DEF PC
  <2>3. QED
    BY <2>1, <2>2 DEF TypeOK
<1>2. Writing = {} /\ Reading = {}
  BY DEF Writing, Reading
<1>3. StateIsExact /\ Exclusive
  BY <1>2, FS_EmptySet DEF StateIsExact, Exclusive
<1>4. ReadersWaitForWriter /\ NoLostWakeup /\ ParkedLoop /\ CasExpects
  BY DEF ReadersWaitForWriter, NoLostWakeup, ParkedLoop, CasExpects
<1>5. QED
  BY <1>1, <1>3, <1>4 DEF IInv

(* Steps that move a thread, awake, without touching the word or the queue: the calls, the
   loads, the failures, and the ends of the critical sections. *)
Quiet(t, l) ==
  /\ UNCHANGED <<value, waiters>>
  /\ pc' = [pc EXCEPT ![t] = l]
  /\ t \notin waiters[State]
  /\ Writing' = Writing /\ Reading' = Reading
  /\ pc[t] \in {"load", "cas", "load_shared", "cas_shared"}
       => l \in {"load", "cas", "load_shared", "cas_shared"}

(* Such a step keeps the invariant. *)
LEMMA QuietKeeps ==
  ASSUME NEW t \in Thread, NEW l \in PC, IInv, Quiet(t, l), TypeOK', CasExpects',
         \A s \in Thread : (owner = s <=> pc[s] = "held")'
  PROVE  IInv'
<1> USE SharedMutexAssumption DEF IInv, Quiet
<1>1. StateIsExact' /\ Exclusive'
  BY DEF StateIsExact, Exclusive
<1>2. ParkedLoop' /\ ReadersWaitForWriter'
  BY DEF TypeOK, SyncTypeOK, ParkedLoop, ReadersWaitForWriter
<1>3. ~IsParked(t)
  BY DEF ParkedLoop, IsParked
<1>4. NoLostWakeup'
  <2> SUFFICES ASSUME (value[State] = 0 /\ waiters[State] # {})' PROVE NoLostWakeup'
    BY DEF NoLostWakeup
  <2>1. PICK u \in Thread : /\ pc[u] \in {"load", "cas", "load_shared", "cas_shared"}
                            /\ ~IsParked(u)
    BY DEF NoLostWakeup
  <2>2. (pc[u] \in {"load", "cas", "load_shared", "cas_shared"})' /\ ~IsParked(u)'
    BY <1>3, <2>1 DEF TypeOK, IsParked
  <2>3. QED
    BY <2>2 DEF NoLostWakeup
<1>5. QED
  BY <1>1, <1>2, <1>4

(* A call touches nothing that the threads share. *)
LEMMA CallKeeps == ASSUME NEW t \in Thread, IInv, Call(t) PROVE IInv' /\ UNCHANGED <<Writing, Reading>>
<1> USE SharedMutexAssumption
<1>1. PICK l \in {"load", "try", "load_shared", "try_load_shared"} : Enter(t, l)
  BY DEF Call, lock, try_lock, lock_shared, try_lock_shared
<1> USE <1>1 DEF Enter, Goto, IInv
<1>2. TypeOK'
  <2>1. SyncTypeOK'
    BY DEF TypeOK, SyncTypeOK, syncVars
  <2>2. (pc \in [Thread -> PC])'
    <3>1. l \in PC
      BY DEF PC
    <3>2. QED
      BY <3>1 DEF TypeOK
  <2>3. QED
    BY <2>1, <2>2 DEF TypeOK, sectionVars
<1>3. Quiet(t, l)
  BY DEF TypeOK, SyncTypeOK, ParkedLoop, syncVars, Quiet, Writing, Reading
<1>4. CasExpects' /\ \A s \in Thread : (owner = s <=> pc[s] = "held")'
  BY DEF TypeOK, StateIsExact, CasExpects
<1>5. QED
  BY <1>2, <1>3, <1>4, QuietKeeps DEF PC, Quiet

(* A load that sees a state in which its thread may enter. *)
LEMMA LoadThenCasKeeps ==
  ASSUME NEW t \in Thread, IInv, ~IsParked(t) \/ pc[t] = "try_load_shared",
         \/ CanLock(value[State]) /\ LoadThenCas(t, "load", "cas")
         \/ ~Writer(value[State]) /\ LoadThenCas(t, "load_shared", "cas_shared")
         \/ ~Writer(value[State]) /\ LoadThenCas(t, "try_load_shared", "try_cas_shared")
  PROVE  IInv' /\ UNCHANGED <<Writing, Reading>>
<1> USE SharedMutexAssumption DEF IInv
<1>1. PICK l \in {"cas", "cas_shared", "try_cas_shared"} :
        /\ LoadThenCas(t, pc[t], l)
        /\ l = "cas" => pc[t] = "load" /\ CanLock(value[State])
        /\ l = "cas_shared" => pc[t] = "load_shared"
        /\ l = "try_cas_shared" => pc[t] = "try_load_shared"
        /\ l # "cas" => ~Writer(value[State])
  BY DEF LoadThenCas
<1> USE <1>1 DEF LoadThenCas, Goto
<1>2. SyncTypeOK'
  BY LoadTyped DEF TypeOK, SyncTypeOK
<1>3. TypeOK'
  <2>1. (pc \in [Thread -> PC])'
    <3>1. l \in PC
      BY DEF PC
    <3>2. QED
      BY <3>1 DEF TypeOK
  <2>2. (expected \in [Thread -> Nat])'
    BY DEF TypeOK, SyncTypeOK
  <2>3. QED
    BY <1>2, <2>1, <2>2 DEF TypeOK, sectionVars
<1>4. Quiet(t, l)
  <2>1. UNCHANGED <<value, waiters>> /\ t \notin waiters[State]
    BY DEF Load, ParkedLoop, IsParked
  <2>2. Writing' = Writing /\ Reading' = Reading
    BY DEF TypeOK, Writing, Reading
  <2>3. QED
    BY <2>1, <2>2 DEF Quiet
<1>5. CasExpects'
  BY WordTells DEF TypeOK, CasExpects
<1>6. \A s \in Thread : (owner = s <=> pc[s] = "held")'
  BY DEF TypeOK, StateIsExact
<1>7. QED
  BY <1>3, <1>4, <1>5, <1>6, QuietKeeps DEF PC, Quiet

(* A compare_exchange that fails goes back to its load, a try that fails returns. *)
LEMMA FailureKeeps ==
  ASSUME NEW t \in Thread, NEW l \in {"load", "load_shared", "try_load_shared", "idle"},
         NEW acq \in BOOLEAN, IInv,
         /\ pc[t] \in {"cas", "cas_shared", "try_cas_shared", "try", "try_load_shared"}
         /\ pc[t] \in {"cas", "cas_shared"} => l \in {"load", "load_shared"}
         /\ Load(t, State, acq)
         /\ Goto(t, l)
         /\ UNCHANGED <<waiters, expected, owner, sectionVars>>
  PROVE  IInv' /\ UNCHANGED <<Writing, Reading>>
<1> USE SharedMutexAssumption DEF IInv, Goto
<1>1. SyncTypeOK'
  BY LoadTyped DEF TypeOK, SyncTypeOK
<1>2. TypeOK'
  <2>1. (pc \in [Thread -> PC])'
    BY DEF TypeOK, PC
  <2>2. QED
    BY <1>1, <2>1 DEF TypeOK, sectionVars
<1>3. Quiet(t, l)
  <2>1. UNCHANGED <<value, waiters>> /\ t \notin waiters[State]
    BY DEF Load, ParkedLoop
  <2>2. Writing' = Writing /\ Reading' = Reading
    BY DEF TypeOK, Writing, Reading
  <2>3. QED
    BY <2>1, <2>2 DEF Quiet
<1>4. CasExpects' /\ \A s \in Thread : (owner = s <=> pc[s] = "held")'
  BY DEF TypeOK, StateIsExact, CasExpects
<1>5. QED
  BY <1>2, <1>3, <1>4, QuietKeeps DEF PC, Quiet

(* The critical section ends; the thread still counts until its atomic operation. *)
LEMMA EndSectionKeeps ==
  ASSUME NEW t \in Thread, IInv, unlock(t) \/ unlock_shared(t) PROVE IInv' /\ UNCHANGED <<Writing, Reading>>
<1> USE SharedMutexAssumption DEF IInv, Goto
<1>1. PICK l \in {"store", "fetch_sub"} :
        /\ pc' = [pc EXCEPT ![t] = l]
        /\ l = "store" => pc[t] = "held" /\ owner' = None
        /\ l = "fetch_sub" => pc[t] = "shared" /\ owner' = owner
  BY DEF unlock, unlock_shared
<1>2. EndSection(t) /\ (writes' = writes \/ writes' = writes \cup {sections + 1})
  BY DEF unlock, unlock_shared
<1>3. TypeOK'
  <2>1. SyncTypeOK'
    BY <1>2 DEF TypeOK, SyncTypeOK, EndSection
  <2>2. (pc \in [Thread -> PC])'
    <3>1. l \in PC
      BY DEF PC
    <3>2. QED
      BY <1>1, <3>1 DEF TypeOK
  <2>3. sections' = sections + 1 /\ sections + 1 \in Nat /\ expected' = expected
    BY <1>2 DEF TypeOK, EndSection
  <2>4. (writes \subseteq Nat)'
    BY <1>2, <2>3 DEF TypeOK
  <2>5. (owner \in Thread \cup {None})'
    BY <1>1 DEF TypeOK
  <2>6. QED
    BY <2>1, <2>2, <2>3, <2>4, <2>5 DEF TypeOK
<1>4. Quiet(t, l)
  <2>1. UNCHANGED <<value, waiters>> /\ t \notin waiters[State]
    BY <1>1, <1>2 DEF EndSection, ParkedLoop
  <2>2. Writing' = Writing /\ Reading' = Reading
    BY <1>1 DEF TypeOK, Writing, Reading
  <2>3. QED
    BY <1>1, <2>1, <2>2 DEF Quiet
<1>5. CasExpects'
  BY <1>1, <1>2 DEF TypeOK, EndSection, CasExpects
<1>6. \A s \in Thread : (owner = s <=> pc[s] = "held")'
  BY <1>1 DEF TypeOK, StateIsExact
<1>7. QED
  BY <1>1, <1>3, <1>4, <1>5, <1>6, QuietKeeps DEF PC, Quiet

(* A load that does not let its thread enter parks it; the word is not 0. *)
LEMMA ParkKeeps ==
  ASSUME NEW t \in Thread, IInv,
         \/ ~CanLock(value[State]) /\ LoadThenWait(t, "load")
         \/ Writer(value[State]) /\ LoadThenWait(t, "load_shared")
  PROVE  IInv' /\ UNCHANGED <<Writing, Reading>>
<1> USE SharedMutexAssumption DEF IInv
<1>1. /\ Load(t, State, TRUE) /\ value' = value
      /\ UNCHANGED <<pc, expected, owner, sections, writes>>
  BY DEF LoadThenWait, Load, sectionVars
<1>2. /\ pc[t] \in {"load", "load_shared"}
      /\ pc[t] = "load_shared" => Writer(value[State])
  BY DEF LoadThenWait
<1>3. value[State] # 0
  BY WordTells DEF LoadThenWait, CanLock
<1>4. waiters' = [waiters EXCEPT ![State] = @ \cup {t}]
  BY <1>1 DEF LoadThenWait, FutexWait
<1>5. TypeOK'
  <2>1. (waiters \in [Loc -> SUBSET Thread])'
    BY <1>4 DEF TypeOK, SyncTypeOK
  <2>2. SyncTypeOK'
    BY <1>1, <2>1, LoadTyped DEF TypeOK
  <2>3. QED
    BY <1>1, <2>2 DEF TypeOK
<1>6. Writing' = Writing /\ Reading' = Reading
  BY <1>1 DEF Writing, Reading
<1>7. StateIsExact' /\ Exclusive' /\ CasExpects'
  BY <1>1, <1>6 DEF StateIsExact, Exclusive, CasExpects
<1>8. ReadersWaitForWriter' /\ ParkedLoop'
  BY <1>1, <1>2, <1>4 DEF TypeOK, SyncTypeOK, ReadersWaitForWriter, ParkedLoop
<1>9. NoLostWakeup'
  BY <1>1, <1>3 DEF NoLostWakeup
<1>10. QED
  BY <1>5, <1>6, <1>7, <1>8, <1>9

(* The writer enters: nobody is inside, and nobody is a waiting reader. *)
Enters(t) ==
  /\ pc[t] \in {"cas", "try"} /\ value[State] = 0
  /\ value' = [value EXCEPT ![State] = 1]
  /\ pc' = [pc EXCEPT ![t] = "held"]
  /\ owner' = t
  /\ UNCHANGED <<waiters, expected, sections, writes>>

(* The writer finds nobody inside, and is alone. *)
LEMMA WriterEntersKeeps ==
  ASSUME NEW t \in Thread, IInv, Enters(t), SyncTypeOK'
  PROVE  IInv' /\ Writing = {} /\ Reading = {} /\ Writing' = {t} /\ Reading' = {}
<1> USE SharedMutexAssumption DEF IInv, Enters
<1>1. Writing = {} /\ Reading = {}
  BY WordTells
<1>2. Writing' = {t} /\ Reading' = {}
  BY <1>1 DEF TypeOK, Writing, Reading
<1>3. TypeOK'
  <2>1. (pc \in [Thread -> PC])'
    BY DEF TypeOK, PC
  <2>2. QED
    BY <2>1 DEF TypeOK
<1>4. StateIsExact'
  <2>1. value'[State] = Pack(TRUE, 0)
    BY PackFree DEF TypeOK, SyncTypeOK
  <2>2. \A s \in Thread : (owner = s <=> pc[s] = "held")'
    BY <1>1 DEF TypeOK, Writing
  <2>3. QED
    BY <1>2, <2>1, <2>2, FS_EmptySet DEF StateIsExact
<1>5. Exclusive'
  BY <1>2 DEF Exclusive
<1>6. ParkedLoop' /\ CasExpects'
  BY DEF TypeOK, SyncTypeOK, ParkedLoop, CasExpects
<1>7. ReadersWaitForWriter' /\ NoLostWakeup'
  <2>1. value'[State] = 1 /\ Writer(1)
    BY DEF TypeOK, SyncTypeOK, Writer
  <2>2. QED
    BY <2>1 DEF ReadersWaitForWriter, NoLostWakeup
<1>8. QED
  BY <1>1, <1>2, <1>3, <1>4, <1>5, <1>6, <1>7

(* Both CASes of a writer that succeed are such steps. *)
LEMMA LockCasEnters ==
  ASSUME NEW t \in Thread, IInv,
         \/ LockCas(t)
         \/ /\ pc[t] = "try"
            /\ value[State] = Pack(FALSE, 0)
            /\ Rmw(t, State, Pack(TRUE, 0), TRUE, FALSE, {})
            /\ owner' = t
            /\ Goto(t, "held")
            /\ UNCHANGED <<waiters, expected, sectionVars>>
  PROVE  Enters(t) /\ SyncTypeOK'
<1> USE SharedMutexAssumption DEF IInv
<1>1. Pack(FALSE, 0) = 0 /\ Pack(TRUE, 0) = 1
  BY PackFree
<1>2. PICK acq \in BOOLEAN : Rmw(t, State, 1, acq, FALSE, {}) /\ waiters' = waiters
  BY <1>1 DEF LockCas, CasSucceeds
<1>3. SyncTypeOK'
  <2>1. SyncTypeOK /\ (waiters \in [Loc -> SUBSET Thread])' /\ 1 \in Nat
    BY <1>2 DEF TypeOK, SyncTypeOK
  <2>2. QED
    BY <1>2, <2>1, RmwTyped
<1>4. Enters(t)
  BY <1>1, <1>2 DEF LockCas, CasSucceeds, Enters, CasExpects, Rmw, Goto, sectionVars
<1>5. QED
  BY <1>3, <1>4

(* The writer leaves, and wakes everybody. *)
LEMMA UnlockKeeps ==
  ASSUME NEW t \in Thread, IInv, Unlock(t)
  PROVE  IInv' /\ t \in Writing /\ Writing' = Writing \ {t} /\ Reading' = Reading
<1> USE SharedMutexAssumption DEF IInv
<1>1. /\ pc[t] = "store" /\ pc' = [pc EXCEPT ![t] = "idle"]
      /\ UNCHANGED <<expected, owner, sections, writes>>
  BY DEF Unlock, Goto, sectionVars
<1>2. Pack(FALSE, 0) = 0
  BY PackFree
<1>3. /\ Store(t, State, 0, TRUE, waiters[State])
      /\ waiters' = [waiters EXCEPT ![State] = {}]
  BY <1>2 DEF Unlock, UnlockWakes, Woken
<1>4. TypeOK'
  <2>1. (waiters \in [Loc -> SUBSET Thread])'
    BY <1>3 DEF TypeOK, SyncTypeOK
  <2>2. SyncTypeOK'
    BY <1>3, <2>1, StoreTyped DEF TypeOK
  <2>3. (pc \in [Thread -> PC])'
    BY <1>1 DEF TypeOK, PC
  <2>4. QED
    BY <1>1, <2>2, <2>3 DEF TypeOK
<1>5. t \in Writing /\ Writing' = Writing \ {t} /\ Reading' = Reading
  BY <1>1 DEF TypeOK, Writing, Reading
<1>6. Writing' = {} /\ Reading' = {}
  BY <1>5 DEF Exclusive
<1>7. StateIsExact' /\ Exclusive'
  <2>1. value'[State] = Pack(FALSE, 0)
    BY <1>2, <1>3 DEF TypeOK, SyncTypeOK, Store
  <2>2. \A s \in Thread : (owner = s <=> pc[s] = "held")'
    BY <1>1 DEF TypeOK, StateIsExact
  <2>3. QED
    BY <1>6, <2>1, <2>2, FS_EmptySet DEF StateIsExact, Exclusive
<1>8. waiters'[State] = {}
  BY <1>3 DEF TypeOK, SyncTypeOK
<1>9. ReadersWaitForWriter' /\ NoLostWakeup'
  BY <1>8 DEF ReadersWaitForWriter, NoLostWakeup
<1>10. ParkedLoop' /\ CasExpects'
  BY <1>1, <1>3 DEF TypeOK, SyncTypeOK, ParkedLoop, CasExpects
<1>11. QED
  BY <1>4, <1>5, <1>7, <1>9, <1>10

(* A reader enters, next to other readers only. *)
LEMMA ReaderEntersKeeps ==
  ASSUME NEW t \in Thread, NEW from \in {"cas_shared", "try_cas_shared"}, IInv,
         CasSucceeds(t, from, Pack(FALSE, Readers(expected[t]) + 1), "shared"),
         UNCHANGED owner
  PROVE  IInv' /\ Writing = {} /\ Writing' = {} /\ t \notin Reading
         /\ Reading' = Reading \cup {t}
<1> USE SharedMutexAssumption DEF IInv
<1> DEFINE n == Cardinality(Reading)
<1>1. /\ pc[t] = from /\ value[State] = expected[t] /\ pc' = [pc EXCEPT ![t] = "shared"]
      /\ UNCHANGED <<waiters, expected, owner, sections, writes>>
  BY DEF CasSucceeds, Goto, sectionVars
<1>2. Writing = {} /\ Readers(expected[t]) = n
  BY <1>1, WordTells DEF CasExpects
<1>3. Rmw(t, State, Pack(FALSE, n + 1), FALSE, FALSE, {})
  BY <1>2 DEF CasSucceeds
<1>4. n \in Nat /\ Pack(FALSE, n + 1) \in Nat
      /\ ~Writer(Pack(FALSE, n + 1)) /\ Pack(FALSE, n + 1) # 0
  <2> HIDE DEF n
  <2>1. n \in Nat
    BY ReadingFinite DEF n
  <2>2. n + 1 \in Nat /\ n + 1 # 0
    BY <2>1
  <2> DEFINE m == n + 1
  <2> HIDE DEF m
  <2>3. Pack(FALSE, m) \in Nat /\ ~Writer(Pack(FALSE, m)) /\ Pack(FALSE, m) # 0
    BY <2>2, PackUnpack, PackFree DEF m
  <2>4. QED
    BY <2>1, <2>3 DEF m
<1>5. TypeOK'
  <2>1. SyncTypeOK'
    BY <1>1, <1>3, <1>4, RmwTyped DEF TypeOK, SyncTypeOK
  <2>2. (pc \in [Thread -> PC])'
    BY <1>1 DEF TypeOK, PC
  <2>3. QED
    BY <1>1, <2>1, <2>2 DEF TypeOK
<1>6. Writing' = {} /\ t \notin Reading /\ Reading' = Reading \cup {t}
  BY <1>1, <1>2 DEF TypeOK, Writing, Reading
<1>7. value'[State] = Pack(FALSE, n + 1)
  BY <1>3 DEF TypeOK, SyncTypeOK, Rmw
<1>8. StateIsExact' /\ Exclusive'
  <2>1. Cardinality(Reading') = n + 1
    BY <1>6, ReadingFinite, FS_AddElement
  <2>2. \A s \in Thread : (owner = s <=> pc[s] = "held")'
    BY <1>1 DEF TypeOK, StateIsExact
  <2>3. QED
    BY <1>6, <1>7, <2>1, <2>2 DEF StateIsExact, Exclusive
<1>9. ReadersWaitForWriter'
  BY <1>1, <1>2, WordTells DEF TypeOK, SyncTypeOK, ReadersWaitForWriter, ParkedLoop
<1>10. NoLostWakeup'
  BY <1>4, <1>7 DEF NoLostWakeup
<1>11. ParkedLoop' /\ CasExpects'
  BY <1>1 DEF TypeOK, SyncTypeOK, ParkedLoop, CasExpects
<1>12. QED
  BY <1>2, <1>5, <1>6, <1>8, <1>9, <1>10, <1>11

(* A reader leaves.  The last one wakes a thread: it is a writer, back in its loop and awake. *)
LEMMA UnlockSharedKeeps ==
  ASSUME NEW t \in Thread, IInv, UnlockShared(t)
  PROVE  IInv' /\ t \in Reading /\ Reading' = Reading \ {t} /\ Writing' = Writing
<1> USE SharedMutexAssumption DEF IInv
<1> DEFINE n == Cardinality(Reading)
<1>1. /\ pc[t] = "fetch_sub" /\ pc' = [pc EXCEPT ![t] = "idle"]
      /\ UNCHANGED <<expected, owner, sections, writes>>
  BY DEF UnlockShared, Goto, sectionVars
<1>2. t \in Reading /\ Writing = {}
  BY <1>1 DEF Reading, Exclusive
<1>3. n \in Nat \ {0}
  BY <1>2, ReadingFinite, FS_EmptySet
<1>4. value[State] = Pack(FALSE, n) /\ value[State] - 2 = Pack(FALSE, n - 1)
  BY <1>2, <1>3, PackFetchSub DEF StateIsExact
<1>5. LastReader <=> n = 1
  BY WordTells DEF LastReader
<1>6. PICK S : /\ n = 1 => S \in WakeOne(State)
               /\ n # 1 => S = {}
               /\ Rmw(t, State, Pack(FALSE, n - 1), FALSE, TRUE, S)
               /\ waiters' = [waiters EXCEPT ![State] = @ \ S]
  BY <1>4, <1>5 DEF UnlockShared, Woken
<1>7. n - 1 \in Nat /\ Pack(FALSE, n - 1) \in Nat /\ ~Writer(Pack(FALSE, n - 1))
      /\ (Pack(FALSE, n - 1) = 0 <=> n = 1)
  <2> HIDE DEF n
  <2> DEFINE m == n - 1
  <2>1. m \in Nat /\ (m = 0 <=> n = 1)
    BY <1>3
  <2> HIDE DEF m
  <2>2. Pack(FALSE, m) \in Nat /\ ~Writer(Pack(FALSE, m)) /\ (Pack(FALSE, m) = 0 <=> m = 0)
    BY <2>1, PackUnpack, PackFree
  <2>3. QED
    BY <2>1, <2>2 DEF m
<1>8. TypeOK'
  <2>1. (waiters \in [Loc -> SUBSET Thread])'
    BY <1>6 DEF TypeOK, SyncTypeOK
  <2>2. SyncTypeOK'
    BY <1>6, <1>7, <2>1, RmwTyped DEF TypeOK
  <2>3. (pc \in [Thread -> PC])'
    BY <1>1 DEF TypeOK, PC
  <2>4. QED
    BY <1>1, <2>2, <2>3 DEF TypeOK
<1>9. Writing' = Writing /\ Reading' = Reading \ {t}
  BY <1>1 DEF TypeOK, Writing, Reading
<1>10. value'[State] = Pack(FALSE, n - 1)
  BY <1>6 DEF TypeOK, SyncTypeOK, Rmw
<1>11. StateIsExact' /\ Exclusive'
  <2>1. Cardinality(Reading') = n - 1
    BY <1>2, <1>9, ReadingFinite, FS_RemoveElement
  <2>2. \A s \in Thread : (owner = s <=> pc[s] = "held")'
    BY <1>1 DEF TypeOK, StateIsExact
  <2>3. QED
    BY <1>2, <1>9, <1>10, <2>1, <2>2 DEF StateIsExact, Exclusive
<1>12. waiters'[State] \subseteq waiters[State]
       /\ \A l \in Loc : waiters'[l] \subseteq waiters[l]
  BY <1>6 DEF TypeOK, SyncTypeOK
<1>13. ReadersWaitForWriter'
  BY <1>1, <1>2, <1>12, WordTells DEF TypeOK, ReadersWaitForWriter, ParkedLoop
<1>14. ParkedLoop' /\ CasExpects'
  BY <1>1, <1>12 DEF TypeOK, ParkedLoop, CasExpects
<1>15. NoLostWakeup'
  <2> SUFFICES ASSUME value'[State] = 0, waiters'[State] # {} PROVE NoLostWakeup'
    BY DEF NoLostWakeup
  <2>1. n = 1 /\ waiters[State] # {}
    BY <1>7, <1>10, <1>12
  <2>2. PICK u \in waiters[State] : S = {u}
    BY <1>6, <2>1 DEF WakeOne
  <2>3. u \in Thread /\ pc[u] \in {"load", "load_shared"} /\ u # t
    BY <1>1 DEF TypeOK, SyncTypeOK, ParkedLoop
  <2>4. ~IsParked(u)'
    BY <1>6, <2>2, <1>12 DEF TypeOK, SyncTypeOK, IsParked, ParkedLoop
  <2>5. QED
    BY <1>1, <2>3, <2>4 DEF TypeOK, NoLostWakeup
<1>16. QED
  BY <1>2, <1>8, <1>9, <1>11, <1>13, <1>14, <1>15

(* A stuttering step keeps the invariant. *)
LEMMA StutterKeeps == ASSUME IInv, UNCHANGED vars PROVE IInv'
  BY DEF vars, syncVars, IInv, TypeOK, SyncTypeOK, StateIsExact, Writing, Reading,
         ReadersWaitForWriter, NoLostWakeup, IsParked, Exclusive, ParkedLoop, CasExpects

-----------------------------------------------------------------------------
(* Every step of a thread keeps the invariant, and is a step of the abstract lock or invisible. *)
LEMMA StepKeeps ==
  ASSUME NEW t \in Thread, IInv, Call(t) \/ Step(t)
  PROVE  IInv' /\ [Abstract!Next]_(Abstract!vars)
<1> DEFINE TryLockSucceeds ==
             /\ pc[t] = "try"
             /\ value[State] = Pack(FALSE, 0)
             /\ Rmw(t, State, Pack(TRUE, 0), TRUE, FALSE, {})
             /\ owner' = t
             /\ Goto(t, "held")
             /\ UNCHANGED <<waiters, expected, sectionVars>>
           TryLockFails ==
             /\ pc[t] = "try"
             /\ Load(t, State, FALSE)
             /\ Goto(t, "idle")
             /\ UNCHANGED <<waiters, expected, owner, sectionVars>>
           Loads ==
             \/ ~IsParked(t) /\ CanLock(value[State]) /\ LoadThenCas(t, "load", "cas")
             \/ ~IsParked(t) /\ ~Writer(value[State])
                  /\ LoadThenCas(t, "load_shared", "cas_shared")
             \/ ~Writer(value[State]) /\ LoadThenCas(t, "try_load_shared", "try_cas_shared")
           Parks ==
             \/ ~CanLock(value[State]) /\ LoadThenWait(t, "load")
             \/ Writer(value[State]) /\ LoadThenWait(t, "load_shared")
           Fails ==
             \/ CasFails(t, "cas", "load") \/ CasFails(t, "cas_shared", "load_shared")
             \/ CasFails(t, "try_cas_shared", "try_load_shared")
             \/ TryLockFails \/ TryLockSharedFails(t)
           ReaderEnters ==
             /\ \E from \in {"cas_shared", "try_cas_shared"} :
                  CasSucceeds(t, from, Pack(FALSE, Readers(expected[t]) + 1), "shared")
             /\ UNCHANGED owner
<1>1. CASE Call(t)
  BY <1>1, CallKeeps DEF Abstract!vars
<1>2. CASE Loads
  <2>1. ~IsParked(t) \/ pc[t] = "try_load_shared"
    BY <1>2 DEF LoadThenCas
  <2>2. QED
    BY <1>2, <2>1, LoadThenCasKeeps DEF Abstract!vars
<1>3. CASE Parks
  BY <1>3, ParkKeeps DEF Abstract!vars
<1>4. CASE Fails
  <2>1. PICK l \in {"load", "load_shared", "try_load_shared", "idle"}, acq \in BOOLEAN :
          /\ pc[t] \in {"cas", "cas_shared", "try_cas_shared", "try", "try_load_shared"}
          /\ pc[t] \in {"cas", "cas_shared"} => l \in {"load", "load_shared"}
          /\ Load(t, State, acq)
          /\ Goto(t, l)
          /\ UNCHANGED <<waiters, expected, owner, sectionVars>>
    BY <1>4 DEF CasFails, TryLockSharedFails
  <2>2. QED
    BY <2>1, FailureKeeps DEF Abstract!vars
<1>5. CASE unlock(t) \/ unlock_shared(t)
  BY <1>5, EndSectionKeeps DEF Abstract!vars
<1>6. CASE LockCas(t) \/ TryLockSucceeds
  BY <1>6, LockCasEnters, WriterEntersKeeps DEF Abstract!Next, Abstract!Lock
<1>7. CASE Unlock(t)
  BY <1>7, UnlockKeeps DEF Abstract!Next, Abstract!Unlock
<1>8. CASE ReaderEnters
  BY <1>8, ReaderEntersKeeps DEF Abstract!Next, Abstract!LockShared
<1>9. CASE UnlockShared(t)
  BY <1>9, UnlockSharedKeeps DEF Abstract!Next, Abstract!UnlockShared
<1>10. Lock(t) => Loads \/ Parks \/ LockCas(t) \/ Fails
  BY DEF Lock
<1>11. TryLock(t) => TryLockSucceeds \/ Fails
  BY DEF TryLock
<1>12. LockShared(t) => Loads \/ Parks \/ ReaderEnters \/ Fails
  BY DEF LockShared, LockSharedCas
<1>13. TryLockShared(t) => Loads \/ ReaderEnters \/ Fails
  BY DEF TryLockShared
<1> HIDE DEF TryLockSucceeds, TryLockFails, Loads, Parks, Fails, ReaderEnters
<1>14. QED
  BY <1>1, <1>2, <1>3, <1>4, <1>5, <1>6, <1>7, <1>8, <1>9, <1>10, <1>11, <1>12, <1>13 DEF Step

(* The same for every step of the specification. *)
LEMMA NextKeeps == ASSUME IInv, [Next]_vars PROVE IInv' /\ [Abstract!Next]_(Abstract!vars)
<1>1. CASE UNCHANGED vars
  <2>1. UNCHANGED <<Writing, Reading>>
    BY <1>1 DEF vars, Writing, Reading
  <2>2. QED
    BY <1>1, <2>1, StutterKeeps DEF Abstract!vars
<1>2. QED
  BY <1>1, StepKeeps DEF Next, Finished

(* The strengthened invariant holds in every state. *)
THEOREM SharedMutexInvariant == Spec => []IInv
  BY SharedMutexInit, NextKeeps, PTL DEF Spec

(* shared_mutex.hpp: the state has its types for every number of threads. *)
THEOREM SharedMutexTypeCorrect == Spec => []TypeOK
<1>1. IInv => TypeOK
  BY DEF IInv
<1>2. QED
  BY SharedMutexInvariant, <1>1, PTL

(* SharedMutexImpl: the word is exact, so that FetchSub(2) never borrows from the writer bit, and
   whoever sleeps while readers are inside is a writer. *)
THEOREM SharedWordIsExact == Spec => []StateGuidesWakeups
<1>1. IInv => StateGuidesWakeups
  BY DEF IInv, StateGuidesWakeups
<1>2. QED
  BY SharedMutexInvariant, <1>1, PTL

(* SharedMutexImpl: nobody sleeps on a free lock unless another thread is on its way to it,
   although the last reader wakes one thread only. *)
THEOREM SharedWakeupsAreNotLost == Spec => []NoLostWakeup
<1>1. IInv => NoLostWakeup
  BY DEF IInv
<1>2. QED
  BY SharedMutexInvariant, <1>1, PTL

(* shared_mutex.hpp implements the abstract lock: one writer or any number of readers. *)
THEOREM SharedMutexImplementsLock == Spec => ImplementsLock
<1>1. Init => Abstract!Init
  BY DEF Init, Abstract!Init, Writing, Reading
<1>2. QED
  BY SharedMutexInvariant, NextKeeps, <1>1, PTL DEF Spec, ImplementsLock, Abstract!Spec
=============================================================================
