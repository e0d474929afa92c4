----------------------------- MODULE MutexProofs -----------------------------
(***************************************************************************)
(* The mutex is a lock, loses no wake-up and orders the critical sections  *)
(* for any number of threads.                                              *)
(*                                                                         *)
(* The inductive invariant adds to the properties where the parked threads *)
(* are and what the clocks carry: the last store of a free mutex knows     *)
(* every section that has ended, and so does the thread that holds it.     *)
(*                                                                         *)
(* The timed_mutex, which counts nobody and wakes at every unlock, follows *)
(* at the end.                                                             *)
(***************************************************************************)
EXTENDS MCMutex, FiniteSetTheorems, TLAPS

(* A parked thread is in the loop of Lock(). *)
ParkedContend ==
  \A l \in Loc : \A t \in waiters[l] : l = Locked /\ pc[t] = "wait"

(* Every section that has ended is known to the last store of a free mutex, *)
FreeKnows == value[Locked] = 0 => 1 .. sections \subseteq stored[Locked]

(* ... and to the thread that holds it. *)
HolderKnows == \A t \in Holders : 1 .. sections \subseteq current[t]

IInv ==
  /\ TypeOK
  /\ OwnerHolds
  /\ ContentionCounts
  /\ ParkedContend
  /\ NoLostWakeup
  /\ FreeKnows
  /\ HolderKnows

(* The initial states satisfy the invariant. *)
LEMMA MutexInit == Init => IInv
<1> SUFFICES ASSUME Init PROVE IInv
  OBVIOUS
<1>1. TypeOK
  BY MutexAssumption DEF Init, SyncInit, TypeOK, SyncTypeOK, PC
<1>2. OwnerHolds
  BY MutexAssumption DEF Init, SyncInit, OwnerHolds, Holders
<1>3. ContentionCounts
  <2>1. Contending = {}
    BY DEF Init, Contending
  <2>2. QED
    BY <2>1, FS_EmptySet DEF Init, ContentionCounts
<1>4. ParkedContend /\ NoLostWakeup
  BY MutexAssumption DEF Init, SyncInit, ParkedContend, NoLostWakeup
<1>5. FreeKnows /\ HolderKnows
  BY DEF Init, FreeKnows, HolderKnows, Holders
<1>6. QED
  BY <1>1, <1>2, <1>3, <1>4, <1>5 DEF IInv

(* The contending threads are finitely many, and counted. *)
LEMMA ContendingFinite == IsFiniteSet(Contending)
  BY FS_Subset, MutexAssumption DEF Contending

(* A call of lock() or try_lock() touches nothing that the threads share. *)
LEMMA CallKeeps == ASSUME NEW t \in Thread, IInv, Call(t) PROVE IInv'
<1> USE MutexAssumption DEF IInv, Call, lock, try_lock, Goto, syncVars
<1>1. TypeOK'
  BY DEF TypeOK, SyncTypeOK, PC
<1>2. Holders' = Holders /\ Contending' = Contending
  BY DEF TypeOK, Holders, Contending
<1>3. OwnerHolds' /\ ContentionCounts'
  BY <1>2 DEF TypeOK, OwnerHolds, ContentionCounts
<1>4. ParkedContend' /\ NoLostWakeup'
  BY DEF TypeOK, SyncTypeOK, ParkedContend, NoLostWakeup, IsParked
<1>5. FreeKnows' /\ HolderKnows'
  BY <1>2 DEF FreeKnows, HolderKnows
<1>6. QED
  BY <1>1, <1>3, <1>4, <1>5

(* The exchange of Lock(), or the compare_exchange of TryLock(), takes the mutex: its
   acquire order passes on what the last store knows. *)
LEMMA AcquisitionKeeps ==
  ASSUME NEW t \in Thread, IInv, LockSucceeds(t) \/ TryLockSucceeds(t)
  PROVE  IInv'
<1> USE MutexAssumption DEF IInv, LockSucceeds, TryLockSucceeds, TryLockValue, Goto, Rmw, Clocks
<1>1. TypeOK'
  BY DEF TypeOK, SyncTypeOK, PC
<1>2. Holders = {} /\ Holders' = {t} /\ Contending' = Contending
  BY DEF TypeOK, OwnerHolds, Holders, Contending
<1>3. OwnerHolds'
  BY <1>2 DEF TypeOK, SyncTypeOK, OwnerHolds, Holders
<1>4. ContentionCounts'
  BY <1>2 DEF ContentionCounts
<1>5. ParkedContend' /\ NoLostWakeup'
  BY DEF TypeOK, SyncTypeOK, ParkedContend, NoLostWakeup
<1>6. FreeKnows'
  BY DEF TypeOK, SyncTypeOK, FreeKnows
<1>7. HolderKnows'
  BY <1>2 DEF TypeOK, SyncTypeOK, FreeKnows, HolderKnows
<1>8. QED
  BY <1>1, <1>3, <1>4, <1>5, <1>6, <1>7

(* A lock() that finds the mutex locked announces itself and parks. *)
LEMMA LockFailsKeeps == ASSUME NEW t \in Thread, IInv, LockFails(t) PROVE IInv'
<1> USE MutexAssumption DEF IInv, LockFails, Contend, Goto, Rmw, Clocks, FutexWait
<1>1. TypeOK'
  BY DEF TypeOK, SyncTypeOK, PC
<1>2. Holders' = Holders /\ Contending' = Contending \cup {t} /\ t \notin Contending
  BY DEF TypeOK, Holders, Contending
<1>3. OwnerHolds'
  BY <1>2 DEF TypeOK, SyncTypeOK, OwnerHolds
<1>4. ContentionCounts'
  BY <1>2, ContendingFinite, FS_AddElement DEF ContentionCounts
<1>5. ParkedContend' /\ NoLostWakeup'
  BY DEF TypeOK, SyncTypeOK, ParkedContend, NoLostWakeup
<1>6. FreeKnows'
  BY DEF TypeOK, SyncTypeOK, FreeKnows
<1>7. HolderKnows'
  BY <1>2 DEF TypeOK, SyncTypeOK, Holders, HolderKnows
<1>8. QED
  BY <1>1, <1>3, <1>4, <1>5, <1>6, <1>7

(* A woken thread leaves the count and goes back to the exchange. *)
LEMMA LockRetriesKeeps == ASSUME NEW t \in Thread, IInv, LockRetries(t) PROVE IInv'
<1> USE MutexAssumption DEF IInv, LockRetries, Goto, syncVars
<1>1. Holders' = Holders /\ Contending' = Contending \ {t} /\ t \in Contending
  BY DEF TypeOK, Holders, Contending
<1>2. ContentionCounts' /\ contention' \in Nat
  <2>1. /\ IsFiniteSet(Contending \ {t})
        /\ Cardinality(Contending \ {t}) = Cardinality(Contending) - 1
    BY <1>1, ContendingFinite, FS_RemoveElement
  <2>2. Cardinality(Contending \ {t}) \in Nat
    BY <2>1, FS_CardinalityType
  <2>3. QED
    BY <1>1, <2>1, <2>2 DEF ContentionCounts
<1>3. TypeOK'
  BY <1>2 DEF TypeOK, SyncTypeOK, PC
<1>4. OwnerHolds'
  BY <1>1 DEF TypeOK, OwnerHolds
<1>5. ParkedContend' /\ NoLostWakeup'
  BY DEF TypeOK, ParkedContend, NoLostWakeup, IsParked
<1>6. FreeKnows' /\ HolderKnows'
  BY <1>1 DEF FreeKnows, HolderKnows
<1>7. QED
  BY <1>2, <1>3, <1>4, <1>5, <1>6

(* A try_lock() that fails has read the last store without acquiring it. *)
LEMMA TryLockFailsKeeps == ASSUME NEW t \in Thread, IInv, TryLockFails(t) PROVE IInv'
<1> USE MutexAssumption DEF IInv, TryLockFails, Goto, Load
<1>1. TypeOK'
  BY DEF TypeOK, SyncTypeOK, PC
<1>2. Holders' = Holders /\ Contending' = Contending
  BY DEF TypeOK, Holders, Contending
<1>3. OwnerHolds' /\ ContentionCounts'
  BY <1>2 DEF TypeOK, OwnerHolds, ContentionCounts
<1>4. ParkedContend' /\ NoLostWakeup'
  BY DEF TypeOK, ParkedContend, NoLostWakeup, IsParked
<1>5. FreeKnows' /\ HolderKnows'
  BY <1>2 DEF TypeOK, SyncTypeOK, FreeKnows, HolderKnows
<1>6. QED
  BY <1>1, <1>3, <1>4, <1>5

(* The critical section ends; its thread, the only holder, knows it. *)
LEMMA UnlockCallKeeps == ASSUME NEW t \in Thread, IInv, unlock(t) PROVE IInv'
<1> USE MutexAssumption DEF IInv, unlock, Goto
<1>1. TypeOK'
  BY DEF TypeOK, SyncTypeOK, PC
<1>2. Holders = {t} /\ Holders' = {t} /\ Contending' = Contending
  BY DEF TypeOK, OwnerHolds, Holders, Contending
<1>3. OwnerHolds' /\ ContentionCounts'
  BY <1>2 DEF TypeOK, OwnerHolds, ContentionCounts
<1>4. ParkedContend' /\ NoLostWakeup'
  BY DEF TypeOK, ParkedContend, NoLostWakeup, IsParked
<1>5. FreeKnows'
  BY <1>2 DEF TypeOK, OwnerHolds, FreeKnows
<1>6. HolderKnows'
  BY <1>2 DEF TypeOK, SyncTypeOK, HolderKnows
<1>7. QED
  BY <1>1, <1>3, <1>4, <1>5, <1>6

(* The release store; contention_ is 0 only if nobody is parked, otherwise one of the
   parked threads is woken. *)
LEMMA UnlockKeeps == ASSUME NEW t \in Thread, IInv, Unlock(t) PROVE IInv'
<1> USE MutexAssumption DEF IInv, Unlock, Goto
<1>1. PICK S \in ToWake : Store(t, Locked, 0, UnlockOrder, S) /\ waiters' = Woken(Locked, S)
  OBVIOUS
<1>2. S \subseteq waiters[Locked]
  BY DEF ToWake, WakeOne
<1>3. waiters[Locked] # {} => S # {}
  <2>1. SUFFICES ASSUME waiters[Locked] # {} PROVE contention > 0
    BY DEF ToWake, WakeOne
  <2>2. Contending # {}
    BY <2>1 DEF TypeOK, SyncTypeOK, ParkedContend, Contending
  <2>3. contention # 0
    BY <2>2, ContendingFinite, FS_EmptySet DEF ContentionCounts
  <2>4. QED
    BY <2>3 DEF TypeOK
<1>4. Holders = {t} /\ Holders' = {} /\ Contending' = Contending
  BY DEF TypeOK, OwnerHolds, Holders, Contending
<1>5. TypeOK'
  BY <1>1 DEF TypeOK, SyncTypeOK, PC, Store, Clocks, Woken, UnlockOrder
<1>6. OwnerHolds'
  BY <1>1, <1>4 DEF TypeOK, SyncTypeOK, OwnerHolds, Holders, Store
<1>7. ContentionCounts'
  BY <1>4 DEF ContentionCounts
<1>8. ParkedContend'
  BY <1>1 DEF TypeOK, SyncTypeOK, ParkedContend, Woken
<1>9. NoLostWakeup'
  <2> SUFFICES ASSUME waiters'[Locked] # {}
               PROVE  \E u \in Thread : pc'[u] = "wait" /\ ~IsParked(u)'
    BY DEF NoLostWakeup
  <2>1. waiters[Locked] # {}
    BY <1>1 DEF TypeOK, SyncTypeOK, Woken
  <2>2. PICK u \in S : TRUE
    BY <1>3, <2>1
  <2>3. u \in Thread /\ pc[u] = "wait" /\ u # t
    BY <1>2 DEF TypeOK, SyncTypeOK, ParkedContend
  <2>4. ~IsParked(u)'
    BY <1>1, <1>2 DEF TypeOK, SyncTypeOK, ParkedContend, IsParked, Woken
  <2>5. QED
    BY <2>3, <2>4 DEF TypeOK
<1>10. FreeKnows' /\ HolderKnows'
  BY <1>1, <1>4 DEF TypeOK, SyncTypeOK, FreeKnows, HolderKnows, Store, UnlockOrder
<1>11. QED
  BY <1>5, <1>6, <1>7, <1>8, <1>9, <1>10

(* A stuttering step keeps the invariant. *)
LEMMA StutterKeeps == ASSUME IInv, UNCHANGED vars PROVE IInv'
  BY DEF vars, syncVars, IInv, TypeOK, SyncTypeOK, OwnerHolds, Holders, ContentionCounts,
         Contending, ParkedContend, NoLostWakeup, IsParked, FreeKnows, HolderKnows

(* The strengthened invariant holds in every state of the mutex. *)
THEOREM MutexInvariant == Spec => []IInv
<1>1. IInv /\ [Next]_vars => IInv'
  BY CallKeeps, AcquisitionKeeps, LockFailsKeeps, LockRetriesKeeps, TryLockFailsKeeps,
     UnlockCallKeeps, UnlockKeeps, StutterKeeps
     DEF Next, Step, Finished
<1>2. QED
  BY MutexInit, <1>1, PTL DEF Spec

(* mutex.hpp: the state has its types for every number of threads. *)
THEOREM MutexTypeCorrect == Spec => []TypeOK
<1>1. IInv => TypeOK
  BY DEF IInv
<1>2. QED
  BY MutexInvariant, <1>1, PTL

(* mutex.hpp: at most one thread is in a critical section, and MutexOwner names it. *)
THEOREM MutexExcludes == Spec => []OwnerHolds
<1>1. IInv => OwnerHolds
  BY DEF IInv
<1>2. QED
  BY MutexInvariant, <1>1, PTL

(* MutexImpl: contention_ counts the waiting and the woken threads exactly. *)
THEOREM ContentionIsExact == Spec => []ContentionCounts
<1>1. IInv => ContentionCounts
  BY DEF IInv
<1>2. QED
  BY MutexInvariant, <1>1, PTL

(* mutex.hpp: word, owner and counter agree. *)
THEOREM MutexWordIsExact == Spec => []WordIsExact
BY MutexExcludes, ContentionIsExact, PTL DEF WordIsExact

(* MutexImpl: nobody sleeps on a free mutex unless another thread is on its way to it. *)
THEOREM WakeupsAreNotLost == Spec => []NoLostWakeup
<1>1. IInv => NoLostWakeup
  BY DEF IInv
<1>2. QED
  BY MutexInvariant, <1>1, PTL

(* MutexImpl: what one critical section does happens before the next one. *)
THEOREM MutexOrders == Spec => []SectionsAreOrdered
<1>1. IInv => SectionsAreOrdered
  BY DEF IInv, HolderKnows, Holders, SectionsAreOrdered
<1>2. QED
  BY MutexInvariant, <1>1, PTL

(* mutex.hpp implements the abstract lock: taking the mutex, and the store that releases
   it, are its two steps; all others are invisible. *)
THEOREM MutexImplementsLock == Spec => ImplementsLock
<1>1. Init => Abstract!Init
  BY DEF Init, Abstract!Init, Holders
<1>2. IInv /\ [Next]_vars => [Abstract!Next]_(Abstract!vars)
  <2> SUFFICES ASSUME IInv, [Next]_vars PROVE [Abstract!Next]_(Abstract!vars)
    OBVIOUS
  <2>1. CASE UNCHANGED vars
    BY <2>1 DEF vars, Abstract!vars, Holders
  <2>2. ASSUME NEW t \in Thread, Call(t) \/ Step(t)
        PROVE  [Abstract!Next]_(Abstract!vars)
    <3> USE DEF Goto
    <3>1. CASE LockSucceeds(t) \/ TryLockSucceeds(t)
      <4>1. Holders = {} /\ Holders' = {t}
        BY <3>1 DEF IInv, TypeOK, OwnerHolds, Holders, LockSucceeds, TryLockSucceeds,
                    TryLockValue
      <4>2. QED
        BY <4>1 DEF Abstract!Next, Abstract!Lock
    <3>2. CASE Unlock(t)
      <4>1. t \in Holders /\ Holders' = Holders \ {t}
        BY <3>2 DEF IInv, TypeOK, OwnerHolds, Holders, Unlock
      <4>2. QED
        BY <4>1 DEF Abstract!Next, Abstract!Unlock
    <3>3. CASE \/ Call(t) \/ LockFails(t) \/ LockRetries(t)
               \/ TryLockFails(t) \/ unlock(t)
      <4>1. Holders' = Holders
        BY <3>3 DEF IInv, TypeOK, Holders, Call, lock, try_lock, LockFails, LockRetries,
                    TryLockFails, unlock
      <4>2. QED
        BY <4>1 DEF Abstract!vars
    <3>4. QED
      BY <2>2, <3>1, <3>2, <3>3 DEF Step
  <2>3. QED
    BY <2>1, <2>2 DEF Next, Finished
<1>3. QED
  BY MutexInvariant, <1>1, <1>2, PTL DEF Spec, ImplementsLock, Abstract!Spec

-----------------------------------------------------------------------------
(* timed_mutex.  The mutex is locked exactly while one thread holds it, whose id MutexOwner
   has until its unlock(). *)
TimedOwnerHolds ==
  /\ tValue[Locked] = IF T!Holders = {} THEN 0 ELSE 1
  /\ \A t, u \in T!Holders : t = u
  /\ \A t \in T!Holders : tPc[t] = "held" => tOwner = t

(* A parked thread is in the loop of Lock() or of TryLockTimed(). *)
TimedParked ==
  \A l \in Loc : \A t \in tWaiters[l] : l = Locked /\ tPc[t] \in {"exchange", "timed"}

TimedInv ==
  /\ T!TypeOK
  /\ TimedOwnerHolds
  /\ TimedParked
  /\ NoLostTimedWakeup

(* A step that leaves the word and the futex alone, and moves no thread into or out of the
   mutex or out of the loops, keeps all but the types. *)
LEMMA TimedQuiet ==
  ASSUME TimedInv, NEW t \in TimedThread, NEW l \in T!PC, T!Goto(t, l),
         tValue' = tValue, tWaiters' = tWaiters,
         tPc[t] \in {"idle", "cas"}, l \notin {"held", "store"},
         tOwner' = tOwner
  PROVE  TimedOwnerHolds' /\ TimedParked' /\ NoLostTimedWakeup'
<1> USE TimedAssumption DEF T!TimedMutexConstants, TimedInv, T!Goto, T!TypeOK, T!SyncTypeOK, T!PC
<1>1. T!Holders' = T!Holders
  BY DEF T!Holders
<1>2. TimedOwnerHolds'
  BY <1>1 DEF TimedOwnerHolds, T!Holders
<1>3. TimedParked'
  BY DEF TimedParked
<1>4. NoLostTimedWakeup'
  BY DEF NoLostTimedWakeup, T!NoLostTimedWakeup, T!Free, T!IsParked
<1>5. QED
  BY <1>2, <1>3, <1>4

(* The initial states satisfy the invariant. *)
LEMMA TimedInit == T!Init => TimedInv
  BY TimedAssumption DEF T!TimedMutexConstants, T!Init, T!SyncInit, TimedInv, T!TypeOK, T!SyncTypeOK,
     T!PC, TimedOwnerHolds, T!Holders, TimedParked, NoLostTimedWakeup, T!NoLostTimedWakeup

(* Calls, and failures of TryLock, change nothing that threads share. *)
LEMMA TimedCallKeeps ==
  ASSUME TimedInv, NEW t \in TimedThread,
         T!lock(t) \/ T!try_lock(t) \/ T!try_lock_for(t) \/ T!TryLockFails(t)
  PROVE  TimedInv'
<1> USE TimedAssumption DEF T!TimedMutexConstants
<1>1. T!TypeOK'
  BY DEF TimedInv, T!TypeOK, T!SyncTypeOK, T!PC, T!lock, T!try_lock, T!try_lock_for, T!Enter,
         T!TryLockFails, T!Load, T!Goto, T!syncVars
<1>2. PICK l \in {"exchange", "cas", "timed", "idle"} : T!Goto(t, l)
  BY DEF T!lock, T!try_lock, T!try_lock_for, T!Enter, T!TryLockFails
<1>3. /\ tValue' = tValue /\ tWaiters' = tWaiters /\ tOwner' = tOwner
      /\ tPc[t] \in {"idle", "cas"}
  BY DEF T!lock, T!try_lock, T!try_lock_for, T!Enter, T!TryLockFails, T!Load, T!syncVars
<1>4. QED
  BY <1>1, <1>2, <1>3, TimedQuiet DEF TimedInv, T!PC

(* Time passes a deadline. *)
LEMMA TimedDeadlineKeeps ==
  ASSUME TimedInv, NEW t \in TimedThread, T!DeadlinePasses(t)
  PROVE  TimedInv'
  BY DEF TimedInv, T!TypeOK, T!SyncTypeOK, T!DeadlinePasses, T!syncVars, TimedOwnerHolds, T!Holders,
         TimedParked, NoLostTimedWakeup, T!NoLostTimedWakeup, T!Free, T!IsParked

(* The exchange, or the compare_exchange, of a free mutex takes it. *)
LEMMA TimedAcquireKeeps ==
  ASSUME TimedInv, NEW t \in TimedThread, T!Acquire(t)
  PROVE  TimedInv' /\ T!Holders = {} /\ T!Holders' = {t}
<1> USE TimedAssumption DEF T!TimedMutexConstants, TimedInv, T!Acquire, T!Goto, T!Rmw, T!Clocks, T!Free
<1>1. T!TypeOK'
  BY DEF T!TypeOK, T!SyncTypeOK, T!PC
<1>2. T!Holders = {} /\ T!Holders' = {t}
  BY DEF T!TypeOK, TimedOwnerHolds, T!Holders
<1>3. TimedOwnerHolds'
  BY <1>2 DEF T!TypeOK, T!SyncTypeOK, TimedOwnerHolds, T!Holders
<1>4. TimedParked' /\ NoLostTimedWakeup'
  BY DEF T!TypeOK, T!SyncTypeOK, TimedParked, NoLostTimedWakeup, T!NoLostTimedWakeup, T!IsParked
<1>5. QED
  BY <1>1, <1>2, <1>3, <1>4

(* A thread parks, or times out, on a locked mutex only. *)
LEMMA TimedWaitKeeps ==
  ASSUME TimedInv, NEW t \in TimedThread,
         (\E spurious \in BOOLEAN : T!Wait(t, spurious)) \/ T!TimesOut(t)
  PROVE  TimedInv' /\ T!Holders' = T!Holders
<1> USE TimedAssumption DEF T!TimedMutexConstants, TimedInv, T!Wait, T!TimesOut, T!Goto, T!Rmw, T!Clocks,
        T!FutexWait
<1>1. T!TypeOK'
  BY DEF T!TypeOK, T!SyncTypeOK, T!PC
<1>2. T!Holders' = T!Holders
  BY DEF T!TypeOK, T!Holders
<1>3. TimedOwnerHolds'
  BY <1>2 DEF T!TypeOK, T!SyncTypeOK, TimedOwnerHolds, T!Holders
<1>4. TimedParked'
  BY DEF T!TypeOK, T!SyncTypeOK, TimedParked, T!IsParked
<1>5. NoLostTimedWakeup'
  BY DEF T!TypeOK, T!SyncTypeOK, NoLostTimedWakeup, T!NoLostTimedWakeup, T!Free
<1>6. QED
  BY <1>1, <1>2, <1>3, <1>4, <1>5

(* unlock() gives up the ownership and goes on to the store. *)
LEMMA TimedUnlockCallKeeps ==
  ASSUME TimedInv, NEW t \in TimedThread, T!unlock(t)
  PROVE  TimedInv' /\ T!Holders' = T!Holders
<1> USE TimedAssumption DEF T!TimedMutexConstants, TimedInv, T!unlock, T!Goto, T!syncVars
<1>1. T!TypeOK'
  BY DEF T!TypeOK, T!SyncTypeOK, T!PC
<1>2. T!Holders' = T!Holders /\ T!Holders = {t}
  BY DEF T!TypeOK, T!Holders, TimedOwnerHolds
<1>3. TimedOwnerHolds'
  BY <1>2 DEF T!TypeOK, TimedOwnerHolds
<1>4. TimedParked' /\ NoLostTimedWakeup'
  BY DEF T!TypeOK, T!SyncTypeOK, TimedParked, NoLostTimedWakeup, T!NoLostTimedWakeup, T!Free, T!IsParked
<1>5. QED
  BY <1>1, <1>2, <1>3, <1>4

(* The store frees the mutex; if anybody is parked, somebody is woken. *)
LEMMA TimedUnlockKeeps ==
  ASSUME TimedInv, NEW t \in TimedThread, T!Unlock(t)
  PROVE  TimedInv' /\ T!Holders = {t} /\ T!Holders' = {}
<1> USE TimedAssumption DEF T!TimedMutexConstants, TimedInv, T!Unlock, T!Goto
<1>1. PICK S \in T!ToWake : T!Store(t, Locked, 0, TRUE, S) /\ tWaiters' = T!Woken(Locked, S)
  OBVIOUS
<1>2. S \subseteq tWaiters[Locked] /\ (tWaiters[Locked] # {} => S # {})
  BY DEF T!ToWake, T!WakeOne
<1>3. T!Holders = {t} /\ T!Holders' = {}
  BY DEF T!TypeOK, TimedOwnerHolds, T!Holders
<1>4. T!TypeOK'
  BY <1>1 DEF T!TypeOK, T!SyncTypeOK, T!PC, T!Store, T!Clocks, T!Woken
<1>5. TimedOwnerHolds'
  BY <1>1, <1>3 DEF T!TypeOK, T!SyncTypeOK, TimedOwnerHolds, T!Store
<1>6. TimedParked'
  BY <1>1 DEF T!TypeOK, T!SyncTypeOK, TimedParked, T!Woken
<1>7. NoLostTimedWakeup'
  <2> SUFFICES ASSUME tWaiters'[Locked] # {}
               PROVE  \E u \in TimedThread : tPc'[u] \in {"exchange", "timed"} /\ ~T!IsParked(u)'
    BY DEF NoLostTimedWakeup, T!NoLostTimedWakeup
  <2>1. tWaiters[Locked] # {}
    BY <1>1 DEF T!TypeOK, T!SyncTypeOK, T!Woken
  <2>2. PICK u \in S : TRUE
    BY <1>2, <2>1
  <2>3. u \in TimedThread /\ tPc[u] \in {"exchange", "timed"} /\ u # t
    BY <1>2 DEF T!TypeOK, T!SyncTypeOK, TimedParked
  <2>4. ~T!IsParked(u)'
    BY <1>1, <1>2 DEF T!TypeOK, T!SyncTypeOK, TimedParked, T!IsParked, T!Woken
  <2>5. QED
    BY <2>3, <2>4 DEF T!TypeOK
<1>8. QED
  BY <1>3, <1>4, <1>5, <1>6, <1>7

(* A stuttering step keeps the invariant. *)
LEMMA TimedStutterKeeps == ASSUME TimedInv, UNCHANGED T!vars PROVE TimedInv'
  BY DEF T!vars, T!syncVars, TimedInv, T!TypeOK, T!SyncTypeOK, TimedOwnerHolds, T!Holders, TimedParked,
         NoLostTimedWakeup, T!NoLostTimedWakeup, T!Free, T!IsParked

(* The strengthened invariant holds in every state of the timed_mutex. *)
THEOREM TimedMutexInvariant == T!Spec => []TimedInv
<1>1. TimedInv /\ [T!Next]_(T!vars) => TimedInv'
  BY TimedCallKeeps, TimedDeadlineKeeps, TimedAcquireKeeps, TimedWaitKeeps, TimedUnlockCallKeeps,
     TimedUnlockKeeps, TimedStutterKeeps
     DEF T!Next, T!Call, T!Step, T!Finished
<1>2. QED
  BY TimedInit, <1>1, PTL DEF T!Spec

(* timed_mutex.hpp: a timed call that is woken and gives up takes no wake-up with it: nobody
   sleeps on a free mutex unless another thread is on its way to it. *)
THEOREM TimedWakeupsAreNotLost == T!Spec => []NoLostTimedWakeup
<1>1. TimedInv => NoLostTimedWakeup
  BY DEF TimedInv
<1>2. QED
  BY TimedMutexInvariant, <1>1, PTL

(* timed_mutex.hpp implements the abstract lock, whichever of its calls take it. *)
THEOREM TimedMutexImplementsLock == T!Spec => ImplementsTimedLock
<1>1. T!Init => T!Abstract!Init
  BY DEF T!Init, T!Abstract!Init, T!Holders
<1>2. TimedInv /\ [T!Next]_(T!vars) => [T!Abstract!Next]_(T!Abstract!vars)
  <2> SUFFICES ASSUME TimedInv, [T!Next]_(T!vars) PROVE [T!Abstract!Next]_(T!Abstract!vars)
    OBVIOUS
  <2>1. CASE UNCHANGED T!vars
    BY <2>1 DEF T!vars, T!Abstract!vars, T!Holders
  <2>2. ASSUME NEW t \in TimedThread, T!Call(t) \/ T!Step(t) \/ T!DeadlinePasses(t)
        PROVE  [T!Abstract!Next]_(T!Abstract!vars)
    <3>1. CASE T!Acquire(t)
      BY <3>1, TimedAcquireKeeps DEF T!Abstract!Next, T!Abstract!Lock
    <3>2. CASE T!Unlock(t)
      BY <3>2, TimedUnlockKeeps DEF T!Abstract!Next, T!Abstract!Unlock
    <3>3. CASE \/ T!lock(t) \/ T!try_lock(t) \/ T!try_lock_for(t) \/ T!TryLockFails(t)
               \/ T!DeadlinePasses(t)
      <4>1. T!Holders' = T!Holders
        BY <3>3 DEF TimedInv, T!TypeOK, T!Holders, T!lock, T!try_lock, T!try_lock_for, T!Enter,
                    T!TryLockFails, T!DeadlinePasses, T!Goto
      <4>2. QED
        BY <4>1 DEF T!Abstract!vars
    <3>4. CASE T!unlock(t) \/ (\E spurious \in BOOLEAN : T!Wait(t, spurious)) \/ T!TimesOut(t)
      BY <3>4, TimedUnlockCallKeeps, TimedWaitKeeps DEF T!Abstract!vars
    <3>5. QED
      BY <2>2, <3>1, <3>2, <3>3, <3>4 DEF T!Call, T!Step
  <2>3. QED
    BY <2>1, <2>2 DEF T!Next, T!Finished
<1>3. QED
  BY TimedMutexInvariant, <1>1, <1>2, PTL DEF T!Spec, ImplementsTimedLock, T!ImplementsTimedLock, T!Abstract!Spec
=============================================================================
