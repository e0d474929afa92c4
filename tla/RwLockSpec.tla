----------------------------- MODULE RwLockSpec -----------------------------
(***************************************************************************)
(* What a lock promises: it is held by one writer or by readers.  The      *)
(* specification that std_like::mutex and std_like::shared_mutex           *)
(* implement; a mutex never has readers.                                   *)
(***************************************************************************)
CONSTANT Thread

VARIABLES writers, readers

vars == <<writers, readers>>

Init == writers = {} /\ readers = {}

Lock(t) ==
  /\ writers = {} /\ readers = {}
  /\ writers' = {t}
  /\ UNCHANGED readers

Unlock(t) ==
  /\ t \in writers
  /\ writers' = writers \ {t}
  /\ UNCHANGED readers

LockShared(t) ==
  /\ writers = {}
  /\ t \notin readers
  /\ readers' = readers \cup {t}
  /\ UNCHANGED writers

UnlockShared(t) ==
  /\ t \in readers
  /\ readers' = readers \ {t}
  /\ UNCHANGED writers

Next == \E t \in Thread : Lock(t) \/ Unlock(t) \/ LockShared(t) \/ UnlockShared(t)

Spec == Init /\ [][Next]_vars
=============================================================================
