---------------------------- MODULE MCMemoryModel ----------------------------
(***************************************************************************)
(* The memory model with a main thread and two interchangeable ones. Each  *)
(* behaviour has atomics or a heap of one address, the latter with two     *)
(* threads.                                                                *)
(***************************************************************************)
EXTENDS MemoryModel, FiniteSets, TLC

CONSTANTS t1, t2, t3

VARIABLE part

MCThread == {t1, t2, t3}
Symmetry == Permutations({t2, t3})

MCInit == part \in {"atomics", "heap"} /\ Init

MCNext ==
  /\ UNCHANGED part
  /\ \E t \in Thread :
       \/ part = "atomics" /\ (ThreadStep(t) \/ VarStep(t) \/ AtomicStep(t))
       \/ /\ part = "heap" /\ (ThreadStep(t) \/ VarStep(t) \/ AllocStep(t))
          /\ Cardinality(spawned') <= 2

MCSpec == MCInit /\ [][MCNext]_<<part, vars>>
=============================================================================
