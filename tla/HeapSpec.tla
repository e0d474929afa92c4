------------------------------- MODULE HeapSpec -------------------------------
(***************************************************************************)
(* What the program is promised of the simulated heap: an allocation is a  *)
(* range of memory that no other live allocation touches, freed only when  *)
(* it is live, and a burnt simulation leaves nothing behind.               *)
(***************************************************************************)
EXTENDS Integers

CONSTANTS Address, Sizes

VARIABLE live   \* live allocations, [addr, size]

Apart(r, s) == r.addr # s.addr /\ (r.addr + r.size <= s.addr \/ s.addr + s.size <= r.addr)

Init == live = {}

Malloc(addr, size) ==
  /\ \A r \in live : Apart(r, [addr |-> addr, size |-> size])
  /\ live' = live \cup {[addr |-> addr, size |-> size]}

Free(r) == r \in live /\ live' = live \ {r}

Burn == live' = {}

Next ==
  \/ \E addr \in Address, size \in Sizes : Malloc(addr, size)
  \/ \E r \in live : Free(r)
  \/ Burn

Spec == Init /\ [][Next]_live
==============================================================================
