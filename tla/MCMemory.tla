------------------------------ MODULE MCMemory ------------------------------
(***************************************************************************)
(* The heap and the static variables of a simulation: each behaviour is    *)
(* one of the heap or one of the statics.                                  *)
(***************************************************************************)
EXTENDS Heap

CONSTANTS
  Thread, Main, Globals, Manager, Locals, ThreadLocal, Slow, Visited, Uses, None, MaxRuns,  \* of Statics
  main, worker, object, manager, global, slow, shared, cached                               \* values for TLC

VARIABLES part, run, step, alive, var, locals, ctor, table, slots, at, leaked, cursor, dtor, behind, late

statics == <<run, step, alive, var, locals, ctor, table, slots, at, leaked, cursor, dtor, behind, late>>

MCGlobals == <<object, manager, global>>

MCVisited == [t \in {main, worker} |->
                IF t = main THEN {global, shared} ELSE {global, cached, shared, slow}]

\* Every destructor uses all thread-local variables.
UsesThreadLocals == [v \in {object, manager, global, slow, shared, cached} |-> {global, cached}]

St == INSTANCE Statics

ASSUME StaticsAssumption == St!StaticsConstants

MCInit == part \in {"heap", "statics"} /\ Init /\ St!Init

MCNext ==
  \/ part = "heap" /\ Next /\ UNCHANGED <<part, statics>>
  \/ part = "statics" /\ St!Next /\ UNCHANGED <<part, vars>>

MCSpec == MCInit /\ [][MCNext]_<<part, vars, statics>>

\* See Statics: only what destructors and detached threads take behind the loops of Destroy and
\* DestroyVars outlives its thread or its simulation.
OnlyLatecomersStay == St!OnlyLatecomersStay
==============================================================================
