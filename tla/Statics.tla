------------------------------- MODULE Statics --------------------------------
(***************************************************************************)
(* Static and thread-local variables of the simulated program              *)
(* (user/static): the manager of the process registers them, constructs    *)
(* and destroys them in every simulation, and burns them with an aborted   *)
(* one; thread-local variables have a slot per thread, found by a key      *)
(* (user/static/thread_local). Values of variables are left out: what is   *)
(* kept is in which simulation a variable was constructed.                 *)
(*                                                                         *)
(* Destructors are code of the program: they can be preempted, and use     *)
(* other variables. Threads are switched in code of the program only, so a *)
(* step of the loops over slots and over variables goes on until the next  *)
(* destructor has begun. A program that uses a variable that is gone is    *)
(* not followed further (step "panic").                                    *)
(***************************************************************************)
EXTENDS Integers, Sequences, FiniteSets, SequencesExt

CONSTANTS
  Thread, Main,
  Globals,      \* static globals in the order of SortGlobals
  Manager,      \* the one of them that is the tls::Manager
  Locals,       \* statics declared in functions, constructed by their first visit
  ThreadLocal,  \* the variables that are thread_local
  Slow,         \* those whose constructor can be preempted or visits other locals
  Visited,      \* which variables the code of a thread comes by
  Uses,         \* ... and the destructor of a variable, or of its slots
  None,
  MaxRuns       \* bound: simulations

VARIABLES
  run,          \* number of the simulation
  step,         \* "off", "main", "locals" and "globals" (DestroyVars), "panic"
  alive,        \* threads
  var,          \* var_ or key_: None, or the simulation it was set in
  locals,       \* locals_ of the manager
  ctor,         \* the variables a thread is constructing, the innermost last
  table,        \* vars_ of tls::Manager; its length is count_
  slots,        \* initialised slots of a thread
  at,           \* the slot whose destructor a leaving thread is in, or 0
  leaked,       \* slots that have not been given back by threads that have exited
  cursor,       \* where the loops of DestroyVars are
  dtor,         \* the variable whose destructor DestroyVars is in, or None
  behind,       \* history: slots taken where Destroy had been already
  late          \* history: variables registered after main had returned, with the simulation

vars == <<run, step, alive, var, locals, ctor, table, slots, at, leaked, cursor, dtor, behind, late>>
program == <<alive, var, locals, ctor, table, slots, at, leaked, behind, late>>

Var == Range(Globals) \cup Locals

\* The constructor of a thread-local variable only takes a key.
StaticsConstants ==
  /\ Main \in Thread
  /\ Globals \in Seq(Range(Globals))
  /\ Manager \in Range(Globals) \ ThreadLocal
  /\ Range(Globals) \cap Locals = {}
  /\ Slow \subseteq Locals \ ThreadLocal
  /\ Visited \in [Thread -> SUBSET Var]
  /\ Uses \in [Var -> SUBSET Var]
  /\ None \notin Nat \cup Var
  /\ MaxRuns \in Nat

-----------------------------------------------------------------------------
\* Construction

Init ==
  /\ run = 0 /\ step = "off" /\ alive = {}
  /\ ctor = [t \in Thread |-> <<>>] /\ slots = [t \in Thread |-> {}] /\ at = [t \in Thread |-> 0]
  /\ leaked = {} /\ behind = {}
  /\ var = [v \in Var |-> None] /\ locals = <<>> /\ late = {}
  /\ table = <<>> /\ cursor = 0 /\ dtor = None

\* The keys handed out to the thread-local ones of the first n globals
Keys[n \in 0 .. Len(Globals)] ==
  IF n = 0 THEN <<>>
  ELSE IF Globals[n] \in ThreadLocal THEN Append(Keys[n - 1], Globals[n]) ELSE Keys[n - 1]

\* The main thread enters: ConstructGlobalVars. The tls::Manager is built anew; thread-local
\* globals only get their keys.
ConstructGlobalVars ==
  /\ step = "off" /\ run < MaxRuns
  /\ run' = run + 1 /\ step' = "main" /\ alive' = {Main}
  /\ var' = [v \in Var |-> IF v \in Range(Globals) THEN run + 1 ELSE var[v]]
  /\ table' = Keys[Len(Globals)]
  /\ UNCHANGED <<locals, ctor, slots, at, leaked, cursor, dtor, behind, late>>

\* A thread runs code of the program, perhaps a constructor or a destructor.
Active(t) == t \in alive /\ (step = "main" \/ dtor # None)

\* The variables this code comes by
Reach(t) ==
  IF t = Main /\ dtor # None THEN Uses[dtor]
  ELSE IF at[t] > 0 THEN Uses[table[at[t]]]
  ELSE Visited[t]

Panics == step' = "panic" /\ dtor' = None /\ UNCHANGED <<run, program, cursor>>

\* Visit and Access of tls::Manager initialise a slot of the calling thread.
Touch(t, i) ==
  /\ slots' = [slots EXCEPT ![t] = @ \cup {i}]
  /\ behind' = IF i <= at[t] \/ (t = Main /\ step # "main") THEN behind \cup {<<t, i>>} ELSE behind

\* The first visit: Register links the variable, constructs it and, if it is thread-local, its slot.
FirstVisit(t, v) ==
  /\ Active(t) /\ v \in Reach(t) \cap Locals /\ var[v] = None
  /\ IF v \in Range(locals)      \* "cannot link already linked node"
        \/ (v \in ThreadLocal /\ var[Manager] = None)
     THEN Panics
     ELSE /\ locals' = Append(locals, v)
          /\ late' = IF step = "main" THEN late ELSE late \cup {<<run, v>>}
          /\ IF v \in Slow
             THEN ctor' = [ctor EXCEPT ![t] = Append(@, v)] /\ UNCHANGED <<var, table, slots, behind>>
             ELSE /\ var' = [var EXCEPT ![v] = run]
                  /\ IF v \in ThreadLocal
                     THEN table' = Append(table, v) /\ Touch(t, Len(table) + 1)
                     ELSE UNCHANGED <<table, slots, behind>>
                  /\ UNCHANGED ctor
          /\ UNCHANGED <<run, step, alive, at, leaked, cursor, dtor>>

\* A preempted constructor ends, and var_ is set.
Constructed(t) ==
  /\ Active(t) /\ ctor[t] # <<>>
  /\ var' = [var EXCEPT ![Last(ctor[t])] = run]
  /\ ctor' = [ctor EXCEPT ![t] = Front(@)]
  /\ UNCHANGED <<run, step, alive, locals, table, slots, at, leaked, cursor, dtor, behind, late>>

\* key_: the one of the last registration
Key(v) == CHOOSE i \in DOMAIN table : table[i] = v /\ \A j \in DOMAIN table : table[j] = v => j <= i

\* A later visit or an access of a thread-local variable
AccessSlot(t, v) ==
  /\ Active(t) /\ v \in Reach(t) \cap ThreadLocal
  /\ var[v] = run /\ var[Manager] = run
  /\ Key(v) \notin slots[t] /\ Touch(t, Key(v))
  /\ UNCHANGED <<run, step, alive, var, locals, ctor, table, at, leaked, cursor, dtor, late>>

\* A use of a variable of an earlier simulation, of a global that has been destroyed, or of a
\* thread-local one without the tls::Manager
UseDead(t, v) ==
  /\ Active(t) /\ v \in Reach(t)
  /\ \/ var[v] \notin {None, run}
     \/ v \in Range(Globals) /\ var[v] = None
     \/ v \in ThreadLocal /\ var[v] = run /\ var[Manager] = None
  /\ Panics

-----------------------------------------------------------------------------
\* Threads

Spawn(t) ==
  /\ \E u \in Thread : Active(u)
  /\ t \notin alive /\ alive' = alive \cup {t}
  /\ UNCHANGED <<run, step, var, locals, ctor, table, slots, at, leaked, cursor, dtor, behind, late>>

Ahead_OffByOne(t) == {i \in slots[t] : at[t] < i /\ i < Len(table)}

\* The initialised slots that the loop of tls::Manager::Destroy has not come to
Ahead(t) == {i \in slots[t] : at[t] < i /\ i <= Len(table)}

\* A thread whose code, or the destructor it is in, has come to its end
Leaves(t) == Active(t) /\ ctor[t] = <<>> /\ (t = Main => step = "main")

\* Destroy, without its manager
DestroyFails(t) == Leaves(t) /\ at[t] = 0 /\ var[Manager] = None /\ Panics

\* ... up to the destructor of the next slot
DestroySlot(t) ==
  /\ Leaves(t) /\ (at[t] = 0 => var[Manager] # None)
  /\ \E i \in Ahead(t) :
       /\ \A j \in Ahead(t) : i <= j
       /\ slots' = [slots EXCEPT ![t] = @ \ {i}] /\ at' = [at EXCEPT ![t] = i]
  /\ UNCHANGED <<run, step, alive, var, locals, ctor, table, leaked, cursor, dtor, behind, late>>

\* ... and its end
ThreadExit(t) ==
  /\ Leaves(t) /\ (at[t] = 0 => var[Manager] # None)
  /\ t # Main /\ Ahead(t) = {}
  /\ leaked' = leaked \cup ({t} \X slots[t])
  /\ slots' = [slots EXCEPT ![t] = {}] /\ at' = [at EXCEPT ![t] = 0]
  /\ alive' = alive \ {t}
  /\ UNCHANGED <<run, step, var, locals, ctor, table, cursor, dtor, behind, late>>

\* Main has returned, its slots are gone, and DestroyVars starts with the last local.
MainReturns ==
  /\ Leaves(Main) /\ Ahead(Main) = {}
  /\ at' = [at EXCEPT ![Main] = 0]
  /\ step' = "locals" /\ cursor' = Len(locals)
  /\ UNCHANGED <<run, alive, var, locals, ctor, table, slots, leaked, dtor, behind, late>>

-----------------------------------------------------------------------------
\* DestroyVars

\* Dtor of a variable: a thread-local one gives up its key, the tls::Manager has nothing to do.
Dtor(v) ==
  /\ var' = [var EXCEPT ![v] = None]
  /\ dtor' = IF v \in ThreadLocal \cup {Manager} THEN None ELSE v
  /\ cursor' = cursor - 1
  /\ UNCHANGED <<run, step, alive, locals, ctor, table, slots, at, leaked, behind, late>>

\* "Static var not initialized": its constructor is not over, or it is of an earlier simulation.
DestroyLocal ==
  /\ step = "locals" /\ cursor > 0 /\ ctor[Main] = <<>>
  /\ IF locals[cursor] \in ThreadLocal \/ var[locals[cursor]] = run
     THEN Dtor(locals[cursor]) ELSE Panics

UnlinkLocals ==
  /\ step = "locals" /\ cursor = 0 /\ ctor[Main] = <<>>
  /\ step' = "globals" /\ locals' = <<>> /\ cursor' = Len(Globals) /\ dtor' = None
  /\ UNCHANGED <<run, alive, var, ctor, table, slots, at, leaked, behind, late>>

DestroyGlobal ==
  /\ step = "globals" /\ cursor > 0 /\ ctor[Main] = <<>>
  /\ Dtor(Globals[cursor])

Burnt_GlobalsOnly == [v \in Var |-> IF v \in Range(Globals) THEN None ELSE var[v]]

\* Globals and registered locals
Burnt == [v \in Var |-> IF v \in Range(Globals) \cup Range(locals) THEN None ELSE var[v]]

\* Nothing of the threads and of their memory is left, and the manager keeps its variables, ...
Over ==
  /\ step' = "off" /\ dtor' = None /\ alive' = {}
  /\ ctor' = [t \in Thread |-> <<>>] /\ slots' = [t \in Thread |-> {}] /\ at' = [t \in Thread |-> 0]
  /\ leaked' = {} /\ behind' = {}
  /\ UNCHANGED <<run, table, cursor, late>>

\* ... or, when the simulation is aborted, Simulator::Burn burns them as well.
Burn == Over /\ var' = Burnt /\ locals' = <<>>

\* The slots of threads that are gone, or of main after Destroy
Left == leaked \cup IF step \in {"locals", "globals"} THEN {Main} \X slots[Main] ELSE {}

\* The main thread exits. Other threads are burnt if they are detached ("There are alive threads
\* after main completion" otherwise); CheckMemory looks for leaks if none was.
MainCompleted ==
  /\ step = "globals" /\ cursor = 0 /\ ctor[Main] = <<>>
  /\ \/ alive # {Main} /\ Panics
     \/ (alive # {Main} \/ Left = {}) /\ Over /\ UNCHANGED <<var, locals>>
     \/ alive = {Main} /\ Left # {} /\ Burn

\* The simulation is aborted in code of the program.
BurnVars == (\E t \in Thread : Active(t)) /\ Burn

Next ==
  \/ ConstructGlobalVars \/ MainReturns
  \/ DestroyLocal \/ UnlinkLocals \/ DestroyGlobal \/ MainCompleted \/ BurnVars
  \/ \E t \in Thread :
       \/ Constructed(t) \/ Spawn(t) \/ DestroyFails(t) \/ DestroySlot(t) \/ ThreadExit(t)
       \/ \E v \in Var : FirstVisit(t, v) \/ AccessSlot(t, v) \/ UseDead(t, v)

Spec == Init /\ [][Next]_vars

-----------------------------------------------------------------------------
\* Properties

\* Type invariant
TypeOK ==
  /\ run \in Nat
  /\ step \in {"off", "main", "locals", "globals", "panic"}
  /\ alive \subseteq Thread
  /\ var \in [Var -> Nat \cup {None}]
  /\ locals \in Seq(Locals)
  /\ ctor \in [Thread -> Seq(Slow)]
  /\ table \in Seq(Var)
  /\ slots \in [Thread -> SUBSET Nat]
  /\ at \in [Thread -> Nat]
  /\ leaked \subseteq Thread \X Nat
  /\ cursor \in Nat
  /\ dtor \in Var \cup {None}
  /\ behind \subseteq Thread \X Nat
  /\ late \subseteq Nat \X Var

\* A slot owns heap memory. When its thread has gone it has been given back, whichever thread
\* registered its key and when, unless a destructor took it where the loop of
\* tls::Manager::Destroy had already been (thread_local/manager.hpp:57).
SlotsAreReleased == Left \subseteq behind

\* The manager outlives simulations. After one that has ended, with detached threads or without,
\* or was aborted in the middle of constructors, destructors or the life of threads, a variable is
\* set or linked only if it was registered when main had returned and DestroyVars had begun
\* (manager.hpp DestroyVars, BurnVars).
StaticsAreReset ==
  step = "off" =>
    /\ \A v \in Var : var[v] # None => <<var[v], v>> \in late
    /\ \A v \in Range(locals) : \E r \in 1 .. run : <<r, v>> \in late

\* A thread leaves no slot behind and a simulation no variable, but for those that destructors or
\* detached threads took or registered where Destroy and DestroyVars had already been: these do
\* stay, so the exception cannot be dropped.
OnlyLatecomersStay == SlotsAreReleased /\ StaticsAreReset
==============================================================================
