---------------------------- MODULE SignalEngine ----------------------------
(***************************************************************************)
(* The core of the uSEQ signal engine: cells, output programs, reactive    *)
(* recompilation, and the execute / commit pair of a tick                  *)
(* (uSEQ/src/signal_engine/cold_eval.cpp, graph_builder.cpp,               *)
(* executor.cpp, driven by Firmware::tick).                                *)
(*                                                                         *)
(* A form that arrives over serial is evaluated to completion inside one   *)
(* tick, so each form is one action and a tick's execution is another.     *)
(*                                                                         *)
(* Source texts are model values.  All the compiler can tell of a text is  *)
(* which cells it names and how (Refs) and whether it is wrong on its own  *)
(* (Broken).  The compiler turns a Number cell into a constant and a       *)
(* Callable cell into its body, so a compiled graph keeps the bindings as  *)
(* they were at compile time: it is modelled as the text it came from and  *)
(* the binding of every cell it was compiled from.                         *)
(*                                                                         *)
(* Cells that carry state (defstate) are not in this module.               *)
(***************************************************************************)
EXTENDS Naturals, FiniteSets

CONSTANTS
  Cell,          \* the symbols the user binds
  Output,        \* the outputs a1..a8, d1..d8, ...
  Text,          \* the source texts the user types
  Value,         \* the numbers, or vectors, a cell may hold
  Zero,          \* the value of a cell that was never bound
  NoText,        \* no source was ever stored
  NoGraph,       \* NODE_NONE
  Unread,        \* a cell that a graph was not compiled from
  Neutral,       \* what an output holds before any program drove it
  Refs,          \* Refs[t]: the <<cell, number of arguments>> pairs in t
  Broken,        \* texts that do not compile whatever the cells hold
  MaxOutputDeps, \* MAX_OUTPUT_DEPS
  ArenaMayFill,  \* may SourceArena::store run out of room?
  PoolMayFill    \* may NodePool::intern_node run out of nodes?

(* The arities of a callable: `define' binds an expression, which takes    *)
(* none; `defn' binds a function, and one parameter stands for any number. *)
Arity == {0, 1}

(* struct Cell with the CallableInfo of the same symbol.                   *)
Binding == [kind : {"Empty", "Number", "Data", "Callable"}, val : Value,
            text : Text \cup {NoText}, params : Arity]

Graph == [text : Text, env : [Cell -> Binding \cup {Unread}]]

ASSUME TextAssumption ==
  /\ NoText \notin Text
  /\ Broken \subseteq Text
  /\ Refs \in [Text -> SUBSET (Cell \X Arity)]

ASSUME ValueAssumption == /\ Zero \in Value
                          /\ NoGraph \notin Graph
                          /\ Neutral \notin Graph
                          /\ Unread \notin Binding

ASSUME LimitAssumption == /\ MaxOutputDeps \in Nat
                          /\ ArenaMayFill \in BOOLEAN
                          /\ PoolMayFill \in BOOLEAN

VARIABLES
  cells,   \* cells.cells[] and cells.callables[]
  source,  \* output_sources[]
  root,    \* pool.outputs[].root_node
  valid,   \* pool.outputs[].valid
  lkg,     \* pool.outputs[].lkg_value: the graph that computed it
  deps,    \* pool.output_deps[]
  out,     \* Firmware::output_values[]: the graph that computed it
  playing  \* state.is_playing

vars == <<cells, source, root, valid, lkg, deps, out, playing>>

-----------------------------------------------------------------------------
(* Compilation.                                                            *)

Named(t) == IF t \in Text THEN {r[1] : r \in Refs[t]} ELSE {}

(* S is closed when it holds the cells named by the body of each Callable  *)
(* in it.                                                                  *)
Closed(S, cs) ==
  \A c \in S : cs[c].kind = "Callable" => Named(cs[c].text) \subseteq S

(* Every cell met when t is compiled, through inlined bodies as well: the  *)
(* least closed set that holds the cells t names.                          *)
Reach(t, cs) ==
  {c \in Cell : \A S \in SUBSET Cell :
                  Named(t) \subseteq S /\ Closed(S, cs) => c \in S}

(* A bare symbol may name a value or an expression cell; a call must name  *)
(* a callable and give it the arguments it wants.                          *)
LegalRef(r, cs) ==
  \/ r[2] = 0 /\ cs[r[1]].kind \in {"Number", "Data"}
  \/ cs[r[1]].kind = "Callable" /\ cs[r[1]].params = r[2]

LegalText(t, cs) == /\ t \in Text \ Broken
                    /\ \A r \in Refs[t] : LegalRef(r, cs)

(* build_output_graph reports no error: t and every inlined body is legal, *)
(* and no callable reaches itself.                                         *)
Compiles(t, cs) ==
  /\ LegalText(t, cs)
  /\ \A c \in Reach(t, cs) : cs[c].kind = "Callable" =>
       /\ LegalText(cs[c].text, cs)
       /\ c \notin Reach(cs[c].text, cs)

(* The part of a binding the compiler reads: a redefinition leaves the     *)
(* other part as it was.                                                   *)
Read(b) == IF b.kind = "Callable" THEN [b EXCEPT !.val = Zero]
                                  ELSE [b EXCEPT !.text = NoText, !.params = 0]

GraphOf(t, cs) ==
  [text |-> t,
   env  |-> [c \in Cell |-> IF c \in Reach(t, cs) THEN Read(cs[c]) ELSE Unread]]

(* What a build that reports no error may return: with the pool full, the  *)
(* root itself is NODE_NONE.                                               *)
Built(t, cs) == {GraphOf(t, cs)} \cup (IF PoolMayFill THEN {NoGraph} ELSE {})

(* The dependencies recorded for a program that reaches R: add_dependency  *)
(* drops what does not fit.                                                *)
Recorded(R) == IF Cardinality(R) <= MaxOutputDeps
               THEN {R}
               ELSE {D \in SUBSET R : Cardinality(D) = MaxOutputDeps}

(* Can a text be stored?  A failed store leaves the old source in place.   *)
StoreOutcome == IF ArenaMayFill THEN {TRUE, FALSE} ELSE {TRUE}

-----------------------------------------------------------------------------
(* on_cell_changed(c), with the cells already changed to cs: recompile     *)
(* every output that has a graph and recorded c as a dependency.  The      *)
(* graph and `valid' are replaced, the recorded dependencies are not.      *)
AffectedIfValid(c) ==   \* mutant: an output marked invalid is skipped
  {o \in Output : valid[o] /\ c \in deps[o] /\ source[o] # NoText}

Affected(c) == {o \in Output : root[o] # NoGraph /\ c \in deps[o] /\ source[o] # NoText}

CellChanged(c, cs) ==
  LET recompiled == {o \in Affected(c) : Compiles(source[o], cs)}
  IN /\ \E lost \in SUBSET (IF PoolMayFill THEN recompiled ELSE {}) :
          root' = [o \in Output |-> IF o \in lost THEN NoGraph
                                    ELSE IF o \in recompiled THEN GraphOf(source[o], cs)
                                    ELSE root[o]]
     /\ valid' = [o \in Output |-> o \in recompiled \/ (valid[o] /\ o \notin Affected(c))]
     /\ UNCHANGED <<source, deps, lkg, out, playing>>

(* Give cell c the new binding b and recompile what depends on it.         *)
Rebind(c, b) == /\ cells' = [cells EXCEPT ![c] = b]
                /\ CellChanged(c, [cells EXCEPT ![c] = b])

(* (define c 3) and (define c [1 2 3]).                                    *)
DefineLiteral(c, k, v) == Rebind(c, [cells[c] EXCEPT !.kind = k, !.val = v])

(* (set c e): e is evaluated at once, and what is left is a number.  A set *)
(* whose expression does not compile changes nothing.                      *)
SetCell(c, v) == Rebind(c, [cells[c] EXCEPT !.kind = "Number", !.val = v])

(* Bind a callable: with the arena full it gets the last text stored for   *)
(* that symbol, which may be none.                                         *)
BindCallable(c, t, n) ==
  \E stored \in StoreOutcome :
    Rebind(c, [cells[c] EXCEPT !.kind = "Callable", !.params = n,
                               !.text = IF stored THEN t ELSE @])

DefineExpression(c, t) == BindCallable(c, t, 0)

DefineFunction(c, t) == BindCallable(c, t, 1)

(* (a1 t).  The source is stored before t is compiled; a text that does    *)
(* not compile marks the output invalid and leaves its graph in place.     *)
StoreSource(o, t) ==
  \E stored \in StoreOutcome :
    source' = [source EXCEPT ![o] = IF stored THEN t ELSE @]

AssignOutput(o, t) ==
  /\ Compiles(t, cells)
  /\ StoreSource(o, t)
  /\ \E g \in Built(t, cells) : root' = [root EXCEPT ![o] = g]
  /\ \E D \in Recorded(Reach(t, cells)) : deps' = [deps EXCEPT ![o] = D]
  /\ valid' = [valid EXCEPT ![o] = TRUE]
  /\ UNCHANGED <<cells, lkg, out, playing>>

RejectAndDrop(o, t) ==   \* mutant: an error drops the active graph
  /\ ~Compiles(t, cells)
  /\ StoreSource(o, t)
  /\ valid' = [valid EXCEPT ![o] = FALSE]
  /\ root' = [root EXCEPT ![o] = NoGraph]
  /\ UNCHANGED <<cells, deps, lkg, out, playing>>

RejectOutput(o, t) ==
  /\ ~Compiles(t, cells)
  /\ StoreSource(o, t)
  /\ valid' = [valid EXCEPT ![o] = FALSE]
  /\ UNCHANGED <<cells, root, deps, lkg, out, playing>>

(* (useq-clear): the cells and the recorded dependencies stay.             *)
UseqClear ==
  /\ root' = [o \in Output |-> NoGraph]
  /\ valid' = [o \in Output |-> FALSE]
  /\ lkg' = [o \in Output |-> Neutral]
  /\ source' = [o \in Output |-> NoText]
  /\ UNCHANGED <<cells, deps, out, playing>>

(* (useq-play); (useq-pause) and (useq-stop).                              *)
SetPlaying(b) == /\ playing' = b
                 /\ UNCHANGED <<cells, source, root, valid, lkg, deps, out>>

(* The execution of one tick: execute_all_outputs, then commit_outputs.    *)
Sample(o) == IF root[o] # NoGraph THEN root[o]
             ELSE IF valid[o] THEN lkg[o]
             ELSE out[o]

TickValidOnly ==   \* mutant: an output marked invalid is not executed
  /\ playing
  /\ out' = [o \in Output |-> IF valid[o] THEN Sample(o) ELSE out[o]]
  /\ lkg' = [o \in Output |-> IF valid[o] THEN Sample(o) ELSE lkg[o]]
  /\ UNCHANGED <<cells, source, root, valid, deps, playing>>

TickStaleFallback ==   \* mutant: the fallback is promoted for valid outputs only
  /\ playing
  /\ out' = [o \in Output |-> Sample(o)]
  /\ lkg' = [o \in Output |-> IF root[o] # NoGraph /\ valid[o] THEN Sample(o) ELSE lkg[o]]
  /\ valid' = [o \in Output |-> valid[o] \/ root[o] # NoGraph]
  /\ UNCHANGED <<cells, source, root, deps, playing>>

Tick ==
  /\ playing
  /\ out' = [o \in Output |-> Sample(o)]
  /\ lkg' = [o \in Output |-> IF root[o] # NoGraph THEN Sample(o) ELSE lkg[o]]
  /\ valid' = [o \in Output |-> valid[o] \/ root[o] # NoGraph]
  /\ UNCHANGED <<cells, source, root, deps, playing>>

-----------------------------------------------------------------------------
Init ==
  /\ cells = [c \in Cell |-> [kind |-> "Empty", val |-> Zero, text |-> NoText, params |-> 0]]
  /\ source = [o \in Output |-> NoText]
  /\ root = [o \in Output |-> NoGraph]
  /\ valid = [o \in Output |-> FALSE]
  /\ lkg = [o \in Output |-> Neutral]
  /\ deps = [o \in Output |-> {}]
  /\ out = [o \in Output |-> Neutral]
  /\ playing = TRUE

DefineCell ==
  \E c \in Cell :
    \/ \E k \in {"Number", "Data"}, v \in Value : DefineLiteral(c, k, v)
    \/ \E v \in Value : SetCell(c, v)
    \/ \E t \in Text : DefineExpression(c, t)
    \/ \E t \in Text : DefineFunction(c, t)

ProgramOutput ==
  \E o \in Output, t \in Text : AssignOutput(o, t) \/ RejectOutput(o, t)

Next == DefineCell \/ ProgramOutput \/ UseqClear \/ (\E b \in BOOLEAN : SetPlaying(b)) \/ Tick

(* loop() calls tick() for ever, so a tick that can execute does.          *)
Spec == Init /\ [][Next]_vars /\ WF_vars(Tick)

-----------------------------------------------------------------------------
TypeOK ==
  /\ cells \in [Cell -> Binding]
  /\ source \in [Output -> Text \cup {NoText}]
  /\ root \in [Output -> Graph \cup {NoGraph}]
  /\ valid \in [Output -> BOOLEAN]
  /\ lkg \in [Output -> Graph \cup {Neutral}]
  /\ deps \in [Output -> SUBSET Cell]
  /\ out \in [Output -> Graph \cup {Neutral}]
  /\ playing \in BOOLEAN

(* An output runs its stored source when the graph was built from the text *)
(* that is on record for it.                                               *)
RunsItsSource(o) == root[o] # NoGraph /\ root[o].text = source[o]

(* An output whose every reachable cell is a recorded dependency follows   *)
(* the cells: its graph is what its source compiles to now, or its source  *)
(* does not compile now.  on_cell_changed recompiles only by recorded      *)
(* dependency and never records new ones, so this is as much as it keeps.  *)
TrackedIsCurrent ==
  \A o \in Output :
    RunsItsSource(o) /\ Reach(source[o], cells) \subseteq deps[o]
      => root[o] = GraphOf(source[o], cells) \/ ~Compiles(source[o], cells)

(* What takes the graph of a running output away is useq-clear, or a build *)
(* of its own program that reports no error and for which the node pool    *)
(* has no room: of a text it is given, or of its source after a            *)
(* redefinition.  No error, of its own text or of another output's, does,  *)
(* no redefinition under which its source does not compile, and no tick:   *)
(* every error path of cold_eval.cpp leaves the root in place.             *)
RunningSurvives ==
  [][\A o \in Output : root[o] # NoGraph /\ root'[o] = NoGraph =>
       \/ UseqClear
       \/ /\ PoolMayFill
          /\ \/ \E t \in Text : AssignOutput(o, t)
             \/ DefineCell /\ Compiles(source[o], cells')]_vars

(* What an output falls back on when its graph is lost is what it drove    *)
(* last, or neutral: commit_outputs keeps lkg_value in step with           *)
(* output_values on every path, so no older program is ever heard again.   *)
FallbackIsLast == \A o \in Output : lkg[o] \in {out[o], Neutral}

(* A graph that is installed while the engine plays is heard and reported  *)
(* healthy, unless it is replaced, dropped or the engine pauses first.     *)
ProgramIsHeard ==
  \A o \in Output :
    (root[o] # NoGraph /\ playing)
      ~> (\/ out[o] = root[o] /\ valid[o]
          \/ root[o] = NoGraph
          \/ ~playing)

=============================================================================
