------------------------- MODULE FlashStorageProofs -------------------------
(***************************************************************************)
(* Theorems about SignalEngine, and about FlashStorage which extends it,   *)
(* for every value of their constants.                                     *)
(***************************************************************************)
EXTENDS FlashStorage, TLAPS

-----------------------------------------------------------------------------
(* The signal engine.                                                      *)
(* The cells a text names are cells.                                       *)
LEMMA NamedAreCells == \A t : Named(t) \subseteq Cell
  BY TextAssumption DEF Named, Arity

(* Reach is itself one of the closed sets it is the least of.              *)
LEMMA ReachIsClosed ==
  ASSUME NEW t, NEW cs
  PROVE  /\ Reach(t, cs) \subseteq Cell
         /\ Named(t) \subseteq Reach(t, cs)
         /\ Closed(Reach(t, cs), cs)
<1>1. Reach(t, cs) \subseteq Cell
  BY DEF Reach
<1>2. Named(t) \subseteq Reach(t, cs)
  BY NamedAreCells DEF Reach
<1>3. Closed(Reach(t, cs), cs)
  <2> SUFFICES ASSUME NEW c \in Reach(t, cs), cs[c].kind = "Callable",
                      NEW d \in Named(cs[c].text)
               PROVE  d \in Reach(t, cs)
    BY DEF Closed
  <2>1. d \in Cell
    BY NamedAreCells
  <2>2. ASSUME NEW S \in SUBSET Cell, Named(t) \subseteq S, Closed(S, cs)
        PROVE  d \in S
    <3>1. c \in S
      BY <2>2 DEF Reach
    <3> QED
      BY <2>2, <3>1 DEF Closed
  <2> QED
    BY <2>1, <2>2 DEF Reach
<1> QED
  BY <1>1, <1>2, <1>3

(* Reach is contained in every closed set of cells that holds the cells    *)
(* the text names.                                                         *)
LEMMA ReachIsLeast ==
  ASSUME NEW t, NEW cs, NEW S \in SUBSET Cell, Named(t) \subseteq S, Closed(S, cs)
  PROVE  Reach(t, cs) \subseteq S
  BY DEF Reach

(* Two stores that agree on what a text reaches in the first reach the     *)
(* same cells in both.                                                     *)
LEMMA ReachIsLocal ==
  ASSUME NEW t, NEW cs, NEW ds, \A c \in Reach(t, cs) : ds[c] = cs[c]
  PROVE  Reach(t, ds) = Reach(t, cs)
<1>1. Closed(Reach(t, cs), ds)
  BY ReachIsClosed DEF Closed
<1>2. Reach(t, ds) \subseteq Reach(t, cs)
  BY <1>1, ReachIsClosed, ReachIsLeast
<1>3. Closed(Reach(t, ds), cs)
  BY <1>2, ReachIsClosed DEF Closed
<1>4. Reach(t, cs) \subseteq Reach(t, ds)
  BY <1>3, ReachIsClosed, ReachIsLeast
<1> QED
  BY <1>2, <1>4

(* The body of a callable that a text reaches reaches nothing the text     *)
(* does not.                                                               *)
LEMMA BodyReachesLess ==
  ASSUME NEW t, NEW cs, NEW c \in Reach(t, cs), cs[c].kind = "Callable"
  PROVE  Reach(cs[c].text, cs) \subseteq Reach(t, cs)
  BY ReachIsClosed, ReachIsLeast DEF Closed

(* Whether a text compiles, and to what, is settled by the cells it        *)
(* reaches.                                                                *)
LEMMA LegalIsLocal ==
  ASSUME NEW t, NEW cs, NEW ds, \A c \in Named(t) : ds[c] = cs[c], LegalText(t, cs)
  PROVE  LegalText(t, ds)
<1>1. t \in Text /\ Named(t) = {r[1] : r \in Refs[t]}
  BY DEF LegalText, Named
<1>2. \A r \in Refs[t] : ds[r[1]] = cs[r[1]]
  BY <1>1
<1> QED
  BY <1>1, <1>2 DEF LegalText, LegalRef

LEMMA CompilesIsLocal ==
  ASSUME NEW t, NEW cs, NEW ds, \A c \in Reach(t, cs) : ds[c] = cs[c], Compiles(t, cs)
  PROVE  Compiles(t, ds)
<1>1. Reach(t, ds) = Reach(t, cs)
  BY ReachIsLocal
<1>2. LegalText(t, ds)
  BY LegalIsLocal, ReachIsClosed DEF Compiles
<1>3. ASSUME NEW c \in Reach(t, ds), ds[c].kind = "Callable"
      PROVE  LegalText(ds[c].text, ds) /\ c \notin Reach(ds[c].text, ds)
  <2>1. /\ c \in Reach(t, cs)
        /\ ds[c] = cs[c]
        /\ cs[c].kind = "Callable"
    BY <1>1, <1>3
  <2>2. Reach(cs[c].text, cs) \subseteq Reach(t, cs)
    BY <2>1, BodyReachesLess
  <2>3. LegalText(cs[c].text, cs) /\ c \notin Reach(cs[c].text, cs)
    BY <2>1 DEF Compiles
  <2>4. \A d \in Reach(cs[c].text, cs) : ds[d] = cs[d]
    BY <2>2
  <2>5. Reach(cs[c].text, ds) = Reach(cs[c].text, cs)
    BY <2>4, ReachIsLocal
  <2>6. LegalText(cs[c].text, ds)
    BY <2>3, <2>4, LegalIsLocal, ReachIsClosed
  <2> QED
    BY <2>1, <2>3, <2>5, <2>6
<1> QED
  BY <1>2, <1>3 DEF Compiles

LEMMA GraphIsLocal ==
  ASSUME NEW t, NEW cs, NEW ds, \A c \in Reach(t, cs) : ds[c] = cs[c]
  PROVE  GraphOf(t, ds) = GraphOf(t, cs)
<1>1. Reach(t, ds) = Reach(t, cs)
  BY ReachIsLocal
<1>2. \A c \in Cell : (IF c \in Reach(t, ds) THEN Read(ds[c]) ELSE Unread)
                       = (IF c \in Reach(t, cs) THEN Read(cs[c]) ELSE Unread)
  BY <1>1
<1> QED
  BY <1>2 DEF GraphOf

-----------------------------------------------------------------------------
(* Types.                                                                  *)

LEMMA GraphType ==
  ASSUME NEW t \in Text, NEW cs \in [Cell -> Binding]
  PROVE  GraphOf(t, cs) \in Graph
<1>1. \A b \in Binding : Read(b) \in Binding
  BY ValueAssumption DEF Read, Binding, Arity
<1>2. \A c \in Cell : (IF c \in Reach(t, cs) THEN Read(cs[c]) ELSE Unread)
                       \in Binding \cup {Unread}
  BY <1>1
<1> QED
  BY <1>2 DEF GraphOf, Graph

LEMMA RebindType ==
  ASSUME TypeOK, NEW c \in Cell, NEW b \in Binding, Rebind(c, b)
  PROVE  TypeOK'
<1> DEFINE cs == [cells EXCEPT ![c] = b]
           recompiled == {o \in Affected(c) : Compiles(source[o], cs)}
<1>1. cs \in [Cell -> Binding]
  BY DEF TypeOK
<1>2. PICK lost \in SUBSET (IF PoolMayFill THEN recompiled ELSE {}) :
        root' = [o \in Output |-> IF o \in lost THEN NoGraph
                                  ELSE IF o \in recompiled THEN GraphOf(source[o], cs)
                                  ELSE root[o]]
  BY DEF Rebind, CellChanged
<1>3. \A o \in Output : source[o] # NoText => GraphOf(source[o], cs) \in Graph
  BY <1>1, GraphType DEF TypeOK
<1>4. \A o \in recompiled : source[o] # NoText
  BY DEF Affected
<1> HIDE DEF recompiled
<1>5. root' \in [Output -> Graph \cup {NoGraph}]
  BY <1>2, <1>3, <1>4 DEF TypeOK
<1>6. valid' \in [Output -> BOOLEAN]
  <2>1. valid' = [o \in Output |-> o \in recompiled \/ (valid[o] /\ o \notin Affected(c))]
    BY DEF Rebind, CellChanged, recompiled
  <2>2. \A o \in Output : (o \in recompiled \/ (valid[o] /\ o \notin Affected(c))) \in BOOLEAN
    BY Zenon DEF TypeOK
  <2> QED
    BY <2>1, <2>2, Zenon
<1>7. cells' \in [Cell -> Binding]
  BY <1>1 DEF Rebind
<1> QED
  BY <1>5, <1>6, <1>7 DEF TypeOK, Rebind, CellChanged

(* Every redefinition of a cell is a Rebind to a binding.                  *)
LEMMA DefineIsRebind ==
  ASSUME TypeOK, DefineCell
  PROVE  \E c \in Cell, b \in Binding : Rebind(c, b)
<1>1. ASSUME NEW c \in Cell, NEW k \in {"Number", "Data"}, NEW v \in Value
      PROVE  /\ [cells[c] EXCEPT !.kind = k, !.val = v] \in Binding
             /\ [cells[c] EXCEPT !.kind = "Number", !.val = v] \in Binding
  BY DEF TypeOK, Binding
<1>2. ASSUME NEW c \in Cell, NEW t \in Text, NEW n \in Arity, NEW stored \in BOOLEAN
      PROVE  [cells[c] EXCEPT !.kind = "Callable", !.params = n,
                              !.text = IF stored THEN t ELSE @] \in Binding
  BY DEF TypeOK, Binding
<1>3. ASSUME NEW c \in Cell, NEW t \in Text, NEW n \in Arity, BindCallable(c, t, n)
      PROVE  \E b \in Binding : Rebind(c, b)
  BY <1>2, <1>3 DEF BindCallable, StoreOutcome
<1>4. PICK c \in Cell :
        \/ \E k \in {"Number", "Data"}, v \in Value : DefineLiteral(c, k, v)
        \/ \E v \in Value : SetCell(c, v)
        \/ \E t \in Text : DefineExpression(c, t)
        \/ \E t \in Text : DefineFunction(c, t)
  BY DEF DefineCell
<1>5. CASE \E k \in {"Number", "Data"}, v \in Value : DefineLiteral(c, k, v)
  BY <1>1, <1>5 DEF DefineLiteral
<1>6. CASE \E v \in Value : SetCell(c, v)
  BY <1>1, <1>6 DEF SetCell
<1>7. CASE \E t \in Text : DefineExpression(c, t)
  BY <1>3, <1>7 DEF DefineExpression, Arity
<1>8. CASE \E t \in Text : DefineFunction(c, t)
  BY <1>3, <1>8 DEF DefineFunction, Arity
<1> QED
  BY <1>4, <1>5, <1>6, <1>7, <1>8

(* TypeOK is inductive, and so an invariant.                               *)
LEMMA TypeStep == TypeOK /\ [Next]_vars => TypeOK'
<1> SUFFICES ASSUME TypeOK, [Next]_vars
             PROVE  TypeOK'
  OBVIOUS
<1>1. CASE DefineCell
  BY <1>1, DefineIsRebind, RebindType
<1>2. ASSUME NEW o \in Output, NEW t \in Text, AssignOutput(o, t)
      PROVE  TypeOK'
  <2>1. source' \in [Output -> Text \cup {NoText}]
    BY <1>2 DEF AssignOutput, StoreSource, TypeOK
  <2>2. root' \in [Output -> Graph \cup {NoGraph}]
    <3>1. GraphOf(t, cells) \in Graph
      BY GraphType DEF TypeOK
    <3> QED
      BY <1>2, <3>1 DEF AssignOutput, Built, TypeOK
  <2>3. deps' \in [Output -> SUBSET Cell]
    <3>1. Recorded(Reach(t, cells)) \subseteq SUBSET Cell
      BY ReachIsClosed DEF Recorded
    <3> QED
      BY <1>2, <3>1 DEF AssignOutput, TypeOK
  <2>4. valid' \in [Output -> BOOLEAN]
    BY <1>2 DEF AssignOutput, TypeOK
  <2> QED
    BY <1>2, <2>1, <2>2, <2>3, <2>4 DEF AssignOutput, TypeOK
<1>3. ASSUME NEW o \in Output, NEW t \in Text, RejectOutput(o, t)
      PROVE  TypeOK'
  <2>1. source' \in [Output -> Text \cup {NoText}]
    BY <1>3 DEF RejectOutput, StoreSource, TypeOK
  <2>2. valid' \in [Output -> BOOLEAN]
    BY <1>3 DEF RejectOutput, TypeOK
  <2> QED
    BY <1>3, <2>1, <2>2 DEF RejectOutput, TypeOK
<1>4. CASE UseqClear
  BY <1>4 DEF UseqClear, TypeOK
<1>5. ASSUME NEW b \in BOOLEAN, SetPlaying(b)
      PROVE  TypeOK'
  BY <1>5 DEF SetPlaying, TypeOK
<1>6. CASE Tick
  <2>1. \A o \in Output : Sample(o) \in Graph \cup {Neutral}
    BY DEF Sample, TypeOK
  <2>2. out' \in [Output -> Graph \cup {Neutral}] /\ lkg' \in [Output -> Graph \cup {Neutral}]
    BY <1>6, <2>1 DEF Tick, TypeOK
  <2>3. valid' \in [Output -> BOOLEAN]
    <3>1. \A o \in Output : (valid[o] \/ root[o] # NoGraph) \in BOOLEAN
      BY Zenon DEF TypeOK
    <3> QED
      BY <1>6, <3>1, Zenon DEF Tick
  <2> QED
    BY <1>6, <2>2, <2>3 DEF Tick, TypeOK
<1>7. CASE UNCHANGED vars
  BY <1>7 DEF vars, TypeOK
<1> QED
  BY <1>1, <1>2, <1>3, <1>4, <1>5, <1>6, <1>7 DEF Next, ProgramOutput

(* Every variable keeps its type: roots are graphs or NODE_NONE, recorded  *)
(* dependencies are cells, whatever is evaluated and whatever fills up.    *)
THEOREM TypeCorrect == Spec => []TypeOK
<1>1. Init => TypeOK
  BY ValueAssumption DEF Init, TypeOK, Binding, Arity
<1> QED
  BY <1>1, TypeStep, PTL DEF Spec

-----------------------------------------------------------------------------
(* Tracking.  A redefinition of c is the only step that can change what a  *)
(* program means; when c is not recorded, and all that the program reaches *)
(* is, the program does not reach c and means what it did.                 *)
LEMMA RebindTracks ==
  ASSUME TypeOK, TrackedIsCurrent, NEW c \in Cell, NEW b \in Binding, Rebind(c, b)
  PROVE  TrackedIsCurrent'
<1> DEFINE cs == [cells EXCEPT ![c] = b]
           recompiled == {o \in Affected(c) : Compiles(source[o], cs)}
<1>1. /\ cells' = cs
      /\ source' = source
      /\ deps' = deps
  BY DEF Rebind, CellChanged
<1>2. PICK lost \in SUBSET (IF PoolMayFill THEN recompiled ELSE {}) :
        root' = [o \in Output |-> IF o \in lost THEN NoGraph
                                  ELSE IF o \in recompiled THEN GraphOf(source[o], cs)
                                  ELSE root[o]]
  BY DEF Rebind, CellChanged
<1>3. \A d \in Cell : d # c => cs[d] = cells[d]
  BY DEF TypeOK
<1>4. lost \subseteq recompiled
  BY <1>2
<1> HIDE DEF cs
<1> SUFFICES ASSUME NEW o \in Output, RunsItsSource(o)',
                    Reach(source[o], cs) \subseteq deps[o]
             PROVE  root'[o] = GraphOf(source[o], cs) \/ ~Compiles(source[o], cs)
  BY <1>1 DEF TrackedIsCurrent
<1>5. CASE c \notin deps[o]
  <2>1. root'[o] = root[o]
    BY <1>2, <1>4, <1>5 DEF Affected
  <2>2. RunsItsSource(o)
    BY <1>1, <2>1 DEF RunsItsSource
  <2>3. \A d \in Reach(source[o], cs) : cells[d] = cs[d]
    BY <1>3, <1>5, ReachIsClosed
  <2>4. /\ Reach(source[o], cells) = Reach(source[o], cs)
        /\ GraphOf(source[o], cells) = GraphOf(source[o], cs)
    BY <2>3, ReachIsLocal, GraphIsLocal
  <2>5. root[o] = GraphOf(source[o], cells) \/ ~Compiles(source[o], cells)
    BY <2>2, <2>4 DEF TrackedIsCurrent
  <2>6. Compiles(source[o], cs) => Compiles(source[o], cells)
    BY <2>3, CompilesIsLocal
  <2> QED
    BY <2>1, <2>4, <2>5, <2>6
<1>6. CASE c \in deps[o]
  <2>1. root'[o] # NoGraph /\ root'[o].text = source[o]
    BY <1>1 DEF RunsItsSource
  <2>2. root[o] # NoGraph
    BY <1>2, <1>4, <2>1 DEF Affected
  <2>3. source[o] # NoText
    <3>1. root'[o] \in Graph
      BY RebindType, <2>1 DEF TypeOK
    <3> QED
      BY <2>1, <3>1, TextAssumption DEF Graph
  <2>4. o \in Affected(c)
    BY <1>6, <2>2, <2>3 DEF Affected
  <2> QED
    BY <1>2, <2>1, <2>4
<1> QED
  BY <1>5, <1>6

LEMMA TrackingStep == TypeOK /\ TrackedIsCurrent /\ [Next]_vars => TrackedIsCurrent'
<1> SUFFICES ASSUME TypeOK, TrackedIsCurrent, [Next]_vars
             PROVE  TrackedIsCurrent'
  OBVIOUS
<1>1. CASE DefineCell
  BY <1>1, DefineIsRebind, RebindTracks
<1>2. ASSUME NEW o \in Output, NEW t \in Text, AssignOutput(o, t)
      PROVE  TrackedIsCurrent'
  <2> SUFFICES ASSUME NEW p \in Output, RunsItsSource(p)',
                      (Reach(source[p], cells) \subseteq deps[p])'
               PROVE  (root[p] = GraphOf(source[p], cells) \/ ~Compiles(source[p], cells))'
    BY DEF TrackedIsCurrent
  <2>1. CASE p = o
    <3>1. root'[o] \in Built(t, cells) /\ root'[o] # NoGraph
      BY <1>2, <2>1 DEF AssignOutput, RunsItsSource, TypeOK
    <3>2. root'[o] = GraphOf(t, cells)
      BY <3>1 DEF Built
    <3>3. source'[o] = t
      BY <3>2, <2>1 DEF RunsItsSource, GraphOf
    <3> QED
      BY <1>2, <2>1, <3>2, <3>3 DEF AssignOutput
  <2>2. CASE p # o
    <3>1. /\ root'[p] = root[p]
          /\ source'[p] = source[p]
          /\ deps'[p] = deps[p]
          /\ cells' = cells
      BY <1>2, <2>2 DEF AssignOutput, StoreSource, TypeOK
    <3> QED
      BY <3>1 DEF TrackedIsCurrent, RunsItsSource
  <2> QED
    BY <2>1, <2>2
<1>3. ASSUME NEW o \in Output, NEW t \in Text, RejectOutput(o, t)
      PROVE  TrackedIsCurrent'
  <2> SUFFICES ASSUME NEW p \in Output, RunsItsSource(p)',
                      (Reach(source[p], cells) \subseteq deps[p])'
               PROVE  (root[p] = GraphOf(source[p], cells) \/ ~Compiles(source[p], cells))'
    BY DEF TrackedIsCurrent
  <2>1. /\ root'[p] = root[p]
        /\ deps'[p] = deps[p]
        /\ cells' = cells
        /\ source'[p] = source[p] \/ source'[p] = t
    BY <1>3 DEF RejectOutput, StoreSource, TypeOK
  <2>2. CASE source'[p] = source[p]
    BY <2>1, <2>2 DEF TrackedIsCurrent, RunsItsSource
  <2>3. CASE source'[p] = t
    BY <1>3, <2>1, <2>3 DEF RejectOutput
  <2> QED
    BY <2>1, <2>2, <2>3
<1>4. CASE UseqClear
  BY <1>4 DEF UseqClear, TrackedIsCurrent, RunsItsSource
<1>5. ASSUME NEW b \in BOOLEAN, SetPlaying(b)
      PROVE  TrackedIsCurrent'
  BY <1>5 DEF SetPlaying, TrackedIsCurrent, RunsItsSource
<1>6. CASE Tick
  BY <1>6 DEF Tick, TrackedIsCurrent, RunsItsSource
<1>7. CASE UNCHANGED vars
  BY <1>7 DEF vars, TrackedIsCurrent, RunsItsSource
<1> QED
  BY <1>1, <1>2, <1>3, <1>4, <1>5, <1>6, <1>7 DEF Next, ProgramOutput

(* In every reachable state an output all of whose reachable cells are     *)
(* recorded dependencies runs what its source compiles to in the present   *)
(* cells, or its source does not compile in them: on_cell_changed misses   *)
(* an output only when the dependency list misses a cell.                  *)
THEOREM TrackedOutputsAreCurrent == Spec => []TrackedIsCurrent
<1>1. Init => TypeOK /\ TrackedIsCurrent
  BY ValueAssumption DEF Init, TypeOK, Binding, Arity, TrackedIsCurrent, RunsItsSource
<1>2. TypeOK /\ TrackedIsCurrent /\ [Next]_vars => (TypeOK /\ TrackedIsCurrent)'
  BY TypeStep, TrackingStep
<1> QED
  BY <1>1, <1>2, PTL DEF Spec

-----------------------------------------------------------------------------
(* Fallback.                                                               *)
LEMMA FallbackStep == TypeOK /\ FallbackIsLast /\ [Next]_vars => FallbackIsLast'
<1> SUFFICES ASSUME TypeOK, FallbackIsLast, [Next]_vars
             PROVE  FallbackIsLast'
  OBVIOUS
<1>1. CASE UNCHANGED <<lkg, out>>
  BY <1>1 DEF FallbackIsLast
<1>2. CASE UseqClear
  BY <1>2 DEF UseqClear, FallbackIsLast
<1>3. CASE Tick
  BY <1>3 DEF Tick, Sample, FallbackIsLast
<1>4. CASE DefineCell
  BY <1>1, <1>4, DefineIsRebind DEF Rebind, CellChanged
<1>5. CASE ProgramOutput
  BY <1>1, <1>5 DEF ProgramOutput, AssignOutput, RejectOutput
<1> QED
  BY <1>1, <1>2, <1>3, <1>4, <1>5 DEF Next, SetPlaying, vars

(* Whatever an output would fall back on is what it drove last, or the     *)
(* neutral value, even when the pool fills and takes its graph away.       *)
THEOREM FallbackIsLastDriven == Spec => []FallbackIsLast
<1>1. Init => TypeOK /\ FallbackIsLast
  BY ValueAssumption DEF Init, TypeOK, Binding, Arity, FallbackIsLast
<1>2. TypeOK /\ FallbackIsLast /\ [Next]_vars => (TypeOK /\ FallbackIsLast)'
  BY TypeStep, FallbackStep
<1> QED
  BY <1>1, <1>2, PTL DEF Spec

-----------------------------------------------------------------------------
(* Survival.                                                               *)
LEMMA RebindKeepsGraphs ==
  ASSUME TypeOK, NEW c \in Cell, NEW b \in Binding, Rebind(c, b),
         NEW o \in Output, root[o] # NoGraph, root'[o] = NoGraph
  PROVE  PoolMayFill /\ Compiles(source[o], cells')
<1> DEFINE cs == [cells EXCEPT ![c] = b]
           recompiled == {p \in Affected(c) : Compiles(source[p], cs)}
<1>1. PICK lost \in SUBSET (IF PoolMayFill THEN recompiled ELSE {}) :
        root' = [p \in Output |-> IF p \in lost THEN NoGraph
                                  ELSE IF p \in recompiled THEN GraphOf(source[p], cs)
                                  ELSE root[p]]
  BY DEF Rebind, CellChanged
<1>2. ASSUME o \in recompiled
      PROVE  GraphOf(source[o], cs) # NoGraph
  <2>1. source[o] \in Text
    BY <1>2 DEF Affected, TypeOK
  <2>2. cs \in [Cell -> Binding]
    BY DEF TypeOK
  <2> QED
    BY <2>1, <2>2, GraphType, ValueAssumption
<1>3. cells' = cs
  BY DEF Rebind
<1>4. o \in lost
  <2> HIDE DEF recompiled, cs
  <2> QED
    BY <1>1, <1>2
<1>5. PoolMayFill /\ o \in recompiled
  <2> HIDE DEF recompiled
  <2> QED
    BY <1>4
<1> QED
  BY <1>3, <1>5

LEMMA SurvivalStep ==
  ASSUME TypeOK, Next, NEW o \in Output,
         root[o] # NoGraph, root'[o] = NoGraph
  PROVE  \/ UseqClear
         \/ /\ PoolMayFill
            /\ \/ \E t \in Text : AssignOutput(o, t)
               \/ DefineCell /\ Compiles(source[o], cells')
<1>1. CASE DefineCell
  BY <1>1, DefineIsRebind, RebindKeepsGraphs
<1>2. ASSUME NEW p \in Output, NEW t \in Text, AssignOutput(p, t)
      PROVE  PoolMayFill /\ p = o
  <2>1. PICK g \in Built(t, cells) : root' = [root EXCEPT ![p] = g]
    BY <1>2 DEF AssignOutput
  <2>2. GraphOf(t, cells) # NoGraph
    BY GraphType, ValueAssumption DEF TypeOK
  <2>3. p = o /\ g = NoGraph
    BY <2>1 DEF TypeOK
  <2> QED
    BY <2>2, <2>3 DEF Built
<1>3. ASSUME NEW p \in Output, NEW t \in Text, RejectOutput(p, t)
      PROVE  FALSE
  BY <1>3 DEF RejectOutput
<1>4. ASSUME NEW b \in BOOLEAN, SetPlaying(b)
      PROVE  FALSE
  BY <1>4 DEF SetPlaying
<1>5. CASE Tick
  BY <1>5 DEF Tick
<1> QED
  BY <1>1, <1>2, <1>3, <1>4, <1>5 DEF Next, ProgramOutput

(* A running output loses its graph only to useq-clear or to a build of    *)
(* its own program, without an error, that a full node pool has no room    *)
(* for: no rejected text, whichever output it was for, no redefinition     *)
(* under which the output does not compile and no tick takes it away,      *)
(* whatever may fill up (cold_eval.cpp:466-482, on_cell_changed).          *)
THEOREM RunningOutputsSurvive == Spec => RunningSurvives
<1>1. TypeOK /\ [Next]_vars
        => [\A o \in Output : root[o] # NoGraph /\ root'[o] = NoGraph =>
              \/ UseqClear
              \/ /\ PoolMayFill
                 /\ \/ \E t \in Text : AssignOutput(o, t)
                    \/ DefineCell /\ Compiles(source[o], cells')]_vars
  BY SurvivalStep
<1> QED
  BY <1>1, TypeCorrect, PTL DEF Spec, RunningSurvives

-----------------------------------------------------------------------------
(* Flash storage.                                                         *)
(* The cells as a compilation sees them.                                   *)
Seen(cs) == [c \in Cell |-> Read(cs[c])]

LEMMA ReadKeeps ==
  ASSUME NEW b \in Binding
  PROVE  /\ Read(b) \in Binding
         /\ Read(b).kind = b.kind
         /\ b.kind = "Callable" => Read(b).text = b.text /\ Read(b).params = b.params
         /\ Read(Read(b)) = Read(b)
  BY ValueAssumption DEF Read, Binding, Arity

(* A compilation takes nothing from a store but what it sees.              *)
LEMMA SeenReaches ==
  ASSUME NEW t, NEW cs \in [Cell -> Binding]
  PROVE  Reach(t, Seen(cs)) = Reach(t, cs)
<1>1. \A c \in Cell : /\ Seen(cs)[c].kind = cs[c].kind
                      /\ cs[c].kind = "Callable" => Seen(cs)[c].text = cs[c].text
  BY ReadKeeps DEF Seen
<1>2. \A S \in SUBSET Cell : Closed(S, Seen(cs)) <=> Closed(S, cs)
  BY <1>1 DEF Closed
<1> QED
  BY <1>2 DEF Reach

LEMMA SeenLegal ==
  ASSUME NEW t, NEW cs \in [Cell -> Binding]
  PROVE  LegalText(t, Seen(cs)) <=> LegalText(t, cs)
<1>1. \A c \in Cell : /\ Seen(cs)[c].kind = cs[c].kind
                      /\ cs[c].kind = "Callable" => Seen(cs)[c].params = cs[c].params
  BY ReadKeeps DEF Seen
<1>2. ASSUME t \in Text
      PROVE  \A r \in Refs[t] : LegalRef(r, Seen(cs)) <=> LegalRef(r, cs)
  <2>1. \A r \in Refs[t] : r[1] \in Cell
    BY <1>2, TextAssumption
  <2> QED
    BY <1>1, <2>1 DEF LegalRef
<1> QED
  BY <1>2 DEF LegalText

LEMMA SeenCompiles ==
  ASSUME NEW t, NEW cs \in [Cell -> Binding]
  PROVE  /\ Compiles(t, Seen(cs)) <=> Compiles(t, cs)
         /\ GraphOf(t, Seen(cs)) = GraphOf(t, cs)
<1>1. Reach(t, cs) \subseteq Cell
  BY ReachIsClosed
<1>2. \A c \in Cell : /\ Seen(cs)[c].kind = cs[c].kind
                      /\ cs[c].kind = "Callable" => Seen(cs)[c].text = cs[c].text
                      /\ Read(Seen(cs)[c]) = Read(cs[c])
  BY ReadKeeps DEF Seen
<1>3. \A u : /\ Reach(u, Seen(cs)) = Reach(u, cs)
             /\ LegalText(u, Seen(cs)) <=> LegalText(u, cs)
  BY SeenReaches, SeenLegal
<1>4. Compiles(t, Seen(cs)) <=> Compiles(t, cs)
  BY <1>1, <1>2, <1>3 DEF Compiles
<1>5. \A c \in Cell : (IF c \in Reach(t, Seen(cs)) THEN Read(Seen(cs)[c]) ELSE Unread)
                       = (IF c \in Reach(t, cs) THEN Read(cs[c]) ELSE Unread)
  BY <1>2, <1>3
<1> QED
  BY <1>4, <1>5 DEF GraphOf

(* Stores that look alike where a text reaches compile it alike.           *)
LEMMA AlikeCompiles ==
  ASSUME NEW t, NEW cs \in [Cell -> Binding], NEW ds \in [Cell -> Binding],
         \A c \in Reach(t, cs) : Read(ds[c]) = Read(cs[c])
  PROVE  /\ Compiles(t, cs) => Compiles(t, ds)
         /\ GraphOf(t, ds) = GraphOf(t, cs)
<1>1. \A c \in Reach(t, Seen(cs)) : Seen(ds)[c] = Seen(cs)[c]
  BY SeenReaches, ReachIsClosed DEF Seen
<1>2. Compiles(t, Seen(cs)) => Compiles(t, Seen(ds))
  BY <1>1, CompilesIsLocal
<1>3. GraphOf(t, Seen(ds)) = GraphOf(t, Seen(cs))
  BY <1>1, GraphIsLocal
<1> QED
  BY <1>2, <1>3, SeenCompiles

(* A graph tells what the text it came from saw.                           *)
LEMMA SameGraph ==
  ASSUME NEW t, NEW cs \in [Cell -> Binding], NEW ds \in [Cell -> Binding],
         GraphOf(t, ds) = GraphOf(t, cs)
  PROVE  \A c \in Reach(t, cs) : Read(ds[c]) = Read(cs[c])
<1> SUFFICES ASSUME NEW c \in Reach(t, cs)
             PROVE  Read(ds[c]) = Read(cs[c])
  OBVIOUS
<1>1. c \in Cell
  BY ReachIsClosed
<1>2. GraphOf(t, cs).env[c] = Read(cs[c])
  BY <1>1 DEF GraphOf
<1>3. GraphOf(t, ds).env[c] = IF c \in Reach(t, ds) THEN Read(ds[c]) ELSE Unread
  BY <1>1 DEF GraphOf
<1>4. Read(cs[c]) # Unread
  BY <1>1, ReadKeeps, ValueAssumption
<1> QED
  BY <1>2, <1>3, <1>4

-----------------------------------------------------------------------------
(* What runs was compiled: it is what its text compiled to in some store.  *)
WasCompiled(g) ==
  \E cs \in [Cell -> Binding] : Compiles(g.text, cs) /\ g = GraphOf(g.text, cs)

RunsCompiled == \A o \in Output : root[o] # NoGraph => WasCompiled(root[o])

(* A program that ran its source when it was saved compiles in the cells   *)
(* that were saved with it.                                                *)
SavedCompiles ==
  file \in Patch => \A o \in file.running : Compiles(file.source[o], file.cells)

FlashInv == FlashTypeOK /\ RunsCompiled /\ SavedCompiles

-----------------------------------------------------------------------------
(* Types.                                                                  *)
LEMMA RestoredType ==
  ASSUME NEW b \in Binding
  PROVE  Restored(b) \in Binding
  BY ValueAssumption, RoundedAssumption DEF Restored, Blank, Binding, Arity

LEMMA BootWithType ==
  ASSUME NEW cs \in [Cell -> Binding], NEW src \in [Output -> Text \cup {NoText}],
         BootWith(cs, src)
  PROVE  TypeOK'
<1> DEFINE built == {o \in Output : Compiles(src[o], cs)}
<1>1. PICK lost \in SUBSET (IF PoolMayFill THEN built ELSE {}) :
        root' = [o \in Output |-> IF o \in built \ lost THEN GraphOf(src[o], cs) ELSE NoGraph]
  BY DEF BootWith, RecompileAll
<1>2. \A o \in built : GraphOf(src[o], cs) \in Graph
  BY GraphType DEF Compiles, LegalText
<1>3. root' \in [Output -> Graph \cup {NoGraph}]
  BY <1>1, <1>2
<1>4. valid' \in [Output -> BOOLEAN]
  <2>1. valid' = [o \in Output |-> o \in built]
    BY DEF BootWith, RecompileAll
  <2> HIDE DEF built
  <2>2. \A o \in Output : (o \in built) \in BOOLEAN
    OBVIOUS
  <2> QED
    BY <2>1, <2>2, Zenon
<1>5. deps' \in [Output -> SUBSET Cell]
  BY DEF BootWith, RecompileAll
<1> QED
  BY <1>3, <1>4, <1>5 DEF TypeOK, BootWith

LEMMA BootIsBootWith ==
  ASSUME FlashTypeOK, Boot
  PROVE  \E cs \in [Cell -> Binding], src \in [Output -> Text \cup {NoText}] : BootWith(cs, src)
<1>1. CASE file \in {NoFile, Damaged}
  <2>1. Blank \in Binding
    BY ValueAssumption DEF Blank, Binding, Arity
  <2> QED
    BY <1>1, <2>1 DEF Boot
<1>2. CASE file \notin {NoFile, Damaged}
  <2>1. file \in Patch
    BY <1>2 DEF FlashTypeOK
  <2>2. [c \in Cell |-> Restored(file.cells[c])] \in [Cell -> Binding]
    BY <2>1, RestoredType DEF Patch
  <2> QED
    BY <1>2, <2>1, <2>2 DEF Boot, Patch
<1> QED
  BY <1>1, <1>2

LEMMA FlashTypeStep == FlashTypeOK /\ [FlashNext]_flashVars => FlashTypeOK'
<1> SUFFICES ASSUME FlashTypeOK, [FlashNext]_flashVars
             PROVE  FlashTypeOK'
  OBVIOUS
<1>1. CASE Next /\ UNCHANGED file
  BY <1>1, TypeStep DEF FlashTypeOK
<1>2. CASE Save
  <2>1. TypeOK'
    BY <1>2, TypeStep DEF Save, FlashTypeOK
  <2>2. file' \in Patch
    BY <1>2 DEF Save, Patch, FlashTypeOK, TypeOK
  <2> QED
    BY <2>1, <2>2 DEF FlashTypeOK
<1>3. CASE SaveFails \/ Erase
  BY <1>3, TypeStep DEF SaveFails, Erase, FlashTypeOK
<1>4. CASE Boot
  <2>1. TypeOK' /\ file' = file
    BY <1>4, BootIsBootWith, BootWithType DEF BootWith
  <2> QED
    BY <2>1 DEF FlashTypeOK
<1>5. CASE UNCHANGED flashVars
  BY <1>5, TypeStep DEF flashVars, FlashTypeOK
<1> QED
  BY <1>1, <1>2, <1>3, <1>4, <1>5 DEF FlashNext

LEMMA FlashInitType == FlashInit => FlashTypeOK
  BY ValueAssumption DEF FlashInit, FlashTypeOK, Init, TypeOK, Binding, Arity

(* The engine and the file keep their types through saves and resets.      *)
THEOREM FlashTypeCorrect == FlashSpec => []FlashTypeOK
  BY FlashInitType, FlashTypeStep, PTL DEF FlashSpec

-----------------------------------------------------------------------------
(* The engine's own properties survive a boot.                             *)
LEMMA BootTracks ==
  ASSUME FlashTypeOK, Boot
  PROVE  TrackedIsCurrent'
<1>1. PICK cs \in [Cell -> Binding], src \in [Output -> Text \cup {NoText}] : BootWith(cs, src)
  BY BootIsBootWith
<1>2. cells' = cs /\ source' = src
  BY <1>1 DEF BootWith
<1>3. \A o \in Output : root'[o] # NoGraph => root'[o] = GraphOf(src[o], cs)
  BY <1>1 DEF BootWith, RecompileAll
<1> QED
  BY <1>2, <1>3 DEF TrackedIsCurrent, RunsItsSource

LEMMA BootNeutral ==
  ASSUME FlashTypeOK, Boot
  PROVE  FallbackIsLast'
  BY BootIsBootWith DEF BootWith, FallbackIsLast

(* A step of FlashNext is a boot or one the engine takes or stutters on.   *)
LEMMA BootOrEngine ==
  ASSUME [FlashNext]_flashVars
  PROVE  Boot \/ [Next]_vars
  BY DEF FlashNext, Save, SaveFails, Erase, flashVars

(* What TrackedOutputsAreCurrent says of the engine holds through saves    *)
(* and resets: a boot leaves no output behind the cells it was restored    *)
(* with, and the dependencies it records are as good as an assignment's.   *)
THEOREM TrackedThroughResets == FlashSpec => []TrackedIsCurrent
<1>1. FlashInit => FlashTypeOK /\ TrackedIsCurrent
  BY FlashInitType DEF FlashInit, Init, TrackedIsCurrent, RunsItsSource
<1>2. FlashTypeOK /\ TrackedIsCurrent /\ [FlashNext]_flashVars
        => (FlashTypeOK /\ TrackedIsCurrent)'
  BY FlashTypeStep, BootOrEngine, BootTracks, TrackingStep DEF FlashTypeOK
<1> QED
  BY <1>1, <1>2, PTL DEF FlashSpec

(* No output falls back on a program from before a reset.                  *)
THEOREM FallbackThroughResets == FlashSpec => []FallbackIsLast
<1>1. FlashInit => FlashTypeOK /\ FallbackIsLast
  BY FlashInitType DEF FlashInit, Init, FallbackIsLast
<1>2. FlashTypeOK /\ FallbackIsLast /\ [FlashNext]_flashVars
        => (FlashTypeOK /\ FallbackIsLast)'
  BY FlashTypeStep, BootOrEngine, BootNeutral, FallbackStep DEF FlashTypeOK
<1> QED
  BY <1>1, <1>2, PTL DEF FlashSpec

-----------------------------------------------------------------------------
(* What comes back.  A program that runs was compiled, so one that ran its *)
(* source when it was saved compiles in the cells saved with it; a boot    *)
(* restores what its compilation sees.                                     *)
LEMMA CompiledNow ==
  ASSUME NEW t \in Text, NEW cs \in [Cell -> Binding], Compiles(t, cs)
  PROVE  WasCompiled(GraphOf(t, cs))
<1>1. GraphOf(t, cs).text = t
  BY DEF GraphOf
<1> QED
  BY <1>1 DEF WasCompiled

LEMMA RebindRunsCompiled ==
  ASSUME TypeOK, RunsCompiled, NEW c \in Cell, NEW b \in Binding, Rebind(c, b)
  PROVE  RunsCompiled'
<1> DEFINE cs == [cells EXCEPT ![c] = b]
           recompiled == {o \in Affected(c) : Compiles(source[o], cs)}
<1>1. cs \in [Cell -> Binding]
  BY DEF TypeOK
<1>2. \A o \in recompiled : WasCompiled(GraphOf(source[o], cs))
  BY <1>1, CompiledNow DEF Compiles, LegalText
<1>3. \A o \in Output : \/ root'[o] = NoGraph
                        \/ o \in recompiled /\ root'[o] = GraphOf(source[o], cs)
                        \/ root'[o] = root[o]
  BY DEF Rebind, CellChanged
<1> QED
  BY <1>2, <1>3 DEF RunsCompiled

LEMMA EngineRunsCompiled ==
  ASSUME TypeOK, RunsCompiled, [Next]_vars
  PROVE  RunsCompiled'
<1>1. CASE DefineCell
  BY <1>1, DefineIsRebind, RebindRunsCompiled
<1>2. ASSUME NEW o \in Output, NEW t \in Text, AssignOutput(o, t)
      PROVE  RunsCompiled'
  <2>1. WasCompiled(GraphOf(t, cells))
    BY <1>2, CompiledNow DEF AssignOutput, TypeOK
  <2>2. \A p \in Output : \/ root'[p] = NoGraph
                          \/ root'[p] = GraphOf(t, cells)
                          \/ root'[p] = root[p]
    BY <1>2 DEF AssignOutput, Built, TypeOK
  <2> QED
    BY <2>1, <2>2 DEF RunsCompiled
<1>3. CASE UseqClear
  BY <1>3 DEF UseqClear, RunsCompiled
<1>4. CASE root' = root
  BY <1>4 DEF RunsCompiled
<1> QED
  BY <1>1, <1>2, <1>3, <1>4
  DEF Next, ProgramOutput, RejectOutput, SetPlaying, Tick, vars

LEMMA BootRunsCompiled ==
  ASSUME FlashTypeOK, Boot
  PROVE  RunsCompiled'
<1>1. PICK cs \in [Cell -> Binding], src \in [Output -> Text \cup {NoText}] : BootWith(cs, src)
  BY BootIsBootWith
<1>2. \A o \in Output : root'[o] # NoGraph => /\ Compiles(src[o], cs)
                                              /\ root'[o] = GraphOf(src[o], cs)
  BY <1>1 DEF BootWith, RecompileAll
<1>3. \A o \in Output : Compiles(src[o], cs) => WasCompiled(GraphOf(src[o], cs))
  BY CompiledNow DEF Compiles, LegalText
<1> QED
  BY <1>2, <1>3 DEF RunsCompiled

LEMMA CurrentCompiles ==
  ASSUME TypeOK, RunsCompiled, NEW o \in Output, IsCurrent(o)
  PROVE  Compiles(source[o], cells)
<1>1. PICK cs \in [Cell -> Binding] : /\ Compiles(source[o], cs)
                                      /\ root[o] = GraphOf(source[o], cs)
  BY DEF IsCurrent, RunsItsSource, RunsCompiled, WasCompiled
<1>2. cells \in [Cell -> Binding] /\ GraphOf(source[o], cells) = GraphOf(source[o], cs)
  BY <1>1 DEF TypeOK, IsCurrent
<1>3. \A c \in Reach(source[o], cs) : Read(cells[c]) = Read(cs[c])
  BY <1>2, SameGraph
<1> QED
  BY <1>1, <1>2, <1>3, AlikeCompiles

LEMMA FlashStep == FlashInv /\ [FlashNext]_flashVars => FlashInv'
<1> SUFFICES ASSUME FlashInv, [FlashNext]_flashVars
             PROVE  FlashInv'
  OBVIOUS
<1>1. FlashTypeOK'
  BY FlashTypeStep DEF FlashInv
<1>2. RunsCompiled'
  BY BootOrEngine, BootRunsCompiled, EngineRunsCompiled DEF FlashInv, FlashTypeOK
<1>3. SavedCompiles'
  <2>1. CASE Save
    BY <2>1, CurrentCompiles DEF Save, SavedCompiles, FlashInv, FlashTypeOK
  <2>2. CASE SaveFails \/ Erase
    BY <2>2, FileAssumption DEF SaveFails, Erase, SavedCompiles
  <2>3. CASE UNCHANGED file
    BY <2>3 DEF SavedCompiles, FlashInv
  <2> QED
    BY <2>1, <2>2, <2>3, BootIsBootWith
    DEF FlashNext, flashVars, BootWith, FlashInv
<1> QED
  BY <1>1, <1>2, <1>3 DEF FlashInv

(* Nothing that a text which compiles reaches is empty.                    *)
LEMMA ReachIsBound ==
  ASSUME NEW t, NEW cs, Compiles(t, cs)
  PROVE  \A c \in Reach(t, cs) : cs[c].kind # "Empty"
<1> DEFINE S == {c \in Reach(t, cs) : cs[c].kind # "Empty"}
<1>1. ASSUME NEW u, LegalText(u, cs), Named(u) \subseteq Reach(t, cs)
      PROVE  Named(u) \subseteq S
  BY <1>1 DEF LegalText, LegalRef, Named
<1>2. Named(t) \subseteq S
  BY <1>1, ReachIsClosed DEF Compiles
<1>3. \A c \in S : cs[c].kind = "Callable" => Named(cs[c].text) \subseteq S
  BY <1>1, ReachIsClosed DEF Compiles, Closed
<1>4. S \in SUBSET Cell /\ Closed(S, cs)
  BY <1>3, ReachIsClosed DEF Closed
<1>5. Reach(t, cs) \subseteq S
  BY <1>2, <1>4, ReachIsLeast
<1> QED
  BY <1>5

LEMMA RestoredIsSeen ==
  ASSUME NEW b \in Binding, Keeps(b), b.kind # "Empty"
  PROVE  Read(Restored(b)) = Read(b)
<1>1. CASE b.kind = "Number"
  BY <1>1 DEF Restored, Blank, Read, Binding
<1>2. CASE b.kind = "Data"
  BY <1>2 DEF Restored, Blank, Read, Binding, Keeps
<1>3. CASE b.kind = "Callable"
  BY <1>3 DEF Restored, Read, Binding, Keeps
<1> QED
  BY <1>1, <1>2, <1>3 DEF Binding

LEMMA BootRestores ==
  ASSUME FlashInv, Boot, NEW p, p = file, p \notin {NoFile, Damaged},
         NEW o \in Output, Survives(p, o)
  PROVE  root'[o] \in Built(p.source[o], p.cells)
<1> DEFINE t == p.source[o]
           cs == p.cells
           ds == [c \in Cell |-> Restored(cs[c])]
<1>1. p \in Patch
  BY DEF FlashInv, FlashTypeOK
<1>2. cs \in [Cell -> Binding] /\ ds \in [Cell -> Binding]
  BY <1>1, RestoredType DEF Patch
<1>3. Compiles(t, cs)
  BY <1>1 DEF FlashInv, SavedCompiles, Survives
<1>4. \A c \in Reach(t, cs) : Read(ds[c]) = Read(cs[c])
  BY <1>2, <1>3, ReachIsBound, ReachIsClosed, RestoredIsSeen DEF Survives
<1>5. Compiles(t, ds) /\ GraphOf(t, ds) = GraphOf(t, cs)
  BY <1>2, <1>3, <1>4, AlikeCompiles
<1>6. BootWith(ds, p.source)
  BY DEF Boot
<1> HIDE DEF ds
<1>7. \/ root'[o] = GraphOf(t, ds)
      \/ PoolMayFill /\ root'[o] = NoGraph
  BY <1>5, <1>6 DEF BootWith, RecompileAll
<1> QED
  BY <1>5, <1>7 DEF Built

(* A program that ran its source when it was saved, and reaches no         *)
(* function and no vector that loses digits, is running again after a boot *)
(* from that save, or has no graph because the node pool is full: no       *)
(* history of the engine before the save or the boot can change that.      *)
THEOREM SavedProgramsComeBack == FlashSpec => PatchComesBack
<1>1. FlashInit => FlashInv
  BY FlashInitType, FileAssumption DEF FlashInit, Init, FlashInv, RunsCompiled, SavedCompiles
<1>2. FlashInv /\ [FlashNext]_flashVars
        => [\A p \in {file} \ {NoFile, Damaged} :
              Boot => \A o \in Output : Survives(p, o)
                                           => root'[o] \in Built(p.source[o], p.cells)]_flashVars
  BY BootRestores
<1> QED
  BY <1>1, <1>2, FlashStep, PTL DEF FlashSpec, PatchComesBack

=============================================================================
