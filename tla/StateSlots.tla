----------------------------- MODULE StateSlots -----------------------------
(***************************************************************************)
(* The state slots of the signal engine: which state cell, identifier or   *)
(* anonymous operator owns which slot, and which update law a tick commits *)
(* into it (signal_engine/cold_eval.cpp do_defstate and on_cell_changed,   *)
(* graph_builder.cpp resolve_or_alloc, state_registry.cpp,                 *)
(* executor.cpp commit_state).                                             *)
(*                                                                         *)
(* A text is a model value: the cells it names, then at most one stateful  *)
(* operator applied to them.  A value is known by whose state it is and    *)
(* whether a tick has moved it since it was initialised.  Expression cells *)
(* have a body that names nothing here, and there is always room for a     *)
(* source text and for nodes (SignalEngine has those limits).              *)
(***************************************************************************)
EXTENDS Naturals

CONSTANTS
  Name,       \* the symbols the user binds
  Id,         \* the identifiers given with :id
  Anonymous,  \* an operator without one
  NoOp,       \* a text without a stateful operator
  Text,       \* the texts the user types
  Reads,      \* Reads[t]: the cells t names
  Op,         \* Op[t]: its operator
  Broken,     \* texts with an error after their operator
  Outputs,    \* how many outputs there are
  MaxSlots,   \* MAX_STATE_SLOTS
  MaxTables,  \* bound: how many vectors are stored
  NoText, NoLaw, NoSlot

Owner == Name \cup Id \cup {Anonymous}

Slot == 0 .. MaxSlots - 1

Output == 0 .. Outputs - 1

ASSUME TextAssumption ==
  /\ Reads \in [Text -> SUBSET Name]
  /\ Op \in [Text -> Id \cup {Anonymous, NoOp}]
  /\ Broken \subseteq Text
  /\ NoText \notin Text /\ NoSlot \notin Slot /\ NoOp \notin Owner
  /\ Name \cap Id = {} /\ Anonymous \notin Name \cup Id

(* Table numbers above the last slot number are left out.                  *)
ASSUME LimitAssumption ==
  MaxSlots \in Nat \ {0} /\ MaxTables \in 0 .. MaxSlots /\ Outputs \in Nat

VARIABLES
  cells,    \* kind ("Other" is Data or Callable), the 0x02 mark, and
            \* data_table_id: the number of a table or of a slot
  tables,   \* data_table_count
  program,  \* output_sources[]
  running,  \* the outputs with a root node
  deps,     \* output_deps[]
  slots,    \* state_slot_count, state_values[], state_update_roots[],
            \* registry, and state_sources[]: whose, its text, recorded cells
  sound     \* history: no state cell met a clear or became a vector

vars == <<cells, tables, program, running, deps, slots, sound>>

IsStateCell(n) == cells[n].kind = "Number" /\ cells[n].mark

-----------------------------------------------------------------------------
(* Compilation, as far as slots go.  E is the value of `slots' so far.     *)

Legal(t, cs) == \A n \in Reads[t] : cs[n].kind # "Empty"

(* Is the slot of t's operator in the registry already?                    *)
Resolved(E, t) == Op[t] \in Id /\ E.registry[Op[t]] # NoSlot

GetsSlot(E, t, cs) ==
  Op[t] # NoOp /\ Legal(t, cs) /\ (Resolved(E, t) \/ E.count < MaxSlots)

Succeeds(E, t, cs) ==
  t \notin Broken /\ Legal(t, cs) /\ (Op[t] = NoOp \/ GetsSlot(E, t, cs))

(* The next slot goes to o, with its initial value.                        *)
Alloc(E, o) ==
  [E EXCEPT !.count = @ + 1, !.values[E.count] = [of |-> o, moved |-> FALSE]]

Install(E, s, o, t) == [E EXCEPT !.laws[s] = [of |-> o, text |-> t]]

(* Build the graph of t.  The operator's law is installed while it is      *)
(* compiled, before the rest of the text can fail.                         *)
Compile(E, t, cs) ==
  IF ~GetsSlot(E, t, cs) THEN E
  ELSE IF Resolved(E, t) THEN Install(E, E.registry[Op[t]], Op[t], t)
  ELSE LET A == Install(Alloc(E, Op[t]), E.count, Op[t], t)
       IN IF Op[t] \in Id THEN [A EXCEPT !.registry[Op[t]] = E.count] ELSE A

(* on_cell_changed(c): recompile the outputs, then the state updates, that *)
(* recorded c.  Sources above the slots in use are not looked at.          *)
ChangeOutput(c, cs, E, o) ==
  IF o \in running /\ c \in deps[o] THEN Compile(E, program[o], cs) ELSE E

ChangeUpdate(c, cs, E, s) ==
  LET src == E.sources[s]
      built == Compile(E, src.text, cs)
  IN IF ~(s < E.count /\ src.text # NoText /\ c \in src.deps) THEN E
     ELSE IF Succeeds(E, src.text, cs)
     THEN [Install(built, s, src.of, src.text) EXCEPT !.sources[s].deps = Reads[src.text]]
     ELSE built

OutputsChanged(c, cs, E) ==
  LET after[i \in 0 .. Outputs] ==
        IF i = 0 THEN E ELSE ChangeOutput(c, cs, after[i - 1], i - 1)
  IN after[Outputs]

UpdatesChanged(c, cs, E) ==
  LET after[i \in 0 .. MaxSlots] ==
        IF i = 0 THEN E ELSE ChangeUpdate(c, cs, after[i - 1], i - 1)
  IN after[MaxSlots]

CellChanged(c, cs, E) == UpdatesChanged(c, cs, OutputsChanged(c, cs, E))

-----------------------------------------------------------------------------
(* Give cell n the binding b and recompile what depends on it.             *)
Rebind(n, b) == /\ cells' = [cells EXCEPT ![n] = b]
                /\ slots' = CellChanged(n, cells', slots)
                /\ UNCHANGED <<program, running, deps>>

(* (define n 3) and (set n 3): the mark and the slot number stay.          *)
DefineNumber(n) == /\ Rebind(n, [cells[n] EXCEPT !.kind = "Number"])
                   /\ UNCHANGED <<tables, sound>>

(* (define n [1 2 3]): the table's number takes the place of the slot's.   *)
DefineVector(n) ==
  /\ tables < MaxTables
  /\ tables' = tables + 1
  /\ Rebind(n, [cells[n] EXCEPT !.kind = "Other", !.index = tables])
  /\ sound' = (sound /\ ~cells[n].mark)

(* (define n (+ 1 2)) and (defn n [p] p).                                  *)
DefineCallable(n) == /\ Rebind(n, [cells[n] EXCEPT !.kind = "Other"])
                     /\ UNCHANGED <<tables, sound>>

-----------------------------------------------------------------------------
(* (defstate n init t): a state cell keeps its slot and its value, another *)
(* cell is given the next slot.                                            *)
HasSlot(n) == IsStateCell(n) \/ slots.count < MaxSlots

SlotOf(n) == IF IsStateCell(n) THEN cells[n].index ELSE slots.count

GivenSlotAnew(n) ==   \* mutant: a state cell declared again starts afresh
  IF IsStateCell(n) THEN [slots EXCEPT !.values[SlotOf(n)] = [of |-> n, moved |-> FALSE]]
                    ELSE Alloc(slots, n)

GivenSlot(n) == IF IsStateCell(n) THEN slots ELSE Alloc(slots, n)

(* The cell and the source, before the update is compiled.                 *)
Marked(n) == [cells EXCEPT ![n] = [kind |-> "Number", mark |-> TRUE, index |-> SlotOf(n)]]

Declared(n, t) == [GivenSlot(n) EXCEPT !.sources[SlotOf(n)].of = n,
                                       !.sources[SlotOf(n)].text = t]

Defstate(n, t) ==
  LET s == SlotOf(n)
      built == Compile(Declared(n, t), t, cells')
  IN /\ HasSlot(n)
     /\ cells' = Marked(n)
     /\ Succeeds(Declared(n, t), t, cells')
     /\ slots' = CellChanged(n, cells', [Install(built, s, n, t) EXCEPT !.sources[s].deps = Reads[t]])
     /\ UNCHANGED <<tables, program, running, deps, sound>>

(* The update does not compile: the state cell is left without a law.      *)
RejectKeepsLaw(n, t) ==   \* mutant: the law before it stays
  /\ HasSlot(n)
  /\ cells' = Marked(n)
  /\ ~Succeeds(Declared(n, t), t, cells')
  /\ slots' = Compile(Declared(n, t), t, cells')
  /\ UNCHANGED <<tables, program, running, deps, sound>>

RejectDefstate(n, t) ==
  LET s == SlotOf(n)
  IN /\ HasSlot(n)
     /\ cells' = Marked(n)
     /\ ~Succeeds(Declared(n, t), t, cells')
     /\ slots' = [Compile(Declared(n, t), t, cells') EXCEPT !.laws[s] = NoLaw]
     /\ UNCHANGED <<tables, program, running, deps, sound>>

-----------------------------------------------------------------------------
(* (a1 t)                                                                  *)
AssignOutput(o, t) ==
  /\ Succeeds(slots, t, cells)
  /\ slots' = Compile(slots, t, cells)
  /\ program' = [program EXCEPT ![o] = t]
  /\ running' = running \cup {o}
  /\ deps' = [deps EXCEPT ![o] = Reads[t]]
  /\ UNCHANGED <<cells, tables, sound>>

RejectOutput(o, t) ==
  /\ ~Succeeds(slots, t, cells)
  /\ slots' = Compile(slots, t, cells)
  /\ program' = [program EXCEPT ![o] = t]
  /\ UNCHANGED <<cells, tables, running, deps, sound>>

(* (useq-clear): every slot and identifier is free again; the cells, the   *)
(* laws and the sources of state updates stay as they are.                 *)
ClearKeepsRegistry ==   \* mutant: the registry is not cleared
  /\ slots' = [slots EXCEPT !.count = 0]
  /\ program' = [o \in Output |-> NoText]
  /\ running' = {}
  /\ sound' = (sound /\ \A n \in Name : ~cells[n].mark)
  /\ UNCHANGED <<cells, tables, deps>>

UseqClear ==
  /\ slots' = [slots EXCEPT !.count = 0, !.registry = [i \in Id |-> NoSlot]]
  /\ program' = [o \in Output |-> NoText]
  /\ running' = {}
  /\ sound' = (sound /\ \A n \in Name : ~cells[n].mark)
  /\ UNCHANGED <<cells, tables, deps>>

(* commit_state, at the end of a tick.                                     *)
CommitState ==
  /\ slots' = [slots EXCEPT !.values =
                 [s \in Slot |-> IF s < slots.count /\ slots.laws[s] # NoLaw
                                 THEN [of |-> slots.laws[s].of, moved |-> TRUE]
                                 ELSE @[s]]]
  /\ UNCHANGED <<cells, tables, program, running, deps, sound>>

-----------------------------------------------------------------------------
Init ==
  /\ cells = [n \in Name |-> [kind |-> "Empty", mark |-> FALSE, index |-> 0]]
  /\ tables = 0
  /\ program = [o \in Output |-> NoText]
  /\ running = {}
  /\ deps = [o \in Output |-> {}]
  /\ slots = [count |-> 0, values |-> [s \in Slot |-> [of |-> Anonymous, moved |-> FALSE]],
              laws |-> [s \in Slot |-> NoLaw], registry |-> [i \in Id |-> NoSlot],
              sources |-> [s \in Slot |-> [of |-> Anonymous, text |-> NoText, deps |-> {}]]]
  /\ sound = TRUE

Declare == \E n \in Name : \/ DefineNumber(n) \/ DefineVector(n) \/ DefineCallable(n)
                           \/ \E t \in Text : Defstate(n, t) \/ RejectDefstate(n, t)

Assign == \E o \in Output, t \in Text : AssignOutput(o, t) \/ RejectOutput(o, t)

Next == Declare \/ Assign \/ UseqClear \/ CommitState

Spec == Init /\ [][Next]_vars

-----------------------------------------------------------------------------
(* Who a slot belongs to: a state cell's by its number, an identifier's by *)
(* the registry.                                                           *)
StateCells == {n \in Name : IsStateCell(n)}

Has(o) == IF o \in Name THEN cells[o].index ELSE slots.registry[o]

Holders == StateCells \cup {i \in Id : slots.registry[i] # NoSlot}

(* Until a state cell meets a clear or becomes a vector, every state cell  *)
(* and every identifier has a slot in use to itself, with its own state in *)
(* it and its own law, if any, driving it.                                 *)
EachHasItsOwn ==
  sound => \A o \in Holders :
             /\ Has(o) < slots.count
             /\ \A q \in Holders : Has(o) = Has(q) => o = q
             /\ slots.values[Has(o)].of = o
             /\ slots.laws[Has(o)] # NoLaw => slots.laws[Has(o)].of = o

(* A state cell's law is the last update given for it, or it has none: a   *)
(* recompilation never brings an older update back.                        *)
LawIsLatest ==
  sound => \A n \in StateCells :
             LET law == slots.laws[cells[n].index]
             IN law # NoLaw => law.text = slots.sources[cells[n].index].text

(* No form changes the state in a slot that is in use: redefining a cell,  *)
(* editing an update or a program, declaring a state cell again, and every *)
(* error on the way leave what has accumulated where it is.                *)
EditsKeepState ==
  [][\A s \in 0 .. slots.count - 1 :
       slots'.values[s] # slots.values[s] => CommitState]_vars

=============================================================================
