---------------------------- MODULE GraphBuilder ----------------------------
(***************************************************************************)
(* The compiler of signal expressions (signal_engine/graph_builder.cpp):   *)
(* one recursive descent over the tokens of a text that leaves a node of   *)
(* the graph, and on the way allocates state slots, live-edit slots and    *)
(* data tables.                                                            *)
(*                                                                         *)
(* A token is <<kind, value>>; the kinds are ( ) [ ] num sym key str, a    *)
(* key being a symbol that starts with a colon.  A string is at the place  *)
(* of its token in the text it is read from.  The builder B is a record:   *)
(*   ts, pos   the token stream                                            *)
(*   base      source_base, the text strings are read from                 *)
(*   err       has_error                                                   *)
(*   deps      dep_cells          inl    inline_stack                      *)
(*   cells     the cell store     tables the data tables                   *)
(*   laws      state_update_roots of the slots in use                      *)
(*   reg       the state registry, from <<identifier, kind>> to slot       *)
(*   live      the live-edit slots                                         *)
(*   seen, shared   the live-edit identifiers of this build, of the batch  *)
(*   bare      there is neither a registry nor a shared set                *)
(* An operator that reads tokens returns [b |-> the builder, n |-> what it *)
(* made of them].  A scope is a sequence of frames of bindings.            *)
(***************************************************************************)
EXTENDS SignalValues, SequencesExt

CONSTANTS
  MaxInline,    \* MAX_INLINE_DEPTH
  MaxLocals,    \* MAX_LOCAL_BINDINGS
  MaxDeps,      \* MAX_OUTPUT_DEPS
  MaxVector,    \* 64, the longest vector and range
  MaxTables,    \* MAX_DATA_TABLES
  MaxSlots,     \* MAX_STATE_SLOTS
  MaxLive,      \* MAX_LIVE_SLOTS
  Garbage       \* what is read where no string is

R(b, n) == [b |-> b, n |-> n]
Fail(b) == R([b EXCEPT !.err = TRUE], None)

-----------------------------------------------------------------------------
(* The token stream.                                                       *)

Peek(b) == IF b.pos <= Len(b.ts) THEN b.ts[b.pos] ELSE <<"eof", 0>>
AtEnd(b) == b.pos > Len(b.ts)
At(b, kind) == Peek(b)[1] = kind
AtSymbol(b) == Peek(b)[1] \in {"sym", "key"}
Consume(b) == IF AtEnd(b) THEN b ELSE [b EXCEPT !.pos = @ + 1]
Expect(b, kind) == IF At(b, kind) THEN Consume(b) ELSE b
More(b) == ~At(b, ")") /\ ~AtEnd(b)

StringAt(text, i) ==
  IF i <= Len(text) /\ text[i][1] = "str" THEN text[i][2] ELSE Garbage

(* The end of the form that starts at i, `depth' brackets being open.      *)
RECURSIVE FormEnd(_, _, _)
FormEnd(ts, i, depth) ==
  IF i > Len(ts) THEN i
  ELSE CASE ts[i][1] \in {"(", "["} -> FormEnd(ts, i + 1, depth + 1)
         [] ts[i][1] \in {")", "]"} ->
              IF depth <= 1 THEN i + 1 ELSE FormEnd(ts, i + 1, depth - 1)
         [] OTHER -> IF depth = 0 THEN i + 1 ELSE FormEnd(ts, i + 1, depth)

SkipForm(b) == [b EXCEPT !.pos = FormEnd(b.ts, b.pos, 0)]

(* What is left of a list, up to its closing parenthesis.                  *)
RECURSIVE Drain(_)
Drain(b) == IF ~More(b) THEN b
            ELSE IF At(b, "(") THEN Drain(SkipForm(b)) ELSE Drain(Consume(b))

-----------------------------------------------------------------------------
(* Scopes, dependencies and the inline stack.                              *)

Inner(s) == Append(s, <<>>)
Bind(s, name, node) ==
  IF Len(Last(s)) < MaxLocals THEN [s EXCEPT ![Len(s)] = Append(@, <<name, node>>)] ELSE s

Bindings(s) == FlattenSeq(s)
IsLocal(s, name) == \E i \in DOMAIN Bindings(s) : Bindings(s)[i][1] = name
LocalOutermost(s, name) == SelectInSeq(Bindings(s), LAMBDA x : x[1] = name)
Local(s, name) == SelectLastInSeq(Bindings(s), LAMBDA x : x[1] = name)

DependOnText(b, name) == IF b.inl = <<>> THEN [b EXCEPT !.deps = @ \cup {name}] ELSE b
Depend(b, name) ==
  IF Cardinality(b.deps) < MaxDeps THEN [b EXCEPT !.deps = @ \cup {name}] ELSE b

Inlining(b, name) == \E i \in DOMAIN b.inl : b.inl[i] = name
Push(b, name) == IF Len(b.inl) < MaxInline THEN [b EXCEPT !.inl = Append(@, name)] ELSE b
Pop(b) == IF b.inl # <<>> THEN [b EXCEPT !.inl = Front(@)] ELSE b

-----------------------------------------------------------------------------
(* Allocation.                                                             *)

(* store_data_table: the number of the table, 0 when there is no room.     *)
StoreTable(b, values) ==
  IF Len(b.tables) < MaxTables
  THEN R([b EXCEPT !.tables = Append(@, values)], Len(b.tables) + 1) ELSE R(b, 0)

(* resolve_or_alloc: the slot that <<id, kind>> has, or the next one.      *)
SlotFor(b, id, kind) ==
  LET key == <<id, kind>>
      named == id # None /\ ~b.bare
      fresh == Len(b.laws) + 1
      b1 == [b EXCEPT !.laws = Append(@, None)]
  IN IF named /\ key \in DOMAIN b.reg THEN R(b, b.reg[key])
     ELSE IF Len(b.laws) >= MaxSlots THEN R([b EXCEPT !.err = TRUE], 0)
     ELSE R(IF named THEN [b1 EXCEPT !.reg = @ @@ (key :> fresh)] ELSE b1, fresh)

LiveSlot(b, id) == SelectInSeq(b.live, LAMBDA x : x.id = id)
Clamped(v, lo, hi) == IF v < lo THEN lo ELSE IF v > hi THEN hi ELSE v

-----------------------------------------------------------------------------
(* Time.  Cells that keep time are read at run time, by name.              *)

Cell(name) == Load("CellLoad", name)
Longer == <<"beats-per-bar", "bars-per-phrase", "phrases-per-section">>
BeatRate == Binop("Div", Cell("bpm"), Const(60 * Unit))
Rate(k) ==      \* of beats, bars, phrases and sections
  FoldLeft(LAMBDA rate, cell : Binop("Div", rate, Cell(cell)), BeatRate, SubSeq(Longer, 1, k))
Phase(t, rate) == Binop("Mod", Binop("Mul", t, rate), Const(Unit))
Count(t, rate) == Unary("Floor", Binop("Mul", t, rate))
BeatDuration == Binop("Div", Const(60 * Unit), Cell("bpm"))

Cycles == ("beat" :> 0) @@ ("bar" :> 1) @@ ("phrase" :> 2) @@ ("section" :> 3)
Counted == ("beat-num" :> 0) @@ ("bar-num" :> 1)
Clock(name, t) ==
  CASE name = "t"              -> t
    [] name = "dt"             -> Dt
    [] name \in DOMAIN Cycles  -> Phase(t, Rate(Cycles[name]))
    [] name \in DOMAIN Counted -> Count(t, Rate(Counted[name]))
    [] name = "beat-dur"       -> BeatDuration
    [] name = "bar-dur"        -> Binop("Mul", BeatDuration, Cell("beats-per-bar"))

Clocks == {"t", "dt", "beat-dur", "bar-dur"} \cup DOMAIN Cycles \cup DOMAIN Counted

Inputs == ("in1" :> 0) @@ ("in2" :> 1) @@ ("ain1" :> 8) @@ ("ain2" :> 9)

(* a1-a8, d1-d8, s1-s8; the names of two of each stand for them all.       *)
OutputIndex == ("a1" :> 0) @@ ("a2" :> 1) @@ ("d1" :> 8) @@ ("d2" :> 9)
               @@ ("s1" :> 16) @@ ("s2" :> 17)
IsOutput(name) == name \in DOMAIN OutputIndex
-----------------------------------------------------------------------------
RECURSIVE Expr(_, _, _)         \* compile_expr: builder, scope, time

(* The next k expressions; the ones an operator takes up to its end.       *)
RECURSIVE Args(_, _, _, _)
Args(b, k, s, t) ==
  IF k = 0 THEN R(b, <<>>)
  ELSE LET first == Args(b, k - 1, s, t)
           e == Expr(first.b, s, t)
       IN R(e.b, Append(first.n, e.n))

(* Most operators return as soon as one of their arguments is no node.     *)
RECURSIVE Strict(_, _, _, _)
Strict(b, k, s, t) ==
  IF k = 0 THEN R(b, <<>>)
  ELSE LET first == Strict(b, k - 1, s, t)
           e == Expr(first.b, s, t)
       IN IF first.n = None THEN first
          ELSE IF e.n = None THEN R(e.b, None) ELSE R(e.b, Append(first.n, e.n))

Optional(b, s, t, default) == IF At(b, ")") THEN R(b, default) ELSE Expr(b, s, t)
OptionalPhase(b, s, t) == Optional(b, s, t, Phase(t, BeatRate))

(* The value of the last of the expressions up to the end of the list.     *)
RECURSIVE Body(_, _, _, _)
Body(b, s, t, last) ==
  IF ~More(b) THEN R(b, last)
  ELSE LET e == Expr(b, s, t) IN Body(e.b, s, t, e.n)

-----------------------------------------------------------------------------
(* Names.                                                                  *)

(* The body of an expression cell, in the scope and the time of its user.  *)
Within(b, body, base, s, t) ==
  LET e == Expr([b EXCEPT !.ts = body, !.pos = 1, !.base = base], s, t)
  IN R(Pop([e.b EXCEPT !.ts = b.ts, !.pos = b.pos, !.base = b.base]), e.n)

InlineExpression(b, name, s, t) ==
  IF Inlining(b, name) THEN Fail(b)
  ELSE Within(Push(b, name), b.cells[name].body, b.cells[name].body, s, t)

Symbol(b, name, s, t) ==
  LET cell == b.cells[name]
      b1 == Depend(b, name)
  IN CASE IsLocal(s, name)        -> R(b, Bindings(s)[Local(s, name)][2])
       [] ~IsLocal(s, name) /\ name \in Clocks          -> R(b, Clock(name, t))
       [] ~IsLocal(s, name) /\ name \in DOMAIN Inputs   -> R(b, Load("InputLoad", Inputs[name]))
       [] ~IsLocal(s, name) /\ IsOutput(name) -> R(b, Load("PrevOutputLoad", OutputIndex[name]))
       [] OTHER ->
            IF name \notin DOMAIN b.cells THEN Fail(b)
            ELSE CASE cell.kind = "State"  -> R(b1, Load("LoadState", cell.index))
                   [] cell.kind \in {"Number", "Data"} -> R(b1, Const(cell.value))
                   [] cell.kind = "Callable" ->
                        IF cell.params = <<>> THEN InlineExpression(b1, name, s, t)
                        ELSE Fail(b)

-----------------------------------------------------------------------------
(* Time forms and control flow.                                            *)

TimeForms == {"fast", "slow", "offset", "shift", "loop-at", "eval-at-time"}
Warped(op, t, by) == CASE op = "fast" -> Binop("Mul", t, by)
                       [] op = "slow" -> Binop("Div", t, by)
                       [] op \in {"offset", "shift"} -> Binop("Add", t, by)
                       [] op = "loop-at" -> Binop("Mod", t, by)
                       [] op = "eval-at-time" -> by

TimeForm(b, op, s, t) ==
  LET by == Expr(b, s, t)
  IN IF by.n = None THEN by ELSE Expr(by.b, s, Warped(op, t, by.n))

Prev(b) ==
  IF ~AtSymbol(b) THEN Fail(b)
  ELSE IF ~IsOutput(Peek(b)[2]) THEN Fail(Consume(b))
  ELSE R(Consume(b), Load("PrevOutputLoad", OutputIndex[Peek(b)[2]]))

If(b, s, t) ==
  LET a == Strict(b, 2, s, t)
      e == Optional(a.b, s, t, Const(0))
  IN IF a.n = None \/ e.n = None THEN R(IF a.n = None THEN a.b ELSE e.b, None)
     ELSE R(e.b, Select(a.n[1], a.n[2], e.n))

WhileGate(b, s, t) ==
  LET a == Strict(b, 2, s, t)
  IN IF a.n = None THEN a ELSE R(a.b, Select(a.n[1], a.n[2], Const(0)))

(* name value name value ... up to a bracket, or (name value) (name value).  *)
RECURSIVE LetBindings(_, _, _, _, _)
LetBindings(b, close, nested, s, t) ==
  LET open == IF nested THEN Expect(b, "(") ELSE b
      value == Expr(Consume(open), s, t)
      rest == IF nested THEN Expect(value.b, ")") ELSE value.b
  IN IF At(b, close) \/ AtEnd(b) THEN R(b, s)
     ELSE IF ~AtSymbol(open) THEN R(Fail(Consume(open)).b, None)
     ELSE LetBindings(rest, close, nested, Bind(s, Peek(open)[2], value.n), t)

Let(b, s, t) ==
  LET open == Consume(b)
      close == IF At(b, "[") THEN "]" ELSE ")"
      flat == At(b, "[") \/ AtSymbol(open)
      bound == IF At(b, "[") \/ At(b, "(")
               THEN LetBindings(open, close, ~flat, Inner(s), t) ELSE R(b, Inner(s))
  IN IF bound.n = None THEN bound
     ELSE Body(IF At(b, "[") \/ At(b, "(") THEN Expect(bound.b, close) ELSE b,
               bound.n, t, Const(0))

Do(b, s, t) == Body(b, s, t, Const(0))

(* The constants from, from + by, ... before to, MaxVector at most.        *)
RECURSIVE Steps(_, _, _, _)
Steps(from, to, by, k) ==
  IF k = 0 \/ (IF by > 0 THEN from >= to ELSE from <= to) THEN <<>>
  ELSE <<Const(from)>> \o Steps(from + by, to, by, k - 1)

(* The one, two or three arguments of range; n is None if one is dynamic.  *)
RangeArgs(b, s, t) ==
  LET first == Args(b, 1, s, t)
      second == IF At(first.b, ")") THEN first
                ELSE LET e == Expr(first.b, s, t) IN R(e.b, Append(first.n, e.n))
      all == IF At(second.b, ")") THEN second
             ELSE LET e == Expr(second.b, s, t) IN R(e.b, Append(second.n, e.n))
  IN R(all.b, IF \A i \in DOMAIN all.n : IsConst(all.n[i])
              THEN [i \in DOMAIN all.n |-> ConstValue(all.n[i])] ELSE None)

RangeOf(a) == CASE Len(a) = 1 -> Steps(0, a[1], Unit, MaxVector)
                [] Len(a) = 2 -> Steps(a[1], a[2], Unit, MaxVector)
                [] Len(a) = 3 -> Steps(a[1], a[2], a[3], MaxVector)

RangeForm(b, s, t) ==
  LET a == RangeArgs(b, s, t)
      r == RangeOf(a.n)
  IN IF a.n = None THEN Fail(a.b)
     ELSE R(a.b, IF r = <<>> THEN Const(0) ELSE Last(r))

(* The elements of [ ... ], MaxVector at most.                             *)
RECURSIVE Elements(_, _, _, _)
Elements(b, s, t, k) ==
  IF At(b, "]") \/ AtEnd(b) \/ k = 0 THEN R(Expect(b, "]"), <<>>)
  ELSE LET e == Expr(b, s, t)
           rest == Elements(e.b, s, t, k - 1)
       IN R(rest.b, <<e.n>> \o rest.n)

ConstantsOf(ns) == [i \in DOMAIN ns |-> IF IsConst(ns[i]) THEN ConstValue(ns[i]) ELSE 0]

VectorLiteral(b, s, t) ==
  LET e == Elements(Consume(b), s, t, MaxVector)
  IN R(StoreTable(e.b, ConstantsOf(e.n)).b, Const(Len(e.n) * Unit))

IsData(b, name) == name \in DOMAIN b.cells /\ b.cells[name].kind = "Data"

(* resolve_collection: the elements `for' runs over, None if there are none. *)
Collection(b, s, t) ==
  LET name == Peek(b)[2]
      b1 == Consume(b)
      table == b.tables[b.cells[name].index]
      r == RangeArgs(Consume(b1), s, t)
  IN CASE At(b, "[") -> Elements(b1, s, t, MaxVector)
       [] AtSymbol(b) ->
            IF IsData(b, name) /\ b.cells[name].index \in DOMAIN b.tables
            THEN R(Depend(b1, name), [i \in DOMAIN table |-> Const(table[i])])
            ELSE R(IF IsData(b, name) THEN Depend(b1, name) ELSE b1, None)
       [] At(b, "(") ->
            IF Peek(b1) # <<"sym", "range">> THEN R(SkipForm(b), None)
            ELSE IF r.n = None THEN R(SkipForm([r.b EXCEPT !.pos = b.pos]), None)
            ELSE R(Expect(r.b, ")"), RangeOf(r.n))
       [] OTHER -> R(b, None)

(* The body of `for' is compiled from its start for every element.         *)
RECURSIVE Iterate(_, _, _, _, _, _, _)
Iterate(b, start, name, nodes, s, t, last) ==
  IF nodes = <<>> THEN R(b, last)
  ELSE LET e == Expr([b EXCEPT !.pos = start], Bind(Inner(s), name, Head(nodes)), t)
       IN Iterate(e.b, start, name, Tail(nodes), s, t, e.n)

Over(c, name, s, t) ==
  IF c.n = None THEN Fail(SkipForm(c.b))
  ELSE IF c.n = <<>> THEN R(SkipForm(c.b), Const(0))
  ELSE Iterate(c.b, c.b.pos, name, c.n, s, t, Const(0))

For(b, s, t) ==
  IF AtSymbol(b) THEN Over(Collection(Consume(b), s, t), Peek(b)[2], s, t)
  ELSE Fail(Consume(b))

(* A call: the body is inlined in the caller's scope, and its strings are  *)
(* still read from the caller's text.                                      *)
Parameters(s, params, nodes) ==
  LET bind(f, i) == Bind(f, params[i], nodes[i])
  IN FoldLeft(bind, Inner(s), [i \in DOMAIN params |-> i])

RECURSIVE CallArgs(_, _, _, _)
CallArgs(b, k, s, t) ==   \* up to k arguments; n is None if one is no node
  IF k = 0 \/ ~More(b) THEN R(b, <<>>)
  ELSE LET e == Expr(b, s, t)
           rest == CallArgs(e.b, k - 1, s, t)
       IN IF e.n = None THEN e
          ELSE IF rest.n = None THEN rest ELSE R(rest.b, <<e.n>> \o rest.n)

Call(b, name, s, t) ==
  LET cell == b.cells[name]
      b1 == Depend(b, name)
      a == CallArgs(Push(b1, name), Len(cell.params), s, t)
  IN IF name \notin DOMAIN b.cells \/ cell.kind # "Callable" THEN Fail(b)
     ELSE IF Inlining(b, name) \/ Len(b.inl) >= MaxInline THEN Fail(b1)
     ELSE IF a.n = None THEN R(Pop(a.b), None)
     ELSE IF Len(a.n) # Len(cell.params) \/ ~At(a.b, ")") THEN Fail(Pop(a.b))
     ELSE Within(a.b, cell.body, b.base, Parameters(s, cell.params, a.n), t)

-----------------------------------------------------------------------------
(* Arithmetic, comparison, logic and mathematics.                          *)

Arithmetic == ("+" :> "Add") @@ ("-" :> "Sub") @@ ("*" :> "Mul") @@ ("/" :> "Div")
              @@ ("%" :> "Mod") @@ ("min" :> "Min") @@ ("max" :> "Max")
Comparison == (">" :> "CmpGt") @@ ("<" :> "CmpLt") @@ (">=" :> "CmpGe")
              @@ ("<=" :> "CmpLe") @@ ("=" :> "CmpEq")
Logic == ("and" :> "And") @@ ("or" :> "Or")
UnaryMath == ("sin" :> "Sin") @@ ("cos" :> "Cos") @@ ("tan" :> "Tan") @@ ("abs" :> "Abs")
             @@ ("floor" :> "Floor") @@ ("ceil" :> "Ceil") @@ ("sqrt" :> "Sqrt")
             @@ ("neg" :> "Neg") @@ ("frac" :> "Frac") @@ ("usin" :> "USin")
             @@ ("ucos" :> "UCos") @@ ("bi-to-uni" :> "BiToUni") @@ ("b>u" :> "BiToUni")
             @@ ("uni-to-bi" :> "UniToBi") @@ ("u>b" :> "UniToBi")
BinaryMath == ("pow" :> "Expt") @@ ("expt" :> "Expt") @@ ("mod" :> "Mod") @@ ("pulse" :> "Pulse")
TernaryMath == ("clamp" :> "Clamp") @@ ("lerp" :> "Lerp") @@ ("scale" :> "Scale")

RECURSIVE LeftFold(_, _, _, _, _)
LeftFold(b, op, s, t, left) ==
  IF ~More(b) THEN R(b, left)
  ELSE LET e == Expr(b, s, t) IN LeftFold(e.b, op, s, t, Binop(op, left, e.n))

VariadicArithmetic(b, op, s, t) ==
  LET first == Expr(b, s, t)
      alone == At(first.b, ")")
  IN IF At(b, ")")
     THEN CASE op = "Add" -> R(b, Const(0)) [] op = "Mul" -> R(b, Const(Unit))
            [] OTHER -> Fail(b)
     ELSE IF first.n = None THEN first
     ELSE IF alone /\ op = "Sub" THEN R(first.b, Unary("Neg", first.n))
     ELSE IF alone /\ op = "Div" THEN R(first.b, Binop("Div", Const(Unit), first.n))
     ELSE LeftFold(first.b, op, s, t, first.n)

(* Both arguments are read whatever the first is.                          *)
Loose2(b, op, s, t) ==
  LET a == Args(b, 2, s, t) IN R(a.b, Binop(op, a.n[1], a.n[2]))

Math1(b, op, s, t) ==
  LET a == Expr(b, s, t)
  IN IF a.n = None THEN a ELSE IF ~At(a.b, ")") THEN Fail(a.b) ELSE R(a.b, Unary(op, a.n))

(* (pow a b) is b to the power of a.                                       *)
Math2(b, name, s, t) ==
  LET a == Strict(b, 2, s, t)
      op == BinaryMath[name]
  IN IF a.n = None THEN a
     ELSE R(a.b, IF name = "pow" THEN Binop(op, a.n[2], a.n[1]) ELSE Binop(op, a.n[1], a.n[2]))

Math3(b, op, s, t) ==
  LET a == Strict(b, 3, s, t)
  IN IF a.n = None THEN a ELSE R(a.b, Ternary(op, a.n[1], a.n[2], a.n[3]))

(* (tri x), (sqr x): of two arguments the second counts.                   *)
Waveform(b, op, s, t) ==
  LET first == Expr(b, s, t)
      e == Optional(first.b, s, t, first.n)
  IN R(e.b, Unary(op, e.n))

Dm(b, s, t) ==
  LET a == Args(b, 3, s, t)
  IN R(a.b, Select(Binop("CmpGt", a.n[1], Const(0)), a.n[3], a.n[2]))

InputForm(b, s, t) ==
  LET a == Expr(b, s, t)
  IN IF a.n = None THEN a
     ELSE IF IsConst(a.n) THEN R(a.b, Load("InputLoad", ConstValue(a.n) \div Unit))
     ELSE Fail(a.b)

-----------------------------------------------------------------------------
(* Sequences and rhythms.  Of a table the compiler knows the length, and   *)
(* for the ratio rhythms the values.                                       *)

(* resolve_data_table: a table's number and length.  A full store is not   *)
(* an error: there is no table, and nothing is reported.                   *)
DataTable(b, s, t) ==
  LET e == Elements(Consume(b), s, t, MaxVector)
      stored == StoreTable(e.b, ConstantsOf(e.n))
      name == Peek(b)[2]
  IN CASE At(b, "[") ->
            R(stored.b, IF stored.n = 0 THEN None ELSE <<stored.n, Len(e.n)>>)
       [] AtSymbol(b) /\ IsData(b, name) ->
            R(Depend(Consume(b), name), <<b.cells[name].index, b.cells[name].value \div Unit>>)
       [] AtSymbol(b) /\ ~IsData(b, name) -> Fail(Consume(b))
       [] OTHER -> Fail(b)

Scaled(data, phase) == Binop("Mul", phase, Const(data[2] * Unit))
IndexOf(data, phase) == Unary("Floor", Scaled(data, phase))
ElementAt(data, phase) == VecIndex(IndexOf(data, phase), data[1])
WithinStep(data, phase) == Binop("Sub", Scaled(data, phase), IndexOf(data, phase))

Step(b, s, t) ==
  LET data == DataTable(b, s, t)
      phase == OptionalPhase(data.b, s, t)
  IN IF data.n = None THEN data ELSE R(phase.b, ElementAt(data.n, phase.n))

Interp(b, s, t) ==
  LET data == DataTable(b, s, t)
      phase == OptionalPhase(data.b, s, t)
  IN IF data.n = None THEN data ELSE R(phase.b, VecLerp(phase.n, data.n[1]))

Gatesw(b, s, t) ==
  LET data == DataTable(b, s, t)
      phase == OptionalPhase(data.b, s, t)
      width == Binop("Div", ElementAt(data.n, phase.n), Const(9 * Unit))
  IN IF data.n = None THEN data
     ELSE R(phase.b, Binop("CmpLt", WithinStep(data.n, phase.n), width))

(* An optional width before an optional phase: of one argument it is the   *)
(* phase.                                                                  *)
WidthAndPhase(b, s, t) ==
  LET one == Expr(b, s, t)
      two == Expr(one.b, s, t)
      half == Const(Unit \div 2)
  IN IF At(b, ")") THEN R(b, <<half, Phase(t, BeatRate)>>)
     ELSE IF At(one.b, ")") THEN R(one.b, <<half, one.n>>)
     ELSE R(two.b, <<one.n, two.n>>)

Gates(b, op, s, t) ==
  LET data == DataTable(b, s, t)
      wp == WidthAndPhase(data.b, s, t)
      on == Binop("CmpGt", ElementAt(data.n, wp.n[2]), Const(0))
      early == Binop("CmpLt", WithinStep(data.n, wp.n[2]), wp.n[1])
  IN IF data.n = None THEN data
     ELSE R(wp.b, IF op = "trigs" THEN on ELSE Binop("Mul", on, early))

Euclid(b, s, t) ==
  LET a == Strict(b, 2, s, t)
      wp == WidthAndPhase(a.b, s, t)
      total == a.n[1]
      active == a.n[2]
      scaled == Binop("Mul", wp.n[2], total)
      step == Binop("Min", Unary("Floor", scaled), Binop("Sub", total, Const(Unit)))
      hit == Binop("CmpLt", Binop("Mod", Binop("Mul", step, active), total), active)
      gate == Binop("CmpLt", Binop("Sub", scaled, step), wp.n[1])
  IN IF a.n = None THEN a ELSE R(wp.b, Select(hit, gate, Const(0)))

(* The normalised ends of the parts of a ratio vector, None if there are   *)
(* no parts.                                                               *)
Ratios(b, s, t) ==
  LET data == DataTable(b, s, t)
      values == IF data.n # None /\ data.n[1] \in DOMAIN data.b.tables
                THEN data.b.tables[data.n[1]] ELSE <<>>
      sum[i \in 0 .. Len(values)] == IF i = 0 THEN 0 ELSE sum[i - 1] + values[i]
      total == sum[Len(values)]
  IN IF data.n = None \/ total = 0 THEN R(data.b, None)
     ELSE R(data.b, [i \in DOMAIN values |-> Quotient(sum[i], total)])

Start(ends, i) == IF i = 1 THEN 0 ELSE ends[i - 1]
Width(ends, i) == ends[i] - Start(ends, i)
Position(ends, phase, i) ==
  Binop("Div", Binop("Sub", phase, Const(Start(ends, i))), Const(Width(ends, i)))

(* phase <= ends[1] ? leaf(1) : phase <= ends[2] ? leaf(2) : ...           *)
Part(ends, phase, Leaf(_)) ==
  LET chain[i \in DOMAIN ends] ==
        IF i = Len(ends) THEN Leaf(i)
        ELSE Select(Binop("CmpLe", phase, Const(ends[i])), Leaf(i), chain[i + 1])
  IN chain[1]

Ridx(ends, phase) == Part(ends, phase, LAMBDA i : Const(((i - 1) * Unit) \div Len(ends)))
Rstep(ends, phase) == Part(ends, phase, LAMBDA i : Const(Start(ends, i)))
Rpulse(ends, phase, width) ==
  Part(ends, phase, LAMBDA i : IF Width(ends, i) <= 0 THEN Const(0)
                               ELSE Binop("CmpLe", Position(ends, phase, i), width))
Rwarp(ends, phase) ==
  LET share == Unit \div Len(ends)
  IN Part(ends, phase,
          LAMBDA i : IF Width(ends, i) <= 0 THEN Const((i - 1) * share)
                     ELSE Binop("Mul", Binop("Add", Const((i - 1) * Unit), Position(ends, phase, i)),
                                Const(share)))

RhythmOver(ends, op, s, t) ==
  LET width == IF op = "rpulse" THEN Expr(ends.b, s, t) ELSE R(ends.b, None)
      phase == OptionalPhase(width.b, s, t)
  IN IF ends.n = None THEN Fail(ends.b)
     ELSE R(phase.b, CASE op = "ridx" -> Ridx(ends.n, phase.n)
                       [] op = "rstep" -> Rstep(ends.n, phase.n)
                       [] op = "rpulse" -> Rpulse(ends.n, phase.n, width.n)
                       [] op = "rwarp" -> Rwarp(ends.n, phase.n))

Rhythm(b, op, s, t) == RhythmOver(Ratios(b, s, t), op, s, t)

(* (random lo hi), (random hi), (random): by the number of the beat.       *)
Scattered(at, bounds) ==
  LET raw == Unary("HashIndex", at)
  IN CASE Len(bounds) = 0 -> raw
       [] Len(bounds) = 1 -> Binop("Mul", raw, bounds[1])
       [] Len(bounds) = 2 ->
            Binop("Add", bounds[1], Binop("Mul", raw, Binop("Sub", bounds[2], bounds[1])))

RandomAt(at, s, t) ==
  LET one == Expr(at.b, s, t)
      two == Expr(one.b, s, t)
  IN IF At(at.b, ")") THEN R(at.b, Scattered(at.n, <<>>))
     ELSE IF At(one.b, ")") THEN R(one.b, Scattered(at.n, <<one.n>>))
     ELSE R(two.b, Scattered(at.n, <<one.n, two.n>>))

Random(b, op, s, t) ==
  RandomAt(IF op = "random" THEN R(b, Count(t, BeatRate)) ELSE Expr(b, s, t), s, t)

-----------------------------------------------------------------------------
(* Operators with state: arguments, then keyword options, then a slot for  *)
(* each kind of state, the law of every slot, and a reading of the first.  *)
(* Where a state starts is in module StateSlots.                           *)

Waves == ("osc" :> ":sin") @@ ("tri-osc" :> ":tri") @@ ("saw" :> ":saw") @@ ("sqr-osc" :> ":sqr")
         @@ ("lfo" :> ":sin")

(* The options o so far: id, and what op knows besides.                    *)
RECURSIVE Options(_, _, _, _, _)
Options(b, op, o, s, t) ==
  LET key == Peek(b)[2]
      b1 == Consume(b)
      e == Expr(b1, s, t)
      next(b2, o2) == Options(b2, op, o2, s, t)
  IN IF ~At(b, "key") THEN R(b, o)
     ELSE CASE key = ":id" /\ At(b1, "str") ->
                 next(Consume(b1), [o EXCEPT !.id = StringAt(b1.base, b1.pos)])
            [] key = ":id" /\ AtSymbol(b1) -> next(Consume(b1), [o EXCEPT !.id = Peek(b1)[2]])
            [] key = ":id" /\ ~At(b1, "str") /\ ~AtSymbol(b1) -> Fail(Consume(b1))
            [] key = ":wave" /\ op \in DOMAIN Waves ->
                 IF Peek(b1)[2] \in {Waves[w] : w \in DOMAIN Waves} /\ AtSymbol(b1)
                 THEN next(Consume(b1), [o EXCEPT !.wave = Peek(b1)[2]]) ELSE Fail(Consume(b1))
            [] key = ":pw" /\ op \in DOMAIN Waves -> next(e.b, [o EXCEPT !.pw = e.n])
            [] key = ":reset" /\ op = "count" -> next(e.b, [o EXCEPT !.reset = e.n])
            [] OTHER -> next(e.b, o)

(* A slot for each of the kinds, up to the first that gets none.           *)
RECURSIVE SlotsFor(_, _, _)
SlotsFor(b, id, kinds) ==
  IF kinds = <<>> THEN R(b, <<>>)
  ELSE LET one == SlotFor(b, id, Head(kinds))
           rest == SlotsFor(one.b, id, Tail(kinds))
       IN IF one.n = 0 THEN R(one.b, None)
          ELSE IF rest.n = None THEN rest ELSE R(rest.b, <<one.n>> \o rest.n)

State(slot) == Load("LoadState", slot)
IsHigh(trigger, memory) == Binop("CmpGt", trigger, Const(Unit \div 2))
Rises(trigger, memory) ==
  Binop("And", Binop("CmpGt", trigger, Const(Unit \div 2)),
               Binop("CmpLe", State(memory), Const(Unit \div 2)))

Grown(slot, rate) == Binop("Add", State(slot), Binop("Mul", rate, Dt))
Towards(slot, input, share) ==
  Binop("Add", State(slot), Binop("Mul", share, Binop("Sub", input, State(slot))))
PerTick(rate) == Binop("Min", Const(Unit), Binop("Mul", rate, Dt))

(* state_update_roots of the slots become the laws, each its own.          *)
InstallFirst(b, slots, laws) == [b EXCEPT !.laws[slots[1]] = laws[1]]
Install(b, slots, laws) ==
  [b EXCEPT !.laws = [i \in DOMAIN @ |-> IF \E j \in DOMAIN slots : slots[j] = i
                                         THEN laws[CHOOSE j \in DOMAIN slots : slots[j] = i]
                                         ELSE @[i]]]

(* The operator op of the arguments a; Laws gets them, the options and the *)
(* slots, Out the options and a reading of the first slot.                 *)
Kept(args, o, x, Laws(_, _, _), Out(_, _)) ==
  IF x.n = None THEN x
  ELSE R(Install(x.b, x.n, Laws(args, o, x.n)), Out(o, State(x.n[1])))
WithOptions(args, o, kinds, Laws(_, _, _), Out(_, _)) ==
  IF o.n = None THEN o ELSE Kept(args, o.n, SlotsFor(o.b, o.n.id, kinds), Laws, Out)
Stateful(op, a, kinds, s, t, Laws(_, _, _), Out(_, _)) ==
  LET default == [id |-> None, wave |-> IF op \in DOMAIN Waves THEN Waves[op] ELSE "",
                  pw |-> Const(Unit \div 2), reset |-> Const(0)]
  IN IF a.n = None THEN a
     ELSE WithOptions(a.n, Options(a.b, op, default, s, t), kinds, Laws, Out)

Itself(o, state) == state

Phasor(b, s, t) ==
  Stateful("phasor", Strict(b, 1, s, t), <<"OscillatorPhase">>, s, t,
           LAMBDA a, o, x : <<Unary("Frac", Grown(x[1], a[1]))>>, Itself)

(* build_osc_output: the shape of an oscillator.                           *)
Wave(o, phase) == CASE o.wave = ":sin" -> Unary("USin", phase)
                    [] o.wave = ":tri" -> Unary("Tri", phase)
                    [] o.wave = ":sqr" -> Binop("CmpLt", phase, o.pw)
                    [] OTHER -> phase
Oscillator(b, op, s, t) ==
  Stateful(op, Strict(b, 1, s, t), <<"OscillatorPhase">>, s, t,
           LAMBDA a, o, x : <<Unary("Frac", Grown(x[1], a[1]))>>, Wave)

Integrate(b, s, t) ==
  Stateful("integrate", Strict(b, 1, s, t), <<"Integrator">>, s, t,
           LAMBDA a, o, x : <<Grown(x[1], a[1])>>, Itself)

(* No further towards the target than the rate allows.                     *)
Slew(b, s, t) ==
  LET law(slot, target, most) ==
        Binop("Add", State(slot),
              Ternary("Clamp", Unary("Neg", most), most, Binop("Sub", target, State(slot))))
  IN Stateful("slew", Strict(b, 2, s, t), <<"SlewAccumulator">>, s, t,
              LAMBDA a, o, x : <<law(x[1], a[1], Binop("Mul", a[2], Dt))>>, Itself)

(* 2 pi is six and a quarter here.                                         *)
OnePole(b, s, t) ==
  Stateful("one-pole", Strict(b, 2, s, t), <<"OnePole">>, s, t,
           LAMBDA a, o, x :
             <<Towards(x[1], a[1], Binop("Min", Const(Unit),
                       Binop("Mul", Const(6 * Unit + 1), Binop("Mul", a[2], Dt))))>>, Itself)

(* Two more arguments, which may be left out: attack and release.          *)
FollowerArgs(b, s, t) ==
  LET a == Strict(b, 1, s, t)
      attack == Optional(a.b, s, t, Const(10 * Unit))
      release == Optional(attack.b, s, t, Const(5 * Unit))
  IN IF a.n = None THEN a ELSE R(release.b, a.n \o <<attack.n, release.n>>)

EnvFollow(b, s, t) ==
  LET law(slot, level, attack, release) ==
        Towards(slot, level, Select(Binop("CmpGt", Binop("Sub", level, State(slot)), Const(0)),
                                    PerTick(attack), PerTick(release)))
  IN Stateful("env-follow", FollowerArgs(b, s, t), <<"EnvelopeFollower">>, s, t,
              LAMBDA a, o, x : <<law(x[1], Unary("Abs", a[1]), a[2], a[3])>>, Itself)

(* The input is held when the trigger rises.                               *)
Sah(b, s, t) ==
  Stateful("sah", Strict(b, 2, s, t), <<"HeldValue", "TriggerMemory">>, s, t,
           LAMBDA a, o, x : <<Select(Rises(a[2], x[2]), a[1], State(x[1])), a[2]>>, Itself)

Noise(b, s, t) ==
  Stateful("noise", R(b, <<>>), <<"NoiseCounter">>, s, t,
           LAMBDA a, o, x : <<Binop("Add", State(x[1]), Const(Unit))>>,
           LAMBDA o, counter : Unary("UniToBi", Unary("HashIndex", counter)))

Toggle(b, s, t) ==
  Stateful("toggle", Strict(b, 1, s, t), <<"ToggleState", "TriggerMemory">>, s, t,
           LAMBDA a, o, x :
             <<Select(Rises(a[1], x[2]), Binop("Sub", Const(Unit), State(x[1])), State(x[1])),
               a[1]>>, Itself)

(* A rise of the reset counts before a rise of the trigger.                *)
CountRises(b, s, t) ==
  LET up(trigger, x) == Select(Rises(trigger, x[2]), Binop("Add", State(x[1]), Const(Unit)),
                               State(x[1]))
  IN Stateful("count", Strict(b, 1, s, t), <<"Counter", "TriggerMemory", "ResetLatch">>, s, t,
              LAMBDA a, o, x : <<Select(Rises(o.reset, x[3]), Const(0), up(a[1], x)),
                                 a[1], o.reset>>, Itself)

-----------------------------------------------------------------------------
(* (live-edit seed :id "id" :min lo :max hi)                               *)

(* The keywords: n has what was found, or is None.                         *)
RECURSIVE LiveOptions(_, _)
LiveOptions(b, o) ==
  LET key == Peek(b)[2]
      b1 == Consume(b)
  IN IF ~At(b, "key") THEN R(b, o)
     ELSE CASE key = ":id" ->
                 IF At(b1, "str")
                 THEN LiveOptions(Consume(b1), ("id" :> StringAt(b1.base, b1.pos)) @@ o)
                 ELSE Fail(Consume(b1))
            [] key \in {":min", ":max"} ->
                 IF At(b1, "num") THEN LiveOptions(Consume(b1), (key :> Peek(b1)[2]) @@ o)
                 ELSE Fail(Consume(b1))
            [] OTHER -> LiveOptions(Consume(b1), o)

(* An identifier that is met again is an error, unless it is met while a   *)
(* body is inlined.                                                        *)
IsDuplicate(b, id) ==
  b.inl = <<>> /\ (id \in b.shared \/ (LiveSlot(b, id) # 0 /\ id \in b.seen))

Met(b, id) == [b EXCEPT !.seen = @ \cup {id},
                        !.shared = IF b.inl = <<>> /\ ~b.bare THEN @ \cup {id} ELSE @]

(* A slot that is there keeps its value, within the new bounds; a new one  *)
(* starts at the seed.                                                     *)
WithFreshSlot(b, id, seed, lo, hi) ==
  LET i == LiveSlot(b, id)
      slot == [id |-> id, min |-> lo, max |-> hi, seed |-> seed, value |-> seed]
  IN R([b EXCEPT !.live = IF i # 0 THEN [@ EXCEPT ![i] = slot] ELSE Append(@, slot)],
       IF i # 0 THEN i ELSE Len(b.live) + 1)
WithLiveSlot(b, id, seed, lo, hi) ==
  LET i == LiveSlot(b, id)
  IN IF i # 0
     THEN R([b EXCEPT !.live[i] = [id |-> id, min |-> lo, max |-> hi, seed |-> seed,
                                   value |-> Clamped(b.live[i].value, lo, hi)]], i)
     ELSE R([b EXCEPT !.live = Append(@, [id |-> id, min |-> lo, max |-> hi, seed |-> seed,
                                          value |-> seed])], Len(b.live) + 1)

LiveEdit(b, s, t) ==
  LET seed == Peek(b)[2]
      o == LiveOptions(Consume(b), [x \in {} |-> 0])
      id == o.n["id"]
      slot == WithLiveSlot(Met(o.b, id), id, seed, o.n[":min"], o.n[":max"])
  IN IF ~At(b, "num") THEN Fail(b)
     ELSE IF o.n = None THEN o
     ELSE IF DOMAIN o.n # {"id", ":min", ":max"} \/ o.n[":min"] >= o.n[":max"] THEN Fail(o.b)
     ELSE IF IsDuplicate(o.b, id) THEN Fail(o.b)
     ELSE IF LiveSlot(o.b, id) = 0 /\ Len(o.b.live) >= MaxLive THEN Fail(Met(o.b, id))
     ELSE R(slot.b, Load("SlotLoad", slot.n))

-----------------------------------------------------------------------------
(* compile_form.                                                           *)

SideEffects == {"define", "def", "defn", "defun", "defs", "set", "defstate", "zeros", "get-expr",
                "set-bpm", "set-time-sig", "useq-clear", "useq-set-time-offset",
                "useq-nudge-time", "useq-play", "useq-pause", "useq-stop", "useq-rewind"}

Form(b, op, s, t) ==
  CASE op \in SideEffects \cup {"fn", "lambda", "quote"} -> Fail(b)
    [] op \in TimeForms -> TimeForm(b, op, s, t)
    [] op = "if" -> If(b, s, t)
    [] op = "let" -> Let(b, s, t)
    [] op \in {"do", "scope"} -> Do(b, s, t)
    [] op = "for" -> For(b, s, t)
    [] op = "while" -> WhileGate(b, s, t)
    [] op \in {"step", "seq", "from-list"} -> Step(b, s, t)
    [] op \in {"euclid", "eu"} -> Euclid(b, s, t)
    [] op \in {"interp", "flatseq"} -> Interp(b, s, t)
    [] op = "dm" -> Dm(b, s, t)
    [] op = "range" -> RangeForm(b, s, t)
    [] op = "gatesw" -> Gatesw(b, s, t)
    [] op \in {"random", "index-rand"} -> Random(b, op, s, t)
    [] op \in {"ridx", "rstep", "rpulse", "rwarp"} -> Rhythm(b, op, s, t)
    [] op = "phasor" -> Phasor(b, s, t)
    [] op \in DOMAIN Waves -> Oscillator(b, op, s, t)
    [] op = "integrate" -> Integrate(b, s, t)
    [] op = "slew" -> Slew(b, s, t)
    [] op = "one-pole" -> OnePole(b, s, t)
    [] op \in {"env-follow", "envelope-follower"} -> EnvFollow(b, s, t)
    [] op \in {"sah", "latch"} -> Sah(b, s, t)
    [] op = "noise" -> Noise(b, s, t)
    [] op = "toggle" -> Toggle(b, s, t)
    [] op = "count" -> CountRises(b, s, t)
    [] op = "live-edit" -> LiveEdit(b, s, t)
    [] op = "prev" -> Prev(b)
    [] op \in DOMAIN Arithmetic -> VariadicArithmetic(b, Arithmetic[op], s, t)
    [] op \in DOMAIN Comparison -> Loose2(b, Comparison[op], s, t)
    [] op \in DOMAIN Logic -> Loose2(b, Logic[op], s, t)
    [] op = "not" -> LET a == Expr(b, s, t) IN R(a.b, Unary("Not", a.n))
    [] op \in DOMAIN UnaryMath -> Math1(b, UnaryMath[op], s, t)
    [] op \in DOMAIN BinaryMath -> Math2(b, op, s, t)
    [] op \in DOMAIN TernaryMath -> Math3(b, TernaryMath[op], s, t)
    [] op \in {"gates", "trigs"} -> Gates(b, op, s, t)
    [] op \in {"tri", "sqr"} -> Waveform(b, IF op = "tri" THEN "Tri" ELSE "Sqr", s, t)
    [] op = "input" -> InputForm(b, s, t)
    [] OTHER -> Call(b, op, s, t)

(* A list: after an error, and before one for arguments that are left,     *)
(* the rest of it is skipped.                                              *)
Closed(r) ==
  IF r.b.err THEN R(Expect(Drain(r.b), ")"), r.n)
  ELSE IF More(r.b) THEN R(Expect(Drain(Fail(r.b).b), ")"), None)
  ELSE R(Expect(r.b, ")"), r.n)

List(b, s, t) ==
  LET b1 == Consume(b)
  IN IF At(b, ")") THEN R(b1, Const(0))
     ELSE IF ~AtSymbol(b) THEN Fail(b1)
     ELSE Closed(Form(b1, Peek(b)[2], s, t))

Expr(b, s, t) ==
  LET tok == Peek(b)
      b1 == Consume(b)
  IN IF b.err
     THEN R(IF At(b, "(") THEN SkipForm(b) ELSE IF At(b, ")") THEN b ELSE b1, None)
     ELSE CASE tok[1] = "num" -> R(b1, Const(tok[2]))
            [] AtSymbol(b) -> Symbol(b1, tok[2], s, t)
            [] tok[1] = "[" -> VectorLiteral(b, s, t)
            [] tok[1] = "(" -> List(b1, s, t)
            [] OTHER -> Fail(b)

(* build_output_graph: the first expression of a text.                     *)
Build(b, text) == Expr([b EXCEPT !.ts = text, !.pos = 1, !.base = text], <<<<>>>>, RawTime)
=============================================================================
