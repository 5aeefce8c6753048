------------------------------ MODULE Language ------------------------------
(***************************************************************************)
(* What a signal expression means: the abstract specification the compiler *)
(* is checked against.  Nothing here knows of tokens, nodes or slots.      *)
(*                                                                         *)
(* An expression is an atom, which is its token, or <<"list", elements>>,  *)
(* or <<"vec", elements>>.  It means a number at a time, Wrong if it is to *)
(* be rejected.  Names are bound dynamically: the body of a cell sees the  *)
(* bindings and the time of its user (docs/specs/functions.md).            *)
(***************************************************************************)
EXTENDS SignalValues, SequencesExt

CONSTANTS
  Wrong,          \* the meaning of an expression that is to be rejected
  DeepestCall     \* how many cells may be inlined into one another

(* The text of an expression.                                              *)
RECURSIVE Tokens(_)
Tokens(e) ==
  LET inner == FlattenSeq([i \in DOMAIN e[2] |-> Tokens(e[2][i])])
  IN CASE e[1] = "list" -> <<<<"(", 0>>>> \o inner \o <<<<")", 0>>>>
       [] e[1] = "vec"  -> <<<<"[", 0>>>> \o inner \o <<<<"]", 0>>>>
       [] OTHER         -> <<e>>

(* Writing expressions down: numbers are whole, quarters are given as such. *)
N(k) == <<"num", k * Unit>>
Q(k) == <<"num", k>>
S(x) == <<"sym", x>>
K(x) == <<"key", x>>
Str(x) == <<"str", x>>
V(es) == <<"vec", es>>
L(es) == <<"list", es>>
A(op, es) == <<"list", <<S(op)>> \o es>>

-----------------------------------------------------------------------------
Unary1 == ("sin" :> "Sin") @@ ("abs" :> "Abs") @@ ("floor" :> "Floor") @@ ("ceil" :> "Ceil")
          @@ ("neg" :> "Neg") @@ ("frac" :> "Frac") @@ ("usin" :> "USin") @@ ("not" :> "Not")
          @@ ("b>u" :> "BiToUni") @@ ("u>b" :> "UniToBi")
Binary2 == ("expt" :> "Expt") @@ ("mod" :> "Mod") @@ ("pulse" :> "Pulse") @@ (">" :> "CmpGt")
           @@ ("<" :> "CmpLt") @@ (">=" :> "CmpGe") @@ ("<=" :> "CmpLe") @@ ("=" :> "CmpEq")
           @@ ("and" :> "And") @@ ("or" :> "Or")
Ternary3 == ("clamp" :> "Clamp") @@ ("lerp" :> "Lerp") @@ ("scale" :> "Scale")
Folded == ("+" :> "Add") @@ ("-" :> "Sub") @@ ("*" :> "Mul") @@ ("/" :> "Div") @@ ("%" :> "Mod")
          @@ ("min" :> "Min") @@ ("max" :> "Max")

(* How many arguments an operator takes.                                   *)
Arities ==
  [op \in DOMAIN Unary1 |-> {1}] @@ [op \in DOMAIN Binary2 \cup {"pow"} |-> {2}]
  @@ [op \in DOMAIN Ternary3 \cup {"dm"} |-> {3}]
  @@ [op \in {"+", "*"} |-> 0 .. 4] @@ [op \in DOMAIN Folded |-> 1 .. 4]
  @@ [op \in {"fast", "slow", "offset", "shift", "loop-at", "eval-at-time", "while"} |-> {2}]
  @@ [op \in {"if"} |-> {2, 3}] @@ [op \in {"tri", "sqr"} |-> {1, 2}]
  @@ [op \in {"seq", "step", "interp", "gatesw", "ridx", "rstep", "rwarp"} |-> {1, 2}]
  @@ [op \in {"gates", "trigs"} |-> {1, 2, 3}] @@ [op \in {"rpulse"} |-> {2, 3}]
  @@ [op \in {"euclid", "eu"} |-> {2, 3, 4}] @@ [op \in {"random"} |-> {0, 1, 2}]
  @@ [op \in {"index-rand", "range"} |-> {1, 2, 3}] @@ [op \in {"input", "prev"} |-> {1}]

OnTable == {"seq", "step", "interp", "gatesw", "gates", "trigs", "ridx", "rstep", "rpulse", "rwarp"}

(* The beat, bar, phrase and section: cycles of time at the tempo.         *)
Tempo(name, c) ==
  LET beat == Quotient(c["bpm"], 60 * Unit)
      bar == Quotient(beat, c["beats-per-bar"])
      phrase == Quotient(bar, c["bars-per-phrase"])
  IN CASE name \in {"beat", "beat-num"} -> beat
       [] name \in {"bar", "bar-num"} -> bar
       [] name = "phrase" -> phrase
       [] name = "section" -> Quotient(phrase, c["phrases-per-section"])

(* What a name that the language gives means.                              *)
Given(name, t, env) ==
  CASE name = "t" -> t
    [] name = "dt" -> env.dt
    [] name \in {"beat", "bar", "phrase", "section"} ->
         Remainder(Times(t, Tempo(name, env.cell)), Unit)
    [] name \in {"beat-num", "bar-num"} -> Floored(Times(t, Tempo(name, env.cell)))
    [] name = "beat-dur" -> Quotient(60 * Unit, env.cell["bpm"])
    [] name = "bar-dur" -> Times(Quotient(60 * Unit, env.cell["bpm"]), env.cell["beats-per-bar"])
    [] name = "in1" -> env.input[0]
    [] name = "in2" -> env.input[1]
    [] name = "ain2" -> env.input[9]
    [] name = "a1" -> env.prev[0]
    [] name = "d2" -> env.prev[9]
    [] OTHER -> Wrong

LocalTime(op, t, by) == CASE op = "fast" -> Times(t, by)
                          [] op = "slow" -> Quotient(t, by)
                          [] op \in {"offset", "shift"} -> t + by
                          [] op = "loop-at" -> Remainder(t, by)
                          [] op = "eval-at-time" -> by

Fold1(op, vs) ==
  CASE vs = <<>> -> IF op = "Mul" THEN Unit ELSE 0
    [] Len(vs) = 1 /\ op = "Sub" -> -vs[1]
    [] Len(vs) = 1 /\ op = "Div" -> Quotient(Unit, vs[1])
    [] OTHER -> FoldLeft(LAMBDA x, y : EvalBinary(op, x, y), Head(vs), Tail(vs))

-----------------------------------------------------------------------------
(* Sequences: the step a phase is in, and how far into it.                 *)
StepAt(table, phase) == Indexed(table, phase * Len(table))
IntoStep(table, phase) == phase * Len(table) - Floored(phase * Len(table))

(* The ratio rhythms: the part the phase is in, and how far into it.       *)
Ends(table) ==
  LET sum[i \in 0 .. Len(table)] == IF i = 0 THEN 0 ELSE sum[i - 1] + table[i]
  IN [i \in 0 .. Len(table) |-> Quotient(sum[i], sum[Len(table)])]
PartOf(table, phase) ==
  LET n == Len(table)
      in == {i \in 1 .. n - 1 : phase <= Ends(table)[i]}
  IN IF in = {} THEN n ELSE CHOOSE i \in in : \A j \in in : i <= j
IntoPart(table, phase) ==
  LET i == PartOf(table, phase)
  IN Quotient(phase - Ends(table)[i - 1], Ends(table)[i] - Ends(table)[i - 1])

Rhythms(op, table, vs, phase) ==
  LET width == IF Len(vs) < 2 THEN Unit \div 2 ELSE vs[1]
      on == StepAt(table, phase) > 0
      i == PartOf(table, phase)
  IN CASE op \in {"seq", "step"} -> StepAt(table, phase)
       [] op = "interp" -> Interpolated(table, phase)
       [] op = "trigs"  -> Bit(on)
       [] op = "gates"  -> Bit(on /\ IntoStep(table, phase) < width)
       [] op = "gatesw" -> Bit(IntoStep(table, phase) < Quotient(StepAt(table, phase), 9 * Unit))
       [] op = "ridx"   -> ((i - 1) * Unit) \div Len(table)
       [] op = "rstep"  -> Ends(table)[i - 1]
       [] op = "rpulse" -> Bit(Ends(table)[i] > Ends(table)[i - 1] /\ IntoPart(table, phase) <= vs[1])
       [] op = "rwarp"  -> Times((i - 1) * Unit + IntoPart(table, phase), Unit \div Len(table))

(* `active' hits over `total' steps, as evenly as can be.                  *)
Euclidean(total, active, width, phase) ==
  LET steps == total \div Unit
      hits == active \div Unit
      at == Times(phase, total)
      last == IF at \div Unit < steps THEN at \div Unit ELSE steps - 1
  IN Bit(Remainder(last * hits, steps) < hits /\ at - last * Unit < width)

-----------------------------------------------------------------------------
RECURSIVE Meaning(_, _, _, _)   \* expression, bindings, time, and the world w

RECURSIVE Meanings(_, _, _, _)
Meanings(es, loc, t, w) ==
  IF es = <<>> THEN <<>>
  ELSE <<Meaning(Head(es), loc, t, w)>> \o Meanings(Tail(es), loc, t, w)
AnyWrong(vs) == Wrong \in ToSet(vs)
LastOne(vs) == IF AnyWrong(vs) THEN Wrong ELSE IF vs = <<>> THEN 0 ELSE Last(vs)

(* The numbers of a vector, or of a cell that holds one.                   *)
TableOf(e, w) ==
  CASE e[1] = "vec" -> [i \in DOMAIN e[2] |-> e[2][i][2]]
    [] e[1] = "sym" /\ e[2] \in DOMAIN w.cells /\ w.cells[e[2]].kind = "Data" ->
         w.env.tables[w.cells[e[2]].index]
    [] OTHER -> Wrong

Enter(w, name) == [w EXCEPT !.inside = Append(@, name)]
IsInside(w, name) == \E i \in DOMAIN w.inside : w.inside[i] = name

(* A name: what it is bound to, what the language gives, or a cell.        *)
NameMeaning(name, loc, t, w) ==
  IF name \in DOMAIN loc THEN loc[name]
  ELSE IF Given(name, t, w.env) # Wrong THEN Given(name, t, w.env)
  ELSE IF name \notin DOMAIN w.cells THEN Wrong
  ELSE LET cell == w.cells[name]
       IN CASE cell.kind = "State" -> w.env.state[cell.index]
            [] cell.kind \in {"Number", "Data"} -> cell.value
            [] cell.kind = "Callable" ->
                 IF cell.params # <<>> \/ IsInside(w, name) THEN Wrong
                 ELSE Meaning(cell.source, loc, t, Enter(w, name))

(* A call.  A function is not called inside itself, nor among its own      *)
(* arguments (test_phase4.cpp), nor too deep inside others.                *)
Bound(params, vs) ==
  [p \in ToSet(params) |-> vs[CHOOSE i \in DOMAIN params : params[i] = p]]

BodyMeaning(cell, vs, loc, t, w) ==
  IF Len(vs) # Len(cell.params) \/ AnyWrong(vs) THEN Wrong
  ELSE Meaning(cell.source, Bound(cell.params, vs) @@ loc, t, w)

CallMeaning(name, as, loc, t, w) ==
  IF \/ name \notin DOMAIN w.cells \/ w.cells[name].kind # "Callable"
     \/ IsInside(w, name) \/ Len(w.inside) >= DeepestCall
  THEN Wrong
  ELSE BodyMeaning(w.cells[name], Meanings(as, loc, t, Enter(w, name)), loc, t, Enter(w, name))

RECURSIVE LetMeaning(_, _, _, _, _)
LetMeaning(pairs, body, loc, t, w) ==
  IF pairs = <<>> THEN LastOne(Meanings(body, loc, t, w))
  ELSE LET v == Meaning(pairs[2], loc, t, w)
       IN IF v = Wrong \/ pairs[1][1] # "sym" THEN Wrong
          ELSE LetMeaning(SubSeq(pairs, 3, Len(pairs)), body, (pairs[1][2] :> v) @@ loc, t, w)

PairsOf(e) == IF e[2] # <<>> /\ e[2][1][1] = "list"
              THEN FlattenSeq([i \in DOMAIN e[2] |-> e[2][i][2]]) ELSE e[2]

(* The body with the name bound to each of the values.                     *)
RECURSIVE EachMeaning(_, _, _, _, _, _)
EachMeaning(vs, name, body, loc, t, w) ==
  IF vs = <<>> THEN <<>>
  ELSE <<Meaning(body, (name :> Head(vs)) @@ loc, t, w)>>
       \o EachMeaning(Tail(vs), name, body, loc, t, w)
OverMeaning(vs, name, body, loc, t, w) ==
  IF AnyWrong(vs) THEN Wrong ELSE LastOne(EachMeaning(vs, name, body, loc, t, w))

ForMeaning(name, over, body, loc, t, w) ==
  IF over[1] = "vec" THEN OverMeaning(Meanings(over[2], loc, t, w), name, body, loc, t, w)
  ELSE IF TableOf(over, w) = Wrong THEN Wrong
  ELSE OverMeaning(TableOf(over, w), name, body, loc, t, w)

RangeMeaning(vs) ==
  LET from == IF Len(vs) = 1 THEN 0 ELSE vs[1]
      to == IF Len(vs) = 1 THEN vs[1] ELSE vs[2]
      by == IF Len(vs) = 3 THEN vs[3] ELSE Unit
      in == {k \in 0 .. 8 : IF by > 0 THEN from + k * by < to ELSE from + k * by > to}
  IN IF in = {} THEN 0 ELSE from + by * (CHOOSE k \in in : \A j \in in : j <= k)

(* An operator of values.                                                  *)
Applied(op, vs, t, w) ==
  LET n == Len(vs)
      raw == Math("HashIndex", <<IF op = "random" THEN Given("beat-num", t, w.env) ELSE vs[1]>>)
      rs == IF op = "random" THEN vs ELSE Tail(vs)
  IN CASE op \in DOMAIN Unary1 -> EvalUnary(Unary1[op], vs[1])
       [] op \in DOMAIN Binary2 -> EvalBinary(Binary2[op], vs[1], vs[2])
       [] op = "pow" -> EvalBinary("Expt", vs[2], vs[1])
       [] op \in DOMAIN Ternary3 -> EvalTernary(Ternary3[op], vs[1], vs[2], vs[3])
       [] op \in DOMAIN Folded -> Fold1(Folded[op], vs)
       [] op = "if" -> IF vs[1] # 0 THEN vs[2] ELSE IF n = 3 THEN vs[3] ELSE 0
       [] op = "while" -> IF vs[1] # 0 THEN vs[2] ELSE 0
       [] op = "dm" -> IF vs[1] > 0 THEN vs[3] ELSE vs[2]
       [] op \in {"tri", "sqr"} -> EvalUnary(IF op = "tri" THEN "Tri" ELSE "Sqr", vs[n])
       [] op \in {"euclid", "eu"} ->
            Euclidean(vs[1], vs[2], IF n = 4 THEN vs[3] ELSE Unit \div 2,
                      IF n = 2 THEN Given("beat", t, w.env) ELSE vs[n])
       [] op \in {"random", "index-rand"} ->
            IF rs = <<>> THEN raw ELSE IF Len(rs) = 1 THEN Times(raw, rs[1])
            ELSE rs[1] + Times(raw, rs[2] - rs[1])
       [] op = "prev" -> vs[1]

(* The identifier of a live-edit is the only string in it.                 *)
Knob(as) == as[CHOOSE i \in DOMAIN as : as[i][1] = "str"][2]

(* An operator of a table and the values after it; without a phase, the    *)
(* phase is that of the beat.                                              *)
TableMeaning(op, table, vs, t, w) ==
  IF table = Wrong \/ AnyWrong(vs) THEN Wrong
  ELSE Rhythms(op, table, vs,
               IF vs = <<>> \/ (op = "rpulse" /\ Len(vs) = 1)
               THEN Given("beat", t, w.env) ELSE Last(vs))
TimeMeaning(op, by, e, loc, t, w) ==
  IF by = Wrong THEN Wrong ELSE Meaning(e, loc, LocalTime(op, t, by), w)
ValueMeaning(op, vs, t, w) == IF AnyWrong(vs) THEN Wrong ELSE Applied(op, vs, t, w)

AreNumbers(es) == \A i \in DOMAIN es : es[i][1] = "num"

ListMeaning(op, as, loc, t, w) ==
  CASE op = "live-edit" -> IF Knob(as) \in DOMAIN w.knob THEN w.knob[Knob(as)] ELSE Wrong
    [] op \in {"do", "scope"} -> LetMeaning(<<>>, as, loc, t, w)
    [] op = "let" -> LetMeaning(PairsOf(as[1]), Tail(as), loc, t, w)
    [] op = "for" -> IF Len(as) # 3 \/ as[1][1] # "sym" THEN Wrong
                     ELSE ForMeaning(as[1][2], as[2], as[3], loc, t, w)
    [] op \notin DOMAIN Arities /\ op \notin {"do", "scope", "let", "for", "live-edit"} ->
         CallMeaning(op, as, loc, t, w)
    [] op \in DOMAIN Arities /\ Len(as) \notin Arities[op] -> Wrong
    [] op \in DOMAIN Arities /\ Len(as) \in Arities[op] ->
         CASE op \in OnTable -> TableMeaning(op, TableOf(as[1], w), Meanings(Tail(as), loc, t, w), t, w)
           [] op = "range" -> IF AreNumbers(as) THEN RangeMeaning(Meanings(as, loc, t, w)) ELSE Wrong
           [] op = "input" -> IF AreNumbers(as) THEN w.env.input[as[1][2] \div Unit] ELSE Wrong
           [] op \in {"fast", "slow", "offset", "shift", "loop-at", "eval-at-time"} ->
                TimeMeaning(op, Meaning(as[1], loc, t, w), as[2], loc, t, w)
           [] OTHER -> ValueMeaning(op, Meanings(as, loc, t, w), t, w)

Meaning(e, loc, t, w) ==
  CASE e[1] = "num" -> e[2]
    [] e[1] \in {"sym", "key"} -> NameMeaning(e[2], loc, t, w)
    [] e[1] = "vec" -> Len(e[2]) * Unit
    [] e[1] = "list" ->
         IF e[2] = <<>> THEN 0
         ELSE IF e[2][1][1] # "sym" THEN Wrong
         ELSE ListMeaning(e[2][1][2], Tail(e[2]), loc, t, w)
    [] OTHER -> Wrong
=============================================================================
