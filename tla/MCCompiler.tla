----------------------------- MODULE MCCompiler -----------------------------
(* A cell store, documents and ticks for Compiler.                         *)
EXTENDS Compiler

CONSTANT NoCell     \* the body of a cell that has none

(* The functions of libm: any that are not one another.                    *)
MathOf(op, x) ==
  CASE op = "Sin" -> x[1] + 3
    [] op = "USin" -> (3 * x[1]) % 5
    [] op = "HashIndex" -> (x[1] * x[1] + 1) % 5
    [] op = "Expt" -> x[1] + 2 * x[2]
    [] OTHER -> 7

T == S("t")
I == S("in1")
Beat == S("beat")

Number(v) == [kind |-> "Number", value |-> v, index |-> 0, params |-> <<>>,
              body |-> <<>>, source |-> NoCell]
DataCell(i, n) == [Number(n * Unit) EXCEPT !.kind = "Data", !.index = i]
StateCell(i) == [Number(0) EXCEPT !.kind = "State", !.index = i]
Function(params, e) == [Number(0) EXCEPT !.kind = "Callable", !.params = params,
                                         !.body = Tokens(e), !.source = e]

Knobs(id, lo, hi, seed) ==
  <<"list", <<S("live-edit"), N(seed), K(":id"), Str(id), K(":min"), N(lo), K(":max"), N(hi)>>>>

TempoCells == ("bpm" :> Number(960)) @@ ("beats-per-bar" :> Number(8))
              @@ ("bars-per-phrase" :> Number(8)) @@ ("phrases-per-section" :> Number(8))

CellStore ==
  TempoCells
  @@ ("c" :> Number(6)) @@ ("v" :> DataCell(1, 4)) @@ ("s" :> StateCell(1))
  @@ ("e" :> Function(<<>>, A("+", <<T, S("c")>>)))
  @@ ("e2" :> Function(<<>>, A("*", <<S("e"), S("x")>>)))
  @@ ("loop" :> Function(<<>>, A("+", <<S("loop"), N(1)>>)))
  @@ ("f" :> Function(<<"x">>, A("+", <<S("x"), Beat>>)))
  @@ ("g" :> Function(<<"x", "y">>, A("f", <<A("*", <<S("x"), S("y")>>)>>)))
  @@ ("h" :> Function(<<"x">>, A("h", <<S("x")>>)))
  @@ ("e3" :> Function(<<>>, A("*", <<T, Knobs("e3", 0, 4, 1)>>)))
  @@ ("k" :> Function(<<"x">>, A("*", <<S("x"), Knobs("kn", 0, 4, 1)>>)))
  @@ ("p1" :> Function(<<"x">>, A("+", <<S("x"), S("c")>>)))
  @@ ("p2" :> Function(<<"x">>, A("p1", <<S("x")>>)))
  @@ ("p3" :> Function(<<"x">>, A("p2", <<S("x")>>)))
  @@ ("p4" :> Function(<<"x">>, A("p3", <<S("x")>>)))

TablesOf == <<<<4, 0, 8, 2>>>>
LawsAtFirst == <<Binop("Add", State(1), Const(1))>>

TickAt(t, in, prev) ==
  [t |-> t, dt |-> 1, cell |-> [c \in DOMAIN TempoCells |-> CellStore[c].value],
   input |-> [i \in 0 .. 9 |-> IF i = 0 THEN in ELSE in + i], prev |-> [i \in 0 .. 17 |-> prev + i],
   state |-> [i \in 1 .. MaxSlots |-> i + in], live |-> <<>>, tables |-> <<>>]
SomeTicks == {TickAt(0, 0, 5), TickAt(1, 4, 2), TickAt(9, 3, 1), TickAt(-6, 7, 0)}

-----------------------------------------------------------------------------
(* Expressions.                                                            *)

Pairs == {<<T, N(2)>>, <<N(3), T>>, <<N(3), N(2)>>, <<I, N(0)>>, <<T, I>>, <<N(1), Q(2)>>}
OfOne == {A(op, <<x>>) : op \in DOMAIN Unary1 \cup {"tri", "sqr"}, x \in {T, Q(-5)}}
OfTwo == {A(op, p) : op \in DOMAIN Binary2 \cup DOMAIN Folded \cup {"pow"}, p \in Pairs}
OfThree == {A(op, <<N(1), N(3), x>>) : op \in DOMAIN Ternary3 \cup {"dm"}, x \in {T, N(2)}}
           \cup {A(op, <<x, T, I>>) : op \in {"clamp", "lerp", "scale", "dm", "if"}, x \in {Q(1), I}}
Folds == {A(op, <<T, N(2), I>>) : op \in DOMAIN Folded} \cup {A(op, <<>>) : op \in DOMAIN Folded}
         \cup {A(op, <<T>>) : op \in DOMAIN Folded}
Arity == {A(op, <<T>>) : op \in DOMAIN Binary2} \cup {A(op, <<T, T>>) : op \in DOMAIN Ternary3}
         \cup {A(op, <<T, T, T>>) : op \in {"sin", ">", "pow", "fast", "if", "while"}}
Neutral == {A("+", <<T, N(0)>>), A("*", <<N(1), T>>), A("*", <<N(0), T>>), A("-", <<T, T>>),
            A("/", <<T, N(1)>>), A("-", <<A("*", <<N(2), T>>), A("*", <<N(2), T>>)>>)}
Names == {S(n) : n \in {"t", "dt", "beat", "bar", "phrase", "section", "beat-num", "bar-num",
                        "beat-dur", "bar-dur", "in1", "ain2", "a1", "d2", "c", "v", "s", "e",
                        "e2", "f", "loop", "bpm", "nobody"}} \cup {K(":key"), V(<<N(1), N(2)>>)}
Times2 == {A(op, <<by, x>>) : op \in TimeForms, by \in {N(2), I},
                              x \in {T, A("+", <<T, Beat>>), A("fast", <<N(3), Beat>>), S("e")}}
Control == {A("while", <<I, T>>), A("if", <<N(1), T>>), A("if", <<I, T>>),
            A("do", <<N(1), T>>), A("do", <<>>), A("scope", <<S("nobody"), T>>),
            A("prev", <<S("a1")>>), A("input", <<N(0)>>), A("input", <<T>>),
            A("let", <<V(<<S("x"), N(2)>>), A("+", <<S("x"), T>>)>>),
            A("let", <<V(<<S("x"), T, S("y"), A("*", <<S("x"), N(2)>>)>>), S("y")>>),
            A("let", <<L(<<S("x"), T, S("c"), I>>), A("+", <<S("x"), S("c")>>)>>),
            A("let", <<L(<<L(<<S("x"), T>>), L(<<S("t"), I>>)>>), A("+", <<S("x"), S("t")>>)>>),
            A("let", <<V(<<S("x"), N(2)>>), S("e2")>>),
            A("let", <<V(<<N(2), N(2)>>), T>>), A("let", <<V(<<S("x"), N(2)>>)>>),
            A("for", <<S("x"), V(<<N(2), T>>), A("+", <<S("x"), T>>)>>),
            A("for", <<S("x"), S("v"), A("*", <<S("x"), T>>)>>),
            A("for", <<S("x"), V(<<>>), S("x")>>), A("for", <<S("x"), V(<<>>), A("sin", <<T>>)>>),
            A("for", <<S("x"), S("c"), S("x")>>),
            A("for", <<S("x"), V(<<N(2)>>), S("nobody")>>), A("for", <<N(1), V(<<N(2)>>), T>>),
            A("range", <<N(3)>>), A("range", <<N(1), N(3)>>), A("range", <<N(3), N(0), N(-2)>>),
            A("range", <<N(0)>>), A("range", <<T>>), A("random", <<>>), A("random", <<N(2)>>),
            A("random", <<N(2), I>>), A("index-rand", <<T>>), A("index-rand", <<T, N(3)>>),
            A("index-rand", <<T, I, N(3)>>)}
Calls == {A("f", <<T>>), A("f", <<>>), A("f", <<T, T>>), A("g", <<N(2), T>>), A("h", <<T>>),
          A("f", <<A("f", <<T>>)>>), A("f", <<A("g", <<T, I>>)>>), A("fast", <<N(2), A("f", <<S("c")>>)>>),
          A("c", <<T>>), A("nobody", <<T>>), A("e", <<>>), A("+", <<A("f", <<T>>), A("f", <<I>>)>>),
          A("f", <<S("nobody")>>), A("p2", <<T>>), A("p3", <<T>>), A("p4", <<T>>), L(<<>>),
          L(<<N(1), T>>), A("define", <<S("x"), N(1)>>), Str("a"), A("let", <<V(<<S("x"), N(2)>>), A("f", <<T>>)>>)}
Tables == {A(op, <<d>>) : op \in OnTable, d \in {S("v"), V(<<N(1), N(3)>>), S("c")}}
          \cup {A(op, <<V(<<N(2), N(0), N(9)>>), p>>) : op \in OnTable, p \in {T, I, Q(1)}}
          \cup {A(op, <<S("v"), Q(1), p>>) : op \in OnTable, p \in {Beat, Q(2)}}
          \cup {A(op, <<V(<<N(1), N(1), N(2)>>), Q(2), p>>) : op \in {"rpulse", "gates", "step"}, p \in {T, Q(4)}}
          \cup {A("euclid", <<N(4), N(2)>>), A("euclid", <<N(5), N(3), T>>),
                A("eu", <<N(4), N(3), Q(1), Beat>>), A("euclid", <<N(4)>>)}

Pure == OfOne \cup OfTwo \cup OfThree \cup Folds \cup Arity \cup Neutral \cup Names \cup Times2
        \cup Control \cup Calls \cup Tables

(* One expression inside another.                                          *)
Around(e) ==
  {A("fast", <<N(2), e>>), A("fast", <<e, T>>), A("f", <<e>>), A("if", <<I, e, T>>), A("if", <<e, T>>),
   A("let", <<V(<<S("c"), e>>), A("+", <<S("c"), S("e")>>)>>), A("let", <<V(<<S("x"), T>>), e>>),
   A("for", <<S("x"), V(<<N(2), e>>), A("+", <<S("x"), T>>)>>),
   A("for", <<S("x"), V(<<N(2), I>>), e>>), A("step", <<V(<<N(1), N(3)>>), e>>),
   A("+", <<e, A("slow", <<N(2), e>>)>>), A("sin", <<e>>)}
Inside == UNION {Around(e) : e \in Names \cup Control \cup Calls \cup Tables}

(* Operators with state, under a name and without.                         *)
Trigger == S("in2")
Named(e) == {e, <<"list", e[2] \o <<K(":id"), Str("q")>>>>}
StateForms ==
  UNION {Named(e) : e \in
    {A("phasor", <<N(2)>>), A("phasor", <<I, K(":phase"), Q(1)>>), A("integrate", <<I>>),
     A("slew", <<I, N(8)>>), A("one-pole", <<I, N(1)>>), A("env-follow", <<I>>),
     A("env-follow", <<I, N(2), N(4)>>), A("sah", <<I, Trigger>>), A("latch", <<S("f"), Trigger>>),
     A("toggle", <<Trigger>>), A("count", <<Trigger>>), A("count", <<I, K(":reset"), Trigger>>),
     A("noise", <<>>), A("saw", <<N(2)>>), A("sqr-osc", <<N(2), K(":pw"), Q(1)>>),
     A("lfo", <<N(2), K(":wave"), K(":tri")>>), A("lfo", <<N(2), K(":wave"), K(":id")>>)}}
Patches == {A("+", <<A("count", <<Trigger>>), A("count", <<I>>)>>),
            A("slew", <<A("sah", <<I, A("phasor", <<N(1)>>)>>), N(2), K(":id"), Str("q")>>),
            A("integrate", <<A("toggle", <<S("nobody")>>), K(":id"), Str("q")>>)}

(* Options and arguments of theirs that do not compile.                    *)
Broken ==
  UNION {Named(e) : e \in {A("count", <<I, K(":reset"), S("nobody")>>), A("env-follow", <<I, S("nobody")>>),
                           A("phasor", <<I, K(":phase"), S("nobody")>>), A("sah", <<I, S("nobody")>>)}}

Counts == {e \in StateForms : e[2][1] \in {S("count"), S("slew"), S("sah")}}

(* Knobs, in one program and in several.                                   *)
KnobA == Knobs("a", 0, 4, 1)
KnobForms == {A("+", <<KnobA, Knobs("b", 0, 3, 2)>>), A("fast", <<KnobA, T>>),
              Knobs("a", 1, 2, 2), A("+", <<KnobA, KnobA>>), Knobs("c", 2, 1, 1),
              A("+", <<Knobs("b", 0, 2, 1), A("*", <<Knobs("c", 0, 1, 0), Knobs("d", 0, 1, 0)>>)>>),
              A("+", <<S("e3"), S("e3")>>)}
Lines == {<<<<"o1", e>>>> : e \in KnobForms}
         \cup {<<<<"o1", A("fast", <<KnobA, T>>)>>, <<"o2", e>>>> : e \in KnobForms}

DocumentsOf == {<<<<<<"o1", e>>>>>> : e \in Pure \cup Inside}
               \cup {<<<<<<"repl", e>>>>>> : e \in Control \cup Calls \cup Tables}
               \cup {<<<<<<"o1", e>>>>, <<<<"o2", d>>>>>> : d \in Patches \cup Counts, e \in StateForms}
               \cup {<<<<<<"o1", e>>>>, <<<<"o2", d>>>>, <<<<"o2", e>>>>>> : d \in Broken, e \in StateForms}
               \cup {<<<<<<"o1", e>>>>, y>> : e \in KnobForms, y \in Lines}
               \cup {<<<<<<"o1", KnobA>>>>, <<<<"repl", KnobA>>, <<"o2", KnobA>>>>, <<<<"o1", KnobA>>>>>>}

(* Histories of three ticks and the present, two inputs low or high.       *)
HistoriesOf ==
  LET tick(p) == [TickAt(0, 0, 0) EXCEPT !.dt = 1, !.input[0] = p[1], !.input[1] = p[2]]
      past == {<<0, 0>>, <<8, 0>>, <<8, 4>>, <<-4, 4>>, <<2, 2>>}
  IN {<<tick(p), tick(q), tick(r), tick(<<0, 0>>)>> : p \in past, q \in past, r \in past}

=============================================================================
