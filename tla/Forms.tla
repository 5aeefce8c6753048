-------------------------------- MODULE Forms --------------------------------
(***************************************************************************)
(* The forms of a text that is evaluated (eval_form and eval_cold in       *)
(* signal_engine/cold_eval.cpp), read off a stream of tokens.              *)
(*                                                                         *)
(* Reading a form yields a command, and a command changes the engine.  A   *)
(* form may be an error in itself, and the reader then goes on wherever it *)
(* has come to.  Numbers, brackets and strings are tokens as they are; all *)
(* other tokens are symbols.  An expression is its tokens: it compiles     *)
(* when the symbols in it have a meaning (modules GraphBuilder and         *)
(* Compiler are about that).                                               *)
(***************************************************************************)
EXTENDS Naturals, Sequences, SequencesExt, FiniteSetsExt

CONSTANTS
  Number,    \* tokens that are numbers
  ValueOf,   \* what they are worth
  Cell,      \* names that can be bound
  Output,    \* names of outputs
  Operator,  \* the other symbols with a meaning in expressions
  Trees,     \* the texts that are evaluated, as trees
  MaxTables  \* MAX_DATA_TABLES

VARIABLES
  texts,   \* the tree of each form of the text
  tokens,  \* the stream
  pos,     \* its position
  open,    \* how many `do' forms are open
  last,    \* the latest result
  engine,  \* cells, the number of tables, programs, transport
  done,    \* eval_cold has returned
  turn     \* changes with every form

forms == <<texts, tokens, pos, open, last, engine, done, turn>>

Empty == [kind |-> "empty"]

-----------------------------------------------------------------------------
(* The stream.                                                             *)
Kind(t) ==
  IF t \in Number THEN "number"
  ELSE IF t \in {"(", ")", "[", "]", "string", "eof"} THEN t ELSE "symbol"

Tok(i) == IF i \in DOMAIN tokens THEN tokens[i] ELSE "eof"

KindAt(i) == Kind(Tok(i))

Expect(kind, i) == IF KindAt(i) = kind THEN i + 1 ELSE i

Opening == {"(", "["}
Shutting == {")", "]"}

(* skip_form: where the form at i ends, a bracket that is shut there       *)
(* included.                                                               *)
RECURSIVE SkipFrom(_, _)
SkipFrom(i, depth) ==
  IF KindAt(i) = "eof" THEN i
  ELSE IF KindAt(i) \in Opening THEN SkipFrom(i + 1, depth + 1)
  ELSE IF KindAt(i) \in Shutting /\ depth > 1 THEN SkipFrom(i + 1, depth - 1)
  ELSE IF depth > 0 /\ KindAt(i) \notin Shutting THEN SkipFrom(i + 1, depth)
  ELSE i + 1

SkipToBracket(i) ==   \* mutant: the first bracket that shuts ends the form
  IF KindAt(i) \notin Opening THEN i + 1
  ELSE 1 + Min({j \in i..Len(tokens) : Tok(j) \in Shutting})

SkipForm(i) == SkipFrom(i, 0)

Slice(i, j) == SubSeq(tokens, i, j - 1)

(* The first of the given kinds from i on.                                 *)
FirstOf(kinds, i) ==
  Min({Len(tokens) + 1} \cup {j \in i..Len(tokens) : KindAt(j) \in kinds})

NextIsLiveEdit(i) == Tok(i) = "(" /\ Tok(i + 1) = "live-edit"

-----------------------------------------------------------------------------
(* A command and where reading goes on.                                    *)
Read(what, next) == [command |-> what, next |-> next]

Refusal(next) == Read([do |-> "refuse"], next)

(* What a cell is bound to: a number, the numbers of a vector or a text.   *)
Binding(i) ==
  CASE KindAt(i) = "number" ->
         [value |-> [kind |-> "number", n |-> ValueOf[Tok(i)]], next |-> i + 1]
    [] KindAt(i) = "[" ->
         LET e == FirstOf({"]"}, i)
             numbers == Cardinality({j \in i..(e - 1) : KindAt(j) = "number"})
         IN [value |-> [kind |-> "data", n |-> numbers], next |-> Expect("]", e)]
    [] OTHER -> [value |-> [kind |-> "text", text |-> Slice(i, SkipForm(i))], next |-> SkipForm(i)]

ReadDefine(i) ==
  IF KindAt(i) # "symbol" THEN Refusal(Expect(")", i + 1))
  ELSE LET b == Binding(i + 1)
       IN Read([do |-> "define", names |-> <<Tok(i)>>, values |-> <<b.value>>, sound |-> TRUE],
               Expect(")", b.next))

ReadDefn(i) ==
  IF KindAt(i) # "symbol" THEN Refusal(Expect(")", i + 1))
  ELSE IF KindAt(i + 1) # "[" THEN Refusal(Expect(")", i + 1))
  ELSE LET body == Expect("]", FirstOf({"]"}, i + 2))
           end == SkipForm(body)
       IN Read([do |-> "define", names |-> <<Tok(i)>>, sound |-> TRUE,
                values |-> <<[kind |-> "text", text |-> Slice(body, end)]>>], Expect(")", end))

(* The pairs before the first one that is wrong are bound all the same.    *)
RECURSIVE Pairs(_, _)
Pairs(i, sofar) ==
  LET stop(sound, next) == [sofar EXCEPT !.sound = sound, !.next = next]
  IN CASE KindAt(i) \in {"]", "eof"} -> stop(TRUE, Expect(")", Expect("]", i)))
       [] KindAt(i) \notin {"]", "eof", "symbol"} -> stop(FALSE, i + 1)
       [] KindAt(i) = "symbol" /\ KindAt(i + 1) \in {"]", "eof"} -> stop(FALSE, i + 1)
       [] OTHER -> LET b == Binding(i + 1)
                   IN Pairs(b.next, [sofar EXCEPT !.names = Append(@, Tok(i)),
                                                  !.values = Append(@, b.value)])

ReadDefs(i) ==
  IF KindAt(i) # "[" THEN Refusal(i)
  ELSE LET p == Pairs(i + 1, [names |-> <<>>, values |-> <<>>, sound |-> TRUE, next |-> 0])
       IN Read([do |-> "define", names |-> p.names, values |-> p.values, sound |-> p.sound], p.next)

(* The commands with numbers for arguments.  The argument that is not one  *)
(* has been consumed, whatever it is.                                      *)
Arguments == [c \in {"set-bpm", "useq-set-time-offset", "useq-nudge-time", "set-time-sig"} |->
                IF c = "set-time-sig" THEN 2 ELSE 1]

ReadTransport(op, i) ==
  LET n == Arguments[op]
      wrong == {k \in 1..n : KindAt(i + k - 1) # "number"}
  IN IF NextIsLiveEdit(i) THEN Refusal(Expect(")", FirstOf({")"}, i)))
     ELSE IF wrong # {} THEN Refusal(Expect(")", i + Min(wrong)))
     ELSE Read([do |-> op, n |-> ValueOf[Tok(i)]], Expect(")", i + n))

ReadZeros(i) ==
  IF KindAt(i) # "number" THEN Refusal(Expect(")", i + 1)) ELSE Read([do |-> "zeros"], Expect(")", i + 1))

ReadGetExpr(i) ==
  LET next == Expect(")", i + 1)
  IN IF KindAt(i) # "symbol" THEN Refusal(next) ELSE Read([do |-> "get-expr", name |-> Tok(i)], next)

(* The program is compiled from the stream itself.                         *)
ReadAssign(o, i) ==
  Read([do |-> "assign", output |-> o, text |-> Slice(i, SkipForm(i))], Expect(")", SkipForm(i)))

ReadSet(i) ==
  IF KindAt(i) # "symbol" THEN Refusal(Expect(")", i + 1))
  ELSE Read([do |-> "set", name |-> Tok(i), text |-> Slice(i + 1, SkipForm(i + 1))],
            Expect(")", SkipForm(i + 1)))

(* The initial value is a number.                                          *)
ReadDefstate(i) ==
  IF KindAt(i) # "symbol" THEN Refusal(Expect(")", i + 1))
  ELSE IF NextIsLiveEdit(i + 1) THEN Refusal(Expect(")", Expect(")", FirstOf({")"}, i + 1))))
  ELSE IF KindAt(i + 1) # "number" THEN Refusal(Expect(")", i + 2))
  ELSE Read([do |-> "defstate", name |-> Tok(i), n |-> ValueOf[Tok(i + 1)],
             text |-> Slice(i + 2, SkipForm(i + 2))], Expect(")", SkipForm(i + 2)))

(* A vector is the values of its elements, each a form from one of the     *)
(* places in `at' to the next.                                             *)
RECURSIVE Places(_, _)
Places(i, at) ==
  IF KindAt(i) \in {"]", "eof"} THEN Append(at, i) ELSE Places(SkipForm(i), Append(at, i))

ReadVector(i) ==
  LET at == Places(i + 1, <<>>)
  IN Read([do |-> "query", texts |-> [k \in 1..(Len(at) - 1) |-> Slice(at[k], at[k + 1])]],
          Expect("]", Last(at)))

(* Any other form is an expression, from its bracket to the one that       *)
(* matches it.                                                             *)
ReadQuery(i) == Read([do |-> "query", texts |-> <<Slice(i, SkipForm(i))>>], SkipForm(i))

Plain == {"useq-play", "useq-pause", "useq-stop", "useq-rewind", "useq-clear"}

ReadList(i) ==
  LET op == Tok(i + 1)
  IN CASE KindAt(i + 1) # "symbol" -> Refusal(i + 2)
       [] op \in {"define", "def"} -> ReadDefine(i + 2)
       [] op \in {"defn", "defun"} -> ReadDefn(i + 2)
       [] op = "defs" -> ReadDefs(i + 2)
       [] op = "set" -> ReadSet(i + 2)
       [] op = "defstate" -> ReadDefstate(i + 2)
       [] op \in DOMAIN Arguments -> ReadTransport(op, i + 2)
       [] op \in Plain -> Read([do |-> op], Expect(")", i + 2))
       [] op = "zeros" -> ReadZeros(i + 2)
       [] op = "get-expr" -> ReadGetExpr(i + 2)
       [] op \in Output -> ReadAssign(op, i + 2)
       [] OTHER -> ReadQuery(i)

ReadForm(i) ==
  CASE KindAt(i) = "number" -> Read([do |-> "number"], i + 1)
    [] KindAt(i) = "symbol" -> Read([do |-> "query", texts |-> <<<<Tok(i)>>>>], i + 1)
    [] KindAt(i) = "[" -> ReadVector(i)
    [] KindAt(i) = "(" -> ReadList(i)
    [] OTHER -> Refusal(i)

-----------------------------------------------------------------------------
(* What a command does to the engine E, and its result.                    *)
Did(E, result) == [engine |-> E, result |-> result]

(* An expression that compiles.                                            *)
Compiles(text, E) ==
  \A i \in DOMAIN text :
    Kind(text[i]) = "symbol" =>
      text[i] \in Operator \/ (text[i] \in Cell /\ E.cells[text[i]] # Empty)

(* store_data_table, when a table is left.                                 *)
Bound(E, name, value) ==
  [E EXCEPT !.cells[name] = value,
            !.tables = IF value.kind = "data" /\ @ < MaxTables THEN @ + 1 ELSE @]

BindAll(E, command) ==
  FoldLeft(LAMBDA F, k : Bound(F, command.names[k], command.values[k]), E,
           [k \in DOMAIN command.names |-> k])

Cleared(E) == [E EXCEPT !.programs = [o \in Output |-> Empty], !.running = {}]

(* The text of an output is kept even if it is wrong.                      *)
Assigned(E, command) ==
  LET kept == [E EXCEPT !.programs[command.output] = [kind |-> "text", text |-> command.text]]
  IN IF Compiles(command.text, E) THEN Did([kept EXCEPT !.running = @ \cup {command.output}], "ok")
     ELSE Did([kept EXCEPT !.running = @ \ {command.output}], "error")

(* So is that of a state.                                                  *)
Declared(E, command) ==
  LET kept == Bound(E, command.name, [kind |-> "state", n |-> command.n, text |-> command.text])
  IN Did(kept, IF Compiles(command.text, kept) THEN "ok" ELSE "error")

Apply(E, command) ==
  CASE command.do = "refuse" -> Did(E, "error")
    [] command.do = "number" -> Did(E, "number")
    [] command.do = "query" ->
         Did(E, IF \A i \in DOMAIN command.texts : Compiles(command.texts[i], E) THEN "value" ELSE "error")
    [] command.do = "define" -> Did(BindAll(E, command), IF command.sound THEN "ok" ELSE "error")
    [] command.do = "set" ->
         IF Compiles(command.text, E)
         THEN Did(Bound(E, command.name, [kind |-> "number", n |-> command.text]), "ok")
         ELSE Did(E, "error")
    [] command.do = "defstate" -> Declared(E, command)
    [] command.do = "set-bpm" -> Did(Bound(E, "bpm", [kind |-> "number", n |-> command.n]), "ok")
    [] command.do = "set-time-sig" ->
         Did(Bound(E, "beats-per-bar", [kind |-> "number", n |-> command.n]), "ok")
    [] command.do = "useq-set-time-offset" -> Did([E EXCEPT !.offset = command.n], "ok")
    [] command.do = "useq-nudge-time" -> Did([E EXCEPT !.offset = @ + command.n], "ok")
    [] command.do = "useq-play" -> Did([E EXCEPT !.playing = TRUE], "ok")
    [] command.do = "useq-pause" -> Did([E EXCEPT !.playing = FALSE], "ok")
    [] command.do = "useq-stop" -> Did([E EXCEPT !.playing = FALSE, !.offset = 0], "ok")
    [] command.do = "useq-rewind" -> Did([E EXCEPT !.offset = 0], "ok")
    [] command.do = "useq-clear" -> Did(Cleared(E), "ok")
    [] command.do = "zeros" -> Did([E EXCEPT !.tables = IF @ < MaxTables THEN @ + 1 ELSE @], "value")
    [] command.do = "get-expr" ->
         Did(E, IF command.name \in Cell /\ E.cells[command.name].kind = "text" THEN "value" ELSE "error")
    [] command.do = "assign" -> Assigned(E, command)

-----------------------------------------------------------------------------
(* The tokens of a tree: a token, or a bracket with trees in it.           *)
RECURSIVE Flat(_)
Flat(tree) ==
  IF tree.kind = "token" THEN <<tree.token>>
  ELSE <<tree.kind>> \o FlattenSeq([i \in DOMAIN tree.items |-> Flat(tree.items[i])])
         \o <<IF tree.kind = "(" THEN ")" ELSE "]">>

FlatAll(trees) == FlattenSeq([i \in DOMAIN trees |-> Flat(trees[i])])

NewEngine ==
  [cells |-> [c \in Cell |-> Empty], tables |-> 0, programs |-> [o \in Output |-> Empty],
   running |-> {}, playing |-> TRUE, offset |-> 0]

Init ==
  /\ texts \in Trees
  /\ tokens = FlatAll(texts)
  /\ pos = 1 /\ open = 0 /\ last = "ok" /\ engine = NewEngine /\ done = FALSE /\ turn = 0

IsDo(i) == Tok(i) = "(" /\ Tok(i + 1) \in {"do", "scope"}

DoEnds == open > 0 /\ KindAt(pos) \in {")", "eof"}

Turn == ~done /\ turn' = 1 - turn

Moved == Turn /\ UNCHANGED <<texts, tokens>>

(* `do' begins; the result of an empty one is "ok".                        *)
Open ==
  /\ ~done /\ ~DoEnds /\ IsDo(pos)
  /\ open' = open + 1 /\ pos' = pos + 2 /\ last' = "ok"
  /\ UNCHANGED <<engine, done>> /\ Moved

(* It ends, with the result of its last form.  At the top level an error   *)
(* is the end of the evaluation.                                           *)
Shut ==
  /\ ~done /\ DoEnds
  /\ open' = open - 1 /\ pos' = Expect(")", pos)
  /\ done' = (open = 1 /\ last = "error")
  /\ UNCHANGED <<engine, last>> /\ Moved

(* What is compiled from the stream and is wrong is left where the mistake *)
(* is, and a vector with an element that is wrong at the first bracket     *)
(* after that element.                                                     *)
Stops(form, result) ==
  CASE form.command.do \in {"assign", "set", "defstate"} /\ result = "error" ->
         {Expect(")", i) : i \in (pos + 3)..form.next}
    [] KindAt(pos) = "[" /\ result = "error" ->
         LET elements == form.command.texts
             wrong == Min({k \in DOMAIN elements : ~Compiles(elements[k], engine)})
         IN {Expect("]", FirstOf({"]"}, Places(pos + 1, <<>>)[wrong + 1]))}
    [] OTHER -> {form.next}

(* Any other form.                                                         *)
Evaluate ==
  /\ ~done /\ ~DoEnds /\ ~IsDo(pos) /\ KindAt(pos) # "eof"
  /\ LET form == ReadForm(pos)
         did == Apply(engine, form.command)
     IN /\ engine' = did.engine /\ last' = did.result
        /\ \E next \in Stops(form, did.result) : pos' = next
        /\ done' = (open = 0 /\ did.result = "error")
  /\ UNCHANGED open /\ Moved

Finish ==
  /\ ~done /\ open = 0 /\ KindAt(pos) = "eof"
  /\ done' = TRUE
  /\ UNCHANGED <<pos, open, last, engine>> /\ Moved

Next == Open \/ Shut \/ Evaluate \/ Finish

(* The evaluation goes on: a step is possible until it is done, and every  *)
(* step is a Turn.                                                         *)
Spec == Init /\ [][Next]_forms /\ WF_turn(Turn)

-----------------------------------------------------------------------------
(* A text as its trees: what the command of a tree is, and the result of   *)
(* one form after the other until one of the outermost is wrong.           *)
Symbol(tree) == tree.kind = "token" /\ Kind(tree.token) = "symbol"
Numeric(tree) == tree.kind = "token" /\ tree.token \in Number

Refused == [do |-> "refuse"]

ValueOfTree(tree) ==
  IF Numeric(tree) THEN [kind |-> "number", n |-> ValueOf[tree.token]]
  ELSE IF tree.kind = "[" THEN [kind |-> "data", n |-> Len(SelectSeq(tree.items, Numeric))]
  ELSE [kind |-> "text", text |-> Flat(tree)]

PairsOf(items) ==
  LET wrong == {k \in DOMAIN items : k % 2 = 1 /\ (~Symbol(items[k]) \/ k = Len(items))}
      n == IF wrong = {} THEN Len(items) \div 2 ELSE Min(wrong) \div 2
  IN [do |-> "define", sound |-> wrong = {},
      names |-> [k \in 1..n |-> items[2 * k - 1].token],
      values |-> [k \in 1..n |-> ValueOfTree(items[2 * k])]]

CommandOfList(op, args, tree) ==
  CASE op = "define" -> IF Symbol(args[1])
                        THEN [do |-> "define", names |-> <<args[1].token>>, sound |-> TRUE,
                              values |-> <<ValueOfTree(args[2])>>]
                        ELSE Refused
    [] op = "defn" -> [do |-> "define", names |-> <<args[1].token>>, sound |-> TRUE,
                       values |-> <<[kind |-> "text", text |-> Flat(args[3])]>>]
    [] op = "defs" -> PairsOf(args[1].items)
    [] op = "defstate" -> IF Numeric(args[2])
                          THEN [do |-> "defstate", name |-> args[1].token,
                                n |-> ValueOf[args[2].token], text |-> Flat(args[3])]
                          ELSE Refused
    [] op = "set" -> [do |-> "set", name |-> args[1].token, text |-> Flat(args[2])]
    [] op \in DOMAIN Arguments -> IF \A k \in DOMAIN args : Numeric(args[k])
                                  THEN [do |-> op, n |-> ValueOf[args[1].token]] ELSE Refused
    [] op \in Plain -> [do |-> op]
    [] op = "zeros" -> [do |-> "zeros"]
    [] op = "get-expr" -> [do |-> "get-expr", name |-> args[1].token]
    [] op \in Output -> [do |-> "assign", output |-> op, text |-> Flat(args[1])]
    [] OTHER -> [do |-> "query", texts |-> <<Flat(tree)>>]

CommandOf(tree) ==
  CASE Numeric(tree) -> [do |-> "number"]
    [] tree.kind = "token" /\ ~Numeric(tree) -> [do |-> "query", texts |-> <<Flat(tree)>>]
    [] tree.kind = "[" -> [do |-> "query", texts |-> [i \in DOMAIN tree.items |-> Flat(tree.items[i])]]
    [] tree.kind = "(" -> CommandOfList(tree.items[1].token, Tail(tree.items), tree)

(* One after the other; the outermost forms until one is wrong.            *)
RECURSIVE InOrder(_, _, _)
InOrder(D, trees, outermost) ==
  IF trees = <<>> \/ (outermost /\ D.result = "error") THEN D
  ELSE LET tree == Head(trees)
           after == IF tree.kind = "(" /\ tree.items[1].token \in {"do", "scope"}
                    THEN InOrder(Did(D.engine, "ok"), Tail(tree.items), FALSE)
                    ELSE Apply(D.engine, CommandOf(tree))
       IN InOrder(after, Tail(trees), outermost)

(* The forms of a text are evaluated in order and each of them once, the   *)
(* forms of a `do' included, with the whole of every form and nothing of   *)
(* the next one as its arguments; the first outermost form that is wrong   *)
(* ends the evaluation, and an error of a form inside a `do' does not,     *)
(* unless it is the last.  [docs/specs/top-level.md:35: "(do form1 form2   *)
(* ...) - sequence top-level forms; result is the last form's value"]      *)
FormsRunInOrder ==
  done => Did(engine, last) = InOrder(Did(NewEngine, "ok"), texts, TRUE)

(* The evaluation of a text ends.  [firmware/firmware.cpp:81: "Single      *)
(* iteration of the main loop.  Must never allocate or block."]            *)
EvaluationEnds == <>done

=============================================================================
