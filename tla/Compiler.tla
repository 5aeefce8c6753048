------------------------------ MODULE Compiler ------------------------------
(***************************************************************************)
(* The compiler at work: documents of output assignments are evaluated     *)
(* line by line (eval_cold, do_output_assign, eval_expression), while the  *)
(* editor moves the live values.  Each line is one batch of forms.         *)
(***************************************************************************)
EXTENDS GraphBuilder, Language

CONSTANTS
  Documents,    \* what may be evaluated: sequences of lines of <<output, expression>>
  Repl,         \* the output of a form that is only asked for its value
  Cells,        \* the cell store; `source' is the expression of a body
  FirstTables,  \* the data tables of the cells
  FirstLaws,    \* the laws of the states that `defstate' made
  Outputs,      \* the outputs in use
  LiveValues,   \* the values the editor sends
  Ticks,        \* what a tick may read
  Histories     \* sequences of ticks

VARIABLES
  todo,      \* the lines that are left
  line,      \* what is left of the line that is evaluated
  done,      \* the expressions of the line that were assigned
  shared,    \* SharedLiveEditIDs of the batch
  engine,    \* laws, registry, live slots and data tables
  outputs,   \* root_node, valid and output_deps
  last,      \* the last evaluation: what it read and what came of it
  spoiled    \* history: the states whose law a rejected text took away

vars == <<todo, line, done, shared, engine, outputs, last, spoiled>>

Nothing == [ok |-> FALSE, root |-> None, deps |-> {}, pos |-> 0, bare |-> FALSE,
            expr |-> None, before |-> None]

Init == /\ todo \in Documents
        /\ line = <<>> /\ done = <<>>
        /\ shared = {}
        /\ engine = [laws |-> FirstLaws, reg |-> [k \in {} |-> 0], live |-> <<>>,
                     tables |-> FirstTables]
        /\ outputs = [o \in Outputs |-> [root |-> None, valid |-> FALSE, deps |-> {}, expr |-> None]]
        /\ last = Nothing
        /\ spoiled = {}

(* The compiler is made anew for every form.                               *)
Builder(e, ids, bare) ==
  [ts |-> <<>>, pos |-> 1, base |-> <<>>, err |-> FALSE, deps |-> {}, inl |-> <<>>,
   cells |-> Cells, tables |-> e.tables, laws |-> e.laws, reg |-> e.reg, live |-> e.live,
   seen |-> {}, shared |-> ids, bare |-> bare]

(* The expression and the parenthesis that ends its form.                  *)
TextOf(e) == Append(Tokens(e), <<")", 0>>)
EngineOf(b) == [laws |-> b.laws, reg |-> b.reg, live |-> b.live, tables |-> b.tables]

Result(e, bare, r) ==
  [ok |-> ~r.b.err, root |-> r.n, deps |-> r.b.deps, pos |-> r.b.pos, bare |-> bare,
   expr |-> e, before |-> [engine |-> engine, shared |-> shared]]

(* eval_cold: a line is a batch, and an error ends it.                     *)
NextLine == /\ line = <<>> /\ todo # <<>>
            /\ line' = Head(todo) /\ todo' = Tail(todo)
            /\ shared' = {} /\ done' = <<>>
            /\ UNCHANGED <<engine, outputs, last, spoiled>>

EndForm(err) == /\ line' = IF err THEN <<>> ELSE Tail(line)
                /\ UNCHANGED todo

(* The states that the text e names with an `:id'.                         *)
RECURSIVE Words(_)
Words(e) ==
  CASE e[1] \in {"list", "vec"} -> UNION {Words(e[2][i]) : i \in DOMAIN e[2]}
    [] e[1] \in {"sym", "key", "str"} -> {e[2]}
    [] OTHER -> {}

NamedIn(e, b) == {b.reg[k] : k \in {key \in DOMAIN b.reg : key[1] \in Words(e)}}

(* A rejected text takes the law of a state it names when an option, like  *)
(* the `:reset' of count, does not compile.                                *)
Spoiled(e, b) ==
  {x \in DOMAIN b.laws :
     /\ b.laws[x] = None
     /\ \/ x \in spoiled
        \/ b.err /\ x \in DOMAIN engine.laws /\ engine.laws[x] # None /\ x \in NamedIn(e, b)}

(* do_output_assign: what a build allocates stays, also when it fails.     *)
Assign ==
  /\ line # <<>>
  /\ Head(line)[1] # Repl
  /\ LET o == Head(line)[1]
         e == Head(line)[2]
     IN \E r \in {Build(Builder(engine, shared, FALSE), TextOf(e))} :
        /\ engine' = EngineOf(r.b)
        /\ outputs' = IF r.b.err THEN [outputs EXCEPT ![o].valid = FALSE]
                      ELSE [outputs EXCEPT ![o] = [root |-> r.n, valid |-> TRUE,
                                                   deps |-> r.b.deps, expr |-> e]]
        /\ shared' = r.b.shared
        /\ done' = Append(done, e)
        /\ last' = Result(e, FALSE, r)
        /\ spoiled' = Spoiled(e, r.b)
        /\ EndForm(r.b.err)

(* eval_expression: compiled into a pool of its own, whose states and live *)
(* slots start from nothing; the tables are given back.                    *)
Scratch == [laws |-> <<>>, reg |-> [k \in {} |-> 0], live |-> <<>>, tables |-> engine.tables]

Ask ==
  /\ line # <<>>
  /\ Head(line)[1] = Repl
  /\ LET e == Head(line)[2]
     IN \E r \in {Build(Builder(Scratch, {}, TRUE), TextOf(e))} :
        /\ last' = Result(e, TRUE, r)
        /\ EndForm(r.b.err)
        /\ UNCHANGED <<done, shared, engine, outputs, spoiled>>

(* set_live_slot_value, between two lines.                                 *)
SetLive(i, v) ==
  /\ line = <<>>
  /\ engine' = [engine EXCEPT !.live[i].value =
                  Clamped(v, engine.live[i].min, engine.live[i].max)]
  /\ UNCHANGED <<todo, line, done, shared, outputs, last, spoiled>>

Next == \/ NextLine
        \/ Assign
        \/ Ask
        \/ \E i \in DOMAIN engine.live, v \in LiveValues : SetLive(i, v)

Spec == Init /\ [][Next]_vars

-----------------------------------------------------------------------------
(* What the compiler owes to the performer.                                *)

(* The last expression, compiled again where it was, with other cells.     *)
Rebuilt(cells) ==
  LET b == Builder(IF last.bare THEN [Scratch EXCEPT !.tables = last.before.engine.tables]
                   ELSE last.before.engine, last.before.shared, last.bare)
  IN Build([b EXCEPT !.cells = cells], TextOf(last.expr))

(* What a tick reads beside its inputs: the tables, the knobs as they are. *)
Read(tick, e) == [tick EXCEPT !.tables = e.tables,
                              !.live = [i \in DOMAIN e.live |-> e.live[i].value]]
World(env, live) ==
  [cells |-> Cells, env |-> env, inside |-> <<>>,
   knob |-> [id \in {live[i].id : i \in DOMAIN live} |->
               env.live[CHOOSE i \in DOMAIN live : live[i].id = id]]]

WithState == DOMAIN Waves \cup {"phasor", "integrate", "slew", "one-pole", "env-follow", "sah",
                                "latch", "noise", "toggle", "count"}
RECURSIVE Mentions(_, _)
Mentions(e, names) ==
  IF e[1] \in {"list", "vec"} THEN \E i \in DOMAIN e[2] : Mentions(e[2][i], names)
  ELSE e[1] = "sym" /\ e[2] \in names
Stated(e) == Mentions(e, WithState)
Live(e) == Mentions(e, {"live-edit"})

Means(e, tick, value, on) ==
  LET env == Read(tick, on)
  IN Meaning(e, [x \in {} |-> 0], env.t, World(env, on.live)) = value

(* Every program in use computes, in every tick, what its expression means *)
(* with the knobs where they are now, whatever was compiled, accepted or   *)
(* rejected since; and an expression is rejected exactly when it means     *)
(* nothing (but for knobs, which may be twice or too many).                *)
MeansTheText ==
  /\ \A o \in Outputs : outputs[o].valid /\ ~Stated(outputs[o].expr) =>
       \A tick \in Ticks :
         Means(outputs[o].expr, tick, EvalNode(outputs[o].root, Read(tick, engine)), engine)
  /\ last.bare /\ last.ok =>
       \E b \in {Rebuilt(Cells).b} : \A tick \in Ticks :
         Means(last.expr, tick, EvalNode(last.root, Read(tick, b)), b)
  /\ last # Nothing /\ ~last.ok /\ ~Stated(last.expr) /\ ~Live(last.expr) =>
       \A tick \in Ticks : Means(last.expr, tick, Wrong, engine)

(* A program depends on the cells it lists and on no others: only their    *)
(* redefinition needs it to be compiled again (on_cell_changed).           *)
Redefined(cell) == [cell EXCEPT !.kind = "Number", !.value = @ + Unit]
UnlistedCellsDoNotMatter ==
  last.ok => \A c \in DOMAIN Cells \ last.deps :
    \E r \in {Rebuilt([Cells EXCEPT ![c] = Redefined(@)])} : r.n = last.root /\ ~r.b.err

(* Evaluating a text never moves a knob that is inside its new bounds: the *)
(* performer's value survives edits, whatever the text, accepted or not.   *)
KnobsSurviveEdits ==
  [][line # <<>> =>
       \A i \in DOMAIN engine.live :
         LET was == engine.live[i]
             is == engine'.live[i]
         IN /\ is.id = was.id
            /\ was.value >= is.min /\ was.value <= is.max => is.value = was.value]_vars

(* A state that a running program reads, or that a law of such a state     *)
(* reads, has a law, unless a rejected text that names the state has taken *)
(* it: no accepted text takes one, no text takes one of a state it does    *)
(* not name, and an operator that got only some of the slots it wanted     *)
(* leaves none without.  Running is also what an output computes whose     *)
(* later texts were rejected.                                              *)
RECURSIVE Reads(_)
Reads(n) == IF n = None THEN {}
            ELSE (IF n[1] = "LoadState" THEN {n[2]} ELSE {})
                 \cup UNION {Reads(n[3][i]) : i \in DOMAIN n[3]}
StatesHaveLaws ==
  \A o \in Outputs :
    LET mine == Reads(outputs[o].root)
        theirs == UNION {Reads(engine.laws[x]) : x \in mine}
    IN \A x \in mine \cup theirs : engine.laws[x] # None \/ x \in spoiled

-----------------------------------------------------------------------------
(* Operators with state, as their users see them: by the history of their  *)
(* arguments.  A tick computes with the state of the ticks before it.      *)

(* The state before the last of the ticks h, all states having been zero.  *)
RECURSIVE StateAfter(_, _)
StateAfter(laws, h) ==
  IF Len(h) = 1 THEN [i \in DOMAIN laws |-> 0]
  ELSE LET before == StateAfter(laws, Front(h))
           tick == [h[Len(h) - 1] EXCEPT !.state = before]
       IN [i \in DOMAIN laws |-> IF laws[i] = None THEN before[i] ELSE EvalNode(laws[i], tick)]

(* x[n] is the value of an argument in tick n.                             *)
Rising(x, n) == x[n] > Unit \div 2 /\ (n = 1 \/ x[n - 1] <= Unit \div 2)
RisesOf(x, from, to) == {n \in from .. to : Rising(x, n)}
LastOf(ticks) == IF ticks = {} THEN 0 ELSE CHOOSE n \in ticks : \A m \in ticks : m <= n
RECURSIVE SumOf(_, _, _)
SumOf(x, dt, to) == IF to = 0 THEN 0 ELSE SumOf(x, dt, to - 1) + Times(x[to], dt)

(* As near to the target as a step of at most m goes.                      *)
RECURSIVE Slewed(_, _, _)
Slewed(x, m, to) ==
  LET y == Slewed(x, m, to - 1)
      target == x[to]
  IN IF to = 0 THEN 0
     ELSE CHOOSE z \in (y - m) .. (y + m) :
            \A w \in (y - m) .. (y + m) : Abs(target - z) <= Abs(target - w)

(* The values that are right in tick k + 1; r is the reset of count.       *)
Promised(op, x, y, r, dt, k) ==
  CASE op = "phasor" -> {SumOf(x, dt, k) % Unit}
    [] op = "integrate" -> {SumOf(x, dt, k)}
    [] op = "slew" -> {Slewed(x, Times(y[1], dt), k)}
    [] op \in {"sah", "latch"} -> {IF RisesOf(y, 1, k) = {} THEN 0 ELSE x[LastOf(RisesOf(y, 1, k))]}
    [] op = "toggle" -> {(Cardinality(RisesOf(x, 1, k)) % 2) * Unit}
    [] op = "count" -> {Cardinality(RisesOf(x, LastOf(RisesOf(r, 1, k)) + 1, k)) * Unit}
    [] op \in {"one-pole", "env-follow"} ->
         LET seen == {0} \cup {IF op = "one-pole" THEN x[n] ELSE Abs(x[n]) : n \in 1 .. k}
         IN Min(seen) .. Max(seen)

Remembered == {"phasor", "integrate", "slew", "sah", "latch", "toggle", "count", "one-pole", "env-follow"}

(* An operator with state gives what the history of its arguments says:    *)
(* count the rises since the last reset, sah the input at the last rise of *)
(* its trigger, slew the input followed no faster than its rate, and so on. *)
RemembersItsHistory ==
  done # <<>> /\ last.ok /\ ~last.bare /\ last.expr[1] = "list" /\ Stated(last.expr) =>
  LET op == last.expr[2][1][2]
      as == Tail(last.expr[2])
      reset == {i \in DOMAIN as : as[i] = K(":reset")}
  IN op \in Remembered /\ (\A i \in DOMAIN as : ~Stated(as[i])) =>
     \A h \in Histories :
       LET of(e) == [n \in DOMAIN h |-> Meaning(e, [x \in {} |-> 0], h[n].t, World(h[n], <<>>))]
           now == [h[Len(h)] EXCEPT !.state = StateAfter(engine.laws, h)]
       IN EvalNode(last.root, now) \in
            Promised(op, of(as[1]), of(as[IF Len(as) > 1 /\ as[2][1] # "key" THEN 2 ELSE 1]),
                     of(IF reset = {} THEN N(0) ELSE as[(CHOOSE i \in reset : TRUE) + 1]),
                     h[1].dt, Len(h) - 1)
=============================================================================
