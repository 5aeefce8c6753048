------------------------------ MODULE MCEngine ------------------------------
(***************************************************************************)
(* The parts of the signal engine and of what reports on it that share no  *)
(* variable with another: a behaviour moves one of them and leaves the     *)
(* rest at a start.                                                        *)
(***************************************************************************)
EXTENDS StateSlots, Telemetry, Json, Snapshot, Classifier, Suggestions, Reader

CONSTANTS x, y, k   \* names and an identifier

VARIABLES
  part,
  texts, tokens, pos, open, last, engine, done, turn

-----------------------------------------------------------------------------
(* "osc" is an operator over x with the identifier k, "stray" one without  *)
(* and with an error after it.                                             *)
ReadsOf == [t \in Text |-> IF t = "osc" THEN {x} ELSE {}]

OpOf == [t \in Text |-> IF t = "osc" THEN k ELSE Anonymous]

(* The names of the user's of up to three letters, with a built-in name of *)
(* two and one of four, of which three are compared.                       *)
Words == UNION {[1..n -> {"a", "b"}] : n \in 1..3}

Builtins == <<<<"a", "b">>, <<"b", "b", "a", "b">>>>

(* One of each kind of character that a text is cut at.                    *)
Keys == {"newline", "(", "]", "quote", "\\", ";", "1", "-", ".", "a", "'"}

KeptTexts == {<<"a">>}

-----------------------------------------------------------------------------
(* Texts of two forms, right or wrong, and of a `do' of two forms and a    *)
(* form after it.                                                          *)
T(t) == [kind |-> "token", token |-> t]
L(items) == [kind |-> "(", items |-> items]
V(items) == [kind |-> "[", items |-> items]
W(words) == L([i \in DOMAIN words |-> T(words[i])])

Worths == [n \in {"1", "2"} |-> IF n = "1" THEN 1 ELSE 2]

Adding == W(<<"+", "a", "1">>)
AddingTwice == L(<<T("+"), W(<<"+", "1", "2">>), T("1")>>)

RightForms ==
  {T("1"), T("a"), V(<<T("1"), Adding>>), W(<<"define", "a", "1">>),
   L(<<T("define"), T("b"), V(<<T("1"), T("2")>>)>>), L(<<T("define"), T("b"), Adding>>),
   L(<<T("defn"), T("b"), V(<<T("x")>>), Adding>>),
   L(<<T("defs"), V(<<T("a"), T("1"), T("b"), Adding>>)>>),
   L(<<T("set"), T("b"), W(<<"+", "1", "2">>)>>),
   L(<<T("defstate"), T("b"), T("1"), W(<<"+", "b", "1">>)>>),
   W(<<"set-bpm", "2">>), W(<<"set-time-sig", "1", "2">>), W(<<"useq-play">>),
   W(<<"useq-stop">>), W(<<"useq-pause">>), W(<<"useq-rewind">>), W(<<"useq-clear">>),
   W(<<"useq-nudge-time", "1">>), W(<<"useq-set-time-offset", "1">>), W(<<"zeros", "1">>),
   W(<<"get-expr", "b">>), W(<<"a1", "1">>), L(<<T("a1"), AddingTwice>>)}

WrongForms ==
  {Adding, L(<<T("defs"), V(<<T("a"), T("1"), T("b")>>)>>), L(<<T("a1"), Adding>>),
   L(<<T("set"), T("b"), T("zz")>>), L(<<T("defstate"), T("b"), Adding, T("1")>>),
   L(<<T("defstate"), T("b"), T("1"), T("zz")>>), L(<<T("set-bpm"), W(<<"+", "1", "2">>)>>),
   W(<<"define", "1">>), W(<<"get-expr", "1">>)}

Readable ==
  {<<L(<<T("do")>>)>>}
    \cup {<<f, g>> : f \in RightForms \cup WrongForms, g \in RightForms \cup WrongForms}
    \cup {<<L(<<T("do"), f, g>>), h>> : f \in RightForms, g \in RightForms, h \in {T("1"), T("a")}}

-----------------------------------------------------------------------------
(* A sum of time and a cell, and an output without a program.              *)
Shown ==
  LET none == <<NoNode, NoNode, NoNode>>
  IN [playing |-> TRUE, slots |-> 1, order |-> <<1, 2, 3>>,
      cells |-> [c \in {"x", "y"} |-> IF c = "x" THEN "number" ELSE "empty"],
      nodes |-> <<[op |-> "RawTimeLoad", imm |-> NoNode, args |-> none],
                  [op |-> "CellLoad", imm |-> 1, args |-> none],
                  [op |-> "Add", imm |-> NoNode, args |-> <<1, 2, NoNode>>]>>,
      outputs |-> [o \in {"a1", "d1"} |->
                     IF o = "a1"
                     THEN [root |-> 3, valid |-> TRUE, source |-> "sum", deps |-> {"x"}]
                     ELSE [root |-> NoNode, valid |-> FALSE, source |-> "", deps |-> {}]]]

Questions ==
  {[action |-> "capabilities"], [action |-> "status"], [action |-> "hello"]}
    \cup {[action |-> "configure", rate |-> r,
           modes |-> [c \in {"tick", "eval"} |-> IF c = "tick" THEN "stream" ELSE "loud"]] :
            r \in {0, 3}}
    \cup {[action |-> "query", channel |-> c, output |-> ""] :
            c \in {"tick", "graph", "state", "eval", "resources", "io", "protocol", "mouse"}}

(* Strings with what must be escaped in them.                              *)
Strings == {<<"quote">>, <<"plain", "backslash">>}

Phases == <<"input", "serial">>

Engines == {Shown}

(* "pulse" has a state and a live edit, "bad" is the same with a mistake,  *)
(* "noise" has a state without an identifier.                              *)
Programs == {"pulse", "bad", "noise"}

StateIds == [t \in Programs |-> IF t = "noise" THEN Unnamed ELSE k]

LiveIds == [t \in Programs |-> IF t = "pulse" THEN x ELSE NoId]

-----------------------------------------------------------------------------
Evaluation == INSTANCE Forms
             WITH Number <- {"1", "2"}, ValueOf <- Worths,
                  Cell <- {"a", "b", "bpm", "beats-per-bar"}, Output <- {"a1"},
                  Operator <- {"+"}, Trees <- Readable


-----------------------------------------------------------------------------
formVars == <<texts, tokens, pos, open, last, engine, done, turn>>

everything == <<part, vars, suggestions, classifier, formVars, reader, telemetry,
                json, snapshot>>

(* The part p is the one that moves.                                       *)
Only(p) ==
  /\ part = p /\ UNCHANGED part
  /\ IF p = "slots" THEN TRUE ELSE UNCHANGED vars
  /\ IF p = "names" THEN TRUE ELSE UNCHANGED suggestions
  /\ IF p = "classes" THEN TRUE ELSE UNCHANGED classifier
  /\ IF p = "forms" THEN TRUE ELSE UNCHANGED formVars
  /\ IF p = "lines" THEN TRUE ELSE UNCHANGED reader
  /\ IF p = "tools" THEN TRUE ELSE UNCHANGED telemetry
  /\ IF p = "writer" THEN TRUE ELSE UNCHANGED json
  /\ IF p = "mirror" THEN TRUE ELSE UNCHANGED snapshot

(* A part that stays where it is has one start.                            *)
EngineInit ==
  /\ part \in {"slots", "names", "classes", "forms", "lines", "tools", "writer", "mirror"}
  /\ Init /\ SuggestionsInit /\ ClassifierInit /\ ReaderInit /\ TelemetryInit
  /\ JsonInit /\ SnapshotInit
  /\ Evaluation!Init
  /\ part # "forms" => texts = <<L(<<T("do")>>)>>

EngineNext ==
  \/ Only("slots") /\ Next
  \/ Only("names") /\ SuggestionsNext
  \/ Only("classes") /\ ClassifierNext
  \/ Only("forms") /\ Evaluation!Next
  \/ Only("lines") /\ ReaderNext
  \/ Only("tools") /\ TelemetryNext
  \/ Only("writer") /\ JsonNext
  \/ Only("mirror") /\ SnapshotNext

EngineSpec == EngineInit /\ [][EngineNext]_everything

-----------------------------------------------------------------------------
(* The properties of the parts, under the names they have there.           *)
FormsRunInOrder == Evaluation!FormsRunInOrder

=============================================================================
