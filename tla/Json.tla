-------------------------------- MODULE Json --------------------------------
(***************************************************************************)
(* JsonBuilder (utils/json_builder.h), which writes every answer of the    *)
(* device: a buffer, and for every scope that is open whether the next     *)
(* element needs a comma before it.                                        *)
(*                                                                         *)
(* A buffer is a sequence of brackets, commas, keys and values.  What the  *)
(* callers open is kept beside it: they begin a scope with a key in        *)
(* objects only and one without a key in arrays only.  A field has a key   *)
(* always, and one caller writes fields in an array.                       *)
(***************************************************************************)
EXTENDS Naturals, Sequences, SequencesExt

CONSTANTS
  MaxDepth,   \* MAX_DEPTH
  Nesting,    \* bound: how deep the callers nest
  MaxTokens,  \* bound: the length of the buffer
  Characters  \* the strings that are written: sequences of kinds of character

(* The characters that append_escaped tells apart.                         *)
Written == {"plain", "quote", "backslash", "control"}

(* No caller nests deeper than the 8 scopes of MAX_DEPTH.                  *)
ASSUME NestingAssumption ==
  /\ MaxDepth \in Nat /\ Nesting \in 0..MaxDepth
  /\ Characters \subseteq Seq(Written)

VARIABLES
  written,    \* m_buf
  needComma,  \* m_need_comma
  depth,      \* m_depth
  scopes,     \* what the caller has opened and not closed, innermost last
  misplaced   \* history: a field was written in an array

json == <<written, needComma, depth, scopes, misplaced>>

-----------------------------------------------------------------------------
(* append_escaped: quotes, backslashes and control characters are written  *)
(* with a backslash before them.                                           *)
Escape(c) == IF c = "plain" THEN <<"plain">> ELSE <<"backslash", c>>

Escaped(string) ==
  LET upTo[i \in 0..Len(string)] ==
        IF i = 0 THEN <<>> ELSE upTo[i - 1] \o Escape(string[i])
  IN upTo[Len(string)]

Quoted(string) == <<"quote">> \o Escaped(string) \o <<"quote">>

(* maybe_comma, for the scope that is at the top before the call.          *)
Comma == IF depth > 0 /\ needComma[depth] THEN <<"comma">> ELSE <<>>

Needed == IF depth > 0 THEN [needComma EXCEPT ![depth] = TRUE] ELSE needComma

(* object_begin, array_begin and array_begin_unkeyed, with push_scope.     *)
Begin(kind, prefix) ==
  /\ Len(scopes) < Nesting
  /\ written' = written \o Comma \o prefix \o <<IF kind = "object" THEN "beginObject" ELSE "beginArray">>
  /\ depth' = IF depth < MaxDepth THEN depth + 1 ELSE depth
  /\ needComma' = IF depth < MaxDepth THEN [Needed EXCEPT ![depth + 1] = FALSE] ELSE Needed
  /\ scopes' = Append(scopes, kind)
  /\ UNCHANGED misplaced

StaysInside(d) ==   \* mutant: the scope that ends is still the one that is written to
  /\ depth' = d
  /\ needComma' = IF d > 1 THEN [needComma EXCEPT ![d - 1] = TRUE] ELSE needComma

(* object_end and array_end, with pop_scope.                               *)
Popped(d) ==
  /\ depth' = IF d > 0 THEN d - 1 ELSE d
  /\ needComma' = IF d > 1 THEN [needComma EXCEPT ![d - 1] = TRUE] ELSE needComma

End ==
  /\ scopes # <<>>
  /\ Popped(depth)
  /\ written' = Append(written, IF Last(scopes) = "object" THEN "endObject" ELSE "endArray")
  /\ scopes' = Front(scopes)
  /\ UNCHANGED misplaced

(* The array serialize_graph makes of the names an output depends on, in a *)
(* builder of its own: each name is a field with an empty key              *)
(* (devtools/devtools.cpp:438-448).                                        *)
Dependencies == <<"beginArray", "key", "value", "endArray">>

(* field, field_null and field_raw, whose value is complete by itself: a   *)
(* key, and a string, a number, a word or another builder's result.  The   *)
(* builder does not ask what it is in.                                     *)
Field(value) ==
  /\ scopes # <<>>
  /\ written' = written \o Comma \o <<"key">> \o value
  /\ needComma' = Needed
  /\ misplaced' = (misplaced \/ Last(scopes) = "array" \/ value = Dependencies)
  /\ UNCHANGED <<depth, scopes>>

-----------------------------------------------------------------------------
JsonInit ==
  /\ written = <<>> /\ depth = 0 /\ scopes = <<>> /\ misplaced = FALSE
  /\ needComma = [d \in 1..MaxDepth |-> FALSE]

Inside(kind) == scopes # <<>> /\ Last(scopes) = kind

BeginObject == written = <<>> \/ Inside("array")

JsonNext ==
  \/ End
  \/ /\ Len(written) < MaxTokens
     /\ \/ BeginObject /\ \E kind \in {"object", "array"} : Begin(kind, <<>>)
        \/ Inside("object") /\ Begin("array", <<"key">>)
        \/ Field(<<"value">>)
        \/ Field(<<"beginObject", "key", "value", "endObject">>)
        \/ Field(Dependencies)
        \/ \E s \in Characters : Field(Quoted(s))

JsonSpec == JsonInit /\ [][JsonNext]_json

-----------------------------------------------------------------------------
(* A reader of JSON goes through the buffer with a stack of the brackets   *)
(* it is in and the kind of thing it waits for.                            *)
Punctuation == {"beginObject", "endObject", "beginArray", "endArray", "comma", "key"}

Closing ==
  [b \in {"beginObject", "beginArray"} |->
     IF b = "beginObject" THEN "endObject" ELSE "endArray"]

(* What it waits for after a value, in whichever scope it is then.         *)
Afterwards(stack) == [stack |-> stack, wants |-> IF stack = <<>> THEN "end" ELSE "more"]

Opened(r, token) ==
  [stack |-> Append(r.stack, token), wants |-> IF token = "beginObject" THEN "key or end" ELSE "value or end"]

WantsValue(r) == r.wants \in {"value", "value or end"}

Lost == [stack |-> <<>>, wants |-> "nothing"]

ReadToken(r, token) ==
  CASE r.wants = "escaped" /\ token # "plain" -> [r EXCEPT !.wants = "string"]
    [] r.wants = "string" ->
         (CASE token = "quote" -> Afterwards(r.stack)
            [] token = "backslash" -> [r EXCEPT !.wants = "escaped"]
            [] token = "plain" -> r
            [] OTHER -> Lost)
    [] token = "quote" /\ WantsValue(r) -> [r EXCEPT !.wants = "string"]
    [] token = "value" /\ WantsValue(r) -> Afterwards(r.stack)
    [] token \in {"beginObject", "beginArray"} /\ WantsValue(r) -> Opened(r, token)
    [] token = "key" /\ r.wants \in {"key", "key or end"} -> [r EXCEPT !.wants = "value"]
    [] token = "comma" /\ r.wants = "more" ->
         [r EXCEPT !.wants = IF Last(r.stack) = "beginObject" THEN "key" ELSE "value"]
    [] token \in {"endObject", "endArray"} /\ r.wants \in {"more", "key or end", "value or end"}
         /\ Closing[Last(r.stack)] = token -> Afterwards(Front(r.stack))
    [] OTHER -> Lost

ReadAll(r, tokens) ==
  LET upTo[i \in 0..Len(tokens)] == IF i = 0 THEN r ELSE ReadToken(upTo[i - 1], tokens[i])
  IN upTo[Len(tokens)]

Reading == ReadAll([stack |-> <<>>, wants |-> "value"], written)

(* What is written can be read as JSON, until a field is written in an     *)
(* array, and never after that: when every scope that was opened has been  *)
(* closed the buffer is one whole value, and until then it is the          *)
(* beginning of one.  Commas are right after a scope inside a scope, the   *)
(* first element of an array, a fragment made elsewhere and strings with   *)
(* quotes in them; nothing else than a key in an array makes an answer     *)
(* that no reader accepts, and the one caller that writes it, the          *)
(* dependencies of serialize_graph, does make one.  [JsonBuilder's "clean  *)
(* API so callers don't embed raw JSON punctuation",                       *)
(* utils/json_builder.h:10; devtools/devtools.cpp:445]                     *)
WellFormed ==
  LET r == Reading
  IN /\ misplaced <=> r.wants = "nothing"
     /\ ~misplaced =>
          /\ r.wants \notin {"string", "escaped"}
          /\ written # <<>> => (scopes = <<>> <=> r.wants = "end")
          /\ Len(r.stack) = Len(scopes)

=============================================================================
