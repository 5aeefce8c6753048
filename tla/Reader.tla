------------------------------- MODULE Reader -------------------------------
(***************************************************************************)
(* The tokenizer (signal_engine/token.cpp) and the arena its texts come    *)
(* from when a program is compiled again (SourceArena, cell_store.cpp).    *)
(*                                                                         *)
(* A text is a sequence of kinds of character, of which only digits and    *)
(* letters are told apart; "nul" is the character 0.  A number is what     *)
(* strtod takes: digits with at most one point, and a sign before them.    *)
(***************************************************************************)
EXTENDS Naturals, Sequences, SequencesExt, FiniteSetsExt

CONSTANTS
  Digit,       \* characters of this kind
  Typed,       \* the characters the user types
  MaxLength,   \* bound: the length of a text
  MostTokens,  \* MAX_TOKENS
  MostErrors,  \* the length of parse_errors
  Sources,     \* the texts of cells and programs
  ArenaSize    \* SOURCE_ARENA_SIZE

VARIABLES
  typed,      \* what the user has typed
  arena,      \* data, up to write_head
  stored,     \* what has been stored: offset and text
  firstRead   \* history: what each was first read as

reader == <<typed, arena, stored, firstRead>>

-----------------------------------------------------------------------------
Sign == {"-", "+"}

Space == {" ", "newline", "nul"}

Bracket == {"(", ")", "[", "]"}

(* What is_symbol_char says no to.                                         *)
Separator == Space \cup Bracket \cup {"quote", "'", ";", ","}

ASSUME ReaderAssumption ==
  /\ Digit \cap (Sign \cup Separator \cup {"."}) = {}
  /\ MostTokens \in Nat /\ MostErrors \in Nat

(* Text without its first k characters, and how many there are before one  *)
(* of S or at the beginning that are in S.                                 *)
Rest(text, k) == SubSeq(text, k + 1, Len(text))

Until(text, S) ==
  CHOOSE k \in 0..Len(text) :
    (\A j \in 1..k : text[j] \notin S) /\ (k < Len(text) => text[k + 1] \in S)

While(text, S) ==
  CHOOSE k \in 0..Len(text) :
    (\A j \in 1..k : text[j] \in S) /\ (k < Len(text) => text[k + 1] \notin S)

-----------------------------------------------------------------------------
(* How many characters strtod takes: after a sign, digits and a point, or  *)
(* none when there are no digits.  It reads on in memory.                  *)
Strtod(memory) ==
  LET sign == IF memory # <<>> /\ memory[1] \in Sign THEN 1 ELSE 0
      whole == sign + While(Rest(memory, sign), Digit)
      all == IF whole < Len(memory) /\ memory[whole + 1] = "."
             THEN whole + 1 + While(Rest(memory, whole + 1), Digit) ELSE whole
  IN IF \E j \in 1..all : memory[j] \in Digit THEN all ELSE 0

(* Does the tokenizer look for a number here?                              *)
NumberBegins(text) ==
  \/ text[1] \in Digit
  \/ text[1] \in {"-", "."} /\ Len(text) > 1 /\ text[2] \in Digit

(* The quotes in a string that are not skipped: a backslash skips what     *)
(* comes after it unless it is skipped itself.                             *)
ClosingQuotes(text) ==
  LET skipped[j \in 1..Len(text)] ==
        IF j <= 2 THEN FALSE ELSE text[j - 1] = "\\" /\ ~skipped[j - 1]
  IN {j \in 2..Len(text) : text[j] = "quote" /\ ~skipped[j]}

(* What is read at the beginning of a text that memory goes on from: the   *)
(* token or the error, and how far it goes.                                *)
Token(kind, text) == [kind |-> kind, text |-> text]

Nothing(length) == [tokens |-> <<>>, errors |-> <<>>, length |-> length]

One(token, length) == [tokens |-> <<token>>, errors |-> <<>>, length |-> length]

Wrong(what, length) == [tokens |-> <<>>, errors |-> <<what>>, length |-> length]

ReadString(text) ==
  IF ClosingQuotes(text) = {} THEN Wrong("Unterminated string", Len(text))
  ELSE LET e == Min(ClosingQuotes(text)) IN One(Token("string", SubSeq(text, 2, e - 1)), e)

ReadSymbol(text) ==
  LET e == Until(text, Separator)
      name == SubSeq(text, 1, e)
  IN One(Token(IF Strtod(name) = e THEN "number" ELSE "symbol", name), e)

ReadNumber(memory) ==
  One(Token("number", SubSeq(memory, 1, Strtod(memory))), Strtod(memory))

EndsWithText == {}   \* mutant: a comment goes on to the end of the text

EndsComment == {"newline"}

ReadHere(text, memory) ==
  IF text[1] \in Space THEN Nothing(1)
  ELSE IF text[1] = ";" THEN Nothing(Until(text, EndsComment))
  ELSE IF text[1] \in Bracket THEN One(Token(text[1], <<>>), 1)
  ELSE IF text[1] = "quote" THEN ReadString(text)
  ELSE IF NumberBegins(text) THEN ReadNumber(memory)
  ELSE IF text[1] \notin Separator THEN ReadSymbol(text)
  ELSE Wrong("Unexpected character", 1)

(* The loop of tokenize, which passes a character of the first n of m that *)
(* has been read.                                                          *)
ReadOn(m, n, i, sofar) ==
  IF i < sofar.next THEN sofar
  ELSE LET r == ReadHere(SubSeq(m, i, n), Rest(m, i - 1))
       IN [tokens |-> sofar.tokens \o r.tokens, errors |-> sofar.errors \o r.errors,
           next |-> i + r.length]

Read(m, n) ==
  LET upTo[i \in 0..n] ==
        IF i = 0 THEN [tokens |-> <<>>, errors |-> <<>>, next |-> 1]
        ELSE ReadOn(m, n, i, upTo[i - 1])
  IN upTo[n]

(* tokenize: the first n characters of m.  Tokens and errors that find no  *)
(* room are left out.                                                      *)
AtMost(k, seq) == SubSeq(seq, 1, IF Len(seq) < k THEN Len(seq) ELSE k)

Tokenize(m, n) ==
  LET r == Read(m, n)
  IN [tokens |-> AtMost(MostTokens, r.tokens), errors |-> AtMost(MostErrors, r.errors)]

-----------------------------------------------------------------------------
(* SourceArena: what is written is followed by zeros until the next text.  *)
ReadAgain(a, s) == Tokenize(Rest(a, s.offset), Len(s.text)).tokens

Store(text) ==
  /\ Len(arena) + Len(text) <= ArenaSize
  /\ arena' = arena \o text
  /\ stored' = Append(stored, [offset |-> Len(arena), text |-> text])
  /\ firstRead' = Append(firstRead, ReadAgain(arena', Last(stored')))
  /\ UNCHANGED typed

Type(c) ==
  /\ Len(typed) < MaxLength
  /\ typed' = Append(typed, c)
  /\ UNCHANGED <<arena, stored, firstRead>>

ReaderInit == typed = <<>> /\ arena = <<>> /\ stored = <<>> /\ firstRead = <<>>

ReaderNext == (\E c \in Typed : Type(c)) \/ (\E s \in Sources : Store(s))

ReaderSpec == ReaderInit /\ [][ReaderNext]_reader

-----------------------------------------------------------------------------
(* The ends of lines that are not in a string.                             *)
Alone(seq) == Tokenize(seq, Len(seq))

Splits ==
  {i \in DOMAIN typed :
     /\ typed[i] = "newline"
     /\ \A j \in 1..(i - 1) : typed[j] # "quote"}

(* A text of several lines is read as its lines are read one after the     *)
(* other, with a string that goes over several lines excepted: no token    *)
(* goes over the end of a line, no comment takes what comes after it, and  *)
(* an error in one line leaves the tokens and errors of the others as they *)
(* are.  [token.cpp:60-188]                                                *)
LinesAreReadAlone ==
  \A i \in Splits :
    LET before == Alone(SubSeq(typed, 1, i - 1))
        after == Alone(Rest(typed, i))
        whole == Alone(typed)
    IN /\ whole.tokens = AtMost(MostTokens, before.tokens \o after.tokens)
       /\ whole.errors = AtMost(MostErrors, before.errors \o after.errors)

(* A text of the arena reads as it did at first, whatever has been stored  *)
(* since.  [signal_engine/cold_eval.h:88: "Idempotent: ... recompiling the *)
(* same expression twice yields the same node indices"]                    *)
TextsAreKept == \A i \in DOMAIN stored : ReadAgain(arena, stored[i]) = firstRead[i]

=============================================================================
