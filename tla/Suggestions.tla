----------------------------- MODULE Suggestions -----------------------------
(***************************************************************************)
(* "Did you mean": the name that is suggested for one the compiler does    *)
(* not know (signal_engine/diagnostics.cpp), among the names that have     *)
(* been met (modulisp/lisp/symbol_intern.h).  A name is a sequence of      *)
(* letters.                                                                *)
(***************************************************************************)
EXTENDS Naturals, Sequences, SequencesExt, FiniteSetsExt

CONSTANTS
  Letter,       \* what names are made of
  MostLetters,  \* MAX_LEN - 1
  Word,         \* the names the user writes
  Builtin,      \* builtin_names, in order
  NoWord,       \* INVALID_ID
  MaxNames      \* bound: how many names are met

Spelling == Seq(Letter) \ {<<>>}

ASSUME WordAssumption ==
  /\ Word \subseteq Spelling
  /\ Builtin \in Seq(Spelling)
  /\ NoWord \notin Spelling
  /\ MostLetters \in Nat

VARIABLES
  symbols,   \* id_to_symbol, without the first place
  bound,     \* the names whose cell is not empty
  asked,     \* the name that was not known
  suggested  \* what was suggested for it

suggestions == <<symbols, bound, asked, suggested>>

Intern(names, w) == IF Contains(names, w) THEN names ELSE Append(names, w)

-----------------------------------------------------------------------------
OverwrittenAt(s, t, i, acc, j) ==   \* mutant: the letter above on the left has been written over
  [row |-> [acc.row EXCEPT ![j] = IF s[i] = t[j] THEN acc.prev
                                  ELSE 1 + Min({acc.prev, acc.row[j], acc.row[j - 1]})],
   prev |-> acc.row[j - 1]]

(* levenshtein: the row of the table for i letters of s, from the row for  *)
(* one letter less, in place and from left to right.                       *)
RowAt(s, t, i, acc, j) ==
  [row |-> [acc.row EXCEPT ![j] = IF s[i] = t[j] THEN acc.prev
                                  ELSE 1 + Min({acc.prev, acc.row[j], acc.row[j - 1]})],
   prev |-> acc.row[j]]

Filled(s, t, i, row) ==
  LET upTo[j \in 0..Len(t)] ==
        IF j = 0 THEN [row |-> [row EXCEPT ![0] = i], prev |-> i - 1]
        ELSE RowAt(s, t, i, upTo[j - 1], j)
  IN upTo[Len(t)].row

LastRow(s, t) ==
  LET upTo[i \in 0..Len(s)] ==
        IF i = 0 THEN [j \in 0..Len(t) |-> j] ELSE Filled(s, t, i, upTo[i - 1])
  IN upTo[Len(s)]

(* Of a longer name only its first letters are compared.                   *)
Compared(t) == IF Len(t) > MostLetters THEN SubSeq(t, 1, MostLetters) ELSE t

Levenshtein(s, t) ==
  IF s = <<>> THEN Len(t)
  ELSE IF t = <<>> THEN Len(s)
  ELSE LastRow(s, Compared(t))[Len(Compared(t))]

(* find_fuzzy_match: cells that are not empty, by their numbers, and then  *)
(* the builtin names; a later one must be nearer.                          *)
Nearer(name, best, candidate) ==
  LET d == Levenshtein(name, candidate)
  IN IF d > 0 /\ d < best.distance THEN [name |-> candidate, distance |-> d] ELSE best

Nearest(name, start, candidates, known) ==
  LET upTo[n \in 0..Len(candidates)] ==
        IF n = 0 THEN start
        ELSE IF candidates[n] \in known THEN Nearer(name, upTo[n - 1], candidates[n])
        ELSE upTo[n - 1]
  IN upTo[Len(candidates)]

FindFuzzyMatch(name) ==
  LET cell == Nearest(name, [name |-> NoWord, distance |-> 3], symbols, bound)
  IN Nearest(name, cell, Builtin, ToSet(Builtin)).name

-----------------------------------------------------------------------------
SuggestionsInit ==
  symbols = <<>> /\ bound = {} /\ asked = NoWord /\ suggested = NoWord

Define(w) ==
  /\ symbols' = Intern(symbols, w)
  /\ bound' = bound \cup {w}
  /\ asked' = NoWord /\ suggested' = NoWord

(* The name has been interned when the text was read, and the suggestion   *)
(* is when it is made.                                                     *)
Ask(w) ==
  /\ asked' = w
  /\ suggested' = FindFuzzyMatch(w)
  /\ symbols' = LET read == Intern(symbols, w)
                IN IF suggested' = NoWord THEN read ELSE Intern(read, suggested')
  /\ UNCHANGED bound

SuggestionsNext == Len(symbols) < MaxNames /\ \E w \in Word : Define(w) \/ Ask(w)

SuggestionsSpec == SuggestionsInit /\ [][SuggestionsNext]_suggestions

-----------------------------------------------------------------------------
(* The ways to pick k of n places, from left to right.                     *)
Picks(k, n) ==
  {p \in [1..k -> 1..n] : \A a \in 1..k, b \in 1..k : a < b => p[a] < p[b]}

(* The least number of letters to insert, take away or change: k letters   *)
(* of s become k letters of t in their order, the others of s are taken    *)
(* away and those of t inserted.                                           *)
Edits(s, t) ==
  Min(UNION {{Len(s) + Len(t) - 2 * k + Cardinality({a \in 1..k : s[p[a]] # t[q[a]]}) :
                p \in Picks(k, Len(s)), q \in Picks(k, Len(t))} : k \in 0..Len(s)})

(* What is suggested is as near as any name with a meaning, at most two    *)
(* letters off and not the name itself; of several that are as near it is  *)
(* a name of the user's, and nothing is suggested only if nothing is so    *)
(* near.  A name of more than MostLetters letters is as near as its        *)
(* beginning is.  [signal_engine/diagnostics.cpp:73-109]                   *)
SuggestionIsNearest ==
  LET known == {[word |-> w, edits |-> Edits(asked, Compared(w))] :
                  w \in bound \cup ToSet(Builtin)}
      near == {c \in known : c.edits \in 1..2}
      nearest == {c.word : c \in {d \in near : \A e \in near : d.edits <= e.edits}}
  IN asked # NoWord =>
       IF near = {} THEN suggested = NoWord
       ELSE suggested \in (IF nearest \cap bound = {} THEN nearest ELSE nearest \cap bound)

=============================================================================
