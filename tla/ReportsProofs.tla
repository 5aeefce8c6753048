---------------------------- MODULE ReportsProofs ----------------------------
(***************************************************************************)
(* What the device reports can be relied on: its answers are JSON          *)
(* (JsonBuilder), what a development build tells of itself is what has     *)
(* happened (DevTools), a snapshot is what the device was playing          *)
(* (get-state, useq_apply_state_snapshot), the class of an output is what  *)
(* its value depends on (classify_outputs), and the name suggested for     *)
(* another is the nearest (find_fuzzy_match).                              *)
(***************************************************************************)
EXTENDS Json, Telemetry, Snapshot, Classifier, Suggestions, SequenceTheorems, FiniteSetTheorems, BoundedRecursion

-----------------------------------------------------------------------------
(* The states of a reader of JSON; it has one for every text, right or     *)
(* wrong.                                                                  *)
Opening == {"beginObject", "beginArray"}

Stack == Seq(Opening)

Wants ==
  {"value", "value or end", "key", "key or end", "string", "escaped", "more", "end", "nothing"}

Reader == [stack : Stack, wants : Wants]

LEMMA ReaderGoesOn ==
  ASSUME NEW r \in Reader, NEW t
  PROVE  ReadToken(r, t) \in Reader
<1>1. r.stack \in Stack /\ r.wants \in Wants
  BY DEF Reader
<1>2. \A x \in Stack, w \in Wants : [stack |-> x, wants |-> w] \in Reader
  BY DEF Reader
<1>3. \A w \in Wants : [r EXCEPT !.wants = w] \in Reader
  BY DEF Reader
<1>4. \A x \in Stack : Afterwards(x) \in Reader
  <2>1. "end" \in Wants /\ "more" \in Wants
    BY DEF Wants
  <2> QED
    BY <1>2, <2>1 DEF Afterwards
<1>5. t \in Opening => Opened(r, t) \in Reader
  <2>1. "key or end" \in Wants /\ "value or end" \in Wants
    BY DEF Wants
  <2>2. t \in Opening => Append(r.stack, t) \in Stack
    BY <1>1 DEF Stack
  <2> QED
    BY <1>2, <2>1, <2>2 DEF Opened
<1>6. Front(r.stack) \in Stack
  <2>1. Len(r.stack) \in Nat /\ r.stack \in Seq(Opening)
    BY <1>1 DEF Stack
  <2>2. \A i \in 1 .. Len(r.stack) - 1 : i \in 1 .. Len(r.stack) /\ r.stack[i] \in Opening
    BY <2>1
  <2> QED
    BY <2>1, <2>2, SubSeqProperties DEF Front, Stack
<1>7. Lost \in Reader
  <2>1. "nothing" \in Wants /\ <<>> \in Stack
    BY DEF Wants, Stack
  <2> QED
    BY <1>2, <2>1 DEF Lost
<1>8. {"string", "escaped", "value", "key"} \subseteq Wants
  BY DEF Wants
<1> HIDE DEF Reader
<1>9. /\ [r EXCEPT !.wants = "string"] \in Reader /\ [r EXCEPT !.wants = "escaped"] \in Reader
      /\ [r EXCEPT !.wants = "value"] \in Reader
      /\ [r EXCEPT !.wants = IF Last(r.stack) = "beginObject" THEN "key" ELSE "value"] \in Reader
  BY <1>3, <1>8
<1> QED
  BY <1>1, <1>4, <1>5, <1>6, <1>7, <1>9, Zenon DEF ReadToken, Opening

(* f is where a reader is after each of the tokens, from r on.             *)
ReadsAlong(f, r, tokens) ==
  /\ f[0] = r
  /\ \A n \in 1 .. Len(tokens) : f[n] = ReadToken(f[n - 1], tokens[n])
  /\ \A n \in 0 .. Len(tokens) : f[n] \in Reader
  /\ ReadAll(r, tokens) = f[Len(tokens)]

LEMMA ReadSteps ==
  ASSUME NEW r \in Reader, NEW T, NEW tokens \in Seq(T)
  PROVE  \E f : ReadsAlong(f, r, tokens)
<1> DEFINE N == Len(tokens)
           g == [x \in (1 .. N) \X Reader |-> ReadToken(x[2], tokens[x[1]])]
<1>1. N \in Nat
  OBVIOUS
<1>2. \A n \in 1 .. N, a \in Reader :
        /\ g[<<n, a>>] = ReadToken(a, tokens[n])
        /\ ReadToken(a, tokens[n]) \in Reader
  BY ReaderGoesOn
<1>3. Stays(g, N, Reader)
  BY <1>2 DEF Stays
<1> HIDE DEF g
<1>4. PICK f \in [0 .. N -> Reader] : Follows(f, g, N, r)
  BY <1>1, <1>3, Recursion
<1>5. \A n \in 1 .. N : n \in 0 .. N /\ n # 0 /\ n - 1 \in 0 .. N
  BY <1>1
<1>6. f[0] = r /\ \A n \in 1 .. N : f[n] = ReadToken(f[n - 1], tokens[n])
  BY <1>2, <1>4, <1>5 DEF Follows
<1> DEFINE By(m, n) == IF n = 0 THEN r ELSE ReadToken(m[n - 1], tokens[n])
<1>7. f = [n \in 0 .. N |-> By(f, n)]
  <2>1. \A n \in 0 .. N : n # 0 => n \in 1 .. N
    BY <1>1
  <2> QED
    BY <1>4, <1>6, <2>1
<1> DEFINE upTo == CHOOSE m : m = [n \in 0 .. N |-> By(m, n)]
<1>8. upTo = [n \in 0 .. N |-> By(upTo, n)]
  BY <1>7, Zenon
<1>9. ReadAll(r, tokens) = upTo[N]
  BY DEF ReadAll
<1> HIDE DEF upTo
<1>10. upTo[0] = r
  <2>1. 0 \in 0 .. N
    BY <1>1
  <2> QED
    BY <1>8, <2>1
<1>11. \A n \in 1 .. N : upTo[n] = ReadToken(upTo[n - 1], tokens[n])
  BY <1>5, <1>8
<1> DEFINE S == {n \in 0 .. N : upTo[n] \in Reader}
<1>12. 0 \in S
  BY <1>1, <1>10
<1>13. ASSUME NEW n \in 0 .. N - 1, n \in S
       PROVE  n + 1 \in S
  <2>1. n + 1 \in 1 .. N /\ (n + 1) - 1 = n /\ n + 1 \in 0 .. N
    BY <1>1
  <2>2. upTo[n + 1] = ReadToken(upTo[n], tokens[n + 1])
    BY <1>11, <2>1
  <2> QED
    BY <1>13, <2>1, <2>2, ReaderGoesOn
<1>14. 0 .. N \subseteq S
  <2> HIDE DEF S
  <2> QED BY <1>1, <1>12, <1>13, Reached
<1> QED
  BY <1>9, <1>10, <1>11, <1>14 DEF ReadsAlong

LEMMA ReadNothing ==
  ASSUME NEW r \in Reader
  PROVE  ReadAll(r, <<>>) = r
<1>1. <<>> \in Seq(Written) /\ Len(<<>>) = 0
  OBVIOUS
<1>2. PICK f : ReadsAlong(f, r, <<>>)
  BY <1>1, ReadSteps
<1> QED
  BY <1>1, <1>2 DEF ReadsAlong

LEMMA ReadOne ==
  ASSUME NEW r \in Reader, NEW t
  PROVE  ReadAll(r, <<t>>) = ReadToken(r, t)
<1>1. <<t>> \in Seq({t}) /\ Len(<<t>>) = 1 /\ <<t>>[1] = t
  OBVIOUS
<1>2. PICK f : ReadsAlong(f, r, <<t>>)
  BY <1>1, ReadSteps
<1>3. f[1] = ReadToken(f[1 - 1], <<t>>[1])
  BY <1>1, <1>2 DEF ReadsAlong
<1> QED
  BY <1>1, <1>2, <1>3 DEF ReadsAlong

LEMMA ReadFour ==
  ASSUME NEW r \in Reader, NEW a, NEW b, NEW c, NEW d
  PROVE  ReadAll(r, <<a, b, c, d>>) = ReadToken(ReadToken(ReadToken(ReadToken(r, a), b), c), d)
<1> DEFINE s == <<a, b, c, d>>
<1>1. /\ s \in Seq({a, b, c, d}) /\ Len(s) = 4
      /\ s[1] = a /\ s[2] = b /\ s[3] = c /\ s[4] = d
  OBVIOUS
<1> HIDE DEF s
<1>2. PICK f : ReadsAlong(f, r, s)
  BY <1>1, ReadSteps
<1>3. f[0] = r /\ \A n \in 1 .. 4 : f[n] = ReadToken(f[n - 1], s[n])
  BY <1>1, <1>2 DEF ReadsAlong
<1>4. /\ f[1] = ReadToken(f[0], a) /\ f[2] = ReadToken(f[1], b)
      /\ f[3] = ReadToken(f[2], c) /\ f[4] = ReadToken(f[3], d)
  BY <1>1, <1>3
<1>5. ReadAll(r, s) = f[4]
  BY <1>1, <1>2 DEF ReadsAlong
<1> QED
  BY <1>3, <1>4, <1>5 DEF s

(* Where a reader is depends on what was read before it by its state only. *)
LEMMA ReadOn ==
  ASSUME NEW r \in Reader, NEW T, NEW s \in Seq(T), NEW u \in Seq(T)
  PROVE  /\ ReadAll(r, s) \in Reader
         /\ ReadAll(r, s \o u) = ReadAll(ReadAll(r, s), u)
<1> DEFINE M == Len(s)
           N == Len(u)
<1>1. M \in Nat /\ N \in Nat /\ s \o u \in Seq(T) /\ Len(s \o u) = M + N
  OBVIOUS
<1>2. /\ \A n \in 1 .. M : (s \o u)[n] = s[n]
      /\ \A n \in 1 .. N : (s \o u)[M + n] = u[n]
  BY ConcatProperties
<1>3. PICK f : ReadsAlong(f, r, s)
  BY ReadSteps
<1>4. ReadAll(r, s) = f[M] /\ f[M] \in Reader
  BY <1>1, <1>3 DEF ReadsAlong
<1>5. PICK g : ReadsAlong(g, f[M], u)
  BY <1>4, ReadSteps
<1>6. PICK h : ReadsAlong(h, r, s \o u)
  BY <1>1, ReadSteps
<1> DEFINE S1 == {n \in 0 .. M : h[n] = f[n]}
           S2 == {n \in 0 .. N : h[M + n] = g[n]}
<1>7. 0 \in S1
  BY <1>1, <1>3, <1>6 DEF ReadsAlong
<1>8. ASSUME NEW n \in 0 .. M - 1, n \in S1
      PROVE  n + 1 \in S1
  <2>1. n + 1 \in 1 .. M /\ n + 1 \in 1 .. M + N /\ (n + 1) - 1 = n /\ n + 1 \in 0 .. M
    BY <1>1
  <2>2. f[n + 1] = ReadToken(f[n], s[n + 1])
    BY <1>3, <2>1 DEF ReadsAlong
  <2>3. h[n + 1] = ReadToken(h[n], s[n + 1])
    BY <1>1, <1>2, <1>6, <2>1 DEF ReadsAlong
  <2> QED
    BY <1>8, <2>1, <2>2, <2>3
<1>9. M \in S1
  <2>1. 0 .. M \subseteq S1
    <3> HIDE DEF S1
    <3> QED BY <1>1, <1>7, <1>8, Reached
  <2> QED
    BY <1>1, <2>1
<1>10. 0 \in S2
  BY <1>1, <1>5, <1>9 DEF ReadsAlong
<1>11. ASSUME NEW n \in 0 .. N - 1, n \in S2
       PROVE  n + 1 \in S2
  <2>1. /\ n + 1 \in 1 .. N /\ M + (n + 1) \in 1 .. M + N /\ (n + 1) - 1 = n
        /\ (M + (n + 1)) - 1 = M + n /\ n + 1 \in 0 .. N
    BY <1>1
  <2>2. g[n + 1] = ReadToken(g[n], u[n + 1])
    BY <1>5, <2>1 DEF ReadsAlong
  <2>3. h[M + (n + 1)] = ReadToken(h[M + n], u[n + 1])
    BY <1>1, <1>2, <1>6, <2>1 DEF ReadsAlong
  <2> QED
    BY <1>11, <2>1, <2>2, <2>3
<1>12. N \in S2
  <2>1. 0 .. N \subseteq S2
    <3> HIDE DEF S2
    <3> QED BY <1>1, <1>10, <1>11, Reached
  <2> QED
    BY <1>1, <2>1
<1>13. ReadAll(r, s \o u) = h[M + N] /\ ReadAll(f[M], u) = g[N]
  BY <1>1, <1>5, <1>6 DEF ReadsAlong
<1> QED
  BY <1>4, <1>12, <1>13

-----------------------------------------------------------------------------
(* A string, whatever is in it, is read as a string.                       *)
Chars == Seq(Written)

LEMMA EscapeIsChars ==
  ASSUME NEW c \in Written
  PROVE  Escape(c) \in Chars
<1> DEFINE T == Written
<1>1. "backslash" \in T /\ "plain" \in T /\ c \in T
  BY DEF Written
<1> HIDE DEF T
<1>2. <<"plain">> \in Seq(T) /\ <<"backslash", c>> \in Seq(T)
  BY <1>1
<1> QED
  BY <1>2 DEF Escape, Chars, T

LEMMA LongerIsChars ==
  ASSUME NEW a \in Chars, NEW b \in Chars
  PROVE  a \o b \in Chars
BY ConcatProperties DEF Chars

LEMMA EscapeStaysInside ==
  ASSUME NEW r \in Reader, r.wants = "string", NEW c \in Written
  PROVE  ReadAll(r, Escape(c)) = r
<1>1. CASE c = "plain"
  BY <1>1, ReadOne DEF Escape, ReadToken
<1>2. CASE c # "plain"
  <2> DEFINE e == ReadToken(r, "backslash")
  <2>1. e = [r EXCEPT !.wants = "escaped"]
    BY DEF ReadToken
  <2>2. e \in Reader /\ e.wants = "escaped" /\ e.stack = r.stack
    BY <2>1, ReaderGoesOn DEF Reader
  <2>3. ReadToken(e, c) = [e EXCEPT !.wants = "string"]
    <3> HIDE DEF e
    <3> QED
      BY <1>2, <2>2 DEF ReadToken, WantsValue
  <2>4. ReadToken(e, c) = r
    BY <2>1, <2>2, <2>3 DEF Reader
  <2>5. Escape(c) = <<"backslash", c>>
    BY <1>2 DEF Escape
  <2>6. ReadAll(r, <<"backslash", c>>) = ReadAll(ReadAll(r, <<"backslash">>), <<c>>)
    <3> DEFINE T == {"backslash", c}
               a == <<"backslash">>
               b == <<c>>
    <3>1. a \in Seq(T) /\ b \in Seq(T) /\ <<"backslash", c>> = a \o b
      OBVIOUS
    <3>2. ReadAll(r, a \o b) = ReadAll(ReadAll(r, a), b)
      <4> HIDE DEF T, a, b
      <4> QED BY <3>1, ReadOn
    <3> QED
      BY <3>1, <3>2
  <2>7. ReadAll(r, <<"backslash">>) = e
    BY ReadOne
  <2>8. ReadAll(e, <<c>>) = ReadToken(e, c)
    BY <2>2, ReadOne
  <2> QED
    BY <2>4, <2>5, <2>6, <2>7, <2>8
<1> QED
  BY <1>1, <1>2

(* f is what append_escaped has written after each character.              *)
EscapesAlong(f, string) ==
  /\ f[0] = <<>>
  /\ \A n \in 1 .. Len(string) : f[n] = f[n - 1] \o Escape(string[n])
  /\ \A n \in 0 .. Len(string) : f[n] \in Chars
  /\ Escaped(string) = f[Len(string)]

LEMMA EscapeSteps ==
  ASSUME NEW string \in Chars
  PROVE  \E f : EscapesAlong(f, string)
<1> DEFINE N == Len(string)
           g == [x \in (1 .. N) \X Chars |-> x[2] \o Escape(string[x[1]])]
<1>1. N \in Nat /\ <<>> \in Chars /\ \A n \in 1 .. N : string[n] \in Written
  BY DEF Chars
<1>2. \A n \in 1 .. N, a \in Chars :
        /\ g[<<n, a>>] = a \o Escape(string[n])
        /\ a \o Escape(string[n]) \in Chars
  <2>1. \A n \in 1 .. N, a \in Chars : g[<<n, a>>] = a \o Escape(string[n])
    OBVIOUS
  <2>2. \A n \in 1 .. N, a \in Chars : a \o Escape(string[n]) \in Chars
    <3>1. \A n \in 1 .. N : Escape(string[n]) \in Chars
      BY <1>1, EscapeIsChars
    <3> QED
      BY <3>1, LongerIsChars
  <2> QED
    BY <2>1, <2>2
<1>3. Stays(g, N, Chars)
  BY <1>2 DEF Stays
<1> HIDE DEF g
<1>4. PICK f \in [0 .. N -> Chars] : Follows(f, g, N, <<>>)
  BY <1>1, <1>3, Recursion
<1>5. \A n \in 1 .. N : n \in 0 .. N /\ n # 0 /\ n - 1 \in 0 .. N
  BY <1>1
<1>6. f[0] = <<>> /\ \A n \in 1 .. N : f[n] = f[n - 1] \o Escape(string[n])
  BY <1>2, <1>4, <1>5 DEF Follows
<1> DEFINE By(m, n) == IF n = 0 THEN <<>> ELSE m[n - 1] \o Escape(string[n])
<1>7. f = [n \in 0 .. N |-> By(f, n)]
  <2>1. \A n \in 0 .. N : n # 0 => n \in 1 .. N
    BY <1>1
  <2> QED
    BY <1>4, <1>6, <2>1
<1> DEFINE upTo == CHOOSE m : m = [n \in 0 .. N |-> By(m, n)]
<1>8. upTo = [n \in 0 .. N |-> By(upTo, n)]
  BY <1>7, Zenon
<1>9. Escaped(string) = upTo[N]
  BY DEF Escaped
<1> HIDE DEF upTo
<1>10. upTo[0] = <<>>
  <2>1. 0 \in 0 .. N
    BY <1>1
  <2> QED
    BY <1>8, <2>1
<1>11. \A n \in 1 .. N : upTo[n] = upTo[n - 1] \o Escape(string[n])
  BY <1>5, <1>8
<1> DEFINE S == {n \in 0 .. N : upTo[n] \in Chars}
<1>12. 0 \in S
  BY <1>1, <1>10
<1>13. ASSUME NEW n \in 0 .. N - 1, n \in S
       PROVE  n + 1 \in S
  <2>1. n + 1 \in 1 .. N /\ (n + 1) - 1 = n /\ n + 1 \in 0 .. N
    BY <1>1
  <2>2. upTo[n + 1] = upTo[n] \o Escape(string[n + 1])
    BY <1>11, <2>1
  <2> QED
    BY <1>2, <1>13, <2>1, <2>2
<1>14. 0 .. N \subseteq S
  <2> HIDE DEF S
  <2> QED BY <1>1, <1>12, <1>13, Reached
<1> QED
  BY <1>9, <1>10, <1>11, <1>14 DEF EscapesAlong

LEMMA EscapedStaysInside ==
  ASSUME NEW r \in Reader, r.wants = "string", NEW string \in Chars
  PROVE  Escaped(string) \in Chars /\ ReadAll(r, Escaped(string)) = r
<1> DEFINE N == Len(string)
<1>1. N \in Nat /\ \A n \in 1 .. N : string[n] \in Written
  BY DEF Chars
<1>2. PICK f : EscapesAlong(f, string)
  BY EscapeSteps
<1> DEFINE S == {n \in 0 .. N : ReadAll(r, f[n]) = r}
<1>3. 0 \in S
  BY <1>1, <1>2, ReadNothing DEF EscapesAlong
<1>4. ASSUME NEW n \in 0 .. N - 1, n \in S
      PROVE  n + 1 \in S
  <2>1. n + 1 \in 1 .. N /\ (n + 1) - 1 = n /\ n + 1 \in 0 .. N /\ n \in 0 .. N
    BY <1>1
  <2>2. f[n + 1] = f[n] \o Escape(string[n + 1]) /\ f[n] \in Chars
    BY <1>2, <2>1 DEF EscapesAlong
  <2>3. ReadAll(r, f[n + 1]) = ReadAll(ReadAll(r, f[n]), Escape(string[n + 1]))
    <3>1. Escape(string[n + 1]) \in Seq(Written) /\ f[n] \in Seq(Written)
      BY <1>1, <2>1, <2>2, EscapeIsChars DEF Chars
    <3> QED
      BY <2>2, <3>1, ReadOn
  <2> QED
    BY <1>1, <1>4, <2>1, <2>3, EscapeStaysInside
<1>5. N \in S
  <2>1. 0 .. N \subseteq S
    <3> HIDE DEF S
    <3> QED BY <1>1, <1>3, <1>4, Reached
  <2> QED
    BY <1>1, <2>1
<1> QED
  BY <1>1, <1>2, <1>5 DEF EscapesAlong

-----------------------------------------------------------------------------
(* What a reader makes of each token when it waits for it.                 *)
At(stack, wants) == [stack |-> stack, wants |-> wants]

LEMMA TokenRead ==
  ASSUME NEW r \in Reader
  PROVE  /\ r.wants = "more" =>
              ReadToken(r, "comma") = At(r.stack, IF Last(r.stack) = "beginObject" THEN "key" ELSE "value")
         /\ r.wants \in {"key", "key or end"} => ReadToken(r, "key") = At(r.stack, "value")
         /\ WantsValue(r) => /\ ReadToken(r, "value") = Afterwards(r.stack)
                             /\ ReadToken(r, "quote") = At(r.stack, "string")
                             /\ ReadToken(r, "beginObject") = Opened(r, "beginObject")
                             /\ ReadToken(r, "beginArray") = Opened(r, "beginArray")
         /\ r.wants = "string" => ReadToken(r, "quote") = Afterwards(r.stack)
         /\ r.wants \in {"more", "key or end", "value or end"} =>
              \A t \in {"endObject", "endArray"} : Closing[Last(r.stack)] = t =>
                ReadToken(r, t) = Afterwards(Front(r.stack))
<1>1. \A w : [r EXCEPT !.wants = w] = At(r.stack, w)
  BY DEF Reader, At
<1>2. CASE r.wants = "more"
  <2>1. ReadToken(r, "comma") = [r EXCEPT !.wants = IF Last(r.stack) = "beginObject" THEN "key" ELSE "value"]
    BY <1>2 DEF ReadToken, WantsValue
  <2>2. ASSUME NEW t \in {"endObject", "endArray"}, Closing[Last(r.stack)] = t
        PROVE  ReadToken(r, t) = Afterwards(Front(r.stack))
    BY <1>2, <2>2 DEF ReadToken, WantsValue
  <2> QED
    BY <1>1, <1>2, <2>1, <2>2 DEF WantsValue
<1>3. CASE r.wants \in {"key", "key or end"}
  <2>1. ReadToken(r, "key") = [r EXCEPT !.wants = "value"]
    BY <1>3 DEF ReadToken, WantsValue
  <2>2. ASSUME NEW t \in {"endObject", "endArray"}, Closing[Last(r.stack)] = t, r.wants = "key or end"
        PROVE  ReadToken(r, t) = Afterwards(Front(r.stack))
    BY <2>2 DEF ReadToken, WantsValue
  <2> QED
    BY <1>1, <1>3, <2>1, <2>2 DEF WantsValue
<1>4. CASE WantsValue(r)
  <2>1. ReadToken(r, "value") = Afterwards(r.stack)
    BY <1>4 DEF ReadToken, WantsValue
  <2>2. ReadToken(r, "quote") = [r EXCEPT !.wants = "string"]
    BY <1>4 DEF ReadToken, WantsValue
  <2>3. ReadToken(r, "beginObject") = Opened(r, "beginObject") /\ ReadToken(r, "beginArray") = Opened(r, "beginArray")
    BY <1>4 DEF ReadToken, WantsValue
  <2>4. ASSUME NEW t \in {"endObject", "endArray"}, Closing[Last(r.stack)] = t, r.wants = "value or end"
        PROVE  ReadToken(r, t) = Afterwards(Front(r.stack))
    BY <2>4 DEF ReadToken, WantsValue
  <2>5. r.wants \notin {"more", "key", "key or end", "string"}
    BY <1>4 DEF WantsValue
  <2> QED
    BY <1>1, <1>4, <2>1, <2>2, <2>3, <2>4, <2>5
<1>5. CASE r.wants = "string"
  <2>1. ReadToken(r, "quote") = Afterwards(r.stack)
    BY <1>5 DEF ReadToken, WantsValue
  <2> QED
    BY <1>5, <2>1 DEF WantsValue
<1> QED
  BY <1>2, <1>3, <1>4, <1>5 DEF WantsValue

-----------------------------------------------------------------------------
(* What fields have for values.                                            *)
Token == Written \cup Punctuation \cup {"value"}

Fragment == <<"beginObject", "key", "value", "endObject">>

IsValue(v) ==
  v = <<"value">> \/ v = Fragment \/ \E string \in Characters : v = Quoted(string)

LEMMA TokenStays ==
  ASSUME NEW r \in Reader, NEW s \in Seq(Token), NEW t \in Token
  PROVE  s \o <<t>> \in Seq(Token) /\ ReadAll(r, s \o <<t>>) = ReadToken(ReadAll(r, s), t)
<1> DEFINE u == <<t>>
<1>1. u \in Seq(Token) /\ ReadAll(r, s) \in Reader
  BY ReadOn
<1>2. ReadAll(ReadAll(r, s), u) = ReadToken(ReadAll(r, s), t)
  BY <1>1, ReadOne
<1>3. s \o u \in Seq(Token) /\ ReadAll(r, s \o u) = ReadAll(ReadAll(r, s), u)
  <2> HIDE DEF u
  <2> QED BY <1>1, ReadOn, ConcatProperties
<1> QED
  BY <1>2, <1>3

LEMMA TokenAlone ==
  ASSUME NEW r \in Reader, NEW t \in Token
  PROVE  /\ <<t>> \in Seq(Token) /\ ReadAll(r, <<t>>) = ReadToken(r, t)
         /\ ReadToken(r, t) \in Reader
BY ReadOne, ReaderGoesOn

LEMMA OneMoreInside ==
  ASSUME NEW T, NEW s \in Seq(T), NEW t \in T
  PROVE  /\ Append(s, t) \in Seq(T) /\ Append(s, t) # <<>>
         /\ Last(Append(s, t)) = t /\ Front(Append(s, t)) = s
<1>1. /\ Append(s, t) \in Seq(T) /\ Len(Append(s, t)) = Len(s) + 1 /\ Len(s) \in Nat
      /\ Append(s, t)[Len(s) + 1] = t
      /\ \A i \in 1 .. Len(s) : Append(s, t)[i] = s[i]
  OBVIOUS
<1>2. Front(Append(s, t)) = s
  <2> DEFINE u == Append(s, t)
  <2> HIDE DEF u
  <2>1. u \in Seq(T) /\ Len(u) = Len(s) + 1 /\ \A i \in 1 .. Len(s) : u[i] = s[i]
    BY <1>1 DEF u
  <2>2. SubSeq(u, 1, Len(s)) = s
    BY <1>1, <2>1, SubSeqProperties, SeqEqual
  <2>3. Len(u) - 1 = Len(s)
    BY <1>1, <2>1
  <2> QED
    BY <2>2, <2>3 DEF Front, u
<1> QED
  BY <1>1, <1>2 DEF Last

(* Every such value is read as one, and ends what it is the value of.      *)
LEMMA ValueRead ==
  ASSUME NEW r \in Reader, WantsValue(r), NEW v, IsValue(v)
  PROVE  v \in Seq(Token) /\ ReadAll(r, v) = Afterwards(r.stack)
<1>1. "value" \in Token /\ "beginObject" \in Token /\ "endObject" \in Token /\ "key" \in Token
      /\ "quote" \in Token
  BY DEF Token, Punctuation, Written
<1>2. CASE v = <<"value">>
  <2>1. <<"value">> \in Seq(Token) /\ ReadAll(r, <<"value">>) = ReadToken(r, "value")
    BY <1>1, TokenAlone
  <2>2. ReadToken(r, "value") = Afterwards(r.stack)
    BY TokenRead
  <2> QED
    BY <1>2, <2>1, <2>2
<1>3. CASE v = Fragment
  <2> DEFINE r1 == Opened(r, "beginObject")
             r2 == At(r1.stack, "value")
             r3 == Afterwards(r1.stack)
  <2>1. r.stack \in Seq(Opening) /\ "beginObject" \in Opening
    BY DEF Reader, Stack, Opening
  <2>2. /\ r1.stack = Append(r.stack, "beginObject") /\ r1.wants = "key or end"
        /\ r1.stack # <<>> /\ Last(r1.stack) = "beginObject" /\ Front(r1.stack) = r.stack
    <3>1. r1.stack = Append(r.stack, "beginObject") /\ r1.wants = "key or end"
      BY DEF Opened
    <3> DEFINE t == "beginObject"
               u == Append(r.stack, t)
    <3>2. u # <<>> /\ Last(u) = t /\ Front(u) = r.stack
      <4>1. t \in Opening
        BY DEF Opening
      <4> HIDE DEF t
      <4> QED BY <2>1, <4>1, OneMoreInside
    <3> QED
      BY <3>1, <3>2
  <2>3. r1 \in Reader /\ ReadToken(r, "beginObject") = r1
    BY ReaderGoesOn, TokenRead
  <2>4. r2 \in Reader /\ ReadToken(r1, "key") = r2
    <3>1. ReadToken(r1, "key") = r2
      <4> HIDE DEF r1
      <4> QED BY <2>2, <2>3, TokenRead
    <3> HIDE DEF r1, r2
    <3> QED BY <2>3, <3>1, ReaderGoesOn
  <2>5. r3 \in Reader /\ ReadToken(r2, "value") = r3
    <3>1. WantsValue(r2) /\ r2.stack = r1.stack
      BY DEF At, WantsValue
    <3>2. ReadToken(r2, "value") = r3
      <4> HIDE DEF r1, r2
      <4> QED BY <2>4, <3>1, TokenRead
    <3> HIDE DEF r2, r3
    <3> QED BY <2>4, <3>2, ReaderGoesOn
  <2>6. r3.stack = r1.stack /\ r3.wants = "more" /\ Closing[Last(r1.stack)] = "endObject"
    <3> HIDE DEF r1
    <3> QED BY <2>2 DEF Afterwards, Closing
  <2>7. ReadToken(r3, "endObject") = Afterwards(r.stack)
    <3> HIDE DEF r1, r3
    <3> QED BY <2>2, <2>5, <2>6, TokenRead
  <2>8. ReadAll(r, Fragment) = ReadToken(r3, "endObject")
    <3> HIDE DEF r1, r2, r3
    <3> QED BY <2>3, <2>4, <2>5, ReadFour DEF Fragment
  <2> QED
    BY <1>1, <1>3, <2>7, <2>8 DEF Fragment
<1>4. CASE \E string \in Characters : v = Quoted(string)
  <2>1. PICK string \in Characters : v = Quoted(string)
    BY <1>4
  <2> DEFINE q == <<"quote">>
             e == Escaped(string)
             r1 == At(r.stack, "string")
  <2>2. v = (q \o e) \o q
    BY <2>1 DEF Quoted
  <2>3. string \in Chars
    BY NestingAssumption DEF Chars
  <2>4. q \in Seq(Token) /\ ReadAll(r, q) = r1 /\ r1 \in Reader
    <3>1. q \in Seq(Token) /\ ReadAll(r, q) = ReadToken(r, "quote") /\ ReadToken(r, "quote") \in Reader
      BY <1>1, TokenAlone
    <3>2. ReadToken(r, "quote") = r1
      BY TokenRead
    <3> HIDE DEF q, r1
    <3> QED
      BY <3>1, <3>2
  <2>5. r1.wants = "string" /\ r1.stack = r.stack
    BY DEF At
  <2>6. e \in Seq(Token) /\ ReadAll(r1, e) = r1
    <3>1. e \in Chars /\ ReadAll(r1, e) = r1
      <4> HIDE DEF r1
      <4> QED BY <2>3, <2>4, <2>5, EscapedStaysInside
    <3>2. Written \subseteq Token
      BY DEF Token
    <3> HIDE DEF e
    <3> QED
      BY <3>1, <3>2, SeqMonotonic DEF Chars
  <2>7. q \o e \in Seq(Token) /\ ReadAll(r, q \o e) = r1
    <3> HIDE DEF q, e, r1
    <3> QED BY <2>4, <2>6, ReadOn, ConcatProperties
  <2>8. (q \o e) \o <<"quote">> \in Seq(Token)
        /\ ReadAll(r, (q \o e) \o <<"quote">>) = ReadToken(r1, "quote")
    <3> DEFINE qe == q \o e
    <3> HIDE DEF qe, r1
    <3>1. qe \in Seq(Token) /\ ReadAll(r, qe) = r1
      BY <2>7 DEF qe
    <3>2. qe \o <<"quote">> \in Seq(Token) /\ ReadAll(r, qe \o <<"quote">>) = ReadToken(r1, "quote")
      BY <1>1, <3>1, TokenStays
    <3> QED
      BY <3>2 DEF qe
  <2>9. ReadToken(r1, "quote") = Afterwards(r1.stack)
    <3> HIDE DEF r1
    <3> QED BY <2>4, <2>5, TokenRead
  <2> HIDE DEF e, r1
  <2> QED
    BY <2>2, <2>5, <2>8, <2>9
<1> QED
  BY <1>2, <1>3, <1>4 DEF IsValue

-----------------------------------------------------------------------------
(* What is true in every state: a reader of what is written is in the      *)
(* scopes that are open, and waits for what the commas promise.            *)
Kind == {"object", "array"}

BeginOf(kind) == IF kind = "object" THEN "beginObject" ELSE "beginArray"

Opens == [i \in 1 .. Len(scopes) |-> BeginOf(scopes[i])]

Awaits ==
  IF written = <<>> THEN "value"
  ELSE IF scopes = <<>> THEN "end"
  ELSE IF needComma[depth] THEN "more"
  ELSE IF Last(scopes) = "object" THEN "key or end" ELSE "value or end"

JsonTypeOK ==
  /\ written \in Seq(Token)
  /\ misplaced = FALSE
  /\ scopes \in Seq(Kind) /\ Len(scopes) =< Nesting
  /\ depth = Len(scopes)
  /\ needComma \in [1..MaxDepth -> BOOLEAN]

JsonInv ==
  /\ JsonTypeOK
  /\ written = <<>> => scopes = <<>>
  /\ Reading = At(Opens, Awaits)

LEMMA JsonInvIs ==
  ASSUME JsonInv
  PROVE  WellFormed
<1>1. Reading.stack = Opens /\ Reading.wants = Awaits
  BY DEF JsonInv, At
<1>2. Len(Opens) = Len(scopes)
  BY DEF JsonInv, JsonTypeOK, Opens
<1>3. Awaits \notin {"nothing", "string", "escaped"}
  BY DEF Awaits
<1>4. written # <<>> => (scopes = <<>> <=> Awaits = "end")
  BY DEF Awaits
<1> QED
  BY <1>1, <1>2, <1>3, <1>4 DEF WellFormed, JsonInv, JsonTypeOK

LEMMA ReadingIs ==
  ASSUME JsonInv
  PROVE  /\ Reading \in Reader /\ Reading.stack = Opens /\ Reading.wants = Awaits
         /\ Opens \in Stack
         /\ scopes # <<>> => /\ depth \in 1 .. MaxDepth /\ depth > 0
                            /\ Opens # <<>> /\ Last(Opens) = BeginOf(Last(scopes))
                            /\ Last(scopes) \in Kind /\ written # <<>>
<1>1. Reading.stack = Opens /\ Reading.wants = Awaits
  BY DEF JsonInv, At
<1>2. Len(scopes) \in Nat /\ \A i \in 1 .. Len(scopes) : scopes[i] \in Kind
  BY DEF JsonInv, JsonTypeOK
<1>3. Opens \in Seq(Opening) /\ Len(Opens) = Len(scopes)
  BY <1>2 DEF Opens, BeginOf, Opening
<1>4. Awaits \in Wants
  BY DEF Awaits, Wants
<1>5. Reading \in Reader
  BY <1>3, <1>4 DEF JsonInv, At, Reader, Stack
<1>6. ASSUME scopes # <<>>
      PROVE  /\ depth \in 1 .. MaxDepth /\ depth > 0
             /\ Opens # <<>> /\ Last(Opens) = BeginOf(Last(scopes))
             /\ Last(scopes) \in Kind /\ written # <<>>
  <2>1. Len(scopes) # 0
    BY <1>6 DEF JsonInv, JsonTypeOK
  <2>2. Len(scopes) \in 1 .. Len(scopes) /\ Len(scopes) > 0
    BY <1>2, <2>1
  <2>3. Len(scopes) =< MaxDepth
    BY <1>2, NestingAssumption DEF JsonInv, JsonTypeOK
  <2>4. depth = Len(scopes) /\ written # <<>>
    BY <1>6 DEF JsonInv, JsonTypeOK
  <2>5. Opens # <<>> /\ Last(Opens) = BeginOf(Last(scopes))
    BY <1>3, <2>2 DEF Last, Opens
  <2>6. Last(scopes) \in Kind
    BY <1>2, <2>2 DEF Last
  <2>7. depth \in 1 .. MaxDepth /\ depth > 0
    BY <1>2, <2>2, <2>3, <2>4, NestingAssumption
  <2> QED
    BY <2>4, <2>5, <2>6, <2>7
<1> QED
  BY <1>1, <1>3, <1>5, <1>6 DEF Stack

(* After the comma, if there is one, the next element may come.            *)
LEMMA CommaRead ==
  ASSUME JsonInv, NEW r, r = ReadAll(Reading, Comma)
  PROVE  /\ r \in Reader /\ r.stack = Opens
         /\ Comma \in Seq(Token)
         /\ Inside("object") => r.wants \in {"key", "key or end"}
         /\ Inside("array") => WantsValue(r)
         /\ written = <<>> => WantsValue(r)
<1> USE ReadingIs
<1>1. "comma" \in Token /\ <<"comma">> \in Seq(Token) /\ <<>> \in Seq(Token)
  BY DEF Token, Punctuation
<1>2. CASE scopes = <<>>
  <2>1. Len(<<>>) = 0
    OBVIOUS
  <2>2. depth = 0
    BY <1>2, <2>1 DEF JsonInv, JsonTypeOK
  <2>3. Comma = <<>> /\ r = Reading
    BY <2>2, ReadNothing DEF Comma
  <2>4. written = <<>> => Awaits = "value"
    BY DEF Awaits
  <2> QED
    BY <1>1, <1>2, <2>3, <2>4 DEF Inside, WantsValue
<1>3. CASE scopes # <<>> /\ needComma[depth]
  <2>1. Comma = <<"comma">> /\ Awaits = "more"
    BY <1>3 DEF Comma, Awaits
  <2>2. ReadAll(Reading, <<"comma">>) = ReadToken(Reading, "comma")
        /\ ReadToken(Reading, "comma") \in Reader
    BY ReadOne, ReaderGoesOn
  <2>3. r = At(Opens, IF Last(Opens) = "beginObject" THEN "key" ELSE "value")
    BY <2>1, <2>2, TokenRead
  <2>4. r.stack = Opens /\ r.wants = IF Last(Opens) = "beginObject" THEN "key" ELSE "value"
    BY <2>3 DEF At
  <2>5. Last(Opens) = IF Last(scopes) = "object" THEN "beginObject" ELSE "beginArray"
    BY <1>3 DEF BeginOf
  <2> QED
    BY <1>1, <1>3, <2>1, <2>2, <2>4, <2>5 DEF Inside, WantsValue
<1>4. CASE scopes # <<>> /\ ~needComma[depth]
  <2>1. Comma = <<>> /\ Awaits = IF Last(scopes) = "object" THEN "key or end" ELSE "value or end"
    BY <1>4 DEF Comma, Awaits
  <2>2. r = Reading
    BY <2>1, ReadNothing
  <2> QED
    BY <1>1, <1>4, <2>1, <2>2 DEF Inside, WantsValue
<1> QED
  BY <1>2, <1>3, <1>4

-----------------------------------------------------------------------------
Fresh == At(<<>>, "value")

LEMMA FreshReads == Fresh \in Reader /\ Reading = ReadAll(Fresh, written)
BY DEF Fresh, At, Reader, Stack, Wants, Reading

(* What is written after the comma is read from where the comma leaves off. *)
LEMMA ReadAfterComma ==
  ASSUME JsonInv, NEW u \in Seq(Token), NEW r, r = ReadAll(Reading, Comma)
  PROVE  /\ (written \o Comma) \o u \in Seq(Token)
         /\ ReadAll(Fresh, (written \o Comma) \o u) = ReadAll(r, u)
<1>1. written \in Seq(Token) /\ Comma \in Seq(Token)
  BY CommaRead DEF JsonInv, JsonTypeOK
<1>2. written \o Comma \in Seq(Token) /\ ReadAll(Fresh, written \o Comma) = r
  BY <1>1, FreshReads, ReadOn, ConcatProperties
<1> DEFINE s == written \o Comma
<1> HIDE DEF s
<1>3. s \in Seq(Token) /\ ReadAll(Fresh, s) = r
  BY <1>2 DEF s
<1>4. s \o u \in Seq(Token) /\ ReadAll(Fresh, s \o u) = ReadAll(r, u)
  BY <1>3, FreshReads, ReadOn, ConcatProperties
<1> QED
  BY <1>4 DEF s

LEMMA JsonInitially ==
  ASSUME JsonInit
  PROVE  JsonInv
<1>1. Reading = Fresh
  BY FreshReads, ReadNothing DEF JsonInit
<1>2. Opens = <<>> /\ Awaits = "value"
  BY DEF JsonInit, Opens, Awaits
<1>3. JsonTypeOK
  BY NestingAssumption DEF JsonInit, JsonTypeOK
<1> QED
  BY <1>1, <1>2, <1>3 DEF JsonInv, Fresh, JsonInit

LEMMA NotEmptyAfter ==
  ASSUME NEW T, NEW s \in Seq(T), NEW t \in T
  PROVE  s \o <<t>> # <<>>
<1>1. Len(s \o <<t>>) = Len(s) + 1 /\ Len(s) \in Nat /\ Len(<<>>) = 0
  OBVIOUS
<1> QED
  BY <1>1

LEMMA BeginKeeps ==
  ASSUME JsonInv, NEW kind \in Kind, NEW prefix, Begin(kind, prefix),
         \/ prefix = <<>> /\ BeginObject
         \/ prefix = <<"key">> /\ Inside("object")
  PROVE  JsonInv'
<1> DEFINE b == BeginOf(kind)
           r == ReadAll(Reading, Comma)
           q == ReadAll(r, prefix)
<1>1. r \in Reader /\ r.stack = Opens /\ Comma \in Seq(Token)
  BY CommaRead
<1>2. "key" \in Token /\ b \in Token /\ b \in Opening
  BY DEF Token, Punctuation, BeginOf, Opening
<1>3. prefix \in Seq(Token) /\ q \in Reader /\ q.stack = Opens /\ WantsValue(q)
  <2>1. CASE prefix = <<>> /\ BeginObject
    <3>1. WantsValue(r)
      BY <2>1, CommaRead DEF BeginObject
    <3> HIDE DEF r
    <3> QED
      BY <1>1, <2>1, <3>1, ReadNothing
  <2>2. CASE prefix = <<"key">> /\ Inside("object")
    <3>1. r.wants \in {"key", "key or end"}
      BY <2>2, CommaRead
    <3>2. prefix \in Seq(Token)
      BY <1>2, <2>2
    <3> HIDE DEF r
    <3>3. q = ReadToken(r, "key") /\ ReadToken(r, "key") \in Reader
      BY <1>1, <2>2, ReadOne, ReaderGoesOn
    <3>4. ReadToken(r, "key") = At(Opens, "value")
      BY <1>1, <3>1, TokenRead
    <3> HIDE DEF q
    <3>5. q = At(Opens, "value")
      BY <3>3, <3>4
    <3>6. q.stack = Opens /\ WantsValue(q)
      BY <3>5 DEF At, WantsValue
    <3> QED
      BY <3>2, <3>3, <3>6
  <2> QED
    BY <2>1, <2>2
<1>4. /\ prefix \o <<b>> \in Seq(Token)
      /\ ReadAll(r, prefix \o <<b>>) = ReadToken(q, b)
  <2> HIDE DEF r, b
  <2> QED BY <1>1, <1>2, <1>3, TokenStays
<1>5. written' = (written \o Comma) \o (prefix \o <<b>>)
  <2>1. written' = ((written \o Comma) \o prefix) \o <<b>>
    BY DEF Begin, BeginOf, Kind
  <2>2. written \o Comma \in Seq(Token) /\ <<b>> \in Seq(Token)
    <3> HIDE DEF b
    <3> QED BY <1>1, <1>2, ConcatProperties DEF JsonInv, JsonTypeOK
  <2> HIDE DEF b
  <2> QED BY <1>3, <2>1, <2>2, ConcatAssociative
<1>6. written' \in Seq(Token) /\ Reading' = ReadToken(q, b)
  <2>1. Reading' = ReadAll(Fresh, written')
    BY FreshReads DEF Reading, Fresh, At
  <2> HIDE DEF r, b, q
  <2> QED BY <1>4, <1>5, <2>1, ReadAfterComma DEF r
<1>7. ReadToken(q, b) = At(Append(Opens, b), IF kind = "object" THEN "key or end" ELSE "value or end")
  <2>1. ReadToken(q, b) = Opened(q, b)
    <3> HIDE DEF r, q
    <3> QED BY <1>3, TokenRead DEF BeginOf, Kind
  <2>2. b = "beginObject" <=> kind = "object"
    BY DEF BeginOf
  <2> HIDE DEF q, b
  <2> QED BY <1>3, <2>1, <2>2 DEF Opened, At
<1>8. Len(scopes) \in Nat /\ depth = Len(scopes) /\ depth < MaxDepth /\ depth + 1 =< Nesting
  BY NestingAssumption DEF Begin, JsonInv, JsonTypeOK
<1>9. /\ scopes' = Append(scopes, kind) /\ depth' = depth + 1
      /\ needComma' = [Needed EXCEPT ![depth + 1] = FALSE]
  BY <1>8 DEF Begin
<1>10. Needed \in [1..MaxDepth -> BOOLEAN]
  BY DEF Needed, JsonInv, JsonTypeOK
<1>11. depth + 1 \in 1 .. MaxDepth /\ needComma'[depth'] = FALSE
       /\ needComma' \in [1..MaxDepth -> BOOLEAN]
  BY <1>8, <1>9, <1>10, NestingAssumption
<1>12. /\ scopes' \in Seq(Kind) /\ Len(scopes') = Len(scopes) + 1
       /\ scopes' # <<>> /\ Last(scopes') = kind
  BY <1>9, OneMoreInside DEF JsonInv, JsonTypeOK
<1>13. Opens' = Append(Opens, b)
  <2>1. Len(Opens) = Len(scopes) /\ Opens \in Seq(Opening)
    BY <1>8, ReadingIs DEF Opens, Stack
  <2>2. \A i \in 1 .. Len(scopes) : scopes'[i] = scopes[i] /\ Opens[i] = BeginOf(scopes[i])
    BY <1>9 DEF Opens, JsonInv, JsonTypeOK
  <2>3. scopes'[Len(scopes) + 1] = kind
    BY <1>9 DEF JsonInv, JsonTypeOK
  <2>4. Opens' = [i \in 1 .. Len(scopes) + 1 |-> BeginOf(scopes'[i])]
    BY <1>12 DEF Opens
  <2> HIDE DEF b
  <2>5. /\ Append(Opens, b) \in Seq(Opening) /\ Len(Append(Opens, b)) = Len(scopes) + 1
        /\ \A i \in 1 .. Len(scopes) + 1 :
             Append(Opens, b)[i] = IF i = Len(scopes) + 1 THEN b ELSE Opens[i]
    <3> HIDE DEF Opens
    <3> QED BY <1>2, <1>8, <2>1
  <2>6. \A i \in 1 .. Len(scopes) + 1 :
          BeginOf(scopes'[i]) = IF i = Len(scopes) + 1 THEN b ELSE Opens[i]
    BY <1>8, <2>2, <2>3 DEF b
  <2>7. /\ Opens' \in Seq(Opening) /\ Len(Opens') = Len(scopes) + 1
        /\ \A i \in 1 .. Len(scopes) + 1 : Opens'[i] = BeginOf(scopes'[i])
    <3>1. Len(scopes) + 1 \in Nat /\ \A i \in 1 .. Len(scopes) + 1 : BeginOf(scopes'[i]) \in Opening
      BY <1>8 DEF BeginOf, Opening
    <3> QED
      BY <2>4, <3>1
  <2> QED
    BY <2>5, <2>6, <2>7, SeqEqual
<1>14. written' # <<>>
  <2> DEFINE w == (written \o Comma) \o prefix
  <2>1. w \in Seq(Token)
    BY <1>1, <1>3, ConcatProperties DEF JsonInv, JsonTypeOK
  <2>2. written' = w \o <<b>>
    BY DEF Begin, BeginOf, Kind
  <2> HIDE DEF w, b
  <2> QED BY <1>2, <2>1, <2>2, NotEmptyAfter
<1>15. Awaits' = IF kind = "object" THEN "key or end" ELSE "value or end"
  BY <1>11, <1>12, <1>14 DEF Awaits
<1>16. JsonTypeOK'
  <2>1. misplaced' = FALSE
    BY DEF Begin, JsonInv, JsonTypeOK
  <2> QED
    BY <1>6, <1>8, <1>9, <1>11, <1>12, <2>1 DEF JsonTypeOK
<1> HIDE DEF b, q
<1> QED
  BY <1>6, <1>7, <1>13, <1>14, <1>15, <1>16 DEF JsonInv

LEMMA SomethingIsThere ==
  ASSUME NEW T, NEW s \in Seq(T), NEW u \in Seq(T), u # <<>>
  PROVE  s \o u # <<>> /\ u \o s # <<>>
<1>1. Len(u) \in Nat /\ Len(u) # 0 /\ Len(s) \in Nat /\ Len(<<>>) = 0
  OBVIOUS
<1>2. Len(s \o u) = Len(s) + Len(u) /\ Len(u \o s) = Len(u) + Len(s)
  OBVIOUS
<1> QED
  BY <1>1, <1>2

LEMMA FieldKeeps ==
  ASSUME JsonInv, NEW value, IsValue(value), Field(value), ~misplaced'
  PROVE  JsonInv'
<1> DEFINE k == <<"key">>
           r == ReadAll(Reading, Comma)
           q == At(Opens, "value")
<1>1. /\ r \in Reader /\ r.stack = Opens /\ Comma \in Seq(Token)
      /\ r.wants \in {"key", "key or end"}
  <2>1. Last(scopes) \in Kind /\ Last(scopes) # "array" /\ scopes # <<>>
    BY ReadingIs DEF Field
  <2>2. Inside("object")
    BY <2>1 DEF Inside, Kind
  <2> QED
    BY <2>2, CommaRead
<1>2. k \in Seq(Token) /\ k # <<>> /\ ReadAll(r, k) = q /\ q \in Reader
  <2>1. "key" \in Token /\ k # <<>>
    BY DEF Token, Punctuation
  <2> HIDE DEF r
  <2>2. k \in Seq(Token) /\ ReadAll(r, k) = ReadToken(r, "key") /\ ReadToken(r, "key") \in Reader
    BY <1>1, <2>1, TokenAlone
  <2>3. ReadToken(r, "key") = q
    BY <1>1, TokenRead
  <2> HIDE DEF q, k
  <2> QED
    BY <2>1, <2>2, <2>3
<1>3. value \in Seq(Token) /\ ReadAll(q, value) = Afterwards(Opens)
  <2>1. q.stack = Opens /\ WantsValue(q)
    BY DEF At, WantsValue
  <2> HIDE DEF q
  <2> QED
    BY <1>2, <2>1, ValueRead
<1>4. /\ k \o value \in Seq(Token) /\ k \o value # <<>>
      /\ ReadAll(r, k \o value) = Afterwards(Opens)
  <2> HIDE DEF r, k, q
  <2> QED
    BY <1>1, <1>2, <1>3, ReadOn, ConcatProperties, SomethingIsThere
<1>5. written \o Comma \in Seq(Token) /\ written' = (written \o Comma) \o (k \o value)
  <2>1. written' = ((written \o Comma) \o k) \o value
    BY DEF Field
  <2>2. written \o Comma \in Seq(Token)
    BY <1>1, ConcatProperties DEF JsonInv, JsonTypeOK
  <2> DEFINE w == written \o Comma
  <2> HIDE DEF k, w
  <2>3. k \in Seq(Token) /\ value \in Seq(Token) /\ w \in Seq(Token)
    BY <1>2, <1>3, <2>2 DEF w
  <2>4. (w \o k) \o value = w \o (k \o value)
    BY <2>3, ConcatAssociative
  <2> QED
    BY <2>1, <2>2, <2>4 DEF w
<1>6. written' \in Seq(Token) /\ written' # <<>> /\ Reading' = Afterwards(Opens)
  <2>1. Reading' = ReadAll(Fresh, written')
    BY FreshReads DEF Reading, Fresh, At
  <2> HIDE DEF k
  <2> QED
    BY <1>4, <1>5, <2>1, ReadAfterComma, SomethingIsThere
<1>7. /\ scopes # <<>> /\ depth \in 1 .. MaxDepth /\ depth > 0 /\ Opens # <<>>
  BY ReadingIs DEF Field
<1>8. needComma' \in [1..MaxDepth -> BOOLEAN] /\ needComma'[depth] = TRUE
  BY <1>7 DEF Field, Needed, JsonInv, JsonTypeOK
<1>9. scopes' = scopes /\ depth' = depth /\ Opens' = Opens /\ misplaced' = FALSE
  BY DEF Field, Opens
<1>10. Awaits' = "more"
  BY <1>6, <1>7, <1>8, <1>9 DEF Awaits
<1>11. Afterwards(Opens) = At(Opens, "more")
  BY <1>7 DEF Afterwards, At
<1>12. JsonTypeOK'
  <2>1. scopes \in Seq(Kind) /\ Len(scopes) =< Nesting /\ depth = Len(scopes)
    BY DEF JsonInv, JsonTypeOK
  <2> QED
    BY <1>6, <1>8, <1>9, <2>1 DEF JsonTypeOK
<1> QED
  BY <1>6, <1>9, <1>10, <1>11, <1>12 DEF JsonInv

LEMMA OneLess ==
  ASSUME NEW T, NEW s \in Seq(T), s # <<>>
  PROVE  /\ Front(s) \in Seq(T) /\ Len(Front(s)) = Len(s) - 1
         /\ \A i \in 1 .. Len(s) - 1 : Front(s)[i] = s[i]
         /\ Len(s) > 0 /\ Len(s) \in Nat
         /\ Front(s) = <<>> <=> Len(s) = 1
<1>1. Len(s) \in Nat /\ Len(s) > 0 /\ \A i \in 1 .. Len(s) - 1 : i \in 1 .. Len(s) /\ s[i] \in T
  OBVIOUS
<1>2. /\ Front(s) \in Seq(T) /\ Len(Front(s)) = Len(s) - 1
      /\ \A i \in 1 .. Len(s) - 1 : Front(s)[i] = s[i]
  <2> DEFINE n == Len(s) - 1
  <2>1. n \in Nat /\ 1 \in 1 .. Len(s) + 1 /\ n \in 1 - 1 .. Len(s) /\ n - 1 + 1 = n
        /\ \A i \in 1 .. n : 1 + i - 1 = i
    BY <1>1
  <2> HIDE DEF n
  <2>2. Front(s) = SubSeq(s, 1, n)
    BY DEF Front, n
  <2>3. /\ SubSeq(s, 1, n) \in Seq(T) /\ Len(SubSeq(s, 1, n)) = n
        /\ \A i \in 1 .. n : SubSeq(s, 1, n)[i] = s[i]
    BY <1>1, <2>1, SubSeqProperties DEF n
  <2> QED
    BY <2>2, <2>3 DEF n
<1>3. Front(s) = <<>> <=> Len(Front(s)) = 0
  BY <1>2, EmptySeq
<1> QED
  BY <1>1, <1>2, <1>3

LEMMA EndKeeps ==
  ASSUME JsonInv, End
  PROVE  JsonInv'
<1> DEFINE t == IF Last(scopes) = "object" THEN "endObject" ELSE "endArray"
<1>1. /\ scopes # <<>> /\ depth \in 1 .. MaxDepth /\ depth > 0 /\ Opens # <<>>
      /\ Last(Opens) = BeginOf(Last(scopes)) /\ Last(scopes) \in Kind /\ written # <<>>
      /\ Opens \in Seq(Opening) /\ Len(Opens) = Len(scopes)
  <2>1. Len(Opens) = Len(scopes)
    BY DEF Opens, JsonInv, JsonTypeOK
  <2> QED
    BY <2>1, ReadingIs DEF End, Stack
<1>2. Reading \in Reader /\ Reading.stack = Opens /\ Reading.wants \in {"more", "key or end", "value or end"}
  <2>1. Awaits \in {"more", "key or end", "value or end"}
    BY <1>1 DEF Awaits
  <2> QED
    BY <2>1, ReadingIs
<1>3. Closing[Last(Opens)] = t /\ t \in {"endObject", "endArray"}
  BY <1>1 DEF Closing, BeginOf, Kind
<1>4. ReadToken(Reading, t) = Afterwards(Front(Opens))
  <2> HIDE DEF t
  <2> QED
    BY <1>2, <1>3, TokenRead
<1>5. t \in Token
  BY DEF Token, Punctuation
<1>6. written' \in Seq(Token) /\ written' # <<>> /\ Reading' = ReadToken(Reading, t)
  <2>1. Reading' = ReadAll(Fresh, written')
    BY FreshReads DEF Reading, Fresh, At
  <2>2. written' = Append(written, t) /\ written \in Seq(Token)
    BY DEF End, JsonInv, JsonTypeOK
  <2> HIDE DEF t
  <2>3. written' = written \o <<t>>
    BY <1>5, <2>2, AppendIsConcat
  <2> QED
    BY <1>5, <2>1, <2>2, <2>3, FreshReads, TokenStays, NotEmptyAfter
<1>7. /\ scopes \in Seq(Kind) /\ scopes' \in Seq(Kind) /\ Len(scopes') = Len(scopes) - 1
      /\ \A i \in 1 .. Len(scopes) - 1 : scopes'[i] = scopes[i]
      /\ scopes' = <<>> <=> Len(scopes) = 1
      /\ Len(scopes) \in Nat /\ Len(scopes) > 0 /\ Len(scopes) =< Nesting
      /\ depth = Len(scopes)
  <2>1. scopes' = Front(scopes)
    BY DEF End
  <2> QED
    BY <1>1, <2>1, OneLess DEF JsonInv, JsonTypeOK
<1>8. /\ Front(Opens) \in Seq(Opening) /\ Len(Front(Opens)) = Len(scopes) - 1
      /\ \A i \in 1 .. Len(scopes) - 1 : Front(Opens)[i] = Opens[i]
      /\ Front(Opens) = <<>> <=> Len(scopes) = 1
  <2> HIDE DEF Opens
  <2> QED
    BY <1>1, OneLess
<1>9. Opens' = Front(Opens)
  <2>1. Opens' = [i \in 1 .. Len(scopes) - 1 |-> BeginOf(scopes'[i])]
    BY <1>7 DEF Opens
  <2>2. \A i \in 1 .. Len(scopes) - 1 : i \in 1 .. Len(scopes) /\ BeginOf(scopes'[i]) \in Opening
    BY <1>7 DEF BeginOf, Opening
  <2>3. \A i \in 1 .. Len(scopes) - 1 : Front(Opens)[i] = BeginOf(scopes'[i])
    <3>1. \A i \in 1 .. Len(scopes) - 1 : Opens[i] = BeginOf(scopes'[i])
      BY <1>7, <2>2 DEF Opens
    <3> QED
      BY <1>8, <3>1
  <2>4. /\ Opens' \in Seq(Opening) /\ Len(Opens') = Len(scopes) - 1
        /\ \A i \in 1 .. Len(scopes) - 1 : Opens'[i] = BeginOf(scopes'[i])
    <3>1. Len(scopes) - 1 \in Nat
      BY <1>7
    <3> QED
      BY <2>1, <2>2, <3>1
  <2> QED
    BY <1>8, <2>3, <2>4, SeqEqual
<1>10. /\ depth' = depth - 1 /\ needComma' \in [1..MaxDepth -> BOOLEAN]
       /\ depth > 1 => needComma'[depth'] = TRUE
  <2>1. depth' = depth - 1
    BY <1>1 DEF End, Popped
  <2>2. CASE depth > 1
    <3>1. depth - 1 \in 1 .. MaxDepth
      BY <1>1, <2>2, NestingAssumption
    <3>2. needComma' = [needComma EXCEPT ![depth - 1] = TRUE]
      BY <2>2 DEF End, Popped
    <3> QED
      BY <2>1, <3>1, <3>2 DEF JsonInv, JsonTypeOK
  <2>3. CASE ~(depth > 1)
    BY <2>1, <2>3 DEF End, Popped, JsonInv, JsonTypeOK
  <2> QED
    BY <2>2, <2>3
<1>11. Awaits' = IF Len(scopes) = 1 THEN "end" ELSE "more"
  <2>1. CASE Len(scopes) = 1
    BY <1>6, <1>7, <2>1 DEF Awaits
  <2>2. CASE Len(scopes) # 1
    <3>1. scopes' # <<>> /\ needComma'[depth'] = TRUE
      BY <1>7, <1>10, <2>2
    <3> QED
      BY <1>6, <2>2, <3>1 DEF Awaits
  <2> QED
    BY <2>1, <2>2
<1>12. Afterwards(Front(Opens)) = At(Front(Opens), IF Len(scopes) = 1 THEN "end" ELSE "more")
  BY <1>8 DEF Afterwards, At
<1>13. JsonTypeOK'
  <2>1. Len(scopes') =< Nesting /\ depth' = Len(scopes')
    <3>1. \A n \in Nat : n =< Nesting => n - 1 =< Nesting
      BY NestingAssumption
    <3> QED
      BY <1>7, <1>10, <3>1
  <2>2. misplaced' = FALSE
    BY DEF End, JsonInv, JsonTypeOK
  <2> QED
    BY <1>6, <1>7, <1>10, <2>1, <2>2 DEF JsonTypeOK
<1> QED
  BY <1>4, <1>6, <1>9, <1>11, <1>12, <1>13 DEF JsonInv

-----------------------------------------------------------------------------
(* A reader that has met a key in an array is lost, whatever follows.      *)
LEMMA LostForEver ==
  ASSUME NEW T, NEW s \in Seq(T)
  PROVE  Lost \in Reader /\ ReadAll(Lost, s) = Lost
<1> DEFINE N == Len(s)
<1>1. Lost \in Reader
  BY DEF Lost, Reader, Stack, Wants
<1>2. \A t : ReadToken(Lost, t) = Lost
  BY DEF Lost, ReadToken, WantsValue
<1>3. N \in Nat
  OBVIOUS
<1>4. PICK f : ReadsAlong(f, Lost, s)
  BY <1>1, ReadSteps
<1> DEFINE S == {n \in 0 .. N : f[n] = Lost}
<1>5. 0 \in S
  BY <1>3, <1>4 DEF ReadsAlong
<1>6. ASSUME NEW n \in 0 .. N - 1, n \in S
      PROVE  n + 1 \in S
  <2>1. n + 1 \in 1 .. N /\ (n + 1) - 1 = n /\ n + 1 \in 0 .. N
    BY <1>3
  <2>2. f[n + 1] = ReadToken(f[n], s[n + 1])
    BY <1>4, <2>1 DEF ReadsAlong
  <2> QED
    BY <1>2, <1>6, <2>1, <2>2
<1>7. 0 .. N \subseteq S
  <2> HIDE DEF S
  <2> QED BY <1>3, <1>5, <1>6, Reached
<1> QED
  BY <1>1, <1>3, <1>4, <1>7 DEF ReadsAlong

Spoilt ==
  /\ written \in Seq(Token)
  /\ misplaced = TRUE
  /\ Reading = Lost

LEMMA SpoiltIs ==
  ASSUME Spoilt
  PROVE  WellFormed
BY DEF Spoilt, WellFormed, Lost

LEMMA ValueIsTokens ==
  ASSUME NEW value, IsValue(value) \/ value = Dependencies
  PROVE  value \in Seq(Token)
<1>1. CASE IsValue(value)
  <2>1. WantsValue(Fresh) /\ Fresh \in Reader
    BY FreshReads DEF Fresh, At, WantsValue
  <2> QED
    BY <1>1, <2>1, ValueRead
<1>2. CASE value = Dependencies
  <2>1. "beginArray" \in Token /\ "key" \in Token /\ "value" \in Token /\ "endArray" \in Token
    BY DEF Token, Punctuation
  <2> QED
    BY <1>2, <2>1 DEF Dependencies
<1> QED
  BY <1>1, <1>2

(* Whatever else is written then, no reader accepts it.                    *)
LEMMA WritingOn ==
  ASSUME Spoilt, NEW u \in Seq(Token), written' = written \o u, misplaced' = TRUE
  PROVE  Spoilt'
<1>1. Reading' = ReadAll(Fresh, written')
  BY FreshReads DEF Reading, Fresh, At
<1>2. written \in Seq(Token) /\ ReadAll(Fresh, written) = Lost /\ Fresh \in Reader
  BY FreshReads DEF Spoilt
<1>3. written \o u \in Seq(Token) /\ ReadAll(Fresh, written \o u) = ReadAll(Lost, u)
  BY <1>2, ReadOn, ConcatProperties
<1> QED
  BY <1>1, <1>3, LostForEver DEF Spoilt

LEMMA SpoiltStays ==
  ASSUME Spoilt, [JsonNext]_json
  PROVE  Spoilt'
<1>1. written \in Seq(Token) /\ misplaced = TRUE
  BY DEF Spoilt
<1>2. {"comma", "key", "value", "beginObject", "beginArray", "endObject", "endArray"} \subseteq Token
  BY DEF Token, Punctuation
<1>3. Comma \in Seq(Token)
  BY <1>2 DEF Comma
<1>4. ASSUME NEW a \in Seq(Token), NEW b \in Seq(Token),
             written' = ((written \o Comma) \o a) \o b, misplaced' = TRUE
      PROVE  Spoilt'
  <2>1. (Comma \o a) \o b \in Seq(Token)
    BY <1>3, ConcatProperties
  <2>2. written' = written \o ((Comma \o a) \o b)
    <3> DEFINE c == Comma
               ca == c \o a
    <3>1. c \in Seq(Token) /\ ca \in Seq(Token)
      BY <1>3, ConcatProperties
    <3> HIDE DEF c
    <3>2. (written \o c) \o a = written \o (c \o a)
      BY <1>1, <3>1, ConcatAssociative
    <3> HIDE DEF ca
    <3>3. (written \o ca) \o b = written \o (ca \o b)
      BY <1>1, <3>1, ConcatAssociative
    <3> QED
      BY <1>4, <3>2, <3>3 DEF c, ca
  <2> QED
    BY <1>4, <2>1, <2>2, WritingOn
<1>5. CASE End
  <2> DEFINE t == IF Last(scopes) = "object" THEN "endObject" ELSE "endArray"
  <2>1. t \in Token /\ misplaced' = TRUE /\ written' = Append(written, t)
    BY <1>1, <1>2, <1>5 DEF End
  <2> HIDE DEF t
  <2>2. written' = written \o <<t>> /\ <<t>> \in Seq(Token)
    BY <1>1, <2>1, AppendIsConcat
  <2> QED
    BY <2>1, <2>2, WritingOn
<1>6. ASSUME NEW kind, NEW prefix, Begin(kind, prefix), prefix \in {<<>>, <<"key">>}
      PROVE  Spoilt'
  <2> DEFINE t == IF kind = "object" THEN "beginObject" ELSE "beginArray"
             b == <<t>>
  <2>1. /\ t \in Token /\ misplaced' = TRUE
        /\ written' = ((written \o Comma) \o prefix) \o b
    BY <1>1, <1>2, <1>6 DEF Begin
  <2>2. prefix \in Seq(Token)
    <3>1. <<>> \in Seq(Token) /\ "key" \in Token
      BY <1>2
    <3> DEFINE key == "key"
               only == <<key>>
    <3>2. only \in Seq(Token)
      <4>1. key \in Token
        BY <3>1
      <4> HIDE DEF key
      <4> QED
        BY <4>1
    <3> QED
      BY <1>6, <3>1, <3>2
  <2> HIDE DEF t
  <2>3. b \in Seq(Token)
    BY <2>1
  <2> HIDE DEF b
  <2> QED
    BY <1>4, <2>1, <2>2, <2>3
<1>7. ASSUME NEW value, Field(value), IsValue(value) \/ value = Dependencies
      PROVE  Spoilt'
  <2> DEFINE a == <<"key">>
  <2>1. misplaced' = TRUE /\ written' = ((written \o Comma) \o a) \o value
    BY <1>1, <1>7 DEF Field
  <2>2. a \in Seq(Token) /\ value \in Seq(Token)
    BY <1>2, <1>7, ValueIsTokens
  <2> HIDE DEF a
  <2> QED
    BY <1>4, <2>1, <2>2
<1>8. CASE UNCHANGED json
  BY <1>8 DEF json, Spoilt, Reading
<1> QED
  <2>1. ASSUME NEW kind \in {"object", "array"}, Begin(kind, <<>>)
        PROVE  Spoilt'
    BY <1>6, <2>1
  <2>2. CASE Begin("array", <<"key">>)
    BY <1>6, <2>2
  <2>3. CASE Field(<<"value">>)
    BY <1>7, <2>3 DEF IsValue
  <2>4. CASE Field(<<"beginObject", "key", "value", "endObject">>)
    BY <1>7, <2>4 DEF IsValue, Fragment
  <2>5. CASE Field(Dependencies)
    BY <1>7, <2>5
  <2>6. ASSUME NEW s \in Characters, Field(Quoted(s))
        PROVE  Spoilt'
    BY <1>7, <2>6 DEF IsValue
  <2> QED
    BY <1>5, <1>8, <2>1, <2>2, <2>3, <2>4, <2>5, <2>6 DEF JsonNext

(* A key in an array is what no reader waits for there.                    *)
LEMMA FieldSpoils ==
  ASSUME JsonInv, NEW value, IsValue(value) \/ value = Dependencies,
         Field(value), misplaced'
  PROVE  Spoilt'
<1> DEFINE k == <<"key">>
           r == ReadAll(Reading, Comma)
           q == At(Opens, "value")
<1>1. r \in Reader /\ r.stack = Opens /\ Comma \in Seq(Token)
  BY CommaRead
<1>2. "key" \in Token /\ k \in Seq(Token) /\ value \in Seq(Token)
  BY ValueIsTokens DEF Token, Punctuation
<1>3. misplaced' = TRUE
  BY DEF Field
<1>4. /\ written \o Comma \in Seq(Token) /\ written' = (written \o Comma) \o (k \o value)
      /\ k \o value \in Seq(Token)
  <2>1. written' = ((written \o Comma) \o k) \o value
    BY DEF Field
  <2>2. written \o Comma \in Seq(Token)
    BY <1>1, ConcatProperties DEF JsonInv, JsonTypeOK
  <2> DEFINE w == written \o Comma
  <2> HIDE DEF k, w
  <2>3. k \in Seq(Token) /\ value \in Seq(Token) /\ w \in Seq(Token)
    BY <1>2, <2>2 DEF w
  <2>4. (w \o k) \o value = w \o (k \o value) /\ k \o value \in Seq(Token)
    BY <2>3, ConcatAssociative, ConcatProperties
  <2> QED
    BY <2>1, <2>2, <2>4 DEF w
<1>5. /\ ReadAll(r, k) = ReadToken(r, "key") /\ ReadToken(r, "key") \in Reader
  <2> HIDE DEF r
  <2> QED
    BY <1>1, <1>2, TokenAlone
<1>6. ReadAll(r, k \o value) = ReadAll(ReadToken(r, "key"), value)
  <2> HIDE DEF r, k
  <2> QED
    BY <1>1, <1>2, <1>5, ReadOn
<1>7. ReadAll(ReadToken(r, "key"), value) = Lost
  <2>1. scopes # <<>> /\ Last(scopes) \in Kind
    BY ReadingIs DEF Field
  <2>2. CASE Last(scopes) = "array"
    <3>1. WantsValue(r)
      BY <2>1, <2>2, CommaRead DEF Inside
    <3> HIDE DEF r
    <3>2. ReadToken(r, "key") = Lost
      BY <3>1 DEF ReadToken, WantsValue
    <3> QED
      BY <1>2, <3>2, LostForEver
  <2>3. CASE Last(scopes) = "object"
    <3>1. r.wants \in {"key", "key or end"}
      BY <2>1, <2>3, CommaRead DEF Inside
    <3>2. ReadToken(r, "key") = q /\ q \in Reader
      <4> HIDE DEF r
      <4>1. ReadToken(r, "key") = q
        BY <1>1, <3>1, TokenRead
      <4> HIDE DEF q
      <4> QED
        BY <1>5, <4>1
    <3>3. value = Dependencies
      BY <2>3 DEF Field, JsonInv, JsonTypeOK
    <3> DEFINE o == Opened(q, "beginArray")
    <3>4. ReadToken(q, "beginArray") = o
      <4>1. WantsValue(q)
        BY DEF At, WantsValue
      <4> HIDE DEF q
      <4> QED
        BY <3>2, <4>1, TokenRead
    <3>5. ReadToken(o, "key") = Lost
      <4>1. o.wants = "value or end"
        BY DEF Opened
      <4> HIDE DEF o
      <4> QED
        BY <4>1 DEF ReadToken, WantsValue
    <3>6. ReadToken(ReadToken(Lost, "value"), "endArray") = Lost
      BY DEF Lost, ReadToken, WantsValue
    <3>7. ReadAll(q, Dependencies)
            = ReadToken(ReadToken(ReadToken(ReadToken(q, "beginArray"), "key"), "value"), "endArray")
      <4> HIDE DEF q
      <4> QED
        BY <3>2, ReadFour DEF Dependencies
    <3> QED
      BY <3>2, <3>3, <3>4, <3>5, <3>6, <3>7
  <2> QED
    BY <2>1, <2>2, <2>3 DEF Kind
<1>8. written' \in Seq(Token) /\ Reading' = Lost
  <2>1. Reading' = ReadAll(Fresh, written')
    BY FreshReads DEF Reading, Fresh, At
  <2>2. /\ (written \o Comma) \o (k \o value) \in Seq(Token)
        /\ ReadAll(Fresh, (written \o Comma) \o (k \o value)) = ReadAll(r, k \o value)
    <3> HIDE DEF k
    <3> QED
      BY <1>4, ReadAfterComma
  <2> HIDE DEF k, r
  <2> QED
    BY <1>4, <1>6, <1>7, <2>1, <2>2
<1> QED
  BY <1>3, <1>8 DEF Spoilt

-----------------------------------------------------------------------------
(* Every answer of the device can be read as JSON, however deep the        *)
(* callers nest and whatever characters their strings have, unless a field *)
(* was written in an array, and none in which one was: commas are where    *)
(* they must be and a scope closes what was opened.                        *)
THEOREM AnswersAreJson == JsonSpec => []WellFormed
<1>1. JsonInit => JsonInv
  BY JsonInitially
<1>2. ASSUME JsonInv, [JsonNext]_json
      PROVE  JsonInv' \/ Spoilt'
  <2>1. CASE End
    BY <1>2, <2>1, EndKeeps
  <2>2. ASSUME BeginObject, NEW kind \in {"object", "array"}, Begin(kind, <<>>)
        PROVE  JsonInv'
    BY <1>2, <2>2, BeginKeeps DEF Kind
  <2>3. CASE Inside("object") /\ Begin("array", <<"key">>)
    BY <1>2, <2>3, BeginKeeps DEF Kind
  <2>4. ASSUME NEW value, Field(value), IsValue(value) \/ value = Dependencies
        PROVE  JsonInv' \/ Spoilt'
    <3>1. CASE misplaced'
      BY <1>2, <2>4, <3>1, FieldSpoils
    <3>2. CASE ~misplaced'
      <4>1. value # Dependencies
        BY <2>4, <3>2 DEF Field
      <4> QED
        BY <1>2, <2>4, <3>2, <4>1, FieldKeeps
    <3> QED
      BY <3>1, <3>2
  <2>5. CASE Field(<<"value">>)
    BY <2>4, <2>5 DEF IsValue
  <2>6. CASE Field(<<"beginObject", "key", "value", "endObject">>)
    BY <2>4, <2>6 DEF IsValue, Fragment
  <2>7. CASE Field(Dependencies)
    BY <2>4, <2>7
  <2>8. ASSUME NEW s \in Characters, Field(Quoted(s))
        PROVE  JsonInv' \/ Spoilt'
    BY <2>4, <2>8 DEF IsValue
  <2>9. CASE UNCHANGED json
    BY <1>2, <2>9 DEF json, JsonInv, JsonTypeOK, Reading, Opens, Awaits, At
  <2> QED
    BY <1>2, <2>1, <2>2, <2>3, <2>5, <2>6, <2>7, <2>8, <2>9 DEF JsonNext
<1>3. Spoilt /\ [JsonNext]_json => Spoilt'
  BY SpoiltStays
<1>4. JsonInv \/ Spoilt => WellFormed
  BY JsonInvIs, SpoiltIs
<1> QED
  BY <1>1, <1>2, <1>3, <1>4, PTL DEF JsonSpec

-----------------------------------------------------------------------------
(* Going around: x % n for the x that come up.                             *)
LEMMA Around ==
  ASSUME NEW n \in Nat \ {0}
  PROVE  /\ \A x \in 0 .. n - 1 : x % n = x
         /\ \A x \in n .. 2 * n - 1 : x % n = x - n
         /\ \A x \in 2 * n .. 3 * n - 1 : x % n = x - 2 * n
         /\ \A x \in Nat : x % n \in 0 .. n - 1
<1>1. \A x \in 0 .. n - 1 : x % n = x
  OBVIOUS
<1>2. ASSUME NEW x \in n .. 2 * n - 1
      PROVE  x % n = x - n
  <2>1. x - n \in 0 .. n - 1 /\ x = n * 1 + (x - n)
    OBVIOUS
  <2> QED
    BY <2>1
<1>3. ASSUME NEW x \in 2 * n .. 3 * n - 1
      PROVE  x % n = x - 2 * n
  <2>1. x - 2 * n \in 0 .. n - 1 /\ x = n * 2 + (x - 2 * n)
    OBVIOUS
  <2> QED
    BY <2>1
<1>4. \A x \in Nat : x % n \in 0 .. n - 1
  OBVIOUS
<1> QED
  BY <1>1, <1>2, <1>3, <1>4

LEMMA RestIs ==
  ASSUME NEW n \in Nat \ {0}, NEW q \in Nat, NEW r \in 0 .. n - 1, NEW x \in Nat, x = n * q + r
  PROVE  x % n = r
OBVIOUS

LEMMA OneFurther ==
  ASSUME NEW n \in Nat \ {0}, NEW x \in Nat
  PROVE  (x + 1) % n = IF (x % n) + 1 = n THEN 0 ELSE (x % n) + 1
<1> DEFINE q == x \div n
           r == x % n
<1>1. q \in Nat /\ r \in 0 .. n - 1 /\ x = n * q + r
  OBVIOUS
<1> HIDE DEF q, r
<1>2. CASE r + 1 = n
  <2>1. x + 1 = n * (q + 1) + 0
    BY <1>1, <1>2
  <2> QED
    BY <1>1, <1>2, <2>1 DEF r
<1>3. CASE r + 1 # n
  <2>1. x + 1 = n * q + (r + 1) /\ r + 1 \in 0 .. n - 1
    BY <1>1, <1>3
  <2>2. q \in Nat /\ r + 1 \in 0 .. n - 1 /\ x + 1 \in Nat /\ n \in Nat \ {0}
    BY <1>1, <2>1
  <2>3. (x + 1) % n = r + 1
    <3> DEFINE y == x + 1
               s == r + 1
    <3>1. y \in Nat /\ s \in 0 .. n - 1 /\ y = n * q + s
      BY <2>1, <2>2
    <3> HIDE DEF y, s
    <3>2. y % n = s
      BY <2>2, <3>1, RestIs
    <3> QED
      BY <3>2 DEF y, s
  <2> QED
    BY <1>3, <2>3 DEF r
<1> QED
  BY <1>2, <1>3 DEF r

LEMMA LeastIs ==
  ASSUME NEW S \in SUBSET Int, NEW x \in S, \A y \in S : x =< y
  PROVE  Min(S) = x
<1>1. \A z \in S : (\A y \in S : z =< y) => z = x
  OBVIOUS
<1> QED
  BY <1>1 DEF Min

LEMMA GreatestIs ==
  ASSUME NEW S \in SUBSET Int, NEW x \in S, \A y \in S : x >= y
  PROVE  Max(S) = x
<1>1. \A z \in S : (\A y \in S : z >= y) => z = x
  OBVIOUS
<1> QED
  BY <1>1 DEF Max

LEMMA OfTwo ==
  ASSUME NEW a \in Int, NEW b \in Int
  PROVE  /\ Min({a, b}) = IF a =< b THEN a ELSE b
         /\ Max({a, b}) = IF a >= b THEN a ELSE b
BY DEF Min, Max

-----------------------------------------------------------------------------
(* The window of ticks.                                                    *)
Durations == Seq(0 .. Wrap - 1)

Sums(f, seq) ==
  /\ f[0] = 0 /\ Sum(seq) = f[Len(seq)]
  /\ \A n \in 1 .. Len(seq) : f[n] = f[n - 1] + seq[n]
  /\ \A n \in 0 .. Len(seq) : f[n] \in Nat

LEMMA SumSteps ==
  ASSUME NEW seq \in Seq(Nat)
  PROVE  \E f : Sums(f, seq)
<1> DEFINE N == Len(seq)
           g == [x \in (1 .. N) \X Nat |-> x[2] + seq[x[1]]]
<1>1. N \in Nat /\ 0 \in Nat /\ \A n \in 1 .. N : seq[n] \in Nat
  OBVIOUS
<1>2. \A n \in 1 .. N, a \in Nat : g[<<n, a>>] = a + seq[n] /\ a + seq[n] \in Nat
  BY <1>1
<1>3. Stays(g, N, Nat)
  BY <1>2 DEF Stays
<1> HIDE DEF g
<1>4. PICK f \in [0 .. N -> Nat] : Follows(f, g, N, 0)
  BY <1>1, <1>3, Recursion
<1>5. \A n \in 1 .. N : n \in 0 .. N /\ n # 0 /\ n - 1 \in 0 .. N
  BY <1>1
<1>6. f[0] = 0 /\ \A n \in 1 .. N : f[n] = f[n - 1] + seq[n]
  BY <1>2, <1>4, <1>5 DEF Follows
<1> DEFINE By(m, n) == IF n = 0 THEN 0 ELSE m[n - 1] + seq[n]
<1>7. f = [n \in 0 .. N |-> By(f, n)]
  <2>1. \A n \in 0 .. N : n # 0 => n \in 1 .. N
    BY <1>1
  <2> QED
    BY <1>4, <1>6, <2>1
<1> DEFINE upTo == CHOOSE m : m = [n \in 0 .. N |-> By(m, n)]
<1>8. upTo = [n \in 0 .. N |-> By(upTo, n)]
  BY <1>7, Zenon
<1>9. Sum(seq) = upTo[N]
  BY DEF Sum
<1> HIDE DEF upTo
<1>10. upTo[0] = 0
  <2>1. 0 \in 0 .. N
    BY <1>1
  <2> QED
    BY <1>8, <2>1
<1>11. \A n \in 1 .. N : upTo[n] = upTo[n - 1] + seq[n]
  BY <1>5, <1>8
<1> DEFINE S == {n \in 0 .. N : upTo[n] \in Nat}
<1>12. 0 \in S
  BY <1>1, <1>10
<1>13. ASSUME NEW n \in 0 .. N - 1, n \in S
       PROVE  n + 1 \in S
  <2>1. n + 1 \in 1 .. N /\ (n + 1) - 1 = n /\ n + 1 \in 0 .. N
    BY <1>1
  <2>2. upTo[n + 1] = upTo[n] + seq[n + 1]
    BY <1>11, <2>1
  <2> QED
    BY <1>1, <1>13, <2>1, <2>2
<1>14. 0 .. N \subseteq S
  <2> HIDE DEF S
  <2> QED BY <1>1, <1>12, <1>13, Reached
<1> QED
  BY <1>9, <1>10, <1>11, <1>14 DEF Sums

LEMMA SumNothing == Sum(<<>>) = 0
<1>1. <<>> \in Seq(Nat) /\ Len(<<>>) = 0
  OBVIOUS
<1> QED
  BY <1>1, SumSteps DEF Sums

LEMMA SumMore ==
  ASSUME NEW seq \in Seq(Nat), NEW x \in Nat
  PROVE  Sum(Append(seq, x)) = Sum(seq) + x /\ Sum(seq) \in Nat
<1> DEFINE longer == Append(seq, x)
           N == Len(seq)
<1>1. /\ N \in Nat /\ longer \in Seq(Nat) /\ Len(longer) = N + 1
      /\ \A n \in 1 .. N : longer[n] = seq[n]
      /\ longer[N + 1] = x
  OBVIOUS
<1> HIDE DEF longer
<1>2. PICK f : Sums(f, seq)
  BY SumSteps
<1>3. PICK h : Sums(h, longer)
  BY <1>1, SumSteps
<1> DEFINE S == {n \in 0 .. N : f[n] = h[n]}
<1>4. 0 \in S
  BY <1>1, <1>2, <1>3 DEF Sums
<1>5. ASSUME NEW n \in 0 .. N - 1, n \in S
      PROVE  n + 1 \in S
  <2>1. n + 1 \in 1 .. N /\ (n + 1) - 1 = n /\ n + 1 \in 1 .. N + 1 /\ n + 1 \in 0 .. N
    BY <1>1
  <2>2. f[n + 1] = f[n] + seq[n + 1] /\ h[n + 1] = h[n] + longer[n + 1]
    BY <1>1, <1>2, <1>3, <2>1 DEF Sums
  <2> QED
    BY <1>1, <1>5, <2>1, <2>2
<1>6. N \in S
  <2>1. 0 .. N \subseteq S
    <3> HIDE DEF S
    <3> QED BY <1>1, <1>4, <1>5, Reached
  <2> QED
    BY <1>1, <2>1
<1>7. h[N + 1] = h[N] + x
  <2>1. N + 1 \in 1 .. N + 1 /\ (N + 1) - 1 = N
    BY <1>1
  <2> QED
    BY <1>1, <1>3, <2>1 DEF Sums
<1>8. Sum(seq) = f[N] /\ Sum(longer) = h[N + 1] /\ f[N] \in Nat
  BY <1>1, <1>2, <1>3 DEF Sums
<1> QED
  BY <1>6, <1>7, <1>8 DEF longer

Windowed(seq) == SubSeq(seq, Len(seq) - (Len(seq) % Window) + 1, Len(seq))

LEMMA WindowedIs ==
  ASSUME NEW T, NEW seq \in Seq(T)
  PROVE  LET n == Len(seq) % Window
         IN /\ n \in 0 .. Window - 1 /\ n \in Nat /\ n =< Len(seq)
            /\ Windowed(seq) \in Seq(T) /\ Len(Windowed(seq)) = n
            /\ \A i \in 1 .. n : Windowed(seq)[i] = seq[Len(seq) - n + i]
<1> DEFINE L == Len(seq)
           n == L % Window
<1>1. L \in Nat /\ Window \in Nat \ {0} /\ \A i \in 1 .. L : seq[i] \in T
  BY SizesAssumption
<1>2. n \in 0 .. Window - 1 /\ n =< L
  <2>1. L \div Window \in Nat /\ L = Window * (L \div Window) + n /\ n \in 0 .. Window - 1
    BY <1>1
  <2>2. \A a, b \in Nat : a * b \in Nat
    OBVIOUS
  <2>3. Window * (L \div Window) \in Nat
    BY <1>1, <2>1, <2>2
  <2> QED
    BY <1>1, <2>1, <2>3
<1>3. Windowed(seq) = SubSeq(seq, L - n + 1, L)
  BY DEF Windowed
<1> HIDE DEF n, L
<1>4. /\ L - n + 1 \in Int /\ L \in Int /\ n \in Nat
      /\ \A i \in L - n + 1 .. L : i \in 1 .. L
      /\ (IF L - n + 1 =< L THEN L - (L - n + 1) + 1 ELSE 0) = n
      /\ L - (L - n + 1) + 1 = n
      /\ \A i \in 1 .. n : (L - n + 1) + i - 1 = L - n + i
  BY <1>1, <1>2
<1> DEFINE a == L - n + 1
<1>5. /\ a \in Int /\ \A i \in a .. L : seq[i] \in T
      /\ (IF a =< L THEN L - a + 1 ELSE 0) = n
      /\ L - a + 1 = n
      /\ \A i \in 1 .. n : a + i - 1 = L - n + i
  BY <1>1, <1>4
<1> HIDE DEF a
<1>6. /\ SubSeq(seq, a, L) \in Seq(T) /\ Len(SubSeq(seq, a, L)) = n
      /\ \A i \in 1 .. n : SubSeq(seq, a, L)[i] = seq[a + i - 1]
  BY <1>4, <1>5, SubSeqProperties
<1>7. \A i \in 1 .. n : SubSeq(seq, a, L)[i] = seq[L - n + i]
  BY <1>5, <1>6
<1> QED
  BY <1>2, <1>3, <1>4, <1>6, <1>7 DEF a, L, n

LEMMA WindowedNext ==
  ASSUME NEW T, NEW seq \in Seq(T), NEW t \in T
  PROVE  Windowed(Append(seq, t)) =
           IF (Len(seq) % Window) + 1 = Window THEN <<>> ELSE Append(Windowed(seq), t)
<1> DEFINE longer == Append(seq, t)
           L == Len(seq)
           n == L % Window
<1>1. /\ L \in Nat /\ longer \in Seq(T) /\ Len(longer) = L + 1 /\ longer[L + 1] = t
      /\ \A i \in 1 .. L : longer[i] = seq[i]
  OBVIOUS
<1>2. /\ n \in 0 .. Window - 1 /\ n \in Nat /\ n =< L
      /\ Windowed(seq) \in Seq(T) /\ Len(Windowed(seq)) = n
      /\ \A i \in 1 .. n : Windowed(seq)[i] = seq[L - n + i]
  BY WindowedIs
<1>3. (L + 1) % Window = IF n + 1 = Window THEN 0 ELSE n + 1
  BY <1>1, SizesAssumption, OneFurther
<1> HIDE DEF longer
<1> DEFINE m == Len(longer) % Window
<1>4. /\ Windowed(longer) \in Seq(T) /\ Len(Windowed(longer)) = m
      /\ \A i \in 1 .. m : Windowed(longer)[i] = longer[L + 1 - m + i]
  BY <1>1, WindowedIs
<1>5. m = IF n + 1 = Window THEN 0 ELSE n + 1
  BY <1>1, <1>3
<1> HIDE DEF m
<1>6. CASE n + 1 = Window
  <2>1. Windowed(longer) = <<>>
    BY <1>4, <1>5, <1>6, EmptySeq
  <2> QED
    BY <1>6, <2>1 DEF longer
<1>7. CASE n + 1 # Window
  <2> DEFINE w == Windowed(seq)
             v == Append(w, t)
  <2>1. /\ v \in Seq(T) /\ Len(v) = n + 1 /\ v[n + 1] = t
        /\ \A i \in 1 .. n : v[i] = w[i]
    <3>1. w \in Seq(T) /\ Len(w) = n
      BY <1>2
    <3> HIDE DEF w
    <3> QED
      BY <3>1
  <2>2. m = n + 1
    BY <1>5, <1>7
  <2> HIDE DEF v
  <2>3. ASSUME NEW i \in 1 .. n + 1
        PROVE  Windowed(longer)[i] = v[i]
    <3>1. Windowed(longer)[i] = longer[L - n + i]
      <4>1. i \in 1 .. m /\ L + 1 - m + i = L - n + i
        BY <1>1, <1>2, <2>2
      <4> QED
        BY <1>4, <4>1
    <3>2. CASE i = n + 1
      <4>1. L - n + i = L + 1
        BY <1>1, <1>2, <3>2
      <4> QED
        BY <1>1, <2>1, <3>1, <3>2, <4>1
    <3>3. CASE i # n + 1
      <4>1. i \in 1 .. n /\ L - n + i \in 1 .. L
        BY <1>1, <1>2, <3>3
      <4>2. w[i] = seq[L - n + i] /\ v[i] = w[i]
        BY <1>2, <2>1, <4>1
      <4> QED
        BY <1>1, <3>1, <4>1, <4>2
    <3> QED
      BY <3>2, <3>3
  <2>4. Windowed(longer) = v
    BY <1>4, <2>1, <2>2, <2>3, SeqEqual
  <2> QED
    BY <1>7, <2>4 DEF longer, v
<1> QED
  BY <1>6, <1>7

Duration == 0 .. Wrap - 1

(* The ticks since the figures last began anew.                            *)
InWindow == SubSeq(lengths, Len(lengths) - (Len(lengths) % Window) + 1, Len(lengths))

WindowInv ==
  /\ clock \in Duration /\ tickStart \in Duration
  /\ lengths \in Seq(Duration)
  /\ winCount = Len(lengths) % Window
  /\ winMin \in Duration /\ winMax \in Duration
  /\ winSum = Sum(InWindow)
  /\ winCount = 0 => winMin = Wrap - 1 /\ winMax = 0
  /\ winCount > 0 => /\ winMin \in ToSet(InWindow) /\ \A y \in ToSet(InWindow) : winMin =< y
                     /\ winMax \in ToSet(InWindow) /\ \A y \in ToSet(InWindow) : winMax >= y

LEMMA InWindowIs == InWindow = Windowed(lengths)
BY DEF InWindow, Windowed

LEMMA ElapsedIs ==
  ASSUME NEW a \in Duration, NEW b \in Duration
  PROVE  Elapsed(a, b) \in Duration
<1>1. Wrap \in Nat \ {0} /\ b - a + Wrap \in Nat
  BY SizesAssumption DEF Duration
<1> QED
  BY <1>1 DEF Elapsed, Duration

LEMMA WindowInvIs == WindowInv => FiguresAreOfLatest
<1> SUFFICES ASSUME WindowInv
             PROVE  FiguresAreOfLatest
  OBVIOUS
<1>1. /\ InWindow \in Seq(Duration) /\ Len(InWindow) = winCount /\ winCount \in Nat
      /\ winCount =< Len(lengths) /\ winCount \in 0 .. Window - 1
  BY WindowedIs, InWindowIs DEF WindowInv
<1>2. ToSet(InWindow) \in SUBSET Int
  BY <1>1, SizesAssumption DEF ToSet, Duration
<1>3. winCount > 0 => winMin = Min(ToSet(InWindow)) /\ winMax = Max(ToSet(InWindow))
  BY <1>2, LeastIs, GreatestIs DEF WindowInv
<1>4. Latest = InWindow
  BY DEF Latest, InWindow, WindowInv
<1>5. winCount =< Window
  BY <1>1, SizesAssumption
<1> QED
  BY <1>1, <1>3, <1>4, <1>5 DEF FiguresAreOfLatest, WindowInv

LEMMA SetOfLonger ==
  ASSUME NEW T, NEW s \in Seq(T), NEW t \in T
  PROVE  ToSet(Append(s, t)) = ToSet(s) \cup {t}
<1> DEFINE u == Append(s, t)
           n == Len(s)
<1>1. /\ n \in Nat /\ DOMAIN s = 1 .. n /\ DOMAIN u = 1 .. n + 1 /\ u[n + 1] = t
      /\ \A i \in 1 .. n : u[i] = s[i]
  OBVIOUS
<1> HIDE DEF u
<1>2. ToSet(u) \subseteq ToSet(s) \cup {t}
  <2>1. \A i \in 1 .. n + 1 : i = n + 1 \/ i \in 1 .. n
    BY <1>1
  <2> QED
    BY <1>1, <2>1 DEF ToSet
<1>3. ToSet(s) \cup {t} \subseteq ToSet(u)
  <2>1. n + 1 \in 1 .. n + 1 /\ \A i \in 1 .. n : i \in 1 .. n + 1
    BY <1>1
  <2> QED
    BY <1>1, <2>1 DEF ToSet
<1> QED
  BY <1>2, <1>3 DEF u

LEMMA TickEndKeeps ==
  ASSUME WindowInv, NEW d \in 0 .. MaxStep, TickEnd(d)
  PROVE  WindowInv'
<1> DEFINE t == Elapsed(tickStart, clock')
           full == winCount + 1 >= Window
           shorter == Windowed(lengths)
<1>1. clock' \in Duration
  BY SizesAssumption DEF TickEnd, Passes, WindowInv, Duration
<1>2. t \in Duration /\ tickStart' = tickStart
  BY <1>1, ElapsedIs DEF WindowInv, TickEnd
<1>3. /\ winMin' = IF full THEN Wrap - 1 ELSE Min({winMin, t})
      /\ winMax' = IF full THEN 0 ELSE Max({winMax, t})
      /\ winSum' = IF full THEN 0 ELSE winSum + t
      /\ winCount' = IF full THEN 0 ELSE winCount + 1
      /\ lengths' = Append(lengths, t)
  BY DEF TickEnd
<1> HIDE DEF t
<1>4. /\ lengths \in Seq(Duration) /\ lengths' \in Seq(Duration) /\ Len(lengths') = Len(lengths) + 1
      /\ Len(lengths) \in Nat /\ Window \in Nat \ {0} /\ Wrap \in Nat \ {0}
  BY <1>2, <1>3, SizesAssumption DEF WindowInv
<1>5. /\ winCount = Len(lengths) % Window /\ winCount \in 0 .. Window - 1
      /\ shorter \in Seq(Duration) /\ Len(shorter) = winCount /\ InWindow = shorter
  BY <1>4, WindowedIs, InWindowIs DEF WindowInv
<1>6. full <=> winCount + 1 = Window
  BY <1>4, <1>5
<1>7. Windowed(lengths') = IF full THEN <<>> ELSE Append(shorter, t)
  BY <1>2, <1>3, <1>4, <1>5, <1>6, WindowedNext
<1>8. InWindow' = Windowed(lengths')
  BY DEF InWindow, Windowed
<1>9. winCount' = Len(lengths') % Window
  BY <1>3, <1>4, <1>5, <1>6, OneFurther
<1>10. CASE full
  <2>1. winMin' = Wrap - 1 /\ winMax' = 0 /\ winSum' = 0 /\ winCount' = 0
    BY <1>3, <1>10
  <2>2. Sum(InWindow') = 0
    BY <1>7, <1>8, <1>10, SumNothing
  <2>3. winMin' \in Duration /\ winMax' \in Duration /\ ~(winCount' > 0)
    BY <1>4, <2>1 DEF Duration
  <2>4. winSum' = Sum(InWindow)'
    BY <2>1, <2>2
  <2> QED
    BY <1>1, <1>2, <1>4, <1>9, <2>1, <2>3, <2>4 DEF WindowInv
<1>11. CASE ~full
  <2>1. /\ winMin' = Min({winMin, t}) /\ winMax' = Max({winMax, t}) /\ winSum' = winSum + t
        /\ winCount' = winCount + 1 /\ InWindow' = Append(shorter, t)
    BY <1>3, <1>7, <1>8, <1>11
  <2>2. /\ winMin \in Duration /\ winMax \in Duration /\ Duration \subseteq Nat
        /\ \A x \in Duration : 0 =< x /\ x =< Wrap - 1
    BY <1>4 DEF WindowInv, Duration
  <2>3. /\ winMin' = IF winMin =< t THEN winMin ELSE t
        /\ winMax' = IF winMax >= t THEN winMax ELSE t
    <3>1. winMin \in Int /\ winMax \in Int /\ t \in Int
      BY <1>2, <2>2
    <3> QED
      BY <2>1, <3>1, OfTwo
  <2>4. winMin' \in Duration /\ winMax' \in Duration
    BY <1>2, <2>2, <2>3
  <2>5. Sum(Append(shorter, t)) = Sum(shorter) + t
    <3>1. shorter \in Seq(Nat)
      <4>1. shorter \in Seq(Duration) /\ Duration \subseteq Nat
        BY <1>5, <2>2
      <4> HIDE DEF shorter
      <4> QED
        BY <4>1, SeqMonotonic
    <3> HIDE DEF shorter
    <3> QED
      BY <1>2, <2>2, <3>1, SumMore
  <2>6. winSum' = Sum(InWindow)'
    BY <1>5, <2>1, <2>5 DEF WindowInv
  <2> DEFINE S == ToSet(shorter)
             S1 == ToSet(Append(shorter, t))
  <2>7. S1 = S \cup {t}
    BY <1>2, <1>5, SetOfLonger
  <2>8. ToSet(InWindow)' = S1
    BY <2>1
  <2>9. S \subseteq Duration
    BY <1>5 DEF ToSet
  <2>10. /\ winCount = 0 => S = {}
         /\ winCount = 0 => winMin = Wrap - 1 /\ winMax = 0
         /\ winCount > 0 => /\ winMin \in S /\ \A y \in S : winMin =< y
                            /\ winMax \in S /\ \A y \in S : winMax >= y
    <3>1. winCount = 0 => S = {}
      BY <1>5 DEF ToSet
    <3> QED
      BY <1>5, <3>1 DEF WindowInv
  <2> HIDE DEF S, S1
  <2>11. /\ winMin' \in S1 /\ \A y \in S1 : winMin' =< y
         /\ winMax' \in S1 /\ \A y \in S1 : winMax' >= y
    <3>1. CASE winCount = 0
      <4>1. S1 = {t}
        BY <2>7, <2>10, <3>1
      <4>2. winMin' = t /\ winMax' = t
        <5>1. t \in Nat /\ 0 =< t /\ t =< Wrap - 1 /\ winMin = Wrap - 1 /\ winMax = 0
          BY <1>2, <2>2, <2>10, <3>1
        <5> QED
          BY <1>4, <2>3, <5>1
      <4> QED
        BY <1>2, <2>2, <4>1, <4>2
    <3>2. CASE winCount > 0
      BY <1>2, <2>2, <2>3, <2>7, <2>9, <2>10, <3>2
    <3> QED
      BY <1>5, <3>1, <3>2
  <2>12. winCount' # 0
    BY <1>5, <2>1
  <2> QED
    BY <1>1, <1>2, <1>4, <1>9, <2>4, <2>6, <2>8, <2>11, <2>12 DEF WindowInv
<1> QED
  BY <1>10, <1>11

-----------------------------------------------------------------------------
(* The ring of events.                                                     *)
Event == [what : Report, at : Duration]

Turn(k) == (head + 2 * EventSlots - k) % EventSlots

RingInv ==
  /\ clock \in Duration
  /\ reported \in Seq(Event)
  /\ DOMAIN ring = 0 .. EventSlots - 1
  /\ head = Len(reported) % EventSlots
  /\ filled = IF Len(reported) =< EventSlots THEN Len(reported) ELSE EventSlots
  /\ \A k \in 1 .. filled : ring[Turn(k)] = reported[Len(reported) + 1 - k]

LEMMA TurnIs ==
  ASSUME NEW h \in 0 .. EventSlots - 1, NEW k \in 1 .. EventSlots
  PROVE  (h + 2 * EventSlots - k) % EventSlots = IF k =< h THEN h - k ELSE h - k + EventSlots
<1>1. EventSlots \in Nat \ {0}
  BY SizesAssumption
<1>2. CASE k =< h
  <2>1. h + 2 * EventSlots - k \in 2 * EventSlots .. 3 * EventSlots - 1
    BY <1>1, <1>2
  <2>2. (h + 2 * EventSlots - k) % EventSlots = (h + 2 * EventSlots - k) - 2 * EventSlots
    <3> DEFINE x == h + 2 * EventSlots - k
    <3> HIDE DEF x
    <3> QED BY <1>1, <2>1, Around DEF x
  <2> QED
    BY <1>1, <1>2, <2>2
<1>3. CASE ~(k =< h)
  <2>1. h + 2 * EventSlots - k \in EventSlots .. 2 * EventSlots - 1
    BY <1>1, <1>3
  <2>2. (h + 2 * EventSlots - k) % EventSlots = (h + 2 * EventSlots - k) - EventSlots
    <3> DEFINE x == h + 2 * EventSlots - k
    <3> HIDE DEF x
    <3> QED BY <1>1, <2>1, Around DEF x
  <2> QED
    BY <1>1, <1>3, <2>2
<1> QED
  BY <1>2, <1>3

LEMMA RingInvIs == RingInv => EventsAreLatest
<1> SUFFICES ASSUME RingInv
             PROVE  EventsAreLatest
  OBVIOUS
<1> DEFINE n == Len(reported)
           back == Reverse(reported)
           m == IF n =< EventSlots THEN n ELSE EventSlots
<1>1. n \in Nat /\ \A i \in 1 .. n : reported[i] \in Event
  BY DEF RingInv
<1>2. EventSlots \in Nat \ {0}
  BY SizesAssumption
<1>3. m \in Nat /\ m =< n /\ filled = m /\ Min({n, EventSlots}) = m
  BY <1>1, <1>2, OfTwo DEF RingInv
<1>4. \A i \in 1 .. n : back[i] = reported[n + 1 - i] /\ back[i] \in Event
  <2>1. \A i \in 1 .. n : n - i + 1 = n + 1 - i /\ n - i + 1 \in 1 .. n
    BY <1>1
  <2> QED
    BY <1>1, <2>1 DEF Reverse
<1> HIDE DEF back, m
<1>5. /\ SubSeq(back, 1, m) \in Seq(Event) /\ Len(SubSeq(back, 1, m)) = m
      /\ \A i \in 1 .. m : SubSeq(back, 1, m)[i] = back[i]
  <2>1. 1 \in Int /\ m \in Int /\ \A i \in 1 .. m : i \in 1 .. n /\ back[i] \in Event
    BY <1>1, <1>3, <1>4
  <2>2. (IF 1 =< m THEN m - 1 + 1 ELSE 0) = m /\ m - 1 + 1 = m /\ \A i \in 1 .. m : 1 + i - 1 = i
    BY <1>3
  <2>3. /\ SubSeq(back, 1, m) \in Seq(Event)
        /\ Len(SubSeq(back, 1, m)) = IF 1 =< m THEN m - 1 + 1 ELSE 0
        /\ \A i \in 1 .. m - 1 + 1 : SubSeq(back, 1, m)[i] = back[1 + i - 1]
    BY <2>1, SubSeqProperties
  <2> QED
    BY <2>2, <2>3
<1>6. SerializeEval = [i \in 1 .. m |-> ring[Turn(i)]]
  BY <1>3 DEF SerializeEval, Turn
<1>7. /\ SerializeEval \in Seq(Event) /\ Len(SerializeEval) = m
      /\ \A i \in 1 .. m : SerializeEval[i] = back[i]
  <2>1. \A i \in 1 .. m : i \in 1 .. n /\ ring[Turn(i)] = reported[n + 1 - i]
    BY <1>1, <1>3 DEF RingInv
  <2>2. \A i \in 1 .. m : ring[Turn(i)] = back[i] /\ back[i] \in Event
    BY <1>4, <2>1
  <2> QED
    BY <1>3, <1>6, <2>2
<1> QED
  BY <1>3, <1>5, <1>7, SeqEqual DEF EventsAreLatest, back

LEMMA EventCallKeeps ==
  ASSUME RingInv, NEW r \in Report, EventCall(r), clock' = clock
  PROVE  RingInv'
<1> DEFINE e == [what |-> r, at |-> clock]
           n == Len(reported)
           E == EventSlots
<1>1. /\ n \in Nat /\ E \in Nat \ {0} /\ e \in Event
      /\ head = n % E /\ head \in 0 .. E - 1
      /\ filled = IF n =< E THEN n ELSE E
      /\ DOMAIN ring = 0 .. E - 1
  BY SizesAssumption DEF RingInv, Event
<1>2. /\ ring' = [ring EXCEPT ![head] = e] /\ head' = (head + 1) % E
      /\ filled' = Min({filled + 1, E}) /\ reported' = Append(reported, e)
  BY DEF EventCall
<1> HIDE DEF e
<1>3. /\ reported' \in Seq(Event) /\ Len(reported') = n + 1 /\ reported'[n + 1] = e
      /\ \A i \in 1 .. n : reported'[i] = reported[i]
  BY <1>1, <1>2 DEF RingInv
<1>4. head' = (n + 1) % E /\ head' = IF head + 1 = E THEN 0 ELSE head + 1
  <2>1. (n + 1) % E = IF head + 1 = E THEN 0 ELSE head + 1
    BY <1>1, OneFurther
  <2>2. (head + 1) % E = IF head + 1 = E THEN 0 ELSE head + 1
    <3>1. head % E = head /\ head \in Nat
      BY <1>1
    <3>2. (head + 1) % E = IF (head % E) + 1 = E THEN 0 ELSE (head % E) + 1
      BY <1>1, <3>1, OneFurther
    <3> QED
      BY <3>1, <3>2
  <2> QED
    BY <1>2, <2>1, <2>2
<1>5. filled' = IF n + 1 =< E THEN n + 1 ELSE E
  <2>1. filled + 1 \in Int /\ E \in Int
    BY <1>1
  <2>2. filled' = IF filled + 1 =< E THEN filled + 1 ELSE E
    BY <1>2, <2>1, OfTwo
  <2> QED
    BY <1>1, <2>2
<1>6. ASSUME NEW k \in 1 .. filled'
      PROVE  ring'[Turn(k)'] = reported'[n + 1 + 1 - k]
  <2> DEFINE h == head'
             place == (h + 2 * EventSlots - k) % EventSlots
  <2>1. Turn(k)' = place
    BY DEF Turn
  <2>2. k \in 1 .. E /\ h \in 0 .. E - 1 /\ k - 1 =< n /\ k \in Nat
    BY <1>1, <1>4, <1>5
  <2>3. place = IF k =< h THEN h - k ELSE h - k + E
    <3> HIDE DEF h
    <3> QED
      BY <2>2, TurnIs
  <2> HIDE DEF place
  <2>4. CASE k = 1
    <3>1. place = head
      BY <1>1, <1>4, <2>3, <2>4
    <3>2. ring'[head] = e
      BY <1>1, <1>2
    <3>3. n + 1 + 1 - k = n + 1
      BY <1>1, <2>4
    <3> QED
      BY <1>3, <2>1, <3>1, <3>2, <3>3
  <2>5. CASE k # 1
    <3>1. k - 1 \in 1 .. filled /\ k - 1 \in 1 .. E - 1
      BY <1>1, <1>5, <2>2, <2>5
    <3>2. Turn(k - 1) = IF k - 1 =< head THEN head - (k - 1) ELSE head - (k - 1) + E
      <4>1. k - 1 \in 1 .. E
        BY <1>1, <3>1
      <4> QED
        BY <1>1, <4>1, TurnIs DEF Turn
    <3>3. place = Turn(k - 1) /\ place # head
      BY <1>1, <1>4, <2>2, <2>3, <2>5, <3>1, <3>2
    <3>4. ring'[place] = ring[place]
      BY <1>2, <3>3
    <3>5. ring[Turn(k - 1)] = reported[n + 1 - (k - 1)]
      BY <3>1 DEF RingInv
    <3>6. n + 1 - (k - 1) = n + 1 + 1 - k /\ n + 1 + 1 - k \in 1 .. n
      BY <1>1, <2>2, <2>5
    <3> QED
      BY <1>3, <2>1, <3>3, <3>4, <3>5, <3>6
  <2> QED
    BY <2>4, <2>5
<1>7. DOMAIN ring' = 0 .. E - 1
  BY <1>1, <1>2
<1>8. Len(reported') = n + 1
  BY <1>3
<1>9. \A k \in 1 .. filled' : ring'[Turn(k)'] = reported'[Len(reported') + 1 - k]
  BY <1>6, <1>8
<1>10. clock' \in Duration'
  BY DEF RingInv, Duration
<1>11. reported' \in Seq(Event')
  BY <1>3 DEF Event, Duration
<1> QED
  BY <1>3, <1>4, <1>5, <1>7, <1>9, <1>10, <1>11 DEF RingInv

-----------------------------------------------------------------------------
(* The tables of counters and gauges.                                      *)
Prefix(seq, j) == {seq[k] : k \in 1 .. j}

LEMMA PrefixIs ==
  ASSUME NEW T, NEW seq \in Seq(T)
  PROVE  /\ IsFiniteSet(ToSet(seq)) /\ ToSet(seq) \subseteq T
         /\ \A j \in 1 .. Len(seq) : /\ Prefix(seq, j) \subseteq ToSet(seq)
                                     /\ Cardinality(Prefix(seq, j)) =< Cardinality(ToSet(seq))
<1>1. /\ Len(seq) \in Nat /\ DOMAIN seq = 1 .. Len(seq)
      /\ \A i \in 1 .. Len(seq) : seq[i] \in T
  OBVIOUS
<1>2. IsFiniteSet(1 .. Len(seq))
  BY <1>1, FS_Interval
<1>3. IsFiniteSet(ToSet(seq))
  <2> DEFINE f == [i \in 1 .. Len(seq) |-> seq[i]]
  <2>1. f \in Surjection(1 .. Len(seq), ToSet(seq))
    BY <1>1 DEF Surjection, ToSet
  <2> QED
    BY <1>2, <2>1, FS_Surjection
<1>4. ASSUME NEW j \in 1 .. Len(seq)
      PROVE  Prefix(seq, j) \subseteq ToSet(seq)
  BY <1>1 DEF Prefix, ToSet
<1> QED
  BY <1>1, <1>3, <1>4, FS_Subset DEF ToSet

LEMMA FirstNext ==
  ASSUME NEW T, NEW seq \in Seq(T), NEW n \in T
  PROVE  FirstNames(Append(seq, n)) =
           FirstNames(seq) \cup (IF Cardinality(ToSet(seq) \cup {n}) =< NameSlots THEN {n} ELSE {})
<1> DEFINE longer == Append(seq, n)
           L == Len(seq)
<1>1. /\ L \in Nat /\ DOMAIN seq = 1 .. L /\ DOMAIN longer = 1 .. L + 1 /\ longer[L + 1] = n
      /\ longer \in Seq(T) /\ \A i \in 1 .. L : longer[i] = seq[i]
  OBVIOUS
<1>2. ToSet(longer) = ToSet(seq) \cup {n}
  BY SetOfLonger
<1> HIDE DEF longer
<1>3. \A j \in 1 .. L : Prefix(longer, j) = Prefix(seq, j)
  <2>1. \A j \in 1 .. L : \A k \in 1 .. j : k \in 1 .. L
    BY <1>1
  <2> QED
    BY <1>1, <2>1 DEF Prefix
<1>4. Prefix(longer, L + 1) = ToSet(seq) \cup {n}
  BY <1>1, <1>2 DEF Prefix, ToSet
<1>5. FirstNames(longer) = {longer[i] : i \in {j \in 1 .. L + 1 : Cardinality(Prefix(longer, j)) =< NameSlots}}
  BY <1>1 DEF FirstNames, Prefix
<1>6. FirstNames(seq) = {seq[i] : i \in {j \in 1 .. L : Cardinality(Prefix(seq, j)) =< NameSlots}}
  BY <1>1 DEF FirstNames, Prefix
<1>7. \A j \in 1 .. L + 1 : j \in 1 .. L \/ j = L + 1
  BY <1>1
<1>8. L + 1 \in 1 .. L + 1 /\ \A j \in 1 .. L : j \in 1 .. L + 1
  BY <1>1
<1>9. CASE Cardinality(ToSet(seq) \cup {n}) =< NameSlots
  <2>1. FirstNames(longer) \subseteq FirstNames(seq) \cup {n}
    BY <1>1, <1>3, <1>5, <1>6, <1>7
  <2>2. FirstNames(seq) \subseteq FirstNames(longer)
    BY <1>1, <1>3, <1>5, <1>6, <1>8
  <2>3. n \in FirstNames(longer)
    BY <1>1, <1>4, <1>5, <1>8, <1>9
  <2> QED
    BY <1>9, <2>1, <2>2, <2>3 DEF longer
<1>10. CASE ~(Cardinality(ToSet(seq) \cup {n}) =< NameSlots)
  <2>1. FirstNames(longer) \subseteq FirstNames(seq)
    BY <1>1, <1>3, <1>4, <1>5, <1>6, <1>7, <1>10
  <2>2. FirstNames(seq) \subseteq FirstNames(longer)
    BY <1>1, <1>3, <1>5, <1>6, <1>8
  <2> QED
    BY <1>10, <2>1, <2>2 DEF longer
<1> QED
  BY <1>9, <1>10

LEMMA FirstAre ==
  ASSUME NEW T, NEW seq \in Seq(T)
  PROVE  /\ FirstNames(seq) \subseteq ToSet(seq)
         /\ Cardinality(ToSet(seq)) =< NameSlots => FirstNames(seq) = ToSet(seq)
<1>1. Len(seq) \in Nat /\ DOMAIN seq = 1 .. Len(seq)
  OBVIOUS
<1>2. FirstNames(seq) = {seq[i] : i \in {j \in 1 .. Len(seq) : Cardinality(Prefix(seq, j)) =< NameSlots}}
  BY <1>1 DEF FirstNames, Prefix
<1>3. FirstNames(seq) \subseteq ToSet(seq)
  BY <1>1, <1>2 DEF ToSet
<1>4. ASSUME Cardinality(ToSet(seq)) =< NameSlots
      PROVE  ToSet(seq) \subseteq FirstNames(seq)
  <2>1. \A j \in 1 .. Len(seq) : Cardinality(Prefix(seq, j)) =< NameSlots
    <3>1. \A j \in 1 .. Len(seq) : /\ Cardinality(Prefix(seq, j)) =< Cardinality(ToSet(seq))
                                  /\ Cardinality(Prefix(seq, j)) \in Nat
      BY PrefixIs, FS_Subset, FS_CardinalityType
    <3>2. Cardinality(ToSet(seq)) \in Nat /\ NameSlots \in Nat
      BY PrefixIs, FS_CardinalityType, SizesAssumption
    <3> QED
      BY <1>4, <3>1, <3>2
  <2> QED
    BY <1>1, <1>2, <2>1 DEF ToSet
<1> QED
  BY <1>3, <1>4

(* The names of table t are the first names of the calls for seq, one      *)
(* entry for each.                                                         *)
Listed(t, seq) ==
  /\ \A i, j \in DOMAIN t : t[i].name = t[j].name => i = j
  /\ {t[i].name : i \in DOMAIN t} = FirstNames(seq)
  /\ Len(t) = IF Cardinality(ToSet(seq)) =< NameSlots THEN Cardinality(ToSet(seq)) ELSE NameSlots

LEMMA ListedNext ==
  ASSUME NEW T, NEW seq \in Seq(T), NEW n \in T, NEW R, NEW t \in Seq(R), NEW u \in Seq(R),
         Listed(t, seq),
         IF \E i \in DOMAIN t : t[i].name = n
         THEN Len(u) = Len(t) /\ \A i \in DOMAIN t : u[i].name = t[i].name
         ELSE IF Len(t) < NameSlots
              THEN \E e \in R : e.name = n /\ u = Append(t, e)
              ELSE u = t
  PROVE  Listed(u, Append(seq, n))
<1> DEFINE names == ToSet(seq)
           m == Cardinality(names)
           longer == Append(seq, n)
<1>1. m \in Nat /\ IsFiniteSet(names) /\ NameSlots \in Nat
  BY PrefixIs, FS_CardinalityType, SizesAssumption
<1>2. ToSet(longer) = names \cup {n}
  BY SetOfLonger
<1>3. Cardinality(names \cup {n}) = IF n \in names THEN m ELSE m + 1
  BY <1>1, FS_AddElement
<1>4. /\ FirstNames(longer) = FirstNames(seq) \cup (IF Cardinality(names \cup {n}) =< NameSlots THEN {n} ELSE {})
      /\ FirstNames(seq) \subseteq names
      /\ m =< NameSlots => FirstNames(seq) = names
  BY FirstNext, FirstAre
<1>5. /\ DOMAIN t = 1 .. Len(t) /\ DOMAIN u = 1 .. Len(u) /\ Len(t) \in Nat
      /\ \A i, j \in DOMAIN t : t[i].name = t[j].name => i = j
      /\ {t[i].name : i \in DOMAIN t} = FirstNames(seq)
      /\ Len(t) = IF m =< NameSlots THEN m ELSE NameSlots
  BY DEF Listed
<1> HIDE DEF names, longer, m
<1>6. CASE \E i \in DOMAIN t : t[i].name = n
  <2>1. n \in FirstNames(seq) /\ n \in names
    BY <1>4, <1>5, <1>6
  <2>2. FirstNames(longer) = FirstNames(seq) /\ names \cup {n} = names
    BY <1>4, <2>1
  <2>3. Len(u) = Len(t) /\ DOMAIN u = DOMAIN t /\ \A i \in DOMAIN t : u[i].name = t[i].name
    BY <1>5, <1>6
  <2>4. {u[i].name : i \in DOMAIN u} = FirstNames(longer)
    BY <1>5, <2>2, <2>3
  <2>5. \A i, j \in DOMAIN u : u[i].name = u[j].name => i = j
    BY <1>5, <2>3
  <2>6. Cardinality(ToSet(longer)) = m
    BY <1>2, <1>3, <2>1
  <2> QED
    BY <1>5, <2>3, <2>4, <2>5, <2>6 DEF Listed, longer
<1>7. CASE (~\E i \in DOMAIN t : t[i].name = n) /\ Len(t) < NameSlots
  <2>1. n \notin FirstNames(seq)
    BY <1>5, <1>7
  <2>2. m < NameSlots /\ Len(t) = m
    <3>1. CASE m =< NameSlots
      BY <1>1, <1>5, <1>7, <3>1
    <3>2. CASE ~(m =< NameSlots)
      <4>1. Len(t) = NameSlots
        BY <1>5, <3>2
      <4> QED
        BY <1>1, <1>7, <4>1
    <3> QED
      BY <3>1, <3>2
  <2>3. n \notin names
    BY <1>1, <1>4, <2>1, <2>2
  <2>4. Cardinality(names \cup {n}) = m + 1 /\ m + 1 =< NameSlots
    BY <1>1, <1>3, <2>2, <2>3
  <2>5. FirstNames(longer) = FirstNames(seq) \cup {n}
    BY <1>4, <2>4
  <2>6. PICK e \in R : e.name = n /\ u = Append(t, e)
    BY <1>7
  <2>7. /\ Len(u) = Len(t) + 1 /\ u[Len(t) + 1] = e
        /\ \A i \in 1 .. Len(t) : u[i] = t[i]
    BY <2>6
  <2>8. \A i \in DOMAIN u : i \in DOMAIN t \/ i = Len(t) + 1
    BY <1>5, <2>7
  <2>9. Len(t) + 1 \in DOMAIN u /\ \A i \in DOMAIN t : i \in DOMAIN u /\ u[i] = t[i] /\ u[i].name # n
    BY <1>5, <1>7, <2>7
  <2>10. {u[i].name : i \in DOMAIN u} = FirstNames(longer)
    <3>1. {u[i].name : i \in DOMAIN u} \subseteq FirstNames(longer)
      BY <1>5, <2>5, <2>6, <2>7, <2>8, <2>9
    <3>2. FirstNames(longer) \subseteq {u[i].name : i \in DOMAIN u}
      BY <1>5, <2>5, <2>6, <2>7, <2>9
    <3> QED
      BY <3>1, <3>2
  <2>11. \A i, j \in DOMAIN u : u[i].name = u[j].name => i = j
    BY <1>5, <2>6, <2>7, <2>8, <2>9
  <2>12. Cardinality(ToSet(longer)) = m + 1
    BY <1>2, <2>4
  <2>13. Len(u) = m + 1
    BY <2>2, <2>7
  <2> QED
    BY <2>4, <2>10, <2>11, <2>12, <2>13 DEF Listed, longer
<1>8. CASE (~\E i \in DOMAIN t : t[i].name = n) /\ ~(Len(t) < NameSlots)
  <2>1. n \notin FirstNames(seq) /\ u = t
    BY <1>5, <1>8
  <2>2. Len(t) = NameSlots /\ m >= NameSlots
    BY <1>1, <1>5, <1>8
  <2>3. ~(Cardinality(names \cup {n}) =< NameSlots)
    <3>1. CASE n \in names
      <4>1. ~(m =< NameSlots)
        BY <1>4, <2>1, <3>1
      <4> QED
        BY <1>3, <3>1, <4>1
    <3>2. CASE n \notin names
      BY <1>1, <1>3, <2>2, <3>2
    <3> QED
      BY <3>1, <3>2
  <2>4. FirstNames(longer) = FirstNames(seq)
    BY <1>4, <2>3
  <2>5. ~(Cardinality(ToSet(longer)) =< NameSlots)
    BY <1>2, <2>3
  <2> QED
    BY <1>5, <2>1, <2>2, <2>4, <2>5 DEF Listed, longer
<1> QED
  BY <1>6, <1>7, <1>8

LEMMA TimesNext ==
  ASSUME NEW T, NEW seq \in Seq(T), NEW n \in T, NEW o
  PROVE  /\ Times(o, seq) \in Nat
         /\ Times(o, Append(seq, n)) = IF o = n THEN Times(o, seq) + 1 ELSE Times(o, seq)
         /\ o \notin ToSet(seq) => Times(o, seq) = 0
<1> DEFINE S == {i \in DOMAIN seq : seq[i] = o}
           L == Len(seq)
           longer == Append(seq, n)
           S2 == {i \in DOMAIN longer : longer[i] = o}
<1>1. /\ L \in Nat /\ DOMAIN seq = 1 .. L /\ DOMAIN longer = 1 .. L + 1
      /\ longer[L + 1] = n /\ \A i \in 1 .. L : longer[i] = seq[i]
  OBVIOUS
<1>2. IsFiniteSet(S)
  <2>1. IsFiniteSet(1 .. L) /\ S \subseteq 1 .. L
    BY <1>1, FS_Interval
  <2> QED
    BY <2>1, FS_Subset
<1>3. L + 1 \notin S
  BY <1>1
<1>4. S2 = IF o = n THEN S \cup {L + 1} ELSE S
  <2>1. \A i \in 1 .. L + 1 : i \in 1 .. L \/ i = L + 1
    BY <1>1
  <2>2. L + 1 \in 1 .. L + 1 /\ \A i \in 1 .. L : i \in 1 .. L + 1
    BY <1>1
  <2> QED
    BY <1>1, <2>1, <2>2
<1>5. Times(o, seq) = Cardinality(S) /\ Times(o, longer) = Cardinality(S2)
  BY DEF Times
<1>6. o \notin ToSet(seq) => S = {}
  BY DEF ToSet
<1> HIDE DEF S, S2
<1>7. Cardinality(S) \in Nat /\ Cardinality(S \cup {L + 1}) = Cardinality(S) + 1
  BY <1>2, <1>3, FS_CardinalityType, FS_AddElement
<1>8. o \notin ToSet(seq) => Cardinality(S) = 0
  BY <1>6, FS_EmptySet
<1> QED
  BY <1>4, <1>5, <1>7, <1>8

Counter == [name : Metric, value : Nat]

CountInv ==
  /\ counters \in Seq(Counter) /\ counted \in Seq(Metric)
  /\ Listed(counters, counted)
  /\ \A i \in DOMAIN counters : counters[i].value = Times(counters[i].name, counted)

LEMMA NewIsNew ==
  ASSUME NEW T, NEW seq \in Seq(T), NEW n, NEW R, NEW t \in Seq(R), Listed(t, seq),
         ~\E i \in DOMAIN t : t[i].name = n, Len(t) < NameSlots
  PROVE  n \notin ToSet(seq)
<1> DEFINE m == Cardinality(ToSet(seq))
<1>1. m \in Nat /\ NameSlots \in Nat
  BY PrefixIs, FS_CardinalityType, SizesAssumption
<1>2. Len(t) = IF m =< NameSlots THEN m ELSE NameSlots
  BY DEF Listed
<1> HIDE DEF m
<1>3. m =< NameSlots
  <2>1. CASE ~(m =< NameSlots)
    <3>1. Len(t) = NameSlots
      BY <1>2, <2>1
    <3> QED
      BY <1>1, <3>1
  <2> QED
    BY <2>1
<1>4. FirstNames(seq) = ToSet(seq)
  BY <1>3, FirstAre DEF m
<1> QED
  BY <1>4 DEF Listed

LEMMA CountKeeps ==
  ASSUME CountInv, NEW n \in Metric, Count(n)
  PROVE  CountInv'
<1> DEFINE t == counters
           u == counters'
           seq == counted
           e == [name |-> n, value |-> 1]
<1>1. /\ t \in Seq(Counter) /\ seq \in Seq(Metric) /\ Listed(t, seq)
      /\ \A i \in DOMAIN t : t[i].value = Times(t[i].name, seq)
      /\ DOMAIN t = 1 .. Len(t) /\ Len(t) \in Nat
      /\ \A i \in DOMAIN t : t[i] \in Counter
  BY DEF CountInv
<1>2. /\ counted' = Append(seq, n) /\ counted' \in Seq(Metric)
  BY DEF Count, CountInv
<1>3. u = IF \E i \in DOMAIN t : t[i].name = n
          THEN [i \in DOMAIN t |-> IF t[i].name = n THEN [t[i] EXCEPT !.value = @ + 1] ELSE t[i]]
          ELSE IF Len(t) < NameSlots THEN Append(t, e) ELSE t
  BY DEF Count, Entered
<1>4. e \in Counter /\ e.name = n /\ e.value = 1
  BY DEF Counter
<1> HIDE DEF t, u, seq, e
<1>5. \A o : /\ Times(o, seq) \in Nat
             /\ Times(o, counted') = IF o = n THEN Times(o, seq) + 1 ELSE Times(o, seq)
             /\ o \notin ToSet(seq) => Times(o, seq) = 0
  BY <1>1, <1>2, TimesNext
<1>6. /\ u \in Seq(Counter)
      /\ IF \E i \in DOMAIN t : t[i].name = n
         THEN Len(u) = Len(t) /\ \A i \in DOMAIN t : u[i].name = t[i].name
         ELSE IF Len(t) < NameSlots THEN \E x \in Counter : x.name = n /\ u = Append(t, x)
              ELSE u = t
      /\ \A i \in DOMAIN u : u[i].value = Times(u[i].name, counted')
  <2>1. CASE \E i \in DOMAIN t : t[i].name = n
    <3>1. u = [i \in 1 .. Len(t) |->
                 IF t[i].name = n THEN [t[i] EXCEPT !.value = @ + 1] ELSE t[i]]
      BY <1>1, <1>3, <2>1
    <3>2. \A i \in 1 .. Len(t) : u[i] \in Counter /\ u[i].name = t[i].name
      BY <1>1, <3>1 DEF Counter
    <3>3. \A i \in 1 .. Len(t) :
             u[i].value = IF t[i].name = n THEN t[i].value + 1 ELSE t[i].value
      BY <1>1, <3>1 DEF Counter
    <3>4. u \in Seq(Counter) /\ Len(u) = Len(t) /\ DOMAIN u = 1 .. Len(t)
      BY <1>1, <3>1, <3>2
    <3> QED
      BY <1>1, <1>5, <2>1, <3>2, <3>3, <3>4
  <2>2. CASE (~\E i \in DOMAIN t : t[i].name = n) /\ Len(t) < NameSlots
    <3>1. u = Append(t, e)
      BY <1>3, <2>2
    <3>2. /\ u \in Seq(Counter) /\ DOMAIN u = 1 .. Len(t) + 1 /\ u[Len(t) + 1] = e
          /\ \A i \in 1 .. Len(t) : u[i] = t[i]
      BY <1>1, <1>4, <3>1
    <3>3. n \notin ToSet(seq)
      BY <1>1, <2>2, NewIsNew
    <3>4. Times(n, counted') = 1
      BY <1>5, <3>3
    <3>5. \A i \in DOMAIN u : i \in DOMAIN t \/ i = Len(t) + 1
      BY <1>1, <3>2
    <3> QED
      BY <1>1, <1>4, <1>5, <2>2, <3>1, <3>2, <3>4, <3>5
  <2>3. CASE (~\E i \in DOMAIN t : t[i].name = n) /\ ~(Len(t) < NameSlots)
    BY <1>1, <1>3, <1>5, <2>3
  <2> QED
    BY <2>1, <2>2, <2>3
<1>7. Listed(u, counted')
  BY <1>1, <1>2, <1>6, ListedNext
<1>8. /\ u \in Seq(Counter') /\ counted' \in Seq(Metric') /\ Listed(u, counted')
      /\ \A i \in DOMAIN u : u[i].value = Times(u[i].name, counted')
  BY <1>2, <1>6, <1>7 DEF Counter
<1> QED
  BY <1>8 DEF CountInv, u, Listed, Times, FirstNames

LEMMA CountInvIs ==
  ASSUME CountInv
  PROVE  CountsAreRight
<1>1. /\ {counters[i].name : i \in DOMAIN counters} = FirstNames(counted)
      /\ \A i \in DOMAIN counters : counters[i].value = Times(counters[i].name, counted)
      /\ ToSet(counters) = {counters[i] : i \in DOMAIN counters}
  BY DEF CountInv, Listed, ToSet
<1>2. {<<c.name, c.value>> : c \in ToSet(counters)} \subseteq
        {<<n, Times(n, counted)>> : n \in FirstNames(counted)}
  BY <1>1
<1>3. {<<n, Times(n, counted)>> : n \in FirstNames(counted)} \subseteq
        {<<c.name, c.value>> : c \in ToSet(counters)}
  BY <1>1
<1> QED
  BY <1>2, <1>3 DEF CountsAreRight

Measure == [name : Metric, value : Amount, capacity : {0, 3}]

(* The calls of gauge made so far, by their names; k is the last for o.    *)
MeasuredNames == [i \in DOMAIN measured |-> measured[i].name]

IsLast(k, o, seq) ==
  k \in DOMAIN seq /\ seq[k] = o /\ \A j \in k + 1 .. Len(seq) : seq[j] # o

GaugeInv ==
  /\ gauges \in Seq(Measure) /\ measured \in Seq(Measure)
  /\ Listed(gauges, MeasuredNames)
  /\ \A i \in DOMAIN gauges :
       \E k \in DOMAIN measured : /\ IsLast(k, gauges[i].name, MeasuredNames)
                                  /\ gauges[i].value = measured[k].value

LEMMA LastIs ==
  ASSUME NEW T, NEW seq \in Seq(T), NEW o, NEW k, IsLast(k, o, seq)
  PROVE  LastCall(o, seq) = k
<1>1. DOMAIN seq = 1 .. Len(seq) /\ Len(seq) \in Nat
  OBVIOUS
<1>2. \A i \in DOMAIN seq : (seq[i] = o /\ \A j \in i + 1 .. Len(seq) : seq[j] # o) => i = k
  BY <1>1 DEF IsLast
<1> QED
  BY <1>2 DEF IsLast, LastCall

LEMMA NamesAre ==
  ASSUME measured \in Seq(Measure)
  PROVE  /\ MeasuredNames \in Seq(Metric) /\ Len(MeasuredNames) = Len(measured)
         /\ DOMAIN MeasuredNames = DOMAIN measured
         /\ \A i \in DOMAIN measured : MeasuredNames[i] = measured[i].name
<1>1. /\ DOMAIN measured = 1 .. Len(measured) /\ Len(measured) \in Nat
      /\ \A i \in 1 .. Len(measured) : measured[i].name \in Metric
  <2>1. /\ DOMAIN measured = 1 .. Len(measured) /\ Len(measured) \in Nat
        /\ \A i \in 1 .. Len(measured) : measured[i] \in Measure
    OBVIOUS
  <2> QED
    BY <2>1 DEF Measure
<1>2. MeasuredNames = [i \in 1 .. Len(measured) |-> measured[i].name]
  BY <1>1 DEF MeasuredNames
<1> QED
  BY <1>1, <1>2

LEMMA GaugeInvIs ==
  ASSUME GaugeInv
  PROVE  GaugesAreLatest
<1> DEFINE names == MeasuredNames
<1>1. /\ {gauges[i].name : i \in DOMAIN gauges} = FirstNames(names)
      /\ \A i \in DOMAIN gauges : \E k \in DOMAIN measured :
           IsLast(k, gauges[i].name, names) /\ gauges[i].value = measured[k].value
      /\ ToSet(gauges) = {gauges[i] : i \in DOMAIN gauges}
      /\ names \in Seq(Metric)
  BY NamesAre DEF GaugeInv, Listed, ToSet
<1> HIDE DEF names
<1>2. \A i \in DOMAIN gauges :
         gauges[i].value = measured[LastCall(gauges[i].name, names)].value
  BY <1>1, LastIs
<1>3. {<<g.name, g.value>> : g \in ToSet(gauges)} \subseteq
        {<<n, measured[LastCall(n, names)].value>> : n \in FirstNames(names)}
  BY <1>1, <1>2
<1>4. {<<n, measured[LastCall(n, names)].value>> : n \in FirstNames(names)} \subseteq
        {<<g.name, g.value>> : g \in ToSet(gauges)}
  BY <1>1, <1>2
<1> QED
  BY <1>3, <1>4 DEF GaugesAreLatest, MeasuredNames, names

LEMMA GaugeKeeps ==
  ASSUME GaugeInv, NEW n \in Metric, NEW v \in Amount, NEW c \in {0, 3}, Gauge(n, v, c)
  PROVE  GaugeInv'
<1> DEFINE t == gauges
           u == gauges'
           seq == MeasuredNames
           longer == MeasuredNames'
           e == [name |-> n, value |-> v, capacity |-> c]
           more == measured'
<1>1. /\ t \in Seq(Measure) /\ seq \in Seq(Metric) /\ Listed(t, seq) /\ measured \in Seq(Measure)
      /\ \A i \in DOMAIN t : \E k \in DOMAIN measured :
           IsLast(k, t[i].name, seq) /\ t[i].value = measured[k].value
      /\ DOMAIN t = 1 .. Len(t) /\ Len(t) \in Nat
      /\ \A i \in DOMAIN t : t[i] \in Measure
      /\ DOMAIN measured = 1 .. Len(measured) /\ Len(measured) \in Nat /\ Len(seq) = Len(measured)
  BY NamesAre DEF GaugeInv
<1>2. u = IF \E i \in DOMAIN t : t[i].name = n
          THEN [i \in DOMAIN t |->
                  IF t[i].name = n
                  THEN [t[i] EXCEPT !.value = v, !.capacity = IF c = 0 THEN @ ELSE c]
                  ELSE t[i]]
          ELSE IF Len(t) < NameSlots THEN Append(t, e) ELSE t
  BY DEF Gauge, Entered
<1>3. e \in Measure /\ e.name = n /\ e.value = v
  BY DEF Measure
<1>4. more = Append(measured, e)
  BY DEF Gauge
<1>5. longer = Append(seq, n)
  <2>1. /\ more \in Seq(Measure) /\ DOMAIN more = 1 .. Len(measured) + 1
        /\ more[Len(measured) + 1] = e
        /\ \A i \in 1 .. Len(measured) : more[i] = measured[i]
    <3> HIDE DEF e
    <3> QED
      BY <1>1, <1>3, <1>4
  <2>2. longer = [i \in DOMAIN more |-> more[i].name]
    BY DEF MeasuredNames
  <2> HIDE DEF more
  <2>3. /\ longer \in Seq(Metric) /\ Len(longer) = Len(measured) + 1
        /\ longer[Len(measured) + 1] = n
        /\ \A i \in 1 .. Len(measured) : longer[i] = measured[i].name
    <3>1. \A i \in 1 .. Len(measured) + 1 : more[i].name \in Metric
      <4>1. \A i \in 1 .. Len(measured) + 1 : more[i] \in Measure
        BY <2>1
      <4> QED
        BY <4>1 DEF Measure
    <3>2. longer = [i \in 1 .. Len(measured) + 1 |-> more[i].name]
      BY <2>1, <2>2
    <3> HIDE DEF longer
    <3>3. longer \in Seq(Metric) /\ Len(longer) = Len(measured) + 1
      BY <1>1, <3>1, <3>2
    <3> QED
      BY <1>1, <1>3, <2>1, <3>2, <3>3
  <2>4. \A i \in 1 .. Len(measured) : seq[i] = measured[i].name
    BY <1>1 DEF MeasuredNames
  <2> HIDE DEF longer, seq
  <2>5. /\ Append(seq, n) \in Seq(Metric) /\ Len(Append(seq, n)) = Len(measured) + 1
        /\ Append(seq, n)[Len(measured) + 1] = n
        /\ \A i \in 1 .. Len(measured) : Append(seq, n)[i] = seq[i]
    BY <1>1
  <2>6. \A i \in 1 .. Len(longer) : longer[i] = Append(seq, n)[i]
    <3>1. \A i \in 1 .. Len(measured) + 1 : i \in 1 .. Len(measured) \/ i = Len(measured) + 1
      BY <1>1
    <3> QED
      BY <2>3, <2>4, <2>5, <3>1
  <2> QED
    BY <2>3, <2>5, <2>6, SeqEqual
<1>6. /\ more \in Seq(Measure) /\ Len(more) = Len(measured) + 1 /\ DOMAIN more = 1 .. Len(measured) + 1
      /\ more[Len(measured) + 1] = e
      /\ \A i \in 1 .. Len(measured) : more[i] = measured[i]
  <2> HIDE DEF e
  <2> QED
    BY <1>1, <1>3, <1>4
<1> HIDE DEF t, u, seq, longer, e, more
<1>7. IsLast(Len(measured) + 1, n, longer) /\ Len(measured) + 1 \in DOMAIN more
  <2>1. DOMAIN longer = 1 .. Len(measured) + 1 /\ longer[Len(measured) + 1] = n
    BY <1>1, <1>5
  <2>2. Len(longer) = Len(measured) + 1
    BY <1>1, <1>5
  <2> QED
    BY <1>1, <1>6, <2>1, <2>2 DEF IsLast
<1>8. ASSUME NEW o, o # n, NEW k \in DOMAIN measured, IsLast(k, o, seq)
      PROVE  k \in DOMAIN more /\ IsLast(k, o, longer) /\ more[k] = measured[k]
  <2>1. /\ DOMAIN longer = 1 .. Len(measured) + 1 /\ longer[Len(measured) + 1] = n
        /\ Len(longer) = Len(measured) + 1 /\ \A i \in 1 .. Len(measured) : longer[i] = seq[i]
    BY <1>1, <1>5
  <2>2. \A j \in k + 1 .. Len(measured) + 1 : j \in k + 1 .. Len(seq) \/ j = Len(measured) + 1
    BY <1>1
  <2>3. \A j \in k + 1 .. Len(seq) : j \in 1 .. Len(measured)
    BY <1>1
  <2>4. \A j \in k + 1 .. Len(longer) : longer[j] # o
    BY <1>8, <2>1, <2>2, <2>3 DEF IsLast
  <2>5. k \in DOMAIN longer /\ longer[k] = o
    BY <1>1, <1>8, <2>1 DEF IsLast
  <2> QED
    BY <1>1, <1>6, <2>4, <2>5 DEF IsLast
<1>9. /\ u \in Seq(Measure)
      /\ IF \E i \in DOMAIN t : t[i].name = n
         THEN Len(u) = Len(t) /\ \A i \in DOMAIN t : u[i].name = t[i].name
         ELSE IF Len(t) < NameSlots THEN \E x \in Measure : x.name = n /\ u = Append(t, x)
              ELSE u = t
      /\ \A i \in DOMAIN u :
           \/ u[i].name = n /\ u[i].value = v
           \/ u[i].name # n /\ i \in DOMAIN t /\ u[i] = t[i]
  <2>1. CASE \E i \in DOMAIN t : t[i].name = n
    <3>1. u = [i \in 1 .. Len(t) |->
                 IF t[i].name = n
                 THEN [t[i] EXCEPT !.value = v, !.capacity = IF c = 0 THEN @ ELSE c] ELSE t[i]]
      BY <1>1, <1>2, <2>1
    <3>2. \A i \in 1 .. Len(t) : u[i] \in Measure /\ u[i].name = t[i].name
      BY <1>1, <3>1 DEF Measure
    <3>3. \A i \in 1 .. Len(t) :
             IF t[i].name = n THEN u[i].value = v ELSE u[i] = t[i]
      BY <1>1, <3>1 DEF Measure
    <3>4. u \in Seq(Measure) /\ Len(u) = Len(t) /\ DOMAIN u = 1 .. Len(t)
      <4>1. u \in [1 .. Len(t) -> Measure]
        BY <3>1, <3>2, Zenon
      <4> QED
        BY <1>1, <4>1
    <3> QED
      BY <1>1, <2>1, <3>2, <3>3, <3>4
  <2>2. CASE (~\E i \in DOMAIN t : t[i].name = n) /\ Len(t) < NameSlots
    <3>1. u = Append(t, e)
      BY <1>2, <2>2
    <3>2. /\ u \in Seq(Measure) /\ DOMAIN u = 1 .. Len(t) + 1 /\ u[Len(t) + 1] = e
          /\ \A i \in 1 .. Len(t) : u[i] = t[i]
      BY <1>1, <1>3, <3>1
    <3>5. \A i \in DOMAIN u : i \in DOMAIN t \/ i = Len(t) + 1
      BY <1>1, <3>2
    <3> QED
      BY <1>1, <1>3, <2>2, <3>1, <3>2, <3>5
  <2>3. CASE (~\E i \in DOMAIN t : t[i].name = n) /\ ~(Len(t) < NameSlots)
    BY <1>1, <1>2, <2>3
  <2> QED
    BY <2>1, <2>2, <2>3
<1>10. Listed(u, longer)
  BY <1>1, <1>5, <1>9, ListedNext
<1>11. ASSUME NEW i \in DOMAIN u
       PROVE  \E k \in DOMAIN more : IsLast(k, u[i].name, longer) /\ u[i].value = more[k].value
  <2>1. CASE u[i].name = n /\ u[i].value = v
    BY <1>3, <1>6, <1>7, <2>1
  <2>2. CASE u[i].name # n /\ i \in DOMAIN t /\ u[i] = t[i]
    <3>1. PICK k \in DOMAIN measured : IsLast(k, t[i].name, seq) /\ t[i].value = measured[k].value
      BY <1>1, <2>2
    <3> QED
      BY <1>8, <2>2, <3>1
  <2> QED
    BY <1>9, <2>1, <2>2
<1>12. /\ u \in Seq(Measure') /\ more \in Seq(Measure') /\ Listed(u, longer)
  BY <1>6, <1>9, <1>10 DEF Measure
<1> QED
  BY <1>11, <1>12 DEF GaugeInv, u, more, longer, Listed, FirstNames, IsLast

-----------------------------------------------------------------------------
(* The steps of telemetry.                                                 *)
windowed == <<lengths, winCount, winMin, winMax, winSum>>

LEMMA WindowStays ==
  ASSUME WindowInv, clock' \in Duration, tickStart' \in Duration, UNCHANGED windowed
  PROVE  WindowInv'
<1>1. InWindow' = InWindow
  BY DEF windowed, InWindow
<1>2. Duration' = Duration
  BY DEF Duration
<1>3. Sum(InWindow)' = Sum(InWindow) /\ ToSet(InWindow)' = ToSet(InWindow)
  BY <1>1 DEF Sum, ToSet
<1> QED
  BY <1>2, <1>3 DEF WindowInv, windowed

LEMMA RingStays ==
  ASSUME RingInv, clock' \in Duration, UNCHANGED <<ring, head, filled, reported>>
  PROVE  RingInv'
BY DEF RingInv, Turn, Event, Duration

LEMMA CountsStay ==
  ASSUME CountInv, UNCHANGED <<counters, counted>>
  PROVE  CountInv'
BY DEF CountInv, Counter

LEMMA GaugesStay ==
  ASSUME GaugeInv, UNCHANGED <<gauges, measured>>
  PROVE  GaugeInv'
<1>1. MeasuredNames' = MeasuredNames
  BY DEF MeasuredNames
<1> QED
  BY <1>1 DEF GaugeInv, Measure

TelemetryInv == WindowInv /\ RingInv /\ CountInv /\ GaugeInv

LEMMA PassesIs ==
  ASSUME clock \in Duration, NEW d \in 0 .. MaxStep, Passes(d)
  PROVE  clock' \in Duration
<1>1. clock + d \in Nat /\ Wrap \in Nat \ {0}
  BY SizesAssumption DEF Duration
<1> QED
  BY <1>1, Around DEF Passes, Duration

LEMMA TelemetryStarts == TelemetryInit => TelemetryInv
<1> SUFFICES ASSUME TelemetryInit
             PROVE  TelemetryInv
  OBVIOUS
<1>1. Wrap \in Nat \ {0} /\ Window \in Nat \ {0} /\ EventSlots \in Nat \ {0} /\ NameSlots \in Nat
  BY SizesAssumption
<1>2. 0 \in Duration /\ Wrap - 1 \in Duration
  BY <1>1 DEF Duration
<1>3. 0 % Window = 0 /\ 0 % EventSlots = 0
  BY <1>1, Around
<1>4. Len(lengths) = 0 /\ Len(reported) = 0 /\ lengths = <<>>
  BY DEF TelemetryInit
<1>5. InWindow = <<>>
  <2>1. Len(lengths) - (Len(lengths) % Window) + 1 = 1
    BY <1>3, <1>4
  <2>2. InWindow = SubSeq(<<>>, 1, 0)
    BY <1>4, <2>1 DEF InWindow
  <2> QED
    BY <2>2
<1>6. WindowInv
  <2>1. Sum(InWindow) = 0
    BY <1>5, SumNothing
  <2>2. /\ clock = 0 /\ tickStart = 0 /\ winMin = Wrap - 1 /\ winMax = 0 /\ winSum = 0
        /\ winCount = 0 /\ lengths = <<>>
    BY DEF TelemetryInit
  <2>3. winCount = Len(lengths) % Window
    BY <1>3, <1>4, <2>2
  <2> QED
    BY <1>2, <2>1, <2>2, <2>3 DEF WindowInv
<1>7. RingInv
  <2>1. /\ clock = 0 /\ reported = <<>> /\ DOMAIN ring = 0 .. EventSlots - 1
        /\ head = 0 /\ filled = 0
    BY DEF TelemetryInit
  <2>2. head = Len(reported) % EventSlots
    BY <1>3, <1>4, <2>1
  <2>3. filled = IF Len(reported) =< EventSlots THEN Len(reported) ELSE EventSlots
    BY <1>1, <1>4, <2>1
  <2> QED
    BY <1>2, <2>1, <2>2, <2>3 DEF RingInv
<1>8. ToSet(<<>>) = {} /\ Cardinality({}) = 0 /\ FirstNames(<<>>) = {}
  BY FS_EmptySet DEF ToSet, FirstNames
<1>9. Listed(<<>>, <<>>)
  <2>1. Len(<<>>) = 0 /\ DOMAIN <<>> = {} /\ {<<>>[i].name : i \in {}} = {}
    OBVIOUS
  <2>2. Cardinality(ToSet(<<>>)) = 0 /\ 0 =< NameSlots
    BY <1>1, <1>8
  <2> QED
    BY <1>8, <2>1, <2>2 DEF Listed
<1>10. CountInv
  <2>1. counters = <<>> /\ counted = <<>>
    BY DEF TelemetryInit
  <2> QED
    BY <1>9, <2>1 DEF CountInv
<1>11. GaugeInv
  <2>1. gauges = <<>> /\ measured = <<>>
    BY DEF TelemetryInit
  <2>2. MeasuredNames = <<>>
    BY <2>1 DEF MeasuredNames
  <2> QED
    BY <1>9, <2>1, <2>2 DEF GaugeInv
<1> QED
  BY <1>6, <1>7, <1>10, <1>11 DEF TelemetryInv

LEMMA TelemetryMoves ==
  ASSUME TelemetryInv, [TelemetryNext]_telemetry
  PROVE  TelemetryInv'
<1>1. WindowInv /\ RingInv /\ CountInv /\ GaugeInv /\ clock \in Duration /\ tickStart \in Duration
  BY DEF TelemetryInv, WindowInv
<1>2. CASE Ticking
  <2>1. UNCHANGED callVars
    BY <1>2 DEF Ticking
  <2>2. CountInv' /\ GaugeInv'
    BY <1>1, <2>1, CountsStay, GaugesStay DEF callVars
  <2>3. UNCHANGED <<ring, head, filled, reported>>
    BY <2>1 DEF callVars
  <2>4. CASE TickBegin
    <3>1. clock' = clock /\ tickStart' = clock /\ UNCHANGED windowed
      BY <2>4 DEF TickBegin, windowed
    <3> QED
      BY <1>1, <2>2, <2>3, <3>1, WindowStays, RingStays DEF TelemetryInv
  <2>5. ASSUME NEW d \in 0 .. MaxStep, Mark(d)
        PROVE  TelemetryInv'
    <3>1. Passes(d) /\ tickStart' = tickStart /\ UNCHANGED windowed
      BY <2>5 DEF Mark, windowed
    <3>2. clock' \in Duration
      BY <1>1, <3>1, PassesIs
    <3> QED
      BY <1>1, <2>2, <2>3, <3>1, <3>2, WindowStays, RingStays DEF TelemetryInv
  <2>6. ASSUME NEW d \in 0 .. MaxStep, TickEnd(d)
        PROVE  TelemetryInv'
    <3>1. Passes(d)
      BY <2>6 DEF TickEnd
    <3>2. clock' \in Duration
      BY <1>1, <3>1, PassesIs
    <3> QED
      BY <1>1, <2>2, <2>3, <2>6, <3>2, TickEndKeeps, RingStays DEF TelemetryInv
  <2> QED
    BY <1>2, <2>4, <2>5, <2>6 DEF Ticking
<1>3. CASE Calling
  <2>1. clock' = clock /\ UNCHANGED tickVars
    BY <1>3 DEF Calling
  <2>2. WindowInv'
    <3>1. tickStart' = tickStart /\ UNCHANGED windowed
      BY <2>1 DEF tickVars, windowed
    <3> QED
      BY <1>1, <2>1, <3>1, WindowStays
  <2>3. ASSUME NEW r \in Report, EventCall(r)
        PROVE  TelemetryInv'
    <3>1. UNCHANGED <<counters, gauges, counted, measured>>
      BY <2>3 DEF EventCall
    <3> QED
      BY <1>1, <2>1, <2>2, <2>3, <3>1, EventCallKeeps, CountsStay, GaugesStay DEF TelemetryInv
  <2>4. ASSUME NEW n \in Metric, Count(n)
        PROVE  TelemetryInv'
    <3>1. UNCHANGED <<ring, head, filled, gauges, reported, measured>>
      BY <2>4 DEF Count
    <3> QED
      BY <1>1, <2>1, <2>2, <2>4, <3>1, CountKeeps, RingStays, GaugesStay DEF TelemetryInv
  <2>5. ASSUME NEW n \in Metric, NEW v \in Amount, NEW c \in {0, 3}, Gauge(n, v, c)
        PROVE  TelemetryInv'
    <3>1. UNCHANGED <<ring, head, filled, counters, reported, counted>>
      BY <2>5 DEF Gauge
    <3> QED
      BY <1>1, <2>1, <2>2, <2>5, <3>1, GaugeKeeps, RingStays, CountsStay DEF TelemetryInv
  <2> QED
    BY <1>3, <2>3, <2>4, <2>5 DEF Calling
<1>4. CASE \/ Asking \/ Streaming \/ UNCHANGED telemetry
  <2>1. UNCHANGED <<clock, tickVars, callVars>>
    BY <1>4 DEF Asking, Streaming, telemetry
  <2>2. /\ clock' = clock /\ tickStart' = tickStart /\ UNCHANGED windowed
        /\ UNCHANGED <<ring, head, filled, reported>>
        /\ UNCHANGED <<counters, counted>> /\ UNCHANGED <<gauges, measured>>
    BY <2>1 DEF tickVars, callVars, windowed
  <2> QED
    BY <1>1, <2>2, WindowStays, RingStays, CountsStay, GaugesStay DEF TelemetryInv
<1> QED
  BY <1>2, <1>3, <1>4 DEF TelemetryNext

(* For every size of the window, the ring and the tables, every modulus of *)
(* the clock and every order of ticks, calls and questions: an answer      *)
(* holds the newest events first, all calls of every counter that got a    *)
(* place, the last value of every gauge that did, and the figures of as    *)
(* many of the latest ticks as it says (devtools/devtools.cpp, tick_end,   *)
(* event, count, gauge and the serialize functions).                       *)
THEOREM AnswersAreCurrent == TelemetrySpec => []TellsWhatHappened
<1>1. TelemetryInv => TellsWhatHappened
  BY WindowInvIs, RingInvIs, CountInvIs, GaugeInvIs DEF TelemetryInv, TellsWhatHappened
<1>2. TelemetryInv /\ [TelemetryNext]_telemetry => TelemetryInv'
  BY TelemetryMoves
<1> QED
  BY <1>1, <1>2, TelemetryStarts, PTL DEF TelemetrySpec

-----------------------------------------------------------------------------
(* The identifiers an engine has given slots to, in their order.           *)
Ids == {StateId[t] : t \in Source}
LiveIdsOf == {LiveId[t] : t \in Source}
Owners == {own \in Seq(Ids) : Len(own) =< MaxStates}

Known(own, id) == id # Unnamed /\ \E k \in 1 .. Len(own) : own[k] = id

SlotIn(own, id) ==
  IF Known(own, id) THEN Min({k \in 1 .. Len(own) : own[k] = id}) ELSE Len(own) + 1

Grown(own, id) ==
  IF id = NoId \/ Known(own, id) \/ Len(own) = MaxStates THEN own ELSE Append(own, id)

(* The sequence s is where t begins.                                       *)
Within(s, t) == Len(s) =< Len(t) /\ \A k \in 1 .. Len(s) : s[k] = t[k]

LEMMA WithinBoth ==
  ASSUME NEW s, NEW t, NEW u, Len(s) \in Nat, Len(t) \in Nat, Len(u) \in Nat,
         Within(s, t), Within(t, u)
  PROVE  Within(s, u)
<1>1. Len(s) =< Len(u)
  BY DEF Within
<1>2. ASSUME NEW k \in 1 .. Len(s)
      PROVE  s[k] = u[k]
  <2>1. k \in 1 .. Len(t) /\ s[k] = t[k]
    BY DEF Within
  <2> QED
    BY <2>1 DEF Within
<1> QED
  BY <1>1, <1>2 DEF Within

LEMMA FirstIs ==
  ASSUME NEW own \in Owners, NEW id, NEW k \in 1 .. Len(own), own[k] = id, id # Unnamed,
         \A j \in 1 .. k - 1 : own[j] # id
  PROVE  Known(own, id) /\ SlotIn(own, id) = k
<1> DEFINE I == {j \in 1 .. Len(own) : own[j] = id}
<1>1. Len(own) \in Nat /\ I \in SUBSET Int /\ k \in I
  BY DEF Owners
<1>2. \A j \in I : k =< j
  BY <1>1
<1> HIDE DEF I
<1>3. Min(I) = k
  BY <1>1, <1>2, LeastIs
<1> QED
  BY <1>3 DEF Known, SlotIn, I

LEMMA HasFirst ==
  ASSUME NEW own \in Owners, NEW id, Known(own, id)
  PROVE  \E k \in 1 .. Len(own) : /\ own[k] = id /\ id # Unnamed /\ SlotIn(own, id) = k
                                  /\ \A j \in 1 .. k - 1 : own[j] # id
<1> DEFINE I == {j \in 1 .. Len(own) : own[j] = id}
<1>1. Len(own) \in Nat /\ I \in SUBSET Nat /\ I # {}
  BY DEF Owners, Known
<1>2. PICK k \in I : \A j \in I : ~(j < k)
  <2> HIDE DEF I
  <2> QED
    BY <1>1, LeastOf
<1>3. k \in 1 .. Len(own) /\ own[k] = id /\ \A j \in 1 .. k - 1 : own[j] # id
  BY <1>1, <1>2
<1>4. id # Unnamed
  BY DEF Known
<1> QED
  BY <1>3, <1>4, FirstIs

LEMMA SlotInIs ==
  ASSUME NEW own \in Owners, NEW id
  PROVE  SlotIn(own, id) \in 1 .. Len(own) + 1
<1>1. Len(own) \in Nat
  BY DEF Owners
<1>2. CASE Known(own, id)
  BY <1>1, <1>2, HasFirst
<1>3. CASE ~Known(own, id)
  BY <1>1, <1>3 DEF SlotIn
<1> QED
  BY <1>2, <1>3

LEMMA GrownIs ==
  ASSUME NEW own \in Owners, NEW id \in Ids
  PROVE  /\ Grown(own, id) \in Owners /\ Within(own, Grown(own, id))
         /\ (id # NoId /\ SlotIn(own, id) =< MaxStates) => SlotIn(own, id) \in 1 .. Len(Grown(own, id))
<1>1. own \in Seq(Ids) /\ Len(own) \in Nat /\ Len(own) =< MaxStates /\ MaxStates \in Nat
  BY SourceAssumption DEF Owners
<1>2. SlotIn(own, id) \in 1 .. Len(own) + 1
  BY SlotInIs
<1>3. CASE id = NoId \/ Known(own, id) \/ Len(own) = MaxStates
  <2>1. Grown(own, id) = own
    BY <1>3 DEF Grown
  <2>2. (id # NoId /\ SlotIn(own, id) =< MaxStates) => SlotIn(own, id) \in 1 .. Len(own)
    <3>1. CASE Known(own, id)
      BY <1>1, <3>1, HasFirst
    <3>2. CASE Len(own) = MaxStates
      BY <1>1, <1>2, <3>2
    <3> QED
      BY <1>3, <3>1, <3>2
  <2> QED
    BY <1>1, <2>1, <2>2 DEF Within
<1>4. CASE ~(id = NoId \/ Known(own, id) \/ Len(own) = MaxStates)
  <2>1. Grown(own, id) = Append(own, id)
    BY <1>4 DEF Grown
  <2>2. /\ Append(own, id) \in Seq(Ids) /\ Len(Append(own, id)) = Len(own) + 1
        /\ \A k \in 1 .. Len(own) : Append(own, id)[k] = own[k]
    BY <1>1
  <2>3. Len(own) + 1 =< MaxStates
    BY <1>1, <1>4
  <2> QED
    BY <1>1, <1>2, <2>1, <2>2, <2>3 DEF Within, Owners
<1> QED
  BY <1>3, <1>4

(* The owners are the same in two engines, or the second is ahead on the   *)
(* way to the same owners F, all of which have identifiers.                *)
Alike(own, other, F) ==
  /\ Within(own, other)
  /\ own = other \/ (Within(other, F) /\ \A k \in 1 .. Len(F) : F[k] # Unnamed)

LEMMA AlikeNext ==
  ASSUME NEW own \in Owners, NEW other \in Owners, NEW F \in Owners, NEW id \in Ids,
         Alike(own, other, F), Within(Grown(own, id), F)
  PROVE  /\ Alike(Grown(own, id), Grown(other, id), F)
         /\ (id # NoId /\ SlotIn(own, id) =< MaxStates) => SlotIn(other, id) = SlotIn(own, id)
<1>1. /\ own \in Seq(Ids) /\ Len(own) \in Nat /\ Len(own) =< MaxStates /\ MaxStates \in Nat
      /\ other \in Seq(Ids) /\ Len(other) \in Nat /\ Len(other) =< MaxStates
  BY SourceAssumption DEF Owners
<1>2. CASE own = other
  <2>1. Grown(own, id) \in Seq(Ids) /\ Len(Grown(own, id)) \in Nat
    BY GrownIs DEF Owners
  <2> QED
    BY <1>2, <2>1 DEF Alike, Within
<1>3. CASE own # other
  <2>1. /\ Len(own) =< Len(other) /\ \A k \in 1 .. Len(own) : own[k] = other[k]
        /\ Len(other) =< Len(F) /\ \A k \in 1 .. Len(other) : other[k] = F[k]
        /\ \A k \in 1 .. Len(F) : F[k] # Unnamed
        /\ Len(F) \in Nat
    BY <1>3 DEF Alike, Within, Owners
  <2>2. Len(own) < Len(other)
    <3>1. CASE Len(own) = Len(other)
      <4>1. own = other
        BY <1>1, <2>1, <3>1, SeqEqual
      <4> QED
        BY <1>3, <4>1
    <3> QED
      BY <1>1, <2>1, <3>1
  <2>3. CASE id = NoId
    <3>1. Grown(own, id) = own /\ Grown(other, id) = other
      BY <2>3 DEF Grown
    <3> QED
      BY <2>3, <3>1
  <2>4. CASE id # NoId /\ Known(own, id)
    <3>1. PICK k \in 1 .. Len(own) : /\ own[k] = id /\ id # Unnamed /\ SlotIn(own, id) = k
                                     /\ \A j \in 1 .. k - 1 : own[j] # id
      BY <2>4, HasFirst
    <3>2. k \in 1 .. Len(other) /\ other[k] = id /\ \A j \in 1 .. k - 1 : other[j] # id
      BY <1>1, <2>1, <3>1
    <3>3. Known(other, id) /\ SlotIn(other, id) = k
      BY <3>1, <3>2, FirstIs
    <3>4. Grown(own, id) = own /\ Grown(other, id) = other
      BY <2>4, <3>3 DEF Grown
    <3> QED
      BY <3>1, <3>3, <3>4
  <2>5. CASE id # NoId /\ ~Known(own, id)
    <3>1. Grown(own, id) = Append(own, id) /\ SlotIn(own, id) = Len(own) + 1
      BY <1>1, <2>2, <2>5 DEF Grown, SlotIn
    <3>2. /\ Len(Append(own, id)) = Len(own) + 1 /\ Append(own, id)[Len(own) + 1] = id
          /\ \A j \in 1 .. Len(own) : Append(own, id)[j] = own[j]
      BY <1>1
    <3>3. Len(own) + 1 \in 1 .. Len(own) + 1 /\ Len(own) + 1 \in 1 .. Len(other)
      BY <1>1, <2>2
    <3>4. id = F[Len(own) + 1]
      BY <3>1, <3>2, <3>3 DEF Within
    <3>5. other[Len(own) + 1] = id /\ id # Unnamed
      BY <1>1, <2>1, <3>3, <3>4
    <3>6. \A j \in 1 .. Len(own) : other[j] # id
      BY <2>1, <2>5, <3>5 DEF Known
    <3>7. Known(other, id) /\ SlotIn(other, id) = Len(own) + 1
      <4>1. (Len(own) + 1) - 1 = Len(own)
        BY <1>1
      <4> QED
        BY <3>3, <3>5, <3>6, <4>1, FirstIs
    <3>8. Grown(other, id) = other
      BY <3>7 DEF Grown
    <3>9. Within(Append(own, id), other)
      <4>1. \A j \in 1 .. Len(own) + 1 : j \in 1 .. Len(own) \/ j = Len(own) + 1
        BY <1>1
      <4> QED
        BY <1>1, <2>1, <2>2, <3>2, <3>5, <4>1 DEF Within
    <3> QED
      BY <3>1, <3>7, <3>8, <3>9 DEF Alike
  <2> QED
    BY <2>3, <2>4, <2>5
<1> QED
  BY <1>2, <1>3

-----------------------------------------------------------------------------
(* An engine: each text that runs is the one its output was given, and has *)
(* a slot when it needs one; no two live edits have the same identifier.   *)
Texts == Source \cup {NoSource}
Held == Value \cup {Seed}
LiveSlot == [id : LiveIdsOf, value : Held]

EngineType ==
  [source : [Played -> Texts], program : [Played -> Texts], valid : [Played -> BOOLEAN],
   slot : [Played -> 0 .. MaxStates], owner : Seq(Ids), value : Seq(Held),
   live : Seq(LiveSlot)]

Plays(e, o) ==
  /\ e.program[o] \in Source /\ e.source[o] = e.program[o] /\ e.program[o] \notin Faulty
  /\ StateId[e.program[o]] = NoId => e.slot[o] = 0
  /\ StateId[e.program[o]] # NoId => e.slot[o] \in 1 .. Len(e.owner)

SlotsOK(e) == e.owner \in Owners /\ Len(e.value) = Len(e.owner)

LiveOK(e) ==
  /\ \A i, j \in DOMAIN e.live : e.live[i].id = e.live[j].id => i = j
  /\ \A i \in DOMAIN e.live : e.live[i].id # NoId

EngineOK(e) ==
  /\ e \in EngineType /\ SlotsOK(e) /\ LiveOK(e)
  /\ \A o \in Played : e.valid[o] => Plays(e, o)

(* What happens to the live edits of e in r.                               *)
LiveKept(e, r) ==
  \A i \in DOMAIN e.live : i \in DOMAIN r.live /\ r.live[i].id = e.live[i].id

LEMMA WithStateIs ==
  ASSUME NEW e \in EngineType, SlotsOK(e), NEW id \in Ids
  PROVE  LET s == WithState(e, id)
         IN /\ s \in EngineType /\ SlotsOK(s) /\ s.owner = Grown(e.owner, id)
            /\ s.source = e.source /\ s.program = e.program /\ s.valid = e.valid
            /\ s.slot = e.slot /\ s.live = e.live
<1> DEFINE s == WithState(e, id)
<1>1. Named(e, id) <=> Known(e.owner, id)
  BY DEF Named, Known, Contains
<1>2. e.owner \in Owners /\ Grown(e.owner, id) \in Owners /\ Len(e.value) = Len(e.owner)
  BY GrownIs DEF SlotsOK
<1>3. CASE id = NoId \/ Known(e.owner, id) \/ Len(e.owner) = MaxStates
  <2>1. s = e
    BY <1>1, <1>3 DEF WithState
  <2>2. Grown(e.owner, id) = e.owner
    BY <1>3 DEF Grown
  <2> QED
    BY <2>1, <2>2
<1>4. CASE ~(id = NoId \/ Known(e.owner, id) \/ Len(e.owner) = MaxStates)
  <2>1. s = [e EXCEPT !.owner = Append(@, id), !.value = Append(@, Seed)]
    BY <1>1, <1>4 DEF WithState
  <2>2. Grown(e.owner, id) = Append(e.owner, id)
    BY <1>4 DEF Grown
  <2>3. /\ e.owner \in Seq(Ids) /\ e.value \in Seq(Held) /\ Seed \in Held
    BY DEF EngineType, Held
  <2>4. /\ Append(e.owner, id) \in Seq(Ids) /\ Append(e.value, Seed) \in Seq(Held)
        /\ Len(Append(e.value, Seed)) = Len(e.value) + 1
        /\ Len(Append(e.owner, id)) = Len(e.owner) + 1
    BY <2>3
  <2>5. /\ s.owner = Append(e.owner, id) /\ s.value = Append(e.value, Seed)
        /\ s.source = e.source /\ s.program = e.program /\ s.valid = e.valid
        /\ s.slot = e.slot /\ s.live = e.live /\ s \in EngineType
    BY <2>1, <2>4 DEF EngineType
  <2> QED
    BY <1>2, <2>2, <2>4, <2>5 DEF SlotsOK
<1> QED
  BY <1>3, <1>4

LEMMA WithLiveIs ==
  ASSUME NEW e \in EngineType, LiveOK(e), NEW id \in LiveIdsOf
  PROVE  LET s == WithLive(e, id)
         IN /\ s \in EngineType /\ LiveOK(s) /\ LiveKept(e, s)
            /\ id # NoId => \E i \in DOMAIN s.live : s.live[i].id = id
            /\ s.source = e.source /\ s.program = e.program /\ s.valid = e.valid
            /\ s.slot = e.slot /\ s.owner = e.owner /\ s.value = e.value
<1> DEFINE s == WithLive(e, id)
<1>1. CASE id = NoId \/ \E i \in DOMAIN e.live : e.live[i].id = id
  <2>1. s = e
    BY <1>1 DEF WithLive
  <2> QED
    BY <1>1, <2>1 DEF LiveKept
<1>2. CASE ~(id = NoId \/ \E i \in DOMAIN e.live : e.live[i].id = id)
  <2> DEFINE new == [id |-> id, value |-> Seed]
             L == Len(e.live)
  <2>1. s = [e EXCEPT !.live = Append(@, new)]
    BY <1>2 DEF WithLive
  <2>2. new \in LiveSlot /\ new.id = id /\ e.live \in Seq(LiveSlot)
    BY DEF LiveSlot, Held, EngineType
  <2> HIDE DEF new
  <2>3. /\ Append(e.live, new) \in Seq(LiveSlot) /\ DOMAIN Append(e.live, new) = 1 .. L + 1
        /\ Append(e.live, new)[L + 1] = new /\ L \in Nat /\ DOMAIN e.live = 1 .. L
        /\ \A i \in 1 .. L : Append(e.live, new)[i] = e.live[i]
    BY <2>2
  <2>4. /\ s.live = Append(e.live, new)
        /\ s.source = e.source /\ s.program = e.program /\ s.valid = e.valid
        /\ s.slot = e.slot /\ s.owner = e.owner /\ s.value = e.value /\ s \in EngineType
    BY <2>1, <2>3 DEF EngineType
  <2> HIDE DEF s
  <2>5. \A i \in 1 .. L + 1 : i \in 1 .. L \/ i = L + 1
    BY <2>3
  <2>6. L + 1 \in 1 .. L + 1 /\ \A i \in 1 .. L : i \in 1 .. L + 1
    BY <2>3
  <2>7. LiveOK(s)
    <3>1. \A i \in 1 .. L : e.live[i].id # id /\ e.live[i].id # NoId
      BY <1>2, <2>3 DEF LiveOK
    <3>2. \A i, j \in 1 .. L : e.live[i].id = e.live[j].id => i = j
      BY <2>3 DEF LiveOK
    <3> QED
      BY <1>2, <2>2, <2>3, <2>4, <2>5, <3>1, <3>2 DEF LiveOK
  <2>8. LiveKept(e, s) /\ \E i \in DOMAIN s.live : s.live[i].id = id
    BY <2>2, <2>3, <2>4, <2>6 DEF LiveKept
  <2> QED
    BY <2>4, <2>7, <2>8 DEF s
<1> QED
  BY <1>1, <1>2

(* A text compiles when it has no mistake and gets its slot.               *)
Compiles(e, t) ==
  t \notin Faulty /\ (StateId[t] = NoId \/ SlotIn(e.owner, StateId[t]) =< MaxStates)

LEMMA AssignedIs ==
  ASSUME NEW e, EngineOK(e), NEW o \in Played, NEW t \in Source
  PROVE  LET a == Assigned(e, o, t)
             id == StateId[t]
         IN /\ EngineOK(a) /\ a.owner = Grown(e.owner, id) /\ LiveKept(e, a)
            /\ LiveId[t] # NoId => \E i \in DOMAIN a.live : a.live[i].id = LiveId[t]
            /\ \A p \in Played \ {o} : /\ a.valid[p] <=> e.valid[p]
                                       /\ a.program[p] = e.program[p]
                                       /\ a.slot[p] = e.slot[p]
            /\ Compiles(e, t) => /\ a.valid[o] /\ a.program[o] = t
                                 /\ a.slot[o] = IF id = NoId THEN 0 ELSE SlotIn(e.owner, id)
            /\ ~Compiles(e, t) => ~a.valid[o] /\ a.slot[o] = e.slot[o]
<1> DEFINE a == Assigned(e, o, t)
           id == StateId[t]
           lid == LiveId[t]
           s == WithState(e, id)
           l == WithLive(s, lid)
           made == [l EXCEPT !.source[o] = t]
           slot == SlotFor(e, id)
<1>1. id \in Ids /\ lid \in LiveIdsOf /\ e \in EngineType /\ SlotsOK(e) /\ LiveOK(e)
      /\ e.owner \in Owners
  BY DEF Ids, LiveIdsOf, EngineOK, SlotsOK
<1>2. slot = SlotIn(e.owner, id) /\ slot \in 1 .. Len(e.owner) + 1
  <2>1. slot = SlotIn(e.owner, id)
    BY DEF SlotFor, SlotIn, SelectInSeq, Named, Known, Contains
  <2> QED
    BY <1>1, <2>1, SlotInIs
<1>3. /\ s \in EngineType /\ SlotsOK(s) /\ s.owner = Grown(e.owner, id)
      /\ s.source = e.source /\ s.program = e.program /\ s.valid = e.valid
      /\ s.slot = e.slot /\ s.live = e.live
  BY <1>1, WithStateIs
<1>4. LiveOK(s)
  BY <1>1, <1>3 DEF LiveOK
<1> HIDE DEF s
<1>5. /\ l \in EngineType /\ LiveOK(l) /\ LiveKept(s, l)
      /\ lid # NoId => \E i \in DOMAIN l.live : l.live[i].id = lid
      /\ l.source = s.source /\ l.program = s.program /\ l.valid = s.valid
      /\ l.slot = s.slot /\ l.owner = s.owner /\ l.value = s.value
  BY <1>1, <1>3, <1>4, WithLiveIs
<1> HIDE DEF l
<1>6. /\ made \in EngineType /\ made.source = [e.source EXCEPT ![o] = t]
      /\ made.program = e.program /\ made.valid = e.valid /\ made.slot = e.slot
      /\ made.owner = Grown(e.owner, id) /\ made.value = s.value /\ made.live = l.live
  <2>1. t \in Texts
    BY DEF Texts
  <2> QED
    BY <1>3, <1>5, <2>1 DEF EngineType
<1> HIDE DEF made, slot
<1>7. a = IF ~Compiles(e, t)
          THEN [made EXCEPT !.valid[o] = FALSE]
          ELSE [made EXCEPT !.program[o] = t, !.valid[o] = TRUE,
                            !.slot[o] = IF id = NoId THEN 0 ELSE slot]
  <2>1. (t \in Faulty \/ (id # NoId /\ slot > MaxStates)) <=> ~Compiles(e, t)
    <3>1. slot \in Nat /\ MaxStates \in Nat
      BY <1>1, <1>2, SourceAssumption DEF Owners
    <3> QED
      BY <1>2, <3>1 DEF Compiles
  <2> QED
    BY <2>1 DEF Assigned, made, l, s, slot
<1>8. e.slot \in [Played -> 0 .. MaxStates] /\ e.program \in [Played -> Texts]
      /\ e.valid \in [Played -> BOOLEAN] /\ t \in Texts /\ e.source \in [Played -> Texts]
      /\ MaxStates \in Nat
  BY <1>1, SourceAssumption DEF EngineType, Texts
<1> HIDE DEF a, id, lid
<1>9. /\ Grown(e.owner, id) \in Owners /\ Len(e.owner) \in Nat /\ Len(Grown(e.owner, id)) \in Nat
      /\ Len(e.owner) =< Len(Grown(e.owner, id))
      /\ (id # NoId /\ slot =< MaxStates) => slot \in 1 .. Len(Grown(e.owner, id))
  <2>1. /\ Grown(e.owner, id) \in Owners /\ Within(e.owner, Grown(e.owner, id))
        /\ (id # NoId /\ slot =< MaxStates) => slot \in 1 .. Len(Grown(e.owner, id))
    BY <1>1, <1>2, GrownIs
  <2> QED
    BY <1>1, <2>1 DEF Within, Owners
<1>10. \A p \in Played : made.valid[p] => e.valid[p] /\ Plays(e, p)
  BY <1>6 DEF EngineOK
<1>11. CASE ~Compiles(e, t)
  <2>1. /\ a \in EngineType /\ a.source = made.source /\ a.program = e.program
        /\ a.valid = [e.valid EXCEPT ![o] = FALSE] /\ a.slot = e.slot
        /\ a.owner = Grown(e.owner, id) /\ a.value = s.value /\ a.live = l.live
    BY <1>6, <1>7, <1>11 DEF EngineType
  <2>2. /\ SlotsOK(a) /\ LiveOK(a) /\ LiveKept(e, a)
        /\ lid # NoId => \E i \in DOMAIN a.live : a.live[i].id = lid
    BY <1>3, <1>5, <2>1 DEF SlotsOK, LiveOK, LiveKept
  <2>3. ~a.valid[o] /\ a.slot[o] = e.slot[o]
    BY <1>8, <2>1
  <2>4. \A p \in Played \ {o} : a.source[p] = e.source[p] /\ (a.valid[p] <=> e.valid[p])
    BY <1>6, <1>8, <2>1
  <2>5. ASSUME NEW p \in Played, a.valid[p]
        PROVE  Plays(a, p)
    <3>1. p # o /\ e.valid[p] /\ a.source[p] = e.source[p]
      BY <2>3, <2>4, <2>5
    <3>2. Plays(e, p)
      BY <3>1 DEF EngineOK
    <3> QED
      BY <1>9, <2>1, <3>1, <3>2 DEF Plays
  <2>6. EngineOK(a)
    BY <2>1, <2>2, <2>5 DEF EngineOK
  <2> QED
    BY <1>11, <2>1, <2>2, <2>3, <2>4, <2>6 DEF a, id, lid
<1>12. CASE Compiles(e, t)
  <2> DEFINE place == IF id = NoId THEN 0 ELSE slot
  <2>1. place \in 0 .. MaxStates /\ t \notin Faulty /\ (id # NoId => slot =< MaxStates)
    <3>1. id # NoId => slot =< MaxStates
      BY <1>2, <1>12 DEF Compiles, id
    <3> QED
      BY <1>2, <1>8, <1>12, <1>9, <3>1 DEF Compiles
  <2> HIDE DEF place
  <2>2. a = [made EXCEPT !.program[o] = t, !.valid[o] = TRUE, !.slot[o] = place]
    BY <1>7, <1>12 DEF place
  <2>3. /\ a \in EngineType /\ a.source = made.source /\ a.program = [e.program EXCEPT ![o] = t]
        /\ a.valid = [e.valid EXCEPT ![o] = TRUE] /\ a.slot = [e.slot EXCEPT ![o] = place]
        /\ a.owner = Grown(e.owner, id) /\ a.value = s.value /\ a.live = l.live
    BY <1>6, <1>8, <2>1, <2>2 DEF EngineType
  <2>4. /\ SlotsOK(a) /\ LiveOK(a) /\ LiveKept(e, a)
        /\ lid # NoId => \E i \in DOMAIN a.live : a.live[i].id = lid
    BY <1>3, <1>5, <2>3 DEF SlotsOK, LiveOK, LiveKept
  <2>5. a.valid[o] /\ a.program[o] = t /\ a.slot[o] = place /\ a.source[o] = t
    BY <1>6, <1>8, <2>3
  <2>6. \A p \in Played \ {o} : /\ a.source[p] = e.source[p] /\ (a.valid[p] <=> e.valid[p])
                                /\ a.program[p] = e.program[p] /\ a.slot[p] = e.slot[p]
    BY <1>6, <1>8, <2>3
  <2>7. ASSUME NEW p \in Played, a.valid[p]
        PROVE  Plays(a, p)
    <3>1. CASE p = o
      BY <1>9, <2>1, <2>3, <2>5, <3>1 DEF Plays, place, id
    <3>2. CASE p # o
      <4>1. e.valid[p]
        BY <2>6, <2>7, <3>2
      <4>2. Plays(e, p)
        BY <4>1 DEF EngineOK
      <4> QED
        BY <1>9, <2>3, <2>6, <3>2, <4>2 DEF Plays
    <3> QED
      BY <3>1, <3>2
  <2>8. EngineOK(a)
    BY <2>3, <2>4, <2>7 DEF EngineOK
  <2> QED
    BY <1>2, <1>12, <2>3, <2>4, <2>5, <2>6, <2>8 DEF a, id, lid, place
<1> QED
  BY <1>11, <1>12

-----------------------------------------------------------------------------
(* Evaluated, one output after the other.                                  *)
Given(outs, o) == o \in DOMAIN outs /\ outs[o] # NoSource

OneMore(e, o, outs) == IF Given(outs, o) THEN Assigned(e, o, outs[o]) ELSE e

Evals(f, e, outs) ==
  /\ f[0] = e /\ Evaluated(e, outs) = f[LastOutput]
  /\ \A o \in 1 .. LastOutput : f[o] = OneMore(f[o - 1], o, outs)
  /\ \A o \in 0 .. LastOutput : EngineOK(f[o])

Working == {x \in EngineType : EngineOK(x)}

Asks(outs) == \A o \in DOMAIN outs : o \in Played /\ outs[o] \in Texts

LEMMA OneMoreStays ==
  ASSUME NEW outs, Asks(outs), NEW x, EngineOK(x), NEW o \in Played
  PROVE  EngineOK(OneMore(x, o, outs))
<1>1. CASE Given(outs, o)
  <2>1. outs[o] \in Source
    BY <1>1 DEF Given, Asks, Texts
  <2> QED
    BY <1>1, <2>1, AssignedIs DEF OneMore
<1>2. CASE ~Given(outs, o)
  BY <1>2 DEF OneMore
<1> QED
  BY <1>1, <1>2

LEMMA EvalSteps ==
  ASSUME NEW outs, Asks(outs), NEW e, EngineOK(e)
  PROVE  \E f : Evals(f, e, outs)
<1> DEFINE N == LastOutput
           g == [x \in (1 .. N) \X Working |-> OneMore(x[2], x[1], outs)]
<1>1. N \in Nat /\ Played = 1 .. N
  BY SourceAssumption DEF Played
<1>2. \A n \in 1 .. N, x \in Working : OneMore(x, n, outs) \in Working
  <2> SUFFICES ASSUME NEW n \in 1 .. N, NEW x \in Working
               PROVE  OneMore(x, n, outs) \in Working
    OBVIOUS
  <2>1. EngineOK(x) /\ n \in Played
    BY <1>1 DEF Working
  <2>2. EngineOK(OneMore(x, n, outs))
    BY <2>1, OneMoreStays
  <2> QED
    BY <2>2 DEF Working, EngineOK
<1>3. \A n \in 1 .. N, x \in Working : g[<<n, x>>] = OneMore(x, n, outs)
  OBVIOUS
<1>4. Stays(g, N, Working)
  <2> HIDE DEF g
  <2> QED
    BY <1>2, <1>3 DEF Stays
<1>5. e \in Working
  BY DEF Working, EngineOK
<1> HIDE DEF g
<1>6. PICK f \in [0 .. N -> Working] : Follows(f, g, N, e)
  <2> HIDE DEF N
  <2> QED
    BY <1>1, <1>4, <1>5, Recursion
<1>7. \A n \in 1 .. N : n \in 0 .. N /\ n # 0 /\ n - 1 \in 0 .. N
  BY <1>1
<1>8. f[0] = e /\ \A n \in 1 .. N : f[n] = OneMore(f[n - 1], n, outs)
  BY <1>3, <1>6, <1>7 DEF Follows
<1> DEFINE By(m, n) ==
             IF n = 0 THEN e
             ELSE IF n \in DOMAIN outs /\ outs[n] # NoSource
                  THEN Assigned(m[n - 1], n, outs[n]) ELSE m[n - 1]
<1>9. \A m, n : n # 0 => By(m, n) = OneMore(m[n - 1], n, outs)
  BY DEF OneMore, Given
<1>10. \A m : By(m, 0) = e
  OBVIOUS
<1>11. Evaluated(e, outs) = (CHOOSE m : m = [n \in 0 .. N |-> By(m, n)])[N]
  BY DEF Evaluated
<1> HIDE DEF By, N
<1>12. f = [n \in 0 .. N |-> By(f, n)]
  <2>1. \A n \in 0 .. N : n # 0 => n \in 1 .. N
    BY <1>1
  <2>2. \A n \in 0 .. N : f[n] = By(f, n)
    BY <1>8, <1>9, <1>10, <2>1
  <2> QED
    BY <1>6, <2>2
<1> DEFINE upTo == CHOOSE m : m = [n \in 0 .. N |-> By(m, n)]
<1>13. upTo = [n \in 0 .. N |-> By(upTo, n)]
  BY <1>12, Zenon
<1>14. Evaluated(e, outs) = upTo[N]
  BY <1>11
<1> HIDE DEF upTo
<1>15. upTo[0] = e
  <2>1. 0 \in 0 .. N
    BY <1>1
  <2> QED
    BY <1>10, <1>13, <2>1
<1>16. \A n \in 1 .. N : upTo[n] = OneMore(upTo[n - 1], n, outs)
  BY <1>7, <1>9, <1>13
<1> DEFINE S == {n \in 0 .. N : EngineOK(upTo[n])}
<1>17. 0 \in S
  BY <1>1, <1>15
<1>18. ASSUME NEW n \in 0 .. N - 1, n \in S
       PROVE  n + 1 \in S
  <2>1. n + 1 \in 1 .. N /\ (n + 1) - 1 = n /\ n + 1 \in 0 .. N
    BY <1>1
  <2>2. upTo[n + 1] = OneMore(upTo[n], n + 1, outs)
    BY <1>16, <2>1
  <2>3. EngineOK(upTo[n]) /\ n + 1 \in Played
    BY <1>1, <1>18, <2>1
  <2> QED
    BY <2>1, <2>2, <2>3, OneMoreStays
<1>19. 0 .. N \subseteq S
  <2> HIDE DEF S
  <2> QED BY <1>1, <1>17, <1>18, Reached
<1> QED
  BY <1>14, <1>15, <1>16, <1>19 DEF Evals, N

(* What comes after output o of an evaluation leaves outputs up to o as    *)
(* they are, and adds to the slots.                                        *)
SameOutput(x, r, p) ==
  (r.valid[p] <=> x.valid[p]) /\ r.program[p] = x.program[p] /\ r.slot[p] = x.slot[p]

After(x, r, o) ==
  /\ Within(x.owner, r.owner) /\ LiveKept(x, r)
  /\ \A p \in 1 .. o : SameOutput(x, r, p)

LEMMA OneMoreIs ==
  ASSUME NEW outs, Asks(outs), NEW x, EngineOK(x), NEW o \in Played
  PROVE  LET r == OneMore(x, o, outs)
         IN /\ Within(x.owner, r.owner) /\ LiveKept(x, r)
            /\ \A p \in Played \ {o} : SameOutput(x, r, p)
<1>1. CASE Given(outs, o)
  <2>1. outs[o] \in Source /\ StateId[outs[o]] \in Ids /\ x.owner \in Owners
    BY <1>1 DEF Given, Asks, Texts, Ids, EngineOK, SlotsOK
  <2>2. Within(x.owner, Grown(x.owner, StateId[outs[o]]))
    BY <2>1, GrownIs
  <2> QED
    BY <1>1, <2>1, <2>2, AssignedIs DEF OneMore, SameOutput
<1>2. CASE ~Given(outs, o)
  <2>1. Len(x.owner) \in Nat
    BY DEF EngineOK, SlotsOK, Owners
  <2> QED
    BY <1>2, <2>1 DEF OneMore, SameOutput, Within, LiveKept
<1> QED
  BY <1>1, <1>2

LEMMA EvalKeeps ==
  ASSUME NEW outs, Asks(outs), NEW e, NEW f, Evals(f, e, outs), NEW o \in 0 .. LastOutput
  PROVE  \A i \in 0 .. LastOutput : o =< i => After(f[o], f[i], o)
<1> DEFINE N == LastOutput
           S == {i \in 0 .. N : o =< i => After(f[o], f[i], o)}
<1>1. N \in Nat /\ Played = 1 .. N /\ o \in 0 .. N
  BY SourceAssumption DEF Played
<1>2. \A i \in 0 .. N : Len(f[i].owner) \in Nat
  BY DEF Evals, EngineOK, SlotsOK, Owners
<1>3. After(f[o], f[o], o)
  BY <1>2 DEF After, Within, LiveKept, SameOutput
<1>4. 0 \in S
  <2>1. 0 \in 0 .. N /\ (o =< 0 => o = 0)
    BY <1>1
  <2> QED
    BY <1>3, <2>1
<1>5. ASSUME NEW i \in 0 .. N - 1, i \in S
      PROVE  i + 1 \in S
  <2>1. i + 1 \in 1 .. N /\ (i + 1) - 1 = i /\ i + 1 \in 0 .. N /\ i + 1 \in Played /\ i \in 0 .. N
    BY <1>1
  <2>2. CASE o = i + 1
    BY <1>3, <2>1, <2>2
  <2>3. CASE ~(o =< i + 1)
    BY <2>1, <2>3
  <2>4. CASE o =< i
    <3>1. After(f[o], f[i], o)
      BY <1>5, <2>4
    <3>2. f[i + 1] = OneMore(f[i], i + 1, outs) /\ EngineOK(f[i])
      <4>1. f[i + 1] = OneMore(f[(i + 1) - 1], i + 1, outs)
        BY <2>1 DEF Evals
      <4> QED
        BY <2>1, <4>1 DEF Evals
    <3>3. /\ Within(f[i].owner, f[i + 1].owner) /\ LiveKept(f[i], f[i + 1])
          /\ \A p \in Played \ {i + 1} : SameOutput(f[i], f[i + 1], p)
      BY <2>1, <3>2, OneMoreIs
    <3>4. \A p \in 1 .. o : p \in Played \ {i + 1}
      BY <1>1, <2>1, <2>4
    <3>5. \A p \in 1 .. o : SameOutput(f[o], f[i + 1], p)
      BY <3>1, <3>3, <3>4 DEF After, SameOutput
    <3>6. LiveKept(f[o], f[i + 1])
      BY <3>1, <3>3 DEF After, LiveKept
    <3>7. Within(f[o].owner, f[i + 1].owner)
      <4>1. Within(f[o].owner, f[i].owner)
        BY <3>1 DEF After
      <4>2. Len(f[o].owner) \in Nat /\ Len(f[i].owner) \in Nat /\ Len(f[i + 1].owner) \in Nat
        BY <1>1, <1>2, <2>1
      <4> QED
        BY <3>3, <4>1, <4>2, WithinBoth
    <3> QED
      BY <2>1, <3>5, <3>6, <3>7 DEF After
  <2>5. o =< i \/ o = i + 1 \/ ~(o =< i + 1)
    BY <1>1, <2>1
  <2> QED
    BY <2>2, <2>3, <2>4, <2>5
<1>6. 0 .. N \subseteq S
  <2> HIDE DEF S
  <2> QED BY <1>1, <1>4, <1>5, Reached
<1> QED
  BY <1>6

LEMMA NewEngineIs ==
  /\ EngineOK(NewEngine) /\ NewEngine.owner = <<>>
  /\ \A o \in Played : NewEngine.slot[o] = 0
<1>1. NewEngine \in EngineType
  <2>1. 0 \in 0 .. MaxStates /\ NoSource \in Texts
    BY SourceAssumption DEF Texts
  <2> QED
    BY <2>1 DEF EngineType, NewEngine
<1>2. /\ NewEngine.owner = <<>> /\ NewEngine.value = <<>> /\ NewEngine.live = <<>>
      /\ NewEngine.valid = [o \in Played |-> FALSE] /\ NewEngine.slot = [o \in Played |-> 0]
  BY DEF NewEngine
<1>3. SlotsOK(NewEngine)
  BY <1>2, SourceAssumption DEF SlotsOK, Owners
<1>4. LiveOK(NewEngine)
  BY <1>2 DEF LiveOK
<1> QED
  BY <1>1, <1>2, <1>3, <1>4 DEF EngineOK

LEMMA NoSlotYet ==
  ASSUME NEW outs, Asks(outs), NEW f, Evals(f, NewEngine, outs)
  PROVE  \A i \in 0 .. LastOutput : \A p \in Played : p > i => f[i].slot[p] = 0
<1> DEFINE N == LastOutput
           S == {i \in 0 .. N : \A p \in Played : p > i => f[i].slot[p] = 0}
<1>1. N \in Nat /\ Played = 1 .. N
  BY SourceAssumption DEF Played
<1>2. 0 \in S
  BY <1>1, NewEngineIs DEF Evals
<1>3. ASSUME NEW i \in 0 .. N - 1, i \in S
      PROVE  i + 1 \in S
  <2>1. i + 1 \in 1 .. N /\ (i + 1) - 1 = i /\ i + 1 \in 0 .. N /\ i + 1 \in Played /\ i \in 0 .. N
    BY <1>1
  <2>2. f[i + 1] = OneMore(f[i], i + 1, outs) /\ EngineOK(f[i])
    <3>1. f[i + 1] = OneMore(f[(i + 1) - 1], i + 1, outs)
      BY <2>1 DEF Evals
    <3> QED
      BY <2>1, <3>1 DEF Evals
  <2>3. \A p \in Played \ {i + 1} : SameOutput(f[i], f[i + 1], p)
    BY <2>1, <2>2, OneMoreIs
  <2>4. \A p \in Played : p > i + 1 => p \in Played \ {i + 1} /\ p > i
    BY <1>1, <2>1
  <2>5. \A p \in Played : p > i + 1 => f[i + 1].slot[p] = 0
    BY <1>3, <2>3, <2>4 DEF SameOutput
  <2> QED
    BY <2>1, <2>5
<1>4. 0 .. N \subseteq S
  <2> HIDE DEF S
  <2> QED BY <1>1, <1>2, <1>3, Reached
<1> QED
  BY <1>4

LEMMA EvalsAlike ==
  ASSUME NEW outs, Asks(outs), NEW b, NEW f, NEW g,
         Evals(f, NewEngine, outs), Evals(g, b, outs), Within(b.owner, f[LastOutput].owner),
         b.owner # <<>> => \A k \in 1 .. Len(f[LastOutput].owner) : f[LastOutput].owner[k] # Unnamed
  PROVE  \A i \in 0 .. LastOutput : Alike(f[i].owner, g[i].owner, f[LastOutput].owner)
<1> DEFINE N == LastOutput
           F == f[N].owner
           S == {i \in 0 .. N : Alike(f[i].owner, g[i].owner, F)}
<1>1. N \in Nat /\ Played = 1 .. N
  BY SourceAssumption DEF Played
<1>2. 0 \in S
  <2>1. f[0] = NewEngine /\ g[0] = b /\ 0 \in 0 .. N /\ EngineOK(b)
    BY <1>1 DEF Evals
  <2>2. Len(b.owner) \in Nat /\ Len(<<>>) = 0
    BY <2>1 DEF EngineOK, SlotsOK, Owners
  <2>3. Within(<<>>, b.owner)
    BY <2>2 DEF Within
  <2>4. CASE b.owner = <<>>
    BY <2>1, <2>3, <2>4, NewEngineIs DEF Alike
  <2>5. CASE b.owner # <<>>
    BY <2>1, <2>3, <2>5, NewEngineIs DEF Alike
  <2> QED
    BY <2>4, <2>5
<1>3. F \in Owners
  BY <1>1 DEF Evals, EngineOK, SlotsOK
<1>4. ASSUME NEW i \in 0 .. N - 1, i \in S
      PROVE  i + 1 \in S
  <2> DEFINE j == i + 1
  <2>1. j \in 1 .. N /\ j - 1 = i /\ j \in 0 .. N /\ j \in Played /\ i \in 0 .. N /\ N \in 0 .. N
        /\ j =< N
    BY <1>1
  <2> HIDE DEF j
  <2>2. /\ f[j] = OneMore(f[i], j, outs) /\ EngineOK(f[i])
        /\ g[j] = OneMore(g[i], j, outs) /\ EngineOK(g[i])
    <3>1. f[j] = OneMore(f[j - 1], j, outs) /\ g[j] = OneMore(g[j - 1], j, outs)
      BY <2>1 DEF Evals
    <3> QED
      BY <2>1, <3>1 DEF Evals
  <2>3. Within(f[j].owner, F)
    <3>1. After(f[j], f[N], j)
      BY <2>1, EvalKeeps
    <3> QED
      BY <3>1 DEF After
  <2>4. Alike(f[i].owner, g[i].owner, F)
    BY <1>4
  <2>5. CASE Given(outs, j)
    <3> DEFINE id == StateId[outs[j]]
    <3>1. outs[j] \in Source /\ id \in Ids
      BY <2>5 DEF Given, Asks, Texts, Ids
    <3>2. f[j].owner = Grown(f[i].owner, id) /\ g[j].owner = Grown(g[i].owner, id)
      BY <2>1, <2>2, <2>5, <3>1, AssignedIs DEF OneMore
    <3>3. f[i].owner \in Owners /\ g[i].owner \in Owners
      BY <2>2 DEF EngineOK, SlotsOK
    <3> HIDE DEF id, F
    <3>4. Alike(Grown(f[i].owner, id), Grown(g[i].owner, id), F)
      BY <1>3, <2>3, <2>4, <3>1, <3>2, <3>3, AlikeNext
    <3> QED
      BY <2>1, <3>2, <3>4 DEF j, F
  <2>6. CASE ~Given(outs, j)
    BY <2>1, <2>2, <2>4, <2>6 DEF OneMore, j
  <2> QED
    BY <2>5, <2>6
<1>5. 0 .. N \subseteq S
  <2> HIDE DEF S
  <2> QED BY <1>1, <1>2, <1>4, Reached
<1> QED
  BY <1>5

-----------------------------------------------------------------------------
(* The values are put in.                                                  *)
LEMMA SnapshotIs ==
  ASSUME NEW d, EngineOK(d)
  PROVE  LET s == Snapshots(d)
         IN /\ Asks(s.outputs) /\ s.states = d.value /\ s.live = d.live
            /\ \A o \in Played : d.valid[o] => /\ Given(s.outputs, o)
                                               /\ s.outputs[o] = d.program[o]
<1> DEFINE s == Snapshots(d)
           outs == s.outputs
<1>1. /\ outs = [o \in {p \in Played : d.program[p] # NoSource \/ d.source[p] # NoSource} |->
                   d.source[o]]
      /\ s.states = d.value /\ s.live = d.live
  BY DEF Snapshots
<1>2. \A o \in Played : d.source[o] \in Texts
  BY DEF EngineOK, EngineType
<1> HIDE DEF s, outs
<1>3. Asks(outs)
  BY <1>1, <1>2 DEF Asks
<1>4. ASSUME NEW o \in Played, d.valid[o]
      PROVE  Given(outs, o) /\ outs[o] = d.program[o]
  <2>1. d.program[o] \in Source /\ d.source[o] = d.program[o]
    BY <1>4 DEF EngineOK, Plays
  <2>2. d.program[o] # NoSource
    BY <2>1, SourceAssumption
  <2> QED
    BY <1>1, <2>1, <2>2 DEF Given
<1> QED
  BY <1>1, <1>3, <1>4 DEF s, outs

LEMMA PatchedIs ==
  ASSUME NEW d, EngineOK(d), NEW r, EngineOK(r)
  PROVE  LET p == Patched(r, Snapshots(d))
         IN /\ EngineOK(p)
            /\ p.valid = r.valid /\ p.program = r.program /\ p.slot = r.slot
            /\ \A k \in DOMAIN r.value : k \in DOMAIN d.value => p.value[k] = d.value[k]
            /\ \A i \in DOMAIN d.live, j \in DOMAIN r.live :
                 r.live[j].id = d.live[i].id => j \in DOMAIN p.live /\ p.live[j] = d.live[i]
<1> DEFINE s == Snapshots(d)
           p == Patched(r, s)
           Of(id) == {i \in DOMAIN s.live : s.live[i].id = id}
           values == [k \in DOMAIN r.value |->
                        IF k \in DOMAIN s.states THEN s.states[k] ELSE r.value[k]]
           lives == [i \in DOMAIN r.live |->
                       IF Of(r.live[i].id) = {} THEN r.live[i]
                       ELSE [r.live[i] EXCEPT !.value = s.live[Max(Of(r.live[i].id))].value]]
<1>1. s.states = d.value /\ s.live = d.live
  BY SnapshotIs
<1>2. /\ d \in EngineType /\ r \in EngineType
      /\ d.value \in Seq(Held) /\ r.value \in Seq(Held)
      /\ d.live \in Seq(LiveSlot) /\ r.live \in Seq(LiveSlot)
  BY DEF EngineOK, EngineType
<1>3. p = [r EXCEPT !.value = values, !.live = lives]
  BY DEF Patched
<1>4. /\ DOMAIN d.live = 1 .. Len(d.live) /\ DOMAIN r.live = 1 .. Len(r.live)
      /\ Len(d.live) \in Nat /\ Len(r.live) \in Nat
      /\ \A i \in DOMAIN d.live : d.live[i] \in LiveSlot
      /\ \A i \in DOMAIN r.live : r.live[i] \in LiveSlot
  BY <1>2
<1>5. \A i \in DOMAIN d.live : Of(d.live[i].id) = {i} /\ Max(Of(d.live[i].id)) = i
  <2> SUFFICES ASSUME NEW i \in DOMAIN d.live
               PROVE  Of(d.live[i].id) = {i} /\ Max(Of(d.live[i].id)) = i
    OBVIOUS
  <2>1. Of(d.live[i].id) = {i}
    BY <1>1 DEF EngineOK, LiveOK
  <2>2. Max({i}) = i
    <3> DEFINE T == {i}
    <3>1. T \in SUBSET Int /\ i \in T /\ \A y \in T : i >= y
      BY <1>4
    <3> HIDE DEF T
    <3>2. Max(T) = i
      BY <3>1, GreatestIs
    <3> QED
      BY <3>2 DEF T
  <2> QED
    BY <2>1, <2>2
<1>6. ASSUME NEW j \in DOMAIN r.live
      PROVE  /\ lives[j] \in LiveSlot /\ lives[j].id = r.live[j].id
             /\ \A i \in DOMAIN d.live : r.live[j].id = d.live[i].id => lives[j] = d.live[i]
  <2>1. CASE Of(r.live[j].id) = {}
    <3>1. lives[j] = r.live[j]
      BY <2>1
    <3>2. \A i \in DOMAIN d.live : r.live[j].id # d.live[i].id
      BY <1>5, <2>1
    <3> QED
      BY <1>4, <3>1, <3>2
  <2>2. CASE Of(r.live[j].id) # {}
    <3>1. PICK i \in DOMAIN d.live : d.live[i].id = r.live[j].id
      BY <1>1, <2>2
    <3>2. Max(Of(r.live[j].id)) = i
      BY <1>5, <3>1
    <3>3. lives[j] = [r.live[j] EXCEPT !.value = d.live[i].value]
      BY <1>1, <2>2, <3>2
    <3>4. r.live[j] \in LiveSlot /\ d.live[i] \in LiveSlot
      BY <1>4
    <3> HIDE DEF lives
    <3>5. lives[j] = d.live[i]
      BY <3>1, <3>3, <3>4 DEF LiveSlot
    <3>6. \A k \in DOMAIN d.live : r.live[j].id = d.live[k].id => k = i
      BY <3>1 DEF EngineOK, LiveOK
    <3> QED
      BY <3>1, <3>4, <3>5, <3>6
  <2> QED
    BY <2>1, <2>2
<1>7. /\ values \in Seq(Held) /\ Len(values) = Len(r.value)
      /\ \A k \in DOMAIN r.value : k \in DOMAIN d.value => values[k] = d.value[k]
  <2>1. /\ DOMAIN r.value = 1 .. Len(r.value) /\ Len(r.value) \in Nat
        /\ \A k \in DOMAIN r.value : r.value[k] \in Held
        /\ \A k \in DOMAIN d.value : d.value[k] \in Held
    BY <1>2
  <2>2. values \in [1 .. Len(r.value) -> Held]
    BY <1>1, <2>1
  <2>3. \A k \in DOMAIN r.value : k \in DOMAIN d.value => values[k] = d.value[k]
    BY <1>1
  <2> HIDE DEF values
  <2> QED
    BY <2>1, <2>2, <2>3
<1>8. lives \in Seq(LiveSlot) /\ DOMAIN lives = DOMAIN r.live
  <2>1. \A j \in DOMAIN r.live : lives[j] \in LiveSlot
    BY <1>6
  <2>2. DOMAIN lives = 1 .. Len(r.live) /\ lives = [j \in 1 .. Len(r.live) |-> lives[j]]
    BY <1>4
  <2> HIDE DEF lives
  <2>3. lives \in [1 .. Len(r.live) -> LiveSlot]
    BY <1>4, <2>1, <2>2
  <2> QED
    BY <1>4, <2>3
<1> HIDE DEF values, lives
<1>9. /\ p \in EngineType /\ p.source = r.source /\ p.program = r.program /\ p.valid = r.valid
      /\ p.slot = r.slot /\ p.owner = r.owner /\ p.value = values /\ p.live = lives
  BY <1>2, <1>3, <1>7, <1>8 DEF EngineType
<1> HIDE DEF p
<1>10. EngineOK(p)
  <2>1. SlotsOK(p)
    BY <1>7, <1>9 DEF SlotsOK, EngineOK
  <2>2. LiveOK(p)
    BY <1>6, <1>8, <1>9 DEF LiveOK, EngineOK
  <2>3. \A o \in Played : p.valid[o] => Plays(p, o)
    BY <1>9 DEF EngineOK, Plays
  <2> QED
    BY <1>9, <2>1, <2>2, <2>3 DEF EngineOK
<1> QED
  BY <1>6, <1>7, <1>8, <1>9, <1>10 DEF p, s

LEMMA PrefixWithin ==
  ASSUME NEW s \in Owners, NEW t \in Owners, IsPrefix(s, t)
  PROVE  Within(s, t)
<1>1. /\ s \in Seq(Ids) /\ t \in Seq(Ids) /\ Len(s) \in Nat /\ Len(t) \in Nat /\ Len(s) =< Len(t)
      /\ SubSeq(s, 1, Len(s)) = SubSeq(t, 1, Len(s))
  BY DEF Owners, IsPrefix
<1>2. \A k \in 1 .. Len(s) : SubSeq(s, 1, Len(s))[k] = s[k] /\ SubSeq(t, 1, Len(s))[k] = t[k]
  BY <1>1
<1> QED
  BY <1>1, <1>2 DEF Within

(* The engine p plays what output o of d plays, from where d is.           *)
PlaysOn(p, d, o) ==
  /\ p.valid[o] /\ p.program[o] = d.program[o]
  /\ d.slot[o] # 0 => p.value[p.slot[o]] = d.value[d.slot[o]]
  /\ \A i \in DOMAIN d.live :
       d.live[i].id = LiveId[d.program[o]] => d.live[i] \in ToSet(p.live)

LEMMA AppliedAgrees ==
  ASSUME NEW d, EngineOK(d), NEW b, EngineOK(b), NEW anew,
         anew = Evaluated(NewEngine, Snapshots(d).outputs),
         d.owner = anew.owner, \A o \in Played : d.valid[o] => d.slot[o] = anew.slot[o],
         IsPrefix(b.owner, d.owner), b.owner # <<>> => ~Contains(d.owner, Unnamed)
  PROVE  /\ EngineOK(Applied(b, Snapshots(d)))
         /\ \A o \in Played : d.valid[o] => PlaysOn(Applied(b, Snapshots(d)), d, o)
<1> DEFINE s == Snapshots(d)
           outs == s.outputs
           N == LastOutput
<1>1. /\ Asks(outs)
      /\ \A o \in Played : d.valid[o] => Given(outs, o) /\ outs[o] = d.program[o]
  BY SnapshotIs
<1>2. N \in Nat /\ Played = 1 .. N
  BY SourceAssumption DEF Played
<1> HIDE DEF s, outs, N
<1>3. PICK f : Evals(f, NewEngine, outs)
  BY <1>1, NewEngineIs, EvalSteps
<1>4. PICK g : Evals(g, b, outs)
  BY <1>1, EvalSteps
<1>5. anew = f[N] /\ Evaluated(b, outs) = g[N]
  BY <1>3, <1>4 DEF Evals, s, outs, N
<1>6. EngineOK(g[N]) /\ d.owner \in Owners /\ b.owner \in Owners /\ d.owner = f[N].owner
  BY <1>2, <1>4, <1>5 DEF Evals, EngineOK, SlotsOK, N
<1>7. \A i \in 0 .. N : Alike(f[i].owner, g[i].owner, d.owner)
  <2>1. Within(b.owner, d.owner)
    BY <1>6, PrefixWithin
  <2>2. b.owner # <<>> => \A k \in 1 .. Len(d.owner) : d.owner[k] # Unnamed
    BY DEF Contains
  <2>3. /\ Within(b.owner, f[N].owner)
        /\ b.owner # <<>> => \A k \in 1 .. Len(f[N].owner) : f[N].owner[k] # Unnamed
    BY <1>6, <2>1, <2>2
  <2>4. \A i \in 0 .. N : Alike(f[i].owner, g[i].owner, f[N].owner)
    BY <1>1, <1>3, <1>4, <2>3, EvalsAlike DEF N
  <2> QED
    BY <1>6, <2>4
<1> DEFINE r == g[N]
           p == Patched(r, s)
<1>8. Applied(b, s) = p
  BY <1>5 DEF Applied, outs
<1>9. /\ EngineOK(p) /\ p.valid = r.valid /\ p.program = r.program /\ p.slot = r.slot
      /\ \A k \in DOMAIN r.value : k \in DOMAIN d.value => p.value[k] = d.value[k]
      /\ \A i \in DOMAIN d.live, j \in DOMAIN r.live :
           r.live[j].id = d.live[i].id => j \in DOMAIN p.live /\ p.live[j] = d.live[i]
  BY <1>6, PatchedIs DEF s
<1> HIDE DEF p
<1>10. ASSUME NEW o \in Played, d.valid[o]
       PROVE  PlaysOn(p, d, o)
  <2> DEFINE t == d.program[o]
             id == StateId[t]
             x == f[o - 1]
             y == g[o - 1]
  <2>1. /\ t \in Source /\ t \notin Faulty /\ id \in Ids /\ Given(outs, o) /\ outs[o] = t
        /\ id = NoId => d.slot[o] = 0
        /\ id # NoId => d.slot[o] \in 1 .. Len(d.owner)
    BY <1>1, <1>10 DEF EngineOK, Plays, Ids
  <2>2. o \in 1 .. N /\ o \in 0 .. N /\ o - 1 \in 0 .. N /\ N \in 0 .. N /\ o =< N /\ o > o - 1
    BY <1>2
  <2>3. f[o] = Assigned(x, o, t) /\ g[o] = Assigned(y, o, t) /\ EngineOK(x) /\ EngineOK(y)
        /\ EngineOK(g[o])
    <3>1. f[o] = OneMore(x, o, outs) /\ g[o] = OneMore(y, o, outs)
      BY <1>3, <1>4, <2>2 DEF Evals, N
    <3> QED
      BY <1>3, <1>4, <2>1, <2>2, <3>1 DEF Evals, OneMore, N
  <2>4. x.slot[o] = 0
    BY <1>1, <1>3, <2>2, NoSlotYet DEF N
  <2>5. After(f[o], f[N], o) /\ After(g[o], r, o)
    BY <1>1, <1>3, <1>4, <2>2, EvalKeeps DEF N
  <2>6. SameOutput(f[o], f[N], o) /\ SameOutput(g[o], r, o) /\ LiveKept(g[o], r)
        /\ Within(g[o].owner, r.owner)
    <3>1. o \in 1 .. o
      BY <2>2
    <3> QED
      BY <2>5, <3>1 DEF After
  <2>7. x.owner \in Owners /\ y.owner \in Owners /\ Alike(x.owner, y.owner, d.owner)
    BY <1>7, <2>2, <2>3 DEF EngineOK, SlotsOK
  <2> HIDE DEF t, id, x, y, r
  <2>8. f[o].slot[o] = d.slot[o]
    BY <1>5, <1>10, <2>6 DEF SameOutput
  <2>9. id # NoId => /\ Compiles(x, t) /\ SlotIn(x.owner, id) = d.slot[o]
                     /\ SlotIn(x.owner, id) =< MaxStates
    <3>1. SUFFICES ASSUME id # NoId
                   PROVE  /\ Compiles(x, t) /\ SlotIn(x.owner, id) = d.slot[o]
                          /\ SlotIn(x.owner, id) =< MaxStates
      OBVIOUS
    <3>2. f[o].slot[o] # 0
      <4>1. Len(d.owner) \in Nat
        BY <1>6 DEF Owners
      <4> QED
        BY <2>1, <2>8, <3>1, <4>1
    <3>3. Compiles(x, t)
      BY <2>1, <2>3, <2>4, <3>2, AssignedIs
    <3>4. f[o].slot[o] = SlotIn(x.owner, id)
      BY <2>1, <2>3, <3>1, <3>3, AssignedIs DEF id
    <3>5. SlotIn(x.owner, id) =< MaxStates
      BY <3>1, <3>3 DEF Compiles, id
    <3> QED
      BY <2>8, <3>3, <3>4, <3>5
  <2>10. id # NoId => SlotIn(y.owner, id) = SlotIn(x.owner, id)
    <3>1. f[o].owner = Grown(x.owner, id)
      BY <2>1, <2>3, AssignedIs DEF id
    <3>2. Within(Grown(x.owner, id), d.owner)
      BY <1>6, <2>5, <3>1 DEF After
    <3> QED
      BY <1>6, <2>1, <2>7, <2>9, <3>2, AlikeNext
  <2>11. Compiles(y, t)
    BY <2>1, <2>9, <2>10 DEF Compiles, id
  <2>12. /\ g[o].valid[o] /\ g[o].program[o] = t
         /\ g[o].slot[o] = IF id = NoId THEN 0 ELSE SlotIn(y.owner, id)
         /\ LiveId[t] # NoId => \E i \in DOMAIN g[o].live : g[o].live[i].id = LiveId[t]
    BY <2>1, <2>3, <2>11, AssignedIs DEF id
  <2>13. p.valid[o] /\ p.program[o] = t /\ p.slot[o] = d.slot[o]
    <3>1. p.valid[o] /\ p.program[o] = t
      BY <1>9, <2>6, <2>12 DEF SameOutput
    <3>2. p.slot[o] = d.slot[o]
      BY <1>9, <2>1, <2>6, <2>9, <2>10, <2>12 DEF SameOutput
    <3> QED
      BY <3>1, <3>2
  <2>14. d.slot[o] # 0 => p.value[p.slot[o]] = d.value[d.slot[o]]
    <3>1. SUFFICES ASSUME d.slot[o] # 0
                   PROVE  p.value[d.slot[o]] = d.value[d.slot[o]]
      BY <2>13
    <3>2. id # NoId
      BY <2>1, <3>1
    <3>3. d.slot[o] \in DOMAIN d.value
      <4>1. d.value \in Seq(Held) /\ Len(d.value) = Len(d.owner)
        BY DEF EngineOK, EngineType, SlotsOK
      <4> QED
        BY <2>1, <3>2, <4>1
    <3>4. d.slot[o] \in DOMAIN r.value
      <4>1. /\ r.value \in Seq(Held) /\ Len(r.value) = Len(r.owner) /\ Len(r.owner) \in Nat
            /\ r.valid[o] /\ Plays(r, o)
        BY <1>6, <1>9, <2>13 DEF EngineOK, EngineType, SlotsOK, Owners, r
      <4>2. r.slot[o] \in 1 .. Len(r.owner)
        <5>1. r.program[o] = t /\ r.slot[o] = d.slot[o]
          BY <1>9, <2>13
        <5> QED
          BY <3>2, <4>1, <5>1 DEF Plays, id
      <4> QED
        BY <1>9, <2>13, <4>1, <4>2
    <3> QED
      BY <1>9, <3>3, <3>4
  <2>15. ASSUME NEW i \in DOMAIN d.live, d.live[i].id = LiveId[t]
         PROVE  d.live[i] \in ToSet(p.live)
    <3>1. LiveId[t] # NoId
      BY <2>15 DEF EngineOK, LiveOK
    <3>2. PICK j \in DOMAIN g[o].live : g[o].live[j].id = LiveId[t]
      BY <2>12, <3>1
    <3>3. j \in DOMAIN r.live /\ r.live[j].id = d.live[i].id
      BY <2>6, <2>15, <3>2 DEF LiveKept
    <3> QED
      BY <1>9, <3>3 DEF ToSet
  <2> QED
    BY <2>13, <2>14, <2>15 DEF PlaysOn, t
<1> QED
  BY <1>8, <1>9, <1>10 DEF s

-----------------------------------------------------------------------------
(* The steps of a snapshot.                                                *)
LEMMA AppliedIs ==
  ASSUME NEW d, EngineOK(d), NEW b, EngineOK(b)
  PROVE  EngineOK(Applied(b, Snapshots(d)))
<1>1. Asks(Snapshots(d).outputs)
  BY SnapshotIs
<1>2. PICK g : Evals(g, b, Snapshots(d).outputs)
  BY <1>1, EvalSteps
<1>3. EngineOK(Evaluated(b, Snapshots(d).outputs))
  <2>1. LastOutput \in 0 .. LastOutput
    BY SourceAssumption
  <2> QED
    BY <1>2, <2>1 DEF Evals
<1> QED
  BY <1>3, PatchedIs DEF Applied

LEMMA ClearedIs ==
  ASSUME NEW e, EngineOK(e)
  PROVE  EngineOK(Cleared(e))
<1> DEFINE c == Cleared(e)
<1>1. NewEngine \in EngineType /\ SlotsOK(NewEngine) /\ NewEngine.valid = [o \in Played |-> FALSE]
  BY NewEngineIs DEF EngineOK, NewEngine
<1>2. e.live \in Seq(LiveSlot) /\ LiveOK(e)
  BY DEF EngineOK, EngineType
<1>3. /\ c \in EngineType /\ c.owner = NewEngine.owner /\ c.value = NewEngine.value
      /\ c.live = e.live /\ c.valid = NewEngine.valid
  BY <1>1, <1>2 DEF Cleared, EngineType
<1> HIDE DEF c
<1>4. SlotsOK(c) /\ LiveOK(c) /\ \A o \in Played : ~c.valid[o]
  BY <1>1, <1>2, <1>3 DEF SlotsOK, LiveOK
<1> QED
  BY <1>3, <1>4 DEF EngineOK, c

LEMMA MovedIs ==
  ASSUME NEW e, EngineOK(e), NEW v \in Value, NEW m \in Moved(e, v)
  PROVE  EngineOK(m)
<1>1. e \in EngineType /\ v \in Held /\ e.value \in Seq(Held) /\ e.live \in Seq(LiveSlot)
  BY DEF EngineOK, EngineType, Held
<1>2. CASE \E k \in DOMAIN e.value : m = [e EXCEPT !.value[k] = v]
  <2>1. PICK k \in DOMAIN e.value : m = [e EXCEPT !.value[k] = v]
    BY <1>2
  <2> DEFINE values == [e.value EXCEPT ![k] = v]
  <2>2. values \in Seq(Held) /\ Len(values) = Len(e.value)
    BY <1>1
  <2>3. m = [e EXCEPT !.value = values]
    BY <2>1
  <2> HIDE DEF values
  <2>4. /\ m \in EngineType /\ m.owner = e.owner /\ m.value = values /\ m.live = e.live
        /\ m.source = e.source /\ m.program = e.program /\ m.valid = e.valid /\ m.slot = e.slot
    BY <1>1, <2>2, <2>3 DEF EngineType
  <2> QED
    BY <2>2, <2>4 DEF EngineOK, SlotsOK, LiveOK, Plays
<1>3. CASE \E i \in DOMAIN e.live : m = [e EXCEPT !.live[i].value = v]
  <2>1. PICK i \in DOMAIN e.live : m = [e EXCEPT !.live[i].value = v]
    BY <1>3
  <2> DEFINE new == [e.live[i] EXCEPT !.value = v]
             lives == [e.live EXCEPT ![i] = new]
  <2>2. e.live[i] \in LiveSlot
    BY <1>1
  <2>3. new \in LiveSlot /\ new.id = e.live[i].id
    BY <1>1, <2>2 DEF LiveSlot
  <2>4. m = [e EXCEPT !.live = lives]
    BY <2>1
  <2> HIDE DEF new
  <2>5. lives \in Seq(LiveSlot) /\ DOMAIN lives = DOMAIN e.live
    BY <1>1, <2>3
  <2>6. \A j \in DOMAIN e.live : lives[j].id = e.live[j].id
    BY <2>3
  <2> HIDE DEF lives
  <2>7. /\ m \in EngineType /\ m.owner = e.owner /\ m.value = e.value /\ m.live = lives
        /\ m.source = e.source /\ m.program = e.program /\ m.valid = e.valid /\ m.slot = e.slot
    BY <1>1, <2>4, <2>5 DEF EngineType
  <2>8. LiveOK(m)
    BY <2>5, <2>6, <2>7 DEF EngineOK, LiveOK
  <2> QED
    BY <2>7, <2>8 DEF EngineOK, SlotsOK, Plays
<1> QED
  BY <1>2, <1>3 DEF Moved

MirrorInv ==
  /\ EngineOK(device) /\ EngineOK(browser) /\ EngineOK(taken) /\ EngineOK(before)
  /\ reply # NoReply => reply = Snapshots(taken)
  /\ agreed => browser = Applied(before, Snapshots(taken))

LEMMA MirrorMoves ==
  ASSUME MirrorInv, [SnapshotNext]_snapshot
  PROVE  MirrorInv'
<1>1. /\ EngineOK(device) /\ EngineOK(browser) /\ EngineOK(taken) /\ EngineOK(before)
      /\ reply # NoReply => reply = Snapshots(taken)
  BY DEF MirrorInv
<1>2. ASSUME Works, EngineOK(device'), EngineOK(browser')
      PROVE  MirrorInv'
  BY <1>1, <1>2 DEF Works, MirrorInv
<1>3. CASE Evaluate
  <2>1. PICK o \in Played, t \in Source :
          \/ device' = Assigned(device, o, t) /\ UNCHANGED browser
          \/ browser' = Assigned(browser, o, t) /\ UNCHANGED device
    BY <1>3 DEF Evaluate
  <2>2. EngineOK(Assigned(device, o, t)) /\ EngineOK(Assigned(browser, o, t))
    BY <1>1, AssignedIs
  <2> QED
    BY <1>1, <1>2, <1>3, <2>1, <2>2 DEF Evaluate
<1>4. CASE Clear
  <2>1. EngineOK(Cleared(device)) /\ EngineOK(Cleared(browser))
    BY <1>1, ClearedIs
  <2> QED
    BY <1>1, <1>2, <1>4, <2>1 DEF Clear
<1>5. CASE Tick
  <2>1. PICK v \in Value \ {Seed} :
          \/ device' \in Moved(device, v) /\ UNCHANGED browser
          \/ browser' \in Moved(browser, v) /\ UNCHANGED device
    BY <1>5 DEF Tick
  <2> QED
    BY <1>1, <1>2, <1>5, <2>1, MovedIs DEF Tick
<1>6. CASE GetState
  BY <1>1, <1>6 DEF GetState, MirrorInv
<1>7. CASE Apply
  <2>1. reply = Snapshots(taken) /\ browser' = Applied(browser, Snapshots(taken))
    BY <1>1, <1>7 DEF Apply
  <2>2. EngineOK(browser')
    BY <1>1, <2>1, AppliedIs
  <2> QED
    BY <1>1, <1>7, <2>1, <2>2 DEF Apply, MirrorInv
<1>8. CASE UNCHANGED snapshot
  BY <1>8 DEF MirrorInv, snapshot
<1> QED
  BY <1>3, <1>4, <1>5, <1>6, <1>7, <1>8 DEF SnapshotNext

(* Whatever both engines were doing, for any texts, identifiers, numbers   *)
(* of outputs and of slots, right after a snapshot the browser plays what  *)
(* the device was playing, from the same states and live edits, when the   *)
(* numbers of the slots mean the same in both (useq_apply_state_snapshot). *)
THEOREM MirrorsAgree == SnapshotSpec => []MirrorAgrees
<1>1. SnapshotInit => MirrorInv
  BY NewEngineIs DEF SnapshotInit, MirrorInv
<1>2. MirrorInv => MirrorAgrees
  <2>1. SUFFICES ASSUME MirrorInv, agreed, SameNumbers
                 PROVE  \A o \in Played : taken.valid[o] => PlaysOn(browser, taken, o)
    BY DEF MirrorAgrees, PlaysOn
  <2> DEFINE anew == Evaluated(NewEngine, Snapshots(taken).outputs)
  <2>2. /\ taken.owner = anew.owner
        /\ \A o \in Played : taken.valid[o] => taken.slot[o] = anew.slot[o]
        /\ IsPrefix(before.owner, taken.owner)
        /\ before.owner # <<>> => ~Contains(taken.owner, Unnamed)
    BY <2>1 DEF SameNumbers
  <2>3. EngineOK(taken) /\ EngineOK(before) /\ browser = Applied(before, Snapshots(taken))
    BY <2>1 DEF MirrorInv
  <2> QED
    BY <2>2, <2>3, AppliedAgrees
<1>3. MirrorInv /\ [SnapshotNext]_snapshot => MirrorInv'
  BY MirrorMoves
<1> QED
  BY <1>1, <1>2, <1>3, PTL DEF SnapshotSpec

-----------------------------------------------------------------------------
(* The numbers of the nodes, and those with the one that stands for none.  *)
PoolNodes == 1 .. Len(pool)

Numbers == 0 .. Len(pool)

AnyNode == Leaf \cup UNION {Inner(n) : n \in Nat}

(* Nodes have inputs of lower numbers, and only operators have any.        *)
PoolOK ==
  /\ pool \in Seq(AnyNode)
  /\ \A i \in PoolNodes :
       /\ pool[i].op \in ReadsThePast \cup {"InputLoad", "Const", "Operator"}
       /\ pool[i].op = "InputLoad" => pool[i].input \in HwInput
       /\ \A c \in 1 .. 3 : pool[i].args[c] \in 0 .. i - 1
       /\ pool[i].op # "Operator" => \A c \in 1 .. 3 : pool[i].args[c] = 0

(* What the node i reads itself.                                           *)
ReadsItself(i, x) ==
  \/ pool[i].op \in ReadsThePast /\ x = "state"
  \/ pool[i].op = "InputLoad" /\ x = pool[i].input

Valued(v, w) ==
  /\ v \in [Numbers -> Nat] /\ v[0] = 0
  /\ \A i \in PoolNodes : v[i] = NodeValue(i, v, w)

LEMMA ValueIsNat ==
  ASSUME PoolOK, NEW w \in World, NEW v \in [Numbers -> Nat], NEW i \in PoolNodes
  PROVE  NodeValue(i, v, w) \in Nat
<1>1. Len(pool) \in Nat /\ i \in 1 .. Len(pool)
  BY DEF PoolOK, PoolNodes
<1>2. \A c \in 1 .. 3 : pool[i].args[c] \in Numbers
  BY <1>1 DEF PoolOK, PoolNodes, Numbers
<1>3. v[pool[i].args[1]] \in Nat /\ v[pool[i].args[2]] \in Nat /\ v[pool[i].args[3]] \in Nat
  BY <1>2
<1>4. w["state"] \in Nat
  BY DEF World
<1>5. pool[i].op = "InputLoad" => w[pool[i].input] \in Nat
  BY DEF World, PoolOK
<1> QED
  BY <1>3, <1>4, <1>5 DEF NodeValue

(* A node's value is made of those of lower numbers.                       *)
LEMMA ValueFromLower ==
  ASSUME PoolOK, NEW w, NEW u, NEW v, NEW i \in PoolNodes, \A j \in 0 .. i - 1 : u[j] = v[j]
  PROVE  NodeValue(i, u, w) = NodeValue(i, v, w)
<1>1. \A c \in 1 .. 3 : u[pool[i].args[c]] = v[pool[i].args[c]]
  BY DEF PoolOK
<1> QED
  BY <1>1 DEF NodeValue

(* The values of the loop that fills the workspace, after each node.       *)
Fills(f, w) ==
  /\ f \in [Numbers -> [Numbers -> Nat]]
  /\ f[0] = [i \in Numbers |-> 0]
  /\ \A n \in PoolNodes : f[n] = [f[n - 1] EXCEPT ![n] = NodeValue(n, f[n - 1], w)]
  /\ Workspace(w) = f[Len(pool)]

LEMMA FillSteps ==
  ASSUME PoolOK, NEW w \in World
  PROVE  \E f : Fills(f, w)
<1> DEFINE N == Len(pool)
           Y == [Numbers -> Nat]
           Z == [i \in Numbers |-> 0]
           Put(n, v) == [v EXCEPT ![n] = NodeValue(n, v, w)]
           g == [x \in (1 .. N) \X Y |-> Put(x[1], x[2])]
<1>1. N \in Nat /\ PoolNodes = 1 .. N /\ Numbers = 0 .. N
  BY DEF PoolOK, PoolNodes, Numbers
<1>2. \A n \in 1 .. N, v \in Y : Put(n, v) \in Y
  <2> SUFFICES ASSUME NEW n \in 1 .. N, NEW v \in Y
               PROVE  Put(n, v) \in Y
    OBVIOUS
  <2>1. NodeValue(n, v, w) \in Nat
    BY <1>1, ValueIsNat
  <2> QED
    BY <2>1
<1>3. \A n \in 1 .. N, v \in Y : g[<<n, v>>] = Put(n, v)
  OBVIOUS
<1>4. Z \in Y
  OBVIOUS
<1> HIDE DEF g, Put, Y, Z, N
<1>5. Stays(g, N, Y)
  BY <1>2, <1>3 DEF Stays
<1>6. PICK f \in [0 .. N -> Y] : Follows(f, g, N, Z)
  BY <1>1, <1>4, <1>5, Recursion
<1>7. \A n \in 1 .. N : n \in 0 .. N /\ n # 0 /\ n - 1 \in 0 .. N
  BY <1>1
<1>8. f[0] = Z /\ \A n \in 1 .. N : f[n] = Put(n, f[n - 1])
  BY <1>3, <1>6, <1>7 DEF Follows
<1> DEFINE By(m, n) == IF n = 0 THEN Z ELSE Put(n, m[n - 1])
<1>9. Workspace(w) = (CHOOSE m : m = [n \in 0 .. N |-> By(m, n)])[N]
  BY DEF Workspace, By, Put, Z, N, Numbers
<1>10. /\ \A m, n : n # 0 => By(m, n) = Put(n, m[n - 1])
       /\ \A m : By(m, 0) = Z
  OBVIOUS
<1> HIDE DEF By
<1>11. f = [n \in 0 .. N |-> By(f, n)]
  <2>1. \A n \in 0 .. N : f[n] = By(f, n)
    <3> TAKE n \in 0 .. N
    <3>1. CASE n = 0
      BY <1>8, <1>10, <3>1
    <3>2. CASE n # 0
      <4>1. n \in 1 .. N
        BY <1>1, <3>2
      <4> QED
        BY <1>8, <1>10, <3>2, <4>1
    <3> QED
      BY <3>1, <3>2
  <2> QED
    BY <1>6, <2>1
<1> DEFINE m == CHOOSE m : m = [n \in 0 .. N |-> By(m, n)]
<1>12. m = [n \in 0 .. N |-> By(m, n)]
  BY <1>11, Zenon
<1>13. Workspace(w) = m[N]
  BY <1>9
<1> HIDE DEF m
<1>14. /\ m[0] = Z
       /\ \A n \in 1 .. N : m[n] = Put(n, m[n - 1])
  <2>1. 0 \in 0 .. N
    BY <1>1
  <2>2. m[0] = By(m, 0)
    BY <1>12, <2>1
  <2>3. \A n \in 1 .. N : m[n] = By(m, n)
    BY <1>7, <1>12
  <2> QED
    BY <1>7, <1>10, <2>2, <2>3
<1> DEFINE S == {n \in 0 .. N : m[n] = f[n]}
<1>15. 0 \in S
  BY <1>1, <1>8, <1>14
<1>16. ASSUME NEW n \in 0 .. N - 1, n \in S
       PROVE  n + 1 \in S
  <2>1. n + 1 \in 1 .. N /\ (n + 1) - 1 = n /\ n + 1 \in 0 .. N
    BY <1>1
  <2> QED
    BY <1>8, <1>14, <1>16, <2>1
<1>17. N \in S
  <2>1. 0 .. N \subseteq S
    <3> HIDE DEF S
    <3> QED BY <1>1, <1>15, <1>16, Reached
  <2> QED
    BY <1>1, <2>1
<1>18. Workspace(w) = f[N]
  BY <1>13, <1>17
<1>19. /\ f \in [Numbers -> [Numbers -> Nat]] /\ f[0] = [i \in Numbers |-> 0]
       /\ \A n \in PoolNodes : f[n] = [f[n - 1] EXCEPT ![n] = NodeValue(n, f[n - 1], w)]
  BY <1>1, <1>6, <1>8 DEF Put, Y, Z
<1> QED
  BY <1>18, <1>19 DEF Fills, N

(* The workspace holds the value of every node.                            *)
LEMMA WorkspaceIs ==
  ASSUME PoolOK, NEW w \in World
  PROVE  Valued(Workspace(w), w)
<1>1. PICK f : Fills(f, w)
  BY FillSteps
<1> DEFINE N == Len(pool)
           S == {n \in 0 .. N : f[n][0] = 0 /\ \A i \in 1 .. n : f[n][i] = NodeValue(i, f[n], w)}
<1>2. N \in Nat /\ PoolNodes = 1 .. N /\ Numbers = 0 .. N
  BY DEF PoolOK, PoolNodes, Numbers
<1>3. 0 \in S
  BY <1>1, <1>2 DEF Fills
<1>4. ASSUME NEW n \in 0 .. N - 1, n \in S
      PROVE  n + 1 \in S
  <2>1. n + 1 \in 1 .. N /\ (n + 1) - 1 = n /\ n \in 0 .. N /\ n + 1 \in 0 .. N
    BY <1>2
  <2>2. f[n + 1] = [f[n] EXCEPT ![n + 1] = NodeValue(n + 1, f[n], w)] /\ f[n] \in [Numbers -> Nat]
    BY <1>1, <1>2, <2>1 DEF Fills
  <2>3. /\ \A j \in 0 .. n : f[n + 1][j] = f[n][j]
        /\ f[n + 1][n + 1] = NodeValue(n + 1, f[n], w)
    BY <1>2, <2>1, <2>2
  <2>4. f[n + 1][0] = 0
    BY <1>4, <2>1, <2>3
  <2>5. ASSUME NEW i \in 1 .. n + 1
        PROVE  f[n + 1][i] = NodeValue(i, f[n + 1], w)
    <3>1. i \in PoolNodes /\ \A j \in 0 .. i - 1 : j \in 0 .. n
      BY <1>2, <2>1
    <3>2. NodeValue(i, f[n], w) = NodeValue(i, f[n + 1], w)
      <4>1. \A j \in 0 .. i - 1 : f[n][j] = f[n + 1][j]
        BY <2>3, <3>1
      <4> QED
        BY <3>1, <4>1, ValueFromLower
    <3>3. i = n + 1 \/ (i \in 1 .. n /\ i \in 0 .. n)
      BY <2>1
    <3> QED
      BY <1>4, <2>3, <3>2, <3>3
  <2> QED
    BY <2>1, <2>4, <2>5
<1>5. N \in S
  <2>1. 0 .. N \subseteq S
    <3> HIDE DEF S
    <3> QED BY <1>2, <1>3, <1>4, Reached
  <2> QED
    BY <1>2, <2>1
<1>6. f[N] \in [Numbers -> Nat] /\ Workspace(w) = f[N]
  BY <1>1, <1>2 DEF Fills
<1> QED
  BY <1>2, <1>5, <1>6 DEF Valued

-----------------------------------------------------------------------------
(* What a node adds to those above it.                                     *)
Below(w, u) == \A x \in HwInput \cup {"state"} : w[x] =< u[x]

LEMMA MoreInMore ==
  ASSUME PoolOK, NEW w \in World, NEW u \in World, Below(w, u),
         NEW v, NEW z, Valued(v, w), Valued(z, u)
  PROVE  \A i \in Numbers : v[i] =< z[i]
<1> DEFINE N == Len(pool)
           S == {n \in 0 .. N : \A i \in 0 .. n : v[i] =< z[i]}
<1>1. N \in Nat /\ PoolNodes = 1 .. N /\ Numbers = 0 .. N
  BY DEF PoolOK, PoolNodes, Numbers
<1>2. 0 \in S
  BY <1>1 DEF Valued
<1>3. ASSUME NEW n \in 0 .. N - 1, n \in S
      PROVE  n + 1 \in S
  <2>1. n + 1 \in PoolNodes /\ (n + 1) - 1 = n /\ n + 1 \in 0 .. N
        /\ \A j \in 0 .. n : j \in Numbers
    BY <1>1
  <2>2. \A c \in 1 .. 3 : pool[n + 1].args[c] \in 0 .. n
    BY <2>1 DEF PoolOK
  <2>3. \A c \in 1 .. 3 : /\ v[pool[n + 1].args[c]] =< z[pool[n + 1].args[c]]
                          /\ v[pool[n + 1].args[c]] \in Nat /\ z[pool[n + 1].args[c]] \in Nat
    BY <1>3, <2>1, <2>2 DEF Valued
  <2>4. w["state"] =< u["state"] /\ (pool[n + 1].op = "InputLoad" => w[pool[n + 1].input] =< u[pool[n + 1].input])
    BY <2>1 DEF Below, PoolOK
  <2>5. NodeValue(n + 1, v, w) =< NodeValue(n + 1, z, u)
    BY <2>3, <2>4 DEF NodeValue
  <2>6. v[n + 1] =< z[n + 1]
    BY <2>1, <2>5 DEF Valued
  <2>7. \A i \in 0 .. n + 1 : i = n + 1 \/ i \in 0 .. n
    BY <2>1
  <2> QED
    BY <1>3, <2>1, <2>6, <2>7
<1> QED
  <2>1. 0 .. N \subseteq S
    <3> HIDE DEF S
    <3> QED BY <1>1, <1>2, <1>3, Reached
  <2> QED
    BY <1>1, <2>1

(* Nodes that have each other's inputs come to the same in worlds that     *)
(* agree on what they read.                                                *)
LEMMA SameInSame ==
  ASSUME PoolOK, NEW w \in World, NEW u \in World,
         NEW v, NEW z, Valued(v, w), Valued(z, u),
         NEW V \in SUBSET PoolNodes,
         \A i \in V, c \in 1 .. 3 : pool[i].args[c] \in V \cup {0},
         \A i \in V : \A x : ReadsItself(i, x) => w[x] = u[x]
  PROVE  \A i \in V : v[i] = z[i]
<1> DEFINE N == Len(pool)
           S == {n \in 0 .. N : \A i \in 0 .. n : i \in V => v[i] = z[i]}
<1>1. N \in Nat /\ PoolNodes = 1 .. N /\ Numbers = 0 .. N
  BY DEF PoolOK, PoolNodes, Numbers
<1>2. 0 \in S
  BY <1>1
<1>3. ASSUME NEW n \in 0 .. N - 1, n \in S
      PROVE  n + 1 \in S
  <2>1. n + 1 \in PoolNodes /\ (n + 1) - 1 = n /\ n + 1 \in 0 .. N
        /\ \A j \in 0 .. n : j \in Numbers
    BY <1>1
  <2>2. CASE n + 1 \in V
    <3>1. \A c \in 1 .. 3 : pool[n + 1].args[c] \in 0 .. n /\ pool[n + 1].args[c] \in V \cup {0}
      BY <2>1, <2>2 DEF PoolOK
    <3>2. \A c \in 1 .. 3 : v[pool[n + 1].args[c]] = z[pool[n + 1].args[c]]
      BY <1>3, <3>1 DEF Valued
    <3>3. /\ pool[n + 1].op \in ReadsThePast => w["state"] = u["state"]
          /\ pool[n + 1].op = "InputLoad" => w[pool[n + 1].input] = u[pool[n + 1].input]
      BY <2>2 DEF ReadsItself
    <3>4. NodeValue(n + 1, v, w) = NodeValue(n + 1, z, u)
      BY <3>2, <3>3 DEF NodeValue
    <3>5. v[n + 1] = z[n + 1]
      BY <2>1, <3>4 DEF Valued
    <3>6. \A i \in 0 .. n + 1 : i = n + 1 \/ i \in 0 .. n
      BY <2>1
    <3> QED
      BY <1>3, <2>1, <3>5, <3>6
  <2>3. CASE n + 1 \notin V
    <3>1. \A i \in 0 .. n + 1 : i \in V => i \in 0 .. n
      BY <2>1, <2>3
    <3> QED
      BY <1>3, <2>1, <3>1
  <2> QED
    BY <2>2, <2>3
<1> QED
  <2>1. 0 .. N \subseteq S
    <3> HIDE DEF S
    <3> QED BY <1>1, <1>2, <1>3, Reached
  <2> QED
    BY <1>1, <2>1

(* More of the node i is more of the root.                                 *)
Feeds(i) ==
  \A w \in World, u \in World : Below(w, u) =>
    \A v, z : Valued(v, w) /\ Valued(z, u) /\ v[i] < z[i] => v[Root] < z[Root]

LEMMA InputFeeds ==
  ASSUME PoolOK, NEW i \in PoolNodes, Feeds(i), NEW c \in 1 .. 3, pool[i].args[c] # 0
  PROVE  pool[i].args[c] \in PoolNodes /\ Feeds(pool[i].args[c])
<1> DEFINE a == pool[i].args[c]
<1>1. Len(pool) \in Nat /\ PoolNodes = 1 .. Len(pool) /\ Numbers = 0 .. Len(pool)
  BY DEF PoolOK, PoolNodes, Numbers
<1>2. a \in 0 .. i - 1 /\ pool[i].op = "Operator"
  BY DEF PoolOK
<1>3. \A d \in 1 .. 3 : pool[i].args[d] \in Numbers
  BY <1>1 DEF PoolOK
<1> SUFFICES ASSUME NEW w \in World, NEW u \in World, Below(w, u),
                    NEW v, NEW z, Valued(v, w), Valued(z, u), v[a] < z[a]
             PROVE  v[Root] < z[Root]
  BY <1>1, <1>2 DEF Feeds
<1>4. \A d \in 1 .. 3 : /\ v[pool[i].args[d]] =< z[pool[i].args[d]]
                        /\ v[pool[i].args[d]] \in Nat /\ z[pool[i].args[d]] \in Nat
  BY <1>3, MoreInMore DEF Valued
<1>5. /\ v[i] = v[pool[i].args[1]] + v[pool[i].args[2]] + v[pool[i].args[3]]
      /\ z[i] = z[pool[i].args[1]] + z[pool[i].args[2]] + z[pool[i].args[3]]
  BY <1>2 DEF Valued, NodeValue, ReadsThePast
<1>6. c = 1 \/ c = 2 \/ c = 3
  OBVIOUS
<1>7. v[i] < z[i]
  BY <1>4, <1>5, <1>6
<1> QED
  BY <1>7 DEF Feeds

(* The world in which x is 1 and nothing else.                             *)
LEMMA ReadMatters ==
  ASSUME PoolOK, NEW i \in PoolNodes, Feeds(i), NEW x \in HwInput \cup {"state"}, ReadsItself(i, x)
  PROVE  DependsOn(x)
<1> DEFINE w == [y \in HwInput \cup {"state"} |-> 0]
           u == [w EXCEPT ![x] = 1 - w[x]]
           v == Workspace(w)
           z == Workspace(u)
<1>1. w \in World /\ u \in World /\ w[x] = 0 /\ u[x] = 1 /\ Below(w, u)
  BY DEF World, Below
<1> HIDE DEF w
<1>2. w \in World /\ u \in World
  BY <1>1
<1>3. Valued(v, w) /\ Valued(z, u)
  <2> HIDE DEF u
  <2> QED BY <1>2, WorkspaceIs
<1>4. v[i] = w[x] /\ z[i] = u[x]
  <2> HIDE DEF u, v, z
  <2> QED
    BY <1>3 DEF Valued, NodeValue, ReadsItself, ReadsThePast
<1>5. v[Root] < z[Root]
  <2> HIDE DEF u, v, z
  <2>1. v[i] < z[i]
    BY <1>1, <1>4
  <2> QED
    BY <1>1, <1>2, <1>3, <2>1 DEF Feeds
<1>6. v[Root] # z[Root]
  <2>1. Root \in Numbers
    BY DEF PoolOK, Numbers, Root
  <2> HIDE DEF u, v, z
  <2> QED
    BY <1>3, <1>5, <2>1 DEF Valued
<1> QED
  BY <1>2, <1>6 DEF DependsOn

-----------------------------------------------------------------------------
(* What the walk knows: the nodes it has visited and those on the stack    *)
(* all count for the root, and what it noted is what the visited ones      *)
(* read.  While the stack has room, every input of a visited node is       *)
(* visited or on the stack, and the stack has at most two numbers more for *)
(* each node visited.                                                      *)
Waiting == {pending[j] : j \in 1 .. Len(pending)}

NotedRight ==
  /\ noted.inputs = {x \in HwInput : \E i \in visited : ReadsItself(i, x)}
  /\ noted.state = (\E i \in visited : ReadsItself(i, "state"))

Small == 2 * Len(pool) < PoolSize

WalkInv ==
  /\ PoolOK
  /\ visited \in SUBSET PoolNodes /\ pending \in Seq(PoolNodes)
  /\ noted \in [state : BOOLEAN, inputs : SUBSET HwInput] /\ NotedRight
  /\ active \in BOOLEAN
  /\ class = "building" => ~active /\ pending = <<>> /\ visited = {}
  /\ class # "building" /\ active => Root \in visited \cup Waiting
  /\ \A i \in visited \cup Waiting : Feeds(i)
  /\ Small => /\ \A i \in visited, c \in 1 .. 3 : pool[i].args[c] \in {0} \cup visited \cup Waiting
              /\ Len(pending) =< 1 + 2 * Cardinality(visited)
  /\ class \notin {"building", "walking"} => pending = <<>> /\ class = ClassOf

LEMMA LeafIs ==
  ASSUME NEW n \in Leaf
  PROVE  /\ n.op \in ReadsThePast \cup {"InputLoad", "Const"}
         /\ n.op = "InputLoad" => n.input \in HwInput
         /\ \A c \in 1 .. 3 : n.args[c] = 0
  BY LeafAssumption DEF Leaf, NoChild

LEMMA InnerIs ==
  ASSUME NEW k \in Nat \ {0}, NEW n \in Inner(k)
  PROVE  n.op = "Operator" /\ \A c \in 1 .. 3 : n.args[c] \in 0 .. k - 1
<1>1. n.op = "Operator" /\ n.args \in {<<a, b, c>> : a \in {0} \cup 1..(k - 1),
                                        b \in {0} \cup 1..(k - 1), c \in {0} \cup 1..(k - 1)}
  BY DEF Inner, NoChild
<1>2. PICK a \in {0} \cup 1..(k - 1), b \in {0} \cup 1..(k - 1), c \in {0} \cup 1..(k - 1) :
        n.args = <<a, b, c>>
  BY <1>1
<1>3. n.args[1] = a /\ n.args[2] = b /\ n.args[3] = c
  BY <1>2
<1> QED
  BY <1>1, <1>3

LEMMA BuildStays ==
  ASSUME PoolOK, Build
  PROVE  PoolOK'
<1>1. PICK n \in Leaf \cup Inner(Len(pool) + 1) : pool' = Append(pool, n)
  BY DEF Build
<1>2. Len(pool) \in Nat /\ Len(pool) + 1 \in Nat \ {0}
  BY DEF PoolOK
<1>3. n \in AnyNode
  BY <1>1, <1>2 DEF AnyNode
<1>4. /\ pool' \in Seq(AnyNode) /\ Len(pool') = Len(pool) + 1
      /\ \A i \in 1 .. Len(pool) : pool'[i] = pool[i]
      /\ pool'[Len(pool) + 1] = n
  BY <1>1, <1>3, <1>2 DEF PoolOK
<1>5. /\ n.op \in ReadsThePast \cup {"InputLoad", "Const", "Operator"}
      /\ n.op = "InputLoad" => n.input \in HwInput
      /\ \A c \in 1 .. 3 : n.args[c] \in 0 .. Len(pool)
      /\ n.op # "Operator" => \A c \in 1 .. 3 : n.args[c] = 0
  <2>1. CASE n \in Leaf
    BY <1>2, <2>1, LeafIs
  <2>2. CASE n \in Inner(Len(pool) + 1)
    BY <1>2, <2>2, InnerIs
  <2> QED
    BY <1>1, <2>1, <2>2
<1>6. ASSUME NEW i \in 1 .. Len(pool')
      PROVE  /\ pool'[i].op \in ReadsThePast \cup {"InputLoad", "Const", "Operator"}
             /\ pool'[i].op = "InputLoad" => pool'[i].input \in HwInput
             /\ \A c \in 1 .. 3 : pool'[i].args[c] \in 0 .. i - 1
             /\ pool'[i].op # "Operator" => \A c \in 1 .. 3 : pool'[i].args[c] = 0
  <2>1. CASE i = Len(pool) + 1
    <3>1. pool'[i] = n /\ i - 1 = Len(pool)
      BY <1>2, <1>4, <2>1
    <3> QED
      BY <1>5, <3>1
  <2>2. CASE i # Len(pool) + 1
    <3>1. i \in 1 .. Len(pool) /\ pool'[i] = pool[i]
      BY <1>2, <1>4, <2>2
    <3> QED
      BY <3>1 DEF PoolOK, PoolNodes
  <2> QED
    BY <2>1, <2>2
<1> QED
  BY <1>4, <1>6 DEF PoolOK, PoolNodes

(* Without a change of the graph everything that is about it stays.        *)
LEMMA GraphStays ==
  ASSUME UNCHANGED pool
  PROVE  /\ PoolOK' = PoolOK /\ PoolNodes' = PoolNodes /\ Root' = Root /\ Small' = Small
         /\ \A i : Feeds(i)' = Feeds(i)
         /\ \A i, x : ReadsItself(i, x)' = ReadsItself(i, x)
<1>1. PoolOK' = PoolOK /\ PoolNodes' = PoolNodes /\ Root' = Root /\ Small' = Small
  BY DEF PoolOK, PoolNodes, Root, Small
<1>2. \A i, x : ReadsItself(i, x)' = ReadsItself(i, x)
  BY DEF ReadsItself
<1>3. \A v, w : Valued(v, w)' = Valued(v, w)
  BY DEF Valued, Numbers, PoolNodes, NodeValue
<1>4. ASSUME NEW i
      PROVE  Feeds(i)' = Feeds(i)
  BY <1>1, <1>3 DEF Feeds
<1> QED
  BY <1>1, <1>2, <1>4

LEMMA BuildKeeps ==
  ASSUME WalkInv, Build
  PROVE  WalkInv'
<1>1. PoolOK' /\ class = "building" /\ ~active /\ pending = <<>> /\ visited = {}
  BY BuildStays DEF WalkInv, Build
<1>2. UNCHANGED <<active, pending, visited, noted, class>>
  BY DEF Build
<1>3. Waiting' = {} /\ visited' = {} /\ pending' = <<>> /\ Len(pending') = 0 /\ Cardinality(visited') = 0
  BY <1>1, <1>2, FS_EmptySet DEF Waiting
<1>4. NotedRight'
  BY <1>1, <1>2 DEF WalkInv, NotedRight
<1>5. visited' \in SUBSET PoolNodes' /\ pending' \in Seq(PoolNodes')
  BY <1>3
<1> QED
  BY <1>1, <1>2, <1>3, <1>4, <1>5 DEF WalkInv

LEMMA SetRootKeeps ==
  ASSUME WalkInv, SetRoot
  PROVE  WalkInv'
<1>1. /\ UNCHANGED <<pool, visited, noted>> /\ visited = {} /\ class' = "walking" /\ pool # <<>>
      /\ active' \in BOOLEAN /\ pending' = IF active' THEN <<Root>> ELSE <<>>
  BY DEF WalkInv, SetRoot
<1>2. Len(pool) \in Nat /\ Len(pool) # 0
  BY <1>1 DEF WalkInv, PoolOK
<1>3. Root \in PoolNodes
  BY <1>2 DEF Root, PoolNodes
<1>4. /\ PoolOK' /\ PoolNodes' = PoolNodes /\ Root' = Root
  BY <1>1, GraphStays DEF WalkInv
<1>5. NotedRight'
  BY <1>1 DEF WalkInv, NotedRight
<1>6. /\ pending' \in Seq(PoolNodes)
      /\ Waiting' = IF active' THEN {Root} ELSE {}
      /\ Len(pending') =< 1
  <2>1. CASE active'
    BY <1>1, <1>3, <2>1 DEF Waiting
  <2>2. CASE ~active'
    BY <1>1, <2>2 DEF Waiting
  <2> QED
    BY <2>1, <2>2
<1>7. Feeds(Root)
  BY DEF Feeds
<1>8. \A i \in visited' \cup Waiting' : Feeds(i)'
  BY <1>1, <1>6, <1>7, GraphStays
<1>9. Cardinality(visited') = 0 /\ visited' = {}
  BY <1>1, FS_EmptySet
<1>10. Len(pending') =< 1 + 2 * Cardinality(visited')
  BY <1>6, <1>9
<1>11. /\ active' => Root' \in visited' \cup Waiting'
       /\ noted' \in [state : BOOLEAN, inputs : SUBSET HwInput]
       /\ visited' \in SUBSET PoolNodes'
       /\ pending' \in Seq(PoolNodes')
  BY <1>1, <1>4, <1>6, <1>9 DEF WalkInv
<1> QED
  BY <1>1, <1>4, <1>5, <1>8, <1>9, <1>10, <1>11 DEF WalkInv

LEMMA ClassifyKeeps ==
  ASSUME WalkInv, Classify
  PROVE  WalkInv'
<1>1. /\ UNCHANGED <<pool, active, pending, visited, noted>> /\ class' = ClassOf
      /\ class = "walking" /\ pending = <<>>
  BY DEF Classify
<1>2. class' \notin {"building", "walking"} /\ class' = ClassOf'
  BY <1>1 DEF ClassOf
<1>3. NotedRight'
  <2>1. \A i, x : ReadsItself(i, x)' = ReadsItself(i, x)
    BY <1>1, GraphStays
  <2> QED
    BY <1>1, <2>1 DEF WalkInv, NotedRight
<1>4. Waiting' = Waiting
  BY <1>1 DEF Waiting
<1>5. /\ PoolOK' /\ PoolNodes' = PoolNodes /\ Root' = Root /\ Small' = Small
      /\ \A i : Feeds(i)' = Feeds(i)
  BY <1>1, GraphStays DEF WalkInv
<1>6. /\ \A i \in visited' \cup Waiting' : Feeds(i)'
      /\ Root' \in visited' \cup Waiting' \/ ~active'
  BY <1>1, <1>4, <1>5 DEF WalkInv
<1>7. Small' => /\ \A i \in visited', c \in 1 .. 3 :
                     pool'[i].args[c] \in {0} \cup visited' \cup Waiting'
                /\ Len(pending') =< 1 + 2 * Cardinality(visited')
  BY <1>1, <1>4, <1>5 DEF WalkInv
<1> QED
  BY <1>1, <1>2, <1>3, <1>5, <1>6, <1>7 DEF WalkInv

-----------------------------------------------------------------------------
(* The stack after the inputs of a node were offered to it: what was there *)
(* stays, only inputs are added, at most one for each, and all that are    *)
(* missing are on it when there is room for three.                         *)
OnIt(s) == {s[j] : j \in 1 .. Len(s)}

LEMMA PushIs ==
  ASSUME NEW A, NEW s \in Seq(A), NEW a, a = 0 \/ a \in A, NEW seen
  PROVE  LET t == PushOne(s, a, seen)
         IN /\ t \in Seq(A) /\ Len(s) =< Len(t) /\ Len(t) =< Len(s) + 1
            /\ OnIt(s) \subseteq OnIt(t) /\ OnIt(t) \subseteq OnIt(s) \cup ({a} \ {0})
            /\ Len(s) < PoolSize => a \in {0} \cup seen \cup OnIt(t)
<1> DEFINE t == PushOne(s, a, seen)
<1>1. Len(s) \in Nat
  OBVIOUS
<1>2. CASE a # 0 /\ a \notin seen /\ Len(s) < PoolSize
  <2>1. t = Append(s, a) /\ a \in A
    BY <1>2 DEF PushOne, NoChild
  <2>2. /\ t \in Seq(A) /\ Len(t) = Len(s) + 1 /\ t[Len(s) + 1] = a
        /\ \A j \in 1 .. Len(s) : t[j] = s[j]
    BY <2>1
  <2>3. OnIt(t) = OnIt(s) \cup {a}
    <3>1. \A j \in 1 .. Len(t) : j = Len(s) + 1 \/ j \in 1 .. Len(s)
      BY <1>1, <2>2
    <3>2. Len(s) + 1 \in 1 .. Len(t) /\ \A j \in 1 .. Len(s) : j \in 1 .. Len(t)
      BY <1>1, <2>2
    <3> QED
      BY <2>2, <3>1, <3>2 DEF OnIt
  <2> QED
    BY <1>1, <1>2, <2>2, <2>3
<1>3. CASE ~(a # 0 /\ a \notin seen /\ Len(s) < PoolSize)
  <2>1. t = s
    BY <1>3 DEF PushOne, NoChild
  <2> QED
    BY <1>1, <1>3, <2>1
<1> QED
  BY <1>2, <1>3

LEMMA ThreePushesAre ==
  ASSUME NEW A, NEW s \in Seq(A), NEW a, NEW b, NEW c, NEW seen,
         a = 0 \/ a \in A, b = 0 \/ b \in A, c = 0 \/ c \in A
  PROVE  LET t == PushOne(PushOne(PushOne(s, a, seen), b, seen), c, seen)
         IN /\ t \in Seq(A) /\ Len(t) =< Len(s) + 3
            /\ OnIt(s) \subseteq OnIt(t)
            /\ OnIt(t) \subseteq OnIt(s) \cup ({a, b, c} \ {0})
            /\ Len(s) + 2 < PoolSize => {a, b, c} \subseteq {0} \cup seen \cup OnIt(t)
<1> DEFINE one == PushOne(s, a, seen)
           two == PushOne(one, b, seen)
           three == PushOne(two, c, seen)
<1>1. /\ one \in Seq(A) /\ Len(s) =< Len(one) /\ Len(one) =< Len(s) + 1
      /\ OnIt(s) \subseteq OnIt(one) /\ OnIt(one) \subseteq OnIt(s) \cup ({a} \ {0})
      /\ Len(s) < PoolSize => a \in {0} \cup seen \cup OnIt(one)
  BY PushIs
<1>2. /\ two \in Seq(A) /\ Len(one) =< Len(two) /\ Len(two) =< Len(one) + 1
      /\ OnIt(one) \subseteq OnIt(two) /\ OnIt(two) \subseteq OnIt(one) \cup ({b} \ {0})
      /\ Len(one) < PoolSize => b \in {0} \cup seen \cup OnIt(two)
  <2> HIDE DEF one
  <2> QED
    BY <1>1, PushIs
<1>3. /\ three \in Seq(A) /\ Len(two) =< Len(three) /\ Len(three) =< Len(two) + 1
      /\ OnIt(two) \subseteq OnIt(three) /\ OnIt(three) \subseteq OnIt(two) \cup ({c} \ {0})
      /\ Len(two) < PoolSize => c \in {0} \cup seen \cup OnIt(three)
  <2> HIDE DEF two
  <2> QED
    BY <1>2, PushIs
<1> HIDE DEF one, two, three
<1>4. Len(s) \in Nat /\ Len(one) \in Nat /\ Len(two) \in Nat /\ Len(three) \in Nat
  BY <1>1, <1>2, <1>3
<1>5. Len(three) =< Len(s) + 3 /\ OnIt(s) \subseteq OnIt(three)
  BY <1>1, <1>2, <1>3, <1>4
<1>6. OnIt(three) \subseteq OnIt(s) \cup ({a, b, c} \ {0})
  BY <1>1, <1>2, <1>3
<1>7. ASSUME Len(s) + 2 < PoolSize
      PROVE  {a, b, c} \subseteq {0} \cup seen \cup OnIt(three)
  <2>1. Len(s) < PoolSize /\ Len(one) < PoolSize /\ Len(two) < PoolSize
    BY <1>1, <1>2, <1>4, <1>7, LeafAssumption
  <2> QED
    BY <1>1, <1>2, <1>3, <2>1
<1> QED
  BY <1>3, <1>5, <1>6, <1>7 DEF one, two, three

LEMMA PushedIs ==
  ASSUME PoolOK, NEW s \in Seq(PoolNodes), NEW i \in PoolNodes, NEW seen
  PROVE  LET t == Pushed(s, i, seen)
         IN /\ t \in Seq(PoolNodes) /\ Len(t) =< Len(s) + 3
            /\ OnIt(s) \subseteq OnIt(t)
            /\ \A a \in OnIt(t) : a \in OnIt(s) \/ \E c \in 1 .. 3 : a = pool[i].args[c] /\ a # 0
            /\ Len(s) + 2 < PoolSize =>
                 \A c \in 1 .. 3 : pool[i].args[c] \in {0} \cup seen \cup OnIt(t)
<1> DEFINE x == pool[i].args[1]
           y == pool[i].args[2]
           z == pool[i].args[3]
           t == PushOne(PushOne(PushOne(s, x, seen), y, seen), z, seen)
<1>1. Len(pool) \in Nat /\ PoolNodes = 1 .. Len(pool)
  BY DEF PoolOK, PoolNodes
<1>2. \A c \in 1 .. 3 : pool[i].args[c] = 0 \/ pool[i].args[c] \in PoolNodes
  BY <1>1 DEF PoolOK
<1>3. /\ x = 0 \/ x \in PoolNodes
      /\ y = 0 \/ y \in PoolNodes
      /\ z = 0 \/ z \in PoolNodes
  BY <1>2
<1>4. Pushed(s, i, seen) = t
  BY DEF Pushed
<1>5. \A c \in 1 .. 3 : \/ c = 1 /\ pool[i].args[c] = x
                        \/ c = 2 /\ pool[i].args[c] = y
                        \/ c = 3 /\ pool[i].args[c] = z
  OBVIOUS
<1>6. \A a \in {x, y, z} : \E c \in 1 .. 3 : a = pool[i].args[c]
  OBVIOUS
<1> HIDE DEF x, y, z
<1>7. /\ t \in Seq(PoolNodes) /\ Len(t) =< Len(s) + 3
      /\ OnIt(s) \subseteq OnIt(t)
      /\ OnIt(t) \subseteq OnIt(s) \cup ({x, y, z} \ {0})
      /\ Len(s) + 2 < PoolSize => {x, y, z} \subseteq {0} \cup seen \cup OnIt(t)
  BY <1>3, ThreePushesAre
<1> HIDE DEF t
<1>8. \A a \in OnIt(t) : a \in OnIt(s) \/ \E c \in 1 .. 3 : a = pool[i].args[c] /\ a # 0
  BY <1>6, <1>7
<1>9. Len(s) + 2 < PoolSize => \A c \in 1 .. 3 : pool[i].args[c] \in {0} \cup seen \cup OnIt(t)
  BY <1>5, <1>7
<1> QED
  BY <1>4, <1>7, <1>8, <1>9

LEMMA UpToIs ==
  ASSUME NEW m \in Nat
  PROVE  IsFiniteSet(1 .. m) /\ Cardinality(1 .. m) = m
<1>1. 1 \in Int /\ m \in Int /\ (IF 1 > m THEN 0 ELSE m - 1 + 1) = m
  OBVIOUS
<1> QED
  BY <1>1, FS_Interval

(* What the walk takes from the stack.                                     *)
LEMMA TakenIs ==
  ASSUME WalkInv, pending # <<>>
  PROVE  LET i == pending[Len(pending)]
             rest == SubSeq(pending, 1, Len(pending) - 1)
         IN /\ i \in PoolNodes /\ rest \in Seq(PoolNodes) /\ Len(rest) = Len(pending) - 1
            /\ Waiting = OnIt(rest) \cup {i}
<1> DEFINE L == Len(pending)
           i == pending[L]
           rest == SubSeq(pending, 1, L - 1)
<1>1. pending \in Seq(PoolNodes) /\ L \in Nat \ {0}
  BY DEF WalkInv
<1>2. /\ i \in PoolNodes /\ rest \in Seq(PoolNodes) /\ Len(rest) = L - 1
      /\ \A j \in 1 .. L - 1 : rest[j] = pending[j]
  <2>1. L \in 1 .. L /\ 1 \in 1 .. L + 1 /\ L - 1 \in 1 - 1 .. L
    BY <1>1
  <2>2. i \in PoolNodes
    BY <1>1, <2>1
  <2>3. rest \in Seq(PoolNodes) /\ Len(rest) = L - 1
    <3>1. L - 1 \in Int /\ 1 \in Int /\ \A j \in 1 .. L - 1 : pending[j] \in PoolNodes
      BY <1>1
    <3>2. (IF 1 =< L - 1 THEN (L - 1) - 1 + 1 ELSE 0) = L - 1
      <4> HIDE DEF L
      <4> QED BY <1>1
    <3> QED
      BY <3>1, <3>2, SubSeqProperties
  <2>4. ASSUME NEW j \in 1 .. L - 1
        PROVE  rest[j] = pending[j]
    BY <1>1
  <2> QED
    BY <2>2, <2>3, <2>4
<1>3. Waiting = OnIt(rest) \cup {i}
  <2>1. \A j \in 1 .. L : j = L \/ j \in 1 .. L - 1
    BY <1>1
  <2>2. L \in 1 .. L /\ \A j \in 1 .. L - 1 : j \in 1 .. L
    BY <1>1
  <2> HIDE DEF rest
  <2> QED
    BY <1>2, <2>1, <2>2 DEF Waiting, OnIt
<1> QED
  BY <1>2, <1>3

LEMMA VisitKeeps ==
  ASSUME WalkInv, Visit
  PROVE  WalkInv'
<1> DEFINE i == pending[Len(pending)]
           rest == SubSeq(pending, 1, Len(pending) - 1)
<1>1. /\ UNCHANGED <<pool, active, class>> /\ class = "walking" /\ pending # <<>>
      /\ IF i \in visited
         THEN pending' = rest /\ UNCHANGED <<visited, noted>>
         ELSE /\ visited' = visited \cup {i}
              /\ noted' = Noted(i)
              /\ pending' = Pushed(rest, i, visited \cup {i})
  BY DEF Visit
<1>2. /\ i \in PoolNodes /\ rest \in Seq(PoolNodes) /\ Len(rest) = Len(pending) - 1
      /\ Waiting = OnIt(rest) \cup {i}
  BY <1>1, TakenIs
<1> HIDE DEF i, rest
<1>3. /\ PoolOK' /\ PoolNodes' = PoolNodes /\ Root' = Root /\ Small' = Small
      /\ \A j : Feeds(j)' = Feeds(j)
      /\ \A j, x : ReadsItself(j, x)' = ReadsItself(j, x)
  BY <1>1, GraphStays DEF WalkInv
<1>4. Waiting' = OnIt(pending')
  BY DEF Waiting, OnIt
<1>5. PoolOK /\ Len(pool) \in Nat /\ PoolNodes = 1 .. Len(pool)
  BY DEF WalkInv, PoolOK, PoolNodes
<1>6. visited \in SUBSET PoolNodes /\ IsFiniteSet(visited) /\ Cardinality(visited) \in Nat
  <2>1. visited \in SUBSET PoolNodes /\ IsFiniteSet(1 .. Len(pool))
    BY <1>5, FS_Interval DEF WalkInv
  <2>2. IsFiniteSet(visited)
    BY <1>5, <2>1, FS_Subset
  <2> QED
    BY <2>1, <2>2, FS_CardinalityType
<1>7. Len(pending) \in Nat \ {0}
  BY <1>1 DEF WalkInv
<1>8. CASE i \in visited
  <2>1. pending' = rest /\ UNCHANGED <<visited, noted>>
    BY <1>1, <1>8
  <2>2. visited' \cup Waiting' = visited \cup Waiting
    BY <1>2, <1>4, <1>8, <2>1
  <2>3. NotedRight'
    BY <1>3, <2>1 DEF WalkInv, NotedRight
  <2>4. /\ class' # "building" /\ active' => Root' \in visited' \cup Waiting'
        /\ \A j \in visited' \cup Waiting' : Feeds(j)'
    BY <1>1, <1>3, <2>2 DEF WalkInv
  <2>5. ASSUME Small
        PROVE  /\ \A j \in visited', c \in 1 .. 3 :
                    pool'[j].args[c] \in {0} \cup visited' \cup Waiting'
               /\ Len(pending') =< 1 + 2 * Cardinality(visited')
    <3>1. /\ \A j \in visited, c \in 1 .. 3 : pool[j].args[c] \in {0} \cup visited \cup Waiting
          /\ Len(pending) =< 1 + 2 * Cardinality(visited)
      BY <2>5 DEF WalkInv
    <3>2. \A j \in visited', c \in 1 .. 3 : pool'[j].args[c] \in {0} \cup (visited' \cup Waiting')
      BY <1>1, <2>1, <2>2, <3>1
    <3>3. Len(pending') =< 1 + 2 * Cardinality(visited')
      BY <1>2, <1>6, <1>7, <2>1, <3>1
    <3> QED
      BY <3>2, <3>3
  <2>6. class' = "walking" /\ active' \in BOOLEAN /\ visited' \in SUBSET PoolNodes'
        /\ pending' \in Seq(PoolNodes')
        /\ noted' \in [state : BOOLEAN, inputs : SUBSET HwInput]
    BY <1>1, <1>2, <1>3, <1>6, <2>1 DEF WalkInv
  <2> QED
    BY <1>3, <2>3, <2>4, <2>5, <2>6 DEF WalkInv
<1>9. CASE i \notin visited
  <2> DEFINE V == visited \cup {i}
  <2>1. visited' = V /\ noted' = Noted(i) /\ pending' = Pushed(rest, i, V)
    BY <1>1, <1>9
  <2>2. /\ pending' \in Seq(PoolNodes) /\ Len(pending') =< Len(rest) + 3
        /\ OnIt(rest) \subseteq Waiting'
        /\ \A a \in Waiting' : a \in OnIt(rest) \/ \E c \in 1 .. 3 : a = pool[i].args[c] /\ a # 0
        /\ Len(rest) + 2 < PoolSize =>
             \A c \in 1 .. 3 : pool[i].args[c] \in {0} \cup V \cup Waiting'
    BY <1>2, <1>4, <1>5, <2>1, PushedIs
  <2>3. visited \cup Waiting \subseteq visited' \cup Waiting'
    BY <1>2, <2>1, <2>2
  <2>4. NotedRight' /\ noted' \in [state : BOOLEAN, inputs : SUBSET HwInput]
    <3>1. pool[i].op = "InputLoad" => pool[i].input \in HwInput
      BY <1>2, <1>5 DEF PoolOK
    <3>2. /\ noted'.inputs = noted.inputs \cup {x \in HwInput : ReadsItself(i, x)}
          /\ noted'.state = (noted.state \/ ReadsItself(i, "state"))
          /\ noted' \in [state : BOOLEAN, inputs : SUBSET HwInput]
      <4>1. noted \in [state : BOOLEAN, inputs : SUBSET HwInput]
        BY DEF WalkInv
      <4>2. CASE pool[i].op \in ReadsThePast
        BY <2>1, <4>1, <4>2, LeafAssumption DEF Noted, ReadsItself, ReadsThePast
      <4>3. CASE pool[i].op = "InputLoad"
        BY <2>1, <3>1, <4>1, <4>3, LeafAssumption DEF Noted, ReadsItself, ReadsThePast
      <4>4. CASE pool[i].op \notin ReadsThePast /\ pool[i].op # "InputLoad"
        BY <2>1, <4>1, <4>4 DEF Noted, ReadsItself
      <4> QED
        BY <4>2, <4>3, <4>4
    <3>3. /\ noted.inputs = {x \in HwInput : \E j \in visited : ReadsItself(j, x)}
          /\ noted.state = (\E j \in visited : ReadsItself(j, "state"))
      BY DEF WalkInv, NotedRight
    <3>4. noted'.inputs = {x \in HwInput : \E j \in visited' : ReadsItself(j, x)}
      BY <2>1, <3>2, <3>3
    <3>5. noted'.state = (\E j \in visited' : ReadsItself(j, "state"))
      BY <2>1, <3>2, <3>3
    <3>6. \A j, x : ReadsItself(j, x)' = ReadsItself(j, x)
      BY <1>3
    <3>7. {x \in HwInput : \E j \in visited' : ReadsItself(j, x)}
            = {x \in HwInput : \E j \in visited' : ReadsItself(j, x)'}
      BY <3>6
    <3> QED
      BY <3>2, <3>4, <3>5, <3>6, <3>7 DEF NotedRight
  <2>5. /\ class' # "building" /\ active' => Root' \in visited' \cup Waiting'
    BY <1>1, <1>3, <2>3 DEF WalkInv
  <2>6. \A j \in visited' \cup Waiting' : Feeds(j)'
    <3>1. \A j \in visited \cup Waiting : Feeds(j)
      BY DEF WalkInv
    <3>2. Feeds(i)
      BY <1>2, <3>1
    <3>3. \A c \in 1 .. 3 : pool[i].args[c] # 0 => Feeds(pool[i].args[c])
      BY <1>2, <1>5, <3>2, InputFeeds
    <3>4. \A j \in visited' \cup Waiting' : Feeds(j)
      BY <1>2, <2>1, <2>2, <3>1, <3>2, <3>3
    <3> QED
      BY <1>3, <3>4
  <2>7. ASSUME Small
        PROVE  /\ \A j \in visited', c \in 1 .. 3 :
                    pool'[j].args[c] \in {0} \cup visited' \cup Waiting'
               /\ Len(pending') =< 1 + 2 * Cardinality(visited')
    <3>1. /\ \A j \in visited, c \in 1 .. 3 : pool[j].args[c] \in {0} \cup visited \cup Waiting
          /\ Len(pending) =< 1 + 2 * Cardinality(visited)
      BY <2>7 DEF WalkInv
    <3>2. Cardinality(V) = Cardinality(visited) + 1 /\ Cardinality(V) =< Len(pool)
      <4>1. Cardinality(V) = Cardinality(visited) + 1
        BY <1>6, <1>9, FS_AddElement
      <4>2. IsFiniteSet(1 .. Len(pool)) /\ Cardinality(1 .. Len(pool)) = Len(pool)
        BY <1>5, UpToIs
      <4>3. V \subseteq 1 .. Len(pool)
        BY <1>2, <1>5, <1>6
      <4>4. Cardinality(V) =< Cardinality(1 .. Len(pool))
        BY <4>2, <4>3, FS_Subset
      <4> QED
        BY <4>1, <4>2, <4>4
    <3>3. Len(rest) + 2 < PoolSize
      BY <1>2, <1>5, <1>6, <1>7, <2>7, <3>1, <3>2, LeafAssumption DEF Small
    <3>4. \A j \in visited', c \in 1 .. 3 : pool'[j].args[c] \in {0} \cup (visited' \cup Waiting')
      <4>1. \A c \in 1 .. 3 : pool[i].args[c] \in {0} \cup (visited' \cup Waiting')
        BY <2>1, <2>2, <3>3
      <4>2. \A j \in visited, c \in 1 .. 3 : pool[j].args[c] \in {0} \cup (visited' \cup Waiting')
        BY <2>3, <3>1
      <4> QED
        BY <1>1, <2>1, <4>1, <4>2
    <3>5. Len(pending') =< 1 + 2 * Cardinality(visited')
      <4>1. Len(pending') \in Nat
        BY <2>2
      <4> HIDE DEF V
      <4> QED
        BY <1>2, <1>6, <1>7, <2>1, <2>2, <3>1, <3>2, <4>1
    <3> QED
      BY <3>4, <3>5
  <2>8. class' = "walking" /\ active' \in BOOLEAN /\ visited' \in SUBSET PoolNodes'
        /\ pending' \in Seq(PoolNodes')
    BY <1>1, <1>2, <1>3, <1>6, <2>1, <2>2 DEF WalkInv
  <2> QED
    BY <1>3, <2>4, <2>5, <2>6, <2>7, <2>8 DEF WalkInv
<1> QED
  BY <1>8, <1>9

-----------------------------------------------------------------------------
LEMMA WalkIsSound ==
  ASSUME WalkInv
  PROVE  ClassIsSound
<1> SUFFICES ASSUME class \notin {"building", "walking", "Inactive"}, 2 * Len(pool) < PoolSize
             PROVE  /\ noted.inputs = {x \in HwInput : DependsOn(x)}
                    /\ class = IF DependsOn("state") THEN "Stateful"
                               ELSE IF noted.inputs # {} THEN "InputDep" ELSE "Pure"
  BY DEF ClassIsSound
<1>1. /\ PoolOK /\ visited \in SUBSET PoolNodes /\ NotedRight
      /\ pending = <<>> /\ class = ClassOf /\ active
      /\ noted.state \in BOOLEAN
  BY DEF WalkInv, ClassOf
<1>2. Waiting = {}
  BY <1>1 DEF Waiting
<1>3. Root \in visited /\ \A i \in visited : Feeds(i)
  BY <1>1, <1>2 DEF WalkInv
<1>4. \A i \in visited, c \in 1 .. 3 : pool[i].args[c] \in visited \cup {0}
  BY <1>2 DEF WalkInv, Small
<1>5. ASSUME NEW x \in HwInput \cup {"state"}, \E i \in visited : ReadsItself(i, x)
      PROVE  DependsOn(x)
  BY <1>1, <1>3, <1>5, ReadMatters
<1>6. ASSUME NEW x \in HwInput \cup {"state"}, ~\E i \in visited : ReadsItself(i, x)
      PROVE  ~DependsOn(x)
  <2> SUFFICES ASSUME NEW w \in World
               PROVE  Workspace(w)[Root] = Workspace([w EXCEPT ![x] = 1 - w[x]])[Root]
    BY DEF DependsOn
  <2> DEFINE u == [w EXCEPT ![x] = 1 - w[x]]
  <2>1. u \in World /\ \A y : y # x => w[y] = u[y]
    BY DEF World
  <2>2. \A i \in visited : \A y : ReadsItself(i, y) => w[y] = u[y]
    BY <1>6, <2>1
  <2> HIDE DEF u
  <2>3. Valued(Workspace(w), w) /\ Valued(Workspace(u), u)
    BY <1>1, <2>1, WorkspaceIs
  <2>4. \A i \in visited : Workspace(w)[i] = Workspace(u)[i]
    BY <1>1, <1>4, <2>1, <2>2, <2>3, SameInSame
  <2> QED
    BY <1>3, <2>4 DEF u
<1>7. noted.inputs = {x \in HwInput : DependsOn(x)}
  BY <1>1, <1>5, <1>6 DEF NotedRight
<1>8. noted.state = DependsOn("state")
  <2>1. noted.state = \E i \in visited : ReadsItself(i, "state")
    BY <1>1 DEF NotedRight
  <2>2. "state" \in HwInput \cup {"state"}
    OBVIOUS
  <2>3. (\E i \in visited : ReadsItself(i, "state")) <=> DependsOn("state")
    BY <1>5, <1>6, <2>2
  <2>4. DependsOn("state") \in BOOLEAN
    BY DEF DependsOn
  <2> QED
    BY <1>1, <2>1, <2>3, <2>4
<1>9. class = IF DependsOn("state") THEN "Stateful"
              ELSE IF noted.inputs # {} THEN "InputDep" ELSE "Pure"
  BY <1>1, <1>8 DEF ClassOf
<1> QED
  BY <1>7, <1>9

(* While the graph takes less than half of the pool, the class of an       *)
(* output says what its value depends on, for any graph of operators and   *)
(* leaves, however its nodes are shared.                                   *)
THEOREM ClassesAreSound == ClassifierSpec => []ClassIsSound
<1>1. ClassifierInit => WalkInv
  <2> SUFFICES ASSUME ClassifierInit PROVE WalkInv
    OBVIOUS
  <2>1. /\ pool = <<>> /\ active = FALSE /\ pending = <<>> /\ visited = {}
        /\ noted = [state |-> FALSE, inputs |-> {}] /\ class = "building"
    BY DEF ClassifierInit
  <2>2. Len(pool) = 0 /\ PoolNodes = {} /\ pool \in Seq(AnyNode)
    BY <2>1 DEF PoolNodes
  <2>3. PoolOK
    BY <2>2 DEF PoolOK
  <2>4. Waiting = {} /\ Cardinality(visited) = 0 /\ Len(pending) = 0
    BY <2>1, FS_EmptySet DEF Waiting
  <2>5. NotedRight
    BY <2>1 DEF NotedRight
  <2>6. /\ \A i \in visited \cup Waiting : Feeds(i)
        /\ \A i \in visited, c \in 1 .. 3 : pool[i].args[c] \in {0} \cup visited \cup Waiting
    BY <2>1, <2>4
  <2>7. Len(pending) =< 1 + 2 * Cardinality(visited)
    BY <2>4
  <2>8. /\ visited \in SUBSET PoolNodes /\ pending \in Seq(PoolNodes)
        /\ noted \in [state : BOOLEAN, inputs : SUBSET HwInput]
        /\ active \in BOOLEAN /\ ~active
    <3>1. [state |-> FALSE, inputs |-> {}] \in [state : BOOLEAN, inputs : SUBSET HwInput]
      OBVIOUS
    <3>2. <<>> \in Seq(PoolNodes)
      OBVIOUS
    <3> QED
      BY <2>1, <3>1, <3>2
  <2> QED
    BY <2>1, <2>3, <2>5, <2>6, <2>7, <2>8 DEF WalkInv
<1>2. WalkInv /\ [ClassifierNext]_classifier => WalkInv'
  <2> SUFFICES ASSUME WalkInv, [ClassifierNext]_classifier
               PROVE  WalkInv'
    OBVIOUS
  <2>1. CASE Build
    BY <2>1, BuildKeeps
  <2>2. CASE SetRoot
    BY <2>2, SetRootKeeps
  <2>3. CASE Visit
    BY <2>3, VisitKeeps
  <2>4. CASE Classify
    BY <2>4, ClassifyKeeps
  <2>5. CASE UNCHANGED classifier
    <3>1. UNCHANGED <<pool, active, pending, visited, noted, class>>
      BY <2>5 DEF classifier
    <3>2. /\ PoolOK' /\ PoolNodes' = PoolNodes /\ Root' = Root /\ Small' = Small
          /\ \A i : Feeds(i)' = Feeds(i)
          /\ \A i, x : ReadsItself(i, x)' = ReadsItself(i, x)
      BY <3>1, GraphStays DEF WalkInv
    <3>3. NotedRight' /\ Waiting' = Waiting /\ ClassOf' = ClassOf
      BY <3>1, <3>2 DEF WalkInv, NotedRight, Waiting, ClassOf
    <3>4. /\ \A i \in visited' \cup Waiting' : Feeds(i)'
          /\ class' # "building" /\ active' => Root' \in visited' \cup Waiting'
      BY <3>1, <3>2, <3>3 DEF WalkInv
    <3>5. Small' => /\ \A i \in visited', c \in 1 .. 3 :
                         pool'[i].args[c] \in {0} \cup visited' \cup Waiting'
                    /\ Len(pending') =< 1 + 2 * Cardinality(visited')
      BY <3>1, <3>2, <3>3 DEF WalkInv
    <3>6. /\ visited' \in SUBSET PoolNodes' /\ pending' \in Seq(PoolNodes')
          /\ noted' \in [state : BOOLEAN, inputs : SUBSET HwInput]
          /\ active' \in BOOLEAN
          /\ class' = "building" => ~active' /\ pending' = <<>> /\ visited' = {}
          /\ class' \notin {"building", "walking"} => pending' = <<>> /\ class' = ClassOf'
      BY <3>1, <3>2, <3>3 DEF WalkInv
    <3> QED
      BY <3>2, <3>3, <3>4, <3>5, <3>6 DEF WalkInv
  <2> QED
    BY <2>1, <2>2, <2>3, <2>4, <2>5 DEF ClassifierNext
<1>3. WalkInv => ClassIsSound
  BY WalkIsSound
<1> QED
  BY <1>1, <1>2, <1>3, PTL DEF ClassifierSpec

-----------------------------------------------------------------------------
(* The ways to make the first n letters of t of the first m of s, and the  *)
(* number of edits of one.                                                 *)
Ways(m, n) == {w \in [k : 0 .. m, p : UNION {Picks(k, m) : k \in 0 .. m},
                      q : UNION {Picks(k, n) : k \in 0 .. m}] :
                 w.p \in Picks(w.k, m) /\ w.q \in Picks(w.k, n)}

Changed(s, t, w) == {a \in 1 .. w.k : s[w.p[a]] # t[w.q[a]]}

CostOf(s, t, m, n, w) == m + n - 2 * w.k + Cardinality(Changed(s, t, w))

Costs(s, t, m, n) == {CostOf(s, t, m, n, w) : w \in Ways(m, n)}

Least(s, t, m, n) == Min(Costs(s, t, m, n))

Differ(s, t, i, j) == IF s[i] = t[j] THEN 0 ELSE 1

LEMMA WayIs ==
  ASSUME NEW m \in Nat, NEW n \in Nat, NEW k \in 0 .. m, NEW p \in Picks(k, m), NEW q \in Picks(k, n)
  PROVE  [k |-> k, p |-> p, q |-> q] \in Ways(m, n)
  BY DEF Ways

LEMMA WayHas ==
  ASSUME NEW m \in Nat, NEW n \in Nat, NEW w \in Ways(m, n)
  PROVE  /\ w.k \in 0 .. m /\ w.k \in Nat
         /\ w.p \in [1 .. w.k -> 1 .. m] /\ w.q \in [1 .. w.k -> 1 .. n]
         /\ \A a \in 1 .. w.k, b \in 1 .. w.k : a < b => w.p[a] < w.p[b] /\ w.q[a] < w.q[b]
<1>1. w.k \in 0 .. m /\ w.p \in Picks(w.k, m) /\ w.q \in Picks(w.k, n)
  BY DEF Ways
<1> QED
  BY <1>1 DEF Picks

(* Places that are picked from left to right are as many as are picked.    *)
LEMMA PicksAreEnough ==
  ASSUME NEW k \in Nat, NEW n \in Nat, NEW p \in [1 .. k -> 1 .. n],
         \A a \in 1 .. k, b \in 1 .. k : a < b => p[a] < p[b]
  PROVE  k =< n
<1> DEFINE S == {a \in 0 .. k : a # 0 => a =< p[a]}
<1>1. 0 \in S
  OBVIOUS
<1>2. ASSUME NEW a \in 0 .. k - 1, a \in S
      PROVE  a + 1 \in S
  <2>1. a + 1 \in 1 .. k /\ p[a + 1] \in 1 .. n /\ a + 1 \in 0 .. k
    OBVIOUS
  <2>2. CASE a = 0
    BY <2>1, <2>2
  <2>3. CASE a # 0
    <3>1. a \in 1 .. k /\ p[a] \in 1 .. n /\ p[a] < p[a + 1] /\ a =< p[a]
      BY <1>2, <2>1, <2>3
    <3> QED
      BY <2>1, <3>1
  <2> QED
    BY <2>2, <2>3
<1>3. 0 .. k \subseteq S
  <2> HIDE DEF S
  <2> QED BY <1>1, <1>2, Reached
<1>4. k # 0 => k =< p[k] /\ p[k] \in 1 .. n
  BY <1>3
<1> QED
  BY <1>4

LEMMA ChangedIsFinite ==
  ASSUME NEW s, NEW t, NEW w, w.k \in Nat
  PROVE  IsFiniteSet(Changed(s, t, w)) /\ Cardinality(Changed(s, t, w)) \in Nat
<1>1. Changed(s, t, w) \subseteq 1 .. w.k
  BY DEF Changed
<1>2. IsFiniteSet(1 .. w.k)
  BY UpToIs
<1>3. IsFiniteSet(Changed(s, t, w))
  BY <1>1, <1>2, FS_Subset
<1> QED
  BY <1>3, FS_CardinalityType

LEMMA CostIsNat ==
  ASSUME NEW s, NEW t, NEW m \in Nat, NEW n \in Nat, NEW w \in Ways(m, n)
  PROVE  CostOf(s, t, m, n, w) \in Nat
<1>1. w.k \in Nat /\ w.k =< m
  BY WayHas
<1>2. w.k =< n
  BY WayHas, PicksAreEnough
<1>3. Cardinality(Changed(s, t, w)) \in Nat
  BY <1>1, ChangedIsFinite
<1> DEFINE c == Cardinality(Changed(s, t, w))
<1>4. CostOf(s, t, m, n, w) = m + n - 2 * w.k + c
  BY DEF CostOf
<1> HIDE DEF c
<1> QED
  BY <1>1, <1>2, <1>3, <1>4 DEF c

(* The way with nothing kept.                                              *)
LEMMA NoneKept ==
  ASSUME NEW s, NEW t, NEW m \in Nat, NEW n \in Nat
  PROVE  \E w \in Ways(m, n) : w.k = 0 /\ CostOf(s, t, m, n, w) = m + n
<1> DEFINE f == [a \in {} |-> a]
           w == [k |-> 0, p |-> f, q |-> f]
<1>1. 1 .. 0 = {} /\ 0 \in 0 .. m
  OBVIOUS
<1>2. f \in Picks(0, m) /\ f \in Picks(0, n)
  BY <1>1 DEF Picks
<1>3. w \in Ways(m, n)
  BY <1>1, <1>2, WayIs
<1>4. Changed(s, t, w) = {}
  BY <1>1 DEF Changed
<1>5. CostOf(s, t, m, n, w) = m + n - 2 * 0 + 0
  BY <1>4, FS_EmptySet DEF CostOf
<1> QED
  BY <1>3, <1>5

LEMMA LeastCost ==
  ASSUME NEW s, NEW t, NEW m \in Nat, NEW n \in Nat
  PROVE  /\ Least(s, t, m, n) \in Nat
         /\ \E w \in Ways(m, n) : Least(s, t, m, n) = CostOf(s, t, m, n, w)
         /\ \A w \in Ways(m, n) : Least(s, t, m, n) =< CostOf(s, t, m, n, w)
<1> DEFINE C == Costs(s, t, m, n)
<1>1. C \in SUBSET Nat /\ C # {}
  BY CostIsNat, NoneKept DEF Costs
<1>2. PICK c \in C : \A d \in C : ~(d < c)
  BY <1>1, LeastOf
<1>3. \A d \in C : c =< d
  BY <1>1, <1>2
<1>4. Min(C) = c
  <2> HIDE DEF C
  <2> QED
    BY <1>1, <1>3, LeastIs
<1>5. Least(s, t, m, n) = c
  BY <1>4 DEF Least
<1>6. \A w \in Ways(m, n) : CostOf(s, t, m, n, w) \in C
  BY DEF Costs
<1>7. \E w \in Ways(m, n) : c = CostOf(s, t, m, n, w)
  BY DEF Costs
<1> HIDE DEF C
<1> QED
  BY <1>1, <1>3, <1>5, <1>6, <1>7

(* A way is one of longer or shorter words too, as long as they have the   *)
(* places that are kept.                                                   *)
LEMMA WayOfOther ==
  ASSUME NEW s, NEW t, NEW m \in Nat, NEW n \in Nat, NEW w \in Ways(m, n),
         NEW i \in Nat, NEW j \in Nat,
         \A a \in 1 .. w.k : w.p[a] =< i /\ w.q[a] =< j
  PROVE  w \in Ways(i, j) /\ CostOf(s, t, i, j, w) = CostOf(s, t, m, n, w) + (i - m) + (j - n)
<1>1. /\ w.k \in 0 .. m /\ w.k \in Nat
      /\ w.p \in [1 .. w.k -> 1 .. m] /\ w.q \in [1 .. w.k -> 1 .. n]
      /\ \A a \in 1 .. w.k, b \in 1 .. w.k : a < b => w.p[a] < w.p[b] /\ w.q[a] < w.q[b]
  BY WayHas
<1>2. \A a \in 1 .. w.k : w.p[a] \in 1 .. i /\ w.q[a] \in 1 .. j
  BY <1>1
<1>3. w.p \in [1 .. w.k -> 1 .. i] /\ w.q \in [1 .. w.k -> 1 .. j]
  BY <1>1, <1>2
<1>4. w.p \in Picks(w.k, i) /\ w.q \in Picks(w.k, j)
  BY <1>1, <1>3 DEF Picks
<1>5. w.k \in 0 .. i
  <2>1. \A a \in 1 .. w.k, b \in 1 .. w.k : a < b => w.p[a] < w.p[b]
    BY <1>1
  <2>2. w.k =< i
    BY <1>1, <1>3, <2>1, PicksAreEnough
  <2> QED
    BY <1>1, <2>2
<1>6. w = [k |-> w.k, p |-> w.p, q |-> w.q]
  BY DEF Ways
<1>7. w \in Ways(i, j)
  BY <1>4, <1>5, <1>6, WayIs
<1> DEFINE c == Cardinality(Changed(s, t, w))
<1>8. c \in Nat
  BY <1>1, ChangedIsFinite
<1>9. CostOf(s, t, m, n, w) = m + n - 2 * w.k + c /\ CostOf(s, t, i, j, w) = i + j - 2 * w.k + c
  BY DEF CostOf
<1> HIDE DEF c
<1>10. CostOf(s, t, i, j, w) = CostOf(s, t, m, n, w) + (i - m) + (j - n)
  BY <1>1, <1>8, <1>9
<1> QED
  BY <1>7, <1>10

(* One place more that is kept.                                            *)
LEMMA OneMoreKept ==
  ASSUME NEW s, NEW t, NEW v, NEW w, NEW k \in Nat, v.k = k, w.k = k + 1,
         \A a \in 1 .. k : w.p[a] = v.p[a] /\ w.q[a] = v.q[a]
  PROVE  Cardinality(Changed(s, t, w))
           = Cardinality(Changed(s, t, v)) + Differ(s, t, w.p[k + 1], w.q[k + 1])
<1>1. IsFiniteSet(Changed(s, t, v)) /\ Cardinality(Changed(s, t, v)) \in Nat
  BY ChangedIsFinite
<1>2. \A a \in 1 .. k + 1 : a = k + 1 \/ a \in 1 .. k
  OBVIOUS
<1>3. k + 1 \in 1 .. k + 1 /\ k + 1 \notin 1 .. k /\ \A a \in 1 .. k : a \in 1 .. k + 1
  OBVIOUS
<1>4. CASE s[w.p[k + 1]] = t[w.q[k + 1]]
  <2>1. Changed(s, t, w) = Changed(s, t, v)
    BY <1>2, <1>3, <1>4 DEF Changed
  <2>2. Differ(s, t, w.p[k + 1], w.q[k + 1]) = 0
    BY <1>4 DEF Differ
  <2> QED
    BY <1>1, <2>1, <2>2
<1>5. CASE s[w.p[k + 1]] # t[w.q[k + 1]]
  <2>1. Changed(s, t, w) = Changed(s, t, v) \cup {k + 1}
    BY <1>2, <1>3, <1>5 DEF Changed
  <2>2. k + 1 \notin Changed(s, t, v)
    BY <1>3 DEF Changed
  <2>3. Cardinality(Changed(s, t, w)) = Cardinality(Changed(s, t, v)) + 1
    BY <1>1, <2>1, <2>2, FS_AddElement
  <2>4. Differ(s, t, w.p[k + 1], w.q[k + 1]) = 1
    BY <1>5 DEF Differ
  <2> QED
    BY <2>3, <2>4
<1> QED
  BY <1>4, <1>5

(* A way for one letter less of each goes on with the two last letters.    *)
LEMMA WayGoesOn ==
  ASSUME NEW s, NEW t, NEW m \in Nat, NEW n \in Nat, NEW v \in Ways(m, n)
  PROVE  \E w \in Ways(m + 1, n + 1) :
           CostOf(s, t, m + 1, n + 1, w) = CostOf(s, t, m, n, v) + Differ(s, t, m + 1, n + 1)
<1> DEFINE k == v.k
           p == [a \in 1 .. k + 1 |-> IF a = k + 1 THEN m + 1 ELSE v.p[a]]
           q == [a \in 1 .. k + 1 |-> IF a = k + 1 THEN n + 1 ELSE v.q[a]]
           w == [k |-> k + 1, p |-> p, q |-> q]
<1>1. /\ k \in 0 .. m /\ k \in Nat
      /\ v.p \in [1 .. k -> 1 .. m] /\ v.q \in [1 .. k -> 1 .. n]
      /\ \A a \in 1 .. k, b \in 1 .. k : a < b => v.p[a] < v.p[b] /\ v.q[a] < v.q[b]
  BY WayHas
<1> HIDE DEF k
<1>2. \A a \in 1 .. k + 1 : a = k + 1 \/ a \in 1 .. k
  BY <1>1
<1>3. k + 1 \in 1 .. k + 1 /\ k + 1 \notin 1 .. k /\ \A a \in 1 .. k : a \in 1 .. k + 1 /\ a # k + 1
  BY <1>1
<1>4. /\ \A a \in 1 .. k : p[a] = v.p[a] /\ q[a] = v.q[a] /\ v.p[a] \in 1 .. m /\ v.q[a] \in 1 .. n
      /\ p[k + 1] = m + 1 /\ q[k + 1] = n + 1
  BY <1>1, <1>3
<1>5. p \in [1 .. k + 1 -> 1 .. m + 1] /\ q \in [1 .. k + 1 -> 1 .. n + 1]
  <2>1. ASSUME NEW a \in 1 .. k + 1
        PROVE  p[a] \in 1 .. m + 1 /\ q[a] \in 1 .. n + 1
    <3> HIDE DEF p, q
    <3>1. CASE a = k + 1
      BY <1>4, <3>1
    <3>2. CASE a \in 1 .. k
      BY <1>4, <3>2
    <3> QED
      BY <1>2, <3>1, <3>2
  <2> QED
    BY <2>1
<1> HIDE DEF p, q
<1>6. ASSUME NEW a \in 1 .. k + 1, NEW b \in 1 .. k + 1, a < b
      PROVE  p[a] < p[b] /\ q[a] < q[b]
  <2>1. a \in 1 .. k
    BY <1>1, <1>2, <1>6
  <2>2. CASE b = k + 1
    BY <1>4, <2>1, <2>2
  <2>3. CASE b \in 1 .. k
    BY <1>1, <1>4, <1>6, <2>1, <2>3
  <2> QED
    BY <1>2, <2>2, <2>3
<1>7. p \in Picks(k + 1, m + 1) /\ q \in Picks(k + 1, n + 1) /\ k + 1 \in 0 .. m + 1
  BY <1>1, <1>5, <1>6 DEF Picks
<1>8. w \in Ways(m + 1, n + 1)
  BY <1>7, WayIs
<1>9. Cardinality(Changed(s, t, w)) = Cardinality(Changed(s, t, v)) + Differ(s, t, m + 1, n + 1)
  <2>1. w.k = k + 1 /\ w.p = p /\ w.q = q /\ v.k = k
    BY DEF k
  <2> HIDE DEF w
  <2>2. \A a \in 1 .. k : w.p[a] = v.p[a] /\ w.q[a] = v.q[a]
    BY <1>4, <2>1
  <2>3. Cardinality(Changed(s, t, w))
          = Cardinality(Changed(s, t, v)) + Differ(s, t, w.p[k + 1], w.q[k + 1])
    <3>1. k \in Nat /\ v.k = k /\ w.k = k + 1
      BY <1>1, <2>1
    <3> HIDE DEF k
    <3> QED
      BY ONLY <2>2, <3>1, OneMoreKept
  <2>4. w.p[k + 1] = m + 1 /\ w.q[k + 1] = n + 1
    BY <1>4, <2>1
  <2> QED
    BY <2>3, <2>4
<1> DEFINE c == Cardinality(Changed(s, t, v))
           d == Cardinality(Changed(s, t, w))
           e == Differ(s, t, m + 1, n + 1)
<1>10. c \in Nat /\ e \in Nat
  BY <1>1, ChangedIsFinite DEF k, Differ
<1>11. /\ CostOf(s, t, m, n, v) = m + n - 2 * k + c
       /\ CostOf(s, t, m + 1, n + 1, w) = (m + 1) + (n + 1) - 2 * (k + 1) + d
  BY DEF CostOf, k
<1>12. CostOf(s, t, m + 1, n + 1, w) = CostOf(s, t, m, n, v) + e
  <2>1. d = c + e
    BY <1>9
  <2> HIDE DEF c, d, e, w
  <2> QED
    BY <1>1, <1>10, <1>11, <2>1
<1> QED
  BY <1>8, <1>12

(* Without the last pair that is kept.                                     *)
LEMMA WayWithoutLast ==
  ASSUME NEW s, NEW t, NEW m \in Nat, NEW n \in Nat, NEW w \in Ways(m, n), w.k # 0
  PROVE  \E v \in Ways(m, n) :
           /\ v.k = w.k - 1
           /\ \A a \in 1 .. v.k : v.p[a] < w.p[w.k] /\ v.q[a] < w.q[w.k]
           /\ CostOf(s, t, m, n, v) = CostOf(s, t, m, n, w) + 2 - Differ(s, t, w.p[w.k], w.q[w.k])
<1> DEFINE k == w.k - 1
           p == [a \in 1 .. k |-> w.p[a]]
           q == [a \in 1 .. k |-> w.q[a]]
           v == [k |-> k, p |-> p, q |-> q]
<1>1. /\ w.k \in 0 .. m /\ w.k \in Nat
      /\ w.p \in [1 .. w.k -> 1 .. m] /\ w.q \in [1 .. w.k -> 1 .. n]
      /\ \A a \in 1 .. w.k, b \in 1 .. w.k : a < b => w.p[a] < w.p[b] /\ w.q[a] < w.q[b]
  BY WayHas
<1>2. k \in Nat /\ w.k = k + 1 /\ k \in 0 .. m
  BY <1>1
<1> HIDE DEF k
<1>3. \A a \in 1 .. k : a \in 1 .. w.k /\ a < w.k /\ w.k \in 1 .. w.k
  BY <1>2
<1>4. \A a \in 1 .. k : p[a] = w.p[a] /\ q[a] = w.q[a]
  OBVIOUS
<1>5. p \in [1 .. k -> 1 .. m] /\ q \in [1 .. k -> 1 .. n]
  BY <1>1, <1>3
<1>6. \A a \in 1 .. k, b \in 1 .. k : a < b => p[a] < p[b] /\ q[a] < q[b]
  BY <1>1, <1>3, <1>4
<1>7. \A a \in 1 .. k : p[a] < w.p[w.k] /\ q[a] < w.q[w.k]
  BY <1>1, <1>3, <1>4
<1>8. v \in Ways(m, n)
  <2>1. p \in Picks(k, m) /\ q \in Picks(k, n)
    BY <1>5, <1>6 DEF Picks
  <2> QED
    BY <1>2, <2>1, WayIs
<1> HIDE DEF p, q
<1> DEFINE c == Cardinality(Changed(s, t, v))
           d == Cardinality(Changed(s, t, w))
           e == Differ(s, t, w.p[w.k], w.q[w.k])
<1>9. v.k = k /\ v.p = p /\ v.q = q
  OBVIOUS
<1>10. d = c + e
  <2> HIDE DEF v
  <2> QED
    BY <1>2, <1>4, <1>9, OneMoreKept
<1>11. c \in Nat /\ e \in Nat
  BY <1>2, <1>9, ChangedIsFinite DEF Differ
<1>12. CostOf(s, t, m, n, v) = m + n - 2 * k + c /\ CostOf(s, t, m, n, w) = m + n - 2 * w.k + d
  BY DEF CostOf
<1>13. CostOf(s, t, m, n, v) = CostOf(s, t, m, n, w) + 2 - e
  <2> HIDE DEF c, d, e, v
  <2> QED
    BY <1>2, <1>10, <1>11, <1>12
<1>14. \A a \in 1 .. v.k : v.p[a] < w.p[w.k] /\ v.q[a] < w.q[w.k]
  <2> HIDE DEF v
  <2> QED
    BY <1>4, <1>7, <1>9
<1>15. v.k = w.k - 1
  BY <1>9 DEF k
<1> HIDE DEF v
<1> QED
  BY <1>8, <1>13, <1>14, <1>15

(* Nothing is made of nothing but by inserting or taking away.             *)
LEMMA LeastOfNone ==
  ASSUME NEW s, NEW t, NEW m \in Nat, NEW n \in Nat, m = 0 \/ n = 0
  PROVE  Least(s, t, m, n) = m + n
<1>1. ASSUME NEW w \in Ways(m, n)
      PROVE  CostOf(s, t, m, n, w) = m + n
  <2>1. /\ w.k \in Nat /\ w.k =< m /\ w.p \in [1 .. w.k -> 1 .. m] /\ w.q \in [1 .. w.k -> 1 .. n]
    BY WayHas
  <2>2. w.k = 0
    <3>1. w.k # 0 => 1 \in 1 .. w.k
      BY <2>1
    <3> QED
      BY <2>1, <3>1
  <2>3. Changed(s, t, w) = {}
    BY <2>2 DEF Changed
  <2>4. CostOf(s, t, m, n, w) = m + n - 2 * 0 + 0
    BY <2>2, <2>3, FS_EmptySet DEF CostOf
  <2> QED
    BY <2>4
<1> QED
  BY <1>1, LeastCost

LEMMA ThreeWays ==
  ASSUME NEW s, NEW t, NEW m \in Nat, NEW n \in Nat
  PROVE  /\ Least(s, t, m + 1, n + 1) =< Least(s, t, m, n + 1) + 1
         /\ Least(s, t, m + 1, n + 1) =< Least(s, t, m + 1, n) + 1
         /\ Least(s, t, m + 1, n + 1) =< Least(s, t, m, n) + Differ(s, t, m + 1, n + 1)
<1>0. m + 1 \in Nat /\ n + 1 \in Nat
  OBVIOUS
<1> DEFINE L == Least(s, t, m + 1, n + 1)
<1>1. L \in Nat /\ \A w \in Ways(m + 1, n + 1) : L =< CostOf(s, t, m + 1, n + 1, w)
  BY <1>0, LeastCost
<1>2. ASSUME NEW i \in Nat, NEW j \in Nat, i =< m + 1, j =< n + 1
      PROVE  L =< Least(s, t, i, j) + (m + 1 - i) + (n + 1 - j)
  <2>1. PICK v \in Ways(i, j) : Least(s, t, i, j) = CostOf(s, t, i, j, v)
    BY LeastCost
  <2>2. /\ v.p \in [1 .. v.k -> 1 .. i] /\ v.q \in [1 .. v.k -> 1 .. j]
    BY WayHas
  <2>3. \A a \in 1 .. v.k : v.p[a] =< m + 1 /\ v.q[a] =< n + 1
    <3>1. \A a \in 1 .. v.k : v.p[a] \in 1 .. i /\ v.q[a] \in 1 .. j
      BY <2>2
    <3> QED
      BY <1>2, <3>1
  <2>4. /\ v \in Ways(m + 1, n + 1)
        /\ CostOf(s, t, m + 1, n + 1, v) = CostOf(s, t, i, j, v) + (m + 1 - i) + (n + 1 - j)
    <3> DEFINE M == m + 1
               N == n + 1
    <3>1. M \in Nat /\ N \in Nat /\ \A a \in 1 .. v.k : v.p[a] =< M /\ v.q[a] =< N
      BY <1>0, <2>3
    <3> HIDE DEF M, N
    <3>2. v \in Ways(M, N) /\ CostOf(s, t, M, N, v) = CostOf(s, t, i, j, v) + (M - i) + (N - j)
      BY <3>1, WayOfOther
    <3> QED
      BY <3>2 DEF M, N
  <2>5. L =< CostOf(s, t, i, j, v) + (m + 1 - i) + (n + 1 - j)
    BY <1>1, <2>4
  <2> QED
    BY <2>1, <2>5
<1>3. L =< Least(s, t, m, n + 1) + 1
  <2>1. L =< Least(s, t, m, n + 1) + (m + 1 - m) + (n + 1 - (n + 1))
    BY <1>0, <1>2
  <2>2. Least(s, t, m, n + 1) \in Nat
    BY <1>0, LeastCost
  <2> HIDE DEF L
  <2> QED
    BY <1>1, <2>1, <2>2
<1>4. L =< Least(s, t, m + 1, n) + 1
  <2>1. L =< Least(s, t, m + 1, n) + (m + 1 - (m + 1)) + (n + 1 - n)
    BY <1>0, <1>2
  <2>2. Least(s, t, m + 1, n) \in Nat
    BY <1>0, LeastCost
  <2> HIDE DEF L
  <2> QED
    BY <1>1, <2>1, <2>2
<1>5. L =< Least(s, t, m, n) + Differ(s, t, m + 1, n + 1)
  <2>1. PICK v \in Ways(m, n) : Least(s, t, m, n) = CostOf(s, t, m, n, v)
    BY LeastCost
  <2>2. PICK w \in Ways(m + 1, n + 1) :
          CostOf(s, t, m + 1, n + 1, w) = CostOf(s, t, m, n, v) + Differ(s, t, m + 1, n + 1)
    BY WayGoesOn
  <2> QED
    BY <1>1, <2>1, <2>2
<1> QED
  BY <1>3, <1>4, <1>5

(* Without its last letter a word is at most one edit further off.         *)
LEMMA OneLetterLess ==
  ASSUME NEW s, NEW t, NEW m \in Nat, NEW n \in Nat
  PROVE  /\ Least(s, t, m, n) =< Least(s, t, m + 1, n) + 1
         /\ Least(s, t, m, n) =< Least(s, t, m, n + 1) + 1
<1>1. ASSUME NEW i \in Nat, NEW j \in Nat,
             (i = m + 1 /\ j = n) \/ (i = m /\ j = n + 1)
      PROVE  Least(s, t, m, n) =< Least(s, t, i, j) + 1
  <2>1. PICK w \in Ways(i, j) : Least(s, t, i, j) = CostOf(s, t, i, j, w)
    BY LeastCost
  <2>2. /\ w.k \in Nat
        /\ w.p \in [1 .. w.k -> 1 .. i] /\ w.q \in [1 .. w.k -> 1 .. j]
        /\ \A a \in 1 .. w.k, b \in 1 .. w.k : a < b => w.p[a] < w.p[b] /\ w.q[a] < w.q[b]
    BY WayHas
  <2>3. CostOf(s, t, i, j, w) \in Nat
    BY CostIsNat
  <2>4. /\ Least(s, t, m, n) \in Nat
        /\ \A v \in Ways(m, n) : Least(s, t, m, n) =< CostOf(s, t, m, n, v)
    BY LeastCost
  <2>5. CASE \A a \in 1 .. w.k : w.p[a] =< m /\ w.q[a] =< n
    <3>1. w \in Ways(m, n) /\ CostOf(s, t, m, n, w) = CostOf(s, t, i, j, w) + (m - i) + (n - j)
      BY <2>5, WayOfOther
    <3>2. CostOf(s, t, m, n, w) = CostOf(s, t, i, j, w) - 1
      BY <1>1, <2>3, <3>1
    <3> QED
      BY <2>1, <2>3, <2>4, <3>1, <3>2
  <2>6. CASE ~\A a \in 1 .. w.k : w.p[a] =< m /\ w.q[a] =< n
    <3>1. w.k # 0
      BY <2>6
    <3>2. PICK v \in Ways(i, j) :
            /\ v.k = w.k - 1
            /\ \A a \in 1 .. v.k : v.p[a] < w.p[w.k] /\ v.q[a] < w.q[w.k]
            /\ CostOf(s, t, i, j, v) = CostOf(s, t, i, j, w) + 2 - Differ(s, t, w.p[w.k], w.q[w.k])
      BY <3>1, WayWithoutLast
    <3>3. w.p[w.k] \in 1 .. i /\ w.q[w.k] \in 1 .. j
      BY <2>2, <3>1
    <3>4. \A a \in 1 .. v.k : v.p[a] =< m /\ v.q[a] =< n
      <4>0. v.p \in [1 .. v.k -> 1 .. i] /\ v.q \in [1 .. v.k -> 1 .. j]
        BY WayHas
      <4>1. \A a \in 1 .. v.k : v.p[a] \in 1 .. i /\ v.q[a] \in 1 .. j
        BY <4>0
      <4> QED
        BY <1>1, <3>2, <3>3, <4>1
    <3>5. v \in Ways(m, n) /\ CostOf(s, t, m, n, v) = CostOf(s, t, i, j, v) + (m - i) + (n - j)
      BY <3>4, WayOfOther
    <3> DEFINE e == Differ(s, t, w.p[w.k], w.q[w.k])
    <3>6. e \in 0 .. 1
      BY DEF Differ
    <3> HIDE DEF e
    <3>7. CostOf(s, t, i, j, v) = CostOf(s, t, i, j, w) + 2 - e
      BY <3>2 DEF e
    <3>8. CostOf(s, t, m, n, v) =< CostOf(s, t, i, j, w) + 1 /\ CostOf(s, t, m, n, v) \in Nat
      <4>1. CostOf(s, t, m, n, v) \in Nat
        BY <3>5, CostIsNat
      <4> QED
        BY <1>1, <2>3, <3>5, <3>6, <3>7, <4>1
    <3> QED
      BY <2>1, <2>3, <2>4, <3>5, <3>8
  <2> QED
    BY <2>5, <2>6
<1>2. m + 1 \in Nat /\ n + 1 \in Nat
  OBVIOUS
<1>3. Least(s, t, m, n) =< Least(s, t, m + 1, n) + 1
  <2> DEFINE M == m + 1
  <2>1. M \in Nat /\ M = m + 1
    BY <1>2
  <2> HIDE DEF M
  <2>2. (M = m + 1 /\ n = n) \/ (M = m /\ n = n + 1)
    BY <2>1
  <2>3. Least(s, t, m, n) =< Least(s, t, M, n) + 1
    BY <1>1, <2>1, <2>2
  <2> QED
    BY <2>3 DEF M
<1>4. Least(s, t, m, n) =< Least(s, t, m, n + 1) + 1
  BY <1>1, <1>2
<1> QED
  BY <1>3, <1>4

(* The least number of edits is one of three.                              *)
LEMMA OneOfThree ==
  ASSUME NEW s, NEW t, NEW m \in Nat, NEW n \in Nat
  PROVE  \/ Least(s, t, m + 1, n + 1) = Least(s, t, m, n + 1) + 1
         \/ Least(s, t, m + 1, n + 1) = Least(s, t, m + 1, n) + 1
         \/ Least(s, t, m + 1, n + 1) = Least(s, t, m, n) + Differ(s, t, m + 1, n + 1)
<1> DEFINE i == m + 1
           j == n + 1
           e == Differ(s, t, i, j)
<1>1. i \in Nat /\ j \in Nat /\ i - 1 = m /\ j - 1 = n
  OBVIOUS
<1>2. /\ Least(s, t, i, j) =< Least(s, t, m, j) + 1
      /\ Least(s, t, i, j) =< Least(s, t, i, n) + 1
      /\ Least(s, t, i, j) =< Least(s, t, m, n) + e
  BY ThreeWays
<1>3. e \in 0 .. 1
  BY DEF Differ
<1> HIDE DEF i, j, e
<1>4. /\ Least(s, t, i, j) \in Nat /\ Least(s, t, m, j) \in Nat
      /\ Least(s, t, i, n) \in Nat /\ Least(s, t, m, n) \in Nat
  BY <1>1, LeastCost
<1>5. PICK w \in Ways(i, j) : Least(s, t, i, j) = CostOf(s, t, i, j, w)
  BY <1>1, LeastCost
<1>6. /\ w.k \in Nat
      /\ w.p \in [1 .. w.k -> 1 .. i] /\ w.q \in [1 .. w.k -> 1 .. j]
      /\ \A a \in 1 .. w.k, b \in 1 .. w.k : a < b => w.p[a] < w.p[b] /\ w.q[a] < w.q[b]
  BY <1>1, WayHas
<1>7. CostOf(s, t, i, j, w) \in Nat
  BY <1>1, CostIsNat
<1>8. CASE \A a \in 1 .. w.k : w.p[a] =< m
  <2>1. \A a \in 1 .. w.k : w.p[a] =< m /\ w.q[a] =< j
    BY <1>1, <1>6, <1>8
  <2>2. w \in Ways(m, j) /\ CostOf(s, t, m, j, w) = CostOf(s, t, i, j, w) + (m - i) + (j - j)
    BY <1>1, <2>1, WayOfOther
  <2>3. Least(s, t, m, j) =< CostOf(s, t, m, j, w)
    BY <1>1, <2>2, LeastCost
  <2>4. Least(s, t, i, j) >= Least(s, t, m, j) + 1
    BY <1>1, <1>4, <1>5, <1>7, <2>2, <2>3
  <2>5. Least(s, t, i, j) = Least(s, t, m, j) + 1
    BY <1>2, <1>4, <2>4
  <2> QED
    BY <2>5 DEF i, j
<1>9. CASE \A a \in 1 .. w.k : w.q[a] =< n
  <2>1. \A a \in 1 .. w.k : w.p[a] =< i /\ w.q[a] =< n
    BY <1>1, <1>6, <1>9
  <2>2. w \in Ways(i, n) /\ CostOf(s, t, i, n, w) = CostOf(s, t, i, j, w) + (i - i) + (n - j)
    BY <1>1, <2>1, WayOfOther
  <2>3. Least(s, t, i, n) =< CostOf(s, t, i, n, w)
    BY <1>1, <2>2, LeastCost
  <2>4. Least(s, t, i, j) >= Least(s, t, i, n) + 1
    BY <1>1, <1>4, <1>5, <1>7, <2>2, <2>3
  <2>5. Least(s, t, i, j) = Least(s, t, i, n) + 1
    BY <1>2, <1>4, <2>4
  <2> QED
    BY <2>5 DEF i, j
<1>10. CASE ~(\A a \in 1 .. w.k : w.p[a] =< m) /\ ~(\A a \in 1 .. w.k : w.q[a] =< n)
  <2>1. w.k # 0 /\ w.k \in 1 .. w.k
    BY <1>6, <1>10
  <2>2. w.p[w.k] = i /\ w.q[w.k] = j
    <3>1. \A a \in 1 .. w.k : a < w.k \/ a = w.k
      BY <1>6
    <3>2. \A a \in 1 .. w.k : w.p[a] \in 1 .. i /\ w.q[a] \in 1 .. j
      BY <1>6
    <3>3. \A a \in 1 .. w.k : w.p[a] =< w.p[w.k] /\ w.q[a] =< w.q[w.k]
      BY <1>1, <1>6, <2>1, <3>1, <3>2
    <3>4. PICK a \in 1 .. w.k : ~(w.p[a] =< m)
      BY <1>10
    <3>5. PICK b \in 1 .. w.k : ~(w.q[b] =< n)
      BY <1>10
    <3> QED
      BY <1>1, <2>1, <3>2, <3>3, <3>4, <3>5
  <2>3. PICK v \in Ways(i, j) :
          /\ v.k = w.k - 1
          /\ \A a \in 1 .. v.k : v.p[a] < w.p[w.k] /\ v.q[a] < w.q[w.k]
          /\ CostOf(s, t, i, j, v) = CostOf(s, t, i, j, w) + 2 - Differ(s, t, w.p[w.k], w.q[w.k])
    BY <1>1, <2>1, WayWithoutLast
  <2>4. CostOf(s, t, i, j, v) = CostOf(s, t, i, j, w) + 2 - e
    BY <2>2, <2>3 DEF e
  <2>5. \A a \in 1 .. v.k : v.p[a] =< m /\ v.q[a] =< n
    <3>0. v.p \in [1 .. v.k -> 1 .. i] /\ v.q \in [1 .. v.k -> 1 .. j]
      BY <1>1, WayHas
    <3>1. \A a \in 1 .. v.k : v.p[a] \in 1 .. i /\ v.q[a] \in 1 .. j
      BY <3>0
    <3> QED
      BY <1>1, <2>2, <2>3, <3>1
  <2>6. v \in Ways(m, n) /\ CostOf(s, t, m, n, v) = CostOf(s, t, i, j, v) + (m - i) + (n - j)
    BY <1>1, <2>5, WayOfOther
  <2>7. Least(s, t, m, n) =< CostOf(s, t, m, n, v)
    BY <2>6, LeastCost
  <2>8. Least(s, t, i, j) >= Least(s, t, m, n) + e
    BY <1>1, <1>3, <1>4, <1>5, <1>7, <2>4, <2>6, <2>7
  <2>9. Least(s, t, i, j) = Least(s, t, m, n) + e
    BY <1>2, <1>3, <1>4, <2>8
  <2> QED
    BY <2>9 DEF e, i, j
<1> QED
  BY <1>8, <1>9, <1>10

LeastOfThree(a, b, c) == Min({a, b, c})

(* What levenshtein puts in the row.                                       *)
LEMMA LeastIsAsInRow ==
  ASSUME NEW s, NEW t, NEW m \in Nat, NEW n \in Nat, NEW i \in Nat, NEW j \in Nat,
         i = m + 1, j = n + 1
  PROVE  /\ s[i] = t[j] => Least(s, t, i, j) = Least(s, t, m, n)
         /\ s[i] # t[j] =>
              Least(s, t, i, j)
                = 1 + LeastOfThree(Least(s, t, m, n), Least(s, t, m, j), Least(s, t, i, n))
<1> DEFINE L == Least(s, t, i, j)
           a == Least(s, t, m, n)
           b == Least(s, t, m, j)
           c == Least(s, t, i, n)
           e == Differ(s, t, i, j)
<1>0. i \in Nat /\ j \in Nat
  OBVIOUS
<1>1. L \in Nat /\ a \in Nat /\ b \in Nat /\ c \in Nat
  BY <1>0, LeastCost
<1>2. L =< b + 1 /\ L =< c + 1 /\ L =< a + e
  BY ThreeWays
<1>3. L = b + 1 \/ L = c + 1 \/ L = a + e
  BY OneOfThree
<1>4. a =< b + 1 /\ a =< c + 1
  BY OneLetterLess
<1>5. e = IF s[i] = t[j] THEN 0 ELSE 1
  BY DEF Differ
<1> HIDE DEF L, a, b, c, e
<1>6. CASE s[i] = t[j]
  <2>1. L = a
    BY <1>1, <1>2, <1>3, <1>4, <1>5, <1>6
  <2> QED
    BY <1>6, <2>1 DEF L, a
<1>7. CASE s[i] # t[j]
  <2>1. e = 1
    BY <1>5, <1>7
  <2>2. L - 1 \in {a, b, c} /\ \A x \in {a, b, c} : L - 1 =< x
    BY <1>1, <1>2, <1>3, <2>1
  <2>3. {a, b, c} \in SUBSET Int
    BY <1>1
  <2>4. LeastOfThree(a, b, c) = L - 1
    BY <2>2, <2>3, LeastIs DEF LeastOfThree
  <2>5. L = 1 + LeastOfThree(a, b, c)
    BY <1>1, <2>4
  <2> QED
    BY <1>7, <2>5 DEF L, a, b, c
<1> QED
  BY <1>6, <1>7

-----------------------------------------------------------------------------
(* The loops of levenshtein: what the row holds after each letter.         *)
RowOf(s, t, i) == [j \in 0 .. Len(t) |-> Least(s, t, i, j)]

(* Up to the place j the row is the one of i letters, and after it still   *)
(* the one of i - 1.                                                       *)
Between(s, t, i, j) ==
  [row |-> [l \in 0 .. Len(t) |-> IF l =< j THEN Least(s, t, i, l) ELSE Least(s, t, i - 1, l)],
   prev |-> Least(s, t, i - 1, j)]

LEMMA RowGoesOn ==
  ASSUME NEW s, NEW t, Len(t) \in Nat, NEW i \in Nat \ {0}, NEW j \in 1 .. Len(t)
  PROVE  RowAt(s, t, i, Between(s, t, i, j - 1), j) = Between(s, t, i, j)
<1> DEFINE N == Len(t)
           acc == Between(s, t, i, j - 1)
           new == Between(s, t, i, j)
           put == IF s[i] = t[j] THEN acc.prev
                  ELSE 1 + Min({acc.prev, acc.row[j], acc.row[j - 1]})
<1>1. N \in Nat /\ i - 1 \in Nat /\ j - 1 \in Nat /\ (i - 1) + 1 = i /\ (j - 1) + 1 = j
      /\ j \in 0 .. N /\ j - 1 \in 0 .. N /\ j \in Nat /\ ~(j =< j - 1) /\ j - 1 =< j - 1
  OBVIOUS
<1> HIDE DEF N
<1>2. /\ acc.row = [l \in 0 .. N |-> IF l =< j - 1 THEN Least(s, t, i, l) ELSE Least(s, t, i - 1, l)]
      /\ acc.prev = Least(s, t, i - 1, j - 1)
  BY DEF Between, N
<1>3. /\ new = [row |-> [l \in 0 .. N |-> IF l =< j THEN Least(s, t, i, l) ELSE Least(s, t, i - 1, l)],
                prev |-> Least(s, t, i - 1, j)]
  BY DEF Between, N
<1>4. RowAt(s, t, i, acc, j) = [row |-> [acc.row EXCEPT ![j] = put], prev |-> acc.row[j]]
  BY DEF RowAt
<1> HIDE DEF acc, new
<1>5. acc.row[j] = Least(s, t, i - 1, j) /\ acc.row[j - 1] = Least(s, t, i, j - 1)
  BY <1>1, <1>2
<1>6. put = Least(s, t, i, j)
  <2> DEFINE m == i - 1
             n == j - 1
  <2>1. m \in Nat /\ n \in Nat /\ m + 1 = i /\ n + 1 = j
    BY <1>1
  <2>2. put = IF s[i] = t[j] THEN Least(s, t, m, n)
              ELSE 1 + LeastOfThree(Least(s, t, m, n), Least(s, t, m, j), Least(s, t, i, n))
    BY <1>2, <1>5 DEF LeastOfThree
  <2> HIDE DEF m, n, put
  <2>3. /\ s[i] = t[j] => Least(s, t, i, j) = Least(s, t, m, n)
        /\ s[i] # t[j] =>
             Least(s, t, i, j)
               = 1 + LeastOfThree(Least(s, t, m, n), Least(s, t, m, j), Least(s, t, i, n))
    <3>1. m \in Nat /\ n \in Nat /\ i \in Nat /\ j \in Nat /\ i = m + 1 /\ j = n + 1
      BY <2>1
    <3> QED
      BY ONLY <3>1, LeastIsAsInRow
  <2>4. CASE s[i] = t[j]
    BY <2>2, <2>3, <2>4
  <2>5. CASE s[i] # t[j]
    BY <2>2, <2>3, <2>5
  <2> QED
    BY <2>4, <2>5
<1> HIDE DEF put
<1>7. [acc.row EXCEPT ![j] = put]
        = [l \in 0 .. N |-> IF l =< j THEN Least(s, t, i, l) ELSE Least(s, t, i - 1, l)]
  <2>1. \A l \in 0 .. N : l = j \/ (l =< j <=> l =< j - 1)
    BY <1>1
  <2> QED
    BY <1>1, <1>2, <1>6, <2>1
<1> QED
  BY <1>3, <1>4, <1>5, <1>7 DEF acc, new

LEMMA FilledIs ==
  ASSUME NEW s, NEW t, Len(t) \in Nat, NEW i \in Nat \ {0}
  PROVE  Filled(s, t, i, RowOf(s, t, i - 1)) = RowOf(s, t, i)
<1> DEFINE N == Len(t)
           first == [row |-> [RowOf(s, t, i - 1) EXCEPT ![0] = i], prev |-> i - 1]
           f == [j \in 0 .. N |-> Between(s, t, i, j)]
           By(m, j) == IF j = 0 THEN first ELSE RowAt(s, t, i, m[j - 1], j)
<1>1. N \in Nat /\ i - 1 \in Nat /\ 0 \in 0 .. N /\ N \in 0 .. N /\ i \in Nat
  OBVIOUS
<1>2. Between(s, t, i, 0) = first
  <2>1. Least(s, t, i, 0) = i + 0 /\ Least(s, t, i - 1, 0) = (i - 1) + 0
    BY <1>1, LeastOfNone
  <2>2. [l \in 0 .. N |-> IF l =< 0 THEN Least(s, t, i, l) ELSE Least(s, t, i - 1, l)]
          = [RowOf(s, t, i - 1) EXCEPT ![0] = i]
    <3>1. \A l \in 0 .. N : l = 0 <=> l =< 0
      BY <1>1
    <3>2. RowOf(s, t, i - 1) = [l \in 0 .. N |-> Least(s, t, i - 1, l)]
      BY DEF RowOf
    <3>3. Least(s, t, i, 0) = i
      BY <1>1, <2>1
    <3> HIDE DEF N
    <3> QED
      BY <1>1, <3>1, <3>2, <3>3
  <2> QED
    BY <1>1, <2>1, <2>2 DEF Between
<1> HIDE DEF first
<1>3. \A j \in 0 .. N : f[j] = By(f, j)
  <2> TAKE j \in 0 .. N
  <2>1. CASE j = 0
    BY <1>1, <1>2, <2>1
  <2>2. CASE j # 0
    <3>1. j \in 1 .. N /\ j - 1 \in 0 .. N
      BY <1>1, <2>2
    <3>2. f[j] = Between(s, t, i, j) /\ f[j - 1] = Between(s, t, i, j - 1)
      BY <3>1
    <3> HIDE DEF f
    <3>3. RowAt(s, t, i, Between(s, t, i, j - 1), j) = Between(s, t, i, j)
      BY <3>1, RowGoesOn
    <3> QED
      BY <2>2, <3>2, <3>3
  <2> QED
    BY <2>1, <2>2
<1>4. f = [j \in 0 .. N |-> By(f, j)]
  <2>1. f = [j \in 0 .. N |-> f[j]]
    OBVIOUS
  <2> HIDE DEF f, By
  <2> QED
    BY <1>3, <2>1
<1> DEFINE m == CHOOSE m : m = [j \in 0 .. N |-> By(m, j)]
<1>5. Filled(s, t, i, RowOf(s, t, i - 1)) = m[N].row
  BY DEF Filled, first
<1> HIDE DEF f
<1>6. m = [j \in 0 .. N |-> By(m, j)]
  BY <1>4, Zenon
<1> HIDE DEF m
<1> DEFINE S == {j \in 0 .. N : m[j] = f[j]}
<1>7. 0 \in S
  BY <1>1, <1>3, <1>6
<1>8. ASSUME NEW j \in 0 .. N - 1, j \in S
      PROVE  j + 1 \in S
  <2>1. j + 1 \in 0 .. N /\ j + 1 # 0 /\ (j + 1) - 1 = j
    BY <1>1
  <2>2. m[j + 1] = By(m, j + 1) /\ f[j + 1] = By(f, j + 1)
    BY <1>3, <1>6, <2>1
  <2>3. m[j] = f[j]
    BY <1>8
  <2> QED
    BY <2>1, <2>2, <2>3
<1>9. m[N] = f[N]
  <2>1. 0 .. N \subseteq S
    <3> HIDE DEF S
    <3> QED BY <1>1, <1>7, <1>8, Reached
  <2> QED
    BY <1>1, <2>1
<1>10. f[N].row = RowOf(s, t, i)
  <2>1. \A l \in 0 .. N : l =< N
    BY <1>1
  <2>2. f[N] = Between(s, t, i, N)
    BY <1>1 DEF f
  <2> QED
    BY <1>1, <2>1, <2>2 DEF Between, RowOf
<1> QED
  BY <1>5, <1>9, <1>10

LEMMA LastRowIs ==
  ASSUME NEW s, NEW t, Len(s) \in Nat, Len(t) \in Nat
  PROVE  LastRow(s, t) = RowOf(s, t, Len(s))
<1> DEFINE N == Len(s)
           first == [j \in 0 .. Len(t) |-> j]
           f == [i \in 0 .. N |-> RowOf(s, t, i)]
           By(m, i) == IF i = 0 THEN first ELSE Filled(s, t, i, m[i - 1])
<1>1. N \in Nat /\ 0 \in 0 .. N /\ N \in 0 .. N
  OBVIOUS
<1>2. RowOf(s, t, 0) = first
  <2>1. \A j \in 0 .. Len(t) : Least(s, t, 0, j) = j
    <3> TAKE j \in 0 .. Len(t)
    <3>1. j \in Nat /\ 0 + j = j
      OBVIOUS
    <3>2. Least(s, t, 0, j) = 0 + j
      BY <3>1, LeastOfNone
    <3> QED
      BY <3>1, <3>2
  <2> QED
    BY <2>1 DEF RowOf
<1> HIDE DEF first
<1>3. \A i \in 0 .. N : f[i] = By(f, i)
  <2> TAKE i \in 0 .. N
  <2>1. CASE i = 0
    BY <1>1, <1>2, <2>1
  <2>2. CASE i # 0
    <3>1. i \in Nat \ {0} /\ i - 1 \in 0 .. N
      BY <1>1, <2>2
    <3>2. f[i] = RowOf(s, t, i) /\ f[i - 1] = RowOf(s, t, i - 1)
      BY <3>1
    <3> HIDE DEF f
    <3>3. Filled(s, t, i, RowOf(s, t, i - 1)) = RowOf(s, t, i)
      BY <3>1, FilledIs
    <3> QED
      BY <2>2, <3>2, <3>3
  <2> QED
    BY <2>1, <2>2
<1>4. f = [i \in 0 .. N |-> By(f, i)]
  <2>1. f = [i \in 0 .. N |-> f[i]]
    OBVIOUS
  <2> HIDE DEF f, By
  <2> QED
    BY <1>3, <2>1
<1> DEFINE m == CHOOSE m : m = [i \in 0 .. N |-> By(m, i)]
<1>5. LastRow(s, t) = m[N]
  BY DEF LastRow, first
<1> HIDE DEF f
<1>6. m = [i \in 0 .. N |-> By(m, i)]
  BY <1>4, Zenon
<1> HIDE DEF m
<1> DEFINE S == {i \in 0 .. N : m[i] = f[i]}
<1>7. 0 \in S
  BY <1>1, <1>3, <1>6
<1>8. ASSUME NEW i \in 0 .. N - 1, i \in S
      PROVE  i + 1 \in S
  <2>1. i + 1 \in 0 .. N /\ i + 1 # 0 /\ (i + 1) - 1 = i
    BY <1>1
  <2>2. m[i + 1] = By(m, i + 1) /\ f[i + 1] = By(f, i + 1)
    BY <1>3, <1>6, <2>1
  <2>3. m[i] = f[i]
    BY <1>8
  <2> QED
    BY <2>1, <2>2, <2>3
<1>9. m[N] = f[N]
  <2>1. 0 .. N \subseteq S
    <3> HIDE DEF S
    <3> QED BY <1>1, <1>7, <1>8, Reached
  <2> QED
    BY <1>1, <2>1
<1>10. f[N] = RowOf(s, t, N)
  BY <1>1 DEF f
<1> QED
  BY <1>5, <1>9, <1>10

(* levenshtein comes to the least number of edits.                         *)
LEMMA EditsAreLeast ==
  ASSUME NEW s, NEW t, Len(s) \in Nat, Len(t) \in Nat
  PROVE  Edits(s, t) = Least(s, t, Len(s), Len(t))
<1> DEFINE M == Len(s)
           N == Len(t)
           cost(k, p, q) == M + N - 2 * k + Cardinality({a \in 1 .. k : s[p[a]] # t[q[a]]})
           C == UNION {{cost(k, p, q) : p \in Picks(k, M), q \in Picks(k, N)} : k \in 0 .. M}
<1>1. M \in Nat /\ N \in Nat
  OBVIOUS
<1>2. Edits(s, t) = Min(C)
  BY DEF Edits
<1> HIDE DEF M, N, cost
<1>3. ASSUME NEW x \in C
      PROVE  x \in Costs(s, t, M, N)
  <2>1. PICK k \in 0 .. M : x \in {cost(k, p, q) : p \in Picks(k, M), q \in Picks(k, N)}
    OBVIOUS
  <2>2. PICK p \in Picks(k, M), q \in Picks(k, N) : x = cost(k, p, q)
    BY <2>1
  <2> DEFINE w == [k |-> k, p |-> p, q |-> q]
  <2>3. w \in Ways(M, N) /\ w.k = k /\ w.p = p /\ w.q = q
    BY <1>1, WayIs
  <2> HIDE DEF w
  <2>4. CostOf(s, t, M, N, w) = x
    BY <2>2, <2>3 DEF CostOf, Changed, cost
  <2> QED
    BY <2>3, <2>4 DEF Costs
<1>4. ASSUME NEW x \in Costs(s, t, M, N)
      PROVE  x \in C
  <2>1. PICK w \in Ways(M, N) : x = CostOf(s, t, M, N, w)
    BY DEF Costs
  <2>2. w.k \in 0 .. M /\ w.p \in Picks(w.k, M) /\ w.q \in Picks(w.k, N)
    BY DEF Ways
  <2>3. x = cost(w.k, w.p, w.q)
    BY <2>1 DEF CostOf, Changed, cost
  <2>4. x \in {cost(w.k, p, q) : p \in Picks(w.k, M), q \in Picks(w.k, N)}
    BY <2>2, <2>3
  <2> QED
    BY <2>2, <2>4
<1>5. C = Costs(s, t, M, N)
  <2> HIDE DEF C
  <2> QED BY <1>3, <1>4
<1>6. Edits(s, t) = Least(s, t, M, N)
  <2> HIDE DEF C
  <2> QED
    BY <1>2, <1>5 DEF Least
<1> QED
  BY <1>6 DEF M, N

(* How far t is from s, by what is compared of it.                         *)
Apart(s, t) == Edits(s, Compared(t))

LEMMA LevenshteinIs ==
  ASSUME NEW s \in Spelling, NEW t \in Spelling
  PROVE  Levenshtein(s, t) = Apart(s, t) /\ Apart(s, t) \in Nat
<1> DEFINE c == Compared(t)
<1>1. c \in Seq(Letter)
  <2>1. CASE Len(t) > MostLetters
    <3>1. SubSeq(t, 1, MostLetters) \in Seq(Letter)
      BY <2>1, WordAssumption DEF Spelling
    <3> QED
      BY <2>1, <3>1 DEF Compared
  <2>2. CASE ~(Len(t) > MostLetters)
    BY <2>2 DEF Compared, Spelling
  <2> QED
    BY <2>1, <2>2
<1>2. s \in Seq(Letter) /\ s # <<>> /\ t # <<>>
  BY DEF Spelling
<1>3. Levenshtein(s, t) = LastRow(s, c)[Len(c)]
  BY <1>2 DEF Levenshtein
<1> HIDE DEF c
<1>4. Len(s) \in Nat /\ Len(c) \in Nat /\ Len(c) \in 0 .. Len(c)
  BY <1>1, <1>2
<1>5. Edits(s, c) = Least(s, c, Len(s), Len(c)) /\ Least(s, c, Len(s), Len(c)) \in Nat
  BY <1>4, EditsAreLeast, LeastCost
<1>6. LastRow(s, c) = RowOf(s, c, Len(s))
  BY <1>4, LastRowIs
<1>7. RowOf(s, c, Len(s))[Len(c)] = Least(s, c, Len(s), Len(c))
  BY <1>4 DEF RowOf
<1>8. Apart(s, t) = Edits(s, c)
  BY DEF Apart, c
<1> QED
  BY <1>3, <1>5, <1>6, <1>7, <1>8

-----------------------------------------------------------------------------
(* The loops of find_fuzzy_match: what is kept of the first n candidates.  *)
Kept(name, start, candidates, known, best, n) ==
  /\ \A i \in 1 .. n : candidates[i] \in known =>
       Apart(name, candidates[i]) = 0 \/ best.distance =< Apart(name, candidates[i])
  /\ \/ best = start
     \/ \E i \in 1 .. n : /\ candidates[i] \in known
                          /\ best = [name |-> candidates[i], distance |-> Apart(name, candidates[i])]
                          /\ 0 < best.distance /\ best.distance < start.distance

LEMMA KeptGoesOn ==
  ASSUME NEW name \in Spelling, NEW start, start.distance \in Nat,
         NEW candidates \in Seq(Spelling), NEW known, NEW best,
         NEW n \in 0 .. Len(candidates) - 1,
         Kept(name, start, candidates, known, best, n)
  PROVE  Kept(name, start, candidates, known,
              IF candidates[n + 1] \in known THEN Nearer(name, best, candidates[n + 1]) ELSE best,
              n + 1)
<1> DEFINE c == candidates[n + 1]
           d == Apart(name, c)
           new == IF c \in known THEN Nearer(name, best, c) ELSE best
<1>1. /\ n \in Nat /\ n + 1 \in 1 .. n + 1 /\ c \in Spelling
      /\ \A i \in 1 .. n + 1 : i \in 1 .. n \/ i = n + 1
      /\ \A i \in 1 .. n : i \in 1 .. n + 1 /\ candidates[i] \in Spelling
  OBVIOUS
<1>2. Levenshtein(name, c) = d /\ d \in Nat
  <2> HIDE DEF c
  <2> QED BY <1>1, LevenshteinIs
<1>3. \A i \in 1 .. n : Apart(name, candidates[i]) \in Nat
  <2> TAKE i \in 1 .. n
  <2> DEFINE x == candidates[i]
  <2>1. x \in Spelling
    BY <1>1
  <2> HIDE DEF x
  <2>2. Apart(name, x) \in Nat
    BY <2>1, LevenshteinIs
  <2> QED BY <2>2 DEF x
<1>4. /\ \A i \in 1 .. n : candidates[i] \in known =>
           Apart(name, candidates[i]) = 0 \/ best.distance =< Apart(name, candidates[i])
      /\ \/ best = start
         \/ \E i \in 1 .. n : /\ candidates[i] \in known
                              /\ best = [name |-> candidates[i],
                                         distance |-> Apart(name, candidates[i])]
                              /\ 0 < best.distance /\ best.distance < start.distance
  BY DEF Kept
<1>5. best.distance \in Nat /\ best.distance =< start.distance
  <2>1. CASE best = start
    BY <2>1
  <2>2. CASE best # start
    <3>1. PICK i \in 1 .. n : /\ best = [name |-> candidates[i],
                                         distance |-> Apart(name, candidates[i])]
                              /\ best.distance < start.distance
      BY <1>4, <2>2
    <3>2. best.distance = Apart(name, candidates[i])
      BY <3>1
    <3> QED
      BY <1>3, <3>1, <3>2
  <2> QED
    BY <2>1, <2>2
<1>6. CASE c \in known /\ d > 0 /\ d < best.distance
  <2> DEFINE b == [name |-> c, distance |-> d]
  <2>1. new = b
    BY <1>2, <1>6 DEF Nearer
  <2>2. b.distance = d
    OBVIOUS
  <2>3. \A i \in 1 .. n + 1 : candidates[i] \in known =>
          Apart(name, candidates[i]) = 0 \/ d =< Apart(name, candidates[i])
    <3> TAKE i \in 1 .. n + 1
    <3> DEFINE x == Apart(name, candidates[i])
    <3>1. CASE i = n + 1
      <4>1. x = d
        BY <3>1
      <4> HIDE DEF x, d
      <4> QED BY <1>2, <4>1 DEF x
    <3>2. CASE i \in 1 .. n
      <4>1. x \in Nat /\ (candidates[i] \in known => x = 0 \/ best.distance =< x)
        BY <1>3, <1>4, <3>2
      <4> HIDE DEF x, d
      <4>2. candidates[i] \in known => x = 0 \/ d =< x
        BY <1>2, <1>5, <1>6, <4>1
      <4> QED BY <4>2 DEF x
    <3> QED BY <1>1, <3>1, <3>2
  <2>4. 0 < d /\ d < start.distance
    <3> HIDE DEF d
    <3> QED BY <1>2, <1>5, <1>6
  <2>5. \E i \in 1 .. n + 1 : /\ candidates[i] \in known
                              /\ b = [name |-> candidates[i], distance |-> Apart(name, candidates[i])]
                              /\ 0 < b.distance /\ b.distance < start.distance
    <3> WITNESS n + 1 \in 1 .. n + 1
    <3> QED BY <1>6, <2>2, <2>4
  <2>6. Kept(name, start, candidates, known, b, n + 1)
    BY <2>2, <2>3, <2>5 DEF Kept
  <2> QED
    BY <2>1, <2>6
<1>7. CASE ~(c \in known /\ d > 0 /\ d < best.distance)
  <2>1. new = best
    BY <1>2, <1>7 DEF Nearer
  <2>2. \A i \in 1 .. n + 1 : candidates[i] \in known =>
          Apart(name, candidates[i]) = 0 \/ best.distance =< Apart(name, candidates[i])
    <3> TAKE i \in 1 .. n + 1
    <3>1. CASE i = n + 1
      <4>1. c \in known => d = 0 \/ best.distance =< d
        <5> HIDE DEF d
        <5> QED BY <1>2, <1>5, <1>7
      <4> QED BY <3>1, <4>1
    <3>2. CASE i \in 1 .. n
      BY <1>4, <3>2
    <3> QED BY <1>1, <3>1, <3>2
  <2>3. \/ best = start
        \/ \E i \in 1 .. n + 1 : /\ candidates[i] \in known
                                 /\ best = [name |-> candidates[i],
                                            distance |-> Apart(name, candidates[i])]
                                 /\ 0 < best.distance /\ best.distance < start.distance
    BY <1>1, <1>4
  <2>4. Kept(name, start, candidates, known, best, n + 1)
    BY <2>2, <2>3 DEF Kept
  <2> QED
    BY <2>1, <2>4
<1> QED
  BY <1>6, <1>7

(* One step of the loop.                                                   *)
Step(name, candidates, known, best, n) ==
  IF candidates[n] \in known THEN Nearer(name, best, candidates[n]) ELSE best

LEMMA NearestIs ==
  ASSUME NEW name \in Spelling, NEW start, start.distance \in Nat,
         NEW candidates \in Seq(Spelling), NEW known
  PROVE  Kept(name, start, candidates, known,
              Nearest(name, start, candidates, known), Len(candidates))
<1> DEFINE N == Len(candidates)
           Y == {start} \cup {[name |-> c, distance |-> Levenshtein(name, c)] : c \in Spelling}
           g == [x \in (1 .. N) \X Y |-> Step(name, candidates, known, x[2], x[1])]
           By(m, n) == IF n = 0 THEN start
                       ELSE IF candidates[n] \in known THEN Nearer(name, m[n - 1], candidates[n])
                       ELSE m[n - 1]
           upTo == CHOOSE m : m = [n \in 0 .. N |-> By(m, n)]
<1>1. N \in Nat /\ 0 \in 0 .. N /\ N \in 0 .. N /\ start \in Y
  OBVIOUS
<1>2. Nearest(name, start, candidates, known) = upTo[N]
  BY DEF Nearest
<1>3. \A n \in 1 .. N, b \in Y : Step(name, candidates, known, b, n) \in Y
  <2> TAKE n \in 1 .. N, b \in Y
  <2>1. candidates[n] \in Spelling
    OBVIOUS
  <2>2. [name |-> candidates[n], distance |-> Levenshtein(name, candidates[n])] \in Y
    BY <2>1
  <2> HIDE DEF Y
  <2> QED
    BY <2>2 DEF Step, Nearer
<1> HIDE DEF Y
<1>4. \A n \in 1 .. N, b \in Y : g[<<n, b>>] = Step(name, candidates, known, b, n)
  OBVIOUS
<1>5. Stays(g, N, Y)
  BY <1>3, <1>4 DEF Stays
<1> HIDE DEF g
<1>6. PICK f \in [0 .. N -> Y] : Follows(f, g, N, start)
  BY <1>1, <1>5, Recursion
<1>7. \A n \in 1 .. N : n \in 0 .. N /\ n # 0 /\ n - 1 \in 0 .. N
  BY <1>1
<1>8. f[0] = start /\ \A n \in 1 .. N : f[n] = Step(name, candidates, known, f[n - 1], n)
  BY <1>4, <1>6, <1>7 DEF Follows
<1>9. f = [n \in 0 .. N |-> By(f, n)]
  <2>1. \A n \in 0 .. N : n # 0 => n \in 1 .. N
    BY <1>1
  <2>2. \A n \in 0 .. N : f[n] = By(f, n)
    BY <1>8, <2>1 DEF Step
  <2>3. f = [n \in 0 .. N |-> f[n]]
    BY <1>6
  <2> HIDE DEF By
  <2> QED
    BY <2>2, <2>3
<1>10. upTo = [n \in 0 .. N |-> By(upTo, n)]
  BY <1>9, Zenon
<1> HIDE DEF upTo
<1>11. upTo[0] = start /\ \A n \in 1 .. N : upTo[n] = Step(name, candidates, known, upTo[n - 1], n)
  <2>1. \A n \in 0 .. N : upTo[n] = By(upTo, n)
    <3> HIDE DEF By
    <3> QED BY <1>10
  <2> QED
    BY <1>1, <1>7, <2>1 DEF Step
<1> DEFINE S == {n \in 0 .. N : Kept(name, start, candidates, known, upTo[n], n)}
<1>12. 0 \in S
  <2>1. 1 .. 0 = {}
    OBVIOUS
  <2> QED
    BY <1>1, <1>11, <2>1 DEF Kept
<1>13. ASSUME NEW n \in 0 .. N - 1, n \in S
       PROVE  n + 1 \in S
  <2>1. n + 1 \in 1 .. N /\ (n + 1) - 1 = n /\ n + 1 \in 0 .. N
    BY <1>1
  <2> DEFINE b == upTo[n]
  <2>2. upTo[n + 1] = IF candidates[n + 1] \in known THEN Nearer(name, b, candidates[n + 1]) ELSE b
    BY <1>11, <2>1 DEF Step
  <2>3. Kept(name, start, candidates, known, b, n)
    BY <1>13
  <2> HIDE DEF b
  <2>4. Kept(name, start, candidates, known,
             IF candidates[n + 1] \in known THEN Nearer(name, b, candidates[n + 1]) ELSE b, n + 1)
    BY <2>3, KeptGoesOn
  <2> QED
    BY <2>1, <2>2, <2>4
<1>14. 0 .. N \subseteq S
  <2> HIDE DEF S
  <2> QED BY <1>1, <1>12, <1>13, Reached
<1> QED
  BY <1>1, <1>2, <1>14

-----------------------------------------------------------------------------
(* What SuggestionIsNearest asks of a suggestion x for the name a, when    *)
(* the names of b have a meaning.                                          *)
Suits(a, x, b) ==
  LET known == {[word |-> w, edits |-> Edits(a, Compared(w))] : w \in b \cup ToSet(Builtin)}
      near == {c \in known : c.edits \in 1..2}
      nearest == {c.word : c \in {d \in near : \A e \in near : d.edits <= e.edits}}
  IN IF near = {} THEN x = NoWord
     ELSE x \in (IF nearest \cap b = {} THEN nearest ELSE nearest \cap b)

LEMMA Members ==
  ASSUME NEW T, NEW q \in Seq(T)
  PROVE  /\ ToSet(q) \subseteq T
         /\ \A i \in 1 .. Len(q) : q[i] \in ToSet(q)
         /\ \A x \in ToSet(q) : \E i \in 1 .. Len(q) : x = q[i]
  BY DEF ToSet

LEMMA MatchSuits ==
  ASSUME NEW name \in Spelling, symbols \in Seq(Spelling), bound \subseteq ToSet(symbols)
  PROVE  Suits(name, FindFuzzyMatch(name), bound)
<1> DEFINE S == Spelling
           edits(x) == Apart(name, x)
           start == [name |-> NoWord, distance |-> 3]
           cell == Nearest(name, start, symbols, bound)
           best == Nearest(name, cell, Builtin, ToSet(Builtin))
           all == bound \cup ToSet(Builtin)
           known == {[word |-> w, edits |-> edits(w)] : w \in all}
           near == {c \in known : c.edits \in 1..2}
           nearest == {c.word : c \in {d \in near : \A e \in near : d.edits <= e.edits}}
<1>0. Builtin \in Seq(S) /\ symbols \in Seq(S)
  BY WordAssumption
<1> HIDE DEF S
<1>1. /\ bound \subseteq S /\ ToSet(Builtin) \subseteq S /\ all \subseteq S
      /\ \A x \in bound : \E i \in 1 .. Len(symbols) : x = symbols[i]
      /\ \A x \in ToSet(Builtin) : \E i \in 1 .. Len(Builtin) : x = Builtin[i]
      /\ \A i \in 1 .. Len(Builtin) : Builtin[i] \in ToSet(Builtin)
  BY <1>0, Members
<1>2. \A x \in all : edits(x) \in Nat
  BY <1>1, LevenshteinIs DEF S
<1>3. start.distance = 3 /\ start.name = NoWord
  OBVIOUS
<1>4. Kept(name, start, symbols, bound, cell, Len(symbols))
  <2>1. start.distance \in Nat
    BY <1>3
  <2> HIDE DEF start
  <2> QED BY <1>0, <2>1, NearestIs DEF S
<1>5. FindFuzzyMatch(name) = best.name
  BY DEF FindFuzzyMatch
<1> HIDE DEF start, cell, edits
<1>7. /\ \A x \in bound : edits(x) = 0 \/ cell.distance =< edits(x)
      /\ \/ cell = start
         \/ /\ cell.name \in bound
            /\ cell.distance = edits(cell.name) /\ 0 < cell.distance /\ cell.distance < 3
  <2>1. /\ \A i \in 1 .. Len(symbols) : symbols[i] \in bound =>
             edits(symbols[i]) = 0 \/ cell.distance =< edits(symbols[i])
        /\ \/ cell = start
           \/ \E i \in 1 .. Len(symbols) :
                /\ symbols[i] \in bound
                /\ cell = [name |-> symbols[i], distance |-> edits(symbols[i])]
                /\ 0 < cell.distance /\ cell.distance < start.distance
    BY <1>4 DEF Kept, edits
  <2>2. \A x \in bound : edits(x) = 0 \/ cell.distance =< edits(x)
    BY <1>1, <2>1
  <2>3. CASE cell = start
    BY <2>2, <2>3
  <2>4. CASE cell # start
    <3>1. PICK i \in 1 .. Len(symbols) :
                /\ symbols[i] \in bound
                /\ cell = [name |-> symbols[i], distance |-> edits(symbols[i])]
                /\ 0 < cell.distance /\ cell.distance < start.distance
      BY <2>1, <2>4
    <3>2. cell.name = symbols[i] /\ cell.distance = edits(symbols[i])
      BY <3>1
    <3> QED
      BY <1>3, <2>2, <3>1, <3>2
  <2> QED
    BY <2>3, <2>4
<1>8. cell.distance \in 1 .. 3
  <2>1. CASE cell = start
    BY <1>3, <2>1
  <2>2. CASE cell # start
    <3>1. cell.name \in bound /\ cell.distance = edits(cell.name)
          /\ 0 < cell.distance /\ cell.distance < 3
      BY <1>7, <2>2
    <3>2. edits(cell.name) \in Nat
      BY <1>2, <3>1
    <3> QED
      BY <3>1, <3>2
  <2> QED
    BY <2>1, <2>2
<1>9. Kept(name, cell, Builtin, ToSet(Builtin), best, Len(Builtin))
  <2>1. cell.distance \in Nat
    BY <1>8
  <2> QED
    BY <1>0, <2>1, NearestIs DEF S
<1> HIDE DEF best
<1>10. /\ \A x \in ToSet(Builtin) : edits(x) = 0 \/ best.distance =< edits(x)
       /\ \/ best = cell
          \/ /\ best.name \in ToSet(Builtin)
             /\ best.distance = edits(best.name) /\ 0 < best.distance /\ best.distance < cell.distance
  <2>1. /\ \A i \in 1 .. Len(Builtin) : Builtin[i] \in ToSet(Builtin) =>
             edits(Builtin[i]) = 0 \/ best.distance =< edits(Builtin[i])
        /\ \/ best = cell
           \/ \E i \in 1 .. Len(Builtin) :
                /\ Builtin[i] \in ToSet(Builtin)
                /\ best = [name |-> Builtin[i], distance |-> edits(Builtin[i])]
                /\ 0 < best.distance /\ best.distance < cell.distance
    BY <1>9 DEF Kept, edits
  <2>2. \A x \in ToSet(Builtin) : edits(x) = 0 \/ best.distance =< edits(x)
    BY <1>1, <2>1
  <2>3. CASE best = cell
    BY <2>2, <2>3
  <2>4. CASE best # cell
    <3>1. PICK i \in 1 .. Len(Builtin) :
                /\ Builtin[i] \in ToSet(Builtin)
                /\ best = [name |-> Builtin[i], distance |-> edits(Builtin[i])]
                /\ 0 < best.distance /\ best.distance < cell.distance
      BY <2>1, <2>4
    <3>2. best.name = Builtin[i] /\ best.distance = edits(Builtin[i])
      BY <3>1
    <3> QED
      BY <2>2, <3>1, <3>2
  <2> QED
    BY <2>3, <2>4
<1>11. best.distance \in 1 .. 3 /\ best.distance =< cell.distance
  BY <1>1, <1>2, <1>8, <1>10
<1>12. \A x \in all : edits(x) = 0 \/ best.distance =< edits(x)
  <2> TAKE x \in all
  <2>1. CASE x \in bound
    <3>1. edits(x) = 0 \/ cell.distance =< edits(x)
      BY <1>7, <2>1
    <3> QED BY <1>2, <1>8, <1>11, <3>1
  <2>2. CASE x \in ToSet(Builtin)
    BY <1>10, <2>2
  <2> QED
    BY <2>1, <2>2
<1>13. /\ best = start \/ (best.name \in all /\ best.distance = edits(best.name) /\ best.distance \in 1 .. 2)
       /\ best = start => best.distance = 3 /\ best.name = NoWord
  BY <1>3, <1>7, <1>8, <1>10, <1>11
<1> HIDE DEF all
<1>14. \A w \in all : [word |-> w, edits |-> edits(w)] \in known
  OBVIOUS
<1>15. \A c \in known : \E w \in all : c = [word |-> w, edits |-> edits(w)]
  OBVIOUS
<1> HIDE DEF known
<1>16. \A c \in near : c.word \in all /\ c.edits = edits(c.word) /\ c.edits \in 1 .. 2
  BY <1>15
<1>17. \A c \in near : best.distance =< c.edits
  BY <1>2, <1>12, <1>16
<1>18. CASE near = {}
  <2>1. best = start
    <3> SUFFICES ASSUME best # start PROVE FALSE
      OBVIOUS
    <3> DEFINE c == [word |-> best.name, edits |-> edits(best.name)]
    <3>1. c \in known /\ c.edits \in 1 .. 2
      BY <1>13, <1>14
    <3> QED
      BY <1>18, <3>1
  <2>2. FindFuzzyMatch(name) = NoWord
    BY <1>5, <1>13, <2>1
  <2> QED
    BY <1>18, <2>2 DEF Suits, known, all, edits, Apart
<1>19. CASE near # {}
  <2>1. PICK c \in near : TRUE
    BY <1>19
  <2>2. best # start
    BY <1>11, <1>13, <1>16, <1>17, <2>1
  <2> DEFINE b == [word |-> best.name, edits |-> edits(best.name)]
  <2>3. b \in near /\ b.word = best.name /\ b.edits = best.distance
    BY <1>13, <1>14, <2>2
  <2> HIDE DEF near, b
  <2>4. best.name \in nearest
    BY <1>17, <2>3
  <2>5. ASSUME NEW x \in nearest, x \in bound
        PROVE  best.name \in bound
    <3>1. PICK d \in near : x = d.word /\ \A e \in near : d.edits <= e.edits
      OBVIOUS
    <3>2. d.edits = edits(x) /\ d.edits \in 1 .. 2 /\ d.edits =< best.distance /\ best.distance =< d.edits
      BY <1>16, <1>17, <2>3, <3>1
    <3>3. cell.distance =< edits(x)
      BY <1>7, <2>5, <3>2
    <3>4. cell.distance =< best.distance
      BY <1>8, <1>11, <3>2, <3>3
    <3>5. best = cell
      BY <1>8, <1>10, <1>11, <3>4
    <3> QED
      BY <1>7, <2>2, <3>5
  <2> HIDE DEF nearest
  <2>6. best.name \in (IF nearest \cap bound = {} THEN nearest ELSE nearest \cap bound)
    BY <2>4, <2>5
  <2> QED
    BY <1>5, <1>19, <2>6 DEF Suits, nearest, near, known, all, edits, Apart
<1> QED
  BY <1>18, <1>19

(* The names met, their letters, and the last suggestion.                  *)
NamesInv ==
  /\ symbols \in Seq(Spelling)
  /\ bound \subseteq ToSet(symbols)
  /\ asked = NoWord \/ Suits(asked, suggested, bound)

LEMMA InternIs ==
  ASSUME NEW T, NEW names \in Seq(T), NEW w \in T
  PROVE  /\ Intern(names, w) \in Seq(T)
         /\ ToSet(names) \subseteq ToSet(Intern(names, w))
         /\ w \in ToSet(Intern(names, w))
<1>1. CASE Contains(names, w)
  BY <1>1 DEF Intern, Contains, ToSet
<1>2. CASE ~Contains(names, w)
  <2> DEFINE more == Append(names, w)
  <2>1. /\ more \in Seq(T) /\ Len(more) = Len(names) + 1 /\ more[Len(names) + 1] = w
        /\ \A i \in 1 .. Len(names) : more[i] = names[i]
    OBVIOUS
  <2>2. Intern(names, w) = more
    BY <1>2 DEF Intern
  <2> HIDE DEF more
  <2>3. DOMAIN names = 1 .. Len(names) /\ DOMAIN more = 1 .. Len(names) + 1 /\ Len(names) \in Nat
    BY <2>1
  <2> QED
    BY <2>1, <2>2, <2>3 DEF ToSet
<1> QED
  BY <1>1, <1>2

LEMMA SuggestedIs ==
  ASSUME NEW a, NEW x, NEW b, b \subseteq Spelling, Suits(a, x, b)
  PROVE  x = NoWord \/ x \in Spelling
<1> DEFINE all == b \cup ToSet(Builtin)
           known == {[word |-> w, edits |-> Edits(a, Compared(w))] : w \in all}
           near == {c \in known : c.edits \in 1..2}
           nearest == {c.word : c \in {d \in near : \A e \in near : d.edits <= e.edits}}
<1>1. all \subseteq Spelling
  <2>1. ToSet(Builtin) \subseteq Spelling
    BY WordAssumption, Members
  <2> QED
    BY <2>1
<1> HIDE DEF all
<1>2. \A c \in known : c.word \in all
  OBVIOUS
<1>3. nearest \subseteq all
  <2> HIDE DEF known
  <2> QED BY <1>2
<1>4. x = NoWord \/ x \in nearest
  <2> HIDE DEF nearest
  <2> QED BY DEF Suits, nearest, near, known, all
<1> QED
  BY <1>1, <1>3, <1>4

LEMMA NamesInit ==
  SuggestionsInit => NamesInv
<1> SUFFICES ASSUME SuggestionsInit PROVE NamesInv
  OBVIOUS
<1> QED
  BY DEF SuggestionsInit, NamesInv

LEMMA NamesNext ==
  NamesInv /\ [SuggestionsNext]_suggestions => NamesInv'
<1> SUFFICES ASSUME NamesInv, [SuggestionsNext]_suggestions PROVE NamesInv'
  OBVIOUS
<1> DEFINE T == Spelling
<1>1. symbols \in Seq(T) /\ bound \subseteq ToSet(symbols) /\ Word \subseteq T
  BY WordAssumption DEF NamesInv
<1> HIDE DEF T
<1>2. ASSUME NEW w \in Word, Define(w)
      PROVE  NamesInv'
  <2>1. symbols' = Intern(symbols, w) /\ bound' = bound \cup {w} /\ asked' = NoWord
    BY <1>2 DEF Define
  <2>2. /\ Intern(symbols, w) \in Seq(T) /\ ToSet(symbols) \subseteq ToSet(Intern(symbols, w))
        /\ w \in ToSet(Intern(symbols, w))
    BY <1>1, InternIs
  <2>3. symbols' \in Seq(T) /\ bound' \subseteq ToSet(symbols')
    BY <1>1, <2>1, <2>2
  <2> QED
    BY <2>1, <2>3 DEF NamesInv, T
<1>3. ASSUME NEW w \in Word, Ask(w)
      PROVE  NamesInv'
  <2> DEFINE x == FindFuzzyMatch(w)
             read == Intern(symbols, w)
             more == Intern(read, x)
  <2>1. /\ asked' = w /\ suggested' = x /\ bound' = bound
        /\ symbols' = IF x = NoWord THEN read ELSE more
    BY <1>3 DEF Ask
  <2>2. Suits(w, x, bound)
    BY <1>1, MatchSuits DEF T
  <2>3. bound \subseteq T
    BY <1>1, Members
  <2>4. x = NoWord \/ x \in T
    <3> HIDE DEF x
    <3> QED BY <2>2, <2>3, SuggestedIs DEF T
  <2>5. read \in Seq(T) /\ ToSet(symbols) \subseteq ToSet(read)
    BY <1>1, InternIs
  <2> HIDE DEF x, read
  <2>6. x # NoWord => more \in Seq(T) /\ ToSet(read) \subseteq ToSet(more)
    BY <2>4, <2>5, InternIs
  <2> HIDE DEF more
  <2>7. symbols' \in Seq(T) /\ bound' \subseteq ToSet(symbols')
    BY <1>1, <2>1, <2>5, <2>6
  <2>8. Suits(asked', suggested', bound')
    BY <2>1, <2>2
  <2> QED
    BY <2>7, <2>8 DEF NamesInv, T
<1>4. CASE UNCHANGED suggestions
  <2>1. symbols' = symbols /\ bound' = bound /\ asked' = asked /\ suggested' = suggested
    BY <1>4 DEF suggestions
  <2> QED
    BY <2>1 DEF NamesInv
<1> QED
  BY <1>2, <1>3, <1>4 DEF SuggestionsNext

LEMMA NamesAreNear ==
  NamesInv => SuggestionIsNearest
  BY DEF NamesInv, SuggestionIsNearest, Suits

(* For any names and any builtin ones: what is suggested for a name that   *)
(* is not known is as near as any name with a meaning, at most two letters *)
(* off and not the name itself, a name of the user's if one of his is as   *)
(* near, and nothing only if nothing is so near.  The table levenshtein    *)
(* fills in place comes to the least number of letters to insert, take     *)
(* away or change.                                                         *)
(* [signal_engine/diagnostics.cpp:31-109]                                  *)
THEOREM SuggestionsAreNearest == SuggestionsSpec => []SuggestionIsNearest
<1>1. SuggestionsInit => NamesInv
  BY NamesInit
<1>2. NamesInv /\ [SuggestionsNext]_suggestions => NamesInv'
  BY NamesNext
<1>3. NamesInv => SuggestionIsNearest
  BY NamesAreNear
<1> QED
  BY <1>1, <1>2, <1>3, PTL DEF SuggestionsSpec

=============================================================================
