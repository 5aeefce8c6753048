---------------------------- MODULE EditorProofs ----------------------------
(***************************************************************************)
(* Theorems about the two ends of the serial port and the text that goes   *)
(* over it, for every value of the constants: Session, then SerialProtocol *)
(* and, at the end, Reader.                                                *)
(***************************************************************************)
EXTENDS Session, SerialProtocol, Reader, SequenceTheorems, BoundedRecursion

Request == [number : Nat, kind : {"hello"}, config : {NoConfig}]
             \cup [number : Nat, kind : {"config"}, config : Config]

Message == [kind : {"answer"}, of : Request] \cup [kind : {"ready"}]
             \cup [kind : {"frame"}, channel : Nat \ {0}, source : Signal, value : Level \cup {0}]

Row == [source : Signal, last : Level \cup {0}]

SessionTypeOK ==
  /\ requests \in Seq(Request)
  /\ tx \in Seq(Message)
  /\ jsonMode \in BOOLEAN
  /\ table \in Seq(Row)
  /\ limit \in Nat /\ since \in Nat /\ gap \in Nat
  /\ sample \in [Input -> Level \cup {0}]
  /\ number \in Nat /\ opened \in Nat
  /\ greeted \in BOOLEAN
  /\ config \in Config \cup {NoConfig}
  /\ shown \in [Input -> Level \cup {0, Blank}]
  /\ early \in BOOLEAN /\ mistaken \in BOOLEAN
  /\ rate \in Nat \ {0}
  /\ faults \in Nat

-----------------------------------------------------------------------------
(* The limit is the period of the rate asked for, and the clock that wraps *)
(* around never says that more time has passed than has.                   *)
RateInv == SessionTypeOK /\ limit = Period(rate) /\ since =< gap /\ ~early

-----------------------------------------------------------------------------
(* Requests and their answers are in the order they were sent in, and a    *)
(* stream-config that counts was sent in this session, like all that       *)
(* follow it.                                                              *)
Mine(o, m) == m.kind = "answer" /\ m.of.number > o

Reconfigures(o, m) == Mine(o, m) /\ m.of.kind = "config"

InOrder ==
  /\ opened =< number
  /\ \A p \in DOMAIN requests : requests[p].number =< number
  /\ \A p, q \in DOMAIN requests : p < q => requests[p].number < requests[q].number
  /\ \A k \in DOMAIN tx : tx[k].kind = "answer" =>
       /\ tx[k].of.number =< number
       /\ \A p \in DOMAIN requests : tx[k].of.number < requests[p].number
  /\ config # NoConfig => \A p \in DOMAIN requests : requests[p].number > opened

(* The last of the messages of t before the k-th that changes the          *)
(* configuration the editor goes by; 0 is what it goes by now.             *)
Governs(t, o, j, k) ==
  /\ j \in 0 .. k - 1
  /\ j # 0 => Reconfigures(o, t[j])
  /\ \A i \in j + 1 .. k - 1 : ~Reconfigures(o, t[i])

ConfigAt(t, c, j) == IF j = 0 THEN c ELSE t[j].of.config

Fits(c, channel, source) ==
  c # NoConfig /\ channel # 1 => channel \in DOMAIN Asked[c] /\ Asked[c][channel] = source

(* Every frame on its way is what the configuration it will be read under  *)
(* says, and so is every channel of the table.                             *)
FramesFit(t, o, c) ==
  \A k \in 1 .. Len(t) : t[k].kind = "frame" =>
    \A j \in 0 .. Len(t) :
      Governs(t, o, j, k) => Fits(ConfigAt(t, c, j), t[k].channel, t[k].source)

TableFits(T, t, o, c) ==
  \A j \in 0 .. Len(t) : Governs(t, o, j, Len(t) + 1) =>
    \A i \in 1 .. Len(T) : Fits(ConfigAt(t, c, j), i, T[i].source)

MixInv ==
  /\ SessionTypeOK /\ InOrder /\ ~mistaken
  /\ FramesFit(tx, opened, config) /\ TableFits(table, tx, opened, config)

-----------------------------------------------------------------------------
(* Arithmetic.                                                             *)
LEMMA TheLess ==
  ASSUME NEW a \in Nat, NEW b \in Nat
  PROVE  Min({a, b}) = IF a =< b THEN a ELSE b
<1> DEFINE m == IF a =< b THEN a ELSE b
<1>1. m \in {a, b} /\ \A y \in {a, b} : m =< y
  OBVIOUS
<1>2. \A x \in {a, b} : (\A y \in {a, b} : x =< y) => x = m
  OBVIOUS
<1>3. QED
  BY <1>1, <1>2 DEF Min

LEMMA TheGreater ==
  ASSUME NEW a \in Nat, NEW b \in Nat
  PROVE  Max({a, b}) = IF a >= b THEN a ELSE b
<1> DEFINE m == IF a >= b THEN a ELSE b
<1>1. m \in {a, b} /\ \A y \in {a, b} : m >= y
  OBVIOUS
<1>2. \A x \in {a, b} : (\A y \in {a, b} : x >= y) => x = m
  OBVIOUS
<1>3. QED
  BY <1>1, <1>2 DEF Max

(* The limit that is set is the period that is wanted.                     *)
LEMMA LimitIsPeriod ==
  ASSUME NEW hz \in Nat \ {0}, NEW old
  PROVE  LimitFor(hz, old) = Period(hz) /\ Period(hz) \in Nat
<1> DEFINE q == 200 \div hz
<1>1. q \in Nat /\ hz * q =< 200 /\ 200 < hz * q + hz
  OBVIOUS
<1>2. CASE hz =< 100
  <2>1. q >= 2
    BY <1>1, <1>2
  <2>2. QED
    BY <1>1, <1>2, <2>1, TheLess, TheGreater DEF LimitFor, Period
<1>3. CASE hz > 100
  <2>1. q < 2
    BY <1>1, <1>3
  <2>2. QED
    BY <1>1, <1>3, <2>1, TheLess, TheGreater DEF LimitFor, Period
<1>4. QED
  BY <1>2, <1>3

LEMMA WrapsDown ==
  ASSUME NEW a \in Nat, NEW w \in Nat \ {0}
  PROVE  a % w \in Nat /\ a % w < w /\ a % w =< a
  OBVIOUS

-----------------------------------------------------------------------------
(* What is chosen is in order and is chosen from W, and going on with W    *)
(* only adds to it.                                                        *)
LEMMA WithNextType ==
  ASSUME NEW W, NEW n \in Nat, NEW i \in 1 .. n, NEW most \in Nat,
         NEW s \in Seq(W \cap (1 .. n))
  PROVE  WithNext(s, i, W, most) \in Seq(W \cap (1 .. n))
  BY DEF WithNext

Choosing(f, n, W, most) ==
  /\ f \in [0 .. n -> Seq(W \cap (1 .. n))]
  /\ f[0] = <<>> /\ f[n] = Chosen(n, W, most)
  /\ \A i \in 1 .. n : f[i] = WithNext(f[i - 1], i, W, most)

LEMMA ChosenSteps ==
  ASSUME NEW n \in Nat, NEW W, NEW most \in Nat
  PROVE  \E f : Choosing(f, n, W, most)
<1> DEFINE Y == Seq(W \cap (1 .. n))
           g == [p \in (1 .. n) \X Y |-> WithNext(p[2], p[1], W, most)]
<1>1. \A i \in 1 .. n, s \in Y : g[<<i, s>>] = WithNext(s, i, W, most)
  OBVIOUS
<1>2. Stays(g, n, Y)
  BY <1>1, WithNextType DEF Stays
<1>3. <<>> \in Y
  OBVIOUS
<1> HIDE DEF g, Y
<1>4. PICK f \in [0 .. n -> Y] : Follows(f, g, n, <<>>)
  BY <1>2, <1>3, Recursion
<1>5. \A i \in 1 .. n : i \in 0 .. n /\ i # 0 /\ i - 1 \in 0 .. n
  OBVIOUS
<1>6. \A i \in 1 .. n : f[i] = WithNext(f[i - 1], i, W, most)
  BY <1>1, <1>4, <1>5 DEF Follows
<1>7. f[0] = <<>>
  BY <1>4 DEF Follows
<1>8. f = [i \in 0 .. n |-> IF i = 0 THEN <<>> ELSE WithNext(f[i - 1], i, W, most)]
  <2>1. \A i \in 0 .. n : i # 0 => i \in 1 .. n
    OBVIOUS
  <2>2. QED
    BY <1>4, <1>6, <1>7, <2>1
<1> DEFINE upTo[i \in 0 .. n] == IF i = 0 THEN <<>> ELSE WithNext(upTo[i - 1], i, W, most)
<1>9. upTo = [i \in 0 .. n |-> IF i = 0 THEN <<>> ELSE WithNext(upTo[i - 1], i, W, most)]
  BY <1>8, Zenon
<1>10. Chosen(n, W, most) = upTo[n]
  BY DEF Chosen
<1> HIDE DEF upTo
<1>11. upTo[0] = <<>> /\ \A i \in 1 .. n : upTo[i] = WithNext(upTo[i - 1], i, W, most)
  BY <1>5, <1>9
<1> DEFINE S == {i \in 0 .. n : upTo[i] = f[i]}
<1>12. 0 \in S
  BY <1>7, <1>11
<1>13. ASSUME NEW i \in 0 .. n - 1, i \in S PROVE i + 1 \in S
  <2>1. i + 1 \in 1 .. n /\ (i + 1) - 1 = i /\ i + 1 \in 0 .. n
    OBVIOUS
  <2>2. QED
    BY <1>6, <1>11, <1>13, <2>1
<1>14. n \in S
  <2>1. 0 .. n \subseteq S
    <3> HIDE DEF S
    <3> QED BY <1>12, <1>13, Reached
  <2>2. QED
    BY <2>1
<1>15. Choosing(f, n, W, most)
  BY <1>4, <1>6, <1>7, <1>10, <1>14 DEF Y, Choosing
<1>16. QED
  BY <1>15

LEMMA ChosenType ==
  ASSUME NEW n \in Nat, NEW W, NEW most \in Nat
  PROVE  Chosen(n, W, most) \in Seq(W \cap (1 .. n))
<1>1. PICK f : Choosing(f, n, W, most)
  BY ChosenSteps
<1>2. n \in 0 .. n
  OBVIOUS
<1>3. QED
  BY <1>1, <1>2 DEF Choosing

(* s begins t.                                                             *)
Begins(s, t) == Len(s) =< Len(t) /\ \A i \in 1 .. Len(s) : s[i] = t[i]

(* If the members of W come before all others of V, the choice from W is   *)
(* the beginning of that from V.                                           *)
LEMMA ChosenBegins ==
  ASSUME NEW n \in Nat, NEW most \in Nat, NEW V \in SUBSET (1 .. n), NEW W \in SUBSET V,
         \A v \in V, w \in W : v < w => v \in W
  PROVE  Begins(Chosen(n, W, most), Chosen(n, V, most))
<1>1. PICK f : Choosing(f, n, W, most)
  BY ChosenSteps
<1>2. PICK h : Choosing(h, n, V, most)
  BY ChosenSteps
<1>3. \A i \in 0 .. n : f[i] \in Seq(Nat) /\ h[i] \in Seq(Nat)
  BY <1>1, <1>2 DEF Choosing
<1> DEFINE S == {i \in 0 .. n : f[i] = h[i] \/ (Begins(f[i], h[i]) /\ \A w \in W : w =< i)}
<1>4. 0 \in S
  <2>1. 0 \in 0 .. n /\ f[0] = h[0]
    BY <1>1, <1>2 DEF Choosing
  <2>2. QED
    BY <2>1
<1>5. ASSUME NEW i \in 0 .. n - 1, i \in S PROVE i + 1 \in S
  <2>1. i + 1 \in 1 .. n /\ (i + 1) - 1 = i /\ i + 1 \in 0 .. n /\ i \in 0 .. n
    OBVIOUS
  <2>2. f[i + 1] = WithNext(f[i], i + 1, W, most) /\ h[i + 1] = WithNext(h[i], i + 1, V, most)
    BY <1>1, <1>2, <2>1 DEF Choosing
  <2>3. f[i] \in Seq(Nat) /\ h[i] \in Seq(Nat)
    BY <1>3, <2>1
  <2>4. CASE f[i] = h[i] /\ (i + 1 \in V => i + 1 \in W)
    <3>1. i + 1 \in V <=> i + 1 \in W
      BY <2>4
    <3>2. f[i + 1] = h[i + 1]
      BY <2>2, <2>4, <3>1 DEF WithNext
    <3>3. QED
      BY <2>1, <3>2
  <2>5. CASE f[i] = h[i] /\ i + 1 \in V /\ i + 1 \notin W
    <3>1. \A w \in W : w =< i
      <4>1. SUFFICES ASSUME NEW w \in W, w > i PROVE FALSE
        OBVIOUS
      <4>2. w # i + 1 /\ w \in 1 .. n
        BY <2>5
      <4>3. i + 1 < w
        BY <4>1, <4>2
      <4>4. QED
        BY <2>5, <4>3
    <3>2. Begins(f[i + 1], h[i + 1])
      BY <2>1, <2>2, <2>3, <2>5 DEF WithNext, Begins
    <3>3. QED
      BY <2>1, <3>1, <3>2
  <2>6. CASE Begins(f[i], h[i]) /\ \A w \in W : w =< i
    <3>1. i + 1 \notin W
      BY <2>6
    <3>2. Begins(f[i + 1], h[i + 1])
      BY <2>1, <2>2, <2>3, <2>6, <3>1 DEF WithNext, Begins
    <3>3. QED
      BY <2>1, <2>6, <3>2
  <2>7. QED
    BY <1>5, <2>4, <2>5, <2>6
<1>6. n \in S
  <2>1. 0 .. n \subseteq S
    <3> HIDE DEF S
    <3> QED BY <1>4, <1>5, Reached
  <2>2. QED
    BY <2>1
<1>7. f[n] \in Seq(Nat) /\ f[n] = Chosen(n, W, most) /\ h[n] = Chosen(n, V, most)
  BY <1>1, <1>2, <1>3 DEF Choosing
<1>8. QED
  BY <1>6, <1>7 DEF Begins

-----------------------------------------------------------------------------
LEMMA ElementsOf ==
  ASSUME NEW S, NEW s \in Seq(S)
  PROVE  /\ Len(s) \in Nat /\ DOMAIN s = 1 .. Len(s)
         /\ \A k \in 1 .. Len(s) : s[k] \in S
  OBVIOUS

LEMMA SeqWider ==
  ASSUME NEW A, NEW B, NEW s \in Seq(A \cap B)
  PROVE  s \in Seq(B)
  OBVIOUS

(* A table that a stream-config leaves has the signals the editor expects, *)
(* as far as it goes.                                                      *)
LEMMA ListedParts ==
  ASSUME NEW c \in Config, NEW chosen \in Seq(1 .. Len(c.channels))
  PROVE  LET l == Listed(c.channels, chosen)
         IN /\ l \in Seq(Signal) /\ Len(l) = Len(chosen) + 1 /\ l[1] = Time
            /\ \A i \in 1 .. Len(chosen) : l[i + 1] = c.channels[chosen[i]].name
<1> DEFINE ch == c.channels
           names == [i \in DOMAIN chosen |-> ch[chosen[i]].name]
<1>1. ch \in Seq([name : Signal, enabled : BOOLEAN])
  BY ConfigAssumption
<1>2. \A k \in 1 .. Len(ch) : ch[k].name \in Signal
  <2> HIDE DEF ch
  <2>1. \A k \in 1 .. Len(ch) : ch[k] \in [name : Signal, enabled : BOOLEAN]
    BY <1>1, ElementsOf
  <2>2. QED
    BY <2>1
<1>3. names \in Seq(Signal) /\ Len(names) = Len(chosen)
        /\ \A i \in 1 .. Len(chosen) : names[i] = ch[chosen[i]].name
  <2>1. chosen \in Seq(1 .. Len(ch))
    OBVIOUS
  <2> HIDE DEF ch
  <2>2. DOMAIN chosen = 1 .. Len(chosen) /\ Len(chosen) \in Nat
          /\ \A i \in 1 .. Len(chosen) : chosen[i] \in 1 .. Len(ch)
    BY <2>1
  <2>3. \A i \in 1 .. Len(chosen) : ch[chosen[i]].name \in Signal
    BY <1>2, <2>2
  <2>4. names \in Seq(Signal)
    BY <2>2, <2>3
  <2>5. QED
    BY <2>2, <2>4
<1>4. Time \in Signal
  BY DEF Signal
<1> HIDE DEF names
<1>5. Listed(c.channels, chosen) = <<Time>> \o names
  BY DEF Listed, names
<1>6. QED
  BY <1>3, <1>4, <1>5

LEMMA TableIsAsked ==
  ASSUME NEW c \in Config
  PROVE  /\ TableFor[c] \in Seq(Row)
         /\ \A i \in DOMAIN TableFor[c] : Fits(c, i, TableFor[c][i].source)
<1> DEFINE ch == c.channels
           n == Len(ch)
           most == MaxChannels - 1
           a == Chosen(n, Walked(ch), most)
           b == Chosen(n, Wanted(ch), most)
<1>1. /\ ch \in Seq([name : Signal, enabled : BOOLEAN]) /\ n \in Nat /\ most \in Nat
      /\ DOMAIN ch = 1 .. n
  <2>1. ch \in Seq([name : Signal, enabled : BOOLEAN])
    BY ConfigAssumption
  <2>2. most \in Nat
    BY SessionAssumption
  <2> HIDE DEF ch, most
  <2>3. QED
    BY <2>1, <2>2
<1>2. Walked(ch) \in SUBSET Wanted(ch) /\ Wanted(ch) \in SUBSET (1 .. n)
  BY <1>1 DEF Walked, Wanted
<1>3. \A v \in Wanted(ch), w \in Walked(ch) : v < w => v \in Walked(ch)
  <2> SUFFICES ASSUME NEW v \in Wanted(ch), NEW w \in Walked(ch), v < w
               PROVE  v \in Walked(ch)
    OBVIOUS
  <2>1. v \in 1 .. n /\ w \in 1 .. n /\ ch[v].enabled
    BY <1>1 DEF Walked, Wanted
  <2>2. \A j \in 1 .. v : j \in 1 .. w
    BY <2>1
  <2>3. QED
    BY <1>1, <2>1, <2>2 DEF Walked
<1>4. a \in Seq(1 .. n) /\ b \in Seq(1 .. n)
  <2>1. a \in Seq(Walked(ch) \cap (1 .. n)) /\ b \in Seq(Wanted(ch) \cap (1 .. n))
    BY <1>1, ChosenType
  <2> HIDE DEF a, b
  <2>2. QED
    BY <2>1
<1>5. Begins(a, b)
  BY <1>1, <1>2, <1>3, ChosenBegins
<1> DEFINE la == Listed(ch, a)
           lb == Listed(ch, b)
<1>6. /\ TableFor[c] = [i \in DOMAIN la |-> Channel(la[i])]
      /\ Asked[c] = lb
  BY DEF TableFor, TableWith, Asked
<1> HIDE DEF ch, n, most, a, b
<1>7. /\ la \in Seq(Signal) /\ Len(la) = Len(a) + 1 /\ la[1] = Time
      /\ \A i \in 1 .. Len(a) : la[i + 1] = ch[a[i]].name
  BY <1>4, ListedParts DEF ch, n
<1>8. /\ lb \in Seq(Signal) /\ Len(lb) = Len(b) + 1 /\ lb[1] = Time
      /\ \A i \in 1 .. Len(b) : lb[i + 1] = ch[b[i]].name
  BY <1>4, ListedParts DEF ch, n
<1> HIDE DEF la, lb
<1>9. \A i \in 1 .. Len(la) : i \in 1 .. Len(lb) /\ la[i] = lb[i]
  <2> SUFFICES ASSUME NEW i \in 1 .. Len(la) PROVE i \in 1 .. Len(lb) /\ la[i] = lb[i]
    OBVIOUS
  <2>1. Len(a) \in Nat /\ Len(b) \in Nat
    BY <1>4
  <2>2. CASE i = 1
    BY <1>7, <1>8, <2>1, <2>2
  <2>3. CASE i # 1
    <3>1. i - 1 \in 1 .. Len(a) /\ (i - 1) + 1 = i
      BY <1>7, <2>1, <2>3
    <3>2. i - 1 \in 1 .. Len(b) /\ a[i - 1] = b[i - 1]
      BY <1>5, <2>1, <3>1 DEF Begins
    <3>3. la[i] = ch[a[i - 1]].name /\ lb[i] = ch[b[i - 1]].name
      BY <1>7, <1>8, <3>1, <3>2
    <3>4. QED
      BY <1>8, <2>1, <3>1, <3>2, <3>3
  <2>4. QED
    BY <2>2, <2>3
<1>10. \A i \in 1 .. Len(la) : Channel(la[i]) \in Row /\ Channel(la[i]).source = la[i]
  BY <1>7 DEF Channel, Row
<1>11. DOMAIN la = 1 .. Len(la) /\ DOMAIN lb = 1 .. Len(lb) /\ Len(la) \in Nat
  BY <1>7, <1>8
<1>12. TableFor[c] \in Seq(Row)
  BY <1>6, <1>10, <1>11
<1>13. ASSUME NEW i \in DOMAIN TableFor[c] PROVE Fits(c, i, TableFor[c][i].source)
  BY <1>6, <1>9, <1>10, <1>11 DEF Fits
<1>14. QED
  BY <1>12, <1>13

-----------------------------------------------------------------------------
(* What a tick begins with, after the request if it finds one.             *)
D(found) == IF found THEN Handled(Head(requests)) ELSE Idle

LEMMA MessageParts ==
  ASSUME NEW m \in Message
  PROVE  /\ m.kind \in {"answer", "ready", "frame"}
         /\ m.kind = "answer" => m.of \in Request /\ m.of.number \in Nat
         /\ m.kind = "frame" => /\ m.channel \in Nat \ {0} /\ m.source \in Signal
                                /\ m.value \in Level \cup {0}
  BY DEF Message, Request

LEMMA RequestParts ==
  ASSUME NEW r \in Request
  PROVE  /\ r.number \in Nat /\ r.kind \in {"hello", "config"}
         /\ r.kind = "config" => r.config \in Config
         /\ Answer(r) \in Message /\ Answer(r).kind = "answer" /\ Answer(r).of = r
  BY DEF Request, Message, Answer

LEMMA HeadAndTail ==
  ASSUME NEW S, NEW s \in Seq(S), s # <<>>
  PROVE  /\ Head(s) \in S /\ Head(s) = s[1] /\ Tail(s) \in Seq(S)
         /\ Len(s) >= 1 /\ Len(Tail(s)) = Len(s) - 1
         /\ \A k \in 1 .. Len(s) - 1 : Tail(s)[k] = s[k + 1]
  OBVIOUS

(* What a request leaves behind is well formed, and the limit still the    *)
(* period.                                                                 *)
LEMMA HandledType ==
  ASSUME SessionTypeOK, NEW found \in BOOLEAN, found => requests # <<>>
  PROVE  /\ D(found).mode \in BOOLEAN /\ D(found).table \in Seq(Row)
         /\ D(found).limit \in Nat /\ D(found).rate \in Nat \ {0} /\ D(found).tx \in Seq(Message)
         /\ limit = Period(rate) => D(found).limit = Period(D(found).rate)
<1>1. CASE ~found
  BY <1>1 DEF D, Idle, SessionTypeOK
<1>2. CASE found
  <2> DEFINE r == Head(requests)
  <2>1. r \in Request
    BY <1>2, HeadAndTail DEF SessionTypeOK
  <2> HIDE DEF r
  <2>2. /\ D(found).mode = (jsonMode \/ r.kind = "hello")
        /\ D(found).table = IF r.kind = "config" THEN TableFor[r.config] ELSE table
        /\ D(found).limit = IF r.kind = "config" THEN LimitFor(r.config.hz, limit) ELSE limit
        /\ D(found).rate = IF r.kind = "config" /\ r.config.hz # 0 THEN r.config.hz ELSE rate
        /\ D(found).tx = Append(tx, Answer(r))
    BY <1>2 DEF D, Handled, r
  <2>3. D(found).mode \in BOOLEAN /\ D(found).tx \in Seq(Message)
    BY <2>1, <2>2, RequestParts DEF SessionTypeOK
  <2>4. D(found).table \in Seq(Row)
    BY <2>1, <2>2, RequestParts, TableIsAsked DEF SessionTypeOK
  <2>5. CASE r.kind = "config" /\ r.config.hz # 0
    <3>1. r.config.hz \in Nat \ {0}
      BY <2>1, <2>5, RequestParts, ConfigAssumption
    <3>2. D(found).limit = Period(r.config.hz) /\ D(found).rate = r.config.hz
            /\ Period(r.config.hz) \in Nat
      BY <2>2, <2>5, <3>1, LimitIsPeriod
    <3>3. QED
      BY <2>3, <2>4, <3>1, <3>2
  <2>6. CASE ~(r.kind = "config" /\ r.config.hz # 0)
    <3>1. D(found).limit = limit /\ D(found).rate = rate
      BY <2>2, <2>6 DEF LimitFor
    <3>2. QED
      BY <2>3, <2>4, <3>1 DEF SessionTypeOK
  <2>7. QED
    BY <2>5, <2>6
<1>3. QED
  BY <1>1, <1>2

LEMMA FramesType ==
  ASSUME SessionTypeOK, NEW d, d.table \in Seq(Row), NEW sent \in Seq(1 .. Len(d.table))
  PROVE  /\ Frames(d, sent) \in Seq(Message) /\ Len(Frames(d, sent)) = Len(sent)
         /\ \A k \in 1 .. Len(sent) :
              /\ sent[k] \in 1 .. Len(d.table)
              /\ Frames(d, sent)[k].kind = "frame" /\ Frames(d, sent)[k].channel = sent[k]
              /\ Frames(d, sent)[k].source = d.table[sent[k]].source
<1>1. DOMAIN sent = 1 .. Len(sent) /\ Len(sent) \in Nat
        /\ \A k \in 1 .. Len(sent) : sent[k] \in 1 .. Len(d.table)
  BY ElementsOf
<1>2. \A i \in 1 .. Len(d.table) : d.table[i].source \in Signal
  <2>1. \A i \in 1 .. Len(d.table) : d.table[i] \in Row
    BY ElementsOf
  <2>2. QED
    BY <2>1 DEF Row
<1>3. \A i \in 1 .. Len(d.table) :
        Now(d.table[i].source) \in Level \cup {0} /\ i \in Nat \ {0}
  BY ElementsOf DEF Now, SessionTypeOK
<1>4. \A i \in 1 .. Len(d.table) : FrameOf(i, d.table[i].source) \in Message
  BY <1>2, <1>3 DEF FrameOf, Message
<1> DEFINE fs == Frames(d, sent)
<1>5. fs = [k \in 1 .. Len(sent) |-> FrameOf(sent[k], d.table[sent[k]].source)]
  BY <1>1 DEF Frames
<1> HIDE DEF fs
<1>6. \A k \in 1 .. Len(sent) : fs[k] = FrameOf(sent[k], d.table[sent[k]].source)
  BY <1>5
<1>7. fs \in Seq(Message) /\ Len(fs) = Len(sent)
  BY <1>1, <1>4, <1>5
<1>8. \A k \in 1 .. Len(sent) : /\ fs[k].kind = "frame" /\ fs[k].channel = sent[k]
                                /\ fs[k].source = d.table[sent[k]].source
  <2>1. \A i, source : LET f == FrameOf(i, source)
                       IN f.kind = "frame" /\ f.channel = i /\ f.source = source
    BY DEF FrameOf
  <2>2. QED
    BY <1>6, <2>1
<1>9. QED
  BY <1>1, <1>7, <1>8 DEF fs

LEMMA RememberedType ==
  ASSUME SessionTypeOK, NEW d, d.table \in Seq(Row), NEW sent \in Seq(1 .. Len(d.table))
  PROVE  /\ WithLastSent(d, sent) \in Seq(Row)
         /\ Len(WithLastSent(d, sent)) = Len(d.table)
         /\ \A i \in 1 .. Len(d.table) : WithLastSent(d, sent)[i].source = d.table[i].source
<1>1. DOMAIN d.table = 1 .. Len(d.table) /\ Len(d.table) \in Nat
        /\ \A i \in 1 .. Len(d.table) : d.table[i] \in Row
  BY ElementsOf
<1>2. \A i \in 1 .. Len(d.table) : Now(d.table[i].source) \in Level \cup {0}
  BY <1>1 DEF Now, SessionTypeOK
<1> DEFINE w == WithLastSent(d, sent)
           row(i) == IF \E k \in DOMAIN sent : sent[k] = i
                     THEN [d.table[i] EXCEPT !.last = Now(d.table[i].source)] ELSE d.table[i]
<1>3. w = [i \in 1 .. Len(d.table) |-> row(i)]
  BY <1>1 DEF WithLastSent
<1>4. \A i \in 1 .. Len(d.table) : row(i) \in Row /\ row(i).source = d.table[i].source
  BY <1>1, <1>2 DEF Row
<1> HIDE DEF w, row
<1>5. w \in Seq(Row) /\ Len(w) = Len(d.table)
  BY <1>1, <1>3, <1>4
<1>6. \A i \in 1 .. Len(d.table) : w[i].source = d.table[i].source
  BY <1>3, <1>4
<1>7. QED
  BY <1>5, <1>6 DEF w

(* Every tick, as what it found and what it could send.                    *)
Passed(step) == (since + step) % Wrap

Ticks(found, step, sent) ==
  /\ step \in 1 .. MaxStep /\ sent \in Seq(1 .. Len(D(found).table))
  /\ found => requests # <<>>
  /\ requests' = IF found THEN Tail(requests) ELSE requests
  /\ jsonMode' = D(found).mode /\ limit' = D(found).limit /\ rate' = D(found).rate
  /\ tx' = D(found).tx \o Frames(D(found), sent) /\ table' = WithLastSent(D(found), sent)
  /\ \/ /\ Passed(step) >= D(found).limit /\ since' = 0 /\ gap' = 0
        /\ early' = (early \/ gap + step < Period(D(found).rate))
     \/ since' = Passed(step) /\ gap' = Min({gap + step, Wrap}) /\ UNCHANGED early
  /\ UNCHANGED <<sample, number, editor, faults>>

LEMMA FittingType ==
  ASSUME NEW d, d.table \in Seq(Row), Len(d.tx) \in Nat
  PROVE  Fitting(d) \in Seq(1 .. Len(d.table))
<1> DEFINE n == Len(d.table)
           W == {i \in DOMAIN d.table : HasNews(d.table[i])}
           most == IF Len(d.tx) < Capacity THEN Capacity - Len(d.tx) ELSE 0
<1>1. n \in Nat /\ DOMAIN d.table = 1 .. n
  BY ElementsOf
<1>2. most \in Nat
  BY SessionAssumption
<1>3. Chosen(n, W, most) \in Seq(W \cap (1 .. n))
  <2> HIDE DEF n, W, most
  <2> QED BY <1>1, <1>2, ChosenType
<1>4. Fitting(d) = Chosen(n, W, most)
  BY DEF Fitting
<1> HIDE DEF n, W, most
<1>5. Chosen(n, W, most) \in Seq(1 .. n)
  <2> DEFINE chosen == Chosen(n, W, most)
  <2> HIDE DEF chosen
  <2>1. chosen \in Seq(W \cap (1 .. n))
    BY <1>3 DEF chosen
  <2>2. chosen \in Seq(1 .. n)
    BY <2>1, SeqWider
  <2>3. QED
    BY <2>2 DEF chosen
<1>6. QED
  BY <1>4, <1>5 DEF n

LEMMA TickParts ==
  ASSUME SessionTypeOK, NEW found \in BOOLEAN, TickWith(found)
  PROVE  \E step, sent : Ticks(found, step, sent)
<1>1. PICK step \in 1 .. MaxStep :
        /\ found => requests # <<>>
        /\ requests' = IF found THEN Tail(requests) ELSE requests
        /\ jsonMode' = D(found).mode
        /\ limit' = D(found).limit
        /\ rate' = D(found).rate
        /\ IF Due(D(found), Passed(step)) THEN Burst(D(found), step)
           ELSE tx' = D(found).tx /\ table' = D(found).table /\ since' = Passed(step)
                /\ gap' = Min({gap + step, Wrap}) /\ UNCHANGED early
        /\ UNCHANGED <<sample, number, editor, faults>>
  BY DEF TickWith, D, Passed
<1> DEFINE d == D(found)
<1>2. d.table \in Seq(Row) /\ d.tx \in Seq(Message)
  BY <1>1, HandledType
<1>3. CASE Due(d, Passed(step))
  <2>1. Fitting(d) \in Seq(1 .. Len(d.table))
    <3>1. Len(d.tx) \in Nat
      BY <1>2
    <3>2. QED
      BY <1>2, <3>1, FittingType
  <2>2. Ticks(found, step, Fitting(d))
    BY <1>1, <1>3, <2>1 DEF Ticks, Burst, Due
  <2>3. QED
    BY <2>2
<1>4. CASE ~Due(d, Passed(step))
  <2>1. Frames(d, <<>>) = <<>>
    BY DEF Frames
  <2>2. WithLastSent(d, <<>>) = [i \in DOMAIN d.table |-> d.table[i]]
    BY DEF WithLastSent
  <2> HIDE DEF d
  <2>3. d.tx \o Frames(d, <<>>) = d.tx /\ WithLastSent(d, <<>>) = d.table
    BY <1>2, <2>1, <2>2
  <2>4. <<>> \in Seq(1 .. Len(d.table))
    OBVIOUS
  <2>5. Ticks(found, step, <<>>)
    BY <1>1, <1>4, <2>3, <2>4 DEF Ticks, d
  <2>6. QED
    BY <2>5
<1>5. QED
  BY <1>3, <1>4

-----------------------------------------------------------------------------
(* The conjuncts that an action leaves alone.                              *)
LEMMA InitType == SessionInit => SessionTypeOK
<1> SUFFICES ASSUME SessionInit PROVE SessionTypeOK
  OBVIOUS
<1>1. tx \in Seq(Message)
  <2>1. [kind |-> "ready"] \in Message
    BY DEF Message
  <2>2. <<>> \in Seq(Message) /\ <<[kind |-> "ready"]>> \in Seq(Message)
    BY <2>1
  <2>3. QED
    BY <2>2 DEF SessionInit
<1>2. table \in Seq(Row)
  <2>1. Channel(Time) \in Row
    BY DEF Channel, Row, Signal
  <2>2. QED
    BY <2>1 DEF SessionInit
<1>3. limit \in Nat /\ since \in Nat /\ gap \in Nat /\ number \in Nat /\ opened \in Nat
        /\ rate \in Nat \ {0} /\ faults \in Nat
  BY SessionAssumption DEF SessionInit
<1>4. sample \in [Input -> Level \cup {0}] /\ shown \in [Input -> Level \cup {0, Blank}]
  BY DEF SessionInit
<1>5. jsonMode \in BOOLEAN /\ greeted \in BOOLEAN /\ early \in BOOLEAN /\ mistaken \in BOOLEAN
  BY Zenon DEF SessionInit
<1>6. requests \in Seq(Request) /\ config \in Config \cup {NoConfig}
  BY DEF SessionInit
<1>7. QED
  BY <1>1, <1>2, <1>3, <1>4, <1>5, <1>6 DEF SessionTypeOK

LEMMA TickType ==
  ASSUME SessionTypeOK, NEW found \in BOOLEAN, NEW step, NEW sent, Ticks(found, step, sent)
  PROVE  SessionTypeOK'
<1> DEFINE d == D(found)
<1>1. /\ d.mode \in BOOLEAN /\ d.table \in Seq(Row)
      /\ d.limit \in Nat /\ d.rate \in Nat \ {0} /\ d.tx \in Seq(Message)
  BY HandledType DEF Ticks
<1>2. sent \in Seq(1 .. Len(d.table)) /\ step \in Nat
  BY SessionAssumption DEF Ticks
<1> HIDE DEF d
<1>3. requests' \in Seq(Request)
  BY HeadAndTail DEF Ticks, SessionTypeOK
<1>4. tx' \in Seq(Message) /\ table' \in Seq(Row)
  <2>1. Frames(d, sent) \in Seq(Message) /\ WithLastSent(d, sent) \in Seq(Row)
    BY <1>1, <1>2, FramesType, RememberedType
  <2>2. d.tx \o Frames(d, sent) \in Seq(Message)
    BY <1>1, <2>1
  <2>3. QED
    BY <2>1, <2>2 DEF Ticks, d
<1>5. since' \in Nat /\ gap' \in Nat /\ early' \in BOOLEAN
  <2>1. Passed(step) \in Nat
    BY <1>2, WrapsDown, SessionAssumption DEF Passed, SessionTypeOK
  <2>2. Min({gap + step, Wrap}) \in Nat
    <3>1. gap + step \in Nat /\ Wrap \in Nat
      BY <1>2, SessionAssumption DEF SessionTypeOK
    <3>2. QED
      BY <3>1, TheLess
  <2>3. early \in BOOLEAN /\ 0 \in Nat
    BY DEF SessionTypeOK
  <2>4. (early \/ gap + step < Period(D(found).rate)) \in BOOLEAN
    OBVIOUS
  <2>5. QED
    BY <2>1, <2>2, <2>3, <2>4 DEF Ticks
<1>6. jsonMode' \in BOOLEAN /\ limit' \in Nat /\ rate' \in Nat \ {0}
  BY <1>1 DEF Ticks, d
<1>7. UNCHANGED <<sample, number, opened, greeted, config, shown, mistaken, faults>>
  BY DEF Ticks, editor
<1>8. QED
  BY <1>3, <1>4, <1>5, <1>6, <1>7 DEF SessionTypeOK

MaySend(kind, c) == \/ kind = "hello" /\ c = NoConfig
                    \/ kind = "config" /\ c \in Config

LEMMA SendType ==
  ASSUME SessionTypeOK, NEW kind, NEW c, Send(kind, c), MaySend(kind, c)
  PROVE  SessionTypeOK'
<1>1. [number |-> number + 1, kind |-> kind, config |-> c] \in Request
  BY DEF MaySend, Request, SessionTypeOK
<1>2. requests' \in Seq(Request) /\ number' \in Nat
  BY <1>1 DEF Send, SessionTypeOK
<1>3. QED
  BY <1>2 DEF Send, SessionTypeOK, board, editor

(* What the editor is left with when it has read m.                        *)
GoesBy(m) == IF Reconfigures(opened, m) THEN m.of.config ELSE config

Reads(m) ==
  /\ config' = GoesBy(m) \/ (m.kind = "ready" /\ config' = NoConfig)
  /\ mistaken' \in BOOLEAN
  /\ mistaken' <=> mistaken \/ (m.kind = "frame" /\ ~Fits(config, m.channel, m.source))
  /\ greeted' \in BOOLEAN /\ shown' \in [Input -> Level \cup {0, Blank}]

LEMMA ReadParts ==
  ASSUME SessionTypeOK, Receive
  PROVE  /\ tx # <<>> /\ tx' = Tail(tx) /\ Reads(Head(tx))
         /\ UNCHANGED <<requests, board, sample, number, opened, gap, early, rate, faults>>
<1> DEFINE m == Head(tx)
<1>1. /\ tx # <<>> /\ tx' = Tail(tx)
      /\ ReadAnswer(m) \/ ReadReady(m) \/ ReadFrame(m)
      /\ UNCHANGED <<requests, board, sample, number, opened, gap, early, rate, faults>>
  BY DEF Receive
<1>2. m \in Message
  BY <1>1, HeadAndTail DEF SessionTypeOK
<1> HIDE DEF m
<1>3. /\ m.kind = "answer" => m.of.number \in Nat
      /\ m.kind = "frame" => m.value \in Level \cup {0}
  BY <1>2, MessageParts
<1>4. /\ greeted \in BOOLEAN /\ shown \in [Input -> Level \cup {0, Blank}]
      /\ mistaken \in BOOLEAN /\ config \in Config \cup {NoConfig}
  BY DEF SessionTypeOK
<1>5. ReadAnswer(m) => Reads(m)
  <2> SUFFICES ASSUME ReadAnswer(m) PROVE Reads(m)
    OBVIOUS
  <2>1. config' = IF Reconfigures(opened, m) THEN m.of.config ELSE config
    BY DEF ReadAnswer, Reconfigures, Mine
  <2>2. greeted' \in BOOLEAN
    BY <1>4 DEF ReadAnswer
  <2>3. mistaken' = mistaken /\ shown' = shown /\ m.kind # "frame"
    BY DEF ReadAnswer
  <2>4. mistaken' \in BOOLEAN
          /\ (mistaken' <=> mistaken \/ (m.kind = "frame" /\ ~Fits(config, m.channel, m.source)))
    BY <1>4, <2>1, <2>3, Zenon
  <2>5. config' = GoesBy(m)
    BY <2>1, Zenon DEF GoesBy
  <2>6. greeted' \in BOOLEAN /\ shown' \in [Input -> Level \cup {0, Blank}]
    BY <1>4, <2>1, <2>2, <2>3, Zenon
  <2>7. QED
    BY <2>4, <2>5, <2>6, Zenon DEF Reads
<1>6. ReadReady(m) => Reads(m)
  <2> SUFFICES ASSUME ReadReady(m) PROVE Reads(m)
    OBVIOUS
  <2>1. /\ config' = NoConfig /\ greeted' = FALSE /\ mistaken' = mistaken /\ shown' = shown
        /\ m.kind = "ready" /\ m.kind # "frame"
    BY DEF ReadReady
  <2>2. QED
    BY <1>4, <2>1 DEF Reads
<1>7. ReadFrame(m) => Reads(m)
  <2> SUFFICES ASSUME ReadFrame(m) PROVE Reads(m)
    OBVIOUS
  <2>1. config' = config /\ greeted' = greeted /\ m.kind = "frame" /\ ~Reconfigures(opened, m)
    BY DEF ReadFrame, Reconfigures, Mine
  <2>2. shown' \in [Input -> Level \cup {0, Blank}]
    BY <1>3, <1>4 DEF ReadFrame
  <2>3. mistaken' \in BOOLEAN /\ (mistaken' <=> mistaken \/ ~Fits(config, m.channel, m.source))
    BY <1>4 DEF ReadFrame, Fits
  <2>4. mistaken' \in BOOLEAN
          /\ (mistaken' <=> mistaken \/ (m.kind = "frame" /\ ~Fits(config, m.channel, m.source)))
    BY <1>4, <2>1, <2>3, Zenon
  <2>5. config' = GoesBy(m)
    BY <2>1, Zenon DEF GoesBy
  <2>6. greeted' \in BOOLEAN /\ shown' \in [Input -> Level \cup {0, Blank}]
    BY <1>4, <2>1, <2>2, <2>3, Zenon
  <2>7. QED
    BY <2>4, <2>5, <2>6, Zenon DEF Reads
<1>8. QED
  BY <1>1, <1>5, <1>6, <1>7 DEF m

LEMMA ReceiveType ==
  ASSUME SessionTypeOK, Receive
  PROVE  SessionTypeOK'
<1>1. /\ tx # <<>> /\ tx' = Tail(tx) /\ Reads(Head(tx))
      /\ UNCHANGED <<requests, board, sample, number, opened, gap, early, rate, faults>>
  BY ReadParts
<1>2. Head(tx) \in Message /\ tx' \in Seq(Message)
  BY <1>1, HeadAndTail DEF SessionTypeOK
<1>3. config' \in Config \cup {NoConfig}
  <2>1. Reconfigures(opened, Head(tx)) => Head(tx).of.config \in Config
    BY <1>2, MessageParts, RequestParts DEF Reconfigures, Mine
  <2>2. QED
    BY <1>1, <2>1 DEF Reads, GoesBy, SessionTypeOK
<1>4. mistaken' \in BOOLEAN /\ greeted' \in BOOLEAN /\ shown' \in [Input -> Level \cup {0, Blank}]
  BY <1>1 DEF Reads
<1>5. QED
  BY <1>1, <1>2, <1>3, <1>4 DEF SessionTypeOK, board

LEMMA FaultType ==
  ASSUME SessionTypeOK, Reopen \/ Restart
  PROVE  SessionTypeOK'
<1>1. shown' \in [Input -> Level \cup {0, Blank}] /\ greeted' \in BOOLEAN
        /\ config' \in Config \cup {NoConfig} /\ opened' \in Nat /\ faults' \in Nat
  <2>1. Disconnected /\ faults' = faults + 1
    BY DEF Reopen, Restart
  <2>2. shown' \in [Input -> Level \cup {0, Blank}]
    BY <2>1 DEF Disconnected
  <2>3. greeted' \in BOOLEAN /\ config' \in Config \cup {NoConfig}
    BY <2>1 DEF Disconnected
  <2>4. opened' \in Nat /\ faults' \in Nat
    BY <2>1 DEF Disconnected, SessionTypeOK
  <2>5. QED
    BY <2>2, <2>3, <2>4
<1>2. <<>> \in Seq(Message) /\ <<[kind |-> "ready"]>> \in Seq(Message) /\ <<>> \in Seq(Request)
  <2>1. [kind |-> "ready"] \in Message
    BY DEF Message
  <2>2. QED
    BY <2>1
<1>3. <<Channel(Time)>> \in Seq(Row)
  <2>1. Channel(Time) \in Row
    BY DEF Channel, Row, Signal
  <2>2. QED
    BY <2>1
<1>4. CASE Reopen
  <2>1. tx' \in Seq(Message)
    BY <1>2, <1>4 DEF Reopen
  <2>2. UNCHANGED <<requests, board, sample, number, mistaken, gap, early, rate>>
    BY <1>4 DEF Reopen
  <2>3. QED
    BY <1>1, <2>1, <2>2 DEF SessionTypeOK, board
<1>5. CASE Restart
  <2>1. tx' \in Seq(Message) /\ requests' \in Seq(Request) /\ table' \in Seq(Row)
    BY <1>2, <1>3, <1>5 DEF Restart, Fresh
  <2>2. limit' \in Nat /\ since' \in Nat /\ gap' \in Nat /\ rate' \in Nat \ {0}
    BY <1>5, SessionAssumption DEF Restart, Fresh
  <2>3. jsonMode' = FALSE /\ UNCHANGED <<sample, number, mistaken, early>>
    BY <1>5 DEF Restart, Fresh
  <2>4. QED
    BY <1>1, <2>1, <2>2, <2>3 DEF SessionTypeOK
<1>6. QED
  BY <1>4, <1>5

LEMMA TurnType ==
  ASSUME SessionTypeOK, NEW i \in Input, Turn(i), Level \subseteq Level \cup {0}
  PROVE  SessionTypeOK'
<1>1. sample' \in [Input -> Level \cup {0}]
  BY DEF Turn, SessionTypeOK
<1>2. QED
  BY <1>1 DEF Turn, SessionTypeOK, board, editor

(* The actions, one by one.                                                *)
LEMMA SessionActions ==
  ASSUME SessionNext, SessionTypeOK
  PROVE  \/ \E found \in BOOLEAN : \E step, sent : Ticks(found, step, sent)
         \/ Receive
         \/ \E i \in Input : Turn(i)
         \/ Send("hello", NoConfig) \/ \E c \in Config : Send("config", c)
         \/ Reopen \/ Restart
<1>1. CASE Tick \/ TickTakes
  <2>1. \E found \in BOOLEAN : TickWith(found)
    BY <1>1 DEF Tick, TickTakes
  <2>2. QED
    BY <2>1, TickParts
<1>2. CASE Hello
  BY <1>2 DEF Hello
<1>3. CASE Configure
  BY <1>3 DEF Configure
<1>4. QED
  BY <1>1, <1>2, <1>3 DEF SessionNext, Others

LEMMA NextType == SessionTypeOK /\ [SessionNext]_session => SessionTypeOK'
<1> SUFFICES ASSUME SessionTypeOK, [SessionNext]_session PROVE SessionTypeOK'
  OBVIOUS
<1>1. CASE UNCHANGED session
  BY <1>1 DEF session, board, editor, SessionTypeOK
<1>2. CASE SessionNext
  <2>1. CASE \E found \in BOOLEAN : \E step, sent : Ticks(found, step, sent)
    BY <2>1, TickType
  <2>2. CASE Send("hello", NoConfig)
    <3>1. MaySend("hello", NoConfig)
      BY DEF MaySend
    <3>2. QED
      BY <2>2, <3>1, SendType
  <2>5. CASE \E c \in Config : Send("config", c)
    <3>1. \A c \in Config : MaySend("config", c)
      BY DEF MaySend
    <3>2. QED
      BY <2>5, <3>1, SendType
  <2>3. CASE \E i \in Input : Turn(i)
    BY <2>3, TurnType
  <2>4. QED
    BY <1>2, <2>1, <2>2, <2>3, <2>5, SessionActions, ReceiveType, FaultType
<1>3. QED
  BY <1>1, <1>2

(* Every variable is always of its type: the channels of the table are     *)
(* signals, the rate is never zero, and what is on its way either side is  *)
(* a whole request or message.                                             *)
THEOREM SessionTypeCorrect == SessionSpec => []SessionTypeOK
<1>1. SessionInit => SessionTypeOK
  BY InitType
<1>2. SessionTypeOK /\ [SessionNext]_session => SessionTypeOK'
  BY NextType
<1>3. QED
  BY <1>1, <1>2, PTL DEF SessionSpec

-----------------------------------------------------------------------------
(* A tick that sends comes a period after the last that did: the limit is  *)
(* the period, and the clock says no more than has passed.                 *)
LEMMA TickKeepsRate ==
  ASSUME RateInv, NEW found \in BOOLEAN, NEW step, NEW sent, Ticks(found, step, sent)
  PROVE  RateInv'
<1>1. SessionTypeOK'
  BY TickType DEF RateInv
<1>2. limit' = Period(rate')
  BY HandledType DEF RateInv, Ticks
<1>3. since \in Nat /\ gap \in Nat /\ step \in Nat /\ Wrap \in Nat \ {0} /\ since =< gap
  BY SessionAssumption DEF RateInv, SessionTypeOK, Ticks
<1>4. Passed(step) \in Nat /\ Passed(step) < Wrap /\ Passed(step) =< since + step
  BY <1>3, WrapsDown DEF Passed
<1>5. Passed(step) =< gap + step
  BY <1>3, <1>4
<1>6. CASE /\ Passed(step) >= D(found).limit /\ since' = 0 /\ gap' = 0
           /\ early' = (early \/ gap + step < Period(D(found).rate))
  <2>1. D(found).limit = Period(D(found).rate) /\ D(found).limit \in Nat
    BY HandledType DEF RateInv, Ticks
  <2>2. ~(gap + step < Period(D(found).rate))
    BY <1>3, <1>4, <1>5, <1>6, <2>1
  <2>3. ~early'
    BY <1>6, <2>2 DEF RateInv
  <2>4. QED
    BY <1>1, <1>2, <1>6, <2>3 DEF RateInv
<1>7. CASE since' = Passed(step) /\ gap' = Min({gap + step, Wrap}) /\ UNCHANGED early
  <2>1. Passed(step) =< Min({gap + step, Wrap})
    <3>1. gap + step \in Nat /\ Wrap \in Nat
      BY <1>3
    <3>2. QED
      BY <1>4, <1>5, <3>1, TheLess
  <2>2. since' =< gap' /\ ~early'
    BY <1>7, <2>1 DEF RateInv
  <2>3. QED
    BY <1>1, <1>2, <2>2 DEF RateInv
<1>8. QED
  BY <1>6, <1>7 DEF Ticks

LEMMA PeriodOfHundred == Period(100) = 2
<1>1. 200 \div 100 = 2
  OBVIOUS
<1>2. QED
  BY <1>1, TheGreater DEF Period

LEMMA InitKeepsRate == SessionInit => RateInv
<1> SUFFICES ASSUME SessionInit PROVE RateInv
  OBVIOUS
<1>1. SessionTypeOK
  BY InitType
<1>2. limit = Period(rate) /\ since =< gap /\ ~early
  BY PeriodOfHundred, SessionAssumption DEF SessionInit
<1>3. QED
  BY <1>1, <1>2 DEF RateInv

LEMMA NextKeepsRate == RateInv /\ [SessionNext]_session => RateInv'
<1> SUFFICES ASSUME RateInv, [SessionNext]_session PROVE RateInv'
  OBVIOUS
<1>1. SessionTypeOK /\ SessionTypeOK'
  BY NextType DEF RateInv
<1>2. ASSUME UNCHANGED <<limit, rate, since, gap, early>> PROVE RateInv'
  BY <1>1, <1>2 DEF RateInv
<1>3. CASE Restart
  <2>1. limit' = Period(rate') /\ since' =< gap' /\ early' = early
    BY <1>3, PeriodOfHundred, SessionAssumption DEF Restart, Fresh
  <2>2. QED
    BY <1>1, <2>1 DEF RateInv
<1>4. CASE Receive
  BY <1>2, <1>4 DEF Receive, board
<1>5. CASE \E i \in Input : Turn(i)
  BY <1>2, <1>5 DEF Turn, board
<1>6. CASE Send("hello", NoConfig) \/ \E c \in Config : Send("config", c)
  BY <1>2, <1>6 DEF Send, board
<1>7. CASE Reopen
  BY <1>2, <1>7 DEF Reopen, board
<1>8. CASE UNCHANGED session
  BY <1>2, <1>8 DEF session, board
<1>9. QED
  BY <1>1, <1>3, <1>4, <1>5, <1>6, <1>7, <1>8, SessionActions, TickKeepsRate

(* A burst never comes sooner than the last stream-config allows, nor      *)
(* sooner than a hundred times a second, through every wrap of micros(),   *)
(* restart and change of the rate.                                         *)
THEOREM BurstsAlwaysKeepDistance == SessionSpec => []BurstsKeepTheirDistance
<1>1. SessionInit => RateInv
  BY InitKeepsRate
<1>2. RateInv /\ [SessionNext]_session => RateInv'
  BY NextKeepsRate
<1>3. RateInv => BurstsKeepTheirDistance
  BY DEF RateInv, BurstsKeepTheirDistance
<1>4. QED
  BY <1>1, <1>2, <1>3, PTL DEF SessionSpec

-----------------------------------------------------------------------------
(* What the messages on their way mean, as messages are put behind them    *)
(* and taken from before them.                                             *)
LEMMA AppendedElements ==
  ASSUME NEW S, NEW t \in Seq(S), NEW f \in Seq(S)
  PROVE  /\ t \o f \in Seq(S) /\ Len(t \o f) = Len(t) + Len(f)
         /\ \A k \in 1 .. Len(t) : (t \o f)[k] = t[k]
         /\ \A k \in 1 .. Len(f) : (t \o f)[Len(t) + k] = f[k]
         /\ \A k \in 1 .. Len(t \o f) : k > Len(t) => k - Len(t) \in 1 .. Len(f)
                                                      /\ (t \o f)[k] = f[k - Len(t)]
<1>1. /\ t \o f \in Seq(S) /\ Len(t \o f) = Len(t) + Len(f) /\ Len(t) \in Nat /\ Len(f) \in Nat
      /\ \A k \in 1 .. Len(t) : (t \o f)[k] = t[k]
      /\ \A k \in 1 .. Len(f) : (t \o f)[Len(t) + k] = f[k]
  OBVIOUS
<1>2. ASSUME NEW k \in 1 .. Len(t \o f), k > Len(t)
      PROVE  k - Len(t) \in 1 .. Len(f) /\ (t \o f)[k] = f[k - Len(t)]
  <2>1. k - Len(t) \in 1 .. Len(f) /\ Len(t) + (k - Len(t)) = k
    BY <1>1, <1>2
  <2>2. QED
    BY <1>1, <2>1
<1>3. QED
  BY <1>1, <1>2

(* A frame that fits the table, put behind all others, fits; and what is   *)
(* no answer changes nothing for the table.                                *)
LEMMA FramesStillFit ==
  ASSUME NEW t \in Seq(Message), NEW o, NEW c, NEW T \in Seq(Row), NEW f \in Seq(Message),
         \A k \in 1 .. Len(f) : /\ f[k].kind = "frame" /\ f[k].channel \in 1 .. Len(T)
                                /\ f[k].source = T[f[k].channel].source,
         FramesFit(t, o, c), TableFits(T, t, o, c)
  PROVE  FramesFit(t \o f, o, c) /\ TableFits(T, t \o f, o, c)
<1> DEFINE u == t \o f
<1>1. /\ Len(t) \in Nat /\ Len(f) \in Nat /\ Len(u) = Len(t) + Len(f)
      /\ \A k \in 1 .. Len(t) : u[k] = t[k]
      /\ \A k \in 1 .. Len(u) : k > Len(t) => k - Len(t) \in 1 .. Len(f)
                                              /\ u[k] = f[k - Len(t)]
  BY AppendedElements
<1> HIDE DEF u
<1>2. \A k \in 1 .. Len(u) : k > Len(t) => ~Reconfigures(o, u[k])
  BY <1>1 DEF Reconfigures, Mine
<1>3. ASSUME NEW j \in 0 .. Len(u), NEW k \in 1 .. Len(u) + 1, Governs(u, o, j, k)
      PROVE  /\ j \in 0 .. Len(t) /\ ConfigAt(u, c, j) = ConfigAt(t, c, j)
             /\ IF k =< Len(t) THEN Governs(t, o, j, k) ELSE Governs(t, o, j, Len(t) + 1)
  <2>1. j \in 0 .. k - 1 /\ (j # 0 => Reconfigures(o, u[j]))
          /\ \A i \in j + 1 .. k - 1 : ~Reconfigures(o, u[i])
    BY <1>3 DEF Governs
  <2>2. j \in 0 .. Len(t)
    BY <1>1, <1>2, <2>1
  <2>3. j # 0 => u[j] = t[j]
    BY <1>1, <2>2
  <2>4. CASE k =< Len(t)
    <3>1. \A i \in j + 1 .. k - 1 : i \in 1 .. Len(t) /\ u[i] = t[i]
      BY <1>1, <2>2, <2>4
    <3>2. QED
      BY <2>1, <2>2, <2>3, <2>4, <3>1 DEF Governs, ConfigAt
  <2>5. CASE k > Len(t)
    <3>0. \A i \in j + 1 .. Len(t) : i \in 1 .. Len(t) /\ i \in j + 1 .. k - 1
      BY <1>1, <2>2, <2>5
    <3>1. \A i \in j + 1 .. Len(t) : i \in 1 .. Len(t) /\ u[i] = t[i] /\ i \in j + 1 .. k - 1
      BY <1>1, <3>0
    <3>2. \A i \in j + 1 .. (Len(t) + 1) - 1 : i \in j + 1 .. Len(t)
      BY <1>1, <2>2
    <3>3. j \in 0 .. (Len(t) + 1) - 1 /\ ~(k =< Len(t))
      BY <1>1, <2>2, <2>5
    <3>4. QED
      BY <2>1, <2>2, <2>3, <3>1, <3>2, <3>3 DEF Governs, ConfigAt
  <2>6. QED
    BY <1>1, <2>4, <2>5
<1>4. FramesFit(u, o, c)
  <2> SUFFICES ASSUME NEW k \in 1 .. Len(u), u[k].kind = "frame",
                      NEW j \in 0 .. Len(u), Governs(u, o, j, k)
               PROVE  Fits(ConfigAt(u, c, j), u[k].channel, u[k].source)
    BY DEF FramesFit
  <2>1. k \in 1 .. Len(u) + 1
    BY <1>1
  <2>2. j \in 0 .. Len(t) /\ ConfigAt(u, c, j) = ConfigAt(t, c, j)
    BY <1>3, <2>1
  <2>3. CASE k =< Len(t)
    <3>1. Governs(t, o, j, k) /\ k \in 1 .. Len(t) /\ u[k] = t[k]
      BY <1>1, <1>3, <2>1, <2>3
    <3>2. QED
      BY <2>2, <3>1 DEF FramesFit
  <2>4. CASE k > Len(t)
    <3>1. Governs(t, o, j, Len(t) + 1)
      BY <1>1, <1>3, <2>1, <2>4
    <3>2. u[k].channel \in 1 .. Len(T) /\ u[k].source = T[u[k].channel].source
      BY <1>1, <2>4
    <3>3. QED
      BY <2>2, <3>1, <3>2 DEF TableFits
  <2>5. QED
    BY <1>1, <2>3, <2>4
<1>5. TableFits(T, u, o, c)
  <2> SUFFICES ASSUME NEW j \in 0 .. Len(u), Governs(u, o, j, Len(u) + 1), NEW i \in 1 .. Len(T)
               PROVE  Fits(ConfigAt(u, c, j), i, T[i].source)
    BY DEF TableFits
  <2>1. Len(u) + 1 \in 1 .. Len(u) + 1 /\ ~(Len(u) + 1 =< Len(t))
    BY <1>1
  <2>2. /\ j \in 0 .. Len(t) /\ ConfigAt(u, c, j) = ConfigAt(t, c, j)
        /\ Governs(t, o, j, Len(t) + 1)
    BY <1>3, <2>1
  <2>3. QED
    BY <2>2 DEF TableFits
<1>6. QED
  BY <1>4, <1>5 DEF u

(* An answer leaves the frames before it as they are; behind it the table  *)
(* is that of its stream-config, if it counts, or fits as it did.          *)
LEMMA AnswerFits ==
  ASSUME NEW t \in Seq(Message), NEW o, NEW c, NEW T \in Seq(Row), NEW m \in Message,
         m.kind = "answer", FramesFit(t, o, c),
         Reconfigures(o, m) => \A i \in 1 .. Len(T) : Fits(m.of.config, i, T[i].source),
         ~Reconfigures(o, m) => TableFits(T, t, o, c)
  PROVE  FramesFit(Append(t, m), o, c) /\ TableFits(T, Append(t, m), o, c)
<1> DEFINE u == Append(t, m)
           n == Len(t)
<1>1. n \in Nat /\ Len(u) = n + 1 /\ u[n + 1] = m /\ \A k \in 1 .. n : u[k] = t[k]
  OBVIOUS
<1> HIDE DEF u, n
<1>2. ASSUME NEW j \in 0 .. Len(u), NEW k \in 1 .. n + 1, Governs(u, o, j, k)
      PROVE  j \in 0 .. n /\ ConfigAt(u, c, j) = ConfigAt(t, c, j) /\ Governs(t, o, j, k)
  <2>1. j \in 0 .. k - 1 /\ (j # 0 => Reconfigures(o, u[j]))
          /\ \A i \in j + 1 .. k - 1 : ~Reconfigures(o, u[i])
    BY <1>2 DEF Governs
  <2>2. j \in 0 .. n /\ (j # 0 => u[j] = t[j])
    BY <1>1, <2>1
  <2>3. \A i \in j + 1 .. k - 1 : i \in 1 .. n
    BY <1>1, <2>2
  <2>4. \A i \in j + 1 .. k - 1 : u[i] = t[i]
    BY <1>1, <2>3
  <2>5. QED
    BY <2>1, <2>2, <2>4 DEF Governs, ConfigAt
<1>3. FramesFit(u, o, c)
  <2> SUFFICES ASSUME NEW k \in 1 .. Len(u), u[k].kind = "frame",
                      NEW j \in 0 .. Len(u), Governs(u, o, j, k)
               PROVE  Fits(ConfigAt(u, c, j), u[k].channel, u[k].source)
    BY DEF FramesFit
  <2>1. k # n + 1
    BY <1>1
  <2>2. k \in 1 .. n /\ k \in 1 .. n + 1
    BY <1>1, <2>1
  <2>3. u[k] = t[k] /\ j \in 0 .. n /\ ConfigAt(u, c, j) = ConfigAt(t, c, j) /\ Governs(t, o, j, k)
    BY <1>1, <1>2, <2>2
  <2>4. QED
    BY <2>2, <2>3 DEF FramesFit, n
<1>4. TableFits(T, u, o, c)
  <2> SUFFICES ASSUME NEW j \in 0 .. Len(u), Governs(u, o, j, Len(u) + 1), NEW i \in 1 .. Len(T)
               PROVE  Fits(ConfigAt(u, c, j), i, T[i].source)
    BY DEF TableFits
  <2>1. /\ j # 0 => Reconfigures(o, u[j])
        /\ \A h \in j + 1 .. n + 1 : ~Reconfigures(o, u[h])
    <3>1. (Len(u) + 1) - 1 = n + 1
      BY <1>1
    <3>2. QED
      BY <3>1 DEF Governs
  <2>2. CASE j = n + 1
    <3>1. Reconfigures(o, m) /\ ConfigAt(u, c, j) = m.of.config
      BY <1>1, <2>1, <2>2 DEF ConfigAt
    <3>2. QED
      BY <3>1
  <2>3. CASE j # n + 1
    <3>1. j \in 0 .. n /\ n + 1 \in j + 1 .. n + 1 /\ n + 1 \in 1 .. n + 1
      BY <1>1, <2>3
    <3>2. ~Reconfigures(o, m)
      BY <1>1, <2>1, <3>1
    <3>3. Governs(u, o, j, n + 1)
      <4>1. j \in 0 .. (n + 1) - 1 /\ \A h \in j + 1 .. (n + 1) - 1 : h \in j + 1 .. n + 1
        BY <1>1, <3>1
      <4>2. QED
        BY <2>1, <4>1 DEF Governs
    <3>4. ConfigAt(u, c, j) = ConfigAt(t, c, j) /\ Governs(t, o, j, n + 1)
      BY <1>2, <3>1, <3>3
    <3>5. QED
      BY <3>1, <3>2, <3>4 DEF TableFits, n
  <2>4. QED
    BY <2>2, <2>3
<1>5. QED
  BY <1>3, <1>4 DEF u

(* When the first message has been read, the others and the table mean     *)
(* what they did.                                                          *)
LEMMA ReadingFits ==
  ASSUME NEW t \in Seq(Message), t # <<>>, NEW o, NEW c, NEW T \in Seq(Row), NEW next,
         next # NoConfig => next = IF Reconfigures(o, Head(t)) THEN Head(t).of.config ELSE c,
         FramesFit(t, o, c), TableFits(T, t, o, c)
  PROVE  FramesFit(Tail(t), o, next) /\ TableFits(T, Tail(t), o, next)
<1> DEFINE u == Tail(t)
           n == Len(u)
<1>1. /\ n \in Nat /\ Len(t) = n + 1 /\ Head(t) = t[1]
      /\ \A k \in 1 .. n : u[k] = t[k + 1]
  BY HeadAndTail
<1> HIDE DEF u, n
<1>2. ASSUME NEW j \in 0 .. n, NEW k \in 1 .. n + 1, Governs(u, o, j, k)
      PROVE  \E h \in 0 .. Len(t) : /\ Governs(t, o, h, k + 1)
                                    /\ ConfigAt(u, next, j) \in {NoConfig, ConfigAt(t, c, h)}
  <2>1. j \in 0 .. k - 1 /\ (j # 0 => Reconfigures(o, u[j]))
          /\ \A i \in j + 1 .. k - 1 : ~Reconfigures(o, u[i])
    BY <1>2 DEF Governs
  <2>2. \A i \in j + 2 .. k : i - 1 \in j + 1 .. k - 1 /\ i - 1 \in 1 .. n /\ (i - 1) + 1 = i
    BY <1>1, <2>1
  <2>3. \A i \in j + 2 .. k : u[i - 1] = t[i]
    BY <1>1, <2>2
  <2>4. \A i \in j + 2 .. k : ~Reconfigures(o, t[i])
    BY <2>1, <2>2, <2>3
  <2>5. (k + 1) - 1 = k /\ j + 1 \in 0 .. Len(t) /\ j + 1 \in 0 .. k
    BY <1>1, <2>1
  <2>6. CASE j # 0
    <3>1. u[j] = t[j + 1] /\ j + 1 # 0
      BY <1>1, <2>6
    <3>2. Governs(t, o, j + 1, k + 1)
      <4>1. \A i \in (j + 1) + 1 .. (k + 1) - 1 : i \in j + 2 .. k
        BY <2>1
      <4>2. QED
        BY <2>1, <2>4, <2>5, <2>6, <3>1, <4>1 DEF Governs
    <3>3. ConfigAt(u, next, j) = ConfigAt(t, c, j + 1)
      BY <2>6, <3>1 DEF ConfigAt
    <3>4. QED
      BY <2>5, <3>2, <3>3
  <2>7. CASE j = 0 /\ Reconfigures(o, t[1])
    <3>1. Governs(t, o, 1, k + 1)
      <4>1. \A i \in 1 + 1 .. (k + 1) - 1 : i \in j + 2 .. k
        BY <2>1, <2>7
      <4>2. 1 \in 0 .. (k + 1) - 1
        BY <2>5, <2>7
      <4>3. QED
        BY <2>4, <2>7, <4>1, <4>2 DEF Governs
    <3>2. ConfigAt(u, next, j) \in {NoConfig, ConfigAt(t, c, 1)}
      BY <1>1, <2>7 DEF ConfigAt
    <3>3. 1 \in 0 .. Len(t)
      BY <1>1
    <3>4. QED
      BY <3>1, <3>2, <3>3
  <2>8. CASE j = 0 /\ ~Reconfigures(o, t[1])
    <3>1. Governs(t, o, 0, k + 1)
      <4>1. \A i \in 0 + 1 .. (k + 1) - 1 : i = 1 \/ i \in j + 2 .. k
        BY <2>1, <2>8
      <4>2. 0 \in 0 .. (k + 1) - 1
        BY <2>5, <2>8
      <4>3. QED
        BY <2>4, <2>8, <4>1, <4>2 DEF Governs
    <3>2. ConfigAt(u, next, j) \in {NoConfig, ConfigAt(t, c, 0)}
      BY <1>1, <2>8 DEF ConfigAt
    <3>3. 0 \in 0 .. Len(t)
      BY <1>1
    <3>4. QED
      BY <3>1, <3>2, <3>3
  <2>9. QED
    BY <2>6, <2>7, <2>8
<1>3. \A channel, source : Fits(NoConfig, channel, source)
  BY DEF Fits
<1>4. FramesFit(u, o, next)
  <2> SUFFICES ASSUME NEW k \in 1 .. n, u[k].kind = "frame",
                      NEW j \in 0 .. n, Governs(u, o, j, k)
               PROVE  Fits(ConfigAt(u, next, j), u[k].channel, u[k].source)
    BY DEF FramesFit, n
  <2>1. k \in 1 .. n + 1 /\ k + 1 \in 1 .. Len(t) /\ u[k] = t[k + 1]
    BY <1>1
  <2>2. PICK h \in 0 .. Len(t) : /\ Governs(t, o, h, k + 1)
                                 /\ ConfigAt(u, next, j) \in {NoConfig, ConfigAt(t, c, h)}
    BY <1>2, <2>1
  <2>3. Fits(ConfigAt(t, c, h), u[k].channel, u[k].source)
    BY <2>1, <2>2 DEF FramesFit
  <2>4. QED
    BY <1>3, <2>2, <2>3
<1>5. TableFits(T, u, o, next)
  <2> SUFFICES ASSUME NEW j \in 0 .. n, Governs(u, o, j, n + 1), NEW i \in 1 .. Len(T)
               PROVE  Fits(ConfigAt(u, next, j), i, T[i].source)
    BY DEF TableFits, n
  <2>1. n + 1 \in 1 .. n + 1 /\ Len(t) = n + 1
    BY <1>1
  <2>2. PICK h \in 0 .. Len(t) : /\ Governs(t, o, h, (n + 1) + 1)
                                 /\ ConfigAt(u, next, j) \in {NoConfig, ConfigAt(t, c, h)}
    BY <1>2, <2>1
  <2>3. Fits(ConfigAt(t, c, h), i, T[i].source)
    BY <2>1, <2>2 DEF TableFits
  <2>4. QED
    BY <1>3, <2>2, <2>3
<1>6. QED
  BY <1>4, <1>5 DEF u

(* An editor that goes by nothing cannot be wrong.                         *)
LEMMA NothingToFit ==
  ASSUME NEW t, t \in {<<>>, <<[kind |-> "ready"]>>}, NEW o, NEW T
  PROVE  FramesFit(t, o, NoConfig) /\ TableFits(T, t, o, NoConfig)
<1>1. \A j \in 0 .. Len(t) : j = 0 \/ ~Reconfigures(o, t[j])
  BY DEF Reconfigures, Mine
<1>2. \A k \in 1 .. Len(t) : t[k].kind # "frame"
  OBVIOUS
<1>3. \A j \in 0 .. Len(t) : \A k : Governs(t, o, j, k) => ConfigAt(t, NoConfig, j) = NoConfig
  BY <1>1 DEF Governs, ConfigAt
<1>4. FramesFit(t, o, NoConfig)
  BY <1>2 DEF FramesFit
<1>5. TableFits(T, t, o, NoConfig)
  BY <1>3 DEF TableFits, Fits
<1>6. QED
  BY <1>4, <1>5

-----------------------------------------------------------------------------
(* Requests and answers stay in order.                                     *)
LEMMA OrderParts ==
  ASSUME SessionTypeOK
  PROVE  /\ number \in Nat /\ opened \in Nat
         /\ Len(requests) \in Nat /\ DOMAIN requests = 1 .. Len(requests)
         /\ \A p \in 1 .. Len(requests) : requests[p].number \in Nat
         /\ Len(tx) \in Nat /\ DOMAIN tx = 1 .. Len(tx)
         /\ \A k \in 1 .. Len(tx) : tx[k].kind = "answer" => tx[k].of.number \in Nat
<1>1. /\ Len(requests) \in Nat /\ DOMAIN requests = 1 .. Len(requests)
      /\ \A p \in 1 .. Len(requests) : requests[p] \in Request
  BY ElementsOf DEF SessionTypeOK
<1>2. /\ Len(tx) \in Nat /\ DOMAIN tx = 1 .. Len(tx)
      /\ \A k \in 1 .. Len(tx) : tx[k] \in Message
  BY ElementsOf DEF SessionTypeOK
<1>3. \A r \in Request : r.number \in Nat
  BY RequestParts
<1>4. \A m \in Message : m.kind = "answer" => m.of.number \in Nat
  BY MessageParts
<1>5. QED
  BY <1>1, <1>2, <1>3, <1>4 DEF SessionTypeOK

LEMMA SendKeepsOrder ==
  ASSUME SessionTypeOK, InOrder, NEW kind, NEW c, Send(kind, c), MaySend(kind, c)
  PROVE  InOrder'
<1> DEFINE r == [number |-> number + 1, kind |-> kind, config |-> c]
           n == Len(requests)
<1>1. r \in Request /\ r.number = number + 1
  BY DEF MaySend, Request, SessionTypeOK
<1>2. requests' = Append(requests, r) /\ number' = number + 1
        /\ UNCHANGED <<tx, opened, config>>
  BY DEF Send, editor
<1> HIDE DEF r, n
<1>3. /\ DOMAIN requests' = 1 .. n + 1 /\ requests'[n + 1] = r
      /\ \A p \in 1 .. n : requests'[p] = requests[p]
  BY <1>1, <1>2 DEF SessionTypeOK, n
<1>4. /\ number \in Nat /\ opened \in Nat /\ n \in Nat /\ DOMAIN requests = 1 .. n
      /\ \A p \in 1 .. n : requests[p].number \in Nat
      /\ \A k \in DOMAIN tx : tx[k].kind = "answer" => tx[k].of.number \in Nat
  BY OrderParts DEF n
<1>5. \A p \in 1 .. n + 1 : p \in 1 .. n \/ p = n + 1
  BY <1>4
<1>6. \A p \in 1 .. n + 1 : /\ requests'[p].number =< number + 1
                            /\ config # NoConfig => requests'[p].number > opened
  BY <1>1, <1>3, <1>4, <1>5 DEF InOrder
<1>7. \A p, q \in 1 .. n + 1 : p < q => requests'[p].number < requests'[q].number
  <2> SUFFICES ASSUME NEW p \in 1 .. n + 1, NEW q \in 1 .. n + 1, p < q
               PROVE  requests'[p].number < requests'[q].number
    OBVIOUS
  <2>1. p \in 1 .. n
    BY <1>4
  <2>2. CASE q \in 1 .. n
    BY <1>3, <1>4, <2>1, <2>2 DEF InOrder
  <2>3. CASE q = n + 1
    <3>1. requests[p].number =< number /\ requests[p].number \in Nat
      BY <1>4, <2>1 DEF InOrder
    <3>2. QED
      BY <1>1, <1>3, <1>4, <2>1, <2>3, <3>1
  <2>4. QED
    BY <1>5, <2>2, <2>3
<1>8. \A k \in DOMAIN tx : tx[k].kind = "answer" =>
        /\ tx[k].of.number =< number + 1
        /\ \A p \in 1 .. n + 1 : tx[k].of.number < requests'[p].number
  <2> SUFFICES ASSUME NEW k \in DOMAIN tx, tx[k].kind = "answer"
               PROVE  /\ tx[k].of.number =< number + 1
                      /\ \A p \in 1 .. n + 1 : tx[k].of.number < requests'[p].number
    OBVIOUS
  <2>1. /\ tx[k].of.number \in Nat /\ tx[k].of.number =< number
        /\ \A p \in 1 .. n : tx[k].of.number < requests[p].number
    BY <1>4 DEF InOrder
  <2>2. QED
    BY <1>1, <1>3, <1>4, <1>5, <2>1
<1>9. opened =< number + 1
  BY <1>4 DEF InOrder
<1>10. QED
  BY <1>2, <1>3, <1>6, <1>7, <1>8, <1>9 DEF InOrder

(* The order of what is left of the requests, and of an answer that is     *)
(* put behind the others.                                                  *)
LEMMA TickKeepsOrder ==
  ASSUME SessionTypeOK, InOrder, NEW found \in BOOLEAN, NEW step, NEW sent,
         Ticks(found, step, sent)
  PROVE  InOrder'
<1> DEFINE d == D(found)
           fs == Frames(d, sent)
           n == Len(requests)
           less == IF found THEN 1 ELSE 0
<1>1. /\ d.table \in Seq(Row) /\ d.tx \in Seq(Message) /\ sent \in Seq(1 .. Len(d.table))
      /\ tx' = d.tx \o fs
  BY HandledType DEF Ticks
<1>2. fs \in Seq(Message) /\ \A k \in 1 .. Len(fs) : fs[k].kind = "frame"
  <2> HIDE DEF d
  <2>1. Frames(d, sent) \in Seq(Message) /\ Len(Frames(d, sent)) = Len(sent)
    BY <1>1, FramesType
  <2>2. \A k \in 1 .. Len(sent) : Frames(d, sent)[k].kind = "frame"
    BY <1>1, FramesType
  <2>3. QED
    BY <2>1, <2>2
<1>3. /\ number \in Nat /\ opened \in Nat /\ n \in Nat /\ DOMAIN requests = 1 .. n
      /\ \A p \in 1 .. n : requests[p].number \in Nat
      /\ Len(tx) \in Nat /\ DOMAIN tx = 1 .. Len(tx)
  BY OrderParts
<1>4. UNCHANGED <<number, opened, config>>
  BY DEF Ticks, editor
<1>5. /\ found => n >= 1 /\ Head(requests) = requests[1] /\ requests[1] \in Request
      /\ DOMAIN requests' = 1 .. n - less
      /\ \A p \in 1 .. n - less : requests'[p] = requests[p + less]
  <2>1. CASE found
    <3>1. requests # <<>> /\ requests' = Tail(requests)
      BY <2>1 DEF Ticks
    <3>2. /\ n >= 1 /\ Head(requests) = requests[1] /\ requests[1] \in Request
          /\ Tail(requests) \in Seq(Request) /\ Len(Tail(requests)) = n - 1
          /\ \A p \in 1 .. n - 1 : Tail(requests)[p] = requests[p + 1]
      BY <3>1, HeadAndTail DEF SessionTypeOK
    <3>3. DOMAIN Tail(requests) = 1 .. n - 1
      BY <3>2, ElementsOf
    <3>4. QED
      BY <2>1, <3>1, <3>2, <3>3
  <2>2. CASE ~found
    <3>1. requests' = requests
      BY <2>2 DEF Ticks
    <3>2. QED
      BY <1>3, <2>2, <3>1
  <2>3. QED
    BY <2>1, <2>2
<1> HIDE DEF n
<1>6. \A p \in 1 .. n - less : p + less \in 1 .. n
  BY <1>3
<1>7. \A k \in 1 .. Len(tx') : tx'[k].kind = "answer" =>
        \/ k \in 1 .. Len(tx) /\ tx'[k] = tx[k]
        \/ found /\ tx'[k].of = requests[1]
  <2> SUFFICES ASSUME NEW k \in 1 .. Len(tx'), tx'[k].kind = "answer"
               PROVE  \/ k \in 1 .. Len(tx) /\ tx'[k] = tx[k]
                      \/ found /\ tx'[k].of = requests[1]
    OBVIOUS
  <2>1. /\ k =< Len(d.tx) => k \in 1 .. Len(d.tx) /\ tx'[k] = d.tx[k]
        /\ k > Len(d.tx) => k - Len(d.tx) \in 1 .. Len(fs) /\ tx'[k] = fs[k - Len(d.tx)]
    <3> HIDE DEF d, fs
    <3>1. Len(d.tx) \in Nat
      BY <1>1
    <3>2. \A i \in 1 .. Len(d.tx) : (d.tx \o fs)[i] = d.tx[i]
      BY <1>1, <1>2, AppendedElements
    <3>3. \A i \in 1 .. Len(d.tx \o fs) : i > Len(d.tx) =>
            i - Len(d.tx) \in 1 .. Len(fs) /\ (d.tx \o fs)[i] = fs[i - Len(d.tx)]
      BY <1>1, <1>2, AppendedElements
    <3>4. QED
      BY <1>1, <3>1, <3>2, <3>3
  <2>2. k \in 1 .. Len(d.tx) /\ tx'[k] = d.tx[k]
    <3>1. Len(d.tx) \in Nat
      BY <1>1
    <3> HIDE DEF d, fs
    <3>2. QED
      BY <1>2, <2>1, <3>1
  <2>3. CASE ~found
    <3>1. d.tx = tx
      BY <2>3 DEF D, Idle
    <3>2. QED
      BY <2>2, <3>1
  <2>4. CASE found
    <3>1. d.tx = Append(tx, Answer(requests[1]))
      BY <1>5, <2>4 DEF D, Handled
    <3>2. Answer(requests[1]) \in Message /\ Answer(requests[1]).of = requests[1]
      BY <1>5, <2>4, RequestParts
    <3>3. CASE k \in 1 .. Len(tx)
      <4>1. d.tx[k] = tx[k]
        BY <3>1, <3>2, <3>3 DEF SessionTypeOK
      <4>2. QED
        BY <2>2, <3>3, <4>1
    <3>4. CASE k \notin 1 .. Len(tx)
      <4>1. k = Len(tx) + 1
        BY <1>3, <2>2, <3>1, <3>2, <3>4 DEF SessionTypeOK
      <4>2. d.tx[Len(tx) + 1] = Answer(requests[1])
        BY <3>1, <3>2 DEF SessionTypeOK
      <4>3. QED
        BY <2>2, <2>4, <3>2, <4>1, <4>2
    <3>5. QED
      BY <3>3, <3>4
  <2>5. QED
    BY <2>3, <2>4
<1>8. DOMAIN tx' = 1 .. Len(tx')
  <2>1. d.tx \o fs \in Seq(Message)
    <3> HIDE DEF d, fs
    <3> QED BY <1>1, <1>2
  <2> HIDE DEF d, fs
  <2>2. QED
    BY <1>1, <2>1
<1> HIDE DEF d, fs
<1>9. \A k \in 1 .. Len(tx') : tx'[k].kind = "answer" =>
        /\ tx'[k].of.number =< number
        /\ \A p \in 1 .. n - less : tx'[k].of.number < requests'[p].number
  <2> SUFFICES ASSUME NEW k \in 1 .. Len(tx'), tx'[k].kind = "answer"
               PROVE  /\ tx'[k].of.number =< number
                      /\ \A p \in 1 .. n - less : tx'[k].of.number < requests'[p].number
    OBVIOUS
  <2>1. CASE k \in 1 .. Len(tx) /\ tx'[k] = tx[k]
    BY <1>3, <1>5, <1>6, <2>1 DEF InOrder
  <2>2. CASE found /\ tx'[k].of = requests[1]
    <3>1. 1 \in 1 .. n /\ \A p \in 1 .. n - less : 1 < p + less
      BY <1>3, <1>5, <2>2
    <3>2. QED
      BY <1>3, <1>5, <1>6, <2>2, <3>1 DEF InOrder
  <2>3. QED
    BY <1>7, <2>1, <2>2
<1>10. \A p \in 1 .. n - less : /\ requests'[p].number =< number
                                /\ config # NoConfig => requests'[p].number > opened
  BY <1>3, <1>5, <1>6 DEF InOrder
<1>11. \A p, q \in 1 .. n - less : p < q => requests'[p].number < requests'[q].number
  <2> SUFFICES ASSUME NEW p \in 1 .. n - less, NEW q \in 1 .. n - less, p < q
               PROVE  requests'[p].number < requests'[q].number
    OBVIOUS
  <2>1. p + less \in 1 .. n /\ q + less \in 1 .. n /\ p + less < q + less
    BY <1>6
  <2>2. QED
    BY <1>3, <1>5, <2>1 DEF InOrder
<1>12. QED
  BY <1>4, <1>5, <1>8, <1>9, <1>10, <1>11 DEF InOrder

LEMMA ReceiveKeepsOrder ==
  ASSUME SessionTypeOK, InOrder, Receive
  PROVE  InOrder'
<1> DEFINE m == Head(tx)
           n == Len(tx) - 1
<1>1. /\ tx # <<>> /\ tx' = Tail(tx) /\ Reads(m)
      /\ UNCHANGED <<requests, board, sample, number, opened, gap, early, rate, faults>>
  BY ReadParts
<1>2. /\ m = tx[1] /\ Len(tx) >= 1 /\ tx' \in Seq(Message) /\ Len(tx') = n
      /\ \A k \in 1 .. n : tx'[k] = tx[k + 1]
  BY <1>1, HeadAndTail DEF SessionTypeOK
<1>3. /\ number \in Nat /\ opened \in Nat
      /\ \A p \in DOMAIN requests : requests[p].number \in Nat
      /\ Len(tx) \in Nat /\ DOMAIN tx = 1 .. Len(tx)
      /\ \A k \in 1 .. Len(tx) : tx[k].kind = "answer" => tx[k].of.number \in Nat
  BY OrderParts
<1>4. DOMAIN tx' = 1 .. n /\ 1 \in 1 .. Len(tx) /\ \A k \in 1 .. n : k + 1 \in 1 .. Len(tx)
  BY <1>2, <1>3
<1> HIDE DEF m, n
<1>5. \A k \in DOMAIN tx' : tx'[k].kind = "answer" =>
        /\ tx'[k].of.number =< number
        /\ \A p \in DOMAIN requests : tx'[k].of.number < requests[p].number
  BY <1>2, <1>3, <1>4 DEF InOrder
<1>6. config' # NoConfig => \A p \in DOMAIN requests : requests[p].number > opened
  <2> SUFFICES ASSUME config' # NoConfig, NEW p \in DOMAIN requests
               PROVE  requests[p].number > opened
    OBVIOUS
  <2>1. CASE Reconfigures(opened, m)
    <3>1. tx[1].kind = "answer" /\ tx[1].of.number > opened
      BY <1>2, <2>1 DEF Reconfigures, Mine
    <3>2. tx[1].of.number < requests[p].number
      BY <1>3, <1>4, <3>1 DEF InOrder
    <3>3. QED
      BY <1>3, <1>4, <3>1, <3>2
  <2>2. CASE ~Reconfigures(opened, m)
    <3>1. config # NoConfig
      BY <1>1, <2>2 DEF Reads, GoesBy
    <3>2. QED
      BY <3>1 DEF InOrder
  <2>3. QED
    BY <2>1, <2>2
<1>7. QED
  BY <1>1, <1>5, <1>6 DEF InOrder

LEMMA FaultKeepsOrder ==
  ASSUME SessionTypeOK, InOrder, Reopen \/ Restart
  PROVE  InOrder'
<1>1. opened' = number /\ number' = number /\ config' = NoConfig /\ number \in Nat
  BY DEF Reopen, Restart, Disconnected, SessionTypeOK
<1>2. \A k \in DOMAIN tx' : tx'[k].kind # "answer"
  BY DEF Reopen, Restart
<1>3. requests' = requests \/ requests' = <<>>
  BY DEF Reopen, Restart
<1>4. QED
  BY <1>1, <1>2, <1>3 DEF InOrder

-----------------------------------------------------------------------------
(* What a tick answers still fits: the table is that of the request, or    *)
(* the request is from an old session and nothing is in force.             *)
LEMMA AnsweredFits ==
  ASSUME MixInv, NEW found \in BOOLEAN, found => requests # <<>>
  PROVE  FramesFit(D(found).tx, opened, config) /\ TableFits(D(found).table, D(found).tx, opened, config)
<1>1. FramesFit(tx, opened, config) /\ TableFits(table, tx, opened, config)
  BY DEF MixInv
<1>2. CASE ~found
  BY <1>1, <1>2 DEF D, Idle
<1>3. CASE found
  <2> DEFINE r == requests[1]
             m == Answer(r)
             T == D(found).table
  <2>1. Head(requests) = r /\ r \in Request /\ 1 \in DOMAIN requests
    <3>1. requests \in Seq(Request) /\ requests # <<>>
      BY <1>3 DEF MixInv, SessionTypeOK
    <3>2. QED
      BY <3>1, HeadAndTail
  <2> HIDE DEF r
  <2>2. /\ m \in Message /\ m.kind = "answer" /\ m.of = r /\ r.number \in Nat
        /\ r.kind = "config" => r.config \in Config
    BY <2>1, RequestParts
  <2> HIDE DEF m
  <2>3. /\ D(found).tx = Append(tx, m)
        /\ T = IF r.kind = "config" THEN TableFor[r.config] ELSE table
    BY <1>3, <2>1 DEF D, Handled, m
  <2>4. T \in Seq(Row) /\ tx \in Seq(Message) /\ opened \in Nat
    BY HandledType DEF MixInv, SessionTypeOK
  <2> HIDE DEF T
  <2>5. Reconfigures(opened, m) => \A i \in 1 .. Len(T) : Fits(m.of.config, i, T[i].source)
    <3> SUFFICES ASSUME Reconfigures(opened, m), NEW i \in 1 .. Len(T)
                 PROVE  Fits(m.of.config, i, T[i].source)
      OBVIOUS
    <3>1. r.kind = "config" /\ m.of.config = r.config /\ r.config \in Config
      BY <2>2 DEF Reconfigures
    <3>2. T = TableFor[r.config] /\ i \in DOMAIN T
      BY <2>3, <2>4, <3>1
    <3>3. QED
      BY <3>1, <3>2, TableIsAsked
  <2>6. ~Reconfigures(opened, m) => TableFits(T, tx, opened, config)
    <3> SUFFICES ASSUME ~Reconfigures(opened, m) PROVE TableFits(T, tx, opened, config)
      OBVIOUS
    <3>1. CASE r.kind # "config"
      BY <1>1, <2>3, <3>1
    <3>2. CASE r.kind = "config"
      <4>1. r.number =< opened
        BY <2>2, <2>4, <3>2 DEF Reconfigures, Mine
      <4>2. config = NoConfig
        BY <2>1, <2>2, <2>4, <4>1 DEF MixInv, InOrder, r
      <4>3. \A j \in 1 .. Len(tx) : ~Reconfigures(opened, tx[j])
        <5> SUFFICES ASSUME NEW j \in 1 .. Len(tx), Reconfigures(opened, tx[j]) PROVE FALSE
          OBVIOUS
        <5>1. /\ tx[j].kind = "answer" /\ tx[j].of.number > opened
              /\ tx[j].of.number \in Nat /\ j \in DOMAIN tx
          BY OrderParts DEF Reconfigures, Mine, MixInv
        <5>2. tx[j].of.number < r.number
          BY <2>1, <5>1 DEF MixInv, InOrder, r
        <5>3. QED
          BY <2>2, <2>4, <4>1, <5>1, <5>2
      <4>4. \A j \in 0 .. Len(tx) : \A k : Governs(tx, opened, j, k) => j = 0
        BY <4>3 DEF Governs
      <4>5. QED
        BY <4>2, <4>4 DEF TableFits, ConfigAt, Fits
    <3>3. QED
      BY <3>1, <3>2
  <2>7. FramesFit(Append(tx, m), opened, config) /\ TableFits(T, Append(tx, m), opened, config)
    BY <1>1, <2>2, <2>4, <2>5, <2>6, AnswerFits
  <2>8. QED
    BY <2>3, <2>7 DEF T
<1>4. QED
  BY <1>2, <1>3

LEMMA SameSources ==
  ASSUME NEW T \in Seq(Row), NEW U \in Seq(Row), Len(U) = Len(T),
         \A i \in 1 .. Len(T) : U[i].source = T[i].source,
         NEW t, NEW o, NEW c, TableFits(T, t, o, c)
  PROVE  TableFits(U, t, o, c)
  BY DEF TableFits

LEMMA TickDoesNotMix ==
  ASSUME MixInv, NEW found \in BOOLEAN, NEW step, NEW sent, Ticks(found, step, sent)
  PROVE  MixInv'
<1> DEFINE d == D(found)
           f == Frames(d, sent)
           U == WithLastSent(d, sent)
<1>1. SessionTypeOK' /\ InOrder'
  BY TickType, TickKeepsOrder DEF MixInv
<1>2. /\ d.table \in Seq(Row) /\ d.tx \in Seq(Message) /\ sent \in Seq(1 .. Len(d.table))
      /\ tx' = d.tx \o f /\ table' = U /\ SessionTypeOK
  BY HandledType DEF Ticks, MixInv
<1>3. FramesFit(d.tx, opened, config) /\ TableFits(d.table, d.tx, opened, config)
  BY AnsweredFits DEF Ticks
<1>4. UNCHANGED <<opened, config, mistaken>>
  BY DEF Ticks, editor
<1> HIDE DEF d
<1>5. /\ f \in Seq(Message) /\ Len(f) = Len(sent)
      /\ \A k \in 1 .. Len(sent) :
           /\ sent[k] \in 1 .. Len(d.table)
           /\ f[k].kind = "frame" /\ f[k].channel = sent[k]
           /\ f[k].source = d.table[sent[k]].source
  <2>1. f \in Seq(Message) /\ Len(f) = Len(sent)
    BY <1>2, FramesType
  <2>2. \A k \in 1 .. Len(sent) :
           /\ sent[k] \in 1 .. Len(d.table)
           /\ f[k].kind = "frame" /\ f[k].channel = sent[k]
           /\ f[k].source = d.table[sent[k]].source
    BY <1>2, FramesType
  <2>3. QED
    BY <2>1, <2>2
<1>6. /\ U \in Seq(Row) /\ Len(U) = Len(d.table)
      /\ \A i \in 1 .. Len(d.table) : U[i].source = d.table[i].source
  <2>1. U \in Seq(Row) /\ Len(U) = Len(d.table)
    BY <1>2, RememberedType
  <2>2. \A i \in 1 .. Len(d.table) : U[i].source = d.table[i].source
    BY <1>2, RememberedType
  <2>3. QED
    BY <2>1, <2>2
<1> HIDE DEF f, U
<1>7. FramesFit(d.tx \o f, opened, config) /\ TableFits(d.table, d.tx \o f, opened, config)
  <2>1. \A k \in 1 .. Len(f) : /\ f[k].kind = "frame" /\ f[k].channel \in 1 .. Len(d.table)
                               /\ f[k].source = d.table[f[k].channel].source
    BY <1>5
  <2> DEFINE T == d.table
             t == d.tx
  <2> HIDE DEF T, t
  <2>2. FramesFit(t \o f, opened, config) /\ TableFits(T, t \o f, opened, config)
    <3>1. t \in Seq(Message) /\ T \in Seq(Row) /\ f \in Seq(Message)
      BY <1>2, <1>5 DEF T, t
    <3>2. \A k \in 1 .. Len(f) : /\ f[k].kind = "frame" /\ f[k].channel \in 1 .. Len(T)
                                 /\ f[k].source = T[f[k].channel].source
      BY <2>1 DEF T
    <3>3. FramesFit(t, opened, config) /\ TableFits(T, t, opened, config)
      BY <1>3 DEF T, t
    <3>4. QED
      BY <3>1, <3>2, <3>3, FramesStillFit
  <2>3. QED
    BY <2>2 DEF T, t
<1>8. TableFits(U, d.tx \o f, opened, config)
  BY <1>2, <1>6, <1>7, SameSources
<1>9. QED
  BY <1>1, <1>2, <1>4, <1>7, <1>8 DEF MixInv

LEMMA ReceiveDoesNotMix ==
  ASSUME MixInv, Receive
  PROVE  MixInv'
<1> DEFINE m == Head(tx)
<1>1. SessionTypeOK' /\ InOrder'
  BY ReceiveType, ReceiveKeepsOrder DEF MixInv
<1>2. /\ tx # <<>> /\ tx' = Tail(tx) /\ Reads(m) /\ opened' = opened /\ table' = table
      /\ tx \in Seq(Message) /\ table \in Seq(Row)
  BY ReadParts DEF MixInv, SessionTypeOK, board
<1>3. m = tx[1] /\ Len(tx) \in Nat /\ Len(tx) >= 1
  BY <1>2, HeadAndTail
<1> HIDE DEF m
<1>4. FramesFit(tx, opened, config) /\ TableFits(table, tx, opened, config)
  BY DEF MixInv
<1>5. m.kind = "frame" => Fits(config, m.channel, m.source)
  <2>1. 1 \in 1 .. Len(tx) /\ 0 \in 0 .. Len(tx) /\ Governs(tx, opened, 0, 1)
    BY <1>3 DEF Governs
  <2>2. ConfigAt(tx, config, 0) = config
    BY DEF ConfigAt
  <2>3. QED
    BY <1>3, <1>4, <2>1, <2>2 DEF FramesFit
<1>6. ~mistaken'
  BY <1>2, <1>5 DEF Reads, MixInv
<1>7. config' # NoConfig => config' = IF Reconfigures(opened, m) THEN m.of.config ELSE config
  BY <1>2 DEF Reads, GoesBy
<1>8. FramesFit(Tail(tx), opened, config') /\ TableFits(table, Tail(tx), opened, config')
  <2> DEFINE next == config'
  <2>1. next # NoConfig => next = IF Reconfigures(opened, Head(tx)) THEN Head(tx).of.config ELSE config
    BY <1>7 DEF m
  <2> HIDE DEF next
  <2>2. FramesFit(Tail(tx), opened, next) /\ TableFits(table, Tail(tx), opened, next)
    BY <1>2, <1>4, <2>1, ReadingFits
  <2>3. QED
    BY <2>2 DEF next
<1>9. QED
  BY <1>1, <1>2, <1>6, <1>8 DEF MixInv

LEMMA FaultDoesNotMix ==
  ASSUME MixInv, Reopen \/ Restart
  PROVE  MixInv'
<1>1. SessionTypeOK' /\ InOrder'
  BY FaultType, FaultKeepsOrder DEF MixInv
<1>2. tx' \in {<<>>, <<[kind |-> "ready"]>>} /\ config' = NoConfig /\ mistaken' = mistaken
  BY DEF Reopen, Restart, Disconnected
<1>3. FramesFit(tx', opened', NoConfig) /\ TableFits(table', tx', opened', NoConfig)
  BY <1>2, NothingToFit
<1>4. QED
  BY <1>1, <1>2, <1>3 DEF MixInv

LEMMA NextDoesNotMix == MixInv /\ [SessionNext]_session => MixInv'
<1> SUFFICES ASSUME MixInv, [SessionNext]_session PROVE MixInv'
  OBVIOUS
<1>1. SessionTypeOK /\ SessionTypeOK' /\ InOrder
  BY NextType DEF MixInv
<1>2. ASSUME UNCHANGED <<tx, table, opened, config, mistaken>>, InOrder' PROVE MixInv'
  BY <1>1, <1>2 DEF MixInv
<1>3. ASSUME UNCHANGED <<requests, tx, number, opened, config>> PROVE InOrder'
  BY <1>1, <1>3 DEF InOrder
<1>4. CASE \E i \in Input : Turn(i)
  BY <1>2, <1>3, <1>4 DEF Turn, board, editor
<1>5. CASE UNCHANGED session
  BY <1>2, <1>3, <1>5 DEF session, board, editor
<1>6. ASSUME NEW kind, NEW c, Send(kind, c), MaySend(kind, c) PROVE MixInv'
  <2>1. InOrder'
    BY <1>1, <1>6, SendKeepsOrder
  <2>2. QED
    BY <1>2, <1>6, <2>1 DEF Send, board, editor
<1>7. MaySend("hello", NoConfig) /\ \A c \in Config : MaySend("config", c)
  BY DEF MaySend
<1>8. CASE Send("hello", NoConfig)
  BY <1>6, <1>7, <1>8
<1>9. CASE \E c \in Config : Send("config", c)
  BY <1>6, <1>7, <1>9
<1>10. CASE \E found \in BOOLEAN : \E step, sent : Ticks(found, step, sent)
  BY <1>10, TickDoesNotMix
<1>11. CASE Receive
  BY <1>11, ReceiveDoesNotMix
<1>12. CASE Reopen \/ Restart
  BY <1>12, FaultDoesNotMix
<1>13. QED
  BY <1>1, <1>4, <1>5, <1>8, <1>9, <1>10, <1>11, <1>12, SessionActions

LEMMA InitDoesNotMix == SessionInit => MixInv
<1> SUFFICES ASSUME SessionInit PROVE MixInv
  OBVIOUS
<1>1. SessionTypeOK
  BY InitType
<1>2. tx \in {<<>>, <<[kind |-> "ready"]>>} /\ config = NoConfig /\ ~mistaken
  BY DEF SessionInit
<1>3. FramesFit(tx, opened, config) /\ TableFits(table, tx, opened, config)
  BY <1>2, NothingToFit
<1>4. InOrder
  <2>1. \A k \in DOMAIN tx : tx[k].kind # "answer"
    BY <1>2
  <2>2. QED
    BY <1>2, <2>1 DEF SessionInit, InOrder
<1>5. QED
  BY <1>1, <1>2, <1>3, <1>4 DEF MixInv

(* Every frame on its way fits the stream-config whose answer the editor   *)
(* will have read by then, at its place among the enabled channels,        *)
(* whatever came between, however many channels, requests, restarts and    *)
(* reconnections there are.                                                *)
THEOREM FramesAlwaysFollow == SessionSpec => []FramesFollowTheirConfig
<1>1. SessionInit => MixInv
  BY InitDoesNotMix
<1>2. MixInv /\ [SessionNext]_session => MixInv'
  BY NextDoesNotMix
<1>3. MixInv => FramesFollowTheirConfig
  BY DEF MixInv, FramesFollowTheirConfig
<1>4. QED
  BY <1>1, <1>2, <1>3, PTL DEF SessionSpec

-----------------------------------------------------------------------------
(* The bytes of the messages of l, in the order they are sent in.          *)
BytesIn(l) == {b \in Nat \X Nat : b[1] \in 1 .. Len(l) /\ b[2] \in 1 .. Size[l[b[1]]]}

Earlier(a, b) == a[1] < b[1] \/ (a[1] = b[1] /\ a[2] < b[2])

(* s is the bytes of l from one of them on.                                *)
Flows(l, s) ==
  /\ s \in Seq(BytesIn(l))
  /\ \A i, j \in DOMAIN s : i < j => Earlier(s[i], s[j])
  /\ \A i \in DOMAIN s, b \in BytesIn(l) : Earlier(s[i], b) => \E j \in DOMAIN s : s[j] = b

(* Of the messages after the p-th, none but junk has lost its beginning.   *)
Unread(l, s, p) ==
  /\ \A i \in DOMAIN s : s[i][1] > p
  /\ \A n \in p + 1 .. Len(l) : Kind[l[n]] # "junk" => \E i \in DOMAIN s : s[i] = <<n, 1>>

(* t is s without its first d elements.                                    *)
Dropped(s, t, d) ==
  /\ d \in 0 .. Len(s) /\ Len(t) = Len(s) - d
  /\ \A i \in 1 .. Len(s) - d : t[i] = s[i + d]

(* The first of the positions where something is found.                    *)
LEMMA LeastIs ==
  ASSUME NEW I \in SUBSET Nat, I # {}
  PROVE  Min(I) \in I /\ \A i \in I : Min(I) =< i
<1>1. \E x \in I : \A y \in I : ~(y < x)
  BY LeastOf
<1>2. \E x \in I : \A y \in I : x =< y
  BY <1>1
<1>3. QED
  BY <1>2 DEF Min

(* The buffer from the first brace on.                                     *)
LEMMA TrimmedIs ==
  ASSUME NEW S, NEW b \in Seq(S)
  PROVE  \/ /\ \A i \in 1 .. Len(b) : ~Opens(b[i])
            /\ Trimmed(b) = <<>>
         \/ \E i \in 1 .. Len(b) : /\ Opens(b[i]) /\ \A j \in 1 .. i - 1 : ~Opens(b[j])
                                   /\ Trimmed(b) = SubSeq(b, i, Len(b))
<1> DEFINE I == {i \in 1 .. Len(b) : Opens(b[i])}
           i == SelectInSeq(b, Opens)
<1>1. i = IF I # {} THEN Min(I) ELSE 0
  BY DEF SelectInSeq
<1>2. I \in SUBSET Nat /\ Len(b) \in Nat
  OBVIOUS
<1>3. Trimmed(b) = IF i = 0 THEN <<>> ELSE SubSeq(b, i, Len(b))
  BY DEF Trimmed
<1>4. CASE I = {}
  BY <1>1, <1>3, <1>4
<1>5. CASE I # {}
  <2>1. Min(I) \in I /\ \A j \in I : Min(I) =< j
    <3> HIDE DEF I
    <3>1. QED
      BY <1>2, <1>5, LeastIs
  <2>2. i = Min(I)
    BY <1>1, <1>5
  <2> HIDE DEF i
  <2>3. i \in 1 .. Len(b) /\ Opens(b[i])
    BY <2>1, <2>2
  <2>4. \A j \in 1 .. i - 1 : ~Opens(b[j])
    BY <2>1, <2>2, <1>2
  <2>5. Trimmed(b) = SubSeq(b, i, Len(b))
    BY <1>3, <2>3
  <2>6. QED
    BY <2>3, <2>4, <2>5
<1>6. QED
  BY <1>4, <1>5

(* What a search for the first newline leaves.                             *)
LEMMA ExtractIs ==
  ASSUME NEW S, NEW b \in Seq(S), Extract(b)
  PROVE  \/ rx' = b /\ UNCHANGED <<ready, msg>>
         \/ \E i \in 1 .. Len(b) : /\ IsNewline(b[i]) /\ \A j \in 1 .. i - 1 : ~IsNewline(b[j])
                                   /\ rx' = SubSeq(b, i + 1, Len(b))
                                   /\ msg' = b[1][1] /\ ready' = TRUE
<1> DEFINE I == {i \in 1 .. Len(b) : IsNewline(b[i])}
           i == SelectInSeq(b, IsNewline)
<1>1. i = IF I # {} THEN Min(I) ELSE 0
  BY DEF SelectInSeq
<1>2. I \in SUBSET Nat /\ Len(b) \in Nat
  OBVIOUS
<1>3. IF i = 0 THEN rx' = b /\ UNCHANGED <<ready, msg>>
               ELSE rx' = SubSeq(b, i + 1, Len(b)) /\ msg' = b[1][1] /\ ready' = TRUE
  BY DEF Extract
<1>4. CASE I = {}
  BY <1>1, <1>3, <1>4
<1>5. CASE I # {}
  <2>1. Min(I) \in I /\ \A j \in I : Min(I) =< j
    <3> HIDE DEF I
    <3>1. QED
      BY <1>2, <1>5, LeastIs
  <2>2. i = Min(I)
    BY <1>1, <1>5
  <2> HIDE DEF i
  <2>3. i \in 1 .. Len(b) /\ IsNewline(b[i])
    BY <2>1, <2>2
  <2>4. \A j \in 1 .. i - 1 : ~IsNewline(b[j])
    BY <2>1, <2>2, <1>2
  <2>5. QED
    BY <1>3, <2>3, <2>4
<1>6. QED
  BY <1>4, <1>5

(* What is left of a stream is a stream.                                   *)
LEMMA RestFlows ==
  ASSUME NEW l, NEW s, Flows(l, s), NEW t \in Seq(Nat \X Nat), NEW d, Dropped(s, t, d)
  PROVE  Flows(l, t)
<1>1. Len(s) \in Nat /\ Len(t) = Len(s) - d /\ d \in 0 .. Len(s) /\ DOMAIN s = 1 .. Len(s)
        /\ DOMAIN t = 1 .. Len(t)
  BY DEF Flows, Dropped
<1>2. ASSUME NEW i \in DOMAIN t PROVE i + d \in DOMAIN s /\ t[i] = s[i + d]
  <2>1. i \in 1 .. Len(s) - d /\ i + d \in 1 .. Len(s)
    BY <1>1
  <2>2. QED
    BY <1>1, <2>1 DEF Dropped
<1>3. t \in Seq(BytesIn(l))
  <2>1. \A i \in 1 .. Len(t) : t[i] \in BytesIn(l)
    BY <1>1, <1>2 DEF Flows
  <2>2. t \in [1 .. Len(t) -> BytesIn(l)]
    BY <2>1, LenProperties
  <2>3. Len(t) \in Nat
    BY <1>1
  <2>4. t \in UNION {[1 .. n -> BytesIn(l)] : n \in Nat}
    BY <2>2, <2>3
  <2>5. QED
    BY <2>4, SeqDef
<1>4. ASSUME NEW i \in DOMAIN t, NEW j \in DOMAIN t, i < j
      PROVE  Earlier(t[i], t[j])
  <2>1. i + d < j + d
    BY <1>1, <1>4
  <2>2. QED
    BY <1>2, <2>1 DEF Flows
<1>5. ASSUME NEW i \in DOMAIN t, NEW b \in BytesIn(l), Earlier(t[i], b)
      PROVE  \E j \in DOMAIN t : t[j] = b
  <2>1. PICK j \in DOMAIN s : s[j] = b
    BY <1>2, <1>5 DEF Flows
  <2>2. i + d < j
    <3>1. Earlier(s[i + d], s[j]) /\ i + d \in DOMAIN s
      BY <1>2, <1>5, <2>1
    <3>2. s[i + d] \in Nat \X Nat /\ s[j] \in Nat \X Nat
      BY <3>1 DEF Flows, BytesIn
    <3>3. j < i + d => Earlier(s[j], s[i + d])
      BY <3>1 DEF Flows
    <3>4. j # i + d /\ ~(j < i + d)
      BY <3>1, <3>2, <3>3 DEF Earlier
    <3>5. \A x, y \in Nat : x # y /\ ~(x < y) => y < x
      OBVIOUS
    <3>6. j \in Nat /\ i + d \in Nat
      BY <1>1
    <3>7. QED
      BY <3>4, <3>5, <3>6
  <2>3. j - d \in DOMAIN t /\ (j - d) + d = j
    BY <1>1, <2>2
  <2>4. t[j - d] = b
    BY <1>2, <2>1, <2>3
  <2>5. QED
    BY <2>3, <2>4
<1>6. QED
  BY <1>3, <1>4, <1>5 DEF Flows

(* What a tick that reads does to the stream: it loses bytes at its        *)
(* beginning.  Either no brace is among them, or the last one ends the     *)
(* message in the buffer, whose first byte is the first brace.             *)
NothingRead(s, d) == UNCHANGED <<ready, msg>> /\ \A i \in 1 .. d : ~Opens(s[i])

FirstMessage(s, i, d) ==
  /\ Opens(s[i]) /\ \A j \in 1 .. i - 1 : ~Opens(s[j])
  /\ IsNewline(s[d]) /\ \A j \in i .. d - 1 : ~IsNewline(s[j])

MessageRead(s, d) ==
  \E i \in 1 .. d : FirstMessage(s, i, d) /\ msg' = s[i][1] /\ ready' = TRUE

Drains(s, t) ==
  \E d \in 0 .. Len(s) : Dropped(s, t, d) /\ (NothingRead(s, d) \/ MessageRead(s, d))

(* What one has_incoming does to the stream.                               *)
LEMMA DrainsBytes ==
  ASSUME NEW S, rx \in Seq(S), wire \in Seq(S), HasIncoming
  PROVE  /\ rx' \in Seq(S) /\ wire' \in Seq(S)
         /\ Drains(rx \o wire, rx' \o wire')
<1>1. PICK k \in Room : /\ Extract(Trimmed(rx \o SubSeq(wire, 1, k)))
                        /\ wire' = SubSeq(wire, k + 1, Len(wire))
  BY DEF HasIncoming
<1> DEFINE s == rx \o wire
           b == rx \o SubSeq(wire, 1, k)
           c == Len(rx) + k
           L == Len(s)
<1>2. k \in 0 .. Len(wire) /\ Len(rx) \in Nat /\ Len(wire) \in Nat
  BY LineAssumption DEF Room
<1>3. s \in Seq(S) /\ L = Len(rx) + Len(wire)
        /\ \A i \in 1 .. L : s[i] = IF i =< Len(rx) THEN rx[i] ELSE wire[i - Len(rx)]
  BY ConcatProperties
<1>4. wire' \in Seq(S) /\ Len(wire') = L - c
        /\ \A i \in 1 .. L - c : wire'[i] = s[i + c]
  <2>1. /\ SubSeq(wire, k + 1, Len(wire)) \in Seq(S)
        /\ Len(SubSeq(wire, k + 1, Len(wire)))
             = IF k + 1 =< Len(wire) THEN Len(wire) - (k + 1) + 1 ELSE 0
        /\ \A i \in 1 .. Len(wire) - (k + 1) + 1 :
             SubSeq(wire, k + 1, Len(wire))[i] = wire[k + 1 + i - 1]
    <3>1. \A i \in k + 1 .. Len(wire) : wire[i] \in S
      BY <1>2
    <3>2. QED
      BY <1>2, <3>1, SubSeqProperties
  <2>2. ASSUME NEW i \in 1 .. L - c PROVE wire'[i] = s[i + c]
    <3>1. i \in 1 .. Len(wire) - (k + 1) + 1 /\ k + 1 + i - 1 = i + k
      BY <1>2, <1>3
    <3>2. wire'[i] = wire[i + k]
      BY <1>1, <2>1, <3>1
    <3>3. i + c \in 1 .. L /\ ~(i + c =< Len(rx)) /\ i + c - Len(rx) = i + k
      BY <1>2, <1>3
    <3> HIDE DEF s
    <3>4. PICK x \in 1 .. L : x = i + c
      BY <3>3
    <3>5. s[x] = wire[x - Len(rx)]
      BY <1>3, <3>3, <3>4
    <3>6. x - Len(rx) = i + k
      BY <1>2, <1>3, <3>4
    <3>7. s[x] = s[i + c]
      BY <3>4
    <3>8. QED
      BY <3>2, <3>5, <3>6, <3>7
  <2>3. Len(wire') = L - c
    BY <1>1, <1>2, <1>3, <2>1
  <2>4. QED
    BY <1>1, <2>1, <2>2, <2>3
<1>5. b \in Seq(S) /\ Len(b) = c /\ c \in 0 .. L /\ \A i \in 1 .. c : b[i] = s[i]
  <2>1. /\ SubSeq(wire, 1, k) \in Seq(S)
        /\ Len(SubSeq(wire, 1, k)) = k
        /\ \A i \in 1 .. k : SubSeq(wire, 1, k)[i] = wire[i]
    <3>1. \A i \in 1 .. k : wire[i] \in S
      BY <1>2
    <3>2. /\ SubSeq(wire, 1, k) \in Seq(S)
          /\ Len(SubSeq(wire, 1, k)) = IF 1 =< k THEN k - 1 + 1 ELSE 0
          /\ \A i \in 1 .. k - 1 + 1 : SubSeq(wire, 1, k)[i] = wire[1 + i - 1]
      BY <1>2, <3>1, SubSeqProperties
    <3>3. k - 1 + 1 = k /\ \A i \in 1 .. k : 1 + i - 1 = i
      BY <1>2
    <3>4. QED
      BY <1>2, <3>2, <3>3
  <2>2. /\ b \in Seq(S)
        /\ Len(b) = c
        /\ \A i \in 1 .. c : b[i] = IF i =< Len(rx) THEN rx[i] ELSE SubSeq(wire, 1, k)[i - Len(rx)]
    BY <2>1, ConcatProperties
  <2>3. ASSUME NEW i \in 1 .. c PROVE b[i] = s[i]
    <3>1. i \in 1 .. L
      BY <1>2, <1>3
    <3>2. i > Len(rx) => i - Len(rx) \in 1 .. k
      BY <1>2
    <3>3. QED
      BY <1>2, <1>3, <2>1, <2>2, <3>1, <3>2
  <2>4. QED
    BY <1>2, <1>3, <2>2, <2>3
<1> HIDE DEF b
(* What is left in the buffer, and the stream after the tick.             *)
<1>6. ASSUME NEW r \in Seq(S), NEW d \in 0 .. c, Len(r) = c - d,
             \A i \in 1 .. c - d : r[i] = s[i + d], rx' = r
      PROVE  Dropped(s, rx' \o wire', d)
  <2> DEFINE t == r \o wire'
  <2>1. Len(t) = Len(r) + Len(wire')
          /\ \A i \in 1 .. Len(r) + Len(wire') : t[i] = IF i =< Len(r) THEN r[i] ELSE wire'[i - Len(r)]
    BY <1>4, <1>6, ConcatProperties
  <2>2. Len(r) + Len(wire') = L - d
    BY <1>2, <1>3, <1>4, <1>6
  <2>3. ASSUME NEW i \in 1 .. L - d PROVE t[i] = s[i + d]
    <3>1. CASE i =< c - d
      <4>1. i \in 1 .. c - d
        BY <3>1, <1>2
      <4>2. t[i] = r[i]
        BY <2>1, <2>2, <1>6, <4>1
      <4>3. QED
        BY <4>1, <4>2, <1>6
    <3>2. CASE ~(i =< c - d)
      <4>1. i - (c - d) \in 1 .. L - c /\ (i - (c - d)) + c = i + d /\ ~(i =< c - d)
        BY <3>2, <1>2, <1>3
      <4>2. t[i] = wire'[i - (c - d)]
        BY <2>1, <2>2, <1>6, <4>1
      <4>3. QED
        BY <4>1, <4>2, <1>4
    <3>3. QED
      BY <3>1, <3>2
  <2>4. Len(t) = L - d /\ d \in 0 .. L
    BY <1>2, <1>3, <2>1, <2>2
  <2>5. QED
    BY <1>6, <2>3, <2>4 DEF Dropped
<1> HIDE DEF s
(* No brace in the buffer.                                                 *)
<1>7. CASE (\A i \in 1 .. Len(b) : ~Opens(b[i])) /\ Trimmed(b) = <<>>
  <2>1. rx' = <<>> /\ UNCHANGED <<ready, msg>>
    <3>1. Extract(<<>>) /\ <<>> \in Seq(S) /\ Len(<<>>) = 0
      BY <1>1, <1>7, EmptySeq DEF b
    <3>2. ~\E i \in 1 .. Len(<<>>) : TRUE
      BY <3>1
    <3>3. \/ rx' = <<>> /\ UNCHANGED <<ready, msg>>
          \/ \E i \in 1 .. Len(<<>>) : TRUE
      BY <3>1, ExtractIs
    <3>4. QED
      BY <3>2, <3>3
  <2>2. <<>> \in Seq(S) /\ Len(<<>>) = c - c /\ \A i \in 1 .. c - c : FALSE
    BY <1>5
  <2>3. Dropped(s, rx' \o wire', c)
    <3>1. c \in 0 .. c /\ Len(<<>>) = c - c
      BY <1>5, <2>2
    <3>2. \A i \in 1 .. c - c : <<>>[i] = s[i + c]
      BY <2>2
    <3> HIDE DEF c
    <3>3. QED
      BY <1>6, <2>1, <2>2, <3>1, <3>2
  <2>4. \A i \in 1 .. c : ~Opens(s[i])
    BY <1>5, <1>7
  <2>5. QED
    BY <1>4, <1>5, <2>1, <2>2, <2>3, <2>4 DEF Drains, NothingRead, s
<1>8. ASSUME NEW i \in 1 .. Len(b), Opens(b[i]), \A j \in 1 .. i - 1 : ~Opens(b[j]),
             Trimmed(b) = SubSeq(b, i, Len(b))
      PROVE  rx' \in Seq(S) /\ Drains(s, rx' \o wire')
  <2> DEFINE u == SubSeq(b, i, c)
  <2>1. u \in Seq(S) /\ Len(u) = c - i + 1 /\ \A j \in 1 .. c - i + 1 : u[j] = s[i + j - 1]
    <3>1. \A j \in i .. c : b[j] \in S
      BY <1>5
    <3>2. /\ u \in Seq(S) /\ Len(u) = IF i =< c THEN c - i + 1 ELSE 0
          /\ \A j \in 1 .. c - i + 1 : u[j] = b[i + j - 1]
      BY <1>5, <3>1, SubSeqProperties
    <3>3. \A j \in 1 .. c - i + 1 : i + j - 1 \in 1 .. c
      BY <1>5
    <3>4. QED
      BY <1>5, <3>2, <3>3
  <2> HIDE DEF u
  <2>2. Extract(u)
    BY <1>1, <1>5, <1>8 DEF u, b
  <2>3. Opens(s[i]) /\ \A j \in 1 .. i - 1 : ~Opens(s[j])
    BY <1>5, <1>8
  <2>4. CASE rx' = u /\ UNCHANGED <<ready, msg>>
    <3>1. i - 1 \in 0 .. c /\ Len(u) = c - (i - 1)
            /\ \A j \in 1 .. c - (i - 1) : u[j] = s[j + (i - 1)]
      <4>1. c - (i - 1) = c - i + 1 /\ \A j \in Nat : j + (i - 1) = i + j - 1
        BY <1>5
      <4>2. QED
        BY <2>1, <1>5, <4>1
    <3>2. Dropped(s, rx' \o wire', i - 1)
      BY <1>6, <2>1, <2>4, <3>1
    <3>3. i - 1 \in 0 .. L
      BY <1>5
    <3>4. QED
      BY <2>1, <2>3, <2>4, <3>2, <3>3 DEF Drains, NothingRead, s
  <2>5. ASSUME NEW n \in 1 .. Len(u), IsNewline(u[n]), \A j \in 1 .. n - 1 : ~IsNewline(u[j]),
               rx' = SubSeq(u, n + 1, Len(u)), msg' = u[1][1], ready' = TRUE
        PROVE  rx' \in Seq(S) /\ Drains(s, rx' \o wire')
    <3> DEFINE d == i + n - 1
    <3>0. d \in i .. c /\ d \in 0 .. c /\ d \in 0 .. L /\ i \in 1 .. d
      BY <1>5, <2>1
    <3>1. /\ rx' \in Seq(S) /\ Len(rx') = c - d /\ \A j \in 1 .. c - d : rx'[j] = s[j + d]
      <4>1. \A j \in n + 1 .. Len(u) : u[j] \in S
        BY <2>1
      <4>2. /\ rx' \in Seq(S) /\ Len(rx') = IF n + 1 =< Len(u) THEN Len(u) - (n + 1) + 1 ELSE 0
            /\ \A j \in 1 .. Len(u) - (n + 1) + 1 : rx'[j] = u[n + 1 + j - 1]
        <5>1. n + 1 \in Int /\ Len(u) \in Int
          BY <2>1
        <5> DEFINE v == SubSeq(u, n + 1, Len(u))
        <5>2. /\ v \in Seq(S) /\ Len(v) = IF n + 1 =< Len(u) THEN Len(u) - (n + 1) + 1 ELSE 0
              /\ \A j \in 1 .. Len(u) - (n + 1) + 1 : v[j] = u[n + 1 + j - 1]
          BY <4>1, <5>1, SubSeqProperties
        <5>3. rx' = v
          BY <2>5
        <5> HIDE DEF v
        <5> QED
          BY <5>2, <5>3
      <4>3. Len(u) - (n + 1) + 1 = c - d /\ Len(rx') = c - d
        BY <2>1, <1>5, <4>2
      <4>4. ASSUME NEW j \in 1 .. c - d PROVE rx'[j] = s[j + d]
        <5>1. rx'[j] = u[n + 1 + j - 1]
          BY <4>2, <4>3
        <5>2. n + 1 + j - 1 \in 1 .. c - i + 1 /\ i + (n + 1 + j - 1) - 1 = j + d
          BY <1>5, <3>0
        <5>3. QED
          BY <5>1, <5>2, <2>1
      <4>5. QED
        BY <4>2, <4>3, <4>4
    <3>2. Dropped(s, rx' \o wire', d)
      BY <1>6, <3>0, <3>1
    <3>3. IsNewline(s[d]) /\ msg' = s[i][1]
      <4>1. n \in 1 .. c - i + 1 /\ 1 \in 1 .. c - i + 1 /\ i + 1 - 1 = i
        BY <1>5, <2>1
      <4>2. u[n] = s[d] /\ u[1] = s[i]
        BY <4>1, <2>1
      <4>3. QED
        BY <4>2, <2>5
    <3>4. ASSUME NEW j \in i .. d - 1 PROVE ~IsNewline(s[j])
      <4>1. j - i + 1 \in 1 .. n - 1 /\ j - i + 1 \in 1 .. c - i + 1 /\ i + (j - i + 1) - 1 = j
        BY <1>5, <2>1, <3>0
      <4>2. u[j - i + 1] = s[j] /\ ~IsNewline(u[j - i + 1])
        BY <4>1, <2>1, <2>5
      <4>3. QED
        BY <4>2
    <3> HIDE DEF d
    <3>5. MessageRead(s, d)
      BY <2>3, <2>5, <3>0, <3>3, <3>4 DEF MessageRead, FirstMessage
    <3>6. QED
      BY <3>0, <3>1, <3>2, <3>5 DEF Drains, s
  <2>6. QED
    BY <2>1, <2>2, <2>4, <2>5, ExtractIs
<1>9. QED
  BY <1>4, <1>5, <1>7, <1>8, TrimmedIs DEF s

(* A byte is a message and a place in it.                                  *)
LEMMA ByteParts ==
  ASSUME log \in Seq(Line), NEW s, Flows(log, s)
  PROVE  /\ Len(log) \in Nat /\ Len(s) \in Nat /\ DOMAIN s = 1 .. Len(s)
         /\ \A n \in 1 .. Len(log) : log[n] \in Line /\ Size[log[n]] \in Nat \ {0}
         /\ \A i \in 1 .. Len(s) : /\ s[i] \in BytesIn(log)
                                   /\ s[i] = <<s[i][1], s[i][2]>>
                                   /\ s[i][1] \in 1 .. Len(log)
                                   /\ s[i][2] \in 1 .. Size[log[s[i][1]]]
<1>1. Len(log) \in Nat /\ Len(s) \in Nat /\ DOMAIN s = 1 .. Len(s)
  BY DEF Flows
<1>2. \A n \in 1 .. Len(log) : log[n] \in Line /\ Size[log[n]] \in Nat \ {0}
  BY LineAssumption
<1>3. ASSUME NEW i \in 1 .. Len(s)
      PROVE  /\ s[i] \in BytesIn(log)
             /\ s[i] = <<s[i][1], s[i][2]>>
             /\ s[i][1] \in 1 .. Len(log)
             /\ s[i][2] \in 1 .. Size[log[s[i][1]]]
  <2>1. s[i] \in BytesIn(log)
    BY <1>1 DEF Flows
  <2>2. QED
    BY <2>1 DEF BytesIn
<1>4. QED
  BY <1>1, <1>2, <1>3

(* A byte after the d-th is in what is left when d are dropped.            *)
LEMMA StillThere ==
  ASSUME NEW S, NEW s \in Seq(S), NEW t \in Seq(S), NEW d, Dropped(s, t, d),
         NEW i \in 1 .. Len(s), d < i
  PROVE  i - d \in DOMAIN t /\ t[i - d] = s[i]
<1>1. d \in 0 .. Len(s) /\ Len(s) \in Nat /\ DOMAIN t = 1 .. Len(t) /\ Len(t) = Len(s) - d
  BY DEF Dropped
<1>2. PICK j \in 1 .. Len(s) - d : j = i - d
  BY <1>1
<1>3. t[j] = s[j + d] /\ j + d = i
  BY <1>1, <1>2 DEF Dropped
<1>4. QED
  BY <1>1, <1>2, <1>3

LEMMA WasThere ==
  ASSUME NEW S, NEW s \in Seq(S), NEW t \in Seq(S), NEW d, Dropped(s, t, d), NEW x \in DOMAIN t
  PROVE  x + d \in 1 .. Len(s) /\ d < x + d /\ t[x] = s[x + d]
<1>1. d \in 0 .. Len(s) /\ Len(s) \in Nat /\ DOMAIN t = 1 .. Len(t) /\ Len(t) = Len(s) - d
  BY DEF Dropped
<1>2. x \in 1 .. Len(s) - d
  BY <1>1
<1>3. QED
  BY <1>1, <1>2 DEF Dropped

(* Nothing but junk is dropped when no brace has come.                     *)
LEMMA NothingLost ==
  ASSUME log \in Seq(Line), NEW s, Flows(log, s), NEW p \in 0 .. Len(log), Unread(log, s, p),
         s \in Seq(Nat \X Nat), NEW t \in Seq(Nat \X Nat), NEW d, Dropped(s, t, d),
         \A i \in 1 .. d : ~Opens(s[i])
  PROVE  Unread(log, t, p)
<1>1. ASSUME NEW x \in DOMAIN t PROVE t[x][1] > p
  <2>1. x + d \in DOMAIN s /\ t[x] = s[x + d]
    BY WasThere, ByteParts
  <2>2. QED
    BY <2>1 DEF Unread
<1>2. ASSUME NEW n \in p + 1 .. Len(log), Kind[log[n]] # "junk"
      PROVE  \E x \in DOMAIN t : t[x] = <<n, 1>>
  <2>1. PICK i \in 1 .. Len(s) : s[i] = <<n, 1>>
    BY <1>2, ByteParts DEF Unread
  <2>2. Opens(s[i])
    BY <1>2, <2>1 DEF Opens
  <2>3. d < i
    <3>1. d \in Nat /\ i \in Nat /\ ~(i \in 1 .. d)
      BY <2>2, ByteParts DEF Dropped
    <3>2. QED
      BY <3>1
  <2>4. i - d \in DOMAIN t /\ t[i - d] = s[i]
    BY <2>3, StillThere
  <2>5. QED
    BY <2>1, <2>4
<1>3. QED
  BY <1>1, <1>2 DEF Unread

(* The first brace begins the first message that is not junk, and the      *)
(* newline found after it is that message's own.                           *)
LEMMA OneIsRead ==
  ASSUME log \in Seq(Line), NEW s, Flows(log, s), NEW p \in 0 .. Len(log), Unread(log, s, p),
         s \in Seq(Nat \X Nat), NEW t \in Seq(Nat \X Nat), NEW d, Dropped(s, t, d),
         NEW i \in 1 .. d, FirstMessage(s, i, d)
  PROVE  /\ s[i][1] \in p + 1 .. Len(log) /\ Kind[log[s[i][1]]] # "junk"
         /\ \A m \in p + 1 .. s[i][1] - 1 : Kind[log[m]] = "junk"
         /\ Unread(log, t, s[i][1])
<1> USE DEF FirstMessage
<1> DEFINE n == s[i][1]
<1>0. Len(s) \in Nat /\ Len(log) \in Nat /\ d \in 1 .. Len(s) /\ i \in 1 .. Len(s) /\ DOMAIN s = 1 .. Len(s)
  BY ByteParts DEF Dropped
<1>1. n \in 1 .. Len(log) /\ s[i] = <<n, 1>> /\ Kind[log[n]] # "junk" /\ n > p
  <2>1. n \in 1 .. Len(log) /\ s[i] = <<n, s[i][2]>>
    BY <1>0, ByteParts
  <2>2. n > p
    BY <1>0 DEF Unread
  <2>3. s[i][2] = 1 /\ Kind[log[n]] # "junk"
    BY DEF Opens
  <2>4. QED
    BY <2>1, <2>2, <2>3
<1> DEFINE z == Size[log[n]]
<1>2. z \in Nat \ {0} /\ log[n] \in Line
  BY <1>1, ByteParts
<1> HIDE DEF n, z
<1>3. \A a, b \in 1 .. Len(s) : a < b => Earlier(s[a], s[b])
  BY <1>0 DEF Flows
(* What is before it.                                                      *)
<1>4. ASSUME NEW m \in p + 1 .. n - 1, Kind[log[m]] # "junk" PROVE FALSE
  <2>1. m \in p + 1 .. Len(log) /\ m < n /\ m \in Nat
    BY <1>0, <1>1
  <2>2. PICK j \in 1 .. Len(s) : s[j] = <<m, 1>>
    BY <1>0, <1>4, <2>1 DEF Unread
  <2>3. Opens(s[j])
    BY <1>4, <2>2 DEF Opens
  <2>4. ~(j < i)
    BY <2>3, <1>0
  <2>5. i # j
    BY <1>1, <2>1, <2>2
  <2>6. Earlier(s[i], s[j])
    BY <1>0, <1>3, <2>4, <2>5
  <2>7. QED
    BY <1>1, <2>1, <2>2, <2>6 DEF Earlier
(* The newline found is its own.                                           *)
<1>5. s[d] = <<n, z>>
  <2> DEFINE e == s[d][1]
  <2>1. e \in 1 .. Len(log) /\ s[d] = <<e, Size[log[e]]>>
    BY <1>0, ByteParts DEF IsNewline
  <2> HIDE DEF e
  <2>2. e >= n
    <3>1. CASE i = d
      BY <3>1, <1>1, <2>1 DEF n, e
    <3>2. CASE i # d
      <4>1. Earlier(s[i], s[d])
        BY <1>0, <1>3, <3>2
      <4>2. QED
        BY <1>1, <2>1, <4>1 DEF Earlier
    <3>3. QED
      BY <3>1, <3>2
  <2>3. ASSUME e > n PROVE FALSE
    <3>1. PICK j \in 1 .. Len(s) : s[j] = <<n, z>>
      <4>1. <<n, z>> \in BytesIn(log)
        BY <1>1, <1>2 DEF BytesIn, z
      <4>2. CASE z = 1
        BY <4>2, <1>0, <1>1
      <4>3. CASE z # 1
        <5>1. Earlier(s[i], <<n, z>>)
          <6>1. 1 < z
            BY <1>2, <4>3
          <6>2. QED
            BY <1>1, <6>1 DEF Earlier
        <5>2. QED
          BY <1>0, <4>1, <5>1 DEF Flows
      <4>4. QED
        BY <4>2, <4>3
    <3>2. ~(j < i)
      <4>1. j < i => Earlier(s[j], s[i])
        BY <1>0, <1>3
      <4>2. ~Earlier(<<n, z>>, <<n, 1>>)
        BY <1>1, <1>2 DEF Earlier
      <4>3. QED
        BY <1>1, <3>1, <4>1, <4>2
    <3>3. ~(d < j) /\ j # d
      <4>1. d < j => Earlier(s[d], s[j])
        BY <1>0, <1>3
      <4>2. ~Earlier(<<e, Size[log[e]]>>, <<n, z>>)
        BY <1>1, <2>1, <2>3 DEF Earlier
      <4>3. e # n
        BY <1>1, <2>1, <2>3
      <4>4. ~Earlier(s[d], s[j]) /\ s[d][1] # s[j][1]
        BY <2>1, <3>1, <4>2, <4>3
      <4>5. QED
        BY <4>1, <4>4
    <3>4. j \in i .. d - 1
      BY <1>0, <3>2, <3>3
    <3>5. IsNewline(s[j])
      BY <3>1 DEF IsNewline, z
    <3>6. QED
      BY <3>4, <3>5
  <2>4. e = n
    BY <1>1, <2>1, <2>2, <2>3
  <2>5. QED
    BY <2>1, <2>4 DEF z
(* What is left after it.                                                  *)
<1>6. ASSUME NEW x \in DOMAIN t PROVE t[x][1] > n
  <2>1. x + d \in 1 .. Len(s) /\ d < x + d /\ t[x] = s[x + d]
    BY WasThere, SMTT(30)
  <2>2. Earlier(s[d], s[x + d])
    BY <1>0, <1>3, <2>1
  <2>3. t[x][1] \in 1 .. Len(log) /\ t[x][2] \in 1 .. Size[log[t[x][1]]]
    BY <2>1, ByteParts
  <2>4. CASE n < t[x][1]
    BY <2>4, <2>3, <1>1
  <2>5. CASE n = t[x][1] /\ z < t[x][2]
    BY <2>5, <2>3, <1>2 DEF z
  <2>6. QED
    BY <1>5, <2>1, <2>2, <2>4, <2>5 DEF Earlier
<1>7. ASSUME NEW m \in n + 1 .. Len(log), Kind[log[m]] # "junk"
      PROVE  \E x \in DOMAIN t : t[x] = <<m, 1>>
  <2>1. m \in p + 1 .. Len(log) /\ n < m /\ m \in Nat
    BY <1>0, <1>1
  <2>2. PICK j \in 1 .. Len(s) : s[j] = <<m, 1>>
    BY <1>0, <1>7, <2>1 DEF Unread
  <2>3. j # d
    BY <1>1, <1>5, <2>1, <2>2
  <2>4. ~(j < d)
    <3>1. j < d => Earlier(s[j], s[d])
      BY <1>0, <1>3
    <3>2. ~Earlier(<<m, 1>>, <<n, z>>)
      BY <1>1, <2>1 DEF Earlier
    <3>3. QED
      BY <1>5, <2>2, <3>1, <3>2
  <2>5. d < j
    BY <1>0, <2>3, <2>4
  <2>6. QED
    BY <2>2, <2>5, StillThere
<1>8. Unread(log, t, n)
  BY <1>6, <1>7 DEF Unread
<1>9. n \in p + 1 .. Len(log)
  BY <1>0, <1>1
<1>10. QED
  BY <1>1, <1>4, <1>8, <1>9 DEF n

-----------------------------------------------------------------------------
(* A message that is sent.                                                 *)
LEMMA SentBytes ==
  ASSUME NEW n \in Nat, NEW m \in Line
  PROVE  /\ BytesOf(n, m) \in Seq(Nat \X Nat) /\ Len(BytesOf(n, m)) = Size[m]
         /\ Size[m] \in Nat \ {0} /\ \A k \in 1 .. Size[m] : BytesOf(n, m)[k] = <<n, k>>
<1>1. Size[m] \in Nat \ {0}
  BY LineAssumption
<1>2. BytesOf(n, m) \in [1 .. Size[m] -> Nat \X Nat]
  BY <1>1 DEF BytesOf
<1>3. BytesOf(n, m) \in UNION {[1 .. k -> Nat \X Nat] : k \in Nat}
  BY <1>1, <1>2
<1>4. BytesOf(n, m) \in Seq(Nat \X Nat)
  BY <1>3, SeqDef
<1>5. \A k \in 1 .. Size[m] : BytesOf(n, m)[k] = <<n, k>>
  BY DEF BytesOf
<1>6. Len(BytesOf(n, m)) = Size[m]
  <2>1. DOMAIN BytesOf(n, m) = 1 .. Size[m]
    BY DEF BytesOf
  <2>2. Len(BytesOf(n, m)) \in Nat /\ DOMAIN BytesOf(n, m) = 1 .. Len(BytesOf(n, m))
    BY <1>4, LenProperties
  <2> HIDE DEF BytesOf
  <2>3. \A x, y \in Nat : 1 .. x = 1 .. y => x = y
    <3>1. ASSUME NEW x \in Nat, NEW y \in Nat, 1 .. x = 1 .. y, x < y PROVE FALSE
      <4>1. y \in 1 .. y /\ ~(y \in 1 .. x)
        BY <3>1
      <4>2. QED
        BY <3>1, <4>1
    <3>2. ASSUME NEW x \in Nat, NEW y \in Nat, 1 .. x = 1 .. y, y < x PROVE FALSE
      <4>1. x \in 1 .. x /\ ~(x \in 1 .. y)
        BY <3>2
      <4>2. QED
        BY <3>2, <4>1
    <3>3. \A x, y \in Nat : x = y \/ x < y \/ y < x
      OBVIOUS
    <3>4. QED
      BY <3>1, <3>2, <3>3
  <2>4. QED
    BY <1>1, <2>1, <2>2, <2>3
<1>7. QED
  BY <1>1, <1>4, <1>5, <1>6

(* A stream with the bytes of one more message is a stream.                *)
LEMMA SentFlows ==
  ASSUME NEW l \in Seq(Line), NEW m \in Line, NEW s \in Seq(Nat \X Nat), Flows(l, s),
         NEW p \in 0 .. Len(l), Unread(l, s, p)
  PROVE  /\ Flows(Append(l, m), s \o BytesOf(Len(l) + 1, m))
         /\ Unread(Append(l, m), s \o BytesOf(Len(l) + 1, m), p)
<1> DEFINE N == Len(l) + 1
           B == BytesOf(N, m)
           k == Append(l, m)
           u == s \o B
           C == Len(s)
           z == Size[m]
<1>1. N \in Nat \ {0} /\ Len(l) = N - 1 /\ C \in Nat /\ DOMAIN s = 1 .. C
  OBVIOUS
<1>2. /\ B \in Seq(Nat \X Nat) /\ Len(B) = z /\ z \in Nat \ {0}
      /\ \A i \in 1 .. z : B[i] = <<N, i>>
  BY <1>1, SentBytes
<1>3. Len(k) = N /\ (\A i \in 1 .. N - 1 : k[i] = l[i]) /\ k[N] = m
  BY AppendProperties
<1> HIDE DEF N, B, k, C, z
<1>4. /\ u \in Seq(Nat \X Nat) /\ Len(u) = C + z
      /\ \A i \in 1 .. C + z : u[i] = IF i =< C THEN s[i] ELSE B[i - C]
  BY <1>1, <1>2, ConcatProperties DEF C
<1>5. DOMAIN u = 1 .. C + z
  BY <1>4
<1> HIDE DEF u
<1>6. ASSUME NEW i \in 1 .. C
      PROVE  i \in 1 .. C + z /\ u[i] = s[i] /\ s[i][1] \in 1 .. N - 1 /\ s[i] \in BytesIn(l)
  <2>1. i \in 1 .. C + z /\ i =< C
    BY <1>1, <1>2
  <2>2. s[i] \in BytesIn(l)
    BY <1>1 DEF Flows
  <2>3. QED
    BY <1>1, <1>4, <2>1, <2>2 DEF BytesIn
<1>7. ASSUME NEW i \in 1 .. C + z, ~(i =< C)
      PROVE  i - C \in 1 .. z /\ u[i] = <<N, i - C>>
  <2>1. i - C \in 1 .. z
    BY <1>1, <1>2, <1>7
  <2>2. QED
    BY <1>2, <1>4, <1>7, <2>1
<1>8. BytesIn(l) \subseteq BytesIn(k)
  BY <1>1, <1>3 DEF BytesIn
<1>9. \A i \in 1 .. z : <<N, i>> \in BytesIn(k)
  BY <1>1, <1>2, <1>3 DEF BytesIn, z
<1>10. ASSUME NEW b \in BytesIn(k) PROVE b \in BytesIn(l) \/ \E i \in 1 .. z : b = <<N, i>>
  <2>1. b \in Nat \X Nat /\ b[1] \in 1 .. N /\ b[2] \in 1 .. Size[k[b[1]]]
    BY <1>3 DEF BytesIn
  <2>2. CASE b[1] = N
    BY <2>1, <2>2, <1>3 DEF z
  <2>3. CASE b[1] # N
    <3>1. b[1] \in 1 .. N - 1
      BY <1>1, <2>1, <2>3
    <3>2. QED
      BY <1>1, <1>3, <2>1, <3>1 DEF BytesIn
  <2>4. QED
    BY <2>2, <2>3
<1>11. u \in Seq(BytesIn(k))
  <2>1. ASSUME NEW i \in 1 .. C + z PROVE u[i] \in BytesIn(k)
    <3>1. CASE i =< C
      <4>1. i \in 1 .. C
        BY <1>1, <1>2, <3>1
      <4>2. QED
        BY <4>1, <1>6, <1>8
    <3>2. CASE ~(i =< C)
      BY <3>2, <1>7, <1>9
    <3>3. QED
      BY <3>1, <3>2
  <2>2. u \in [1 .. C + z -> BytesIn(k)] /\ C + z \in Nat
    BY <1>1, <1>2, <1>4, <2>1, LenProperties
  <2>3. u \in UNION {[1 .. x -> BytesIn(k)] : x \in Nat}
    BY <2>2
  <2>4. QED
    BY <2>3, SeqDef
<1>12. ASSUME NEW i \in 1 .. C + z, NEW j \in 1 .. C + z, i < j PROVE Earlier(u[i], u[j])
  <2>1. CASE j =< C
    <3>1. i \in 1 .. C /\ j \in 1 .. C
      BY <1>1, <1>2, <1>12, <2>1
    <3>2. Earlier(s[i], s[j])
      BY <1>1, <1>12, <3>1 DEF Flows
    <3>3. QED
      BY <1>6, <3>1, <3>2
  <2>2. CASE i =< C /\ ~(j =< C)
    <3>1. i \in 1 .. C
      BY <1>1, <1>2, <2>2
    <3>2. u[i][1] \in 1 .. N - 1 /\ u[j] = <<N, j - C>>
      BY <1>6, <1>7, <2>2, <3>1
    <3>3. QED
      BY <1>1, <3>2 DEF Earlier
  <2>3. CASE ~(i =< C)
    <3>1. ~(j =< C) /\ i - C < j - C
      BY <1>1, <1>2, <1>12, <2>3
    <3>2. u[i] = <<N, i - C>> /\ u[j] = <<N, j - C>>
      BY <1>7, <2>3, <3>1
    <3>3. QED
      BY <3>1, <3>2 DEF Earlier
  <2>4. QED
    BY <2>1, <2>2, <2>3
<1>13. \A i \in 1 .. z : C + i \in 1 .. C + z /\ u[C + i] = <<N, i>>
  <2>1. ASSUME NEW i \in 1 .. z PROVE C + i \in 1 .. C + z /\ u[C + i] = <<N, i>>
    <3>1. PICK x \in 1 .. C + z : x = C + i
      BY <1>1, <1>2
    <3>2. ~(x =< C) /\ x - C = i
      BY <1>1, <1>2, <3>1
    <3>3. u[x] = <<N, i>>
      BY <1>7, <3>2
    <3>4. QED
      BY <3>1, <3>3
  <2>2. QED
    BY <2>1
<1>14. ASSUME NEW i \in 1 .. C + z, NEW b \in BytesIn(k), Earlier(u[i], b)
       PROVE  \E j \in 1 .. C + z : u[j] = b
  <2>1. CASE \E x \in 1 .. z : b = <<N, x>>
    BY <2>1, <1>13
  <2>2. CASE b \in BytesIn(l)
    <3>1. i \in 1 .. C
      <4>1. CASE i =< C
        BY <4>1, <1>1, <1>2
      <4>2. CASE ~(i =< C)
        <5>1. u[i] = <<N, i - C>> /\ b[1] \in 1 .. N - 1
          BY <1>1, <1>7, <2>2, <4>2 DEF BytesIn
        <5>2. ~Earlier(<<N, i - C>>, b)
          BY <1>1, <5>1 DEF Earlier
        <5>3. QED
          BY <1>14, <5>1, <5>2
      <4>3. QED
        BY <4>1, <4>2
    <3>2. Earlier(s[i], b)
      BY <1>6, <1>14, <3>1
    <3>3. PICK j \in 1 .. C : s[j] = b
      BY <1>1, <2>2, <3>1, <3>2 DEF Flows
    <3>4. QED
      BY <1>6, <3>3
  <2>3. QED
    BY <1>10, <2>1, <2>2
<1>15. Flows(k, u)
  BY <1>5, <1>11, <1>12, <1>14 DEF Flows
<1>16. ASSUME NEW i \in 1 .. C + z PROVE u[i][1] > p
  <2>1. CASE i =< C
    <3>1. i \in 1 .. C
      BY <1>1, <1>2, <2>1
    <3>2. QED
      BY <1>1, <1>6, <3>1 DEF Unread
  <2>2. CASE ~(i =< C)
    <3>1. u[i][1] = N /\ N > p
      BY <1>1, <1>7, <2>2
    <3>2. QED
      BY <3>1
  <2>3. QED
    BY <2>1, <2>2
<1>17. ASSUME NEW n \in p + 1 .. N, Kind[k[n]] # "junk"
       PROVE  \E i \in 1 .. C + z : u[i] = <<n, 1>>
  <2>1. CASE n = N
    <3>1. 1 \in 1 .. z
      BY <1>2
    <3>2. C + 1 \in 1 .. C + z /\ u[C + 1] = <<N, 1>>
      BY <1>13, <3>1
    <3>3. QED
      BY <2>1, <3>2
  <2>2. CASE n # N
    <3>1. n \in p + 1 .. Len(l) /\ n \in 1 .. N - 1
      BY <1>1, <2>2
    <3>2. Kind[l[n]] # "junk"
      BY <1>3, <1>17, <3>1
    <3>3. PICK i \in 1 .. C : s[i] = <<n, 1>>
      BY <1>1, <3>1, <3>2 DEF Unread
    <3>4. QED
      BY <1>6, <3>3
  <2>3. QED
    BY <2>1, <2>2
<1>18. Unread(k, u, p)
  BY <1>3, <1>5, <1>16, <1>17 DEF Unread
<1>19. QED
  BY <1>15, <1>18 DEF k, u, B, N

-----------------------------------------------------------------------------
(* Identifiers and answers, of the messages l and the answers r.           *)
OwedIn(l, n) == \/ Kind[l[n]] = "request"
                \/ Kind[l[n]] = "live" /\ Id[l[n]] # NoId

Before(r, i) == IF i = 1 THEN 0 ELSE r[i - 1].to

Answers(l, r, i) ==
  /\ r[i].to \in DOMAIN l /\ Kind[l[r[i].to]] # "junk"
  /\ Id[l[r[i].to]] # NoId => r[i].id = Id[l[r[i].to]]
  /\ Before(r, i) < r[i].to /\ \A j \in Before(r, i) + 1 .. r[i].to - 1 : ~OwedIn(l, j)

LEMMA AnswersAre == AnswersMatch <=> \A i \in DOMAIN replies : Answers(log, replies, i)
BY DEF AnswersMatch, Answers, Before, OwedIn, Owed

(* What was asked for and answered stays so when a message is sent.        *)
LEMMA AnswersStay ==
  ASSUME NEW l \in Seq(Line), NEW m \in Line
  PROVE  /\ \A n \in 1 .. Len(l) : OwedIn(Append(l, m), n) <=> OwedIn(l, n)
         /\ \A r, i : Before(r, i) \in Nat /\ Answers(l, r, i) => Answers(Append(l, m), r, i)
<1> DEFINE k == Append(l, m)
<1>1. Len(l) \in Nat /\ Len(k) = Len(l) + 1 /\ DOMAIN l = 1 .. Len(l) /\ DOMAIN k = 1 .. Len(k)
        /\ \A n \in 1 .. Len(l) : k[n] = l[n]
  BY AppendProperties
<1> HIDE DEF k
<1>3. ASSUME NEW n \in 1 .. Len(l) PROVE OwedIn(k, n) <=> OwedIn(l, n)
  BY <1>1 DEF OwedIn
<1>4. ASSUME NEW r, NEW i, Before(r, i) \in Nat, Answers(l, r, i) PROVE Answers(k, r, i)
  <2> DEFINE n == r[i].to
             b == Before(r, i)
  <2>1. /\ n \in 1 .. Len(l) /\ Kind[l[n]] # "junk" /\ (Id[l[n]] # NoId => r[i].id = Id[l[n]])
        /\ b < n /\ \A j \in b + 1 .. n - 1 : ~OwedIn(l, j)
    BY <1>1, <1>4 DEF Answers
  <2>2. b \in Nat
    BY <1>4
  <2> HIDE DEF n, b
  <2>3. k[n] = l[n] /\ n \in DOMAIN k
    BY <1>1, <2>1
  <2>4. ASSUME NEW j \in b + 1 .. n - 1 PROVE ~OwedIn(k, j)
    <3>1. j \in 1 .. Len(l)
      BY <2>1, <2>2, <1>1
    <3>2. QED
      BY <1>3, <2>1, <3>1
  <2>5. QED
    BY <2>1, <2>3, <2>4 DEF Answers, n, b
<1>5. QED
  BY <1>3, <1>4 DEF k

-----------------------------------------------------------------------------
(* How far things are: the messages up to the h-th are dealt with, and the *)
(* next one that is not junk is in the buffer if one is.                   *)
LastAnswered == IF Len(replies) = 0 THEN 0 ELSE replies[Len(replies)].to

Sofar(h, p) ==
  /\ h \in 0 .. Len(log) /\ p \in h .. Len(log)
  /\ IF ready THEN /\ msg = p /\ h < p /\ Kind[log[p]] # "junk"
                   /\ \A n \in h + 1 .. p - 1 : Kind[log[n]] = "junk"
              ELSE p = h

DealtWith(h) ==
  /\ LastAnswered \in 0 .. h /\ \A n \in LastAnswered + 1 .. h : ~OwedIn(log, n)

ReplyType == [to : Nat, id : {NoId} \cup {Id[m] : m \in Line}]

LinesTypeOK ==
  /\ log \in Seq(Line)
  /\ rx \in Seq(Nat \X Nat) /\ wire \in Seq(Nat \X Nat)
  /\ ready \in BOOLEAN
  /\ replies \in Seq(ReplyType)
  /\ requestId \in {NoId} \cup {Id[m] : m \in Line}

LinesInv ==
  /\ LinesTypeOK
  /\ Flows(log, rx \o wire)
  /\ \E h, p \in Nat : Sofar(h, p) /\ DealtWith(h) /\ Unread(log, rx \o wire, p)
  /\ \A i \in DOMAIN replies : Answers(log, replies, i)

(* Each reply names a message.                                             *)
LEMMA RepliesAre ==
  ASSUME LinesTypeOK
  PROVE  /\ Len(replies) \in Nat /\ DOMAIN replies = 1 .. Len(replies)
         /\ \A i \in 1 .. Len(replies) : replies[i].to \in Nat /\ Before(replies, i) \in Nat
<1>1. Len(replies) \in Nat /\ DOMAIN replies = 1 .. Len(replies)
  BY LenProperties DEF LinesTypeOK
<1>2. \A i \in 1 .. Len(replies) : replies[i] \in ReplyType
  BY ElementOfSeq DEF LinesTypeOK
<1>3. \A i \in 1 .. Len(replies) : replies[i].to \in Nat
  BY <1>2 DEF ReplyType
<1>4. \A i \in 1 .. Len(replies) : i # 1 => i - 1 \in 1 .. Len(replies)
  BY <1>1
<1>5. QED
  BY <1>1, <1>3, <1>4 DEF Before

LEMMA LinesStart == LinesInit => LinesInv
<1> SUFFICES ASSUME LinesInit PROVE LinesInv
  OBVIOUS
<1>1. log = <<>> /\ wire = <<>> /\ rx = <<>> /\ ready = FALSE /\ requestId = NoId /\ replies = <<>>
  BY DEF LinesInit
<1>2. LinesTypeOK
  BY <1>1, EmptySeq DEF LinesTypeOK
<1>3. rx \o wire = <<>> /\ Len(log) = 0 /\ Len(replies) = 0
  BY <1>1
<1>4. Flows(log, rx \o wire)
  <2>1. Flows(log, <<>>)
    BY EmptySeq DEF Flows
  <2>2. QED
    BY <1>3, <2>1
<1>5. Unread(log, rx \o wire, 0)
  <2>1. Unread(log, <<>>, 0)
    BY <1>3 DEF Unread
  <2>2. QED
    BY <1>3, <2>1
<1>6. Sofar(0, 0)
  BY <1>1, <1>3 DEF Sofar
<1>7. DealtWith(0)
  BY <1>1, <1>3 DEF DealtWith, LastAnswered
<1>8. \A i \in DOMAIN replies : Answers(log, replies, i)
  BY <1>1
<1>9. QED
  BY <1>2, <1>4, <1>5, <1>6, <1>7, <1>8 DEF LinesInv

(* A message is sent.                                                      *)
LEMMA SendKeepsLines == LinesInv /\ (\E m \in Line : SendLine(m)) => LinesInv'
<1> SUFFICES ASSUME LinesInv, NEW m \in Line, SendLine(m) PROVE LinesInv'
  OBVIOUS
<1>1. /\ log' = Append(log, m) /\ wire' = wire \o BytesOf(Len(log) + 1, m)
      /\ UNCHANGED <<rx, ready, msg, requestId, replies>>
  BY DEF SendLine
<1>2. LinesTypeOK /\ Flows(log, rx \o wire)
  BY DEF LinesInv
<1>3. PICK h, p \in Nat : Sofar(h, p) /\ DealtWith(h) /\ Unread(log, rx \o wire, p)
  BY DEF LinesInv
<1>4. log \in Seq(Line) /\ rx \in Seq(Nat \X Nat) /\ wire \in Seq(Nat \X Nat)
  BY <1>2 DEF LinesTypeOK
<1>5. Len(log) \in Nat /\ Len(log') = Len(log) + 1 /\ \A n \in 1 .. Len(log) : log'[n] = log[n]
  BY <1>1, <1>4, AppendProperties
<1>6. wire' \in Seq(Nat \X Nat) /\ rx' \o wire' = (rx \o wire) \o BytesOf(Len(log) + 1, m)
  <2> DEFINE B == BytesOf(Len(log) + 1, m)
  <2>1. B \in Seq(Nat \X Nat)
    <3>1. Len(log) + 1 \in Nat
      BY <1>5
    <3>2. QED
      BY <3>1, SentBytes
  <2> HIDE DEF B
  <2>2. wire \o B \in Seq(Nat \X Nat)
    BY <1>4, <2>1, ConcatProperties
  <2>3. rx \o (wire \o B) = (rx \o wire) \o B
    BY <1>4, <2>1, ConcatAssociative
  <2>4. QED
    BY <1>1, <2>2, <2>3 DEF B
<1>7. Flows(log', rx' \o wire') /\ Unread(log', rx' \o wire', p)
  <2>1. rx \o wire \in Seq(Nat \X Nat)
    BY <1>4, ConcatProperties
  <2>2. p \in 0 .. Len(log)
    BY <1>3, <1>5 DEF Sofar
  <2>3. QED
    BY <1>1, <1>2, <1>3, <1>4, <1>6, <2>1, <2>2, SentFlows
<1>8. LinesTypeOK'
  <2>1. log' \in Seq(Line)
    BY <1>1, <1>4, AppendProperties
  <2>2. QED
    BY <1>1, <1>2, <1>6, <2>1 DEF LinesTypeOK
<1>9. Sofar(h, p)'
  <2>1. h \in 0 .. Len(log') /\ p \in h .. Len(log')
    BY <1>3, <1>5 DEF Sofar
  <2>2. CASE ready
    <3>1. msg = p /\ h < p /\ p \in 1 .. Len(log) /\ Kind[log[p]] # "junk"
      BY <1>3, <1>5, <2>2 DEF Sofar
    <3>2. \A n \in h + 1 .. p - 1 : Kind[log'[n]] = "junk"
      <4>1. \A n \in h + 1 .. p - 1 : n \in 1 .. Len(log) /\ Kind[log[n]] = "junk"
        BY <1>3, <1>5, <2>2, <3>1 DEF Sofar
      <4>2. QED
        BY <1>5, <4>1
    <3>3. Kind[log'[p]] # "junk"
      BY <1>5, <3>1
    <3>4. QED
      BY <1>1, <2>1, <2>2, <3>1, <3>2, <3>3 DEF Sofar
  <2>3. CASE ~ready
    BY <1>1, <1>3, <2>1, <2>3 DEF Sofar
  <2>4. QED
    BY <2>2, <2>3
<1>10. DealtWith(h)'
  <2>1. h \in Nat /\ h =< Len(log)
    BY <1>3, <1>5 DEF Sofar
  <2>2. LastAnswered' = LastAnswered
    BY <1>1 DEF LastAnswered
  <2>4. \A n \in LastAnswered + 1 .. h : n \in 1 .. Len(log)
    BY <1>3, <1>5, <2>1 DEF DealtWith
  <2>5. \A n \in 1 .. Len(log) : OwedIn(log', n) <=> OwedIn(log, n)
    BY <1>1, <1>4, AnswersStay
  <2>6. QED
    BY <1>1, <1>3, <2>2, <2>4, <2>5 DEF DealtWith
<1>11. \A i \in DOMAIN replies : Answers(log', replies, i)
  <2>1. \A i \in DOMAIN replies : Before(replies, i) \in Nat
    BY <1>2, RepliesAre
  <2>2. QED
    BY <1>1, <1>4, <2>1, AnswersStay DEF LinesInv
<1>12. QED
  BY <1>1, <1>3, <1>7, <1>8, <1>9, <1>10, <1>11 DEF LinesInv

(* A tick reads.                                                           *)
LEMMA ReadingKeepsLines == LinesInv /\ HasIncoming => LinesInv'
<1> SUFFICES ASSUME LinesInv, HasIncoming PROVE LinesInv'
  OBVIOUS
<1>1. ~ready /\ UNCHANGED <<log, requestId, replies>>
  BY DEF HasIncoming
<1>2. LinesTypeOK /\ Flows(log, rx \o wire)
  BY DEF LinesInv
<1>3. PICK h, p \in Nat : Sofar(h, p) /\ DealtWith(h) /\ Unread(log, rx \o wire, p)
  BY DEF LinesInv
<1>4. log \in Seq(Line) /\ rx \in Seq(Nat \X Nat) /\ wire \in Seq(Nat \X Nat) /\ Len(log) \in Nat
  BY <1>2 DEF LinesTypeOK
<1> DEFINE s == rx \o wire
           t == rx' \o wire'
<1>5. rx' \in Seq(Nat \X Nat) /\ wire' \in Seq(Nat \X Nat) /\ Drains(s, t)
  BY <1>4, DrainsBytes
<1>6. s \in Seq(Nat \X Nat) /\ t \in Seq(Nat \X Nat)
  BY <1>4, <1>5, ConcatProperties
<1>7. Flows(log, s) /\ Unread(log, s, p) /\ p = h /\ p \in 0 .. Len(log)
  BY <1>1, <1>2, <1>3, <1>4 DEF Sofar
<1> HIDE DEF s, t
<1>8. PICK d \in 0 .. Len(s) : Dropped(s, t, d) /\ (NothingRead(s, d) \/ MessageRead(s, d))
  BY <1>5 DEF Drains
<1>9. Flows(log, t)
  BY <1>6, <1>7, <1>8, RestFlows
<1>10. DealtWith(h)' /\ \A i \in DOMAIN replies' : Answers(log', replies', i)
  <2>1. DealtWith(h)'
    BY <1>1, <1>3 DEF DealtWith, LastAnswered
  <2>2. QED
    BY <1>1, <2>1 DEF LinesInv
<1>11. CASE NothingRead(s, d)
  <2>1. Unread(log, t, p)
    BY <1>4, <1>6, <1>7, <1>8, <1>11, NothingLost DEF NothingRead
  <2>2. Sofar(h, p)'
    BY <1>1, <1>3, <1>11 DEF Sofar, NothingRead
  <2>3. LinesTypeOK'
    BY <1>1, <1>2, <1>5, <1>11 DEF LinesTypeOK, NothingRead
  <2>4. QED
    BY <1>1, <1>9, <1>10, <2>1, <2>2, <2>3 DEF LinesInv, t
<1>12. CASE MessageRead(s, d)
  <2>1. PICK i \in 1 .. d : FirstMessage(s, i, d) /\ msg' = s[i][1] /\ ready' = TRUE
    BY <1>12 DEF MessageRead
  <2>2. /\ s[i][1] \in p + 1 .. Len(log) /\ Kind[log[s[i][1]]] # "junk"
        /\ \A m \in p + 1 .. s[i][1] - 1 : Kind[log[m]] = "junk"
        /\ Unread(log, t, s[i][1])
    BY <1>4, <1>6, <1>7, <1>8, <2>1, OneIsRead
  <2>3. PICK n \in p + 1 .. Len(log) : n = s[i][1]
    BY <2>2
  <2>4. h < n /\ n \in h .. Len(log) /\ h \in 0 .. Len(log) /\ n \in Nat
    BY <1>4, <1>7
  <2>5. Sofar(h, n)'
    <3>1. \A m \in h + 1 .. n - 1 : Kind[log[m]] = "junk"
      BY <1>7, <2>2, <2>3
    <3>2. QED
      BY <1>1, <2>1, <2>2, <2>3, <2>4, <3>1 DEF Sofar
  <2>6. LinesTypeOK'
    BY <1>1, <1>2, <1>5, <2>1 DEF LinesTypeOK
  <2>7. Sofar(h, n)' /\ DealtWith(h)' /\ Unread(log', rx' \o wire', n)
    BY <1>1, <1>10, <2>2, <2>3, <2>5 DEF t
  <2>8. QED
    BY <1>1, <1>9, <1>10, <2>4, <2>6, <2>7 DEF LinesInv, t
<1>13. QED
  BY <1>8, <1>11, <1>12

(* A message is answered.                                                  *)
LEMMA AnsweringKeepsLines == LinesInv /\ ReadCommand => LinesInv'
<1> SUFFICES ASSUME LinesInv, ReadCommand PROVE LinesInv'
  OBVIOUS
<1>1. LinesTypeOK /\ Flows(log, rx \o wire) /\ log \in Seq(Line) /\ Len(log) \in Nat
  BY DEF LinesInv, LinesTypeOK
<1>2. PICK h, p \in Nat : Sofar(h, p) /\ DealtWith(h) /\ Unread(log, rx \o wire, p)
  BY DEF LinesInv
<1>3. ready /\ ready' = FALSE /\ UNCHANGED <<log, wire, rx, msg>>
  BY DEF ReadCommand
<1>4. /\ h < p /\ p =< Len(log) /\ p \in 1 .. Len(log) /\ msg = p /\ Kind[log[p]] # "junk"
      /\ \A n \in h + 1 .. p - 1 : Kind[log[n]] = "junk"
  BY <1>1, <1>2, <1>3 DEF Sofar
<1>5. log[p] \in Line
  BY <1>1, <1>4
<1> DEFINE id == IdAfter(log[p])
           silent == Kind[log[p]] = "live" /\ id = NoId
<1>6. id \in {NoId} \cup {Id[m] : m \in Line} /\ (Id[log[p]] # NoId => id = Id[log[p]])
  BY <1>1, <1>5 DEF IdAfter, LinesTypeOK
<1>7. requestId' = id /\ replies' = IF silent THEN replies ELSE Append(replies, [to |-> p, id |-> id])
  BY <1>4 DEF ReadCommand, Reply
<1> HIDE DEF id
<1>8. requestId' \in {NoId} \cup {Id[m] : m \in Line}
  BY <1>6, <1>7
<1>9. silent => ~OwedIn(log, p)
  BY <1>6 DEF OwedIn
<1> HIDE DEF silent
<1>10. \A n \in h + 1 .. p - 1 : ~OwedIn(log, n)
  BY <1>4 DEF OwedIn
<1>11. Sofar(p, p)'
  BY <1>1, <1>3, <1>4 DEF Sofar
<1>12. LastAnswered \in 0 .. h /\ \A n \in LastAnswered + 1 .. p - 1 : ~OwedIn(log, n)
  <2>1. LastAnswered \in 0 .. h /\ \A n \in LastAnswered + 1 .. h : ~OwedIn(log, n)
    BY <1>2 DEF DealtWith
  <2>2. \A n \in LastAnswered + 1 .. p - 1 : n \in LastAnswered + 1 .. h \/ n \in h + 1 .. p - 1
    BY <2>1
  <2>3. QED
    BY <1>10, <2>1, <2>2
<1>13. CASE silent
  <2>1. replies' = replies
    BY <1>7, <1>13
  <2>2. LinesTypeOK'
    BY <1>1, <1>3, <1>8, <2>1 DEF LinesTypeOK
  <2>3. DealtWith(p)'
    <3>1. LastAnswered' = LastAnswered
      BY <2>1 DEF LastAnswered
    <3>2. \A n \in LastAnswered + 1 .. p : ~OwedIn(log, n)
      <4>1. \A n \in LastAnswered + 1 .. p : n = p \/ n \in LastAnswered + 1 .. p - 1
        BY <1>12
      <4>2. QED
        BY <1>9, <1>12, <1>13, <4>1
    <3>3. LastAnswered \in 0 .. p
      BY <1>4, <1>12
    <3>4. QED
      BY <1>3, <3>1, <3>2, <3>3 DEF DealtWith
  <2>4. QED
    BY <1>2, <1>3, <1>11, <2>1, <2>2, <2>3 DEF LinesInv
<1>14. CASE ~silent
  <2> DEFINE a == [to |-> p, id |-> id]
             L == Len(replies)
  <2>1. replies' = Append(replies, a)
    BY <1>7, <1>14
  <2>2. a \in ReplyType /\ a.to = p /\ a.id = id
    BY <1>6 DEF ReplyType
  <2>3. L \in Nat /\ DOMAIN replies = 1 .. L
          /\ \A i \in 1 .. L : replies[i].to \in Nat /\ Before(replies, i) \in Nat
    BY <1>1, RepliesAre
  <2> HIDE DEF a
  <2>4. /\ replies' \in Seq(ReplyType) /\ Len(replies') = L + 1 /\ replies'[L + 1] = a
        /\ \A i \in 1 .. L : replies'[i] = replies[i]
    BY <1>1, <2>1, <2>2, AppendProperties DEF LinesTypeOK
  <2>5. DOMAIN replies' = 1 .. L + 1
    BY <2>4, LenProperties
  <2>6. LinesTypeOK'
    BY <1>1, <1>3, <1>8, <2>4 DEF LinesTypeOK
  <2>7. DealtWith(p)'
    <3>1. LastAnswered' = p
      BY <2>2, <2>3, <2>4 DEF LastAnswered
    <3>2. p \in 0 .. p /\ \A n \in p + 1 .. p : FALSE
      BY <1>4
    <3>3. QED
      BY <1>3, <3>1, <3>2 DEF DealtWith
  <2>8. ASSUME NEW i \in 1 .. L PROVE Answers(log, replies', i)
    <3>1. Before(replies', i) = Before(replies, i)
      <4>1. i # 1 => i - 1 \in 1 .. L
        BY <2>3
      <4>2. QED
        BY <2>4, <4>1 DEF Before
    <3>2. Answers(log, replies, i)
      BY <2>3 DEF LinesInv
    <3>3. QED
      BY <2>4, <3>1, <3>2 DEF Answers
  <2>9. Answers(log, replies', L + 1)
    <3>1. Before(replies', L + 1) = LastAnswered
      <4>1. CASE L = 0
        BY <4>1 DEF Before, LastAnswered
      <4>2. CASE L # 0
        <5>1. L + 1 # 1 /\ (L + 1) - 1 = L /\ L \in 1 .. L
          BY <2>3, <4>2
        <5>2. QED
          BY <2>4, <4>2, <5>1 DEF Before, LastAnswered
      <4>3. QED
        BY <4>1, <4>2
    <3>2. p \in DOMAIN log
      BY <1>1, <1>4
    <3>3. LastAnswered < p
      BY <1>4, <1>12
    <3>4. QED
      BY <1>4, <1>6, <1>12, <2>2, <2>4, <3>1, <3>2, <3>3 DEF Answers
  <2>10. \A i \in DOMAIN replies' : Answers(log', replies', i)
    <3>1. \A i \in 1 .. L + 1 : i \in 1 .. L \/ i = L + 1
      BY <2>3
    <3>2. QED
      BY <1>3, <2>5, <2>8, <2>9, <3>1
  <2>11. QED
    BY <1>2, <1>3, <1>11, <2>6, <2>7, <2>10 DEF LinesInv
<1>15. QED
  BY <1>13, <1>14

LEMMA LinesStep == LinesInv /\ [LinesNext]_lines => LinesInv'
<1>1. ASSUME LinesInv, UNCHANGED lines PROVE LinesInv'
  <2>1. LinesTypeOK' /\ Flows(log', rx' \o wire') /\ \A i \in DOMAIN replies' : Answers(log', replies', i)
    BY <1>1 DEF LinesInv, LinesTypeOK, lines
  <2>2. PICK h, p \in Nat : Sofar(h, p) /\ DealtWith(h) /\ Unread(log, rx \o wire, p)
    BY <1>1 DEF LinesInv
  <2>3. Sofar(h, p)' /\ DealtWith(h)' /\ Unread(log', rx' \o wire', p)
    BY <1>1, <2>2 DEF Sofar, DealtWith, LastAnswered, lines
  <2>4. QED
    BY <2>1, <2>3 DEF LinesInv
<1>2. QED
  BY <1>1, SendKeepsLines, ReadingKeepsLines, AnsweringKeepsLines DEF LinesNext

(* Answers come in the order of the messages, no message is answered       *)
(* twice, none that is owed an answer is passed over, and an answer to a   *)
(* message with an identifier carries it, however the bytes are cut up and *)
(* held back, for messages of any length and any size of the ring.         *)
THEOREM AnswersAlwaysMatch == LinesSpec => []AnswersMatch
<1>1. LinesInv => AnswersMatch
  BY AnswersAre DEF LinesInv
<1>2. QED
  BY <1>1, LinesStart, LinesStep, PTL DEF LinesSpec

-----------------------------------------------------------------------------
(* A newline ends everything but a string.                                 *)
LEMMA NewlineIs ==
  /\ "newline" \in Separator /\ "newline" \in Space
  /\ "newline" \notin Digit /\ "newline" \notin Sign /\ "newline" # "."
<1>1. "newline" \in Space
  BY Zenon DEF Space
<1>2. "newline" \in Separator
  BY <1>1 DEF Separator
<1>3. "newline" # "-" /\ "newline" # "+" /\ "newline" # "."
  OBVIOUS
<1>4. "newline" \notin Sign
  BY <1>3 DEF Sign
<1>5. "newline" \notin Digit
  BY <1>2, ReaderAssumption, Zenon
<1> QED
  BY <1>1, <1>2, <1>3, <1>4, <1>5

LEMMA FirstIs ==
  ASSUME NEW N \in Nat, NEW P
  PROVE  /\ \E k \in 0 .. N : (\A j \in 1 .. k : j \notin P) /\ (k < N => k + 1 \in P)
         /\ \A k \in 0 .. N, l \in 0 .. N :
              /\ (\A j \in 1 .. k : j \notin P) /\ (k < N => k + 1 \in P)
              /\ (\A j \in 1 .. l : j \notin P) /\ (l < N => l + 1 \in P)
              => k = l
<1> DEFINE T == {j \in 1 .. N + 1 : j = N + 1 \/ j \in P}
<1>1. T \in SUBSET Nat /\ N + 1 \in T
  OBVIOUS
<1>2. PICK x \in T : \A y \in T : ~(y < x)
  <2> HIDE DEF T
  <2> QED BY <1>1, LeastOf
<1>3. /\ x - 1 \in 0 .. N
      /\ \A j \in 1 .. x - 1 : j \notin P
      /\ x - 1 < N => (x - 1) + 1 \in P
  <2>1. ASSUME NEW j \in 1 .. x - 1
        PROVE  j \notin P
    <3>1. j \in 1 .. N + 1 /\ j < x
      OBVIOUS
    <3> QED
      BY <1>2, <3>1
  <2> QED
    BY <2>1
<1>4. ASSUME NEW k \in 0 .. N, NEW l \in 0 .. N, k < l,
             k < N => k + 1 \in P, \A j \in 1 .. l : j \notin P
      PROVE  FALSE
  <2>1. k + 1 \in 1 .. l /\ k < N
    BY <1>4
  <2> QED
    BY <1>4, <2>1
<1>5. ASSUME NEW k \in 0 .. N, NEW l \in 0 .. N,
             \A j \in 1 .. k : j \notin P, k < N => k + 1 \in P,
             \A j \in 1 .. l : j \notin P, l < N => l + 1 \in P
      PROVE  k = l
  <2>1. ~(k < l) /\ ~(l < k)
    BY <1>4, <1>5
  <2> QED
    BY <2>1
<1> QED
  BY <1>3, <1>5

LEMMA UntilIs ==
  ASSUME NEW text, Len(text) \in Nat, NEW S
  PROVE  /\ Until(text, S) \in 0 .. Len(text)
         /\ \A j \in 1 .. Until(text, S) : text[j] \notin S
         /\ Until(text, S) < Len(text) => text[Until(text, S) + 1] \in S
         /\ \A k \in 0 .. Len(text) :
              (\A j \in 1 .. k : text[j] \notin S) /\ (k < Len(text) => text[k + 1] \in S)
                => k = Until(text, S)
<1> DEFINE N == Len(text)
           P == {j \in 1 .. N : text[j] \in S}
           Ends(k) == (\A j \in 1 .. k : text[j] \notin S) /\ (k < N => text[k + 1] \in S)
<1>1. \A k \in 0 .. N : Ends(k) <=> (\A j \in 1 .. k : j \notin P) /\ (k < N => k + 1 \in P)
  OBVIOUS
<1>2. (\E k \in 0 .. N : Ends(k)) /\ \A k \in 0 .. N, l \in 0 .. N : Ends(k) /\ Ends(l) => k = l
  <2> HIDE DEF P, Ends
  <2> QED BY <1>1, FirstIs
<1>3. Until(text, S) = CHOOSE k \in 0 .. N : Ends(k)
  BY DEF Until
<1> HIDE DEF Ends
<1>4. Until(text, S) \in 0 .. N /\ Ends(Until(text, S))
  BY <1>2, <1>3
<1>5. \A k \in 0 .. N : Ends(k) => k = Until(text, S)
  BY <1>2, <1>4
<1> QED
  BY <1>4, <1>5 DEF Ends

LEMMA WhileIs ==
  ASSUME NEW text, Len(text) \in Nat, NEW S
  PROVE  /\ While(text, S) \in 0 .. Len(text)
         /\ \A j \in 1 .. While(text, S) : text[j] \in S
         /\ While(text, S) < Len(text) => text[While(text, S) + 1] \notin S
         /\ \A k \in 0 .. Len(text) :
              (\A j \in 1 .. k : text[j] \in S) /\ (k < Len(text) => text[k + 1] \notin S)
                => k = While(text, S)
<1> DEFINE N == Len(text)
           P == {j \in 1 .. N : text[j] \notin S}
           Ends(k) == (\A j \in 1 .. k : text[j] \in S) /\ (k < N => text[k + 1] \notin S)
<1>1. \A k \in 0 .. N : Ends(k) <=> (\A j \in 1 .. k : j \notin P) /\ (k < N => k + 1 \in P)
  OBVIOUS
<1>2. (\E k \in 0 .. N : Ends(k)) /\ \A k \in 0 .. N, l \in 0 .. N : Ends(k) /\ Ends(l) => k = l
  <2> HIDE DEF P, Ends
  <2> QED BY <1>1, FirstIs
<1>3. While(text, S) = CHOOSE k \in 0 .. N : Ends(k)
  BY DEF While
<1> HIDE DEF Ends
<1>4. While(text, S) \in 0 .. N /\ Ends(While(text, S))
  BY <1>2, <1>3
<1>5. \A k \in 0 .. N : Ends(k) => k = While(text, S)
  BY <1>2, <1>4
<1> QED
  BY <1>4, <1>5 DEF Ends

-----------------------------------------------------------------------------
(* The text x is t, a newline and something else.                          *)
LineOf(x, t) ==
  /\ Len(x) \in Nat /\ Len(t) \in Nat /\ Len(t) < Len(x)
  /\ x[Len(t) + 1] = "newline"
  /\ \A j \in 1 .. Len(t) : x[j] = t[j]

LEMMA UntilInLine ==
  ASSUME NEW x, NEW t, LineOf(x, t), NEW S, "newline" \in S
  PROVE  Until(x, S) = Until(t, S) /\ Until(t, S) \in 0 .. Len(t)
<1> DEFINE k == Until(t, S)
<1>1. /\ Len(x) \in Nat /\ Len(t) \in Nat /\ Len(t) < Len(x)
      /\ x[Len(t) + 1] = "newline"
      /\ \A j \in 1 .. Len(t) : x[j] = t[j]
  BY DEF LineOf
<1>2. /\ k \in 0 .. Len(t)
      /\ \A j \in 1 .. k : t[j] \notin S
      /\ k < Len(t) => t[k + 1] \in S
  BY <1>1, UntilIs
<1> HIDE DEF k
<1>3. k \in 0 .. Len(x) /\ \A j \in 1 .. k : x[j] \notin S
  BY <1>1, <1>2
<1>4. x[k + 1] \in S
  <2>1. CASE k < Len(t)
    BY <1>1, <1>2, <2>1
  <2>2. CASE k = Len(t)
    BY <1>1, <2>2
  <2> QED
    BY <1>1, <1>2, <2>1, <2>2
<1>5. k = Until(x, S)
  BY <1>1, <1>3, <1>4, UntilIs
<1> QED
  BY <1>2, <1>5 DEF k

LEMMA WhileInLine ==
  ASSUME NEW x, NEW t, LineOf(x, t), NEW S, "newline" \notin S
  PROVE  While(x, S) = While(t, S) /\ While(t, S) \in 0 .. Len(t)
<1> DEFINE k == While(t, S)
<1>1. /\ Len(x) \in Nat /\ Len(t) \in Nat /\ Len(t) < Len(x)
      /\ x[Len(t) + 1] = "newline"
      /\ \A j \in 1 .. Len(t) : x[j] = t[j]
  BY DEF LineOf
<1>2. /\ k \in 0 .. Len(t)
      /\ \A j \in 1 .. k : t[j] \in S
      /\ k < Len(t) => t[k + 1] \notin S
  BY <1>1, WhileIs
<1> HIDE DEF k
<1>3. k \in 0 .. Len(x) /\ \A j \in 1 .. k : x[j] \in S
  BY <1>1, <1>2
<1>4. x[k + 1] \notin S
  <2>1. CASE k < Len(t)
    BY <1>1, <1>2, <2>1
  <2>2. CASE k = Len(t)
    BY <1>1, <2>2
  <2> QED
    BY <1>1, <1>2, <2>1, <2>2
<1>5. k = While(x, S)
  BY <1>1, <1>3, <1>4, WhileIs
<1> QED
  BY <1>2, <1>5 DEF k

LEMMA RestIs ==
  ASSUME NEW T, NEW t \in Seq(T), NEW k \in 0 .. Len(t)
  PROVE  /\ Rest(t, k) \in Seq(T) /\ Len(Rest(t, k)) = Len(t) - k
         /\ \A j \in 1 .. Len(t) - k : Rest(t, k)[j] = t[k + j]
<1>1. /\ k + 1 \in Int /\ Len(t) \in Int /\ Len(t) - (k + 1) + 1 = Len(t) - k
      /\ \A j \in k + 1 .. Len(t) : t[j] \in T
  OBVIOUS
<1>2. Rest(t, k) = SubSeq(t, k + 1, Len(t))
  BY DEF Rest
<1>3. /\ SubSeq(t, k + 1, Len(t)) \in Seq(T)
      /\ Len(SubSeq(t, k + 1, Len(t))) = IF k + 1 <= Len(t) THEN Len(t) - (k + 1) + 1 ELSE 0
      /\ \A j \in 1 .. Len(t) - (k + 1) + 1 : SubSeq(t, k + 1, Len(t))[j] = t[k + 1 + j - 1]
  BY <1>1, SubSeqProperties
<1>4. \A j \in 1 .. Len(t) - k : k + 1 + j - 1 = k + j
  OBVIOUS
<1>5. (IF k + 1 <= Len(t) THEN Len(t) - (k + 1) + 1 ELSE 0) = Len(t) - k
  OBVIOUS
<1> QED
  BY <1>1, <1>2, <1>3, <1>4, <1>5

LEMMA RestInLine ==
  ASSUME NEW T, NEW x \in Seq(T), NEW t \in Seq(T), LineOf(x, t), NEW k \in 0 .. Len(t)
  PROVE  LineOf(Rest(x, k), Rest(t, k))
<1>1. /\ Len(x) \in Nat /\ Len(t) \in Nat /\ Len(t) < Len(x)
      /\ x[Len(t) + 1] = "newline"
      /\ \A j \in 1 .. Len(t) : x[j] = t[j]
  BY DEF LineOf
<1>2. k \in 0 .. Len(x)
  BY <1>1
<1> DEFINE y == Rest(x, k)
           s == Rest(t, k)
<1>3. /\ Len(y) = Len(x) - k /\ \A j \in 1 .. Len(x) - k : y[j] = x[k + j]
      /\ Len(s) = Len(t) - k /\ \A j \in 1 .. Len(t) - k : s[j] = t[k + j]
  BY <1>2, RestIs
<1> HIDE DEF y, s
<1>4. Len(y) \in Nat /\ Len(s) \in Nat /\ Len(s) < Len(y)
  BY <1>1, <1>2, <1>3
<1>5. y[Len(s) + 1] = "newline"
  <2>1. Len(s) + 1 \in 1 .. Len(x) - k /\ k + (Len(s) + 1) = Len(t) + 1
    BY <1>1, <1>3
  <2> QED
    BY <1>1, <1>3, <2>1
<1>6. ASSUME NEW j \in 1 .. Len(s)
      PROVE  y[j] = s[j]
  <2>1. j \in 1 .. Len(x) - k /\ j \in 1 .. Len(t) - k /\ k + j \in 1 .. Len(t)
    BY <1>1, <1>3
  <2> QED
    BY <1>1, <1>3, <2>1
<1> QED
  BY <1>4, <1>5, <1>6 DEF LineOf, y, s

-----------------------------------------------------------------------------
(* Numbers.                                                                *)
SignOf(m) == IF m # <<>> /\ m[1] \in Sign THEN 1 ELSE 0

WholeOf(m) == SignOf(m) + While(Rest(m, SignOf(m)), Digit)

AllOf(m) ==
  IF WholeOf(m) < Len(m) /\ m[WholeOf(m) + 1] = "."
  THEN WholeOf(m) + 1 + While(Rest(m, WholeOf(m) + 1), Digit) ELSE WholeOf(m)

LEMMA StrtodAs ==
  ASSUME NEW m
  PROVE  Strtod(m) = IF \E j \in 1 .. AllOf(m) : m[j] \in Digit THEN AllOf(m) ELSE 0
  BY DEF Strtod, AllOf, WholeOf, SignOf

LEMMA RestWhile ==
  ASSUME NEW T, NEW t \in Seq(T), NEW k \in 0 .. Len(t), NEW S
  PROVE  While(Rest(t, k), S) \in Nat /\ k + While(Rest(t, k), S) \in 0 .. Len(t)
<1>1. Len(Rest(t, k)) = Len(t) - k /\ Len(t) - k \in Nat
  BY RestIs
<1>2. While(Rest(t, k), S) \in 0 .. Len(Rest(t, k))
  BY <1>1, WhileIs
<1> QED
  BY <1>1, <1>2

LEMMA StrtodIs ==
  ASSUME NEW T, NEW t \in Seq(T)
  PROVE  /\ SignOf(t) \in 0 .. Len(t) /\ WholeOf(t) \in 0 .. Len(t)
         /\ AllOf(t) \in 0 .. Len(t) /\ Strtod(t) \in 0 .. Len(t)
<1>1. SignOf(t) \in 0 .. Len(t)
  BY DEF SignOf
<1>2. WholeOf(t) \in 0 .. Len(t)
  BY <1>1, RestWhile DEF WholeOf
<1>3. AllOf(t) \in 0 .. Len(t)
  <2>1. CASE WholeOf(t) < Len(t) /\ t[WholeOf(t) + 1] = "."
    <3>1. WholeOf(t) + 1 \in 0 .. Len(t)
      BY <1>2, <2>1
    <3>2. AllOf(t) = WholeOf(t) + 1 + While(Rest(t, WholeOf(t) + 1), Digit)
      BY <2>1 DEF AllOf
    <3> QED
      BY <3>1, <3>2, RestWhile
  <2>2. CASE ~(WholeOf(t) < Len(t) /\ t[WholeOf(t) + 1] = ".")
    BY <1>2, <2>2 DEF AllOf
  <2> QED
    BY <2>1, <2>2
<1>4. Strtod(t) \in 0 .. Len(t)
  BY <1>3, StrtodAs
<1> QED
  BY <1>1, <1>2, <1>3, <1>4

LEMMA StrtodInLine ==
  ASSUME NEW T, NEW x \in Seq(T), NEW t \in Seq(T), LineOf(x, t)
  PROVE  Strtod(x) = Strtod(t)
<1>1. /\ Len(x) \in Nat /\ Len(t) \in Nat /\ Len(t) < Len(x)
      /\ x[Len(t) + 1] = "newline"
      /\ \A j \in 1 .. Len(t) : x[j] = t[j]
  BY DEF LineOf
<1>2. SignOf(x) = SignOf(t)
  <2>1. x # <<>>
    BY <1>1
  <2>2. CASE t = <<>>
    <3>1. x[1] = "newline"
      BY <1>1, <2>2
    <3> QED
      BY <2>1, <2>2, <3>1, NewlineIs DEF SignOf
  <2>3. CASE t # <<>>
    <3>1. 1 \in 1 .. Len(t)
      BY <2>3
    <3>2. x[1] = t[1]
      BY <1>1, <3>1
    <3> QED
      BY <2>1, <2>3, <3>2 DEF SignOf
  <2> QED
    BY <2>2, <2>3
<1>3. ASSUME NEW k \in 0 .. Len(t)
      PROVE  While(Rest(x, k), Digit) = While(Rest(t, k), Digit)
  <2>1. LineOf(Rest(x, k), Rest(t, k))
    BY RestInLine
  <2> QED
    BY <2>1, NewlineIs, WhileInLine
<1>4. /\ SignOf(t) \in 0 .. Len(t) /\ WholeOf(t) \in 0 .. Len(t)
      /\ AllOf(t) \in 0 .. Len(t)
  BY StrtodIs
<1>5. WholeOf(x) = WholeOf(t)
  BY <1>2, <1>3, <1>4 DEF WholeOf
<1>6. AllOf(x) = AllOf(t)
  <2>1. CASE WholeOf(t) = Len(t)
    <3>1. x[WholeOf(t) + 1] # "."
      BY <1>1, <2>1, NewlineIs
    <3>2. ~(WholeOf(t) < Len(t))
      BY <2>1, <1>1
    <3> QED
      BY <1>5, <3>1, <3>2 DEF AllOf
  <2>2. CASE WholeOf(t) # Len(t)
    <3>1. WholeOf(t) < Len(t) /\ WholeOf(t) < Len(x) /\ WholeOf(t) + 1 \in 1 .. Len(t)
      BY <1>1, <1>4, <2>2
    <3>2. x[WholeOf(t) + 1] = t[WholeOf(t) + 1]
      BY <1>1, <3>1
    <3>3. WholeOf(t) + 1 \in 0 .. Len(t)
      BY <3>1
    <3>4. While(Rest(x, WholeOf(t) + 1), Digit) = While(Rest(t, WholeOf(t) + 1), Digit)
      BY <1>3, <3>3
    <3> QED
      BY <1>5, <3>1, <3>2, <3>4 DEF AllOf
  <2> QED
    BY <2>1, <2>2
<1>7. \A j \in 1 .. AllOf(t) : x[j] = t[j]
  BY <1>1, <1>4
<1>8. (\E j \in 1 .. AllOf(x) : x[j] \in Digit) <=> (\E j \in 1 .. AllOf(t) : t[j] \in Digit)
  BY <1>6, <1>7
<1> QED
  BY <1>6, <1>8, StrtodAs

LEMMA PrefixInLine ==
  ASSUME NEW T, NEW x \in Seq(T), NEW t \in Seq(T), LineOf(x, t), NEW k \in 0 .. Len(t)
  PROVE  SubSeq(x, 1, k) = SubSeq(t, 1, k)
<1>1. /\ Len(x) \in Nat /\ Len(t) \in Nat /\ Len(t) < Len(x)
      /\ \A j \in 1 .. Len(t) : x[j] = t[j]
  BY DEF LineOf
<1>2. /\ \A j \in 1 .. k : x[j] \in T /\ t[j] \in T /\ x[j] = t[j]
      /\ 1 \in Int /\ k \in Int /\ k - 1 + 1 = k
  BY <1>1
<1>3. /\ SubSeq(x, 1, k) \in Seq(T)
      /\ Len(SubSeq(x, 1, k)) = IF 1 <= k THEN k - 1 + 1 ELSE 0
      /\ \A j \in 1 .. k - 1 + 1 : SubSeq(x, 1, k)[j] = x[1 + j - 1]
  BY <1>2, SubSeqProperties
<1>4. /\ SubSeq(t, 1, k) \in Seq(T)
      /\ Len(SubSeq(t, 1, k)) = IF 1 <= k THEN k - 1 + 1 ELSE 0
      /\ \A j \in 1 .. k - 1 + 1 : SubSeq(t, 1, k)[j] = t[1 + j - 1]
  BY <1>2, SubSeqProperties
<1> DEFINE u == SubSeq(x, 1, k)
           v == SubSeq(t, 1, k)
<1>5. \A j \in 1 .. k : 1 + j - 1 = j
  OBVIOUS
<1>6. /\ u \in Seq(T) /\ v \in Seq(T) /\ Len(u) = k /\ Len(v) = k
      /\ \A j \in 1 .. k : u[j] = x[j] /\ v[j] = t[j]
  BY <1>2, <1>3, <1>4, <1>5
<1> HIDE DEF u, v
<1>7. u = v
  BY <1>2, <1>6
<1> QED
  BY <1>7 DEF u, v

-----------------------------------------------------------------------------
(* What is read at one place.                                              *)
Tokens(T) == [kind : Bracket \cup {"string", "number", "symbol"}, text : Seq(T)]

Complaint == {"Unterminated string", "Unexpected character"}

Readings(T, n) == [tokens : Seq(Tokens(T)), errors : Seq(Complaint), length : 0 .. n]

LEMMA LeastQuote ==
  ASSUME NEW Q \in SUBSET Nat, Q # {}
  PROVE  Min(Q) \in Q
<1>1. PICK x \in Q : \A y \in Q : ~(y < x)
  BY LeastOf
<1>2. \E q \in Q : \A y \in Q : q =< y
  BY <1>1
<1> QED
  BY <1>2 DEF Min

LEMMA PrefixIs ==
  ASSUME NEW T, NEW t \in Seq(T), NEW m \in 1 .. Len(t) + 1, NEW k \in 0 .. Len(t)
  PROVE  SubSeq(t, m, k) \in Seq(T)
<1>1. m \in Int /\ k \in Int /\ \A j \in m .. k : t[j] \in T
  OBVIOUS
<1> QED
  BY <1>1, SubSeqProperties

LEMMA OneIs ==
  ASSUME NEW T, NEW n \in Nat, NEW token \in Tokens(T), NEW k \in 0 .. n
  PROVE  One(token, k) \in Readings(T, n)
<1>1. <<token>> \in Seq(Tokens(T)) /\ <<>> \in Seq(Complaint)
  OBVIOUS
<1> QED
  BY <1>1 DEF One, Readings

LEMMA NothingIs ==
  ASSUME NEW T, NEW n \in Nat, NEW k \in 0 .. n
  PROVE  Nothing(k) \in Readings(T, n)
<1>1. <<>> \in Seq(Tokens(T)) /\ <<>> \in Seq(Complaint)
  OBVIOUS
<1> QED
  BY <1>1 DEF Nothing, Readings

LEMMA WrongIs ==
  ASSUME NEW T, NEW n \in Nat, NEW what \in Complaint, NEW k \in 0 .. n
  PROVE  Wrong(what, k) \in Readings(T, n)
<1>1. <<>> \in Seq(Tokens(T)) /\ <<what>> \in Seq(Complaint)
  OBVIOUS
<1> QED
  BY <1>1 DEF Wrong, Readings

LEMMA TokenIs ==
  ASSUME NEW T, NEW text \in Seq(T), NEW kind \in Bracket \cup {"string", "number", "symbol"}
  PROVE  Token(kind, text) \in Tokens(T)
  BY DEF Token, Tokens

LEMMA HereIs ==
  ASSUME NEW T, NEW t \in Seq(T), t # <<>>
  PROVE  ReadHere(t, t) \in Readings(T, Len(t))
<1>1. Len(t) \in Nat /\ 1 \in 0 .. Len(t) /\ Len(t) \in 0 .. Len(t)
  OBVIOUS
<1>2. Nothing(1) \in Readings(T, Len(t))
  BY <1>1, NothingIs
<1>3. Nothing(Until(t, EndsComment)) \in Readings(T, Len(t))
  BY <1>1, UntilIs, NothingIs
<1>4. ASSUME t[1] \in Bracket
      PROVE  One(Token(t[1], <<>>), 1) \in Readings(T, Len(t))
  <2>1. <<>> \in Seq(T)
    OBVIOUS
  <2> QED
    BY <1>1, <1>4, <2>1, OneIs, TokenIs
<1>5. ReadString(t) \in Readings(T, Len(t))
  <2>1. Wrong("Unterminated string", Len(t)) \in Readings(T, Len(t))
    BY <1>1, WrongIs DEF Complaint
  <2> DEFINE Q == ClosingQuotes(t)
             e == Min(Q)
  <2>2. Q \subseteq 2 .. Len(t)
    BY DEF ClosingQuotes
  <2> HIDE DEF Q
  <2>3. ASSUME Q # {}
        PROVE  One(Token("string", SubSeq(t, 2, e - 1)), e) \in Readings(T, Len(t))
    <3>1. e \in Q
      BY <1>1, <2>2, <2>3, LeastQuote
    <3> HIDE DEF e
    <3>2. e \in 0 .. Len(t) /\ e - 1 \in 0 .. Len(t) /\ 2 \in 1 .. Len(t) + 1
      BY <1>1, <2>2, <3>1
    <3>3. SubSeq(t, 2, e - 1) \in Seq(T)
      BY <3>2, PrefixIs
    <3> QED
      BY <1>1, <3>2, <3>3, OneIs, TokenIs
  <2> QED
    BY <2>1, <2>3 DEF ReadString, Q
<1>6. ASSUME NEW k \in 0 .. Len(t), NEW kind \in {"string", "number", "symbol"}
      PROVE  One(Token(kind, SubSeq(t, 1, k)), k) \in Readings(T, Len(t))
  <2>1. SubSeq(t, 1, k) \in Seq(T)
    BY <1>1, PrefixIs
  <2> QED
    BY <1>1, <2>1, OneIs, TokenIs
<1>7. ReadNumber(t) \in Readings(T, Len(t))
  BY <1>6, StrtodIs DEF ReadNumber
<1>8. ReadSymbol(t) \in Readings(T, Len(t))
  <2>1. Until(t, Separator) \in 0 .. Len(t)
    BY <1>1, UntilIs
  <2> QED
    BY <1>6, <2>1 DEF ReadSymbol
<1>9. Wrong("Unexpected character", 1) \in Readings(T, Len(t))
  BY <1>1, WrongIs DEF Complaint
<1> QED
  BY <1>2, <1>3, <1>4, <1>5, <1>7, <1>8, <1>9, Zenon DEF ReadHere

LEMMA HereInLine ==
  ASSUME NEW T, NEW x \in Seq(T), NEW t \in Seq(T), LineOf(x, t), t # <<>>, t[1] # "quote"
  PROVE  ReadHere(x, x) = ReadHere(t, t)
<1>1. /\ Len(x) \in Nat /\ Len(t) \in Nat /\ Len(t) < Len(x)
      /\ x[Len(t) + 1] = "newline"
      /\ \A j \in 1 .. Len(t) : x[j] = t[j]
  BY DEF LineOf
<1>2. x[1] = t[1] /\ x[1] # "quote"
  <2>1. 1 \in 1 .. Len(t)
    BY <1>1
  <2> QED
    BY <1>1, <2>1
<1>3. Until(x, EndsComment) = Until(t, EndsComment)
  BY UntilInLine DEF EndsComment
<1>4. NumberBegins(x) = NumberBegins(t)
  <2>1. CASE Len(t) = 1
    <3>1. x[2] = "newline" /\ x[2] \notin Digit /\ ~(Len(t) > 1)
      BY <1>1, <2>1, NewlineIs
    <3> QED
      BY <1>2, <3>1 DEF NumberBegins
  <2>2. CASE 1 < Len(t)
    <3>1. Len(t) > 1 /\ Len(x) > 1 /\ 2 \in 1 .. Len(t)
      BY <1>1, <2>2
    <3>2. x[2] = t[2]
      BY <1>1, <3>1
    <3> QED
      BY <1>2, <3>1, <3>2 DEF NumberBegins
  <2>3. Len(t) = 1 \/ 1 < Len(t)
    <3>1. Len(t) # 0
      OBVIOUS
    <3>2. Len(t) \in Nat
      OBVIOUS
    <3> DEFINE n == Len(t)
    <3> HIDE DEF n
    <3>3. n \in Nat /\ n # 0
      BY <3>1, <3>2 DEF n
    <3>4. n = 1 \/ 1 < n
      BY <3>3
    <3> QED
      BY <3>4 DEF n
  <2> QED
    BY <2>1, <2>2, <2>3
<1>5. ReadNumber(x) = ReadNumber(t)
  <2>1. Strtod(x) = Strtod(t) /\ Strtod(t) \in 0 .. Len(t)
    BY StrtodInLine, StrtodIs
  <2>2. SubSeq(x, 1, Strtod(t)) = SubSeq(t, 1, Strtod(t))
    BY <2>1, PrefixInLine
  <2> QED
    BY <2>1, <2>2, Zenon DEF ReadNumber
<1>6. ReadSymbol(x) = ReadSymbol(t)
  <2>1. Until(x, Separator) = Until(t, Separator) /\ Until(t, Separator) \in 0 .. Len(t)
    BY NewlineIs, UntilInLine
  <2>2. SubSeq(x, 1, Until(t, Separator)) = SubSeq(t, 1, Until(t, Separator))
    BY <2>1, PrefixInLine
  <2> QED
    BY <2>1, <2>2, Zenon DEF ReadSymbol
<1> QED
  BY <1>2, <1>3, <1>4, <1>5, <1>6, Zenon DEF ReadHere

-----------------------------------------------------------------------------
(* The loop of the tokenizer.                                              *)
ReadUpTo(T, n) == [tokens : Seq(Tokens(T)), errors : Seq(Complaint), next : 1 .. n + 1]

Beginning == [tokens |-> <<>>, errors |-> <<>>, next |-> 1]

Here(m, i) == ReadHere(Rest(m, i - 1), Rest(m, i - 1))

LEMMA OnwardIs ==
  ASSUME NEW T, NEW m \in Seq(T), NEW i \in 1 .. Len(m), NEW a
  PROVE  /\ ReadOn(m, Len(m), i, a) =
              IF i < a.next THEN a
              ELSE [tokens |-> a.tokens \o Here(m, i).tokens, errors |-> a.errors \o Here(m, i).errors,
                    next |-> i + Here(m, i).length]
         /\ Rest(m, i - 1) \in Seq(T) /\ Rest(m, i - 1) # <<>>
         /\ Len(Rest(m, i - 1)) = Len(m) - i + 1
         /\ Here(m, i) \in Readings(T, Len(m) - i + 1)
<1>1. (i - 1) + 1 = i /\ i - 1 \in 0 .. Len(m) /\ Len(m) - (i - 1) = Len(m) - i + 1
  OBVIOUS
<1>2. SubSeq(m, i, Len(m)) = Rest(m, i - 1)
  BY <1>1 DEF Rest
<1>3. Rest(m, i - 1) \in Seq(T) /\ Len(Rest(m, i - 1)) = Len(m) - i + 1
  BY <1>1, RestIs
<1>4. Len(m) - i + 1 # 0
  OBVIOUS
<1>5. Rest(m, i - 1) # <<>>
  BY <1>3, <1>4
<1>6. Here(m, i) \in Readings(T, Len(m) - i + 1)
  BY <1>3, <1>5, HereIs DEF Here
<1> QED
  BY <1>2, <1>3, <1>5, <1>6, Zenon DEF ReadOn, Here

LEMMA OnwardStays ==
  ASSUME NEW T, NEW m \in Seq(T), NEW i \in 1 .. Len(m), NEW a \in ReadUpTo(T, Len(m))
  PROVE  ReadOn(m, Len(m), i, a) \in ReadUpTo(T, Len(m))
<1>1. /\ Here(m, i).tokens \in Seq(Tokens(T))
      /\ Here(m, i).errors \in Seq(Complaint)
      /\ Here(m, i).length \in 0 .. Len(m) - i + 1
  BY OnwardIs DEF Readings
<1>2. /\ a.tokens \o Here(m, i).tokens \in Seq(Tokens(T))
      /\ a.errors \o Here(m, i).errors \in Seq(Complaint)
  BY <1>1 DEF ReadUpTo
<1>3. i + Here(m, i).length \in 1 .. Len(m) + 1
  BY <1>1
<1> DEFINE r == [tokens |-> a.tokens \o Here(m, i).tokens, errors |-> a.errors \o Here(m, i).errors,
                 next |-> i + Here(m, i).length]
<1>4. r \in ReadUpTo(T, Len(m))
  BY <1>2, <1>3 DEF ReadUpTo
<1> HIDE DEF r
<1>5. ReadOn(m, Len(m), i, a) = IF i < a.next THEN a ELSE r
  BY OnwardIs DEF r
<1> QED
  BY <1>4, <1>5

Tokenizes(f, T, m) ==
  /\ f[0] = Beginning
  /\ \A i \in 0 .. Len(m) : f[i] \in ReadUpTo(T, Len(m))
  /\ \A i \in 1 .. Len(m) : f[i] = ReadOn(m, Len(m), i, f[i - 1])
  /\ Read(m, Len(m)) = f[Len(m)]

LEMMA TokenizeSteps ==
  ASSUME NEW T, NEW m \in Seq(T)
  PROVE  \E f : Tokenizes(f, T, m)
<1> DEFINE N == Len(m)
           Y == ReadUpTo(T, N)
           g == [x \in (1 .. N) \X Y |-> ReadOn(m, N, x[1], x[2])]
<1>1. N \in Nat
  OBVIOUS
<1>2. \A n \in 1 .. N, a \in Y : ReadOn(m, N, n, a) \in Y
  BY OnwardStays
<1>3. Beginning \in Y
  <2>1. <<>> \in Seq(Tokens(T)) /\ <<>> \in Seq(Complaint) /\ 1 \in 1 .. N + 1
    BY <1>1
  <2> QED
    BY <2>1 DEF Beginning, ReadUpTo
<1> HIDE DEF N, Y
<1>4. \A n \in 1 .. N, a \in Y : g[<<n, a>>] = ReadOn(m, N, n, a)
  OBVIOUS
<1>5. Stays(g, N, Y)
  BY <1>2, <1>4 DEF Stays
<1> HIDE DEF g
<1>6. PICK f \in [0 .. N -> Y] : Follows(f, g, N, Beginning)
  BY <1>1, <1>3, <1>5, Recursion
<1>7. \A n \in 1 .. N : n \in 0 .. N /\ n # 0 /\ n - 1 \in 0 .. N
  BY <1>1
<1>8. f[0] = Beginning /\ \A n \in 1 .. N : f[n] = ReadOn(m, N, n, f[n - 1])
  BY <1>4, <1>6, <1>7 DEF Follows
<1> DEFINE By(h, n) == IF n = 0 THEN Beginning ELSE ReadOn(m, N, n, h[n - 1])
<1>9. f = [n \in 0 .. N |-> By(f, n)]
  <2>1. \A n \in 0 .. N : n # 0 => n \in 1 .. N
    BY <1>1
  <2> QED
    BY <1>6, <1>8, <2>1
<1> DEFINE upTo == CHOOSE h : h = [n \in 0 .. N |-> By(h, n)]
<1>10. upTo = [n \in 0 .. N |-> By(upTo, n)]
  BY <1>9, Zenon
<1>11. Read(m, N) = upTo[N]
  BY DEF Read, Beginning
<1> HIDE DEF upTo
<1>12. upTo[0] = Beginning
  <2>1. 0 \in 0 .. N
    BY <1>1
  <2> QED
    BY <1>10, <2>1
<1>13. \A n \in 1 .. N : upTo[n] = ReadOn(m, N, n, upTo[n - 1])
  BY <1>7, <1>10
<1> DEFINE S == {n \in 0 .. N : upTo[n] \in Y}
<1>14. 0 \in S
  BY <1>1, <1>3, <1>12
<1>15. ASSUME NEW n \in 0 .. N - 1, n \in S
       PROVE  n + 1 \in S
  <2>1. n + 1 \in 1 .. N /\ (n + 1) - 1 = n /\ n + 1 \in 0 .. N
    BY <1>1
  <2>2. upTo[n + 1] = ReadOn(m, N, n + 1, upTo[n]) /\ upTo[n] \in Y
    BY <1>13, <1>15, <2>1
  <2> QED
    BY <1>2, <2>1, <2>2
<1>16. 0 .. N \subseteq S
  <2> HIDE DEF S
  <2> QED BY <1>1, <1>14, <1>15, Reached
<1>17. \A n \in 0 .. N : upTo[n] \in Y
  BY <1>16
<1> QED
  BY <1>11, <1>12, <1>13, <1>17, Zenon DEF Tokenizes, N, Y

-----------------------------------------------------------------------------
(* A text with an end of line at p is read as what is before it and what   *)
(* comes after it.                                                         *)
LEMMA BeforeIs ==
  ASSUME NEW T, NEW w \in Seq(T), NEW p \in 1 .. Len(w), w[p] = "newline"
  PROVE  /\ SubSeq(w, 1, p - 1) \in Seq(T) /\ Len(SubSeq(w, 1, p - 1)) = p - 1
         /\ \A j \in 1 .. p - 1 : SubSeq(w, 1, p - 1)[j] = w[j]
         /\ LineOf(w, SubSeq(w, 1, p - 1))
<1>1. /\ 1 \in Int /\ p - 1 \in Int /\ p - 1 \in Nat /\ p - 1 - 1 + 1 = p - 1
      /\ \A j \in 1 .. p - 1 : w[j] \in T
  OBVIOUS
<1> DEFINE b == SubSeq(w, 1, p - 1)
<1>2. /\ b \in Seq(T)
      /\ Len(b) = IF 1 <= p - 1 THEN p - 1 - 1 + 1 ELSE 0
      /\ \A j \in 1 .. p - 1 - 1 + 1 : b[j] = w[1 + j - 1]
  BY <1>1, SubSeqProperties
<1> HIDE DEF b
<1>3. Len(b) = p - 1
  BY <1>1, <1>2
<1>4. \A j \in 1 .. p - 1 : 1 + j - 1 = j
  OBVIOUS
<1>5. \A j \in 1 .. p - 1 : b[j] = w[j]
  BY <1>1, <1>2, <1>4
<1>6. Len(w) \in Nat /\ Len(b) < Len(w) /\ Len(b) + 1 = p
  BY <1>1, <1>3
<1>7. LineOf(w, b)
  BY <1>1, <1>3, <1>5, <1>6 DEF LineOf
<1> QED
  BY <1>2, <1>3, <1>5, <1>7 DEF b

LEMMA RestOfRest ==
  ASSUME NEW T, NEW w \in Seq(T), NEW p \in 0 .. Len(w), NEW k \in 0 .. Len(w) - p
  PROVE  Rest(Rest(w, p), k) = Rest(w, p + k)
<1> DEFINE a == Rest(w, p)
           u == Rest(a, k)
           v == Rest(w, p + k)
<1>1. a \in Seq(T) /\ Len(a) = Len(w) - p /\ \A j \in 1 .. Len(w) - p : a[j] = w[p + j]
  BY RestIs
<1> HIDE DEF a
<1>2. k \in 0 .. Len(a) /\ p + k \in 0 .. Len(w) /\ Len(a) - k = Len(w) - (p + k)
  BY <1>1
<1>3. u \in Seq(T) /\ Len(u) = Len(a) - k /\ \A j \in 1 .. Len(a) - k : u[j] = a[k + j]
  BY <1>1, <1>2, RestIs
<1>4. v \in Seq(T) /\ Len(v) = Len(w) - (p + k) /\ \A j \in 1 .. Len(w) - (p + k) : v[j] = w[p + k + j]
  BY <1>2, RestIs
<1> HIDE DEF u, v
<1>5. \A j \in 1 .. Len(a) - k : k + j \in 1 .. Len(w) - p /\ p + (k + j) = p + k + j
  BY <1>1, <1>2
<1>6. \A j \in 1 .. Len(a) - k : u[j] = v[j]
  BY <1>1, <1>2, <1>3, <1>4, <1>5
<1>7. Len(u) = Len(a) - k /\ Len(u) = Len(v)
  BY <1>2, <1>3, <1>4
<1>8. u = v
  BY <1>3, <1>4, <1>6, <1>7, SeqEqual
<1> QED
  BY <1>8 DEF u, v, a

LEMMA LineApart ==
  ASSUME NEW T, NEW w \in Seq(T), NEW p \in 1 .. Len(w), w[p] = "newline",
         \A j \in 1 .. p - 1 : w[j] # "quote",
         NEW b, b = SubSeq(w, 1, p - 1), NEW a, a = Rest(w, p)
  PROVE  /\ Read(w, Len(w)).tokens = Read(b, Len(b)).tokens \o Read(a, Len(a)).tokens
         /\ Read(w, Len(w)).errors = Read(b, Len(b)).errors \o Read(a, Len(a)).errors
         /\ Read(b, Len(b)) \in ReadUpTo(T, Len(b)) /\ Read(a, Len(a)) \in ReadUpTo(T, Len(a))
<1>1. /\ b \in Seq(T) /\ Len(b) = p - 1 /\ \A j \in 1 .. p - 1 : b[j] = w[j]
      /\ LineOf(w, b)
  BY BeforeIs
<1>2. p \in 0 .. Len(w) /\ p \in Nat /\ Len(w) \in Nat
  OBVIOUS
<1>3. a \in Seq(T) /\ Len(a) = Len(w) - p
  BY <1>2, RestIs
<1>4. PICK f : Tokenizes(f, T, w)
  BY TokenizeSteps
<1>5. PICK g : Tokenizes(g, T, b)
  BY <1>1, TokenizeSteps
<1>6. PICK h : Tokenizes(h, T, a)
  BY <1>3, TokenizeSteps
<1>7. ASSUME NEW i \in 1 .. p - 1
      PROVE  Here(w, i) = Here(b, i)
  <2>1. i - 1 \in 0 .. Len(b) /\ i - 1 \in 0 .. Len(w) /\ i \in 1 .. Len(b) /\ i - 1 + 1 = i
    BY <1>1
  <2> DEFINE x == Rest(w, i - 1)
             t == Rest(b, i - 1)
  <2>2. /\ x \in Seq(T) /\ t \in Seq(T) /\ Len(t) = Len(b) - (i - 1)
        /\ \A j \in 1 .. Len(b) - (i - 1) : t[j] = b[i - 1 + j]
    BY <1>1, <2>1, RestIs
  <2>3. LineOf(x, t)
    BY <1>1, <2>1, RestInLine
  <2> HIDE DEF x, t
  <2>4. 1 \in 1 .. Len(b) - (i - 1) /\ Len(t) # 0
    BY <1>1, <2>1, <2>2
  <2>5. t # <<>>
    BY <2>4
  <2>6. t[1] = b[i]
    BY <2>1, <2>2, <2>4
  <2>7. t[1] # "quote"
    BY <1>1, <2>6
  <2> QED
    BY <2>2, <2>3, <2>5, <2>7, HereInLine DEF Here, x, t
<1>8. f[p - 1] = g[p - 1]
  <2> DEFINE S == {i \in 0 .. p - 1 : f[i] = g[i]}
  <2>1. 0 \in S
    BY <1>2, <1>4, <1>5 DEF Tokenizes
  <2>2. ASSUME NEW i \in 0 .. (p - 1) - 1, i \in S
        PROVE  i + 1 \in S
    <3>1. i + 1 \in 1 .. Len(w) /\ i + 1 \in 1 .. Len(b) /\ i + 1 \in 1 .. p - 1 /\ (i + 1) - 1 = i
      BY <1>1
    <3>2. /\ f[i + 1] = ReadOn(w, Len(w), i + 1, f[i])
          /\ g[i + 1] = ReadOn(b, Len(b), i + 1, g[i])
      BY <1>4, <1>5, <3>1 DEF Tokenizes
    <3>3. Here(w, i + 1) = Here(b, i + 1) /\ f[i] = g[i]
      BY <1>7, <2>2, <3>1
    <3> DEFINE Of(r) == IF i + 1 < f[i].next THEN f[i]
                        ELSE [tokens |-> f[i].tokens \o r.tokens, errors |-> f[i].errors \o r.errors,
                              next |-> i + 1 + r.length]
    <3>6. ReadOn(w, Len(w), i + 1, f[i]) = Of(Here(w, i + 1))
      BY <3>1, OnwardIs
    <3>7. ReadOn(b, Len(b), i + 1, f[i]) = Of(Here(b, i + 1))
      BY <1>1, <3>1, OnwardIs
    <3> HIDE DEF Of
    <3>4. ReadOn(w, Len(w), i + 1, f[i]) = ReadOn(b, Len(b), i + 1, f[i])
      BY <3>3, <3>6, <3>7
    <3>5. i + 1 \in 0 .. p - 1
      BY <3>1
    <3> QED
      BY <3>2, <3>3, <3>4, <3>5
  <2>3. p - 1 \in Nat /\ p - 1 \in 0 .. p - 1
    BY <1>2
  <2>4. 0 .. p - 1 \subseteq S
    <3> HIDE DEF S
    <3> QED BY <2>1, <2>2, <2>3, Reached
  <2> QED
    BY <2>3, <2>4
<1>9. /\ g[p - 1] = Read(b, Len(b)) /\ g[p - 1] \in ReadUpTo(T, p - 1)
  BY <1>1, <1>2, <1>5 DEF Tokenizes
<1> DEFINE B == g[p - 1]
<1>10. B.tokens \in Seq(Tokens(T)) /\ B.errors \in Seq(Complaint) /\ B.next \in 1 .. p
  BY <1>9 DEF ReadUpTo
<1>11. Here(w, p) = Nothing(1)
  <2>1. p - 1 \in 0 .. Len(w) /\ 1 \in 1 .. Len(w) - (p - 1) /\ p - 1 + 1 = p
    BY <1>2
  <2>2. Rest(w, p - 1)[1] = "newline"
    BY <2>1, RestIs
  <2> QED
    BY <2>2, NewlineIs, Zenon DEF Here, ReadHere
<1>12. f[p] = [tokens |-> B.tokens, errors |-> B.errors, next |-> p + 1]
  <2>1. f[p] = ReadOn(w, Len(w), p, B)
    BY <1>4, <1>8 DEF Tokenizes
  <2> HIDE DEF B
  <2>2. /\ B.tokens \o <<>> = B.tokens /\ B.errors \o <<>> = B.errors
        /\ ~(p < B.next)
    BY <1>10
  <2>3. Nothing(1).tokens = <<>> /\ Nothing(1).errors = <<>> /\ Nothing(1).length = 1
    BY DEF Nothing
  <2>4. ReadOn(w, Len(w), p, B) =
          IF p < B.next THEN B
          ELSE [tokens |-> B.tokens \o Nothing(1).tokens, errors |-> B.errors \o Nothing(1).errors,
                next |-> p + Nothing(1).length]
    BY <1>11, OnwardIs
  <2> QED
    BY <2>1, <2>2, <2>3, <2>4
<1>13. ASSUME NEW i \in 1 .. Len(a)
       PROVE  Here(w, p + i) = Here(a, i)
  <2>1. i - 1 \in 0 .. Len(w) - p /\ (p + i) - 1 = p + (i - 1)
    BY <1>2, <1>3
  <2>2. Rest(w, (p + i) - 1) = Rest(a, i - 1)
    BY <1>2, <2>1, RestOfRest
  <2> QED
    BY <2>2 DEF Here
<1> DEFINE S == {i \in 0 .. Len(a) : f[p + i] = [tokens |-> B.tokens \o h[i].tokens,
                                                errors |-> B.errors \o h[i].errors,
                                                next |-> p + h[i].next]}
<1> HIDE DEF B
<1>14. 0 \in S
  <2>1. h[0] = Beginning
    BY <1>6 DEF Tokenizes
  <2>2. /\ B.tokens \o <<>> = B.tokens /\ B.errors \o <<>> = B.errors
    BY <1>10
  <2>3. Beginning.tokens = <<>> /\ Beginning.errors = <<>> /\ Beginning.next = 1
    BY DEF Beginning
  <2>4. p + 0 = p /\ 0 \in 0 .. Len(a)
    BY <1>2, <1>3
  <2> QED
    BY <1>12, <2>1, <2>2, <2>3, <2>4
<1>15. ASSUME NEW i \in 0 .. Len(a) - 1, i \in S
       PROVE  i + 1 \in S
  <2>1. /\ i + 1 \in 1 .. Len(a) /\ p + (i + 1) \in 1 .. Len(w) /\ (i + 1) - 1 = i
        /\ (p + (i + 1)) - 1 = p + i /\ i \in 0 .. Len(a) /\ i + 1 \in 0 .. Len(a)
    BY <1>2, <1>3
  <2> DEFINE r == Here(a, i + 1)
  <2>2. f[p + (i + 1)] = ReadOn(w, Len(w), p + (i + 1), f[p + i])
    BY <1>4, <2>1 DEF Tokenizes
  <2>3. h[i + 1] = ReadOn(a, Len(a), i + 1, h[i])
    BY <1>6, <2>1 DEF Tokenizes
  <2>4. h[i] \in ReadUpTo(T, Len(a))
    BY <1>6, <2>1 DEF Tokenizes
  <2>5. h[i].tokens \in Seq(Tokens(T)) /\ h[i].errors \in Seq(Complaint) /\ h[i].next \in Nat
    BY <1>3, <2>4 DEF ReadUpTo
  <2>6. r \in Readings(T, Len(a) - (i + 1) + 1) /\ Here(w, p + (i + 1)) = r
    BY <1>3, <1>13, <2>1, OnwardIs
  <2>7. r.tokens \in Seq(Tokens(T)) /\ r.errors \in Seq(Complaint) /\ r.length \in Nat
    BY <1>3, <2>1, <2>6 DEF Readings
  <2> HIDE DEF r
  <2>8. f[p + i] = [tokens |-> B.tokens \o h[i].tokens, errors |-> B.errors \o h[i].errors,
                    next |-> p + h[i].next]
    BY <1>15
  <2> DEFINE c == f[p + i]
  <2>9. /\ c.tokens = B.tokens \o h[i].tokens /\ c.errors = B.errors \o h[i].errors
        /\ c.next = p + h[i].next
    <3> DEFINE d == B.tokens \o h[i].tokens
               e == B.errors \o h[i].errors
               n == p + h[i].next
    <3>1. c = [tokens |-> d, errors |-> e, next |-> n]
      BY <2>8
    <3> HIDE DEF c, d, e, n
    <3>2. c.tokens = d /\ c.errors = e /\ c.next = n
      BY <3>1
    <3> QED
      BY <3>2 DEF d, e, n
  <2>10. ReadOn(w, Len(w), p + (i + 1), c) =
           IF p + (i + 1) < c.next THEN c
           ELSE [tokens |-> c.tokens \o r.tokens, errors |-> c.errors \o r.errors,
                 next |-> p + (i + 1) + r.length]
    BY <2>1, <2>6, OnwardIs
  <2>11. ReadOn(a, Len(a), i + 1, h[i]) =
           IF i + 1 < h[i].next THEN h[i]
           ELSE [tokens |-> h[i].tokens \o r.tokens, errors |-> h[i].errors \o r.errors,
                 next |-> i + 1 + r.length]
    BY <1>3, <2>1, OnwardIs DEF r
  <2>12. /\ (B.tokens \o h[i].tokens) \o r.tokens = B.tokens \o (h[i].tokens \o r.tokens)
         /\ (B.errors \o h[i].errors) \o r.errors = B.errors \o (h[i].errors \o r.errors)
    <3>1. (B.tokens \o h[i].tokens) \o r.tokens = B.tokens \o (h[i].tokens \o r.tokens)
      <4>1. B.tokens \in Seq(Tokens(T)) /\ h[i].tokens \in Seq(Tokens(T)) /\ r.tokens \in Seq(Tokens(T))
        BY <1>10, <2>5, <2>7
      <4> DEFINE x == B.tokens
                 y == h[i].tokens
                 z == r.tokens
                 X == Tokens(T)
      <4>2. x \in Seq(X) /\ y \in Seq(X) /\ z \in Seq(X)
        BY <4>1
      <4> HIDE DEF x, y, z, X
      <4>3. (x \o y) \o z = x \o (y \o z)
        BY <4>2, ConcatAssociative
      <4> QED
        BY <4>3 DEF x, y, z
    <3>2. (B.errors \o h[i].errors) \o r.errors = B.errors \o (h[i].errors \o r.errors)
      <4>1. B.errors \in Seq(Complaint) /\ h[i].errors \in Seq(Complaint) /\ r.errors \in Seq(Complaint)
        BY <1>10, <2>5, <2>7
      <4> DEFINE x == B.errors
                 y == h[i].errors
                 z == r.errors
                 X == Complaint
      <4>2. x \in Seq(X) /\ y \in Seq(X) /\ z \in Seq(X)
        BY <4>1
      <4> HIDE DEF x, y, z, X
      <4>3. (x \o y) \o z = x \o (y \o z)
        BY <4>2, ConcatAssociative
      <4> QED
        BY <4>3 DEF x, y, z
    <3> QED
      BY <3>1, <3>2
  <2> HIDE DEF c
  <2>13. CASE i + 1 < h[i].next
    <3>1. p + (i + 1) < c.next
      BY <1>2, <2>1, <2>5, <2>9, <2>13
    <3>2. f[p + (i + 1)] = c /\ h[i + 1] = h[i]
      BY <2>2, <2>3, <2>10, <2>11, <2>13, <3>1 DEF c
    <3> QED
      BY <2>1, <2>8, <3>2 DEF c
  <2>14. CASE ~(i + 1 < h[i].next)
    <3>1. ~(p + (i + 1) < c.next)
      BY <1>2, <2>1, <2>5, <2>9, <2>14
    <3>2. /\ f[p + (i + 1)] = [tokens |-> c.tokens \o r.tokens, errors |-> c.errors \o r.errors,
                               next |-> p + (i + 1) + r.length]
          /\ h[i + 1] = [tokens |-> h[i].tokens \o r.tokens, errors |-> h[i].errors \o r.errors,
                         next |-> i + 1 + r.length]
      BY <2>2, <2>3, <2>10, <2>11, <2>14, <3>1 DEF c
    <3>3. p + (i + 1) + r.length = p + (i + 1 + r.length)
      <4>1. i \in Nat
        OBVIOUS
      <4>2. p \in Nat /\ r.length \in Nat
        BY <1>2, <2>7
      <4> DEFINE k == r.length
      <4>3. k \in Nat
        BY <4>2
      <4> HIDE DEF k
      <4>4. p + (i + 1) + k = p + (i + 1 + k)
        BY <4>1, <4>2, <4>3
      <4> QED
        BY <4>4 DEF k
    <3> DEFINE d == h[i].tokens \o r.tokens
               e == h[i].errors \o r.errors
               n == i + 1 + r.length
    <3>5. h[i + 1] = [tokens |-> d, errors |-> e, next |-> n]
      BY <3>2
    <3>6. c.tokens \o r.tokens = B.tokens \o d /\ c.errors \o r.errors = B.errors \o e
      BY <2>9, <2>12
    <3>7. f[p + (i + 1)] = [tokens |-> B.tokens \o d, errors |-> B.errors \o e, next |-> p + n]
      BY <3>2, <3>3, <3>6
    <3> HIDE DEF d, e, n
    <3>8. h[i + 1].tokens = d /\ h[i + 1].errors = e /\ h[i + 1].next = n
      BY <3>5
    <3>4. f[p + (i + 1)] = [tokens |-> B.tokens \o h[i + 1].tokens,
                            errors |-> B.errors \o h[i + 1].errors, next |-> p + h[i + 1].next]
      BY <3>7, <3>8
    <3> QED
      BY <2>1, <3>4
  <2> QED
    BY <2>13, <2>14
<1>16. Len(a) \in S
  <2>1. Len(a) \in Nat /\ Len(a) \in 0 .. Len(a)
    BY <1>3
  <2> HIDE DEF S
  <2>2. 0 .. Len(a) \subseteq S
    BY <1>14, <1>15, <2>1, Reached
  <2> QED
    BY <2>1, <2>2
<1>17. p + Len(a) = Len(w)
  BY <1>2, <1>3
<1>18. /\ Read(w, Len(w)) = f[Len(w)] /\ Read(a, Len(a)) = h[Len(a)] /\ Read(b, Len(b)) = B
       /\ h[Len(a)] \in ReadUpTo(T, Len(a)) /\ B \in ReadUpTo(T, Len(b))
  <2>1. Len(a) \in 0 .. Len(a)
    BY <1>3
  <2> QED
    BY <1>1, <1>4, <1>6, <1>9, <2>1 DEF Tokenizes, B
<1>19. f[Len(w)] = [tokens |-> B.tokens \o h[Len(a)].tokens, errors |-> B.errors \o h[Len(a)].errors,
                    next |-> p + h[Len(a)].next]
  BY <1>16, <1>17
<1> DEFINE d == B.tokens \o h[Len(a)].tokens
           e == B.errors \o h[Len(a)].errors
           n == p + h[Len(a)].next
<1>20. f[Len(w)].tokens = d /\ f[Len(w)].errors = e
  <2>1. f[Len(w)] = [tokens |-> d, errors |-> e, next |-> n]
    BY <1>19
  <2> HIDE DEF d, e, n
  <2> QED
    BY <2>1
<1> QED
  BY <1>18, <1>20

-----------------------------------------------------------------------------
(* What is left of two sequences is what is left of what is left of each.  *)
LEMMA AtMostIs ==
  ASSUME NEW T, NEW s \in Seq(T), NEW k \in Nat
  PROVE  /\ AtMost(k, s) \in Seq(T)
         /\ Len(AtMost(k, s)) = IF Len(s) < k THEN Len(s) ELSE k
         /\ \A j \in 1 .. Len(AtMost(k, s)) : AtMost(k, s)[j] = s[j]
<1> DEFINE n == IF Len(s) < k THEN Len(s) ELSE k
<1>1. n \in 0 .. Len(s)
  OBVIOUS
<1>2. AtMost(k, s) = SubSeq(s, 1, n)
  BY DEF AtMost
<1> HIDE DEF n
<1>3. 1 \in Int /\ n \in Int /\ n - 1 + 1 = n /\ \A j \in 1 .. n : s[j] \in T
  BY <1>1
<1>4. /\ SubSeq(s, 1, n) \in Seq(T)
      /\ Len(SubSeq(s, 1, n)) = IF 1 <= n THEN n - 1 + 1 ELSE 0
      /\ \A j \in 1 .. n - 1 + 1 : SubSeq(s, 1, n)[j] = s[1 + j - 1]
  BY <1>3, SubSeqProperties
<1>5. \A j \in 1 .. n : 1 + j - 1 = j
  BY <1>1
<1>6. Len(AtMost(k, s)) = n
  BY <1>1, <1>2, <1>4
<1>7. \A j \in 1 .. n : AtMost(k, s)[j] = s[j]
  BY <1>2, <1>3, <1>4, <1>5
<1> QED
  BY <1>2, <1>4, <1>6, <1>7 DEF n

LEMMA AtMostTwice ==
  ASSUME NEW T, NEW s \in Seq(T), NEW t \in Seq(T), NEW k \in Nat
  PROVE  AtMost(k, s \o t) = AtMost(k, AtMost(k, s) \o AtMost(k, t))
<1> DEFINE a == AtMost(k, s)
           b == AtMost(k, t)
           u == AtMost(k, s \o t)
           v == AtMost(k, a \o b)
<1>1. /\ a \in Seq(T) /\ Len(a) = (IF Len(s) < k THEN Len(s) ELSE k)
      /\ \A j \in 1 .. Len(a) : a[j] = s[j]
  BY AtMostIs
<1>2. /\ b \in Seq(T) /\ Len(b) = (IF Len(t) < k THEN Len(t) ELSE k)
      /\ \A j \in 1 .. Len(b) : b[j] = t[j]
  BY AtMostIs
<1>3. /\ s \o t \in Seq(T) /\ Len(s \o t) = Len(s) + Len(t)
      /\ \A j \in 1 .. Len(s) + Len(t) : (s \o t)[j] = IF j <= Len(s) THEN s[j] ELSE t[j - Len(s)]
  BY ConcatProperties
<1> HIDE DEF a, b
<1>4. /\ a \o b \in Seq(T) /\ Len(a \o b) = Len(a) + Len(b)
      /\ \A j \in 1 .. Len(a) + Len(b) : (a \o b)[j] = IF j <= Len(a) THEN a[j] ELSE b[j - Len(a)]
  BY <1>1, <1>2, ConcatProperties
<1>5. /\ u \in Seq(T) /\ Len(u) = (IF Len(s \o t) < k THEN Len(s \o t) ELSE k)
      /\ \A j \in 1 .. Len(u) : u[j] = (s \o t)[j]
  BY <1>3, AtMostIs
<1>6. /\ v \in Seq(T) /\ Len(v) = (IF Len(a \o b) < k THEN Len(a \o b) ELSE k)
      /\ \A j \in 1 .. Len(v) : v[j] = (a \o b)[j]
  BY <1>4, AtMostIs
<1> HIDE DEF u, v
<1>7. Len(s) \in Nat /\ Len(t) \in Nat /\ k \in Nat
  OBVIOUS
<1>8. Len(u) = Len(v) /\ Len(u) <= k /\ Len(u) <= Len(s) + Len(t) /\ Len(u) \in Nat
  <2> DEFINE m == Len(s)
             n == Len(t)
             c == Len(a)
             d == Len(b)
  <2>1. /\ m \in Nat /\ n \in Nat /\ k \in Nat
        /\ c = (IF m < k THEN m ELSE k) /\ d = (IF n < k THEN n ELSE k)
        /\ Len(u) = (IF m + n < k THEN m + n ELSE k)
        /\ Len(v) = (IF c + d < k THEN c + d ELSE k)
    BY <1>1, <1>2, <1>3, <1>4, <1>5, <1>6, <1>7
  <2> HIDE DEF m, n, c, d
  <2>2. Len(u) = Len(v) /\ Len(u) <= k /\ Len(u) <= m + n /\ Len(u) \in Nat
    BY <2>1
  <2> QED
    BY <2>2 DEF m, n
<1>9. ASSUME NEW j \in 1 .. Len(u)
      PROVE  u[j] = v[j]
  <2>1. /\ j \in Nat /\ 1 <= j /\ j <= k /\ j \in 1 .. Len(s) + Len(t)
        /\ j \in 1 .. Len(v) /\ j \in 1 .. Len(a) + Len(b)
    <3>1. /\ Len(v) = (IF Len(a) + Len(b) < k THEN Len(a) + Len(b) ELSE k)
          /\ Len(a) \in Nat /\ Len(b) \in Nat
      BY <1>1, <1>2, <1>4, <1>6
    <3> QED
      BY <1>7, <1>8, <3>1
  <2>2. u[j] = (s \o t)[j] /\ v[j] = (a \o b)[j]
    BY <1>5, <1>6, <2>1
  <2>3. CASE j <= Len(s)
    <3>1. j \in 1 .. Len(a) /\ j <= Len(a)
      BY <1>1, <1>7, <2>1, <2>3
    <3> QED
      BY <1>1, <1>3, <1>4, <2>1, <2>2, <2>3, <3>1
  <2>4. CASE ~(j <= Len(s))
    <3>1. Len(a) = Len(s) /\ ~(j <= Len(a)) /\ j - Len(s) \in 1 .. Len(b)
      BY <1>1, <1>2, <1>7, <2>1, <2>4
    <3>2. b[j - Len(s)] = t[j - Len(s)]
      BY <1>2, <3>1
    <3> QED
      BY <1>3, <1>4, <2>1, <2>2, <2>4, <3>1, <3>2
  <2> QED
    BY <2>3, <2>4
<1>10. u = v
  BY <1>5, <1>6, <1>8, <1>9, SeqEqual
<1> QED
  BY <1>10 DEF u, v, a, b

-----------------------------------------------------------------------------
(* The lines of a text are read alone: what was typed is always a sequence *)
(* of characters, and of these it is a fact.                               *)
TypedInv == typed \in Seq(Typed)

LEMMA LinesOf ==
  ASSUME TypedInv
  PROVE  LinesAreReadAlone
<1> SUFFICES ASSUME NEW p \in Splits
             PROVE  LET before == Alone(SubSeq(typed, 1, p - 1))
                        after == Alone(Rest(typed, p))
                        whole == Alone(typed)
                    IN /\ whole.tokens = AtMost(MostTokens, before.tokens \o after.tokens)
                       /\ whole.errors = AtMost(MostErrors, before.errors \o after.errors)
  BY DEF LinesAreReadAlone
<1> DEFINE b == SubSeq(typed, 1, p - 1)
           a == Rest(typed, p)
<1>1. typed \in Seq(Typed) /\ p \in 1 .. Len(typed) /\ typed[p] = "newline"
  BY DEF TypedInv, Splits
<1>2. \A j \in 1 .. p - 1 : typed[j] # "quote"
  BY DEF Splits
<1>3. /\ Read(typed, Len(typed)).tokens = Read(b, Len(b)).tokens \o Read(a, Len(a)).tokens
      /\ Read(typed, Len(typed)).errors = Read(b, Len(b)).errors \o Read(a, Len(a)).errors
      /\ Read(b, Len(b)) \in ReadUpTo(Typed, Len(b)) /\ Read(a, Len(a)) \in ReadUpTo(Typed, Len(a))
  BY <1>1, <1>2, LineApart
<1> DEFINE B == Read(b, Len(b))
           A == Read(a, Len(a))
<1>4. /\ B.tokens \in Seq(Tokens(Typed)) /\ A.tokens \in Seq(Tokens(Typed))
      /\ B.errors \in Seq(Complaint) /\ A.errors \in Seq(Complaint)
  BY <1>3 DEF ReadUpTo
<1>5. \A m : /\ Alone(m).tokens = AtMost(MostTokens, Read(m, Len(m)).tokens)
             /\ Alone(m).errors = AtMost(MostErrors, Read(m, Len(m)).errors)
  BY DEF Alone, Tokenize
<1>6. /\ Alone(b).tokens = AtMost(MostTokens, B.tokens) /\ Alone(a).tokens = AtMost(MostTokens, A.tokens)
      /\ Alone(b).errors = AtMost(MostErrors, B.errors) /\ Alone(a).errors = AtMost(MostErrors, A.errors)
      /\ Alone(typed).tokens = AtMost(MostTokens, B.tokens \o A.tokens)
      /\ Alone(typed).errors = AtMost(MostErrors, B.errors \o A.errors)
  BY <1>3, <1>5
<1> HIDE DEF A, B, a, b
<1>7. AtMost(MostTokens, B.tokens \o A.tokens)
        = AtMost(MostTokens, AtMost(MostTokens, B.tokens) \o AtMost(MostTokens, A.tokens))
  BY <1>4, AtMostTwice, ReaderAssumption
<1>8. AtMost(MostErrors, B.errors \o A.errors)
        = AtMost(MostErrors, AtMost(MostErrors, B.errors) \o AtMost(MostErrors, A.errors))
  BY <1>4, AtMostTwice, ReaderAssumption
<1> QED
  BY <1>6, <1>7, <1>8 DEF a, b

(* Text that is typed is read line by line, however long it is and however *)
(* many tokens and errors it has, with a string that goes over several     *)
(* lines excepted (signal_engine/token.cpp).                               *)
THEOREM LinesAlwaysAlone == ReaderSpec => []LinesAreReadAlone
<1>1. ReaderInit => TypedInv
  BY DEF ReaderInit, TypedInv
<1>2. ASSUME TypedInv, [ReaderNext]_reader
      PROVE  TypedInv'
  <2>1. ASSUME NEW c \in Typed, Type(c)
        PROVE  TypedInv'
    BY <1>2, <2>1 DEF TypedInv, Type
  <2>2. ASSUME NEW s \in Sources, Store(s)
        PROVE  TypedInv'
    BY <1>2, <2>2 DEF TypedInv, Store
  <2>3. CASE UNCHANGED reader
    BY <1>2, <2>3 DEF TypedInv, reader
  <2> QED
    BY <1>2, <2>1, <2>2, <2>3 DEF ReaderNext
<1> QED
  BY <1>1, <1>2, LinesOf, PTL DEF ReaderSpec

=============================================================================
