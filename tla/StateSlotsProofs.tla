-------------------------- MODULE StateSlotsProofs --------------------------
(* Theorems about StateSlots, for every value of its constants.            *)
EXTENDS StateSlots, BoundedRecursion

-----------------------------------------------------------------------------
(* What the variables hold.                                                *)
Cells == [Name -> [kind : {"Empty", "Number", "Other"}, mark : BOOLEAN, index : Slot]]

Slots ==
  [count    : 0 .. MaxSlots,
   values   : [Slot -> [of : Owner, moved : BOOLEAN]],
   laws     : [Slot -> [of : Owner, text : Text] \cup {NoLaw}],
   registry : [Id -> Slot \cup {NoSlot}],
   sources  : [Slot -> [of : Owner, text : Text \cup {NoText}, deps : SUBSET Name]]]

TypeOK ==
  /\ cells \in Cells
  /\ tables \in 0 .. MaxTables
  /\ program \in [Output -> Text \cup {NoText}]
  /\ running \subseteq {o \in Output : program[o] # NoText}
  /\ deps \in [Output -> SUBSET Name]
  /\ slots \in Slots
  /\ sound \in BOOLEAN

(* Whoever has a slot, with the cells cs and the slots E: an identifier    *)
(* that is registered, and a cell with the mark, for a state cell that is  *)
(* bound to an expression and then to a number has its slot back.          *)
Keepers(cs, E) == {n \in Name : cs[n].mark} \cup {i \in Id : E.registry[i] # NoSlot}

At(cs, E, o) == IF o \in Name THEN cs[o].index ELSE E.registry[o]

(* Each has its own state in its slot and, but for those in X, whose law   *)
(* is being compiled, its own law, which for a cell is the latest update.  *)
(* A slot has an update's source only since a cell's defstate, and a clear *)
(* with such a cell there is not sound: so a slot that is given out anew   *)
(* never has the source of an older owner, which a change would compile.   *)
HasOwn(cs, E, X, o) ==
  LET s == At(cs, E, o)
  IN /\ s < E.count /\ E.values[s].of = o
     /\ E.sources[s].text # NoText => E.sources[s].of = o
     /\ o \notin X /\ E.laws[s] # NoLaw =>
          /\ E.laws[s].of = o
          /\ o \in Name => E.laws[s].text = E.sources[s].text

OfACell(cs, E, s) ==
  E.sources[s].text # NoText =>
    s < E.count /\ E.sources[s].of \in Name /\ cs[E.sources[s].of].mark

Apart(cs, E, X) ==
  /\ \A o \in Keepers(cs, E) : HasOwn(cs, E, X, o)
  /\ \A s \in Slot : OfACell(cs, E, s)

SlotsInv == TypeOK /\ (sound => Apart(cells, slots, {}))

-----------------------------------------------------------------------------
(* A loop over the outputs, or over the state updates, ends in a set that  *)
(* no turn of it leaves.                                                   *)
LEMMA OutputsStay ==
  ASSUME NEW c, NEW cs, NEW Y, NEW E \in Y,
         \A F \in Y, o \in Output : ChangeOutput(c, cs, F, o) \in Y
  PROVE OutputsChanged(c, cs, E) \in Y
<1> DEFINE g == [p \in (1 .. Outputs) \X Y |-> ChangeOutput(c, cs, p[2], p[1] - 1)]
<1>1. Outputs \in Nat /\ \A i \in 1 .. Outputs : i - 1 \in Output
  BY LimitAssumption DEF Output
<1>2. \A i \in 1 .. Outputs, F \in Y : g[<<i, F>>] = ChangeOutput(c, cs, F, i - 1)
  OBVIOUS
<1>3. Stays(g, Outputs, Y)
  BY <1>1, <1>2 DEF Stays
<1> HIDE DEF g
<1>4. PICK f \in [0 .. Outputs -> Y] : Follows(f, g, Outputs, E)
  BY <1>1, <1>3, Recursion
<1>5. f = [i \in 0 .. Outputs |-> IF i = 0 THEN E ELSE ChangeOutput(c, cs, f[i - 1], i - 1)]
  <2>1. ASSUME NEW i \in 1 .. Outputs
        PROVE  f[i] = ChangeOutput(c, cs, f[i - 1], i - 1)
    <3>1. i - 1 \in 0 .. Outputs /\ f[i - 1] \in Y
      BY <1>1
    <3>2. QED
      BY <3>1, <1>2, <1>4 DEF Follows
  <2>2. \A i \in 0 .. Outputs : i # 0 => i \in 1 .. Outputs
    BY <1>1
  <2>3. QED
    BY <1>4, <2>1, <2>2 DEF Follows
<1> DEFINE after[i \in 0 .. Outputs] ==
             IF i = 0 THEN E ELSE ChangeOutput(c, cs, after[i - 1], i - 1)
<1>6. after = [i \in 0 .. Outputs |->
                 IF i = 0 THEN E ELSE ChangeOutput(c, cs, after[i - 1], i - 1)]
  BY <1>5, Zenon
<1>7. OutputsChanged(c, cs, E) = after[Outputs]
  BY DEF OutputsChanged
<1> HIDE DEF after
<1> DEFINE S == {i \in 0 .. Outputs : after[i] \in Y}
<1>8. 0 \in S
  BY <1>1, <1>6
<1>9. ASSUME NEW n \in 0 .. Outputs - 1, n \in S PROVE n + 1 \in S
  <2>1. n + 1 \in 0 .. Outputs /\ n + 1 # 0 /\ (n + 1) - 1 = n /\ n \in Output
    BY <1>1 DEF Output
  <2>2. after[n + 1] = ChangeOutput(c, cs, after[n], n)
    BY <1>6, <2>1
  <2>3. QED
    BY <1>9, <2>1, <2>2
<1>10. 0 .. Outputs \subseteq S
  <2> HIDE DEF S
  <2> QED BY <1>1, <1>8, <1>9, Reached
<1>11. QED
  BY <1>1, <1>7, <1>10

LEMMA UpdatesStay ==
  ASSUME NEW c, NEW cs, NEW Y, NEW E \in Y,
         \A F \in Y, s \in Slot : ChangeUpdate(c, cs, F, s) \in Y
  PROVE UpdatesChanged(c, cs, E) \in Y
<1> DEFINE g == [p \in (1 .. MaxSlots) \X Y |-> ChangeUpdate(c, cs, p[2], p[1] - 1)]
<1>1. MaxSlots \in Nat /\ \A i \in 1 .. MaxSlots : i - 1 \in Slot
  BY LimitAssumption DEF Slot
<1>2. \A i \in 1 .. MaxSlots, F \in Y : g[<<i, F>>] = ChangeUpdate(c, cs, F, i - 1)
  OBVIOUS
<1>3. Stays(g, MaxSlots, Y)
  BY <1>1, <1>2 DEF Stays
<1> HIDE DEF g
<1>4. PICK f \in [0 .. MaxSlots -> Y] : Follows(f, g, MaxSlots, E)
  BY <1>1, <1>3, Recursion
<1>5. f = [i \in 0 .. MaxSlots |-> IF i = 0 THEN E ELSE ChangeUpdate(c, cs, f[i - 1], i - 1)]
  <2>1. ASSUME NEW i \in 1 .. MaxSlots
        PROVE  f[i] = ChangeUpdate(c, cs, f[i - 1], i - 1)
    <3>1. i - 1 \in 0 .. MaxSlots /\ f[i - 1] \in Y
      BY <1>1
    <3>2. QED
      BY <3>1, <1>2, <1>4 DEF Follows
  <2>2. \A i \in 0 .. MaxSlots : i # 0 => i \in 1 .. MaxSlots
    BY <1>1
  <2>3. QED
    BY <1>4, <2>1, <2>2 DEF Follows
<1> DEFINE after[i \in 0 .. MaxSlots] ==
             IF i = 0 THEN E ELSE ChangeUpdate(c, cs, after[i - 1], i - 1)
<1>6. after = [i \in 0 .. MaxSlots |->
                 IF i = 0 THEN E ELSE ChangeUpdate(c, cs, after[i - 1], i - 1)]
  BY <1>5, Zenon
<1>7. UpdatesChanged(c, cs, E) = after[MaxSlots]
  BY DEF UpdatesChanged
<1> HIDE DEF after
<1> DEFINE S == {i \in 0 .. MaxSlots : after[i] \in Y}
<1>8. 0 \in S
  BY <1>1, <1>6
<1>9. ASSUME NEW n \in 0 .. MaxSlots - 1, n \in S PROVE n + 1 \in S
  <2>1. n + 1 \in 0 .. MaxSlots /\ n + 1 # 0 /\ (n + 1) - 1 = n /\ n \in Slot
    BY <1>1 DEF Slot
  <2>2. after[n + 1] = ChangeUpdate(c, cs, after[n], n)
    BY <1>6, <2>1
  <2>3. QED
    BY <1>9, <2>1, <2>2
<1>10. 0 .. MaxSlots \subseteq S
  <2> HIDE DEF S
  <2> QED BY <1>1, <1>8, <1>9, Reached
<1>11. QED
  BY <1>1, <1>7, <1>10

-----------------------------------------------------------------------------
(* What compiling a text does to the slots: nothing, the law of an         *)
(* identifier's slot, or the next slot with its law.                       *)
LawGiven(E, s, t) == [E EXCEPT !.laws = [E.laws EXCEPT ![s] = [of |-> Op[t], text |-> t]]]

NextGiven(E, t) ==
  [count    |-> E.count + 1,
   values   |-> [E.values EXCEPT ![E.count] = [of |-> Op[t], moved |-> FALSE]],
   laws     |-> [E.laws EXCEPT ![E.count] = [of |-> Op[t], text |-> t]],
   registry |-> IF Op[t] \in Id THEN [E.registry EXCEPT ![Op[t]] = E.count] ELSE E.registry,
   sources  |-> E.sources]

LEMMA CompileCases ==
  ASSUME NEW E \in Slots, NEW t \in Text, NEW cs
  PROVE  \/ Compile(E, t, cs) = E
         \/ /\ Op[t] \in Id /\ E.registry[Op[t]] \in Slot
            /\ Compile(E, t, cs) = LawGiven(E, E.registry[Op[t]], t)
         \/ /\ E.count < MaxSlots /\ Op[t] \in Id \cup {Anonymous}
            /\ Op[t] \in Id => E.registry[Op[t]] = NoSlot
            /\ Compile(E, t, cs) = NextGiven(E, t)
<1>1. Op[t] \in Id \cup {Anonymous, NoOp}
  BY TextAssumption
<1>2. CASE ~GetsSlot(E, t, cs)
  BY <1>2 DEF Compile
<1>3. CASE GetsSlot(E, t, cs) /\ Resolved(E, t)
  <2>1. Op[t] \in Id /\ E.registry[Op[t]] \in Slot
    BY <1>3 DEF Resolved, Slots
  <2>2. Compile(E, t, cs) = LawGiven(E, E.registry[Op[t]], t)
    BY <1>3 DEF Compile, Install, LawGiven
  <2>3. QED
    BY <2>1, <2>2
<1>4. CASE GetsSlot(E, t, cs) /\ ~Resolved(E, t)
  <2>1. /\ E.count < MaxSlots /\ Op[t] \in Id \cup {Anonymous}
        /\ Op[t] \in Id => E.registry[Op[t]] = NoSlot
    BY <1>1, <1>4 DEF GetsSlot, Resolved
  <2> DEFINE value == [of |-> Op[t], moved |-> FALSE]
             law == [of |-> Op[t], text |-> t]
  <2>2. Install(Alloc(E, Op[t]), E.count, Op[t], t) = [NextGiven(E, t) EXCEPT !.registry = E.registry]
    <3>1. Alloc(E, Op[t]) = [count |-> E.count + 1, values |-> [E.values EXCEPT ![E.count] = value],
                             laws |-> E.laws, registry |-> E.registry, sources |-> E.sources]
      <4>1. E = [count |-> E.count, values |-> E.values, laws |-> E.laws,
                 registry |-> E.registry, sources |-> E.sources]
        BY DEF Slots
      <4>2. Alloc(E, Op[t]) = [E EXCEPT !.count = E.count + 1,
                                        !.values = [E.values EXCEPT ![E.count] = value]]
        BY DEF Alloc, Slots
      <4>3. QED
        BY <4>1, <4>2
    <3>2. QED
      BY <3>1 DEF Install, NextGiven
  <2>3. Compile(E, t, cs) = NextGiven(E, t)
    BY <1>4, <2>2 DEF Compile, NextGiven
  <2>4. QED
    BY <2>1, <2>3
<1>5. QED
  BY <1>2, <1>3, <1>4

(* The records are what they look like.                                    *)
LEMMA GivenTypes ==
  ASSUME NEW E \in Slots, NEW t \in Text, Op[t] \in Id \cup {Anonymous}
  PROVE  /\ \A s \in Slot : LawGiven(E, s, t) \in Slots
         /\ E.count < MaxSlots => NextGiven(E, t) \in Slots
<1>1. Op[t] \in Owner /\ MaxSlots \in Nat
  BY LimitAssumption DEF Owner
<1>2. [of |-> Op[t], text |-> t] \in [of : Owner, text : Text]
  BY <1>1
<1>3. ASSUME NEW s \in Slot PROVE LawGiven(E, s, t) \in Slots
  BY <1>2 DEF LawGiven, Slots
<1>4. ASSUME E.count < MaxSlots PROVE NextGiven(E, t) \in Slots
  <2>1. E.count \in Slot /\ E.count + 1 \in 0 .. MaxSlots
    BY <1>1, <1>4 DEF Slots, Slot
  <2>2. [of |-> Op[t], moved |-> FALSE] \in [of : Owner, moved : BOOLEAN]
    BY <1>1
  <2>3. QED
    BY <1>2, <2>1, <2>2 DEF NextGiven, Slots
<1>5. QED
  BY <1>3, <1>4

LEMMA CompileType ==
  ASSUME NEW E \in Slots, NEW t \in Text, NEW cs
  PROVE  Compile(E, t, cs) \in Slots
  BY CompileCases, GivenTypes

(* A state that is kept in a slot in use is kept: F is later than E.       *)
Later(E, F) ==
  /\ E.count =< F.count
  /\ \A s \in Slot : s < E.count => F.values[s] = E.values[s]

LEMMA CompileIsLater ==
  ASSUME NEW E \in Slots, NEW t \in Text, NEW cs
  PROVE  Later(E, Compile(E, t, cs)) /\ Compile(E, t, cs).sources = E.sources
<1>1. E.count \in Nat
  BY DEF Slots
<1>2. ASSUME NEW s \in Slot
      PROVE  Later(E, LawGiven(E, s, t)) /\ LawGiven(E, s, t).sources = E.sources
  BY <1>1 DEF Later, LawGiven, Slots
<1>3. Later(E, NextGiven(E, t)) /\ NextGiven(E, t).sources = E.sources
  BY <1>1 DEF Later, NextGiven, Slots, Slot
<1>4. Later(E, E)
  BY <1>1 DEF Later
<1>5. QED
  BY <1>2, <1>3, <1>4, CompileCases

-----------------------------------------------------------------------------
(* Nobody shares a slot: its state is one owner's.                         *)
LEMMA NotShared ==
  ASSUME NEW cs, NEW E, NEW X, Apart(cs, E, X),
         NEW o \in Keepers(cs, E), NEW q \in Keepers(cs, E), At(cs, E, o) = At(cs, E, q)
  PROVE  o = q
  BY DEF Apart, HasOwn

LEMMA KeepersAreInside ==
  ASSUME NEW cs \in Cells, NEW E \in Slots, NEW o \in Keepers(cs, E)
  PROVE  At(cs, E, o) \in Slot
<1>1. CASE o \in Name
  BY <1>1 DEF At, Cells
<1>2. CASE o \notin Name
  BY <1>2 DEF At, Keepers, Slots
<1>3. QED
  BY <1>1, <1>2

(* The law of an identifier's slot disturbs nobody.                        *)
LEMMA LawApart ==
  ASSUME NEW cs \in Cells, NEW E \in Slots, NEW t \in Text, NEW X, Apart(cs, E, X),
         Op[t] \in Id, E.registry[Op[t]] \in Slot
  PROVE  Apart(cs, LawGiven(E, E.registry[Op[t]], t), X)
<1> DEFINE k == Op[t]
           s == E.registry[k]
           F == LawGiven(E, s, t)
<1>1. /\ k \in Keepers(cs, E) /\ k \notin Name /\ At(cs, E, k) = s
  BY TextAssumption DEF Keepers, At
<1>2. /\ F.count = E.count /\ F.values = E.values /\ F.sources = E.sources
      /\ F.registry = E.registry
      /\ \A r \in Slot : F.laws[r] = IF r = s THEN [of |-> k, text |-> t] ELSE E.laws[r]
  BY DEF LawGiven, Slots
<1> HIDE DEF F
<1>3. Keepers(cs, F) = Keepers(cs, E) /\ \A o : At(cs, F, o) = At(cs, E, o)
  BY <1>2 DEF Keepers, At
<1>4. ASSUME NEW o \in Keepers(cs, E) PROVE HasOwn(cs, F, X, o)
  <2>1. CASE At(cs, E, o) = s
    <3>1. o = k
      BY <1>1, <2>1, NotShared
    <3>2. QED
      BY <1>1, <1>2, <1>3, <2>1, <3>1 DEF HasOwn, Apart
  <2>2. CASE At(cs, E, o) # s
    <3>1. F.laws[At(cs, E, o)] = E.laws[At(cs, E, o)]
      BY <1>2, <2>2, KeepersAreInside
    <3>2. QED
      BY <1>2, <1>3, <3>1 DEF HasOwn, Apart
  <2>3. QED
    BY <2>1, <2>2
<1>5. \A r \in Slot : OfACell(cs, F, r)
  BY <1>2 DEF Apart, OfACell
<1>6. Apart(cs, F, X)
  BY <1>3, <1>4, <1>5 DEF Apart
<1>7. QED
  BY <1>6 DEF F

(* So does the next slot, which nobody has, with its law.                  *)
LEMMA NextApart ==
  ASSUME NEW cs \in Cells, NEW E \in Slots, NEW t \in Text, NEW X, Apart(cs, E, X),
         E.count < MaxSlots, Op[t] \in Id \cup {Anonymous}
  PROVE  Apart(cs, NextGiven(E, t), X)
<1> DEFINE k == Op[t]
           c == E.count
           F == NextGiven(E, t)
<1>1. c \in Slot /\ c \in Nat /\ k \notin Name
  BY LimitAssumption, TextAssumption DEF Slots, Slot
<1>2. /\ F.count = c + 1 /\ F.sources = E.sources
      /\ F.registry = IF k \in Id THEN [E.registry EXCEPT ![k] = c] ELSE E.registry
      /\ \A r \in Slot : F.laws[r] = IF r = c THEN [of |-> k, text |-> t] ELSE E.laws[r]
      /\ \A r \in Slot : F.values[r] = IF r = c THEN [of |-> k, moved |-> FALSE] ELSE E.values[r]
  BY DEF NextGiven, Slots
<1> HIDE DEF F
<1>3. \A i \in Id : F.registry[i] = IF i = k THEN c ELSE E.registry[i]
  BY <1>2 DEF Slots
<1>4. ASSUME NEW o \in Keepers(cs, F)
      PROVE  \/ o = k /\ o \in Id /\ At(cs, F, o) = c
             \/ /\ o \in Keepers(cs, E) /\ At(cs, F, o) = At(cs, E, o)
                /\ At(cs, E, o) \in Slot /\ At(cs, E, o) < c
  <2>1. CASE o = k
    BY <1>1, <1>3, <2>1 DEF Keepers, At
  <2>2. CASE o # k
    <3>1. o \in Keepers(cs, E) /\ At(cs, F, o) = At(cs, E, o)
      BY <1>3, <2>2 DEF Keepers, At
    <3>2. At(cs, E, o) \in Slot /\ At(cs, E, o) < c
      BY <3>1, KeepersAreInside DEF Apart, HasOwn
    <3>3. QED
      BY <3>1, <3>2
  <2>3. QED
    BY <2>1, <2>2
<1>5. E.sources[c].text = NoText
  BY <1>1 DEF Apart, OfACell
<1>6. ASSUME NEW o \in Keepers(cs, F) PROVE HasOwn(cs, F, X, o)
  <2>1. CASE o = k /\ o \in Id /\ At(cs, F, o) = c
    BY <1>1, <1>2, <1>5, <2>1 DEF HasOwn
  <2>2. CASE /\ o \in Keepers(cs, E) /\ At(cs, F, o) = At(cs, E, o)
             /\ At(cs, E, o) \in Slot /\ At(cs, E, o) < c
    <3>1. /\ F.values[At(cs, E, o)] = E.values[At(cs, E, o)]
          /\ F.laws[At(cs, E, o)] = E.laws[At(cs, E, o)]
          /\ At(cs, E, o) < F.count
      BY <1>1, <1>2, <2>2 DEF Slot
    <3>2. QED
      BY <1>2, <2>2, <3>1 DEF Apart, HasOwn
  <2>3. QED
    BY <1>4, <2>1, <2>2
<1>7. ASSUME NEW s \in Slot PROVE OfACell(cs, F, s)
  BY <1>1, <1>2 DEF Apart, OfACell, Slot
<1>8. Apart(cs, F, X)
  BY <1>6, <1>7 DEF Apart
<1>9. QED
  BY <1>8 DEF F

LEMMA CompileApart ==
  ASSUME NEW cs \in Cells, NEW E \in Slots, NEW t \in Text, NEW X, Apart(cs, E, X)
  PROVE  Apart(cs, Compile(E, t, cs), X)
  BY CompileCases, LawApart, NextApart

-----------------------------------------------------------------------------
(* The law of a slot becomes its source's.                                 *)
Sourced(E, s) ==
  [Install(E, s, E.sources[s].of, E.sources[s].text)
     EXCEPT !.sources[s].deps = Reads[E.sources[s].text]]

LEMMA SourcedParts ==
  ASSUME NEW E \in Slots, NEW s \in Slot, E.sources[s].text # NoText
  PROVE  LET F == Sourced(E, s)
         IN /\ F \in Slots
            /\ F.count = E.count /\ F.values = E.values /\ F.registry = E.registry
            /\ \A r \in Slot : F.laws[r] = IF r = s THEN [of |-> E.sources[s].of,
                                                         text |-> E.sources[s].text]
                                             ELSE E.laws[r]
            /\ \A r \in Slot : /\ F.sources[r].text = E.sources[r].text
                              /\ F.sources[r].of = E.sources[r].of
<1> DEFINE src == E.sources[s]
           law == [of |-> src.of, text |-> src.text]
           F == Sourced(E, s)
<1>1. src \in [of : Owner, text : Text, deps : SUBSET Name] /\ Reads[src.text] \subseteq Name
  BY TextAssumption DEF Slots
<1>2. E = [count |-> E.count, values |-> E.values, laws |-> E.laws,
           registry |-> E.registry, sources |-> E.sources]
  BY DEF Slots
<1>3. F = [count |-> E.count, values |-> E.values, laws |-> [E.laws EXCEPT ![s] = law],
           registry |-> E.registry,
           sources |-> [E.sources EXCEPT ![s] = [src EXCEPT !.deps = Reads[src.text]]]]
  <2>1. Install(E, s, src.of, src.text) =
          [count |-> E.count, values |-> E.values, laws |-> [E.laws EXCEPT ![s] = law],
           registry |-> E.registry, sources |-> E.sources]
    BY <1>2 DEF Install
  <2>2. [E.sources EXCEPT ![s].deps = Reads[src.text]]
          = [E.sources EXCEPT ![s] = [src EXCEPT !.deps = Reads[src.text]]]
    BY DEF Slots
  <2>3. QED
    BY <2>1, <2>2 DEF Sourced
<1>4. law \in [of : Owner, text : Text]
  BY <1>1
<1>5. [src EXCEPT !.deps = Reads[src.text]] \in [of : Owner, text : Text, deps : SUBSET Name]
  BY <1>1
<1>6. /\ [E.laws EXCEPT ![s] = law] \in [Slot -> [of : Owner, text : Text] \cup {NoLaw}]
      /\ [E.sources EXCEPT ![s] = [src EXCEPT !.deps = Reads[src.text]]]
           \in [Slot -> [of : Owner, text : Text \cup {NoText}, deps : SUBSET Name]]
  BY <1>4, <1>5 DEF Slots
<1>7. F \in Slots
  BY <1>3, <1>6 DEF Slots
<1>8. \A r \in Slot : F.laws[r] = IF r = s THEN law ELSE E.laws[r]
  BY <1>3 DEF Slots
<1>9. \A r \in Slot : F.sources[r].text = E.sources[r].text /\ F.sources[r].of = E.sources[r].of
  BY <1>1, <1>3 DEF Slots
<1> HIDE DEF F
<1>10. QED
  BY <1>3, <1>7, <1>8, <1>9 DEF F

LEMMA SourcedApart ==
  ASSUME NEW cs \in Cells, NEW E \in Slots, NEW s \in Slot, E.sources[s].text # NoText,
         NEW X, Apart(cs, E, X), \A o \in X \cap Keepers(cs, E) : At(cs, E, o) = s
  PROVE  Apart(cs, Sourced(E, s), {})
<1> DEFINE F == Sourced(E, s)
<1>1. /\ F.count = E.count /\ F.values = E.values /\ F.registry = E.registry
      /\ \A r \in Slot : F.laws[r] = IF r = s THEN [of |-> E.sources[s].of,
                                                   text |-> E.sources[s].text]
                                       ELSE E.laws[r]
      /\ \A r \in Slot : F.sources[r].text = E.sources[r].text /\ F.sources[r].of = E.sources[r].of
  BY SourcedParts
<1> HIDE DEF F
<1>2. Keepers(cs, F) = Keepers(cs, E) /\ \A o : At(cs, F, o) = At(cs, E, o)
  BY <1>1 DEF Keepers, At
<1>3. ASSUME NEW o \in Keepers(cs, E) PROVE HasOwn(cs, F, {}, o)
  <2>1. At(cs, E, o) \in Slot /\ HasOwn(cs, E, X, o)
    BY KeepersAreInside DEF Apart
  <2>2. CASE At(cs, E, o) = s
    BY <1>1, <1>2, <2>1, <2>2 DEF HasOwn
  <2>3. CASE At(cs, E, o) # s
    BY <1>1, <1>2, <2>1, <2>3 DEF HasOwn
  <2>4. QED
    BY <2>2, <2>3
<1>4. \A r \in Slot : OfACell(cs, F, r)
  BY <1>1 DEF Apart, OfACell
<1>5. Apart(cs, F, {})
  BY <1>2, <1>3, <1>4 DEF Apart
<1>6. QED
  BY <1>5 DEF F

(* A change of a cell recompiles outputs and updates: every state in use   *)
(* is kept, and everyone keeps a slot.                                     *)
LEMMA LaterStill ==
  ASSUME NEW E \in Slots, NEW F \in Slots, NEW G \in Slots, Later(E, F), Later(F, G)
  PROVE  Later(E, G)
<1>1. E.count \in Nat /\ F.count \in Nat /\ G.count \in Nat
  BY DEF Slots
<1>2. QED
  BY <1>1 DEF Later, Slot

LEMMA ChangedStays ==
  ASSUME TypeOK, NEW c, NEW cs \in Cells, NEW E \in Slots,
         NEW own \in BOOLEAN, own => Apart(cs, E, {})
  PROVE  /\ CellChanged(c, cs, E) \in Slots
         /\ Later(E, CellChanged(c, cs, E))
         /\ own => Apart(cs, CellChanged(c, cs, E), {})
<1> DEFINE Y == {F \in Slots : Later(E, F) /\ (own => Apart(cs, F, {}))}
<1>1. E \in Y
  BY DEF Later, Slots
<1>2. ASSUME NEW F \in Y, NEW t \in Text PROVE Compile(F, t, cs) \in Y
  BY <1>2, CompileType, CompileIsLater, LaterStill, CompileApart
<1>3. ASSUME NEW F \in Y, NEW o \in Output PROVE ChangeOutput(c, cs, F, o) \in Y
  <2>1. CASE o \in running /\ c \in deps[o]
    <3>1. program[o] \in Text
      BY <2>1 DEF TypeOK
    <3>2. QED
      BY <2>1, <3>1, <1>2 DEF ChangeOutput
  <2>2. CASE ~(o \in running /\ c \in deps[o])
    BY <2>2 DEF ChangeOutput
  <2>3. QED
    BY <2>1, <2>2
<1>4. ASSUME NEW F \in Y, NEW s \in Slot PROVE ChangeUpdate(c, cs, F, s) \in Y
  <2> DEFINE src == F.sources[s]
             built == Compile(F, src.text, cs)
  <2>1. CASE ~(s < F.count /\ src.text # NoText /\ c \in src.deps)
    BY <2>1 DEF ChangeUpdate
  <2>2. CASE s < F.count /\ src.text # NoText /\ c \in src.deps
    <3>1. src.text \in Text
      BY <2>2 DEF Slots
    <3>2. built \in Y /\ built.sources = F.sources
      BY <3>1, <1>2, CompileIsLater
    <3>3. Sourced(built, s) \in Y
      <4>1. built.sources[s].text # NoText /\ built \in Slots
        BY <2>2, <3>2
      <4> HIDE DEF built
      <4>2. Sourced(built, s) \in Slots /\ Later(built, Sourced(built, s))
        <5>1. built.count \in Nat
          BY <4>1 DEF Slots
        <5>2. /\ Sourced(built, s) \in Slots
              /\ Sourced(built, s).count = built.count
              /\ Sourced(built, s).values = built.values
          BY <4>1, SourcedParts
        <5>3. QED
          BY <5>1, <5>2 DEF Later
      <4>3. own => Apart(cs, Sourced(built, s), {})
        BY <3>2, <4>1, SourcedApart
      <4>4. QED
        BY <3>2, <4>2, <4>3, LaterStill
    <3>4. CASE Succeeds(F, src.text, cs)
      <4>1. ChangeUpdate(c, cs, F, s) = Sourced(built, s)
        BY <2>2, <3>2, <3>4 DEF ChangeUpdate, Sourced
      <4>2. QED
        BY <3>3, <4>1
    <3>5. CASE ~Succeeds(F, src.text, cs)
      BY <2>2, <3>2, <3>5 DEF ChangeUpdate
    <3>6. QED
      BY <3>4, <3>5
  <2>3. QED
    BY <2>1, <2>2
<1> HIDE DEF Y
<1>5. CellChanged(c, cs, E) \in Y
  BY <1>1, <1>3, <1>4, OutputsStay, UpdatesStay DEF CellChanged
<1>6. QED
  BY <1>5 DEF Y

-----------------------------------------------------------------------------
(* A cell that a defstate names has a slot, its own or the next one, with  *)
(* its source and its state in it; only its law is still to come.          *)
LEMMA DeclaredParts ==
  ASSUME TypeOK, NEW n \in Name, NEW t \in Text, HasSlot(n)
  PROVE  /\ SlotOf(n) \in Slot /\ Marked(n) \in Cells
         /\ Declared(n, t) \in Slots /\ Later(slots, Declared(n, t))
         /\ Declared(n, t).sources[SlotOf(n)].of = n
         /\ Declared(n, t).sources[SlotOf(n)].text = t
<1> DEFINE s == SlotOf(n)
           G == GivenSlot(n)
<1>1. s \in Slot /\ Marked(n) \in Cells
  <2>1. s \in Slot
    BY LimitAssumption DEF TypeOK, Cells, Slots, Slot, HasSlot, SlotOf, IsStateCell
  <2>2. QED
    BY <2>1 DEF TypeOK, Cells, Marked
<1>2. G \in Slots /\ Later(slots, G)
  <2>1. CASE IsStateCell(n)
    BY <2>1 DEF GivenSlot, TypeOK, Later, Slots
  <2>2. CASE ~IsStateCell(n)
    <3> DEFINE value == [of |-> n, moved |-> FALSE]
    <3>1. slots \in Slots /\ slots.count < MaxSlots /\ slots.count \in Slot /\ MaxSlots \in Nat
      BY <2>2, LimitAssumption DEF HasSlot, TypeOK, Slots, Slot
    <3>2. slots = [count |-> slots.count, values |-> slots.values, laws |-> slots.laws,
                   registry |-> slots.registry, sources |-> slots.sources]
      BY <3>1 DEF Slots
    <3>3. G = [slots EXCEPT !.count = slots.count + 1,
                            !.values = [slots.values EXCEPT ![slots.count] = value]]
      BY <2>2, <3>1 DEF GivenSlot, Alloc, Slots
    <3>4. G = [count |-> slots.count + 1, values |-> [slots.values EXCEPT ![slots.count] = value],
               laws |-> slots.laws, registry |-> slots.registry, sources |-> slots.sources]
      BY <3>2, <3>3
    <3>5. value \in [of : Owner, moved : BOOLEAN]
      BY DEF Owner
    <3>6. [slots.values EXCEPT ![slots.count] = value] \in [Slot -> [of : Owner, moved : BOOLEAN]]
      BY <3>1, <3>5 DEF Slots
    <3>7. G \in Slots
      BY <3>1, <3>4, <3>6 DEF Slots, Slot
    <3>8. Later(slots, G)
      BY <3>1, <3>4 DEF Later, Slots, Slot
    <3>9. QED
      BY <3>7, <3>8
  <2>3. QED
    BY <2>1, <2>2
<1> HIDE DEF G
<1> DEFINE src == [G.sources[s] EXCEPT !.of = n, !.text = t]
<1>3. G.sources[s] \in [of : Owner, text : Text \cup {NoText}, deps : SUBSET Name]
  BY <1>1, <1>2 DEF Slots
<1>4. src \in [of : Owner, text : Text \cup {NoText}, deps : SUBSET Name]
        /\ src.of = n /\ src.text = t
  BY <1>3 DEF Owner
<1>5. Declared(n, t) = [G EXCEPT !.sources = [G.sources EXCEPT ![s] = src]]
  BY <1>1, <1>2, <1>3 DEF Declared, G, Slots
<1>6. /\ Declared(n, t).count = G.count /\ Declared(n, t).values = G.values
      /\ Declared(n, t).sources = [G.sources EXCEPT ![s] = src]
  BY <1>2, <1>5 DEF Slots
<1>7. [G.sources EXCEPT ![s] = src] \in
         [Slot -> [of : Owner, text : Text \cup {NoText}, deps : SUBSET Name]]
  BY <1>1, <1>2, <1>4 DEF Slots
<1>8. Declared(n, t) \in Slots
  BY <1>2, <1>5, <1>7 DEF Slots
<1>9. QED
  BY <1>1, <1>2, <1>4, <1>6, <1>8 DEF Later, Slots

LEMMA DeclaredApart ==
  ASSUME TypeOK, NEW n \in Name, NEW t \in Text, HasSlot(n), Apart(cells, slots, {})
  PROVE  Apart(Marked(n), Declared(n, t), {n})
<1> DEFINE s == SlotOf(n)
           cs == Marked(n)
           D == Declared(n, t)
<1>1. /\ s \in Slot /\ cs \in Cells /\ D \in Slots
      /\ D.sources[s].of = n /\ D.sources[s].text = t /\ t # NoText
  BY DeclaredParts, TextAssumption
<1>2. /\ cs[n].mark /\ cs[n].index = s
      /\ \A q \in Name : q # n => cs[q] = cells[q]
  BY DEF Marked, TypeOK, Cells
<1>3. slots.count \in Nat /\ slots \in Slots /\ cells \in Cells
  BY DEF TypeOK, Slots
<1>4. /\ D.laws = slots.laws /\ D.registry = slots.registry
      /\ D.count >= slots.count /\ s < D.count
      /\ \A r \in Slot : r # s => D.values[r] = slots.values[r] /\ D.sources[r] = slots.sources[r]
      /\ D.values[s].of = n
  <2>1. CASE IsStateCell(n)
    <3>1. /\ D.laws = slots.laws /\ D.registry = slots.registry
          /\ D.count = slots.count /\ D.values = slots.values
          /\ \A r \in Slot : r # s => D.sources[r] = slots.sources[r]
      BY <1>3, <2>1 DEF Declared, GivenSlot, Slots
    <3>2. n \in Keepers(cells, slots) /\ At(cells, slots, n) = s
      BY <2>1 DEF IsStateCell, Keepers, At, SlotOf
    <3>3. s < slots.count /\ slots.values[s].of = n
      BY <3>2 DEF Apart, HasOwn
    <3>4. QED
      BY <1>3, <3>1, <3>3
  <2>2. CASE ~IsStateCell(n)
    <3>1. s = slots.count
      BY <2>2 DEF SlotOf
    <3>2. /\ D.laws = slots.laws /\ D.registry = slots.registry
          /\ D.count = slots.count + 1
          /\ D.values = [slots.values EXCEPT ![slots.count] = [of |-> n, moved |-> FALSE]]
          /\ \A r \in Slot : r # s => D.sources[r] = slots.sources[r]
      BY <1>3, <2>2 DEF Declared, GivenSlot, Alloc, Slots
    <3>3. QED
      BY <1>1, <1>3, <3>1, <3>2 DEF Slots
  <2>3. QED
    BY <2>1, <2>2
<1> HIDE DEF s, cs, D
<1>5. ASSUME NEW o \in Keepers(cs, D), o # n
      PROVE  /\ o \in Keepers(cells, slots) /\ At(cs, D, o) = At(cells, slots, o)
             /\ At(cells, slots, o) # s
  <2>1. o \in Keepers(cells, slots) /\ At(cs, D, o) = At(cells, slots, o)
    BY <1>2, <1>4, <1>5 DEF Keepers, At
  <2>2. At(cells, slots, o) < slots.count /\ slots.values[At(cells, slots, o)].of = o
    BY <2>1 DEF Apart, HasOwn
  <2>3. CASE IsStateCell(n)
    <3>1. n \in Keepers(cells, slots) /\ At(cells, slots, n) = s
      BY <2>3 DEF IsStateCell, Keepers, At, SlotOf, s
    <3>2. QED
      BY <1>5, <2>1, <3>1, NotShared
  <2>4. CASE ~IsStateCell(n)
    <3>1. s = slots.count
      BY <2>4 DEF SlotOf, s
    <3>2. QED
      BY <1>3, <2>1, <2>2, <3>1
  <2>5. QED
    BY <2>1, <2>3, <2>4
<1>6. ASSUME NEW o \in Keepers(cs, D) PROVE HasOwn(cs, D, {n}, o)
  <2>1. CASE o = n
    BY <1>1, <1>2, <1>4, <2>1 DEF HasOwn, At
  <2>2. CASE o # n
    <3>1. /\ o \in Keepers(cells, slots) /\ At(cs, D, o) = At(cells, slots, o)
          /\ At(cells, slots, o) # s /\ At(cells, slots, o) \in Slot
          /\ HasOwn(cells, slots, {}, o)
      BY <1>3, <1>5, <2>2, KeepersAreInside DEF Apart
    <3>2. At(cells, slots, o) < D.count
      BY <1>1, <1>3, <1>4, <3>1 DEF HasOwn, Slot, Slots
    <3>3. QED
      BY <1>4, <3>1, <3>2 DEF HasOwn
  <2>3. QED
    BY <2>1, <2>2
<1>7. ASSUME NEW r \in Slot PROVE OfACell(cs, D, r)
  <2>1. CASE r = s
    BY <1>1, <1>2, <1>4, <2>1 DEF OfACell
  <2>2. CASE r # s
    <3>1. D.sources[r] = slots.sources[r] /\ OfACell(cells, slots, r)
      BY <1>4, <2>2 DEF Apart
    <3>2. \A q \in Name : cells[q].mark => cs[q].mark
      BY <1>2
    <3>3. r < slots.count => r < D.count
      BY <1>1, <1>3, <1>4 DEF Slot, Slots
    <3>4. QED
      BY <3>1, <3>2, <3>3 DEF OfACell
  <2>3. QED
    BY <2>1, <2>2
<1>8. Apart(cs, D, {n})
  BY <1>6, <1>7 DEF Apart
<1>9. QED
  BY <1>8 DEF cs, D

-----------------------------------------------------------------------------
(* The state in every slot in use is as it was.                            *)
StateIsKept == \A s \in 0 .. slots.count - 1 : slots'.values[s] = slots.values[s]

LEMMA LaterKeeps ==
  ASSUME TypeOK, Later(slots, slots') PROVE StateIsKept
  BY LimitAssumption DEF TypeOK, Slots, Slot, Later, StateIsKept

(* A new binding of a cell.                                                *)
LEMMA RebindStep ==
  ASSUME SlotsInv, NEW n \in Name, NEW b, Rebind(n, b), [cells EXCEPT ![n] = b] \in Cells,
         tables' \in 0 .. MaxTables, sound' \in BOOLEAN,
         sound' => /\ sound /\ b.mark = cells[n].mark
                   /\ b.mark => b.index = cells[n].index
  PROVE  SlotsInv' /\ StateIsKept
<1>1. TypeOK /\ cells' = [cells EXCEPT ![n] = b] /\ cells' \in Cells
  BY DEF SlotsInv, Rebind
<1>2. sound' => Apart(cells', slots, {})
  <2> SUFFICES ASSUME sound' PROVE Apart(cells', slots, {})
    OBVIOUS
  <2>1. \A q \in Name : /\ cells'[q].mark = cells[q].mark
                        /\ cells[q].mark => cells'[q].index = cells[q].index
    BY <1>1 DEF TypeOK, Cells
  <2>2. Keepers(cells', slots) = Keepers(cells, slots)
    BY <2>1 DEF Keepers
  <2>3. \A o \in Keepers(cells, slots) : At(cells', slots, o) = At(cells, slots, o)
    BY <2>1, TextAssumption DEF Keepers, At
  <2>4. Apart(cells, slots, {})
    BY DEF SlotsInv
  <2>5. QED
    BY <2>1, <2>2, <2>3, <2>4 DEF Apart, HasOwn, OfACell
<1>3. slots \in Slots /\ slots' = CellChanged(n, cells', slots)
  BY <1>1 DEF TypeOK, Rebind
<1>4. slots' \in Slots /\ Later(slots, slots') /\ (sound' => Apart(cells', slots', {}))
  BY <1>1, <1>2, <1>3, ChangedStays
<1>5. TypeOK'
  BY <1>1, <1>4 DEF TypeOK, Rebind
<1>6. QED
  BY <1>1, <1>4, <1>5, LaterKeeps DEF SlotsInv

LEMMA DefineStep ==
  ASSUME SlotsInv, NEW n \in Name, DefineNumber(n) \/ DefineVector(n) \/ DefineCallable(n)
  PROVE  SlotsInv' /\ StateIsKept
<1>1. TypeOK /\ cells[n] \in [kind : {"Empty", "Number", "Other"}, mark : BOOLEAN, index : Slot]
  BY DEF SlotsInv, TypeOK, Cells
<1>2. CASE DefineNumber(n)
  <2> DEFINE b == [cells[n] EXCEPT !.kind = "Number"]
  <2>1. b \in [kind : {"Empty", "Number", "Other"}, mark : BOOLEAN, index : Slot]
          /\ b.mark = cells[n].mark /\ b.index = cells[n].index
    BY <1>1
  <2>2. [cells EXCEPT ![n] = b] \in Cells
    BY <1>1, <2>1 DEF TypeOK, Cells
  <2> HIDE DEF b
  <2>3. Rebind(n, b) /\ tables' = tables /\ sound' = sound
    BY <1>2 DEF DefineNumber, b
  <2>4. QED
    BY <1>1, <2>1, <2>2, <2>3, RebindStep DEF TypeOK
<1>3. CASE DefineVector(n)
  <2> DEFINE b == [cells[n] EXCEPT !.kind = "Other", !.index = tables]
  <2>1. tables \in Slot /\ tables + 1 \in 0 .. MaxTables
    BY <1>1, <1>3, LimitAssumption DEF DefineVector, TypeOK, Slot
  <2>2. b \in [kind : {"Empty", "Number", "Other"}, mark : BOOLEAN, index : Slot]
          /\ b.mark = cells[n].mark
    BY <1>1, <2>1
  <2>3. [cells EXCEPT ![n] = b] \in Cells
    BY <1>1, <2>2 DEF TypeOK, Cells
  <2> HIDE DEF b
  <2>4. Rebind(n, b) /\ tables' = tables + 1 /\ sound' = (sound /\ ~cells[n].mark)
    BY <1>3 DEF DefineVector, b
  <2>5. sound' \in BOOLEAN /\ (sound' => sound /\ ~b.mark)
    BY <1>1, <2>2, <2>4 DEF TypeOK
  <2>6. QED
    BY <2>1, <2>2, <2>3, <2>4, <2>5, RebindStep
<1>4. CASE DefineCallable(n)
  <2> DEFINE b == [cells[n] EXCEPT !.kind = "Other"]
  <2>1. b \in [kind : {"Empty", "Number", "Other"}, mark : BOOLEAN, index : Slot]
          /\ b.mark = cells[n].mark /\ b.index = cells[n].index
    BY <1>1
  <2>2. [cells EXCEPT ![n] = b] \in Cells
    BY <1>1, <2>1 DEF TypeOK, Cells
  <2> HIDE DEF b
  <2>3. Rebind(n, b) /\ tables' = tables /\ sound' = sound
    BY <1>4 DEF DefineCallable, b
  <2>4. QED
    BY <1>1, <2>1, <2>2, <2>3, RebindStep DEF TypeOK
<1>5. QED
  BY <1>2, <1>3, <1>4

(* A defstate whose update compiles, and one whose update does not.        *)
LEMMA DefstateStep ==
  ASSUME SlotsInv, NEW n \in Name, NEW t \in Text, Defstate(n, t)
  PROVE  SlotsInv' /\ StateIsKept
<1> DEFINE s == SlotOf(n)
           cs == Marked(n)
           built == Compile(Declared(n, t), t, cs)
<1>1. TypeOK /\ HasSlot(n) /\ cells' = cs /\ slots \in Slots
  BY DEF SlotsInv, Defstate, TypeOK
<1>2. /\ s \in Slot /\ cs \in Cells
      /\ Declared(n, t) \in Slots /\ Later(slots, Declared(n, t))
      /\ Declared(n, t).sources[s].of = n /\ Declared(n, t).sources[s].text = t
  BY <1>1, DeclaredParts
<1>3. sound => Apart(cs, Declared(n, t), {n})
  BY <1>1, DeclaredApart DEF SlotsInv
<1> HIDE DEF s, cs
<1>4. /\ built \in Slots /\ Later(Declared(n, t), built) /\ (sound => Apart(cs, built, {n}))
      /\ built.sources[s].of = n /\ built.sources[s].text = t
  BY <1>2, <1>3, CompileType, CompileIsLater, CompileApart
<1>5. slots' = CellChanged(n, cs, Sourced(built, s))
  BY <1>1, <1>4 DEF Defstate, Sourced, s, cs
<1> HIDE DEF built
<1>6. /\ Sourced(built, s) \in Slots /\ Later(built, Sourced(built, s))
      /\ sound => Apart(cs, Sourced(built, s), {})
  <2>1. built.sources[s].text # NoText
    BY <1>4, TextAssumption
  <2>2. /\ Sourced(built, s) \in Slots /\ Sourced(built, s).count = built.count
        /\ Sourced(built, s).values = built.values
    BY <1>2, <1>4, <2>1, SourcedParts
  <2>3. built.count \in Nat
    BY <1>4 DEF Slots
  <2>4. \A o \in {n} \cap Keepers(cs, built) : At(cs, built, o) = s
    BY <1>1 DEF At, Marked, cs, s, TypeOK, Cells
  <2>5. sound => Apart(cs, Sourced(built, s), {})
    BY <1>2, <1>4, <2>1, <2>4, SourcedApart
  <2>6. QED
    BY <2>2, <2>3, <2>5 DEF Later
<1>7. sound \in BOOLEAN /\ sound' = sound
  BY <1>1 DEF TypeOK, Defstate
<1>8. /\ slots' \in Slots /\ Later(Sourced(built, s), slots')
      /\ sound => Apart(cs, slots', {})
  BY <1>1, <1>2, <1>5, <1>6, <1>7, ChangedStays
<1>9. Later(slots, slots')
  BY <1>1, <1>2, <1>4, <1>6, <1>8, LaterStill
<1>10. TypeOK'
  BY <1>1, <1>2, <1>8 DEF TypeOK, Defstate
<1>11. QED
  BY <1>1, <1>7, <1>8, <1>9, <1>10, LaterKeeps DEF SlotsInv

LEMMA RejectStep ==
  ASSUME SlotsInv, NEW n \in Name, NEW t \in Text, RejectDefstate(n, t)
  PROVE  SlotsInv' /\ StateIsKept
<1> DEFINE s == SlotOf(n)
           cs == Marked(n)
           built == Compile(Declared(n, t), t, cs)
<1>1. TypeOK /\ HasSlot(n) /\ cells' = cs /\ slots \in Slots
        /\ slots' = [built EXCEPT !.laws[s] = NoLaw]
  BY DEF SlotsInv, RejectDefstate, TypeOK
<1>2. /\ s \in Slot /\ cs \in Cells
      /\ Declared(n, t) \in Slots /\ Later(slots, Declared(n, t))
  BY <1>1, DeclaredParts
<1>3. sound => Apart(cs, Declared(n, t), {n})
  BY <1>1, DeclaredApart DEF SlotsInv
<1> HIDE DEF s, cs
<1>4. built \in Slots /\ Later(Declared(n, t), built) /\ (sound => Apart(cs, built, {n}))
  BY <1>2, <1>3, CompileType, CompileIsLater, CompileApart
<1> HIDE DEF built
<1>5. /\ slots' \in Slots /\ slots'.count = built.count /\ slots'.values = built.values
      /\ slots'.registry = built.registry /\ slots'.sources = built.sources
      /\ \A r \in Slot : slots'.laws[r] = IF r = s THEN NoLaw ELSE built.laws[r]
  BY <1>1, <1>2, <1>4 DEF Slots
<1>6. ASSUME sound PROVE Apart(cs, slots', {})
  <2>1. Keepers(cs, slots') = Keepers(cs, built) /\ \A o : At(cs, slots', o) = At(cs, built, o)
    BY <1>5 DEF Keepers, At
  <2>2. ASSUME NEW o \in Keepers(cs, built) PROVE HasOwn(cs, slots', {}, o)
    <3>1. At(cs, built, o) \in Slot /\ HasOwn(cs, built, {n}, o)
      BY <1>2, <1>4, <1>6, KeepersAreInside DEF Apart
    <3>2. CASE o = n
      <4>1. At(cs, built, o) = s
        BY <1>1, <3>2 DEF At, Marked, cs, s, TypeOK, Cells
      <4>2. QED
        BY <1>5, <2>1, <3>1, <4>1 DEF HasOwn
    <3>3. CASE o # n
      BY <1>5, <2>1, <3>1, <3>3 DEF HasOwn
    <3>4. QED
      BY <3>2, <3>3
  <2>3. \A r \in Slot : OfACell(cs, slots', r)
    BY <1>4, <1>5, <1>6 DEF Apart, OfACell
  <2>4. QED
    BY <2>1, <2>2, <2>3 DEF Apart
<1>7. Later(slots, slots')
  <2>1. Later(built, slots')
    BY <1>4, <1>5 DEF Later, Slots
  <2>2. QED
    BY <1>1, <1>2, <1>4, <1>5, <2>1, LaterStill
<1>8. TypeOK' /\ sound' = sound
  BY <1>1, <1>2, <1>5 DEF TypeOK, RejectDefstate
<1>9. QED
  BY <1>1, <1>6, <1>7, <1>8, LaterKeeps DEF SlotsInv

LEMMA AssignStep ==
  ASSUME SlotsInv, NEW o \in Output, NEW t \in Text, AssignOutput(o, t) \/ RejectOutput(o, t)
  PROVE  SlotsInv' /\ StateIsKept
<1>1. TypeOK /\ slots \in Slots /\ cells \in Cells
  BY DEF SlotsInv, TypeOK
<1>2. slots' = Compile(slots, t, cells) /\ cells' = cells /\ tables' = tables /\ sound' = sound
  BY DEF AssignOutput, RejectOutput
<1>3. slots' \in Slots /\ Later(slots, slots') /\ (sound => Apart(cells, slots', {}))
  BY <1>1, <1>2, CompileType, CompileIsLater, CompileApart DEF SlotsInv
<1>4. program' = [program EXCEPT ![o] = t] /\ t # NoText /\ Reads[t] \subseteq Name
  BY TextAssumption DEF AssignOutput, RejectOutput
<1>5. /\ program' \in [Output -> Text \cup {NoText}]
      /\ running' \subseteq {p \in Output : program'[p] # NoText}
      /\ deps' \in [Output -> SUBSET Name]
  <2>1. program' \in [Output -> Text \cup {NoText}]
          /\ \A p \in Output : program[p] # NoText \/ p = o => program'[p] # NoText
    BY <1>1, <1>4 DEF TypeOK
  <2>2. CASE AssignOutput(o, t)
    BY <1>1, <1>4, <2>1, <2>2 DEF AssignOutput, TypeOK
  <2>3. CASE RejectOutput(o, t)
    BY <1>1, <2>1, <2>3 DEF RejectOutput, TypeOK
  <2>4. QED
    BY <2>2, <2>3
<1>6. TypeOK'
  BY <1>1, <1>2, <1>3, <1>5 DEF TypeOK
<1>7. QED
  BY <1>1, <1>2, <1>3, <1>6, LaterKeeps DEF SlotsInv

(* After a clear nobody has a slot, if it is to be sound.                  *)
LEMMA ClearStep ==
  ASSUME SlotsInv, UseqClear
  PROVE  SlotsInv' /\ StateIsKept
<1>1. TypeOK /\ slots \in Slots /\ cells' = cells /\ MaxSlots \in Nat
  BY LimitAssumption DEF SlotsInv, TypeOK, UseqClear
<1>2. /\ slots' \in Slots /\ slots'.values = slots.values /\ slots'.sources = slots.sources
      /\ \A i \in Id : slots'.registry[i] = NoSlot
  <2>1. slots = [count |-> slots.count, values |-> slots.values, laws |-> slots.laws,
                 registry |-> slots.registry, sources |-> slots.sources]
    BY <1>1 DEF Slots
  <2>2. slots' = [count |-> 0, values |-> slots.values, laws |-> slots.laws,
                  registry |-> [i \in Id |-> NoSlot], sources |-> slots.sources]
    BY <2>1 DEF UseqClear
  <2>3. QED
    BY <1>1, <2>2 DEF Slots
<1>3. ASSUME sound' PROVE Apart(cells, slots', {})
  <2>1. sound /\ \A n \in Name : ~cells[n].mark
    BY <1>3 DEF UseqClear
  <2>2. Keepers(cells, slots') = {}
    BY <1>2, <2>1 DEF Keepers
  <2>3. \A s \in Slot : slots.sources[s].text = NoText
    BY <2>1 DEF SlotsInv, Apart, OfACell
  <2>4. QED
    BY <1>2, <2>2, <2>3 DEF Apart, OfACell
<1>4. TypeOK'
  BY <1>1, <1>2 DEF TypeOK, UseqClear
<1>5. StateIsKept
  BY <1>2 DEF StateIsKept
<1>6. QED
  BY <1>1, <1>3, <1>4, <1>5 DEF SlotsInv

(* A tick drives every slot by its law, so with its owner's.               *)
LEMMA CommitStep ==
  ASSUME SlotsInv, CommitState
  PROVE  SlotsInv'
<1>1. TypeOK /\ slots \in Slots /\ cells \in Cells
  BY DEF SlotsInv, TypeOK
<1>2. /\ slots'.count = slots.count /\ slots'.laws = slots.laws
      /\ slots'.registry = slots.registry /\ slots'.sources = slots.sources
      /\ \A s \in Slot : slots'.values[s] = IF s < slots.count /\ slots.laws[s] # NoLaw
                                           THEN [of |-> slots.laws[s].of, moved |-> TRUE]
                                           ELSE slots.values[s]
  BY <1>1 DEF CommitState, Slots
<1>3. slots' \in Slots
  <2>1. \A s \in Slot : slots.laws[s] # NoLaw => slots.laws[s].of \in Owner
    BY <1>1 DEF Slots
  <2>2. slots' = [slots EXCEPT !.values = slots'.values] /\ DOMAIN slots'.values = Slot
    BY <1>1, <1>2 DEF CommitState, Slots
  <2>3. ASSUME NEW s \in Slot PROVE slots'.values[s] \in [of : Owner, moved : BOOLEAN]
    <3>1. CASE s < slots.count /\ slots.laws[s] # NoLaw
      <4>1. slots'.values[s] = [of |-> slots.laws[s].of, moved |-> TRUE]
        BY <1>2, <3>1
      <4>2. slots.laws[s].of \in Owner
        BY <2>1, <3>1
      <4>3. QED
        BY <4>1, <4>2
    <3>2. CASE ~(s < slots.count /\ slots.laws[s] # NoLaw)
      BY <1>1, <1>2, <3>2 DEF Slots
    <3>3. QED
      BY <3>1, <3>2
  <2>4. slots'.values \in [Slot -> [of : Owner, moved : BOOLEAN]]
    BY <1>1, <2>3 DEF CommitState, Slots
  <2>5. QED
    BY <1>1, <2>2, <2>4 DEF Slots
<1>4. ASSUME sound PROVE Apart(cells, slots', {})
  <2>1. Keepers(cells, slots') = Keepers(cells, slots)
          /\ \A o : At(cells, slots', o) = At(cells, slots, o)
    BY <1>2 DEF Keepers, At
  <2>2. ASSUME NEW o \in Keepers(cells, slots) PROVE HasOwn(cells, slots', {}, o)
    <3>1. At(cells, slots, o) \in Slot /\ HasOwn(cells, slots, {}, o)
      BY <1>1, <1>4, KeepersAreInside DEF SlotsInv, Apart
    <3>2. slots'.values[At(cells, slots, o)].of = o
      <4> DEFINE s == At(cells, slots, o)
      <4>1. CASE slots.laws[s] # NoLaw
        <5>1. slots'.values[s] = [of |-> slots.laws[s].of, moved |-> TRUE]
          BY <1>2, <3>1, <4>1 DEF HasOwn
        <5>2. QED
          BY <3>1, <4>1, <5>1 DEF HasOwn
      <4>2. CASE slots.laws[s] = NoLaw
        BY <1>2, <3>1, <4>2 DEF HasOwn
      <4>3. QED
        BY <4>1, <4>2
    <3>3. QED
      BY <1>2, <2>1, <3>1, <3>2 DEF HasOwn
  <2>3. \A s \in Slot : OfACell(cells, slots', s)
    BY <1>2, <1>4 DEF SlotsInv, Apart, OfACell
  <2>4. QED
    BY <2>1, <2>2, <2>3 DEF Apart
<1>5. TypeOK' /\ sound' = sound /\ cells' = cells
  BY <1>1, <1>3 DEF TypeOK, CommitState
<1>6. QED
  BY <1>4, <1>5 DEF SlotsInv

-----------------------------------------------------------------------------
LEMMA SlotsInit == Init => SlotsInv
<1> SUFFICES ASSUME Init PROVE SlotsInv
  OBVIOUS
<1>1. 0 \in Slot /\ 0 \in 0 .. MaxSlots /\ 0 \in 0 .. MaxTables /\ Anonymous \in Owner
  BY LimitAssumption DEF Slot, Owner
<1>2. cells \in Cells /\ \A n \in Name : ~cells[n].mark
  BY <1>1 DEF Init, Cells
<1>3. slots \in Slots
  BY <1>1 DEF Init, Slots
<1>4. TypeOK
  BY <1>1, <1>2, <1>3 DEF Init, TypeOK
<1>5. Keepers(cells, slots) = {}
  BY <1>2 DEF Init, Keepers
<1>6. \A s \in Slot : OfACell(cells, slots, s)
  BY DEF Init, OfACell
<1>7. QED
  BY <1>4, <1>5, <1>6 DEF SlotsInv, Apart

LEMMA NextStep == SlotsInv /\ Next => SlotsInv' /\ (StateIsKept \/ CommitState)
<1> SUFFICES ASSUME SlotsInv, Next PROVE SlotsInv' /\ (StateIsKept \/ CommitState)
  OBVIOUS
<1>1. CASE Declare
  BY <1>1, DefineStep, DefstateStep, RejectStep DEF Declare
<1>2. CASE Assign
  BY <1>2, AssignStep DEF Assign
<1>3. CASE UseqClear
  BY <1>3, ClearStep
<1>4. CASE CommitState
  BY <1>4, CommitStep
<1>5. QED
  BY <1>1, <1>2, <1>3, <1>4 DEF Next

LEMMA StillStep == SlotsInv /\ UNCHANGED vars => SlotsInv'
  BY DEF SlotsInv, TypeOK, Apart, HasOwn, OfACell, Keepers, At, vars

LEMMA SlotsAlways == Spec => []SlotsInv
<1>1. SlotsInv /\ [Next]_vars => SlotsInv'
  BY NextStep, StillStep
<1>2. QED
  BY SlotsInit, <1>1, PTL DEF Spec

(* The variables hold what is said of them above.                          *)
THEOREM SlotTypeCorrect == Spec => []TypeOK
<1>1. SlotsInv => TypeOK
  BY DEF SlotsInv
<1>2. QED
  BY SlotsAlways, <1>1, PTL

(* However cells are bound, states declared and programs edited, every     *)
(* state cell and every identifier has a slot, a state and a law of its    *)
(* own, until a state cell meets a clear or becomes a vector.              *)
THEOREM SlotsAreNotShared == Spec => []EachHasItsOwn
<1>1. SlotsInv => EachHasItsOwn
  <2> SUFFICES ASSUME SlotsInv, sound PROVE EachHasItsOwn
    BY DEF EachHasItsOwn
  <2>1. Holders \subseteq Keepers(cells, slots) /\ \A o : Has(o) = At(cells, slots, o)
    BY DEF Holders, StateCells, IsStateCell, Keepers, Has, At
  <2>2. \A o \in Holders : HasOwn(cells, slots, {}, o)
    BY <2>1 DEF SlotsInv, Apart
  <2>3. QED
    BY <2>1, <2>2, NotShared DEF EachHasItsOwn, HasOwn, SlotsInv
<1>2. QED
  BY SlotsAlways, <1>1, PTL

(* And no recompilation of an older update gets the better of the last     *)
(* defstate: the law of a state cell is that of its latest update.         *)
THEOREM LawsAreLatest == Spec => []LawIsLatest
<1>1. SlotsInv => LawIsLatest
  <2> SUFFICES ASSUME SlotsInv, sound, NEW n \in StateCells
               PROVE  LET law == slots.laws[cells[n].index]
                      IN law # NoLaw => law.text = slots.sources[cells[n].index].text
    BY DEF LawIsLatest
  <2>1. /\ n \in Name /\ n \in Keepers(cells, slots)
        /\ At(cells, slots, n) = cells[n].index
    BY DEF StateCells, IsStateCell, Keepers, At
  <2>2. HasOwn(cells, slots, {}, n)
    BY <2>1 DEF SlotsInv, Apart
  <2>3. QED
    BY <2>1, <2>2 DEF HasOwn
<1>2. QED
  BY SlotsAlways, <1>1, PTL

(* No form changes a state that has accumulated in a slot in use: only a   *)
(* tick does.                                                              *)
THEOREM StateOutlivesEdits == Spec => EditsKeepState
<1>1. SlotsInv /\ [Next]_vars =>
        [\A s \in 0 .. slots.count - 1 :
           slots'.values[s] # slots.values[s] => CommitState]_vars
  BY NextStep DEF StateIsKept
<1>2. QED
  BY SlotsAlways, <1>1, PTL DEF Spec, EditsKeepState

=============================================================================
