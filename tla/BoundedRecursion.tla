-------------------------- MODULE BoundedRecursion --------------------------
(***************************************************************************)
(* Facts about functions defined by recursion on 0 .. N, which is how the  *)
(* other modules write the loops of the code, stated with sets in place of *)
(* predicates.                                                             *)
(***************************************************************************)
EXTENDS Naturals, WellFoundedInduction, TLAPS

(* Every nonempty set of natural numbers has a least one.                  *)
LEMMA LeastOf ==
  ASSUME NEW T \in SUBSET Nat, T # {}
  PROVE \E x \in T : \A y \in T : ~(y < x)
<1>1. PICK x \in T : \A y \in T : ~(<<y, x>> \in OpToRel(<, Nat))
  BY NatLessThanWellFounded, WFMin
<1>2. QED
  BY <1>1 DEF OpToRel

(* Induction on 0 .. N: a set that is closed under going on has it all.    *)
LEMMA Reached ==
  ASSUME NEW N \in Nat, NEW S, 0 \in S,
         \A n \in 0 .. N - 1 : n \in S => n + 1 \in S
  PROVE 0 .. N \subseteq S
<1> DEFINE T == {n \in 0 .. N : n \notin S}
<1> SUFFICES ASSUME T # {} PROVE FALSE
  OBVIOUS
<1>1. PICK x \in T : \A y \in T : ~(y < x)
  <2>1. T \in SUBSET Nat
    OBVIOUS
  <2> HIDE DEF T
  <2>2. QED
    BY <2>1, LeastOf
<1>2. x # 0 /\ x - 1 \in 0 .. N - 1 /\ x - 1 < x
  OBVIOUS
<1>3. x - 1 \in S
  BY <1>1, <1>2
<1>4. QED
  BY <1>2, <1>3

(* The step g of a recursive definition on 0 .. N stays in Y, and f is     *)
(* what it defines from base.                                              *)
Stays(g, N, Y) == \A n \in 1 .. N, y \in Y : g[<<n, y>>] \in Y

Follows(f, g, N, base) == f[0] = base /\ \A n \in 1 .. N : f[n] = g[<<n, f[n - 1]>>]

(* A recursive definition on 0 .. N whose step stays in a set Y, from a    *)
(* member of Y, defines a function, with values in Y.                      *)
LEMMA Recursion ==
  ASSUME NEW N \in Nat, NEW Y, NEW base \in Y, NEW g, Stays(g, N, Y)
  PROVE \E f \in [0 .. N -> Y] : Follows(f, g, N, base)
<1> DEFINE Is(n, f) == \A m \in 0 .. n : f[m] = IF m = 0 THEN base ELSE g[<<m, f[m - 1]>>]
           S == {n \in Nat : \E f \in [0 .. n -> Y] : Is(n, f)}
<1>1. 0 \in S
  <2>1. [m \in 0 .. 0 |-> base] \in [0 .. 0 -> Y] /\ Is(0, [m \in 0 .. 0 |-> base])
    OBVIOUS
  <2>2. QED
    BY <2>1
<1>2. ASSUME NEW n \in 0 .. N - 1, n \in S PROVE n + 1 \in S
  <2>1. PICK f \in [0 .. n -> Y] : Is(n, f)
    BY <1>2
  <2> DEFINE h == [m \in 0 .. n + 1 |-> IF m = n + 1 THEN g[<<n + 1, f[n]>>] ELSE f[m]]
  <2>2. h \in [0 .. n + 1 -> Y]
    BY DEF Stays
  <2>3. ASSUME NEW m \in 0 .. n + 1 PROVE h[m] = IF m = 0 THEN base ELSE g[<<m, h[m - 1]>>]
    <3>1. CASE m = n + 1
      <4>1. h[n + 1] = g[<<n + 1, f[n]>>] /\ h[n] = f[n]
        OBVIOUS
      <4>2. m # 0 /\ m - 1 = n
        BY <3>1
      <4> HIDE DEF h
      <4>3. QED
        BY <3>1, <4>1, <4>2
    <3>2. CASE m # n + 1
      <4>1. m \in 0 .. n /\ h[m] = f[m]
        BY <3>2
      <4>2. f[m] = IF m = 0 THEN base ELSE g[<<m, f[m - 1]>>]
        BY <2>1, <4>1
      <4>3. m # 0 => m - 1 \in 0 .. n /\ h[m - 1] = f[m - 1]
        BY <4>1
      <4>4. QED
        BY <4>1, <4>2, <4>3
    <3>3. QED
      BY <3>1, <3>2
  <2>4. Is(n + 1, h)
    BY <2>3
  <2> HIDE DEF h, Is
  <2>5. QED
    BY <2>2, <2>4
<1>3. 0 .. N \subseteq S
  <2> HIDE DEF S
  <2> QED BY <1>1, <1>2, Reached
<1>4. PICK f \in [0 .. N -> Y] : Is(N, f)
  BY <1>3
<1>5. f[0] = base
  <2>1. 0 \in 0 .. N
    OBVIOUS
  <2>2. QED
    BY <1>4, <2>1
<1>6. ASSUME NEW n \in 1 .. N PROVE f[n] = g[<<n, f[n - 1]>>]
  <2>1. n \in 0 .. N /\ n # 0
    OBVIOUS
  <2>2. QED
    BY <1>4, <2>1
<1>7. QED
  BY <1>5, <1>6 DEF Follows

=============================================================================
