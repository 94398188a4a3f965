---------------------------- MODULE NaturalOrder ----------------------------
(***************************************************************************)
(* Least and greatest elements of sets of natural numbers, without a       *)
(* recursive definition or an induction: the library proves that < is well *)
(* founded.                                                                *)
(***************************************************************************)
EXTENDS Integers, FiniteSetTheorems, WellFoundedInduction, TLAPS

Below == {r \in Nat \X Nat : r[1] < r[2]}

LEMMA BelowIsWellFounded == IsWellFoundedOn(Below, Nat)
  BY NatLessThanWellFounded DEF OpToRel, Below

\* A nonempty set of natural numbers has a least element.
LEMMA NatHasLeast ==
  ASSUME NEW S \in SUBSET Nat, S # {}
  PROVE  \E p \in S : \A q \in S : p <= q
<1>1. PICK p \in S : \A q \in S : <<q, p>> \notin Below
  BY BelowIsWellFounded, WFMin
<1>2. \A q \in S : q < p => <<q, p>> \in Below
  BY DEF Below
<1>3. \A q \in S : ~ (q < p)
  BY <1>1, <1>2
<1>4. p \in Nat /\ \A q \in S : q \in Nat
  OBVIOUS
<1> QED
  BY <1>3, <1>4

\* A nonempty set of natural numbers below a bound has a greatest element.
LEMMA BoundedHasGreatest ==
  ASSUME NEW n \in Nat, NEW S \in SUBSET (0 .. n), S # {}
  PROVE  \E p \in S : \A q \in S : q <= p
<1> DEFINE T == {n - q : q \in S}
<1>1. \A q \in S : q \in Nat /\ n - q \in Nat
  OBVIOUS
<1>2. T \in SUBSET Nat /\ T # {}
  BY <1>1
<1>3. PICK d \in T : \A e \in T : d <= e
  BY <1>2, NatHasLeast
<1>4. PICK p \in S : d = n - p
  BY <1>3
<1>5. \A q \in S : n - p <= n - q
  BY <1>3, <1>4
<1> QED
  BY <1>1, <1>5

\* Induction as a fact about sets: what 0 is in, and every number up to N
\* after one that is, holds 0 .. N.
LEMMA StepByStep ==
  ASSUME NEW N \in Nat, NEW S, 0 \in S,
         \A n \in 1 .. N : n - 1 \in S => n \in S
  PROVE  0 .. N \subseteq S
<1> DEFINE Out == {n \in 0 .. N : n \notin S}
<1>1. SUFFICES ASSUME Out # {} PROVE FALSE
  BY <1>1
<1>2. PICK n \in Out : \A k \in Out : n <= k
  <2>1. Out \in SUBSET Nat
    OBVIOUS
  <2> QED
    BY <1>1, <2>1, NatHasLeast
<1>3. n \in 1 .. N /\ n - 1 \in 0 .. N /\ ~ (n <= n - 1)
  BY <1>2
<1>4. n - 1 \in S
  BY <1>2, <1>3
<1> QED
  BY <1>3, <1>4

\* f is defined by recursion: it begins with a and goes on by the steps of h.
Recursion(f, a, h, N) == f[0] = a /\ \A n \in 1 .. N : f[n] = h[n][f[n - 1]]

\* There is such a function.
LEMMA RecursionHolds ==
  ASSUME NEW N \in Nat, NEW X, NEW a \in X, NEW h \in [1 .. N -> [X -> X]]
  PROVE  \E f \in [0 .. N -> X] : Recursion(f, a, h, N)
<1> USE DEF Recursion
<1> DEFINE Reached == {M \in 0 .. N : \E f \in [0 .. M -> X] : Recursion(f, a, h, M)}
<1>1. 0 \in Reached
  <2> DEFINE g == [n \in 0 .. 0 |-> a]
  <2>1. g \in [0 .. 0 -> X] /\ g[0] = a /\ \A n \in 1 .. 0 : g[n] = h[n][g[n - 1]]
    OBVIOUS
  <2>2. \E f \in [0 .. 0 -> X] : Recursion(f, a, h, 0)
    <3> HIDE DEF g
    <3> QED
      BY <2>1
  <2> QED
    BY <2>2
<1>2. ASSUME NEW M \in 1 .. N, M - 1 \in Reached PROVE M \in Reached
  <2>1. PICK f \in [0 .. M - 1 -> X] : Recursion(f, a, h, M - 1)
    BY <1>2
  <2> DEFINE g == [n \in 0 .. M |-> IF n = M THEN h[M][f[M - 1]] ELSE f[n]]
  <2>2. \A n \in 0 .. M : n # M => n \in 0 .. M - 1 /\ g[n] = f[n]
    OBVIOUS
  <2>3. g \in [0 .. M -> X]
    BY <2>2
  <2>4. \A n \in 1 .. M : g[n] = h[n][g[n - 1]]
    <3> TAKE n \in 1 .. M
    <3>1. n - 1 \in 0 .. M - 1 /\ g[n - 1] = f[n - 1]
      BY <2>2
    <3>2. CASE n = M
      BY <3>1, <3>2
    <3>3. CASE n # M
      BY <2>1, <2>2, <3>1, <3>3
    <3> QED
      BY <3>2, <3>3
  <2>5. g[0] = a
    BY <2>1, <2>2
  <2>6. M \in 0 .. N
    OBVIOUS
  <2> HIDE DEF g
  <2>7. \E e \in [0 .. M -> X] : Recursion(e, a, h, M)
    BY <2>3, <2>4, <2>5
  <2> QED
    BY <2>6, <2>7
<1>3. 0 .. N \subseteq Reached
  <2> HIDE DEF Reached
  <2> QED
    BY <1>1, <1>2, StepByStep
<1> QED
  <2>1. N \in 0 .. N
    OBVIOUS
  <2> HIDE DEF Recursion
  <2> QED
    BY <1>3, <2>1

=============================================================================
