--------------------------- MODULE NaturalRecursion ---------------------------
(***************************************************************************)
(* Induction and recursion over the natural numbers, stated for sets and   *)
(* functions, which are values, instead of predicates and operators.  Both *)
(* rest on the order of the natural numbers being well-founded.            *)
(***************************************************************************)
EXTENDS Integers, WellFoundedInduction, TLAPS

-----------------------------------------------------------------------------
(* Induction over sets of numbers                                            *)

\* A set of numbers has a least one.
LEMMA LeastElement ==
  ASSUME NEW T, T \subseteq Nat, T # {}
  PROVE  \E x \in T : \A y \in T : x <= y
<1>1. IsWellFoundedOn(OpToRel(<, Nat), Nat)
  BY NatLessThanWellFounded, Zenon
<1>2. PICK x \in T : \A y \in T : ~(<<y, x>> \in OpToRel(<, Nat))
  BY <1>1, WFMin, Zenon
<1>3. ASSUME NEW y \in T PROVE x <= y
  <2>1. x \in Nat /\ y \in Nat
    OBVIOUS
  <2>2. y < x => <<y, x>> \in OpToRel(<, Nat)
    BY <2>1 DEF OpToRel
  <2>3. ~(y < x)
    BY <1>2, <2>2, Zenon
  <2> QED
    BY <2>1, <2>3
<1> QED
  BY <1>3

\* Induction, for a set in place of a predicate.
LEMMA Induction ==
  ASSUME NEW T, T \subseteq Nat, 0 \in T, \A n \in T : n + 1 \in T
  PROVE  T = Nat
<1> SUFFICES ASSUME Nat \ T # {} PROVE FALSE
  OBVIOUS
<1>1. PICK x \in Nat \ T : \A y \in Nat \ T : x <= y
  BY LeastElement
<1>2. x - 1 \in Nat \ T
  OBVIOUS
<1> QED
  BY <1>1, <1>2

-----------------------------------------------------------------------------
(* Functions defined by recursion                                            *)

\* f is what an iteration of step from a begins with.
Begins(n, f, S, a, step) ==
  f \in [0..n -> S] /\ f[0] = a /\ \A i \in 0..(n - 1) : f[i + 1] = step[f[i]]

\* An iteration has a beginning of each length ...
LEMMA Beginnings ==
  ASSUME NEW S, NEW a \in S, NEW step \in [S -> S]
  PROVE  \A n \in Nat : \E f : Begins(n, f, S, a, step)
<1> DEFINE T == {n \in Nat : \E f : Begins(n, f, S, a, step)}
<1>1. 0 \in T
  <2>1. Begins(0, [i \in 0..0 |-> a], S, a, step)
    BY DEF Begins
  <2> QED
    BY <2>1
<1>2. ASSUME NEW n \in T PROVE n + 1 \in T
  <2>1. n \in Nat /\ n + 1 \in Nat
    OBVIOUS
  <2>2. PICK f : Begins(n, f, S, a, step)
    OBVIOUS
  <2> DEFINE h == [i \in 0..(n + 1) |-> IF i = n + 1 THEN step[f[n]] ELSE f[i]]
  <2>3. h \in [0..(n + 1) -> S] /\ h[0] = a
    BY <2>1, <2>2 DEF Begins
  <2>4. ASSUME NEW i \in 0..n PROVE h[i + 1] = step[h[i]]
    <3>1. CASE i = n
      BY <2>1, <2>2, <3>1 DEF Begins
    <3>2. CASE i # n
      <4>1. i \in 0..(n - 1) /\ i + 1 # n + 1 /\ i # n + 1 /\ i \in 0..(n + 1) /\ i + 1 \in 0..(n + 1)
        BY <2>1, <3>2
      <4> QED
        BY <2>2, <4>1 DEF Begins
    <3> QED
      BY <3>1, <3>2
  <2> HIDE DEF h
  <2>5. 0..((n + 1) - 1) = 0..n
    BY <2>1
  <2>6. Begins(n + 1, h, S, a, step)
    BY <2>3, <2>4, <2>5 DEF Begins
  <2> QED
    BY <2>1, <2>6
<1>3. T \subseteq Nat
  OBVIOUS
<1>4. T = Nat
  <2> HIDE DEF T
  <2> QED
    BY <1>1, <1>2, <1>3, Induction
<1> QED
  BY <1>4

\* ... and two of them agree as far as both go.
LEMMA SameBeginnings ==
  ASSUME NEW S, NEW a \in S, NEW step \in [S -> S], NEW m \in Nat, NEW n \in Nat,
         NEW f, NEW g, Begins(m, f, S, a, step), Begins(n, g, S, a, step), m <= n
  PROVE  \A i \in 0..m : f[i] = g[i]
<1> DEFINE T == {i \in Nat : i <= m => f[i] = g[i]}
<1>1. 0 \in T
  BY DEF Begins
<1>2. ASSUME NEW i \in T PROVE i + 1 \in T
  <2>1. i \in Nat /\ (i <= m => f[i] = g[i])
    OBVIOUS
  <2>2. ASSUME i + 1 <= m PROVE f[i + 1] = g[i + 1]
    <3>1. i \in 0..(m - 1) /\ i \in 0..(n - 1)
      BY <2>1, <2>2
    <3> QED
      BY <2>1, <2>2, <3>1 DEF Begins
  <2> QED
    BY <2>1, <2>2
<1>3. T \subseteq Nat
  OBVIOUS
<1>4. T = Nat
  <2> HIDE DEF T
  <2> QED
    BY <1>1, <1>2, <1>3, Induction
<1> QED
  BY <1>4

\* A function that starts at a and takes a step each time exists: what a recursive
\* definition over the natural numbers needs.
LEMMA Iteration ==
  ASSUME NEW S, NEW a \in S, NEW step \in [S -> S]
  PROVE  \E f \in [Nat -> S] : f[0] = a /\ \A k \in Nat : f[k + 1] = step[f[k]]
<1> DEFINE b(n) == CHOOSE f : Begins(n, f, S, a, step)
           F == [n \in Nat |-> b(n)[n]]
<1>1. \A n \in Nat : Begins(n, b(n), S, a, step)
  BY Beginnings
<1> HIDE DEF b
<1>2. F \in [Nat -> S]
  <2>1. ASSUME NEW n \in Nat PROVE b(n)[n] \in S
    <3>1. n \in 0..n
      OBVIOUS
    <3> QED
      BY <1>1, <3>1 DEF Begins
  <2> QED
    BY <2>1
<1>3. F[0] = a
  BY <1>1 DEF Begins
<1>4. ASSUME NEW k \in Nat PROVE F[k + 1] = step[F[k]]
  <2>1. k + 1 \in Nat /\ k <= k + 1 /\ k \in 0..k /\ k \in 0..((k + 1) - 1)
    OBVIOUS
  <2>2. b(k)[k] = b(k + 1)[k]
    BY <1>1, <2>1, SameBeginnings
  <2>3. b(k + 1)[k + 1] = step[b(k + 1)[k]]
    BY <1>1, <2>1 DEF Begins
  <2> QED
    BY <2>1, <2>2, <2>3
<1> HIDE DEF F
<1> QED
  BY <1>2, <1>3, <1>4
=============================================================================
