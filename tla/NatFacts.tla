----------------------------- MODULE NatFacts -----------------------------
(***************************************************************************)
(* Facts about the smallest and the greatest element of a set of numbers,  *)
(* which the proofs about the table, the clock and the history rest on.    *)
(***************************************************************************)
EXTENDS Integers, Sequences, FiniteSetsExt, TLAPS, WellFoundedInduction, FiniteSetTheorems

(* Every set of natural numbers that is not empty has a smallest element.  *)
LEMMA LeastNat ==
    ASSUME NEW S \in SUBSET Nat, S # {}
    PROVE  \E x \in S : \A y \in S : x <= y
<1> DEFINE R == OpToRel(<, Nat)
<1>1. IsWellFoundedOn(R, Nat)
  BY NatLessThanWellFounded
<1>2. \A x, y \in Nat : x < y => <<x, y>> \in R
  BY DEF OpToRel
<1> HIDE DEF R
<1>3. PICK x \in S : \A y \in S : ~ (<<y, x>> \in R)
  BY <1>1, WFMin
<1>4. \A y \in S : x <= y
  <2> TAKE y \in S
  <2>1. x \in Nat /\ y \in Nat
    OBVIOUS
  <2>2. ~ (y < x)
    BY <1>2, <1>3, <2>1
  <2> QED
    BY <2>1, <2>2
<1> QED
  BY <1>4

(* Min is the smallest element.                                            *)
LEMMA MinIsLeast ==
    ASSUME NEW S \in SUBSET Nat, S # {}
    PROVE  Min(S) \in S /\ \A y \in S : Min(S) <= y
BY LeastNat DEF Min

(* A set of natural numbers below a bound has a greatest element: Max.     *)
LEMMA MaxIsGreatest ==
    ASSUME NEW n \in Nat, NEW S \in SUBSET (0..n), S # {}
    PROVE  Max(S) \in S /\ \A y \in S : Max(S) >= y
<1> DEFINE T == {n - i : i \in S}
<1>1. T \in SUBSET Nat
  OBVIOUS
<1>2. T # {}
  OBVIOUS
<1>3. PICK t \in T : \A y \in T : t <= y
  BY <1>1, <1>2, LeastNat
<1>4. PICK i \in S : t = n - i
  OBVIOUS
<1>5. \A y \in S : n - y \in T /\ y \in 0..n
  OBVIOUS
<1>6. \A y \in S : i >= y
  <2> HIDE DEF T
  <2> TAKE y \in S
  <2>1. t <= n - y
    BY <1>3, <1>5
  <2>2. i \in 0..n /\ y \in 0..n
    OBVIOUS
  <2> QED
    BY <1>4, <2>1, <2>2
<1> QED
  BY <1>6 DEF Max

(* Of two numbers Max is the greater.                                      *)
LEMMA MaxOfTwo ==
    ASSUME NEW a \in Int, NEW b \in Int
    PROVE  Max({a, b}) = IF a >= b THEN a ELSE b
<1> DEFINE m == IF a >= b THEN a ELSE b
<1>1. m \in {a, b} /\ \A y \in {a, b} : m >= y
  OBVIOUS
<1>2. \A x \in {a, b} : (\A y \in {a, b} : x >= y) => x = m
  OBVIOUS
<1> HIDE DEF m
<1>3. Max({a, b}) = m
  BY <1>1, <1>2 DEF Max
<1> QED
  BY <1>3 DEF m

(* How many elements a pair has.                                           *)
LEMMA PairCardinality ==
    ASSUME NEW a, NEW b
    PROVE  IsFiniteSet({a, b}) /\ Cardinality({a, b}) = IF a = b THEN 1 ELSE 2
<1>1. IsFiniteSet({a}) /\ Cardinality({a}) = 1
  BY FS_Singleton
<1>2. /\ IsFiniteSet({a} \cup {b})
      /\ Cardinality({a} \cup {b}) = IF b \in {a} THEN Cardinality({a})
                                     ELSE Cardinality({a}) + 1
  BY <1>1, FS_AddElement
<1>3. {a} \cup {b} = {a, b} /\ (b \in {a} <=> a = b)
  OBVIOUS
<1> QED
  BY <1>1, <1>2, <1>3

-----------------------------------------------------------------------------
(* Induction, for a set instead of a predicate.                            *)

(* A set with 0, and with i whenever it has i - 1, has all numbers to n.   *)
LEMMA Induction ==
    ASSUME NEW n \in Nat, NEW P, 0 \in P, \A i \in 1..n : i - 1 \in P => i \in P
    PROVE  \A i \in 0..n : i \in P
<1> SUFFICES ASSUME {i \in 0..n : i \notin P} # {} PROVE FALSE
  OBVIOUS
<1> DEFINE Bad == {i \in 0..n : i \notin P}
<1>1. Bad \in SUBSET Nat
  OBVIOUS
<1>2. PICK m \in Bad : \A y \in Bad : m <= y
  BY <1>1, LeastNat
<1>3. m \in 0..n /\ m \notin P
  OBVIOUS
<1>4. m \in 1..n
  BY <1>3
<1>5. m - 1 \in 0..n /\ ~ (m <= m - 1)
  BY <1>4
<1>6. m - 1 \in P
  BY <1>2, <1>5
<1> QED
  BY <1>3, <1>4, <1>6

(* g[n] is c folded with f over the first n elements of q.                 *)
IsFold(g, S, f, c, q) ==
    /\ g \in [0..Len(q) -> S] /\ g[0] = c
    /\ \A i \in 1..Len(q) : g[i] = f[<<g[i - 1], q[i]>>]

(* A function can be folded over a sequence: a recursive definition of the *)
(* fold has a value.                                                       *)
LEMMA FoldExists ==
    ASSUME NEW S, NEW T, NEW f \in [S \X T -> S], NEW c \in S, NEW q \in Seq(T)
    PROVE  \E g : IsFold(g, S, f, c, q)
<1> DEFINE Folds(n, g) == /\ g \in [0..n -> S] /\ g[0] = c
                          /\ \A i \in 1..n : g[i] = f[<<g[i - 1], q[i]>>]
           P == {n \in 0..Len(q) : \E g : Folds(n, g)}
<1>1. Len(q) \in Nat
  OBVIOUS
<1>2. 0 \in P
  <2> DEFINE h == [i \in 0..0 |-> c]
  <2>1. Folds(0, h)
    OBVIOUS
  <2>2. 0 \in 0..Len(q)
    BY <1>1
  <2> HIDE DEF h, Folds
  <2> QED
    BY <2>1, <2>2
<1>3. ASSUME NEW n \in 1..Len(q), n - 1 \in P
      PROVE  n \in P
  <2>1. PICK g : Folds(n - 1, g)
    BY <1>3
  <2> DEFINE h == [i \in 0..n |-> IF i = n THEN f[<<g[n - 1], q[n]>>] ELSE g[i]]
  <2>2. g[n - 1] \in S /\ q[n] \in T
    BY <2>1
  <2>3. h \in [0..n -> S]
    BY <2>1, <2>2
  <2>4. h[0] = c
    BY <2>1
  <2>5. \A i \in 1..n : h[i] = f[<<h[i - 1], q[i]>>]
    <3> TAKE i \in 1..n
    <3>1. CASE i = n
      <4>1. n \in 0..n /\ n - 1 \in 0..n /\ n - 1 # n
        OBVIOUS
      <4>2. h[n] = f[<<g[n - 1], q[n]>>] /\ h[n - 1] = g[n - 1]
        BY <4>1
      <4> QED
        BY <3>1, <4>2
    <3>2. CASE i # n
      <4>1. i \in 1..(n - 1) /\ i - 1 # n /\ i \in 0..n /\ i - 1 \in 0..n
        BY <3>2
      <4>2. h[i] = g[i] /\ h[i - 1] = g[i - 1]
        BY <3>2, <4>1
      <4> QED
        BY <2>1, <4>1, <4>2
    <3> QED
      BY <3>1, <3>2
  <2>6. Folds(n, h)
    BY <2>3, <2>4, <2>5
  <2>7. n \in 0..Len(q)
    OBVIOUS
  <2> HIDE DEF h, Folds
  <2> QED
    BY <2>6, <2>7
<1> HIDE DEF P
<1>4. \A n \in 0..Len(q) : n \in P
  BY <1>1, <1>2, <1>3, Induction
<1>5. Len(q) \in P
  BY <1>1, <1>4
<1> QED
  BY <1>5 DEF P, IsFold

=============================================================================
