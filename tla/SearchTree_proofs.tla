------------------------- MODULE SearchTree_proofs -------------------------
(***************************************************************************)
(* Proofs about SearchTree: the order of the moves of every node on the    *)
(* stack, and how far what a node knows of repetitions reaches, whatever   *)
(* the table, the cutoffs and the searches before it.                      *)
(***************************************************************************)
EXTENDS SearchTree, NatFacts, SequenceTheorems

-----------------------------------------------------------------------------
(* Entries and sequences of them.                                          *)

OrderEntry == [value : Int, hint : BOOLEAN, check : BOOLEAN, move : Nat]

LEMMA BelowIsOrder ==
    ASSUME NEW e \in OrderEntry, NEW f \in OrderEntry, NEW g \in OrderEntry
    PROVE  /\ Below(e, f) => ~Below(f, e)
           /\ Below(e, f) /\ Below(f, g) => Below(e, g)
           /\ ~Below(e, f) /\ ~Below(f, g) => ~Below(e, g)
<1> DEFINE rank(x) == 2 * (IF x.hint THEN 1 ELSE 0) + (IF x.check THEN 1 ELSE 0)
<1>1. rank(e) \in Int /\ rank(f) \in Int /\ rank(g) \in Int
  OBVIOUS
<1>2. /\ e.value \in Int /\ f.value \in Int /\ g.value \in Int
      /\ e.move \in Int /\ f.move \in Int /\ g.move \in Int
  BY DEF OrderEntry
<1>3. /\ Below(e, f) <=> \/ e.value < f.value
                         \/ e.value = f.value /\ rank(e) < rank(f)
                         \/ e.value = f.value /\ rank(e) = rank(f) /\ e.move < f.move
      /\ Below(f, e) <=> \/ f.value < e.value
                         \/ f.value = e.value /\ rank(f) < rank(e)
                         \/ f.value = e.value /\ rank(f) = rank(e) /\ f.move < e.move
      /\ Below(f, g) <=> \/ f.value < g.value
                         \/ f.value = g.value /\ rank(f) < rank(g)
                         \/ f.value = g.value /\ rank(f) = rank(g) /\ f.move < g.move
      /\ Below(e, g) <=> \/ e.value < g.value
                         \/ e.value = g.value /\ rank(e) < rank(g)
                         \/ e.value = g.value /\ rank(e) = rank(g) /\ e.move < g.move
  BY DEF Below
<1> HIDE DEF rank
<1> QED
  BY <1>1, <1>2, <1>3

(* Two sequences after another.                                            *)
LEMMA Joined ==
    ASSUME NEW S, NEW a \in Seq(S), NEW b \in Seq(S)
    PROVE  /\ a \o b \in Seq(S) /\ Len(a \o b) = Len(a) + Len(b)
           /\ \A j \in 1..Len(a) : (a \o b)[j] = a[j]
           /\ \A j \in Len(a) + 1..Len(a) + Len(b) : (a \o b)[j] = b[j - Len(a)]
<1>1. /\ a \o b \in Seq(S) /\ Len(a \o b) = Len(a) + Len(b)
      /\ \A j \in 1..Len(a) + Len(b) : (a \o b)[j] = IF j <= Len(a) THEN a[j] ELSE b[j - Len(a)]
  BY ConcatProperties
<1>2. Len(a) \in Nat /\ Len(b) \in Nat
  OBVIOUS
<1> QED
  BY <1>1, <1>2

(* The parts before and from a place.                                      *)
LEMMA Parts ==
    ASSUME NEW S, NEW s \in Seq(S), NEW n \in Nat, Len(s) = n, NEW k \in 1..n + 1
    PROVE  /\ SubSeq(s, 1, k - 1) \in Seq(S) /\ Len(SubSeq(s, 1, k - 1)) = k - 1
           /\ \A j \in 1..k - 1 : SubSeq(s, 1, k - 1)[j] = s[j]
           /\ SubSeq(s, k, n) \in Seq(S) /\ Len(SubSeq(s, k, n)) = n + 1 - k
           /\ \A j \in 1..n + 1 - k : SubSeq(s, k, n)[j] = s[k - 1 + j]
OBVIOUS

(* s without the element i, or s itself where i is behind its last one.    *)
Without(s, i) == SubSeq(s, 1, i - 1) \o SubSeq(s, i + 1, Len(s))

LEMMA WithoutElement ==
    ASSUME NEW S, NEW s \in Seq(S), NEW i \in 1..Len(s) + 1
    PROVE  /\ Without(s, i) \in Seq(S)
           /\ Len(Without(s, i)) = IF i <= Len(s) THEN Len(s) - 1 ELSE Len(s)
           /\ \A j \in 1..i - 1 : Without(s, i)[j] = s[j]
           /\ \A j \in i..Len(s) - 1 : Without(s, i)[j] = s[j + 1]
<1> DEFINE n == Len(s)
           t == Without(s, i)
           a == SubSeq(s, 1, i - 1)
           b == SubSeq(s, i + 1, n)
           m == IF i <= n THEN n - i ELSE 0
           p == i - 1
<1>0. n \in Nat /\ i \in 1..n + 1
  OBVIOUS
<1>4. t = a \o b
  BY DEF Without
<1> HIDE DEF t
<1>1. a \in Seq(S) /\ Len(a) = i - 1 /\ i - 1 \in Nat /\ \A j \in 1..i - 1 : a[j] = s[j]
  BY <1>0, Parts
<1>2. m \in Nat /\ b \in Seq(S) /\ Len(b) = m /\ \A j \in 1..m : b[j] = s[i + j]
  <2>1. CASE i <= n
    <3>1. i + 1 \in 1..n + 1
      BY <1>0, <2>1
    <3>2. /\ b \in Seq(S) /\ Len(b) = n + 1 - (i + 1)
          /\ \A j \in 1..n + 1 - (i + 1) : b[j] = s[(i + 1) - 1 + j]
      BY <1>0, <3>1, Parts
    <3> QED
      BY <1>0, <2>1, <3>2
  <2>2. CASE i > n
    BY <1>0, <2>2
  <2> QED
    BY <1>0, <2>1, <2>2
<1> HIDE DEF a, b, n
<1>3. /\ a \o b \in Seq(S) /\ Len(a \o b) = p + m
      /\ \A j \in 1..p : (a \o b)[j] = a[j]
      /\ \A j \in p + 1..p + m : (a \o b)[j] = b[j - p]
  <2>1. p \in Nat /\ a \in Seq(S) /\ Len(a) = p
    BY <1>1
  <2>2. m \in Nat /\ b \in Seq(S) /\ Len(b) = m
    BY <1>2
  <2>3. /\ a \o b \in Seq(S) /\ Len(a \o b) = Len(a) + Len(b)
        /\ \A j \in 1..Len(a) : (a \o b)[j] = a[j]
        /\ \A j \in Len(a) + 1..Len(a) + Len(b) : (a \o b)[j] = b[j - Len(a)]
    BY <2>1, <2>2, Joined
  <2> HIDE DEF p, m
  <2> QED
    BY <2>1, <2>2, <2>3
<1>5. ASSUME NEW j \in i..n - 1 PROVE t[j] = s[j + 1]
  <2>1. j \in p + 1..p + m /\ j - p \in 1..m /\ i + (j - p) = j + 1
    BY <1>0
  <2> HIDE DEF p, m
  <2> QED
    BY <2>1, <1>2, <1>3, <1>4
<1>6. i - 1 + m = IF i <= n THEN n - 1 ELSE n
  BY <1>0
<1> HIDE DEF m
<1> QED
  BY <1>1, <1>3, <1>4, <1>5, <1>6 DEF t, n

LEMMA WithElement ==
    ASSUME NEW S, NEW s \in Seq(S), NEW k \in 1..Len(s) + 1, NEW e \in S
    PROVE  /\ InsertAt(s, k, e) \in Seq(S) /\ Len(InsertAt(s, k, e)) = Len(s) + 1
           /\ \A j \in 1..k - 1 : InsertAt(s, k, e)[j] = s[j]
           /\ InsertAt(s, k, e)[k] = e
           /\ \A j \in k + 1..Len(s) + 1 : InsertAt(s, k, e)[j] = s[j - 1]
<1> DEFINE n == Len(s)
           a == SubSeq(s, 1, k - 1)
           b == SubSeq(s, k, n)
           c == <<e>>
           t == InsertAt(s, k, e)
           p == k - 1
           q == n + 1 - k
<1>0. n \in Nat /\ k \in 1..n + 1
  OBVIOUS
<1>1. /\ a \in Seq(S) /\ Len(a) = k - 1 /\ k - 1 \in Nat /\ n + 1 - k \in Nat
      /\ \A j \in 1..k - 1 : a[j] = s[j]
      /\ b \in Seq(S) /\ Len(b) = n + 1 - k
      /\ \A j \in 1..n + 1 - k : b[j] = s[k - 1 + j]
  BY <1>0, Parts
<1>2. c \in Seq(S) /\ Len(c) = 1 /\ c[1] = e
  OBVIOUS
<1>3. t = (a \o c) \o b
  BY DEF InsertAt
<1> HIDE DEF a, b, c, t, n
<1>4. /\ a \o c \in Seq(S) /\ Len(a \o c) = p + 1
      /\ \A j \in 1..p : (a \o c)[j] = a[j]
      /\ \A j \in p + 1..p + 1 : (a \o c)[j] = c[j - p]
  <2>1. p \in Nat /\ a \in Seq(S) /\ Len(a) = p
    BY <1>1
  <2>2. 1 \in Nat /\ c \in Seq(S) /\ Len(c) = 1
    BY <1>2
  <2>3. /\ a \o c \in Seq(S) /\ Len(a \o c) = Len(a) + Len(c)
        /\ \A j \in 1..Len(a) : (a \o c)[j] = a[j]
        /\ \A j \in Len(a) + 1..Len(a) + Len(c) : (a \o c)[j] = c[j - Len(a)]
    BY <2>1, <2>2, Joined
  <2> HIDE DEF p
  <2> QED
    BY <2>1, <2>2, <2>3
<1>5. /\ a \o c \in Seq(S) /\ Len(a \o c) = k /\ k \in Nat
      /\ \A j \in 1..k - 1 : (a \o c)[j] = s[j]
      /\ (a \o c)[k] = e
  BY <1>0, <1>1, <1>2, <1>4
<1>6. /\ t \in Seq(S) /\ Len(t) = k + q
      /\ \A j \in 1..k : t[j] = (a \o c)[j]
      /\ \A j \in k + 1..k + q : t[j] = b[j - k]
  <2>1. q \in Nat /\ b \in Seq(S) /\ Len(b) = q
    BY <1>1
  <2>2. k \in Nat /\ a \o c \in Seq(S) /\ Len(a \o c) = k
    BY <1>5
  <2> DEFINE d == a \o c
  <2>3. d \in Seq(S) /\ Len(d) = k
    BY <2>2
  <2> HIDE DEF d
  <2>4. /\ d \o b \in Seq(S) /\ Len(d \o b) = Len(d) + Len(b)
        /\ \A j \in 1..Len(d) : (d \o b)[j] = d[j]
        /\ \A j \in Len(d) + 1..Len(d) + Len(b) : (d \o b)[j] = b[j - Len(d)]
    BY <2>1, <2>3, Joined
  <2>5. t = d \o b
    BY <1>3 DEF d
  <2> HIDE DEF q
  <2>6. /\ t \in Seq(S) /\ Len(t) = k + q
        /\ \A j \in 1..k : t[j] = d[j]
        /\ \A j \in k + 1..k + q : t[j] = b[j - k]
    BY <2>1, <2>3, <2>4, <2>5
  <2> QED
    BY <2>6 DEF d
<1>7. ASSUME NEW j \in k + 1..n + 1 PROVE t[j] = s[j - 1]
  <2>1. j \in k + 1..k + q /\ j - k \in 1..n + 1 - k /\ k - 1 + (j - k) = j - 1
    BY <1>0
  <2> QED
    BY <2>1, <1>1, <1>6
<1>8. k + q = n + 1 /\ k \in 1..k /\ \A j \in 1..k - 1 : j \in 1..k
  BY <1>0
<1> QED
  BY <1>5, <1>6, <1>7, <1>8 DEF t, n

-----------------------------------------------------------------------------
(* insert_at: the entry e goes to the place k, the entries from k to before *)
(* i move up.                                                              *)

IsPut(r, s, picked, i, k, e) ==
    /\ r \in Seq(OrderEntry) /\ Len(r) = IF i <= Len(s) THEN Len(s) ELSE Len(s) + 1
    /\ k \in picked + 1..i
    /\ \A j \in 1..k - 1 : r[j] = s[j]
    /\ r[k] = e
    /\ \A j \in k + 1..i : r[j] = s[j - 1]
    /\ \A j \in i + 1..Len(s) : r[j] = s[j]
    /\ k > picked + 1 => ~Below(s[k - 1], e)
    /\ \A j \in k..i - 1 : Below(s[j], e)

LEMMA InsertedIsPut ==
    ASSUME NEW s \in Seq(OrderEntry), NEW picked \in Nat, NEW i \in picked + 1..Len(s) + 1,
           NEW e \in OrderEntry
    PROVE  \E k \in Nat : IsPut(insert_at(s, picked, i, e), s, picked, i, k, e)
<1> DEFINE n == Len(s)
           kept == {j \in picked + 1..i - 1 : ~Below(s[j], e)}
           stop == Max({picked} \cup kept)
           t == Without(s, i)
           r == InsertAt(t, stop + 1, e)
           k == stop + 1
<1>1. n \in Nat /\ i \in 1..n + 1 /\ i \in Nat
  OBVIOUS
<1>2. /\ stop \in {picked} \cup kept
      /\ \A x \in {picked} \cup kept : x <= stop
  <2>1. {picked} \cup kept \subseteq 0..i
    BY <1>1
  <2>2. {picked} \cup kept # {}
    OBVIOUS
  <2> HIDE DEF kept
  <2> QED
    BY <2>1, <2>2, <1>1, MaxIsGreatest
<1>3. stop \in Nat /\ stop \in picked..i - 1 /\ k \in picked + 1..i
  BY <1>1, <1>2
<1>4. /\ t \in Seq(OrderEntry) /\ Len(t) = IF i <= n THEN n - 1 ELSE n
      /\ \A j \in 1..i - 1 : t[j] = s[j]
      /\ \A j \in i..n - 1 : t[j] = s[j + 1]
  <2> HIDE DEF kept, stop, r, k, t
  <2>1. i \in 1..Len(s) + 1
    BY <1>1
  <2> HIDE DEF n
  <2>2. /\ Without(s, i) \in Seq(OrderEntry)
        /\ Len(Without(s, i)) = IF i <= Len(s) THEN Len(s) - 1 ELSE Len(s)
        /\ \A j \in 1..i - 1 : Without(s, i)[j] = s[j]
        /\ \A j \in i..Len(s) - 1 : Without(s, i)[j] = s[j + 1]
    BY <2>1, WithoutElement
  <2> QED
    BY <2>2 DEF t, n
<1> DEFINE m == Len(t)
<1>5. m \in Nat /\ m = IF i <= n THEN n - 1 ELSE n
  <2> HIDE DEF t, n
  <2> QED
    BY <1>1, <1>4
<1> HIDE DEF stop, t, n, m
<1>6. k \in 1..m + 1
  BY <1>1, <1>3, <1>5
<1>7. /\ r \in Seq(OrderEntry) /\ Len(r) = m + 1
      /\ \A j \in 1..k - 1 : r[j] = t[j]
      /\ r[k] = e
      /\ \A j \in k + 1..m + 1 : r[j] = t[j - 1]
  <2>1. InsertAt(t, k, e) = r
    BY DEF k
  <2>2. t \in Seq(OrderEntry) /\ k \in 1..Len(t) + 1
    BY <1>4, <1>6 DEF m
  <2> HIDE DEF r, k, kept
  <2>3. /\ InsertAt(t, k, e) \in Seq(OrderEntry) /\ Len(InsertAt(t, k, e)) = Len(t) + 1
        /\ \A j \in 1..k - 1 : InsertAt(t, k, e)[j] = t[j]
        /\ InsertAt(t, k, e)[k] = e
        /\ \A j \in k + 1..Len(t) + 1 : InsertAt(t, k, e)[j] = t[j - 1]
    BY <2>2, WithElement
  <2> QED
    BY <2>1, <2>3 DEF m
<1>8. insert_at(s, picked, i, e) = r
  BY DEF insert_at, Without, stop, t
<1> HIDE DEF r, k, m, n
<1>9. \A j \in 1..k - 1 : r[j] = s[j]
  BY <1>1, <1>3, <1>4, <1>7
<1>10. \A j \in k + 1..i : r[j] = s[j - 1]
  <2> TAKE j \in k + 1..i
  <2>1. j \in k + 1..m + 1 /\ j - 1 \in 1..i - 1
    BY <1>1, <1>3, <1>5
  <2> QED
    BY <2>1, <1>4, <1>7
<1>11. \A j \in i + 1..n : r[j] = s[j]
  <2> TAKE j \in i + 1..n
  <2>1. j \in k + 1..m + 1 /\ j - 1 \in i..n - 1 /\ j - 1 + 1 = j
    BY <1>1, <1>3, <1>5
  <2> QED
    BY <2>1, <1>4, <1>7
<1>12. k > picked + 1 => ~Below(s[k - 1], e)
  <2> SUFFICES ASSUME k > picked + 1 PROVE ~Below(s[k - 1], e)
    OBVIOUS
  <2>1. stop # picked /\ k - 1 = stop
    BY <1>3 DEF k
  <2> QED
    BY <2>1, <1>2
<1>13. \A j \in k..i - 1 : Below(s[j], e)
  <2> TAKE j \in k..i - 1
  <2>1. j \in picked + 1..i - 1 /\ ~(j <= stop)
    BY <1>1, <1>3 DEF k
  <2> QED
    BY <2>1, <1>2
<1>14. Len(r) = IF i <= n THEN n ELSE n + 1
  BY <1>1, <1>5, <1>7
<1>15. IsPut(r, s, picked, i, k, e)
  BY <1>3, <1>7, <1>9, <1>10, <1>11, <1>12, <1>13, <1>14 DEF IsPut, n
<1>16. k \in Nat
  BY <1>3
<1> QED
  BY <1>8, <1>15, <1>16

(* The entries behind the first p are sorted.                              *)
SortedFrom(s, p) == \A j \in p + 1..Len(s) - 1 : ~Below(s[j], s[j + 1])

(* A new entry, or one that was raised, leaves what waits sorted.          *)
LEMMA PutKeepsSorted ==
    ASSUME NEW s \in Seq(OrderEntry), NEW p \in Nat, NEW i \in p + 1..Len(s) + 1,
           NEW e \in OrderEntry, NEW k \in Nat, NEW r, IsPut(r, s, p, i, k, e),
           SortedFrom(s, p), i <= Len(s) => Below(s[i], e)
    PROVE  SortedFrom(r, p)
<1> DEFINE n == Len(s)
<1>1. n \in Nat /\ i \in p + 1..n + 1 /\ i \in Nat /\ k \in p + 1..i
  BY DEF IsPut
<1>2. /\ \A j \in 1..k - 1 : r[j] = s[j]
      /\ r[k] = e
      /\ \A j \in k + 1..i : r[j] = s[j - 1]
      /\ \A j \in i + 1..n : r[j] = s[j]
  BY DEF IsPut
<1>3. /\ k > p + 1 => ~Below(s[k - 1], e)
      /\ \A j \in k..i - 1 : Below(s[j], e)
  BY DEF IsPut
<1>4. Len(r) = IF i <= n THEN n ELSE n + 1
  BY DEF IsPut
<1>5. \A j \in 1..n : s[j] \in OrderEntry
  OBVIOUS
<1>6. \A j \in p + 1..n - 1 : ~Below(s[j], s[j + 1])
  BY DEF SortedFrom
<1>7. i <= n => Below(s[i], e)
  OBVIOUS
<1> HIDE DEF n
<1>8. ASSUME NEW j \in p + 1..Len(r) - 1 PROVE ~Below(r[j], r[j + 1])
  <2>0. j \in Nat /\ j + 1 \in Nat /\ j \in 1..n
    BY <1>1, <1>4
  <2>1. CASE j + 1 < k
    BY <2>0, <2>1, <1>1, <1>2, <1>6
  <2>2. CASE j + 1 = k
    BY <2>0, <2>2, <1>1, <1>2, <1>3
  <2>3. CASE j = k /\ k < i
    <3>1. r[j + 1] = s[k] /\ k \in k..i - 1 /\ k \in 1..n
      BY <2>3, <1>1, <1>2
    <3>2. Below(s[k], e) /\ s[k] \in OrderEntry
      BY <3>1, <1>3, <1>5
    <3> QED
      BY <2>3, <3>1, <3>2, <1>2, BelowIsOrder
  <2>4. CASE j = k /\ k = i
    <3>1. i <= n /\ i + 1 <= n
      BY <2>4, <1>1, <1>4
    <3>2. r[j + 1] = s[i + 1] /\ i \in 1..n /\ i + 1 \in 1..n /\ i \in p + 1..n - 1
      BY <3>1, <2>4, <1>1, <1>2
    <3>3. Below(s[i], e) /\ ~Below(s[i], s[i + 1]) /\ s[i] \in OrderEntry /\ s[i + 1] \in OrderEntry
      BY <3>1, <3>2, <1>5, <1>6, <1>7
    <3>4. ~Below(e, s[i + 1])
      BY <3>3, BelowIsOrder
    <3> QED
      BY <2>4, <3>2, <3>4, <1>2
  <2>5. CASE j > k /\ j < i
    <3>1. r[j] = s[j - 1] /\ r[j + 1] = s[j + 1 - 1] /\ j + 1 - 1 = j /\ j - 1 + 1 = j
      BY <2>0, <2>5, <1>1, <1>2
    <3>2. j - 1 \in p + 1..n - 1
      BY <2>0, <2>5, <1>1
    <3> QED
      BY <3>1, <3>2, <1>6
  <2>6. CASE j > k /\ j = i
    <3>1. i <= n /\ i + 1 <= n
      BY <2>6, <1>1, <1>4
    <3>2. r[j] = s[i - 1] /\ r[j + 1] = s[i + 1]
      BY <2>6, <3>1, <1>1, <1>2
    <3>3. i - 1 \in p + 1..n - 1 /\ i - 1 + 1 = i /\ i \in p + 1..n - 1
      BY <2>6, <3>1, <1>1
    <3>4. ~Below(s[i - 1], s[i]) /\ ~Below(s[i], s[i + 1])
      BY <3>3, <1>6
    <3>5. s[i - 1] \in OrderEntry /\ s[i] \in OrderEntry /\ s[i + 1] \in OrderEntry
      BY <3>1, <3>3, <1>1, <1>5
    <3> QED
      BY <3>2, <3>4, <3>5, BelowIsOrder
  <2>7. CASE j > i
    <3>1. i <= n /\ j + 1 <= n
      BY <2>0, <2>7, <1>1, <1>4
    <3>2. r[j] = s[j] /\ r[j + 1] = s[j + 1] /\ j \in p + 1..n - 1
      BY <2>0, <2>7, <3>1, <1>1, <1>2
    <3> QED
      BY <3>2, <1>6
  <2> QED
    BY <2>0, <2>1, <2>2, <2>3, <2>4, <2>5, <2>6, <2>7, <1>1
<1> QED
  BY <1>8 DEF SortedFrom

MovesIn(s) == {s[j].move : j \in 1..Len(s)}
Distinct(s) == \A i, j \in 1..Len(s) : s[i].move = s[j].move => i = j

(* The element that stood at the place j of what insert_at made, the new   *)
(* entry standing for the place i.                                         *)
PutFrom(i, k, j) == IF j < k THEN j ELSE IF j = k THEN i ELSE IF j <= i THEN j - 1 ELSE j

LEMMA PutKeepsMoves ==
    ASSUME NEW s \in Seq(OrderEntry), NEW p \in Nat, NEW i \in p + 1..Len(s) + 1,
           NEW e \in OrderEntry, NEW k \in Nat, NEW r, IsPut(r, s, p, i, k, e),
           Distinct(s), i <= Len(s) => e.move = s[i].move,
           i = Len(s) + 1 => e.move \notin MovesIn(s)
    PROVE  Distinct(r) /\ MovesIn(r) = MovesIn(s) \cup {e.move}
<1> DEFINE n == Len(s)
           l == Len(r)
           name(j) == IF j = i THEN e.move ELSE s[j].move
           from(j) == PutFrom(i, k, j)
<1>1. n \in Nat /\ i \in p + 1..n + 1 /\ i \in Nat /\ k \in p + 1..i
  BY DEF IsPut
<1>2. /\ \A j \in 1..k - 1 : r[j] = s[j]
      /\ r[k] = e
      /\ \A j \in k + 1..i : r[j] = s[j - 1]
      /\ \A j \in i + 1..n : r[j] = s[j]
  BY DEF IsPut
<1>3. l = IF i <= n THEN n ELSE n + 1
  BY DEF IsPut
<1>4. \A a, b \in 1..n : s[a].move = s[b].move => a = b
  BY DEF Distinct
<1>5. i <= n => e.move = s[i].move
  OBVIOUS
<1>6. i = n + 1 => \A j \in 1..n : s[j].move # e.move
  BY DEF MovesIn
<1>7. MovesIn(s) = {s[j].move : j \in 1..n} /\ MovesIn(r) = {r[j].move : j \in 1..l}
  BY DEF MovesIn
<1> HIDE DEF n, l
<1>8. \A j \in 1..l : from(j) \in 1..l /\ r[j].move = name(from(j))
  <2> TAKE j \in 1..l
  <2>1. CASE j < k
    BY <2>1, <1>1, <1>2, <1>3 DEF PutFrom
  <2>2. CASE j = k
    BY <2>2, <1>1, <1>2, <1>3 DEF PutFrom
  <2>3. CASE j > k /\ j <= i
    BY <2>3, <1>1, <1>2, <1>3 DEF PutFrom
  <2>4. CASE j > i
    BY <2>4, <1>1, <1>2, <1>3 DEF PutFrom
  <2> QED
    BY <2>1, <2>2, <2>3, <2>4, <1>1, <1>3
<1>9. \A a, b \in 1..l : from(a) = from(b) => a = b
  BY <1>1, <1>3 DEF PutFrom
<1>10. \A a, b \in 1..l : name(a) = name(b) => a = b
  <2> TAKE a, b \in 1..l
  <2>1. CASE i <= n
    BY <2>1, <1>1, <1>3, <1>4, <1>5
  <2>2. CASE i = n + 1
    <3>1. \A j \in 1..l : j # i => j \in 1..n
      BY <2>2, <1>1, <1>3
    <3> QED
      BY <2>2, <3>1, <1>4, <1>6
  <2> QED
    BY <2>1, <2>2, <1>1
<1>11. Distinct(r)
  <2> HIDE DEF from, name
  <2>1. \A a, b \in 1..l : r[a].move = r[b].move => a = b
    BY <1>8, <1>9, <1>10
  <2> QED
    BY <2>1 DEF Distinct, l
<1>12. \A x \in 1..l : \E j \in 1..l : from(j) = x
  <2> TAKE x \in 1..l
  <2>1. CASE x < k
    BY <2>1, <1>1, <1>3 DEF PutFrom
  <2>2. CASE x >= k /\ x < i
    <3>1. x + 1 \in 1..l /\ from(x + 1) = x
      BY <2>2, <1>1, <1>3 DEF PutFrom
    <3> QED
      BY <3>1
  <2>3. CASE x = i
    <3>1. k \in 1..l /\ from(k) = x
      BY <2>3, <1>1, <1>3 DEF PutFrom
    <3> QED
      BY <3>1
  <2>4. CASE x > i
    <3>1. from(x) = x
      BY <2>4, <1>1, <1>3 DEF PutFrom
    <3> QED
      BY <3>1
  <2> QED
    BY <2>1, <2>2, <2>3, <2>4, <1>1, <1>3
<1>13. MovesIn(r) = {name(x) : x \in 1..l}
  <2> HIDE DEF from, name
  <2>1. ASSUME NEW j \in 1..l PROVE r[j].move \in {name(x) : x \in 1..l}
    BY <1>8
  <2>2. ASSUME NEW x \in 1..l PROVE name(x) \in {r[j].move : j \in 1..l}
    <3>1. PICK j \in 1..l : from(j) = x
      BY <1>12
    <3>2. r[j].move = name(x)
      BY <3>1, <1>8
    <3> QED
      BY <3>2
  <2> QED
    BY <2>1, <2>2, <1>7
<1>14. {name(x) : x \in 1..l} = {s[j].move : j \in 1..n} \cup {e.move}
  <2>1. i \in 1..l /\ name(i) = e.move
    BY <1>1, <1>3
  <2>2. \A x \in 1..l : x # i => x \in 1..n /\ name(x) = s[x].move
    BY <1>1, <1>3
  <2>3. \A x \in 1..n : x \in 1..l
    BY <1>1, <1>3
  <2>4. \A x \in 1..n : name(x) = s[x].move
    BY <1>5, <1>1
  <2> HIDE DEF name
  <2> QED
    BY <2>1, <2>2, <2>3, <2>4
<1> QED
  BY <1>7, <1>11, <1>13, <1>14

(* The entries of the moves M, of which the first p have been picked.      *)
EntriesOf(s, p, M) ==
    /\ s \in Seq(OrderEntry) /\ p \in 0..Len(s)
    /\ Distinct(s) /\ MovesIn(s) = M /\ SortedFrom(s, p)

LEMMA InsertNew ==
    ASSUME NEW s, NEW p, NEW M, EntriesOf(s, p, M), NEW e \in OrderEntry, e.move \notin M
    PROVE  /\ EntriesOf(insert_at(s, p, Len(s) + 1, e), p, M \cup {e.move})
           /\ Len(insert_at(s, p, Len(s) + 1, e)) = Len(s) + 1
<1> DEFINE i == Len(s) + 1
           r == insert_at(s, p, i, e)
<1>1. s \in Seq(OrderEntry) /\ p \in Nat /\ Len(s) \in Nat /\ i \in p + 1..Len(s) + 1
      /\ ~(i <= Len(s)) /\ p \in 0..i
  BY DEF EntriesOf
<1>2. Distinct(s) /\ MovesIn(s) = M /\ SortedFrom(s, p)
  BY DEF EntriesOf
<1>3. PICK k \in Nat : IsPut(r, s, p, i, k, e)
  BY <1>1, InsertedIsPut
<1> HIDE DEF r, i
<1>4. SortedFrom(r, p)
  BY <1>1, <1>2, <1>3, PutKeepsSorted
<1>5. Distinct(r) /\ MovesIn(r) = M \cup {e.move}
  BY <1>1, <1>2, <1>3, PutKeepsMoves
<1>6. r \in Seq(OrderEntry) /\ Len(r) = Len(s) + 1
  BY <1>1, <1>3 DEF IsPut
<1>7. p \in 0..Len(r)
  BY <1>1, <1>6 DEF i
<1> QED
  BY <1>4, <1>5, <1>6, <1>7 DEF EntriesOf, r, i

LEMMA RaiseOld ==
    ASSUME NEW s, NEW p, NEW M, EntriesOf(s, p, M), NEW i \in p + 1..Len(s),
           NEW e \in OrderEntry, e.move = s[i].move, Below(s[i], e)
    PROVE  EntriesOf(insert_at(s, p, i, e), p, M)
<1> DEFINE r == insert_at(s, p, i, e)
<1>1. s \in Seq(OrderEntry) /\ p \in Nat /\ Len(s) \in Nat /\ i \in p + 1..Len(s) + 1
      /\ i <= Len(s) /\ ~(i = Len(s) + 1) /\ p \in 0..Len(s) /\ i \in 1..Len(s)
  BY DEF EntriesOf
<1>2. Distinct(s) /\ MovesIn(s) = M /\ SortedFrom(s, p)
  BY DEF EntriesOf
<1>3. PICK k \in Nat : IsPut(r, s, p, i, k, e)
  BY <1>1, InsertedIsPut
<1> HIDE DEF r
<1>4. SortedFrom(r, p)
  BY <1>1, <1>2, <1>3, PutKeepsSorted
<1>5. Distinct(r) /\ MovesIn(r) = M \cup {e.move}
  BY <1>1, <1>2, <1>3, PutKeepsMoves
<1>6. r \in Seq(OrderEntry) /\ Len(r) = Len(s)
  BY <1>1, <1>3 DEF IsPut
<1>7. e.move \in M
  BY <1>1, <1>2 DEF MovesIn
<1>8. M \cup {e.move} = M
  BY <1>7
<1> QED
  BY <1>1, <1>4, <1>5, <1>6, <1>8 DEF EntriesOf, r

-----------------------------------------------------------------------------
(* A fold over a finite set has a value.                                   *)

Chosen(s) == CHOOSE x \in s : TRUE
FoldStep(f, c, g, s) == IF s = {} THEN c ELSE f[<<Chosen(s), g[s \ {Chosen(s)}]>>]

LEMMA ChosenElement ==
    ASSUME NEW S, IsFiniteSet(S), NEW s \in SUBSET S, s # {}
    PROVE  /\ Chosen(s) \in s /\ Chosen(s) \in S
           /\ s \ {Chosen(s)} \in SUBSET S /\ s = (s \ {Chosen(s)}) \cup {Chosen(s)}
           /\ IsFiniteSet(s) /\ Cardinality(s) \in Nat \ {0}
           /\ Cardinality(s \ {Chosen(s)}) = Cardinality(s) - 1
<1>1. Chosen(s) \in s
  BY DEF Chosen
<1>2. IsFiniteSet(s) /\ Cardinality(s) \in Nat
  BY FS_Subset, FS_CardinalityType
<1>3. Cardinality(s) # 0
  BY <1>2, FS_EmptySet
<1>4. Cardinality(s \ {Chosen(s)}) = Cardinality(s) - 1
  BY <1>1, <1>2, FS_RemoveElement
<1> QED
  BY <1>1, <1>2, <1>3, <1>4

IsSetFold(g, S, A, f, c, n) ==
    /\ g \in [{s \in SUBSET S : Cardinality(s) <= n} -> A]
    /\ \A s \in SUBSET S : Cardinality(s) <= n => g[s] = FoldStep(f, c, g, s)

LEMMA SetFoldGrows ==
    ASSUME NEW S, IsFiniteSet(S), NEW A, NEW f \in [S \X A -> A], NEW c \in A,
           NEW n \in Nat \ {0}, NEW g, IsSetFold(g, S, A, f, c, n - 1)
    PROVE  \E h : IsSetFold(h, S, A, f, c, n)
<1> DEFINE U == {s \in SUBSET S : Cardinality(s) <= n}
           V == {s \in SUBSET S : Cardinality(s) <= n - 1}
           h == [s \in U |-> FoldStep(f, c, g, s)]
<1>1. g \in [V -> A] /\ \A s \in V : g[s] = FoldStep(f, c, g, s)
  BY DEF IsSetFold
<1>2. ASSUME NEW s \in U, s # {} PROVE s \ {Chosen(s)} \in V /\ Chosen(s) \in S
  BY <1>2, ChosenElement
<1>3. \A s \in U : FoldStep(f, c, g, s) \in A
  <2> HIDE DEF U, V
  <2> TAKE s \in U
  <2>1. CASE s = {}
    BY <2>1 DEF FoldStep
  <2>2. CASE s # {}
    <3>1. g[s \ {Chosen(s)}] \in A /\ Chosen(s) \in S
      BY <2>2, <1>1, <1>2
    <3>2. <<Chosen(s), g[s \ {Chosen(s)}]>> \in S \X A
      BY <3>1
    <3> QED
      BY <2>2, <3>2 DEF FoldStep
  <2> QED
    BY <2>1, <2>2
<1>4. h \in [U -> A]
  <2> HIDE DEF U
  <2> QED
    BY <1>3
<1>5. \A s \in V : s \in U
  <2> TAKE s \in V
  <2>1. Cardinality(s) \in Nat
    BY FS_Subset, FS_CardinalityType
  <2> QED
    BY <2>1
<1>6. \A s \in V : h[s] = g[s]
  <2> HIDE DEF U, V
  <2> QED
    BY <1>1, <1>5
<1>7. \A s \in U : h[s] = FoldStep(f, c, h, s)
  <2> HIDE DEF V, U
  <2> TAKE s \in U
  <2>1. h[s] = FoldStep(f, c, g, s)
    OBVIOUS
  <2> HIDE DEF h
  <2>2. CASE s = {}
    BY <2>1, <2>2 DEF FoldStep
  <2>3. CASE s # {}
    <3>1. h[s \ {Chosen(s)}] = g[s \ {Chosen(s)}]
      BY <2>3, <1>2, <1>6
    <3> QED
      BY <2>1, <2>3, <3>1 DEF FoldStep
  <2> QED
    BY <2>2, <2>3
<1> HIDE DEF h
<1>8. IsSetFold(h, S, A, f, c, n)
  BY <1>4, <1>7 DEF IsSetFold
<1> QED
  BY <1>8

IsStepOf(f, S, A) == f \in [S \X A -> A]
IsTotalFold(g, S, A, f, c) ==
    /\ g \in [SUBSET S -> A]
    /\ \A s \in SUBSET S : g[s] = FoldStep(f, c, g, s)

LEMMA SetFoldExists ==
    ASSUME NEW S, IsFiniteSet(S), NEW A, NEW f, IsStepOf(f, S, A), NEW c \in A
    PROVE  \E g : IsTotalFold(g, S, A, f, c)
<1> DEFINE N == Cardinality(S)
           P == {n \in Nat : \E g : IsSetFold(g, S, A, f, c, n)}
<1>0. f \in [S \X A -> A]
  BY DEF IsStepOf
<1>1. N \in Nat
  BY FS_CardinalityType
<1>2. 0 \in P
  <2> DEFINE g == [s \in {t \in SUBSET S : Cardinality(t) <= 0} |-> c]
  <2>1. \A s \in SUBSET S : Cardinality(s) <= 0 => s = {}
    <3> TAKE s \in SUBSET S
    <3>1. IsFiniteSet(s) /\ Cardinality(s) \in Nat
      BY FS_Subset, FS_CardinalityType
    <3> QED
      BY <3>1, FS_EmptySet
  <2>2. g \in [{t \in SUBSET S : Cardinality(t) <= 0} -> A]
    OBVIOUS
  <2>3. \A s \in SUBSET S : Cardinality(s) <= 0 => g[s] = FoldStep(f, c, g, s)
    BY <2>1 DEF FoldStep
  <2> HIDE DEF g
  <2>4. IsSetFold(g, S, A, f, c, 0)
    BY <2>2, <2>3 DEF IsSetFold
  <2> QED
    BY <2>4
<1>3. ASSUME NEW n \in 1..N, n - 1 \in P PROVE n \in P
  <2>1. PICK g : IsSetFold(g, S, A, f, c, n - 1)
    BY <1>3
  <2>2. n \in Nat \ {0}
    BY <1>1
  <2>3. \E h : IsSetFold(h, S, A, f, c, n)
    BY <2>1, <2>2, <1>0, SetFoldGrows
  <2> QED
    BY <2>2, <2>3
<1> HIDE DEF P
<1>4. \A n \in 0..N : n \in P
  BY <1>1, <1>2, <1>3, Induction
<1>5. N \in P
  BY <1>1, <1>4
<1>6. PICK g : IsSetFold(g, S, A, f, c, N)
  BY <1>5 DEF P
<1>7. \A s \in SUBSET S : Cardinality(s) <= N
  BY FS_Subset
<1>8. {s \in SUBSET S : Cardinality(s) <= N} = SUBSET S
  BY <1>7
<1>9. g \in [SUBSET S -> A] /\ \A s \in SUBSET S : g[s] = FoldStep(f, c, g, s)
  BY <1>6, <1>7, <1>8 DEF IsSetFold
<1> QED
  BY <1>9 DEF IsTotalFold

-----------------------------------------------------------------------------
(* Orders.                                                                 *)

OrderFields ==
    {"raw", "entries", "count", "picked", "strong_added", "lmr_index", "killers"}

(* Each of the moves is raw or an entry, once, and what waits is sorted.   *)
GoodOrder(mo, moves) ==
    /\ DOMAIN mo = OrderFields
    /\ EntriesOf(mo.entries, mo.picked, MovesIn(mo.entries))
    /\ MovesIn(mo.entries) \cup mo.raw = moves
    /\ MovesIn(mo.entries) \cap mo.raw = {}
    /\ mo.count = Cardinality(moves)

LEMMA GoodOrderSays ==
    ASSUME NEW mo, NEW moves, GoodOrder(mo, moves)
    PROVE  OrderComplete(mo, moves) /\ OrderSorted(mo)
<1>1. /\ mo.entries \in Seq(OrderEntry) /\ mo.picked \in 0..Len(mo.entries)
      /\ Distinct(mo.entries) /\ SortedFrom(mo.entries, mo.picked)
  BY DEF GoodOrder, EntriesOf
<1>2. mo.picked <= Len(mo.entries)
  BY <1>1
<1>3. MovesIn(mo.entries) \cup mo.raw = moves /\ MovesIn(mo.entries) \cap mo.raw = {}
  BY DEF GoodOrder
<1> QED
  BY <1>1, <1>2, <1>3 DEF OrderComplete, OrderSorted, Distinct, MovesIn, SortedFrom

LEMMA SetupGood ==
    ASSUME NEW mo, NEW p, NEW q
    PROVE  /\ GoodOrder(move_order_setup(mo, p, q), IF q THEN Captures[p] ELSE Legal[p])
           /\ move_order_setup(mo, p, q).picked = 0
<1> DEFINE moves == IF q THEN Captures[p] ELSE Legal[p]
           o == move_order_setup(mo, p, q)
<1>1. /\ DOMAIN o = OrderFields /\ o.entries = << >> /\ o.picked = 0 /\ o.raw = moves
      /\ o.count = Cardinality(moves)
  BY DEF move_order_setup, OrderFields
<1> HIDE DEF o
<1>2. EntriesOf(<< >>, 0, {}) /\ MovesIn(<< >>) = {}
  BY DEF EntriesOf, MovesIn, Distinct, SortedFrom
<1> QED
  BY <1>1, <1>2 DEF GoodOrder, o

(* A hint is taken from the raw moves, or raised, or there is none.        *)
LEMMA HintGood ==
    ASSUME NEW mo, NEW moves \in SUBSET Nat, GoodOrder(mo, moves), NEW m, NEW value \in Nat
    PROVE  /\ GoodOrder(add_hint(mo, m, value), moves)
           /\ add_hint(mo, m, value).picked = mo.picked
<1> DEFINE s == mo.entries
           p == mo.picked
           M == MovesIn(s)
           waiting == {i \in p + 1..Len(s) : s[i].move = m}
           i == Min(waiting)
           o == add_hint(mo, m, value)
<1>1. EntriesOf(s, p, M) /\ s \in Seq(OrderEntry) /\ p \in 0..Len(s) /\ p \in Nat /\ Len(s) \in Nat
  BY DEF GoodOrder, EntriesOf
<1>2. DOMAIN mo = OrderFields
  BY DEF GoodOrder
<1>3. CASE m # 0 /\ waiting # {} /\ mo_entry_value(s[i]) < value
  <2> DEFINE e == [s[i] EXCEPT !.value = value]
             t == insert_at(s, p, i, e)
  <2>1. waiting \in SUBSET Nat
    BY <1>1
  <2>2. i \in waiting
    BY <2>1, <1>3, MinIsLeast
  <2> HIDE DEF i
  <2>3. i \in p + 1..Len(s) /\ s[i] \in OrderEntry
    <3>1. i \in p + 1..Len(s)
      BY <2>2
    <3>2. i \in 1..Len(s)
      BY <3>1, <1>1
    <3> QED
      BY <3>1, <3>2, <1>1
  <2>4. e \in OrderEntry /\ e.move = s[i].move /\ e.value = value
    <3> DEFINE a == s[i]
    <3>1. a \in OrderEntry /\ e = [a EXCEPT !.value = value]
      BY <2>3
    <3> HIDE DEF a, e
    <3>2. e \in OrderEntry /\ e.move = a.move /\ e.value = value
      BY <3>1 DEF OrderEntry
    <3> QED
      BY <3>2 DEF a
  <2>5. Below(s[i], e)
    <3>1. s[i].value < value
      BY <2>3, <1>3 DEF mo_entry_value, OrderEntry, i
    <3> QED
      BY <3>1, <2>4 DEF Below
  <2> HIDE DEF e
  <2>6. EntriesOf(t, p, M)
    BY <2>3, <2>4, <2>5, <1>1, RaiseOld
  <2>7. o = [mo EXCEPT !.entries = t]
    BY <1>3 DEF add_hint, e, i
  <2>8. /\ DOMAIN o = OrderFields /\ o.entries = t /\ o.picked = p /\ o.raw = mo.raw
        /\ o.count = mo.count
    BY <2>7, <1>2 DEF OrderFields
  <2>9. MovesIn(t) = M
    BY <2>6 DEF EntriesOf
  <2> HIDE DEF o, t, s, p
  <2> QED
    BY <2>6, <2>8, <2>9 DEF GoodOrder, o, s, p
<1>4. CASE m # 0 /\ waiting = {} /\ m \in mo.raw
  <2> DEFINE e == Entries(value, TRUE, FALSE, m)
             t == insert_at(s, p, Len(s) + 1, e)
  <2>1. m \in Nat /\ m \notin M
    BY <1>4 DEF GoodOrder
  <2>2. e \in OrderEntry /\ e.move = m
    BY <2>1 DEF Entries, OrderEntry
  <2> HIDE DEF e
  <2>3. EntriesOf(t, p, M \cup {m})
    BY <2>1, <2>2, <1>1, InsertNew
  <2>4. o = [[mo EXCEPT !.entries = t] EXCEPT !.raw = mo.raw \ {m}]
    <3>1. o = [Inserted(mo, e) EXCEPT !.raw = @ \ {m}]
      BY <1>4 DEF add_hint, e
    <3>2. Inserted(mo, e) = [mo EXCEPT !.entries = t]
      BY DEF Inserted
    <3>3. Inserted(mo, e).raw = mo.raw
      BY <3>2, <1>2 DEF OrderFields
    <3> HIDE DEF o, t
    <3> QED
      BY <3>1, <3>2, <3>3
  <2>5. /\ DOMAIN o = OrderFields /\ o.entries = t /\ o.picked = p /\ o.raw = mo.raw \ {m}
        /\ o.count = mo.count
    BY <2>4, <1>2 DEF OrderFields
  <2>6. MovesIn(t) = M \cup {m}
    BY <2>3 DEF EntriesOf
  <2>7. M \cup mo.raw = moves /\ M \cap mo.raw = {}
    BY DEF GoodOrder
  <2>8. (M \cup {m}) \cup (mo.raw \ {m}) = moves /\ (M \cup {m}) \cap (mo.raw \ {m}) = {}
    BY <2>7, <1>4
  <2> HIDE DEF o, t, s, p, M
  <2> QED
    BY <2>3, <2>5, <2>6, <2>8 DEF GoodOrder, o, s, p, M
<1>5. CASE ~(m # 0 /\ waiting # {} /\ mo_entry_value(s[i]) < value) /\ ~(m # 0 /\ waiting = {} /\ m \in mo.raw)
  BY <1>5 DEF add_hint
<1> QED
  BY <1>3, <1>4, <1>5

(* What move_order_pick_next does before it picks: the moves S are made    *)
(* entries, one by one.                                                    *)
IsBatch(g, mo, S, entry) ==
    g = [s \in SUBSET S |->
            IF s = {} THEN mo ELSE Inserted(g[s \ {Chosen(s)}], entry[Chosen(s)])]

(* The entries of mo with those of s.                                      *)
Batched(o, mo, s) ==
    /\ DOMAIN o = OrderFields
    /\ \A field \in OrderFields \ {"entries"} : o[field] = mo[field]
    /\ EntriesOf(o.entries, mo.picked, MovesIn(mo.entries) \cup s)
    /\ Len(o.entries) = Len(mo.entries) + Cardinality(s)

LEMMA BatchExists ==
    ASSUME NEW mo, DOMAIN mo = OrderFields, mo.entries \in Seq(OrderEntry),
           mo.picked \in 0..Len(mo.entries),
           NEW S, IsFiniteSet(S), NEW entry \in [S -> OrderEntry]
    PROVE  \E g : IsBatch(g, mo, S, entry)
<1> DEFINE Long == {es \in Seq(OrderEntry) : mo.picked <= Len(es)}
           With(es) == [mo EXCEPT !.entries = es]
           A == {With(es) : es \in Long} \cup {mo}
           f == [x \in S \X A |-> Inserted(x[2], entry[x[1]])]
<1>1. ASSUME NEW m \in S, NEW o \in A PROVE Inserted(o, entry[m]) \in A
  <2> DEFINE r(es) == insert_at(es, mo.picked, Len(es) + 1, entry[m])
  <2>1. PICK es \in Long : o = With(es) \/ (o = mo /\ es = mo.entries)
    <3>1. mo.entries \in Long
      OBVIOUS
    <3> HIDE DEF Long, With
    <3> QED
      BY <3>1
  <2>2. es \in Seq(OrderEntry) /\ Len(es) \in Nat /\ mo.picked \in Nat /\ mo.picked <= Len(es)
    OBVIOUS
  <2>3. entry[m] \in OrderEntry /\ Len(es) + 1 \in mo.picked + 1..Len(es) + 1
    BY <2>2
  <2>4. PICK k \in Nat : IsPut(r(es), es, mo.picked, Len(es) + 1, k, entry[m])
    BY <2>2, <2>3, InsertedIsPut
  <2>5. r(es) \in Seq(OrderEntry) /\ Len(r(es)) = Len(es) + 1
    BY <2>2, <2>4 DEF IsPut
  <2>6. r(es) \in Long
    BY <2>2, <2>5
  <2>7. o.entries = es /\ o.picked = mo.picked /\ DOMAIN o = OrderFields
    BY <2>1 DEF OrderFields
  <2>8. Inserted(o, entry[m]) = With(r(es))
    <3>1. Inserted(o, entry[m]) = [o EXCEPT !.entries = r(es)]
      BY <2>7 DEF Inserted
    <3> HIDE DEF r
    <3> QED
      BY <2>1, <3>1 DEF OrderFields
  <2> HIDE DEF r, Long
  <2> QED
    BY <2>6, <2>8
<1>2. mo \in A
  OBVIOUS
<1>3. f \in [S \X A -> A]
  <2> HIDE DEF A
  <2> QED
    BY <1>1
<1> HIDE DEF A
<1>4. \A m \in S, o \in A : f[<<m, o>>] = Inserted(o, entry[m])
  OBVIOUS
<1> HIDE DEF f, Long, With
<1>5. PICK g : g \in [SUBSET S -> A] /\ \A s \in SUBSET S : g[s] = FoldStep(f, mo, g, s)
  <2>1. IsStepOf(f, S, A)
    BY <1>3 DEF IsStepOf
  <2>2. PICK g : IsTotalFold(g, S, A, f, mo)
    BY <1>2, <2>1, SetFoldExists
  <2> QED
    BY <2>2 DEF IsTotalFold
<1>6. \A s \in SUBSET S :
         g[s] = IF s = {} THEN mo ELSE Inserted(g[s \ {Chosen(s)}], entry[Chosen(s)])
  <2> TAKE s \in SUBSET S
  <2>1. CASE s = {}
    BY <1>5, <2>1 DEF FoldStep
  <2>2. CASE s # {}
    <3>0. Chosen(s) \in S /\ s \ {Chosen(s)} \in SUBSET S
      BY <2>2, ChosenElement
    <3>1. Chosen(s) \in S /\ g[s \ {Chosen(s)}] \in A
      BY <1>5, <3>0
    <3>2. g[s] = f[<<Chosen(s), g[s \ {Chosen(s)}]>>]
      BY <1>5, <2>2 DEF FoldStep
    <3> QED
      BY <2>2, <3>1, <3>2, <1>4
  <2> QED
    BY <2>1, <2>2
<1>7. IsBatch(g, mo, S, entry)
  BY <1>5, <1>6 DEF IsBatch
<1> QED
  BY <1>7

LEMMA BatchGood ==
    ASSUME NEW mo, DOMAIN mo = OrderFields,
           EntriesOf(mo.entries, mo.picked, MovesIn(mo.entries)),
           NEW S, IsFiniteSet(S), S \cap MovesIn(mo.entries) = {},
           NEW entry \in [S -> OrderEntry], \A m \in S : entry[m].move = m,
           NEW g, IsBatch(g, mo, S, entry)
    PROVE  Batched(g[S], mo, S)
<1> DEFINE M == MovesIn(mo.entries)
           N == Cardinality(S)
           P == {n \in Nat : \A s \in SUBSET S : Cardinality(s) = n => Batched(g[s], mo, s)}
<1>1. N \in Nat
  BY FS_CardinalityType
<1>2. \A s \in SUBSET S :
         g[s] = IF s = {} THEN mo ELSE Inserted(g[s \ {Chosen(s)}], entry[Chosen(s)])
  BY DEF IsBatch
<1>3. Len(mo.entries) \in Nat
  BY DEF EntriesOf
<1>4. Batched(mo, mo, {})
  <2>1. M \cup {} = M /\ Cardinality({}) = 0
    BY FS_EmptySet
  <2> QED
    BY <2>1, <1>3 DEF Batched
<1>5. 0 \in P
  <2> SUFFICES ASSUME NEW s \in SUBSET S, Cardinality(s) = 0 PROVE Batched(g[s], mo, s)
    OBVIOUS
  <2>1. s = {}
    BY FS_Subset, FS_EmptySet
  <2> QED
    BY <2>1, <1>2, <1>4
<1>6. ASSUME NEW n \in 1..N, n - 1 \in P PROVE n \in P
  <2> SUFFICES ASSUME NEW s \in SUBSET S, Cardinality(s) = n PROVE Batched(g[s], mo, s)
    BY <1>1
  <2> DEFINE m == Chosen(s)
             t == s \ {m}
             o == g[t]
             es == o.entries
             e == entry[m]
             r == insert_at(es, mo.picked, Len(es) + 1, e)
  <2>1. s # {}
    BY <1>1, FS_EmptySet
  <2>2. m \in s /\ m \in S /\ t \in SUBSET S /\ s = t \cup {m} /\ Cardinality(t) = n - 1
    BY <2>1, ChosenElement
  <2>3. g[s] = Inserted(o, e)
    BY <1>2, <2>1
  <2> HIDE DEF t, o, m
  <2>4. Batched(o, mo, t)
    BY <1>6, <2>2 DEF o
  <2>5. /\ DOMAIN o = OrderFields
        /\ \A field \in OrderFields \ {"entries"} : o[field] = mo[field]
        /\ EntriesOf(es, mo.picked, M \cup t) /\ Len(es) = Len(mo.entries) + (n - 1)
    BY <2>2, <2>4 DEF Batched
  <2>6. m \notin M \cup t /\ e \in OrderEntry /\ e.move = m
    BY <2>2 DEF t
  <2>7. EntriesOf(r, mo.picked, (M \cup t) \cup {e.move}) /\ Len(r) = Len(es) + 1
    <3> DEFINE K == M \cup t
    <3>1. EntriesOf(es, mo.picked, K) /\ e \in OrderEntry /\ e.move \notin K
      BY <2>5, <2>6
    <3> HIDE DEF es, e, M, N, K
    <3>2. /\ EntriesOf(r, mo.picked, K \cup {e.move})
          /\ Len(r) = Len(es) + 1
      BY <3>1, InsertNew
    <3> HIDE DEF r
    <3> QED
      BY <3>2 DEF K
  <2>8. (M \cup t) \cup {e.move} = M \cup s
    BY <2>2, <2>6
  <2> HIDE DEF es, r, e
  <2>9. o.entries = es /\ o.picked = mo.picked /\ DOMAIN o = OrderFields
    BY <2>5 DEF OrderFields, es
  <2>10. g[s] = [o EXCEPT !.entries = r]
    BY <2>3, <2>9 DEF Inserted, r, es
  <2>11. g[s].entries = r
    BY <2>9, <2>10 DEF OrderFields
  <2>12. /\ DOMAIN g[s] = OrderFields
         /\ \A field \in OrderFields \ {"entries"} : g[s][field] = mo[field]
    BY <2>5, <2>10 DEF OrderFields
  <2>13. Len(r) = Len(mo.entries) + Cardinality(s)
    BY <2>5, <2>7, <1>1, <1>3
  <2> QED
    BY <2>7, <2>8, <2>11, <2>12, <2>13 DEF Batched
<1> HIDE DEF P
<1>7. \A n \in 0..N : n \in P
  BY <1>1, <1>5, <1>6, Induction
<1>8. N \in P
  BY <1>1, <1>7
<1> QED
  BY <1>8 DEF P

(* The two batches: the strong captures, and all the rest.                 *)
StrongEntry(p, m) == Entries(StrongValue[p][m], FALSE, FALSE, m)
StrongMoves(mo, p) == {m \in mo.raw : StrongValue[p][m] > 0}
StrongStep(p, mo, S, g) ==
    [s \in SUBSET S |->
        IF s = {} THEN mo ELSE Inserted(g[s \ {Chosen(s)}], StrongEntry(p, Chosen(s)))]
RestEntry(p, mo, m) == Entries(RestValue(mo, p, m), FALSE, m \in GivesCheck[p], m)
RestStep(p, mo, S, g) ==
    [s \in SUBSET S |->
        IF s = {} THEN mo ELSE Inserted(g[s \ {Chosen(s)}], RestEntry(p, mo, Chosen(s)))]

LEMMA StrongFold ==
    ASSUME NEW mo, NEW p
    PROVE  add_strong_capture_entries(mo, p) =
             LET S == StrongMoves(mo, p) IN
             [(CHOOSE g : g = StrongStep(p, mo, S, g))[S] EXCEPT !.raw = @ \ S, !.strong_added = TRUE]
BY DEF add_strong_capture_entries, FoldSet, MapThenFoldSet, Chosen, StrongEntry, StrongMoves, StrongStep

LEMMA RestFold ==
    ASSUME NEW mo, NEW p
    PROVE  add_all_entries(mo, p) =
             [(CHOOSE g : g = RestStep(p, mo, mo.raw, g))[mo.raw] EXCEPT !.raw = {}]
BY DEF add_all_entries, FoldSet, MapThenFoldSet, Chosen, RestEntry, RestStep

LEMMA StrongBatch ==
    ASSUME NEW p \in Position, NEW mo, GoodOrder(mo, Legal[p]) \/ GoodOrder(mo, Captures[p])
    PROVE  LET S == StrongMoves(mo, p) IN Batched((CHOOSE g : g = StrongStep(p, mo, S, g))[S], mo, S)
<1> DEFINE S == StrongMoves(mo, p)
           entry == [m \in S |-> StrongEntry(p, m)]
           c == CHOOSE g : g = StrongStep(p, mo, S, g)
<1>1. PICK moves \in SUBSET Legal[p] : GoodOrder(mo, moves)
  BY GameAssumption
<1>2. mo.raw \subseteq Legal[p] /\ IsFiniteSet(Legal[p]) /\ Legal[p] \subseteq Nat
  BY <1>1, GameAssumption, MoveAssumption DEF GoodOrder
<1>3. S \subseteq mo.raw /\ IsFiniteSet(S)
  <2>1. S \subseteq Legal[p]
    BY <1>2 DEF StrongMoves
  <2> QED
    BY <2>1, <1>2, FS_Subset DEF StrongMoves
<1>4. \A m \in S : StrongEntry(p, m) \in OrderEntry /\ StrongEntry(p, m).move = m
  <2> TAKE m \in S
  <2>1. m \in Legal[p] /\ m \in Nat
    BY <1>2, <1>3
  <2>2. StrongValue[p][m] \in Int
    BY <2>1, GameAssumption
  <2> QED
    BY <2>1, <2>2 DEF StrongEntry, Entries, OrderEntry
<1>5. entry \in [S -> OrderEntry] /\ \A m \in S : entry[m].move = m
  BY <1>4
<1>6. /\ DOMAIN mo = OrderFields /\ EntriesOf(mo.entries, mo.picked, MovesIn(mo.entries))
      /\ mo.entries \in Seq(OrderEntry) /\ mo.picked \in 0..Len(mo.entries)
      /\ S \cap MovesIn(mo.entries) = {}
  BY <1>1, <1>3 DEF GoodOrder, EntriesOf
<1>7. \A s \in SUBSET S : s # {} => StrongEntry(p, Chosen(s)) = entry[Chosen(s)]
  <2> SUFFICES ASSUME NEW s \in SUBSET S, s # {}
               PROVE  StrongEntry(p, Chosen(s)) = entry[Chosen(s)]
    OBVIOUS
  <2>1. Chosen(s) \in S
    BY DEF Chosen
  <2> QED
    BY <2>1
<1> HIDE DEF entry, S
<1>8. \A g : IsBatch(g, mo, S, entry) <=> g = StrongStep(p, mo, S, g)
  <2> TAKE g
  <2>1. [s \in SUBSET S |-> IF s = {} THEN mo ELSE Inserted(g[s \ {Chosen(s)}], entry[Chosen(s)])]
          = [s \in SUBSET S |-> IF s = {} THEN mo ELSE Inserted(g[s \ {Chosen(s)}], StrongEntry(p, Chosen(s)))]
    BY <1>7
  <2> QED
    BY <2>1 DEF IsBatch, StrongStep
<1>9. PICK b : IsBatch(b, mo, S, entry)
  BY <1>3, <1>5, <1>6, BatchExists
<1>10. c = StrongStep(p, mo, S, c)
  <2>1. b = StrongStep(p, mo, S, b)
    BY <1>8, <1>9
  <2> QED
    BY <2>1
<1> HIDE DEF c
<1>11. IsBatch(c, mo, S, entry)
  BY <1>8, <1>10
<1>12. Batched(c[S], mo, S)
  BY <1>3, <1>5, <1>6, <1>11, BatchGood
<1> QED
  BY <1>12 DEF c, S

LEMMA RestBatch ==
    ASSUME NEW p \in Position, NEW mo, GoodOrder(mo, Legal[p]) \/ GoodOrder(mo, Captures[p])
    PROVE  Batched((CHOOSE g : g = RestStep(p, mo, mo.raw, g))[mo.raw], mo, mo.raw)
<1> DEFINE S == mo.raw
           entry == [m \in S |-> RestEntry(p, mo, m)]
           c == CHOOSE g : g = RestStep(p, mo, S, g)
<1>1. PICK moves \in SUBSET Legal[p] : GoodOrder(mo, moves)
  BY GameAssumption
<1>2. S \subseteq Legal[p] /\ IsFiniteSet(Legal[p]) /\ Legal[p] \subseteq Nat
  BY <1>1, GameAssumption, MoveAssumption DEF GoodOrder
<1>3. IsFiniteSet(S)
  BY <1>2, FS_Subset
<1>4. \A m \in S : RestEntry(p, mo, m) \in OrderEntry /\ RestEntry(p, mo, m).move = m
  <2> TAKE m \in S
  <2>1. m \in Legal[p] /\ m \in Nat
    BY <1>2
  <2>2. DescValue[p][m] \in Int
    BY <2>1, GameAssumption
  <2>3. RestValue(mo, p, m) \in Int
    BY <2>2 DEF RestValue, BaseValue, KillerValue
  <2> QED
    BY <2>1, <2>3 DEF RestEntry, Entries, OrderEntry
<1>5. entry \in [S -> OrderEntry] /\ \A m \in S : entry[m].move = m
  BY <1>4
<1>6. /\ DOMAIN mo = OrderFields /\ EntriesOf(mo.entries, mo.picked, MovesIn(mo.entries))
      /\ mo.entries \in Seq(OrderEntry) /\ mo.picked \in 0..Len(mo.entries)
      /\ S \cap MovesIn(mo.entries) = {}
  BY <1>1 DEF GoodOrder, EntriesOf
<1>7. \A s \in SUBSET S : s # {} => RestEntry(p, mo, Chosen(s)) = entry[Chosen(s)]
  <2> SUFFICES ASSUME NEW s \in SUBSET S, s # {}
               PROVE  RestEntry(p, mo, Chosen(s)) = entry[Chosen(s)]
    OBVIOUS
  <2>1. Chosen(s) \in S
    BY DEF Chosen
  <2> QED
    BY <2>1
<1> HIDE DEF entry, S
<1>8. \A g : IsBatch(g, mo, S, entry) <=> g = RestStep(p, mo, S, g)
  <2> TAKE g
  <2>1. [s \in SUBSET S |-> IF s = {} THEN mo ELSE Inserted(g[s \ {Chosen(s)}], entry[Chosen(s)])]
          = [s \in SUBSET S |-> IF s = {} THEN mo ELSE Inserted(g[s \ {Chosen(s)}], RestEntry(p, mo, Chosen(s)))]
    BY <1>7
  <2> QED
    BY <2>1 DEF IsBatch, RestStep
<1>9. PICK b : IsBatch(b, mo, S, entry)
  BY <1>3, <1>5, <1>6, BatchExists
<1>10. c = RestStep(p, mo, S, c)
  <2>1. b = RestStep(p, mo, S, b)
    BY <1>8, <1>9
  <2> QED
    BY <2>1
<1> HIDE DEF c
<1>11. IsBatch(c, mo, S, entry)
  BY <1>8, <1>10
<1>12. Batched(c[S], mo, S)
  BY <1>3, <1>5, <1>6, <1>11, BatchGood
<1> QED
  BY <1>12 DEF c, S

LEMMA DistinctCount ==
    ASSUME NEW s \in Seq(OrderEntry), Distinct(s)
    PROVE  IsFiniteSet(MovesIn(s)) /\ Cardinality(MovesIn(s)) = Len(s)
<1> DEFINE n == Len(s)
           I == 1..n
           M == MovesIn(s)
           f == [j \in I |-> s[j].move]
<1>1. n \in Nat /\ IsFiniteSet(I) /\ Cardinality(I) = n
  <2>1. n \in Nat
    OBVIOUS
  <2> HIDE DEF n
  <2>2. IsFiniteSet(1..n) /\ Cardinality(1..n) = IF 1 > n THEN 0 ELSE n - 1 + 1
    BY <2>1, FS_Interval
  <2> QED
    BY <2>1, <2>2
<1>2. M = {s[j].move : j \in I}
  BY DEF MovesIn
<1>3. \A a, b \in I : s[a].move = s[b].move => a = b
  BY DEF Distinct
<1> HIDE DEF I, M, n
<1>4. f \in Bijection(I, M)
  BY <1>2, <1>3 DEF Bijection, Injection, Surjection, IsInjective
<1>5. ExistsBijection(I, M)
  BY <1>4 DEF ExistsBijection
<1>6. IsFiniteSet(M) /\ Cardinality(M) = n
  BY <1>1, <1>5, FS_Bijection
<1> QED
  BY <1>6 DEF M, n

(* There are as many entries as moves, at most.                            *)
LEMMA GoodOrderCounts ==
    ASSUME NEW mo, NEW moves, IsFiniteSet(moves), GoodOrder(mo, moves)
    PROVE  /\ mo.picked \in Nat /\ Len(mo.entries) \in Nat /\ mo.count \in Nat
           /\ mo.picked <= Len(mo.entries) /\ Len(mo.entries) <= mo.count
           /\ IsFiniteSet(mo.raw) /\ Cardinality(mo.raw) \in Nat
           /\ Len(mo.entries) < mo.count => Cardinality(mo.raw) > 0
<1> DEFINE s == mo.entries
           M == MovesIn(s)
<1>1. s \in Seq(OrderEntry) /\ mo.picked \in 0..Len(s) /\ Distinct(s)
  BY DEF GoodOrder, EntriesOf
<1>2. M \cup mo.raw = moves /\ mo.count = Cardinality(moves)
  BY DEF GoodOrder
<1>3. Len(s) \in Nat /\ Cardinality(M) = Len(s)
  BY <1>1, DistinctCount
<1> HIDE DEF s, M
<1>4. M \in SUBSET moves /\ mo.raw \in SUBSET moves
  BY <1>2
<1>5. Cardinality(M) <= Cardinality(moves) /\ Cardinality(moves) \in Nat
  BY <1>4, FS_Subset, FS_CardinalityType
<1>6. IsFiniteSet(mo.raw) /\ Cardinality(mo.raw) \in Nat
  BY <1>4, FS_Subset, FS_CardinalityType
<1>7. mo.raw = {} => M = moves
  BY <1>2
<1>8. Cardinality(mo.raw) = 0 => mo.raw = {}
  BY <1>6, FS_EmptySet
<1>9. Len(s) < mo.count => Cardinality(mo.raw) > 0
  BY <1>2, <1>3, <1>5, <1>6, <1>7, <1>8
<1>10. mo.picked \in Nat /\ mo.picked <= Len(s)
  BY <1>1, <1>3
<1> QED
  BY <1>2, <1>3, <1>5, <1>6, <1>9, <1>10 DEF s

(* The entries of b, made of S of the raw moves, in an order that has the  *)
(* others raw.                                                             *)
IsTaken(o, b, S) ==
    /\ DOMAIN o = OrderFields /\ o.entries = b.entries /\ o.picked = b.picked
    /\ o.count = b.count /\ o.raw = b.raw \ S

LEMMA BatchTaken ==
    ASSUME NEW mo, NEW moves, GoodOrder(mo, moves), NEW S \in SUBSET mo.raw,
           NEW b, Batched(b, mo, S),
           NEW o, IsTaken(o, b, S)
    PROVE  /\ GoodOrder(o, moves) /\ o.picked = mo.picked
           /\ Len(o.entries) = Len(mo.entries) + Cardinality(S)
<1> DEFINE M == MovesIn(mo.entries)
<1>0. /\ DOMAIN o = OrderFields /\ o.entries = b.entries /\ o.picked = b.picked
      /\ o.count = b.count /\ o.raw = b.raw \ S
  BY DEF IsTaken
<1>1. /\ \A field \in OrderFields \ {"entries"} : b[field] = mo[field]
      /\ EntriesOf(b.entries, mo.picked, M \cup S)
      /\ Len(b.entries) = Len(mo.entries) + Cardinality(S)
  BY DEF Batched
<1>2. b.picked = mo.picked /\ b.count = mo.count /\ b.raw = mo.raw
  BY <1>1 DEF OrderFields
<1>3. MovesIn(o.entries) = M \cup S
  BY <1>0, <1>1 DEF EntriesOf
<1>4. M \cup mo.raw = moves /\ M \cap mo.raw = {} /\ mo.count = Cardinality(moves)
  BY DEF GoodOrder
<1> HIDE DEF M
<1>5. (M \cup S) \cup o.raw = moves /\ (M \cup S) \cap o.raw = {}
  BY <1>0, <1>2, <1>4
<1>6. EntriesOf(o.entries, o.picked, MovesIn(o.entries))
  BY <1>0, <1>1, <1>2, <1>3
<1>7. o.count = Cardinality(moves)
  BY <1>0, <1>2, <1>4
<1>8. GoodOrder(o, moves)
  BY <1>0, <1>3, <1>5, <1>6, <1>7 DEF GoodOrder
<1> QED
  BY <1>0, <1>1, <1>2, <1>8

MovesOfKind(p, q) == IF q THEN Captures[p] ELSE Legal[p]

LEMMA KindFinite ==
    ASSUME NEW p \in Position, NEW q \in BOOLEAN
    PROVE  IsFiniteSet(MovesOfKind(p, q)) /\ MovesOfKind(p, q) \in SUBSET Nat
<1>1. IsFiniteSet(Legal[p]) /\ Captures[p] \in SUBSET Legal[p] /\ Legal[p] \in SUBSET Nat
  BY GameAssumption, MoveAssumption
<1>2. IsFiniteSet(Captures[p])
  BY <1>1, FS_Subset
<1> QED
  BY <1>1, <1>2 DEF MovesOfKind

LEMMA StrongGood ==
    ASSUME NEW p \in Position, NEW q \in BOOLEAN, NEW mo, GoodOrder(mo, MovesOfKind(p, q))
    PROVE  GoodOrder(with_strong(mo, p), MovesOfKind(p, q)) /\ with_strong(mo, p).picked = mo.picked
<1> DEFINE S == StrongMoves(mo, p)
           b == (CHOOSE g : g = StrongStep(p, mo, S, g))[S]
           o == [b EXCEPT !.raw = @ \ S, !.strong_added = TRUE]
<1>1. CASE some_waiting(mo) \/ mo.strong_added
  BY <1>1 DEF with_strong
<1>2. CASE ~(some_waiting(mo) \/ mo.strong_added)
  <2>1. with_strong(mo, p) = o
    BY <1>2, StrongFold DEF with_strong
  <2>2. Batched(b, mo, S)
    BY StrongBatch DEF MovesOfKind
  <2>3. S \in SUBSET mo.raw
    BY DEF StrongMoves
  <2> HIDE DEF b, S
  <2>4. IsTaken(o, b, S)
    <3>1. DOMAIN b = OrderFields
      BY <2>2 DEF Batched
    <3> QED
      BY <3>1 DEF OrderFields, IsTaken
  <2> HIDE DEF o
  <2>5. GoodOrder(o, MovesOfKind(p, q)) /\ o.picked = mo.picked
    BY <2>2, <2>3, <2>4, BatchTaken
  <2> QED
    BY <2>1, <2>5
<1> QED
  BY <1>1, <1>2

LEMMA RestGood ==
    ASSUME NEW p \in Position, NEW q \in BOOLEAN, NEW mo, GoodOrder(mo, MovesOfKind(p, q)),
           mo.picked # mo.count
    PROVE  /\ GoodOrder(with_rest(mo, p), MovesOfKind(p, q))
           /\ with_rest(mo, p).picked = mo.picked
           /\ mo.picked < Len(with_rest(mo, p).entries)
<1> DEFINE S == mo.raw
           b == (CHOOSE g : g = RestStep(p, mo, mo.raw, g))[mo.raw]
           o == [b EXCEPT !.raw = {}]
<1>0. /\ mo.picked \in Nat /\ Len(mo.entries) \in Nat /\ mo.count \in Nat
      /\ mo.picked <= Len(mo.entries) /\ Len(mo.entries) <= mo.count
      /\ Cardinality(mo.raw) \in Nat
      /\ Len(mo.entries) < mo.count => Cardinality(mo.raw) > 0
  BY KindFinite, GoodOrderCounts
<1>1. CASE some_waiting(mo)
  BY <1>0, <1>1 DEF with_rest, some_waiting
<1>2. CASE ~some_waiting(mo)
  <2>1. with_rest(mo, p) = o
    BY <1>2, RestFold DEF with_rest
  <2>2. Batched(b, mo, S)
    BY RestBatch DEF MovesOfKind
  <2>3. b.raw = S /\ DOMAIN b = OrderFields
    BY <2>2 DEF Batched, OrderFields
  <2> HIDE DEF b, S
  <2>4. IsTaken(o, b, S)
    BY <2>3 DEF OrderFields, IsTaken
  <2> HIDE DEF o
  <2>5. /\ GoodOrder(o, MovesOfKind(p, q)) /\ o.picked = mo.picked
        /\ Len(o.entries) = Len(mo.entries) + Cardinality(S)
    <3> DEFINE moves == MovesOfKind(p, q)
    <3>1. S \in SUBSET mo.raw /\ GoodOrder(mo, moves)
      BY DEF S
    <3> HIDE DEF moves
    <3>2. GoodOrder(o, moves) /\ o.picked = mo.picked
      BY <2>2, <2>4, <3>1, BatchTaken
    <3>3. Len(o.entries) = Len(mo.entries) + Cardinality(S)
      BY <2>2, <2>4, <3>1, BatchTaken
    <3> QED
      BY <3>2, <3>3 DEF moves
  <2>6. mo.picked < Len(o.entries)
    BY <1>0, <1>2, <2>5 DEF some_waiting, S
  <2> QED
    BY <2>1, <2>5, <2>6
<1> QED
  BY <1>1, <1>2

LEMMA PickGood ==
    ASSUME NEW p \in Position, NEW q \in BOOLEAN, NEW mo, GoodOrder(mo, MovesOfKind(p, q)),
           mo.picked # mo.count
    PROVE  LET o == move_order_pick_next(mo, p) IN
           /\ GoodOrder(o, MovesOfKind(p, q))
           /\ o.picked \in Nat \ {0}
           /\ mo_current_move(o) \in MovesOfKind(p, q)
<1> DEFINE moves == MovesOfKind(p, q)
           a == with_strong(mo, p)
           b == with_rest(a, p)
           o == step_to_next(b)
<1>1. GoodOrder(a, moves) /\ a.picked = mo.picked
  BY StrongGood
<1>2. a.count = mo.count
  BY <1>1 DEF GoodOrder
<1> HIDE DEF a
<1>3. GoodOrder(b, moves) /\ b.picked = mo.picked /\ mo.picked < Len(b.entries)
  BY <1>1, <1>2, RestGood
<1> HIDE DEF b
<1>4. DOMAIN b = OrderFields /\ EntriesOf(b.entries, b.picked, MovesIn(b.entries))
  BY <1>3 DEF GoodOrder
<1>5. /\ DOMAIN o = OrderFields /\ o.entries = b.entries /\ o.picked = b.picked + 1
      /\ o.count = b.count /\ o.raw = b.raw
  BY <1>4 DEF step_to_next, OrderFields
<1> HIDE DEF o
<1>6. /\ b.entries \in Seq(OrderEntry) /\ b.picked \in Nat /\ Len(b.entries) \in Nat
      /\ Distinct(b.entries) /\ SortedFrom(b.entries, b.picked)
  BY <1>4 DEF EntriesOf
<1>7. o.picked \in 1..Len(o.entries)
  BY <1>3, <1>5, <1>6
<1>8. SortedFrom(o.entries, o.picked)
  BY <1>5, <1>6 DEF SortedFrom
<1>9. EntriesOf(o.entries, o.picked, MovesIn(o.entries))
  BY <1>5, <1>6, <1>7, <1>8 DEF EntriesOf
<1>10. GoodOrder(o, moves)
  BY <1>3, <1>5, <1>9 DEF GoodOrder
<1>11. mo_current_move(o) \in MovesIn(o.entries)
  BY <1>7 DEF mo_current_move, mo_current_entry, MovesIn
<1>12. mo_current_move(o) \in moves
  BY <1>10, <1>11 DEF GoodOrder
<1>13. move_order_pick_next(mo, p) = o
  BY DEF move_order_pick_next, o, b, a
<1> QED
  BY <1>7, <1>10, <1>12, <1>13

LEMMA KillerGood ==
    ASSUME NEW mo, NEW moves, GoodOrder(mo, moves), NEW m
    PROVE  /\ GoodOrder(move_order_add_killer(mo, m), moves)
           /\ move_order_add_killer(mo, m).picked = mo.picked
<1> DEFINE o == move_order_add_killer(mo, m)
<1>1. DOMAIN mo = OrderFields
  BY DEF GoodOrder
<1>2. /\ DOMAIN o = OrderFields /\ o.entries = mo.entries /\ o.picked = mo.picked
      /\ o.count = mo.count /\ o.raw = mo.raw
  BY <1>1 DEF move_order_add_killer, OrderFields
<1> HIDE DEF o
<1> QED
  BY <1>2 DEF GoodOrder, o

-----------------------------------------------------------------------------
(* The invariant.                                                          *)

NodeFields ==
    {"pos", "type", "lower", "upper", "alpha", "beta", "depth", "value", "deep", "fresh",
     "best", "barrier", "repeated", "mo", "pv", "forced", "extension", "ra_best", "ra_any",
     "in_null", "null_failed", "store", "at"}

AtRest == {"none", "done"}
Waiting == {"null", "reduced", "full", "extended"}
Working == {"pick", "more", "finish"}

Ordered(n) == GoodOrder(n.mo, MovesOf(n))
Unpicked(n) == n.mo.picked # n.mo.count

IsNode(n) == DOMAIN n = NodeFields

(* A parent waits for its child; while a null move is tried none of its    *)
(* moves has been picked yet.                                              *)
Waits(n) ==
    /\ IsNode(n) /\ n.pos \in Position /\ n.at \in Waiting
    /\ Ordered(n)
    /\ n.at = "null" => Unpicked(n)

(* The node the program is at, the one of index s, where it does c.        *)
Stands(n, s, c) ==
    /\ IsNode(n) /\ n.pos \in Position
    /\ IF c \in Working
       THEN /\ n.at = "loop" /\ s < LastNode
            /\ Ordered(n)
            /\ c = "pick" => Unpicked(n)
       ELSE n.at \in AtRest

Fits(nd, s, c) ==
    /\ DOMAIN nd = 0..LastNode /\ \A i \in 0..LastNode : IsNode(nd[i])
    /\ s \in 1..LastNode /\ c \in Working \cup {"enter", "return", "idle", "terminated"}
    /\ \A i \in 1..s - 1 : Waits(nd[i])
    /\ Stands(nd[s], s, c)
    /\ \A i \in s + 1..LastNode : nd[i].at \in AtRest

TreeInv == Fits(node, sp, pc)

-----------------------------------------------------------------------------
(* The stages of negamax before its loop: each may end the node's search.  *)

(* k is n, but for its bounds, its value and what it knows.                *)
Keeps(n, k) ==
    /\ IsNode(k) /\ k.pos = n.pos /\ k.depth = n.depth /\ k.mo = n.mo /\ k.at \in {n.at, "done"}
    /\ k.barrier = n.barrier /\ k.repeated = n.repeated
    /\ k.ra_any = n.ra_any /\ k.ra_best = n.ra_best

SamePast(n, k) ==
    /\ k.pos = n.pos /\ k.barrier = n.barrier /\ k.repeated = n.repeated
    /\ k.ra_any = n.ra_any /\ k.ra_best = n.ra_best

LEMMA KeepsMore ==
    ASSUME NEW n, NEW k, NEW l, Keeps(n, k), Keeps(k, l)
    PROVE  Keeps(n, l)
BY DEF Keeps

LEMMA ReturnsKeeps ==
    ASSUME NEW n, IsNode(n), NEW v
    PROVE  Keeps(n, Returns(n, v)) /\ Returns(n, v).at = "done" /\ Keeps(n, n)
BY DEF Keeps, Returns, IsNode, NodeFields

LEMMA InitNode ==
    ASSUME NEW n, IsNode(n)
    PROVE  LET k == node_init(n) IN
           /\ IsNode(k) /\ k.pos = n.pos /\ k.at = "entering"
           /\ k.barrier = n.barrier /\ k.repeated = n.repeated /\ k.ra_any = 0 /\ k.ra_best = 0
BY DEF node_init, IsNode, NodeFields

(* A node n that has been entered is k: a draw by repetition reaches back  *)
(* as far as find_repetition found, a node that goes on knows of one.      *)
Remembers(n, k, found) ==
    /\ k.barrier = n.barrier /\ (n.repeated => k.repeated)
    /\ \/ k.at = "done" /\ k.ra_any = k.ra_best /\ k.ra_any \in {0, found.r}
       \/ k.at = "entering" /\ k.ra_any = 0 /\ k.ra_best = 0 /\ (found.seen => k.repeated)

LEMMA RemembersMore ==
    ASSUME NEW n, NEW k, NEW found, Remembers(n, k, found), k.at # "done",
           NEW l, SamePast(k, l), l.at \in {"entering", "done"}
    PROVE  Remembers(n, l, found)
BY DEF Remembers, SamePast

LEMMA DrawNode ==
    ASSUME NEW n, IsNode(n), n.at = "entering", n.ra_any = 0, n.ra_best = 0, NEW i
    PROVE  LET k == check_trivial_draw(i, n) IN
           IsNode(k) /\ k.pos = n.pos /\ Remembers(n, k, find_repetition(i, n))
<1> DEFINE found == find_repetition(i, n)
           a == [n EXCEPT !.repeated = @ \/ found.seen]
           b == [n EXCEPT !.repeated = @ \/ found.seen, !.ra_any = found.r, !.ra_best = found.r]
           k == check_trivial_draw(i, n)
<1>1. k \in {Returns(n, 0), Returns(b, 0), a}
  BY DEF check_trivial_draw
<1> HIDE DEF found, k
<1>2. /\ IsNode(a) /\ a.pos = n.pos /\ a.barrier = n.barrier /\ a.at = "entering"
      /\ a.ra_any = 0 /\ a.ra_best = 0 /\ (a.repeated <=> (n.repeated \/ found.seen))
  BY DEF IsNode, NodeFields
<1>3. /\ IsNode(b) /\ b.pos = n.pos /\ b.barrier = n.barrier
      /\ b.ra_any = found.r /\ b.ra_best = found.r /\ (n.repeated => b.repeated)
  BY DEF IsNode, NodeFields
<1> HIDE DEF a, b
<1>4. /\ Keeps(n, Returns(n, 0)) /\ Returns(n, 0).at = "done"
      /\ Keeps(b, Returns(b, 0)) /\ Returns(b, 0).at = "done"
  BY <1>3, ReturnsKeeps
<1>5. CASE k = a
  BY <1>2, <1>5 DEF k, found, Remembers
<1>6. CASE k = Returns(n, 0)
  BY <1>4, <1>6 DEF Keeps, k, found, Remembers
<1>7. CASE k = Returns(b, 0)
  <2> HIDE DEF found
  <2>1. IsNode(k) /\ k.pos = n.pos /\ k.barrier = n.barrier /\ k.at = "done"
    BY <1>3, <1>4, <1>7 DEF Keeps
  <2>2. k.ra_any = found.r /\ k.ra_best = found.r
    BY <1>3, <1>4, <1>7 DEF Keeps
  <2>3. n.repeated => k.repeated
    BY <1>3, <1>4, <1>7 DEF Keeps
  <2> QED
    BY <2>1, <2>2, <2>3 DEF k, found, Remembers
<1> QED
  BY <1>1, <1>5, <1>6, <1>7

LEMMA AdjustedNode ==
    ASSUME NEW n, IsNode(n), n.at = "entering", NEW i
    PROVE  LET k == adjust_depth(i, n) IN
           /\ IsNode(k) /\ k.pos = n.pos /\ k.at \in {"entering", "done"}
           /\ SamePast(n, k)
           /\ k.at = "entering" => root_distance(i) = 0 \/ i # LastNode
<1> DEFINE depth == n.depth + n.extension
           a == [n EXCEPT !.depth = depth]
           b == [n EXCEPT !.depth = IF depth < PLY /\ depth > 0 THEN PLY ELSE depth]
           v == Eval(n.pos)
<1>1. \/ root_distance(i) = 0 /\ adjust_depth(i, n) = n
      \/ adjust_depth(i, n) = Returns(a, v)
      \/ i # LastNode /\ adjust_depth(i, n) = b
  BY DEF adjust_depth
<1> HIDE DEF depth
<1>2. IsNode(a) /\ a.pos = n.pos /\ IsNode(b) /\ b.pos = n.pos /\ b.at = "entering"
  BY DEF IsNode, NodeFields
<1>3. SamePast(n, a) /\ SamePast(n, b) /\ SamePast(n, n)
  BY DEF SamePast, IsNode, NodeFields
<1> HIDE DEF a, b, v
<1>4. Keeps(a, Returns(a, v)) /\ Returns(a, v).at = "done"
  BY <1>2, ReturnsKeeps
<1>5. SamePast(n, Returns(a, v))
  BY <1>3, <1>4 DEF Keeps, SamePast
<1> QED
  BY <1>1, <1>2, <1>3, <1>4, <1>5 DEF Keeps

LEMMA MateSearchKeeps ==
    ASSUME NEW n, IsNode(n)
    PROVE  Keeps(n, handle_mate_search(n))
<1>1. PICK v : handle_mate_search(n) = Returns(n, v) \/ handle_mate_search(n) = n
  BY DEF handle_mate_search
<1> QED
  BY <1>1, ReturnsKeeps

LEMMA BoundsKeep ==
    ASSUME NEW n, IsNode(n), NEW i
    PROVE  Keeps(n, setup_bounds(i, n))
<1>1. PICK v, u, l : \/ setup_bounds(i, n) = Returns([n EXCEPT !.lower = l, !.upper = u], v)
                     \/ setup_bounds(i, n) = [n EXCEPT !.lower = l, !.upper = u]
  BY DEF setup_bounds
<1> DEFINE a == [n EXCEPT !.lower = l, !.upper = u]
<1>2. Keeps(n, a) /\ IsNode(a)
  BY DEF Keeps, IsNode, NodeFields
<1> HIDE DEF a
<1>3. Keeps(a, Returns(a, v))
  BY <1>2, ReturnsKeeps
<1>4. setup_bounds(i, n) = Returns(a, v) \/ setup_bounds(i, n) = a
  BY <1>1 DEF a
<1> QED
  BY <1>2, <1>3, <1>4, KeepsMore

LEMMA MovesSetUp ==
    ASSUME NEW n, IsNode(n), n.at = "entering"
    PROVE  LET k == setup_moves(n) IN
           /\ IsNode(k) /\ k.pos = n.pos /\ k.at \in {"entering", "done"}
           /\ k.at = "entering" => Ordered(k) /\ k.mo.picked = 0 /\ Unpicked(k)
           /\ SamePast(n, k)
<1> DEFINE q == is_qsearch(n)
           o == [n EXCEPT !.mo = move_order_setup(@, n.pos, q)]
           k == setup_moves(n)
<1>1. PICK v : k = IF o.mo.count > 0 THEN o ELSE Returns(o, v)
  BY DEF setup_moves
<1>2. /\ IsNode(o) /\ o.pos = n.pos /\ o.depth = n.depth /\ o.at = "entering"
      /\ o.mo = move_order_setup(n.mo, n.pos, q)
  BY DEF IsNode, NodeFields
<1>8. SamePast(n, o)
  BY DEF SamePast, IsNode, NodeFields
<1>3. q = is_qsearch(o) /\ is_in_check(n) = is_in_check(o)
  BY <1>2 DEF is_qsearch, is_in_check
<1>4. MovesOf(o) = IF q THEN Captures[n.pos] ELSE Legal[n.pos]
  BY <1>2, <1>3 DEF MovesOf
<1> HIDE DEF q, o, k
<1>5. Ordered(o) /\ o.mo.picked = 0
  BY <1>2, <1>4, SetupGood DEF Ordered
<1>6. o.mo.count > 0 => Unpicked(o)
  BY <1>5 DEF Unpicked
<1>7. Keeps(o, Returns(o, v)) /\ Returns(o, v).at = "done"
  BY <1>2, ReturnsKeeps
<1>9. SamePast(n, Returns(o, v))
  BY <1>7, <1>8 DEF Keeps, SamePast
<1> QED
  BY <1>1, <1>2, <1>5, <1>6, <1>7, <1>8, <1>9 DEF Keeps, k

(* A stage that is skipped when the search of the node has ended.          *)
LEMMA LowerBoundKeeps ==
    ASSUME NEW n, IsNode(n), NEW e
    PROVE  Keeps(n, check_hash_value_lower_bound(n, e))
<1>1. PICK bound : LET raised == [n EXCEPT !.lower = bound] IN
         check_hash_value_lower_bound(n, e) \in {n, Returns([raised EXCEPT !.best = e.move], bound), raised}
  BY DEF check_hash_value_lower_bound
<1> DEFINE raised == [n EXCEPT !.lower = bound]
           a == [raised EXCEPT !.best = e.move]
<1>2. IsNode(a) /\ Keeps(n, raised) /\ Keeps(n, a)
  BY DEF Keeps, IsNode, NodeFields
<1>3. check_hash_value_lower_bound(n, e) \in {n, Returns(a, bound), raised}
  BY <1>1
<1> HIDE DEF a, raised
<1>4. Keeps(a, Returns(a, bound)) /\ Keeps(n, n)
  BY <1>2, ReturnsKeeps
<1> QED
  BY <1>2, <1>3, <1>4, KeepsMore

LEMMA UpperBoundKeeps ==
    ASSUME NEW n, IsNode(n), NEW e
    PROVE  Keeps(n, check_hash_value_upper_bound(n, e))
<1>1. PICK bound : LET lowered == [n EXCEPT !.upper = bound] IN
         check_hash_value_upper_bound(n, e) \in {n, Returns(lowered, bound), lowered}
  BY DEF check_hash_value_upper_bound
<1> DEFINE a == [n EXCEPT !.upper = bound]
<1>2. IsNode(a) /\ Keeps(n, a)
  BY DEF Keeps, IsNode, NodeFields
<1>3. check_hash_value_upper_bound(n, e) \in {n, Returns(a, bound), a}
  BY <1>1
<1> HIDE DEF a
<1>4. Keeps(a, Returns(a, bound)) /\ Keeps(n, n)
  BY <1>2, ReturnsKeeps
<1> QED
  BY <1>2, <1>3, <1>4, KeepsMore

(* check_shallow_mate: a mate for the player, then one against it.         *)
WinningMate(k, e) ==
    IF ~(ht_value_is_lower_bound(e) /\ ht_value(e) >= MateValue) THEN k
    ELSE IF ~k.repeated THEN Returns([k EXCEPT !.best = e.move], ht_value(e))
    ELSE IF k.lower >= 0 THEN k
    ELSE IF 0 >= k.beta THEN Returns([k EXCEPT !.lower = 0], k.beta)
    ELSE [k EXCEPT !.lower = 0]

LosingMate(k, e) ==
    IF ~(ht_value_is_upper_bound(e) /\ ht_value(e) <= -MateValue) THEN k
    ELSE IF ~k.repeated THEN Returns(k, ht_value(e))
    ELSE IF k.upper <= 0 THEN k
    ELSE IF k.alpha >= 0 THEN Returns([k EXCEPT !.upper = 0], k.alpha)
    ELSE [k EXCEPT !.upper = 0]

LEMMA WinningKeeps ==
    ASSUME NEW n, IsNode(n), NEW e
    PROVE  Keeps(n, WinningMate(n, e))
<1> DEFINE a == [n EXCEPT !.best = e.move]
           b == [n EXCEPT !.lower = 0]
<1>1. IsNode(a) /\ Keeps(n, a) /\ IsNode(b) /\ Keeps(n, b)
  BY DEF Keeps, IsNode, NodeFields
<1>2. WinningMate(n, e) \in {n, b, Returns(a, ht_value(e)), Returns(b, n.beta)}
  BY DEF WinningMate
<1> HIDE DEF a, b
<1>3. Keeps(a, Returns(a, ht_value(e))) /\ Keeps(b, Returns(b, n.beta)) /\ Keeps(n, n)
  BY <1>1, ReturnsKeeps
<1> QED
  BY <1>1, <1>2, <1>3, KeepsMore

LEMMA LosingKeeps ==
    ASSUME NEW n, IsNode(n), NEW e
    PROVE  Keeps(n, LosingMate(n, e))
<1> DEFINE b == [n EXCEPT !.upper = 0]
<1>1. IsNode(b) /\ Keeps(n, b)
  BY DEF Keeps, IsNode, NodeFields
<1>2. LosingMate(n, e) \in {n, b, Returns(n, ht_value(e)), Returns(b, n.alpha)}
  BY DEF LosingMate
<1> HIDE DEF b
<1>3. Keeps(n, Returns(n, ht_value(e))) /\ Keeps(b, Returns(b, n.alpha)) /\ Keeps(n, n)
  BY <1>1, ReturnsKeeps
<1> QED
  BY <1>1, <1>2, <1>3, KeepsMore

LEMMA ShallowMateKeeps ==
    ASSUME NEW n, IsNode(n), NEW e
    PROVE  Keeps(n, check_shallow_mate(n, e))
<1> DEFINE w == WinningMate(n, e)
<1>1. check_shallow_mate(n, e) = IF w.at = "done" THEN w ELSE LosingMate(w, e)
  BY DEF check_shallow_mate, Then, WinningMate, LosingMate
<1>2. Keeps(n, w)
  BY WinningKeeps
<1> HIDE DEF w
<1>3. Keeps(w, LosingMate(w, e))
  BY <1>2, LosingKeeps DEF Keeps
<1> QED
  BY <1>1, <1>2, <1>3, KeepsMore

LEMMA HashValueKeeps ==
    ASSUME NEW n, IsNode(n), NEW i, NEW e
    PROVE  Keeps(n, check_hash_value(i, n, e))
<1> DEFINE a == IF ht_value_is_lower_bound(e) THEN check_hash_value_lower_bound(n, e) ELSE n
           b == IF a.at = "done" THEN a
                ELSE IF ht_value_is_upper_bound(e) THEN check_hash_value_upper_bound(a, e) ELSE a
           c == IF b.at = "done" THEN b
                ELSE IF b.lower >= b.upper THEN Returns(b, b.lower) ELSE b
<1>1. check_hash_value(i, n, e) \in {n, check_shallow_mate(n, e), c}
  BY DEF check_hash_value, Then
<1>2. Keeps(n, a)
  BY LowerBoundKeeps, ReturnsKeeps
<1> HIDE DEF a
<1>3. Keeps(a, b)
  BY <1>2, UpperBoundKeeps, ReturnsKeeps DEF Keeps
<1> HIDE DEF b
<1>4. Keeps(b, c)
  BY <1>3, ReturnsKeeps DEF Keeps
<1> HIDE DEF c
<1> QED
  BY <1>1, <1>2, <1>3, <1>4, ShallowMateKeeps, ReturnsKeeps, KeepsMore

(* k is a node that has its moves in order, as n has, and no more picked.  *)
KeepsOrder(n, k) ==
    /\ IsNode(k) /\ k.pos = n.pos /\ k.depth = n.depth /\ k.at \in {n.at, "done"}
    /\ Ordered(k) /\ k.mo.picked = n.mo.picked /\ SamePast(n, k)

LEMMA KeepsOrderMore ==
    ASSUME NEW n, NEW k, NEW l, KeepsOrder(n, k), KeepsOrder(k, l)
    PROVE  KeepsOrder(n, l)
BY DEF KeepsOrder, SamePast

LEMMA SameMoves ==
    ASSUME NEW n, NEW k, k.pos = n.pos, k.depth = n.depth
    PROVE  MovesOf(k) = MovesOf(n)
BY DEF MovesOf, is_qsearch, is_in_check

LEMMA KeepsKeepsOrder ==
    ASSUME NEW n, NEW k, Keeps(n, k), Ordered(n)
    PROVE  KeepsOrder(n, k)
BY SameMoves DEF Keeps, KeepsOrder, Ordered, SamePast

LEMMA HintKeepsOrder ==
    ASSUME NEW n, IsNode(n), n.pos \in Position, Ordered(n), NEW m, NEW value \in Nat
    PROVE  KeepsOrder(n, [n EXCEPT !.mo = add_hint(@, m, value)])
<1> DEFINE k == [n EXCEPT !.mo = add_hint(@, m, value)]
           o == add_hint(n.mo, m, value)
           moves == MovesOf(n)
<1>1. IsNode(k) /\ k.pos = n.pos /\ k.depth = n.depth /\ k.at = n.at /\ k.mo = o
  BY DEF IsNode, NodeFields
<1>5. SamePast(n, k)
  BY DEF SamePast, IsNode, NodeFields
<1>2. moves \in SUBSET Nat /\ GoodOrder(n.mo, moves)
  BY GameAssumption, MoveAssumption DEF Ordered, MovesOf
<1> HIDE DEF moves
<1>3. GoodOrder(o, moves) /\ o.picked = n.mo.picked
  BY <1>2, HintGood
<1> HIDE DEF k, o
<1>4. MovesOf(k) = moves
  BY <1>1, SameMoves DEF moves
<1> QED
  BY <1>1, <1>3, <1>4, <1>5 DEF KeepsOrder, Ordered, k

LEMMA DeepTaken ==
    ASSUME NEW n, IsNode(n), n.pos \in Position, Ordered(n), NEW i, NEW e
    PROVE  KeepsOrder(n, take_deep(i, n, e))
<1> DEFINE h == [n EXCEPT !.mo = add_hint(@, e.move, HintValue - 1)]
           k == [h EXCEPT !.deep = e]
<1>1. take_deep(i, n, e) \in {n, check_hash_value(i, k, e)}
  <2>1. [n EXCEPT !.mo = move_order_add_hint(@, e.move, 1), !.deep = e] = k
    BY DEF move_order_add_hint
  <2> HIDE DEF k
  <2> QED
    BY <2>1 DEF take_deep
<1>2. HintValue - 1 \in Nat
  BY DEF HintValue
<1>3. KeepsOrder(n, h)
  BY <1>2, HintKeepsOrder
<1> HIDE DEF h
<1>4. IsNode(k) /\ Keeps(h, k)
  BY <1>3 DEF Keeps, KeepsOrder, IsNode, NodeFields
<1> HIDE DEF k
<1>5. Keeps(h, check_hash_value(i, k, e))
  BY <1>4, HashValueKeeps, KeepsMore
<1>6. KeepsOrder(h, check_hash_value(i, k, e))
  BY <1>3, <1>5, KeepsKeepsOrder DEF KeepsOrder
<1>7. KeepsOrder(n, n)
  BY DEF KeepsOrder, SamePast
<1> QED
  BY <1>1, <1>3, <1>6, <1>7, KeepsOrderMore

LEMMA FreshTaken ==
    ASSUME NEW n, IsNode(n), n.pos \in Position, Ordered(n), NEW i, NEW e
    PROVE  KeepsOrder(n, take_fresh(i, n, e))
<1> DEFINE value == IF ht_has_move(n.deep) THEN WeakHintValue ELSE HintValue - 1
           h == [n EXCEPT !.mo = add_hint(@, e.move, value)]
           k == [h EXCEPT !.fresh = e]
           c == check_hash_value(i, k, e)
<1>1. take_fresh(i, n, e) \in {n, stored_if_done(c, e)}
  <2>1. [n EXCEPT !.fresh = e,
                !.mo = IF ht_has_move(n.deep) THEN move_order_add_weak_hint(@, e.move)
                       ELSE move_order_add_hint(@, e.move, 1)] = k
    BY DEF move_order_add_hint, move_order_add_weak_hint, IsNode, NodeFields
  <2> HIDE DEF k
  <2> QED
    BY <2>1 DEF take_fresh
<1>2. value \in Nat
  BY DEF HintValue, WeakHintValue
<1> HIDE DEF value
<1>3. KeepsOrder(n, h)
  BY <1>2, HintKeepsOrder
<1> HIDE DEF h
<1>4. IsNode(k) /\ Keeps(h, k)
  BY <1>3 DEF Keeps, KeepsOrder, IsNode, NodeFields
<1> HIDE DEF k
<1>5. Keeps(h, c)
  BY <1>4, HashValueKeeps, KeepsMore
<1> HIDE DEF c
<1>6. KeepsOrder(h, c)
  BY <1>3, <1>5, KeepsKeepsOrder DEF KeepsOrder
<1>7. Keeps(c, stored_if_done(c, e))
  BY <1>6 DEF KeepsOrder, Keeps, stored_if_done, IsNode, NodeFields
<1>8. KeepsOrder(c, stored_if_done(c, e))
  BY <1>6, <1>7, KeepsKeepsOrder DEF KeepsOrder
<1>9. KeepsOrder(n, n)
  BY DEF KeepsOrder, SamePast
<1>10. KeepsOrder(n, stored_if_done(c, e))
  BY <1>3, <1>6, <1>8, KeepsOrderMore
<1> QED
  BY <1>1, <1>9, <1>10

LEMMA HintedNode ==
    ASSUME NEW n, IsNode(n), n.pos \in Position, n.at # "done" => Ordered(n), NEW i
    PROVE  LET k == hint_or_fetch(i, n) IN
           /\ n.at = "done" => k = n
           /\ n.at # "done" => KeepsOrder(n, k)
<1> SUFFICES ASSUME n.at # "done" PROVE KeepsOrder(n, hint_or_fetch(i, n))
  BY DEF hint_or_fetch
<1>1. CASE n.forced = 0
  <2> DEFINE a == take_deep(i, n, ht_lookup_deep(tt, n.pos, n.depth, n.beta))
             e == ht_lookup_fresh(tt, n.pos)
  <2>1. hint_or_fetch(i, n) = take_fresh(i, a, e)
    BY <1>1 DEF hint_or_fetch, fetch_hash_value
  <2>2. KeepsOrder(n, a)
    BY DeepTaken
  <2> HIDE DEF a, e
  <2>3. KeepsOrder(a, take_fresh(i, a, e))
    BY <2>2, FreshTaken DEF KeepsOrder
  <2> QED
    BY <2>1, <2>2, <2>3, KeepsOrderMore
<1>2. CASE n.forced # 0
  <2>1. HintValue - 0 \in Nat
    BY DEF HintValue
  <2>2. KeepsOrder(n, [n EXCEPT !.mo = add_hint(@, n.forced, HintValue - 0)])
    BY <2>1, HintKeepsOrder
  <2> QED
    BY <1>2, <2>2 DEF hint_or_fetch, move_order_add_hint
<1> QED
  BY <1>1, <1>2

LEMMA EnteredNode ==
    ASSUME NEW n, IsNode(n), n.pos \in Position, NEW i
    PROVE  LET k == Entered(i, n) IN
           /\ IsNode(k) /\ k.pos = n.pos /\ k.at \in {"entering", "done"}
           /\ k.at = "entering" =>
                /\ Ordered(k) /\ Unpicked(k)
                /\ root_distance(i) = 0 \/ i # LastNode
           /\ Remembers(n, k, find_repetition(i, n))
<1> DEFINE a == node_init(n)
           b == IF a.at = "done" THEN a ELSE check_trivial_draw(i, a)
           c == IF b.at = "done" THEN b ELSE adjust_depth(i, b)
           d == IF c.at = "done" THEN c ELSE handle_mate_search(c)
           e == IF d.at = "done" THEN d ELSE setup_bounds(i, d)
           f == IF e.at = "done" THEN e ELSE setup_moves(e)
           k == hint_or_fetch(i, f)
           room == root_distance(i) = 0 \/ i # LastNode
           found == find_repetition(i, n)
<1>1. Entered(i, n) = k
  BY DEF Entered, Then
<1>2. /\ IsNode(a) /\ a.pos = n.pos /\ a.at = "entering"
      /\ a.barrier = n.barrier /\ a.repeated = n.repeated /\ a.ra_any = 0 /\ a.ra_best = 0
  BY InitNode
<1>10. find_repetition(i, a) = found
  BY <1>2 DEF find_repetition
<1> HIDE DEF a, found
<1>3. IsNode(b) /\ b.pos = n.pos /\ b.at \in {"entering", "done"} /\ Remembers(n, b, found)
  <2>1. IsNode(b) /\ b.pos = n.pos /\ Remembers(a, b, found)
    BY <1>2, <1>10, DrawNode
  <2> HIDE DEF b
  <2> QED
    BY <1>2, <2>1 DEF Remembers
<1> HIDE DEF b
<1>4. /\ IsNode(c) /\ c.pos = n.pos /\ c.at \in {"entering", "done"} /\ (c.at = "entering" => room)
      /\ Remembers(n, c, found)
  <2>1. CASE b.at = "done"
    BY <1>3, <2>1
  <2>2. CASE b.at = "entering"
    <3>1. /\ IsNode(c) /\ c.pos = n.pos /\ c.at \in {"entering", "done"} /\ (c.at = "entering" => room)
          /\ SamePast(b, c)
      BY <1>3, <2>2, AdjustedNode
    <3> HIDE DEF c
    <3>2. Remembers(n, c, found)
      BY <1>3, <2>2, <3>1, RemembersMore
    <3> QED
      BY <3>1, <3>2
  <2> QED
    BY <1>3, <2>1, <2>2
<1> HIDE DEF c, room
<1>5. /\ IsNode(d) /\ d.pos = n.pos /\ d.at \in {"entering", "done"} /\ (d.at = "entering" => room)
      /\ Remembers(n, d, found)
  <2>1. CASE c.at = "done"
    BY <1>4, <2>1
  <2>2. CASE c.at = "entering"
    <3>1. Keeps(c, d)
      BY <1>4, <2>2, MateSearchKeeps
    <3> HIDE DEF d
    <3>2. IsNode(d) /\ d.pos = n.pos /\ d.at \in {"entering", "done"} /\ SamePast(c, d)
      BY <1>4, <2>2, <3>1 DEF Keeps, SamePast
    <3>3. Remembers(n, d, found)
      BY <1>4, <2>2, <3>2, RemembersMore
    <3> QED
      BY <1>4, <2>2, <3>2, <3>3
  <2> QED
    BY <1>4, <2>1, <2>2
<1> HIDE DEF d
<1>6. /\ IsNode(e) /\ e.pos = n.pos /\ e.at \in {"entering", "done"} /\ (e.at = "entering" => room)
      /\ Remembers(n, e, found)
  <2>1. CASE d.at = "done"
    BY <1>5, <2>1
  <2>2. CASE d.at = "entering"
    <3>1. Keeps(d, e)
      BY <1>5, <2>2, BoundsKeep
    <3> HIDE DEF e
    <3>2. IsNode(e) /\ e.pos = n.pos /\ e.at \in {"entering", "done"} /\ SamePast(d, e)
      BY <1>5, <2>2, <3>1 DEF Keeps, SamePast
    <3>3. Remembers(n, e, found)
      BY <1>5, <2>2, <3>2, RemembersMore
    <3> QED
      BY <1>5, <2>2, <3>2, <3>3
  <2> QED
    BY <1>5, <2>1, <2>2
<1> HIDE DEF e
<1>7. /\ IsNode(f) /\ f.pos = n.pos /\ f.at \in {"entering", "done"} /\ (f.at = "entering" => room)
      /\ f.at = "entering" => Ordered(f) /\ f.mo.picked = 0 /\ Unpicked(f)
      /\ Remembers(n, f, found)
  <2>1. CASE e.at = "done"
    BY <1>6, <2>1
  <2>2. CASE e.at = "entering"
    <3>1. /\ IsNode(f) /\ f.pos = n.pos /\ f.at \in {"entering", "done"}
          /\ f.at = "entering" => Ordered(f) /\ f.mo.picked = 0 /\ Unpicked(f)
          /\ SamePast(e, f)
      BY <1>6, <2>2, MovesSetUp
    <3> HIDE DEF f
    <3>2. Remembers(n, f, found)
      BY <1>6, <2>2, <3>1, RemembersMore
    <3> QED
      BY <1>6, <2>2, <3>1, <3>2
  <2> QED
    BY <1>6, <2>1, <2>2
<1> HIDE DEF f
<1>8. CASE f.at = "done"
  <2>1. k = f
    BY <1>8 DEF hint_or_fetch
  <2> HIDE DEF k
  <2> QED
    BY <1>1, <1>7, <1>8, <2>1 DEF found, room
<1>9. CASE f.at = "entering"
  <2>1. KeepsOrder(f, k)
    BY <1>7, <1>9, HintedNode
  <2> HIDE DEF k
  <2>2. IsNode(k) /\ k.pos = n.pos /\ k.at \in {"entering", "done"} /\ Ordered(k)
    BY <1>7, <1>9, <2>1 DEF KeepsOrder
  <2>3. k.mo.picked = f.mo.picked /\ k.depth = f.depth
    BY <2>1 DEF KeepsOrder
  <2>4. k.mo.count = f.mo.count
    <3>1. MovesOf(k) = MovesOf(f)
      BY <1>7, <2>2, <2>3, SameMoves
    <3> QED
      BY <3>1, <2>2, <1>7, <1>9 DEF Ordered, GoodOrder
  <2>5. Unpicked(k)
    BY <2>3, <2>4, <1>7, <1>9 DEF Unpicked
  <2>6. Remembers(n, k, found)
    <3>1. SamePast(f, k)
      BY <2>1 DEF KeepsOrder
    <3> QED
      BY <1>7, <1>9, <2>2, <3>1, RemembersMore
  <2> QED
    BY <1>1, <1>7, <1>9, <2>2, <2>5, <2>6 DEF room, found
<1> QED
  BY <1>7, <1>8, <1>9

LEMMA RecheckedNode ==
    ASSUME NEW n, IsNode(n)
    PROVE  LET k == recheck_bounds(n) IN
           /\ IsNode(k) /\ k.pos = n.pos /\ k.depth = n.depth /\ k.mo = n.mo
           /\ k.at \in {"loop", "done"} /\ SamePast(n, k)
<1> DEFINE k == [n EXCEPT !.alpha = MaxOf(@, n.lower),
                          !.beta = IF n.upper < @ THEN n.upper ELSE @]
           l == [k EXCEPT !.at = "loop"]
<1>1. recheck_bounds(n) \in {Returns(k, k.lower), Returns(k, k.beta), Returns(k, k.alpha), l}
  BY DEF recheck_bounds
<1>2. IsNode(k) /\ Keeps(n, k)
  BY DEF IsNode, NodeFields, Keeps
<1> HIDE DEF k
<1>3. \A v : Keeps(k, Returns(k, v)) /\ Returns(k, v).at = "done"
  BY <1>2, ReturnsKeeps
<1>4. /\ IsNode(l) /\ l.pos = k.pos /\ l.depth = k.depth /\ l.mo = k.mo /\ l.at = "loop"
      /\ SamePast(k, l)
  BY <1>2 DEF IsNode, NodeFields, SamePast
<1> HIDE DEF l
<1> QED
  BY <1>1, <1>2, <1>3, <1>4 DEF Keeps, SamePast

(* A node that is called keeps its place.                                  *)
LEMMA CalledNode ==
    ASSUME NEW child, IsNode(child)
    PROVE  /\ IsNode(Calling(child)) /\ Calling(child).pos = child.pos
           /\ Calling(child).at = child.at
           /\ Calling(child).barrier = child.barrier /\ Calling(child).repeated = child.repeated
BY DEF Calling, IsNode, NodeFields

LEMMA NullChild ==
    ASSUME NEW n, NEW child, IsNode(child)
    PROVE  LET k == null_child(n, child) IN
           IsNode(k) /\ k.pos = Pass[n.pos] /\ k.at = child.at
BY DEF null_child, IsNode, NodeFields

(* k is the node child once more, for the position after the move m of n.  *)
IsChild(n, child, m, k) ==
    /\ IsNode(k) /\ k.pos = Play[n.pos][m] /\ k.at = child.at
    /\ settings.repetition =>
         /\ k.barrier <=> <<n.pos, m>> \in Irreversible
         /\ k.repeated <=> ~k.barrier /\ n.repeated

LEMMA ChildNode ==
    ASSUME NEW n, NEW child, IsNode(child), NEW m
    PROVE  IsChild(n, child, m, setup_child_node(n, child, m))
<1> DEFINE irreversible == <<n.pos, m>> \in Irreversible
<1>1. PICK t, d, b, a :
         setup_child_node(n, child, m) =
           LET moved == [child EXCEPT !.pos = Play[n.pos][m], !.type = t, !.depth = d,
                                      !.beta = b, !.alpha = a]
           IN IF settings.repetition
              THEN [moved EXCEPT !.barrier = irreversible,
                                 !.repeated = ~irreversible /\ n.repeated]
              ELSE moved
  BY DEF setup_child_node
<1> DEFINE moved == [child EXCEPT !.pos = Play[n.pos][m], !.type = t, !.depth = d,
                                  !.beta = b, !.alpha = a]
           q == Play[n.pos][m]
           r == ~irreversible /\ n.repeated
<1>2. \/ ~settings.repetition /\ setup_child_node(n, child, m) = moved
      \/ setup_child_node(n, child, m) = [moved EXCEPT !.barrier = irreversible, !.repeated = r]
  BY <1>1
<1> HIDE DEF irreversible, q, r
<1>3. IsNode(moved) /\ moved.pos = q /\ moved.at = child.at
  BY DEF IsNode, NodeFields, q
<1> HIDE DEF moved
<1>4. LET l == [moved EXCEPT !.barrier = irreversible, !.repeated = r]
      IN IsNode(l) /\ l.pos = q /\ l.at = child.at /\ l.barrier = irreversible /\ l.repeated = r
  BY <1>3 DEF IsNode, NodeFields
<1> QED
  BY <1>2, <1>3, <1>4 DEF q, r, irreversible, IsChild

(* k is n, but for its bounds and its value, and if draws are kept track of *)
(* strictly it depends on a repetition the child depends on.               *)
SameButRaised(n, child, k) ==
    /\ k.pos = n.pos /\ k.depth = n.depth /\ k.at = n.at
    /\ k.barrier = n.barrier /\ k.repeated = n.repeated /\ k.ra_any = n.ra_any
    /\ \/ k.ra_best = n.ra_best
       \/ settings.strict /\ k.ra_best = MaxOf(n.ra_best, from_parent(child.ra_any))

(* The value of a move changes the order by a killer, at most.             *)
LEMMA TookNode ==
    ASSUME NEW n, IsNode(n), n.pos \in Position, Ordered(n), NEW child, NEW v
    PROVE  LET k == Took(n, child, v) IN
           IsNode(k) /\ Ordered(k) /\ SameButRaised(n, child, k)
<1> DEFINE better == [n EXCEPT !.value = v]
           higher == [better EXCEPT !.alpha = v]
           raised == new_best_move(higher, child, mo_current_move(n.mo))
           killer == [raised EXCEPT !.mo = move_order_add_killer(@, raised.best)]
           pv == [raised EXCEPT !.type = "PV"]
           k == Took(n, child, v)
<1>1. k \in {n, better, raised, killer, pv}
  BY DEF Took, fail_high
<1>2. IsNode(better) /\ Keeps(n, better) /\ better.at = n.at
  BY DEF Keeps, IsNode, NodeFields
<1>3. IsNode(higher) /\ Keeps(n, higher) /\ higher.at = n.at
  BY DEF Keeps, IsNode, NodeFields
<1> HIDE DEF better, higher
<1>4. IsNode(raised) /\ SameButRaised(n, child, raised) /\ raised.mo = n.mo
  <2> DEFINE to == IF settings.strict THEN MaxOf(higher.ra_best, from_parent(child.ra_any))
                   ELSE higher.ra_best
  <2>1. PICK m, l : raised = [higher EXCEPT !.best = m, !.ra_best = to, !.pv = l]
    BY <1>3 DEF new_best_move, IsNode, NodeFields
  <2>2. to \in {n.ra_best, MaxOf(n.ra_best, from_parent(child.ra_any))}
        /\ (to # n.ra_best => settings.strict)
    BY <1>3 DEF Keeps
  <2> HIDE DEF raised, to
  <2> QED
    BY <2>1, <2>2, <1>3 DEF Keeps, IsNode, NodeFields, SameButRaised
<1> HIDE DEF raised
<1>5. SameButRaised(n, child, n) /\ SameButRaised(n, child, better)
  BY <1>2 DEF Keeps, SameButRaised
<1>6. IsNode(pv) /\ SameButRaised(n, child, pv) /\ pv.mo = n.mo
  BY <1>4 DEF SameButRaised, IsNode, NodeFields
<1> HIDE DEF pv
<1>7. IsNode(killer) /\ SameButRaised(n, child, killer)
      /\ killer.mo = move_order_add_killer(n.mo, raised.best)
  BY <1>4 DEF SameButRaised, IsNode, NodeFields
<1> HIDE DEF killer
<1>8. Ordered(better) /\ Ordered(raised) /\ Ordered(pv)
  BY <1>2, <1>4, <1>6, SameMoves DEF Keeps, SameButRaised, Ordered
<1>9. Ordered(killer)
  <2> DEFINE moves == MovesOf(n)
  <2>1. GoodOrder(n.mo, moves)
    BY DEF Ordered
  <2>2. MovesOf(killer) = moves
    BY <1>7, SameMoves DEF SameButRaised
  <2> HIDE DEF moves
  <2>3. GoodOrder(killer.mo, moves)
    BY <1>7, <2>1, KillerGood
  <2> QED
    BY <2>2, <2>3 DEF Ordered
<1> QED
  BY <1>1, <1>2, <1>4, <1>5, <1>6, <1>7, <1>8, <1>9 DEF k

-----------------------------------------------------------------------------
(* What a step does to the stack.                                          *)

Pcs == Working \cup {"enter", "return", "idle", "terminated"}

(* The node the program is at changes.                                     *)
LEMMA FitsStaying ==
    ASSUME NEW nd, NEW s, NEW c, Fits(nd, s, c), NEW d \in Pcs, NEW a, Stands(a, s, d)
    PROVE  Fits([nd EXCEPT ![s] = a], s, d)
<1> DEFINE e == [nd EXCEPT ![s] = a]
<1>1. s \in 1..LastNode /\ s \in 0..LastNode /\ DOMAIN nd = 0..LastNode
  BY StackAssumption DEF Fits
<1>2. DOMAIN e = 0..LastNode /\ e[s] = a /\ \A i \in 0..LastNode : i # s => e[i] = nd[i]
  BY <1>1
<1> HIDE DEF e
<1>3. \A i \in 0..LastNode : IsNode(e[i])
  BY <1>2 DEF Fits, Stands
<1>4. \A i \in 1..s - 1 : i \in 0..LastNode /\ i # s
  BY <1>1, StackAssumption
<1>5. \A i \in s + 1..LastNode : i \in 0..LastNode /\ i # s
  BY <1>1, StackAssumption
<1>6. \A i \in 1..s - 1 : Waits(e[i])
  BY <1>2, <1>4 DEF Fits
<1>7. \A i \in s + 1..LastNode : e[i].at \in AtRest
  BY <1>2, <1>5 DEF Fits
<1> QED
  BY <1>1, <1>2, <1>3, <1>6, <1>7 DEF Fits, Pcs, e

(* A child is called.                                                      *)
LEMMA FitsCalling ==
    ASSUME NEW nd, NEW s, NEW c, Fits(nd, s, c), s < LastNode, NEW a, Waits(a),
           NEW b, Stands(b, s + 1, "enter")
    PROVE  Fits([nd EXCEPT ![s] = a, ![s + 1] = b], s + 1, "enter")
<1> DEFINE e == [nd EXCEPT ![s] = a, ![s + 1] = b]
           t == s + 1
<1>1. s \in 1..LastNode /\ s \in 0..LastNode /\ DOMAIN nd = 0..LastNode /\ t \in 1..LastNode
      /\ t \in 0..LastNode /\ t # s
  BY StackAssumption DEF Fits
<1>2. DOMAIN e = 0..LastNode /\ e[s] = a /\ e[t] = b
      /\ \A i \in 0..LastNode : i # s /\ i # t => e[i] = nd[i]
  BY <1>1
<1> HIDE DEF e
<1>3. \A i \in 0..LastNode : IsNode(e[i])
  BY <1>2 DEF Fits, Stands, Waits
<1>4. \A i \in 1..t - 1 : i \in 0..LastNode /\ (i = s \/ (i # s /\ i # t /\ i \in 1..s - 1))
  BY <1>1, StackAssumption
<1>5. \A i \in t + 1..LastNode : i \in 0..LastNode /\ i # s /\ i # t /\ i \in s + 1..LastNode
  BY <1>1, StackAssumption
<1>6. \A i \in 1..t - 1 : Waits(e[i])
  BY <1>2, <1>4 DEF Fits
<1>7. \A i \in t + 1..LastNode : e[i].at \in AtRest
  BY <1>2, <1>5 DEF Fits
<1> HIDE DEF t
<1>8. Stands(e[t], t, "enter")
  BY <1>2 DEF t
<1> QED
  BY <1>1, <1>2, <1>3, <1>6, <1>7, <1>8 DEF Fits, e, t

(* A child is called again.                                                *)
LEMMA FitsAgain ==
    ASSUME NEW nd, NEW s, NEW c, Fits(nd, s, c), s > 1, NEW a, Waits(a),
           NEW b, Stands(b, s, "enter")
    PROVE  Fits([nd EXCEPT ![s - 1] = a, ![s] = b], s, "enter")
<1> DEFINE e == [nd EXCEPT ![s - 1] = a, ![s] = b]
           r == s - 1
<1>1. s \in 1..LastNode /\ s \in 0..LastNode /\ DOMAIN nd = 0..LastNode /\ r \in 1..LastNode
      /\ r \in 0..LastNode /\ r # s
  BY StackAssumption DEF Fits
<1>2. DOMAIN e = 0..LastNode /\ e[r] = a /\ e[s] = b
      /\ \A i \in 0..LastNode : i # s /\ i # r => e[i] = nd[i]
  BY <1>1
<1> HIDE DEF e
<1>3. \A i \in 0..LastNode : IsNode(e[i])
  BY <1>2 DEF Fits, Stands, Waits
<1>4. \A i \in 1..s - 1 : i \in 0..LastNode /\ i # s
  BY <1>1, StackAssumption
<1>5. \A i \in s + 1..LastNode : i \in 0..LastNode /\ i # s /\ i # r
  BY <1>1, StackAssumption
<1> HIDE DEF r
<1>6. \A i \in 1..s - 1 : Waits(e[i])
  BY <1>2, <1>4 DEF Fits
<1>7. \A i \in s + 1..LastNode : e[i].at \in AtRest
  BY <1>2, <1>5 DEF Fits
<1> QED
  BY <1>1, <1>2, <1>3, <1>6, <1>7 DEF Fits, e, r

(* A child returns.                                                        *)
LEMMA FitsBack ==
    ASSUME NEW nd, NEW s, NEW c, Fits(nd, s, c), s > 1, NEW d \in Pcs,
           NEW a, Stands(a, s - 1, d), NEW b, IsNode(b), b.at \in AtRest
    PROVE  Fits([nd EXCEPT ![s - 1] = a, ![s] = b], s - 1, d)
<1> DEFINE e == [nd EXCEPT ![s - 1] = a, ![s] = b]
           r == s - 1
<1>1. s \in 1..LastNode /\ s \in 0..LastNode /\ DOMAIN nd = 0..LastNode /\ r \in 1..LastNode
      /\ r \in 0..LastNode /\ r # s
  BY StackAssumption DEF Fits
<1>2. DOMAIN e = 0..LastNode /\ e[r] = a /\ e[s] = b
      /\ \A i \in 0..LastNode : i # s /\ i # r => e[i] = nd[i]
  BY <1>1
<1> HIDE DEF e
<1>3. \A i \in 0..LastNode : IsNode(e[i])
  BY <1>2 DEF Fits, Stands
<1>4. \A i \in 1..r - 1 : i \in 0..LastNode /\ i # s /\ i # r /\ i \in 1..s - 1
  BY <1>1, StackAssumption
<1>5. \A i \in r + 1..LastNode : i \in 0..LastNode /\ (i = s \/ (i # s /\ i # r /\ i \in s + 1..LastNode))
  BY <1>1, StackAssumption
<1>6. \A i \in 1..r - 1 : Waits(e[i])
  BY <1>2, <1>4 DEF Fits
<1>7. \A i \in r + 1..LastNode : e[i].at \in AtRest
  BY <1>2, <1>5 DEF Fits
<1> HIDE DEF r
<1>8. Stands(e[r], r, d)
  BY <1>2 DEF r
<1> QED
  BY <1>1, <1>2, <1>3, <1>6, <1>7, <1>8 DEF Fits, Pcs, e, r

-----------------------------------------------------------------------------
(* The steps.                                                              *)

(* The child's call of the move search_more_moves lets through             *)
LEMMA PlayedInto ==
    ASSUME NEW p \in Position, NEW q \in BOOLEAN, NEW m \in MovesOfKind(p, q)
    PROVE  Play[p][m] \in Position
BY GameAssumption DEF MovesOfKind

LEMMA KindOf ==
    ASSUME NEW n
    PROVE  is_qsearch(n) \in BOOLEAN /\ MovesOf(n) = MovesOfKind(n.pos, is_qsearch(n))
BY DEF MovesOf, MovesOfKind, is_qsearch

LEMMA EnterFits ==
    ASSUME TreeInv, Enter
    PROVE  TreeInv'
<1>1. PICK n : /\ n = Entered(sp, node[sp])
               /\ IF n.at # "done" /\ tries_null_move(sp, n) THEN TryNull(n)
                  ELSE Settle(Then(n, recheck_bounds))
  BY DEF Enter
<1>2. Fits(node, sp, pc) /\ pc = "enter"
  BY DEF TreeInv, Enter
<1>3. IsNode(node[sp]) /\ node[sp].pos \in Position
  BY <1>2 DEF Fits, Stands
<1>4. sp \in 1..LastNode
  BY <1>2 DEF Fits
<1>5. /\ IsNode(n) /\ n.pos \in Position /\ n.at \in {"entering", "done"}
      /\ n.at = "entering" => Ordered(n) /\ Unpicked(n) /\ sp < LastNode
  <2>1. root_distance(sp) = 0 \/ sp # LastNode => sp < LastNode
    BY <1>4, StackAssumption DEF root_distance
  <2> QED
    BY <1>1, <1>3, <2>1, EnteredNode
<1>6. CASE n.at # "done" /\ tries_null_move(sp, n)
  <2> DEFINE a == [n EXCEPT !.in_null = TRUE, !.at = "null"]
             b == Calling(null_child(n, node[sp + 1]))
  <2>1. /\ node' = [node EXCEPT ![sp] = a, ![sp + 1] = Calling(null_child(n, @))]
        /\ sp' = sp + 1 /\ pc' = "enter"
    BY <1>1, <1>6 DEF TryNull
  <2>2. sp < LastNode /\ Ordered(n) /\ Unpicked(n)
    BY <1>5, <1>6
  <2>3. sp + 1 \in 0..LastNode /\ sp + 1 # sp /\ sp + 1 \in sp + 1..LastNode
    BY <1>4, <2>2, StackAssumption
  <2>4. node' = [node EXCEPT ![sp] = a, ![sp + 1] = b]
    BY <2>1, <2>3
  <2>5. IsNode(node[sp + 1]) /\ node[sp + 1].at \in AtRest
    BY <1>2, <2>3 DEF Fits
  <2>6. IsNode(a) /\ a.pos = n.pos /\ a.depth = n.depth /\ a.mo = n.mo /\ a.at = "null"
    BY <1>5 DEF IsNode, NodeFields
  <2> HIDE DEF a
  <2>7. Waits(a)
    <3>1. MovesOf(a) = MovesOf(n)
      BY <2>6, SameMoves
    <3> QED
      BY <2>2, <2>6, <3>1, <1>5 DEF Waits, Waiting, Ordered, Unpicked
  <2>8. n.pos \in DOMAIN Pass
    BY <1>6 DEF tries_null_move
  <2>9. IsNode(b) /\ b.pos = Pass[n.pos] /\ b.at = node[sp + 1].at
    BY <2>5, NullChild, CalledNode
  <2> HIDE DEF b
  <2>10. b.pos \in Position
    BY <2>8, <2>9, GameAssumption
  <2>11. Stands(b, sp + 1, "enter")
    BY <2>5, <2>9, <2>10 DEF Stands, Working
  <2>12. Fits([node EXCEPT ![sp] = a, ![sp + 1] = b], sp + 1, "enter")
    BY <1>2, <2>2, <2>7, <2>11, FitsCalling
  <2> QED
    BY <2>1, <2>4, <2>12 DEF TreeInv
<1>7. CASE ~(n.at # "done" /\ tries_null_move(sp, n))
  <2> DEFINE k == IF n.at = "done" THEN n ELSE recheck_bounds(n)
  <2>1. node' = [node EXCEPT ![sp] = k] /\ pc' = Goes(k) /\ sp' = sp
    BY <1>1, <1>7 DEF Settle, Then
  <2>2. CASE n.at = "done"
    <3>1. k = n /\ Goes(k) = "return"
      BY <2>2 DEF Goes
    <3>2. Stands(n, sp, "return")
      BY <1>5, <2>2 DEF Stands, Working, AtRest
    <3> HIDE DEF k
    <3>3. Fits([node EXCEPT ![sp] = k], sp, "return")
      BY <1>2, <3>1, <3>2, FitsStaying DEF Pcs
    <3> QED
      BY <2>1, <3>1, <3>3 DEF TreeInv
  <2>3. CASE n.at = "entering"
    <3>1. /\ IsNode(k) /\ k.pos = n.pos /\ k.depth = n.depth /\ k.mo = n.mo
          /\ k.at \in {"loop", "done"}
      BY <1>5, <2>3, RecheckedNode
    <3> HIDE DEF k
    <3>2. Ordered(k) /\ Unpicked(k)
      <4>1. MovesOf(k) = MovesOf(n)
        BY <3>1, SameMoves
      <4> QED
        BY <1>5, <2>3, <3>1, <4>1 DEF Ordered, Unpicked
    <3>3. Goes(k) \in Pcs /\ Stands(k, sp, Goes(k))
      BY <1>5, <2>3, <3>1, <3>2 DEF Goes, Stands, Working, AtRest, Pcs
    <3>4. Fits([node EXCEPT ![sp] = k], sp, Goes(k))
      BY <1>2, <3>3, FitsStaying
    <3> QED
      BY <2>1, <3>4 DEF TreeInv
  <2> QED
    BY <1>5, <2>2, <2>3
<1> QED
  BY <1>6, <1>7

LEMMA PickFits ==
    ASSUME TreeInv, Pick
    PROVE  TreeInv'
<1> DEFINE a == node[sp]
           o == move_order_pick_next(a.mo, a.pos)
           n == [a EXCEPT !.mo = o]
           m == mo_current_move(n.mo)
           q == is_qsearch(a)
<1>1. Fits(node, sp, pc) /\ (pc = "pick" \/ (pc = "more" /\ search_more_moves(a)))
  BY DEF TreeInv, Pick
<1>2. /\ IsNode(a) /\ a.pos \in Position /\ a.at = "loop" /\ sp < LastNode /\ sp \in 1..LastNode
      /\ Ordered(a)
  BY <1>1 DEF Fits, Stands, Working
<1>3. Unpicked(a)
  BY <1>1 DEF Fits, Stands, Working, Unpicked, search_more_moves, move_order_done
<1>4. Try(n)
  BY DEF Pick
<1>5. /\ GoodOrder(o, MovesOf(a)) /\ o.picked \in Nat \ {0} /\ mo_current_move(o) \in MovesOf(a)
  <2>1. q \in BOOLEAN /\ MovesOf(a) = MovesOfKind(a.pos, q)
    BY KindOf
  <2> HIDE DEF q, o
  <2>2. GoodOrder(a.mo, MovesOfKind(a.pos, q)) /\ a.mo.picked # a.mo.count
    BY <1>2, <1>3, <2>1 DEF Ordered, Unpicked
  <2> HIDE DEF a
  <2> QED
    BY <1>2, <2>1, <2>2, PickGood DEF o
<1> HIDE DEF o
<1>6. IsNode(n) /\ n.pos = a.pos /\ n.depth = a.depth /\ n.at = "loop" /\ n.mo = o
  BY <1>2 DEF IsNode, NodeFields
<1> HIDE DEF n
<1>7. MovesOf(n) = MovesOf(a)
  BY <1>6, SameMoves
<1>8. Ordered(n) /\ m \in MovesOf(n)
  BY <1>5, <1>6, <1>7 DEF Ordered
<1>9. CASE can_prune_moves(sp, n)
  <2>1. node' = [node EXCEPT ![sp] = n] /\ pc' = "finish" /\ sp' = sp
    BY <1>4, <1>9 DEF Try
  <2>2. Stands(n, sp, "finish")
    BY <1>2, <1>6, <1>8 DEF Stands, Working
  <2>3. Fits([node EXCEPT ![sp] = n], sp, "finish")
    BY <1>1, <2>2, FitsStaying DEF Pcs, Working
  <2> QED
    BY <2>1, <2>3 DEF TreeInv
<1>10. CASE ~can_prune_moves(sp, n)
  <2> DEFINE t == NodeTypes(n)[1]
             at == IF get_LMR_factor(n, t) # 0 THEN "reduced" ELSE "full"
             k == [n EXCEPT !.type = t, !.at = at]
             b == Calling(setup_child_node(n, node[sp + 1], m))
  <2>1. /\ node' = [node EXCEPT ![sp] = k, ![sp + 1] = Calling(setup_child_node(n, @, m))]
        /\ sp' = sp + 1 /\ pc' = "enter"
    BY <1>4, <1>10 DEF Try
  <2>11. at \in {"reduced", "full"}
    OBVIOUS
  <2> HIDE DEF t, at
  <2>2. sp + 1 \in 0..LastNode /\ sp + 1 # sp /\ sp + 1 \in sp + 1..LastNode
    BY <1>2, StackAssumption
  <2>3. node' = [node EXCEPT ![sp] = k, ![sp + 1] = b]
    BY <2>1, <2>2
  <2>4. IsNode(k) /\ k.pos = n.pos /\ k.depth = n.depth /\ k.mo = n.mo /\ k.at = at
    BY <1>6 DEF IsNode, NodeFields
  <2> HIDE DEF k
  <2>5. Waits(k)
    <3>1. MovesOf(k) = MovesOf(n)
      BY <2>4, SameMoves
    <3> QED
      BY <1>2, <1>6, <1>8, <2>11, <2>4, <3>1 DEF Waits, Waiting, Ordered
  <2>6. IsNode(node[sp + 1]) /\ node[sp + 1].at \in AtRest
    BY <1>1, <2>2 DEF Fits
  <2>7. IsNode(b) /\ b.pos = Play[n.pos][m] /\ b.at = node[sp + 1].at
    <3> DEFINE c == setup_child_node(n, node[sp + 1], m)
    <3>0. IsChild(n, node[sp + 1], m, c)
      BY <2>6, ChildNode
    <3>1. IsNode(c) /\ c.pos = Play[n.pos][m] /\ c.at = node[sp + 1].at
      BY <3>0 DEF IsChild
    <3> HIDE DEF c
    <3>2. IsNode(Calling(c)) /\ Calling(c).pos = c.pos /\ Calling(c).at = c.at
      BY <3>1, CalledNode
    <3> QED
      BY <3>1, <3>2 DEF c
  <2> HIDE DEF b
  <2>8. b.pos \in Position
    <3>1. is_qsearch(n) \in BOOLEAN /\ m \in MovesOfKind(n.pos, is_qsearch(n))
      BY <1>8, KindOf
    <3>2. n.pos \in Position
      BY <1>2, <1>6
    <3> HIDE DEF m
    <3> QED
      BY <2>7, <3>1, <3>2, PlayedInto
  <2>9. Stands(b, sp + 1, "enter")
    BY <2>6, <2>7, <2>8 DEF Stands, Working
  <2>10. Fits([node EXCEPT ![sp] = k, ![sp + 1] = b], sp + 1, "enter")
    BY <1>1, <1>2, <2>5, <2>9, FitsCalling
  <2> QED
    BY <2>1, <2>3, <2>10 DEF TreeInv
<1> QED
  BY <1>9, <1>10

LEMMA FinishFits ==
    ASSUME TreeInv, Finish
    PROVE  TreeInv'
<1> DEFINE n == node[sp]
           k == Finished(n)
<1>1. Fits(node, sp, pc) /\ node' = [node EXCEPT ![sp] = Finished(@)] /\ pc' = "return" /\ sp' = sp
  BY DEF TreeInv, Finish
<1>2. sp \in 0..LastNode /\ DOMAIN node = 0..LastNode
  BY <1>1, StackAssumption DEF Fits
<1>3. node' = [node EXCEPT ![sp] = k]
  BY <1>1, <1>2
<1>4. IsNode(n) /\ n.pos \in Position
  BY <1>1 DEF Fits, Stands
<1> HIDE DEF n
<1>5. IsNode(k) /\ k.pos = n.pos /\ k.at = "done"
  BY <1>4 DEF Finished, IsNode, NodeFields
<1> HIDE DEF k
<1>6. Stands(k, sp, "return")
  BY <1>4, <1>5 DEF Stands, Working, AtRest
<1>7. Fits([node EXCEPT ![sp] = k], sp, "return")
  BY <1>1, <1>6, FitsStaying DEF Pcs
<1> QED
  BY <1>1, <1>3, <1>7 DEF TreeInv

(* The child has returned, to a parent that waits for it.                  *)
LEMMA ReturnFits ==
    ASSUME TreeInv, Return
    PROVE  TreeInv'
<1> DEFINE p == node[sp - 1]
           d == node[sp]
           n == ParentOf(p, d)
           called == ChildOf(n, d)
           returned == [n EXCEPT !.at = "loop"]
<1>1. Fits(node, sp, pc) /\ pc = "return" /\ sp > 1
  BY DEF TreeInv, Return
<1>2. sp \in 1..LastNode /\ sp - 1 \in 1..sp - 1 /\ sp - 1 < LastNode
  BY <1>1, StackAssumption DEF Fits
<1>3. Waits(p) /\ IsNode(d) /\ d.pos \in Position /\ d.at \in AtRest
  BY <1>1, <1>2 DEF Fits, Stands, Working
<1> HIDE DEF p, d
<1>4. /\ IsNode(n) /\ n.pos = p.pos /\ n.depth = p.depth /\ n.mo = p.mo
      /\ n.at = p.at /\ n.forced = p.forced
  <2>1. IsNode(p)
    BY <1>3 DEF Waits
  <2> QED
    BY <2>1 DEF ParentOf, IsNode, NodeFields
<1>5. IsNode(called) /\ called.pos = d.pos /\ called.at = d.at
  BY <1>3 DEF ChildOf, IsNode, NodeFields
<1>6. n.pos \in Position /\ n.at \in Waiting /\ Ordered(n) /\ (n.at = "null" => Unpicked(n))
  BY <1>3, <1>4, SameMoves DEF Waits, Ordered, Unpicked
<1> HIDE DEF n, called
<1>7. /\ IsNode(returned) /\ returned.pos = n.pos /\ returned.depth = n.depth
      /\ returned.mo = n.mo /\ returned.at = "loop"
  BY <1>4 DEF IsNode, NodeFields
<1> HIDE DEF returned
<1>8. Ordered(returned)
  BY <1>6, <1>7, SameMoves DEF Ordered
<1>9. ASSUME NEW a, NEW next \in Pcs, Back(a, called, next), Stands(a, sp - 1, next)
      PROVE  TreeInv'
  <2>1. Fits([node EXCEPT ![sp - 1] = a, ![sp] = called], sp - 1, next)
    <3>1. IsNode(called) /\ called.at \in AtRest
      BY <1>3, <1>5
    <3> QED
      BY <3>1, <1>1, <1>9, FitsBack
  <2> QED
    BY <2>1, <1>9 DEF Back, TreeInv
<1>10. ASSUME NEW at \in Waiting \ {"null"}, NEW depth,
              Again([n EXCEPT !.at = at], full_window(n, called, depth))
       PROVE  TreeInv'
  <2> DEFINE a == [n EXCEPT !.at = at]
             f == full_window(n, called, depth)
             b == Calling(f)
  <2>1. IsNode(a) /\ a.pos = n.pos /\ a.depth = n.depth /\ a.mo = n.mo /\ a.at = at
    BY <1>4 DEF IsNode, NodeFields
  <2>2. IsNode(f) /\ f.pos = called.pos /\ f.at = called.at
    BY <1>5 DEF full_window, IsNode, NodeFields
  <2>3. node' = [node EXCEPT ![sp - 1] = a, ![sp] = b] /\ pc' = "enter" /\ sp' = sp
    BY <1>10 DEF Again
  <2> HIDE DEF a, f
  <2>4. Waits(a)
    BY <2>1, <1>6, SameMoves DEF Waits, Ordered
  <2>5. IsNode(b) /\ b.pos = f.pos /\ b.at = f.at
    BY <2>2, CalledNode
  <2> HIDE DEF b
  <2>6. Stands(b, sp, "enter")
    BY <2>2, <2>5, <1>3, <1>5 DEF Stands, Working
  <2>7. Fits([node EXCEPT ![sp - 1] = a, ![sp] = b], sp, "enter")
    BY <1>1, <2>4, <2>6, FitsAgain
  <2> QED
    BY <2>3, <2>7 DEF TreeInv
<1>11. ASSUME NEW v, Back(Took(returned, called, v), called, "more")
       PROVE  TreeInv'
  <2> DEFINE a == Took(returned, called, v)
  <2>1. IsNode(a) /\ a.pos = n.pos /\ a.at = "loop" /\ Ordered(a)
    BY <1>6, <1>7, <1>8, TookNode DEF SameButRaised
  <2> HIDE DEF a
  <2>2. Stands(a, sp - 1, "more")
    BY <2>1, <1>2, <1>6 DEF Stands, Working
  <2>3. Back(a, called, "more")
    BY <1>11 DEF a
  <2> QED
    BY <2>2, <2>3, <1>9 DEF Pcs, Working
<1>12. ASSUME Back(returned, called, "more") PROVE TreeInv'
  <2>1. Stands(returned, sp - 1, "more")
    BY <1>2, <1>6, <1>7, <1>8 DEF Stands, Working
  <2> QED
    BY <2>1, <1>9, <1>12 DEF Pcs, Working
<1>13. ASSUME n.at = "null",
              LET over == [n EXCEPT !.in_null = FALSE]
                  failed == recheck_bounds([over EXCEPT !.null_failed = TRUE])
              IN \/ Back(Returns(over, n.beta), called, "return")
                 \/ Back(failed, called, Goes(failed))
       PROVE  TreeInv'
  <2> DEFINE over == [n EXCEPT !.in_null = FALSE]
             more == [over EXCEPT !.null_failed = TRUE]
             failed == recheck_bounds(more)
             over_beta == Returns(over, n.beta)
  <2>1. IsNode(over) /\ Keeps(n, over)
    BY <1>4 DEF Keeps, IsNode, NodeFields
  <2> HIDE DEF over
  <2>2. IsNode(more) /\ Keeps(over, more)
    BY <2>1 DEF Keeps, IsNode, NodeFields
  <2> HIDE DEF more
  <2>3. /\ IsNode(failed) /\ failed.pos = n.pos /\ failed.depth = n.depth /\ failed.mo = n.mo
        /\ failed.at \in {"loop", "done"}
    BY <2>1, <2>2, RecheckedNode DEF Keeps
  <2>4. IsNode(over_beta) /\ over_beta.pos = n.pos /\ over_beta.at = "done"
    BY <2>1, ReturnsKeeps DEF Keeps
  <2>5. Back(over_beta, called, "return") \/ Back(failed, called, Goes(failed))
    BY <1>13 DEF over, more
  <2> HIDE DEF failed, over_beta
  <2>6. Stands(over_beta, sp - 1, "return")
    BY <2>4, <1>6 DEF Stands, Working, AtRest
  <2>7. Ordered(failed) /\ Unpicked(failed)
    BY <2>3, <1>6, <1>13, SameMoves DEF Ordered, Unpicked
  <2>8. Goes(failed) \in Pcs /\ Stands(failed, sp - 1, Goes(failed))
    BY <2>3, <2>7, <1>2, <1>6 DEF Goes, Stands, Working, AtRest, Pcs
  <2>9. "return" \in Pcs
    BY DEF Pcs
  <2> HIDE DEF Goes
  <2> QED
    BY <2>5, <2>6, <2>8, <2>9, <1>9
<1>14. \/ n.at = "null" /\ (LET over == [n EXCEPT !.in_null = FALSE]
                              failed == recheck_bounds([over EXCEPT !.null_failed = TRUE])
                          IN \/ Back(Returns(over, n.beta), called, "return")
                             \/ Back(failed, called, Goes(failed)))
       \/ Again([n EXCEPT !.at = "full"], full_window(n, called, n.depth - PLY))
       \/ Again([n EXCEPT !.at = "extended"], full_window(n, called, n.depth))
       \/ Back(returned, called, "more")
       \/ \E v : Back(Took(returned, called, v), called, "more")
  BY DEF Return, n, called, p, d, returned
<1>15. "full" \in Waiting \ {"null"} /\ "extended" \in Waiting \ {"null"}
  BY DEF Waiting
<1> QED
  BY <1>10, <1>11, <1>12, <1>13, <1>14, <1>15

(* A search begins with nodes nobody has been at.                          *)
LEMMA NewNodesFit ==
    ASSUME NEW root \in Position, NEW depth, NEW pv, NEW c \in {"enter", "idle"}
    PROVE  Fits(NewNodes(root, depth, pv), 1, c)
<1> DEFINE nd == NewNodes(root, depth, pv)
           a(line, i) == NewNode(line, i)
<1>1. \A line, i : IsNode(a(line, i)) /\ a(line, i).at = "none"
  BY DEF NewNode, IsNode, NodeFields
<1>2. /\ 0 \in 0..LastNode /\ 1 \in 0..LastNode /\ 1 \in 1..LastNode
      /\ \A i \in 1 + 1..LastNode : i \in 0..LastNode
  BY StackAssumption
<1>3. /\ DOMAIN nd = 0..LastNode
      /\ nd[0] = [a(<<>>, 0) EXCEPT !.barrier = TRUE]
      /\ nd[1] = [a(pv, 1) EXCEPT !.barrier = TRUE, !.pos = root, !.depth = depth,
                                  !.alpha = -MaxValue, !.beta = MaxValue]
      /\ \A i \in 0..LastNode : i # 0 /\ i # 1 => nd[i] = a(pv, i)
  BY <1>2 DEF NewNodes
<1> HIDE DEF a, nd
<1>4. IsNode(nd[0]) /\ nd[0].at = "none"
  BY <1>1, <1>3 DEF IsNode, NodeFields
<1>5. IsNode(nd[1]) /\ nd[1].at = "none" /\ nd[1].pos = root
  BY <1>1, <1>3 DEF IsNode, NodeFields
<1>6. ASSUME NEW i \in 0..LastNode PROVE IsNode(nd[i]) /\ nd[i].at = "none"
  <2>1. CASE i # 0 /\ i # 1
    <3>1. nd[i] = a(pv, i)
      BY <2>1, <1>3
    <3> QED
      BY <3>1, <1>1
  <2> QED
    BY <2>1, <1>4, <1>5
<1>7. Stands(nd[1], 1, c)
  BY <1>5 DEF Stands, Working, AtRest
<1>8. \A i \in 1..1 - 1 : Waits(nd[i])
  OBVIOUS
<1>9. \A i \in 1 + 1..LastNode : nd[i].at \in AtRest
  BY <1>2, <1>6 DEF AtRest
<1> QED
  BY <1>2, <1>3, <1>6, <1>7, <1>8, <1>9 DEF Fits, nd

(* e is n with its place kept.                                             *)
SamePlace(n, e) == IsNode(e) /\ e.at = n.at /\ SamePast(n, e)

(* Between the searches of one depth only the program at the root moves.   *)
LEMMA FitsAtRoot ==
    ASSUME NEW nd, NEW c \in {"return", "enter", "idle"}, Fits(nd, 1, c),
           NEW d \in {"return", "enter", "idle"},
           NEW e, DOMAIN e = 0..LastNode,
           \A i \in 0..LastNode : SamePlace(nd[i], e[i])
    PROVE  Fits(e, 1, d)
<1>1. /\ 1 \in 0..LastNode /\ 1 \in 1..LastNode
      /\ \A i \in 1 + 1..LastNode : i \in 0..LastNode
  BY StackAssumption
<1>2. Stands(e[1], 1, d)
  BY <1>1 DEF Fits, Stands, Working, SamePlace, SamePast
<1>3. \A i \in 0..LastNode : IsNode(e[i])
  BY DEF SamePlace
<1>4. \A i \in 1 + 1..LastNode : e[i].at \in AtRest
  BY <1>1 DEF Fits, SamePlace
<1>5. \A i \in 1..1 - 1 : Waits(e[i])
  OBVIOUS
<1> QED
  BY <1>1, <1>2, <1>3, <1>4, <1>5 DEF Fits

LEMMA ForcedNode ==
    ASSUME NEW n, IsNode(n), NEW m
    PROVE  /\ SamePlace(n, [n EXCEPT !.forced = m]) /\ SamePlace(n, n)
           /\ SamePlace(n, [n EXCEPT !.extension = m])
           /\ SamePlace(n, [n EXCEPT !.alpha = -MaxValue, !.beta = MaxValue, !.type = "PV"])
BY DEF SamePlace, SamePast, IsNode, NodeFields

LEMMA ForcedNodes ==
    ASSUME NEW pv, \A i \in 0..LastNode : IsNode(node[i])
    PROVE  \A i \in 0..LastNode : SamePlace(node[i], ForceLine(pv)[i])
<1> TAKE i \in 0..LastNode
<1> DEFINE n == node[i]
           m == pv[i]
<1>1. ForceLine(pv)[i] = [n EXCEPT !.forced = m] \/ ForceLine(pv)[i] = n
  BY DEF ForceLine
<1>2. IsNode(n)
  OBVIOUS
<1> HIDE DEF n, m
<1>3. SamePlace(n, [n EXCEPT !.forced = m]) /\ SamePlace(n, n)
  BY <1>2, ForcedNode
<1>4. SamePlace(n, ForceLine(pv)[i])
  BY <1>1, <1>3
<1> QED
  BY <1>4 DEF n

LEMMA ExtendedNodes ==
    ASSUME NEW pv, \A i \in 0..LastNode : IsNode(node[i]), Extend(pv), ~Deliver
    PROVE  DOMAIN node' = 0..LastNode /\ \A i \in 0..LastNode : SamePlace(node[i], node'[i])
<1> DEFINE f == ForceLine(pv)
           old == cleanup.location
           prefix == CommonPrefix(cleanup.stored) - 1
           location == IF old = -1 \/ prefix < old THEN prefix ELSE old - 1
           a == 1 + location
           b == 1 + old
<1>1. \A i \in 0..LastNode : SamePlace(node[i], f[i])
  BY ForcedNodes
<1>2. node' = [i \in 0..LastNode |->
                IF i = a THEN [f[i] EXCEPT !.extension = 1]
                ELSE IF i = b THEN [f[i] EXCEPT !.extension = 0]
                ELSE f[i]]
  BY DEF Extend
<1> HIDE DEF a, b, f
<1>3. ASSUME NEW i \in 0..LastNode PROVE SamePlace(node[i], node'[i])
  <2> DEFINE g == f[i]
  <2>1. IsNode(g) /\ g.at = node[i].at /\ SamePast(node[i], g)
    BY <1>1 DEF SamePlace
  <2>2. node'[i] \in {[g EXCEPT !.extension = 1], [g EXCEPT !.extension = 0], g}
    BY <1>2
  <2> HIDE DEF g
  <2>3. /\ SamePlace(g, [g EXCEPT !.extension = 1]) /\ SamePlace(g, g)
        /\ SamePlace(g, [g EXCEPT !.extension = 0])
    BY <2>1, ForcedNode
  <2>4. SamePlace(g, node'[i])
    BY <2>2, <2>3
  <2> QED
    BY <2>1, <2>4 DEF SamePlace, SamePast
<1> QED
  BY <1>2, <1>3

LEMMA ExtractPvFits ==
    ASSUME TreeInv, ExtractPv
    PROVE  TreeInv'
<1> DEFINE pv == node[1].pv
           f == ForceLine(pv)
<1>1. Fits(node, 1, "return") /\ sp = 1 /\ pc = "return"
  BY DEF TreeInv, ExtractPv
<1>2. Deliver \/ Extend(pv) \/ Research(pv)
  BY DEF ExtractPv
<1>3. /\ \A i \in 0..LastNode : IsNode(node[i])
      /\ node[1].pos \in Position
  BY <1>1 DEF Fits, Stands
<1>4. \A i \in 0..LastNode : SamePlace(node[i], f[i])
  BY <1>3, ForcedNodes
<1> HIDE DEF f
<1>5. CASE Deliver
  <2>1. CASE pc' = "idle" /\ UNCHANGED <<node, sp>>
    <3>1. \A i \in 0..LastNode : SamePlace(node[i], node[i])
      BY <1>3, ForcedNode
    <3>2. DOMAIN node = 0..LastNode
      BY <1>1 DEF Fits
    <3>3. Fits(node, 1, "idle")
      BY <3>1, <3>2, <1>1, FitsAtRoot
    <3> QED
      BY <3>3, <2>1, <1>1 DEF TreeInv
  <2>2. CASE \E depth, line, counts : StartSearch(node[1].pos, depth, line, counts)
    <3>1. PICK depth, line : node' = NewNodes(node[1].pos, depth, line) /\ sp' = 1 /\ pc' = "enter"
      BY <2>2 DEF StartSearch
    <3>2. Fits(NewNodes(node[1].pos, depth, line), 1, "enter")
      BY <1>3, NewNodesFit
    <3> QED
      BY <3>1, <3>2 DEF TreeInv
  <2>3. \/ pc' = "idle" /\ UNCHANGED <<node, sp>>
        \/ \E depth, line, counts : StartSearch(node[1].pos, depth, line, counts)
    BY <1>5 DEF Deliver
  <2> QED
    BY <2>1, <2>2, <2>3
<1>6. CASE Extend(pv) /\ ~Deliver
  <2>1. sp' = 1 /\ pc' = "return"
    BY <1>1, <1>6 DEF Extend
  <2>2. DOMAIN node' = 0..LastNode /\ \A i \in 0..LastNode : SamePlace(node[i], node'[i])
    BY <1>3, <1>6, ExtendedNodes
  <2>3. Fits(node', 1, "return")
    BY <2>2, <1>1, FitsAtRoot
  <2> QED
    BY <2>1, <2>3 DEF TreeInv
<1>7. CASE Research(pv)
  <2>1. node' = [i \in 0..LastNode |->
          IF i = 1 THEN [f[i] EXCEPT !.alpha = -MaxValue, !.beta = MaxValue, !.type = "PV"]
          ELSE IF i > Len(pv) THEN [f[i] EXCEPT !.forced = 0] ELSE f[i]]
    BY <1>7 DEF Research, f
  <2>2. sp' = 1 /\ pc' = "enter"
    BY <1>1, <1>7 DEF Research
  <2>3. DOMAIN node' = 0..LastNode
    BY <2>1
  <2>4. \A i \in 0..LastNode : SamePlace(node[i], node'[i])
    <3> TAKE i \in 0..LastNode
    <3> DEFINE g == f[i]
    <3>1. IsNode(g) /\ g.at = node[i].at /\ SamePast(node[i], g)
      BY <1>4 DEF SamePlace
    <3>2. node'[i] \in {[g EXCEPT !.alpha = -MaxValue, !.beta = MaxValue, !.type = "PV"],
                        [g EXCEPT !.forced = 0], g}
      BY <2>1
    <3> HIDE DEF g
    <3>3. /\ SamePlace(g, [g EXCEPT !.alpha = -MaxValue, !.beta = MaxValue, !.type = "PV"])
          /\ SamePlace(g, [g EXCEPT !.forced = 0]) /\ SamePlace(g, g)
      BY <3>1, ForcedNode
    <3>4. SamePlace(g, node'[i])
      BY <3>2, <3>3
    <3> QED
      BY <3>1, <3>4 DEF SamePlace, SamePast
  <2>5. Fits(node', 1, "enter")
    BY <2>3, <2>4, <1>1, FitsAtRoot
  <2> QED
    BY <2>2, <2>5 DEF TreeInv
<1> QED
  BY <1>2, <1>5, <1>6, <1>7

LEMMA NextMoveFits ==
    ASSUME TreeInv, NextMove
    PROVE  TreeInv'
<1> DEFINE q == Play[Root][deepening.best]
<1>1. Root \in Position
  <2>1. 1 = sp \/ 1 \in 1..sp - 1
    BY StackAssumption DEF TreeInv, Fits
  <2> QED
    BY <2>1 DEF Root, TreeInv, Fits, Waits, Stands
<1>2. deepening.best \in Legal[Root]
  BY DEF NextMove
<1>3. q \in Position
  BY <1>1, <1>2, GameAssumption
<1>4. PICK reply \in Legal[q] :
         /\ \E depth : node' = NewNodes(Play[q][reply], depth, <<>>)
         /\ sp' = 1 /\ pc' \in {"enter", "idle"}
  BY DEF NextMove, StartSearch
<1> HIDE DEF q
<1>5. Play[q][reply] \in Position
  BY <1>3, <1>4, GameAssumption
<1>6. PICK depth : node' = NewNodes(Play[q][reply], depth, <<>>)
  BY <1>4
<1>7. Fits(NewNodes(Play[q][reply], depth, <<>>), 1, pc')
  BY <1>4, <1>5, NewNodesFit
<1> QED
  BY <1>4, <1>6, <1>7 DEF TreeInv

LEMMA TerminatedFits ==
    ASSUME TreeInv, pc = "enter", Terminated
    PROVE  TreeInv'
<1>1. Fits(node, sp, "terminated")
  BY DEF TreeInv, Fits, Stands, Working
<1> QED
  BY <1>1 DEF TreeInv, Terminated

LEMMA InitFits ==
    ASSUME Init
    PROVE  TreeInv
<1>1. PICK root \in Roots : node = NewNodes(root, PLY, <<>>) /\ sp = 1 /\ pc = "enter"
  BY DEF Init
<1>2. root \in Position
  BY <1>1, GameAssumption
<1> QED
  BY <1>1, <1>2, NewNodesFit DEF TreeInv

(* The nodes of a search nest: each parent waits for its child with its    *)
(* moves in order, the node the program is at stands where the program     *)
(* says, and the nodes below it are at rest, also after a cutoff, a second *)
(* search of a child, and the cleanup of the line by extract_pv.           *)
THEOREM TreeInvariant == Spec => []TreeInv
<1>1. Init => TreeInv
  BY InitFits
<1>2. TreeInv /\ [Next]_vars => TreeInv'
  <2> SUFFICES ASSUME TreeInv, [Next]_vars PROVE TreeInv'
    OBVIOUS
  <2>1. CASE RunOut
    BY <2>1, TerminatedFits DEF RunOut
  <2>2. CASE Cancel
    BY <2>2, TerminatedFits DEF Cancel
  <2>3. CASE Enter
    BY <2>3, EnterFits
  <2>4. CASE Pick
    BY <2>4, PickFits
  <2>5. CASE Finish
    BY <2>5, FinishFits
  <2>6. CASE Return
    BY <2>6, ReturnFits
  <2>7. CASE ExtractPv
    BY <2>7, ExtractPvFits
  <2>8. CASE NextMove
    BY <2>8, NextMoveFits
  <2>9. CASE UNCHANGED vars
    BY <2>9 DEF vars, TreeInv
  <2> QED
    BY <2>1, <2>2, <2>3, <2>4, <2>5, <2>6, <2>7, <2>8, <2>9 DEF Next
<1> QED
  BY <1>1, <1>2, PTL DEF Spec

(* No move of a node on the stack is lost or tried twice, and those that   *)
(* wait to be picked are sorted (move_order.c), whatever hints the table   *)
(* and the line before it put in, and however the search came to the node. *)
THEOREM MovesStayInOrder == Spec => []EveryMoveOnce
<1>1. TreeInv => EveryMoveOnce
  <2> SUFFICES ASSUME TreeInv, NEW i \in 1..sp, InLoop(node[i])
               PROVE  OrderComplete(node[i].mo, MovesOf(node[i])) /\ OrderSorted(node[i].mo)
    BY DEF EveryMoveOnce
  <2>1. i = sp \/ i \in 1..sp - 1
    BY StackAssumption DEF TreeInv, Fits
  <2>2. Ordered(node[i])
    BY <2>1 DEF TreeInv, Fits, Waits, Stands, InLoop, AtRest
  <2> QED
    BY <2>2, GoodOrderSays DEF Ordered
<1> QED
  BY <1>1, TreeInvariant, PTL

-----------------------------------------------------------------------------
(* How far back repetitions reach.                                         *)

(* Earlier, in a stack nd.                                                 *)
EarlierIn(nd, i) ==
    {r \in 1..i : r % 2 = 0 /\ \A t \in 0..r - 1 : t % 2 = 0 => ~nd[i - t].barrier}

(* b is the child of a: nothing is undone on the way, and while the parent *)
(* is below a repetition so is the child, unless a move was irreversible.  *)
Follows(a, b) ==
    /\ Progress[a.pos] <= Progress[b.pos]
    /\ a.repeated => IF b.barrier THEN Progress[a.pos] < Progress[b.pos] ELSE b.repeated

(* A node that repeats a position knows it.                                *)
Noticed(nd, i) == (\E r \in EarlierIn(nd, i) : nd[i - r].pos = nd[i].pos) => nd[i].repeated

(* No barrier is among the r nodes from i back.                            *)
Reaches(nd, i, r) == r \in Nat /\ \A t \in 0..i - 1 : t < r => ~nd[i - t].barrier
InReach(nd, i) == Reaches(nd, i, nd[i].ra_any) /\ Reaches(nd, i, nd[i].ra_best)

(* Only a search that is strict about repetitions follows them.            *)
Tracked(st) == st.repetition /\ st.strict
Own(nd, i, st) == (Tracked(st) => Noticed(nd, i)) /\ InReach(nd, i)
Passed(nd, i, st) == (Tracked(st) => Follows(nd[i], nd[i + 1])) /\ Own(nd, i, st)

PastFits(nd, s, c, st) ==
    /\ \A i \in 1..s - 1 : Passed(nd, i, st)
    /\ c \in Working => Own(nd, s, st)
    /\ c = "return" /\ st.strict => InReach(nd, s)

(* e is nd as far as repetitions go.                                       *)
SameLine(nd, e, i) == \A j \in 0..i : e[j].pos = nd[j].pos /\ e[j].barrier = nd[j].barrier

LEMMA EarlierSame ==
    ASSUME NEW nd, NEW e, NEW i \in Nat, SameLine(nd, e, i)
    PROVE  EarlierIn(e, i) = EarlierIn(nd, i)
<1>1. \A r \in 1..i : \A t \in 0..r - 1 : e[i - t].barrier = nd[i - t].barrier
  <2> TAKE r \in 1..i
  <2> TAKE t \in 0..r - 1
  <2>1. i - t \in 0..i
    OBVIOUS
  <2> QED
    BY <2>1 DEF SameLine
<1> QED
  BY <1>1 DEF EarlierIn

LEMMA NoticedSame ==
    ASSUME NEW nd, NEW e, NEW i \in Nat, SameLine(nd, e, i), nd[i].repeated => e[i].repeated,
           Noticed(nd, i)
    PROVE  Noticed(e, i)
<1>1. EarlierIn(e, i) = EarlierIn(nd, i)
  BY EarlierSame
<1>2. \A r \in EarlierIn(nd, i) : e[i - r].pos = nd[i - r].pos
  <2> TAKE r \in EarlierIn(nd, i)
  <2>1. i - r \in 0..i
    BY DEF EarlierIn
  <2> QED
    BY <2>1 DEF SameLine
<1>3. e[i].pos = nd[i].pos
  BY DEF SameLine
<1> QED
  BY <1>1, <1>2, <1>3 DEF Noticed

LEMMA ReachesSame ==
    ASSUME NEW nd, NEW e, NEW i \in Nat, SameLine(nd, e, i), NEW r, Reaches(nd, i, r)
    PROVE  Reaches(e, i, r)
<1>1. \A t \in 0..i - 1 : e[i - t].barrier = nd[i - t].barrier
  <2> TAKE t \in 0..i - 1
  <2>1. i - t \in 0..i
    OBVIOUS
  <2> QED
    BY <2>1 DEF SameLine
<1> QED
  BY <1>1 DEF Reaches

LEMMA ReachesNone ==
    ASSUME NEW nd, NEW i
    PROVE  Reaches(nd, i, 0)
BY DEF Reaches

(* What the child depends on the parent does, one node less far back.      *)
LEMMA ParentReaches ==
    ASSUME NEW nd, NEW s \in Nat, s > 1, NEW r, Reaches(nd, s, r), NEW q, Reaches(nd, s - 1, q)
    PROVE  Reaches(nd, s - 1, MaxOf(q, from_parent(r)))
<1> DEFINE p == from_parent(r)
           u == s - 1
<1>1. r \in Nat /\ q \in Nat /\ p \in Int /\ p = r - 1 /\ u \in Nat /\ u = s - 1
  BY DEF Reaches, from_parent
<1> HIDE DEF p, u
<1>2. p \in Nat => Reaches(nd, u, p)
  <2> SUFFICES ASSUME p \in Nat, NEW t \in 0..u - 1, t < p PROVE ~nd[u - t].barrier
    BY DEF Reaches
  <2>1. t + 1 \in 0..s - 1 /\ t + 1 < r /\ s - (t + 1) = u - t
    BY <1>1
  <2>2. ~nd[s - (t + 1)].barrier
    BY <2>1 DEF Reaches
  <2> QED
    BY <2>1, <2>2
<1>3. MaxOf(q, p) = q \/ (MaxOf(q, p) = p /\ p \in Nat)
  BY <1>1 DEF MaxOf
<1> QED
  BY <1>2, <1>3 DEF p, u

(* The position of the node s was on the board r and, before it, z moves   *)
(* ago.  The one r moves ago is then known as a repetition, and so is      *)
(* every node after it up to an irreversible move.  Such a move cannot     *)
(* have been made, as it could not have led back to the position.          *)
LEMMA RepetitionReaches ==
    ASSUME NEW nd, NEW s \in Nat \ {0},
           \A i \in 1..s : nd[i].pos \in Position,
           \A i \in 1..s - 1 : Follows(nd[i], nd[i + 1]) /\ Noticed(nd, i),
           NEW r \in EarlierIn(nd, s), NEW z \in EarlierIn(nd, s), r < z,
           nd[s - r].pos = nd[s].pos, nd[s - z].pos = nd[s].pos
    PROVE  Reaches(nd, s, r)
<1> DEFINE u == s - r
           N(j) == nd[u + j]
           P(j) == Progress[N(j).pos]
           Past(j) == P(j) > P(0)
           Held(j) == N(j).repeated /\ P(j) >= P(0) /\ \A k \in 1..j : ~N(k).barrier
           Good == {j \in 0..r : Held(j) \/ Past(j)}
<1>1. /\ r \in 1..s /\ z \in 1..s /\ r % 2 = 0 /\ z % 2 = 0 /\ u \in 1..s /\ u \in 1..s - 1
      /\ r \in Nat
  BY DEF EarlierIn
<1>2. N(0).repeated
  <2>1. z - r \in 1..u /\ (z - r) % 2 = 0
    BY <1>1
  <2>2. \A t \in 0..(z - r) - 1 : t % 2 = 0 => ~nd[u - t].barrier
    <3> SUFFICES ASSUME NEW t \in 0..(z - r) - 1, t % 2 = 0 PROVE ~nd[u - t].barrier
      OBVIOUS
    <3>1. r + t \in 0..z - 1 /\ (r + t) % 2 = 0 /\ s - (r + t) = u - t
      BY <1>1
    <3>2. ~nd[s - (r + t)].barrier
      BY <3>1 DEF EarlierIn
    <3> QED
      BY <3>1, <3>2
  <2>3. z - r \in EarlierIn(nd, u)
    BY <2>1, <2>2 DEF EarlierIn
  <2>4. u - (z - r) = s - z /\ u + 0 = u
    BY <1>1
  <2>5. nd[u - (z - r)].pos = nd[u].pos
    BY <2>4
  <2>6. Noticed(nd, u)
    BY <1>1
  <2> HIDE DEF u
  <2>7. nd[u].repeated
    BY <2>3, <2>5, <2>6 DEF Noticed
  <2> QED
    BY <2>4, <2>7
<1>3. \A j \in 0..r : N(j).pos \in Position /\ P(j) \in Nat
  <2> TAKE j \in 0..r
  <2>1. u + j \in 1..s
    BY <1>1
  <2>2. N(j).pos \in Position
    BY <2>1
  <2> QED
    BY <2>2, NoWayBack
<1>4. ASSUME NEW j \in 1..r PROVE Follows(N(j - 1), N(j))
  <2>1. u + (j - 1) \in 1..s - 1 /\ (u + (j - 1)) + 1 = u + j
    BY <1>1
  <2>2. Follows(nd[u + (j - 1)], nd[(u + (j - 1)) + 1])
    BY <2>1
  <2> QED
    BY <2>1, <2>2
<1>5. P(r) = P(0)
  <2>1. u + r = s /\ u + 0 = u
    BY <1>1
  <2>2. nd[u + r].pos = nd[u + 0].pos
    BY <2>1
  <2> QED
    BY <2>2
<1>6. s - 0 = s /\ \A t \in 0..r - 1 : r - t \in 1..r /\ u + (r - t) = s - t
  BY <1>1
<1> HIDE DEF u, N
<1>7. 0 \in Good
  BY <1>1, <1>2, <1>3
<1>8. ASSUME NEW j \in 1..r, j - 1 \in Good PROVE j \in Good
  <2>1. P(j) \in Nat /\ P(j - 1) \in Nat /\ P(0) \in Nat /\ j - 1 \in 0..r /\ j \in 0..r
    BY <1>1, <1>3
  <2>2. Follows(N(j - 1), N(j))
    BY <1>4
  <2>3. P(j - 1) <= P(j)
    BY <2>2 DEF Follows
  <2>4. CASE Past(j - 1)
    BY <2>1, <2>3, <2>4
  <2>5. CASE Held(j - 1)
    <3>1. CASE N(j).barrier
      <4>1. P(j - 1) < P(j)
        BY <2>2, <2>5, <3>1 DEF Follows
      <4>2. P(j - 1) >= P(0)
        BY <2>5
      <4> HIDE DEF P
      <4> QED
        BY <2>1, <4>1, <4>2
    <3>2. CASE ~N(j).barrier
      <4>1. N(j).repeated
        BY <2>2, <2>5, <3>2 DEF Follows
      <4>2. P(j) >= P(0)
        BY <2>1, <2>3, <2>5
      <4>3. \A k \in 1..j : k = j \/ k \in 1..j - 1
        OBVIOUS
      <4>4. \A k \in 1..j : ~N(k).barrier
        BY <2>5, <3>2, <4>3
      <4> QED
        BY <2>1, <4>1, <4>2, <4>4
    <3> QED
      BY <3>1, <3>2
  <2> QED
    BY <1>8, <2>4, <2>5
<1> HIDE DEF Good
<1>9. r \in Good
  <2>1. \A j \in 0..r : j \in Good
    BY <1>1, <1>7, <1>8, Induction
  <2> QED
    BY <1>1, <2>1
<1>10. \A k \in 1..r : ~N(k).barrier
  <2>1. ~Past(r)
    BY <1>1, <1>3, <1>5
  <2> QED
    BY <1>9, <2>1 DEF Good
<1>11. \A t \in 0..s - 1 : t < r => ~nd[s - t].barrier
  <2> SUFFICES ASSUME NEW t \in 0..s - 1, t < r PROVE ~nd[s - t].barrier
    OBVIOUS
  <2>1. t \in 0..r - 1 /\ r - t \in 1..r
    BY <1>1
  <2>2. ~N(r - t).barrier
    BY <1>10, <2>1
  <2> QED
    BY <1>6, <2>1, <2>2 DEF N
<1> QED
  BY <1>1, <1>11 DEF Reaches

(* find_repetition finds two earlier positions, if it is strict.           *)
LEMMA FoundTwice ==
    ASSUME NEW s \in Nat, NEW n, settings.strict, find_repetition(s, n).r # 0
    PROVE  /\ settings.repetition
           /\ LET r == find_repetition(s, n).r IN
              /\ r \in EarlierIn(node, s) /\ node[s - r].pos = n.pos
              /\ \E z \in EarlierIn(node, s) : r < z /\ node[s - z].pos = n.pos
<1> DEFINE same == {r \in Earlier(s) : node[s - r].pos = n.pos}
           r == find_repetition(s, n).r
           m == Min(same)
<1>1. settings.repetition /\ Cardinality(same) >= 2 /\ r = m
  BY DEF find_repetition
<1>2. Earlier(s) = EarlierIn(node, s)
  BY DEF Earlier, EarlierIn
<1>3. same \in SUBSET Nat
  BY <1>2 DEF EarlierIn
<1>4. \A x \in same : x \in EarlierIn(node, s) /\ node[s - x].pos = n.pos
  BY <1>2
<1> HIDE DEF same, r
<1>5. same # {}
  BY <1>1, FS_EmptySet
<1>6. m \in same /\ \A y \in same : m <= y
  BY <1>3, <1>5, MinIsLeast
<1> HIDE DEF m
<1>7. same # {m}
  <2>1. Cardinality({m}) = 1
    BY FS_Singleton
  <2> QED
    BY <1>1, <2>1
<1>8. PICK z \in same : z # m
  BY <1>6, <1>7
<1>9. m < z
  BY <1>3, <1>6, <1>8
<1> QED
  BY <1>1, <1>4, <1>6, <1>8, <1>9 DEF r

LEMMA SeenIfEarlier ==
    ASSUME NEW s, NEW n, Tracked(settings), NEW r \in EarlierIn(node, s), node[s - r].pos = n.pos
    PROVE  find_repetition(s, n).seen
<1>1. Earlier(s) = EarlierIn(node, s)
  BY DEF Earlier, EarlierIn
<1>2. {q \in Earlier(s) : node[s - q].pos = n.pos} # {}
  BY <1>1
<1> QED
  BY <1>2 DEF find_repetition, Tracked

(* The positions of the stack are positions of the game.                   *)
LEMMA FitPositions ==
    ASSUME NEW nd, NEW s, NEW c, Fits(nd, s, c)
    PROVE  s \in 1..LastNode /\ s \in Nat \ {0} /\ \A i \in 1..s : nd[i].pos \in Position
<1>1. s \in 1..LastNode /\ s \in Nat \ {0}
  BY StackAssumption DEF Fits
<1>2. \A i \in 1..s : i = s \/ i \in 1..s - 1
  BY <1>1
<1> QED
  BY <1>1, <1>2 DEF Fits, Waits, Stands

(* The node the program is at, entered, in a stack that is as it was.      *)
LEMMA EnteredPast ==
    ASSUME Fits(node, sp, pc), PastFits(node, sp, pc, settings),
           NEW k, Remembers(node[sp], k, find_repetition(sp, node[sp])),
           NEW e, SameLine(node, e, sp), SamePast(k, e[sp])
    PROVE  /\ k.at # "done" => Own(e, sp, settings)
           /\ k.at = "done" /\ settings.strict => InReach(e, sp)
<1> DEFINE n == node[sp]
           found == find_repetition(sp, n)
<1>1. sp \in Nat \ {0} /\ \A i \in 1..sp : node[i].pos \in Position
  BY FitPositions
<1>2. ASSUME e[sp].ra_any = 0, e[sp].ra_best = 0 PROVE InReach(e, sp)
  BY <1>2, ReachesNone DEF InReach
<1>3. CASE k.at # "done"
  <2>1. k.ra_any = 0 /\ k.ra_best = 0 /\ (found.seen => k.repeated)
    BY <1>3 DEF Remembers
  <2>2. InReach(e, sp)
    BY <1>2, <2>1 DEF SamePast
  <2>3. ASSUME Tracked(settings) PROVE Noticed(e, sp)
    <3> SUFFICES ASSUME NEW r \in EarlierIn(e, sp), e[sp - r].pos = e[sp].pos
                 PROVE  e[sp].repeated
      BY DEF Noticed
    <3>1. EarlierIn(e, sp) = EarlierIn(node, sp)
      BY <1>1, EarlierSame
    <3>2. sp - r \in 0..sp /\ sp \in 0..sp
      BY <1>1 DEF EarlierIn
    <3>3. node[sp - r].pos = n.pos
      BY <3>2 DEF SameLine
    <3> HIDE DEF n
    <3>4. found.seen
      BY <2>3, <3>1, <3>3, SeenIfEarlier
    <3> QED
      BY <2>1, <3>4 DEF SamePast
  <2> QED
    BY <1>3, <2>2, <2>3 DEF Own
<1>4. CASE k.at = "done" /\ settings.strict
  <2>1. k.ra_any = k.ra_best /\ k.ra_any \in {0, found.r}
    BY <1>4 DEF Remembers
  <2>2. CASE k.ra_any = 0
    BY <1>2, <1>4, <2>1, <2>2 DEF SamePast
  <2>3. CASE k.ra_any = found.r /\ found.r # 0
    <3> DEFINE r == found.r
    <3>1. /\ settings.repetition
          /\ r \in EarlierIn(node, sp) /\ node[sp - r].pos = n.pos
          /\ \E z \in EarlierIn(node, sp) : r < z /\ node[sp - z].pos = n.pos
      <4> HIDE DEF n
      <4> QED
        BY <1>1, <1>4, <2>3, FoundTwice
    <3>2. PICK z \in EarlierIn(node, sp) : r < z /\ node[sp - z].pos = n.pos
      BY <3>1
    <3> HIDE DEF r
    <3>3. \A i \in 1..sp - 1 : Follows(node[i], node[i + 1]) /\ Noticed(node, i)
      BY <1>4, <3>1 DEF PastFits, Passed, Own, Tracked
    <3>4. Reaches(node, sp, r)
      BY <1>1, <3>1, <3>2, <3>3, RepetitionReaches
    <3>5. Reaches(e, sp, r)
      BY <1>1, <3>4, ReachesSame
    <3> QED
      BY <1>4, <2>1, <2>3, <3>5 DEF SamePast, InReach, r
  <2> QED
    BY <2>1, <2>2, <2>3
<1> QED
  BY <1>3, <1>4

(* k is n, which may have found out that it is a repetition.               *)
SameAt(n, k) == k.pos = n.pos /\ k.barrier = n.barrier /\ (n.repeated => k.repeated)

LEMMA InReachSame ==
    ASSUME NEW nd, NEW e, NEW i \in Nat, SameLine(nd, e, i), InReach(nd, i),
           e[i].ra_any = nd[i].ra_any, e[i].ra_best = nd[i].ra_best
    PROVE  InReach(e, i)
<1> DEFINE a == nd[i].ra_any
           b == nd[i].ra_best
<1>1. Reaches(nd, i, a) /\ Reaches(nd, i, b)
  BY DEF InReach
<1> HIDE DEF a, b
<1>2. Reaches(e, i, a) /\ Reaches(e, i, b)
  BY <1>1, ReachesSame
<1> QED
  BY <1>2 DEF InReach, a, b

LEMMA PassedSame ==
    ASSUME NEW nd, NEW e, NEW i \in Nat, NEW st, Passed(nd, i, st), SameLine(nd, e, i),
           SameAt(nd[i + 1], e[i + 1]), e[i].repeated = nd[i].repeated, InReach(e, i)
    PROVE  Passed(e, i, st)
<1>1. e[i].pos = nd[i].pos
  BY DEF SameLine
<1>2. Tracked(st) => Noticed(e, i)
  BY NoticedSame DEF Passed, Own
<1>3. Tracked(st) => Follows(e[i], e[i + 1])
  BY <1>1 DEF Passed, Follows, SameAt
<1> QED
  BY <1>2, <1>3 DEF Passed, Own

(* The nodes before the node s, when it stays what it is.                  *)
LEMMA PassedBefore ==
    ASSUME NEW nd, NEW e, NEW s \in Nat \ {0}, NEW st, \A i \in 1..s - 1 : Passed(nd, i, st),
           \A j \in 0..s - 1 : e[j] = nd[j], SameAt(nd[s], e[s])
    PROVE  /\ \A i \in 1..s - 1 : Passed(e, i, st)
           /\ SameLine(nd, e, s)
<1>1. \A j \in 0..s : SameAt(nd[j], e[j])
  <2>1. \A j \in 0..s : j = s \/ j \in 0..s - 1
    OBVIOUS
  <2> QED
    BY <2>1 DEF SameAt
<1>2. SameLine(nd, e, s)
  BY <1>1 DEF SameLine, SameAt
<1>3. ASSUME NEW i \in 1..s - 1 PROVE Passed(e, i, st)
  <2>1. i \in Nat /\ i \in 0..s - 1 /\ i + 1 \in 0..s /\ \A j \in 0..i : j \in 0..s
    OBVIOUS
  <2>2. SameLine(nd, e, i)
    BY <1>2, <2>1 DEF SameLine
  <2>3. e[i] = nd[i]
    BY <2>1
  <2>4. InReach(e, i)
    BY <2>1, <2>2, <2>3, InReachSame DEF Passed, Own
  <2>5. SameAt(nd[i + 1], e[i + 1])
    BY <1>1, <2>1
  <2> QED
    BY <2>1, <2>2, <2>3, <2>4, <2>5, PassedSame
<1> QED
  BY <1>2, <1>3

(* The node the program is at changes.                                     *)
LEMMA PastStaying ==
    ASSUME NEW nd, NEW s, NEW c, NEW st, Fits(nd, s, c), PastFits(nd, s, c, st),
           NEW a, SameAt(nd[s], a), NEW e, e = [nd EXCEPT ![s] = a], NEW d,
           d \in Working => Own(e, s, st),
           d = "return" /\ st.strict => InReach(e, s)
    PROVE  PastFits(e, s, d, st)
<1>1. s \in Nat \ {0} /\ s \in 0..LastNode /\ DOMAIN nd = 0..LastNode
      /\ \A j \in 0..s - 1 : j \in 0..LastNode /\ j # s
  BY StackAssumption DEF Fits
<1>2. e[s] = a /\ \A j \in 0..s - 1 : e[j] = nd[j]
  BY <1>1
<1>3. \A i \in 1..s - 1 : Passed(nd, i, st)
  BY DEF PastFits
<1>4. \A i \in 1..s - 1 : Passed(e, i, st)
  BY <1>1, <1>2, <1>3, PassedBefore
<1> QED
  BY <1>4 DEF PastFits

(* A child is called.                                                      *)
LEMMA PastCalling ==
    ASSUME NEW nd, NEW s, NEW c, NEW st, Fits(nd, s, c), s < LastNode, PastFits(nd, s, c, st),
           NEW a, SameAt(nd[s], a), NEW b, Tracked(st) => Follows(a, b),
           NEW e, e = [nd EXCEPT ![s] = a, ![s + 1] = b], Own(e, s, st)
    PROVE  PastFits(e, s + 1, "enter", st)
<1>1. /\ s \in Nat \ {0} /\ s \in 0..LastNode /\ DOMAIN nd = 0..LastNode
      /\ s + 1 \in 0..LastNode /\ s + 1 # s
      /\ \A j \in 0..s - 1 : j \in 0..LastNode /\ j # s /\ j # s + 1
      /\ \A i \in 1..(s + 1) - 1 : i = s \/ i \in 1..s - 1
  BY StackAssumption DEF Fits
<1>2. e[s] = a /\ e[s + 1] = b /\ \A j \in 0..s - 1 : e[j] = nd[j]
  BY <1>1
<1>3. \A i \in 1..s - 1 : Passed(nd, i, st)
  BY DEF PastFits
<1>4. \A i \in 1..s - 1 : Passed(e, i, st)
  BY <1>1, <1>2, <1>3, PassedBefore
<1>5. Passed(e, s, st)
  BY <1>2 DEF Passed
<1>6. \A i \in 1..(s + 1) - 1 : Passed(e, i, st)
  BY <1>1, <1>4, <1>5
<1> QED
  BY <1>6 DEF PastFits, Working

(* Its parent has heard of the child that returns.                         *)
LEMMA PastOfParent ==
    ASSUME NEW nd, NEW s, NEW c, NEW st, Fits(nd, s, c), s > 1, PastFits(nd, s, c, st),
           NEW a, SameAt(nd[s - 1], a), a.repeated = nd[s - 1].repeated,
           NEW b, SameAt(nd[s], b), NEW e, e = [nd EXCEPT ![s - 1] = a, ![s] = b],
           Reaches(nd, s - 1, a.ra_any), Reaches(nd, s - 1, a.ra_best)
    PROVE  /\ \A i \in 1..s - 1 : Passed(e, i, st)
           /\ Own(e, s - 1, st) /\ InReach(e, s - 1)
<1> DEFINE u == s - 1
<1>1. /\ u \in Nat \ {0} /\ u \in 0..LastNode /\ DOMAIN nd = 0..LastNode /\ u \in 1..s - 1
      /\ s \in 0..LastNode /\ u # s /\ u + 1 = s
      /\ \A j \in 0..u - 1 : j \in 0..LastNode /\ j # s /\ j # u
      /\ \A i \in 1..s - 1 : i = u \/ i \in 1..u - 1
      /\ \A i \in 1..u - 1 : i \in 1..s - 1
  BY StackAssumption DEF Fits
<1>0. e = [nd EXCEPT ![u] = a, ![s] = b] /\ SameAt(nd[u], a) /\ a.repeated = nd[u].repeated
      /\ Reaches(nd, u, a.ra_any) /\ Reaches(nd, u, a.ra_best)
  OBVIOUS
<1> HIDE DEF u
<1>2. e[u] = a /\ e[s] = b /\ \A j \in 0..u - 1 : e[j] = nd[j]
  BY <1>0, <1>1
<1>3. Passed(nd, u, st) /\ \A i \in 1..u - 1 : Passed(nd, i, st)
  BY <1>1 DEF PastFits
<1>4. (\A i \in 1..u - 1 : Passed(e, i, st)) /\ SameLine(nd, e, u)
  BY <1>0, <1>1, <1>2, <1>3, PassedBefore
<1>5. InReach(e, u)
  <2> DEFINE x == a.ra_any
             y == a.ra_best
  <2>1. Reaches(nd, u, x) /\ Reaches(nd, u, y)
    BY <1>0
  <2>2. e[u].ra_any = x /\ e[u].ra_best = y
    BY <1>2
  <2> HIDE DEF x, y
  <2>3. Reaches(e, u, x) /\ Reaches(e, u, y)
    BY <1>1, <1>4, <2>1, ReachesSame
  <2> QED
    BY <2>2, <2>3 DEF InReach
<1>6. Passed(e, u, st)
  <2>1. SameAt(nd[u + 1], e[u + 1]) /\ e[u].repeated = nd[u].repeated
    BY <1>0, <1>1, <1>2
  <2> QED
    BY <1>1, <1>3, <1>4, <1>5, <2>1, PassedSame
<1>7. \A i \in 1..s - 1 : Passed(e, i, st)
  BY <1>1, <1>4, <1>6
<1> QED
  BY <1>5, <1>6, <1>7 DEF Passed, u

-----------------------------------------------------------------------------
(* The steps, and repetitions.                                             *)

CommonFields == {"settings", "eval", "node_count", "node_limit", "exact", "depth_limit"}

PastInv == DOMAIN common = CommonFields /\ PastFits(node, sp, pc, settings)

(* d is c with other counts.                                               *)
IsKept(c, d) == DOMAIN d = CommonFields /\ d.settings = c.settings

LEMMA CountsKept ==
    ASSUME NEW c, DOMAIN c = CommonFields, NEW x, NEW y
    PROVE  /\ IsKept(c, c) /\ IsKept(c, [c EXCEPT !.node_count = x])
           /\ IsKept(c, [c EXCEPT !.node_count = x, !.node_limit = y])
BY DEF IsKept, CommonFields

(* A game is searched with one set of settings.                            *)
LEMMA SettingsKept ==
    ASSUME DOMAIN common = CommonFields, [Next]_vars
    PROVE  DOMAIN common' = CommonFields /\ settings' = settings
<1>1. \/ common' = common
      \/ \E x : common' = [common EXCEPT !.node_count = x]
      \/ \E x, y : common' = [common EXCEPT !.node_count = x, !.node_limit = y]
  <2>2. CASE RunOut \/ Cancel \/ Enter
    BY <2>2 DEF RunOut, Cancel, Terminated, Enter
  <2>3. CASE Pick \/ Finish \/ Return \/ UNCHANGED vars
    BY <2>3 DEF Pick, Finish, Return, vars
  <2>4. CASE ExtractPv
    <3>1. Deliver \/ Extend(node[1].pv) \/ Research(node[1].pv)
      BY <2>4 DEF ExtractPv
    <3>2. CASE Deliver
      BY <3>2 DEF Deliver, StartSearch
    <3>3. CASE Extend(node[1].pv) /\ ~Deliver
      BY <3>3 DEF Extend
    <3>4. CASE Research(node[1].pv)
      BY <3>4 DEF Research
    <3> QED
      BY <3>1, <3>2, <3>3, <3>4
  <2>5. CASE NextMove
    BY <2>5 DEF NextMove, StartSearch
  <2> QED
    BY <2>2, <2>3, <2>4, <2>5 DEF Next
<1>2. IsKept(common, common')
  <2>1. CASE common' = common
    BY <2>1, CountsKept
  <2>2. CASE \E x : common' = [common EXCEPT !.node_count = x]
    <3>1. PICK x : common' = [common EXCEPT !.node_count = x]
      BY <2>2
    <3>2. IsKept(common, [common EXCEPT !.node_count = x])
      BY CountsKept
    <3> QED
      BY <3>1, <3>2
  <2>3. CASE \E x, y : common' = [common EXCEPT !.node_count = x, !.node_limit = y]
    <3>1. PICK x, y : common' = [common EXCEPT !.node_count = x, !.node_limit = y]
      BY <2>3
    <3>2. IsKept(common, [common EXCEPT !.node_count = x, !.node_limit = y])
      BY CountsKept
    <3> QED
      BY <3>1, <3>2
  <2> QED
    BY <1>1, <2>1, <2>2, <2>3
<1> QED
  BY <1>2 DEF IsKept, settings

LEMMA OwnSame ==
    ASSUME NEW nd, NEW e, NEW i \in Nat, NEW st, SameLine(nd, e, i), Own(nd, i, st),
           SamePast(nd[i], e[i])
    PROVE  Own(e, i, st)
<1>1. InReach(e, i)
  BY InReachSame DEF Own, SamePast
<1>2. Tracked(st) => Noticed(e, i)
  BY NoticedSame DEF Own, SamePast
<1> QED
  BY <1>1, <1>2 DEF Own

(* A stack with another node s, alike.                                     *)
LEMMA ReplacedLine ==
    ASSUME NEW nd, NEW s \in Nat, NEW e, \A j \in 0..s - 1 : e[j] = nd[j], SameAt(nd[s], e[s])
    PROVE  SameLine(nd, e, s)
<1>1. \A j \in 0..s : j = s \/ j \in 0..s - 1
  OBVIOUS
<1> QED
  BY <1>1 DEF SameLine, SameAt

LEMMA EnterPast ==
    ASSUME TreeInv, PastInv, Enter
    PROVE  PastInv'
<1>1. PICK n : /\ n = Entered(sp, node[sp])
               /\ IF n.at # "done" /\ tries_null_move(sp, n) THEN TryNull(n)
                  ELSE Settle(Then(n, recheck_bounds))
  BY DEF Enter
<1>2. Fits(node, sp, pc) /\ PastFits(node, sp, pc, settings)
  BY DEF TreeInv, PastInv
<1>3. /\ IsNode(node[sp]) /\ node[sp].pos \in Position /\ DOMAIN node = 0..LastNode
      /\ sp \in 1..LastNode
  BY <1>2 DEF Fits, Stands
<1>4. /\ IsNode(n) /\ n.pos = node[sp].pos /\ n.at \in {"entering", "done"}
      /\ Remembers(node[sp], n, find_repetition(sp, node[sp]))
      /\ n.at = "entering" => sp < LastNode
  <2>1. root_distance(sp) = 0 \/ sp # LastNode => sp < LastNode
    BY <1>3, StackAssumption DEF root_distance
  <2> QED
    BY <1>1, <1>3, <2>1, EnteredNode
<1>5. SameAt(node[sp], n)
  BY <1>4 DEF SameAt, Remembers
<1>6. ASSUME NEW e, SameLine(node, e, sp), SamePast(n, e[sp])
      PROVE  /\ n.at # "done" => Own(e, sp, settings)
             /\ n.at = "done" /\ settings.strict => InReach(e, sp)
  BY <1>2, <1>4, <1>6, EnteredPast
<1>7. DOMAIN common' = CommonFields /\ settings' = settings
  BY SettingsKept DEF PastInv, Next
<1>8. CASE n.at # "done" /\ tries_null_move(sp, n)
  <2> DEFINE a == [n EXCEPT !.in_null = TRUE, !.at = "null"]
             b == Calling(null_child(n, node[sp + 1]))
             e == [node EXCEPT ![sp] = a, ![sp + 1] = b]
  <2>1. /\ node' = [node EXCEPT ![sp] = a, ![sp + 1] = Calling(null_child(n, @))]
        /\ sp' = sp + 1 /\ pc' = "enter"
    BY <1>1, <1>8 DEF TryNull
  <2>2. sp < LastNode
    BY <1>4, <1>8
  <2>3. sp + 1 \in 0..LastNode /\ sp + 1 # sp
    BY <1>3, <2>2, StackAssumption
  <2>4. node' = e
    BY <2>1, <2>3
  <2>5. IsNode(node[sp + 1])
    BY <1>2, <2>3 DEF Fits
  <2>6. SamePast(n, a)
    BY <1>4 DEF IsNode, NodeFields, SamePast
  <2> HIDE DEF a
  <2>7. n.pos \in DOMAIN Pass /\ ~n.repeated
    BY <1>8 DEF tries_null_move
  <2>8. b.pos = Pass[n.pos]
    <3> DEFINE c == null_child(n, node[sp + 1])
    <3>1. IsNode(c) /\ c.pos = Pass[n.pos]
      BY <2>5, NullChild
    <3> HIDE DEF c
    <3>2. Calling(c).pos = c.pos
      BY <3>1, CalledNode
    <3> QED
      BY <3>1, <3>2 DEF c
  <2> HIDE DEF b
  <2>9. Follows(a, b)
    <3>1. a.pos = n.pos /\ ~a.repeated
      BY <2>6, <2>7 DEF SamePast
    <3>2. n.pos \in Position \cap DOMAIN Pass
      BY <1>3, <1>4, <2>7
    <3> QED
      BY <2>8, <3>1, <3>2, NoWayBack DEF Follows
  <2>10. SameAt(node[sp], a)
    BY <1>5, <2>6 DEF SameAt, SamePast
  <2>12. e = [node EXCEPT ![sp] = a, ![sp + 1] = b]
    OBVIOUS
  <2> HIDE DEF e
  <2>11. SameLine(node, e, sp) /\ e[sp] = a
    <3>1. /\ sp \in Nat /\ sp \in 0..LastNode
          /\ \A j \in 0..sp - 1 : j \in 0..LastNode /\ j # sp /\ j # sp + 1
      BY <1>3, StackAssumption
    <3>2. e[sp] = a /\ \A j \in 0..sp - 1 : e[j] = node[j]
      BY <1>3, <2>3, <2>12, <3>1
    <3> QED
      BY <2>10, <3>1, <3>2, ReplacedLine
  <2>13. Own(e, sp, settings)
    BY <1>6, <1>8, <2>6, <2>11
  <2>14. PastFits(e, sp + 1, "enter", settings)
    BY <1>2, <2>2, <2>9, <2>10, <2>12, <2>13, PastCalling
  <2> QED
    BY <1>7, <2>1, <2>4, <2>14 DEF PastInv
<1>9. CASE ~(n.at # "done" /\ tries_null_move(sp, n))
  <2> DEFINE k == IF n.at = "done" THEN n ELSE recheck_bounds(n)
             e == [node EXCEPT ![sp] = k]
  <2>1. node' = e /\ pc' = Goes(k) /\ sp' = sp
    BY <1>1, <1>9 DEF Settle, Then
  <2>2. SamePast(n, k) /\ (n.at = "done" => k.at = "done") /\ (n.at # "done" => k.at \in {"loop", "done"})
    BY <1>4, RecheckedNode DEF SamePast
  <2> HIDE DEF k
  <2>3. SameAt(node[sp], k)
    BY <1>5, <2>2 DEF SameAt, SamePast
  <2>5. e = [node EXCEPT ![sp] = k]
    OBVIOUS
  <2> HIDE DEF e
  <2>4. SameLine(node, e, sp) /\ e[sp] = k
    <3>1. /\ sp \in Nat /\ sp \in 0..LastNode
          /\ \A j \in 0..sp - 1 : j \in 0..LastNode /\ j # sp
      BY <1>3, StackAssumption
    <3>2. e[sp] = k /\ \A j \in 0..sp - 1 : e[j] = node[j]
      BY <1>3, <2>5, <3>1
    <3> QED
      BY <2>3, <3>1, <3>2, ReplacedLine
  <2>6. Goes(k) \in Working => Own(e, sp, settings)
    BY <1>6, <2>2, <2>4 DEF Goes, Working
  <2>7. Goes(k) = "return" /\ settings.strict => InReach(e, sp)
    BY <1>6, <2>2, <2>4 DEF Own
  <2>8. PastFits(e, sp, Goes(k), settings)
    BY <1>2, <2>3, <2>5, <2>6, <2>7, PastStaying
  <2> QED
    BY <1>7, <2>1, <2>8 DEF PastInv
<1> QED
  BY <1>8, <1>9

(* The move a node picks can be played.                                    *)
LEMMA PickedMove ==
    ASSUME TreeInv, Pick
    PROVE  mo_current_move(move_order_pick_next(node[sp].mo, node[sp].pos)) \in Legal[node[sp].pos]
<1> DEFINE a == node[sp]
           o == move_order_pick_next(a.mo, a.pos)
           q == is_qsearch(a)
<1>1. Fits(node, sp, pc) /\ (pc = "pick" \/ (pc = "more" /\ search_more_moves(a)))
  BY DEF TreeInv, Pick
<1>2. a.pos \in Position /\ Ordered(a)
  BY <1>1 DEF Fits, Stands, Working
<1>3. Unpicked(a)
  BY <1>1 DEF Fits, Stands, Working, Unpicked, search_more_moves, move_order_done
<1>4. q \in BOOLEAN /\ MovesOf(a) = MovesOfKind(a.pos, q)
  BY KindOf
<1> HIDE DEF q, o
<1>5. GoodOrder(a.mo, MovesOfKind(a.pos, q)) /\ a.mo.picked # a.mo.count
  BY <1>2, <1>3, <1>4 DEF Ordered, Unpicked
<1> HIDE DEF a
<1>6. mo_current_move(o) \in MovesOfKind(a.pos, q)
  BY <1>2, <1>4, <1>5, PickGood DEF o
<1>7. mo_current_move(o) \in Legal[a.pos]
  BY <1>2, <1>6, GameAssumption DEF MovesOfKind
<1> QED
  BY <1>7 DEF o, a

(* A move has been made: nothing undoes it, if it is irreversible.         *)
LEMMA ChildFollows ==
    ASSUME NEW n, n.pos \in Position, NEW m \in Legal[n.pos], NEW old, NEW b,
           IsChild(n, old, m, b), settings.repetition
    PROVE  Follows(n, b)
<1> DEFINE p == n.pos
           q == Play[p][m]
<1>1. /\ b.pos = q /\ (b.barrier <=> <<p, m>> \in Irreversible)
      /\ (b.repeated <=> ~b.barrier /\ n.repeated)
  BY DEF IsChild
<1>2. /\ Progress[p] <= Progress[q]
      /\ <<p, m>> \in Irreversible => Progress[p] < Progress[q]
  BY NoWayBack
<1> QED
  BY <1>1, <1>2 DEF Follows

LEMMA PickPast ==
    ASSUME TreeInv, PastInv, Pick
    PROVE  PastInv'
<1> DEFINE a == node[sp]
           o == move_order_pick_next(a.mo, a.pos)
           n == [a EXCEPT !.mo = o]
           m == mo_current_move(n.mo)
<1>1. Fits(node, sp, pc) /\ PastFits(node, sp, pc, settings) /\ pc \in Working
  BY DEF TreeInv, PastInv, Pick, Working
<1>2. /\ IsNode(a) /\ a.pos \in Position /\ sp < LastNode /\ sp \in 1..LastNode
      /\ DOMAIN node = 0..LastNode /\ sp \in Nat /\ sp \in 0..LastNode
      /\ \A j \in 0..sp - 1 : j \in 0..LastNode /\ j # sp /\ j # sp + 1
  BY <1>1, StackAssumption DEF Fits, Stands
<1>3. Own(node, sp, settings)
  BY <1>1 DEF PastFits
<1>4. mo_current_move(o) \in Legal[a.pos]
  BY PickedMove
<1>5. Try(n) /\ common' = common
  BY DEF Pick
<1>6. DOMAIN common' = CommonFields /\ settings' = settings
  BY <1>5 DEF PastInv, settings
<1> HIDE DEF o
<1>7. IsNode(n) /\ SamePast(a, n) /\ n.mo = o
  BY <1>2 DEF IsNode, NodeFields, SamePast
<1> HIDE DEF n
<1>8. m \in Legal[n.pos] /\ n.pos \in Position
  BY <1>2, <1>4, <1>7 DEF SamePast
<1> HIDE DEF m
<1>9. CASE can_prune_moves(sp, n)
  <2> DEFINE e == [node EXCEPT ![sp] = n]
  <2>1. node' = e /\ pc' = "finish" /\ sp' = sp
    BY <1>5, <1>9 DEF Try
  <2>2. e = [node EXCEPT ![sp] = n] /\ SameAt(a, n)
    BY <1>7 DEF SameAt, SamePast
  <2>3. e[sp] = n /\ \A j \in 0..sp - 1 : e[j] = node[j]
    BY <1>2
  <2> HIDE DEF e
  <2>4. SameLine(node, e, sp)
    BY <1>2, <2>2, <2>3, ReplacedLine
  <2>5. Own(e, sp, settings)
    BY <1>2, <1>3, <1>7, <2>3, <2>4, OwnSame
  <2>6. PastFits(e, sp, "finish", settings)
    BY <1>1, <2>2, <2>5, PastStaying
  <2> QED
    BY <1>6, <2>1, <2>6 DEF PastInv
<1>10. CASE ~can_prune_moves(sp, n)
  <2> DEFINE t == NodeTypes(n)[1]
             at == IF get_LMR_factor(n, t) # 0 THEN "reduced" ELSE "full"
             k == [n EXCEPT !.type = t, !.at = at]
             c == setup_child_node(n, node[sp + 1], m)
             b == Calling(c)
             e == [node EXCEPT ![sp] = k, ![sp + 1] = b]
  <2>1. /\ node' = [node EXCEPT ![sp] = k, ![sp + 1] = Calling(setup_child_node(n, @, m))]
        /\ sp' = sp + 1 /\ pc' = "enter"
    BY <1>5, <1>10 DEF Try, m
  <2> HIDE DEF t, at
  <2>2. sp + 1 \in 0..LastNode /\ sp + 1 # sp
    BY <1>2, StackAssumption
  <2>3. node' = e /\ e = [node EXCEPT ![sp] = k, ![sp + 1] = b]
    BY <2>1, <2>2
  <2>4. IsNode(k) /\ SamePast(n, k)
    BY <1>7 DEF IsNode, NodeFields, SamePast
  <2> HIDE DEF k
  <2>5. IsNode(node[sp + 1])
    BY <1>1, <2>2 DEF Fits
  <2>6. IsChild(n, node[sp + 1], m, c)
    BY <2>5, ChildNode
  <2> HIDE DEF c
  <2>7. SameAt(c, b)
    BY <2>6, CalledNode DEF IsChild, SameAt
  <2>8. e[sp] = k /\ \A j \in 0..sp - 1 : e[j] = node[j]
    BY <1>2, <2>2
  <2> HIDE DEF e, b
  <2>9. Tracked(settings) => Follows(k, b)
    <3> SUFFICES ASSUME Tracked(settings) PROVE Follows(k, b)
      OBVIOUS
    <3>1. Follows(n, c)
      BY <1>8, <2>6, ChildFollows DEF Tracked
    <3> QED
      BY <3>1, <2>4, <2>7 DEF Follows, SameAt, SamePast
  <2>10. SamePast(a, k) /\ SameAt(a, k)
    BY <1>7, <2>4 DEF SamePast, SameAt
  <2>11. SameLine(node, e, sp)
    BY <1>2, <2>8, <2>10, ReplacedLine
  <2>12. Own(e, sp, settings)
    BY <1>2, <1>3, <2>8, <2>10, <2>11, OwnSame
  <2>13. PastFits(e, sp + 1, "enter", settings)
    BY <1>1, <1>2, <2>3, <2>9, <2>10, <2>12, PastCalling
  <2> QED
    BY <1>6, <2>1, <2>3, <2>13 DEF PastInv
<1> QED
  BY <1>9, <1>10

LEMMA FinishPast ==
    ASSUME TreeInv, PastInv, Finish
    PROVE  PastInv'
<1> DEFINE n == node[sp]
           k == Finished(n)
           e == [node EXCEPT ![sp] = k]
<1>1. /\ Fits(node, sp, pc) /\ PastFits(node, sp, pc, settings) /\ pc \in Working
      /\ node' = [node EXCEPT ![sp] = Finished(@)] /\ pc' = "return" /\ sp' = sp
      /\ common' = common
  BY DEF TreeInv, PastInv, Finish, Working
<1>2. /\ IsNode(n) /\ DOMAIN node = 0..LastNode /\ sp \in Nat /\ sp \in 0..LastNode
      /\ \A j \in 0..sp - 1 : j \in 0..LastNode /\ j # sp
  BY <1>1, StackAssumption DEF Fits
<1>3. Own(node, sp, settings)
  BY <1>1 DEF PastFits
<1>4. DOMAIN common' = CommonFields /\ settings' = settings
  BY <1>1 DEF PastInv, settings
<1>5. node' = e /\ e = [node EXCEPT ![sp] = k]
  BY <1>1, <1>2
<1>6. e[sp] = k /\ \A j \in 0..sp - 1 : e[j] = node[j]
  BY <1>2
<1> HIDE DEF e
<1>7. SamePast(n, k) /\ SameAt(n, k)
  BY <1>2 DEF Finished, IsNode, NodeFields, SamePast, SameAt
<1> HIDE DEF k
<1>8. SameLine(node, e, sp)
  BY <1>2, <1>6, <1>7, ReplacedLine
<1>9. Own(e, sp, settings)
  BY <1>2, <1>3, <1>6, <1>7, <1>8, OwnSame
<1>10. PastFits(e, sp, "return", settings)
  BY <1>1, <1>5, <1>7, <1>9, PastStaying DEF Own, Working
<1> QED
  BY <1>1, <1>4, <1>5, <1>10 DEF PastInv

LEMMA ReturnPast ==
    ASSUME TreeInv, PastInv, Return
    PROVE  PastInv'
<1> DEFINE p == node[sp - 1]
           d == node[sp]
           n == ParentOf(p, d)
           called == ChildOf(n, d)
           returned == [n EXCEPT !.at = "loop"]
           u == sp - 1
           FromParent(a) == /\ SameAt(p, a) /\ a.repeated = p.repeated
                            /\ Reaches(node, u, a.ra_any) /\ Reaches(node, u, a.ra_best)
<1>1. /\ Fits(node, sp, pc) /\ PastFits(node, sp, pc, settings) /\ pc = "return" /\ sp > 1
      /\ common' = common
  BY DEF TreeInv, PastInv, Return
<1>2. sp \in 1..LastNode /\ sp - 1 \in 1..sp - 1 /\ sp \in Nat
  BY <1>1, StackAssumption DEF Fits
<1>3. DOMAIN common' = CommonFields /\ settings' = settings
  BY <1>1 DEF PastInv, settings
<1>4. Waits(p) /\ IsNode(p) /\ IsNode(d)
  BY <1>1, <1>2 DEF Fits, Stands, Waits
<1>5. Reaches(node, u, p.ra_any) /\ Reaches(node, u, p.ra_best)
  BY <1>1, <1>2 DEF PastFits, Passed, Own, InReach
<1>6. settings.strict => Reaches(node, sp, d.ra_any) /\ Reaches(node, sp, d.ra_best)
  BY <1>1 DEF PastFits, InReach
<1> HIDE DEF p, d
<1>7. /\ IsNode(n) /\ n.pos = p.pos /\ n.barrier = p.barrier /\ n.repeated = p.repeated
      /\ n.ra_best = p.ra_best /\ n.depth = p.depth /\ n.mo = p.mo
      /\ \/ n.ra_any = p.ra_any
         \/ settings.strict /\ n.ra_any = MaxOf(p.ra_any, from_parent(d.ra_best))
  BY <1>4 DEF ParentOf, IsNode, NodeFields
<1>8. /\ IsNode(called) /\ SameAt(d, called) /\ called.ra_any = d.ra_any
  BY <1>4 DEF ChildOf, IsNode, NodeFields, SameAt
<1> HIDE DEF n, called
<1>9. \A q, r : Reaches(node, sp, r) /\ Reaches(node, u, q)
               => Reaches(node, u, MaxOf(q, from_parent(r)))
  BY <1>1, <1>2, ParentReaches
<1> HIDE DEF u
<1>10. FromParent(n)
  BY <1>5, <1>6, <1>7, <1>9 DEF SameAt
<1> HIDE DEF FromParent
<1>11. ASSUME NEW a, SamePast(n, a) PROVE FromParent(a)
  BY <1>10, <1>11 DEF FromParent, SamePast, SameAt
<1>12. IsNode(returned) /\ SamePast(n, returned) /\ returned.depth = n.depth /\ returned.mo = n.mo
  BY <1>7 DEF IsNode, NodeFields, SamePast
<1> HIDE DEF returned
<1>20. returned.pos \in Position /\ Ordered(returned)
  BY <1>4, <1>7, <1>12, SameMoves DEF SamePast, Waits, Ordered
<1>13. ASSUME NEW a, FromParent(a), NEW next, Back(a, called, next) PROVE PastInv'
  <2> DEFINE e == [node EXCEPT ![sp - 1] = a, ![sp] = called]
  <2>1. node' = e /\ pc' = next /\ sp' = sp - 1
    BY <1>13 DEF Back
  <2>2. e = [node EXCEPT ![sp - 1] = a, ![sp] = called]
    OBVIOUS
  <2> HIDE DEF e
  <2>3. /\ SameAt(node[sp - 1], a) /\ a.repeated = node[sp - 1].repeated
        /\ Reaches(node, sp - 1, a.ra_any) /\ Reaches(node, sp - 1, a.ra_best)
        /\ SameAt(node[sp], called)
    BY <1>8, <1>13 DEF FromParent, p, u, d
  <2>4. /\ \A i \in 1..sp - 1 : Passed(e, i, settings)
        /\ Own(e, sp - 1, settings) /\ InReach(e, sp - 1)
    BY <1>1, <2>2, <2>3, PastOfParent
  <2>5. \A i \in 1..(sp - 1) - 1 : i \in 1..sp - 1
    BY <1>2
  <2>6. PastFits(e, sp - 1, next, settings)
    BY <2>4, <2>5 DEF PastFits
  <2> QED
    BY <1>3, <2>1, <2>6 DEF PastInv
<1>14. ASSUME NEW a, FromParent(a), NEW depth, Again(a, full_window(n, called, depth)) PROVE PastInv'
  <2> DEFINE b == Calling(full_window(n, called, depth))
             e == [node EXCEPT ![sp - 1] = a, ![sp] = b]
  <2>1. node' = e /\ pc' = "enter" /\ sp' = sp
    BY <1>14 DEF Again
  <2>2. e = [node EXCEPT ![sp - 1] = a, ![sp] = b]
    OBVIOUS
  <2> HIDE DEF e
  <2>3. SameAt(called, b)
    <3>1. IsNode(full_window(n, called, depth)) /\ SameAt(called, full_window(n, called, depth))
      BY <1>8 DEF full_window, IsNode, NodeFields, SameAt
    <3> QED
      BY <3>1, CalledNode DEF SameAt
  <2> HIDE DEF b
  <2>4. /\ SameAt(node[sp - 1], a) /\ a.repeated = node[sp - 1].repeated
        /\ Reaches(node, sp - 1, a.ra_any) /\ Reaches(node, sp - 1, a.ra_best)
        /\ SameAt(node[sp], b)
    BY <1>8, <1>14, <2>3 DEF FromParent, p, u, d, SameAt
  <2>5. \A i \in 1..sp - 1 : Passed(e, i, settings)
    BY <1>1, <2>2, <2>4, PastOfParent
  <2>6. PastFits(e, sp, "enter", settings)
    BY <2>5 DEF PastFits, Working
  <2> QED
    BY <1>3, <2>1, <2>6 DEF PastInv
<1>15. ASSUME NEW v PROVE FromParent(Took(returned, called, v))
  <2> DEFINE a == Took(returned, called, v)
  <2>1. SameButRaised(returned, called, a)
    BY <1>12, <1>20, TookNode
  <2> HIDE DEF a
  <2>2. /\ SameAt(p, a) /\ a.repeated = p.repeated /\ a.ra_any = n.ra_any
        /\ \/ a.ra_best = n.ra_best
           \/ settings.strict /\ a.ra_best = MaxOf(n.ra_best, from_parent(d.ra_any))
    BY <1>7, <1>8, <1>12, <2>1 DEF SameButRaised, SamePast, SameAt
  <2>3. FromParent(a)
    BY <1>6, <1>9, <1>10, <2>2 DEF FromParent
  <2> QED
    BY <2>3 DEF a
<1>16. ASSUME n.at = "null",
              LET over == [n EXCEPT !.in_null = FALSE]
                  failed == recheck_bounds([over EXCEPT !.null_failed = TRUE])
              IN \/ Back(Returns(over, n.beta), called, "return")
                 \/ Back(failed, called, Goes(failed))
       PROVE  PastInv'
  <2> DEFINE over == [n EXCEPT !.in_null = FALSE]
             more == [over EXCEPT !.null_failed = TRUE]
             failed == recheck_bounds(more)
             over_beta == Returns(over, n.beta)
  <2>1. IsNode(over) /\ SamePast(n, over)
    BY <1>7 DEF SamePast, IsNode, NodeFields
  <2> HIDE DEF over
  <2>2. IsNode(more) /\ SamePast(over, more)
    BY <2>1 DEF SamePast, IsNode, NodeFields
  <2> HIDE DEF more
  <2>3. SamePast(more, failed)
    BY <2>2, RecheckedNode
  <2>4. Keeps(over, over_beta)
    BY <2>1, ReturnsKeeps
  <2>5. Back(over_beta, called, "return") \/ Back(failed, called, Goes(failed))
    BY <1>16 DEF over, more
  <2> HIDE DEF failed, over_beta
  <2>6. SamePast(n, failed) /\ SamePast(n, over_beta)
    BY <2>1, <2>2, <2>3, <2>4 DEF SamePast, Keeps
  <2>7. FromParent(failed) /\ FromParent(over_beta)
    BY <1>11, <2>6
  <2> QED
    BY <1>13, <2>5, <2>7
<1>17. ASSUME NEW at, NEW depth, Again([n EXCEPT !.at = at], full_window(n, called, depth))
       PROVE  PastInv'
  <2> DEFINE a == [n EXCEPT !.at = at]
  <2>1. SamePast(n, a)
    BY <1>7 DEF SamePast, IsNode, NodeFields
  <2>2. FromParent(a)
    BY <1>11, <2>1
  <2> QED
    BY <1>14, <1>17, <2>2
<1>18. \/ n.at = "null" /\ (LET over == [n EXCEPT !.in_null = FALSE]
                              failed == recheck_bounds([over EXCEPT !.null_failed = TRUE])
                          IN \/ Back(Returns(over, n.beta), called, "return")
                             \/ Back(failed, called, Goes(failed)))
       \/ Again([n EXCEPT !.at = "full"], full_window(n, called, n.depth - PLY))
       \/ Again([n EXCEPT !.at = "extended"], full_window(n, called, n.depth))
       \/ Back(returned, called, "more")
       \/ \E v : Back(Took(returned, called, v), called, "more")
  BY DEF Return, n, called, p, d, returned
<1>19. FromParent(returned)
  BY <1>11, <1>12
<1> QED
  BY <1>13, <1>15, <1>16, <1>17, <1>18, <1>19

LEMMA PastAtRoot ==
    ASSUME NEW nd, NEW st, NEW c, c \notin Working, c = "return" /\ st.strict => InReach(nd, 1)
    PROVE  PastFits(nd, 1, c, st)
<1>1. 1..1 - 1 = {}
  OBVIOUS
<1> QED
  BY <1>1 DEF PastFits

LEMMA ExtractPvPast ==
    ASSUME TreeInv, PastInv, ExtractPv
    PROVE  PastInv'
<1> DEFINE pv == node[1].pv
<1>1. Fits(node, 1, "return") /\ PastFits(node, 1, "return", settings) /\ sp = 1 /\ pc = "return"
  BY DEF TreeInv, PastInv, ExtractPv
<1>2. Deliver \/ Extend(pv) \/ Research(pv)
  BY DEF ExtractPv
<1>3. DOMAIN common' = CommonFields /\ settings' = settings
  BY SettingsKept DEF PastInv, Next
<1>4. ASSUME sp' = 1, pc' \in {"enter", "idle"} PROVE PastInv'
  <2>1. PastFits(node', 1, pc', settings)
    BY <1>4, PastAtRoot DEF Working
  <2> QED
    BY <1>3, <1>4, <2>1 DEF PastInv
<1>5. CASE Deliver \/ Research(pv)
  BY <1>1, <1>4, <1>5 DEF Deliver, StartSearch, Research
<1>6. CASE Extend(pv) /\ ~Deliver
  <2>1. sp' = 1 /\ pc' = "return"
    BY <1>1, <1>6 DEF Extend
  <2>2. \A i \in 0..LastNode : IsNode(node[i])
    BY <1>1 DEF Fits
  <2>3. \A i \in 0..LastNode : SamePast(node[i], node'[i])
    BY <2>2, <1>6, ExtendedNodes DEF SamePlace
  <2>4. 1 \in Nat /\ \A j \in 0..1 : j \in 0..LastNode
    BY StackAssumption
  <2>5. SameLine(node, node', 1)
    BY <2>3, <2>4 DEF SameLine, SamePast
  <2>6. node'[1].ra_any = node[1].ra_any /\ node'[1].ra_best = node[1].ra_best
    BY <2>3, <2>4 DEF SamePast
  <2>7. settings.strict => InReach(node', 1)
    BY <1>1, <2>4, <2>5, <2>6, InReachSame DEF PastFits
  <2>8. PastFits(node', 1, "return", settings)
    BY <2>7, PastAtRoot DEF Working
  <2> QED
    BY <1>3, <2>1, <2>8 DEF PastInv
<1> QED
  BY <1>2, <1>5, <1>6

LEMMA NextMovePast ==
    ASSUME PastInv, NextMove
    PROVE  PastInv'
<1>1. sp' = 1 /\ pc' \in {"enter", "idle"}
  BY DEF NextMove, StartSearch
<1>2. DOMAIN common' = CommonFields /\ settings' = settings
  BY SettingsKept DEF PastInv, Next
<1>3. PastFits(node', 1, pc', settings)
  BY <1>1, PastAtRoot DEF Working
<1> QED
  BY <1>1, <1>2, <1>3 DEF PastInv

LEMMA TerminatedPast ==
    ASSUME PastInv, Terminated
    PROVE  PastInv'
<1>1. PastFits(node, sp, "terminated", settings)
  BY DEF PastInv, PastFits, Working
<1>2. DOMAIN common' = CommonFields /\ settings' = settings
  BY DEF PastInv, Terminated, CommonFields, settings
<1> QED
  BY <1>1, <1>2 DEF PastInv, Terminated

(* Whatever a node knows of repetitions and depends on is within its reach *)
(* of the stack, and what follows a repetition knows of it until a move    *)
(* that cannot be undone.                                                  *)
THEOREM PastInvariant == Spec => []PastInv
<1>1. Init => PastInv
  <2> SUFFICES ASSUME Init PROVE PastInv
    OBVIOUS
  <2>1. sp = 1 /\ pc = "enter" /\ DOMAIN common = CommonFields
    BY DEF Init, CommonFields
  <2>2. PastFits(node, 1, "enter", settings)
    BY PastAtRoot DEF Working
  <2> QED
    BY <2>1, <2>2 DEF PastInv
<1>2. TreeInv /\ PastInv /\ [Next]_vars => PastInv'
  <2> SUFFICES ASSUME TreeInv, PastInv, [Next]_vars PROVE PastInv'
    OBVIOUS
  <2>1. CASE RunOut
    BY <2>1, TerminatedPast DEF RunOut
  <2>2. CASE Cancel
    BY <2>2, TerminatedPast DEF Cancel
  <2>3. CASE Enter
    BY <2>3, EnterPast
  <2>4. CASE Pick
    BY <2>4, PickPast
  <2>5. CASE Finish
    BY <2>5, FinishPast
  <2>6. CASE Return
    BY <2>6, ReturnPast
  <2>7. CASE ExtractPv
    BY <2>7, ExtractPvPast
  <2>8. CASE NextMove
    BY <2>8, NextMovePast
  <2>9. CASE UNCHANGED vars
    BY <2>9 DEF vars, PastInv, settings
  <2> QED
    BY <2>1, <2>2, <2>3, <2>4, <2>5, <2>6, <2>7, <2>8, <2>9 DEF Next
<1> QED
  BY <1>1, <1>2, TreeInvariant, PTL DEF Spec

(* A value that rests on a repetition never rests on one from before the   *)
(* move that led to a node, if that cannot be undone (search.c:1136), so   *)
(* entering such a value in the table does no harm: whatever null moves,   *)
(* cutoffs and second searches led there.                                  *)
THEOREM RepetitionsStayInReach == Spec => []BarrierHolds
<1>1. TreeInv /\ PastInv => BarrierHolds
  <2> SUFFICES ASSUME TreeInv, PastInv, pc \in {"more", "finish"}, node[sp].barrier
               PROVE  node[sp].ra_any = 0 /\ node[sp].ra_best = 0
    BY DEF BarrierHolds
  <2> DEFINE a == node[sp].ra_any
             b == node[sp].ra_best
  <2>1. Reaches(node, sp, a) /\ Reaches(node, sp, b)
    BY DEF PastInv, PastFits, Own, InReach, Working
  <2>2. 0 \in 0..sp - 1 /\ sp - 0 = sp
    BY StackAssumption DEF TreeInv, Fits
  <2> HIDE DEF a, b
  <2>3. a \in Nat /\ b \in Nat /\ ~(0 < a) /\ ~(0 < b)
    BY <2>1, <2>2 DEF Reaches
  <2>4. a = 0 /\ b = 0
    BY <2>3
  <2> QED
    BY <2>4 DEF a, b
<1> QED
  BY <1>1, TreeInvariant, PastInvariant, PTL

=============================================================================
