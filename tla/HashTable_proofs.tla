------------------------- MODULE HashTable_proofs -------------------------
(***************************************************************************)
(* Theorems of HashTable, for every set of positions, every hash function  *)
(* into the keys, every size and number of slots.                          *)
(***************************************************************************)
EXTENDS HashTable, NatFacts

-----------------------------------------------------------------------------
(* The inductive invariant: what a table is made of, and its use counter.  *)

(* What a slot may hold: an entry under the key it was inserted for.       *)
SlotValue == {EmptySlot} \cup
    UNION {{[key |-> HashKey[p], entry |-> e] : e \in Storable(p)} : p \in Position}

Buckets(s) == 0..(2^s - 1)

(* The number of buckets is that of a size, though after a failed resize   *)
(* not that of log2_size.                                                  *)
Table ==
    UNION {[slot : [Buckets(s) -> [Slot -> SlotValue]],
            usage : Nat, log2_size : Sizes] : s \in Sizes}

TypeOK == tt \in Table

Used(t) == {x \in (DOMAIN t.slot) \X YoungSlot : t.slot[x[1]][x[2]].key # 0}

Inv == TypeOK /\ UsageExact

-----------------------------------------------------------------------------
(* Lemmas about HashSlots.                                                 *)

(* A table has buckets, and a position's is one of them.                   *)
LEMMA TableShape ==
    ASSUME NEW t \in Table
    PROVE  /\ \E s \in Sizes :
                 t \in [slot : [Buckets(s) -> [Slot -> SlotValue]],
                       usage : Nat, log2_size : Sizes]
           /\ DOMAIN t.slot \in {Buckets(s) : s \in Sizes}
           /\ t.usage \in Nat /\ t.log2_size \in Sizes
           /\ \A b \in DOMAIN t.slot, i \in Slot :
                 /\ t.slot[b] \in [Slot -> SlotValue]
                 /\ t.slot[b][i] \in SlotValue
<1>1. PICK s \in Sizes :
         t \in [slot : [Buckets(s) -> [Slot -> SlotValue]], usage : Nat, log2_size : Sizes]
  BY DEF Table
<1> QED
  BY <1>1

(* How to show that a value is a table.                                    *)
LEMMA TableIntro ==
    ASSUME NEW s \in Sizes, NEW f \in [Buckets(s) -> [Slot -> SlotValue]],
           NEW u \in Nat, NEW l \in Sizes
    PROVE  [slot |-> f, usage |-> u, log2_size |-> l] \in Table
BY DEF Table

LEMMA BucketCountIs ==
    ASSUME NEW t, NEW s \in Sizes, DOMAIN t.slot = Buckets(s)
    PROVE  BucketCount(t) = 2^s
<1>1. 2^s \in Nat \ {0}
  BY PowerAssumption
<1>2. Cardinality(0..(2^s - 1)) = (2^s - 1) - 0 + 1
  BY <1>1, FS_Interval
<1> QED
  BY <1>1, <1>2 DEF BucketCount, Buckets

LEMMA SlotSets ==
    /\ YoungSlot \subseteq DeepSlot /\ DeepSlot \subseteq Slot
    /\ YoungSlot # {}
    /\ \A i \in DeepSlot \ YoungSlot : i - DeepHalf \in YoungSlot
    /\ YoungSlot \subseteq Nat /\ DeepSlot \subseteq 0..(2 * DeepHalf)
    /\ 2 * DeepHalf \in Nat
BY SlotAssumption DEF YoungSlot, DeepSlot, Slot

LEMMA BucketType ==
    ASSUME NEW t \in Table, NEW p \in Position
    PROVE  Bucket(t, p) \in DOMAIN t.slot
<1>1. PICK s \in Sizes : DOMAIN t.slot = Buckets(s)
  BY TableShape
<1>2. BucketCount(t) = 2^s
  BY <1>1, BucketCountIs
<1>3. 2^s \in Nat \ {0} /\ ZHash[p] \in Nat
  BY PowerAssumption, SlotAssumption
<1>4. ZHash[p] % 2^s \in 0..(2^s - 1)
  BY <1>3
<1> QED
  BY <1>1, <1>2, <1>4 DEF Bucket, Buckets

LEMMA FreshType ==
    ASSUME NEW t \in Table, NEW p \in Position
    PROVE  FreshIndex(t, p) \in Slot \ DeepSlot
<1> DEFINE z == ZHash[p] \div 2^(t.log2_size)
<1>1. 2^(t.log2_size) \in Nat \ {0} /\ ZHash[p] \in Nat
  BY PowerAssumption, SlotAssumption, TableShape
<1>2. z \in Nat
  BY <1>1
<1> HIDE DEF z
<1>3. z % FreshSlots \in 0..(FreshSlots - 1)
  BY <1>2, SlotAssumption
<1>4. FreshIndex(t, p) = 2 * DeepHalf + 1 + (z % FreshSlots)
  BY DEF FreshIndex, z
<1> QED
  BY <1>3, <1>4, SlotAssumption DEF Slot, DeepSlot

LEMMA Word16Is == \E n \in Nat : Word16 = 0..n
<1> DEFINE m == 65535
<1>1. m \in Nat
  OBVIOUS
<1>2. Word16 = 0..m
  BY SMT DEF Word16
<1> HIDE DEF m
<1> QED
  BY <1>1, <1>2

LEMMA SlotValueType ==
    ASSUME NEW s \in SlotValue
    PROVE  /\ s = [key |-> s.key, entry |-> s.entry]
           /\ s.key \in Nat
           /\ s.entry \in Inserted \cup {NullEntry}
           /\ s.entry.depth \in Nat /\ s.entry.depth \in Word16
           /\ s.key # 0 => s.entry \in Inserted
           /\ s.key = 0 <=> s = EmptySlot
<1>1. CASE s = EmptySlot
  <2>1. 0 \in Word16
    BY Word16Is
  <2>2. s.key = 0 /\ s.entry = NullEntry /\ s.entry.depth = 0
    BY <1>1 DEF EmptySlot, NullEntry
  <2> QED
    BY <1>1, <2>1, <2>2 DEF EmptySlot
<1>2. CASE s # EmptySlot
  <2>1. PICK p \in Position, e \in Inserted : s = [key |-> HashKey[p], entry |-> e]
    BY <1>2 DEF SlotValue, Storable
  <2>2. HashKey[p] \in Nat \ {0}
    BY KeyAssumption
  <2>3. e.depth \in Nat /\ e.depth \in Word16
    <3>1. e \in Entry
      BY TableAssumption
    <3>2. e.depth \in Word16
      BY <3>1 DEF Entry
    <3>3. Word16 \subseteq Nat
      BY DEF Word16
    <3> QED
      BY <3>2, <3>3
  <2> QED
    BY <1>2, <2>1, <2>2, <2>3 DEF EmptySlot
<1> QED
  BY <1>1, <1>2

(* The table o is t but for one slot, where e is kept for p.               *)
OneSlotChanged(t, o, p, i, e) ==
    /\ o \in Table
    /\ DOMAIN o.slot = DOMAIN t.slot
    /\ o.usage = t.usage /\ o.log2_size = t.log2_size
    /\ o.slot[Bucket(t, p)][i] = [key |-> HashKey[p], entry |-> e]
    /\ \A b \in DOMAIN t.slot, j \in Slot :
          b # Bucket(t, p) \/ j # i => o.slot[b][j] = t.slot[b][j]

(* overwrite_slot changes one slot of one bucket, and nothing else.        *)
LEMMA OverwrittenIs ==
    ASSUME NEW t \in Table, NEW p \in Position, NEW i \in Slot, NEW e \in Storable(p)
    PROVE  OneSlotChanged(t, Overwritten(t, p, i, e), p, i, e)
<1> DEFINE v == [key |-> HashKey[p], entry |-> e]
           f == [t.slot EXCEPT ![Bucket(t, p)][i] = v]
           o == Overwritten(t, p, i, e)
<1>1. PICK s \in Sizes :
         t \in [slot : [Buckets(s) -> [Slot -> SlotValue]], usage : Nat, log2_size : Sizes]
  BY TableShape
<1>2. v \in SlotValue
  BY DEF SlotValue
<1>3. Bucket(t, p) \in Buckets(s)
  BY <1>1, BucketType
<1>4. o = [slot |-> f, usage |-> t.usage, log2_size |-> t.log2_size]
  <2>1. o = [t EXCEPT !.slot = f]
    BY DEF Overwritten
  <2> HIDE DEF f, o
  <2> QED
    BY <1>1, <2>1
<1> HIDE DEF v
<1>5. /\ f \in [Buckets(s) -> [Slot -> SlotValue]]
      /\ f[Bucket(t, p)][i] = v
      /\ \A b \in DOMAIN t.slot, j \in Slot :
            b # Bucket(t, p) \/ j # i => f[b][j] = t.slot[b][j]
  BY <1>1, <1>2, <1>3
<1> HIDE DEF f
<1>6. o \in Table
  BY <1>4, <1>5, TableShape, TableIntro
<1>7. o.slot = f /\ o.usage = t.usage /\ o.log2_size = t.log2_size
  BY <1>4
<1> QED
  BY <1>1, <1>5, <1>6, <1>7 DEF v, OneSlotChanged

(* Of the slots in a set some are the shallowest.                          *)
LEMMA ShallowestExists ==
    ASSUME NEW f \in [Slot -> SlotValue], NEW I \in SUBSET Slot, I # {}
    PROVE  \E i \in I : \A j \in I : f[i].entry.depth <= f[j].entry.depth
<1> DEFINE D == {f[i].entry.depth : i \in I}
<1>1. D \in SUBSET Nat
  BY SlotValueType
<1>2. D # {}
  OBVIOUS
<1>3. PICK d \in D : \A x \in D : d <= x
  BY <1>1, <1>2, LeastNat
<1> QED
  BY <1>3

(* An entry for p takes slot i: its own of that kind, unless it is deeper,  *)
(* or else any that is shallower, when p has none of that kind.            *)
Mine(t, p, i, e) ==
    LET s == t.slot[Bucket(t, p)][i] IN Found(s, p) /\ s.entry.type = e.type

Takes(t, p, i, e) ==
    \/ Mine(t, p, i, e) /\ t.slot[Bucket(t, p)][i].entry.depth <= e.depth
    \/ /\ \A j \in YoungSlot : ~Mine(t, p, j, e)
       /\ t.slot[Bucket(t, p)][i].entry.depth < e.depth

(* What the deep half of ht_pos_insert may do: nothing, replace a slot in  *)
(* use, or take an empty one and count it.                                 *)
LEMMA DeepWriteIs ==
    ASSUME NEW t \in Table, NEW p \in Position, NEW e \in Storable(p)
    PROVE  \/ DeepWrite(t, p, e) = t
           \/ \E i \in YoungSlot :
                 /\ Takes(t, p, i, e)
                 /\ t.slot[Bucket(t, p)][i].key # 0
                 /\ DeepWrite(t, p, e) = Overwritten(t, p, i, e)
           \/ \E i \in YoungSlot :
                 /\ Takes(t, p, i, e)
                 /\ t.slot[Bucket(t, p)][i].key = 0
                 /\ DeepWrite(t, p, e) =
                       [Overwritten(t, p, i, e) EXCEPT !.usage = @ + 1]
<1> DEFINE slots == t.slot[Bucket(t, p)]
           mine == {i \in YoungSlot : Found(slots[i], p) /\ slots[i].entry.type = e.type}
           shallow == {i \in YoungSlot : \A j \in YoungSlot :
                          slots[i].entry.depth <= slots[j].entry.depth}
           new == IF slots[Min(shallow)].key = 0 THEN 1 ELSE 0
<1>1. DeepWrite(t, p, e) =
        IF mine # {}
        THEN IF slots[Min(mine)].entry.depth <= e.depth
             THEN Overwritten(t, p, Min(mine), e) ELSE t
        ELSE IF slots[Min(shallow)].entry.depth < e.depth
             THEN [Overwritten(t, p, Min(shallow), e) EXCEPT !.usage = @ + new]
             ELSE t
  BY DEF DeepWrite
<1>2. ASSUME mine # {}
      PROVE  /\ Min(mine) \in YoungSlot /\ slots[Min(mine)].key # 0
             /\ Mine(t, p, Min(mine), e)
  <2>1. mine \in SUBSET Nat
    BY SlotSets
  <2>2. Min(mine) \in mine
    BY <1>2, <2>1, MinIsLeast
  <2> QED
    BY <2>2, KeyAssumption DEF Found, Mine
<1>3. Min(shallow) \in YoungSlot
  <2>1. slots \in [Slot -> SlotValue]
    BY BucketType, TableShape
  <2>2. YoungSlot \in SUBSET Slot /\ YoungSlot # {}
    BY SlotSets
  <2>3. shallow # {}
    BY <2>1, <2>2, ShallowestExists
  <2>4. shallow \in SUBSET Nat
    BY SlotSets
  <2> QED
    BY <2>3, <2>4, MinIsLeast
<1>a. mine = {} => \A j \in YoungSlot : ~Mine(t, p, j, e)
  BY DEF Mine
<1> HIDE DEF mine, shallow
<1>b. /\ mine # {} /\ slots[Min(mine)].entry.depth <= e.depth => Takes(t, p, Min(mine), e)
      /\ mine = {} /\ slots[Min(shallow)].entry.depth < e.depth
            => Takes(t, p, Min(shallow), e)
  BY <1>2, <1>a DEF Takes
<1>4. CASE mine # {}
  BY <1>1, <1>2, <1>b, <1>4
<1>5. CASE mine = {} /\ new = 1
  BY <1>1, <1>3, <1>b, <1>5
<1>6. CASE mine = {} /\ new = 0
  <2> DEFINE o == Overwritten(t, p, Min(shallow), e)
  <2>1. o \in Table
    BY <1>3, SlotSets, OverwrittenIs DEF OneSlotChanged
  <2>2. o = [o EXCEPT !.usage = @ + 0]
    <3> HIDE DEF o
    <3> QED
      BY <2>1, TableShape
  <2> QED
    BY <1>1, <1>3, <1>b, <1>6, <2>2
<1> QED
  BY <1>4, <1>5, <1>6

-----------------------------------------------------------------------------
(* The count of used slots.                                                *)

LEMMA UsedFinite ==
    ASSUME NEW t \in Table
    PROVE  IsFiniteSet(Used(t)) /\ Cardinality(Used(t)) \in Nat
<1>1. PICK s \in Sizes : DOMAIN t.slot = Buckets(s)
  BY TableShape
<1>2. 2^s \in Nat \ {0}
  BY PowerAssumption
<1>3. IsFiniteSet(DOMAIN t.slot) /\ IsFiniteSet(YoungSlot)
  BY <1>1, <1>2, SlotAssumption, FS_Interval DEF Buckets, YoungSlot
<1>4. IsFiniteSet((DOMAIN t.slot) \X YoungSlot)
  BY <1>3, FS_Product
<1>5. Used(t) \subseteq (DOMAIN t.slot) \X YoungSlot
  BY DEF Used
<1> QED
  BY <1>4, <1>5, FS_Subset, FS_CardinalityType

(* A table whose counter is right.                                         *)
Counted(t) == t \in Table /\ t.usage = Cardinality(Used(t))

(* To overwrite a slot in use, or a fresh one, changes no count.           *)
LEMMA OverwrittenCounted ==
    ASSUME NEW t, Counted(t), NEW p \in Position, NEW i \in Slot,
           NEW e \in Storable(p),
           i \in YoungSlot => t.slot[Bucket(t, p)][i].key # 0
    PROVE  Counted(Overwritten(t, p, i, e))
<1> DEFINE o == Overwritten(t, p, i, e)
           b == Bucket(t, p)
<1>1. t \in Table /\ b \in DOMAIN t.slot /\ YoungSlot \subseteq Slot
  BY BucketType, SlotSets DEF Counted
<1>2. /\ o \in Table
      /\ DOMAIN o.slot = DOMAIN t.slot
      /\ o.usage = t.usage
      /\ o.slot[b][i].key = HashKey[p]
      /\ \A c \in DOMAIN t.slot, j \in Slot :
            c # b \/ j # i => o.slot[c][j] = t.slot[c][j]
  <2>1. OneSlotChanged(t, o, p, i, e)
    BY <1>1, OverwrittenIs
  <2> HIDE DEF o
  <2> QED
    BY <2>1 DEF OneSlotChanged
<1>3. HashKey[p] # 0
  BY KeyAssumption
<1> HIDE DEF o, b
<1>4. \A c \in DOMAIN t.slot, j \in YoungSlot :
         o.slot[c][j].key # 0 <=> t.slot[c][j].key # 0
  <2> TAKE c \in DOMAIN t.slot, j \in YoungSlot
  <2>1. CASE c = b /\ j = i
    BY <1>2, <1>3, <2>1 DEF b
  <2>2. CASE c # b \/ j # i
    BY <1>1, <1>2, <2>2
  <2> QED
    BY <2>1, <2>2
<1>5. Used(o) = Used(t)
  BY <1>2, <1>4 DEF Used
<1> QED
  BY <1>2, <1>5 DEF Counted, o

(* To take an empty young slot counts one more.                            *)
LEMMA TakenCounted ==
    ASSUME NEW t, Counted(t), NEW p \in Position, NEW i \in YoungSlot,
           NEW e \in Storable(p), t.slot[Bucket(t, p)][i].key = 0
    PROVE  Counted([Overwritten(t, p, i, e) EXCEPT !.usage = @ + 1])
<1> DEFINE o == Overwritten(t, p, i, e)
           u == [o EXCEPT !.usage = @ + 1]
           b == Bucket(t, p)
<1>1. t \in Table /\ b \in DOMAIN t.slot /\ YoungSlot \subseteq Slot
  BY BucketType, SlotSets DEF Counted
<1>2. /\ o \in Table
      /\ DOMAIN o.slot = DOMAIN t.slot
      /\ o.usage = t.usage
      /\ o.slot[b][i].key = HashKey[p]
      /\ \A c \in DOMAIN t.slot, j \in Slot :
            c # b \/ j # i => o.slot[c][j] = t.slot[c][j]
  <2>1. OneSlotChanged(t, o, p, i, e)
    BY <1>1, OverwrittenIs
  <2> HIDE DEF o
  <2> QED
    BY <2>1 DEF OneSlotChanged
<1>3. HashKey[p] # 0
  BY KeyAssumption
<1>4. t.slot[b][i].key = 0
  OBVIOUS
<1> HIDE DEF o, b
<1>5. /\ u \in Table
      /\ u.slot = o.slot
      /\ u.usage = t.usage + 1
  <2>1. PICK s \in Sizes :
           o \in [slot : [Buckets(s) -> [Slot -> SlotValue]], usage : Nat, log2_size : Sizes]
    BY <1>2, TableShape
  <2>2. u \in [slot : [Buckets(s) -> [Slot -> SlotValue]], usage : Nat, log2_size : Sizes]
    BY <2>1
  <2> QED
    BY <1>2, <2>1, <2>2 DEF Table
<1>6. \A c \in DOMAIN t.slot, j \in YoungSlot :
         o.slot[c][j].key # 0 <=> (t.slot[c][j].key # 0 \/ <<c, j>> = <<b, i>>)
  <2> TAKE c \in DOMAIN t.slot, j \in YoungSlot
  <2>1. CASE c = b /\ j = i
    BY <1>2, <1>3, <2>1
  <2>2. CASE c # b \/ j # i
    BY <1>1, <1>2, <2>2
  <2> QED
    BY <2>1, <2>2
<1>7. Used(u) = Used(t) \cup {<<b, i>>}
  <2>1. Used(u) = {x \in (DOMAIN t.slot) \X YoungSlot : o.slot[x[1]][x[2]].key # 0}
    BY <1>2, <1>5 DEF Used
  <2>2. <<b, i>> \in (DOMAIN t.slot) \X YoungSlot
    BY <1>1
  <2> QED
    BY <1>6, <2>1, <2>2 DEF Used
<1>8. <<b, i>> \notin Used(t)
  BY <1>4 DEF Used
<1>9. Cardinality(Used(u)) = Cardinality(Used(t)) + 1
  BY <1>1, <1>7, <1>8, UsedFinite, FS_AddElement
<1> QED
  BY <1>5, <1>9 DEF Counted, o

(* ht_pos_insert keeps the count.                                          *)
LEMMA InsertCounted ==
    ASSUME NEW t, Counted(t), NEW p \in Position, NEW e \in Storable(p)
    PROVE  Counted(ht_pos_insert(t, p, e))
<1> DEFINE o == Overwritten(t, p, FreshIndex(t, p), e)
<1>1. Counted(o)
  <2>1. FreshIndex(t, p) \in Slot /\ FreshIndex(t, p) \notin YoungSlot
    BY FreshType, SlotSets DEF Counted
  <2> QED
    BY <2>1, OverwrittenCounted
<1> HIDE DEF o
<1>2. Counted(DeepWrite(o, p, e))
  <2>1. o \in Table /\ YoungSlot \subseteq Slot
    BY <1>1, SlotSets DEF Counted
  <2> QED
    BY <1>1, <2>1, DeepWriteIs, OverwrittenCounted, TakenCounted
<1> QED
  BY <1>2 DEF ht_pos_insert, o

(* A table just made has nothing in use.                                   *)
LEMMA ClearedCounted ==
    ASSUME NEW s \in Sizes, NEW l \in Sizes
    PROVE  Counted(Cleared(2^s, l))
<1> DEFINE f == [b \in 0..(2^s - 1) |-> [i \in Slot |-> EmptySlot]]
           c == [slot |-> f, usage |-> 0, log2_size |-> l]
<1>1. f \in [Buckets(s) -> [Slot -> SlotValue]]
  BY DEF Buckets, SlotValue
<1>2. c \in Table
  BY <1>1, TableIntro
<1>3. Used(c) = {}
  BY SlotSets DEF Used, EmptySlot
<1>4. Cleared(2^s, l) = c
  BY DEF Cleared
<1>5. c.usage = Cardinality(Used(c))
  BY <1>3, FS_EmptySet
<1> HIDE DEF c
<1> QED
  BY <1>2, <1>4, <1>5 DEF Counted

(* The young slots ht_swap empties, and the slots it leaves.               *)
Leaving(t) ==
    {x \in (DOMAIN t.slot) \X YoungSlot :
        t.slot[x[1]][x[2]].key # 0 /\ t.slot[x[1]][x[2]].entry.depth < MarkDepth}

LEMMA SwapIs ==
    ASSUME NEW t \in Table
    PROVE  /\ ht_swap(t) = [slot |-> ht_swap(t).slot, usage |-> ht_swap(t).usage,
                             log2_size |-> ht_swap(t).log2_size]
           /\ DOMAIN ht_swap(t).slot = DOMAIN t.slot
           /\ ht_swap(t).usage = t.usage - Cardinality(Leaving(t))
           /\ ht_swap(t).log2_size = t.log2_size
           /\ \E s \in Sizes : ht_swap(t).slot \in [Buckets(s) -> [Slot -> SlotValue]]
           /\ \A b \in DOMAIN t.slot, i \in YoungSlot :
                 ht_swap(t).slot[b][i] =
                     IF <<b, i>> \in Leaving(t) THEN EmptySlot ELSE t.slot[b][i]
           /\ \A b \in DOMAIN t.slot, i \in Slot :
                 \/ ht_swap(t).slot[b][i] = EmptySlot
                 \/ \E j \in Slot : ht_swap(t).slot[b][i] = t.slot[b][j]
<1> DEFINE used(b, i) == i \in YoungSlot /\ t.slot[b][i].key # 0
           leaves(b, i) == used(b, i) /\ t.slot[b][i].entry.depth < MarkDepth
           swapped(b, i) ==
               IF leaves(b, i) THEN EmptySlot
               ELSE IF i \in DeepSlot \ YoungSlot /\ used(b, i - DeepHalf)
               THEN t.slot[b][i - DeepHalf] ELSE t.slot[b][i]
           f == [b \in DOMAIN t.slot |-> [i \in Slot |-> swapped(b, i)]]
           n == Cardinality({x \in (DOMAIN t.slot) \X YoungSlot : leaves(x[1], x[2])})
<1>1. PICK s \in Sizes :
         t \in [slot : [Buckets(s) -> [Slot -> SlotValue]], usage : Nat, log2_size : Sizes]
  BY TableShape
<1>2. ht_swap(t) = [t EXCEPT !.slot = f, !.usage = @ - n]
  BY DEF ht_swap
<1>3. {x \in (DOMAIN t.slot) \X YoungSlot : leaves(x[1], x[2])} = Leaving(t)
  BY DEF Leaving
<1>4. n = Cardinality(Leaving(t))
  BY <1>3
<1>5. \A b \in DOMAIN t.slot, i \in Slot :
         /\ f[b][i] = swapped(b, i)
         /\ \/ swapped(b, i) = EmptySlot
            \/ \E j \in Slot : swapped(b, i) = t.slot[b][j]
  <2> SUFFICES ASSUME NEW b \in DOMAIN t.slot, NEW i \in Slot
               PROVE  /\ f[b][i] = swapped(b, i)
                      /\ \/ swapped(b, i) = EmptySlot
                         \/ \E j \in Slot : swapped(b, i) = t.slot[b][j]
    OBVIOUS
  <2>1. f[b][i] = swapped(b, i)
    OBVIOUS
  <2>2. CASE leaves(b, i)
    BY <2>1, <2>2
  <2>3. CASE ~leaves(b, i) /\ i \in DeepSlot \ YoungSlot /\ used(b, i - DeepHalf)
    BY <2>1, <2>3, SlotSets
  <2>4. CASE ~leaves(b, i) /\ ~(i \in DeepSlot \ YoungSlot /\ used(b, i - DeepHalf))
    BY <2>1, <2>4
  <2> QED
    BY <2>2, <2>3, <2>4
<1>6. \A b \in DOMAIN t.slot, i \in YoungSlot :
         f[b][i] = IF <<b, i>> \in Leaving(t) THEN EmptySlot ELSE t.slot[b][i]
  BY <1>5, SlotSets DEF Leaving
<1>7. \A b \in DOMAIN t.slot, i \in Slot : swapped(b, i) \in SlotValue
  <2> HIDE DEF swapped
  <2> QED
    BY <1>1, <1>5 DEF SlotValue
<1>8. f \in [Buckets(s) -> [Slot -> SlotValue]]
  <2> HIDE DEF swapped
  <2> QED
    BY <1>1, <1>7
<1> HIDE DEF f, n, swapped
<1>9. ht_swap(t) = [slot |-> f, usage |-> t.usage - n, log2_size |-> t.log2_size]
  BY <1>1, <1>2
<1>10. DOMAIN f = DOMAIN t.slot
  BY DEF f
<1>11. /\ ht_swap(t).slot = f
       /\ ht_swap(t).usage = t.usage - n
       /\ ht_swap(t).log2_size = t.log2_size
  BY <1>9
<1>12. \A b \in DOMAIN t.slot, i \in Slot :
          f[b][i] = EmptySlot \/ \E j \in Slot : f[b][i] = t.slot[b][j]
  BY <1>5
<1> QED
  BY <1>4, <1>6, <1>8, <1>9, <1>10, <1>11, <1>12

(* ht_swap takes from the count what it empties.                           *)
LEMMA SwapCounted ==
    ASSUME NEW t, Counted(t)
    PROVE  Counted(ht_swap(t))
<1> DEFINE u == ht_swap(t)
<1>1. /\ t \in Table
      /\ t.usage = Cardinality(Used(t))
  BY DEF Counted
<1>2. PICK s \in Sizes :
         /\ u.slot \in [Buckets(s) -> [Slot -> SlotValue]]
         /\ DOMAIN u.slot = DOMAIN t.slot
         /\ u.usage = t.usage - Cardinality(Leaving(t))
         /\ u.log2_size = t.log2_size
         /\ \A b \in DOMAIN t.slot, i \in YoungSlot :
                 u.slot[b][i] =
                     IF <<b, i>> \in Leaving(t) THEN EmptySlot ELSE t.slot[b][i]
  BY <1>1, SwapIs
<1>3. u = [slot |-> u.slot, usage |-> u.usage, log2_size |-> u.log2_size]
  BY <1>1, SwapIs
<1> HIDE DEF u
<1>4. Used(u) = Used(t) \ Leaving(t)
  <2>1. \A b \in DOMAIN t.slot, i \in YoungSlot :
           u.slot[b][i].key # 0 <=> t.slot[b][i].key # 0 /\ <<b, i>> \notin Leaving(t)
    <3> TAKE b \in DOMAIN t.slot, i \in YoungSlot
    <3>1. CASE <<b, i>> \in Leaving(t)
      <4>1. u.slot[b][i] = EmptySlot
        BY <1>2, <3>1
      <4> QED
        BY <3>1, <4>1 DEF EmptySlot
    <3>2. CASE <<b, i>> \notin Leaving(t)
      BY <1>2, <3>2
    <3> QED
      BY <3>1, <3>2
  <2> QED
    BY <1>2, <2>1 DEF Used
<1>5. Leaving(t) \subseteq Used(t)
  BY DEF Leaving, Used
<1>6. /\ Cardinality(Used(u)) = Cardinality(Used(t)) - Cardinality(Leaving(t))
      /\ Cardinality(Used(u)) \in Nat
  <2>1. /\ IsFiniteSet(Used(t)) /\ IsFiniteSet(Used(u))
        /\ Used(t) \cap Leaving(t) = Leaving(t)
    BY <1>1, <1>4, <1>5, UsedFinite, FS_Subset
  <2>2. Cardinality(Used(t) \ Leaving(t))
          = Cardinality(Used(t)) - Cardinality(Used(t) \cap Leaving(t))
    BY <1>1, UsedFinite, FS_Difference
  <2> QED
    BY <1>4, <2>1, <2>2, FS_CardinalityType
<1>7. u.usage = Cardinality(Used(u))
  BY <1>1, <1>2, <1>6
<1>8. t.log2_size \in Sizes
  BY <1>1, TableShape
<1>9. u \in Table
  BY <1>2, <1>3, <1>6, <1>7, <1>8, TableIntro
<1> QED
  BY <1>7, <1>9 DEF Counted, u

LEMMA ResizeCounted ==
    ASSUME NEW t, Counted(t), NEW s \in Sizes
    PROVE  Counted(Resized(t, s)) /\ Counted(ResizeFailed(t, s))
<1>1. Counted(Resized(t, s))
  BY ClearedCounted DEF Resized
<1>2. Counted(ResizeFailed(t, s))
  <2> DEFINE u == ResizeFailed(t, s)
  <2>1. PICK n \in Sizes :
           t \in [slot : [Buckets(n) -> [Slot -> SlotValue]], usage : Nat, log2_size : Sizes]
    BY TableShape DEF Counted
  <2>2. /\ u \in [slot : [Buckets(n) -> [Slot -> SlotValue]], usage : Nat, log2_size : Sizes]
        /\ u.slot = t.slot /\ u.usage = t.usage
    BY <2>1 DEF ResizeFailed
  <2>3. u \in Table
    BY <2>2 DEF Table
  <2>4. Used(u) = Used(t)
    BY <2>2 DEF Used
  <2> QED
    BY <2>2, <2>3, <2>4 DEF Counted
<1> QED
  BY <1>1, <1>2

LEMMA ClearCounted ==
    ASSUME NEW t, Counted(t)
    PROVE  Counted(Cleared(BucketCount(t), t.log2_size))
<1>1. PICK s \in Sizes : DOMAIN t.slot = Buckets(s)
  BY TableShape DEF Counted
<1>2. t.log2_size \in Sizes
  BY TableShape DEF Counted
<1> QED
  BY <1>1, <1>2, BucketCountIs, ClearedCounted

-----------------------------------------------------------------------------
(* The inductive invariant.                                                *)

LEMMA InvIsCounted == Inv <=> Counted(tt)
BY DEF Inv, TypeOK, UsageExact, Counted, Used

LEMMA InitInv == Init => Inv
BY ClearedCounted, InvIsCounted DEF Init

LEMMA NextInv == Inv /\ [Next]_tt => Inv'
<1> SUFFICES ASSUME Counted(tt), [Next]_tt PROVE Counted(tt')
  <2>1. Inv' <=> Counted(tt')
    BY DEF Inv, TypeOK, UsageExact, Counted, Used
  <2> QED
    BY <2>1, InvIsCounted
<1>1. ASSUME NEW p \in Position, NEW e \in Inserted, Insert(p, e)
      PROVE  Counted(tt')
  BY <1>1, InsertCounted DEF Insert
<1>2. ASSUME Swap
      PROVE  Counted(tt')
  BY <1>2, SwapCounted DEF Swap
<1>3. ASSUME Clear
      PROVE  Counted(tt')
  BY <1>3, ClearCounted DEF Clear
<1>4. ASSUME NEW s \in Sizes, Resize(s)
      PROVE  Counted(tt')
  BY <1>4, ResizeCounted DEF Resize
<1>5. CASE UNCHANGED tt
  BY <1>5
<1> QED
  BY <1>1, <1>2, <1>3, <1>4, <1>5 DEF Next

(* Every slot is empty or holds an entry under the key of a position, of   *)
(* ht_create, ht_pos_insert, ht_swap, ht_clear and ht_resize alike; and    *)
(* usage counts the young slots in use.                                    *)
THEOREM TableInvariant == Spec => []Inv
<1> QED
  BY InitInv, NextInv, PTL DEF Spec

(* Whatever is inserted, swapped, cleared or resized, and if a resize      *)
(* fails, every slot is empty or holds an entry of a position's key, and   *)
(* the count of used slots is a number.                                    *)
THEOREM TypeCorrect == Spec => []TypeOK
<1>1. Inv => TypeOK
  BY DEF Inv
<1> QED
  BY <1>1, TableInvariant, PTL

(* The use ht_usage reports is exact: no write, swap, clear or resize lets *)
(* the counter drift from the young slots in use.                          *)
THEOREM UsageIsExact == Spec => []UsageExact
<1>1. Inv => UsageExact
  BY DEF Inv
<1> QED
  BY <1>1, TableInvariant, PTL

-----------------------------------------------------------------------------
(* What the other properties need.                                         *)

(* Marks.                                                                  *)

LEMMA MarkIs ==
    /\ Mark.depth = MarkDepth /\ Mark.type = Exact /\ ~ht_has_move(Mark)
    /\ Mark.depth \in Nat
BY SlotAssumption DEF Mark, ht_set_value, ht_set_depth, ht_has_move, NullEntry

(* What an insert does to the young slots.                                 *)
LEMMA InsertSlots ==
    ASSUME NEW t \in Table, NEW p \in Position, NEW e \in Storable(p)
    PROVE  LET u == ht_pos_insert(t, p, e) IN
           /\ DOMAIN u.slot = DOMAIN t.slot
           /\ \/ \A c \in DOMAIN t.slot, j \in YoungSlot : u.slot[c][j] = t.slot[c][j]
              \/ \E i \in YoungSlot :
                    /\ Takes(t, p, i, e)
                    /\ u.slot[Bucket(t, p)][i] = [key |-> HashKey[p], entry |-> e]
                    /\ \A c \in DOMAIN t.slot, j \in YoungSlot :
                          c # Bucket(t, p) \/ j # i => u.slot[c][j] = t.slot[c][j]
<1> DEFINE x == FreshIndex(t, p)
           o == Overwritten(t, p, x, e)
           w == DeepWrite(o, p, e)
           b == Bucket(t, p)
           v == [key |-> HashKey[p], entry |-> e]
<1>1. x \in Slot /\ x \notin YoungSlot /\ b \in DOMAIN t.slot /\ YoungSlot \subseteq Slot
  BY FreshType, SlotSets, BucketType
<1> HIDE DEF x
<1>2. OneSlotChanged(t, o, p, x, e)
  BY <1>1, OverwrittenIs
<1> HIDE DEF o
<1>3. /\ o \in Table /\ DOMAIN o.slot = DOMAIN t.slot
      /\ \A c \in DOMAIN t.slot, j \in YoungSlot : o.slot[c][j] = t.slot[c][j]
  BY <1>1, <1>2 DEF OneSlotChanged
<1>4. Bucket(o, p) = b
  BY <1>3 DEF Bucket, BucketCount
<1> HIDE DEF b, v
<1>5. \A i \in YoungSlot : Takes(o, p, i, e) => Takes(t, p, i, e)
  <2>1. \A i \in YoungSlot : o.slot[Bucket(o, p)][i] = t.slot[Bucket(t, p)][i]
    BY <1>1, <1>3, <1>4 DEF b
  <2> QED
    BY <2>1 DEF Takes, Mine
<1>6. ASSUME NEW i \in YoungSlot, Takes(o, p, i, e), w.slot = Overwritten(o, p, i, e).slot
      PROVE  /\ DOMAIN w.slot = DOMAIN t.slot
             /\ Takes(t, p, i, e)
             /\ w.slot[b][i] = v
             /\ \A c \in DOMAIN t.slot, j \in YoungSlot :
                   c # b \/ j # i => w.slot[c][j] = t.slot[c][j]
  <2>1. i \in Slot
    BY <1>1
  <2>2. OneSlotChanged(o, Overwritten(o, p, i, e), p, i, e)
    BY <1>3, <2>1, OverwrittenIs
  <2> HIDE DEF w
  <2>3. /\ DOMAIN w.slot = DOMAIN o.slot
        /\ w.slot[b][i] = v
        /\ \A c \in DOMAIN o.slot, j \in Slot : c # b \/ j # i => w.slot[c][j] = o.slot[c][j]
    BY <1>4, <1>6, <2>2 DEF OneSlotChanged, v
  <2> QED
    BY <1>1, <1>3, <1>5, <1>6, <2>3
<1>7. \/ w = o
      \/ \E i \in YoungSlot : Takes(o, p, i, e) /\ w.slot = Overwritten(o, p, i, e).slot
  <2>1. \A i \in YoungSlot :
           [Overwritten(o, p, i, e) EXCEPT !.usage = @ + 1].slot = Overwritten(o, p, i, e).slot
    <3> TAKE i \in YoungSlot
    <3>1. Overwritten(o, p, i, e) \in Table
      BY <1>1, <1>3, OverwrittenIs DEF OneSlotChanged
    <3> QED
      BY <3>1, TableShape
  <2> HIDE DEF w
  <2>2. \/ w = o
        \/ \E i \in YoungSlot : Takes(o, p, i, e) /\ w = Overwritten(o, p, i, e)
        \/ \E i \in YoungSlot :
              Takes(o, p, i, e) /\ w = [Overwritten(o, p, i, e) EXCEPT !.usage = @ + 1]
    BY <1>3, DeepWriteIs DEF w
  <2> QED
    BY <2>1, <2>2
<1>8. ht_pos_insert(t, p, e) = IF ~ht_is_set(e) THEN t ELSE w
  BY DEF ht_pos_insert, o, x
<1> HIDE DEF w
<1> DEFINE u == ht_pos_insert(t, p, e)
           Same == DOMAIN u.slot = DOMAIN t.slot
                     /\ \A c \in DOMAIN t.slot, j \in YoungSlot : u.slot[c][j] = t.slot[c][j]
           One == /\ DOMAIN u.slot = DOMAIN t.slot
                  /\ \E i \in YoungSlot :
                    /\ Takes(t, p, i, e)
                    /\ u.slot[b][i] = v
                    /\ \A c \in DOMAIN t.slot, j \in YoungSlot :
                          c # b \/ j # i => u.slot[c][j] = t.slot[c][j]
<1>9. CASE u = t
  BY <1>9
<1>10. CASE u = w /\ w = o
  <2>1. Same
    BY <1>3, <1>10
  <2> QED
    BY <2>1
<1>11. CASE u = w /\ w # o
  <2>1. One
    BY <1>6, <1>7, <1>11
  <2> QED
    BY <2>1 DEF b, v
<1> QED
  BY <1>8, <1>9, <1>10, <1>11

OwnKey(p) == \A q \in Position : HashKey[q] = HashKey[p] => q = p

(* In every bucket a position that shares its key with no other has one    *)
(* young slot of each type at most.                                        *)
OneOfAKind(t) ==
    \A p \in Position, b \in DOMAIN t.slot, i, j \in YoungSlot :
        /\ OwnKey(p)
        /\ t.slot[b][i].key = HashKey[p] /\ t.slot[b][j].key = HashKey[p]
        /\ t.slot[b][i].entry.type = t.slot[b][j].entry.type
        => i = j

(* Whatever is kept under such a key is found for its position.            *)
LEMMA OwnIsFound ==
    ASSUME NEW p \in Position, OwnKey(p), NEW s \in SlotValue, s.key = HashKey[p]
    PROVE  Found(s, p)
<1>1. s # EmptySlot
  BY KeyAssumption DEF EmptySlot
<1>2. PICK q \in Position : \E e \in Storable(q) : s = [key |-> HashKey[q], entry |-> e]
  BY <1>1 DEF SlotValue
<1>3. PICK e \in Storable(q) : s = [key |-> HashKey[q], entry |-> e]
  BY <1>2
<1>4. q = p
  BY <1>3 DEF OwnKey
<1> QED
  BY <1>3, <1>4 DEF Found, Storable

LEMMA InsertOneOfAKind ==
    ASSUME NEW t \in Table, OneOfAKind(t), NEW p \in Position, NEW e \in Storable(p)
    PROVE  OneOfAKind(ht_pos_insert(t, p, e))
<1> DEFINE u == ht_pos_insert(t, p, e)
           b == Bucket(t, p)
<1>1. /\ DOMAIN u.slot = DOMAIN t.slot
      /\ \/ \A c \in DOMAIN t.slot, j \in YoungSlot : u.slot[c][j] = t.slot[c][j]
         \/ \E i \in YoungSlot :
               /\ Takes(t, p, i, e)
               /\ u.slot[b][i] = [key |-> HashKey[p], entry |-> e]
               /\ \A c \in DOMAIN t.slot, j \in YoungSlot :
                     c # b \/ j # i => u.slot[c][j] = t.slot[c][j]
  BY InsertSlots
<1>2. b \in DOMAIN t.slot /\ YoungSlot \subseteq Slot
  BY BucketType, SlotSets
<1> HIDE DEF u
<1>3. CASE \A c \in DOMAIN t.slot, j \in YoungSlot : u.slot[c][j] = t.slot[c][j]
  BY <1>1, <1>3 DEF OneOfAKind, u
<1>4. ASSUME NEW n \in YoungSlot, Takes(t, p, n, e),
             u.slot[b][n] = [key |-> HashKey[p], entry |-> e],
             \A c \in DOMAIN t.slot, j \in YoungSlot :
                 c # b \/ j # n => u.slot[c][j] = t.slot[c][j]
      PROVE  OneOfAKind(u)
  <2>1. ASSUME OwnKey(p), NEW j \in YoungSlot, t.slot[b][j].key = HashKey[p],
               t.slot[b][j].entry.type = e.type
        PROVE  j = n
    <3>1. t.slot[b][j] \in SlotValue
      BY <1>2, TableShape
    <3>2. Mine(t, p, j, e)
      BY <2>1, <3>1, OwnIsFound DEF Mine
    <3>3. Mine(t, p, n, e)
      BY <1>4, <3>2 DEF Takes
    <3>4. t.slot[b][n].key = HashKey[p] /\ t.slot[b][n].entry.type = e.type
      BY <3>3 DEF Mine, Found
    <3> QED
      BY <1>2, <2>1, <3>4 DEF OneOfAKind
  <2> SUFFICES ASSUME NEW q \in Position, NEW c \in DOMAIN u.slot,
                      NEW i \in YoungSlot, NEW j \in YoungSlot,
                      OwnKey(q),
                      u.slot[c][i].key = HashKey[q], u.slot[c][j].key = HashKey[q],
                      u.slot[c][i].entry.type = u.slot[c][j].entry.type
               PROVE  i = j
    BY DEF OneOfAKind
  <2> HIDE DEF b
  <2>2. CASE c = b /\ (i = n \/ j = n)
    <3>1. q = p
      BY <1>4, <2>2 DEF OwnKey
    <3>2. CASE i # n
      BY <1>1, <1>4, <2>1, <2>2, <3>1, <3>2
    <3>3. CASE j # n
      BY <1>1, <1>4, <2>1, <2>2, <3>1, <3>3
    <3> QED
      BY <2>2, <3>2, <3>3
  <2>3. CASE ~(c = b /\ (i = n \/ j = n))
    <3>1. u.slot[c][i] = t.slot[c][i] /\ u.slot[c][j] = t.slot[c][j]
      BY <1>1, <1>4, <2>3
    <3> QED
      BY <1>1, <3>1 DEF OneOfAKind
  <2> QED
    BY <2>2, <2>3
<1> QED
  BY <1>1, <1>3, <1>4 DEF u

LEMMA SwapOneOfAKind ==
    ASSUME NEW t \in Table, OneOfAKind(t)
    PROVE  OneOfAKind(ht_swap(t))
<1> DEFINE u == ht_swap(t)
<1>1. /\ DOMAIN u.slot = DOMAIN t.slot
      /\ \A b \in DOMAIN t.slot, i \in YoungSlot :
            u.slot[b][i] = EmptySlot \/ u.slot[b][i] = t.slot[b][i]
  BY SwapIs
<1> HIDE DEF u
<1>2. \A b \in DOMAIN t.slot, i \in YoungSlot, p \in Position :
         u.slot[b][i].key = HashKey[p] => u.slot[b][i] = t.slot[b][i]
  BY <1>1, KeyAssumption DEF EmptySlot
<1> QED
  BY <1>1, <1>2 DEF OneOfAKind, u

LEMMA ClearedOneOfAKind ==
    ASSUME NEW n, NEW l
    PROVE  OneOfAKind(Cleared(n, l))
<1>1. \A b \in DOMAIN Cleared(n, l).slot, i \in YoungSlot :
         Cleared(n, l).slot[b][i] = EmptySlot
  BY SlotSets DEF Cleared
<1> QED
  BY <1>1, KeyAssumption DEF OneOfAKind, EmptySlot

LEMMA ResizeFailedSlots ==
    ASSUME NEW t \in Table, NEW s
    PROVE  ResizeFailed(t, s).slot = t.slot
BY TableShape DEF ResizeFailed

LEMMA OneOfAKindAlways == Spec => []OneOfAKind(tt)
<1>1. Init => OneOfAKind(tt)
  BY ClearedOneOfAKind DEF Init
<1>2. TypeOK /\ OneOfAKind(tt) /\ [Next]_tt => OneOfAKind(tt)'
  <2> SUFFICES ASSUME TypeOK, OneOfAKind(tt), [Next]_tt
               PROVE  OneOfAKind(tt')
    BY DEF OneOfAKind
  <2>1. tt \in Table
    BY DEF TypeOK
  <2>2. ASSUME NEW p \in Position, NEW e \in Inserted, Insert(p, e)
        PROVE  OneOfAKind(tt')
    BY <2>1, <2>2, InsertOneOfAKind DEF Insert
  <2>3. ASSUME Swap
        PROVE  OneOfAKind(tt')
    BY <2>1, <2>3, SwapOneOfAKind DEF Swap
  <2>4. ASSUME Clear
        PROVE  OneOfAKind(tt')
    BY <2>4, ClearedOneOfAKind DEF Clear
  <2>5. ASSUME NEW s \in Sizes, Resize(s)
        PROVE  OneOfAKind(tt')
    <3>1. CASE tt' = Resized(tt, s)
      BY <3>1, ClearedOneOfAKind DEF Resized
    <3>2. CASE tt' = ResizeFailed(tt, s)
      <4>1. tt'.slot = tt.slot
        BY <2>1, <3>2, ResizeFailedSlots
      <4> QED
        BY <4>1 DEF OneOfAKind
    <3> QED
      BY <2>5, <3>1, <3>2 DEF Resize
  <2>6. CASE UNCHANGED tt
    BY <2>6
  <2> QED
    BY <2>2, <2>3, <2>4, <2>5, <2>6 DEF Next
<1> QED
  BY <1>1, <1>2, TypeCorrect, PTL DEF Spec

(* The first answer of ht_lookup_deep at or before a marked slot.          *)
LEMMA MarkedAnswer ==
    ASSUME NEW t \in Table, OneOfAKind(t), NEW p \in Position, OwnKey(p),
           NEW i \in YoungSlot, NEW depth \in 0..MarkDepth, NEW beta,
           t.slot[Bucket(t, p)][i].key = HashKey[p],
           t.slot[Bucket(t, p)][i].entry = Mark
    PROVE  LET answer == ht_lookup_deep(t, p, depth, beta) IN
           \/ answer = Mark
           \/ /\ answer.type = LowerBound
              /\ answer.depth >= depth /\ ht_value(answer) >= beta
<1> DEFINE slots == t.slot[Bucket(t, p)]
           found == {n \in DeepSlot : Found(slots[n], p)}
           entry(n) == slots[n].entry
           answers == {n \in found :
                          /\ entry(n).depth >= depth
                          /\ \/ entry(n).type = Exact
                             \/ entry(n).type = LowerBound /\ ht_value(entry(n)) >= beta}
           deepest == {n \in found : \A m \in found : entry(m).depth <= entry(n).depth}
           first == Min(answers)
<1>1. ht_lookup_deep(t, p, depth, beta) =
        IF answers # {} THEN entry(Min(answers))
        ELSE IF found # {} THEN entry(Max(deepest))
        ELSE NullEntry
  BY DEF ht_lookup_deep
<1>2. /\ slots[i].key = HashKey[p] /\ entry(i) = Mark
      /\ i \in DeepSlot /\ Bucket(t, p) \in DOMAIN t.slot
      /\ i \in Nat /\ DeepSlot \subseteq Nat
  BY SlotSets, BucketType
<1>3. Found(slots[i], p)
  BY <1>2, MarkIs DEF Found
<1>4. entry(i).depth >= depth /\ entry(i).type = Exact
  BY <1>2, MarkIs
<1>5. i \in answers
  BY <1>2, <1>3, <1>4
<1>6. first \in answers /\ first <= i /\ first \in Nat
  <2>1. answers \in SUBSET Nat
    BY <1>2
  <2> HIDE DEF answers
  <2> QED
    BY <1>5, <2>1, MinIsLeast
<1>7. ht_lookup_deep(t, p, depth, beta) = entry(first)
  BY <1>1, <1>5
<1>8. first \in DeepSlot /\ Found(slots[first], p)
      /\ entry(first).depth >= depth
      /\ \/ entry(first).type = Exact
         \/ entry(first).type = LowerBound /\ ht_value(entry(first)) >= beta
  BY <1>6
<1> HIDE DEF first, answers
<1>9. first \in YoungSlot
  BY <1>6, <1>8, SlotAssumption DEF DeepSlot, YoungSlot
<1>10. entry(first).type = Exact => first = i
  BY <1>2, <1>4, <1>8, <1>9 DEF OneOfAKind, Found
<1> HIDE DEF found, deepest
<1> QED
  BY <1>2, <1>7, <1>8, <1>10

(* A position marked as drawn is answered as drawn, or with a lower bound  *)
(* that cuts off, whatever shares its bucket: an insert replaces the exact *)
(* value of its own position, so nothing exact stands before the mark, and *)
(* what ht_swap copied stands behind it.                                   *)
THEOREM MarksAnswer == Spec => []MarkAnswers
<1>1. ASSUME TypeOK, OneOfAKind(tt) PROVE MarkAnswers
  <2> SUFFICES ASSUME NEW p \in Position, NEW i \in YoungSlot,
                      NEW depth \in 0..MarkDepth, NEW beta \in Score,
                      Marked(p, i), OwnKey(p)
               PROVE  LET answer == ht_lookup_deep(tt, p, depth, beta) IN
                      \/ answer = Mark
                      \/ /\ answer.type = LowerBound
                         /\ answer.depth >= depth /\ ht_value(answer) >= beta
    BY DEF MarkAnswers, OwnKey
  <2>1. tt \in Table
    BY <1>1 DEF TypeOK
  <2>2. tt.slot[Bucket(tt, p)][i].key = HashKey[p] /\ tt.slot[Bucket(tt, p)][i].entry = Mark
    BY DEF Marked
  <2> QED
    BY <1>1, <2>1, <2>2, MarkedAnswer
<1> QED
  BY <1>1, TypeCorrect, OneOfAKindAlways, PTL

(* No insert, of its own position or of another one, and no ht_swap takes  *)
(* a mark away, unless what comes is deeper, or an exact value as deep of  *)
(* the same key.                                                           *)
THEOREM MarksAreKept == Spec => MarksStay
<1> DEFINE Kept == \A b \in DOMAIN tt.slot, i \in YoungSlot :
                      tt.slot[b][i].entry = Mark =>
                          StaysOrYields(tt.slot[b][i], tt'.slot[b][i])
<1>1. ASSUME TypeOK, Next PROVE Emptied \/ Kept
  <2>1. tt \in Table /\ YoungSlot \subseteq Slot
    BY <1>1, SlotSets DEF TypeOK
  <2>2. ASSUME NEW p \in Position, NEW e \in Inserted, Insert(p, e)
        PROVE  Kept
    <3>1. e \in Storable(p) /\ tt' = ht_pos_insert(tt, p, e)
      BY <2>2 DEF Insert
    <3>2. CASE \A c \in DOMAIN tt.slot, j \in YoungSlot : tt'.slot[c][j] = tt.slot[c][j]
      BY <3>2 DEF StaysOrYields
    <3>3. ASSUME NEW n \in YoungSlot, Takes(tt, p, n, e),
                 tt'.slot[Bucket(tt, p)][n] = [key |-> HashKey[p], entry |-> e],
                 \A c \in DOMAIN tt.slot, j \in YoungSlot :
                     c # Bucket(tt, p) \/ j # n => tt'.slot[c][j] = tt.slot[c][j]
          PROVE  Kept
      <4> SUFFICES ASSUME NEW b \in DOMAIN tt.slot, NEW i \in YoungSlot,
                          tt.slot[b][i].entry = Mark
                   PROVE  StaysOrYields(tt.slot[b][i], tt'.slot[b][i])
        OBVIOUS
      <4>1. CASE b # Bucket(tt, p) \/ i # n
        BY <3>3, <4>1 DEF StaysOrYields
      <4>2. CASE b = Bucket(tt, p) /\ i = n
        <5>1. e.depth \in Nat
          <6>1. HashKey[p] # 0 /\ [key |-> HashKey[p], entry |-> e] \in SlotValue
            BY <3>1, KeyAssumption DEF SlotValue
          <6> QED
            BY <6>1, SlotValueType
        <5>2. \/ /\ tt.slot[b][i].key = HashKey[p] /\ Mark.type = e.type
                 /\ Mark.depth <= e.depth
              \/ Mark.depth < e.depth
          BY <3>3, <4>2 DEF Takes, Mine, Found
        <5>3. tt'.slot[b][i].key = HashKey[p] /\ tt'.slot[b][i].entry = e
          BY <3>3, <4>2
        <5> QED
          BY <5>1, <5>2, <5>3, MarkIs DEF StaysOrYields
      <4> QED
        BY <4>1, <4>2
    <3> QED
      BY <2>1, <3>1, <3>2, <3>3, InsertSlots
  <2>3. ASSUME Swap
        PROVE  Kept
    <3> SUFFICES ASSUME NEW b \in DOMAIN tt.slot, NEW i \in YoungSlot,
                        tt.slot[b][i].entry = Mark
                 PROVE  tt'.slot[b][i] = tt.slot[b][i]
      BY DEF StaysOrYields
    <3>1. <<b, i>> \notin Leaving(tt)
      BY MarkIs, SlotAssumption DEF Leaving
    <3> QED
      BY <2>1, <2>3, <3>1, SwapIs DEF Swap
  <2>4. ASSUME NEW n, NEW l, tt' = Cleared(n, l)
        PROVE  Emptied
    BY <2>4 DEF Cleared, Emptied
  <2>5. ASSUME tt'.slot = tt.slot
        PROVE  Kept
    BY <2>5 DEF StaysOrYields
  <2>6. ASSUME NEW s \in Sizes, Resize(s)
        PROVE  Emptied \/ Kept
    BY <2>1, <2>4, <2>5, <2>6, ResizeFailedSlots DEF Resize, Resized
  <2> HIDE DEF Kept
  <2> QED
    BY <1>1, <2>2, <2>3, <2>4, <2>6 DEF Next, Clear
<1> QED
  BY <1>1, TypeCorrect, PTL DEF Spec, MarksStay

(* What a table knows, as Known says it of tt.                             *)
KnownIn(t) == {<<s.key, s.entry>> :
                  s \in {t.slot[b][i] : b \in DOMAIN t.slot, i \in Slot} \ {EmptySlot}}

LEMMA KnownIs ==
    ASSUME NEW t \in Table, NEW k
    PROVE  k \in KnownIn(t) <=>
              \E b \in DOMAIN t.slot, i \in Slot :
                 /\ t.slot[b][i] # EmptySlot
                 /\ k = <<t.slot[b][i].key, t.slot[b][i].entry>>
BY DEF KnownIn

-----------------------------------------------------------------------------
(* The refinement: what is known shrinks, or grows by what is inserted.    *)

(* A table whose slots hold what they held, or nothing, knows no more.     *)
LEMMA KnownShrinks ==
    ASSUME NEW t \in Table, NEW u \in Table,
           \A b \in DOMAIN u.slot, i \in Slot :
               \/ u.slot[b][i] = EmptySlot
               \/ \E c \in DOMAIN t.slot, j \in Slot : u.slot[b][i] = t.slot[c][j]
    PROVE  KnownIn(u) \subseteq KnownIn(t)
<1> SUFFICES ASSUME NEW k \in KnownIn(u) PROVE k \in KnownIn(t)
  OBVIOUS
<1>1. PICK b \in DOMAIN u.slot, i \in Slot :
         u.slot[b][i] # EmptySlot /\ k = <<u.slot[b][i].key, u.slot[b][i].entry>>
  BY KnownIs
<1>2. PICK c \in DOMAIN t.slot, j \in Slot : u.slot[b][i] = t.slot[c][j]
  BY <1>1
<1> QED
  BY <1>1, <1>2, KnownIs

LEMMA KnownOfSlots ==
    ASSUME NEW t, NEW u, u.slot = t.slot
    PROVE  KnownIn(u) = KnownIn(t)
BY DEF KnownIn

(* A cleared table knows nothing.                                          *)
LEMMA ClearedKnown ==
    ASSUME NEW n, NEW l
    PROVE  KnownIn(Cleared(n, l)) = {}
BY DEF KnownIn, Cleared

(* overwrite_slot adds the pair it writes, whatever it overwrites.         *)
LEMMA OverwrittenKnown ==
    ASSUME NEW t \in Table, NEW p \in Position, NEW i \in Slot, NEW e \in Storable(p)
    PROVE  LET o == Overwritten(t, p, i, e) IN
           /\ <<HashKey[p], e>> \in KnownIn(o)
           /\ KnownIn(o) \subseteq KnownIn(t) \cup {<<HashKey[p], e>>}
<1> DEFINE o == Overwritten(t, p, i, e)
           b == Bucket(t, p)
           v == [key |-> HashKey[p], entry |-> e]
<1>1. OneSlotChanged(t, o, p, i, e)
  BY OverwrittenIs
<1>2. b \in DOMAIN t.slot
  BY BucketType
<1>3. v # EmptySlot /\ v.key = HashKey[p] /\ v.entry = e
  BY KeyAssumption DEF EmptySlot
<1> HIDE DEF o, v
<1>4. /\ o \in Table
      /\ DOMAIN o.slot = DOMAIN t.slot
      /\ o.slot[b][i] = v
      /\ \A c \in DOMAIN t.slot, j \in Slot :
            c # b \/ j # i => o.slot[c][j] = t.slot[c][j]
  BY <1>1 DEF OneSlotChanged, v
<1>5. <<HashKey[p], e>> \in KnownIn(o)
  BY <1>2, <1>3, <1>4, KnownIs
<1>6. ASSUME NEW k \in KnownIn(o) PROVE k \in KnownIn(t) \cup {<<HashKey[p], e>>}
  <2>1. PICK c \in DOMAIN o.slot, j \in Slot :
           o.slot[c][j] # EmptySlot /\ k = <<o.slot[c][j].key, o.slot[c][j].entry>>
    BY <1>4, <1>6, KnownIs
  <2>2. CASE c = b /\ j = i
    BY <1>3, <1>4, <2>1, <2>2
  <2>3. CASE c # b \/ j # i
    <3>1. o.slot[c][j] = t.slot[c][j] /\ c \in DOMAIN t.slot
      BY <1>4, <2>3
    <3> QED
      BY <2>1, <3>1, KnownIs
  <2> QED
    BY <2>2, <2>3
<1> QED
  BY <1>5, <1>6 DEF o

(* ht_pos_insert adds the pair that is inserted, or changes nothing.       *)
LEMMA InsertKnown ==
    ASSUME NEW t \in Table, NEW p \in Position, NEW e \in Storable(p)
    PROVE  LET u == ht_pos_insert(t, p, e) IN
           \/ u = t
           \/ /\ <<HashKey[p], e>> \in KnownIn(u)
              /\ KnownIn(u) \subseteq KnownIn(t) \cup {<<HashKey[p], e>>}
<1> DEFINE k == <<HashKey[p], e>>
           o == Overwritten(t, p, FreshIndex(t, p), e)
           w == DeepWrite(o, p, e)
<1>1. o \in Table /\ k \in KnownIn(o) /\ KnownIn(o) \subseteq KnownIn(t) \cup {k}
  BY FreshType, OverwrittenIs, OverwrittenKnown DEF OneSlotChanged
<1> HIDE DEF o
<1>2. k \in KnownIn(w) /\ KnownIn(w) \subseteq KnownIn(o) \cup {k}
  <2>1. CASE w = o
    BY <1>1, <2>1
  <2>2. ASSUME NEW i \in YoungSlot, w.slot = Overwritten(o, p, i, e).slot
        PROVE  k \in KnownIn(w) /\ KnownIn(w) \subseteq KnownIn(o) \cup {k}
    <3>1. KnownIn(w) = KnownIn(Overwritten(o, p, i, e))
      BY <2>2, KnownOfSlots
    <3>2. i \in Slot
      BY SlotSets
    <3> QED
      BY <1>1, <3>1, <3>2, OverwrittenKnown
  <2>3. \/ w = o
        \/ \E i \in YoungSlot : w = Overwritten(o, p, i, e)
        \/ \E i \in YoungSlot : w = [Overwritten(o, p, i, e) EXCEPT !.usage = @ + 1]
    BY <1>1, DeepWriteIs
  <2>4. \A i \in YoungSlot :
           [Overwritten(o, p, i, e) EXCEPT !.usage = @ + 1].slot = Overwritten(o, p, i, e).slot
    <3> TAKE i \in YoungSlot
    <3>1. Overwritten(o, p, i, e) \in Table
      BY <1>1, SlotSets, OverwrittenIs DEF OneSlotChanged
    <3> QED
      BY <3>1, TableShape
  <2> QED
    BY <2>1, <2>2, <2>3, <2>4
<1>3. ht_pos_insert(t, p, e) = IF ~ht_is_set(e) THEN t ELSE w
  BY DEF ht_pos_insert, o
<1> HIDE DEF w
<1> QED
  BY <1>1, <1>2, <1>3

(* The table refines the cache that may forget anything but knows only     *)
(* what was inserted: every insert is an insert of the cache or changes    *)
(* nothing, and a swap, a clear or a resize, failed or not, forgets.       *)
THEOREM TableIsCache == Spec => IsCache
<1>1. Known = KnownIn(tt) /\ Known' = KnownIn(tt')
  BY DEF Known, KnownIn
<1>2. Init => Cache!Init
  BY <1>1, ClearedKnown DEF Init, Cache!Init
<1>3. TypeOK /\ TypeOK' /\ [Next]_tt => [Cache!Next]_Known
  <2> SUFFICES ASSUME TypeOK, TypeOK', [Next]_tt
               PROVE  Cache!Insert \/ Known' \subseteq Known
    BY DEF Cache!Next, Cache!Forget
  <2>1. tt \in Table /\ tt' \in Table
    BY DEF TypeOK
  <2>2. ASSUME NEW p \in Position, NEW e \in Inserted, Insert(p, e)
        PROVE  Cache!Insert \/ Known' \subseteq Known
    <3>1. \/ tt' = tt
          \/ /\ <<HashKey[p], e>> \in Known'
             /\ Known' \subseteq Known \cup {<<HashKey[p], e>>}
      BY <1>1, <2>1, <2>2, InsertKnown DEF Insert
    <3>2. CASE tt' = tt
      BY <1>1, <3>2
    <3>3. CASE /\ <<HashKey[p], e>> \in Known'
               /\ Known' \subseteq Known \cup {<<HashKey[p], e>>}
      BY <3>3 DEF Cache!Insert
    <3> QED
      BY <3>1, <3>2, <3>3
  <2>3. ASSUME Swap
        PROVE  Known' \subseteq Known
    <3>1. /\ DOMAIN tt'.slot = DOMAIN tt.slot
          /\ \A b \in DOMAIN tt.slot, i \in Slot :
                \/ tt'.slot[b][i] = EmptySlot
                \/ \E j \in Slot : tt'.slot[b][i] = tt.slot[b][j]
      BY <2>1, <2>3, SwapIs DEF Swap
    <3> QED
      BY <1>1, <2>1, <3>1, KnownShrinks
  <2>4. ASSUME Clear
        PROVE  Known' \subseteq Known
    BY <1>1, <2>4, ClearedKnown DEF Clear
  <2>5. ASSUME NEW s \in Sizes, Resize(s)
        PROVE  Known' \subseteq Known
    <3>1. CASE tt' = Resized(tt, s)
      BY <1>1, <3>1, ClearedKnown DEF Resized
    <3>2. CASE tt' = ResizeFailed(tt, s)
      <4>1. tt'.slot = tt.slot
        BY <2>1, <3>2, TableShape DEF ResizeFailed
      <4> QED
        BY <1>1, <4>1, KnownOfSlots
    <3> QED
      BY <2>5, <3>1, <3>2 DEF Resize
  <2>6. CASE UNCHANGED tt
    BY <1>1, <2>6
  <2> QED
    BY <2>2, <2>3, <2>4, <2>5, <2>6 DEF Next
<1> QED
  BY <1>2, <1>3, TypeCorrect, PTL DEF Spec, IsCache, Cache!Spec

=============================================================================
