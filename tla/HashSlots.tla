----------------------------- MODULE HashSlots -----------------------------
(***************************************************************************)
(* The transposition table of src/src/hash.c and hash.h as a value: its    *)
(* entries, its buckets of deep and fresh slots, and what each function    *)
(* computes from them.                                                     *)
(***************************************************************************)
EXTENDS Integers, FiniteSetsExt

CONSTANTS
    Position,
    Move,
    NoMove,         \* the move 0
    ZHash,          \* ZHash[p]: zhash[0], which picks the bucket and the
                    \*   fresh slot
    HashKey,        \* HashKey[p]: zhash[1] & HASH_MASK, kept in a slot
    FitsBoard,      \* FitsBoard[p]: the moves from a square of one's own to a
                    \*   square that is not
    DeepHalf,       \* DEEP_SLOT_COUNT / 2
    FreshSlots,     \* FRESH_SLOT_COUNT
    MarkDepth       \* 99: entries as deep as this survive ht_swap

ASSUME SlotAssumption ==
    /\ ZHash \in [Position -> Nat]
    /\ FitsBoard \in [Position -> SUBSET Move]
    /\ NoMove \notin Move
    /\ DeepHalf \in Nat \ {0} /\ FreshSlots \in Nat \ {0}
    /\ MarkDepth \in Nat

(* The key 0 marks an empty slot.  A position whose key is 0 in all 58 bits *)
(* of the mask would look empty; none is.                                  *)
ASSUME KeyAssumption == HashKey \in [Position -> Nat \ {0}]

-----------------------------------------------------------------------------
(* Entries.  A field that was never set is all zero, as in HT_NULL.        *)

ValueBias == 32767          \* 0x7fff
NullEntry ==
    [move |-> NoMove, type |-> {}, no_null |-> FALSE, bits |-> 0, depth |-> 0]

(* vt_none, vt_upper_bound, vt_lower_bound and vt_exact.                   *)
None == {}
UpperBound == {"upper"}
LowerBound == {"lower"}
Exact == {"upper", "lower"}

(* The width of the value and of the depth.                                *)
Word16 == 0..65535

Entry ==
    [move : Move \cup {NoMove}, type : SUBSET Exact, no_null : BOOLEAN,
     bits : Word16, depth : Word16]

ht_is_set(e) == e # NullEntry
ht_has_move(e) == e.move # NoMove
ht_value(e) == e.bits - ValueBias
ht_value_is_lower_bound(e) == "lower" \in e.type
ht_value_is_upper_bound(e) == "upper" \in e.type

(* Each setter is only applied to a field that is still zero.              *)
ht_set_depth(e, d) == IF d < 0 THEN e ELSE [e EXCEPT !.depth = d]
ht_set_value(e, t, v) == [e EXCEPT !.type = t, !.bits = v + ValueBias]
ht_set_move(e, m) == [e EXCEPT !.move = m]
ht_set_no_null(e) == [e EXCEPT !.no_null = TRUE]

(* What add_history_as_repetition stores of a position that has repeated.  *)
Mark == ht_set_value(ht_set_depth(NullEntry, MarkDepth), Exact, 0)

-----------------------------------------------------------------------------
(* Slots.  In each bucket the first DeepHalf slots take what is inserted,  *)
(* the next DeepHalf keep what ht_swap moves there, the rest are fresh.    *)

EmptySlot == [key |-> 0, entry |-> NullEntry]
YoungSlot == 1..DeepHalf
DeepSlot == 1..(2 * DeepHalf)
Slot == 1..(2 * DeepHalf + FreshSlots)

(* ht_clear, and what ht_create makes                                      *)
Cleared(buckets, log2) ==
    [slot |-> [b \in 0..(buckets - 1) |-> [i \in Slot |-> EmptySlot]],
     usage |-> 0, log2_size |-> log2]

BucketCount(t) == Cardinality(DOMAIN t.slot)
Bucket(t, p) == ZHash[p] % BucketCount(t)
(* The fresh slot depends on log2_size, the bucket on the bucket count.    *)
FreshIndex(t, p) ==
    2 * DeepHalf + 1 + ((ZHash[p] \div 2^(t.log2_size)) % FreshSlots)

(* hash_match and move_ok: is this slot the position's, and does its move  *)
(* start on a piece of the player and end on none of them?                 *)
Found(s, p) ==
    /\ s.key = HashKey[p]
    /\ ht_has_move(s.entry) => s.entry.move \in FitsBoard[p]

ht_lookup_fresh(t, p) ==
    LET s == t.slot[Bucket(t, p)][FreshIndex(t, p)] IN
    IF Found(s, p) THEN s.entry ELSE NullEntry

(* The first entry that is deep enough to answer at once; else the last of *)
(* the deepest.                                                            *)
ht_lookup_deep(t, p, depth, beta) ==
    LET slots == t.slot[Bucket(t, p)]
        found == {i \in DeepSlot : Found(slots[i], p)}
        entry(i) == slots[i].entry
        answers == {i \in found :
                        /\ entry(i).depth >= depth
                        /\ \/ entry(i).type = Exact
                           \/ entry(i).type = LowerBound /\ ht_value(entry(i)) >= beta}
        deepest == {i \in found : \A j \in found : entry(j).depth <= entry(i).depth}
    IN IF answers # {} THEN entry(Min(answers))
       ELSE IF found # {} THEN entry(Max(deepest))
       ELSE NullEntry

(* Wrong variant: the key of the slot is left as it was.                   *)
OverwrittenKeepsKey(t, p, i, e) == [t EXCEPT !.slot[Bucket(t, p)][i].entry = e]

(* overwrite_slot                                                          *)
Overwritten(t, p, i, e) ==
    [t EXCEPT !.slot[Bucket(t, p)][i] = [key |-> HashKey[p], entry |-> e]]

(* Wrong variant: every write counts as a new slot.                        *)
DeepWriteCountsAll(t, p, e) ==
    LET slots == t.slot[Bucket(t, p)]
        mine == {i \in YoungSlot : Found(slots[i], p) /\ slots[i].entry.type = e.type}
        shallow == {i \in YoungSlot : \A j \in YoungSlot :
                        slots[i].entry.depth <= slots[j].entry.depth}
    IN IF mine # {}
       THEN IF slots[Min(mine)].entry.depth <= e.depth
            THEN Overwritten(t, p, Min(mine), e) ELSE t
       ELSE IF slots[Min(shallow)].entry.depth < e.depth
            THEN [Overwritten(t, p, Min(shallow), e) EXCEPT !.usage = @ + 1]
            ELSE t

(* Wrong variant: the shallowest slot is taken whosever it is.             *)
DeepWriteAnywhere(t, p, e) ==
    LET slots == t.slot[Bucket(t, p)]
        shallow == {i \in YoungSlot : \A j \in YoungSlot :
                        slots[i].entry.depth <= slots[j].entry.depth}
        new == IF slots[Min(shallow)].key = 0 THEN 1 ELSE 0
    IN IF slots[Min(shallow)].entry.depth < e.depth
       THEN [Overwritten(t, p, Min(shallow), e) EXCEPT !.usage = @ + new]
       ELSE t

(* Wrong variant: an entry as deep loses its slot to another position.     *)
DeepWriteOverEqual(t, p, e) ==
    LET slots == t.slot[Bucket(t, p)]
        mine == {i \in YoungSlot : Found(slots[i], p) /\ slots[i].entry.type = e.type}
        shallow == {i \in YoungSlot : \A j \in YoungSlot :
                        slots[i].entry.depth <= slots[j].entry.depth}
        i == Min(IF mine # {} THEN mine ELSE shallow)
        new == IF slots[i].key = 0 THEN 1 ELSE 0
    IN IF slots[i].entry.depth <= e.depth
       THEN [Overwritten(t, p, i, e) EXCEPT !.usage = @ + new] ELSE t

(* The deep half of ht_pos_insert: an entry of the same position and type  *)
(* is replaced unless it is deeper; else the shallowest, if shallower.     *)
DeepWrite(t, p, e) ==
    LET slots == t.slot[Bucket(t, p)]
        mine == {i \in YoungSlot : Found(slots[i], p) /\ slots[i].entry.type = e.type}
        shallow == {i \in YoungSlot : \A j \in YoungSlot :
                        slots[i].entry.depth <= slots[j].entry.depth}
        new == IF slots[Min(shallow)].key = 0 THEN 1 ELSE 0
    IN IF mine # {}
       THEN IF slots[Min(mine)].entry.depth <= e.depth
            THEN Overwritten(t, p, Min(mine), e) ELSE t
       ELSE IF slots[Min(shallow)].entry.depth < e.depth
            THEN [Overwritten(t, p, Min(shallow), e) EXCEPT !.usage = @ + new]
            ELSE t

(* write_fresh_slot, then the deep half                                    *)
ht_pos_insert(t, p, e) ==
    IF ~ht_is_set(e) THEN t
    ELSE DeepWrite(Overwritten(t, p, FreshIndex(t, p), e), p, e)

(* Wrong variant: nothing survives a swap.                                 *)
SwapAll(t) ==
    LET used(b, i) == i \in YoungSlot /\ t.slot[b][i].key # 0
    IN [t EXCEPT
        !.slot = [b \in DOMAIN t.slot |-> [i \in Slot |->
            IF used(b, i) THEN EmptySlot
            ELSE IF i \in DeepSlot \ YoungSlot /\ used(b, i - DeepHalf)
            THEN t.slot[b][i - DeepHalf] ELSE t.slot[b][i]]],
        !.usage = 0]

(* slot_swap on every young slot: it is copied to the other half, and      *)
(* emptied unless it is as deep as a mark.                                 *)
ht_swap(t) ==
    LET used(b, i) == i \in YoungSlot /\ t.slot[b][i].key # 0
        leaves(b, i) == used(b, i) /\ t.slot[b][i].entry.depth < MarkDepth
    IN [t EXCEPT
        !.slot = [b \in DOMAIN t.slot |-> [i \in Slot |->
            IF leaves(b, i) THEN EmptySlot
            ELSE IF i \in DeepSlot \ YoungSlot /\ used(b, i - DeepHalf)
            THEN t.slot[b][i - DeepHalf] ELSE t.slot[b][i]]],
        !.usage = @ - Cardinality({x \in (DOMAIN t.slot) \X YoungSlot : leaves(x[1], x[2])})]

(* ht_resize, when the memory for the new table is there                   *)
Resized(t, log2) == IF t.log2_size = log2 THEN t ELSE Cleared(2^log2, log2)

(* ht_resize, when it is not: log2_size was changed before the allocation  *)
ResizeFailed(t, log2) == [t EXCEPT !.log2_size = log2]

=============================================================================
