----------------------------- MODULE HashTable -----------------------------
(***************************************************************************)
(* The transposition table of the engine: the search inserts, think swaps  *)
(* the generations and may resize, reset_engine clears.  All of it happens *)
(* in one thread at a time: think and the setters join the search first.   *)
(***************************************************************************)
EXTENDS HashSlots

CONSTANTS
    Inserted,       \* the entries the search and the engine may insert
    Sizes,          \* the values of log2_size in use
    Score,          \* the values of beta a lookup may be given
    AllocationFails \* whether aligned_alloc may return NULL

ASSUME TableAssumption ==
    /\ Inserted \subseteq Entry
    /\ Score \subseteq Int
    /\ Sizes \subseteq Nat /\ Sizes # {}
    /\ AllocationFails \in BOOLEAN

(* A fact of arithmetic, which the provers do not know of powers.          *)
ASSUME PowerAssumption == \A s \in Sizes : 2^s \in Nat \ {0}

VARIABLE tt         \* threads[0].sd.tt

Init == \E s \in Sizes : tt = Cleared(2^s, s)

(* What a search stores of a position has a move of that position; a mark  *)
(* has none.                                                               *)
Storable(p) == {e \in Inserted : ht_has_move(e) => e.move \in FitsBoard[p]}

Insert(p, e) == e \in Storable(p) /\ tt' = ht_pos_insert(tt, p, e)

Swap == tt' = ht_swap(tt)

Clear == tt' = Cleared(BucketCount(tt), tt.log2_size)

Resize(s) ==
    \/ tt' = Resized(tt, s)
    \/ /\ AllocationFails /\ s # tt.log2_size
       /\ tt' = ResizeFailed(tt, s)

Next ==
    \/ \E p \in Position, e \in Inserted : Insert(p, e)
    \/ Swap
    \/ Clear
    \/ \E s \in Sizes : Resize(s)

Spec == Init /\ [][Next]_tt

-----------------------------------------------------------------------------
(* Properties.                                                             *)

(* What the slots hold, by the key it was inserted for.                    *)
Known ==
    {<<s.key, s.entry>> : s \in {tt.slot[b][i] : b \in DOMAIN tt.slot, i \in Slot}
                                  \ {EmptySlot}}

Cache == INSTANCE PositionCache WITH
    known <- Known, Hash <- {HashKey[p] : p \in Position}, Entry <- Inserted

(* The table is a cache: it forgets, but what it holds was inserted for    *)
(* that key since it was last cleared.                                     *)
IsCache == Cache!Spec

(* The per mille of use the engine reports counts the young slots in use.  *)
UsageExact ==
    tt.usage = Cardinality({x \in (DOMAIN tt.slot) \X YoungSlot :
                              tt.slot[x[1]][x[2]].key # 0})

Marked(p, i) ==
    LET s == tt.slot[Bucket(tt, p)][i] IN s.key = HashKey[p] /\ s.entry = Mark

(* A position the engine has marked as drawn is answered as drawn, at any  *)
(* depth up to the mark's, whatever is stored of it and of the positions   *)
(* that share its bucket, before and after the mark.  Only a lower bound   *)
(* that cuts off by itself may be found first, and positions with one key  *)
(* may hide each other's marks.                                            *)
MarkAnswers ==
    \A p \in Position, i \in YoungSlot, depth \in 0..MarkDepth, beta \in Score :
        /\ Marked(p, i)
        /\ \A q \in Position : HashKey[q] = HashKey[p] => q = p
        => LET answer == ht_lookup_deep(tt, p, depth, beta) IN
           \/ answer = Mark
           \/ /\ answer.type = LowerBound
              /\ answer.depth >= depth /\ ht_value(answer) >= beta

Emptied == \A b \in DOMAIN tt'.slot, i \in Slot : tt'.slot[b][i] = EmptySlot

StaysOrYields(s, new) ==
    \/ new = s
    \/ new.entry.depth > MarkDepth
    \/ new.key = s.key /\ new.entry.type = Exact /\ new.entry.depth >= MarkDepth

(* A mark stays in its slot through every insert and swap, until the table *)
(* is emptied, a deeper entry takes the slot, or an exact value as deep    *)
(* replaces it under the same key.                                         *)
MarksStay ==
    [][\/ Emptied
       \/ \A b \in DOMAIN tt.slot, i \in YoungSlot :
            tt.slot[b][i].entry = Mark =>
                StaysOrYields(tt.slot[b][i], tt'.slot[b][i])]_tt

=============================================================================
