----------------------------- MODULE MoveOrder -----------------------------
(***************************************************************************)
(* The order in which a node tries its moves (src/src/move_order.c and     *)
(* move_order.h) as a value.  A move starts in raw, becomes an entry with  *)
(* a value, and is picked; the entries from picked on are kept sorted.     *)
(* History heuristics are off, as they are by default.                     *)
(***************************************************************************)
EXTENDS Integers, FiniteSetsExt, SequencesExt

CONSTANTS
    Legal,          \* Legal[p]: the moves gen_moves finds, each a number # 0
    Captures,       \* Captures[p]: those of gen_captures
    StrongValue,    \* StrongValue[p][m]: 1000 and more for a capture that
                    \*   is_strong_capture accepts, 0 for every other move
    DescValue,      \* DescValue[p][m]: the value describe_move gives
    GivesCheck      \* GivesCheck[p]: the moves that check

KillerValue == 70
HintValue == 32767          \* INT16_MAX
WeakHintValue == 3000
BaseValue == -100

(* mo_entry_value divides an entry whose low bits are the move, and        *)
(* division rounds to zero: a negative value is read back larger by one.   *)
mo_entry_value(e) == IF e.value < 0 THEN e.value + 1 ELSE e.value

Entries(v, hint, check, m) == [value |-> v, hint |-> hint, check |-> check, move |-> m]

(* Entries are compared as 64 bit numbers: value, flags, then the move.    *)
Below(e, f) ==
    LET rank(x) == 2 * (IF x.hint THEN 1 ELSE 0) + (IF x.check THEN 1 ELSE 0)
    IN \/ e.value < f.value
       \/ e.value = f.value /\ rank(e) < rank(f)
       \/ e.value = f.value /\ rank(e) = rank(f) /\ e.move < f.move

(* A move_order before its first use; killers outlive the setup.           *)
NewOrder ==
    [raw |-> {}, entries |-> <<>>, count |-> 0, picked |-> 0,
     strong_added |-> FALSE, lmr_index |-> -1, killers |-> <<0, 0>>]

move_order_setup(mo, p, is_qsearch) ==
    LET moves == IF is_qsearch THEN Captures[p] ELSE Legal[p] IN
    [raw |-> moves, entries |-> <<>>, count |-> Cardinality(moves), picked |-> 0,
     strong_added |-> FALSE, lmr_index |-> -1, killers |-> mo.killers]

move_order_done(mo) == mo.picked = mo.count
mo_current_entry(mo) == mo.entries[mo.picked]
mo_current_move(mo) == mo_current_entry(mo).move
mo_current_move_value(mo) == mo_entry_value(mo_current_entry(mo))

(* e takes the place i and moves ahead of the smaller entries before it,   *)
(* of those not picked yet.                                                *)
insert_at(entries, picked, i, e) ==
    LET stop == Max({picked} \cup {k \in picked + 1..i - 1 : ~Below(entries[k], e)})
        others == SubSeq(entries, 1, i - 1) \o SubSeq(entries, i + 1, Len(entries))
    IN InsertAt(others, stop + 1, e)

Inserted(mo, e) ==
    [mo EXCEPT !.entries = insert_at(@, mo.picked, Len(@) + 1, e)]

(* Wrong variant: the move stays among the raw moves.                      *)
add_hint_twice(mo, m, value) ==
    IF m \in mo.raw THEN Inserted(mo, Entries(value, TRUE, FALSE, m)) ELSE mo

(* add_hint: an entry that is waiting gets the value if that is higher, a  *)
(* raw move becomes an entry.                                              *)
add_hint(mo, m, value) ==
    LET waiting == {i \in mo.picked + 1..Len(mo.entries) : mo.entries[i].move = m}
        i == Min(waiting)
    IN IF m = 0 THEN mo
       ELSE IF waiting # {}
       THEN IF mo_entry_value(mo.entries[i]) < value
            THEN [mo EXCEPT !.entries =
                    insert_at(@, mo.picked, i, [mo.entries[i] EXCEPT !.value = value])]
            ELSE mo
       ELSE IF m \in mo.raw
       THEN [Inserted(mo, Entries(value, TRUE, FALSE, m)) EXCEPT !.raw = @ \ {m}]
       ELSE mo

(* It returns -1 for a move that is not to be had.                         *)
hint_accepted(mo, m) ==
    \/ m = 0 \/ m \in mo.raw
    \/ \E i \in mo.picked + 1..Len(mo.entries) : mo.entries[i].move = m

move_order_add_weak_hint(mo, m) == add_hint(mo, m, WeakHintValue)
move_order_add_hint(mo, m, priority) == add_hint(mo, m, HintValue - priority)

move_order_add_killer(mo, m) == [mo EXCEPT !.killers = <<m, @[1]>>]

is_killer(mo, m) == m \in {mo.killers[1], mo.killers[2]}

add_strong_capture_entries(mo, p) ==
    LET strong == {m \in mo.raw : StrongValue[p][m] > 0}
        add(m, o) == Inserted(o, Entries(StrongValue[p][m], FALSE, FALSE, m))
    IN [FoldSet(add, mo, strong) EXCEPT !.raw = @ \ strong, !.strong_added = TRUE]

RestValue(mo, p, m) ==
    LET value == BaseValue + DescValue[p][m] IN
    IF value > -150 /\ value < KillerValue /\ is_killer(mo, m) THEN KillerValue ELSE value

add_all_entries(mo, p) ==
    LET add(m, o) ==
            Inserted(o, Entries(RestValue(mo, p, m), FALSE, m \in GivesCheck[p], m))
    IN [FoldSet(add, mo, mo.raw) EXCEPT !.raw = {}]

(* The moves become entries in two batches, each when none is waiting.     *)
some_waiting(mo) == Len(mo.entries) > mo.picked
with_strong(mo, p) ==
    IF some_waiting(mo) \/ mo.strong_added THEN mo ELSE add_strong_capture_entries(mo, p)
with_rest(mo, p) == IF some_waiting(mo) THEN mo ELSE add_all_entries(mo, p)

(* The moves after the first are late, unless they capture well.           *)
step_to_next(mo) ==
    LET next == [mo EXCEPT !.picked = @ + 1]
        late == next.picked > 1 /\ mo_current_move_value(next) < 1000
    IN [next EXCEPT !.lmr_index = @ + (IF late THEN 1 ELSE 0)]

move_order_pick_next(mo, p) == step_to_next(with_rest(with_strong(mo, p), p))

(* Every move is in one place: raw, or one entry.                          *)
OrderComplete(mo, moves) ==
    /\ \A i, j \in 1..Len(mo.entries) :
           mo.entries[i].move = mo.entries[j].move => i = j
    /\ {mo.entries[i].move : i \in 1..Len(mo.entries)} \cup mo.raw = moves
    /\ {mo.entries[i].move : i \in 1..Len(mo.entries)} \cap mo.raw = {}
    /\ mo.picked <= Len(mo.entries)

(* The entries that wait are sorted.                                       *)
OrderSorted(mo) ==
    \A i \in mo.picked + 1..Len(mo.entries) - 1 : ~Below(mo.entries[i], mo.entries[i + 1])

=============================================================================
