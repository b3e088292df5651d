--------------------------- MODULE PositionCache ---------------------------
(***************************************************************************)
(* What the transposition table promises to the search: it may forget      *)
(* anything at any time, but what it knows was inserted, unchanged, for a  *)
(* position with the same hash since the table was cleared.                *)
(***************************************************************************)
CONSTANTS
    Hash,           \* the hashes of positions
    Entry           \* what may be inserted

VARIABLE known      \* pairs <<hash, entry>>

Init == known = {}

Insert ==
    \E h \in Hash, e \in Entry :
        known' \in SUBSET (known \cup {<<h, e>>}) /\ <<h, e>> \in known'

Forget == known' \in SUBSET known

Next == Insert \/ Forget

Spec == Init /\ [][Next]_known

=============================================================================
