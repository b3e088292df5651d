---------------------------- MODULE MCHashTable ----------------------------
(***************************************************************************)
(* Three positions: a and b share the bucket of the small table and part   *)
(* in the larger one; c collides with a in every bit but stands otherwise. *)
(***************************************************************************)
EXTENDS HashTable

MCPosition == {"a", "b", "c"}
MCZHash == [p \in MCPosition |-> IF p = "b" THEN 2 ELSE 1]
MCHashKey == [p \in MCPosition |-> IF p = "b" THEN 12 ELSE 11]
MCMove == {"m", "n"}
MCFitsBoard == [p \in MCPosition |-> IF p = "c" THEN {"n"} ELSE {"m", "n"}]

MCEntry(m, t, v, d) == ht_set_move(ht_set_depth(ht_set_value(NullEntry, t, v), d), m)
(* A mark, a bound as deep, and a search deeper than marks are.            *)
MCInserted ==
    {MCEntry("m", Exact, 1, 1), Mark, MCEntry("n", LowerBound, 2, 3),
     MCEntry("n", Exact, 1, 4)}
MCScore == {0, 2, 3}
MCSizes == {0, 1}
=============================================================================
