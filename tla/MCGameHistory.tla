--------------------------- MODULE MCGameHistory ---------------------------
(***************************************************************************)
(* Two positions with a way back, so that positions repeat, and a third    *)
(* with an irreversible move to it.                                        *)
(***************************************************************************)
EXTENDS GameHistory, TLC

CONSTANTS g1, g2

MCPosition == {"s", "b", "c"}
MCMove == {"out", "back", "push"}
MCLegal == [p \in MCPosition |-> IF p = "s" THEN {"out"}
                                 ELSE IF p = "b" THEN {"back", "push"} ELSE {}]
MCPlay == [p \in MCPosition |->
              [m \in MCMove |-> IF m = "out" THEN "b"
                                ELSE IF m = "back" THEN "s" ELSE "c"]]
MCSideToMove == [p \in MCPosition |-> IF p = "b" THEN "black" ELSE "white"]
MCFirstMove == [p \in MCPosition |-> IF p = "s" THEN "out"
                                     ELSE IF p = "b" THEN "back" ELSE "none"]
MCIrreversible == {<<"b", "push">>}
MCTwoGames == {g1, g2}
Symmetry == Permutations(MCTwoGames)
MCStack == {"none", "out"}
=============================================================================
