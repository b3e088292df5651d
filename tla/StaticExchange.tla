-------------------------- MODULE StaticExchange --------------------------
(***************************************************************************)
(* The table of static exchange values, as tools/gen_SEE_table.c computes  *)
(* it for every count of attackers that src/src/move_desc.c encodes.  An   *)
(* attacker count is a function from the two sides to the counts of their  *)
(* pawns, minor pieces, rooks, queens and kings; the counts are capped the *)
(* way attack_code caps them.                                              *)
(***************************************************************************)
EXTENDS Integers

(* The order in which a side captures: the cheapest piece first, the king  *)
(* only when nothing captures back.                                        *)
Attacker == <<"pawn", "nb", "rook", "queen", "king">>
AttackerIndex == DOMAIN Attacker

attacker_value ==
  [a \in {"pawn", "nb", "rook", "queen", "king"} |->
     CASE a = "pawn" -> 1 [] a = "nb" -> 3 [] a = "rook" -> 5 [] a = "queen" -> 9 [] a = "king" -> 0]

count_limit ==
  [a \in {"pawn", "nb", "rook", "queen", "king"} |->
     CASE a = "pawn" -> 2 [] a = "nb" -> 3 [] a = "rook" -> 2 [] a = "queen" -> 1 [] a = "king" -> 1]

can_king_capture(attackers, side) ==
  /\ attackers[side]["king"] > 0
  /\ \A i \in AttackerIndex : attackers[1 - side][Attacker[i]] = 0

Capturers(attackers, side) ==
  {i \in AttackerIndex : IF Attacker[i] = "king"
                         THEN can_king_capture(attackers, side)
                         ELSE attackers[side][Attacker[i]] > 0}

(* The best of standing pat and of capturing with the cheapest attacker.   *)
RECURSIVE SEE_negamax(_, _, _, _)
SEE_negamax(attackers, piece, value, side) ==
  IF Capturers(attackers, side) = {}
  THEN value
  ELSE LET next_piece == Attacker[CHOOSE i \in Capturers(attackers, side) :
                                    \A j \in Capturers(attackers, side) : i <= j]
           capture_value ==
             -SEE_negamax([attackers EXCEPT ![side][next_piece] = @ - 1],
                          next_piece, -(value + attacker_value[piece]), 1 - side)
       IN  IF capture_value > value THEN capture_value ELSE value

(* The most valuable piece that may stand on the attacked square at no     *)
(* loss; 10 when even a queen may.                                         *)
SEE_value(attackers) ==
  LET v == 9 - SEE_negamax(attackers, "queen", 0, 1)
  IN  IF v = 9 THEN 10 ELSE v
=============================================================================
