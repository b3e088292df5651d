----------------------------- MODULE ChessRules -----------------------------
(***************************************************************************)
(* The rules of chess, as far as the control of the program depends on     *)
(* them.  src/src/move_gen.c, position.c and move.c compute these tables;  *)
(* here they are constants, so that a model may use any finite piece of    *)
(* the game tree.  A position carries the side to move, the castling       *)
(* rights and the en passant target, as pos_equal compares them.           *)
(***************************************************************************)
EXTENDS Integers, FiniteSets

CONSTANTS
    Position,       \* positions, including the side to move
    Move,           \* moves, as source and destination: a move may be legal
                    \*   in several positions
    NoMove,         \* the move 0 of the code (none_move, end of a move list)
    Start,          \* start_position_fen
    Legal,          \* Legal[p]: what gen_moves lists in p
    Play,           \* Play[p][m]: what position_make_move computes
    SideToMove,     \* SideToMove[p]: "white" or "black"
    FirstMove,      \* FirstMove[p]: moves[0] of gen_moves, NoMove when none
    DeadPosition,   \* pos_has_insufficient_material
    Irreversible    \* is_move_irreversible, as pairs <<position, move>>

Player == {"white", "black"}

Opponent(side) == IF side = "white" THEN "black" ELSE "white"

ASSUME MoveAssumption == NoMove \notin Move

ASSUME StartAssumption == Start \in Position

ASSUME LegalAssumption == Legal \in [Position -> SUBSET Move]

ASSUME PlayAssumption == Play \in [Position -> [Move -> Position]]

ASSUME SideAssumption == SideToMove \in [Position -> Player]

(* Sides alternate: position_make_move flips the board after every move.   *)
ASSUME AlternationAssumption ==
    \A p \in Position : \A m \in Legal[p] :
        SideToMove[Play[p][m]] = Opponent(SideToMove[p])

ASSUME FirstMoveAssumption ==
    /\ FirstMove \in [Position -> Move \cup {NoMove}]
    /\ \A p \in Position : IF Legal[p] = {} THEN FirstMove[p] = NoMove
                                            ELSE FirstMove[p] \in Legal[p]

ASSUME DeadPositionAssumption == DeadPosition \subseteq Position

ASSUME IrreversibleAssumption == Irreversible \subseteq Position \X Move

HasSingleResponse(p) == \E m \in Legal[p] : Legal[p] = {m}

=============================================================================
