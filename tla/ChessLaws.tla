----------------------------- MODULE ChessLaws -----------------------------
(***************************************************************************)
(* The laws of chess, against which the move generator is checked: a move  *)
(* is legal when its piece moves that way and it leaves the mover's king   *)
(* unattacked on the board that results.  No bitboard table of the         *)
(* position is used, only where the pieces stand.                          *)
(***************************************************************************)
EXTENDS Position

On(map, s) == UNION {map[s][p] : p \in Piece}

DirsOf(p) ==
  CASE p = "bishop" -> slider_dirs["bishop"] [] p = "rook" -> slider_dirs["rook"]
    [] p = "queen" -> KingSteps

(* The squares a piece of side s on i attacks.                             *)
AttackedFrom(occ, p, s, i) ==
  CASE p = "pawn" -> IF s = 0 THEN pawn_reach_north({i}) ELSE pawn_reach_south({i})
    [] p = "knight" -> knight_pattern[i]
    [] p = "king" -> king_pattern[i]
    [] p \in {"bishop", "rook", "queen"} -> reach(occ, i, DirsOf(p))

Threatened(map, i) ==
  LET occ == On(map, 0) \cup On(map, 1)
  IN  \E p \in Piece : \E j \in map[1][p] : i \in AttackedFrom(occ, p, 1, j)

KingThreatened(map) == \E i \in map[0]["king"] : Threatened(map, i)

(* Where the pieces stand after a move, still seen by the mover.           *)
After(map, m) ==
  LET rook == CASE m.type = "castle king side" -> <<sq_h1, sq_f1>>
                [] m.type = "castle queen side" -> <<sq_a1, sq_d1>>
                [] OTHER -> <<m.from, m.to>>
      gone == IF m.type = "en passant" THEN {m.to + SOUTH} ELSE {m.to}
  IN  [s \in Player |-> [p \in Piece |->
        IF s = 1 THEN map[1][p] \ gone
        ELSE LET left == map[0][p] \ {m.from, rook[1]}
             IN  left \cup (IF p = m.result THEN {m.to} ELSE {})
                      \cup (IF p = "rook" /\ rook[1] # m.from THEN {rook[2]} ELSE {})]]

PieceMoves(pos, p) ==
  LET occ == On(pos.map, 0) \cup On(pos.map, 1)
  IN  UNION {{create_move_g(i, to, p, pos.board[to]) :
                to \in AttackedFrom(occ, p, 0, i) \ On(pos.map, 0)} : i \in pos.map[0][p]}

(* A pawn goes straight to an empty square, and sideways to take.          *)
PawnSteps(pos) ==
  LET occ == On(pos.map, 0) \cup On(pos.map, 1)
  IN  {<<i, to>> \in pos.map[0]["pawn"] \X Square :
         \/ to = i + NORTH /\ to \notin occ
         \/ to \in pawn_reach_north({i}) \cap On(pos.map, 1)}

PawnMoves(pos) ==
  LET occ == On(pos.map, 0) \cup On(pos.map, 1)
      last == {st \in PawnSteps(pos) : ind_rank(st[2]) = rank_8}
  IN  {create_move_g(st[1], st[2], "pawn", pos.board[st[2]]) : st \in PawnSteps(pos) \ last}
        \cup {create_move_pr(st[1], st[2], p, pos.board[st[2]]) :
                st \in last, p \in {"queen", "rook", "bishop", "knight"}}
        \cup {create_move_pd(i, i - 16) :
                i \in {i \in pos.map[0]["pawn"] : ind_rank(i) = rank_2 /\ {i - 8, i - 16} \cap occ = {}}}
        \cup {create_move_ep(i, pos.ep_index + NORTH) :
                i \in {i \in pos.map[0]["pawn"] : /\ pos.ep_index # 0
                                                  /\ ind_rank(i) = rank_5
                                                  /\ ind_file(i) - ind_file(pos.ep_index) \in {-1, 1}}}

CastlingMoves(pos) ==
  LET occ == On(pos.map, 0) \cup On(pos.map, 1)
      may(side, between, crossed) ==
        /\ side \in pos.cr[0]
        /\ between \cap occ = {}
        /\ \A i \in crossed : ~Threatened(pos.map, i)
  IN  {m \in {mcastle_king_side} : may("K", {sq_f1, sq_g1}, {sq_e1, sq_f1})}
        \cup {m \in {mcastle_queen_side} : may("Q", {sq_b1, sq_c1, sq_d1}, {sq_e1, sq_d1})}

LegalMoves(pos) ==
  LET moves == UNION {PieceMoves(pos, p) : p \in Piece \ {"pawn"}}
                 \cup PawnMoves(pos) \cup CastlingMoves(pos)
  IN  {m \in moves : ~KingThreatened(After(pos.map, m))}
=============================================================================
