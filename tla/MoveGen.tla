------------------------------ MODULE MoveGen ------------------------------
(***************************************************************************)
(* src/src/move_gen.c: the legal moves of a position, from its bitboards.  *)
(* The lists of the code are sets here; ListedBefore keeps the order in    *)
(* which gen_moves appends moves of different kinds, which is what         *)
(* read_move depends on.                                                   *)
(***************************************************************************)
EXTENDS Position

(* struct move_gen, as init_data fills it.                                 *)
init_data(pos, dst_mask, only_queen_promotions) ==
  [pos |-> pos, dst_mask |-> dst_mask, only_queen_promotions |-> only_queen_promotions,
   pinned_hor |-> pos.king_pins[0] \cap hor_masks[pos.ki],
   pinned_ver |-> pos.king_pins[0] \cap ver_masks[pos.ki],
   pinned_diag |-> pos.king_pins[0] \cap diag_masks[pos.ki],
   pinned_adiag |-> pos.king_pins[0] \cap adiag_masks[pos.ki]]

own(mg, p) == mg.pos.map[0][p]

append_gmoves(mg, from, to_map, p) ==
  {create_move_g(from, to, p, mg.pos.board[to]) : to \in to_map}

append_promotions(mg, from, to) ==
  {create_move_pr(from, to, p, mg.pos.board[to]) :
     p \in IF mg.only_queen_promotions THEN {"queen"} ELSE {"queen", "knight", "bishop", "rook"}}

(* A pawn move that may reach the last rank.                               *)
append_pawn_move(mg, from, to) ==
  IF ind_rank(to) = rank_8 THEN append_promotions(mg, from, to)
  ELSE append_gmoves(mg, from, {to}, "pawn")

gen_king_moves(mg, dst_mask) ==
  append_gmoves(mg, mg.pos.ki,
    ((mg.pos.attack[0]["king"] \cap dst_mask) \ attacked(mg.pos, 1)) \ mg.pos.king_danger_map,
    "king")

gen_castle(mg, side, move, path, safe) ==
  IF /\ side \in mg.pos.cr[0]
     /\ path \cap occupied(mg.pos) = {}
     /\ safe \cap attacked(mg.pos, 1) = {}
  THEN {move} ELSE {}

gen_castle_king_side(mg) ==
  gen_castle(mg, "K", mcastle_king_side, {sq_f1, sq_g1}, {sq_f1, sq_g1})

gen_castle_queen_side(mg) ==
  gen_castle(mg, "Q", mcastle_queen_side, {sq_b1, sq_c1, sq_d1}, {sq_c1, sq_d1})

(* Capturing en passant takes two pawns off the rank of the king.          *)
is_ep_pinned_horizontally(mg, attackers) ==
  /\ is_singular(attackers)
  /\ LET hor_reach(i) == rook_reach(mg.pos, i) \cap hor_masks[i]
         ray == hor_reach(bsf(attackers)) \cup hor_reach(mg.pos.ep_index)
     IN  ray \cap own(mg, "king") # {} /\ ray \cap rq(mg.pos, 1) # {}

(* Wrong variant: only the captor's own pin is looked at.                  *)
gen_en_passant_unpinned(mg) ==
  LET victim == {mg.pos.ep_index}
      to64 == north_of(victim)
      captors == (pawn_reach_south(to64) \cap own(mg, "pawn")) \ mg.pinned_ver
  IN  IF ~pos_has_ep_target(mg.pos) \/ mg.dst_mask \cap (to64 \cup victim) = {} THEN {}
      ELSE {create_move_ep(from, mg.pos.ep_index + NORTH) :
              from \in ((captors \cap east_of(victim)) \ mg.pinned_adiag)
                         \cup ((captors \cap west_of(victim)) \ mg.pinned_diag)}

gen_en_passant(mg) ==
  LET victim == {mg.pos.ep_index}
      to64 == north_of(victim)
      attackers == pawn_reach_south(to64) \cap own(mg, "pawn")
      captors == attackers \ mg.pinned_ver
  IN  IF \/ ~pos_has_ep_target(mg.pos)
         \/ mg.dst_mask \cap (to64 \cup victim) = {}
         \/ mg.pinned_diag \cap victim # {}
         \/ mg.pinned_adiag \cap victim # {}
         \/ is_ep_pinned_horizontally(mg, attackers)
      THEN {}
      ELSE {create_move_ep(from, mg.pos.ep_index + NORTH) :
              from \in ((captors \cap east_of(victim)) \ mg.pinned_adiag)
                         \cup ((captors \cap west_of(victim)) \ mg.pinned_diag)}

gen_pawn_pushes(mg) ==
  LET pawns == ((own(mg, "pawn") \ mg.pinned_hor) \ mg.pinned_diag) \ mg.pinned_adiag
      empty(bb) == bb \ occupied(mg.pos)
      pushes == empty(north_of(pawns)) \cap mg.dst_mask
      double_pushes ==
        empty(north_of(empty(north_of(pawns \cap RANK(rank_2))))) \cap mg.dst_mask
  IN  UNION {append_pawn_move(mg, to + SOUTH, to) : to \in pushes}
        \cup {create_move_pd(to + SOUTH + SOUTH, to) : to \in double_pushes}

gen_pawn_captures(mg) ==
  LET pawns == (own(mg, "pawn") \ mg.pinned_hor) \ mg.pinned_ver
      victims == pieces(mg.pos, 1) \cap mg.dst_mask
      west == victims \cap north_of(west_of((pawns \ mg.pinned_adiag) \ FILE(file_a)))
      east == victims \cap north_of(east_of((pawns \ mg.pinned_diag) \ FILE(file_h)))
  IN  UNION {append_pawn_move(mg, to + SOUTH + EAST, to) : to \in west}
        \cup UNION {append_pawn_move(mg, to + SOUTH + WEST, to) : to \in east}

gen_knight_moves(mg) ==
  UNION {append_gmoves(mg, from, knight_pattern[from] \cap mg.dst_mask, "knight") :
           from \in own(mg, "knight") \ mg.pos.king_pins[0]}

gen_bishop_moves(mg) ==
  LET line(i) == IF i \in mg.pinned_diag THEN diag_masks[i]
                 ELSE IF i \in mg.pinned_adiag THEN adiag_masks[i] ELSE Square
  IN  UNION {append_gmoves(mg, from, bishop_reach(mg.pos, from) \cap line(from) \cap mg.dst_mask,
                           "bishop") : from \in (own(mg, "bishop") \ mg.pinned_hor) \ mg.pinned_ver}

gen_rook_moves(mg) ==
  LET line(i) == IF i \in mg.pinned_hor THEN hor_masks[i]
                 ELSE IF i \in mg.pinned_ver THEN ver_masks[i] ELSE Square
  IN  UNION {append_gmoves(mg, from, rook_reach(mg.pos, from) \cap line(from) \cap mg.dst_mask,
                           "rook") : from \in (own(mg, "rook") \ mg.pinned_diag) \ mg.pinned_adiag}

gen_queen_moves(mg) ==
  LET dst_map(i) ==
        CASE i \in mg.pinned_hor -> rook_reach(mg.pos, i) \cap hor_masks[i]
          [] i \in mg.pinned_ver \ mg.pinned_hor -> rook_reach(mg.pos, i) \cap ver_masks[i]
          [] i \in mg.pinned_diag -> bishop_reach(mg.pos, i) \cap diag_masks[i]
          [] i \in mg.pinned_adiag -> bishop_reach(mg.pos, i) \cap adiag_masks[i]
          [] OTHER -> bishop_reach(mg.pos, i) \cup rook_reach(mg.pos, i)
  IN  UNION {append_gmoves(mg, from, dst_map(from) \cap mg.dst_mask, "queen") :
               from \in own(mg, "queen")}

gen_piece_moves(mg) ==
  gen_knight_moves(mg) \cup gen_rook_moves(mg) \cup gen_bishop_moves(mg)
    \cup gen_queen_moves(mg) \cup gen_pawn_captures(mg) \cup gen_pawn_pushes(mg)

gen_castles(mg) ==
  IF is_in_check(mg.pos) THEN {} ELSE gen_castle_king_side(mg) \cup gen_castle_queen_side(mg)

gen_all_moves(mg) ==
  gen_king_moves(mg, Square \ pieces(mg.pos, 0))
    \cup IF Cardinality(pos_king_attackers(mg.pos)) > 1 THEN {}
         ELSE gen_castles(mg) \cup gen_piece_moves(mg) \cup gen_en_passant(mg)

gen_moves(pos) ==
  gen_all_moves(init_data(pos, IF is_in_check(pos) THEN pos.king_attack_map
                               ELSE Square \ pieces(pos, 0), FALSE))

(* Called only when the king is not in check.                              *)
gen_captures(pos) ==
  LET mg == init_data(pos, pieces(pos, 1), TRUE)
  IN  gen_en_passant(mg)
        \cup IF attacked(pos, 0) \cap pieces(pos, 1) = {} THEN {}
             ELSE gen_piece_moves(mg) \cup gen_king_moves(mg, pieces(pos, 1))

(* The position in which gen_moves lists a kind of move.                   *)
ListedBefore(pos, m, n) ==
  LET kind(x) ==
        CASE x.type \in {"castle king side", "castle queen side"} -> 0
          [] x.type = "double push" -> 6
          [] x.type = "en passant" -> 7
          [] x.type \notin {"castle king side", "castle queen side", "double push", "en passant"} ->
               LET p == pos.board[x.from]
               IN  CASE p = "knight" -> 1 [] p = "rook" -> 2 [] p = "bishop" -> 3 [] p = "queen" -> 4
                     [] p = "pawn" -> (IF is_capture(x) THEN 5 ELSE 6) [] p = "king" -> 8
  IN  kind(m) < kind(n)
=============================================================================
