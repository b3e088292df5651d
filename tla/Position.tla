------------------------------ MODULE Position ------------------------------
(***************************************************************************)
(* A chess position as src/src/position.c keeps it: always from the point  *)
(* of view of the player to move (0, moving north) against the opponent    *)
(* (1), with the tables that make_move and position_flip update step by    *)
(* step and position_reset computes from the bare board.                   *)
(*                                                                         *)
(* A hash key is the set of the random numbers xored into it.  What the    *)
(* code keeps beside its parts (rq, bq, nb, all_kings ..., attack[0],      *)
(* sliding_attacks) is computed from the parts wherever it is used.        *)
(***************************************************************************)
EXTENDS Bitboards, StaticExchange, TLC

LOCAL INSTANCE FiniteSetsExt

Player == {0, 1}
opponent_of(s) == 1 - s

Piece == {"pawn", "rook", "king", "bishop", "knight", "queen"}
NoPiece == "none"

piece_value ==
  [p \in Piece |-> CASE p = "pawn" -> 100 [] p = "knight" -> 300 [] p = "bishop" -> 300
                     [] p = "rook" -> 500 [] p = "queen" -> 930 [] p = "king" -> 0]

md_pvalue ==
  [p \in Piece \ {"king"} |->
     CASE p = "pawn" -> 1 [] p = "knight" -> 3 [] p = "bishop" -> 3
       [] p = "rook" -> 5 [] p = "queen" -> 9]

(***************************************************************************)
(* A move: mfrom, mto, mtype, mresultp and mcapturedp.                     *)
(***************************************************************************)
create_move(type, from, to, result, captured) ==
  [type |-> type, from |-> from, to |-> to, result |-> result, captured |-> captured]

create_move_g(from, to, result, captured) == create_move("general", from, to, result, captured)
create_move_pr(from, to, result, captured) == create_move("promotion", from, to, result, captured)
create_move_pd(from, to) == create_move("double push", from, to, "pawn", NoPiece)
create_move_ep(from, to) == create_move("en passant", from, to, "pawn", "pawn")

mcastle_king_side == create_move("castle king side", sq_e1, sq_g1, "king", NoPiece)
mcastle_queen_side == create_move("castle queen side", sq_e1, sq_c1, "king", NoPiece)

is_capture(m) == m.captured # NoPiece
is_promotion(m) == m.type = "promotion"
flip_m(m) == [m EXCEPT !.from = flip_i(@), !.to = flip_i(@)]

(***************************************************************************)
(* What accumulate_occupancy and the getters of position.h compute.        *)
(***************************************************************************)
pieces(pos, s) == UNION {pos.map[s][p] : p \in Piece}
occupied(pos) == pieces(pos, 0) \cup pieces(pos, 1)
rq(pos, s) == pos.map[s]["rook"] \cup pos.map[s]["queen"]
bq(pos, s) == pos.map[s]["bishop"] \cup pos.map[s]["queen"]
nb(pos, s) == pos.map[s]["knight"] \cup pos.map[s]["bishop"]
all(pos, p) == pos.map[0][p] \cup pos.map[1][p]
attacked(pos, s) == UNION {pos.attack[s][p] : p \in Piece}

pos_player_at(pos, i) == IF i \in pieces(pos, 1) THEN 1 ELSE 0
bishop_reach(pos, i) == pos.rays["bishop"][i]
rook_reach(pos, i) == pos.rays["rook"][i]
pos_king_attackers(pos) == pos.king_attack_map \cap pieces(pos, 1)
is_in_check(pos) == pos.king_attack_map # {}
pos_has_ep_target(pos) == pos.ep_index # 0

(* a ^ b, for boards and for keys.                                         *)
xor(a, b) == (a \ b) \cup (b \ a)

(* z_random[p + s][i], the castling constants, and the same feature in the *)
(* opponent's key.                                                         *)
NoSquare == 64
square_feature(p, s, i) == <<p, s, i>>
castle_feature(side, s) == <<side, s, NoSquare>>
opponent_feature(f) ==
  <<f[1], opponent_of(f[2]), IF f[3] = NoSquare THEN NoSquare ELSE flip_i(f[3])>>

z2_toggle(zhash, features) ==
  [s \in Player |-> xor(zhash[s], IF s = 0 THEN features
                                 ELSE {opponent_feature(f) : f \in features})]

(***************************************************************************)
(* The rays: generated from scratch, and kept up to date when a square is  *)
(* vacated or occupied.                                                    *)
(***************************************************************************)
generate_rays(occ, dirs) == [i \in Square |-> reach(occ, i, dirs)]

generate_all_rays(occ) ==
  [bishop |-> generate_rays(occ, DiagDirs \cup AdiagDirs),
   rook |-> generate_rays(occ, HorDirs \cup VerDirs)]

flip_ray_array(rays) == [i \in Square |-> bswap(rays[flip_i(i)])]
flip_all_rays(rays) ==
  [bishop |-> flip_ray_array(rays.bishop), rook |-> flip_ray_array(rays.rook)]

(* Each end of a line through i now sees on to the other end.              *)
update_rays_empty_square(rays, masks_of, i) ==
  [j \in rays[i] |-> rays[j] \cup (rays[i] \cap masks_of[j])] @@ rays

(* No square on one side of i sees past it to the other side.              *)
update_rays_occupied_square(rays, i) ==
  LET lower_half == {j \in rays[i] : j < i}
      higher_half == rays[i] \ lower_half
  IN  [j \in rays[i] |-> rays[j] \ IF j < i THEN higher_half ELSE lower_half] @@ rays

update_all_rays_empty_square(rays, i) ==
  [bishop |-> update_rays_empty_square(rays.bishop, bishop_masks, i),
   rook |-> update_rays_empty_square(rays.rook, rook_masks, i)]

update_all_rays_occupied_square(rays, i) ==
  [bishop |-> update_rays_occupied_square(rays.bishop, i),
   rook |-> update_rays_occupied_square(rays.rook, i)]

(* Wrong variant: the pawn captured en passant still blocks.               *)
update_all_rays_blocked(rays, m) ==
  LET entered ==
        update_all_rays_occupied_square(update_all_rays_empty_square(rays, m.from), m.to)
  IN  CASE m.type = "castle king side" -> update_all_rays_occupied_square(entered, sq_f8)
        [] m.type = "castle queen side" -> update_all_rays_occupied_square(entered, sq_d8)
        [] m.type # "en passant" /\ is_capture(m) -> update_all_rays_empty_square(rays, m.from)
        [] OTHER -> entered

(* What follows when the mover has left its square and taken the other;    *)
(* a square it captured on was occupied before.                            *)
rays_after_move(vacated, entered, m) ==
  CASE m.type = "en passant" -> update_all_rays_empty_square(entered, m.to + NORTH)
    [] m.type = "castle king side" -> update_all_rays_occupied_square(entered, sq_f8)
    [] m.type = "castle queen side" -> update_all_rays_occupied_square(entered, sq_d8)
    [] m.type # "en passant" /\ is_capture(m) -> vacated
    [] OTHER -> entered

rays_after_leaving(vacated, m) ==
  rays_after_move(vacated, update_all_rays_occupied_square(vacated, m.to), m)

update_all_rays(rays, m) == rays_after_leaving(update_all_rays_empty_square(rays, m.from), m)

(***************************************************************************)
(* Attacks.  pos is a position whose board, map and rays are in place.     *)
(***************************************************************************)
sliding(pos, from, s) == UNION {pos.rays[s][i] : i \in from}

generate_attacks(pos, s) ==
  [p \in Piece |->
    LET from == pos.map[s][p]
    IN  CASE p = "pawn" -> IF s = 0 THEN pawn_reach_north(from) ELSE pawn_reach_south(from)
          [] p = "king" -> king_pattern[IF s = 0 THEN pos.ki ELSE pos.opp_ki]
          [] p = "knight" -> UNION {knight_pattern[i] : i \in from}
          [] p \in Slider -> sliding(pos, from, p)
          [] p = "queen" -> sliding(pos, from, "bishop") \cup sliding(pos, from, "rook")]

(* The line of a ray from the king to one opponent slider on it: the line  *)
(* goes on behind the king, where the king cannot flee.                    *)
CheckLine(pos, slider, bandit) ==
  LET r == pos.rays[slider][pos.ki]
      first == IF slider = "bishop" THEN diag_masks[pos.ki] ELSE hor_masks[pos.ki]
      second == IF slider = "bishop" THEN adiag_masks[pos.ki] ELSE ver_masks[pos.ki]
  IN  r \cap (IF bandit \in first THEN first ELSE second)

Checkers(pos, slider) ==
  pos.rays[slider][pos.ki] \cap (IF slider = "bishop" THEN bq(pos, 1) ELSE rq(pos, 1))

search_king_attacks(pos) ==
  [attack_map |->
     (pawn_reach_north({pos.ki}) \cap pos.map[1]["pawn"])
       \cup (knight_pattern[pos.ki] \cap pos.map[1]["knight"])
       \cup UNION {(CheckLine(pos, s, b) \cap pos.rays[s][b]) \cup {b}
                     : <<s, b>> \in UNION {{s} \X Checkers(pos, s) : s \in Slider}},
   danger_map |->
     UNION {CheckLine(pos, s, b) \ {b}
              : <<s, b>> \in UNION {{s} \X Checkers(pos, s) : s \in Slider}}]

(* Pieces of either side that alone stand between a king and an opponent   *)
(* slider.                                                                 *)
search_pins(pos) ==
  [s \in Player |->
    LET k == IF s = 0 THEN pos.ki ELSE pos.opp_ki
        Bandits(sl) == ((slider_masks[sl][k] \cap (IF sl = "bishop" THEN bq(pos, opponent_of(s))
                                                   ELSE rq(pos, opponent_of(s))))
                          \ pos.rays[sl][k])
        Between(sl, b) == pos.rays[sl][k] \cap pos.rays[sl][b] \cap occupied(pos)
    IN  UNION {UNION {Between(sl, b) : b \in {c \in Bandits(sl) : is_singular(Between(sl, c))}}
                 : sl \in Slider}]

pawn_attack_reach(filled) == (west_of(filled) \ FILE(file_h)) \cup (east_of(filled) \ FILE(file_a))

generate_pawn_reach_maps(pawns) ==
  LET filled == kogge_stone_north(north_of(pawns))
  IN  [half_open |-> Square \ kogge_stone_south(filled), attack_reach |-> pawn_attack_reach(filled)]

generate_opponent_pawn_reach_maps(pawns) ==
  LET filled == kogge_stone_south(south_of(pawns))
  IN  [half_open |-> Square \ kogge_stone_north(filled), attack_reach |-> pawn_attack_reach(filled)]

(***************************************************************************)
(* find_hanging_pieces: what each attacked piece loses in the exchange on  *)
(* its square.                                                             *)
(***************************************************************************)
find_attackers(pos, i) ==
  (all(pos, "king") \cap king_pattern[i])
    \cup (all(pos, "knight") \cap knight_pattern[i])
    \cup ((rq(pos, 0) \cup rq(pos, 1)) \cap rook_reach(pos, i))
    \cup ((bq(pos, 0) \cup bq(pos, 1)) \cap bishop_reach(pos, i))
    \cup (pos.map[0]["pawn"] \cap pawn_reach_south({i}))
    \cup (pos.map[1]["pawn"] \cap pawn_reach_north({i}))

(* The table is looked up with the side that owns the attacked piece as    *)
(* side 0.                                                                 *)
attack_code(pos, attackers, s) ==
  [side \in Player |->
    LET owner == IF side = 0 THEN s ELSE opponent_of(s)
        count(bb, a) == IF Cardinality(attackers \cap bb) > count_limit[a]
                        THEN count_limit[a] ELSE Cardinality(attackers \cap bb)
    IN  [a \in DOMAIN count_limit |->
          count(IF a = "nb" THEN nb(pos, owner) ELSE pos.map[owner][a], a)]]

positive(n) == IF n > 0 THEN n ELSE 0

find_hanging_pieces(pos) ==
  LET exposed == ((pieces(pos, 0) \cap attacked(pos, 1)) \cup (pieces(pos, 1) \cap attacked(pos, 0)))
                   \ all(pos, "king")
      Loss(i) == md_pvalue[pos.board[i]]
                   - SEE_value(attack_code(pos, find_attackers(pos, i), pos_player_at(pos, i)))
  IN  [i \in Square |-> IF i \in exposed THEN positive(Loss(i)) ELSE 0]

(* What position_reset and make_move both compute, in this order, once     *)
(* pieces and rays are in place.                                           *)
with_attacks(pos, king_attacks) ==
  [pos EXCEPT !.king_attack_map = king_attacks.attack_map,
              !.king_danger_map = king_attacks.danger_map,
              !.king_pins = search_pins(pos),
              !.attack = [s \in Player |-> generate_attacks(pos, s)]]

with_undefended(pos) ==
  [pos EXCEPT !.undefended = [s \in Player |-> pieces(pos, s) \ attacked(pos, s)]]

with_hanging(pos) == [pos EXCEPT !.hanging = find_hanging_pieces(pos)]

refreshed(pos) == with_hanging(with_undefended(with_attacks(pos, search_king_attacks(pos))))

(***************************************************************************)
(* position_reset: a position from the bare placement of the pieces, the   *)
(* castling rights and the en passant square, or a refusal.                *)
(***************************************************************************)
Side == {"K", "Q"}

king_home(s) == IF s = 0 THEN sq_e1 ELSE sq_e8
rook_home(side, s) ==
  CASE side = "K" -> (IF s = 0 THEN sq_h1 ELSE sq_h8)
    [] side = "Q" -> (IF s = 0 THEN sq_a1 ELSE sq_a8)

material(map, s) == MapThenSumSet(LAMBDA p : piece_value[p] * Cardinality(map[s][p]), Piece)

setup_zhash(map, cr) ==
  z2_toggle([s \in Player |-> {}],
    UNION {{square_feature(p, s, i) : i \in map[s][p]} : <<p, s>> \in Piece \X Player}
      \cup UNION {{castle_feature(side, s) : side \in cr[s]} : s \in Player})

can_be_valid_ep_index(map, index) ==
  LET occ == UNION {UNION {map[s][p] : p \in Piece} : s \in Player}
  IN  /\ ind_rank(index) = rank_5
      /\ index \in map[1]["pawn"]
      /\ index + NORTH \notin occ
      /\ index + NORTH + NORTH \notin occ

placement_valid(map, cr, ep_index) ==
  /\ ep_index # 0 => can_be_valid_ep_index(map, ep_index)
  /\ \A s \in Player : Cardinality(UNION {map[s][p] : p \in Piece}) <= 16
  /\ \A s \in Player : is_singular(map[s]["king"])
  /\ king_pattern[bsf(map[0]["king"])] \cap map[1]["king"] = {}
  /\ \A s \in Player : /\ Cardinality(map[s]["pawn"]) <= 8
                       /\ map[s]["pawn"] \cap (RANK(0) \cup RANK(7)) = {}
  /\ \A s \in Player : \A side \in cr[s] : /\ king_home(s) \in map[s]["king"]
                                           /\ rook_home(side, s) \in map[s]["rook"]

kings_attacks_valid(pos) ==
  LET few(bb, n) == Cardinality(bb) <= n
      rq_attackers == rook_reach(pos, pos.ki) \cap rq(pos, 1)
  IN  /\ attacked(pos, 0) \cap pos.map[1]["king"] = {}
      /\ few(pawn_reach_north({pos.ki}) \cap pos.map[1]["pawn"], 1)
      /\ few(bishop_reach(pos, pos.ki) \cap bq(pos, 1), 1)
      /\ few(rq_attackers, 2)
      /\ few(rq_attackers \ RANK(7), 1)
      /\ few(knight_pattern[pos.ki] \cap pos.map[1]["knight"], 1)

Refused == [refused |-> TRUE]
refused_unless_kings_valid(pos) == IF kings_attacks_valid(pos) THEN pos ELSE Refused

board_reset(map) ==
  [i \in Square |-> IF \E p \in Piece : i \in map[0][p] \cup map[1][p]
                    THEN CHOOSE p \in Piece : i \in map[0][p] \cup map[1][p]
                    ELSE NoPiece]

position_reset(map, cr, ep_index) ==
  IF ~placement_valid(map, cr, ep_index)
  THEN Refused
  ELSE LET reaches == <<generate_pawn_reach_maps(map[0]["pawn"]),
                        generate_opponent_pawn_reach_maps(map[1]["pawn"])>>
       IN  refused_unless_kings_valid(refreshed(
             [board |-> board_reset(map), map |-> map, cr |-> cr, ep_index |-> ep_index,
              ki |-> bsf(map[0]["king"]), opp_ki |-> bsf(map[1]["king"]),
              material |-> [s \in Player |-> material(map, s)],
              rays |-> generate_all_rays(UNION {UNION {map[s][p] : p \in Piece} : s \in Player}),
              half_open_files |-> [s \in Player |-> reaches[s + 1].half_open],
              pawn_attack_reach |-> [s \in Player |-> reaches[s + 1].attack_reach],
              zhash |-> setup_zhash(map, cr),
              king_attack_map |-> {}, king_danger_map |-> {}, king_pins |-> {},
              attack |-> {}, undefended |-> {}, hanging |-> {}]))

(***************************************************************************)
(* Playing a move: the board turned round, then the mover, now the         *)
(* opponent, moves a piece south.                                          *)
(***************************************************************************)
swapped(pair) == [s \in Player |-> pair[opponent_of(s)]]
flip_bb_pair(pair) == [s \in Player |-> bswap(pair[opponent_of(s)])]
flip_piece_maps(maps) == [s \in Player |-> [p \in Piece |-> bswap(maps[opponent_of(s)][p])]]
flip_chess_board(board) == [i \in Square |-> board[flip_i(i)]]

(* flip_chess_board, flip_piece_maps, clear_extra_bitboards, flip_all_rays *)
(* and flip_tail, with which make_move and position_flip begin.            *)
flipped(src) ==
  [src EXCEPT !.board = flip_chess_board(@),
              !.map = flip_piece_maps(@),
              !.half_open_files = flip_bb_pair(@),
              !.pawn_attack_reach = flip_bb_pair(@),
              !.king_attack_map = {}, !.king_danger_map = {}, !.ep_index = 0,
              !.rays = flip_all_rays(@),
              !.zhash = swapped(@), !.cr = swapped(@), !.material = swapped(@)]

(* The null move: nothing is computed anew.                                *)
position_flip(src) ==
  [flipped(src) EXCEPT !.ki = flip_i(src.opp_ki),
                       !.opp_ki = flip_i(src.ki),
                       !.attack = flip_piece_maps(@),
                       !.king_pins = flip_bb_pair(@),
                       !.undefended = flip_bb_pair(@),
                       !.hanging = flip_chess_board(@)]

has_potential_ep_captor(pos, i) ==
  \/ ind_file(i) # file_h /\ i + EAST \in pos.map[0]["pawn"]
  \/ ind_file(i) # file_a /\ i + WEST \in pos.map[0]["pawn"]

clear_to_square(pos, i) ==
  LET p == pos.board[i]
  IN  IF p = NoPiece THEN pos
      ELSE [pos EXCEPT !.material[0] = @ - piece_value[p], !.map[0][p] = @ \ {i}]

move_pawn(pos, m) ==
  LET moved == [pos EXCEPT !.board[m.to] = "pawn", !.board[m.from] = NoPiece,
                           !.map[1]["pawn"] = xor(@, {m.from, m.to})]
  IN  CASE m.type = "en passant" ->
             [moved EXCEPT !.board[m.to + NORTH] = NoPiece,
                           !.map[0]["pawn"] = @ \ {m.to + NORTH},
                           !.material[0] = @ - piece_value["pawn"]]
        [] m.type = "double push" /\ has_potential_ep_captor(pos, m.to) ->
             [moved EXCEPT !.ep_index = m.to]
        [] OTHER -> moved

castled(pos, m, rook_from, rook_to) ==
  [pos EXCEPT !.board[m.from] = NoPiece, !.board[m.to] = "king",
              !.board[rook_to] = "rook", !.board[rook_from] = NoPiece,
              !.map[1]["rook"] = xor(@, {rook_to, rook_from}),
              !.map[1]["king"] = xor(@, {m.from, m.to})]

move_piece(pos, m) ==
  LET porig == pos.board[m.from]
      left == [pos EXCEPT !.material[1] = @ + piece_value[m.result] - piece_value[porig],
                          !.map[1][porig] = @ \ {m.from}]
  IN  CASE m = flip_m(mcastle_king_side) -> castled(pos, m, sq_h8, sq_f8)
        [] m = flip_m(mcastle_queen_side) -> castled(pos, m, sq_a8, sq_d8)
        [] OTHER -> [left EXCEPT !.map[1][m.result] = @ \cup {m.to},
                                 !.board[m.from] = NoPiece, !.board[m.to] = m.result]

adjust_castle_rights_move(pos, m) ==
  LET lost == [s \in Player |->
                {side \in pos.cr[s] : IF s = 0 THEN m.to = rook_home(side, 0)
                                      ELSE m.from \in {rook_home(side, 1), sq_e8}}]
  IN  [pos EXCEPT !.cr = [s \in Player |-> @[s] \ lost[s]],
                  !.zhash = z2_toggle(@, UNION {{castle_feature(side, s) : side \in lost[s]}
                                                  : s \in Player})]

(* The row of zhash_xor_table for a move of the opponent.                  *)
zhash_xor_table(m) ==
  LET moved == IF is_promotion(m) THEN "pawn" ELSE m.result
      captured_on == IF m.type = "en passant" THEN m.to + NORTH ELSE m.to
      mover == {square_feature(moved, 1, m.from), square_feature(m.result, 1, m.to)}
      captured == IF is_capture(m) THEN {square_feature(m.captured, 0, captured_on)} ELSE {}
  IN  CASE m.type = "castle king side" ->
             mover \cup {square_feature("rook", 1, i) : i \in {sq_f8, sq_h8}}
        [] m.type = "castle queen side" ->
             mover \cup {square_feature("rook", 1, i) : i \in {sq_a8, sq_d8}}
        [] OTHER -> mover \cup captured

z2_xor_move(zhash, m) == z2_toggle(zhash, zhash_xor_table(m))

with_opponent_pawn_reach(pos) ==
  LET r == generate_opponent_pawn_reach_maps(pos.map[1]["pawn"])
  IN  [pos EXCEPT !.half_open_files[1] = r.half_open, !.pawn_attack_reach[1] = r.attack_reach]

with_pawn_reach(pos) ==
  LET r == generate_pawn_reach_maps(pos.map[0]["pawn"])
  IN  [pos EXCEPT !.half_open_files[0] = r.half_open, !.pawn_attack_reach[0] = r.attack_reach]

(* The mover, the captured piece and a castling rook, on an empty square.  *)
men_moved(pos, m) ==
  IF m.result = "pawn" THEN move_pawn(pos, m)
  ELSE adjust_castle_rights_move(move_piece(pos, m), m)

pawn_reach_updated(pos, m) ==
  IF m.result = "pawn" \/ is_promotion(m) THEN with_opponent_pawn_reach(pos) ELSE pos

opponent_pawn_reach_updated(pos, m) ==
  IF m.captured = "pawn" THEN with_pawn_reach(pos) ELSE pos

kings_and_keys_updated(pos, m) ==
  [pos EXCEPT !.ki = bsf(pos.map[0]["king"]),
              !.opp_ki = bsf(pos.map[1]["king"]),
              !.zhash = z2_xor_move(@, m)]

moved_by_opponent(turned, m) ==
  LET cleared == clear_to_square([turned EXCEPT !.rays = update_all_rays(@, m)], m.to)
  IN  kings_and_keys_updated(
        opponent_pawn_reach_updated(pawn_reach_updated(men_moved(cleared, m), m), m), m)

make_move(src, move) == refreshed(moved_by_opponent(flipped(src), flip_m(move)))

(***************************************************************************)
(* What the other components ask of a position.                            *)
(***************************************************************************)
pos_equal(a, b) == a.board = b.board /\ a.ep_index = b.ep_index /\ a.cr = b.cr

(* Wrong variant: a king or rook that gives up the right to castle.        *)
is_move_irreversible_but_rights(pos, m) ==
  m.type # "general" \/ is_capture(m) \/ pos.board[m.from] = "pawn"

is_move_irreversible(pos, m) ==
  \/ m.type # "general"
  \/ is_capture(m)
  \/ \E side \in pos.cr[0] : m.from \in {rook_home(side, 0), sq_e1}
  \/ \E side \in pos.cr[1] : m.to = rook_home(side, 1)
  \/ pos.board[m.from] = "pawn"

has_insufficient_material(pos) ==
  LET others == occupied(pos) \ all(pos, "king")
  IN  IF others = all(pos, "bishop")
      THEN others \cap BLACK_SQUARES = {} \/ others \subseteq BLACK_SQUARES
      ELSE is_singular(others) /\ pos.board[bsf(others)] = "knight"
=============================================================================
