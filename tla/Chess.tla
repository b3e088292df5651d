------------------------------- MODULE Chess -------------------------------
(***************************************************************************)
(* A game played on the board (src/src/game.c over position.c, move_gen.c, *)
(* move.c and fen.c): read from a FEN, then moved on by game_append.  The  *)
(* list of game.c is modelled in GameHistory; here an item carries a whole *)
(* position, and of the earlier items what pos_equal and a reader of the   *)
(* game may compare.                                                       *)
(***************************************************************************)
EXTENDS Notation, ChessLaws

CONSTANTS
    Opening     \* what games start from: a FEN, and their bound: for each ply
                \*   the squares (as the mover sees them) a move may start from

VARIABLES
    item,       \* game.current: pos, turn, ep_target_index, full_move, half_move
    past,       \* the items before it
    opening     \* the FEN and the bound of this game

vars == <<item, past, opening>>

Record(it) ==
  [turn |-> it.turn, board |-> it.pos.board, map |-> it.pos.map,
   ep_index |-> it.pos.ep_index, cr |-> it.pos.cr]

(* game_reset_fen                                                          *)
game_reset_fen(fen) ==
  [pos |-> position_read_fen_full(fen), turn |-> fen.turn,
   ep_target_index |-> FEN_parse_ep_target(fen),
   full_move |-> fen.full_move, half_move |-> fen.half_move]

Init ==
  /\ opening \in Opening
  /\ item = game_reset_fen(opening.fen)
  /\ item.pos # Refused
  /\ past = << >>

(* game_append; is_legal_move, its guard, is in Next                       *)
game_append(m) ==
  LET irreversible == is_move_irreversible(item.pos, m)
  IN  /\ Len(past) < Len(opening.squares) /\ m.from \in opening.squares[Len(past) + 1]
      /\ item' = [pos |-> make_move(item.pos, m),
                  turn |-> opponent_of(item.turn),
                  ep_target_index |->
                    IF m.type # "double push" THEN 0
                    ELSE IF item.turn = White THEN flip_i(m.to) ELSE m.to,
                  half_move |-> IF irreversible THEN 0 ELSE item.half_move + 1,
                  full_move |-> item.full_move + item.turn]
      /\ past' = Append(past, Record(item))
      /\ UNCHANGED opening

Next == \E m \in gen_moves(item.pos) : game_append(m)

Spec == Init /\ [][Next]_vars

game_print_fen(it) ==
  position_print_fen_full(it.pos, it.ep_target_index, it.full_move, it.half_move, it.turn)

game_is_draw_by_repetition ==
  Cardinality({i \in DOMAIN past : past[i].turn = item.turn /\ pos_equal(past[i], item.pos)}) >= 2

(***************************************************************************)
(* Properties.                                                             *)
(***************************************************************************)

(* The tables make_move updates from the tables of the position before --  *)
(* rays, pawn fills, hash keys, castling rights, material, the two boards  *)
(* -- are those position_reset computes from the bare pieces, which        *)
(* accepts every position of a game; and so are the tables that            *)
(* position_flip only turns round when the search passes a move.           *)
IncrementalExact ==
  LET pos == item.pos
  IN  /\ pos = position_reset(pos.map, pos.cr, pos.ep_index)
      /\ ~is_in_check(pos) =>
           position_flip(pos) = position_reset(flip_piece_maps(pos.map), swapped(pos.cr), 0)

(* gen_moves, from attack maps, pins and the squares that parry a check,   *)
(* lists exactly the legal moves; gen_captures, when not in check, the     *)
(* legal captures that promote, if at all, to a queen.                     *)
MovesExact ==
  LET legal == LegalMoves(item.pos)
  IN  /\ gen_moves(item.pos) = legal
      /\ ~is_in_check(item.pos) =>
           gen_captures(item.pos) =
             {m \in legal : is_capture(m) /\ (is_promotion(m) => m.result = "queen")}

(* The 50 move counter goes on just when the move played left the pawns,   *)
(* the number of pieces and the castling rights what they were: a position *)
(* before an irreversible move cannot come back, which is what the counter *)
(* and the engine's repetition history rely on.                            *)
IrreversibleExact ==
  [][LET before == item.pos
         after == item'.pos
         kept == /\ after.cr = swapped(before.cr)
                 /\ \A s \in Player : \A p \in Piece :
                      /\ p = "pawn" => bswap(after.map[1 - s][p]) = before.map[s][p]
                      /\ Cardinality(after.map[1 - s][p]) = Cardinality(before.map[s][p])
     IN  item'.half_move = IF kept THEN item.half_move + 1 ELSE 0]_vars

(* The FEN of a position, printed without the game (as the FEN book and    *)
(* the search print it), reads back as the same position of the same       *)
(* player: colours, castling rights and the en passant square survive the  *)
(* two changes of point of view.                                           *)
FenReadsBack ==
  LET fen == position_print_fen_full(item.pos, 0, item.full_move, item.half_move, item.turn)
  IN  position_read_fen_full(fen) = item.pos

(* The one clash the dropped characters make: a capture by the pawn of the *)
(* b file, where a bishop may go to the same square.                       *)
Clash(m, n) ==
  /\ item.pos.board[m.from] = "pawn" /\ is_capture(m) /\ ind_file(m.from) = 6
  /\ n # none_move /\ item.pos.board[n.from] = "bishop" /\ n.to = m.to

(* A legal move read from its coordinates is that move; read from its name *)
(* it is that move, or for a clash the bishop's.                           *)
MovesReadBack ==
  \A texts \in {MoveTexts(item.pos, item.turn)} : \A t \in texts :
    /\ read_move(item.pos, texts, t.coor) = t.move
    /\ \E n \in {read_move(item.pos, texts, t.san)} : n = t.move \/ Clash(t.move, n)

(* The FEN a game prints, with the en passant target game_append recorded, *)
(* is one the program reads back: the comment over FEN_parse_board shows   *)
(* the target of a black double push on the sixth rank.                    *)
GameFenReadsBack ==
  LET reread == game_reset_fen(game_print_fen(item))
  IN  reread.pos # Refused

(* A draw announced as a repetition is one: the same pieces of the same    *)
(* players stood on the same squares three times.                          *)
RepetitionIsReal ==
  game_is_draw_by_repetition =>
    Cardinality({i \in DOMAIN past : past[i].turn = item.turn /\ past[i].map = item.pos.map}) >= 2
=============================================================================
