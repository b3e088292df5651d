------------------------------ MODULE Notation ------------------------------
(***************************************************************************)
(* Positions and moves as text: src/src/fen.c, move.c and str_util.c.      *)
(*                                                                         *)
(* A FEN is a record of its fields, with the squares as white sees them    *)
(* (a8 first): the layout of the text itself is left out.  The text of a   *)
(* move is the sequence of its characters, since read_move looks for a     *)
(* move whose characters, after some are dropped, are the given ones.      *)
(***************************************************************************)
EXTENDS MoveGen

LOCAL INSTANCE SequencesExt

White == 0
Black == 1

(* A square seen by one player, as the other player sees it.               *)
seen_by(turn, i) == IF turn = Black THEN flip_i(i) ELSE i

(***************************************************************************)
(* FEN.                                                                    *)
(***************************************************************************)
USHRT_MAX == 65535

FEN_print_board(pos, turn) ==
  IF turn = Black THEN flip_piece_maps(pos.map) ELSE pos.map

FEN_print_castle_rights(pos, turn) == IF turn = Black THEN swapped(pos.cr) ELSE pos.cr

(* Wrong variant: the target as the player to move sees it.                *)
FEN_print_ep_target_unturned(ep_index, turn) ==
  IF ep_index = 0 THEN 0 ELSE ep_index + NORTH

(* 0 stands for the dash; h8, the square 0, is never a target.             *)
FEN_print_ep_target(ep_index, turn) ==
  IF ep_index = 0 THEN 0 ELSE seen_by(turn, ep_index + NORTH)

position_print_fen_full(pos, ep_index, full_move, half_move, turn) ==
  [board |-> FEN_print_board(pos, turn),
   turn |-> turn,
   rights |-> FEN_print_castle_rights(pos, turn),
   ep_target |-> FEN_print_ep_target(IF ep_index = 0 THEN pos.ep_index ELSE ep_index, turn),
   half_move |-> half_move, full_move |-> full_move]

is_valid_ep_pos(target, turn) == ind_rank(target) = IF turn = White THEN 2 ELSE 5

(* What the reader keeps of the target: the square of the pawn that may be *)
(* captured, seen by the player to move.                                   *)
FEN_parse_ep_target(fen) ==
  IF fen.ep_target = 0 THEN 0 ELSE seen_by(fen.turn, fen.ep_target) + SOUTH

move_counters_valid(fen) ==
  fen.half_move <= USHRT_MAX /\ fen.full_move \in 1 .. USHRT_MAX

position_read_fen_full(fen) ==
  IF \/ fen.ep_target # 0 /\ ~is_valid_ep_pos(fen.ep_target, fen.turn)
     \/ ~move_counters_valid(fen)
  THEN Refused
  ELSE position_reset(IF fen.turn = Black THEN flip_piece_maps(fen.board) ELSE fen.board,
                      IF fen.turn = Black THEN swapped(fen.rights) ELSE fen.rights,
                      FEN_parse_ep_target(fen))

(***************************************************************************)
(* The text of a move.                                                     *)
(***************************************************************************)
file_ch == <<"h", "g", "f", "e", "d", "c", "b", "a">>
rank_ch == <<"8", "7", "6", "5", "4", "3", "2", "1">>

index_to_file_ch(i) == file_ch[ind_file(i) + 1]
index_to_rank_ch(i, turn) == rank_ch[ind_rank(seen_by(turn, i)) + 1]
print_index(i, turn) == <<index_to_file_ch(i), index_to_rank_ch(i, turn)>>

piece_to_char ==
  [p \in Piece |-> CASE p = "pawn" -> "p" [] p = "knight" -> "n" [] p = "bishop" -> "b"
                     [] p = "rook" -> "r" [] p = "queen" -> "q" [] p = "king" -> "k"]

toupper ==
  [c \in {"k", "q", "r", "b", "n"} |->
     CASE c = "k" -> "K" [] c = "q" -> "Q" [] c = "r" -> "R" [] c = "b" -> "B" [] c = "n" -> "N"]

print_coor_move(m, turn) ==
  print_index(m.from, turn) \o print_index(m.to, turn)
    \o IF is_promotion(m) THEN <<piece_to_char[m.result]>> ELSE << >>

(* Wrong variant: the file is taken to be enough.                          *)
print_san_move_from_file(pos, m, turn) ==
  LET p == pos.board[m.from]
      ambig == {n \in gen_moves(pos) : n.from # m.from /\ n.to = m.to /\ pos.board[n.from] = p}
  IN  IF (IF p = "pawn" THEN is_capture(m) ELSE ambig # {})
      THEN <<index_to_file_ch(m.from)>> ELSE << >>

(* Which of its coordinates tell the mover from the other pieces of its    *)
(* kind that may move to the same square.                                  *)
coordinates_needed(pos, m, turn, ambig) ==
  LET p == pos.board[m.from]
      same_file == \E i \in ambig : ind_file(i) = ind_file(m.from)
      same_rank == \E i \in ambig : ind_rank(i) = ind_rank(m.from)
      file == <<index_to_file_ch(m.from)>>
      rank == <<index_to_rank_ch(m.from, turn)>>
  IN  CASE p = "pawn" -> (IF is_capture(m) THEN file ELSE << >>)
        [] p # "pawn" /\ ambig = {} -> << >>
        [] p # "pawn" /\ ambig # {} /\ ~same_file -> file
        [] p # "pawn" /\ same_file /\ ~same_rank -> rank
        [] p # "pawn" /\ same_file /\ same_rank -> file \o rank

print_san_move_from(pos, m, turn) ==
  coordinates_needed(pos, m, turn,
    {n.from : n \in {n \in gen_moves(pos) : /\ n.from # m.from /\ n.to = m.to
                                            /\ pos.board[n.from] = pos.board[m.from]}})

print_san_check(child) ==
  IF ~is_in_check(child) THEN << >>
  ELSE IF gen_moves(child) = {} THEN <<"#">> ELSE <<"+">>

print_san_move(pos, m, turn) ==
  LET p == pos.board[m.from]
      piece == IF p = "pawn" THEN << >> ELSE <<toupper[piece_to_char[p]]>>
      capture == IF is_capture(m) THEN <<"x">> ELSE << >>
      promotion == IF is_promotion(m) THEN <<"=", toupper[piece_to_char[m.result]]>> ELSE << >>
  IN  CASE m.type = "castle king side" -> <<"O", "-", "O">>
        [] m.type = "castle queen side" -> <<"O", "-", "O", "-", "O">>
        [] OTHER -> piece \o print_san_move_from(pos, m, turn) \o capture
                      \o print_index(m.to, turn)
                      \o IF m.type = "en passant" THEN <<"e", ".", "p", ".">>
                         ELSE promotion \o print_san_check(make_move(pos, m))

(***************************************************************************)
(* Reading a move.                                                         *)
(***************************************************************************)
CoordinateChars == {"a", "b", "c", "d", "e", "f", "g", "h"} \cup {"1", "2", "3", "4", "5", "6", "7", "8"}

(* What is left of a character: a piece letter loses its case, and what is *)
(* neither a coordinate nor part of a castling move is dropped.            *)
cleaned(c) ==
  CASE c \in {"K", "Q", "R", "B", "N"} -> <<CHOOSE l \in DOMAIN toupper : toupper[l] = c>>
    [] c \in DOMAIN toupper \cup CoordinateChars -> <<c>>
    [] c \in {"o", "O"} -> <<"O">>
    [] c = "-" -> <<"-">>
    [] OTHER -> << >>

cleanup_move(str) ==
  LET dotless == SelectSeq(str, LAMBDA c : c # ".")
      n == Len(dotless)
      kept == IF n >= 3 /\ SubSeq(dotless, n - 1, n) = <<"e", "p">>
              THEN SubSeq(dotless, 1, n - 2) ELSE dotless
  IN  FlattenSeq([i \in DOMAIN kept |-> cleaned(kept[i])])

MoveTextLength == 7     \* sizeof(str) - 1 in read_move

none_move == [none |-> TRUE]

(* The legal moves with the two texts they may be entered by.              *)
MoveTexts(pos, turn) ==
  {[move |-> m, coor |-> print_coor_move(m, turn), san |-> print_san_move(pos, m, turn)]
     : m \in gen_moves(pos)}

(* The first move of the list that has the given text, by coordinates or   *)
(* by name, the text being cleaned up first.                               *)
first_named(pos, texts, str) ==
  LET named == {t.move : t \in {u \in texts : str \in {u.coor, cleanup_move(u.san)}}}
  IN  IF named = {} THEN none_move
      ELSE CHOOSE m \in named : \A n \in named : ~ListedBefore(pos, n, m)

read_move(pos, texts, move_str) ==
  first_named(pos, texts,
    cleanup_move(SubSeq(move_str, 1, IF Len(move_str) > MoveTextLength
                                     THEN MoveTextLength ELSE Len(move_str))))
=============================================================================
