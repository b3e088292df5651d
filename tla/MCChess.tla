------------------------------ MODULE MCChess ------------------------------
(***************************************************************************)
(* Openings and books for Chess: small positions, each with a rule that is easy to   *)
(* get wrong, followed for a few plies.                                    *)
(***************************************************************************)
EXTENDS Books

W(p, i) == <<p, White, i>>
B(p, i) == <<p, Black, i>>

Placement(men) ==
  [s \in Player |-> [p \in Piece |-> {m[3] : m \in {n \in men : n[1] = p /\ n[2] = s}}]]

(* A square by file (1 for a) and rank.                                    *)
sq(file, rank) == ind(8 - rank, 8 - file)

FEN(men, turn, white_rights, black_rights, target) ==
  [board |-> Placement(men), turn |-> turn,
   rights |-> [s \in Player |-> IF s = White THEN white_rights ELSE black_rights],
   ep_target |-> target, half_move |-> 3, full_move |-> 7]

Game(fen, squares) == [fen |-> fen, squares |-> squares]

(* Squares by file and rank, as white and as black sees them.              *)
W_(files_ranks) == {sq(x[1], x[2]) : x \in files_ranks}
B_(files_ranks) == {flip_i(sq(x[1], x[2])) : x \in files_ranks}

Castling ==
  FEN({W("king", sq(5,1)), W("rook", sq(1,1)), W("rook", sq(8,1)), W("pawn", sq(8,2)),
       B("king", sq(5,8)), B("rook", sq(1,8)), B("rook", sq(8,8)), B("pawn", sq(8,7)),
       B("bishop", sq(3,4))},
      White, Side, Side, 0)

(* The capture en passant is legal for one of the pawns only after the     *)
(* king has left the rank of the rook.                                     *)
EnPassant ==
  FEN({W("king", sq(1,5)), W("pawn", sq(2,5)), W("pawn", sq(7,2)),
       B("king", sq(8,8)), B("pawn", sq(3,7)), B("rook", sq(8,5)), B("pawn", sq(6,4))},
      Black, {}, {}, 0)

(* Two captors, one of them pinned on a diagonal; the target stands in the *)
(* FEN.                                                                    *)
PinnedCaptor ==
  FEN({W("king", sq(5,1)), W("pawn", sq(4,5)), W("pawn", sq(6,5)), W("knight", sq(4,2)),
       B("king", sq(5,8)), B("pawn", sq(5,5)), B("bishop", sq(1,5)), B("queen", sq(8,5)),
       B("rook", sq(6,8))},
      White, {}, {}, sq(5,6))

Promotion ==
  FEN({W("king", sq(5,2)), W("pawn", sq(2,7)), W("pawn", sq(2,2)), W("bishop", sq(4,2)),
       B("king", sq(5,8)), B("rook", sq(1,8)), B("knight", sq(3,8)), B("pawn", sq(7,2)),
       B("pawn", sq(3,3))},
      White, {}, {"Q"}, 0)

(* A double check is one move away, and a piece is pinned on each line.    *)
Pins ==
  FEN({W("king", sq(5,1)), W("queen", sq(4,3)), W("knight", sq(6,2)), W("rook", sq(4,1)),
       W("bishop", sq(2,4)),
       B("king", sq(5,8)), B("rook", sq(5,7)), B("bishop", sq(8,4)), B("queen", sq(1,1)),
       B("knight", sq(5,5))},
      Black, {}, {}, 0)

(* The pawn that may be captured en passant gives check.                   *)
Parry ==
  FEN({W("king", sq(4,4)), W("pawn", sq(2,5)), B("king", sq(8,8)), B("pawn", sq(3,7))},
      Black, {}, {}, 0)

(* Mate and stalemate in one.                                              *)
Mate ==
  FEN({W("king", sq(7,6)), W("queen", sq(4,7)), B("king", sq(8,8))}, White, {}, {}, 0)

(* Knights that need a file, a rank or both in their name.      *)
Names ==
  FEN({W("king", sq(8,1)), W("knight", sq(1,1)), W("knight", sq(5,1)), W("knight", sq(1,3)),
       W("bishop", sq(4,2)), W("pawn", sq(2,2)),
       B("king", sq(8,8)), B("rook", sq(3,3)), B("pawn", sq(7,7))},
      White, {}, {}, 0)

PlayedOpenings ==
  {Game(Castling, <<W_({<<5, 1>>, <<1, 1>>, <<8, 1>>}), B_({<<5, 8>>, <<1, 8>>, <<8, 8>>, <<3, 4>>})>>),
   Game(EnPassant, <<B_({<<3, 7>>, <<8, 5>>}), Square, B_({<<6, 4>>})>>),
   Game(PinnedCaptor, <<Square, B_({<<8, 5>>})>>),
   Game(Promotion, <<W_({<<2, 7>>, <<4, 2>>}), B_({<<7, 2>>, <<3, 3>>, <<1, 8>>})>>),
   Game(Pins, <<B_({<<5, 5>>, <<1, 1>>}), Square>>),
   Game(Parry, <<B_({<<3, 7>>}), Square>>),
   Game(Mate, <<Square>>),
   Game(Names, <<Square>>)}

(* Black pushes a pawn two squares.                                        *)
BlackPush == {Game(EnPassant, <<B_({<<3, 7>>, <<8, 5>>}), Square, Square>>)}

(* Two knights change places, and change them back.                        *)
Knights ==
  FEN({W("king", sq(8,1)), W("knight", sq(4,2)), B("king", sq(8,8)), B("knight", sq(4,4))},
      White, {}, {}, 0)

KnightSquares == {<<4, 2>>, <<2, 3>>, <<6, 3>>, <<4, 4>>}

KnightsChangePlaces ==
  {Game(Knights, [i \in 1 .. 8 |-> IF i % 2 = 1 THEN W_(KnightSquares) ELSE B_(KnightSquares)])}

(***************************************************************************)
(* The books.                                                              *)
(***************************************************************************)
Exchanged(fen) ==
  [fen EXCEPT !.board = flip_piece_maps(@), !.turn = opponent_of(@), !.rights = swapped(@)]

Line(fen, moves) ==
  [comment |-> FALSE, printed |-> TRUE, moves |-> moves,
   fen |-> [f \in {"board", "turn", "rights", "ep_target"} |-> fen[f]]]

(* The same line with the rights in another order, say.                    *)
Otherwise(line) == [line EXCEPT !.printed = FALSE]

MCFenLines ==
  {[comment |-> TRUE],
   Line(Castling, <<<<"O", "-", "O", "-", "O">>, <<"a", "1", "a", "8">>>>),
   Line(PinnedCaptor, <<<<"f", "x", "e", "6", "e", ".", "p", ".">>, <<"K", "f", "2">>,
                        <<"f", "5", "f", "6">>>>),
   Line(Exchanged(Mate), <<<<"Q", "g", "2", "#">>>>),
   Line(Parry, <<<<"c", "5", "+">>>>),
   Otherwise(Line(Castling, <<<<"h", "2", "h", "4">>>>)),
   Otherwise(Line(EnPassant, <<<<"c", "5">>>>))}

(* The random numbers xored into the key of a position given by its FEN.   *)
Features(fen, ep_file) ==
  [pieces |-> UNION {{<<p, s, i>> : i \in fen.board[s][p]} : <<p, s>> \in Piece \X Player},
   rights |-> UNION {fen.rights[s] \X {s} : s \in Player},
   ep_file |-> ep_file, turn |-> fen.turn]

MCPolyglotKeys ==
  [k \in {2, 4, 6} |-> CASE k = 2 -> Features(Names, 8)
                         [] k = 4 -> Features(Exchanged(Castling), 8)
                         [] k = 6 -> Features(Promotion, 8)]

(* A square of an entry, by file and rank.                                 *)
pm(file, rank) == ind(rank - 1, 8 - file)

Entry(key, from, to, promotion, weight) ==
  [key |-> key, from |-> from, to |-> to, promotion |-> promotion, weight |-> weight]

(* The binary search starts at the fifth entry.  One castling move is      *)
(* written as the king's, one as if the king took its rook.                *)
MCPolyglotFile ==
  <<Entry(2, pm(1, 1), pm(3, 2), NoPiece, 7),
    Entry(4, pm(5, 8), pm(3, 8), NoPiece, 2),
    Entry(4, pm(5, 8), pm(1, 8), NoPiece, 5),
    Entry(4, pm(8, 8), pm(8, 7), NoPiece, 4),
    Entry(4, pm(8, 7), pm(8, 5), NoPiece, 9),
    Entry(4, pm(5, 8), pm(5, 7), NoPiece, 0),
    Entry(6, pm(2, 7), pm(1, 8), "knight", 1),
    Entry(6, pm(2, 7), pm(2, 8), "queen", 3)>>

MCBrokenOffsets == {{}, {0}, {3}, {4}, {6, 7}}
=============================================================================
