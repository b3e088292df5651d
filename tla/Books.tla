------------------------------- MODULE Books -------------------------------
(***************************************************************************)
(* The opening books (src/src/book.c, fen_book.c and polyglot_book.c),     *)
(* asked in every position of a game of Chess.  A position does not know   *)
(* whose it is: a book looks for it as white's, and then as black's.       *)
(*                                                                         *)
(* The key of a Polyglot entry is a number that stands for its 64 bits; a  *)
(* position the file does not have may have its key anywhere between them. *)
(***************************************************************************)
EXTENDS Chess

LOCAL INSTANCE SequencesExt
LOCAL INSTANCE FiniteSetsExt

CONSTANTS
    FenLines,       \* the lines of a FEN book: comment, fen (four fields), moves,
                    \*   and printed: are the fields written as position_print_fen
                    \*   writes them?  The reader takes more: several spaces, W
                    \*   for w, the rights in any order, 44 for 8
    PolyglotFile,   \* the entries: key, from, to, promotion, weight
    PolyglotKeys,   \* PolyglotKeys[k]: the position (its features) with the key k
    BrokenOffsets   \* the sets of entries that may turn out to be unreadable

MOVE_ARRAY_LENGTH == 168

ASSUME SortedAssumption ==
  \A i, j \in DOMAIN PolyglotFile : i < j => PolyglotFile[i].key <= PolyglotFile[j].key

(***************************************************************************)
(* FEN books.                                                              *)
(***************************************************************************)
position_print_fen(pos, turn) ==
  [f \in {"board", "turn", "rights", "ep_target"} |->
     position_print_fen_full(pos, 0, 1, 0, turn)[f]]

position_read_fen(fen) ==
  position_read_fen_full([half_move |-> 0, full_move |-> 1] @@ fen)

texts_read(line, pos, texts) ==
  [i \in DOMAIN line.moves |-> read_move(pos, texts, line.moves[i])]

moves_read(line, pos) == texts_read(line, pos, MoveTexts(pos, line.fen.turn))

fen_read_moves(line) == moves_read(line, position_read_fen(line.fen))

validate_fen_book_entry(line) ==
  \E pos \in {position_read_fen(line.fen)} \ {Refused} :
    \A i \in DOMAIN line.moves : moves_read(line, pos)[i] # none_move

(* One line that does not read refuses the book.                           *)
fen_book_open ==
  LET lines == {line \in FenLines : ~line.comment}
  IN  IF \A line \in lines : validate_fen_book_entry(line) THEN lines ELSE {}

(* Wrong variant: the fields are compared as they are read.                *)
lookup_entry_fields(book, fen) == {line \in book : line.fen = fen}

(* The lines are compared as text with the FEN printed for the position.   *)
(* bsearch may return any of those that begin with it.                     *)
lookup_entry(book, fen) == {line \in book : line.printed /\ line.fen = fen}

entry_moves(lines) == IF lines = {} THEN {<< >>} ELSE {fen_read_moves(line) : line \in lines}

(* The lists fen_book_get_move may fill in.                                *)
fen_book_get_move(book, pos) ==
  LET as_white == lookup_entry(book, position_print_fen(pos, White))
  IN  entry_moves(IF as_white # {} THEN as_white
                  ELSE lookup_entry(book, position_print_fen(pos, Black)))

(***************************************************************************)
(* Polyglot books.  Offsets count from 0.                                  *)
(***************************************************************************)
(* The position as white sees it, and who moves.                           *)
position_polyglot_key(pos, turn) ==
  LET colour(s) == IF turn = White THEN s ELSE opponent_of(s)
  IN  [pieces |-> UNION {{<<p, colour(s), seen_by(turn, i)>> : i \in pos.map[s][p]}
                           : <<p, s>> \in Piece \X Player},
       rights |-> UNION {{<<side, colour(s)>> : side \in pos.cr[s]} : s \in Player},
       ep_file |-> IF pos.ep_index + NORTH \in pos.attack[0]["pawn"] /\ pos_has_ep_target(pos)
                   THEN ind_file(pos.ep_index) ELSE 8,
       turn |-> turn]

(* The numbers the key of a position may be, among those of the file.      *)
KeyNumbers(features) ==
  LET same == {k \in DOMAIN PolyglotKeys : PolyglotKeys[k] = features}
  IN  IF same # {} THEN same
      ELSE 1 .. (2 * Cardinality(DOMAIN PolyglotKeys) + 1) \ DOMAIN PolyglotKeys

polyglot_book_size == Len(PolyglotFile)

(* get_entry fails at these offsets, the first one behind the file too.    *)
unreadable(broken, offset) == offset \in broken \/ offset >= polyglot_book_size
key_at(offset) == PolyglotFile[offset + 1].key
has_key(broken, key, offset) == ~unreadable(broken, offset) /\ key_at(offset) = key

(* Wrong variant: reading starts where the search ended.                   *)
find_first_entry_here(broken, key, offset) == offset

(* Back to the first entry with the key; -1 if a read fails on the way.    *)
find_first_entry(broken, key, offset) ==
  LET others == {o \in 0 .. offset - 1 : ~has_key(broken, key, o)}
  IN  IF others = {} THEN 0
      ELSE IF unreadable(broken, Max(others)) THEN -1 ELSE Max(others) + 1

(* The entries from the first one on, without weightless and empty ones.   *)
(* A failed read leaves nothing found.                                     *)
load_entries(broken, key, offset) ==
  LET first == find_first_entry(broken, key, offset)
      end == Min({o \in first .. polyglot_book_size : ~has_key(broken, key, o)})
      loaded == SelectSeq(SubSeq(PolyglotFile, first + 1, end),
                          LAMBDA e : e.weight # 0 /\ <<e.from, e.to>> # <<0, 0>>)
  IN  IF first = -1 \/ (end < polyglot_book_size /\ unreadable(broken, end)) THEN << >>
      ELSE SubSeq(loaded, 1, Min({Len(loaded), MOVE_ARRAY_LENGTH - 1}))

(* The binary search between low and high.                                 *)
get_entries(broken, key) ==
  LET search[low \in 0 .. polyglot_book_size, high \in 0 .. polyglot_book_size] ==
        LET middle == (high + low) \div 2
        IN  IF low >= high \/ unreadable(broken, middle) THEN << >>
            ELSE IF key_at(middle) = key THEN load_entries(broken, key, middle)
            ELSE IF key_at(middle) > key THEN search[low, middle]
            ELSE IF high > low + 1 THEN search[middle, high]
            ELSE IF has_key(broken, key, high) THEN load_entries(broken, key, high) ELSE << >>
  IN  search[0, polyglot_book_size]

(* The squares of a file count the ranks from white's side.                *)
pmove_match(entry, m, flip) ==
  LET seen == IF flip THEN flip_m(m) ELSE m
  IN  /\ entry.from = seen.from /\ entry.to = seen.to
      /\ entry.promotion = IF is_promotion(m) THEN m.result ELSE NoPiece

matches(entries, legal_moves, side) ==
  [i \in DOMAIN entries |-> {m \in legal_moves : pmove_match(entries[i], m, side = White)}]

pick_legal_moves(entries, pos, side) ==
  LET legal == SelectSeq(matches(entries, gen_moves(pos), side), LAMBDA moves : moves # {})
  IN  [i \in DOMAIN legal |-> CHOOSE m \in legal[i] : TRUE]

by_weight(entries) == SortSeq(entries, LAMBDA e, f : e.weight > f.weight)

(* The lists polyglot_book_get_move may fill in, by the numbers the keys   *)
(* of the position may be.                                                 *)
polyglot_book_get_move(pos, broken) ==
  {LET as_white == get_entries(broken, w)
       as_black == get_entries(broken, b)
   IN  IF as_white # << >> THEN pick_legal_moves(by_weight(as_white), pos, White)
       ELSE IF as_black # << >> THEN pick_legal_moves(by_weight(as_black), pos, Black)
       ELSE << >>
     : w \in KeyNumbers(position_polyglot_key(pos, White)),
       b \in KeyNumbers(position_polyglot_key(pos, Black))}

(***************************************************************************)
(* book_get_move.                                                          *)
(***************************************************************************)
(* Wrong variant: an odd number of moves is not made even.                 *)
pick_half_bell_curve_odd(size, n) ==
  LET cut == ((size - 1) * 3) \div 2
      folded == IF n > cut THEN n - (cut + 1) ELSE cut - n
  IN  IF size < 2 THEN 0 ELSE (folded * size) \div (((size - 1) * 3 + 1) \div 2)

even(size) == size + (size % 2)

(* n is the sum of three random numbers below the even size.               *)
pick_half_bell_curve(size, n) ==
  LET cut == ((even(size) - 1) * 3) \div 2
      folded == IF n > cut THEN n - (cut + 1) ELSE cut - n
  IN  IF size < 2 THEN 0 ELSE (folded * size) \div (((even(size) - 1) * 3 + 1) \div 2)

book_get_move_lists(pos) ==
  fen_book_get_move(fen_book_open, pos)
    \cup UNION {polyglot_book_get_move(pos, broken) : broken \in BrokenOffsets}

(***************************************************************************)
(* Properties.                                                             *)
(***************************************************************************)
(* An entry's move: files from h, ranks from 1, as                          *)
(* tests/books/gen_dummy_polyg_book.c numbers them.                        *)
entry_text(e) ==
  print_index(flip_i(e.from), White) \o print_index(flip_i(e.to), White)
    \o IF e.promotion = NoPiece THEN << >> ELSE <<piece_to_char[e.promotion]>>

Entries == {PolyglotFile[i] : i \in DOMAIN PolyglotFile}
EntriesOf(turn) ==
  {e \in Entries : e.weight > 0 /\ PolyglotKeys[e.key] = position_polyglot_key(item.pos, turn)}

LinePosition == [line \in fen_book_open |-> position_read_fen(line.fen)]
LinesFor(pos) == {line \in DOMAIN LinePosition : LinePosition[line] = pos}

(* Every move a book gives is a legal one, and the book has it for this    *)
(* position or for the one with the colours exchanged, whatever could not  *)
(* be read; and the move picked from a list is in the list.                *)
BookSound ==
  LET legal == LegalMoves(item.pos)
      Named(m) ==
        \/ \E turn \in {White, Black} : \E e \in EntriesOf(turn) : entry_text(e) = print_coor_move(m, turn)
        \/ \E moves \in entry_moves(LinesFor(item.pos)) : m \in Range(moves)
  IN  \A list \in book_get_move_lists(item.pos) :
        /\ \A i \in DOMAIN list : list[i] \in legal /\ Named(list[i])
        /\ list # << >> =>
             \A n \in 0 .. 3 * (even(Len(list)) - 1) :
               pick_half_bell_curve(Len(list), n) + 1 \in DOMAIN list

(* A FEN book finds the lines for this position that are written as the    *)
(* program prints a position, white's before black's; a line the reader    *)
(* accepts in any other layout is never found.  A Polyglot book that can   *)
(* be read finds all the entries of one side's key that name a move,       *)
(* wherever in the file they stand.                                        *)
BookComplete ==
  LET printed(turn) == {line \in LinesFor(item.pos) : line.printed /\ line.fen.turn = turn}
      listed(turn) == {m \in LegalMoves(item.pos) :
                         \E e \in EntriesOf(turn) : entry_text(e) = print_coor_move(m, turn)}
  IN  /\ fen_book_get_move(fen_book_open, item.pos) =
           entry_moves(IF printed(White) # {} THEN printed(White) ELSE printed(Black))
      /\ \A list \in polyglot_book_get_move(item.pos, {}) :
           {list[i] : i \in DOMAIN list} =
             IF EntriesOf(White) # {} THEN listed(White) ELSE listed(Black)
=============================================================================
