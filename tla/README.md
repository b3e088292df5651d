# A verification model of Taltos

Taltos is a chess engine in C11. It reads lines from standard input (its own
command line, xboard or UCI), keeps a game, and thinks about it in a second
thread. This directory holds TLA+ modules that model it, the TLC configurations
that check them on small instances, and theorems checked by TLAPS.

File names below are relative to `src/src/` of the repository.

## 1. The system

| Part | State | Operations | Modules |
|---|---|---|---|
| Command loop, `command_loop.c` | the game on the board, `computer_side`, `is_force_mode`, `game_started`, `exit_on_done`, `callback_key`, `game_mutex`, `stdout_mutex` | one handler per command, moves, the two callbacks the engine calls | `EngineThreads` |
| Engine, `engine.c` | current position (`history[]`), `engine_best_move`, the callback and its argument, one `search_thread_data`, `engine_mutex` | `think`, `stop_thinking`, `engine_process_move`, `reset_engine`, setters; the thread function `iterative_deepening` | `EngineThreads` |
| Engine clock, `engine.c:58-245, 591-654, 709-736` | `computer_time`, `moves_left_in_time`, `nps`, node and depth limits | setters, `get_time_for_move`, `engine_move_count_inc` | `EngineClock` |
| Engine history, `engine.c:250-362` | `history[1024]`, `history_length` | append, reset, `filter_duplicates` | `RepetitionHistory` |
| Game, `game.c` | a linked list of positions with a cursor | append, truncate, revert, forward, copy, reset, destroy, draws | `GameHistory`, `GameLines`, `GameLine`, `Chess` |
| Transposition table, `hash.c`, `hash.h` | buckets of young, old and fresh slots | lookup, insert, swap of generations, clear, resize | `HashSlots`, `HashTable`, `PositionCache` |
| Search, `search.c` | an array of nodes used as a stack, counters, limits | `negamax`, quiescence, null moves, reductions, the principal variation | `SearchTree` |
| Move ordering, `move_order.c` | raw moves, a partly sorted list of entries, killers | hints, killers, pick the next | `MoveOrder` |
| Positions, `position.c` | boards, ray and attack tables, pins, rights, keys | `position_reset`, `position_flip`, `make_move` | `Position`, `ChessLaws`, `Chess` |
| Move generator, `move_gen.c` | none | `gen_moves`, `gen_captures` | `MoveGen`, `ChessLaws` |
| Notation, `move.c`, `fen.c`, `str_util.c` | none | print and read moves and FENs | `Notation` |
| Books, `book.c`, `fen_book.c`, `polyglot_book.c` | sorted entries | open, lookup, pick | `Books` |
| Bitboards and tables, `bitboard.h`, the two generators in `src/tools` | constants | shifts, rays, masks, exchange values | `Bitboards`, `StaticExchange` |
| Perft, evaluation, tracing, start-up | none or constant | | not modelled |

How they interact: the main thread runs one command at a time. A move of the
user stops the search, is appended to the game and to the engine's copy of the
position, and `decide_move` then answers at once (single reply, book) or hands
`computer_move` with a fresh `callback_key` to the engine and starts a search
under the limits of the clock. The search thread deepens iteratively; it takes
`engine_mutex` between two depths, prints the line it found under `game_mutex`
and `stdout_mutex`, and in the end calls back: the callback compares its key
with `callback_key` and, if nobody gave that key up, plays the move. A command
that must not be overtaken by a late answer increments `callback_key` and joins
the search. The search reads and writes the transposition table, in which the
engine also marks positions that a repetition would make a draw. Positions,
moves and their generator are below all of it, the books beside the search.

What is hard here:

* **Lock order and joins.** All three mutexes are recursive, joins happen with
  mutexes held, and the threads take the mutexes in opposite orders
  (`engine.c:622`, `command_loop.c:442, 884, 1263, 1348`).
* **Late answers.** Keys are compared before the lock is taken and are given
  out from both threads (`command_loop.c:382, 1084, 1099`).
* **Two copies of the position.** The game and the engine each keep one, and
  every command must move both.
* **A search that outlives its position** (`engine.c:562`,
  `command_loop.c:473`).
* **The linked list.** Undo, redo, truncation, copies and resets keep a cursor,
  a tail, an index and a count in step; the head is uninitialised at first.
* **Zero means no limit.** Times and node counts are unsigned and are divided
  and counted down (`engine.c:560, 594, 649`).
* **A table that forgets**, shared by positions whose keys collide, and that a
  search trusts for values, moves and its own principal variation.
* **A stack of nodes used again and again**, with windows, mate distances,
  repetition and forced lines handed between a node and its child, and a search
  that may be cut off anywhere.
* **Incremental tables.** `make_move` updates a dozen of them and turns the
  board round; a missed case would go unnoticed for many moves.

## 2. Modules

Threads and game:

* `ChessRules` - positions, moves, which are legal, where they lead, as an
  arbitrary game tree. All are constants.
* `GameLine` - a game as a value: positions, moves, cursor. What each function
  of `game.c` promises, as an operator. `IsPlayed` says that the game was made by
  legal moves. `GameLine_proofs` has their types and what the half move count is.
* `EngineThreads` - the two threads. A C function is a sequence of steps;
  `todo[t]` is what thread `t` has still to do, and a call puts the callee's
  steps in front, which models the C stack without naming it. Lock operations
  are steps, so every interleaving at a lock is explored. The code between two
  lock operations is one step where the other thread cannot observe its parts;
  unlocked accesses the other thread can observe (the key comparison in
  `ThinkingCb`, the increment of the key, the run flag, `undo`) are steps of
  their own. The actions carry the handlers' names (`CmdForce` is `cmd_force`);
  `PlainBody` lists the handlers that only lock and call.
* `EngineThreads_proofs`, `GameHistory_proofs`, `RepetitionHistory_proofs`,
  `EngineClock_proofs`, `HashTable_proofs`, `SearchTree_proofs` - the theorems of
  section 6.
  `NatFacts` - induction on numbers and other arithmetic they share.
* `GameLines` - the abstract specification of `game.h`: named games, each a
  `GameLine`, each function changing its own game only.
* `GameHistory` - `game.c` on a heap of items with `next`, `prev` and
  `move_to_next`; it implements `GameLines`. Its lists are walked by a recursive
  function over the `next` or `prev` pointers (`Along`), not by a recursive
  operator, so that it can be proved about.
* `RepetitionHistory` - the engine's `history`, the hash table entries that mark
  repeated positions, and the game they must agree with.
* `EngineClock` - the variables of time and limits, the commands that set them,
  a search that uses nodes and time up, and the clock after a move. `share`,
  `punctual` and `perMove` are history variables: no action reads them.

Search:

* `PositionCache` - what the table promises: it may forget anything at any time,
  but what it knows was inserted for that key since it was last cleared.
* `HashSlots` - an entry and its fields (`hash.h`), slots and buckets, and every
  function of `hash.c` as an operator from a table to a table.
* `HashTable` - the table as a state machine; it implements `PositionCache`.
* `MoveOrder` - `struct move_order` as a record and its functions as operators.
* `SearchTree` - `negamax` as a machine: `node` is the array of nodes, `sp` the
  current one, `pc` where the program is (entering a node, picking a move,
  finishing, returning to the parent). The stages of `negamax` before its loop
  (trivial draws, repetition, mate distance, bounds, table, null move) are
  operators from node to node, applied in the order of the code; `Pick` makes the
  child and `Return` takes its value, for the reduced search, the full one and
  the extension. Around it `iterative_deepening`, `extract_pv`, and a further
  search of the same game that reuses the table.

Chess:

* `Bitboards` - a board is a set of squares. Shifts, the fills of pawns, and the
  tables of `gen_bb_constants.c` as its loops make them.
* `StaticExchange` - `gen_SEE_table.c`, the exchange values.
* `Position` - `struct position` as a record. `position_reset` makes all its
  tables from the board; `make_move` and `position_flip` update them as the code
  does. A hash key is the set of random numbers xored into it.
* `MoveGen` - `gen_moves`, `gen_captures` from the tables of a position.
* `ChessLaws` - the rules of chess, from nothing but where the pieces stand: the
  reference `MoveGen` is compared with.
* `Notation` - FENs and move texts as tokens, printed and read.
* `Chess` - a game on a real board: `game_append` over `make_move`, with the
  properties of positions, moves and texts.
* `Books` - both kinds of book, asked in each position of such a game.

Operators whose comment begins with *Wrong variant* are deliberately broken
forms of the operator below them. Nothing uses them; they serve to show that
each property fails when the code is wrong in that way. Modules named `MC...`
give the constants values for TLC.

Correspondence of state in `EngineThreads`: `cli.game` is `game`, `cli.uciGame`
the local `g` of `cmd_position` while it is replayed,
`cli.side/force/started/exitOnDone` the flags of the command loop, `engine.pos`
is `history[history_length - 1]`, `engine.best` is `engine_best_move`,
`engine.cb/arg/show` the callbacks, `worker` is `threads[0]` plus `joinable`
(the thread exists and was not joined, which `is_started_flag` is meant to
tell). `owner` and `held` are the recursive mutexes. In `GameHistory` `item`,
`freed` and `handle` are the heap. In `SearchTree` the fields of a node have the
names of `struct node`, shortened where the code is long (`ra_any` is
`repetition_affected_any`, `barrier` is `is_GHI_barrier`); `deepening` holds the
locals of `iterative_deepening`, `cleanup` those of `extract_pv`.

### Abstractions

*EngineThreads.* A position is a node of the game tree; a line the search found
is its first move; limits are one constant (`Limited`) that lets a search
terminate early. `conf->mutex` is left out: it is only taken last, around reads.
The second, recursive lock inside `engine_get_best_move` is left out: the search
thread holds `engine_mutex` then. Writes that one thread makes next to each
other and the other cannot tell apart are one step: in `cmd_force` the key, the
force flag and the started flag; in `cmd_playother` the side is flipped before
the search is stopped. An unlock of a mutex the thread does not own does
nothing, and a mutex that is made anew (`reset_mutexes`) is free. The setters of
clock and limits are their locks and joins only. Nobody writes the
`move_to_next` of a head before a move is played there (`game.c:369-397`), so
`cmd_position` reads what `Uninitialised` says: any of a set of moves and zero,
chosen anew each time it is looked at. If the present game has no moves,
`game_continues` takes it for continued only if its head holds zero, and follows
a null pointer if it holds the new game's first move (`exited` is then *crash*).
If the new game has none, `replay_new_moves` goes on for ever unless its head
holds zero (`Replay`). `KeyStep` increments the key in one step, though the code
does not synchronise the two threads' increments.

*GameHistory.* Fresh items come in a fixed order: nothing compares addresses.
`Item` is the set of items there is memory for; with none left, or a game of
`MaxLength` items, the model appends no more.
The contents of freed memory are not kept. Full move numbers, time spent and en
passant squares are left out (the last is in `Chess`). `game_create_position` is
left out; nothing calls it. Copies are only appended to and destroyed, as
`print_move_path` does.

*RepetitionHistory.* No search is under way, so the hash table keeps what is put
in it: `marked` is the set of positions it would answer for with depth 99 and
value zero. The modes are left out: `force` and `new` make undo, redo and
setboard available after any game. A FEN says nothing of the half moves before
it. Writing behind the array is undefined; the model stops there (`overrun`).

*ChessRules* tells positions with exchanged owners apart, `pos_equal` does not;
the run `Chess_repetition` shows the difference on a real board.

*EngineClock.* Setters that join a running search under `engine_mutex` hang
there (see `EngineThreads`), so here they find none. The time a search takes is
any of: none, its limit, its limit and a little more.

*HashSlots.* The packing into 64 bits is a record; the bias by which a value is
stored is kept, being visible in `ht_is_set`. One thread uses the table at a
time. `ht_extract_pv` only reads and is left out.

*SearchTree.* The evaluation is a constant per position. The history heuristic
(off unless an option turns it on; it orders quiet moves) and the trace of the tree
for debugging are left out. Values are
small (`MaxValue` 40), so mate scores begin at 28, and depths go up to nine
plies; `LMR` and `LMP` are constants, as the code's arrays. Time limit and run
flag are a nondeterministic cut-off at any test of them.

*MoveOrder.* What `describe_move` says of a move is a number given by a
constant. Values are stored as the code stores them: shifted into an entry's
upper bits, with the rounding that brings for negative ones.

*Position.* Rays, pins and attacks keep the code's orientation: the player to
move moves north. Redundant unions (`rq`, `bq`, `nb`) are computed where used.
The vector instructions compute the same sets and are left out.

*Notation.* A FEN is a record of its fields, the fields as the code prints and
checks them; white space and the digits of empty squares are left out. A move
text is a sequence of characters, since what `cleanup_move` drops matters.

*Books.* A line of a FEN book is the record it is read as, and `printed`, whether
its text is the one the program prints for that record. A Polyglot key is a number standing for its 64 bits, and a position the
file does not have may lie anywhere between the keys of the file.

## 3. Runs

| Run | Question | States | Result |
|---|---|---|---|
| `EngineThreads_play` | Do game, engine and answers stay together, whatever is typed during a search? | 207,819 | holds |
| `EngineThreads_all` | Which lines get processed, when does the computer answer, and what holds for commands that may hang, too? | 295,925 | holds |
| `EngineThreads_run_flag` | Does a search that is told to stop end? | | violated |
| `GameHistory` | Is the heap sound, do the lists implement `GameLines`? | 16,342 | holds |
| `RepetitionHistory` | Is what the engine remembers true, and enough? | 1,707 | holds |
| `EngineClock` | Is every search limited, and does the time last? | 518,811 | holds |
| `EngineClock_per_move` | Does `st` fix the time of each move? | | violated |
| `HashTable` | Is the table a cache, and are repetition marks found in it? | 59,894 | holds |
| `SearchTree` | Does the search return what it claims? | 169,308 | holds |
| `Chess` | Are tables, moves, texts and books right? | 1,508 | holds |
| `Chess_game_fen` | Can the FEN of a game be read back? | | violated |
| `Chess_repetition` | Is a draw by repetition one? | | violated |

**EngineThreads_play.** `EngineMirrorsGame`: the engine thinks about the
position on the board. `BestMoveKnown`, `NoInternalError`: no stale move is
exported or printed. `ForceModeFreezesGame`: an answer that was given up stays
given up, also when the search was just past its key comparison.
`RunFlagStopsSearch`: a search told to stop ends. These are false for some of the
commands left out, so the run has those of ordinary play (`MCPlayCommands`); TLC
also checks that none of them, in any order, deadlocks. What the others do is the
question of the next run.

**EngineThreads_all.** Every command but those that lock no mutex, one, or one
after the other (`ping`, `divide`, `set_option`, `post`, `nopost`, `exitondone`;
*play* has them), with every interleaving with a search; of `stop`,
`easy` and `result`, which join alike, the first (*play* has the others).
`MainResponsive`: every line gets processed, with exactly these exceptions, each
of which TLC finds to be needed:

* the main thread and the search wait for each other. The commands after which
  they may (`MayHang`) are those that reach `think`, which joins the search under
  `engine_mutex` (`engine.c:622`): `search`, `search_sync`, `hard`, `go`, and
  `white` and `black` (`command_loop.c:928-942`, through `decide_move`); those
  that reach `set_time_inc` or `set_exact_node_count`, which do the same
  (`engine.c:184, 200`): `level` and `go` with options; those that reach
  `reset_engine` without having stopped the search (`engine.c:803`): `setboard`,
  `undo`, `redo`; a move typed during a search of the user (join under
  `game_mutex`, `command_loop.c:442`); and those that take two mutexes in the
  other order: `hint` (`command_loop.c:884`), `hash_size` and a bare `position`.
  (`redo` needs four lines, one more than the run has: `position`, `undo`,
  `search`, `redo`.)
* `position` with a game without moves may never end (`Spinning`), as
  said under *Abstractions*.

No other command may hang: `force`, `new`, `result`, `stop`, `quit`, `easy`,
`position` and the rest always come to their end, whatever the search is doing.

`ComputerAnswers`: whoever asks the computer for a move when it is to move in a
started game (a `decide` is pending: after a move, `go`, `hard`, `white` or
`black`) gets it in the end, or takes the game or the side from it, or the
threads wait for each other. There is one more exception, a flaw of the program:
`playother` gives up the key of a running search before it looks at its guard
(`command_loop.c:1020`), and the answer is lost; the guard never passes, so every
`playother` typed while the computer thinks does that.

The computer may also be to move with nobody asking it, and then it waits; the
property makes no claim there. It comes to that when the computer has moved for the user's
side, as after `white` or `black` typed while it thinks (the search goes on, its
key is still good, and its move is played without a `decide_move` after it), or
`hard` on the user's turn; and after a `go` whose argument is no number, which takes
the side over and then fails before it asks.

What needs no progress holds even then. `OneSearch`: the thread data is never
overwritten under a running search. `KeyNeverAhead`, `StaleAnswerStaysStale`: a
key that was given up never comes back. `StartedExcludesForce`: the two modes
exclude each other, so the guard of `playother` never passes and the command has
no effect but to give up the key. Deadlock is not checked, because the program
does stop.

**EngineThreads_run_flag.** `search` followed by a second one or `go`: `think`
locks `engine_mutex`, and joins the search, which needs that mutex to end. The
comment at `engine.c:279-283` says clearing the flag makes the search stop.

**GameHistory.** `RefinesLines`: through a refinement mapping that walks the
list, each function of `game.c` does what `GameLines` says of it, and to its own
game only. `HeapSound`: every allocated item is reached from exactly one game, no
game reaches a freed one, and cursor, tail, index and count fit the list.
`DrawsAgree`: repetitions and the fifty-move count are those of the line.
`ContinuesIsSound`: what `game_continues` accepts is a continuation, and
`replay_new_moves`, which walks back in the new game by a difference of lengths
and forward to its end, plays exactly the moves that are missing, whatever was
undone before and whatever an unwritten `move_to_next` holds. Its loop stops
unless the new game has no moves and its head holds anything but zero: that
exception is part of the property. (That `game_continues` accepts every
continuation does not hold, for the same reason.)

**RepetitionHistory.** `HistoryIsSuffix`: the engine's positions are the last
ones of the game and reach back to an irreversible move at most.
`OnlyReplacingForgets`: moves one by one, a new game and a new board keep all of
them and never fill the array, because no move is taken after a fifty-move draw.
`WarnedOfRepetition`: then a move that would draw by repetition is marked in the
table before it is searched. `MarksAreRepeated`: nothing is marked that has not
stood twice in this game. A game of the position command is replayed whether or
not it has ended; the run has such a game, which overruns the array, and the
program ends there, so deadlock is not checked.

**EngineClock.** `SearchIsLimited`: whatever was set in whatever order, a search
that was not asked to be infinite has a time or a node limit, also with the
clock at zero; only below 100 nodes per second may the node limit come out as
zero, which means none. `NodeBudgetKept`: the depths of a search together stay
within its node limit, so that what is left is never counted down to zero, which
would lift it. `FairShareKept`: with searches that are late by no more than
`time_safety`, the moves up to the time control each keep the time they had when
the clock was set. The threads are left out, the search ends by itself, and the
bound on commands ends the run: deadlock is not checked.

**EngineClock_per_move.** `st` keeps its seconds in the variable the clock
commands write. After `st` and `time`, or `go wtime`, every move gets what the
clock command said, and the mode is still that of `st`. The comment at
`engine.c:60-66` calls it "a fix number of seconds per each move".

**HashTable.** `IsCache`: it implements `PositionCache`, through inserts that
write two slots of a bucket other positions share, swaps, clears and resizes. A
resize may fail, and then leaves `log2_size` changed over the old table
(`hash.c:210`); nothing of this breaks. `MarkAnswers`: a position the engine has
marked as drawn is answered as drawn at any depth up to the mark's, whatever a
search stored of it before or after, and of its neighbours; the two halves of the
lookup and the slot an insert chooses must agree for that. Two things it grants: a
lower bound that cuts off by itself may be found first, and positions with one
key may hide each other's marks. `MarksStay`: a mark keeps its slot through every
insert and swap, until the table is emptied, a deeper entry takes the slot, or an
exact value as deep replaces it under its own key. (The mark's depth is 99, in half
plies; a search of 50 plies stores deeper entries.) `UsageExact`: the count of
used slots, kept by hand in four functions, is right.

**SearchTree.** Four games and two circles of positions, four groups of
settings, two evaluations, a search stopped at any test, and a second search
after it. `EveryMoveOnce`: no move is tried twice or dropped, and those that wait
are sorted, whatever hints, killers, table moves and forced moves come. `ForcedMoveKnown`: the assertion at
`search.c:1079`; a forced line never names a move its node cannot make.
`BarrierHolds`: the assertions at `search.c:1136-1137`; no repetition is seen
beyond an irreversible move. `MateClaimSound`: a mate the search announces is
there, within the plies it says, with every pruning on. `ValueExact`: with the
prunings off, on games in which a path visits no position twice, the value is
that of plain minimax with quiescence: window, table, hints and iterative
deepening lose nothing. (It is claimed of the first search of a game: what an
earlier search left in the table may be deeper than what is asked for, and is
used.) `LinePlayable`: the line shown can be played and begins with the move
exported. A run ends with its last search: deadlock is not checked.

**Chess.** Eight boards, chosen for castling, en passant with and without pins,
promotion, double check, mate, and names that need file and rank, with one to
three plies from each. `IncrementalExact`: what `make_move` updates and what
`position_flip` turns round is what `position_reset` makes from nothing.
`MovesExact`: `gen_moves` gives exactly the legal moves, `gen_captures` the
legal captures. `IrreversibleExact`: the fifty-move count restarts at exactly
the moves after which no earlier position can return. `FenReadsBack`: a printed
position is read as the same one. `MovesReadBack`: a move in either notation is
read as itself, but for a capture by the pawn of the b file to a square a bishop
reaches, too: `cleanup_move` makes their names one. `BookSound`: a book answers
with legal moves that stand in it, also when reading fails half way.
`BookComplete`: if all can be read, the Polyglot book finds every entry of the
position, wherever they stand, and the FEN book every line written exactly as
the program prints the position. Lines are compared as text (`fen_book.c:59-81`):
one that the reader accepts in another layout, with two blanks or the rights in
another order, is in the book and is never found. The games are bounded: deadlock is not checked.

**Chess_game_fen.** `game_append` keeps the target of a double push beside the
position. For black's it is not turned to the side that reads it, so after
1. e4 c5 the FEN names c5. The comment at `fen.c:47` shows c6, and the program's
own parser refuses c5.

**Chess_repetition.** `pos_equal` compares which pieces stand where and not
whose they are. Two knights that changed places count as a repetition, and the
program announces a draw (`command_loop.c:245-246`).

Met while modelling, and not worth a run: `reset_engine` keeps one position, so
after undo the engine has forgotten the ones before it, which the comment at
`engine.c:250-253` says it keeps; a book move played during a search of the user
leaves that search exporting a best move of its old root (`engine.c:562`);
`game_copy` shares the `prev` pointers of its items with the original
(`game.c:257`); `time_inc` is added to no clock and `base_computer_time` is set
by nobody (`engine.c:69-83`); a castling move of a Polyglot book, which
names the rook's square, matches no legal move, and the squares of its
entries are counted from file h (`polyglot_book.c:213-223`), those of its keys
from file a; `position startpos` may never end, or end the program, since
`game_reset_fen` leaves the head's `move_to_next` unwritten (`game.c:369-397`,
`command_loop.c:1444`); after `black` typed while the computer thinks as white,
it plays for white and then waits for somebody to play black
(`command_loop.c:928-942`).

### Bounds

* `EngineThreads`: `MaxLines` = 3 lines are read. An error needs one line to
  start a search and one or two to disturb it; after the last line the input
  ends, which is a line of its own (`EndOfInput`). `MaxDepth` 2 lets a search
  complete a depth and be told to stop in the next one; with every command
  it is 1, and fewer games and boards are typed in. The game tree holds a position with a single reply, one
  with a book move, a mate, and a move that is legal in several positions, so
  that a stale move may be legal or illegal. What a head may hold
  is zero or a move, legal in some of the games.
* `GameHistory`: four items and `MaxLength` 3: two games of several items, or
  one and its copy, with a truncated tail and one more item to allocate. The two
  games are interchangeable (symmetry).
* `RepetitionHistory`: `Capacity` is `FiftyMoveLimit + 1`, the least that
  suffices; in the program they are 1024 and 100. `MaxLength` 11 lets a game
  reach the limit twice over, with an irreversible move in between.
* `EngineClock`: four commands, so that a clock, a mode and a limit can be set
  one over the other before a search and one during it. The clocks are zero, less
  than the safety margin leaves, and plenty; `DepthNodes` against `NodeCounts`
  hits a limit exactly, one below and one above. `level` has a control of one
  move, at which the division of what is left and the start of the next period
  fall together.
* `HashTable`: two young and two old slots and one fresh one, tables of one and
  two buckets, three positions of which two share a bucket and two a key, and
  entries of each depth, with a mark among them: every slot is contended.
* `SearchTree`: games of six plies with two to four moves a position, depth
  limits 4, 5 and 8 (in plies), a node limit that ends in the middle, a table of 16
  buckets in which positions collide. The circles let positions repeat with and
  without an irreversible move between; two ways of different length lead to
  one game, so that the table answers for another depth.
* `Chess`: for each ply the squares a move may start from, so that the moves
  worth following are followed; the moves generated are all compared.
  `KnightsChangePlaces` needs eight plies to a false repetition.

### Fairness

`FairSpec` of `EngineThreads` assumes weak fairness of each thread as a whole: the scheduler runs a thread that can run, and `search()` of one depth returns,
for it is a finite recursion. A lock or join that can never proceed is not
helped by it. Nothing is assumed of the user: `ReadMove`, `ReadCommand` and
`EndOfInput` have no fairness. Locks are not assumed to be granted fairly; no
property here needs it. The other modules have safety and action properties
only.

## 4. Hazards

`PROJECT.json` lists each at its line with the properties that cover it. Two
have none: an error in a command makes two mutexes anew that a thread may hold,
after which nothing can be said of them, and what other programs write into
Polyglot files is outside of the repository.

## 5. Plan

Done: `ChessRules`, `GameLine`, `EngineThreads`; `GameLines`, `GameHistory`;
`RepetitionHistory`; `EngineClock`; `HashSlots`, `HashTable`; `MoveOrder`,
`SearchTree`; `Bitboards` to `Chess`; `Books`; proofs of every safety and action
property the runs check of `EngineThreads`, `GameHistory`, `RepetitionHistory`,
`EngineClock` and `HashTable`, and of `EveryMoveOnce` and `BarrierHolds` of
`SearchTree`.

Worth adding, in this order:

1. An abstract specification of the dialogue, that `EngineThreads` implements: a
   game moves only by the user's moves, the computer's answers and resets.
   `PlayInv` of section 6 is the invariant such a refinement needs.
2. The history heuristic of `move_order.c`, as any order of the quiet moves.
3. Of `LinePlayable`, that the moves of a line are legal one after the other,
   as an invariant of the lines in the nodes.

## 6. Proofs

`tlapm M.tla` checks the proofs of each module `M` below; `EngineThreads_proofs`,
`SearchTree_proofs` and `GameHistory_proofs` take a few minutes. Nothing is assumed but the named
assumptions on constants, which the passing runs have TLC evaluate.

| Module | Theorem | Says |
|---|---|---|
| `EngineThreads_proofs` | `TypeCorrect` | `Spec => []TypeOK` |
| | `KeysAreGivenOut` | `Spec => []KeyNeverAhead` |
| | `StaleStaysStale` | `Spec => StaleAnswerStaysStale` |
| | `ModesStayApart` | `Spec => []StartedExcludesForce` |
| | `OneSearchAtATime` | `Spec => []OneSearch` |
| | `EngineFollowsGame` | `OrderlyCommands => (Spec => []EngineMirrorsGame)` |
| | `BestMoveIsKnown` | `OrderlyCommands => (Spec => []BestMoveKnown)` |
| | `NoLineIsIllegal` | `OrderlyCommands => (Spec => []NoInternalError)` |
| | `ForceFreezesGame` | `OrderlyCommands => (Spec => ForceModeFreezesGame)` |
| `GameHistory_proofs` | `TypeCorrect` | `Spec => []TypeOK` |
| | `HeapInvariant` | the lists of the games share out the heap |
| | `HeapIsSound` | `Spec => []HeapSound` |
| | `ListsAreLines` | `Spec => RefinesLines`: it implements `GameLines` |
| | `DrawsAreRight` | `Spec => []DrawsAgree` |
| | `ContinuationsAreSound` | `Spec => []ContinuesIsSound` |
| `RepetitionHistory_proofs` | `TypeCorrect` | `Spec => []TypeOK` |
| | `HistoryIsOfThisGame` | `Spec => []HistoryIsSuffix` |
| | `MarksAreOfThisGame` | `Spec => []MarksAreRepeated` |
| | `RepetitionsAreMarked` | `Spec => []WarnedOfRepetition` |
| | `PositionsAreKept` | `Spec => OnlyReplacingForgets` |
| `EngineClock_proofs` | `TypeCorrect` | `Spec => []TypeOK` |
| | `NodeBudgetIsKept` | `Spec => []NodeBudgetKept` |
| | `FairShareIsKept` | `Spec => []FairShareKept` |
| | `SearchesAreLimited` | `Spec => SearchIsLimited` |
| `HashTable_proofs` | `TypeCorrect` | `Spec => []TypeOK` |
| | `UsageIsExact` | `Spec => []UsageExact` |
| | `MarksAnswer` | `Spec => []MarkAnswers` |
| | `MarksAreKept` | `Spec => MarksStay` |
| | `TableIsCache` | `Spec => IsCache`: it implements `PositionCache` |
| `SearchTree_proofs` | `TreeInvariant` | the nodes nest, each with its moves in order |
| | `MovesStayInOrder` | `Spec => []EveryMoveOnce` |
| | `PastInvariant` | what a node knows of repetitions is within its reach |
| | `RepetitionsStayInReach` | `Spec => []BarrierHolds` |

They hold for every game tree, set of commands (four with the exceptions below),
book, number of games, items, slots, buckets and nodes, evaluation, search
setting, time control, and bound. Two further modules hold lemmas:
`GameLine_proofs` (the types of the operators on games; the half move count) and
`NatFacts` (a set of numbers that holds 0 and, with each number up to n, the
next, holds all of them: from the least element of the complement, since the
library's induction theorem takes an operator; least and greatest elements; that a
fold over a sequence has a value).

**EngineThreads.** `TypeOK` is inductive once one knows what `todo` may hold: its
steps are records of a fixed type, and a `process_move` step has a move.
`KeyNeverAhead` is not inductive: the engine gets its key from a `set_cb` step
that the callback key may have moved past, or been behind, when it was put in
`todo`. `KeysGivenOut` adds that the keys of all steps still to be taken were
given out. `IndInv` is `TypeOK /\ KeysGivenOut`. Lemmas type each body that is put
in front of `todo` (`BodyTypes`, `MoveBodyTypes`, `SetCbType`, `PlainBodyType`)
and each kind of step (`OnlyType`, `CliStepType`, `KeyStepType`, ...), so that an
action's case is its guard and one of these. `StepUpToWidens` carries the steps
over an increment of the key. `KeyGrows` (the key never decreases) gives
`StaleStaysStale`: if the engine's key was not the last one and becomes so, it was
replaced by a later one. `ModesApart` looks at the five actions that write the two
flags; `StartGame` sets *started* only outside force mode and `GoStart` and
`NewFlags` leave force mode in the same step.

`OneSearch` speaks of the moment before a thread is created; what makes it true
lies further back. `SearchInv` says: a spawn stands in `todo` only right behind the
steps of a join, or, once these are taken, at its head, and then the last search
is over (`SpawnsReady`); and a thread whose `started` flag is down is over and
joined, or about to be joined (`JoinPending`). No body has a
spawn without a join before it (`SafeSeq`), and the search thread itself never
creates one. It was checked as an invariant of the run `EngineThreads_all`
before it was proved, which is how the unlock between the flag and the join was
noticed.

Four theorems say that game, engine and answers stay together. `OrderlyCommands`
leaves out two commands, for each of which they are false, as TLC shows:
`search_cmd`, a search of the user, which the computer's answer from a book or by
a single reply does not stop, violates `BestMoveKnown`, `NoInternalError` and
`ForceModeFreezesGame`; `bad_argument`, an argument that is no number, makes anew
the mutexes that are held, and violates `EngineMirrorsGame`. Every other command may
be typed, those after which the program hangs included, which the run
`EngineThreads_play` leaves out. None of the
four is inductive, as they say nothing of the steps in `todo`. `PlayInv` does:

* `Disciplined`: in what either thread has still to do, a replacement of the
  game is followed by a reset of the engine's history, a step that needs the game
  mutex comes behind its lock or under it, and a move stands at the head of `todo`
  until the engine has it, with the game mutex held.
* `Calm`, `JoinComing`: while a search thinks, a step that changes the position
  stands behind a join. `ThinkingSound`: the search thinks about the engine's
  position, which is the game's, and the computer is to move there, or else a join
  is next. `ForceSound`: in force mode there is no search but one about to be
  joined.
* `SpawnSound`: when a search is about to be started the main thread holds the
  game mutex and the computer is to move, or the command waits for the search.
* `Mirror`: the engine's position is the game's; or it is one move behind, and
  that move stands at the head of some `todo`; or a reset is to come.
  `BestLegal`: the best move is legal in the engine's position, there being one.

The callback is where they meet. A search compares its key without the lock; what
keeps its answer from a game that has moved on is that every step of the main thread
that moves the game stands behind a join. So a search past its comparison that gets
the game mutex finds the position it thought about on the board. The lemmas follow that
order: what a body is (`Shape`, its parts kept when a step is taken off or a body
put in front), what each kind of step keeps, then one case per action.

**GameHistory.** The invariant `Inv` names a witness: `own` gives each game the
list of its items. `IsGame` says that `next` and `prev` follow this list, that
each item came from the one before by a legal move, and that index, tail and count
are places in it; `Sound` that the lists are disjoint and that what is in none is
free. Each function changes one game's list: it makes some heap `h` in which that
game has a list `s` of items that were its own or free (`Change`), and
`ChangeSound` and `ChangeLine` say once that such a step keeps the invariant and
changes that game's line only. One lemma per action finds `s` - the list, the list
cut behind the cursor, that with one item more, nothing - and compares the line it
stands for with the operator of `GameLine` (`AppendLine`, `TruncateLine`, ...): with
that the same lemmas prove the invariant and the refinement, `Create` to `Destroy`
each mapping to the action of that name in `GameLines`. `AlongIs` is the one place
where the recursive walk is unfolded: a list that follows the pointers is what the
walk finds, by induction along the list. `DrawsAreRight` turns the line round, for
going back along `prev` lists it reversed, and gets the half move count by
induction along the line (`HalfMoveCountIs`). A copy keeps the `prev` pointers of
its original, so going back is claimed of a game's own list only. `ContinuationsAreSound` needs one
more invariant, that only the head of a list may hold a move at its end
(`EndsUnmoved`), and two lemmas: what game_continues compares is a prefix
(`Continues`), and what is walked from the place gone back to is the rest of the
list (`ReplayIs`, `RestIs`).

**RepetitionHistory.** `Fits(Engine, game)`: unless the array was overrun, the
history is the last part of the line up to the cursor, no longer than the half move
count allows, what occurs twice in it is marked, and what is marked occurs twice in
the game. The engine only ever works on its own history, so each step is a lemma on
`Processed` or `Reset` and one on the line (`SameUpToCursor`). The game of the
position command goes move by move through `ProcessedAll`. `PositionsAreKept` needs
the other inequality, that the history is as long as the half move count allows,
kept by moves, new games and new boards; from it and the fifty-move rule the array
does not fill. `NoWayBackAssumption`, that no legal moves lead back over an
irreversible one, is what makes it enough to look that far back
(`RepetitionsAreMarked`); `IrreversibleExact` of the run `Chess` is about it on
real boards. Of the games of the position command it is assumed that they are
played from their first position to their last, as `process_uci_move_list` makes
them.

**EngineClock.** `NodeBudgetKept` bounds what was used, but a step needs what is
left: `BudgetExact` says the two add up to the limit, and that something is left
while the search goes on. `FairShareKept` compares the clock with history
variables; the step that ends a search on time needs that its time limit is still
what the clock would give (`LimitIsCurrent`), which commands break, and clear
`punctual`. The arithmetic is one lemma on quotients: when a move uses at most
`time / n` of `time`, what is left divided by `n - 1` is no less. `SearchIsLimited`
is proved of the step that starts a search, for 100 nodes per second and more.

**HashTable.** `UsageExact` equates a counter with the cardinality of the set of
used young slots, `Used`; the lemmas say how this set changes with one slot
written, one bucket, or all, and that a clear or swap empties it. It needs the
types of slots only. `MarkAnswers` needs what no single function shows: under a key that only
one position has, no two young slots of a bucket hold entries of one type
(`OneOfAKind`), so that nothing hides a mark but a lower bound that cuts off. An
insert keeps it, because the slot it takes is that of its own key and type when
there is one (`InsertSlots`, `InsertOneOfAKind`), and a swap moves entries without
doubling them. `MarksStay` looks at the slot each insert takes. The refinement mapping
forgets: an insert adds at most what was inserted, and swap, clear and resize add
nothing. `PowerAssumption` says that powers of two are positive numbers, which the
provers do not know.

**SearchTree.** `EveryMoveOnce` speaks of the nodes in their loops; to be kept
when a child returns or a new child is entered it needs to be known where all
nodes are. `TreeInv` says: the parents below `sp` wait, each with its moves in
order, and while a null move is tried no move has been picked; the node at `sp`
stands where `pc` says; the nodes beyond are at rest. Lemmas on `MoveOrder` say
that each of its functions keeps `GoodOrder`: an entry put in among sorted ones,
a hint that takes a raw move or raises an entry, killers, strong captures, a pick.
Sorting rests on `Below` being a strict order whose incomparability is transitive.
The proof changed the model: `OrderSorted` once claimed order of the entry picked
last, too. That held of the values the run had, yet a check may be
worth more (`move_desc.c:352`) than a strong capture picked before it, so the
waiting entries may stand above it. The run now has such checks.

`BarrierHolds` is about distances: `ra_any` and `ra_best` count the moves back
to the position a value depends on, and no barrier, an irreversible move or a null
move, may lie within that distance. `PastInv` says so of the node at `sp` and of all
its parents (`InReach`); a distance handed from child to parent shrinks by one, so it
is within the parent's reach, unless the child is at a barrier, where it is none.
What is hard is the entry of a node: `find_repetition` goes back two nodes at a time
and looks for a barrier at these only. `RepetitionReaches` says why that suffices. Only a search that is strict about repetitions
hands distances on. There the nearer of two equal positions repeats the other, so
it knows itself repeated; what is repeated switches null moves off and is handed
from parent to child until an irreversible move (`Follows`); and such a move cannot
lie between two equal positions, since nothing undoes it (`NoWayBack`).

The assumptions: `MoveAssumption` sets no move apart from the moves;
`GameAssumption` types the game. `NoWayBack` gives each position a
rank that no move lowers and an irreversible one raises; in chess, pawn moves,
captures and lost castling rights do so. `IrreversibleExact` of the run `Chess`
compares with what `is_move_irreversible` counts. `StackAssumption`: there are at
least two nodes; the program has 1056 (`search.c:47`). No move of the stack's last node
is tried, which is part of `TreeInv`.

*Only model-checked.* The liveness properties: TLAPS has no fairness reasoning.
`MateClaimSound` and `ValueExact` of `SearchTree` compare a value with a recursive
definition, and an induction over data is out of the prover's reach.
`ForcedMoveKnown` and `LinePlayable` rest on values, too: a forced line stays with
the nodes it was made for because an open window cuts none of them off, and the root
has a line because some move raises its alpha. `StaticExchange` has a recursive operator, so
`Position` and the modules above it, `Chess` and `Books` too, carry no theorems;
what they say of particular boards is what the run shows.

## 7. Not modelled

The evaluation is a weighted sum of bitboard terms, without state and without a
reference to compare it with. Perft counts what `MovesExact` checks. Option
parsing, tracing and reading of lines are input and output. Of the thread
library, which is third-party, the calls that block are modelled. Text layout
(white space, figurines, the printed board), the time spent on a move, the
scores of `move_desc.c` that only sort moves, the history heuristic,
`ht_extract_pv` and `hash_entry` are left out of components that are otherwise
modelled.
