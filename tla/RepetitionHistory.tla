------------------------- MODULE RepetitionHistory -------------------------
(***************************************************************************)
(* The positions src/src/engine.c keeps to see repetitions coming: the     *)
(* array history, and the hash table entries that mark a position as       *)
(* drawn, against the game of the command loop.                            *)
(*                                                                         *)
(* Every command here runs with no search under way; EngineThreads models  *)
(* the locks, the searches and the modes that undo, redo and setboard ask  *)
(* for.  A FEN says nothing of the half moves before it.                   *)
(***************************************************************************)
EXTENDS GameLine, SequencesExt

CONSTANTS
    Board,          \* Board[p]: what board_cmp sees of a position, the pieces
    Capacity,       \* ARRAY_LENGTH(history), 1024
    Commands,       \* which of new, setboard, undo, redo and position are used
    HeadPosition,   \* the positions a FEN may hold
    UciGame,        \* the games the position command may be given
    MaxLength       \* bound: positions in a game

ASSUME HistoryAssumption ==
    /\ DOMAIN Board = Position
    /\ Capacity \in Nat \ {0}
    /\ FiftyMoveLimit < Capacity
    /\ Commands \subseteq {"new", "setboard", "undo", "redo", "position"}
    /\ HeadPosition \subseteq Position
    /\ UciGame \subseteq Game
    /\ \A g \in UciGame : IsPlayed(g) /\ g.cur = Len(g.pos)
    /\ MaxLength \in Nat

(* What is_move_irreversible is for: no legal moves lead back to a         *)
(* position before an irreversible one.  The positions that can come after *)
(* the move, and so are closed under legal moves, do not include it.       *)
ClosedUnderMoves(S) == \A p \in S : \A m \in Legal[p] : Play[p][m] \in S

ASSUME NoWayBackAssumption ==
    \A p \in Position : \A m \in Legal[p] :
        <<p, m>> \in Irreversible =>
            \E S \in SUBSET Position :
                ClosedUnderMoves(S) /\ Play[p][m] \in S /\ p \notin S

VARIABLES
    game,           \* the game of the command loop
    history,        \* history[0 .. history_length - 1]
    marked,         \* the positions in the hash table with depth 99 and value 0
    overrun         \* whether a position was written behind the array

engine == <<history, marked, overrun>>
vars == <<game, engine>>

-----------------------------------------------------------------------------
(* filter_duplicates                                                       *)

(* Wrong variant: the other side's positions are compared.                 *)
AgainOffByOne(h, i) ==
    {j \in (i + 1)..Len(h) : (j - i) % 2 = 1 /\ Board[h[i]] = Board[h[j]]}

(* Where the pieces of the i-th position stand again, the same side to     *)
(* move.                                                                   *)
Again(h, i) ==
    {j \in (i + 1)..Len(h) : (j - i) % 2 = 0 /\ Board[h[i]] = Board[h[j]]}

Duplicates(h) == {h[i] : i \in {x \in DOMAIN h : Again(h, x) # {}}}

(* The search for the i-th position ends where it is first found again.    *)
IsRootDuplicate(h) ==
    \E i \in DOMAIN h : Len(h) \in Again(h, i) /\ Again(h, i) = {Len(h)}

(* The engine's data: history, the positions marked, and the overrun.      *)
Engine == [history |-> history, marked |-> marked, overrun |-> overrun]

Becomes(e) ==
    /\ history' = e.history
    /\ marked' = e.marked
    /\ overrun' = e.overrun

(* add_history_as_repetition                                               *)
WithRepetitions(e, h) ==
    [history |-> h,
     marked |-> (IF IsRootDuplicate(h) THEN {} ELSE e.marked) \cup Duplicates(h),
     overrun |-> e.overrun]

(* Wrong variant: an irreversible move drops its own position as well.     *)
ProcessedDropsLast(e, m) ==
    LET p == Last(e.history) IN
    IF Len(e.history) = Capacity THEN [e EXCEPT !.overrun = TRUE]
    ELSE WithRepetitions(e, IF <<p, m>> \in Irreversible THEN <<p>>
                            ELSE Append(e.history, Play[p][m]))

(* engine_process_move: the position is written before anything is checked. *)
Processed(e, m) ==
    LET p == Last(e.history) IN
    IF Len(e.history) = Capacity THEN [e EXCEPT !.overrun = TRUE]
    ELSE WithRepetitions(e, IF <<p, m>> \in Irreversible THEN <<Play[p][m]>>
                            ELSE Append(e.history, Play[p][m]))

(* The moves of replay_new_moves, one after the other.                     *)
ProcessedAll(e, mvs) ==
    LET after[i \in 0..Len(mvs)] ==
            IF i = 0 THEN e ELSE Processed(after[i - 1], mvs[i])
    IN  after[Len(mvs)]

(* Wrong variant: the hash table is not cleared.                           *)
ResetKeepsMarks(p) == history' = <<p>> /\ UNCHANGED <<marked, overrun>>

(* reset_engine                                                            *)
Reset(p) ==
    /\ history' = <<p>>
    /\ marked' = {}
    /\ UNCHANGED overrun

-----------------------------------------------------------------------------
Init ==
    /\ game = GameCreate
    /\ history = <<Start>>
    /\ marked = {}
    /\ overrun = FALSE

(* After the array has overrun nothing can be said.                        *)
Enabled(c) == c \in Commands /\ ~overrun

(* Wrong variant: moves are taken after the game has ended.                *)
AcceptsAnyMove == TRUE

(* try_read_move takes no move once the game has ended; nor does the       *)
(* computer make one then.                                                 *)
AcceptsMove == ~GameIsEnded(game)

(* add_move, from the user or the computer.                                *)
PlayMove ==
    /\ ~overrun
    /\ AcceptsMove
    /\ game.cur < MaxLength
    /\ \E m \in Legal[CurrentPosition(game)] :
        /\ game' = GameAppend(game, m)
        /\ Becomes(Processed(Engine, m))

CmdNew ==
    /\ Enabled("new")
    /\ game' = GameCreate
    /\ Reset(Start)

CmdSetboard ==
    /\ Enabled("setboard")
    /\ \E p \in HeadPosition :
        /\ game' = GameFrom(p, 0)
        /\ Reset(p)

CmdUndo ==
    /\ Enabled("undo")
    /\ CanRevert(game)
    /\ game' = GameRevert(game)
    /\ Reset(CurrentPosition(game'))

CmdRedo ==
    /\ Enabled("redo")
    /\ CanForward(game)
    /\ game' = GameForward(game)
    /\ Reset(CurrentPosition(game'))

(* cmd_position: the moves behind the cursor are replayed, ended or not.   *)
CmdPosition ==
    /\ Enabled("position")
    /\ \E g \in UciGame :
        IF GameContinues(g, game)
        THEN /\ game' = [g EXCEPT !.half0 = game.half0]
             /\ Becomes(ProcessedAll(Engine, SubSeq(g.mv, game.cur, Len(g.mv))))
        ELSE /\ game' = g
             /\ Reset(CurrentPosition(g))

Next ==
    \/ PlayMove
    \/ CmdNew  \/ CmdSetboard  \/ CmdUndo  \/ CmdRedo  \/ CmdPosition

Spec == Init /\ [][Next]_vars

-----------------------------------------------------------------------------
(* Properties.                                                             *)

(* The engine's positions are the last ones of the line on the board, and  *)
(* never reach back across an irreversible move: what the engine counts as *)
(* a repetition is one of this game.                                       *)
HistoryIsSuffix ==
    ~overrun =>
        /\ Len(history) <= HalfMoveCount(game) + 1
        /\ Len(history) <= game.cur
        /\ history = SubSeq(game.pos, game.cur - Len(history) + 1, game.cur)

(* "All positions since the last irreversible move" (engine.c on history). *)
AllPositionsKept == Len(history) = HalfMoveCount(game) + 1

(* Taking moves one by one, a new game and a new board keep all of them;   *)
(* going back, or on to another game, is what forgets some.                *)
OnlyReplacingForgets ==
    [][AllPositionsKept /\ ~overrun /\ (PlayMove \/ CmdNew \/ CmdSetboard)
        => AllPositionsKept' /\ ~overrun']_vars

(* A move to a position that has stood twice ends the game; unless some    *)
(* positions were forgotten, the hash table tells the search so before it  *)
(* is played.                                                              *)
WarnedOfRepetition ==
    ~overrun /\ AllPositionsKept =>
        \A m \in Legal[CurrentPosition(game)] :
            LET p == Play[CurrentPosition(game)][m] IN
            Repetitions(GameAppend(game, m)) >= 3 => p \in marked

(* Nothing else is marked: the pieces of a marked position have stood at   *)
(* least twice in the game, the same side to move.                         *)
MarksAreRepeated ==
    \A p \in marked :
        Cardinality({i \in 1..game.cur : Board[game.pos[i]] = Board[p]}) >= 2

=============================================================================
