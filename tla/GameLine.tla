------------------------------ MODULE GameLine ------------------------------
(***************************************************************************)
(* A game as its user sees it: the positions of one line of play, the      *)
(* moves between them, and a cursor that undo and redo move along it.      *)
(* These operators say what every operation of src/src/game.c promises;    *)
(* GameHistory models the linked list that keeps the promise.              *)
(***************************************************************************)
EXTENDS ChessRules, Sequences

CONSTANT FiftyMoveLimit     \* 100 half moves

ASSUME FiftyMoveAssumption == FiftyMoveLimit \in Nat

(* pos[1] is the position the game started from, mv[i] leads from pos[i]   *)
(* to pos[i + 1], cur is the place of the cursor, and half0 the half move  *)
(* count the starting position came with.                                  *)
Game ==
    {g \in [pos : Seq(Position), mv : Seq(Move), cur : Nat, half0 : Nat] :
        /\ g.cur \in 1..Len(g.pos)
        /\ Len(g.pos) = Len(g.mv) + 1}

(* A game made by game_append alone: every move was legal where it stands, *)
(* and led to the position behind it.                                      *)
IsPlayed(g) ==
    \A i \in 1..Len(g.mv) :
        g.mv[i] \in Legal[g.pos[i]] /\ g.pos[i + 1] = Play[g.pos[i]][g.mv[i]]

GameFrom(p, half) == [pos |-> <<p>>, mv |-> << >>, cur |-> 1, half0 |-> half]

GameCreate == GameFrom(Start, 0)

(* Where no game is kept: the line with no position at all.                *)
NoGame == [pos |-> << >>, mv |-> << >>, cur |-> 0, half0 |-> 0]

CurrentPosition(g) == g.pos[g.cur]

Turn(g) == SideToMove[CurrentPosition(g)]

(* The moves ahead of the cursor are dropped.                              *)
GameTruncate(g) ==
    [pos |-> SubSeq(g.pos, 1, g.cur), mv |-> SubSeq(g.mv, 1, g.cur - 1),
     cur |-> g.cur, half0 |-> g.half0]

CanAppend(g, m) == m \in Legal[CurrentPosition(g)]

(* Playing a move drops what was undone, and the cursor follows the move.  *)
GameAppend(g, m) ==
    [pos |-> Append(SubSeq(g.pos, 1, g.cur), Play[CurrentPosition(g)][m]),
     mv |-> Append(SubSeq(g.mv, 1, g.cur - 1), m),
     cur |-> g.cur + 1, half0 |-> g.half0]

(* Wrong variant: the start of the game does not stop undo.                *)
CanRevertAlways(g) == TRUE

CanRevert(g) == g.cur > 1
GameRevert(g) == [g EXCEPT !.cur = @ - 1]

CanForward(g) == g.cur < Len(g.pos)
GameForward(g) == [g EXCEPT !.cur = @ + 1]

HasMoveToNext(g) == g.cur < Len(g.pos)
MoveToNext(g) == g.mv[g.cur]

(* Every move of b, those ahead of its cursor included, is a move of a.    *)
GameContinues(a, b) ==
    /\ a.pos[1] = b.pos[1]
    /\ Len(b.mv) <= Len(a.mv)
    /\ SubSeq(a.mv, 1, Len(b.mv)) = b.mv

Repetitions(g) ==
    Cardinality({i \in 1..g.cur : g.pos[i] = CurrentPosition(g)})

(* Half moves since the last irreversible move.                            *)
HalfMoveCount(g) ==
    LET irreversible == {i \in 1..(g.cur - 1) :
                            <<g.pos[i], g.mv[i]>> \in Irreversible}
    IN  IF irreversible = {}
        THEN g.half0 + g.cur - 1
        ELSE LET last == CHOOSE i \in irreversible :
                            \A j \in irreversible : j <= i
             IN  g.cur - 1 - last

GameIsEnded(g) ==
    \/ Repetitions(g) >= 3
    \/ CurrentPosition(g) \in DeadPosition
    \/ HalfMoveCount(g) >= FiftyMoveLimit
    \/ Legal[CurrentPosition(g)] = {}

=============================================================================
