----------------------------- MODULE GameLines -----------------------------
(***************************************************************************)
(* What src/src/game.h promises its callers: games that are lines of play  *)
(* with a cursor, each of them on its own.                                 *)
(***************************************************************************)
EXTENDS GameLine

CONSTANTS
    GameId,         \* the games the program keeps at one time
    HeadPosition,   \* the positions a FEN may hold
    HeadCount       \* and the half move counts

VARIABLE line       \* line[g]: the game, or NoGame

Created(g) == line[g] # NoGame

Set(g, v) == line' = [line EXCEPT ![g] = v]

Init == line = [g \in GameId |-> NoGame]

Create(g) == ~Created(g) /\ Set(g, GameCreate)

ResetFen(g) ==
    /\ Created(g)
    /\ \E p \in HeadPosition, half \in HeadCount : Set(g, GameFrom(p, half))

PlayMove(g) ==
    /\ Created(g)
    /\ \E m \in Legal[CurrentPosition(line[g])] : Set(g, GameAppend(line[g], m))

Truncate(g) == Created(g) /\ Set(g, GameTruncate(line[g]))

Revert(g) == Created(g) /\ CanRevert(line[g]) /\ Set(g, GameRevert(line[g]))

Forward(g) == Created(g) /\ CanForward(line[g]) /\ Set(g, GameForward(line[g]))

Copy(g, h) == Created(g) /\ ~Created(h) /\ Set(h, line[g])

Destroy(g) == Created(g) /\ Set(g, NoGame)

Next ==
    \/ \E g \in GameId :
        \/ Create(g)    \/ ResetFen(g)  \/ PlayMove(g) \/ Truncate(g)
        \/ Revert(g)    \/ Forward(g)   \/ Destroy(g)
    \/ \E g, h \in GameId : Copy(g, h)

Spec == Init /\ [][Next]_line

=============================================================================
