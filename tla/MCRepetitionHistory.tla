------------------------ MODULE MCRepetitionHistory ------------------------
(***************************************************************************)
(* White moves from home to left or right and black moves back, until      *)
(* black pushes a pawn once.  Then the pieces stand as at home, with the   *)
(* right to take the pawn in passing, and the game goes on without it.     *)
(***************************************************************************)
EXTENDS RepetitionHistory

MCPosition == {"home", "left", "right", "pushed", "home2", "left2", "right2"}
MCMove == {"l", "r", "back", "push"}

MCEdge ==
    {<<"home", "l", "left">>, <<"home", "r", "right">>,
     <<"left", "back", "home">>, <<"right", "back", "home">>,
     <<"left", "push", "pushed">>,
     <<"pushed", "l", "left2">>, <<"pushed", "r", "right2">>,
     <<"home2", "l", "left2">>, <<"home2", "r", "right2">>,
     <<"left2", "back", "home2">>, <<"right2", "back", "home2">>}

MCLegal == [p \in MCPosition |-> {e[2] : e \in {x \in MCEdge : x[1] = p}}]
MCPlay ==
    [p \in MCPosition |-> [m \in MCMove |->
        IF m \in MCLegal[p] THEN (CHOOSE e \in MCEdge : e[1] = p /\ e[2] = m)[3]
                            ELSE p]]
MCSideToMove ==
    [p \in MCPosition |-> IF p \in {"home", "pushed", "home2"} THEN "white" ELSE "black"]
MCFirstMove == [p \in MCPosition |-> CHOOSE m \in MCLegal[p] : TRUE]
MCIrreversible == {<<"left", "push">>}
MCBoard == [p \in MCPosition |-> IF p = "pushed" THEN "home2" ELSE p]

MCEveryCommand == {"new", "setboard", "undo", "redo", "position"}

Line(mvs) == FoldLeft(GameAppend, GameCreate, mvs)
(* A line that goes on too long, one that branches off, and none.          *)
MCUciGame ==
    {Line(<<"l", "back", "r", "back", "l", "back", "r", "back">>),
     Line(<<"l", "push", "r">>), Line(<< >>)}
=============================================================================
