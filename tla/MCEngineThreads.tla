-------------------------- MODULE MCEngineThreads --------------------------
(***************************************************************************)
(* A piece of a game tree for TLC: two openings, one of them with a single *)
(* reply, a mate, and the move d4 legal in three of the positions.         *)
(***************************************************************************)
EXTENDS EngineThreads

MCPosition == {"s", "se", "sd", "see", "sec", "sdd", "mate"}
MCMove == {"e4", "d4", "e5", "c5", "d5"}
MCNoMove == "none"
MCStart == "s"

MCEdge ==
    {<<"s", "e4", "se">>, <<"s", "d4", "sd">>,
     <<"se", "e5", "see">>, <<"se", "c5", "sec">>,
     <<"sd", "d5", "sdd">>,
     <<"see", "d4", "mate">>, <<"see", "e4", "sd">>,
     <<"sec", "d4", "mate">>,
     <<"sdd", "e4", "mate">>, <<"sdd", "d4", "se">>}

MCLegal == [p \in MCPosition |-> {e[2] : e \in {x \in MCEdge : x[1] = p}}]

MCPlay ==
    [p \in MCPosition |->
        [m \in MCMove |->
            IF m \in MCLegal[p]
            THEN (CHOOSE e \in MCEdge : e[1] = p /\ e[2] = m)[3]
            ELSE p]]

MCSideToMove ==
    [p \in MCPosition |-> IF p \in {"s", "see", "sec", "sdd"} THEN "white" ELSE "black"]

MCFirstMove ==
    [p \in MCPosition |-> IF MCLegal[p] = {} THEN MCNoMove
                          ELSE CHOOSE m \in MCLegal[p] : TRUE]

MCBookMove == [p \in MCPosition |-> IF p = "s" THEN "d4" ELSE MCNoMove]

(* The games position may be given: none, one and two plies.               *)
MCUciGame ==
    {GameCreate,
     GameAppend(GameCreate, "e4"),
     GameAppend(GameAppend(GameCreate, "e4"), "e5"),
     GameAppend(GameCreate, "d4")}

(* What a head may hold: the end, or a move that is legal once.            *)
MCStack == {MCNoMove, "d4"}

MCSetupPosition == {"see", "sd"}

(* Commands after which no line deadlocks, in any order.                   *)
MCPlayCommands == {"new", "force", "go", "stop", "result", "easy", "set_option",
                   "position", "setboard", "quit", "undo", "redo", "post",
                   "nopost", "ping", "divide", "exitondone"}

MCSearchCommands == {"search_cmd", "go"}

(* Every command that joins a thread, takes one mutex under another or     *)
(* changes the game; of stop, easy and result, which join alike, the first. *)
(* What is left out is among MCPlayCommands.                               *)
MCAllCommands ==
    (PlainCommand \cup OtherCommand)
        \ {"easy", "result", "ping", "divide", "set_option", "post", "nopost",
           "exitondone"}

MCTypedMove == {"e4", "e5"}

MCFewGames == {GameCreate, GameAppend(GameCreate, "d4")}

MCOneSetup == {"see"}
=============================================================================
