---------------------------- MODULE MCSearchTree ----------------------------
(***************************************************************************)
(* Small games, their positions in layers, 100 * game + 10 * ply + index,  *)
(* with moves, checks, captures and values scattered over them.  In games  *)
(* 1 and 2 many lines of moves meet and some positions are mate; in game 4 *)
(* the opponent of the root has only the king.  31 to 34 and 35 to 38 go   *)
(* round in circles; from 51 and 55 there is a short and a long way to the *)
(* same game, so that a second search finds it in the table, when another  *)
(* line has lost its promise.                                              *)
(***************************************************************************)
EXTENDS SearchTree, TLC

Scatter(p, k) == ((p * p * 17 + k * k * 131 + p * k * 53 + 7) % 7919) \div 3

Games == {1, 2, 4}
Plies == 6
Layered == {100 * g + 10 * ply + i : g \in Games, ply \in 0..Plies, i \in 0..4}
Game(p) == p \div 100
Ply(p) == (p % 100) \div 10
Loop ==
    {<<31,1,32>>, <<32,1,33>>, <<33,1,34>>, <<34,1,31>>, <<31,2,110>>, <<32,2,124>>,
     <<33,3,112>>, <<34,2,123>>, <<34,3,35>>,
     <<35,1,36>>, <<36,1,37>>, <<37,1,38>>, <<38,1,35>>,
     <<51,1,52>>, <<52,1,53>>, <<52,2,100>>, <<53,1,54>>, <<54,1,100>>,
     <<53,2,61>>, <<61,1,62>>, <<62,1,63>>, <<63,1,64>>,
     <<55,1,56>>, <<56,1,57>>, <<56,2,400>>, <<57,1,58>>, <<58,1,400>>,
     <<57,2,65>>, <<65,1,66>>, <<66,1,67>>, <<67,1,68>>}
MCPosition == Layered \cup {e[1] : e \in Loop} \cup {64, 68}
MCMove == 1..4

MCInCheck == {p \in Layered : /\ Scatter(p, 9) % 4 = 0
                              /\ Game(p) = 4 => Ply(p) % 2 = 1}
MCLegal == [p \in MCPosition |->
    IF p \notin Layered THEN {e[2] : e \in {f \in Loop : f[1] = p}}
    ELSE IF Ply(p) = Plies THEN {}
    ELSE IF p \in MCInCheck THEN {m \in MCMove : Scatter(p, m) % 3 = 0}
    ELSE {m \in MCMove : Scatter(p, m) % 4 # 0} \cup {1 + (p % 4)}]
Below1(p, k) == 100 * Game(p) + 10 * (Ply(p) + 1) + ((p + k + Ply(p)) % 5)
MCPlay == [p \in MCPosition |-> [m \in MCLegal[p] |->
    IF p \notin Layered THEN (CHOOSE e \in Loop : e[1] = p /\ e[2] = m)[3]
    ELSE Below1(p, m)]]
MCCaptures == [p \in MCPosition |->
    {m \in MCLegal[p] : p \in Layered /\ Scatter(p, 10 + m) % 3 = 0}]
MCStrong == [p \in MCPosition |-> [m \in MCLegal[p] |->
    IF m \in MCCaptures[p] /\ Scatter(p, m) % 2 = 0 THEN 1000 + 10 * m ELSE 0]]
MCGivesCheck == [p \in MCPosition |-> {m \in MCLegal[p] : MCPlay[p][m] \in MCInCheck}]
MCDesc == [p \in MCPosition |-> [m \in MCLegal[p] |->
    (IF Game(p) = 4 /\ m \in MCGivesCheck[p] THEN 1100 ELSE 0) +
    (IF Game(p) # 2 /\ m \in MCCaptures[p] THEN 150 + m ELSE 80 * (Scatter(p, 20 + m) % 4))]]
MCDrawn == {p \in Layered : Game(p) = 2 /\ Scatter(p, 30) % 23 = 0}
MCLoneKing == {p \in Layered : Game(p) = 4 /\ Ply(p) % 2 = 1} \cup {56, 58, 65, 67}
MCLoneOpponent == {p \in Layered : Game(p) = 4 /\ Ply(p) % 2 = 0} \cup {55, 57, 66, 68}
MCQuiet == {<<p, m>> \in MCPosition \X MCMove : m \in MCLegal[p] \ MCCaptures[p]}
MCIrreversible ==
    {<<p, m>> \in MCPosition \X MCMove : m \in MCCaptures[p]}
    \cup {<<e[1], e[2]>> : e \in {f \in Loop : f[2] # 1}}
MCProgress == [p \in MCPosition |->
    IF p \in Layered THEN 2 + Ply(p) ELSE IF p \in (35..38) \cup (61..68) THEN 1 ELSE 0]
MCHash == [p \in MCPosition |-> p]
MCFitsBoard == [p \in MCPosition |-> MCMove]
MCPass == [p \in {q \in Layered : Ply(q) < Plies /\ q \notin MCInCheck} |-> Below1(p, 0)]
            @@ (32 :> 33)
MCPositiveCapture == {p \in Layered : Scatter(p, 31) % 3 = 0}
MCMobile == MCPosition
MCLMR == [d \in 0..12 |-> [i \in 0..4 |-> IF d >= 4 THEN i ELSE 0]]
MCLMP == <<0, 1, 1, 1, 1, 2>>
MCRoots == {100, 103, 110, 203, 210, 31, 35, 55, 400, 413}
MCDepthLimits == [p \in MCPosition |-> IF p = 35 THEN {8} ELSE IF p = 55 THEN {5} ELSE {4}]
Seeds == 1..8
MCEvaluation == [e \in Seeds |-> [p \in MCPosition |->
    IF p \in {61, 63, 65, 67} THEN -8 ELSE IF p \in {62, 66} THEN 8
    ELSE IF p = 64 THEN -9 ELSE IF p = 68 THEN 0
    ELSE IF p \in MCLoneKing THEN -(Scatter(p, 40 + e) % 8)
    ELSE (Scatter(p, 40 + e) % 19) - 9]]

Plain == [plain |-> TRUE, LMR |-> FALSE, LMP |-> FALSE, null_moves |-> FALSE,
          pv_cleanup |-> FALSE, repetition |-> TRUE, strict |-> FALSE,
          beta_extensions |-> FALSE]
Default == [plain |-> FALSE, LMR |-> TRUE, LMP |-> TRUE, null_moves |-> TRUE,
          pv_cleanup |-> FALSE, repetition |-> TRUE, strict |-> FALSE,
          beta_extensions |-> TRUE]
MCSettings == {Plain, Default, [Default EXCEPT !.pv_cleanup = TRUE, !.strict = TRUE],
               [Plain EXCEPT !.strict = TRUE]}
=============================================================================
