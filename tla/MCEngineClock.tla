--------------------------- MODULE MCEngineClock ---------------------------
(* The arguments of level and go: two moves in a second, or one, a whole   *)
(* game in two; a go of each kind of option.                               *)
EXTENDS EngineClock

MCLevels == {<<2, 1, 0>>, <<1, 1, 0>>, <<0, 2, 0>>}

MCGoOptions ==
    {<<>>, <<<<"infinite", 0>>>>, <<<<"nodes", 4>>>>,
     <<<<"time", 120>>, <<"inc", 10>>, <<"movestogo", 2>>>>}

=============================================================================
