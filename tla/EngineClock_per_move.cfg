\* The doc comment on is_tc_secs_per_move against time and go wtime.
SPECIFICATION Spec
CONSTANTS
    TimeSafety = 3
    DefaultDivisor = 40
    MaxPly = 4
    StartClock = 30000
    StartMoves = 40
    Levels <- MCLevels
    Clocks = {0, 300}
    SecsPerMove = {1}
    NpsRates = {50, 500}
    DepthLimits = {0, 2}
    NodeCounts = {1, 4}
    GoOptions <- MCGoOptions
    DepthNodes = {1, 2, 3}
    Lateness = {3, 4}
    MaxCommands = 4
PROPERTIES
    FixedTimePerMove
CHECK_DEADLOCK FALSE
