\* A clock, its time controls and its limits, set in any order.
SPECIFICATION Spec
CONSTANTS
    TimeSafety = 3
    DefaultDivisor = 40
    MaxPly = 4
    StartClock = 30000
    StartMoves = 40
    Levels <- MCLevels
    Clocks = {0, 300}
    SecsPerMove = {1}
    NpsRates = {50, 500}
    DepthLimits = {0, 2}
    NodeCounts = {1, 4}
    GoOptions <- MCGoOptions
    DepthNodes = {1, 2, 3}
    Lateness = {3, 4}
    MaxCommands = 4
INVARIANTS
    NodeBudgetKept
    FairShareKept
PROPERTIES
    SearchIsLimited
CHECK_DEADLOCK FALSE
