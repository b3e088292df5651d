\* Commands of all kinds in any order, also those after which the program may hang.
SPECIFICATION FairSpec
CONSTANTS
    Position <- MCPosition
    Move <- MCMove
    NoMove <- MCNoMove
    Start <- MCStart
    Legal <- MCLegal
    Play <- MCPlay
    SideToMove <- MCSideToMove
    FirstMove <- MCFirstMove
    BookMove <- MCBookMove
    DeadPosition = {}
    Irreversible = {}
    FiftyMoveLimit = 100
    SetupPosition <- MCOneSetup
    UciGame <- MCFewGames
    Uninitialised <- MCStack
    TypedMove <- MCTypedMove
    Commands <- MCAllCommands
    Limited = TRUE
    MaxLines = 3
    MaxDepth = 1
CHECK_DEADLOCK FALSE
INVARIANTS
    TypeOK
    OneSearch
    StartedExcludesForce
    KeyNeverAhead
PROPERTIES
    StaleAnswerStaysStale
    MainResponsive
    ComputerAnswers
