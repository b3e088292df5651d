\* A search of the user and a move: is the search that is told to stop ever done?
SPECIFICATION FairSpec
CONSTANTS
    Position <- MCPosition
    Move <- MCMove
    NoMove <- MCNoMove
    Start <- MCStart
    Legal <- MCLegal
    Play <- MCPlay
    SideToMove <- MCSideToMove
    FirstMove <- MCFirstMove
    BookMove <- MCBookMove
    DeadPosition = {}
    Irreversible = {}
    FiftyMoveLimit = 100
    SetupPosition <- MCSetupPosition
    UciGame <- MCUciGame
    Uninitialised <- MCStack
    TypedMove <- MCMove
    Commands <- MCSearchCommands
    Limited = TRUE
    MaxLines = 2
    MaxDepth = 1
CHECK_DEADLOCK FALSE
PROPERTIES
    RunFlagStopsSearch
