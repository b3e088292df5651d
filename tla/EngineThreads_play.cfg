\* Ordinary play: moves and the commands of a game, in any order.
SPECIFICATION FairSpec
CONSTANTS
    Position <- MCPosition
    Move <- MCMove
    NoMove <- MCNoMove
    Start <- MCStart
    Legal <- MCLegal
    Play <- MCPlay
    SideToMove <- MCSideToMove
    FirstMove <- MCFirstMove
    BookMove <- MCBookMove
    DeadPosition = {}
    Irreversible = {}
    FiftyMoveLimit = 100
    SetupPosition <- MCSetupPosition
    UciGame <- MCUciGame
    Uninitialised <- MCStack
    TypedMove <- MCMove
    Commands <- MCPlayCommands
    Limited = TRUE
    MaxLines = 3
    MaxDepth = 2
INVARIANTS
    EngineMirrorsGame
    BestMoveKnown
    NoInternalError
PROPERTIES
    ForceModeFreezesGame
    RunFlagStopsSearch
