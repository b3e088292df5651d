\* Every command that moves the game, in any order.
SPECIFICATION Spec
CONSTANTS
    Position <- MCPosition
    Move <- MCMove
    NoMove = "none"
    Start = "home"
    Legal <- MCLegal
    Play <- MCPlay
    SideToMove <- MCSideToMove
    FirstMove <- MCFirstMove
    DeadPosition = {}
    Irreversible <- MCIrreversible
    FiftyMoveLimit = 5
    Board <- MCBoard
    Capacity = 6
    HeadPosition = {"left", "home2"}
    Commands <- MCEveryCommand
    UciGame <- MCUciGame
    MaxLength = 11
CHECK_DEADLOCK FALSE
INVARIANTS
    HistoryIsSuffix
    WarnedOfRepetition
    MarksAreRepeated
PROPERTIES
    OnlyReplacingForgets
