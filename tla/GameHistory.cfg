\* Two games, of which one may be a copy; unwritten memory holds anything.
SPECIFICATION Spec
CONSTANTS
    g1 = g1
    g2 = g2
    Position <- MCPosition
    Move <- MCMove
    NoMove = "none"
    Start = "s"
    Legal <- MCLegal
    Play <- MCPlay
    SideToMove <- MCSideToMove
    FirstMove <- MCFirstMove
    DeadPosition = {}
    Irreversible <- MCIrreversible
    FiftyMoveLimit = 100
    GameId <- MCTwoGames
    Item = {n1, n2, n3, n4}
    Null = Null
    HeadPosition = {"b"}
    HeadCount = {3}
    Uninitialised <- MCStack
    MaxLength = 3
SYMMETRY Symmetry
INVARIANTS
    HeapSound
    DrawsAgree
    
PROPERTIES
    RefinesLines
