\* Four games under four sets of settings, two searches of each.
SPECIFICATION Spec
CONSTANTS
    Position <- MCPosition
    Move <- MCMove
    NoMove = 0
    ZHash <- MCHash
    HashKey <- MCHash
    FitsBoard <- MCFitsBoard
    DeepHalf = 2
    FreshSlots = 2
    MarkDepth = 99
    Legal <- MCLegal
    Captures <- MCCaptures
    StrongValue <- MCStrong
    DescValue <- MCDesc
    GivesCheck <- MCGivesCheck
    Play <- MCPlay
    Pass <- MCPass
    InCheck <- MCInCheck
    Drawn <- MCDrawn
    LoneKing <- MCLoneKing
    LoneOpponent <- MCLoneOpponent
    Irreversible <- MCIrreversible
    Progress <- MCProgress
    Quiet <- MCQuiet
    Mobile <- MCMobile
    Flexible <- MCMobile
    PositiveCapture <- MCPositiveCapture
    MaxValue = 40
    MateValue = 28
    PawnValue = 2
    LMR <- MCLMR
    LMP <- MCLMP
    LastNode = 9
    NullDepth = 2
    CleanupLimit = 4
    Evaluation <- MCEvaluation
    CancelTest = 47
    Buckets = 4
    Roots <- MCRoots
    TreeRoots = {100, 103, 110, 400, 413}
    Evaluations = {2, 3}
    Settings <- MCSettings
    DepthLimits <- MCDepthLimits
    NodeLimits = {0, 150}
    Searches = 2
INVARIANTS
    ForcedMoveKnown
    BarrierHolds
    EveryMoveOnce
    MateClaimSound
    ValueExact
    LinePlayable
CHECK_DEADLOCK FALSE
