\* Insertions, swaps, clears and resizes, of which some fail.
SPECIFICATION Spec
CONSTANTS
    Position <- MCPosition
    Move <- MCMove
    NoMove = "none"
    ZHash <- MCZHash
    HashKey <- MCHashKey
    FitsBoard <- MCFitsBoard
    DeepHalf = 2
    FreshSlots = 1
    MarkDepth = 3
    Inserted <- MCInserted
    Score <- MCScore
    Sizes <- MCSizes
    AllocationFails = TRUE
INVARIANTS
    MarkAnswers
    UsageExact
PROPERTIES
    MarksStay
    IsCache
