SPECIFICATION Spec
CONSTANTS
    Opening <- KnightsChangePlaces
    FenLines <- MCFenLines
    PolyglotFile <- MCPolyglotFile
    PolyglotKeys <- MCPolyglotKeys
    BrokenOffsets <- MCBrokenOffsets
INVARIANT RepetitionIsReal
CHECK_DEADLOCK FALSE
