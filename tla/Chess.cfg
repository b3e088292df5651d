SPECIFICATION Spec
CONSTANTS
    Opening <- PlayedOpenings
    FenLines <- MCFenLines
    PolyglotFile <- MCPolyglotFile
    PolyglotKeys <- MCPolyglotKeys
    BrokenOffsets <- MCBrokenOffsets
INVARIANTS
    IncrementalExact
    MovesExact
    FenReadsBack
    MovesReadBack
    BookSound
    BookComplete
PROPERTY IrreversibleExact
CHECK_DEADLOCK FALSE
