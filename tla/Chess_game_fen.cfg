SPECIFICATION Spec
CONSTANTS
    Opening <- BlackPush
    FenLines <- MCFenLines
    PolyglotFile <- MCPolyglotFile
    PolyglotKeys <- MCPolyglotKeys
    BrokenOffsets <- MCBrokenOffsets
INVARIANT GameFenReadsBack
CHECK_DEADLOCK FALSE
