SPECIFICATION Spec
CONSTANTS
    Nodes <- MCNodes
    Numbers = {0, 1, 2, 3, 5}
    Indexes = {0, 1, 2, 4}
    LibWindow = 2
    FinalOffset = 3
INVARIANTS
    TypeOK
    OrdinalsContiguous
    LibInWindow
    PrintedIndexDecodes
PROPERTIES
    ImplementsSequence
    LibNeverMovesBack
CHECK_DEADLOCK FALSE
