SPECIFICATION FairSpec
CONSTANTS
    Closers = {c1, c2}
    BufferSizes = {0, 1, 2}
    ConfigHasChain = FALSE
    MaxWriteAttempts = 3
    LineLength = 2
    MaxBlocks = 4
INVARIANTS
    TypeOK
    OneWriter
PROPERTIES
    ImplementsStream
    EverythingIsWritten
    ClosesReturn
CHECK_DEADLOCK FALSE
