SPECIFICATION MCSpec
CONSTANTS
    Calls = {1, 2}
    Hashes = {20, 42, 64}
    Hashings <- MCHashings
    Keys = {20, 43, 50, 64}
    HalfWord = 10
    OffsetLimit = 2
    MaxSize = 5
    MaxDepth = 1
    MaxStores = 2
    Accounts = {Alice, Bob}
    Sender = Alice
    NoAuthority = NoAuthority
    MaxAuths = 3
    MaxNonce = 1
    MaxFrames = 2
INVARIANTS
    FilterTypeOK
    AttachedExplain
    KeptIsLeast
    AppliedNonceKeptOnce
    KeptVouchedFor
CHECK_DEADLOCK FALSE
