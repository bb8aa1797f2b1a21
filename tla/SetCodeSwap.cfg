SPECIFICATION AuthSpec
CONSTANTS
    Accounts = {Alice, Bob}
    Sender = Alice
    NoAuthority = NoAuthority
    MaxAuths = 2
    MaxNonce = 1
    MaxFrames = 2
INVARIANTS
    AppliedKept
CHECK_DEADLOCK FALSE
