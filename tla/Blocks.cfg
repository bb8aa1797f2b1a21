SPECIFICATION Spec
CONSTANTS
    Data <- MCData
    HasNeverRevertedLog = TRUE
    DropTransactionsWithoutReceipt = TRUE
    Profiles <- MCProfiles
    MaxContexts = 3
    MaxFrames = 4
INVARIANTS
    TypeOK
    NoPanic
    CallTrees
    RevertedExactly
    NothingLeftBehind
    LogIndexesDense
    Chronology
    Attributed
    ReceiptLogsFaithful
PROPERTIES
    ImplementsJournal
