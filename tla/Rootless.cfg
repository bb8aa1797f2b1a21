SPECIFICATION Spec
CONSTANTS
    Data <- MCData
    HasNeverRevertedLog = FALSE
    DropTransactionsWithoutReceipt = FALSE
    Profiles <- MCTransfers
    MaxContexts = 1
    MaxFrames = 1
INVARIANT AllRecorded
