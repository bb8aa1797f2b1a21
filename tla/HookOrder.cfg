SPECIFICATION HookSpec
CONSTANTS
    Data <- MCData
    HasNeverRevertedLog = FALSE
    DropTransactionsWithoutReceipt = FALSE
    TrxIds = {1}
    ReceiptChoices <- MCReceipts
    MaxOrdinal = 4
    MaxPreimages = 1
INVARIANTS
    OrdinalsUnique
    OpenCallsAreBranch
CHECK_DEADLOCK FALSE
