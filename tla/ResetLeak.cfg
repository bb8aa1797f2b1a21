SPECIFICATION Spec
CONSTANTS
    Isolated = {w1}
    Committers = {c1}
    None = None
    DropTransactionsWithoutReceipt = FALSE
    Recorders = {w1}
    SystemCallers = {}
    Contenders = {}
    MaxAttempts = 2
    MaxMarks = 2
    MaxOwn = 1
INVARIANT RetriesStartClean
