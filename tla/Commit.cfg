SPECIFICATION Spec
CONSTANTS
    Isolated = {w1, w2}
    Committers = {c1, c2}
    None = None
    DropTransactionsWithoutReceipt = TRUE
    Recorders = {}
    SystemCallers = {}
    Contenders = {}
    MaxAttempts = 2
    MaxMarks = 2
    MaxOwn = 0
SYMMETRY Symmetry
INVARIANTS
    TypeOK
    OrdinalsDense
    ReceiptFollowsLogs
    CommitsLand
PROPERTIES
    CommitsAreAtomic
