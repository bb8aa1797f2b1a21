SPECIFICATION Spec
CONSTANTS
    Isolated = {w1}
    Committers = {c1, c2}
    None = None
    DropTransactionsWithoutReceipt = FALSE
    Recorders = {}
    SystemCallers = {}
    Contenders = {w1}
    MaxAttempts = 1
    MaxMarks = 2
    MaxOwn = 1
INVARIANT NoPanic
