SPECIFICATION Spec
CONSTANTS
    Isolated = {w1}
    Committers = {c1}
    None = None
    DropTransactionsWithoutReceipt = FALSE
    Recorders = {}
    SystemCallers = {w1}
    Contenders = {}
    MaxAttempts = 1
    MaxMarks = 2
    MaxOwn = 1
PROPERTY SharedBlockReadOnly
