SPECIFICATION FairSpec
CONSTANTS
    Isolated = {w1, w2}
    Committers = {c1, c2}
    None = None
    DropTransactionsWithoutReceipt = FALSE
    Recorders = {w1}
    SystemCallers = {w1}
    Contenders = {}
    MaxAttempts = 1
    MaxMarks = 1
    MaxOwn = 1
PROPERTIES
    CommitsFinish
