CONSTANTS
    r1 = r1
    w1 = w1
    w2 = w2
    Reads <- OneRead
    Writes <- TwoWrites
    Rows = {1, 2}
    NoRow = NoRow
    NoRequest = NoRequest
    PauseMode = "IIWC"
    PausePercent = 40
    MaxCancellations = 2
    WriteTime = 4
    IterationStarts = {0, 2}
    tRCD = 1
    tCWD = 1
    tBURST = 1
    tWTR = 1
    ReadTime = 2
SPECIFICATION Spec
INVARIANTS
    NoWriteLost
