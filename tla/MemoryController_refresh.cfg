CONSTANTS
    r1 = r1
    r2 = r2
    r3 = r3
    Requests <- TwoRequests
    NoRequest = NoRequest
    BANKS = 2
    SubArrayNum = 2
    Rows = {1}
    NoRow = NoRow
    QueueModel = "PerBank"
    ClosePage = 1
    UsePrecharge = TRUE
    StarvationThreshold = 1
    QueueSize = 2
    UseRefresh = TRUE
    BanksPerRefresh = 2
    DelayedRefreshThreshold = 1
    TREFI = 8
    Delays = {1}
SPECIFICATION Spec
VIEW MCView
SYMMETRY MCSymmetry
INVARIANTS
    TypeOK
    RecordMatchesDevice
    RefreshMarked
    RefreshesInTime
    CommandsAwaited
    TransactionsAwaited
PROPERTIES
    IssuedOnce
