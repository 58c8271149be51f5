CONSTANTS
    r1 = r1
    r2 = r2
    r3 = r3
    Requests <- MCRequests
    NoRequest = NoRequest
    BANKS = 1
    SubArrayNum = 1
    Rows = {1, 2}
    NoRow = NoRow
    QueueModel = "PerBank"
    ClosePage = 0
    UsePrecharge = TRUE
    StarvationThreshold = 1
    QueueSize = 2
    UseRefresh = FALSE
    BanksPerRefresh = 1
    DelayedRefreshThreshold = 1
    TREFI = 16
    Delays = {2}
SPECIFICATION FairSpec
VIEW MCView
INVARIANTS
    HeadFitsDevice
PROPERTIES
    EveryTransactionIssued
    KeepsOrder
