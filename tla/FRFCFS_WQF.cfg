CONSTANTS
    Requests = {r1, r2, r3}
    Queues <- TwoQueues
    ReadQueueSize = 2
    WriteQueueSize = 2
    ConfigHigh = 2
    ConfigLow = 1
    RowCommand = ROW
    MaxRowCommands = 1
SPECIFICATION FairSpec
INVARIANTS
    TypeOK
    TransactionsAwaited
PROPERTIES
    DrainsEnd
    WritesDrained
    ReadsServed
    DrainCompletes
    IssuedExactlyOnce
