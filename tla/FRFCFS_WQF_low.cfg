CONSTANTS
    Requests = {r1, r2, r3}
    Queues <- OneQueue
    ReadQueueSize = 2
    WriteQueueSize = 2
    ConfigHigh = 2
    ConfigLow = 0
    RowCommand = ROW
    MaxRowCommands = 1
SPECIFICATION FairSpec
PROPERTIES
    DrainsEnd
