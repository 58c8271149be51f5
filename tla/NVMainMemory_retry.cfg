\* Violated: only the completion of a client's request sends a retry.
CONSTANTS
    l1 = l1
    l2 = l2
    l3 = l3
    p1 = p1
    p2 = p2
    p3 = p3
    NoLine = NoLine
    NoSlot = NoSlot
    NoRequest = NoRequest
    Lines <- TwoLines
    Requests <- ThreePackets
    TagLines = 1
    QueueSize = 1
    HomeChannels = {"DRAM"}
SPECIFICATION FairSpec
PROPERTIES RetrySent
CHECK_DEADLOCK FALSE
