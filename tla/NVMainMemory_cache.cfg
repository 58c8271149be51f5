\* Overlapping evictions of one slot, in queues that may fill up.
CONSTANTS
    l1 = l1
    l2 = l2
    l3 = l3
    p1 = p1
    p2 = p2
    p3 = p3
    NoLine = NoLine
    NoSlot = NoSlot
    NoRequest = NoRequest
    Lines <- ThreeLines
    Requests <- ThreePackets
    TagLines = 1
    QueueSize = 2
    HomeChannels = {"DRAM", "NVRAM"}
SPECIFICATION FairSpec
INVARIANTS
    TypeOK
    TagsConsistent
    EvictionsPaired
    SettlesUnlessPressed
    OvertakenUnlessPressed
    RequestsMapped
PROPERTIES
    ReadsAnswered
    EvictionsFinish
CHECK_DEADLOCK FALSE
