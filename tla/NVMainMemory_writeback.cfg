\* Violated: the write-back goes to the line that took the slot over.
CONSTANTS
    l1 = l1
    l2 = l2
    l3 = l3
    p1 = p1
    p2 = p2
    p3 = p3
    NoLine = NoLine
    NoSlot = NoSlot
    NoRequest = NoRequest
    Lines <- TwoLines
    Requests <- ThreePackets
    TagLines = 1
    QueueSize = 6
    HomeChannels = {"DRAM"}
SPECIFICATION Spec
SYMMETRY MCSymmetry
INVARIANTS WritebackToItsLine
CHECK_DEADLOCK FALSE
