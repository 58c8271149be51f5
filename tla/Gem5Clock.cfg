\* Two memory systems of different frequencies, stepped by ticks, requests, nested
\* requests and dumps.
CONSTANTS
    q1 = q1
    q2 = q2
    Queues <- TwoQueues
    Num <- SlowAndFastNum
    Den <- SlowAndFastDen
    Horizon = 2
    clock = 2
    MaxTick = 6
    MaxDumps = 1
    NoTick = NoTick
SPECIFICATION Spec
INVARIANTS
    TypeOK
    NoneSkipped
    ClocksInStep
    NextEventAhead
    NeverAhead
    WakeScheduled
CHECK_DEADLOCK FALSE
