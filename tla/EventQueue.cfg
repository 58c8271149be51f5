\* Three events over three cycles: safety, refinement and liveness.
CONSTANTS
    e1 = e1
    e2 = e2
    e3 = e3
    Events <- ThreeEvents
    Priorities <- ThreePriorities
    MaxCycle = 2
    MaxSteps = 2
SPECIFICATION FairSpec
INVARIANTS
    TypeOK
    NextEventIsFirst
    CallbacksSorted
PROPERTIES
    FifoWithinPriority
    KeepsAgenda
    EventuallyHandled
CHECK_DEADLOCK FALSE
