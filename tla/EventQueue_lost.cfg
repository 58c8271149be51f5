\* The guarantee stated in a comment of EventQueue::Loop, refuted.
CONSTANTS
    e1 = e1
    e2 = e2
    e3 = e3
    Events <- ThreeEvents
    Priorities <- ThreePriorities
    MaxCycle = 2
    MaxSteps = 2
SPECIFICATION Spec
INVARIANT NoEventLost
CHECK_DEADLOCK FALSE
