SPECIFICATION FairPlanningSpec
CONSTANTS
    Calls = {c1, c2, c3}
    k1 = k1
    k2 = k2
    Keys = {k1, k2}
    NoCall = NoCall
    Stuck = {k2}
    Closers = {d1}
    Asks <- MCAsks
PROPERTIES
    WithinCapacity
    ReopenedOnlyByUpdate
    OtherKeysProceed
    ImplementsFifoLock
CHECK_DEADLOCK FALSE
