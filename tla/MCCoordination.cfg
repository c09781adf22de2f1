SPECIFICATION Spec
CONSTANTS
    Callers = {c1, c2}
    w1 = w1
    w2 = w2
    Workers = {w1, w2}
    Leader = w1
    Size = 2
    Mapped = {1}
    MaxPlans = 2
    MaxStarts = 2
    Asks <- MCAsks
INVARIANTS
    StepsInOrder
    VerdictIsEarned
    StartedOnce
PROPERTIES
    OnlyOverlapUndoes
    OverLeftByStaleMove
SYMMETRY CallerSymmetry
CHECK_DEADLOCK FALSE
