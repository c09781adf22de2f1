SPECIFICATION CountingSpec
CONSTANTS
    i1 = i1
    CountCalls = {a1, a2, a3, a4}
    Lines <- MCLines
    CountAsks <- MCAsks
    Movements <- MCMovements
    Calls <- MCCalls
    Keys = {1, 2}
    Requests <- MCOthers
    Operations <- MCOperations
    SeedLevels <- MCSeedLevels
INVARIANTS
    CompletedIsReconciled
    CompletionAdjustsAll
PROPERTIES
    RecordedCountsKept
    CompletedIsFinal
SYMMETRY Symmetric
CHECK_DEADLOCK FALSE
