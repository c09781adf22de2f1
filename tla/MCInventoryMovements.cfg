SPECIFICATION FairMovementSpec
CONSTANTS
    Movements = {m1, m2, m3}
    Calls <- MCCalls
    Keys = {1, 2}
    Requests <- MCRequests
    Operations <- MCOperations
    SeedLevels <- MCSeedLevels
INVARIANTS
    LedgerBalances
    FailedMovesNothing
PROPERTIES
    EveryMovementEnds
CHECK_DEADLOCK FALSE
