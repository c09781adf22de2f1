SPECIFICATION StockSpec
CONSTANTS
    Calls = {c1, c2, c3}
    Keys = {k1}
    NoCall = NoCall
    Stuck = {}
    Operations <- MCOperations
    SeedLevels <- MCSeedLevels
INVARIANTS
    NoDuplicateLevel
PROPERTIES
    ImplementsStockBook
CHECK_DEADLOCK FALSE
