SPECIFICATION LedgerSpec
CONSTANTS
    Calls = {c1, c2, c3, c4, c5}
    t1 = t1
    Templates = {t1}
    TemplateLines <- MCBalanced
    StartDate <- MCStartDate
    EndDate <- MCEndDate
    Interval <- MCInterval
    InputLines <- MCInputLines
    Dates = {0, 1, 2, 3, 5}
    None = None
SYMMETRY Symmetric
CHECK_DEADLOCK FALSE
INVARIANTS
    ReversedHasReversal
    ReversedOnce
    GeneratedApart
PROPERTIES
    ReopenedOnlyByStalePost
