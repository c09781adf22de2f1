SPECIFICATION PaymentsSpec
CONSTANTS
    Clients = {c1, c2, c3}
    Keys = {1, 2}
    n1 = n1
    Notes = {n1}
    NoNote = NoNote
    Total <- MCTotal
    NoteAmount <- MCNoteAmount
    Asks <- MCAsks
    SeedStatus <- MCSeedStatus
INVARIANTS
    BalanceNeverNegative
    AppliedNoteCredited
PROPERTIES
    LossOnlyByOverwrite
    ImplementsPaymentLedger
CHECK_DEADLOCK FALSE
