SPECIFICATION FairSpec
CONSTANTS
    NoStep = NoStep
    Steps <- MCSteps
    FirstStep = "intake"
    Transitions <- MCTransitions
    Handled <- MCHandled
    Waits = {}
    Optional = {}
    WithOutput = {"intake", "reserve", "charge", "open", "stock", "credit"}
    MayFail = {"charge", "ship", "refund", "notify", "stock", "credit", "fraud"}
    MaxAttempts <- MCMaxAttempts
    CompensatedBy <- MCCompensatedBy
    Requests = {}
    MaxCalls = 0
    SerialClient = TRUE
    MaxClock = 2
INVARIANTS
    FailedMeansCompensated
    CompensationReversed
    HandlersSeeOutputs
    JoinQuorum
    RunningHasWork
PROPERTIES
    EventuallySettled
CHECK_DEADLOCK FALSE
