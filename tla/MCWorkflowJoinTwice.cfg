CONSTANTS
    NoStep = NoStep
    Steps <- MCSteps
    FirstStep = "open"
    Transitions <- TwoBranches
    Handled <- MCSteps
    Waits = {}
    Optional = {}
    WithOutput = {}
    MayFail = {}
    MaxAttempts <- MCMaxAttempts
    CompensatedBy <- MCCompensatedBy
    Requests = {}
    MaxCalls = 0
    SerialClient = TRUE
    MaxClock = 1
SPECIFICATION Spec
CHECK_DEADLOCK FALSE
INVARIANT
    JoinOnce
