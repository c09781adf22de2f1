CONSTANTS
    NoStep = NoStep
    Steps <- MCSteps
    FirstStep = "open"
    Transitions <- TwoBranches
    Handled <- MCSteps
    Waits = {}
    Optional = {}
    WithOutput = {"stock", "credit"}
    MayFail = {}
    MaxAttempts <- MCMaxAttempts
    CompensatedBy <- MCCompensatedBy
    Requests = {}
    MaxCalls = 0
    SerialClient = TRUE
    MaxClock = 1
SPECIFICATION Spec
CHECK_DEADLOCK FALSE
PROPERTY
    OutputsKept
