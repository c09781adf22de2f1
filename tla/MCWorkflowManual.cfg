CONSTANTS
    NoStep = NoStep
    Steps <- MCSteps
    FirstStep = "draft"
    Transitions <- MCTransitions
    Handled = {}
    Waits = {"cool"}
    Optional = {"review"}
    WithOutput = {"draft"}
    MayFail = {}
    MaxAttempts <- MCMaxAttempts
    CompensatedBy <- MCCompensatedBy
    Requests <- AllRequests
    MaxCalls = 6
    SerialClient = TRUE
    MaxClock = 3
SPECIFICATION Spec
CHECK_DEADLOCK FALSE
INVARIANTS
    FailedOnLastAttempt
PROPERTIES
    ResolvedStepsAreFinal
    TerminalIsFinal
