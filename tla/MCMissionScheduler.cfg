SPECIFICATION FairSchedulerSpec
CONSTANTS
    Missions = {m1}
    Calls = {c1, c2, c3}
    MaxRetryAttempts = 1
    MayFail = {m1}
    MaxRestarts = 1
INVARIANTS
    RunningHasRequest
    UpcomingIsQueued
    DeadAfterRetries
    HistoryIsComplete
PROPERTIES
    RunningEnds
CHECK_DEADLOCK FALSE
