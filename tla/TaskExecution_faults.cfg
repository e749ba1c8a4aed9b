SPECIFICATION Spec
CONSTANTS
    t1 = t1
    t2 = t2
    a1 = a1
    a2 = a2
    Tasks <- TwoTasks
    Agents <- TwoAgents
    Classes <- TwoClasses
    Quota <- Quotas
    Request <- Requests
    AgentOf <- Placed
    FallbackOf <- Backup
    Mode <- FallbackModes
    MaxRetries <- NoRetries
    MaxRestarts = 1
    Cancellable <- TwoTasks
    Killable <- Nothing
    Restartable <- Nothing
    Crashing <- TwoAgents
INVARIANTS
    LeasesBalance
    LeaseFollowsAttempt
    OneAttemptRuns
    SuccessIsEarned
CHECK_DEADLOCK FALSE
