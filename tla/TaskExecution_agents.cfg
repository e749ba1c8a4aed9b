SPECIFICATION FairSpec
CONSTANTS
    t1 = t1
    t2 = t2
    a1 = a1
    a2 = a2
    Tasks <- TwoTasks
    Agents <- TwoAgents
    Classes <- TwoClasses
    Quota <- Quotas
    Request <- Requests
    AgentOf <- SamePlace
    FallbackOf <- Backup
    Mode <- RetryModes
    MaxRetries <- OneRetry
    MaxRestarts = 1
    Cancellable <- Nothing
    Killable <- OnlyA1
    Restartable <- OnlyA1
    Crashing <- OnlyA1
PROPERTIES
    KilledIsFinal
    ExecutionEnds
CHECK_DEADLOCK FALSE
