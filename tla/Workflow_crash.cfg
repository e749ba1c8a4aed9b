SPECIFICATION FairSpec
CONSTANTS
    Tasks <- MCTasks
    TaskMode <- MCTaskMode
    EdgeMode <- MCEdgeMode
    Root = "plan"
    Role <- MCRole
    PlanMode <- MCPlanMode
    Plans <- MCPlans
    Pairs <- MCPairs
    Staffed <- MCTasks
    Fallible = {"c1", "t0", "t1"}
    MaxRetries <- MCRetries
    MaxRepairRounds = 1
    MaxCrashes = 1
INVARIANTS
    RunsAfterDependencies
    AttemptIsFresh
    CommitIsComplete
    TestersSeeWork
    UnfinishedIsRecovered
PROPERTIES
    SuccessIsDurable
    CreatedOnce
    PlanIsCarriedOut
CHECK_DEADLOCK FALSE
