SPECIFICATION FairSpec
CONSTANTS
    Modes = {"runtime", "direct"}
    Plans <- MCPlans
    MaxRounds = 1
    MaxOwnRounds = 1
    MaxCrashes = 1
    MaxFailed = 1
INVARIANTS
    
    CodersBuildOnDependencies
PROPERTIES
    VerdictIsFinal
    ClientLearns
CHECK_DEADLOCK FALSE
