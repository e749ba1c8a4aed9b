SPECIFICATION FairSpec
CONSTANTS
    Modes = {"runtime"}
    Plans <- MCPlans
    MaxRounds = 1
    MaxOwnRounds = 1
    MaxCrashes = 0
    MaxFailed = 0
PROPERTY
    SummaryIsWritten
CHECK_DEADLOCK FALSE
