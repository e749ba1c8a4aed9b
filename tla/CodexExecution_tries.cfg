\* Both hosts; three tries, so that a retry can follow a retry.
SPECIFICATION CodexFairSpec
CONSTANTS
    Hosts = {"worker", "direct"}
    Retries = 3
INVARIANTS
    OutputIsCurrent
    NoCodexOutlives
PROPERTIES
    ExecutionEnds
CHECK_DEADLOCK FALSE
