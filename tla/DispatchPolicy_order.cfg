SPECIFICATION FairSpec
CONSTANTS
    Tasks <- MCTasks
    Agents <- MCAgents
    TaskOf <- MCTaskOf
    CapabilityOf <- MCCapabilityOf
    Policies <- MCPolicies
    Quota <- MCQuota
    AgingPeriod = 1
    Restored = {"a"}
    Killable = {"b"}
    Horizon = 2
INVARIANTS
    OvertakingIsBounded
PROPERTIES
    StartsInPolicyOrder
    StartsOnBestAgent
    BlockedIsWoken
CHECK_DEADLOCK FALSE
