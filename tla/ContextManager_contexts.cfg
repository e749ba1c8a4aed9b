SPECIFICATION Spec
CONSTANTS
    c1 = c1
    c2 = c2
    c3 = c3
    planner = planner
    coder = coder
    None = None
    Contexts <- MCContexts
    Agents <- MCAgents
    Important = {"goal", "task"}
    Inputs <- MCInputs
    MaxContexts = 2
    Threshold = 1
    MaxSteps = 5
SYMMETRY Symmetry
CHECK_DEADLOCK FALSE
INVARIANTS
    ImportantSurvives
    HitIsExact
    KeptAreLatest
