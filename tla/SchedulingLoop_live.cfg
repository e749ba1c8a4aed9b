SPECIFICATION FairSpec
CONSTANTS
    a = a
    b = b
    c = c
    Tasks <- ThreeTasks
    TaskMode <- Modes
    EdgeMode <- Edges
    Cancellable <- NoTask
    Editable <- NoTask
    Deadlined <- ThreeTasks
    TimesOut <- ThreeTasks
    Unrecorded <- NoTask
    Admissions <- AllAdmitted
PROPERTIES
    DependentsFinish
CHECK_DEADLOCK FALSE
