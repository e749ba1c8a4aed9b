SPECIFICATION SortSpec
CONSTANTS
    a = a
    b = b
    c = c
    Tasks <- ThreeTasks
    TaskMode <- Modes
    EdgeMode <- Edges
    Cancellable <- ThreeTasks
    Editable <- Edited
    Deadlined <- MayExpire
    TimesOut <- MayTimeOut
    Admissions <- OneOrAll
    Unchecked <- OfAPlan
INVARIANTS
    FreeIsReady
    SortIsTopological
PROPERTIES
    ImplementsTaskGraph
CHECK_DEADLOCK FALSE
