SPECIFICATION Spec
CONSTANTS
    a = a
    b = b
    c = c
    Tasks <- ThreeTasks
    TaskMode <- Modes
    EdgeMode <- Edges
    Cancellable <- ThreeTasks
    Editable <- ThreeTasks
    Deadlined <- ThreeTasks
    TimesOut <- ThreeTasks
    Unrecorded <- ThreeTasks
    Admissions <- AnyAdmission
INVARIANTS
    QueuesMatchStatus
    DependencyGraphSound
    OnlyCancellationCutsShort
PROPERTIES
    ImplementsTaskGraph
CHECK_DEADLOCK FALSE
