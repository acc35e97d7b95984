\* Safety: one owner, failing creation
CONSTANTS
    Size = 4
    MaxThreads = 3
    Clients = {c1, c2}
    Destroyers = {d1}
    Tasks = {t1, t2, t3, t4}
    Main = main
    NoThread = noThread
    NoTask = noTask
    CreateMayFail = TRUE
    Racing = FALSE
    MaxStatus = 1
    MaxSpurious = 1
SYMMETRY Symmetric
SPECIFICATION Spec
INVARIANTS
    MutexHeld
    TasksConserved
    WorkConserving
    LateTasksBounded
    DrainedBeforeFree
    StatusExact
    UseAfterFreeOnlyByFailedCreate
PROPERTY ImplementsService
