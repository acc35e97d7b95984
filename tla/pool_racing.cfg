\* Calls that race with destroy, and two destroyers
CONSTANTS
    Size = 2
    MaxThreads = 20
    Clients = {c1}
    Destroyers = {d1, d2}
    Tasks = {t1, t2, t3}
    Main = main
    NoThread = noThread
    NoTask = noTask
    CreateMayFail = FALSE
    Racing = TRUE
    MaxStatus = 1
    MaxSpurious = 1
SYMMETRY Symmetric
SPECIFICATION Spec
INVARIANTS
    OneTeardown
