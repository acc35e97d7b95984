\* Liveness: one owner, creation succeeds
CONSTANTS
    Size = 2
    MaxThreads = 20
    Clients = {c1}
    Destroyers = {d1}
    Tasks = {t1, t2, t3}
    Main = main
    NoThread = noThread
    NoTask = noTask
    CreateMayFail = FALSE
    Racing = FALSE
    MaxStatus = 1
    MaxSpurious = 1
SPECIFICATION FairSpec
PROPERTIES
    ImplementsFairService
    CallsTerminate
