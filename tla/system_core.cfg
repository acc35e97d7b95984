\* Descriptors, directories, network interfaces and a connection
CONSTANTS
    Openers = {t1, t2}
    Handles = {0, 1, 2, 3}
    MaxPending = 2
    Callers = {p1, p2}
    Targets <- Paths
    Listings <- Found
    PosixLists <- Ifaddrs
    WindowsLists <- Adapters
    MaxChanges = 1
    Total = 4
    Sizes = {1, 3, 4}
    Retries = {1, 2}
    Room = 2
    MaxInterrupts = 1
SPECIFICATION FairSpec
INVARIANTS
    DescriptorsOwned
    PairConnected
    FlagsExact
    CreatedirSound
    ListedOnce
    AddressesReported
    StreamExact
    WaitTruthful
PROPERTY SendsReturn
\* A behaviour ends when somebody else's descriptor was closed, and when a
\* connection has nothing more to send.
CHECK_DEADLOCK FALSE
