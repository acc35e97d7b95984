\* Every way into and out of wait, and what a broadcast leads to
CONSTANTS
    Threads = {a, b, c, d}
    NoThread = noThread
    MaxSignals = 2
    MaxWaits = 3
SPECIFICATION FairSpec
INVARIANTS
    CountsExact
    TokensKept
PROPERTY BroadcastReleases
\* When every thread waits without a timeout, nobody is left to signal.
CHECK_DEADLOCK FALSE
