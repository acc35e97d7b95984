\* A comment of the code about the event, against the code
CONSTANTS
    Threads = {a, b, c, d}
    NoThread = noThread
    MaxSignals = 2
    MaxWaits = 3
SYMMETRY Symmetric
SPECIFICATION Spec
PROPERTY NobodyElseShouldWake
CHECK_DEADLOCK FALSE
