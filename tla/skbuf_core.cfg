\* Two threads on one socket buffer that grows once
CONSTANTS
    Threads = {a, b}
    NoThread = noThread
    Bytes = {x, y}
    Junk = junk
    BufSize = 2
    BufMaxSize = 3
    SndBuf = 2
    MinNum = 1
    MaxLen = 2
SYMMETRY Symmetric
SPECIFICATION Spec
INVARIANTS
    SafeInSocket
    MemoryFits
PROPERTY ImplementsByteQueue
