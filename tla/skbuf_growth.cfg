\* Two threads on one socket buffer that reaches its maximum
CONSTANTS
    Threads = {a, b}
    NoThread = noThread
    Bytes = {x, y}
    Junk = junk
    BufSize = 2
    BufMaxSize = 4
    SndBuf = 2
    MinNum = 1
    MaxLen = 2
SYMMETRY Symmetric
SPECIFICATION Spec
PROPERTY NoGrowthAtMax
