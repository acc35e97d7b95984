\* A locked buffer shared by two threads
CONSTANTS
    Threads = {a, b}
    NoThread = noThread
    Bytes = {x, y}
    buffer_size = 4
    islock = TRUE
    Modulus = 8
    Ops <- AllOps
    a = a
    b = b
SYMMETRY Symmetric
SPECIFICATION Spec
INVARIANT PositionsAgree
PROPERTY ImplementsByteQueue
