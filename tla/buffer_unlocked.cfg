\* zbuffer_test.c: a reader and a writer on a buffer without a lock
CONSTANTS
    Threads = {a, b}
    NoThread = noThread
    Bytes = {x, y}
    buffer_size = 2
    islock = FALSE
    Modulus = 16
    Ops <- TestOps
    a = a
    b = b
SPECIFICATION Spec
INVARIANT PositionsAgree
