\* Every operation of list, queue and stack on three cells
CONSTANTS
    Nodes = {n1, n2, n3}
    Data = {x, y, z}
    Root = root
    Null = null
SYMMETRY Symmetric
SPECIFICATION Spec
INVARIANTS
    Ring
    WalksComplete
PROPERTY ImplementsSequence
