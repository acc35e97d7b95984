\* Every tree of 8 nodes, every array of 6 elements, addresses and digests
CONSTANTS
    Keys = {1, 2, 3, 4}
    Copies = {a, b}
    Sentinel = sentinel
    Null = null
    Elements = {1, 2}
    Unset = unset
    MinNum = 2
    ElemNums = {0, 4}
    MaxSize = 6
    Words = {0, 1, 65535}
    Octets = {0, 9, 10, 255}
    Edited6 <- EditedWords
    Edited4 <- EditedOctets
    MaxEdits = 2
    Messages <- Digested
    Pieces = {0, 1, 8, 63, 64, 65}
    KnownDigests <- TestSuite
    Stale = 165
SPECIFICATION Spec
INVARIANTS
    SearchTree
    RedBlack
    ArrayBlockHolds
    InetRoundTrip
    InetPtonExact
    Md5DigestOfMessage
PROPERTIES
    RepairAdvances
    ImplementsPriorityBag
    ArrayImplementsSequence
