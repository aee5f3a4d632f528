CONSTANTS
    a = a
    b = b
    c = c
    Nodes <- MCNodes
    InitGraphs <- MCInitGraphs
    ThreadCount = 2
    OptimizedThreads = TRUE
    MayThrow = {}
    MaxStarts = 1
    None = None
SPECIFICATION TGSpec
INVARIANTS
    AtMostOnce
PROPERTIES
    SafeSpec
    WaitReturnsUnlessTerminated
