CONSTANTS
    a = a
    b = b
    c = c
    Nodes <- MCNodes
    InitGraphs <- MCInitGraphs
    ThreadCount = 2
    OptimizedThreads = TRUE
    MayThrow = {a}
    MaxStarts = 2
    None = None
SPECIFICATION Spec
PROPERTIES
    WaitReturns
