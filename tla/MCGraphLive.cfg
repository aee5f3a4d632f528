\* Two workers, one start(), the client editing edges while they run: a
\* depend on a node a worker already runs gives it a predecessor that has
\* not completed.
CONSTANTS
    a = a
    b = b
    c = c
    Nodes <- MCNodes
    InitGraphs <- MCInitGraphs
    ThreadCount = 2
    OptimizedThreads = TRUE
    MayThrow = {}
    MaxStarts = 1
    None = None
SPECIFICATION LiveSpec
INVARIANT DependencyRespect
