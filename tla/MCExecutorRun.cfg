\* Executor::start and start_loop(graph, 2) on every DAG of up to three
\* nodes with two workers and payloads that return.  The executor's thread
\* ends after it sets the promise and nothing else drives the graph, so the
\* system really stops there.
CONSTANTS
    a = a
    b = b
    c = c
    Nodes <- MCNodes
    InitGraphs <- MCInitGraphs
    ThreadCount = 2
    OptimizedThreads = TRUE
    MayThrow = {}
    MaxStarts = 2
    Times = 2
    None = None
SPECIFICATION ExecSpec
INVARIANT ValueMeansRunsDone
PROPERTY FutureReady
CHECK_DEADLOCK FALSE
