\* The pool_auto_shutdown sample: ThreadPoolFixed pool(2); push; push;
\* start(); wait().  start() broadcasts without the queue mutex, so a
\* worker between its test of the start signal and its block sleeps on.
CONSTANTS
  Jobs = {j1, j2}
  Slots = {s1, s2, s3}
  CoreCount = 2
  MaxCount = 2
  Fixed = TRUE
  WaitStartInit = TRUE
  MayThrow = {}
  Calls = {"start", "wait"}
  None = None
SPECIFICATION Spec
PROPERTY PoolWaitReturns
\* wait() on a pool whose core worker was not terminated, or missed the
\* termination broadcast, blocks for good: the client really stops there.
CHECK_DEADLOCK FALSE
