\* ThreadPool(0, 2, ttl): every worker is seasonal.  push sees a Ready
\* worker, spawns none, and that worker's wait_for times out before the
\* job is enqueued.
CONSTANTS
  Jobs = {j1, j2}
  Slots = {s1, s2, s3}
  CoreCount = 0
  MaxCount = 2
  Fixed = FALSE
  WaitStartInit = FALSE
  MayThrow = {}
  Calls = {"start", "clear"}
  None = None
SPECIFICATION Spec
PROPERTY PushedJobRuns
