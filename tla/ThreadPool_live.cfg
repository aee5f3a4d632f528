\* A long-running ThreadPool (one core worker, room for one seasonal
\* worker) that is never waited on: every accepted job runs.
CONSTANTS
  Jobs = {j1, j2, j3}
  Slots = {s1, s2, s3}
  CoreCount = 1
  MaxCount = 2
  Fixed = FALSE
  WaitStartInit = FALSE
  MayThrow = {}
  Calls = {"start", "clear"}
  None = None
SPECIFICATION Spec
PROPERTY PushedJobRuns
