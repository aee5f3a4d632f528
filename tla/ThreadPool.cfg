\* A ThreadPool with one core worker and room for one seasonal worker; the
\* client makes every call and one job may throw.
CONSTANTS
  Jobs = {j1, j2, j3}
  Slots = {s1, s2, s3}
  CoreCount = 1
  MaxCount = 2
  Fixed = FALSE
  WaitStartInit = FALSE
  MayThrow = {j1}
  Calls = {"start", "wait", "terminate", "clear"}
  None = None
SPECIFICATION Spec
INVARIANT ThreadsWithinMax
PROPERTY ContractSpec
\* wait() on a pool whose core worker was not terminated, or missed the
\* termination broadcast, blocks for good: the client really stops there.
CHECK_DEADLOCK FALSE
