\* terminate(true) on a ThreadPool reused after a wait: reset() re-armed
\* the start signal, and a worker blocked in await_start_signal tests only
\* !_wait_for_start_signal, so the termination broadcast (made, besides,
\* without the queue mutex) does not release it; the wait inside
\* terminate hangs.
CONSTANTS
  Jobs = {j1, j2}
  Slots = {s1, s2, s3}
  CoreCount = 1
  MaxCount = 2
  Fixed = FALSE
  WaitStartInit = FALSE
  MayThrow = {}
  Calls = {"terminate"}
  None = None
SPECIFICATION Spec
PROPERTY WaitReturnsAfterTerminate
\* wait() on a pool whose core worker was not terminated, or missed the
\* termination broadcast, blocks for good: the client really stops there.
CHECK_DEADLOCK FALSE
