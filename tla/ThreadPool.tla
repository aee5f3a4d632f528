----------------------------- MODULE ThreadPool -----------------------------
(***************************************************************************)
(* at::ThreadPool and at::ThreadPoolFixed (threadpool.cpp, the second half *)
(* of threadgraph.h in this tree) with their two worker kinds,             *)
(* ThreadPoolWorker (core) and ThreadSeasonalWorker (worker.cpp,           *)
(* unnamed/part_005).  One client thread calls push, start, terminate,    *)
(* wait and clear; each worker is a thread with a program counter.         *)
(*                                                                         *)
(* _task_queue_mutex is `lock'.  A worker holds it from the test of a wait *)
(* predicate to the moment it blocks on _work_available_condition; the    *)
(* condition variable is the set of workers whose pc is a waiting label.  *)
(* start() and terminate() change the predicate and notify WITHOUT the     *)
(* mutex, so their notification can fall between a worker's test and its  *)
(* block: the model keeps that window as the labels "block"/"startblock". *)
(* A seasonal worker's wait_for timeout is the action Expire.              *)
(***************************************************************************)
EXTENDS Naturals, Sequences, FiniteSets

CONSTANTS
  Jobs,           \* the runnables the client pushes, each at most once
  Slots,          \* identities for worker threads (a bound on the model)
  CoreCount,      \* _core_thread_count
  MaxCount,       \* _max_thread_count (0, "unlimited", is not modelled)
  Fixed,          \* the pool is a ThreadPoolFixed
  WaitStartInit,  \* the constructor's wait_for_start_signal
  MayThrow,       \* jobs whose execute() may throw
  Calls,          \* which of start, wait, terminate, clear the client calls
  None

ASSUME ThreadPoolAssumption ==
  /\ IsFiniteSet(Jobs) /\ IsFiniteSet(Slots)
  /\ CoreCount \in Nat
  /\ MaxCount \in Nat \ {0}
  /\ Cardinality(Slots) > MaxCount
  /\ Fixed \in BOOLEAN /\ WaitStartInit \in BOOLEAN
  /\ Calls \subseteq {"start", "wait", "terminate", "clear"}
  /\ MayThrow \subseteq Jobs
  /\ None \notin Jobs \cup Slots
  \* ThreadPoolFixed(coreSize) : ThreadPool(coreSize, coreSize, 0s, true)
  /\ Fixed => CoreCount = MaxCount /\ WaitStartInit

VARIABLES
  queue,        \* _task_queue
  jstate,       \* where each job is: new, queued, running, done, failed, ...
  termination,  \* _termination_flag
  waitStart,    \* _wait_for_start_signal
  lock,         \* holder of _task_queue_mutex among the workers, or None
  ctx,          \* the workers that have a slot in _worker_contexts
  kind,         \* core or seasonal, per worker
  wstate,       \* IWorker::_state
  pc,           \* where each worker thread is
  cur,          \* frontElm, the job a worker runs
  clientpc,     \* idle, pushing (between the spawn decision and the enqueue), waiting
  pjob          \* the job a push in progress enqueues

poolVars   == <<queue, jstate, termination, waitStart, lock, ctx>>
workerVars == <<kind, wstate, pc, cur>>
clientVars == <<clientpc, pjob>>
vars == <<poolVars, workerVars, clientVars>>

JobState == {"new", "queued", "rejected", "running", "done", "failed", "cleared"}
WorkerState == {"Delay", "Ready", "Busy", "Completed"}
Labels == {"none", "start", "startblock", "startwait", "ready", "check",
           "block", "waiting", "run", "exit", "gone"}

TypeOK ==
  /\ queue \in Seq(Jobs)
  /\ jstate \in [Jobs -> JobState]
  /\ termination \in BOOLEAN /\ waitStart \in BOOLEAN
  /\ lock \in Slots \cup {None}
  /\ ctx \subseteq Slots
  /\ kind \in [Slots -> {"core", "seasonal"}]
  /\ wstate \in [Slots -> WorkerState]
  /\ pc \in [Slots -> Labels]
  /\ cur \in [Slots -> Jobs \cup {None}]
  /\ clientpc \in {"idle", "pushing", "waiting"}
  /\ pjob \in Jobs \cup {None}

Alive(w) == pc[w] \notin {"none", "gone"}

(***************************************************************************)
(* The condition variable.  A woken waiter re-tests its predicate: a      *)
(* job waiter at "check", a start-signal waiter at "start".                *)
(***************************************************************************)
Waiters == {w \in Slots : pc[w] \in {"waiting", "startwait"}}

Woken(w) == IF pc[w] = "waiting" THEN "check" ELSE "start"

NotifyAll == pc' = [w \in Slots |-> IF w \in Waiters THEN Woken(w) ELSE pc[w]]

NotifyOne ==
  \/ Waiters = {} /\ UNCHANGED pc
  \/ \E w \in Waiters : pc' = [pc EXCEPT ![w] = Woken(w)]

(***************************************************************************)
(* The client.                                                             *)
(***************************************************************************)
\* ThreadPool::executable and its ThreadPoolFixed override.
Executable ==
  IF Fixed THEN ~termination /\ (waitStart \/ ctx # {})
           ELSE ~termination

\* clean_complete_workers: drop the contexts of Completed workers.
Cleaned == {w \in ctx : wstate[w] # "Completed"}

\* The spawn test of push: room for a worker and none of them Ready.
ShouldSpawnAtMax(live) ==
  Cardinality(live) <= MaxCount /\ \A w \in live : wstate[w] # "Ready"

ShouldSpawn(live) ==
  Cardinality(live) < MaxCount /\ \A w \in live : wstate[w] # "Ready"

\* create_worker / create_seasonal_worker for one new thread in slot w.
Spawn(live, w) ==
  /\ ctx' = live \cup {w}
  /\ kind' = [kind EXCEPT ![w] = IF Fixed \/ Cardinality(live) >= CoreCount
                                   THEN "seasonal" ELSE "core"]
  /\ wstate' = [wstate EXCEPT ![w] = "Delay"]
  /\ pc' = [pc EXCEPT ![w] = "start"]

\* push, up to the enqueue: refuse, or clean and perhaps spawn a worker.
Push(j) ==
  /\ clientpc = "idle" /\ jstate[j] = "new"
  /\ IF ~Executable
       THEN /\ jstate' = [jstate EXCEPT ![j] = "rejected"]
            /\ UNCHANGED <<ctx, kind, wstate, pc, clientVars>>
       ELSE /\ clientpc' = "pushing" /\ pjob' = j
            /\ IF ShouldSpawn(Cleaned)
                 THEN Spawn(Cleaned, CHOOSE w \in Slots \ Cleaned : TRUE)
                 ELSE ctx' = Cleaned /\ UNCHANGED <<kind, wstate, pc>>
            /\ UNCHANGED jstate
  /\ UNCHANGED <<queue, termination, waitStart, lock, cur>>

EnqueueSilent ==
  /\ clientpc = "pushing" /\ lock = None
  /\ queue' = Append(queue, pjob)
  /\ jstate' = [jstate EXCEPT ![pjob] = "queued"]
  /\ clientpc' = "idle" /\ pjob' = None
  /\ UNCHANGED <<termination, waitStart, lock, ctx, workerVars>>

\* The end of push: under the mutex, enqueue and notify_one.
Enqueue ==
  /\ clientpc = "pushing" /\ lock = None
  /\ queue' = Append(queue, pjob)
  /\ jstate' = [jstate EXCEPT ![pjob] = "queued"]
  /\ NotifyOne
  /\ clientpc' = "idle" /\ pjob' = None
  /\ UNCHANGED <<termination, waitStart, lock, ctx, kind, wstate, cur>>

\* start: clear both flags and notify_all, without the mutex.
Start ==
  /\ clientpc = "idle" /\ "start" \in Calls
  /\ waitStart' = FALSE /\ termination' = FALSE
  /\ NotifyAll
  /\ UNCHANGED <<queue, jstate, lock, ctx, kind, wstate, cur, clientVars>>

\* wait, up to the first future.get: clean_complete_workers.
WaitBegin ==
  /\ clientpc = "idle" /\ "wait" \in Calls
  /\ clientpc' = "waiting" /\ ctx' = Cleaned
  /\ UNCHANGED <<queue, jstate, termination, waitStart, lock, workerVars, pjob>>

\* terminate(alsoWait): set the flag and notify_all without the mutex,
\* then, if alsoWait, begin wait.
Terminate(alsoWait) ==
  /\ clientpc = "idle" /\ "terminate" \in Calls
  /\ termination' = TRUE
  /\ NotifyAll
  /\ IF alsoWait THEN clientpc' = "waiting" /\ ctx' = Cleaned
                 ELSE UNCHANGED <<clientpc, ctx>>
  /\ UNCHANGED <<queue, jstate, waitStart, lock, kind, wstate, cur, pjob>>

\* reset: clear the termination flag, re-arm the start signal, forget
\* every worker context.
Reset ==
  termination' = FALSE /\ waitStart' = TRUE /\ ctx' = {}

\* The rest of wait: every future is ready (value or exception), the
\* threads are joined, and reset() runs.
WaitEnd ==
  /\ clientpc = "waiting"
  /\ \A w \in ctx : pc[w] = "gone"
  /\ Reset
  /\ clientpc' = "idle"
  /\ UNCHANGED <<queue, jstate, lock, workerVars, pjob>>

\* clear: under the mutex, drop every queued job.
Clear ==
  /\ clientpc = "idle" /\ "clear" \in Calls /\ lock = None
  /\ queue' = <<>>
  /\ jstate' = [j \in Jobs |-> IF jstate[j] = "queued" THEN "cleared" ELSE jstate[j]]
  /\ UNCHANGED <<termination, waitStart, lock, ctx, workerVars, clientVars>>

ClientStep ==
  \/ \E j \in Jobs : Push(j)
  \/ Enqueue \/ Start \/ WaitBegin \/ WaitEnd \/ Clear
  \/ \E b \in BOOLEAN : Terminate(b)

(***************************************************************************)
(* The workers.                                                            *)
(***************************************************************************)
\* await_start_signal: lock, test !_wait_for_start_signal, block if false.
AwaitCheck(w) ==
  /\ pc[w] = "start" /\ lock = None
  /\ IF waitStart THEN lock' = w /\ pc' = [pc EXCEPT ![w] = "startblock"]
                  ELSE pc' = [pc EXCEPT ![w] = "ready"] /\ UNCHANGED lock
  /\ UNCHANGED <<queue, jstate, termination, waitStart, ctx, kind, wstate, cur, clientVars>>

\* Inside wait: release the mutex and join the waiters.
StartBlock(w) ==
  /\ pc[w] = "startblock"
  /\ pc' = [pc EXCEPT ![w] = "startwait"] /\ lock' = None
  /\ UNCHANGED <<queue, jstate, termination, waitStart, ctx, kind, wstate, cur, clientVars>>

\* Top of the loop: _state = Ready, before the mutex is taken.
Ready(w) ==
  /\ pc[w] = "ready"
  /\ wstate' = [wstate EXCEPT ![w] = "Ready"] /\ pc' = [pc EXCEPT ![w] = "check"]
  /\ UNCHANGED <<poolVars, kind, cur, clientVars>>

PopKept(w) ==
  /\ cur' = [cur EXCEPT ![w] = Head(queue)]
  /\ jstate' = [jstate EXCEPT ![Head(queue)] = "running"]
  /\ pc' = [pc EXCEPT ![w] = "run"]
  /\ UNCHANGED queue

\* frontElm = front(); pop(); unlock.
Pop(w) ==
  /\ cur' = [cur EXCEPT ![w] = Head(queue)]
  /\ jstate' = [jstate EXCEPT ![Head(queue)] = "running"]
  /\ pc' = [pc EXCEPT ![w] = "run"]
  /\ queue' = Tail(queue)

\* After the wait returned: _state = Busy, exit on termination (or, for a
\* seasonal worker, on an empty queue), else take the front job.
Proceed(w) ==
  /\ wstate' = [wstate EXCEPT ![w] = "Busy"]
  /\ IF termination \/ queue = <<>>
       THEN pc' = [pc EXCEPT ![w] = "exit"] /\ UNCHANGED <<queue, jstate, cur>>
       ELSE Pop(w)

\* Lock and test termination || !queue.empty(); go on if it holds, else
\* make ready to block (still holding the mutex).
Check(w) ==
  /\ pc[w] = "check" /\ lock = None
  /\ IF termination \/ queue # <<>>
       THEN Proceed(w) /\ UNCHANGED lock
       ELSE /\ lock' = w /\ pc' = [pc EXCEPT ![w] = "block"]
            /\ UNCHANGED <<queue, jstate, wstate, cur>>
  /\ UNCHANGED <<termination, waitStart, ctx, kind, clientVars>>

\* Inside wait / wait_for: release the mutex and join the waiters.
Block(w) ==
  /\ pc[w] = "block"
  /\ pc' = [pc EXCEPT ![w] = "waiting"] /\ lock' = None
  /\ UNCHANGED <<queue, jstate, termination, waitStart, ctx, kind, wstate, cur, clientVars>>

\* A seasonal worker's wait_for times out: it relocks and returns the
\* predicate; on termination or an empty queue the worker breaks.
Expire(w) ==
  /\ kind[w] = "seasonal" /\ pc[w] = "waiting" /\ lock = None
  /\ Proceed(w)
  /\ UNCHANGED <<termination, waitStart, lock, ctx, kind, clientVars>>

\* execute() returns and the job is deleted, or it throws: the catch only
\* sets the exception on the future (_state stays Busy).
Run(w) ==
  /\ pc[w] = "run"
  /\ \/ /\ jstate' = [jstate EXCEPT ![cur[w]] = "done"]
        /\ pc' = [pc EXCEPT ![w] = "ready"]
     \/ /\ cur[w] \in MayThrow
        /\ jstate' = [jstate EXCEPT ![cur[w]] = "failed"]
        /\ pc' = [pc EXCEPT ![w] = "gone"]
  /\ cur' = [cur EXCEPT ![w] = None]
  /\ UNCHANGED <<queue, termination, waitStart, lock, ctx, kind, wstate, clientVars>>

\* After the loop: _state = Completed, _done.set_value().
Exit(w) ==
  /\ pc[w] = "exit"
  /\ wstate' = [wstate EXCEPT ![w] = "Completed"] /\ pc' = [pc EXCEPT ![w] = "gone"]
  /\ UNCHANGED <<poolVars, kind, cur, clientVars>>

WorkerStep(w) ==
  \/ AwaitCheck(w) \/ StartBlock(w) \/ Ready(w) \/ Check(w) \/ Block(w)
  \/ Expire(w) \/ Run(w) \/ Exit(w)

Init ==
  /\ queue = <<>>
  /\ jstate = [j \in Jobs |-> "new"]
  /\ termination = FALSE
  /\ waitStart = WaitStartInit
  /\ lock = None
  /\ ctx = {}
  /\ kind = [w \in Slots |-> "core"]
  /\ wstate = [w \in Slots |-> "Delay"]
  /\ pc = [w \in Slots |-> "none"]
  /\ cur = [w \in Slots |-> None]
  /\ clientpc = "idle"
  /\ pjob = None

Next == ClientStep \/ \E w \in Slots : WorkerStep(w)

(***************************************************************************)
(* Each worker is an OS thread and is scheduled; the steps that take the   *)
(* mutex get strong fairness, since a contended std::mutex is eventually   *)
(* acquired while it is repeatedly free.  A seasonal waiter's timeout      *)
(* fires once its idle TTL has passed.  The client finishes a push and a   *)
(* wait it has begun, but is never obliged to make a new call.             *)
(***************************************************************************)
Fairness ==
  /\ \A w \in Slots :
       /\ SF_vars(AwaitCheck(w)) /\ SF_vars(Check(w)) /\ SF_vars(Expire(w))
       /\ WF_vars(StartBlock(w)) /\ WF_vars(Ready(w)) /\ WF_vars(Block(w))
       /\ WF_vars(Run(w)) /\ WF_vars(Exit(w))
  /\ SF_vars(Enqueue) /\ WF_vars(WaitEnd)

Spec == Init /\ [][Next]_vars /\ Fairness

(***************************************************************************)
(* Properties.                                                             *)
(***************************************************************************)

\* push never lets the pool hold more live worker threads than
\* _max_thread_count: the threads that left _worker_contexts (cleaned as
\* Completed, or cleared by reset after wait joined them) have all ended.
ThreadsWithinMax ==
  Cardinality({w \in Slots : Alive(w)}) <= MaxCount

\* A job that push accepted is eventually run, unless the pool is
\* terminated or the job is cleared: the header promises the pool "ensures
\* it is executed" (threadpool.h 90), and with wait_for_start_signal false
\* (the default) no start() is needed for that.  What can break it: reset()
\* at the end of wait() re-arms the start signal (threadpool.cpp 459).
PushedJobRuns ==
  \A j \in Jobs :
    jstate[j] = "queued" ~> (jstate[j] \in {"done", "failed", "cleared"} \/ termination)

\* wait() returns once start() has been called: a wait begun while the
\* start signal is cleared ends when the pool's workers all finish.  This
\* is what the ThreadPoolFixed sample (pool.push ...; pool.start();
\* pool.wait()) relies on, with workers blocked on the start signal that
\* start() broadcasts.  A wait with the signal still armed (no start()
\* since construction or the last reset) blocks by design and is excluded.
PoolWaitReturns ==
  (clientpc = "waiting" /\ ~waitStart) ~> clientpc = "idle"

\* terminate(true) returns: once the termination flag is set every
\* worker, core workers blocked on the condition variable included, wakes,
\* exits and completes its future, so the wait inside terminate returns.
WaitReturnsAfterTerminate ==
  (clientpc = "waiting" /\ termination) ~> clientpc = "idle"

(***************************************************************************)
(* Refinement: the queue is the contract's pending sequence, a job is      *)
(* running exactly while some worker holds it as frontElm, and a job that *)
(* returned or threw has ended.                                            *)
(***************************************************************************)
ContractStatus ==
  [j \in Jobs |->
     IF \E w \in Slots : cur[w] = j THEN "running"
     ELSE IF jstate[j] \in {"done", "failed"} THEN "ended"
     ELSE jstate[j]]

Contract == INSTANCE PoolContract WITH pending <- queue, status <- ContractStatus

\* The pool implements its contract: pushes join the back of the queue,
\* workers take the front job once, and clear drops only queued jobs.
ContractSpec == Contract!Spec

=============================================================================
