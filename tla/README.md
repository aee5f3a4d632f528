# TLA+ models of athread

This directory holds TLA+ models of the task-graph engine in `src/`. The
engine is `ThreadGraph` (`src/src/athread/threadgraph.cpp`, `threadgraph.h`),
its worker `GraphWorker::process_tasks` (`src/unnamed/part_005`, declared in
`part_004`), and the `Task` edge handle (`src/unnamed/part_006`, `task.h`).
Beside the graph, the library has a thread pool (`ThreadPool`,
`ThreadPoolFixed`, the second half of `threadgraph.h` and the workers in
`part_005`) and an `Executor` (`executor.cpp`) that runs a graph on a
detached thread and hands back a future.
The modules come with TLC configurations that check them on small
instances, and with TLAPS proofs for every value of the constants.

## 1. The system

| Part | Code | State | Operations |
|---|---|---|---|
| Node | `node.h`, `runnable.h` | `_predecessors`, `_successors` (vectors), `_state` (atomic READY / EXECUTING / COMPLETED) | `set_state`, `execute` (user payload, may throw) |
| Task handle | `part_006` | pointer to a node | `depend`, `precede`, `erase_depend`, `erase_precede` |
| Graph | `threadgraph.cpp` | `_task_pool`, `_ready_tasks_cache`, `_executing_flag`, `_termination_flag`, `_tasks_mutex`, `_task_available_condition`, `_worker_contexts` | `push`, `erase`, `clear`, `start`, `wait`, `wait_for`, `terminate`, `reset` |
| Trace | `threadgraph.cpp` 251-379 | none (it reads the graph) | `trace_ready_depend`, `trace_ready_node` |
| Graph worker | `part_005` 27-88 | its hint `nextNode`, its promise `_done` | the loop: check the flag, lock, trace, claim / wait / leave, execute, complete, notify; catch |
| Thread pool | `threadgraph.h` 258-476, `threadpool.h`, `part_005` 1-179 | `_task_queue` and its mutex and condition variable, `_termination_flag`, `_wait_for_start_signal`, `_worker_contexts`; per worker `_state` | `push`, `start`, `wait`, `terminate`, `clear`, `reset`; the core and seasonal worker loops |
| Executor | `executor.cpp` | a detached thread and its promise | `start(graph)`, `start_loop(graph, times)` |

How the parts interact: the client builds a graph with `push` and `depend`.
`start()` copies the pool into the ready cache, sets `_executing_flag` and
spawns `min(thread_count, pool size)` workers. Each worker loops. It reads
`_termination_flag` without the mutex. It then locks `_tasks_mutex` and calls
`trace_ready_node(hint)`. On a READY verdict it marks the node EXECUTING and
removes it from the cache. On PENDING it calls `cv.wait(lk)` with no
predicate. On COMPLETED it leaves the loop. The payload runs outside the
mutex. After it the worker sets COMPLETED and calls `notify_all`, both
without the mutex. On leaving the loop the worker calls `notify_all` and
fulfils its promise. A payload that throws makes the worker set the
termination flag, call `notify_all` and store the exception. The faulted
node stays EXECUTING. `wait()` blocks on every promise, joins the threads,
calls `reset()` and rethrows the collected exceptions. `terminate()` only
sets the flag and then waits if asked to.

What makes it hard:

- node states are written without the mutex while tracers read them under it;
- a worker holds the mutex from its PENDING trace until `cv.wait` releases
  it. Every `notify_all` sent in that window is lost;
- the termination flag is read before the lock is taken;
- two workers trace the same cache, and each must claim a distinct node;
- the trace is a recursive search whose answer depends on the order of the
  pool and of every edge list.

The thread pool is separate from the graph. A client calls `push(job)`.
`push` checks `executable()` and drops the contexts of Completed workers.
It spawns a worker if there is room and no worker is Ready, all without the
mutex. Only then does it lock, enqueue and `notify_one`. A core worker waits
on the condition variable until the queue is non-empty or the pool is
terminated. A seasonal worker does the same with `wait_for(ttl)` and exits
when the wait times out on an empty queue. Workers of a pool built with
`wait_for_start_signal` first block until `start()`. `start()` and
`terminate()` store their flag and `notify_all` without the mutex. `wait()`
waits for every worker's future and then calls `reset()`.

## 2. Modules

| Module | Models | Used by |
|---|---|---|
| `Edges` | the graph data: pool and edge lists, `WellFormedGraph`, `EdgeSet`, and the vector operations `AppendNew` (find, then `push_back`), `EraseValue` (the erase-remove idiom) and `RemoveFirst` | `GraphRun`, `GraphBuild` |
| `EdgesProofs` | TLAPS lemmas about those vector operations | `GraphBuildProofs`, `GraphRunProofs` |
| `GraphBuild` | the build phase: `push`, `erase`, `clear`, `depend`, `precede`, `erase_depend`, `erase_precede` | `GraphBuildProofs`, `MCGraphBuild` |
| `GraphBuildProofs` | TLAPS proof that the build phase keeps the graph well formed | none |
| `GraphRun` | one run: `start`, `wait`/`wait_for`, `terminate`, `reset`, and the worker loop step by step. The trace is given by its contract | `ThreadGraph`, `GraphRunProofs`, `MCGraphRun` |
| `Trace` | `trace_ready_depend` / `trace_ready_node` as they are written (RECURSIVE, TLC only) | `ThreadGraph` |
| `ThreadGraph` | `GraphRun` with the real trace and the worker's hint | `MCThreadGraph` |
| `GraphRunProofs` | TLAPS proofs about `GraphRun` | none |
| `GraphLive` | `GraphRun` composed with `GraphBuild`'s edge operations, which the client may call during a run | `MCGraphLive` |
| `ExecutorRun` | `Executor::start` / `start_loop`: the executor's thread as `GraphRun`'s client | `ExecutorRunProofs`, `MCExecutorRun` |
| `ExecutorRunProofs` | TLAPS proof about the executor's future | none |
| `PoolContract` | what the thread pool promises: a FIFO of accepted jobs, each taken once, and `clear` | `ThreadPool` (INSTANCE) |
| `ThreadPool` | `ThreadPool` / `ThreadPoolFixed` with core and seasonal workers, step by step | `ThreadPoolProofs`, the `ThreadPool*.cfg` runs |
| `ThreadPoolProofs` | TLAPS proofs about `ThreadPool`, the refinement included | none |
| `MCGraphRun`, `MCThreadGraph`, `MCGraphBuild`, `MCGraphLive`, `MCExecutorRun` | instances for TLC: three nodes as model values, and the initial graphs | none |

### GraphRun: state and actions

Variables: `pool`, `preds`, `succs` (fixed during a run), `nstate`,
`cache`, `executing`, `termination`, `lock` (the owner of `_tasks_mutex`),
`pc`/`cur`/`done` for each worker, and `mainpc` for the client thread. There
are three history variables. `starts` bounds the number of `start()` calls.
`runs` counts the `execute()` calls on each node since the last start.
`outcome` records how the last `wait()` returned.

The client has four actions. `Start` covers `start()` with
`reset_all_tasks_state` (92-118). `WaitBegin` is entering `wait()` or
`wait_for()`; the TIMEOUT return of `wait_for` changes nothing. `WaitEnd` is
`wait()` returning (126-159), with `Reset` for `reset()` (231-237).
`Terminate` is `terminate(call_wait)` (120-124).

Each worker `w` has these steps:

- `Check`: the flag test (line 38).
- `Trace`: lock and trace, then one of `Claim`, `Park` (keep the lock) or
  `Leave` (40-53, 66-69).
- `Wait`: `cv.wait` releases the lock.
- `SpuriousWake`, then `Reacquire`: the lock is retaken and the loop restarts.
- `Execute`: returns, or throws when the node is in `MayThrow`.
- `Complete`: `set_state(Completed)`.
- `Notify`: the `notify_all` after a node.
- `Exit`: `notify_all` and `set_value`.
- `Fault`, then `FaultNotify`: the catch block.

Every statement that touches shared state without the mutex is a step of
its own. That is why a `notify_all` can fall between a peer's trace and its
`cv.wait`. The trace itself is one atomic step: it runs under the mutex, and
the only concurrent writes are EXECUTING→COMPLETED. A read that sees a node
EXECUTING just before it completes gives the same outcome as an atomic
trace followed by the completion while the tracer is in `prewait`.

`TraceContract` allows three answers. READY is allowed for a cached node
that is READY and whose predecessors are all COMPLETED. PENDING is allowed
while some node is EXECUTING. COMPLETED is allowed when the cache is empty
and nothing is EXECUTING. `ThreadGraph` checks that the code's algorithm
gives only these answers.

### ThreadGraph: refinement

`ThreadGraph` EXTENDS `GraphRun` and adds one variable, `hint`, the
worker's `nextNode.second`. `TGTrace` computes
`Trace!TraceReadyNode(nstate, preds, succs, cache, pool, hint[w])`, acts on
the verdict as `process_tasks` does, and stores the verdict's node as the
next hint. The mapping to `GraphRun` is the identity on the shared
variables, and `hint` is hidden. The run checks `GraphRun`'s `SafeSpec` as a
PROPERTY. So every step of the detailed model is a `GraphRun` step or a
stutter.

### GraphBuild

The state is `pool`, `preds`, `succs`, and `fresh` (the nodes created and
not yet pushed). A node is pushed once and destroyed by `erase`/`clear`.
Calls that throw (null or duplicate node, self edge, direct back edge)
change nothing, so they are stutters. Task handles are taken only for
pooled nodes.

`erase` and the `erase_*` calls remove values from the edge vectors with
`v.erase(std::remove(...), v.end())`. `EraseValue` in `Edges` states what
that does without recursion: it keeps the other elements, in their order.
The element at a kept index moves to its rank among the kept indices.
SequencesExt's `Remove` states the same thing through `SelectSeq`, and the
provers cannot reason about `SelectSeq`. The ASSUME `EraseValueIsRemove` in
`MCGraphBuild` checks, on every run of that module, that the two agree on
every sequence of up to four nodes, duplicates included.

### ThreadPool: state and actions

Variables: `queue` (`_task_queue`), `jstate` (where each job is),
`termination`, `waitStart`, `lock` (the worker holding `_task_queue_mutex`
between a predicate test and its wait), and `ctx` (the slots in
`_worker_contexts`). Each worker slot has `kind` (core or seasonal),
`wstate` (`_state`), `pc` and `cur` (`frontElm`). The client has
`clientpc` and `pjob`. The condition variable is the set of workers whose
`pc` is a waiting label. `NotifyOne` and `NotifyAll` move waiters to the
re-test of their predicate.

Client actions:

- `Push(j)`: `executable()`, `clean_complete_workers()` and the spawn decision
  (`ShouldSpawn`, `Spawn`: core below `CoreCount`, else seasonal; always
  seasonal for `ThreadPoolFixed`).
- `Enqueue`: the locked enqueue and `notify_one`, the end of `push`.
- `Start`, `Terminate(alsoWait)`, `Clear`.
- `WaitBegin`, then `WaitEnd`, which includes `Reset`.

Worker actions:

- `AwaitCheck` / `StartBlock`: `await_start_signal`.
- `Ready`: `_state = Ready` before the lock.
- `Check` / `Block`: the locked predicate test and the wait.
- `Expire`: a seasonal worker's `wait_for` timeout.
- `Proceed` / `Pop`: `_state = Busy`, break or take the front job.
- `Run`: `execute()` returns, or throws into a catch that leaves `_state`
  Busy.
- `Exit`: Completed and `set_value`.

Every unlocked store or notify is its own step. So is the window between
the predicate test and the wait, which is `block` and `startblock`.
Constants: `Jobs`, `Slots` (identities for threads), `CoreCount`,
`MaxCount`, `Fixed`, `WaitStartInit`, `MayThrow`, and `Calls` (which of
start, wait, terminate and clear the client uses).

### ThreadPool refines PoolContract

`PoolContract` has `pending` and `status`. Its actions are `Submit`,
`Refuse`, `Take`, `End` and `Discard`. `ThreadPool!Contract` instantiates it
with `pending <- queue` and `status <- ContractStatus`. In the mapping, a
job is running while some worker holds it as `frontElm`, and a job that is
done or failed has ended. The run `threadpool` checks `ContractSpec` as a
PROPERTY, and `ThreadPoolProofs!Refinement` proves it.

### GraphLive

`GraphLive` EXTENDS `GraphRun` and takes `GraphBuild` by
`INSTANCE ... WITH fresh <- {}`. Its extra action `Edit` lets the idle
client call `depend`, `precede`, `erase_depend` or `erase_precede` at any
time, as the code allows: these take no lock and make no `executing()`
check.

### ExecutorRun

`ExecutorRun` EXTENDS `GraphRun` and adds the executor's thread: `epc`,
`mode` (`start` or `start_loop`), `iter` (the loop's `i`) and `promise`.

- `Launch(m)`: the call that returns the future.
- `ExecWait`: a `graph.wait()`; `GraphRun`'s `WaitBegin`.
- `ExecWaitEnd`: its return. It is `WaitEnd` followed by the next statement,
  or by `set_value`, or by the catch's `set_exception`.
- `ExecStart`: `graph.start()`.

The executor's thread is the graph's only client.

## 3. Runs

| Run | Config | Checks | Result |
|---|---|---|---|
| `graphrun` | `MCGraphRun.cfg` | `DependencyRespect`, `CleanWaitCompletesAll`, `WaitReturnsUnlessTerminated`, `StatesForward` | pass: 200,928 states, about 30 s |
| `graphrun_wait_hang` | `MCGraphRun_fault.cfg` | `WaitReturns` | violation: the hang after `terminate(true)` |
| `threadgraph` | `MCThreadGraph.cfg` | `AtMostOnce`, `SafeSpec` (refinement), `WaitReturnsUnlessTerminated` | pass: 229,752 states, about 1 min |
| `graphbuild` | `MCGraphBuild.cfg` | `BuildWellFormed` | pass: 362 states |
| `graphbuild_cycle` | `MCGraphBuild_cycle.cfg` | `Acyclic` | violation: a three-node cycle |
| `graphlive_edit` | `MCGraphLive.cfg` | `DependencyRespect` | violation: `depend` on an executing node |
| `threadpool` | `ThreadPool.cfg` | `ThreadsWithinMax`, `ContractSpec` (refinement) | pass: 59,027 states |
| `threadpool_live` | `ThreadPool_live.cfg` | `PushedJobRuns` | pass: 4,391 states |
| `threadpool_stranded` | `ThreadPool_stranded.cfg` | `PushedJobRuns` | violation: a job stranded by a seasonal timeout |
| `threadpool_fixed_hang` | `ThreadPool_fixed_hang.cfg` | `PoolWaitReturns` | violation: the lost `start()` wake-up |
| `threadpool_terminate_hang` | `ThreadPool_terminate_hang.cfg` | `WaitReturnsAfterTerminate` | violation: `terminate(true)` hangs |
| `executor` | `MCExecutorRun.cfg` | `ValueMeansRunsDone`, `FutureReady` | pass: 106,038 states, about 30 s |

Bounds, and why they are enough:

- **Nodes: three model values.** Three is the least number for a node with
  two predecessors, a chain behind a fork, and a transitive cycle.
- **Workers: 2.** Two workers are enough for a claim race and for a worker
  parked while its peer completes, notifies and exits.
- **`MaxStarts`: 2 in `graphrun`, 1 in `threadgraph`.** `graphrun` then also
  covers a second `start()` after a `wait()`.
- **Initial graphs.** `MCGraphRun` starts from every DAG on every prefix of
  `<<a, b, c>>`, the empty pool included. The contract does not look at
  list order. `MCThreadGraph` starts from every DAG on `<<a, b, c>>` with
  every order of every edge list, because the trace depends on them. Other
  pool orders are renamings of these, since every labelled DAG is
  enumerated.
- **`MayThrow = {a}` in `graphrun`.** The passing run therefore covers the
  catch block too.
- **Thread pool: three jobs, three slots, `ThreadPool(1, 2)`, job `j1` may
  throw, all four client calls (`threadpool`).**
  - One core worker, one seasonal worker and one slot more than the
    maximum, so an off-by-one in the spawn test has somewhere to go.
  - Three jobs, so a push can find a Ready worker, a full pool, and a
    worker that has exited.
  - `Calls` limits which client calls a run makes. The liveness run
    (`threadpool_live`) uses only `start` and `clear`, so that the re-arm
    finding does not hide the question it asks.
- **Executor: `start_loop(graph, 2)` and `start(graph)` on every DAG of up
  to three nodes.** With `Times = 2` the loop has a wait between two starts
  as well as the last wait.

Fairness. The scheduler runs every thread that can run, so the plain worker
steps and `WaitEnd` are weakly fair. Taking the mutex (`Trace`,
`Reacquire`) is strongly fair, because the mutex is released after every
short critical section. `SpuriousWake` has no fairness: a sleeper may rely
only on notifications.

In `ThreadPool` the worker steps that take `_task_queue_mutex`
(`AwaitCheck`, `Check`, `Expire`) are strongly fair, and the other worker
steps are weakly fair. A seasonal waiter's timeout (`Expire`) fires once its
TTL has passed; the length of the TTL is not modelled. The client is
obliged to finish a `push` it has begun (`SF(Enqueue)`, which takes the
mutex) and a `wait` whose futures are ready (`WF(WaitEnd)`). It is never
obliged to make a new call.

In `ExecutorRun` the launched executor thread is weakly fair (`ExecStep`),
like any running thread. Nobody is obliged to call the executor.

Deadlock is not checked in `threadpool`, `threadpool_fixed_hang`,
`threadpool_terminate_hang` and `executor`. In each of them the system really may stop. `wait()` on a
pool with a core worker that was never terminated blocks for good. The executor's thread
ends after it sets the promise, and nothing else drives the graph.

## 4. Properties

- `DependencyRespect`: a node that has left READY has all its predecessors
  COMPLETED (spec section 8).
- `AtMostOnce`: between two `start()` calls no payload is invoked twice.
- `StatesForward` (action property): within one run a node's state
  changes only from READY to EXECUTING (the claim) and from EXECUTING to
  COMPLETED (its worker's `set_state` after `execute()`). So no node is
  completed without having been claimed, and none goes back to READY. It
  rests on three facts:
  - `set_state(Executing)` sits in the locked block of the claim
    (`part_005` 45-49);
  - a worker completes only the node it claimed;
  - `start()` refuses while the graph executes.
- `CleanWaitCompletesAll`: a `wait()` that returns normally, with no
  termination, saw every pooled node COMPLETED. No worker left on a
  COMPLETED verdict while work remained.
- `WaitReturnsUnlessTerminated` (liveness): `wait()` returns unless the run
  was terminated.
- `WaitReturns` (liveness): `wait()` returns, also after `terminate(true)` or
  a payload exception. This is what spec sections 4.4 and 5 promise. It is
  **violated**.
- `SafeSpec`: refinement of the trace contract by the algorithm.
- `BuildWellFormed`: every sequence of build calls leaves edge lists that
  are mirrored, duplicate-free and between pooled nodes. These are exactly
  the graphs `GraphRun` assumes in `InitGraphs`.
- `Acyclic`: the edge relation has no cycle (spec section 3). It is
  **violated**.
- `ThreadsWithinMax`: the pool never has more live worker threads than
  `_max_thread_count`. The check depends on cleaning, spawning, `reset`
  and the exit of workers together.
- `ContractSpec`: the thread pool refines `PoolContract`. Jobs are taken in
  FIFO order, each once, and `clear` drops exactly the queued jobs.
- `PushedJobRuns` (liveness): a job that `push` accepted is eventually run,
  unless it is cleared or the pool is terminated (`threadpool.h` 90). It
  holds in `threadpool_live` and is **violated** in `threadpool_stranded`.
- `PoolWaitReturns` (liveness): a `wait()` begun while the start signal is
  cleared, that is after a `start()` since the last reset, returns. A wait
  with the signal still armed blocks by design and is excluded. It is
  **violated**.
- `WaitReturnsAfterTerminate` (liveness): `terminate(true)` returns. It is
  **violated**.
- `DependencyRespect` under `GraphLive`: edits during a run keep the
  dependency order. It is **violated**.
- `ValueMeansRunsDone`: when the executor's future holds a value,
  `start_loop` has started the graph `times` times (`start` once), and the
  last run completed every node.
- `FutureReady` (liveness): the executor's future becomes ready. It holds
  with returning payloads (see finding 9 for a throwing one).

Each property of a passing run has a mutant in PROJECT.json that TLC
kills:

- a trace ignoring predecessors breaks `DependencyRespect`;
- answering COMPLETED with a non-empty cache breaks `CleanWaitCompletesAll`;
- an exit without `notify_all` breaks the liveness properties;
- a claim without `set_state(Executing)` in its locked block breaks
  `StatesForward` in `graphrun`: the node goes from READY straight to
  COMPLETED. The same mutant breaks `AtMostOnce` in `threadgraph`;
- an entry trace that does not trace breaks `SafeSpec`;
- an `erase` that unlinks only one side breaks `BuildWellFormed`;
- a spawn test with `<=` for `<` breaks `ThreadsWithinMax`;
- a pop that leaves the front job in the queue breaks `ContractSpec`;
- an enqueue without `notify_one` breaks `PushedJobRuns`;
- a `start_loop` that sets the value without its last wait breaks
  `ValueMeansRunsDone`;
- an executor that ends without `set_value` breaks `FutureReady`.

## 5. Findings

1. **wait() can hang after terminate(true) or a payload exception**
   (`threadgraph.cpp:122`, `part_005:38,63,73,84`).
   - `terminate` does not notify.
   - The workers broadcast without the mutex.
   - A worker that has traced PENDING holds the mutex until `cv.wait`.

   So this interleaving exists: worker A traces PENDING on the node B is
   running. B completes and notifies (lost), sees the flag and exits with a
   second `notify_all` (lost). A then waits forever, and so does `wait()`.
   The payload-exception path is the same, and there the faulted node also
   stays EXECUTING. The spec says both paths broadcast so that peers observe
   termination. Without termination the last worker's exit broadcast comes
   after every peer has reached `cv.wait`, which is why
   `WaitReturnsUnlessTerminated` holds.
2. **Transitive cycles are accepted** (`part_006:17`): `a.depend(b)`,
   `b.depend(c)`, `c.depend(a)` succeed. Spec section 3 says any insertion
   that closes a cycle is rejected; section 9 admits the direct-only check.
   On such a graph `trace_ready_depend` recurses without end.

Findings 3, 5 and 9 were seen with TLC while modelling. No run is kept
for them, because a plain sequential test reaches 3 and 5 and finding 1
already causes 9. PROJECT.json lists them as hazards.

3. **`reset()` re-arms the start signal** (`threadgraph.h:459`). A pool
   built without a start signal and reused after a `wait()` still accepts
   pushes, but its new workers block until `start()`. `PushedJobRuns` fails
   as soon as the client may call `wait()` before a push.
4. **A job can be stranded** (`threadgraph.h:307`). `push` reads the
   workers' `_state` without the mutex. A Ready seasonal worker makes it
   spawn nothing. If that worker times out on the still-empty queue before
   the enqueue, no worker is left for the job.
5. **A throwing job leaves a zombie context** (`part_005:177`). The catch
   leaves `_state` Busy, so the context is never cleaned. A full pool then
   never spawns again, while `push` still accepts jobs. `PushedJobRuns` fails
   for `ThreadPool(1, 1)` with a throwing first job.
6. **`start()` loses a wake-up** (`threadgraph.h:350`). It stores the flag and
   notifies without the mutex. A worker between its predicate test and
   `wait` sleeps for good. This is the `ThreadPoolFixed` pool_auto_shutdown
   sample: `wait()` hangs. TLC's trace has these steps:
   1. `push` spawns a worker;
   2. the worker tests the armed signal;
   3. `start()` clears it and broadcasts;
   4. `wait()` begins;
   5. the worker blocks.
7. **`terminate(true)` hangs** (`part_005:23`, `threadgraph.h:394`). The
   predicate of `await_start_signal` ignores termination. The unlocked
   broadcast in `terminate` also loses the wake-up of a core worker that
   has just found the queue empty.
8. **Edge operations race with a run** (`part_006:23`). `depend` takes no
   lock and makes no `executing()` check. `a.depend(b)` while `a` executes
   breaks the dependency order (spec section 5).
9. **The executor's future can stay pending for ever** (`executor.cpp:38`).
   When a payload throws, the lost wake-up of finding 1 keeps `graph.wait()`
   from returning. Neither `set_value` nor `set_exception` runs. So the
   exception never reaches the future, which spec section 6 promises.
   `FutureReady` fails on `MCExecutorRun` with `MayThrow = {a}`.

## 6. Proofs

Five modules hold proofs: `EdgesProofs`, `GraphBuildProofs`,
`GraphRunProofs`, `ExecutorRunProofs` and `ThreadPoolProofs`. `tlapm` checks
every one of them to the last leaf. Each safety theorem below has the form
`Spec => []P`. It follows from an inductive invariant `I`, through
`Init => I`, `I /\ [Next]_vars => I'` and `I => P`. Before each `I` was
proved, TLC checked it as an invariant of the run that checks `P`.

### Vector lemmas (`EdgesProofs`)

These are lemmas about the operators that model the edge vectors and the
ready cache, for any element set `S`:

- `EraseValueProps`: `EraseValue` keeps a sequence over `S`, removes
  exactly `e` from its set of elements, and keeps it free of duplicates.
  It rests on the rank lemmas `RankBounds`, `RankMonotone`, `RankInjective`
  and `RankOnto`, which make the rank a bijection between the kept indices
  and the new positions.
- `AppendNewProps`, `AppendProps`, `EmptyProps`: the same facts for
  find-then-`push_back` and for the empty vector.
- `RemoveFirstProps`, `RemoveFirstSet`, `RemoveFirstType`: what
  `remove_ready_cache` leaves in the cache.

### The build phase (`GraphBuildProofs`)

`BuildSafe == Spec => []BuildWellFormed` holds for every node set: no
sequence of build calls breaks the graph's well-formedness. The invariant
`IInv` adds `FreshUnpooled`, which says that a node not yet pushed is in
no list. Without it, `push` of a node that some list already names could
not be shown to keep the lists mirrored. The proof has one lemma per call.
Its `erase` step shows that the node leaves every neighbour's list. So
`erase` (`threadgraph.cpp` 57-67) leaves no dangling pointer.

### The graph run (`GraphRunProofs`)


- `TypeCorrect == Spec => []TypeOK`. It follows from `InitTypeOK` and
  `NextTypeOK`. The latter uses two lemmas of `EdgesProofs`:
  `RemoveFirstType` (`remove_ready_cache` keeps a sequence of nodes) and
  `MinOfNats` (a non-empty set of naturals contains its minimum, derived
  from `WFMin` / `NatLessThanWellFounded`).
- `DependencySafe == Spec => []DependencyRespect`. `DependencyRespect` is not
  inductive alone. `Start` resets the pool to READY, which is safe only
  because every edge joins pooled nodes (`EdgesInPool`, from the well-formed
  initial graph). `Complete` marks `cur[w]` COMPLETED, which is safe only
  because `cur[w]` was claimed and has left READY (`RunningClaimed`).
  `IInv == TypeOK /\ EdgesInPool /\ RunningClaimed /\ DependencyRespect` was
  checked with TLC on the `graphrun` instance before it was proved. The
  proof has one step per action, and a lemma `QuietStepIInv` covers the
  steps that touch neither `nstate` nor `cur`.
- `AtMostOnceSafe == Spec => []AtMostOnce`. The strengthening `RunsInv`
  ties the count to the state: a node still READY has run 0 times.
- `StatesForwardSafe == Spec => StatesForward`, the action property. The
  lemma `ForwardStep` shows it for each action. It needs the invariant
  `IInv` of `DependencySafe`. `Start` is disabled while executing, and
  `Claim` takes a READY node. `Complete` is the step that needs the
  invariant: the node `cur[w]` it writes COMPLETED has left READY
  (`RunningClaimed`), so it is EXECUTING, or already COMPLETED by a
  stutter.
- `CleanWaitSafe == Spec => []CleanWaitCompletesAll`. This proof rests on
  the invariant `CleanInv`, which has these parts:
  - `IdleUnlessExecuting`: outside a run every worker is idle.
  - `OutcomeAfterRun`: an outcome is recorded only outside a run.
  - `CacheInPool`: the cache holds pooled nodes.
  - `ReadyCached`: during a run every pooled READY node is in the cache.
  - `FaultTerminates`: a worker on the exception path has set the
    termination flag.
  - `PromiseSetWhenDone`: a promise is set only by a finished worker.
  - `SomeSpawned`: a run over a non-empty pool has a worker.
  - `LeftAllCompleted`: once a worker leaves the loop of a run that nobody
    terminated, every pooled node has COMPLETED.

  The last part is the heart of the proof. A worker leaves on the
  COMPLETED verdict only when the cache is empty and nothing executes. By
  `ReadyCached` no node is still READY at that point, so every node has
  completed. `WaitEnd` ends a clean run only when every spawned worker
  has set its promise. By `SomeSpawned` and `PromiseSetWhenDone`, at
  least one such worker has left the loop. The lemma `WorkerStepClean`
  covers the worker steps that only wake waiters or complete nodes: park,
  check, wait, spurious wake, reacquire, execute, complete and notify.


The assumptions are those of `GraphRunAssumption`:

- `ThreadCount >= 1`;
- `MayThrow` is a set of nodes;
- `MaxStarts` is a natural number;
- `None` is not a node;
- `InitGraphs` is a non-empty set of well-formed graphs.

The theorems hold for every value that meets them. They are stated for
`GraphRun`. `ThreadGraph` refines `GraphRun`, which TLC checks on the
instance, so they carry over to the code's trace.

### The executor (`ExecutorRunProofs`)

`ExecValueSafe == ExecSpec => []ValueMeansRunsDone` holds for every thread
count, graph and value of `times`. It assumes `ExecutorAssumption` on top
of `GraphRunAssumption`. The invariant `ExecInv` contains `CleanInv`: a
step of the executor's system is a `GraphRun` step (`ExecNextIsNext`), so
`NextCleanInv` carries over. It adds facts that hold because the detached
thread is the graph's only client:

- `StartsCounted`: `start()` is called only in the loop, so `starts`
  equals `i`.
- `Launched`, `Rounds`: the rounds are counted against `times`.
- `FinalRunning`: at the last wait after a start the graph executes.
- `TermByFault`: `terminate()` is never called, so the flag is set only
  by a worker whose exception `wait()` rethrows.
- `PromiseLast`: the promise is set last, and it gets a value only after
  a wait that did not rethrow.

Without `TermByFault`, a last wait could return "terminated" with nodes
still READY. The lemma `LastWaitOk` uses it to show that a last wait that
does not rethrow returns "ok". `CleanWaitCompletesAll` then gives
completion.

### The thread pool (`ThreadPoolProofs`)

`ThreadPoolProofs` proves three theorems about `ThreadPool`:

- `TypeCorrect == Spec => []TypeOK`.
- `ThreadsBounded == Spec => []ThreadsWithinMax`.
- `Refinement == Spec => ContractSpec`, for any finite sets of jobs and
  slots and any core and max counts.

All three rest on one inductive invariant, `IInv`. It was checked with TLC
on the instances of every ThreadPool run before it was proved. Besides
`TypeOK`, it says:

- `AliveInCtx`: a live thread has its context and is not Completed. The
  cleaning in `push` and `wait` therefore never drops a running thread, and
  `reset` runs only when all threads are gone.
- `CtxBound`: at most `MaxCount` contexts.
- `PushingNew`: a push in progress carries a new job.
- `CurRunning`, `CurUnique`: `frontElm` is set exactly while a worker runs
  its job, and no two workers hold the same job.
- `QueueQueued`, `QueueDistinct`: the queue holds distinct queued jobs.

`ThreadsWithinMax` is not inductive by itself. A push spawns into a slot
that must be free, so the bound needs `AliveInCtx` and `CtxBound`.

The refinement needs the rest:

- `Submit` needs `PushingNew`.
- `Take` needs the front job to be held by nobody, from `QueueQueued` and
  `CurRunning`.
- `End` needs `CurUnique`.
- `Discard` needs queued jobs not to be running.

Two lemmas carry the reasoning shared by several actions. `SpawnRoom`
shows that a free slot exists and the bound holds after a spawn, using
`FS_Subset` and `FS_AddElement` from `FiniteSetTheorems`. `ProceedKeeps`
covers the worker step after a wait, used by `Check` and `Expire`. The
assumptions are those of `ThreadPoolAssumption`:

- finite sets of jobs and slots;
- `MaxCount >= 1`;
- more slots than `MaxCount`;
- `None` is neither a job nor a slot.

### What stays with TLC

- **Liveness.** TLAPS cannot prove liveness or `ENABLED`.
- **The refinement `ThreadGraph => SafeSpec`.** `Trace` is recursive, and
  tlapm cannot reason about a module that reaches a RECURSIVE operator.
- **Facts about the trace for all inputs.** These would need induction over
  data, which the installed provers cannot instantiate.

## 7. Not modelled

- **`max_thread_count == 0` ("unlimited").** The model needs a bound on
  threads.
- **Spurious wake-ups in the pool.** The pool's waits all have predicates,
  so a spurious wake-up is a re-test that changes nothing.
- **The length of the idle TTL.** `Expire` may fire whenever a seasonal
  worker waits.
- **`ThreadGraph::clear()` during a run** (`threadgraph.cpp:85`). Its
  `executing` check is commented out, so nodes are destroyed under running
  workers. That is a use-after-free, which is out of a protocol model's
  reach.
- **Object lifetime.** The executor's thread keeps a reference to the
  graph, and nothing stops the caller from destroying the graph first.
- **The time budget of `wait_for`.** Time is not modelled.
- **Move construction and move assignment, and the read-only accessors.**
- **Logging, samples and tests.** These are output only or clients of the
  library.
