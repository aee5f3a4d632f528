------------------------------ MODULE GraphRun ------------------------------
(***************************************************************************)
(* One ThreadGraph executing its DAG (threadgraph.cpp, worker.cpp): the    *)
(* client thread's start / wait / terminate and the GraphWorker loop of   *)
(* every worker thread, interleaved statement by statement where a         *)
(* statement touches shared state outside the tasks mutex.                 *)
(*                                                                         *)
(* The trace step (trace_ready_node under the mutex) is given here by its  *)
(* contract: it returns READY with a node that is READY and whose          *)
(* predecessors are all COMPLETED, PENDING only while some node is         *)
(* EXECUTING, and COMPLETED only when the ready cache is empty and no node *)
(* is EXECUTING.  Module ThreadGraph replaces it by the code's algorithm   *)
(* and shows that the algorithm keeps this contract.                       *)
(***************************************************************************)
EXTENDS Edges

CONSTANTS
    ThreadCount,      \* ThreadGraph::_thread_count
    OptimizedThreads, \* ThreadGraph::_enable_optimized_threads
    MayThrow,         \* nodes whose payload may throw from execute()
    MaxStarts,        \* bound on the number of start() calls
    InitGraphs,       \* graphs (pool, predecessor and successor lists) built before start
    None              \* nullptr

Workers == 0 .. ThreadCount - 1          \* uids handed out by generate_worker_uid

NodeState == {"Ready", "Executing", "Completed"}

(* InitGraphs are graphs the client can build (module GraphBuild checks   *)
(* that push, erase and depend keep WellFormedGraph).                      *)
ASSUME GraphRunAssumption ==
    /\ ThreadCount \in Nat \ {0}
    /\ OptimizedThreads \in BOOLEAN
    /\ MayThrow \subseteq Nodes
    /\ MaxStarts \in Nat
    /\ None \notin Nodes
    /\ InitGraphs # {}
    /\ \A g \in InitGraphs : WellFormedGraph(g)

VARIABLES
    pool,        \* _task_pool
    preds,       \* INode::_predecessors of every node
    succs,       \* INode::_successors of every node
    nstate,      \* IRunnable::_state of every node
    cache,       \* _ready_tasks_cache
    executing,   \* _executing_flag
    termination, \* _termination_flag
    lock,        \* owner of _tasks_mutex, or None
    pc,          \* where each worker thread is; "idle": no WorkerContext
    cur,         \* nextNode.second while the worker runs a node
    done,        \* state of the worker's promise _done
    mainpc,      \* the client thread: "idle" or blocked in wait()
    starts,      \* start() calls so far (bounded by MaxStarts)
    runs,        \* history: execute() calls on each node since the last start
    outcome      \* history: how the last wait() returned

graphVars  == <<pool, preds, succs>>
workerVars == <<pc, cur, done>>
vars == <<pool, preds, succs, nstate, cache, executing, termination, lock,
          pc, cur, done, mainpc, starts, runs, outcome>>

Pred(n) == ToSet(preds[n])
PoolSet == ToSet(pool)
Spawned == {w \in Workers : pc[w] # "idle"}
SomeExecuting == \E n \in PoolSet : nstate[n] = "Executing"

(* notify_all on _task_available_condition: every waiting worker wakes up. *)
NotifyAll(p) == [w \in Workers |-> IF p[w] = "waiting" THEN "woken" ELSE p[w]]

------------------------------------------------------------------------------
(* The client thread.                                                      *)

(* ThreadGraph::start: refuses while executing; otherwise wait() (no       *)
(* workers are left), reset(), every pooled node back to READY, the cache  *)
(* is the whole pool, and min(thread_count, pool size) workers are spawned *)
(* (thread_count without the optimisation), each entering process_tasks.   *)
Start ==
    /\ mainpc = "idle"
    /\ ~executing
    /\ starts < MaxStarts
    /\ LET n == IF OptimizedThreads
                THEN IF ThreadCount <= Len(pool) THEN ThreadCount ELSE Len(pool)
                ELSE ThreadCount
       IN pc' = [w \in Workers |-> IF w < n THEN "check" ELSE "idle"]
    /\ nstate' = [m \in Nodes |-> IF m \in PoolSet THEN "Ready" ELSE nstate[m]]
    /\ cache' = pool
    /\ executing' = TRUE
    /\ termination' = FALSE
    /\ cur' = [w \in Workers |-> None]
    /\ done' = [w \in Workers |-> "none"]
    /\ starts' = starts + 1
    /\ runs' = [m \in Nodes |-> 0]
    /\ outcome' = "none"
    /\ UNCHANGED <<graphVars, lock, mainpc>>

(* The client enters ThreadGraph::wait (also wait_for, whose TIMEOUT       *)
(* return changes nothing and whose READY return is wait's).               *)
WaitBegin ==
    /\ mainpc = "idle"
    /\ mainpc' = "waiting"
    /\ UNCHANGED <<graphVars, nstate, cache, executing, termination, lock,
                   workerVars, starts, runs, outcome>>

(* ThreadGraph::reset: both flags cleared, the cache emptied, the worker   *)
(* contexts (and with them the promises) destroyed.                        *)
Reset ==
    /\ executing' = FALSE
    /\ termination' = FALSE
    /\ cache' = <<>>
    /\ pc' = [w \in Workers |-> "idle"]
    /\ done' = [w \in Workers |-> "none"]

(* wait returns once the future of every worker is ready; it joins them,   *)
(* reset()s the flags, cache and contexts, and rethrows if any worker      *)
(* stored an exception.  outcome records how a wait that ends a run       *)
(* returned.                                                               *)
WaitEnd ==
    /\ mainpc = "waiting"
    /\ \A w \in Spawned : done[w] # "none"
    /\ outcome' = IF ~executing THEN outcome
                  ELSE IF \E w \in Spawned : done[w] = "exception" THEN "error"
                  ELSE IF termination THEN "terminated" ELSE "ok"
    /\ Reset
    /\ mainpc' = "idle"
    /\ UNCHANGED <<graphVars, nstate, lock, cur, starts, runs>>

(* ThreadGraph::terminate(call_wait): sets the flag (and notifies nobody), *)
(* then waits if asked to.                                                 *)
Terminate ==
    /\ mainpc = "idle"
    /\ termination' = TRUE
    /\ \E callWait \in BOOLEAN : mainpc' = IF callWait THEN "waiting" ELSE "idle"
    /\ UNCHANGED <<graphVars, nstate, cache, executing, lock, workerVars,
                   starts, runs, outcome>>

------------------------------------------------------------------------------
(* A worker thread: GraphWorker::process_tasks.                            *)

(* Top of the loop: the termination flag is read before taking the lock.   *)
Check(w) ==
    /\ pc[w] = "check"
    /\ pc' = [pc EXCEPT ![w] = IF termination THEN "exit" ELSE "trace"]
    /\ UNCHANGED <<graphVars, nstate, cache, executing, termination, lock,
                   cur, done, mainpc, starts, runs, outcome>>

(* Mutant: set_state(Executing) is left out of the locked block.           *)
ClaimStateless(w, n) ==
    /\ cache' = RemoveFirst(cache, n)
    /\ runs' = [runs EXCEPT ![n] = @ + 1]
    /\ pc' = [pc EXCEPT ![w] = "run"]
    /\ cur' = [cur EXCEPT ![w] = n]
    /\ UNCHANGED <<nstate, lock>>

(* Verdict READY: under the lock the node becomes EXECUTING and leaves the *)
(* ready cache; the lock is released at the end of the block.              *)
Claim(w, n) ==
    /\ nstate' = [nstate EXCEPT ![n] = "Executing"]
    /\ cache' = RemoveFirst(cache, n)
    /\ runs' = [runs EXCEPT ![n] = @ + 1]
    /\ pc' = [pc EXCEPT ![w] = "run"]
    /\ cur' = [cur EXCEPT ![w] = n]
    /\ UNCHANGED lock

(* Verdict PENDING: the worker keeps the lock until wait(lk) releases it.  *)
Park(w) ==
    /\ lock' = w
    /\ pc' = [pc EXCEPT ![w] = "prewait"]
    /\ UNCHANGED <<nstate, cache, runs, cur>>

(* Verdict COMPLETED: the loop is left.                                    *)
Leave(w) ==
    /\ pc' = [pc EXCEPT ![w] = "exit"]
    /\ UNCHANGED <<nstate, cache, runs, cur, lock>>

(* Mutant: a trace that ignores the predecessors.                          *)
RunnableIgnoringPreds(n) == nstate[n] = "Ready"

(* What the trace may answer in the current state.                         *)
Runnable(n) ==
    /\ nstate[n] = "Ready"
    /\ \A p \in Pred(n) : nstate[p] = "Completed"

(* Mutant: COMPLETED answered while the ready cache still holds nodes.     *)
TraceContractEarlyLeave(w) ==
    \/ \E n \in ToSet(cache) : Runnable(n) /\ Claim(w, n)
    \/ SomeExecuting /\ Park(w)
    \/ ~SomeExecuting /\ Leave(w)

TraceContract(w) ==
    \/ \E n \in ToSet(cache) : Runnable(n) /\ Claim(w, n)
    \/ SomeExecuting /\ Park(w)
    \/ cache = <<>> /\ ~SomeExecuting /\ Leave(w)

(* Lock the mutex, trace, act on the verdict.                              *)
Trace(w) ==
    /\ pc[w] = "trace"
    /\ lock = None
    /\ TraceContract(w)
    /\ UNCHANGED <<graphVars, executing, termination, done, mainpc, starts, outcome>>

(* _task_available_condition.wait(lk): release the lock and sleep.         *)
Wait(w) ==
    /\ pc[w] = "prewait"
    /\ lock' = None
    /\ pc' = [pc EXCEPT ![w] = "waiting"]
    /\ UNCHANGED <<graphVars, nstate, cache, executing, termination, cur, done,
                   mainpc, starts, runs, outcome>>

(* A condition variable may wake a waiter without a notification.          *)
SpuriousWake(w) ==
    /\ pc[w] = "waiting"
    /\ pc' = [pc EXCEPT ![w] = "woken"]
    /\ UNCHANGED <<graphVars, nstate, cache, executing, termination, lock, cur,
                   done, mainpc, starts, runs, outcome>>

(* wait returns holding the lock, the block ends and releases it; a        *)
(* PENDING verdict does nothing more and the loop starts again.            *)
Reacquire(w) ==
    /\ pc[w] = "woken"
    /\ lock = None
    /\ pc' = [pc EXCEPT ![w] = "check"]
    /\ UNCHANGED <<graphVars, nstate, cache, executing, termination, lock, cur,
                   done, mainpc, starts, runs, outcome>>

(* execute() runs outside the lock; it returns or throws.                  *)
Execute(w) ==
    /\ pc[w] = "run"
    /\ \/ pc' = [pc EXCEPT ![w] = "complete"]
       \/ cur[w] \in MayThrow /\ pc' = [pc EXCEPT ![w] = "fault"]
    /\ UNCHANGED <<graphVars, nstate, cache, executing, termination, lock, cur,
                   done, mainpc, starts, runs, outcome>>

(* set_state(Completed), without the lock.                                 *)
Complete(w) ==
    /\ pc[w] = "complete"
    /\ nstate' = [nstate EXCEPT ![cur[w]] = "Completed"]
    /\ pc' = [pc EXCEPT ![w] = "notify"]
    /\ UNCHANGED <<graphVars, cache, executing, termination, lock, cur, done,
                   mainpc, starts, runs, outcome>>

(* notify_all after a completed node, without the lock; back to the top.   *)
Notify(w) ==
    /\ pc[w] = "notify"
    /\ pc' = [NotifyAll(pc) EXCEPT ![w] = "check"]
    /\ UNCHANGED <<graphVars, nstate, cache, executing, termination, lock, cur,
                   done, mainpc, starts, runs, outcome>>

(* Mutant: the worker leaves the loop without notify_all.                  *)
ExitSilent(w) ==
    /\ pc[w] = "exit"
    /\ pc' = [pc EXCEPT ![w] = "done"]
    /\ done' = [done EXCEPT ![w] = "value"]
    /\ UNCHANGED <<graphVars, nstate, cache, executing, termination, lock, cur,
                   mainpc, starts, runs, outcome>>

(* After the loop: notify_all, state Completed, _done.set_value().         *)
Exit(w) ==
    /\ pc[w] = "exit"
    /\ pc' = [NotifyAll(pc) EXCEPT ![w] = "done"]
    /\ done' = [done EXCEPT ![w] = "value"]
    /\ UNCHANGED <<graphVars, nstate, cache, executing, termination, lock, cur,
                   mainpc, starts, runs, outcome>>

(* catch (...): the termination flag is set; the node stays EXECUTING.     *)
Fault(w) ==
    /\ pc[w] = "fault"
    /\ termination' = TRUE
    /\ pc' = [pc EXCEPT ![w] = "faultnotify"]
    /\ UNCHANGED <<graphVars, nstate, cache, executing, lock, cur, done,
                   mainpc, starts, runs, outcome>>

(* catch (...) continued: notify_all, then _done.set_exception.            *)
FaultNotify(w) ==
    /\ pc[w] = "faultnotify"
    /\ pc' = [NotifyAll(pc) EXCEPT ![w] = "done"]
    /\ done' = [done EXCEPT ![w] = "exception"]
    /\ UNCHANGED <<graphVars, nstate, cache, executing, termination, lock, cur,
                   mainpc, starts, runs, outcome>>

------------------------------------------------------------------------------
Init ==
    /\ \E g \in InitGraphs : pool = g.pool /\ preds = g.preds /\ succs = g.succs
    /\ nstate = [n \in Nodes |-> "Ready"]
    /\ cache = <<>>
    /\ executing = FALSE
    /\ termination = FALSE
    /\ lock = None
    /\ pc = [w \in Workers |-> "idle"]
    /\ cur = [w \in Workers |-> None]
    /\ done = [w \in Workers |-> "none"]
    /\ mainpc = "idle"
    /\ starts = 0
    /\ runs = [n \in Nodes |-> 0]
    /\ outcome = "none"

(* Every step of a worker except the trace, which ThreadGraph refines.     *)
WorkerStep(w) ==
    \/ Check(w) \/ Wait(w) \/ SpuriousWake(w) \/ Reacquire(w)
    \/ Execute(w) \/ Complete(w) \/ Notify(w) \/ Exit(w) \/ Fault(w) \/ FaultNotify(w)

ClientStep == Start \/ WaitBegin \/ WaitEnd \/ Terminate

Next ==
    \/ ClientStep
    \/ \E w \in Workers : Trace(w) \/ WorkerStep(w)

(* Threads are scheduled by the OS: a worker that can run eventually does; *)
(* the mutex is taken strongly fairly, as it is released after every short *)
(* critical section.  A sleeping worker wakes only when notified (no       *)
(* fairness on SpuriousWake); the client's wait returns once it can.       *)
Fairness ==
    /\ \A w \in Workers :
          /\ SF_vars(Trace(w)) /\ SF_vars(Reacquire(w))
          /\ WF_vars(Check(w) \/ Wait(w) \/ Execute(w) \/ Complete(w) \/ Notify(w)
                     \/ Exit(w) \/ Fault(w) \/ FaultNotify(w))
    /\ WF_vars(WaitEnd)

Spec == Init /\ [][Next]_vars /\ Fairness

SafeSpec == Init /\ [][Next]_vars

------------------------------------------------------------------------------
(* Every variable has its type.                                            *)
TypeOK ==
    /\ pool \in Seq(Nodes)
    /\ preds \in [Nodes -> Seq(Nodes)] /\ succs \in [Nodes -> Seq(Nodes)]
    /\ nstate \in [Nodes -> NodeState]
    /\ cache \in Seq(Nodes)
    /\ executing \in BOOLEAN /\ termination \in BOOLEAN
    /\ lock \in Workers \cup {None}
    /\ pc \in [Workers -> {"idle", "check", "trace", "prewait", "waiting", "woken",
                           "run", "complete", "notify", "exit", "fault",
                           "faultnotify", "done"}]
    /\ cur \in [Workers -> Nodes \cup {None}]
    /\ done \in [Workers -> {"none", "value", "exception"}]
    /\ mainpc \in {"idle", "waiting"}
    /\ starts \in 0 .. MaxStarts
    /\ runs \in [Nodes -> Nat]
    /\ outcome \in {"none", "ok", "terminated", "error"}

(* Dependency respect (spec section 8): a node has left READY only after   *)
(* every one of its predecessors has COMPLETED.  It rests on the trace     *)
(* reading predecessor states under the lock while the workers that        *)
(* complete them write those states without it.                            *)
DependencyRespect ==
    \A n \in Nodes : nstate[n] # "Ready" => \A p \in Pred(n) : nstate[p] = "Completed"

(* At-most-once execution: between two start() calls no payload is        *)
(* invoked twice, whatever the interleaving of the workers that trace the  *)
(* same ready cache.                                                       *)
AtMostOnce == \A n \in Nodes : runs[n] <= 1

(* Within one run, from start() to the wait() that ends it, a node's state *)
(* changes only READY to EXECUTING (the claim under the lock) and          *)
(* EXECUTING to COMPLETED (its worker's set_state after execute()): no     *)
(* node is completed without having been claimed, and none goes back.     *)
(* It rests on set_state(Executing) and remove_ready_cache sitting in one  *)
(* locked block, on a worker completing only the node it claimed, and on   *)
(* start() refusing while the graph executes.                              *)
StepsForward ==
    {<<"Ready", "Executing">>, <<"Executing", "Completed">>}
        \cup {<<s, s>> : s \in NodeState}

StatesForward ==
    [][executing /\ executing' => \A n \in Nodes : <<nstate[n], nstate'[n]>> \in StepsForward]_vars

(* When wait() returns normally and nobody terminated the run, every node  *)
(* of the graph has run: no worker left the loop on a COMPLETED verdict    *)
(* while work remained.                                                    *)
CleanWaitCompletesAll ==
    outcome = "ok" => \A n \in PoolSet : nstate[n] = "Completed"

(* wait() returns: a client blocked in wait() is released, unless the run  *)
(* was terminated (by terminate() or by a payload exception).              *)
WaitReturnsUnlessTerminated ==
    mainpc = "waiting" ~> (mainpc = "idle" \/ termination)

(* wait() returns, also after terminate(true) or a payload exception, as   *)
(* spec sections 4.4 and 5 say: terminate and the exception handler        *)
(* broadcast so that waiting workers observe the flag and exit.            *)
WaitReturns ==
    mainpc = "waiting" ~> mainpc = "idle"

==============================================================================
