----------------------------- MODULE ExecutorRun -----------------------------
(***************************************************************************)
(* at::Executor (executor.cpp) composed with the graph run.  start(graph)  *)
(* and start_loop(graph, times) return the future of a promise and leave a *)
(* detached thread that is the graph's only client: start(); wait() for   *)
(* start, and times rounds of wait(); start() followed by a last wait()   *)
(* for start_loop; it sets the promise's value, or the exception a call    *)
(* threw.  The caller's thread only holds the future.                      *)
(***************************************************************************)
EXTENDS GraphRun

CONSTANT Times   \* start_loop's times

ASSUME ExecutorAssumption == Times \in Nat /\ Times <= MaxStarts

VARIABLES
    epc,      \* where the executor's thread is
    mode,     \* "once" for Executor::start, "loop" for start_loop
    iter,     \* start_loop's loop counter i
    promise   \* the state of the promise behind the returned future

execVars == <<epc, mode, iter, promise>>
allVars == <<vars, execVars>>

ExecInit ==
    /\ Init
    /\ epc = "none" /\ mode = "none" /\ iter = 0 /\ promise = "none"

(* The call returns the future; the detached thread starts with graph.start *)
(* (Executor::start) or with the loop test i < times (start_loop).         *)
Launch(m) ==
    /\ epc = "none"
    /\ mode' = m
    /\ epc' = IF m = "once" THEN "start" ELSE IF Times > 0 THEN "wait" ELSE "final"
    /\ UNCHANGED <<vars, iter, promise>>

(* graph.wait(), in the loop or the last one.                              *)
ExecWait ==
    /\ epc \in {"wait", "final"}
    /\ WaitBegin
    /\ epc' = IF epc = "wait" THEN "inwait" ELSE "infinal"
    /\ UNCHANGED <<mode, iter, promise>>

(* Mutant: the thread ends after its last wait without setting the value. *)
ExecWaitEndNoValue ==
    /\ epc \in {"inwait", "infinal"}
    /\ WaitEnd
    /\ IF outcome' = "error"
         THEN epc' = "done" /\ promise' = "exception"
         ELSE IF epc = "inwait"
              THEN epc' = "start" /\ UNCHANGED promise
              ELSE epc' = "done" /\ UNCHANGED promise
    /\ UNCHANGED <<mode, iter>>

(* wait() returns, or rethrows a worker's exception into the catch, which  *)
(* sets it on the promise.  After the last wait the value is set.          *)
ExecWaitEnd ==
    /\ epc \in {"inwait", "infinal"}
    /\ WaitEnd
    /\ IF outcome' = "error"
         THEN epc' = "done" /\ promise' = "exception"
         ELSE IF epc = "inwait"
              THEN epc' = "start" /\ UNCHANGED promise
              ELSE epc' = "done" /\ promise' = "value"
    /\ UNCHANGED <<mode, iter>>

(* Mutant: the loop sets the value right after its last start().           *)
ExecStartNoFinalWait ==
    /\ epc = "start"
    /\ Start
    /\ iter' = iter + 1
    /\ IF mode = "loop" /\ iter + 1 < Times
         THEN epc' = "wait" /\ UNCHANGED promise
         ELSE epc' = "done" /\ promise' = "value"
    /\ UNCHANGED mode

(* graph.start(), then the next round or the last wait.  start_loop has   *)
(* just waited and Executor::start finds the graph idle (the thread is its *)
(* only client), so start does not throw.                                  *)
ExecStart ==
    /\ epc = "start"
    /\ Start
    /\ iter' = iter + 1
    /\ epc' = IF mode = "loop" /\ iter + 1 < Times THEN "wait" ELSE "final"
    /\ UNCHANGED <<mode, promise>>

ExecStep == ExecWait \/ ExecWaitEnd \/ ExecStart

ExecNext ==
    \/ \E m \in {"once", "loop"} : Launch(m)
    \/ ExecStep
    \/ \E w \in Workers : (Trace(w) \/ WorkerStep(w)) /\ UNCHANGED execVars

(* The workers' fairness of GraphRun; the detached thread, once launched,  *)
(* is scheduled like any thread.  Nobody is obliged to call the executor.  *)
ExecSpec == ExecInit /\ [][ExecNext]_allVars /\ Fairness /\ WF_allVars(ExecStep)

------------------------------------------------------------------------------
(* When the future holds a value, start_loop has started the graph times   *)
(* times (start once), and the run it waited for last completed every      *)
(* node: the value is set only after the last execution ended.             *)
ValueMeansRunsDone ==
    promise = "value" =>
        /\ starts = (IF mode = "loop" THEN Times ELSE 1)
        /\ starts > 0 => \A n \in PoolSet : nstate[n] = "Completed"

(* The future returned by start or start_loop becomes ready, with a value  *)
(* or with the exception the run threw (spec section 6: the executor       *)
(* bridges exceptions into the returned handle).                           *)
FutureReady == epc # "none" ~> promise # "none"
==============================================================================
