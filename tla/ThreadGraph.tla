----------------------------- MODULE ThreadGraph -----------------------------
(***************************************************************************)
(* GraphRun with the trace step of the code: the worker keeps the node of  *)
(* its last verdict as the hint of its next trace (nextNode in             *)
(* GraphWorker::process_tasks) and the verdict is the one                  *)
(* trace_ready_node computes from it.  The other steps are GraphRun's.     *)
(* The module implements GraphRun (property SafeSpec): every verdict of    *)
(* the algorithm is one the trace contract allows.                         *)
(***************************************************************************)
EXTENDS GraphRun

VARIABLE hint    \* nextNode.second, the hint of the next trace

T == INSTANCE Trace

tgVars == <<vars, hint>>

(* Lock the mutex, trace from the hint, act on the verdict (worker.cpp    *)
(* 40-53): READY claims the node, PENDING parks before wait(lk),          *)
(* COMPLETED leaves the loop.                                              *)
TGTrace(w) ==
    /\ pc[w] = "trace"
    /\ lock = None
    /\ LET r == T!TraceReadyNode(nstate, preds, succs, cache, pool, hint[w])
       IN /\ hint' = [hint EXCEPT ![w] = r[2]]
          /\ CASE r[1] = "Ready"   -> Claim(w, r[2])
               [] r[1] = "Pending" -> Park(w)
               [] OTHER            -> Leave(w)
    /\ UNCHANGED <<graphVars, executing, termination, done, mainpc, starts, outcome>>

(* A spawned worker starts with nextNode = (Pending, nullptr).             *)
TGStart == Start /\ hint' = [w \in Workers |-> None]

TGInit == Init /\ hint = [w \in Workers |-> None]

TGNext ==
    \/ TGStart
    \/ (WaitBegin \/ WaitEnd \/ Terminate) /\ UNCHANGED hint
    \/ \E w \in Workers : TGTrace(w) \/ (WorkerStep(w) /\ UNCHANGED hint)

TGFairness ==
    /\ \A w \in Workers :
          /\ SF_tgVars(TGTrace(w)) /\ SF_tgVars(Reacquire(w) /\ UNCHANGED hint)
          /\ WF_tgVars((Check(w) \/ Wait(w) \/ Execute(w) \/ Complete(w) \/ Notify(w)
                        \/ Exit(w) \/ Fault(w) \/ FaultNotify(w)) /\ UNCHANGED hint)
    /\ WF_tgVars(WaitEnd /\ UNCHANGED hint)

TGSpec == TGInit /\ [][TGNext]_tgVars /\ TGFairness
==============================================================================
