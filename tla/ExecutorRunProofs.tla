-------------------------- MODULE ExecutorRunProofs --------------------------
(***************************************************************************)
(* Proof that the future Executor::start and start_loop return holds a     *)
(* value only after the executor's thread started the graph as often as   *)
(* it was asked and the last run it waited for completed every node.      *)
(***************************************************************************)
EXTENDS ExecutorRun, GraphRunProofs

(* How many times the executor's thread calls graph.start().               *)
Target == IF mode = "loop" THEN Times ELSE 1

ExecTypeOK ==
    /\ epc \in {"none", "start", "wait", "inwait", "final", "infinal", "done"}
    /\ mode \in {"none", "once", "loop"}
    /\ iter \in Nat
    /\ promise \in {"none", "value", "exception"}

(* The strengthening.  The detached thread is the graph's only client, so  *)
(* start() is called by it alone (starts counts its loop rounds) and       *)
(* terminate() is never called: the termination flag is set only by a     *)
(* worker's catch, and that worker still holds, or has stored, the        *)
(* exception wait() rethrows.  The rounds are counted against times; the  *)
(* last wait() follows a start(), so the graph is executing there.  The    *)
(* promise is set last, and a value only after a wait() that returned     *)
(* normally.                                                               *)
StartsCounted == starts = iter

Launched == /\ (epc = "none") = (mode = "none")
            /\ epc = "none" => iter = 0

Rounds ==
    /\ epc = "start" /\ mode = "once" => iter = 0
    /\ epc \in {"start", "wait", "inwait"} /\ mode = "loop" => iter < Times
    /\ epc \in {"wait", "inwait"} => mode = "loop"
    /\ epc \in {"final", "infinal"} => iter = Target

FinalRunning == epc \in {"final", "infinal"} /\ iter > 0 => executing

TermByFault ==
    termination =>
        \E w \in Workers : pc[w] = "faultnotify" \/ (pc[w] = "done" /\ done[w] = "exception")

PromiseLast ==
    /\ promise # "none" => epc = "done"
    /\ promise = "value" => iter = Target /\ (iter > 0 => outcome = "ok")

ExecInv ==
    /\ CleanInv /\ ExecTypeOK /\ StartsCounted /\ Launched /\ Rounds
    /\ FinalRunning /\ TermByFault /\ PromiseLast

(* Every step of the executor's system is a step, or a stutter, of the     *)
(* graph run: the detached thread calls start and wait and nothing else.   *)
LEMMA ExecNextIsNext == [ExecNext]_allVars => [Next]_vars
BY DEF ExecNext, ExecStep, Launch, ExecWait, ExecWaitEnd, ExecStart, Next, ClientStep,
       allVars, vars

LEMMA ExecInitInv == ExecInit => ExecInv
<1>. SUFFICES ASSUME ExecInit PROVE ExecInv
  OBVIOUS
<1>1. CleanInv
  BY InitCleanInv DEF ExecInit
<1>2. termination = FALSE /\ starts = 0
  BY DEF ExecInit, Init
<1>. QED  BY <1>1, <1>2
          DEF ExecInit, ExecInv, ExecTypeOK, StartsCounted, Launched, Rounds, FinalRunning,
              TermByFault, PromiseLast

(* A worker step keeps the witness of the termination flag: the worker     *)
(* that faulted stays in faultnotify or done, with its exception stored,   *)
(* until its own step moves it on.                                         *)
LEMMA WitnessKept ==
    ASSUME TypeOK, TermByFault, NEW w \in Workers,
           termination' = termination,
           pc[w] \notin {"faultnotify", "done"},
           \A v \in Workers \ {w} :
               (pc[v] \in {"faultnotify", "done"} => pc'[v] = pc[v]) /\ done'[v] = done[v]
    PROVE  TermByFault'
BY DEF TermByFault

(* At the last wait() of a run, a wait that does not rethrow returns       *)
(* normally: terminate() is never called, so the flag is set only by a     *)
(* worker whose exception wait() rethrows.                                 *)
LEMMA LastWaitOk ==
    ASSUME ExecInv, WaitEnd, executing, outcome' # "error"
    PROVE  outcome' = "ok"
<1>1. ~termination
  <2>. SUFFICES ASSUME termination PROVE FALSE
    OBVIOUS
  <2>1. PICK v \in Workers : pc[v] = "faultnotify" \/ (pc[v] = "done" /\ done[v] = "exception")
    BY DEF ExecInv, TermByFault
  <2>2. v \in Spawned
    BY <2>1 DEF Spawned
  <2>3. done[v] # "none"
    BY <2>2 DEF WaitEnd
  <2>4. pc[v] = "done" /\ done[v] = "exception"
    BY <2>1, <2>3 DEF ExecInv, CleanInv, PromiseSetWhenDone
  <2>. QED  BY <2>2, <2>4 DEF WaitEnd
<1>. QED  BY <1>1 DEF WaitEnd

LEMMA ExecNextInv == ExecInv /\ [ExecNext]_allVars => ExecInv'
<1>. SUFFICES ASSUME ExecInv, [ExecNext]_allVars PROVE ExecInv'
  OBVIOUS
<1>0. CleanInv' /\ TypeOK /\ TypeOK'
  BY ExecNextIsNext, NextCleanInv DEF ExecInv, CleanInv
<1>a. Times \in Nat
  BY ExecutorAssumption
<1>1. ASSUME NEW m \in {"once", "loop"}, Launch(m) PROVE ExecInv'
  <2>1. epc = "none" /\ iter = 0 /\ promise = "none"
    BY <1>1 DEF Launch, ExecInv, Launched, PromiseLast
  <2>. QED  BY <1>0, <1>1, <1>a, <2>1
            DEF Launch, vars, ExecInv, ExecTypeOK, StartsCounted, Launched, Rounds, Target,
                FinalRunning, TermByFault, PromiseLast
<1>2. CASE ExecWait
  BY <1>0, <1>2 DEF ExecWait, WaitBegin, workerVars, ExecInv, ExecTypeOK, StartsCounted,
         Launched, Rounds, Target, FinalRunning, TermByFault, PromiseLast
<1>3. CASE ExecWaitEnd
  <2>1. /\ epc \in {"inwait", "infinal"} /\ promise = "none"
        /\ termination' = FALSE /\ starts' = starts
        /\ UNCHANGED <<mode, iter>>
    BY <1>3 DEF ExecWaitEnd, WaitEnd, Reset, ExecInv, PromiseLast
  <2>2. epc = "infinal" /\ outcome' # "error" /\ iter > 0 => outcome' = "ok"
    BY <1>3, LastWaitOk DEF ExecWaitEnd, ExecInv, FinalRunning
  <2>3. Rounds'
    BY <1>3, <2>1 DEF ExecWaitEnd, ExecInv, Rounds, Target
  <2>4. PromiseLast'
    BY <1>3, <2>1, <2>2 DEF ExecWaitEnd, ExecInv, Rounds, PromiseLast, Target
  <2>. QED  BY <1>0, <1>3, <2>1, <2>3, <2>4
            DEF ExecWaitEnd, ExecInv, ExecTypeOK, StartsCounted, Launched,
                FinalRunning, TermByFault
<1>4. CASE ExecStart
  <2>1. /\ epc = "start" /\ promise' = promise /\ promise = "none"
        /\ termination' = FALSE /\ executing' = TRUE /\ starts' = starts + 1
        /\ iter' = iter + 1 /\ mode' = mode
        /\ epc' = IF mode = "loop" /\ iter + 1 < Times THEN "wait" ELSE "final"
    BY <1>4 DEF ExecStart, Start, ExecInv, PromiseLast
  <2>2. mode \in {"once", "loop"} /\ iter \in Nat
    BY <2>1 DEF ExecInv, Launched, ExecTypeOK
  <2>3. Rounds'
    BY <1>a, <2>1, <2>2 DEF ExecInv, Rounds, Target
  <2>. QED  BY <1>0, <2>1, <2>2, <2>3
            DEF ExecInv, ExecTypeOK, StartsCounted, Launched,
                FinalRunning, TermByFault, PromiseLast
<1>5. ASSUME NEW w \in Workers, Trace(w) \/ WorkerStep(w), UNCHANGED execVars
      PROVE  ExecInv'
  <2>1. UNCHANGED <<starts, executing, outcome>>
    BY <1>5 DEF Trace, WorkerStep, Check, Wait, SpuriousWake, Reacquire, Execute,
           Complete, Notify, Exit, Fault, FaultNotify
  <2>2. TermByFault'
    <3>1. CASE Fault(w)
      BY <3>1, <1>0 DEF Fault, TypeOK, TermByFault
    <3>2. CASE FaultNotify(w)
      BY <3>2, <1>0 DEF FaultNotify, TypeOK, TermByFault
    <3>3. CASE Trace(w) \/ Check(w) \/ Wait(w) \/ SpuriousWake(w) \/ Reacquire(w)
                \/ Execute(w) \/ Complete(w)
      <4>1. /\ termination' = termination /\ pc[w] \notin {"faultnotify", "done"}
            /\ \A v \in Workers \ {w} : pc'[v] = pc[v] /\ done'[v] = done[v]
        <5>1. CASE Trace(w)
          BY <5>1, <1>0 DEF Trace, TraceContract, Claim, Park, Leave, TypeOK
        <5>2. CASE ~Trace(w)
          BY <3>3, <5>2, <1>0 DEF Check, Wait, SpuriousWake, Reacquire, Execute,
                 Complete, TypeOK
        <5>. QED  BY <5>1, <5>2
      <4>. QED  BY <4>1, <1>0, WitnessKept DEF ExecInv, CleanInv
    <3>4. CASE Notify(w) \/ Exit(w)
      <4>1. /\ termination' = termination /\ pc[w] \notin {"faultnotify", "done"}
            /\ \A v \in Workers \ {w} :
                   (pc[v] \in {"faultnotify", "done"} => pc'[v] = pc[v])
                   /\ done'[v] = done[v]
        BY <3>4, <1>0 DEF Notify, Exit, NotifyAll, TypeOK
      <4>. QED  BY <4>1, <1>0, WitnessKept DEF ExecInv, CleanInv
    <3>. QED  BY <1>5, <3>1, <3>2, <3>3, <3>4 DEF WorkerStep
  <2>. QED  BY <1>0, <1>5, <2>1, <2>2
            DEF execVars, ExecInv, ExecTypeOK, StartsCounted, Launched, Rounds, Target,
                FinalRunning, PromiseLast
<1>6. CASE UNCHANGED allVars
  BY <1>0, <1>6 DEF allVars, vars, execVars, ExecInv, ExecTypeOK, StartsCounted, Launched,
         Rounds, Target, FinalRunning, TermByFault, PromiseLast
<1>. QED  BY <1>1, <1>2, <1>3, <1>4, <1>5, <1>6 DEF ExecNext, ExecStep

(* The future returned by Executor::start or start_loop holds a value only *)
(* after the detached thread called graph.start() once, or times times,    *)
(* and the last run it waited for completed every pooled node: for every   *)
(* thread count, pool, graph and value of times.                           *)
THEOREM ExecValueSafe == ExecSpec => []ValueMeansRunsDone
<1>1. ExecInit => ExecInv
  BY ExecInitInv
<1>2. ExecInv /\ [ExecNext]_allVars => ExecInv'
  BY ExecNextInv
<1>3. ExecInv => ValueMeansRunsDone
  BY DEF ExecInv, StartsCounted, PromiseLast, CleanInv, CleanWaitCompletesAll,
         ValueMeansRunsDone, Target
<1>. QED  BY <1>1, <1>2, <1>3, PTL DEF ExecSpec

==============================================================================
