---------------------------- MODULE GraphRunProofs ----------------------------
(***************************************************************************)
(* Proofs about GraphRun for every value of the constants: the type        *)
(* invariant, and dependency respect from an inductive strengthening.      *)
(***************************************************************************)
EXTENDS GraphRun, EdgesProofs

------------------------------------------------------------------------------
(* Lemmas on the sequence operators the model uses.                        *)

------------------------------------------------------------------------------
(* Type correctness.                                                       *)

LEMMA InitTypeOK == Init => TypeOK
<1>. SUFFICES ASSUME Init PROVE TypeOK
  OBVIOUS
<1>1. PICK g \in InitGraphs : pool = g.pool /\ preds = g.preds /\ succs = g.succs
  BY DEF Init
<1>2. WellFormedGraph(g)
  BY GraphRunAssumption
<1>3. /\ pool \in Seq(Nodes)
      /\ preds \in [Nodes -> Seq(Nodes)] /\ succs \in [Nodes -> Seq(Nodes)]
  BY <1>1, <1>2 DEF WellFormedGraph
<1>4. /\ nstate = [n \in Nodes |-> "Ready"]
      /\ cache = <<>> /\ executing = FALSE /\ termination = FALSE
      /\ lock = None /\ pc = [w \in Workers |-> "idle"]
      /\ cur = [w \in Workers |-> None] /\ done = [w \in Workers |-> "none"]
      /\ mainpc = "idle" /\ starts = 0 /\ runs = [n \in Nodes |-> 0]
      /\ outcome = "none"
  BY DEF Init
<1>5. cache \in Seq(Nodes)
  BY <1>4
<1>6. /\ nstate \in [Nodes -> NodeState] /\ runs \in [Nodes -> Nat]
      /\ pc \in [Workers -> {"idle"}] /\ cur \in [Workers -> {None}]
      /\ done \in [Workers -> {"none"}]
  BY <1>4 DEF NodeState
<1>7. starts \in 0 .. MaxStarts
  BY <1>4, GraphRunAssumption
<1>8. lock \in Workers \cup {None} /\ mainpc \in {"idle", "waiting"}
      /\ outcome \in {"none", "ok", "terminated", "error"}
      /\ executing \in BOOLEAN /\ termination \in BOOLEAN
  BY <1>4
<1>9. /\ pc \in [Workers -> {"idle", "check", "trace", "prewait", "waiting", "woken",
                             "run", "complete", "notify", "exit", "fault",
                             "faultnotify", "done"}]
      /\ cur \in [Workers -> Nodes \cup {None}]
      /\ done \in [Workers -> {"none", "value", "exception"}]
  BY <1>4
<1>. QED  BY <1>3, <1>5, <1>6, <1>7, <1>8, <1>9 DEF TypeOK

(* notify_all keeps every worker at a location of the loop.                *)
LEMMA NotifyAllType ==
    ASSUME NEW P, NEW p \in [Workers -> P], "woken" \in P
    PROVE  NotifyAll(p) \in [Workers -> P]
BY DEF NotifyAll

LEMMA NextTypeOK == TypeOK /\ [Next]_vars => TypeOK'
<1>. SUFFICES ASSUME TypeOK, [Next]_vars PROVE TypeOK'
  OBVIOUS
<1>. USE GraphRunAssumption DEF TypeOK, NodeState, graphVars, workerVars
<1>. DEFINE Loc == {"idle", "check", "trace", "prewait", "waiting", "woken",
                    "run", "complete", "notify", "exit", "fault",
                    "faultnotify", "done"}
<1>1. CASE Start
  <2>1. pc' \in [Workers -> Loc]
    BY <1>1 DEF Start
  <2>2. /\ nstate' \in [Nodes -> NodeState] /\ cache' \in Seq(Nodes)
        /\ runs' \in [Nodes -> Nat] /\ starts' \in 0 .. MaxStarts
    BY <1>1 DEF Start
  <2>3. /\ cur' \in [Workers -> Nodes \cup {None}]
        /\ done' \in [Workers -> {"none", "value", "exception"}]
        /\ executing' \in BOOLEAN /\ termination' \in BOOLEAN
        /\ outcome' \in {"none", "ok", "terminated", "error"}
    BY <1>1 DEF Start
  <2>. QED  BY <1>1, <2>1, <2>2, <2>3 DEF Start
<1>2. CASE WaitBegin
  BY <1>2 DEF WaitBegin
<1>3. CASE WaitEnd
  <2>1. outcome' \in {"none", "ok", "terminated", "error"}
    BY <1>3 DEF WaitEnd, Reset
  <2>2. /\ pc' \in [Workers -> Loc]
        /\ done' \in [Workers -> {"none", "value", "exception"}]
        /\ cache' \in Seq(Nodes)
    BY <1>3 DEF WaitEnd, Reset
  <2>. QED  BY <1>3, <2>1, <2>2 DEF WaitEnd, Reset
<1>4. CASE Terminate
  BY <1>4 DEF Terminate
<1>5. ASSUME NEW w \in Workers, Trace(w) PROVE TypeOK'
  <2>1. CASE \E n \in ToSet(cache) : Runnable(n) /\ Claim(w, n)
    <3>1. PICK n \in ToSet(cache) : Claim(w, n)
      BY <2>1
    <3>2. n \in Nodes
      BY DEF ToSet
    <3>3. cache' \in Seq(Nodes)
      BY <3>1, RemoveFirstType DEF Claim
    <3>4. /\ runs' \in [Nodes -> Nat] /\ nstate' \in [Nodes -> NodeState]
          /\ pc' \in [Workers -> Loc] /\ cur' \in [Workers -> Nodes \cup {None}]
      BY <3>1, <3>2 DEF Claim
    <3>. QED  BY <1>5, <3>1, <3>3, <3>4 DEF Trace, Claim
  <2>2. CASE SomeExecuting /\ Park(w)
    BY <1>5, <2>2 DEF Trace, Park
  <2>3. CASE cache = <<>> /\ ~SomeExecuting /\ Leave(w)
    BY <1>5, <2>3 DEF Trace, Leave
  <2>. QED  BY <1>5, <2>1, <2>2, <2>3 DEF Trace, TraceContract
<1>6. ASSUME NEW w \in Workers, WorkerStep(w) PROVE TypeOK'
  <2>1. NotifyAll(pc) \in [Workers -> Loc]
    BY NotifyAllType
  <2>. QED
    BY <1>6, <2>1 DEF WorkerStep, Check, Wait, SpuriousWake, Reacquire, Execute,
                      Complete, Notify, Exit, Fault, FaultNotify
<1>7. CASE UNCHANGED vars
  BY <1>7 DEF vars
<1>. QED  BY <1>1, <1>2, <1>3, <1>4, <1>5, <1>6, <1>7 DEF Next, ClientStep

(* Type correctness of every variable of the run, for every graph the     *)
(* client can build and every thread count.                                *)
THEOREM TypeCorrect == Spec => []TypeOK
BY InitTypeOK, NextTypeOK, PTL DEF Spec

------------------------------------------------------------------------------
(* Dependency respect.  It is not inductive alone: Start resets the pool   *)
(* to READY, which is safe only because every edge joins two pooled nodes, *)
(* and Complete marks cur[w] COMPLETED, which is safe only because cur[w]  *)
(* was claimed and so has left READY.                                      *)

EdgesInPool ==
    \A n \in Nodes : \A m \in Pred(n) : m \in PoolSet /\ n \in PoolSet

RunningClaimed ==
    \A w \in Workers :
        pc[w] \in {"run", "complete"} => cur[w] \in Nodes /\ nstate[cur[w]] # "Ready"

IInv == TypeOK /\ EdgesInPool /\ RunningClaimed /\ DependencyRespect

LEMMA InitIInv == Init => IInv
<1>. SUFFICES ASSUME Init PROVE IInv
  OBVIOUS
<1>1. TypeOK
  BY InitTypeOK
<1>2. PICK g \in InitGraphs : pool = g.pool /\ preds = g.preds /\ succs = g.succs
  BY DEF Init
<1>3. EdgesInPool
  <2>1. WellFormedGraph(g)
    BY GraphRunAssumption
  <2>2. SUFFICES ASSUME NEW n \in Nodes, NEW m \in ToSet(preds[n])
                 PROVE  m \in ToSet(pool) /\ n \in ToSet(pool)
    BY DEF EdgesInPool, Pred, PoolSet
  <2>3. m \in Nodes
    BY <1>2, <2>1 DEF WellFormedGraph, ToSet
  <2>. QED  BY <1>2, <2>1, <2>3 DEF WellFormedGraph
<1>4. /\ nstate = [n \in Nodes |-> "Ready"]
      /\ pc = [w \in Workers |-> "idle"]
  BY DEF Init
<1>. QED  BY <1>1, <1>3, <1>4 DEF IInv, RunningClaimed, DependencyRespect

(* No step changes the graph.                                              *)
LEMMA GraphUnchanged == [Next]_vars => UNCHANGED graphVars
BY DEF Next, ClientStep, Start, WaitBegin, WaitEnd, Terminate, Trace, WorkerStep,
       Check, Wait, SpuriousWake, Reacquire, Execute, Complete, Notify, Exit,
       Fault, FaultNotify, Reset, vars, graphVars

(* The worker steps that change neither the node states nor cur, and move *)
(* no worker into run or complete.                                         *)
LEMMA QuietStepIInv ==
    ASSUME IInv, UNCHANGED <<nstate, cur, preds>>,
           \A v \in Workers : pc'[v] \in {"run", "complete"} => pc[v] \in {"run", "complete"}
    PROVE  RunningClaimed' /\ DependencyRespect'
BY DEF IInv, RunningClaimed, DependencyRespect, Pred

LEMMA NextIInv == IInv /\ [Next]_vars => IInv'
<1>. SUFFICES ASSUME IInv, [Next]_vars PROVE IInv'
  OBVIOUS
<1>1. TypeOK'
  BY NextTypeOK DEF IInv
<1>2. UNCHANGED graphVars
  BY GraphUnchanged
<1>3. EdgesInPool'
  BY <1>2 DEF IInv, EdgesInPool, Pred, PoolSet, graphVars
<1>4. RunningClaimed' /\ DependencyRespect'
  <2>1. CASE Start
    <3>1. \A n \in Nodes : nstate'[n] # "Ready" => n \notin PoolSet
      BY <2>1 DEF Start, IInv, TypeOK
    <3>2. \A w \in Workers : pc'[w] \in {"check", "idle"}
      BY <2>1 DEF Start
    <3>. QED  BY <1>2, <3>1, <3>2 DEF IInv, EdgesInPool, RunningClaimed,
                                       DependencyRespect, Pred, graphVars
  <2>2. CASE WaitBegin \/ Terminate
    BY <2>2, QuietStepIInv DEF WaitBegin, Terminate, graphVars, workerVars
  <2>3. CASE WaitEnd
    <3>1. \A v \in Workers : pc'[v] = "idle"
      BY <2>3 DEF WaitEnd, Reset
    <3>. QED  BY <2>3, <3>1, QuietStepIInv DEF WaitEnd, Reset, graphVars
  <2>4. ASSUME NEW w \in Workers, Trace(w) PROVE RunningClaimed' /\ DependencyRespect'
    <3>1. CASE \E n \in ToSet(cache) : Runnable(n) /\ Claim(w, n)
      <4>1. PICK n \in ToSet(cache) : Runnable(n) /\ Claim(w, n)
        BY <3>1
      <4>2. n \in Nodes
        BY DEF IInv, TypeOK, ToSet
      <4>3. RunningClaimed'
        BY <2>4, <4>1, <4>2 DEF Trace, Claim, IInv, TypeOK, RunningClaimed
      <4>4. DependencyRespect'
        BY <2>4, <4>1, <4>2, <1>2 DEF Trace, Claim, Runnable, IInv, TypeOK,
                                      DependencyRespect, Pred, graphVars
      <4>. QED  BY <4>3, <4>4
    <3>2. CASE SomeExecuting /\ Park(w)
      BY <2>4, <3>2, QuietStepIInv DEF Trace, Park, graphVars
    <3>3. CASE cache = <<>> /\ ~SomeExecuting /\ Leave(w)
      BY <2>4, <3>3, QuietStepIInv DEF Trace, Leave, graphVars
    <3>. QED  BY <2>4, <3>1, <3>2, <3>3 DEF Trace, TraceContract
  <2>5. ASSUME NEW w \in Workers, Complete(w) PROVE RunningClaimed' /\ DependencyRespect'
    BY <2>5 DEF Complete, IInv, TypeOK, RunningClaimed, DependencyRespect, Pred, graphVars
  <2>6. ASSUME NEW w \in Workers,
               Check(w) \/ Wait(w) \/ SpuriousWake(w) \/ Reacquire(w) \/ Execute(w)
               \/ Notify(w) \/ Exit(w) \/ Fault(w) \/ FaultNotify(w)
        PROVE  RunningClaimed' /\ DependencyRespect'
    <3>1. CASE Check(w)
      BY <3>1, QuietStepIInv DEF Check, IInv, TypeOK, graphVars
    <3>2. CASE Wait(w)
      BY <3>2, QuietStepIInv DEF Wait, IInv, TypeOK, graphVars
    <3>3. CASE SpuriousWake(w)
      BY <3>3, QuietStepIInv DEF SpuriousWake, IInv, TypeOK, graphVars
    <3>4. CASE Reacquire(w)
      BY <3>4, QuietStepIInv DEF Reacquire, IInv, TypeOK, graphVars
    <3>5. CASE Execute(w)
      BY <3>5, QuietStepIInv DEF Execute, IInv, TypeOK, graphVars
    <3>6. CASE Notify(w)
      BY <3>6, QuietStepIInv DEF Notify, NotifyAll, IInv, TypeOK, graphVars
    <3>7. CASE Exit(w)
      BY <3>7, QuietStepIInv DEF Exit, NotifyAll, IInv, TypeOK, graphVars
    <3>8. CASE Fault(w)
      BY <3>8, QuietStepIInv DEF Fault, IInv, TypeOK, graphVars
    <3>9. CASE FaultNotify(w)
      BY <3>9, QuietStepIInv DEF FaultNotify, NotifyAll, IInv, TypeOK, graphVars
    <3>. QED  BY <2>6, <3>1, <3>2, <3>3, <3>4, <3>5, <3>6, <3>7, <3>8, <3>9
  <2>7. CASE UNCHANGED vars
    BY <2>7, QuietStepIInv DEF vars
  <2>. QED  BY <2>1, <2>2, <2>3, <2>4, <2>5, <2>6, <2>7 DEF Next, ClientStep, WorkerStep
<1>. QED  BY <1>1, <1>3, <1>4 DEF IInv

(* Dependency respect (DependencyRespect): for every graph and thread     *)
(* count, no worker claims a node before all its predecessors have        *)
(* completed, although they complete outside the tasks mutex.             *)
THEOREM DependencySafe == Spec => []DependencyRespect
<1>1. IInv => DependencyRespect
  BY DEF IInv
<1>. QED  BY InitIInv, NextIInv, <1>1, PTL DEF Spec

------------------------------------------------------------------------------
(* At most one execution per node and run.  The strengthening ties the     *)
(* count to the state: a node still READY has not run since start().      *)

RunsInv ==
    /\ TypeOK
    /\ \A n \in Nodes : runs[n] <= 1 /\ (nstate[n] = "Ready" => runs[n] = 0)

LEMMA InitRunsInv == Init => RunsInv
<1>. SUFFICES ASSUME Init PROVE RunsInv
  OBVIOUS
<1>1. /\ nstate = [n \in Nodes |-> "Ready"] /\ runs = [n \in Nodes |-> 0]
  BY DEF Init
<1>. QED  BY <1>1, InitTypeOK DEF RunsInv

(* The steps that touch neither the node states nor the counts.            *)
LEMMA QuietRunsInv ==
    ASSUME RunsInv, TypeOK', UNCHANGED <<nstate, runs>>
    PROVE  RunsInv'
BY DEF RunsInv

LEMMA NextRunsInv == RunsInv /\ [Next]_vars => RunsInv'
<1>. SUFFICES ASSUME RunsInv, [Next]_vars PROVE RunsInv'
  OBVIOUS
<1>1. TypeOK'
  BY NextTypeOK DEF RunsInv
<1>2. CASE Start
  BY <1>1, <1>2 DEF Start, RunsInv, TypeOK
<1>3. CASE WaitBegin \/ WaitEnd \/ Terminate
  BY <1>1, <1>3, QuietRunsInv DEF WaitBegin, WaitEnd, Reset, Terminate
<1>4. ASSUME NEW w \in Workers, Trace(w) PROVE RunsInv'
  <2>1. CASE \E n \in ToSet(cache) : Runnable(n) /\ Claim(w, n)
    <3>1. PICK n \in ToSet(cache) : Runnable(n) /\ Claim(w, n)
      BY <2>1
    <3>2. n \in Nodes
      BY DEF RunsInv, TypeOK, ToSet
    <3>. QED  BY <1>1, <3>1, <3>2 DEF Runnable, Claim, RunsInv, TypeOK
  <2>2. CASE Park(w) \/ Leave(w)
    BY <1>1, <2>2, QuietRunsInv DEF Park, Leave
  <2>. QED  BY <1>4, <2>1, <2>2 DEF Trace, TraceContract
<1>5. ASSUME NEW w \in Workers, Complete(w) PROVE RunsInv'
  BY <1>1, <1>5 DEF Complete, RunsInv, TypeOK
<1>6. ASSUME NEW w \in Workers,
             Check(w) \/ Wait(w) \/ SpuriousWake(w) \/ Reacquire(w) \/ Execute(w)
             \/ Notify(w) \/ Exit(w) \/ Fault(w) \/ FaultNotify(w)
      PROVE  RunsInv'
  BY <1>1, <1>6, QuietRunsInv DEF Check, Wait, SpuriousWake, Reacquire, Execute,
                                  Notify, Exit, Fault, FaultNotify
<1>7. CASE UNCHANGED vars
  BY <1>1, <1>7, QuietRunsInv DEF vars
<1>. QED  BY <1>2, <1>3, <1>4, <1>5, <1>6, <1>7 DEF Next, ClientStep, WorkerStep

(* At-most-once execution (AtMostOnce): for every graph and thread count, *)
(* no payload runs twice between two start() calls: a claim needs a READY *)
(* node and turns it EXECUTING in the same locked block.                   *)
THEOREM AtMostOnceSafe == Spec => []AtMostOnce
<1>1. RunsInv => AtMostOnce
  BY DEF RunsInv, AtMostOnce
<1>. QED  BY InitRunsInv, NextRunsInv, <1>1, PTL DEF Spec

------------------------------------------------------------------------------
(* A clean wait completes the graph.  The strengthening follows a run from *)
(* start() to the wait() that ends it: a pooled node still READY is in the *)
(* ready cache; a worker that left the loop while nobody terminated saw an *)
(* empty cache and no EXECUTING node, so every node had completed; the     *)
(* exception path always sets the termination flag; a worker's promise is *)
(* set only when it is done; a run over a nonempty pool spawns a worker;   *)
(* and outside a run every worker is idle, so nothing changes the node     *)
(* states between wait() and the next start().                             *)

IdleUnlessExecuting == ~executing => \A w \in Workers : pc[w] = "idle"

OutcomeAfterRun == outcome # "none" => ~executing

CacheInPool == ToSet(cache) \subseteq PoolSet

ReadyCached ==
    executing => \A n \in PoolSet : nstate[n] = "Ready" => n \in ToSet(cache)

FaultTerminates ==
    \A w \in Workers :
        pc[w] = "faultnotify" \/ (pc[w] = "done" /\ done[w] = "exception") => termination

PromiseSetWhenDone == \A w \in Workers : done[w] # "none" => pc[w] = "done"

SomeSpawned == executing /\ PoolSet # {} => \E w \in Workers : pc[w] # "idle"

LeftAllCompleted ==
    executing /\ ~termination /\ (\E w \in Workers : pc[w] \in {"exit", "done"})
        => \A n \in PoolSet : nstate[n] = "Completed"

CleanInv ==
    /\ TypeOK /\ IdleUnlessExecuting /\ OutcomeAfterRun /\ CacheInPool
    /\ ReadyCached /\ FaultTerminates /\ PromiseSetWhenDone /\ SomeSpawned
    /\ LeftAllCompleted /\ CleanWaitCompletesAll

LEMMA InitCleanInv == Init => CleanInv
<1>. SUFFICES ASSUME Init PROVE CleanInv
  OBVIOUS
<1>1. TypeOK
  BY InitTypeOK
<1>2. /\ cache = <<>> /\ executing = FALSE /\ outcome = "none"
      /\ pc = [w \in Workers |-> "idle"] /\ done = [w \in Workers |-> "none"]
  BY DEF Init
<1>. QED  BY <1>1, <1>2, EmptyProps
          DEF CleanInv, IdleUnlessExecuting, OutcomeAfterRun, CacheInPool, ReadyCached,
              FaultTerminates, PromiseSetWhenDone, SomeSpawned, LeftAllCompleted,
              CleanWaitCompletesAll

(* A worker step that leaves the cache, the flags, the outcome and the     *)
(* promises alone, only ever marks nodes COMPLETED, moves no worker into   *)
(* exit, done or faultnotify, and wakes only waiting workers.              *)
LEMMA WorkerStepClean ==
    ASSUME CleanInv, TypeOK', NEW w \in Workers,
           UNCHANGED <<pool, cache, executing, termination, outcome, done>>,
           pc[w] \notin {"idle", "done"},
           pc'[w] \notin {"idle", "exit", "done", "faultnotify"},
           \A v \in Workers \ {w} :
               pc'[v] = pc[v] \/ (pc[v] = "waiting" /\ pc'[v] = "woken"),
           \A n \in Nodes : nstate'[n] = nstate[n] \/ nstate'[n] = "Completed"
    PROVE  CleanInv'
<1>1. executing
  BY DEF CleanInv, IdleUnlessExecuting
<1>2. done[w] = "none"
  BY DEF CleanInv, PromiseSetWhenDone
<1>3. (IdleUnlessExecuting /\ OutcomeAfterRun /\ CacheInPool /\ SomeSpawned)'
  BY <1>1 DEF CleanInv, IdleUnlessExecuting, OutcomeAfterRun, CacheInPool,
              SomeSpawned, PoolSet
<1>4. ReadyCached'
  <2>. SUFFICES ASSUME NEW n \in PoolSet, nstate'[n] = "Ready" PROVE n \in ToSet(cache)
    BY DEF ReadyCached, PoolSet
  <2>1. n \in Nodes
    BY ToSetType DEF CleanInv, TypeOK, PoolSet
  <2>2. nstate[n] = "Ready"
    BY <2>1
  <2>. QED  BY <1>1, <2>2 DEF CleanInv, ReadyCached
<1>5. FaultTerminates'
  BY DEF CleanInv, FaultTerminates
<1>6. PromiseSetWhenDone'
  BY <1>2 DEF CleanInv, PromiseSetWhenDone
<1>7. LeftAllCompleted'
  <2>. SUFFICES ASSUME executing, ~termination,
                       NEW v \in Workers, pc'[v] \in {"exit", "done"}
                PROVE  \A n \in PoolSet' : nstate'[n] = "Completed"
    BY DEF LeftAllCompleted
  <2>1. v # w /\ pc[v] = pc'[v]
    OBVIOUS
  <2>2. \A n \in PoolSet : nstate[n] = "Completed"
    BY <2>1 DEF CleanInv, LeftAllCompleted
  <2>3. PoolSet \subseteq Nodes
    BY ToSetType DEF CleanInv, TypeOK, PoolSet
  <2>. QED  BY <2>2, <2>3 DEF PoolSet
<1>8. CleanWaitCompletesAll'
  BY <1>1 DEF CleanInv, OutcomeAfterRun, CleanWaitCompletesAll
<1>. QED  BY <1>3, <1>4, <1>5, <1>6, <1>7, <1>8 DEF CleanInv

(* The hypotheses of WorkerStepClean as one formula.                      *)
QuietStep(w) ==
    /\ UNCHANGED <<pool, cache, executing, termination, outcome, done>>
    /\ pc[w] \notin {"idle", "done"}
    /\ pc'[w] \notin {"idle", "exit", "done", "faultnotify"}
    /\ \A v \in Workers \ {w} :
           pc'[v] = pc[v] \/ (pc[v] = "waiting" /\ pc'[v] = "woken")
    /\ \A n \in Nodes : nstate'[n] = nstate[n] \/ nstate'[n] = "Completed"

LEMMA QuietStepClean ==
    ASSUME CleanInv, TypeOK', NEW w \in Workers, QuietStep(w)
    PROVE  CleanInv'
BY WorkerStepClean DEF QuietStep

(* notify_all: waiting workers wake, the others stay where they are.       *)
LEMMA NotifyAllWakes ==
    ASSUME NEW p, NEW v \in Workers
    PROVE  NotifyAll(p)[v] = p[v] \/ (p[v] = "waiting" /\ NotifyAll(p)[v] = "woken")
BY DEF NotifyAll

LEMMA NextCleanInv == CleanInv /\ [Next]_vars => CleanInv'
<1>. SUFFICES ASSUME CleanInv, [Next]_vars PROVE CleanInv'
  OBVIOUS
<1>0. TypeOK /\ TypeOK'
  BY NextTypeOK DEF CleanInv
<1>1. UNCHANGED graphVars
  BY GraphUnchanged
<1>2. CASE Start
  <2>1. /\ executing' = TRUE /\ termination' = FALSE /\ outcome' = "none"
        /\ cache' = pool /\ done' = [v \in Workers |-> "none"]
        /\ \A v \in Workers : pc'[v] \in {"check", "idle"}
    BY <1>2 DEF Start
  <2>2. ASSUME PoolSet # {} PROVE pc'[0] = "check"
    <3>1. PICK x \in DOMAIN pool : TRUE
      BY <2>2 DEF PoolSet, ToSet
    <3>2. DOMAIN pool = 1 .. Len(pool)
      BY <1>0, LenProperties DEF TypeOK
    <3>3. Len(pool) \in Nat
      BY <1>0, LenProperties DEF TypeOK
    <3>4. Len(pool) >= 1
      BY <3>1, <3>2, <3>3
    <3>5. ThreadCount \in Nat \ {0} /\ 0 \in Workers
      BY GraphRunAssumption DEF Workers
    <3>. QED  BY <1>2, <3>4, <3>5 DEF Start
  <2>3. PoolSet' = PoolSet
    BY <1>1 DEF PoolSet, graphVars
  <2>4. SomeSpawned'
    <3>. SUFFICES ASSUME PoolSet' # {} PROVE \E v \in Workers : pc'[v] # "idle"
      BY DEF SomeSpawned
    <3>1. 0 \in Workers
      BY GraphRunAssumption DEF Workers
    <3>. QED  BY <2>2, <2>3, <3>1
  <2>5. ReadyCached' /\ CacheInPool'
    BY <2>1, <2>3 DEF ReadyCached, CacheInPool, PoolSet
  <2>. QED  BY <1>0, <2>1, <2>4, <2>5
            DEF CleanInv, IdleUnlessExecuting, OutcomeAfterRun,
                FaultTerminates, PromiseSetWhenDone, LeftAllCompleted,
                CleanWaitCompletesAll
<1>3. CASE WaitBegin
  BY <1>3, <1>0 DEF WaitBegin, graphVars, workerVars,
         CleanInv, IdleUnlessExecuting, OutcomeAfterRun, CacheInPool, ReadyCached,
         FaultTerminates, PromiseSetWhenDone, SomeSpawned, LeftAllCompleted,
         CleanWaitCompletesAll, PoolSet
<1>4. CASE Terminate
  BY <1>4, <1>0 DEF Terminate, graphVars, workerVars,
         CleanInv, IdleUnlessExecuting, OutcomeAfterRun, CacheInPool, ReadyCached,
         FaultTerminates, PromiseSetWhenDone, SomeSpawned, LeftAllCompleted,
         CleanWaitCompletesAll, PoolSet
<1>5. CASE WaitEnd
  <2>1. /\ \A v \in Spawned : done[v] # "none"
        /\ outcome' = IF ~executing THEN outcome
                      ELSE IF \E v \in Spawned : done[v] = "exception" THEN "error"
                      ELSE IF termination THEN "terminated" ELSE "ok"
        /\ executing' = FALSE /\ cache' = <<>>
        /\ pc' = [v \in Workers |-> "idle"] /\ done' = [v \in Workers |-> "none"]
        /\ nstate' = nstate /\ pool' = pool
    BY <1>5 DEF WaitEnd, Reset, graphVars
  <2>2. CleanWaitCompletesAll'
    <3>. SUFFICES ASSUME outcome' = "ok" PROVE \A n \in PoolSet : nstate[n] = "Completed"
      BY <2>1 DEF CleanWaitCompletesAll, PoolSet
    <3>1. CASE ~executing
      BY <3>1, <2>1 DEF CleanInv, CleanWaitCompletesAll
    <3>2. CASE executing /\ PoolSet = {}
      BY <3>2
    <3>3. CASE executing /\ PoolSet # {}
      <4>1. ~termination /\ ~\E v \in Spawned : done[v] = "exception"
        BY <3>3, <2>1
      <4>2. PICK v \in Workers : pc[v] # "idle"
        BY <3>3 DEF CleanInv, SomeSpawned
      <4>3. v \in Spawned
        BY <4>2 DEF Spawned
      <4>4. pc[v] = "done"
        BY <4>3, <2>1 DEF CleanInv, PromiseSetWhenDone
      <4>. QED  BY <3>3, <4>1, <4>4 DEF CleanInv, LeftAllCompleted
    <3>. QED  BY <3>1, <3>2, <3>3
  <2>. QED  BY <1>0, <2>1, <2>2, EmptyProps
            DEF CleanInv, IdleUnlessExecuting, OutcomeAfterRun, CacheInPool, ReadyCached,
                FaultTerminates, PromiseSetWhenDone, SomeSpawned, LeftAllCompleted

<1>6. ASSUME NEW w \in Workers, Trace(w) PROVE CleanInv'
  <2>0. /\ pc[w] = "trace" /\ executing /\ done[w] = "none"
        /\ UNCHANGED <<pool, executing, termination, done, outcome>>
    BY <1>6 DEF Trace, graphVars, CleanInv, IdleUnlessExecuting, PromiseSetWhenDone
  <2>a. outcome = "none"
    BY <2>0 DEF CleanInv, OutcomeAfterRun
  <2>1. CASE \E n \in ToSet(cache) : Runnable(n) /\ Claim(w, n)
    <3>1. PICK n \in ToSet(cache) : Runnable(n) /\ Claim(w, n)
      BY <2>1
    <3>2. n \in Nodes /\ nstate[n] = "Ready"
      BY <3>1, <1>0, ToSetType DEF TypeOK, Runnable
    <3>3. /\ ToSet(cache') \subseteq ToSet(cache)
          /\ ToSet(cache) \ {n} \subseteq ToSet(cache')
      BY <3>1, <1>0, RemoveFirstSet DEF Claim, TypeOK
    <3>4. n \in PoolSet
      BY <3>1 DEF CleanInv, CacheInPool
    <3>5. pc'[w] = "run" /\ \A v \in Workers \ {w} : pc'[v] = pc[v]
      BY <3>1, <1>0 DEF Claim, TypeOK
    <3>6. nstate'[n] = "Executing" /\ \A m \in Nodes \ {n} : nstate'[m] = nstate[m]
      BY <3>1, <3>2, <1>0 DEF Claim, TypeOK
    <3>7. (IdleUnlessExecuting /\ OutcomeAfterRun /\ SomeSpawned /\ CleanWaitCompletesAll
           /\ PromiseSetWhenDone /\ FaultTerminates /\ CacheInPool)'
      BY <2>0, <2>a, <3>3, <3>5
      DEF CleanInv, IdleUnlessExecuting, OutcomeAfterRun, SomeSpawned, CleanWaitCompletesAll,
          PromiseSetWhenDone, FaultTerminates, CacheInPool, PoolSet
    <3>8. ReadyCached'
      <4>. SUFFICES ASSUME NEW m \in PoolSet, nstate'[m] = "Ready" PROVE m \in ToSet(cache')
        BY <2>0 DEF ReadyCached, PoolSet
      <4>1. m \in Nodes
        BY <1>0, ToSetType DEF TypeOK, PoolSet
      <4>2. m # n /\ nstate[m] = "Ready"
        BY <4>1, <3>6
      <4>3. m \in ToSet(cache)
        BY <4>2, <2>0 DEF CleanInv, ReadyCached
      <4>. QED  BY <4>2, <4>3, <3>3
    <3>9. LeftAllCompleted'
      <4>. SUFFICES ASSUME ~termination, NEW v \in Workers, pc'[v] \in {"exit", "done"}
                    PROVE  FALSE
        BY <2>0 DEF LeftAllCompleted
      <4>1. v # w /\ pc[v] \in {"exit", "done"}
        BY <3>5
      <4>. QED  BY <4>1, <2>0, <3>2, <3>4 DEF CleanInv, LeftAllCompleted
    <3>. QED  BY <1>0, <3>7, <3>8, <3>9 DEF CleanInv
  <2>2. CASE SomeExecuting /\ Park(w)
    <3>1. QuietStep(w)
      BY <2>2, <2>0, <1>0 DEF Park, QuietStep, TypeOK
    <3>. QED  BY <3>1, <1>0, QuietStepClean
  <2>3. CASE cache = <<>> /\ ~SomeExecuting /\ Leave(w)
    <3>1. \A n \in PoolSet : nstate[n] = "Completed"
      <4>. SUFFICES ASSUME NEW n \in PoolSet PROVE nstate[n] = "Completed"
        OBVIOUS
      <4>1. n \in Nodes
        BY <1>0, ToSetType DEF TypeOK, PoolSet
      <4>2. nstate[n] # "Ready"
        BY <2>3, <2>0, EmptyProps DEF CleanInv, ReadyCached
      <4>3. nstate[n] # "Executing"
        BY <2>3 DEF SomeExecuting
      <4>. QED  BY <4>1, <4>2, <4>3, <1>0 DEF TypeOK, NodeState
    <3>2. pc'[w] = "exit" /\ \A v \in Workers \ {w} : pc'[v] = pc[v]
      BY <2>3, <1>0 DEF Leave, TypeOK
    <3>. QED  BY <1>0, <2>0, <2>3, <3>1, <3>2 DEF Leave,
              CleanInv, IdleUnlessExecuting, OutcomeAfterRun, CacheInPool, ReadyCached,
              FaultTerminates, PromiseSetWhenDone, SomeSpawned, LeftAllCompleted,
              CleanWaitCompletesAll, PoolSet
  <2>. QED  BY <1>6, <2>1, <2>2, <2>3 DEF Trace, TraceContract
<1>7. ASSUME NEW w \in Workers, Check(w) PROVE CleanInv'
  <2>0. pc[w] = "check" /\ executing /\ done[w] = "none"
    BY <1>7 DEF Check, CleanInv, IdleUnlessExecuting, PromiseSetWhenDone
  <2>1. CASE termination
    <3>1. pc'[w] = "exit" /\ \A v \in Workers \ {w} : pc'[v] = pc[v]
      BY <1>7, <2>1, <1>0 DEF Check, TypeOK
    <3>. QED  BY <1>7, <1>0, <2>0, <2>1, <3>1 DEF Check, graphVars,
              CleanInv, IdleUnlessExecuting, OutcomeAfterRun, CacheInPool, ReadyCached,
              FaultTerminates, PromiseSetWhenDone, SomeSpawned, LeftAllCompleted,
              CleanWaitCompletesAll, PoolSet
  <2>2. CASE ~termination
    <3>1. QuietStep(w)
      BY <1>7, <2>0, <2>2, <1>0 DEF Check, graphVars, QuietStep, TypeOK
    <3>. QED  BY <3>1, <1>0, QuietStepClean
  <2>. QED  BY <2>1, <2>2
<1>8. ASSUME NEW w \in Workers,
             Wait(w) \/ SpuriousWake(w) \/ Reacquire(w) \/ Execute(w) \/ Complete(w)
             \/ Notify(w)
      PROVE  CleanInv'
  <2>1. QuietStep(w)
    <3>1. CASE Wait(w)
      BY <3>1, <1>0 DEF Wait, graphVars, QuietStep, TypeOK
    <3>2. CASE SpuriousWake(w)
      BY <3>2, <1>0 DEF SpuriousWake, graphVars, QuietStep, TypeOK
    <3>3. CASE Reacquire(w)
      BY <3>3, <1>0 DEF Reacquire, graphVars, QuietStep, TypeOK
    <3>4. CASE Execute(w)
      BY <3>4, <1>0 DEF Execute, graphVars, QuietStep, TypeOK
    <3>5. CASE Complete(w)
      BY <3>5, <1>0 DEF Complete, graphVars, QuietStep, TypeOK
    <3>6. CASE Notify(w)
      <4>1. \A v \in Workers \ {w} :
               pc'[v] = pc[v] \/ (pc[v] = "waiting" /\ pc'[v] = "woken")
        BY <3>6, <1>0, NotifyAllWakes DEF Notify, TypeOK
      <4>. QED  BY <3>6, <4>1, <1>0 DEF Notify, graphVars, QuietStep, TypeOK
    <3>. QED  BY <1>8, <3>1, <3>2, <3>3, <3>4, <3>5, <3>6
  <2>. QED  BY <2>1, <1>0, QuietStepClean
<1>9. ASSUME NEW w \in Workers, Exit(w) \/ FaultNotify(w) PROVE CleanInv'
  <2>0. /\ pc[w] \in {"exit", "faultnotify"} /\ executing /\ done[w] = "none"
        /\ pc'[w] = "done" /\ done'[w] \in {"value", "exception"}
        /\ (done'[w] = "exception" => termination)
        /\ UNCHANGED <<pool, nstate, cache, executing, termination, outcome>>
    BY <1>9, <1>0 DEF Exit, FaultNotify, graphVars, TypeOK,
       CleanInv, IdleUnlessExecuting, PromiseSetWhenDone, FaultTerminates
  <2>1. \A v \in Workers \ {w} :
           /\ done'[v] = done[v]
           /\ pc'[v] = pc[v] \/ (pc[v] = "waiting" /\ pc'[v] = "woken")
    BY <1>9, <1>0, NotifyAllWakes DEF Exit, FaultNotify, TypeOK
  <2>2. ~termination => \A n \in PoolSet : nstate[n] = "Completed"
    BY <2>0 DEF CleanInv, LeftAllCompleted, FaultTerminates
  <2>3. (FaultTerminates /\ PromiseSetWhenDone)'
    BY <2>0, <2>1 DEF CleanInv, FaultTerminates, PromiseSetWhenDone
  <2>. QED  BY <1>0, <2>0, <2>2, <2>3
            DEF CleanInv, IdleUnlessExecuting, OutcomeAfterRun, CacheInPool, ReadyCached,
                SomeSpawned, LeftAllCompleted, CleanWaitCompletesAll, PoolSet
<1>10. ASSUME NEW w \in Workers, Fault(w) PROVE CleanInv'
  <2>0. /\ pc[w] = "fault" /\ executing /\ done[w] = "none" /\ termination'
        /\ pc'[w] = "faultnotify" /\ \A v \in Workers \ {w} : pc'[v] = pc[v]
    BY <1>10, <1>0 DEF Fault, TypeOK, CleanInv, IdleUnlessExecuting, PromiseSetWhenDone
  <2>. QED  BY <1>10, <1>0, <2>0 DEF Fault, graphVars,
            CleanInv, IdleUnlessExecuting, OutcomeAfterRun, CacheInPool, ReadyCached,
            FaultTerminates, PromiseSetWhenDone, SomeSpawned, LeftAllCompleted,
            CleanWaitCompletesAll, PoolSet
<1>11. CASE UNCHANGED vars
  BY <1>11 DEF vars, CleanInv, IdleUnlessExecuting, OutcomeAfterRun, CacheInPool,
         ReadyCached, FaultTerminates, PromiseSetWhenDone, SomeSpawned, LeftAllCompleted,
         CleanWaitCompletesAll, PoolSet, TypeOK
<1>. QED  BY <1>2, <1>3, <1>4, <1>5, <1>6, <1>7, <1>8, <1>9, <1>10, <1>11
          DEF Next, ClientStep, WorkerStep

(* When wait() returns normally and nothing terminated the run, every      *)
(* pooled node has COMPLETED (ThreadGraph::wait after process_tasks), for  *)
(* every thread count, every pool and every set of throwing payloads.      *)
THEOREM CleanWaitSafe == Spec => []CleanWaitCompletesAll
<1>1. Init => CleanInv
  BY InitCleanInv
<1>2. CleanInv /\ [Next]_vars => CleanInv'
  BY NextCleanInv
<1>3. CleanInv => CleanWaitCompletesAll
  BY DEF CleanInv
<1>. QED  BY <1>1, <1>2, <1>3, PTL DEF Spec

(* A step inside a run leaves a node's state alone, claims a READY node,   *)
(* or completes an EXECUTING one: the node a worker completes is the one   *)
(* it claimed (RunningClaimed).                                            *)
LEMMA ForwardStep ==
    ASSUME IInv, [Next]_vars, executing, executing', NEW n \in Nodes
    PROVE  <<nstate[n], nstate'[n]>> \in StepsForward
<1>0. TypeOK /\ nstate[n] \in NodeState
  BY DEF IInv, TypeOK
<1>1. SUFFICES nstate'[n] = nstate[n]
                 \/ (nstate[n] = "Ready" /\ nstate'[n] = "Executing")
                 \/ (nstate[n] = "Executing" /\ nstate'[n] = "Completed")
  BY <1>0 DEF StepsForward
<1>2. CASE Start
  BY <1>2 DEF Start
<1>3. CASE WaitBegin \/ Terminate \/ WaitEnd
  BY <1>3 DEF WaitBegin, Terminate, WaitEnd
<1>4. ASSUME NEW w \in Workers, Trace(w)
      PROVE  nstate'[n] = nstate[n] \/ (nstate[n] = "Ready" /\ nstate'[n] = "Executing")
  <2>1. CASE \E m \in ToSet(cache) : Runnable(m) /\ Claim(w, m)
    <3>1. PICK m \in ToSet(cache) : Runnable(m) /\ Claim(w, m)
      BY <2>1
    <3>. QED  BY <3>1, <1>0 DEF Runnable, Claim, TypeOK
  <2>2. CASE ~\E m \in ToSet(cache) : Runnable(m) /\ Claim(w, m)
    BY <1>4, <2>2 DEF Trace, TraceContract, Park, Leave
  <2>. QED  BY <2>1, <2>2
<1>5. ASSUME NEW w \in Workers, WorkerStep(w)
      PROVE  nstate'[n] = nstate[n] \/ (nstate[n] = "Executing" /\ nstate'[n] = "Completed")
  <2>1. CASE Complete(w)
    <3>1. cur[w] \in Nodes /\ nstate[cur[w]] # "Ready"
      BY <2>1 DEF Complete, IInv, RunningClaimed
    <3>2. nstate[cur[w]] \in {"Executing", "Completed"}
      BY <3>1, <1>0 DEF TypeOK, NodeState
    <3>. QED  BY <2>1, <3>2, <1>0 DEF Complete, TypeOK
  <2>2. CASE ~Complete(w)
    BY <1>5, <2>2 DEF WorkerStep, Check, Wait, SpuriousWake, Reacquire, Execute,
           Notify, Exit, Fault, FaultNotify
  <2>. QED  BY <2>1, <2>2
<1>6. CASE UNCHANGED vars
  BY <1>6 DEF vars
<1>. QED  BY <1>2, <1>3, <1>4, <1>5, <1>6 DEF Next, ClientStep

(* Inside a run a node goes only from READY to EXECUTING and from          *)
(* EXECUTING to COMPLETED: the claim marks it EXECUTING in the locked      *)
(* block, its worker completes only that node, and start() refuses while   *)
(* the graph executes; for every thread count and graph.                   *)
THEOREM StatesForwardSafe == Spec => StatesForward
<1>1. IInv /\ [Next]_vars
        => [executing /\ executing' => \A n \in Nodes : <<nstate[n], nstate'[n]>> \in StepsForward]_vars
  BY ForwardStep
<1>2. Spec => []IInv
  <2>1. Init => IInv
    BY InitIInv
  <2>2. IInv /\ [Next]_vars => IInv'
    BY NextIInv
  <2>. QED  BY <2>1, <2>2, PTL DEF Spec
<1>. QED  BY <1>1, <1>2, PTL DEF Spec, StatesForward

==============================================================================
