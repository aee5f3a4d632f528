--------------------------- MODULE ThreadPoolProofs ---------------------------
(***************************************************************************)
(* Proofs about ThreadPool for every value of the constants: the type      *)
(* invariant, the bound on live worker threads, and that the pool          *)
(* implements PoolContract under the refinement mapping of ThreadPool.    *)
(***************************************************************************)
EXTENDS ThreadPool, FiniteSetTheorems, TLAPS

(***************************************************************************)
(* The inductive invariant.  Besides the type it says:                     *)
(*  - a live thread still has its context and is not Completed, so the    *)
(*    cleaning in push and wait never drops a running thread, and reset   *)
(*    (which empties the contexts) runs only when every thread is gone;   *)
(*  - the contexts never exceed _max_thread_count;                         *)
(*  - a push in progress carries a new job;                                *)
(*  - frontElm is set exactly while a worker runs it, the job is running   *)
(*    and no other worker holds it;                                        *)
(*  - the queue holds distinct queued jobs.                                *)
(***************************************************************************)
AliveInCtx ==
  \A w \in Slots : Alive(w) => w \in ctx /\ wstate[w] # "Completed"

CtxBound == Cardinality(ctx) <= MaxCount

PushingNew == clientpc = "pushing" => pjob \in Jobs /\ jstate[pjob] = "new"

CurRunning ==
  \A w \in Slots :
    /\ cur[w] # None <=> pc[w] = "run"
    /\ cur[w] # None => jstate[cur[w]] = "running"

CurUnique ==
  \A v, w \in Slots : cur[v] # None /\ cur[v] = cur[w] => v = w

QueueQueued == \A i \in 1 .. Len(queue) : jstate[queue[i]] = "queued"

QueueDistinct ==
  \A i, k \in 1 .. Len(queue) : queue[i] = queue[k] => i = k

IInv ==
  /\ TypeOK /\ AliveInCtx /\ CtxBound /\ PushingNew
  /\ CurRunning /\ CurUnique /\ QueueQueued /\ QueueDistinct

------------------------------------------------------------------------------
(* Lemmas on the cleaning and the spawn of push.                           *)

(* clean_complete_workers keeps a subset of the contexts, and a bounded    *)
(* one.                                                                    *)
LEMMA CleanedBound ==
    ASSUME TypeOK, CtxBound
    PROVE  /\ Cleaned \subseteq ctx /\ IsFiniteSet(Cleaned)
           /\ Cardinality(Cleaned) <= MaxCount
<1>1. IsFiniteSet(ctx)
  BY ThreadPoolAssumption, FS_Subset DEF TypeOK
<1>2. Cleaned \subseteq ctx
  BY DEF Cleaned
<1>3. IsFiniteSet(Cleaned) /\ Cardinality(Cleaned) <= Cardinality(ctx)
  BY <1>1, <1>2, FS_Subset
<1>. QED  BY <1>1, <1>2, <1>3, FS_CardinalityType, ThreadPoolAssumption DEF CtxBound

(* When push spawns, a free slot exists (there are more slots than         *)
(* _max_thread_count) and the grown context set stays within the bound.   *)
LEMMA SpawnRoom ==
    ASSUME TypeOK, CtxBound, ShouldSpawn(Cleaned)
    PROVE  LET w == CHOOSE s \in Slots \ Cleaned : TRUE
           IN  /\ w \in Slots /\ w \notin Cleaned
               /\ Cardinality(Cleaned \cup {w}) <= MaxCount
<1>1. IsFiniteSet(Cleaned) /\ Cleaned \subseteq Slots
      /\ Cardinality(Cleaned) < MaxCount
  BY CleanedBound DEF TypeOK, ShouldSpawn
<1>2. Slots \ Cleaned # {}
  <2>1. SUFFICES ASSUME Slots \subseteq Cleaned PROVE FALSE
    OBVIOUS
  <2>2. Cardinality(Slots) <= Cardinality(Cleaned)
    BY <1>1, <2>1, FS_Subset
  <2>. QED  BY <1>1, <2>2, ThreadPoolAssumption, FS_CardinalityType
<1>3. (CHOOSE s \in Slots \ Cleaned : TRUE) \in Slots \ Cleaned
  BY <1>2
<1>4. ASSUME NEW w \in Slots \ Cleaned
      PROVE  Cardinality(Cleaned \cup {w}) <= MaxCount
  <2>1. Cardinality(Cleaned \cup {w}) = Cardinality(Cleaned) + 1
    BY <1>1, FS_AddElement
  <2>. QED  BY <1>1, <2>1, FS_CardinalityType, ThreadPoolAssumption
<1>. QED  BY <1>3, <1>4

------------------------------------------------------------------------------
(* The inductive invariant holds initially and is preserved.               *)

LEMMA InitIInv == Init => IInv
<1>. SUFFICES ASSUME Init PROVE IInv
  OBVIOUS
<1>1. TypeOK
  <2>1. queue \in Seq(Jobs)
    BY DEF Init
  <2>2. waitStart \in BOOLEAN
    BY ThreadPoolAssumption DEF Init
  <2>. QED  BY <2>1, <2>2 DEF Init, TypeOK, JobState, WorkerState, Labels
<1>2. CtxBound
  BY FS_EmptySet, ThreadPoolAssumption DEF Init, CtxBound
<1>. QED
  BY <1>1, <1>2 DEF Init, IInv, AliveInCtx, Alive, PushingNew, CurRunning,
                    CurUnique, QueueQueued, QueueDistinct

(* The parts of the invariant about threads and jobs, without the bound.  *)
Rest == AliveInCtx /\ PushingNew /\ CurRunning /\ CurUnique /\ QueueQueued /\ QueueDistinct

(* A step that keeps the contexts keeps their bound.                      *)
LEMMA CtxKept ==
    ASSUME CtxBound, ctx' = ctx
    PROVE  CtxBound'
  BY DEF CtxBound

(* A step that sets the contexts to the cleaned set keeps their bound.    *)
LEMMA CtxCleaned ==
    ASSUME TypeOK, CtxBound, ctx' = Cleaned
    PROVE  CtxBound'
  BY CleanedBound DEF CtxBound

(* notify_one and notify_all only move waiters to the re-test of their    *)
(* predicate: no thread starts or stops running a job, none is created or *)
(* ends.                                                                   *)
LEMMA NotifyKeeps ==
    ASSUME TypeOK, NotifyOne \/ NotifyAll
    PROVE  /\ pc' \in [Slots -> Labels]
           /\ \A v \in Slots : /\ pc'[v] = "run" <=> pc[v] = "run"
                               /\ Alive(v)' <=> Alive(v)
  BY DEF NotifyOne, NotifyAll, Waiters, Woken, TypeOK, Labels, Alive

(* The step after a worker's wait returned: it exits, or pops the front    *)
(* job, which no other worker holds and which the rest of the queue does   *)
(* not hold again.                                                         *)
LEMMA ProceedKeeps ==
    ASSUME NEW w \in Slots, TypeOK, Rest, pc[w] \in {"check", "waiting"},
           Proceed(w),
           UNCHANGED <<termination, waitStart, lock, ctx, kind, clientpc, pjob>>
    PROVE  TypeOK' /\ Rest'
<1>0. cur[w] = None /\ Alive(w) /\ w \in ctx
  BY DEF Rest, CurRunning, AliveInCtx, Alive
<1>1. CASE termination \/ queue = <<>>
  <2>0. /\ wstate' = [wstate EXCEPT ![w] = "Busy"]
        /\ pc' = [pc EXCEPT ![w] = "exit"]
        /\ UNCHANGED <<queue, jstate, cur>>
    BY <1>1 DEF Proceed
  <2>1. TypeOK'
    BY <2>0 DEF TypeOK, WorkerState, Labels
  <2>2. Rest'
    BY <1>0, <2>0 DEF TypeOK, Rest, AliveInCtx, Alive, PushingNew, CurRunning,
       CurUnique, QueueQueued, QueueDistinct
  <2>. QED  BY <2>1, <2>2
<1>2. CASE ~(termination \/ queue = <<>>)
  <2>. DEFINE h == Head(queue)
  <2>0. /\ wstate' = [wstate EXCEPT ![w] = "Busy"]
        /\ cur' = [cur EXCEPT ![w] = h]
        /\ jstate' = [jstate EXCEPT ![h] = "running"]
        /\ pc' = [pc EXCEPT ![w] = "run"]
        /\ queue' = Tail(queue)
        /\ queue # <<>>
    BY <1>2 DEF Proceed, Pop
  <2>1. Len(queue) >= 1 /\ h = queue[1] /\ h \in Jobs /\ jstate[h] = "queued"
    BY <2>0 DEF TypeOK, Rest, QueueQueued
  <2>2. \A v \in Slots : cur[v] # h
    BY <1>0, <2>1, ThreadPoolAssumption DEF Rest, CurRunning
  <2>3. \A i \in 1 .. Len(queue) - 1 : queue'[i] = queue[i + 1] /\ queue[i + 1] # h
    BY <2>0, <2>1 DEF TypeOK, Rest, QueueDistinct
  <2>4. queue' \in Seq(Jobs) /\ Len(queue') = Len(queue) - 1
    BY <2>0 DEF TypeOK
  <2>5. TypeOK'
    BY <2>0, <2>1, <2>4 DEF TypeOK, WorkerState, Labels, JobState
  <2>6. AliveInCtx'
    BY <1>0, <2>0 DEF TypeOK, Rest, AliveInCtx, Alive
  <2>7. PushingNew'
    BY <2>0, <2>1 DEF TypeOK, Rest, PushingNew
  <2>8. CurRunning' /\ CurUnique'
    BY <1>0, <2>0, <2>1, <2>2 DEF TypeOK, Rest, CurRunning, CurUnique
  <2>9. QueueQueued' /\ QueueDistinct'
    BY <2>0, <2>1, <2>3, <2>4 DEF TypeOK, Rest, QueueQueued, QueueDistinct
  <2>. QED  BY <2>5, <2>6, <2>7, <2>8, <2>9 DEF Rest
<1>. QED  BY <1>1, <1>2

(* Every step of the client and of the workers preserves the invariant.  *)
LEMMA NextIInv == IInv /\ [Next]_vars => IInv'
<1>. SUFFICES ASSUME IInv, [Next]_vars PROVE IInv'
  OBVIOUS
<1>0. TypeOK /\ CtxBound /\ Rest
  BY DEF IInv, Rest
<1>1. ASSUME NEW j \in Jobs, Push(j) PROVE IInv'
  <2>1. CASE ~Executable
    <3>0. /\ jstate' = [jstate EXCEPT ![j] = "rejected"]
          /\ UNCHANGED <<queue, termination, waitStart, lock, ctx, kind, wstate, pc, cur,
                         clientpc, pjob>>
          /\ jstate[j] = "new" /\ clientpc = "idle"
      BY <1>1, <2>1 DEF Push, clientVars
    <3>1. TypeOK'
      BY <1>0, <3>0 DEF TypeOK, JobState
    <3>2. AliveInCtx' /\ CurUnique' /\ QueueDistinct'
      BY <1>0, <3>0 DEF Rest, AliveInCtx, Alive, CurUnique, QueueDistinct
    <3>3. PushingNew'
      BY <1>0, <3>0 DEF Rest, PushingNew
    <3>4. CurRunning'
      BY <1>0, <3>0 DEF Rest, CurRunning, TypeOK
    <3>5. QueueQueued'
      BY <1>0, <3>0 DEF Rest, QueueQueued, TypeOK
    <3>. QED  BY <1>0, <3>0, <3>1, <3>2, <3>3, <3>4, <3>5, CtxKept DEF IInv
  <2>2. CASE Executable /\ ShouldSpawn(Cleaned)
    <3>. DEFINE w0 == CHOOSE s \in Slots \ Cleaned : TRUE
    <3>a. w0 \in Slots /\ w0 \notin Cleaned /\ Cardinality(Cleaned \cup {w0}) <= MaxCount
      BY <1>0, <2>2, SpawnRoom
    <3>b. /\ ctx' = Cleaned \cup {w0}
          /\ kind' = [kind EXCEPT ![w0] = IF Fixed \/ Cardinality(Cleaned) >= CoreCount
                                            THEN "seasonal" ELSE "core"]
          /\ wstate' = [wstate EXCEPT ![w0] = "Delay"]
          /\ pc' = [pc EXCEPT ![w0] = "start"]
          /\ clientpc' = "pushing" /\ pjob' = j
          /\ UNCHANGED <<queue, jstate, termination, waitStart, lock, cur>>
          /\ jstate[j] = "new" /\ clientpc = "idle"
      BY <1>1, <2>2 DEF Push, Spawn
    <3>c. ~Alive(w0) /\ cur[w0] = None
      BY <1>0, <3>a DEF Rest, AliveInCtx, Alive, CurRunning, Cleaned, TypeOK
    <3>d. CtxBound'
      BY <3>a, <3>b DEF CtxBound
    <3>e. TypeOK'
      BY <1>0, <3>a, <3>b DEF TypeOK, Labels, WorkerState, Cleaned
    <3>f. AliveInCtx'
      BY <1>0, <3>a, <3>b DEF Rest, AliveInCtx, Alive, Cleaned, TypeOK
    <3>g. PushingNew' /\ CurUnique' /\ QueueQueued' /\ QueueDistinct'
      BY <1>0, <3>b DEF Rest, PushingNew, CurUnique, QueueQueued, QueueDistinct
    <3>h. CurRunning'
      BY <1>0, <3>a, <3>b, <3>c DEF Rest, CurRunning, TypeOK
    <3>. QED  BY <3>d, <3>e, <3>f, <3>g, <3>h DEF IInv, Rest
  <2>3. CASE Executable /\ ~ShouldSpawn(Cleaned)
    <3>b. /\ ctx' = Cleaned /\ clientpc' = "pushing" /\ pjob' = j
          /\ UNCHANGED <<queue, jstate, termination, waitStart, lock, kind, wstate, pc, cur>>
          /\ jstate[j] = "new" /\ clientpc = "idle"
      BY <1>1, <2>3 DEF Push
    <3>d. CtxBound'
      BY <1>0, <3>b, CtxCleaned
    <3>e. TypeOK'
      BY <1>0, <3>b DEF TypeOK, Cleaned
    <3>f. AliveInCtx'
      BY <1>0, <3>b DEF Rest, AliveInCtx, Alive, Cleaned
    <3>g. PushingNew' /\ CurRunning' /\ CurUnique' /\ QueueQueued' /\ QueueDistinct'
      BY <1>0, <3>b DEF Rest, PushingNew, CurRunning, CurUnique, QueueQueued, QueueDistinct
    <3>. QED  BY <3>d, <3>e, <3>f, <3>g DEF IInv, Rest
  <2>. QED  BY <2>1, <2>2, <2>3
<1>2. CASE Enqueue
  <2>0. /\ clientpc = "pushing"
        /\ queue' = Append(queue, pjob)
        /\ jstate' = [jstate EXCEPT ![pjob] = "queued"]
        /\ NotifyOne
        /\ clientpc' = "idle" /\ pjob' = None
        /\ UNCHANGED <<termination, waitStart, lock, ctx, kind, wstate, cur>>
    BY <1>2 DEF Enqueue
  <2>1. pjob \in Jobs /\ jstate[pjob] = "new"
    BY <1>0, <2>0 DEF Rest, PushingNew
  <2>2. /\ pc' \in [Slots -> Labels]
        /\ \A v \in Slots : /\ pc'[v] = "run" <=> pc[v] = "run"
                            /\ Alive(v)' <=> Alive(v)
    BY <1>0, <2>0, NotifyKeeps
  <2>3. \A i \in 1 .. Len(queue) : queue[i] # pjob
    BY <1>0, <2>1 DEF Rest, QueueQueued, TypeOK
  <2>4. TypeOK'
    BY <1>0, <2>0, <2>1, <2>2 DEF TypeOK, JobState
  <2>5. AliveInCtx' /\ PushingNew' /\ CurUnique'
    BY <1>0, <2>0, <2>2 DEF Rest, AliveInCtx, PushingNew, CurUnique
  <2>6. CurRunning'
    BY <1>0, <2>0, <2>1, <2>2 DEF Rest, CurRunning, TypeOK
  <2>7. /\ Len(queue') = Len(queue) + 1
        /\ \A i \in 1 .. Len(queue) : queue'[i] = queue[i]
        /\ queue'[Len(queue) + 1] = pjob
    BY <1>0, <2>0, <2>1 DEF TypeOK
  <2>8. QueueQueued'
    BY <1>0, <2>0, <2>1, <2>3, <2>7 DEF Rest, QueueQueued, TypeOK
  <2>9. QueueDistinct'
    BY <1>0, <2>3, <2>7 DEF Rest, QueueDistinct, TypeOK
  <2>. QED  BY <1>0, <2>0, <2>4, <2>5, <2>6, <2>8, <2>9, CtxKept DEF IInv, Rest
<1>3. CASE Start
  <2>0. /\ clientpc = "idle" /\ NotifyAll
        /\ waitStart' = FALSE /\ termination' = FALSE
        /\ UNCHANGED <<queue, jstate, lock, ctx, kind, wstate, cur, clientpc, pjob>>
    BY <1>3 DEF Start, clientVars
  <2>1. /\ pc' \in [Slots -> Labels]
        /\ \A v \in Slots : /\ pc'[v] = "run" <=> pc[v] = "run"
                            /\ Alive(v)' <=> Alive(v)
    BY <1>0, <2>0, NotifyKeeps
  <2>2. TypeOK'
    BY <1>0, <2>0, <2>1 DEF TypeOK
  <2>3. AliveInCtx' /\ CurRunning'
    BY <1>0, <2>0, <2>1 DEF Rest, AliveInCtx, CurRunning
  <2>4. PushingNew' /\ CurUnique' /\ QueueQueued' /\ QueueDistinct'
    BY <1>0, <2>0 DEF Rest, PushingNew, CurUnique, QueueQueued, QueueDistinct
  <2>. QED  BY <1>0, <2>0, <2>2, <2>3, <2>4, CtxKept DEF IInv, Rest
<1>4. CASE WaitBegin
  <2>0. /\ clientpc = "idle" /\ clientpc' = "waiting" /\ ctx' = Cleaned
        /\ UNCHANGED <<queue, jstate, termination, waitStart, lock, kind, wstate, pc,
                       cur, pjob>>
    BY <1>4 DEF WaitBegin, workerVars
  <2>1. TypeOK' /\ Rest'
    BY <1>0, <2>0 DEF TypeOK, Rest, AliveInCtx, Alive, Cleaned, PushingNew,
       CurRunning, CurUnique, QueueQueued, QueueDistinct
  <2>. QED  BY <1>0, <2>0, <2>1, CtxCleaned DEF IInv, Rest
<1>5. ASSUME NEW b \in BOOLEAN, Terminate(b) PROVE IInv'
  <2>0. /\ clientpc = "idle" /\ termination' = TRUE /\ NotifyAll
        /\ \/ clientpc' = "waiting" /\ ctx' = Cleaned
           \/ UNCHANGED <<clientpc, ctx>>
        /\ UNCHANGED <<queue, jstate, waitStart, lock, kind, wstate, cur, pjob>>
    BY <1>5 DEF Terminate
  <2>1. /\ pc' \in [Slots -> Labels]
        /\ \A v \in Slots : /\ pc'[v] = "run" <=> pc[v] = "run"
                            /\ Alive(v)' <=> Alive(v)
    BY <1>0, <2>0, NotifyKeeps
  <2>2. CtxBound'
    BY <1>0, <2>0, CtxKept, CtxCleaned
  <2>3. TypeOK'
    BY <1>0, <2>0, <2>1 DEF TypeOK, Cleaned
  <2>4. AliveInCtx' /\ CurRunning'
    BY <1>0, <2>0, <2>1 DEF Rest, AliveInCtx, Cleaned, CurRunning
  <2>5. PushingNew' /\ CurUnique' /\ QueueQueued' /\ QueueDistinct'
    BY <1>0, <2>0 DEF Rest, PushingNew, CurUnique, QueueQueued, QueueDistinct
  <2>. QED  BY <2>2, <2>3, <2>4, <2>5 DEF IInv, Rest
<1>6. CASE WaitEnd
  <2>0. /\ clientpc = "waiting" /\ \A w \in ctx : pc[w] = "gone"
        /\ termination' = FALSE /\ waitStart' = TRUE /\ ctx' = {}
        /\ clientpc' = "idle"
        /\ UNCHANGED <<queue, jstate, lock, kind, wstate, pc, cur, pjob>>
    BY <1>6 DEF WaitEnd, Reset, workerVars
  <2>1. \A w \in Slots : ~Alive(w)
    BY <1>0, <2>0 DEF Rest, AliveInCtx, Alive
  <2>2. CtxBound'
    BY <2>0, FS_EmptySet, ThreadPoolAssumption DEF CtxBound
  <2>3. TypeOK'
    BY <1>0, <2>0 DEF TypeOK
  <2>4. AliveInCtx'
    BY <2>0, <2>1 DEF AliveInCtx, Alive
  <2>5. PushingNew' /\ CurRunning' /\ CurUnique' /\ QueueQueued' /\ QueueDistinct'
    BY <1>0, <2>0 DEF Rest, PushingNew, CurRunning, CurUnique, QueueQueued, QueueDistinct
  <2>. QED  BY <2>2, <2>3, <2>4, <2>5 DEF IInv, Rest
<1>7. CASE Clear
  <2>0. /\ clientpc = "idle" /\ queue' = <<>>
        /\ jstate' = [j \in Jobs |-> IF jstate[j] = "queued" THEN "cleared" ELSE jstate[j]]
        /\ UNCHANGED <<termination, waitStart, lock, ctx, kind, wstate, pc, cur,
                       clientpc, pjob>>
    BY <1>7 DEF Clear, workerVars, clientVars
  <2>1. TypeOK'
    BY <1>0, <2>0 DEF TypeOK, JobState
  <2>2. Rest'
    BY <1>0, <2>0 DEF Rest, TypeOK, AliveInCtx, Alive, PushingNew, CurRunning,
       CurUnique, QueueQueued, QueueDistinct
  <2>. QED  BY <1>0, <2>0, <2>1, <2>2, CtxKept DEF IInv, Rest
<1>8. ASSUME NEW w \in Slots, AwaitCheck(w) PROVE IInv'
  <2>0. /\ pc[w] = "start"
        /\ pc' \in {[pc EXCEPT ![w] = "startblock"], [pc EXCEPT ![w] = "ready"]}
        /\ lock' \in {w, lock}
        /\ UNCHANGED <<queue, jstate, termination, waitStart, ctx, kind, wstate, cur,
                       clientpc, pjob>>
    BY <1>8 DEF AwaitCheck, clientVars
  <2>1. TypeOK' /\ Rest'
    BY <1>0, <2>0 DEF TypeOK, Labels, Rest, AliveInCtx, Alive, PushingNew,
       CurRunning, CurUnique, QueueQueued, QueueDistinct
  <2>. QED  BY <1>0, <2>0, <2>1, CtxKept DEF IInv, Rest
<1>9. ASSUME NEW w \in Slots, StartBlock(w) \/ Block(w) PROVE IInv'
  <2>0. /\ pc[w] \in {"startblock", "block"}
        /\ pc' \in {[pc EXCEPT ![w] = "startwait"], [pc EXCEPT ![w] = "waiting"]}
        /\ lock' = None
        /\ UNCHANGED <<queue, jstate, termination, waitStart, ctx, kind, wstate, cur,
                       clientpc, pjob>>
    BY <1>9 DEF StartBlock, Block, clientVars
  <2>1. TypeOK' /\ Rest'
    BY <1>0, <2>0 DEF TypeOK, Labels, Rest, AliveInCtx, Alive, PushingNew,
       CurRunning, CurUnique, QueueQueued, QueueDistinct
  <2>. QED  BY <1>0, <2>0, <2>1, CtxKept DEF IInv, Rest
<1>10. ASSUME NEW w \in Slots, Ready(w) PROVE IInv'
  <2>0. /\ pc[w] = "ready"
        /\ wstate' = [wstate EXCEPT ![w] = "Ready"] /\ pc' = [pc EXCEPT ![w] = "check"]
        /\ UNCHANGED <<queue, jstate, termination, waitStart, lock, ctx, kind, cur,
                       clientpc, pjob>>
    BY <1>10 DEF Ready, poolVars, clientVars
  <2>1. TypeOK' /\ Rest'
    BY <1>0, <2>0 DEF TypeOK, Labels, WorkerState, Rest, AliveInCtx, Alive, PushingNew,
       CurRunning, CurUnique, QueueQueued, QueueDistinct
  <2>. QED  BY <1>0, <2>0, <2>1, CtxKept DEF IInv, Rest
<1>11. ASSUME NEW w \in Slots, Check(w) PROVE IInv'
  <2>1. CASE termination \/ queue # <<>>
    <3>0. pc[w] = "check" /\ Proceed(w)
          /\ UNCHANGED <<termination, waitStart, lock, ctx, kind, clientpc, pjob>>
      BY <1>11, <2>1 DEF Check, clientVars
    <3>1. TypeOK' /\ Rest'
      BY <1>0, <3>0, ProceedKeeps
    <3>. QED  BY <1>0, <3>0, <3>1, CtxKept DEF IInv, Rest
  <2>2. CASE ~(termination \/ queue # <<>>)
    <3>0. /\ pc[w] = "check" /\ lock' = w /\ pc' = [pc EXCEPT ![w] = "block"]
          /\ UNCHANGED <<queue, jstate, termination, waitStart, ctx, kind, wstate, cur,
                         clientpc, pjob>>
      BY <1>11, <2>2 DEF Check, clientVars
    <3>1. TypeOK' /\ Rest'
      BY <1>0, <3>0 DEF TypeOK, Labels, Rest, AliveInCtx, Alive, PushingNew,
         CurRunning, CurUnique, QueueQueued, QueueDistinct
    <3>. QED  BY <1>0, <3>0, <3>1, CtxKept DEF IInv, Rest
  <2>. QED  BY <2>1, <2>2
<1>12. ASSUME NEW w \in Slots, Expire(w) PROVE IInv'
  <2>0. pc[w] = "waiting" /\ Proceed(w)
        /\ UNCHANGED <<termination, waitStart, lock, ctx, kind, clientpc, pjob>>
    BY <1>12 DEF Expire, clientVars
  <2>1. TypeOK' /\ Rest'
    BY <1>0, <2>0, ProceedKeeps
  <2>. QED  BY <1>0, <2>0, <2>1, CtxKept DEF IInv, Rest
<1>13. ASSUME NEW w \in Slots, Run(w) PROVE IInv'
  <2>. DEFINE job == cur[w]
  <2>0. /\ pc[w] = "run"
        /\ \/ jstate' = [jstate EXCEPT ![job] = "done"] /\ pc' = [pc EXCEPT ![w] = "ready"]
           \/ jstate' = [jstate EXCEPT ![job] = "failed"] /\ pc' = [pc EXCEPT ![w] = "gone"]
        /\ cur' = [cur EXCEPT ![w] = None]
        /\ UNCHANGED <<queue, termination, waitStart, lock, ctx, kind, wstate, clientpc, pjob>>
    BY <1>13 DEF Run, clientVars
  <2>1. job \in Jobs /\ jstate[job] = "running" /\ w \in ctx
    BY <1>0, <2>0 DEF TypeOK, Rest, CurRunning, AliveInCtx, Alive
  <2>2. \A v \in Slots \ {w} : cur[v] # job
    BY <1>0, <2>1, ThreadPoolAssumption DEF Rest, CurUnique
  <2>3. TypeOK'
    BY <1>0, <2>0, <2>1 DEF TypeOK, Labels, JobState
  <2>4. AliveInCtx' /\ CurUnique'
    BY <1>0, <2>0, <2>1 DEF TypeOK, Rest, AliveInCtx, Alive, CurUnique
  <2>5. PushingNew' /\ QueueQueued' /\ QueueDistinct'
    BY <1>0, <2>0, <2>1 DEF TypeOK, Rest, PushingNew, QueueQueued, QueueDistinct
  <2>6. CurRunning'
    BY <1>0, <2>0, <2>1, <2>2, ThreadPoolAssumption DEF TypeOK, Rest, CurRunning
  <2>. QED  BY <1>0, <2>0, <2>3, <2>4, <2>5, <2>6, CtxKept DEF IInv, Rest
<1>14. ASSUME NEW w \in Slots, Exit(w) PROVE IInv'
  <2>0. /\ pc[w] = "exit"
        /\ wstate' = [wstate EXCEPT ![w] = "Completed"] /\ pc' = [pc EXCEPT ![w] = "gone"]
        /\ UNCHANGED <<queue, jstate, termination, waitStart, lock, ctx, kind, cur,
                       clientpc, pjob>>
    BY <1>14 DEF Exit, poolVars, clientVars
  <2>1. TypeOK' /\ Rest'
    BY <1>0, <2>0 DEF TypeOK, Labels, WorkerState, Rest, AliveInCtx, Alive, PushingNew,
       CurRunning, CurUnique, QueueQueued, QueueDistinct
  <2>. QED  BY <1>0, <2>0, <2>1, CtxKept DEF IInv, Rest
<1>15. CASE UNCHANGED vars
  BY <1>15 DEF vars, poolVars, workerVars, clientVars, IInv, TypeOK, AliveInCtx, Alive,
     CtxBound, PushingNew, CurRunning, CurUnique, QueueQueued, QueueDistinct
<1>. QED
  BY <1>1, <1>2, <1>3, <1>4, <1>5, <1>6, <1>7, <1>8, <1>9, <1>10, <1>11, <1>12,
     <1>13, <1>14, <1>15 DEF Next, ClientStep, WorkerStep

------------------------------------------------------------------------------
(* The invariants of the runs.                                             *)

(* Every variable of the pool keeps its type in every reachable state.    *)
THEOREM TypeCorrect == Spec => []TypeOK
<1>1. IInv => TypeOK
  BY DEF IInv
<1>. QED  BY <1>1, InitIInv, NextIInv, PTL DEF Spec

(* push never lets more worker threads live than _max_thread_count, for    *)
(* every core and max count, every number of slots and jobs: the live      *)
(* threads are among the contexts, which the spawn test of push bounds.    *)
THEOREM ThreadsBounded == Spec => []ThreadsWithinMax
<1>1. IInv => ThreadsWithinMax
  <2>. SUFFICES ASSUME IInv PROVE ThreadsWithinMax
    OBVIOUS
  <2>1. {w \in Slots : Alive(w)} \subseteq ctx /\ IsFiniteSet(ctx)
    BY ThreadPoolAssumption, FS_Subset DEF IInv, AliveInCtx, TypeOK
  <2>2. Cardinality({w \in Slots : Alive(w)}) <= Cardinality(ctx)
    BY <2>1, FS_Subset
  <2>. QED  BY <2>1, <2>2, FS_CardinalityType, FS_Subset, ThreadPoolAssumption
            DEF IInv, CtxBound, ThreadsWithinMax
<1>. QED  BY <1>1, InitIInv, NextIInv, PTL DEF Spec

------------------------------------------------------------------------------
(* Refinement of PoolContract.                                             *)

CS == ContractStatus

(* The mapped status is a function on the jobs, before and after a step.  *)
LEMMA CSFunction ==
    CS = [k \in Jobs |-> CS[k]] /\ CS' = [k \in Jobs |-> CS'[k]]
  BY DEF CS, ContractStatus

(* A step that keeps the queue, the job states and frontElm is a stutter   *)
(* of the contract.                                                        *)
LEMMA StutterRefines ==
    ASSUME UNCHANGED <<queue, jstate, cur>>
    PROVE  [Contract!Next]_<<queue, ContractStatus>>
  BY DEF ContractStatus

(* A worker's step after its wait: the exit is a stutter, the pop of the   *)
(* front job is the contract's Take.                                       *)
LEMMA ProceedRefines ==
    ASSUME NEW w \in Slots, TypeOK, Rest, pc[w] \in {"check", "waiting"},
           Proceed(w)
    PROVE  [Contract!Next]_<<queue, ContractStatus>>
<1>0. cur[w] = None
  BY DEF Rest, CurRunning
<1>1. CASE termination \/ queue = <<>>
  BY <1>1, StutterRefines DEF Proceed
<1>2. CASE ~(termination \/ queue = <<>>)
  <2>. DEFINE h == Head(queue)
  <2>0. /\ cur' = [cur EXCEPT ![w] = h]
        /\ jstate' = [jstate EXCEPT ![h] = "running"]
        /\ queue' = Tail(queue) /\ queue # <<>>
    BY <1>2 DEF Proceed, Pop
  <2>1. h \in Jobs
    BY <2>0 DEF TypeOK
  <2>2. \A k \in Jobs \ {h} : CS'[k] = CS[k]
    BY <1>0, <2>0, <2>1, ThreadPoolAssumption DEF CS, ContractStatus, TypeOK
  <2>3. CS'[h] = "running"
    BY <2>0, <2>1 DEF CS, ContractStatus, TypeOK
  <2>4. CS' = [CS EXCEPT ![h] = "running"]
    BY <2>1, <2>2, <2>3, CSFunction
  <2>. QED  BY <2>0, <2>4 DEF Contract!Next, Contract!Take, CS
<1>. QED  BY <1>1, <1>2

(* Each step of the pool is a step of the contract or a stutter.           *)
LEMMA NextRefines ==
    ASSUME IInv, [Next]_vars
    PROVE  [Contract!Next]_<<queue, ContractStatus>>
<1>0. TypeOK /\ Rest
  BY DEF IInv, Rest
<1>1. ASSUME NEW j \in Jobs, Push(j) PROVE [Contract!Next]_<<queue, ContractStatus>>
  <2>1. CASE ~Executable
    <3>0. /\ jstate' = [jstate EXCEPT ![j] = "rejected"] /\ jstate[j] = "new"
          /\ UNCHANGED <<queue, cur>>
      BY <1>1, <2>1 DEF Push
    <3>1. \A v \in Slots : cur[v] # j
      BY <1>0, <3>0, ThreadPoolAssumption DEF Rest, CurRunning, TypeOK
    <3>2. CS[j] = "new" /\ CS'[j] = "rejected"
      BY <1>0, <3>0, <3>1 DEF CS, ContractStatus, TypeOK
    <3>3. \A k \in Jobs \ {j} : CS'[k] = CS[k]
      BY <3>0 DEF CS, ContractStatus
    <3>4. CS' = [CS EXCEPT ![j] = "rejected"]
      BY <3>2, <3>3, CSFunction
    <3>. QED  BY <3>0, <3>2, <3>4 DEF Contract!Next, Contract!Refuse, CS
  <2>2. CASE Executable
    BY <1>1, <2>2, StutterRefines DEF Push
  <2>. QED  BY <2>1, <2>2
<1>2. CASE Enqueue
  <2>0. /\ clientpc = "pushing"
        /\ queue' = Append(queue, pjob)
        /\ jstate' = [jstate EXCEPT ![pjob] = "queued"]
        /\ UNCHANGED cur
    BY <1>2 DEF Enqueue
  <2>1. pjob \in Jobs /\ jstate[pjob] = "new"
    BY <1>0, <2>0 DEF Rest, PushingNew
  <2>2. \A v \in Slots : cur[v] # pjob
    BY <1>0, <2>1, ThreadPoolAssumption DEF Rest, CurRunning, TypeOK
  <2>3. CS[pjob] = "new" /\ CS'[pjob] = "queued"
    BY <1>0, <2>0, <2>1, <2>2 DEF CS, ContractStatus, TypeOK
  <2>4. \A k \in Jobs \ {pjob} : CS'[k] = CS[k]
    BY <2>0 DEF CS, ContractStatus
  <2>5. CS' = [CS EXCEPT ![pjob] = "queued"]
    BY <2>1, <2>3, <2>4, CSFunction
  <2>. QED  BY <2>0, <2>1, <2>3, <2>5 DEF Contract!Next, Contract!Submit, CS
<1>3. CASE Start \/ WaitBegin \/ WaitEnd \/ \E b \in BOOLEAN : Terminate(b)
  BY <1>3, StutterRefines DEF Start, WaitBegin, WaitEnd, Terminate, workerVars
<1>4. CASE Clear
  <2>0. /\ queue' = <<>>
        /\ jstate' = [j \in Jobs |-> IF jstate[j] = "queued" THEN "cleared" ELSE jstate[j]]
        /\ UNCHANGED cur
    BY <1>4 DEF Clear, workerVars
  <2>1. CS' = [k \in Jobs |-> IF CS[k] = "queued" THEN "cleared" ELSE CS[k]]
    BY <2>0 DEF CS, ContractStatus
  <2>. QED  BY <2>0, <2>1 DEF Contract!Next, Contract!Discard, CS
<1>5. ASSUME NEW w \in Slots,
             AwaitCheck(w) \/ StartBlock(w) \/ Ready(w) \/ Block(w) \/ Exit(w)
      PROVE  [Contract!Next]_<<queue, ContractStatus>>
  BY <1>5, StutterRefines DEF AwaitCheck, StartBlock, Ready, Block, Exit, poolVars
<1>6. ASSUME NEW w \in Slots, Check(w) PROVE [Contract!Next]_<<queue, ContractStatus>>
  <2>1. CASE termination \/ queue # <<>>
    BY <1>0, <1>6, <2>1, ProceedRefines DEF Check
  <2>2. CASE ~(termination \/ queue # <<>>)
    BY <1>6, <2>2, StutterRefines DEF Check
  <2>. QED  BY <2>1, <2>2
<1>7. ASSUME NEW w \in Slots, Expire(w) PROVE [Contract!Next]_<<queue, ContractStatus>>
  BY <1>0, <1>7, ProceedRefines DEF Expire
<1>8. ASSUME NEW w \in Slots, Run(w) PROVE [Contract!Next]_<<queue, ContractStatus>>
  <2>. DEFINE job == cur[w]
  <2>0. /\ pc[w] = "run"
        /\ jstate' \in {[jstate EXCEPT ![job] = "done"], [jstate EXCEPT ![job] = "failed"]}
        /\ cur' = [cur EXCEPT ![w] = None]
        /\ UNCHANGED queue
    BY <1>8 DEF Run
  <2>1. job \in Jobs /\ jstate[job] = "running"
    BY <1>0, <2>0 DEF TypeOK, Rest, CurRunning
  <2>2. \A v \in Slots \ {w} : cur[v] # job
    BY <1>0, <2>1, ThreadPoolAssumption DEF Rest, CurUnique
  <2>3. CS[job] = "running" /\ CS'[job] = "ended"
    BY <1>0, <2>0, <2>1, <2>2, ThreadPoolAssumption DEF CS, ContractStatus, TypeOK
  <2>4. \A k \in Jobs \ {job} : CS'[k] = CS[k]
    BY <1>0, <2>0, <2>1, ThreadPoolAssumption DEF CS, ContractStatus, TypeOK
  <2>5. CS' = [CS EXCEPT ![job] = "ended"]
    BY <2>1, <2>3, <2>4, CSFunction
  <2>. QED  BY <2>0, <2>1, <2>3, <2>5 DEF Contract!Next, Contract!End, CS
<1>9. CASE UNCHANGED vars
  BY <1>9, StutterRefines DEF vars, poolVars, workerVars
<1>. QED
  BY <1>1, <1>2, <1>3, <1>4, <1>5, <1>6, <1>7, <1>8, <1>9 DEF Next, ClientStep, WorkerStep

(* The pool implements its contract (ThreadPool!ContractSpec, checked by   *)
(* the run threadpool): push appends to the FIFO queue or refuses, a       *)
(* worker takes the front job, a job that was taken ends once, and clear   *)
(* discards exactly the queued jobs, for every number of jobs and slots.   *)
THEOREM Refinement == Spec => ContractSpec
<1>1. Init => Contract!Init
  <2>. SUFFICES ASSUME Init PROVE Contract!Init
    OBVIOUS
  <2>1. \A j \in Jobs : CS[j] = "new"
    BY ThreadPoolAssumption DEF Init, CS, ContractStatus
  <2>2. CS = [j \in Jobs |-> "new"]
    BY <2>1, CSFunction
  <2>. QED  BY <2>2 DEF Init, Contract!Init, CS
<1>2. IInv /\ [Next]_vars => [Contract!Next]_<<queue, ContractStatus>>
  BY NextRefines
<1>. QED  BY <1>1, <1>2, InitIInv, NextIInv, PTL DEF Spec, ContractSpec, Contract!Spec

==============================================================================
