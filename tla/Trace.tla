-------------------------------- MODULE Trace --------------------------------
(***************************************************************************)
(* ThreadGraph::trace_ready_depend and ThreadGraph::trace_ready_node       *)
(* (threadgraph.cpp 252-380): given the node states st, the predecessor    *)
(* and successor lists, the ready cache and the pool, and the worker's     *)
(* hint (the node of its previous verdict, or None), the verdict of one    *)
(* trace: <<"Ready", n>>, <<"Pending", n>>, <<"Pending", None>>,           *)
(* <<"Completed", n>> or <<"Completed", None>>.                            *)
(***************************************************************************)
EXTENDS Naturals, Sequences, FiniteSets

CONSTANT None

LOCAL Least(S) == CHOOSE i \in S : \A j \in S : i <= j
LOCAL Greatest(S) == CHOOSE i \in S : \A j \in S : j <= i

(* trace_ready_depend(e): an EXECUTING node is PENDING, a COMPLETED one    *)
(* COMPLETED.  For a READY node the predecessors are scanned in order: a   *)
(* READY one is traced recursively, and the first READY answer is         *)
(* returned; a PENDING answer, or an EXECUTING predecessor, is remembered, *)
(* the last one winning.  With nothing remembered, e itself is READY.      *)
(* The avoid set is always empty and the lists hold no null.              *)
RECURSIVE TraceReadyDepend(_, _, _)
TraceReadyDepend(st, preds, e) ==
    IF st[e] = "Executing" THEN <<"Pending", e>>
    ELSE IF st[e] = "Completed" THEN <<"Completed", e>>
    ELSE LET ps == preds[e]
             branch == [i \in 1 .. Len(ps) |->
                          IF st[ps[i]] = "Ready" THEN TraceReadyDepend(st, preds, ps[i])
                          ELSE IF st[ps[i]] = "Executing" THEN <<"Pending", ps[i]>>
                          ELSE <<"Completed", ps[i]>>]
             ready   == {i \in 1 .. Len(ps) : branch[i][1] = "Ready"}
             pending == {i \in 1 .. Len(ps) : branch[i][1] = "Pending"}
         IN IF ready # {} THEN branch[Least(ready)]
            ELSE IF pending # {} THEN branch[Greatest(pending)]
            ELSE <<"Ready", e>>

(* trace_ready_node(nullptr): the first cached node is traced; with an     *)
(* empty cache, the first EXECUTING node of the pool is PENDING; else the  *)
(* graph is COMPLETED.                                                     *)
(* Mutant: the first cached node is answered READY without tracing it.    *)
TraceEntryUntraced(st, preds, cache, pool) ==
    LET exe == {i \in 1 .. Len(pool) : st[pool[i]] = "Executing"}
    IN IF cache # <<>> THEN <<"Ready", cache[1]>>
       ELSE IF exe # {} THEN <<"Pending", pool[Least(exe)]>>
       ELSE <<"Completed", None>>

TraceEntry(st, preds, cache, pool) ==
    LET exe == {i \in 1 .. Len(pool) : st[pool[i]] = "Executing"}
    IN IF cache # <<>> THEN TraceReadyDepend(st, preds, cache[1])
       ELSE IF exe # {} THEN <<"Pending", pool[Least(exe)]>>
       ELSE <<"Completed", None>>

(* The verdicts of trace_ready_depend on the READY successors of e, in     *)
(* the order of e's successor list.                                        *)
SuccessorVerdicts(st, preds, succs, e) ==
    LET ss == SelectSeq(succs[e], LAMBDA s : st[s] = "Ready")
    IN [i \in 1 .. Len(ss) |-> TraceReadyDepend(st, preds, ss[i])]

(* trace_ready_node(e) for a hint e.  EXECUTING: the first READY verdict   *)
(* among its successors, else a READY entry verdict, else PENDING on e.    *)
(* READY: trace_ready_depend(e) when READY; when PENDING, a READY entry    *)
(* verdict is preferred.  COMPLETED: the first READY successor verdict,    *)
(* else a READY entry verdict, else the last PENDING successor verdict,    *)
(* else a PENDING entry verdict, else COMPLETED.                           *)
TraceReadyNode(st, preds, succs, cache, pool, e) ==
    IF e = None THEN TraceEntry(st, preds, cache, pool)
    ELSE
    LET sv      == SuccessorVerdicts(st, preds, succs, e)
        ready   == {i \in DOMAIN sv : sv[i][1] = "Ready"}
        pending == {i \in DOMAIN sv : sv[i][1] = "Pending"}
        entry   == TraceEntry(st, preds, cache, pool)
        own     == TraceReadyDepend(st, preds, e)
    IN CASE st[e] = "Executing" ->
              IF ready # {} THEN sv[Least(ready)]
              ELSE IF entry[1] = "Ready" THEN entry
              ELSE <<"Pending", e>>
         [] st[e] = "Ready" ->
              IF own[1] = "Ready" THEN own
              ELSE IF own[1] = "Pending"
                   THEN IF entry[1] = "Ready" THEN entry ELSE own
              ELSE <<"Completed", None>>
         [] st[e] = "Completed" ->
              IF ready # {} THEN sv[Least(ready)]
              ELSE IF entry[1] = "Ready" THEN entry
              ELSE IF pending # {} THEN sv[Greatest(pending)]
              ELSE IF entry[1] = "Pending" THEN entry
              ELSE <<"Completed", None>>
==============================================================================
