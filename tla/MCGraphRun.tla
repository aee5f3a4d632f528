----------------------------- MODULE MCGraphRun -----------------------------
(* GraphRun on three nodes: every DAG the client can build on a prefix of  *)
(* the pool <<a, b, c>>, with the edge lists in one fixed order (the       *)
(* contract does not look at the order).                                   *)
EXTENDS GraphRun, Graphs

CONSTANTS a, b, c

MCNodes == {a, b, c}
MCPoolOrder == <<a, b, c>>

(* The graph whose pool is po and whose edge relation is E, each edge list *)
(* in the order of the pool.                                               *)
GraphOf(po, E) ==
    LET InOrder(S) == SelectSeq(po, LAMBDA x : x \in S)
    IN [pool  |-> po,
        preds |-> [n \in MCNodes |-> InOrder({m \in MCNodes : <<m, n>> \in E})],
        succs |-> [n \in MCNodes |-> InOrder({m \in MCNodes : <<n, m>> \in E})]]

DagsOn(S) == {E \in SUBSET (S \X S) : IsDag([node |-> S, edge |-> E])}

MCInitGraphs ==
    UNION {{GraphOf(SubSeq(MCPoolOrder, 1, k), E) :
               E \in DagsOn(ToSet(SubSeq(MCPoolOrder, 1, k)))} : k \in 0 .. 3}
==============================================================================
