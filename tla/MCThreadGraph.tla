---------------------------- MODULE MCThreadGraph ----------------------------
(* ThreadGraph on three nodes: every DAG on the pool <<a, b, c>>, with     *)
(* every order of the edge lists, since the trace depends on them.  One    *)
(* pool order suffices: every DAG on the labelled nodes is enumerated, so  *)
(* another pool order is a renaming of one of these graphs.               *)
EXTENDS ThreadGraph, Graphs

CONSTANTS a, b, c

MCNodes == {a, b, c}

DagsOn(S) == {E \in SUBSET (S \X S) : IsDag([node |-> S, edge |-> E])}

(* Every function giving each node one ordering of the set L(n).           *)
Orderings(L(_)) ==
    LET choices == [n \in MCNodes |-> SetToSeqs(L(n))]
    IN {f \in [MCNodes -> UNION {choices[n] : n \in MCNodes}] :
            \A n \in MCNodes : f[n] \in choices[n]}

MCInitGraphs ==
    UNION {{[pool |-> po, preds |-> pr, succs |-> su] :
               po \in {<<a, b, c>>},
               pr \in Orderings(LAMBDA n : {m \in MCNodes : <<m, n>> \in E}),
               su \in Orderings(LAMBDA n : {m \in MCNodes : <<n, m>> \in E})} :
           E \in DagsOn(MCNodes)}
==============================================================================
