-------------------------------- MODULE Edges --------------------------------
(***************************************************************************)
(* The graph data of ThreadGraph (threadgraph.h, node.h): the task pool,   *)
(* a sequence of INode pointers, and per node the _predecessors and        *)
(* _successors vectors.                                                    *)
(***************************************************************************)
EXTENDS Naturals, Sequences, FiniteSets, SequencesExt

CONSTANT Nodes    \* the INode objects the client may create

NoDup(s) == \A i, j \in 1 .. Len(s) : s[i] = s[j] => i = j

(* v.erase(std::remove(v.begin(), v.end(), e), v.end()): every element     *)
(* equal to e goes, the others keep their order.  The element at a kept    *)
(* index i moves to position KeptRank(s, e, i), the number of kept indices *)
(* up to i.                                                                *)
KeptIndices(s, e) == {i \in 1 .. Len(s) : s[i] # e}

KeptRank(s, e, i) == Cardinality({j \in KeptIndices(s, e) : j <= i})

EraseValue(s, e) ==
    [k \in 1 .. Cardinality(KeptIndices(s, e)) |->
        s[CHOOSE i \in KeptIndices(s, e) : KeptRank(s, e, i) = k]]

(* AppendNew(s, e): push_back unless std::find already sees e.             *)
AppendNew(s, e) == IF e \in ToSet(s) THEN s ELSE Append(s, e)

(* A graph as push and depend leave it: the pool holds each node once,     *)
(* edge lists hold no duplicates and no self edge, the two lists mirror    *)
(* each other, and every edge joins two pooled nodes.                      *)
WellFormedGraph(g) ==
    /\ g.pool \in Seq(Nodes) /\ NoDup(g.pool)
    /\ g.preds \in [Nodes -> Seq(Nodes)] /\ g.succs \in [Nodes -> Seq(Nodes)]
    /\ \A n \in Nodes : NoDup(g.preds[n]) /\ NoDup(g.succs[n])
    /\ \A n, m \in Nodes :
          /\ (m \in ToSet(g.preds[n])) = (n \in ToSet(g.succs[m]))
          /\ m \in ToSet(g.preds[n]) => m # n /\ {m, n} \subseteq ToSet(g.pool)

(* The precedence relation of the graph: <<m, n>> when m precedes n.       *)
EdgeSet(g) == {e \in Nodes \X Nodes : e[1] \in ToSet(g.preds[e[2]])}
==============================================================================
