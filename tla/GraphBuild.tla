------------------------------ MODULE GraphBuild ------------------------------
(***************************************************************************)
(* The client building a graph before start(): ThreadGraph::push and       *)
(* erase (threadgraph.cpp) and the Task edge operations depend, precede,   *)
(* erase_depend and erase_precede (task.cpp).  A node is created READY,    *)
(* pushed once, and destroyed by erase; Task handles exist only for        *)
(* pushed nodes.  Calls that fail (null or duplicate node, self edge,      *)
(* direct back edge) throw before changing anything and are stutters.      *)
(***************************************************************************)
EXTENDS Edges, Graphs

VARIABLES
    pool,    \* _task_pool
    preds,   \* INode::_predecessors
    succs,   \* INode::_successors
    fresh    \* nodes created and not yet pushed

buildVars == <<pool, preds, succs, fresh>>

PoolSet == ToSet(pool)

TheGraph == [pool |-> pool, preds |-> preds, succs |-> succs]

Init ==
    /\ pool = <<>>
    /\ preds = [n \in Nodes |-> <<>>]
    /\ succs = [n \in Nodes |-> <<>>]
    /\ fresh = Nodes

(* push(node): a new READY node, not yet in the pool, is appended.         *)
Push(n) ==
    /\ n \in fresh
    /\ pool' = Append(pool, n)
    /\ fresh' = fresh \ {n}
    /\ UNCHANGED <<preds, succs>>

(* Mutant: erase unlinks the node from its predecessors only.              *)
EraseOneSided(n) ==
    /\ n \in PoolSet
    /\ succs' = [m \in Nodes |-> IF m \in ToSet(preds[n]) THEN EraseValue(succs[m], n)
                                ELSE IF m = n THEN <<>> ELSE succs[m]]
    /\ preds' = [preds EXCEPT ![n] = <<>>]
    /\ pool' = RemoveFirst(pool, n)
    /\ UNCHANGED fresh

(* erase(task): the node leaves its predecessors' successor lists and its  *)
(* successors' predecessor lists (std::remove + erase), leaves the pool    *)
(* and is deleted.                                                         *)
Erase(n) ==
    /\ n \in PoolSet
    /\ succs' = [m \in Nodes |-> IF m \in ToSet(preds[n]) THEN EraseValue(succs[m], n)
                                ELSE IF m = n THEN <<>> ELSE succs[m]]
    /\ preds' = [m \in Nodes |-> IF m \in ToSet(succs[n]) THEN EraseValue(preds[m], n)
                                ELSE IF m = n THEN <<>> ELSE preds[m]]
    /\ pool' = RemoveFirst(pool, n)
    /\ UNCHANGED fresh

(* t.depend(o): edge o -> t.  A self edge and a direct back edge (t among  *)
(* o's predecessors) are refused; the check goes no further.               *)
Depend(t, o) ==
    /\ {t, o} \subseteq PoolSet
    /\ o # t
    /\ t \notin ToSet(preds[o])
    /\ preds' = [preds EXCEPT ![t] = AppendNew(@, o)]
    /\ succs' = [succs EXCEPT ![o] = AppendNew(@, t)]
    /\ UNCHANGED <<pool, fresh>>

(* t.precede(o) is o.depend(t).                                            *)
Precede(t, o) == Depend(o, t)

(* t.erase_depend(o): the edge o -> t is removed if present.               *)
EraseDepend(t, o) ==
    /\ {t, o} \subseteq PoolSet
    /\ preds' = [preds EXCEPT ![t] = EraseValue(@, o)]
    /\ succs' = [succs EXCEPT ![o] = EraseValue(@, t)]
    /\ UNCHANGED <<pool, fresh>>

(* t.erase_precede(o): the edge t -> o is removed if present.              *)
ErasePrecede(t, o) ==
    /\ {t, o} \subseteq PoolSet
    /\ succs' = [succs EXCEPT ![t] = EraseValue(@, o)]
    /\ preds' = [preds EXCEPT ![o] = EraseValue(@, t)]
    /\ UNCHANGED <<pool, fresh>>

(* clear(): every pooled node is deleted and the pool emptied.            *)
Clear ==
    /\ pool' = <<>>
    /\ preds' = [m \in Nodes |-> IF m \in PoolSet THEN <<>> ELSE preds[m]]
    /\ succs' = [m \in Nodes |-> IF m \in PoolSet THEN <<>> ELSE succs[m]]
    /\ UNCHANGED fresh

Next ==
    \/ Clear
    \/ \E n \in Nodes : Push(n) \/ Erase(n)
    \/ \E t, o \in Nodes :
          Depend(t, o) \/ Precede(t, o) \/ EraseDepend(t, o) \/ ErasePrecede(t, o)

Spec == Init /\ [][Next]_buildVars

------------------------------------------------------------------------------
(* Every variable has its type.                                            *)
TypeOK ==
    /\ pool \in Seq(Nodes)
    /\ preds \in [Nodes -> Seq(Nodes)] /\ succs \in [Nodes -> Seq(Nodes)]
    /\ fresh \subseteq Nodes

(* Whatever sequence of push, erase, depend, precede, erase_depend and     *)
(* erase_precede the client makes, the two edge lists mirror each other,   *)
(* hold no duplicates, and join only pooled nodes: erase leaves no         *)
(* dangling pointer to the deleted node in a surviving list.               *)
BuildWellFormed == WellFormedGraph(TheGraph)

(* Spec section 3: the edge relation is acyclic, any insertion that would  *)
(* close a cycle is rejected.  depend looks only for the direct back edge. *)
Acyclic == IsDag([node |-> PoolSet, edge |-> EdgeSet(TheGraph)])
==============================================================================
