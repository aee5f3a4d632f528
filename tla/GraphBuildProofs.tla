--------------------------- MODULE GraphBuildProofs ---------------------------
(***************************************************************************)
(* Proofs about GraphBuild for every set of nodes: whatever the client     *)
(* calls, push, erase, clear and the Task edge operations leave a          *)
(* well-formed graph (BuildWellFormed).                                    *)
(***************************************************************************)
EXTENDS GraphBuild, EdgesProofs

------------------------------------------------------------------------------
(* The inductive invariant: BuildWellFormed split into its conjuncts, and  *)
(* the fact push relies on, that a node not yet pushed is not pooled (its  *)
(* node pointer is fresh, so the std::find in push never sees it).         *)

PoolNoDup == NoDup(pool)

ListsNoDup == \A n \in Nodes : NoDup(preds[n]) /\ NoDup(succs[n])

Mirrored == \A n, m \in Nodes : (m \in ToSet(preds[n])) = (n \in ToSet(succs[m]))

EdgesPooled ==
    \A n, m \in Nodes : m \in ToSet(preds[n]) => m # n /\ {m, n} \subseteq PoolSet

FreshUnpooled == fresh \cap PoolSet = {}

IInv == TypeOK /\ PoolNoDup /\ ListsNoDup /\ Mirrored /\ EdgesPooled /\ FreshUnpooled

LEMMA InitIInv == Init => IInv
<1>. SUFFICES ASSUME Init PROVE IInv
  OBVIOUS
<1>1. pool = <<>> /\ fresh = Nodes
      /\ \A n \in Nodes : preds[n] = <<>> /\ succs[n] = <<>>
  BY DEF Init
<1>2. TypeOK
  BY <1>1, EmptyProps DEF Init, TypeOK
<1>. QED  BY <1>1, <1>2, EmptyProps
          DEF IInv, PoolNoDup, ListsNoDup, Mirrored, EdgesPooled, FreshUnpooled, PoolSet

(* push appends a node not yet pushed: the pool stays duplicate-free.      *)
LEMMA PushKeeps ==
    ASSUME IInv, NEW n \in Nodes, Push(n)
    PROVE  IInv'
<1>1. /\ n \in fresh /\ pool' = Append(pool, n) /\ fresh' = fresh \ {n}
      /\ preds' = preds /\ succs' = succs
  BY DEF Push
<1>2. pool \in Seq(Nodes) /\ fresh \subseteq Nodes
  BY DEF IInv, TypeOK
<1>3. n \notin ToSet(pool)
  BY <1>1 DEF IInv, FreshUnpooled, PoolSet
<1>4. /\ pool' \in Seq(Nodes) /\ ToSet(pool') = ToSet(pool) \cup {n}
      /\ NoDup(pool')
  BY <1>1, <1>2, <1>3, AppendProps DEF IInv, PoolNoDup
<1>5. TypeOK'
  BY <1>1, <1>2, <1>4 DEF IInv, TypeOK
<1>6. (ListsNoDup /\ Mirrored)'
  BY <1>1 DEF IInv, ListsNoDup, Mirrored
<1>7. EdgesPooled'
  BY <1>1, <1>4 DEF IInv, EdgesPooled, PoolSet
<1>8. FreshUnpooled'
  BY <1>1, <1>4 DEF IInv, FreshUnpooled, PoolSet
<1>. QED  BY <1>4, <1>5, <1>6, <1>7, <1>8 DEF IInv, PoolNoDup

(* No node is its own predecessor or successor.                            *)
LEMMA NoSelfEdge ==
    ASSUME IInv, NEW n \in Nodes
    PROVE  n \notin ToSet(preds[n]) /\ n \notin ToSet(succs[n])
BY DEF IInv, EdgesPooled, Mirrored

(* erase unlinks the node from both sides: afterwards no list names it,    *)
(* every other list only lost it, and the pool lost exactly it.            *)
LEMMA EraseKeeps ==
    ASSUME IInv, NEW n \in Nodes, Erase(n)
    PROVE  IInv'
<1>0. /\ pool \in Seq(Nodes) /\ fresh \subseteq Nodes
      /\ preds \in [Nodes -> Seq(Nodes)] /\ succs \in [Nodes -> Seq(Nodes)]
  BY DEF IInv, TypeOK
<1>1. /\ n \in PoolSet /\ fresh' = fresh /\ pool' = RemoveFirst(pool, n)
      /\ preds' = [m \in Nodes |-> IF m \in ToSet(succs[n]) THEN EraseValue(preds[m], n)
                                  ELSE IF m = n THEN <<>> ELSE preds[m]]
      /\ succs' = [m \in Nodes |-> IF m \in ToSet(preds[n]) THEN EraseValue(succs[m], n)
                                  ELSE IF m = n THEN <<>> ELSE succs[m]]
  BY DEF Erase
<1>2. /\ pool' \in Seq(Nodes) /\ ToSet(pool') = PoolSet \ {n} /\ NoDup(pool')
  BY <1>0, <1>1, RemoveFirstProps DEF IInv, PoolNoDup, PoolSet
<1>3. ASSUME NEW m \in Nodes
      PROVE  /\ preds'[m] \in Seq(Nodes) /\ NoDup(preds'[m])
             /\ ToSet(preds'[m]) = IF m = n THEN {} ELSE ToSet(preds[m]) \ {n}
  <2>1. CASE m \in ToSet(succs[n])
    <3>1. m # n
      BY <2>1, NoSelfEdge
    <3>. QED  BY <2>1, <3>1, <1>0, <1>1, EraseValueProps DEF IInv, ListsNoDup
  <2>3. CASE m \notin ToSet(succs[n]) /\ m = n
    BY <2>3, <1>1, EmptyProps
  <2>4. CASE m \notin ToSet(succs[n]) /\ m # n
    <3>1. n \notin ToSet(preds[m])
      BY <2>4 DEF IInv, Mirrored
    <3>. QED  BY <2>4, <3>1, <1>0, <1>1 DEF IInv, ListsNoDup
  <2>. QED  BY <2>1, <2>3, <2>4
<1>4. ASSUME NEW m \in Nodes
      PROVE  /\ succs'[m] \in Seq(Nodes) /\ NoDup(succs'[m])
             /\ ToSet(succs'[m]) = IF m = n THEN {} ELSE ToSet(succs[m]) \ {n}
  <2>1. CASE m \in ToSet(preds[n])
    <3>1. m # n
      BY <2>1, NoSelfEdge
    <3>. QED  BY <2>1, <3>1, <1>0, <1>1, EraseValueProps DEF IInv, ListsNoDup
  <2>3. CASE m \notin ToSet(preds[n]) /\ m = n
    BY <2>3, <1>1, EmptyProps
  <2>4. CASE m \notin ToSet(preds[n]) /\ m # n
    <3>1. n \notin ToSet(succs[m])
      BY <2>4 DEF IInv, Mirrored
    <3>. QED  BY <2>4, <3>1, <1>0, <1>1 DEF IInv, ListsNoDup
  <2>. QED  BY <2>1, <2>3, <2>4
<1>5. TypeOK'
  BY <1>0, <1>1, <1>2, <1>3, <1>4 DEF TypeOK
<1>6. ListsNoDup'
  BY <1>3, <1>4 DEF ListsNoDup
<1>7. Mirrored'
  <2>. SUFFICES ASSUME NEW x \in Nodes, NEW y \in Nodes
                PROVE  (y \in ToSet(preds'[x])) = (x \in ToSet(succs'[y]))
    BY DEF Mirrored
  <2>1. ToSet(preds'[x]) = IF x = n THEN {} ELSE ToSet(preds[x]) \ {n}
    BY <1>3
  <2>2. ToSet(succs'[y]) = IF y = n THEN {} ELSE ToSet(succs[y]) \ {n}
    BY <1>4
  <2>3. (y \in ToSet(preds[x])) = (x \in ToSet(succs[y]))
    BY DEF IInv, Mirrored
  <2>. QED  BY <2>1, <2>2, <2>3
<1>8. EdgesPooled'
  BY <1>2, <1>3 DEF IInv, EdgesPooled, PoolSet
<1>9. FreshUnpooled'
  BY <1>1, <1>2 DEF IInv, FreshUnpooled, PoolSet
<1>. QED  BY <1>2, <1>5, <1>6, <1>7, <1>8, <1>9 DEF IInv, PoolNoDup

(* depend adds the edge o -> t to both lists, between two pooled, distinct *)
(* nodes; push_back after std::find keeps the lists duplicate-free.        *)
LEMMA DependKeeps ==
    ASSUME IInv, NEW t \in Nodes, NEW o \in Nodes, Depend(t, o)
    PROVE  IInv'
<1>0. /\ preds \in [Nodes -> Seq(Nodes)] /\ succs \in [Nodes -> Seq(Nodes)]
      /\ pool \in Seq(Nodes) /\ fresh \subseteq Nodes
  BY DEF IInv, TypeOK
<1>1. /\ {t, o} \subseteq PoolSet /\ o # t
      /\ preds' = [preds EXCEPT ![t] = AppendNew(@, o)]
      /\ succs' = [succs EXCEPT ![o] = AppendNew(@, t)]
      /\ pool' = pool /\ fresh' = fresh
  BY DEF Depend
<1>3. ASSUME NEW m \in Nodes
      PROVE  /\ preds'[m] \in Seq(Nodes) /\ NoDup(preds'[m])
             /\ ToSet(preds'[m]) = IF m = t THEN ToSet(preds[t]) \cup {o} ELSE ToSet(preds[m])
  <2>1. CASE m = t
    <3>1. preds'[m] = AppendNew(preds[t], o)
      BY <2>1, <1>0, <1>1
    <3>2. NoDup(preds[t])
      BY DEF IInv, ListsNoDup
    <3>3. /\ AppendNew(preds[t], o) \in Seq(Nodes)
          /\ ToSet(AppendNew(preds[t], o)) = ToSet(preds[t]) \cup {o}
          /\ NoDup(preds[t]) => NoDup(AppendNew(preds[t], o))
      BY <1>0, AppendNewProps
    <3>. QED  BY <2>1, <3>1, <3>2, <3>3
  <2>2. CASE m # t
    BY <2>2, <1>0, <1>1 DEF IInv, ListsNoDup
  <2>. QED  BY <2>1, <2>2
<1>4. ASSUME NEW m \in Nodes
      PROVE  /\ succs'[m] \in Seq(Nodes) /\ NoDup(succs'[m])
             /\ ToSet(succs'[m]) = IF m = o THEN ToSet(succs[o]) \cup {t} ELSE ToSet(succs[m])
  <2>1. CASE m = o
    <3>1. succs'[m] = AppendNew(succs[o], t)
      BY <2>1, <1>0, <1>1
    <3>2. NoDup(succs[o])
      BY DEF IInv, ListsNoDup
    <3>3. /\ AppendNew(succs[o], t) \in Seq(Nodes)
          /\ ToSet(AppendNew(succs[o], t)) = ToSet(succs[o]) \cup {t}
          /\ NoDup(succs[o]) => NoDup(AppendNew(succs[o], t))
      BY <1>0, AppendNewProps
    <3>. QED  BY <2>1, <3>1, <3>2, <3>3
  <2>2. CASE m # o
    BY <2>2, <1>0, <1>1 DEF IInv, ListsNoDup
  <2>. QED  BY <2>1, <2>2
<1>5. TypeOK'
  BY <1>0, <1>1, <1>3, <1>4 DEF TypeOK
<1>6. ListsNoDup'
  BY <1>3, <1>4 DEF ListsNoDup
<1>7. Mirrored'
  <2>. SUFFICES ASSUME NEW x \in Nodes, NEW y \in Nodes
                PROVE  (y \in ToSet(preds'[x])) = (x \in ToSet(succs'[y]))
    BY DEF Mirrored
  <2>1. ToSet(preds'[x]) = IF x = t THEN ToSet(preds[t]) \cup {o} ELSE ToSet(preds[x])
    BY <1>3
  <2>2. ToSet(succs'[y]) = IF y = o THEN ToSet(succs[o]) \cup {t} ELSE ToSet(succs[y])
    BY <1>4
  <2>3. (y \in ToSet(preds[x])) = (x \in ToSet(succs[y]))
    BY DEF IInv, Mirrored
  <2>. QED  BY <2>1, <2>2, <2>3
<1>8. EdgesPooled'
  BY <1>1, <1>3 DEF IInv, EdgesPooled, PoolSet
<1>9. (PoolNoDup /\ FreshUnpooled)'
  BY <1>1 DEF IInv, PoolNoDup, FreshUnpooled, PoolSet
<1>. QED  BY <1>5, <1>6, <1>7, <1>8, <1>9 DEF IInv

(* erase_depend removes the edge o -> t from both lists, if it is there.   *)
LEMMA EraseDependKeeps ==
    ASSUME IInv, NEW t \in Nodes, NEW o \in Nodes, EraseDepend(t, o)
    PROVE  IInv'
<1>0. /\ preds \in [Nodes -> Seq(Nodes)] /\ succs \in [Nodes -> Seq(Nodes)]
      /\ pool \in Seq(Nodes) /\ fresh \subseteq Nodes
  BY DEF IInv, TypeOK
<1>1. /\ preds' = [preds EXCEPT ![t] = EraseValue(@, o)]
      /\ succs' = [succs EXCEPT ![o] = EraseValue(@, t)]
      /\ pool' = pool /\ fresh' = fresh
  BY DEF EraseDepend
<1>3. ASSUME NEW m \in Nodes
      PROVE  /\ preds'[m] \in Seq(Nodes) /\ NoDup(preds'[m])
             /\ ToSet(preds'[m]) = IF m = t THEN ToSet(preds[t]) \ {o} ELSE ToSet(preds[m])
  BY <1>0, <1>1, EraseValueProps DEF IInv, ListsNoDup
<1>4. ASSUME NEW m \in Nodes
      PROVE  /\ succs'[m] \in Seq(Nodes) /\ NoDup(succs'[m])
             /\ ToSet(succs'[m]) = IF m = o THEN ToSet(succs[o]) \ {t} ELSE ToSet(succs[m])
  BY <1>0, <1>1, EraseValueProps DEF IInv, ListsNoDup
<1>5. TypeOK'
  BY <1>0, <1>1, <1>3, <1>4 DEF TypeOK
<1>6. ListsNoDup'
  BY <1>3, <1>4 DEF ListsNoDup
<1>7. Mirrored'
  <2>. SUFFICES ASSUME NEW x \in Nodes, NEW y \in Nodes
                PROVE  (y \in ToSet(preds'[x])) = (x \in ToSet(succs'[y]))
    BY DEF Mirrored
  <2>1. ToSet(preds'[x]) = IF x = t THEN ToSet(preds[t]) \ {o} ELSE ToSet(preds[x])
    BY <1>3
  <2>2. ToSet(succs'[y]) = IF y = o THEN ToSet(succs[o]) \ {t} ELSE ToSet(succs[y])
    BY <1>4
  <2>3. (y \in ToSet(preds[x])) = (x \in ToSet(succs[y]))
    BY DEF IInv, Mirrored
  <2>. QED  BY <2>1, <2>2, <2>3
<1>8. EdgesPooled'
  BY <1>1, <1>3 DEF IInv, EdgesPooled, PoolSet
<1>9. (PoolNoDup /\ FreshUnpooled)'
  BY <1>1 DEF IInv, PoolNoDup, FreshUnpooled, PoolSet
<1>. QED  BY <1>5, <1>6, <1>7, <1>8, <1>9 DEF IInv

(* clear deletes every pooled node; a node outside the pool has no edges,  *)
(* so afterwards every list is empty.                                      *)
LEMMA ClearKeeps ==
    ASSUME IInv, Clear
    PROVE  IInv'
<1>0. /\ preds \in [Nodes -> Seq(Nodes)] /\ succs \in [Nodes -> Seq(Nodes)]
      /\ fresh \subseteq Nodes
  BY DEF IInv, TypeOK
<1>1. /\ pool' = <<>> /\ fresh' = fresh
      /\ preds' = [m \in Nodes |-> IF m \in PoolSet THEN <<>> ELSE preds[m]]
      /\ succs' = [m \in Nodes |-> IF m \in PoolSet THEN <<>> ELSE succs[m]]
  BY DEF Clear
<1>2. ASSUME NEW m \in Nodes, m \notin PoolSet
      PROVE  ToSet(preds[m]) = {} /\ ToSet(succs[m]) = {}
  <2>1. ToSet(preds[m]) \subseteq Nodes /\ ToSet(succs[m]) \subseteq Nodes
    BY <1>0, ToSetType
  <2>2. \A y \in Nodes : y \notin ToSet(preds[m])
    BY <1>2 DEF IInv, EdgesPooled
  <2>3. \A y \in Nodes : y \notin ToSet(succs[m])
    BY <1>2 DEF IInv, EdgesPooled, Mirrored
  <2>. QED  BY <2>1, <2>2, <2>3
<1>3. ASSUME NEW m \in Nodes
      PROVE  /\ preds'[m] \in Seq(Nodes) /\ NoDup(preds'[m]) /\ ToSet(preds'[m]) = {}
             /\ succs'[m] \in Seq(Nodes) /\ NoDup(succs'[m]) /\ ToSet(succs'[m]) = {}
  BY <1>0, <1>1, <1>2, EmptyProps DEF IInv, ListsNoDup
<1>4. TypeOK' /\ PoolNoDup'
  BY <1>0, <1>1, <1>3, EmptyProps DEF TypeOK, PoolNoDup
<1>5. (ListsNoDup /\ Mirrored /\ EdgesPooled)'
  BY <1>3 DEF ListsNoDup, Mirrored, EdgesPooled
<1>6. FreshUnpooled'
  BY <1>1, EmptyProps DEF FreshUnpooled, PoolSet
<1>. QED  BY <1>4, <1>5, <1>6 DEF IInv

(* Every step of the client, and a stutter, keeps the invariant.           *)
LEMMA NextIInv == IInv /\ [Next]_buildVars => IInv'
<1>. SUFFICES ASSUME IInv, [Next]_buildVars PROVE IInv'
  OBVIOUS
<1>1. CASE Clear
  BY <1>1, ClearKeeps
<1>2. ASSUME NEW n \in Nodes, Push(n)
      PROVE  IInv'
  BY <1>2, PushKeeps
<1>3. ASSUME NEW n \in Nodes, Erase(n)
      PROVE  IInv'
  BY <1>3, EraseKeeps
<1>4. ASSUME NEW t \in Nodes, NEW o \in Nodes, Depend(t, o)
      PROVE  IInv'
  BY <1>4, DependKeeps
<1>5. ASSUME NEW t \in Nodes, NEW o \in Nodes, Precede(t, o)
      PROVE  IInv'
  BY <1>5, DependKeeps DEF Precede
<1>6. ASSUME NEW t \in Nodes, NEW o \in Nodes, EraseDepend(t, o)
      PROVE  IInv'
  BY <1>6, EraseDependKeeps
<1>7. ASSUME NEW t \in Nodes, NEW o \in Nodes, ErasePrecede(t, o)
      PROVE  IInv'
  <2>1. EraseDepend(o, t)
    BY <1>7 DEF ErasePrecede, EraseDepend
  <2>. QED  BY <2>1, EraseDependKeeps
<1>8. CASE UNCHANGED buildVars
  BY <1>8 DEF buildVars, IInv, TypeOK, PoolNoDup, ListsNoDup, Mirrored,
              EdgesPooled, FreshUnpooled, PoolSet
<1>. QED  BY <1>1, <1>2, <1>3, <1>4, <1>5, <1>6, <1>7, <1>8 DEF Next

LEMMA IInvWellFormed == IInv => BuildWellFormed
BY DEF IInv, TypeOK, PoolNoDup, ListsNoDup, Mirrored, EdgesPooled, PoolSet,
       BuildWellFormed, WellFormedGraph, TheGraph

------------------------------------------------------------------------------
(* Whatever sequence of push, erase, clear, depend, precede, erase_depend  *)
(* and erase_precede the client makes, for any set of nodes, the edge      *)
(* lists mirror each other, hold no duplicates and join only pooled        *)
(* nodes: erase (threadgraph.cpp) leaves no dangling INode pointer.        *)
THEOREM BuildSafe == Spec => []BuildWellFormed
<1>1. Init => IInv
  BY InitIInv
<1>2. IInv /\ [Next]_buildVars => IInv'
  BY NextIInv
<1>3. IInv => BuildWellFormed
  BY IInvWellFormed
<1>. QED  BY <1>1, <1>2, <1>3, PTL DEF Spec

==============================================================================
