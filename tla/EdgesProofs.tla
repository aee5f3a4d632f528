------------------------------ MODULE EdgesProofs ------------------------------
(***************************************************************************)
(* Lemmas on the sequence operators of the graph model: the erase-remove   *)
(* idiom on the edge vectors (EraseValue), push_back after std::find       *)
(* (AppendNew), and erasing one element of the task pool or the ready      *)
(* cache (RemoveFirst).  GraphBuildProofs and GraphRunProofs cite them.    *)
(***************************************************************************)
EXTENDS Edges, FiniteSetTheorems, SequenceTheorems, WellFoundedInduction, TLAPS

(* A nonempty set of naturals contains its least element (Min of          *)
(* FiniteSetsExt, which SelectInSeq uses to find the first occurrence).   *)
LEMMA MinOfNats ==
    ASSUME NEW T \in SUBSET Nat, T # {}
    PROVE  Min(T) \in T /\ \A y \in T : Min(T) <= y
<1>1. \E x \in T : \A y \in T : ~(<<y, x>> \in OpToRel(<, Nat))
  BY NatLessThanWellFounded, WFMin
<1>2. \E x \in T : \A y \in T : x <= y
  <2>1. PICK x \in T : \A y \in T : ~(<<y, x>> \in OpToRel(<, Nat))
    BY <1>1
  <2>2. \A y \in T : ~(y < x)
    BY <2>1 DEF OpToRel
  <2>. QED  BY <2>2
<1>. QED  BY <1>2 DEF Min

(* remove_ready_cache (RemoveFirst) keeps a sequence of nodes a sequence   *)
(* of nodes.                                                               *)
LEMMA RemoveFirstType ==
    ASSUME NEW S, NEW s \in Seq(S), NEW e
    PROVE  RemoveFirst(s, e) \in Seq(S)
<1>1. CASE \E i \in 1 .. Len(s) : s[i] = e
  <2>. DEFINE I == {i \in 1 .. Len(s) : s[i] = e}
  <2>1. I # {}
    BY <1>1
  <2>2. SelectInSeq(s, LAMBDA v : v = e) = Min(I)
    BY <2>1, Zenon DEF SelectInSeq
  <2>3. Min(I) \in 1 .. Len(s)
    <3>1. I \in SUBSET Nat
      OBVIOUS
    <3>2. Min(I) \in I
      BY <2>1, <3>1, MinOfNats
    <3>. QED  BY <3>2
  <2>4. PICK k \in 1 .. Len(s) : k = Min(I)
    BY <2>3
  <2>5. SubSeq(s, 1, k - 1) \in Seq(S)
    BY SubSeqProperties
  <2>6. SubSeq(s, k + 1, Len(s)) \in Seq(S)
    BY SubSeqProperties
  <2>7. RemoveAt(s, Min(I)) \in Seq(S)
    BY <2>4, <2>5, <2>6, ConcatProperties DEF RemoveAt
  <2>. QED  BY <1>1, <2>2, <2>7 DEF RemoveFirst
<1>2. CASE ~\E i \in 1 .. Len(s) : s[i] = e
  BY <1>2 DEF RemoveFirst
<1>. QED  BY <1>1, <1>2

(* The kept indices form a finite set whose size is a natural.             *)
LEMMA KeptFinite ==
    ASSUME NEW S, NEW s \in Seq(S), NEW e
    PROVE  /\ IsFiniteSet(KeptIndices(s, e))
           /\ Cardinality(KeptIndices(s, e)) \in Nat
<1>1. IsFiniteSet(1 .. Len(s))
  BY FS_Interval
<1>2. KeptIndices(s, e) \in SUBSET (1 .. Len(s))
  BY DEF KeptIndices
<1>. QED  BY <1>1, <1>2, FS_Subset, FS_CardinalityType

(* The rank of a kept index lies in 1 .. Cardinality(KeptIndices(s, e)).   *)
LEMMA RankBounds ==
    ASSUME NEW S, NEW s \in Seq(S), NEW e, NEW i \in KeptIndices(s, e)
    PROVE  KeptRank(s, e, i) \in 1 .. Cardinality(KeptIndices(s, e))
<1>. DEFINE K == KeptIndices(s, e)
            A == {j \in K : j <= i}
<1>1. IsFiniteSet(K) /\ Cardinality(K) \in Nat
  BY KeptFinite
<1>2. A \in SUBSET K
  OBVIOUS
<1>3. IsFiniteSet(A) /\ Cardinality(A) <= Cardinality(K) /\ Cardinality(A) \in Nat
  BY <1>1, <1>2, FS_Subset, FS_CardinalityType
<1>4. Cardinality(A) # 0
  <2>1. i \in A
    BY DEF KeptIndices
  <2>. QED  BY <2>1, <1>3, FS_EmptySet
<1>. QED  BY <1>1, <1>3, <1>4 DEF KeptRank

(* Ranks grow strictly with the index: the idiom keeps the order.          *)
LEMMA RankMonotone ==
    ASSUME NEW S, NEW s \in Seq(S), NEW e,
           NEW i \in KeptIndices(s, e), NEW j \in KeptIndices(s, e), i < j
    PROVE  KeptRank(s, e, i) < KeptRank(s, e, j)
<1>. DEFINE K == KeptIndices(s, e)
            A == {x \in K : x <= i}
            B == {x \in K : x <= j}
<1>1. IsFiniteSet(K)
  BY KeptFinite
<1>2. A \in SUBSET B /\ B \in SUBSET K
  BY DEF KeptIndices
<1>3. IsFiniteSet(B)
  BY <1>1, <1>2, FS_Subset
<1>4. Cardinality(A) <= Cardinality(B) /\ (Cardinality(B) = Cardinality(A) => B = A)
  BY <1>2, <1>3, FS_Subset
<1>5. j \in B /\ j \notin A
  BY DEF KeptIndices
<1>6. Cardinality(A) \in Nat /\ Cardinality(B) \in Nat
  BY <1>2, <1>3, FS_Subset, FS_CardinalityType
<1>7. Cardinality(A) < Cardinality(B)
  BY <1>4, <1>5, <1>6
<1>. QED  BY <1>7 DEF KeptRank

(* Two kept indices of the same rank are equal.                            *)
LEMMA RankInjective ==
    ASSUME NEW S, NEW s \in Seq(S), NEW e,
           NEW i \in KeptIndices(s, e), NEW j \in KeptIndices(s, e),
           KeptRank(s, e, i) = KeptRank(s, e, j)
    PROVE  i = j
<1>1. i \in Nat /\ j \in Nat
  BY DEF KeptIndices
<1>2. KeptRank(s, e, i) \in Nat /\ KeptRank(s, e, j) \in Nat
  BY RankBounds, KeptFinite
<1>3. ~(i < j)
  <2>. SUFFICES ASSUME i < j PROVE FALSE
    OBVIOUS
  <2>1. KeptRank(s, e, i) < KeptRank(s, e, j)
    BY RankMonotone
  <2>. QED  BY <2>1, <1>2
<1>4. ~(j < i)
  <2>. SUFFICES ASSUME j < i PROVE FALSE
    OBVIOUS
  <2>1. KeptRank(s, e, j) < KeptRank(s, e, i)
    BY RankMonotone
  <2>. QED  BY <2>1, <1>2
<1>. QED  BY <1>1, <1>3, <1>4

(* Every position of the result is the rank of some kept index.            *)
LEMMA RankOnto ==
    ASSUME NEW S, NEW s \in Seq(S), NEW e,
           NEW k \in 1 .. Cardinality(KeptIndices(s, e))
    PROVE  \E i \in KeptIndices(s, e) : KeptRank(s, e, i) = k
<1>. DEFINE K == KeptIndices(s, e)
            N == Cardinality(K)
            f == [i \in K |-> KeptRank(s, e, i)]
<1>1. IsFiniteSet(K) /\ N \in Nat
  BY KeptFinite
<1>2. f \in [K -> 1 .. N]
  BY RankBounds
<1>3. f \in Injection(K, 1 .. N)
  BY <1>2, RankInjective DEF Injection, IsInjective
<1>4. IsFiniteSet(1 .. N) /\ Cardinality(1 .. N) = N
  BY <1>1, FS_Interval
<1>5. f \in Surjection(K, 1 .. N)
  BY <1>1, <1>3, <1>4, FS_Injection
<1>. QED  BY <1>5 DEF Surjection

(* The erase-remove idiom keeps a sequence of S a sequence of S, takes     *)
(* exactly e out of its elements, and keeps a duplicate-free list so.      *)
LEMMA EraseValueProps ==
    ASSUME NEW S, NEW s \in Seq(S), NEW e
    PROVE  /\ EraseValue(s, e) \in Seq(S)
           /\ ToSet(EraseValue(s, e)) = ToSet(s) \ {e}
           /\ NoDup(s) => NoDup(EraseValue(s, e))
<1>. DEFINE K == KeptIndices(s, e)
            N == Cardinality(K)
            U(k) == CHOOSE i \in K : KeptRank(s, e, i) = k
            r == EraseValue(s, e)
<1>1. N \in Nat
  BY KeptFinite
<1>2. \A k \in 1 .. N : U(k) \in K /\ KeptRank(s, e, U(k)) = k
  BY RankOnto
<1>3. r = [k \in 1 .. N |-> s[U(k)]]
  BY DEF EraseValue
<1>4. \A k \in 1 .. N : s[U(k)] \in S /\ s[U(k)] # e
  BY <1>2, ElementOfSeq DEF KeptIndices
<1>5. r \in Seq(S) /\ Len(r) = N /\ DOMAIN r = 1 .. N
  <2>0. r \in [1 .. N -> S]
    BY <1>3, <1>4
  <2>1. r \in Seq(S)
    BY <2>0, <1>1, SeqDef
  <2>. QED  BY <2>1, <1>1, <1>3, LenProperties
<1>6. ToSet(r) \subseteq ToSet(s) \ {e}
  <2>. SUFFICES ASSUME NEW k \in 1 .. N PROVE r[k] \in ToSet(s) \ {e}
    BY <1>5 DEF ToSet
  <2>1. U(k) \in 1 .. Len(s) /\ DOMAIN s = 1 .. Len(s)
    BY <1>2, LenProperties DEF KeptIndices
  <2>. QED  BY <2>1, <1>3, <1>4 DEF ToSet
<1>7. ToSet(s) \ {e} \subseteq ToSet(r)
  <2>. SUFFICES ASSUME NEW i \in 1 .. Len(s), s[i] # e PROVE s[i] \in ToSet(r)
    BY LenProperties DEF ToSet
  <2>1. i \in K
    BY DEF KeptIndices
  <2>2. KeptRank(s, e, i) \in 1 .. N
    BY <2>1, RankBounds
  <2>3. U(KeptRank(s, e, i)) = i
    BY <2>1, <2>2, <1>2, RankInjective
  <2>. QED  BY <2>2, <2>3, <1>3, <1>5 DEF ToSet
<1>8. NoDup(s) => NoDup(r)
  <2>. SUFFICES ASSUME NoDup(s), NEW k1 \in 1 .. N, NEW k2 \in 1 .. N, r[k1] = r[k2]
                PROVE  k1 = k2
    BY <1>5 DEF NoDup
  <2>1. U(k1) = U(k2)
    BY <1>2, <1>3 DEF NoDup, KeptIndices
  <2>. QED  BY <2>1, <1>2
<1>. QED  BY <1>5, <1>6, <1>7, <1>8

(* Appending an element not yet present keeps a list duplicate-free and    *)
(* adds exactly that element.                                              *)
LEMMA AppendProps ==
    ASSUME NEW S, NEW s \in Seq(S), NEW e \in S
    PROVE  /\ Append(s, e) \in Seq(S)
           /\ ToSet(Append(s, e)) = ToSet(s) \cup {e}
           /\ NoDup(s) /\ e \notin ToSet(s) => NoDup(Append(s, e))
<1>1. /\ Append(s, e) \in Seq(S) /\ Len(Append(s, e)) = Len(s) + 1
      /\ \A i \in 1 .. Len(s) : Append(s, e)[i] = s[i]
      /\ Append(s, e)[Len(s) + 1] = e
  BY AppendProperties
<1>2. Len(s) \in Nat /\ DOMAIN s = 1 .. Len(s)
  BY LenProperties
<1>3. DOMAIN Append(s, e) = 1 .. Len(s) + 1
  BY <1>1, LenProperties
<1>4. ToSet(Append(s, e)) = ToSet(s) \cup {e}
  BY <1>1, <1>2, <1>3 DEF ToSet
<1>5. NoDup(s) /\ e \notin ToSet(s) => NoDup(Append(s, e))
  BY <1>1, <1>2 DEF NoDup, ToSet
<1>. QED  BY <1>1, <1>4, <1>5

(* push_back unless std::find sees the element: the list stays             *)
(* duplicate-free and gains exactly that element.                          *)
LEMMA AppendNewProps ==
    ASSUME NEW S, NEW s \in Seq(S), NEW e \in S
    PROVE  /\ AppendNew(s, e) \in Seq(S)
           /\ ToSet(AppendNew(s, e)) = ToSet(s) \cup {e}
           /\ NoDup(s) => NoDup(AppendNew(s, e))
BY AppendProps DEF AppendNew

(* RemoveAt(s, i) is s with the element at i left out.                     *)
LEMMA RemoveAtElems ==
    ASSUME NEW S, NEW s \in Seq(S), NEW i \in 1 .. Len(s)
    PROVE  /\ RemoveAt(s, i) \in Seq(S)
           /\ Len(RemoveAt(s, i)) = Len(s) - 1
           /\ \A k \in 1 .. Len(s) - 1 :
                 RemoveAt(s, i)[k] = IF k < i THEN s[k] ELSE s[k + 1]
<1>. DEFINE s1 == SubSeq(s, 1, i - 1)
            s2 == SubSeq(s, i + 1, Len(s))
<1>0. Len(s) \in Nat
  BY LenProperties
<1>1. s \in [1 .. Len(s) -> S]
  BY LenProperties
<1>2. /\ s1 \in Seq(S) /\ Len(s1) = i - 1
      /\ \A k \in 1 .. i - 1 : s1[k] = s[k]
  <2>1. /\ s1 \in Seq(S)
        /\ Len(s1) = IF 1 <= i - 1 THEN (i - 1) - 1 + 1 ELSE 0
        /\ \A k \in 1 .. (i - 1) - 1 + 1 : s1[k] = s[1 + k - 1]
    BY <1>0, <1>1, SubSeqProperties
  <2>. QED  BY <2>1, <1>0
<1>3. /\ s2 \in Seq(S) /\ Len(s2) = Len(s) - i
      /\ \A k \in 1 .. Len(s) - i : s2[k] = s[i + k]
  <2>1. /\ s2 \in Seq(S)
        /\ Len(s2) = IF i + 1 <= Len(s) THEN Len(s) - (i + 1) + 1 ELSE 0
        /\ \A k \in 1 .. Len(s) - (i + 1) + 1 : s2[k] = s[(i + 1) + k - 1]
    BY <1>0, <1>1, SubSeqProperties
  <2>2. Len(s2) = Len(s) - i
    BY <2>1, <1>0
  <2>3. \A k \in 1 .. Len(s) - i : s2[k] = s[i + k]
    <3>. SUFFICES ASSUME NEW k \in 1 .. Len(s) - i PROVE s2[k] = s[i + k]
      OBVIOUS
    <3>1. k \in 1 .. Len(s) - (i + 1) + 1 /\ (i + 1) + k - 1 = i + k
      BY <1>0
    <3>. QED  BY <3>1, <2>1
  <2>. QED  BY <2>1, <2>2, <2>3
<1>4. RemoveAt(s, i) = s1 \o s2
  BY DEF RemoveAt
<1>. HIDE DEF s1, s2
<1>5. s1 \o s2 \in Seq(S) /\ Len(s1 \o s2) = Len(s1) + Len(s2)
  BY <1>2, <1>3, ConcatProperties
<1>6. \A k \in 1 .. Len(s1) + Len(s2) :
         (s1 \o s2)[k] = IF k <= Len(s1) THEN s1[k] ELSE s2[k - Len(s1)]
  BY <1>2, <1>3, ConcatProperties
<1>7. Len(s1) = i - 1 /\ Len(s2) = Len(s) - i
  BY <1>2, <1>3
<1>8. Len(s1 \o s2) = Len(s) - 1
  BY <1>0, <1>5, <1>7
<1>9. ASSUME NEW k \in 1 .. Len(s) - 1
      PROVE  (s1 \o s2)[k] = IF k < i THEN s[k] ELSE s[k + 1]
  <2>1. k \in 1 .. Len(s1) + Len(s2)
    BY <1>0, <1>7
  <2>2. (s1 \o s2)[k] = IF k <= i - 1 THEN s1[k] ELSE s2[k - (i - 1)]
    BY <2>1, <1>6, <1>7
  <2>3. CASE k < i
    <3>1. k \in 1 .. i - 1
      BY <2>3, <1>0
    <3>. QED  BY <2>2, <2>3, <3>1, <1>2
  <2>4. CASE ~(k < i)
    <3>1. k - (i - 1) \in 1 .. Len(s) - i /\ i + (k - (i - 1)) = k + 1
      BY <2>4, <1>0
    <3>2. s2[k - (i - 1)] = s[k + 1]
      BY <3>1, <1>3
    <3>. QED  BY <2>2, <2>4, <3>2
  <2>. QED  BY <2>3, <2>4
<1>. QED  BY <1>4, <1>5, <1>8, <1>9

(* _task_pool.erase(std::find(...)) on a duplicate-free pool takes exactly *)
(* the erased node out and leaves the pool duplicate-free.                 *)
LEMMA RemoveFirstProps ==
    ASSUME NEW S, NEW s \in Seq(S), NoDup(s), NEW e
    PROVE  /\ RemoveFirst(s, e) \in Seq(S)
           /\ ToSet(RemoveFirst(s, e)) = ToSet(s) \ {e}
           /\ NoDup(RemoveFirst(s, e))
<1>0. Len(s) \in Nat /\ DOMAIN s = 1 .. Len(s)
  BY LenProperties
<1>1. CASE \E i \in 1 .. Len(s) : s[i] = e
  <2>1. PICK i \in 1 .. Len(s) : s[i] = e
    BY <1>1
  <2>2. {j \in 1 .. Len(s) : s[j] = e} = {i}
    BY <2>1 DEF NoDup
  <2>3. SelectInSeq(s, LAMBDA v : v = e) = i
    <3>1. Min({i}) = i
      BY DEF Min
    <3>. QED  BY <2>2, <3>1, Zenon DEF SelectInSeq
  <2>4. RemoveFirst(s, e) = RemoveAt(s, i)
    BY <1>1, <2>3 DEF RemoveFirst
  <2>. DEFINE r == RemoveAt(s, i)
  <2>5. /\ r \in Seq(S) /\ Len(r) = Len(s) - 1
        /\ \A k \in 1 .. Len(s) - 1 : r[k] = IF k < i THEN s[k] ELSE s[k + 1]
    BY RemoveAtElems
  <2>6. DOMAIN r = 1 .. Len(s) - 1
    BY <2>5, LenProperties
  <2>. HIDE DEF r
  <2>7. ToSet(r) \subseteq ToSet(s) \ {e}
    <3>. SUFFICES ASSUME NEW k \in 1 .. Len(s) - 1 PROVE r[k] \in ToSet(s) \ {e}
      BY <2>6 DEF ToSet
    <3>1. CASE k < i
      BY <3>1, <2>1, <2>5, <1>0 DEF NoDup, ToSet
    <3>2. CASE ~(k < i)
      BY <3>2, <2>1, <2>5, <1>0 DEF NoDup, ToSet
    <3>. QED  BY <3>1, <3>2
  <2>8. ToSet(s) \ {e} \subseteq ToSet(r)
    <3>. SUFFICES ASSUME NEW j \in 1 .. Len(s), s[j] # e PROVE s[j] \in ToSet(r)
      BY <1>0 DEF ToSet
    <3>1. j # i
      BY <2>1
    <3>2. CASE j < i
      BY <3>2, <2>5, <2>6, <1>0 DEF ToSet
    <3>3. CASE j > i
      <4>1. j - 1 \in 1 .. Len(s) - 1 /\ ~(j - 1 < i) /\ (j - 1) + 1 = j
        BY <3>3, <1>0
      <4>. QED  BY <4>1, <2>5, <2>6 DEF ToSet
    <3>. QED  BY <3>1, <3>2, <3>3, <1>0
  <2>9. NoDup(r)
    <3>. SUFFICES ASSUME NEW k1 \in 1 .. Len(s) - 1, NEW k2 \in 1 .. Len(s) - 1,
                         r[k1] = r[k2]
                  PROVE  k1 = k2
      BY <2>5 DEF NoDup
    <3>. DEFINE src(k) == IF k < i THEN k ELSE k + 1
    <3>1. src(k1) \in 1 .. Len(s) /\ src(k2) \in 1 .. Len(s)
      BY <1>0
    <3>2. s[src(k1)] = s[src(k2)]
      BY <2>5
    <3>3. src(k1) = src(k2)
      BY <3>1, <3>2 DEF NoDup
    <3>. QED  BY <3>3, <1>0
  <2>. QED  BY <2>4, <2>5, <2>7, <2>8, <2>9 DEF r
<1>2. CASE ~\E i \in 1 .. Len(s) : s[i] = e
  <2>1. RemoveFirst(s, e) = s
    BY <1>2 DEF RemoveFirst
  <2>2. e \notin ToSet(s)
    BY <1>2, <1>0 DEF ToSet
  <2>. QED  BY <2>1, <2>2
<1>. QED  BY <1>1, <1>2

(* The elements of a sequence of S are in S.                               *)
LEMMA ToSetType ==
    ASSUME NEW S, NEW s \in Seq(S)
    PROVE  ToSet(s) \subseteq S
BY ElementOfSeq, LenProperties DEF ToSet

(* The empty list: what a new node and clear start from.                   *)
LEMMA EmptyProps ==
    ASSUME NEW S
    PROVE  <<>> \in Seq(S) /\ ToSet(<<>>) = {} /\ NoDup(<<>>)
BY EmptySeq DEF ToSet, NoDup

(* remove_ready_cache erases one occurrence of the node and nothing else:  *)
(* every other element stays, and no element is added.                    *)
LEMMA RemoveFirstSet ==
    ASSUME NEW S, NEW s \in Seq(S), NEW e
    PROVE  /\ ToSet(s) \ {e} \subseteq ToSet(RemoveFirst(s, e))
           /\ ToSet(RemoveFirst(s, e)) \subseteq ToSet(s)
<1>0. Len(s) \in Nat /\ DOMAIN s = 1 .. Len(s)
  BY LenProperties
<1>1. CASE \E i \in 1 .. Len(s) : s[i] = e
  <2>. DEFINE I == {i \in 1 .. Len(s) : s[i] = e}
  <2>1. Min(I) \in I
    <3>1. I \in SUBSET Nat /\ I # {}
      BY <1>1
    <3>. QED  BY <3>1, MinOfNats
  <2>2. PICK i \in 1 .. Len(s) : i = Min(I) /\ s[i] = e
    BY <2>1
  <2>3. RemoveFirst(s, e) = RemoveAt(s, i)
    BY <1>1, <2>2, Zenon DEF RemoveFirst, SelectInSeq
  <2>. DEFINE r == RemoveAt(s, i)
  <2>4. /\ r \in Seq(S) /\ Len(r) = Len(s) - 1
        /\ \A k \in 1 .. Len(s) - 1 : r[k] = IF k < i THEN s[k] ELSE s[k + 1]
    BY RemoveAtElems
  <2>5. DOMAIN r = 1 .. Len(s) - 1
    BY <2>4, LenProperties
  <2>. HIDE DEF r
  <2>6. ToSet(r) \subseteq ToSet(s)
    <3>. SUFFICES ASSUME NEW k \in 1 .. Len(s) - 1 PROVE r[k] \in ToSet(s)
      BY <2>5 DEF ToSet
    <3>1. CASE k < i
      BY <3>1, <2>4, <1>0 DEF ToSet
    <3>2. CASE ~(k < i)
      BY <3>2, <2>4, <1>0 DEF ToSet
    <3>. QED  BY <3>1, <3>2
  <2>7. ToSet(s) \ {e} \subseteq ToSet(r)
    <3>. SUFFICES ASSUME NEW j \in 1 .. Len(s), s[j] # e PROVE s[j] \in ToSet(r)
      BY <1>0 DEF ToSet
    <3>1. j # i
      BY <2>2
    <3>2. CASE j < i
      BY <3>2, <2>4, <2>5, <1>0 DEF ToSet
    <3>3. CASE j > i
      <4>1. j - 1 \in 1 .. Len(s) - 1 /\ ~(j - 1 < i) /\ (j - 1) + 1 = j
        BY <3>3, <1>0
      <4>. QED  BY <4>1, <2>4, <2>5 DEF ToSet
    <3>. QED  BY <3>1, <3>2, <3>3, <1>0
  <2>. QED  BY <2>3, <2>6, <2>7 DEF r
<1>2. CASE ~\E i \in 1 .. Len(s) : s[i] = e
  BY <1>2 DEF RemoveFirst
<1>. QED  BY <1>1, <1>2

==============================================================================
