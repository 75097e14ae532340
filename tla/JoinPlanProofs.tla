--------------------------- MODULE JoinPlanProofs ---------------------------
(***************************************************************************)
(* The forest of UnionFind, for any number of nodes and any sequence of    *)
(* unites, in every state a find leaves it in: it has no cycles, a root of *)
(* rank r has a tree of at least 2^r nodes, and the trees are the classes  *)
(* of Partition.                                                           *)
(*                                                                         *)
(* The planner on top of it, for queries of any length and all sizes of    *)
(* tables: Kruskal's loop leaves a spanning tree of least weight, and a    *)
(* query that begins with a smallest table keeps its order.  KruskalInv    *)
(* says what the edges taken have to do with the trees of the forest.      *)
(***************************************************************************)
EXTENDS JoinPlan, DataLemmas

-----------------------------------------------------------------------------
(* Ranks *)

(***************************************************************************)
(* Path halving: a node that is no root gets its grandparent as parent,    *)
(* whose rank is higher still.  Roots stay roots.                          *)
(***************************************************************************)
LEMMA HalvingKeepsRanks ==
  ASSUME UFTypeOK, RanksGrow, NEW x \in Nodes, parent[x] # x,
         parent' = Halved(x), rank' = rank
  PROVE  /\ parent' \in [Nodes -> Nodes]
         /\ parent'[x] = parent[parent[x]]
         /\ RanksGrow'
         /\ \A r \in Nodes : parent[r] = r => parent'[r] = r
<1>1. parent \in [Nodes -> Nodes] /\ rank \in [Nodes -> Nat]
  BY DEF UFTypeOK
<1>2. /\ parent' \in [Nodes -> Nodes]
      /\ parent'[x] = parent[parent[x]]
      /\ \A y \in Nodes \ {x} : parent'[y] = parent[y]
  BY <1>1 DEF Halved
<1>3. rank[x] < rank[parent[x]] /\ rank[parent[x]] <= rank[parent[parent[x]]]
  <2>1. parent[x] \in Nodes /\ parent[parent[x]] \in Nodes
    BY <1>1
  <2> QED
    BY <1>1, <2>1 DEF RanksGrow
<1>4. ASSUME NEW y \in Nodes, parent'[y] # y
      PROVE  rank'[y] < rank'[parent'[y]]
  <2>1. CASE y = x
    <3>1. parent[x] \in Nodes /\ parent[parent[x]] \in Nodes
      BY <1>1
    <3> QED
      BY <1>1, <1>2, <1>3, <2>1, <3>1
  <2>2. CASE y # x
    BY <1>2, <1>4, <2>2 DEF RanksGrow
  <2> QED
    BY <2>1, <2>2
<1> QED
  BY <1>2, <1>4 DEF RanksGrow

(***************************************************************************)
(* Linking two roots: the lower one keeps its rank, and if the ranks were  *)
(* equal the upper one rises.                                              *)
(***************************************************************************)
LEMMA LinkKeepsRanks ==
  ASSUME UFInv, Link
  PROVE  /\ parent' \in [Nodes -> Nodes] /\ rank' \in [Nodes -> Nat]
         /\ RanksGrow'
<1>1. /\ parent \in [Nodes -> Nodes] /\ rank \in [Nodes -> Nat]
      /\ px \in Nodes /\ py \in Nodes
      /\ parent[px] = px /\ parent[py] = py
  BY DEF UFInv, UFTypeOK, Link
<1>2. CASE px = py
  BY <1>1, <1>2 DEF Link, UFInv, RanksGrow
<1>3. CASE px # py
  <2> DEFINE top == IF rank[px] < rank[py] THEN py ELSE px
             low == IF rank[px] < rank[py] THEN px ELSE py
  <2>1. /\ parent' = [parent EXCEPT ![low] = top]
        /\ rank' = [rank EXCEPT ![top] = IF @ = rank[low] THEN @ + 1 ELSE @]
    BY <1>3 DEF Link
  <2>2. /\ top \in Nodes /\ low \in Nodes /\ top # low
        /\ parent[top] = top /\ parent[low] = low
        /\ rank[low] <= rank[top]
    BY <1>1, <1>3
  <2> HIDE DEF top, low
  <2>3. /\ parent' \in [Nodes -> Nodes] /\ parent'[low] = top
        /\ \A y \in Nodes \ {low} : parent'[y] = parent[y]
    BY <1>1, <2>1, <2>2
  <2>4. /\ rank' \in [Nodes -> Nat] /\ rank[top] <= rank'[top] /\ rank[low] < rank'[top]
        /\ \A y \in Nodes \ {top} : rank'[y] = rank[y]
    BY <1>1, <2>1, <2>2
  <2>5. ASSUME NEW y \in Nodes, parent'[y] # y
        PROVE  rank'[y] < rank'[parent'[y]]
    <3>1. CASE y = low
      BY <2>2, <2>3, <2>4, <3>1
    <3>2. CASE y # low
      <4>1. parent'[y] = parent[y] /\ y # top
        BY <2>2, <2>3, <2>5, <3>2
      <4>2. rank[y] < rank[parent[y]] /\ parent[y] \in Nodes /\ rank'[y] = rank[y]
        BY <4>1, <2>4, <2>5, <1>1 DEF UFInv, RanksGrow
      <4>3. rank[parent[y]] <= rank'[parent[y]]
        BY <4>2, <2>4, <2>2, <1>1
      <4> QED
        BY <4>1, <4>2, <4>3, <2>4, <1>1
    <3> QED
      BY <3>1, <3>2
  <2> QED
    BY <2>3, <2>4, <2>5 DEF RanksGrow
<1> QED
  BY <1>2, <1>3

(***************************************************************************)
(* Every call and every iteration preserves the invariant.                 *)
(***************************************************************************)
LEMMA NextKeepsForest == UFInv /\ [UFNext]_ufvars => UFInv'
<1> SUFFICES ASSUME UFInv, [UFNext]_ufvars
             PROVE  UFInv'
  OBVIOUS
<1>0. UFTypeOK /\ RanksGrow
  BY DEF UFInv
<1>1. ASSUME NEW x \in Nodes, NEW y \in Nodes, unite(x, y)
      PROVE  UFInv'
  <2>1. UNCHANGED <<parent, rank>> /\ walk' = "x" /\ px' = x /\ py' = y /\ answer' = FALSE
    BY <1>1 DEF unite
  <2>2. request' \in Nodes \X Nodes /\ request' # NoRequest
    BY <1>1, UnionFindAssumption DEF unite
  <2>3. UFTypeOK'
    BY <1>0, <2>1, <2>2 DEF UFTypeOK
  <2>4. RanksGrow'
    BY <1>0, <2>1 DEF RanksGrow
  <2> QED
    BY <2>1, <2>2, <2>3, <2>4 DEF UFInv
<1>2. CASE FindX
  <2>1. px \in Nodes /\ py \in Nodes /\ parent \in [Nodes -> Nodes] /\ walk = "x"
    BY <1>2, <1>0 DEF FindX, UFTypeOK
  <2>2. CASE parent[px] # px
    <3>1. parent' = Halved(px) /\ px' = parent'[px] /\ UNCHANGED <<walk, rank, request, py, answer>>
      BY <1>2, <2>2 DEF FindX
    <3>2. parent' \in [Nodes -> Nodes] /\ RanksGrow'
      BY <1>0, <2>1, <2>2, <3>1, HalvingKeepsRanks
    <3>3. px' \in Nodes
      BY <2>1, <3>1, <3>2
    <3> QED
      BY <1>0, <2>1, <3>1, <3>2, <3>3 DEF UFInv, UFTypeOK
  <2>3. CASE parent[px] = px
    BY <1>2, <1>0, <2>1, <2>3 DEF FindX, UFInv, UFTypeOK, RanksGrow
  <2> QED
    BY <2>2, <2>3
<1>3. CASE FindY
  <2>1. /\ px \in Nodes /\ py \in Nodes /\ parent \in [Nodes -> Nodes] /\ walk = "y"
        /\ parent[py] # py /\ parent[px] = px
        /\ parent' = Halved(py) /\ py' = parent'[py]
        /\ UNCHANGED <<rank, request, walk, px, answer>>
    BY <1>3, <1>0 DEF FindY, UFInv, UFTypeOK
  <2>2. parent' \in [Nodes -> Nodes] /\ RanksGrow' /\ parent'[px] = px
    BY <1>0, <2>1, HalvingKeepsRanks
  <2>3. py' \in Nodes
    BY <2>1, <2>2
  <2> QED
    BY <1>0, <2>1, <2>2, <2>3 DEF UFInv, UFTypeOK
<1>4. CASE Link
  <2>1. parent' \in [Nodes -> Nodes] /\ rank' \in [Nodes -> Nat] /\ RanksGrow'
    BY <1>4, LinkKeepsRanks
  <2>2. request' = NoRequest /\ walk' = "none" /\ answer' \in BOOLEAN
    BY <1>4 DEF Link
  <2> QED
    BY <2>1, <2>2 DEF UFInv, UFTypeOK
<1>5. CASE UNCHANGED ufvars
  BY <1>5, <1>0 DEF ufvars, UFInv, UFTypeOK, RanksGrow
<1> QED
  BY <1>1, <1>2, <1>3, <1>4, <1>5 DEF UFNext, Find

LEMMA InitHasForest == UFInit => UFInv
<1> SUFFICES ASSUME UFInit PROVE UFInv
  OBVIOUS
<1>1. parent = [x \in Nodes |-> x] /\ rank = [x \in Nodes |-> 0]
  BY DEF UFInit
<1>2. parent \in [Nodes -> Nodes] /\ rank \in [Nodes -> Nat]
  BY <1>1
<1>3. request = NoRequest /\ walk = "none" /\ answer = FALSE
  BY DEF UFInit
<1>4. UFTypeOK
  BY <1>2, <1>3 DEF UFTypeOK
<1>5. RanksGrow
  BY <1>1 DEF RanksGrow
<1> QED
  BY <1>3, <1>4, <1>5 DEF UFInv

(***************************************************************************)
(* The invariant of the forest, in every state of every sequence of calls. *)
(***************************************************************************)
THEOREM ForestInvariant == UFSpec => []UFInv
<1> QED
  BY InitHasForest, NextKeepsForest, PTL DEF UFSpec

(***************************************************************************)
(* No cycle of parents can arise: ranks grow towards the root.             *)
(***************************************************************************)
THEOREM RanksAlwaysGrow == UFSpec => []RanksGrow
<1>1. UFInv => RanksGrow
  BY DEF UFInv
<1> QED
  BY <1>1, ForestInvariant, PTL

(***************************************************************************)
(* Parents, ranks and the two walks stay in their ranges.                  *)
(***************************************************************************)
THEOREM ForestTypeCorrect == UFSpec => []UFTypeOK
<1>1. UFInv => UFTypeOK
  BY DEF UFInv
<1> QED
  BY <1>1, ForestInvariant, PTL

-----------------------------------------------------------------------------
(* Roots: what Root is, and that it is the only function of its kind       *)

\* c takes every node to the root it is below, when p holds the parents.
RootMap(p, c) == c = [x \in Nodes |-> IF p[x] = x THEN x ELSE c[p[x]]]

(***************************************************************************)
(* Two such functions are the same: a node of the highest rank on which    *)
(* they differ is no root, and on its parent they differ too.              *)
(***************************************************************************)
LEMMA OneRootMap ==
  ASSUME NEW p \in [Nodes -> Nodes], NEW k \in [Nodes -> Nat], NEW m \in Nat,
         \A x \in Nodes : k[x] <= m,
         \A x \in Nodes : p[x] # x => k[x] < k[p[x]],
         NEW c, RootMap(p, c), NEW d, RootMap(p, d)
  PROVE  c = d
<1> DEFINE D == {x \in Nodes : c[x] # d[x]}
           S == {m - k[x] : x \in D}
<1>1. /\ DOMAIN c = Nodes /\ DOMAIN d = Nodes
      /\ \A x \in Nodes : c[x] = IF p[x] = x THEN x ELSE c[p[x]]
      /\ \A x \in Nodes : d[x] = IF p[x] = x THEN x ELSE d[p[x]]
      /\ c = [x \in Nodes |-> c[x]] /\ d = [x \in Nodes |-> d[x]]
  BY DEF RootMap
<1>2. ASSUME D # {}
      PROVE  FALSE
  <2>1. S \subseteq Nat /\ S # {}
    BY <1>2
  <2>2. PICK low \in S : \A n \in S : low <= n
    BY <2>1, LeastNumber
  <2>3. PICK x \in D : low = m - k[x]
    BY <2>2
  <2>4. p[x] # x /\ p[x] \in D
    BY <1>1, <2>3
  <2>5. m - k[p[x]] \in S /\ k[x] < k[p[x]] /\ k[x] \in Nat /\ k[p[x]] \in Nat
    BY <2>3, <2>4
  <2>6. m - k[x] <= m - k[p[x]]
    BY <2>2, <2>3, <2>5
  <2> QED
    BY <2>5, <2>6
<1>3. \A x \in Nodes : c[x] = d[x]
  BY <1>2
<1> QED
  BY <1>1, <1>3

(***************************************************************************)
(* Root is such a function as soon as there is one.                        *)
(***************************************************************************)
LEMMA RootIsARootMap ==
  /\ \A c : RootMap(parent, c) => RootMap(parent, Root)
  /\ \A c : RootMap(parent', c) => RootMap(parent', Root')
<1>1. ASSUME NEW c, RootMap(parent, c)
      PROVE  RootMap(parent, Root)
  BY <1>1 DEF RootMap, Root
<1>2. ASSUME NEW c, RootMap(parent', c)
      PROVE  RootMap(parent', Root')
  BY <1>2 DEF RootMap, Root
<1> QED
  BY <1>1, <1>2

-----------------------------------------------------------------------------
(* Powers of two *)

(***************************************************************************)
(* The subsets of 1 .. n + 1 are those of 1 .. n, without and with n + 1.  *)
(***************************************************************************)
LEMMA PowersOfTwo ==
  /\ 2 ^ 0 = 1
  /\ \A n \in Nat : 2 ^ n \in Nat /\ 2 ^ (n + 1) = 2 ^ n + 2 ^ n
<1>1. 2 ^ 0 = 1
  OBVIOUS
<1>2. ASSUME NEW n \in Nat
      PROVE  2 ^ n \in Nat /\ 2 ^ (n + 1) = 2 ^ n + 2 ^ n
  <2> DEFINE A == SUBSET (1 .. n)
             B == {T \union {n + 1} : T \in SUBSET (1 .. n)}
             C == SUBSET (1 .. n + 1)
             g == [T \in A |-> T \union {n + 1}]
  <2>1. /\ IsFiniteSet(1 .. n) /\ Cardinality(1 .. n) = n
        /\ IsFiniteSet(1 .. n + 1) /\ Cardinality(1 .. n + 1) = n + 1
    BY FS_Interval
  <2>2. /\ IsFiniteSet(A) /\ Cardinality(A) = 2 ^ n
        /\ IsFiniteSet(C) /\ Cardinality(C) = 2 ^ (n + 1)
    BY <2>1, FS_SUBSET
  <2>3. Cardinality(A) \in Nat
    BY <2>2, FS_CardinalityType
  <2>4. g \in [A -> B]
    OBVIOUS
  <2>5. \A S, T \in A : g[S] = g[T] => S = T
    <3> SUFFICES ASSUME NEW S \in A, NEW T \in A, S \union {n + 1} = T \union {n + 1}
                 PROVE  S = T
      OBVIOUS
    <3>1. n + 1 \notin S /\ n + 1 \notin T
      OBVIOUS
    <3> QED
      BY <3>1
  <2>6. \A R \in B : \E T \in A : g[T] = R
    OBVIOUS
  <2>7. A \cap B = {}
    <3>1. \A T \in A : n + 1 \notin T
      OBVIOUS
    <3>2. \A T \in B : n + 1 \in T
      OBVIOUS
    <3> HIDE DEF A, B
    <3> QED
      BY <3>1, <3>2
  <2>8. C = A \union B
    <3>1. ASSUME NEW T \in C, n + 1 \notin T
          PROVE  T \in A
      BY <3>1
    <3>2. ASSUME NEW T \in C, n + 1 \in T
          PROVE  T \in B
      <4>1. T \ {n + 1} \in A /\ T = (T \ {n + 1}) \union {n + 1}
        BY <3>2
      <4> QED
        BY <4>1
    <3>3. A \subseteq C
      <4>1. \A i : i \in 1 .. n => i \in 1 .. n + 1
        OBVIOUS
      <4> QED
        BY <4>1
    <3>4. B \subseteq C
      <4>1. ASSUME NEW T \in SUBSET (1 .. n)
            PROVE  T \union {n + 1} \in C
        BY <3>3 DEF A
      <4> QED
        BY <4>1
    <3> HIDE DEF A, B, C
    <3>5. \A T : T \in C => T \in A \/ T \in B
      BY <3>1, <3>2
    <3> QED
      BY <3>3, <3>4, <3>5
  <2> HIDE DEF A, B, C, g
  <2>9. g \in Bijection(A, B)
    BY <2>4, <2>5, <2>6 DEF Bijection, Injection, Surjection, IsInjective
  <2>10. IsFiniteSet(B) /\ Cardinality(B) = Cardinality(A)
    BY <2>2, <2>9, FS_Bijection DEF ExistsBijection
  <2>11. Cardinality(A \union B) = Cardinality(A) + Cardinality(B) - Cardinality(A \cap B)
    BY <2>2, <2>10, FS_Union
  <2>12. Cardinality(A \cap B) = 0
    BY <2>7, FS_EmptySet
  <2> QED
    BY <2>2, <2>3, <2>8, <2>10, <2>11, <2>12
<1> QED
  BY <1>1, <1>2
-----------------------------------------------------------------------------
(* The trees of the forest *)

(***************************************************************************)
(* Every node is below one root; a root of rank k has 2^k nodes below it;  *)
(* and the two walks of unite stay in the trees they started in.           *)
(***************************************************************************)
TreesInv ==
  /\ \E m \in Nat : \A x \in Nodes : rank[x] <= m
  /\ RootMap(parent, Root)
  /\ \A x \in Nodes : Root[x] \in Nodes /\ parent[Root[x]] = Root[x]
  /\ RankNeedsNodes
  /\ walk # "none" => Root[px] = Root[request[1]] /\ Root[py] = Root[request[2]]

LEMMA RootFacts ==
  ASSUME RootMap(parent, Root)
  PROVE  \A x \in Nodes : Root[x] = IF parent[x] = x THEN x ELSE Root[parent[x]]
  BY DEF RootMap

(***************************************************************************)
(* The new forest has at most one function of roots: Root'.                *)
(***************************************************************************)
LEMMA RootAfter ==
  ASSUME parent' \in [Nodes -> Nodes], rank' \in [Nodes -> Nat], RanksGrow',
         \E m \in Nat : \A x \in Nodes : rank'[x] <= m,
         NEW c, RootMap(parent', c)
  PROVE  Root' = c /\ RootMap(parent', Root')
<1>1. RootMap(parent', Root')
  BY RootIsARootMap
<1>2. PICK m \in Nat : \A x \in Nodes : rank'[x] <= m
  OBVIOUS
<1>3. \A x \in Nodes : parent'[x] # x => rank'[x] < rank'[parent'[x]]
  BY DEF RanksGrow
<1> QED
  BY <1>1, <1>2, <1>3, OneRootMap

(***************************************************************************)
(* Path halving moves no node to another tree.                             *)
(***************************************************************************)
LEMMA HalvingKeepsRoots ==
  ASSUME UFTypeOK, RanksGrow, TreesInv, NEW x \in Nodes, parent[x] # x,
         parent' = Halved(x), rank' = rank
  PROVE  /\ Root' = Root /\ RootMap(parent', Root')
         /\ \A y \in Nodes : parent'[y] = y <=> parent[y] = y
         /\ Root[parent'[x]] = Root[x]
<1>1. parent \in [Nodes -> Nodes] /\ rank \in [Nodes -> Nat]
  BY DEF UFTypeOK
<1>2. /\ parent' \in [Nodes -> Nodes] /\ RanksGrow'
      /\ parent'[x] = parent[parent[x]]
      /\ \A y \in Nodes \ {x} : parent'[y] = parent[y]
  BY <1>1, HalvingKeepsRanks DEF Halved
<1>3. \A y \in Nodes : Root[y] = IF parent[y] = y THEN y ELSE Root[parent[y]]
  BY RootFacts DEF TreesInv
<1>4. rank[x] < rank[parent[x]] /\ rank[parent[x]] <= rank[parent[parent[x]]]
  <2>1. parent[x] \in Nodes /\ parent[parent[x]] \in Nodes
    BY <1>1
  <2> QED
    BY <1>1, <2>1 DEF RanksGrow
<1>5. parent'[x] # x
  <2>1. parent[x] \in Nodes /\ parent[parent[x]] \in Nodes
    BY <1>1
  <2> QED
    BY <1>1, <1>2, <1>4, <2>1
<1>6. Root[parent'[x]] = Root[x]
  BY <1>1, <1>2, <1>3
<1>7. RootMap(parent', Root)
  <2>1. \A y \in Nodes : Root[y] = IF parent'[y] = y THEN y ELSE Root[parent'[y]]
    BY <1>2, <1>3, <1>5, <1>6
  <2>2. Root = [y \in Nodes |-> Root[y]]
    BY DEF TreesInv, RootMap
  <2> QED
    BY <2>1, <2>2 DEF RootMap
<1>8. \E m \in Nat : \A y \in Nodes : rank'[y] <= m
  BY DEF TreesInv
<1>9. rank' \in [Nodes -> Nat]
  BY <1>1
<1>10. Root' = Root /\ RootMap(parent', Root')
  BY <1>2, <1>7, <1>8, <1>9, RootAfter
<1> QED
  BY <1>2, <1>5, <1>6, <1>10

(***************************************************************************)
(* Halving keeps the trees, and with them what is said of them.            *)
(***************************************************************************)
LEMMA HalvingKeepsTrees ==
  ASSUME UFTypeOK, RanksGrow, TreesInv, NEW x \in Nodes, parent[x] # x,
         parent' = Halved(x), UNCHANGED <<rank, request, walk>>,
         \/ x = px /\ px' = parent'[px] /\ py' = py
         \/ x = py /\ py' = parent'[py] /\ px' = px
  PROVE  TreesInv'
<1>1. /\ Root' = Root /\ RootMap(parent', Root')
      /\ \A y \in Nodes : parent'[y] = y <=> parent[y] = y
      /\ Root[parent'[x]] = Root[x]
  BY HalvingKeepsRoots
<1>2. RankNeedsNodes'
  BY <1>1 DEF TreesInv, RankNeedsNodes, Below
<1>3. Root'[px'] = Root[px] /\ Root'[py'] = Root[py]
  BY <1>1
<1>4. \A y \in Nodes : Root'[y] \in Nodes /\ parent'[Root'[y]] = Root'[y]
  BY <1>1 DEF TreesInv
<1> QED
  BY <1>1, <1>2, <1>3, <1>4 DEF TreesInv

(***************************************************************************)
(* Link makes one tree of two, of all the nodes of both, below the root of *)
(* higher rank; all other trees stay as they are.                          *)
(***************************************************************************)
LEMMA LinkJoinsTrees ==
  ASSUME UFInv, TreesInv, Link, px # py
  PROVE  \E top, low \in Nodes :
           /\ {top, low} = {px, py} /\ top # low
           /\ rank[low] <= rank[top]
           /\ parent' = [parent EXCEPT ![low] = top]
           /\ rank' = [rank EXCEPT ![top] = IF rank[top] = rank[low] THEN rank[top] + 1
                                                                     ELSE rank[top]]
           /\ Root' = [x \in Nodes |-> IF Root[x] = low THEN top ELSE Root[x]]
           /\ RootMap(parent', Root')
           /\ \E m \in Nat : \A x \in Nodes : rank'[x] <= m
<1>1. /\ parent \in [Nodes -> Nodes] /\ rank \in [Nodes -> Nat]
      /\ px \in Nodes /\ py \in Nodes
      /\ parent[px] = px /\ parent[py] = py
  BY DEF UFInv, UFTypeOK, Link
<1> DEFINE top == IF rank[px] < rank[py] THEN py ELSE px
           low == IF rank[px] < rank[py] THEN px ELSE py
<1>2. /\ parent' = [parent EXCEPT ![low] = top]
      /\ rank' = [rank EXCEPT ![top] = IF rank[top] = rank[low] THEN rank[top] + 1
                                                                ELSE rank[top]]
  BY <1>1 DEF Link
<1>3. /\ top \in Nodes /\ low \in Nodes /\ top # low /\ {top, low} = {px, py}
      /\ parent[top] = top /\ parent[low] = low
      /\ rank[low] <= rank[top]
  BY <1>1
<1> HIDE DEF top, low
<1>4. \A y \in Nodes : Root[y] = IF parent[y] = y THEN y ELSE Root[parent[y]]
  BY RootFacts DEF TreesInv
<1> DEFINE c == [x \in Nodes |-> IF Root[x] = low THEN top ELSE Root[x]]
<1>5. RootMap(parent', c)
  <2>1. ASSUME NEW y \in Nodes
        PROVE  c[y] = IF parent'[y] = y THEN y ELSE c[parent'[y]]
    <3>1. CASE y = low
      BY <1>1, <1>2, <1>3, <1>4, <3>1
    <3>2. CASE y # low
      <4>1. parent'[y] = parent[y] /\ parent[y] \in Nodes
        BY <1>1, <1>2, <3>2
      <4> QED
        BY <1>4, <3>2, <4>1
    <3> QED
      BY <3>1, <3>2
  <2> QED
    BY <2>1 DEF RootMap
<1>6. \E m \in Nat : \A x \in Nodes : rank'[x] <= m
  <2>1. PICK m \in Nat : \A x \in Nodes : rank[x] <= m
    BY DEF TreesInv
  <2>2. \A x \in Nodes : rank'[x] <= m + 1
    BY <1>1, <1>2, <1>3, <2>1
  <2> QED
    BY <2>2
<1>7. parent' \in [Nodes -> Nodes] /\ rank' \in [Nodes -> Nat] /\ RanksGrow'
  BY LinkKeepsRanks
<1> HIDE DEF c
<1>8. Root' = c /\ RootMap(parent', Root')
  BY <1>5, <1>6, <1>7, RootAfter
<1> QED
  BY <1>2, <1>3, <1>6, <1>8 DEF c

\* The nodes below the roots after two trees have been joined.
LEMMA BelowJoined ==
  ASSUME TreesInv, NEW top \in Nodes, NEW low \in Nodes, top # low,
         parent[top] = top, parent[low] = low,
         Root' = [x \in Nodes |-> IF Root[x] = low THEN top ELSE Root[x]]
  PROVE  /\ Below(top)' = Below(top) \union Below(low)
         /\ \A x \in Nodes \ {top, low} : Below(x)' = Below(x)
         /\ Below(top) \cap Below(low) = {}
  BY DEF Below

(***************************************************************************)
(* The sizes of the trees: trees of rank k with 2^k nodes each become one  *)
(* of rank k + 1, and a lower tree adds to the higher one.                 *)
(***************************************************************************)
LEMMA LinkKeepsSizes ==
  ASSUME UFInv, TreesInv, Link, px # py
  PROVE  RankNeedsNodes'
<1>1. PICK top \in Nodes, low \in Nodes :
        /\ {top, low} = {px, py} /\ top # low
        /\ rank[low] <= rank[top]
        /\ parent' = [parent EXCEPT ![low] = top]
        /\ rank' = [rank EXCEPT ![top] = IF rank[top] = rank[low] THEN rank[top] + 1
                                                                  ELSE rank[top]]
        /\ Root' = [x \in Nodes |-> IF Root[x] = low THEN top ELSE Root[x]]
  BY LinkJoinsTrees
<1>2. /\ parent \in [Nodes -> Nodes] /\ rank \in [Nodes -> Nat]
      /\ parent[top] = top /\ parent[low] = low
  BY <1>1 DEF UFInv, UFTypeOK, Link
<1>3. /\ Below(top)' = Below(top) \union Below(low)
      /\ \A x \in Nodes \ {top, low} : Below(x)' = Below(x)
      /\ Below(top) \cap Below(low) = {}
  BY <1>1, <1>2, BelowJoined
<1>4. \A x \in Nodes : IsFiniteSet(Below(x)) /\ Cardinality(Below(x)) \in Nat
  <2>1. IsFiniteSet(Nodes)
    BY FS_Interval, UnionFindAssumption DEF Nodes
  <2>2. \A x \in Nodes : Below(x) \in SUBSET Nodes
    BY DEF Below
  <2> QED
    BY <2>1, <2>2, FS_Subset, FS_CardinalityType
<1>5. /\ Cardinality(Below(top)) >= 2 ^ rank[top]
      /\ Cardinality(Below(low)) >= 2 ^ rank[low]
  BY <1>2 DEF TreesInv, RankNeedsNodes
<1>6. Cardinality(Below(top)') = Cardinality(Below(top)) + Cardinality(Below(low))
  <2>1. Cardinality(Below(top) \cap Below(low)) = 0
    BY <1>3, FS_EmptySet
  <2>2. Cardinality(Below(top) \union Below(low)) =
          Cardinality(Below(top)) + Cardinality(Below(low)) - Cardinality(Below(top) \cap Below(low))
    BY <1>4, FS_Union
  <2> QED
    BY <1>3, <1>4, <2>1, <2>2
<1>7. Cardinality(Below(top)') >= 2 ^ rank'[top]
  <2>1. rank[top] \in Nat /\ 2 ^ rank[top] \in Nat /\ 2 ^ (rank[top] + 1) = 2 ^ rank[top] + 2 ^ rank[top]
    BY <1>2, PowersOfTwo
  <2>2. CASE rank[top] = rank[low]
    <3>1. rank'[top] = rank[top] + 1
      BY <1>1, <1>2, <2>2
    <3>2. 2 ^ rank[low] = 2 ^ rank[top]
      BY <2>2
    <3> QED
      BY <1>4, <1>5, <1>6, <2>1, <3>1, <3>2
  <2>3. CASE rank[top] # rank[low]
    <3>1. rank'[top] = rank[top]
      BY <1>1, <1>2, <2>3
    <3> QED
      BY <1>4, <1>5, <1>6, <2>1, <3>1
  <2> QED
    BY <2>2, <2>3
<1>8. ASSUME NEW x \in Nodes, parent'[x] = x
      PROVE  Cardinality(Below(x)') >= 2 ^ rank'[x]
  <2>1. CASE x = top
    BY <1>7, <2>1
  <2>2. CASE x # top
    <3>1. x # low /\ parent[x] = x /\ rank'[x] = rank[x]
      BY <1>1, <1>2, <1>8, <2>2
    <3>2. Below(x)' = Below(x)
      BY <1>3, <2>2, <3>1
    <3>3. Cardinality(Below(x)) >= 2 ^ rank[x]
      BY <3>1 DEF TreesInv, RankNeedsNodes
    <3> QED
      BY <3>1, <3>2, <3>3
  <2> QED
    BY <2>1, <2>2
<1> QED
  BY <1>8 DEF RankNeedsNodes

LEMMA LinkKeepsTrees ==
  ASSUME UFInv, TreesInv, Link
  PROVE  TreesInv'
<1>1. walk' = "none"
  BY DEF Link
<1>2. CASE px = py
  <2>1. UNCHANGED <<parent, rank>>
    BY <1>2 DEF Link
  <2>2. Root' = Root
    BY <2>1 DEF Root
  <2> QED
    BY <1>1, <2>1, <2>2 DEF TreesInv, RootMap, RankNeedsNodes, Below
<1>3. CASE px # py
  <2>1. PICK top \in Nodes, low \in Nodes :
          /\ {top, low} = {px, py} /\ top # low
          /\ parent' = [parent EXCEPT ![low] = top]
          /\ Root' = [x \in Nodes |-> IF Root[x] = low THEN top ELSE Root[x]]
          /\ RootMap(parent', Root')
          /\ \E m \in Nat : \A x \in Nodes : rank'[x] <= m
    BY <1>3, LinkJoinsTrees
  <2>2. parent \in [Nodes -> Nodes] /\ parent[top] = top
    BY <2>1 DEF UFInv, UFTypeOK, Link
  <2>3. \A x \in Nodes : Root[x] \in Nodes /\ parent[Root[x]] = Root[x]
    BY DEF TreesInv
  <2>4. \A x \in Nodes : Root'[x] \in Nodes /\ parent'[Root'[x]] = Root'[x]
    BY <2>1, <2>2, <2>3
  <2>5. RankNeedsNodes'
    BY <1>3, LinkKeepsSizes
  <2> QED
    BY <1>1, <2>1, <2>4, <2>5 DEF TreesInv
<1> QED
  BY <1>2, <1>3

(***************************************************************************)
(* Every call and every iteration keeps the trees.                         *)
(***************************************************************************)
LEMMA NextKeepsTrees == UFInv /\ TreesInv /\ [UFNext]_ufvars => TreesInv'
<1> SUFFICES ASSUME UFInv, TreesInv, [UFNext]_ufvars
             PROVE  TreesInv'
  OBVIOUS
<1>0. UFTypeOK /\ RanksGrow
  BY DEF UFInv
<1>1. ASSUME UNCHANGED <<parent, rank>>,
             walk' # "none" => Root[px'] = Root[request'[1]] /\ Root[py'] = Root[request'[2]]
      PROVE  TreesInv'
  <2>1. Root' = Root
    BY <1>1 DEF Root
  <2> QED
    BY <1>1, <2>1 DEF TreesInv, RootMap, RankNeedsNodes, Below
<1>2. ASSUME NEW x \in Nodes, NEW y \in Nodes, unite(x, y)
      PROVE  TreesInv'
  BY <1>1, <1>2 DEF unite
<1>3. CASE FindX
  <2>1. px \in Nodes
    BY <1>0, <1>3 DEF FindX, UFTypeOK
  <2>2. CASE parent[px] # px
    BY <1>0, <1>3, <2>1, <2>2, HalvingKeepsTrees DEF FindX
  <2>3. CASE parent[px] = px
    BY <1>1, <1>3, <2>3 DEF FindX, TreesInv
  <2> QED
    BY <2>2, <2>3
<1>4. CASE FindY
  <2>1. py \in Nodes
    BY <1>0, <1>4 DEF FindY, UFTypeOK
  <2> QED
    BY <1>0, <1>4, <2>1, HalvingKeepsTrees DEF FindY
<1>5. CASE Link
  BY <1>5, LinkKeepsTrees
<1>6. CASE UNCHANGED ufvars
  BY <1>1, <1>6 DEF ufvars, TreesInv
<1> QED
  BY <1>2, <1>3, <1>4, <1>5, <1>6 DEF UFNext, Find

(***************************************************************************)
(* The constructor: every node is its own root.                            *)
(***************************************************************************)
LEMMA InitHasTrees == UFInit => TreesInv /\ Root = [x \in Nodes |-> x]
<1> SUFFICES ASSUME UFInit PROVE TreesInv /\ Root = [x \in Nodes |-> x]
  OBVIOUS
<1>1. parent = [x \in Nodes |-> x] /\ rank = [x \in Nodes |-> 0] /\ walk = "none"
  BY DEF UFInit
<1>2. RootMap(parent, [x \in Nodes |-> x])
  BY <1>1 DEF RootMap
<1>3. RootMap(parent, Root)
  BY <1>2, RootIsARootMap
<1>4. Root = [x \in Nodes |-> x]
  BY <1>1, <1>3 DEF RootMap
<1>5. RankNeedsNodes
  <2>1. \A x \in Nodes : Below(x) = {x} /\ rank[x] = 0
    BY <1>1, <1>4 DEF Below
  <2>2. \A x \in Nodes : Cardinality(Below(x)) = 1
    BY <2>1, FS_Singleton
  <2>3. ASSUME NEW x \in Nodes
        PROVE  Cardinality(Below(x)) >= 2 ^ rank[x]
    <3>1. 2 ^ rank[x] = 1
      BY <2>1, PowersOfTwo, Zenon
    <3>2. Cardinality(Below(x)) = 1
      BY <2>2
    <3> QED
      BY <3>1, <3>2
  <2> QED
    BY <2>3 DEF RankNeedsNodes
<1>6. \E m \in Nat : \A x \in Nodes : rank[x] <= m
  BY <1>1
<1> QED
  BY <1>1, <1>3, <1>4, <1>5, <1>6 DEF TreesInv

THEOREM ForestOfTrees == UFSpec => [](UFInv /\ TreesInv)
<1>1. UFInit => TreesInv
  BY InitHasTrees
<1> QED
  BY <1>1, NextKeepsTrees, ForestInvariant, PTL DEF UFSpec

(***************************************************************************)
(* A root of rank k has at least 2^k nodes below it, for any number of     *)
(* nodes and any unites.                                                   *)
(***************************************************************************)
THEOREM RanksAreLogarithmic == UFSpec => []RankNeedsNodes
<1>1. TreesInv => RankNeedsNodes
  BY DEF TreesInv
<1> QED
  BY <1>1, ForestOfTrees, PTL

-----------------------------------------------------------------------------
(* The refinement: the trees are the blocks of a Partition *)

Blocks == {Below(x) : x \in {Root[y] : y \in Nodes}}

\* The block of a node is the tree it is in.
LEMMA BlockOfNode ==
  ASSUME NEW x \in Nodes
  PROVE  P!Block(x) = Below(Root[x]) /\ Below(Root[x]) \in Blocks
<1>1. Below(Root[x]) \in Blocks /\ x \in Below(Root[x])
  BY DEF Blocks, Below
<1>2. ASSUME NEW B \in Blocks, x \in B
      PROVE  B = Below(Root[x])
  BY <1>2 DEF Blocks, Below
<1>3. P!Block(x) = CHOOSE B \in Blocks : x \in B
  BY DEF P!Block, Blocks
<1> QED
  BY <1>1, <1>2, <1>3

LEMMA LinkRefines ==
  ASSUME UFInv, TreesInv, Link
  PROVE  P!Return
<1>1. /\ px \in Nodes /\ py \in Nodes /\ parent[px] = px /\ parent[py] = py
      /\ request \in Nodes \X Nodes /\ request # NoRequest /\ request' = NoRequest
      /\ answer' = (px # py)
  BY UnionFindAssumption DEF UFInv, UFTypeOK, Link
<1>2. /\ Root[px] = px /\ Root[py] = py
      /\ Root[request[1]] = px /\ Root[request[2]] = py
  BY <1>1, RootFacts DEF TreesInv, Link
<1> DEFINE A == P!Block(request[1])
           B == P!Block(request[2])
<1>3. A = Below(px) /\ B = Below(py) /\ A \in Blocks /\ B \in Blocks
  BY <1>1, <1>2, BlockOfNode
<1>4. px \in A /\ py \in B /\ (A = B <=> px = py)
  BY <1>1, <1>2, <1>3 DEF Below
<1> HIDE DEF A, B
<1>5. Blocks' = (Blocks \ {A, B}) \union {A \union B}
  <2>1. CASE px = py
    <3>1. UNCHANGED parent
      BY <2>1 DEF Link
    <3>2. Root' = Root
      BY <3>1 DEF Root
    <3>3. Blocks' = Blocks
      BY <3>2 DEF Blocks, Below
    <3> QED
      BY <1>3, <1>4, <2>1, <3>3
  <2>2. CASE px # py
    <3>1. PICK top \in Nodes, low \in Nodes :
            /\ {top, low} = {px, py} /\ top # low
            /\ Root' = [x \in Nodes |-> IF Root[x] = low THEN top ELSE Root[x]]
      BY <2>2, LinkJoinsTrees
    <3>2. /\ parent[top] = top /\ parent[low] = low /\ Root[top] = top /\ Root[low] = low
      BY <1>1, <1>2, <3>1
    <3>3. /\ Below(top)' = Below(top) \union Below(low)
          /\ \A x \in Nodes \ {top, low} : Below(x)' = Below(x)
      BY <3>1, <3>2, BelowJoined
    <3>4. {A, B} = {Below(top), Below(low)} /\ A \union B = Below(top) \union Below(low)
      BY <1>3, <3>1
    <3>5. /\ {Root'[y] : y \in Nodes} = {Root[y] : y \in Nodes} \ {low}
          /\ top \in {Root[y] : y \in Nodes} /\ low \in {Root[y] : y \in Nodes}
          /\ {Root[y] : y \in Nodes} \subseteq Nodes
      BY <3>1, <3>2 DEF TreesInv
    <3>6. \A x \in {Root[y] : y \in Nodes} : x \in Below(x) /\ Root[x] = x
      BY RootFacts DEF TreesInv, Below
    <3> DEFINE R == {Root[y] : y \in Nodes}
    <3>7. Blocks' = {Below(x)' : x \in R \ {low}}
      BY <3>5 DEF Blocks
    <3> HIDE DEF R
    <3>8. Blocks = {Below(x) : x \in R}
      BY DEF Blocks, R
    <3>9. ASSUME NEW x \in R, x # top, x # low
          PROVE  Below(x) # Below(top) /\ Below(x) # Below(low) /\ Below(x)' = Below(x)
      BY <3>2, <3>3, <3>5, <3>6, <3>9 DEF Below, R
    <3>10. Blocks' = {Below(x) : x \in R \ {top, low}} \union {Below(top)'}
      BY <3>7, <3>9, <3>5, <3>1 DEF R
    <3>11. Blocks \ {Below(top), Below(low)} = {Below(x) : x \in R \ {top, low}}
      BY <3>8, <3>9
    <3> QED
      BY <3>3, <3>4, <3>10, <3>11
  <2> QED
    BY <2>1, <2>2
<1> QED
  BY <1>1, <1>4, <1>5 DEF P!Return, Blocks, A, B

LEMMA NextRefinesPartition ==
  UFInv /\ TreesInv /\ [UFNext]_ufvars => [P!Next]_(P!vars)
<1> SUFFICES ASSUME UFInv, TreesInv, [UFNext]_ufvars
             PROVE  P!Next \/ UNCHANGED P!vars
  OBVIOUS
<1>0. UFTypeOK /\ RanksGrow
  BY DEF UFInv
<1>1. ASSUME Root' = Root
      PROVE  Blocks' = Blocks
  BY <1>1 DEF Blocks, Below
<1>2. UNCHANGED parent => Root' = Root
  BY DEF Root
<1>3. ASSUME NEW x \in Nodes, NEW y \in Nodes, unite(x, y)
      PROVE  P!Next
  <2>1. P!Call(x, y)
    BY <1>1, <1>2, <1>3 DEF unite, P!Call, Blocks
  <2> QED
    BY <2>1 DEF P!Next
<1>4. CASE FindX
  <2>1. px \in Nodes
    BY <1>0, <1>4 DEF FindX, UFTypeOK
  <2>2. Root' = Root
    BY <1>0, <1>2, <1>4, <2>1, HalvingKeepsRoots DEF FindX
  <2> QED
    BY <1>1, <1>4, <2>2 DEF FindX, P!vars, Blocks
<1>5. CASE FindY
  <2>1. py \in Nodes
    BY <1>0, <1>5 DEF FindY, UFTypeOK
  <2>2. Root' = Root
    BY <1>0, <1>5, <2>1, HalvingKeepsRoots DEF FindY
  <2> QED
    BY <1>1, <1>5, <2>2 DEF FindY, P!vars, Blocks
<1>6. CASE Link
  BY <1>6, LinkRefines DEF P!Next
<1>7. CASE UNCHANGED ufvars
  BY <1>1, <1>2, <1>7 DEF ufvars, P!vars, Blocks
<1> QED
  BY <1>3, <1>4, <1>5, <1>6, <1>7 DEF UFNext, Find

(***************************************************************************)
(* The forest implements the Partition: halving paths moves no node to     *)
(* another tree, and unite merges the two trees it was asked to merge and  *)
(* no other, and says whether they were different.                         *)
(***************************************************************************)
THEOREM ForestImplementsPartition == UFSpec => ForestIsPartition
<1>1. UFInit => P!Init
  <2> SUFFICES ASSUME UFInit PROVE P!Init
    OBVIOUS
  <2>1. Root = [x \in Nodes |-> x]
    BY InitHasTrees
  <2>2. \A x \in Nodes : Below(x) = {x}
    BY <2>1 DEF Below
  <2>3. {Root[y] : y \in Nodes} = Nodes
    BY <2>1
  <2>4. {Below(x) : x \in Nodes} = {{x} : x \in Nodes}
    BY <2>2
  <2>5. {Below(x) : x \in {Root[y] : y \in Nodes}} = {{x} : x \in Nodes}
    BY <2>3, <2>4, Zenon
  <2> QED
    BY <2>5 DEF UFInit, P!Init
<1> QED
  BY <1>1, NextRefinesPartition, ForestOfTrees, PTL DEF UFSpec, P!Spec, ForestIsPartition


-----------------------------------------------------------------------------
(* The graph of a query *)

\* The edge addJoin makes for two positions of a query.
EdgeOf(q, k, l) ==
  [u |-> tableIndex(q, q[k]), v |-> tableIndex(q, q[l]),
   weight |-> IF rows[q[k]] < rows[q[l]] THEN rows[q[k]] ELSE rows[q[l]]]

\* The nodes that have edges: the first of each table.
FirstNodes(q) == {tableIndex(q, q[k]) : k \in 1 .. Len(q)}

Edges(q) == [u : FirstNodes(q), v : FirstNodes(q), weight : Nat]

Pieces(q) == [k \in 1 .. Len(q) |-> [d \in 1 .. Len(q) - k |-> EdgeOf(q, k, k + d)]]

Rows == rows \in [Names -> Nat]

LEMMA QueryType ==
  ASSUME NEW q \in Queries
  PROVE  /\ q \in Seq(Names) /\ Len(q) \in Nat /\ Len(q) >= 1 /\ Len(q) <= MaxNodes
         /\ DOMAIN q = 1 .. Len(q) /\ MaxNodes \in Nat
         /\ \A k \in 1 .. Len(q) : q[k] \in Names
<1>1. q \in Seq(Names) /\ Len(q) \in 1 .. MaxNodes /\ MaxNodes \in Nat
  BY JoinPlanAssumption, UnionFindAssumption
<1> QED
  BY <1>1

(***************************************************************************)
(* A node has the name it was looked up by, and no node before it has.     *)
(***************************************************************************)
LEMMA IndexIsFirst ==
  ASSUME NEW q \in Queries, NEW k \in 1 .. Len(q)
  PROVE  /\ tableIndex(q, q[k]) \in 0 .. Len(q) - 1 /\ tableIndex(q, q[k]) <= k - 1
         /\ q[tableIndex(q, q[k]) + 1] = q[k]
         /\ tableIndex(q, q[tableIndex(q, q[k]) + 1]) = tableIndex(q, q[k])
<1> DEFINE S == {j \in 1 .. Len(q) : q[j] = q[k]}
<1>1. DOMAIN q = 1 .. Len(q) /\ Len(q) \in Nat
  BY QueryType
<1>2. PICK m \in S : \A j \in S : m <= j
  <2>1. S \subseteq Nat /\ k \in S
    BY <1>1
  <2> HIDE DEF S
  <2> QED
    BY <2>1, LeastNumber
<1>3. /\ m \in DOMAIN q /\ q[m] = q[k] /\ \A l \in DOMAIN q : q[l] = q[k] => m <= l
  BY <1>1, <1>2
<1> DEFINE c == CHOOSE j \in DOMAIN q : q[j] = q[k] /\ \A l \in DOMAIN q : q[l] = q[k] => j <= l
<1>4. c \in DOMAIN q /\ q[c] = q[k] /\ \A l \in DOMAIN q : q[l] = q[k] => c <= l
  BY <1>3
<1>5. tableIndex(q, q[k]) = c - 1
  BY DEF tableIndex
<1> HIDE DEF c
<1>6. c \in 1 .. Len(q) /\ c <= k /\ (c - 1) + 1 = c
  BY <1>1, <1>4
<1> QED
  BY <1>1, <1>4, <1>5, <1>6

(***************************************************************************)
(* addJoin makes an edge for every two positions, in the order of the      *)
(* query.                                                                  *)
(***************************************************************************)
LEMMA EdgeType ==
  ASSUME Rows, NEW q \in Queries, NEW k \in 1 .. Len(q), NEW l \in 1 .. Len(q)
  PROVE  EdgeOf(q, k, l) \in Edges(q)
<1>1. q[k] \in Names /\ q[l] \in Names
  BY QueryType
<1>2. rows[q[k]] \in Nat /\ rows[q[l]] \in Nat
  BY <1>1 DEF Rows
<1> QED
  BY <1>2 DEF EdgeOf, Edges, FirstNodes

LEMMA PiecesType ==
  ASSUME Rows, NEW q \in Queries
  PROVE  /\ Pieces(q) \in Seq(Seq(Edges(q))) /\ Joins(q) = FlattenSeq(Pieces(q))
         /\ Len(Pieces(q)) = Len(q)
         /\ \A k \in 1 .. Len(q) : Pieces(q)[k] = [d \in 1 .. Len(q) - k |-> EdgeOf(q, k, k + d)]
<1> DEFINE n == Len(q)
<1>1. n \in Nat
  BY QueryType
<1>2. ASSUME NEW k \in 1 .. n
      PROVE  [d \in 1 .. n - k |-> EdgeOf(q, k, k + d)] \in Seq(Edges(q))
  <2>1. n - k \in Nat /\ \A d \in 1 .. n - k : k + d \in 1 .. n
    BY <1>1
  <2>2. \A d \in 1 .. n - k : EdgeOf(q, k, k + d) \in Edges(q)
    BY <2>1, EdgeType
  <2> QED
    BY <2>1, <2>2
<1>3. Pieces(q) = [k \in 1 .. n |-> [d \in 1 .. n - k |-> EdgeOf(q, k, k + d)]]
  BY DEF Pieces
<1> HIDE DEF n
<1>4. Pieces(q) \in Seq(Seq(Edges(q))) /\ Len(Pieces(q)) = n
  BY <1>1, <1>2, <1>3
<1>5. Joins(q) = FlattenSeq(Pieces(q))
  BY DEF Joins, Pieces, EdgeOf
<1> QED
  BY <1>3, <1>4, <1>5 DEF n

LEMMA JoinsAre ==
  ASSUME Rows, NEW q \in Queries
  PROVE  /\ Joins(q) \in Seq(Edges(q))
         /\ Range(Joins(q)) = {EdgeOf(q, p[1], p[2]) :
                                 p \in {r \in (1 .. Len(q)) \X (1 .. Len(q)) : r[1] < r[2]}}
<1> DEFINE n == Len(q)
           Pairs == {r \in (1 .. n) \X (1 .. n) : r[1] < r[2]}
<1>1. n \in Nat
  BY QueryType
<1>2. Joins(q) \in Seq(Edges(q))
  BY PiecesType, FlattenType
<1>3. Range(Joins(q)) = UNION {Range(Pieces(q)[k]) : k \in 1 .. n}
  BY PiecesType, FlattenRange
<1>4. \A k \in 1 .. n : Range(Pieces(q)[k]) = {EdgeOf(q, k, k + d) : d \in 1 .. n - k}
  BY PiecesType DEF Range
<1>5. ASSUME NEW e
      PROVE  (\E k \in 1 .. n : \E d \in 1 .. n - k : e = EdgeOf(q, k, k + d))
               <=> (\E p \in Pairs : e = EdgeOf(q, p[1], p[2]))
  <2>1. ASSUME NEW k \in 1 .. n, NEW d \in 1 .. n - k, e = EdgeOf(q, k, k + d)
        PROVE  \E p \in Pairs : e = EdgeOf(q, p[1], p[2])
    <3>1. <<k, k + d>> \in Pairs
      BY <1>1
    <3> QED
      BY <2>1, <3>1
  <2>2. ASSUME NEW p \in Pairs, e = EdgeOf(q, p[1], p[2])
        PROVE  \E k \in 1 .. n : \E d \in 1 .. n - k : e = EdgeOf(q, k, k + d)
    <3>1. p[1] \in 1 .. n /\ p[2] - p[1] \in 1 .. n - p[1] /\ p[1] + (p[2] - p[1]) = p[2]
      BY <1>1
    <3> QED
      BY <2>2, <3>1
  <2> QED
    BY <2>1, <2>2
<1> HIDE DEF n, Pairs
<1>6. ASSUME NEW e
      PROVE  e \in Range(Joins(q)) <=> \E k \in 1 .. n : \E d \in 1 .. n - k : e = EdgeOf(q, k, k + d)
  BY <1>3, <1>4
<1>7. Range(Joins(q)) = {EdgeOf(q, p[1], p[2]) : p \in Pairs}
  BY <1>5, <1>6
<1> QED
  BY <1>2, <1>7 DEF Pairs, n

(***************************************************************************)
(* Every edge joins two nodes of the query, the first of their tables, and *)
(* is as heavy as the lightest of all tables at least.  A lightest table   *)
(* is joined with every other by edges of that weight.                     *)
(***************************************************************************)
Least(q, w) == /\ w \in Nat
               /\ \E k \in 1 .. Len(q) : rows[q[k]] = w
               /\ \A k \in 1 .. Len(q) : w <= rows[q[k]]

LEMMA LeastExists ==
  ASSUME Rows, NEW q \in Queries
  PROVE  \E w : Least(q, w)
<1> DEFINE S == {rows[q[k]] : k \in 1 .. Len(q)}
<1>1. S \subseteq Nat /\ S # {}
  BY QueryType DEF Rows
<1>2. PICK w \in S : \A y \in S : w <= y
  <2> HIDE DEF S
  <2> QED
    BY <1>1, LeastNumber
<1> QED
  BY <1>1, <1>2 DEF Least

LEMMA EdgesWeigh ==
  ASSUME Rows, NEW q \in Queries, NEW w, Least(q, w)
  PROVE  \A e \in Range(Joins(q)) : e \in Edges(q) /\ w <= e.weight
<1>1. ASSUME NEW k \in 1 .. Len(q), NEW l \in 1 .. Len(q)
      PROVE  EdgeOf(q, k, l) \in Edges(q) /\ w <= EdgeOf(q, k, l).weight
  BY EdgeType DEF Least, EdgeOf
<1> QED
  BY <1>1, JoinsAre

LEMMA FirstNodesAre ==
  ASSUME NEW q \in Queries
  PROVE  /\ FirstNodes(q) \subseteq 0 .. Len(q) - 1 /\ 0 \in FirstNodes(q)
         /\ FirstNodes(q) \subseteq Nodes
         /\ \A d \in FirstNodes(q) : d + 1 \in 1 .. Len(q) /\ tableIndex(q, q[d + 1]) = d
<1>1. Len(q) \in Nat /\ Len(q) >= 1 /\ Len(q) <= MaxNodes /\ MaxNodes \in Nat
  BY QueryType
<1>2. FirstNodes(q) \subseteq 0 .. Len(q) - 1
  BY IndexIsFirst DEF FirstNodes
<1>3. 0 \in FirstNodes(q)
  <2>1. 1 \in 1 .. Len(q)
    BY <1>1
  <2>2. tableIndex(q, q[1]) \in 0 .. Len(q) - 1 /\ tableIndex(q, q[1]) <= 1 - 1
    BY <2>1, IndexIsFirst
  <2>3. tableIndex(q, q[1]) = 0
    BY <1>1, <2>2
  <2> QED
    BY <2>1, <2>3 DEF FirstNodes
<1>4. \A d \in FirstNodes(q) : d + 1 \in 1 .. Len(q) /\ tableIndex(q, q[d + 1]) = d
  <2>1. ASSUME NEW d \in FirstNodes(q)
        PROVE  d + 1 \in 1 .. Len(q) /\ tableIndex(q, q[d + 1]) = d
    <3>1. PICK k \in 1 .. Len(q) : d = tableIndex(q, q[k])
      BY DEF FirstNodes
    <3>2. tableIndex(q, q[d + 1]) = d
      BY <3>1, IndexIsFirst
    <3> QED
      BY <1>1, <1>2, <3>2
  <2> QED
    BY <2>1
<1>5. FirstNodes(q) \subseteq Nodes
  BY <1>1, <1>2 DEF Nodes
<1> QED
  BY <1>2, <1>3, <1>4, <1>5

HasStar(q, w, es) ==
  \E m \in FirstNodes(q) : \A d \in FirstNodes(q) \ {m} :
    \E e \in es : e.weight = w /\ {e.u, e.v} = {m, d}

LEMMA LightStar ==
  ASSUME Rows, NEW q \in Queries, NEW w, Least(q, w)
  PROVE  HasStar(q, w, Range(Joins(q)))
<1> DEFINE n == Len(q)
<1>1. n \in Nat
  BY QueryType
<1>2. PICK k \in 1 .. n : rows[q[k]] = w
  BY DEF Least
<1> DEFINE m == tableIndex(q, q[k])
<1>3. m \in FirstNodes(q) /\ m + 1 \in 1 .. n /\ q[m + 1] = q[k] /\ tableIndex(q, q[m + 1]) = m
  BY IndexIsFirst, FirstNodesAre DEF FirstNodes
<1>4. m \in Nat
  BY <1>1, <1>3, FirstNodesAre
<1> HIDE DEF m
<1>5. ASSUME NEW d \in FirstNodes(q) \ {m}
      PROVE  \E e \in Range(Joins(q)) : e.weight = w /\ {e.u, e.v} = {m, d}
  <2>1. d + 1 \in 1 .. n /\ tableIndex(q, q[d + 1]) = d /\ d \in Nat
    BY <1>1, FirstNodesAre
  <2>2. /\ rows[q[m + 1]] = w /\ w <= rows[q[d + 1]]
        /\ w \in Nat /\ rows[q[d + 1]] \in Nat
    BY <1>2, <1>3, <2>1, QueryType DEF Least, Rows
  <2>3. CASE m < d
    <3> DEFINE p == <<m + 1, d + 1>>
    <3>1. p \in (1 .. n) \X (1 .. n) /\ p[1] < p[2]
      BY <1>3, <1>4, <2>1, <2>3
    <3>2. EdgeOf(q, m + 1, d + 1) \in Range(Joins(q))
      BY <3>1, JoinsAre
    <3>3. EdgeOf(q, m + 1, d + 1) = [u |-> m, v |-> d, weight |-> w]
      BY <1>3, <2>1, <2>2 DEF EdgeOf
    <3> QED
      BY <3>2, <3>3
  <2>4. CASE d < m
    <3> DEFINE p == <<d + 1, m + 1>>
    <3>1. p \in (1 .. n) \X (1 .. n) /\ p[1] < p[2]
      BY <1>3, <1>4, <2>1, <2>4
    <3>2. EdgeOf(q, d + 1, m + 1) \in Range(Joins(q))
      BY <3>1, JoinsAre
    <3>3. EdgeOf(q, d + 1, m + 1) = [u |-> d, v |-> m, weight |-> w]
      BY <1>3, <2>1, <2>2 DEF EdgeOf
    <3> QED
      BY <3>2, <3>3
  <2>5. m < d \/ d < m
    BY <1>4, <2>1
  <2> QED
    BY <2>3, <2>4, <2>5
<1> QED
  BY <1>3, <1>5 DEF HasStar

(***************************************************************************)
(* If no table is mentioned twice, the first edges are those of the first  *)
(* table, in the order of the query.                                       *)
(***************************************************************************)
LEMMA FirstJoins ==
  ASSUME Rows, NEW q \in Queries, IsInjective(q)
  PROVE  /\ Len(q) - 1 <= Len(Joins(q))
         /\ \A j \in 1 .. Len(q) - 1 : Joins(q)[j] = EdgeOf(q, 1, 1 + j)
         /\ \A k \in 1 .. Len(q) : tableIndex(q, q[k]) = k - 1
<1> DEFINE n == Len(q)
<1>1. n \in Nat /\ n >= 1 /\ DOMAIN q = 1 .. n
  BY QueryType
<1>2. /\ Pieces(q) \in Seq(Seq(Edges(q))) /\ Pieces(q) # << >> /\ Joins(q) = FlattenSeq(Pieces(q))
      /\ Pieces(q)[1] = [d \in 1 .. n - 1 |-> EdgeOf(q, 1, 1 + d)]
  <2>1. 1 \in 1 .. n /\ Len(<< >>) = 0
    BY <1>1
  <2> QED
    BY <1>1, <2>1, PiecesType
<1>3. PICK t \in Seq(Edges(q)) : Joins(q) = Pieces(q)[1] \o t
  BY <1>2, FlattenFirst
<1>4. ASSUME NEW k \in 1 .. n
      PROVE  tableIndex(q, q[k]) = k - 1
  <2>1. tableIndex(q, q[k]) \in 0 .. n - 1 /\ q[tableIndex(q, q[k]) + 1] = q[k]
    BY IndexIsFirst
  <2>2. tableIndex(q, q[k]) + 1 \in 1 .. n
    BY <1>1, <2>1
  <2>3. tableIndex(q, q[k]) + 1 = k
    BY <1>1, <2>1, <2>2 DEF IsInjective
  <2> QED
    BY <1>1, <2>1, <2>3
<1> DEFINE s == Pieces(q)[1]
<1>5. s \in Seq(Edges(q)) /\ Len(s) = n - 1
  <2>1. 1 \in 1 .. n /\ n - 1 \in Nat
    BY <1>1
  <2>2. s \in Seq(Edges(q))
    <3>1. Len(Pieces(q)) = n
      BY PiecesType
    <3> DEFINE Y == Seq(Edges(q))
               pieces == Pieces(q)
    <3>2. pieces \in Seq(Y) /\ 1 \in 1 .. Len(pieces)
      BY <1>2, <2>1, <3>1
    <3> HIDE DEF Y, pieces
    <3>3. pieces[1] \in Y
      BY <3>2
    <3> QED
      BY <3>3 DEF Y, pieces
  <2> QED
    BY <1>2, <2>1, <2>2
<1> HIDE DEF s
<1>6. Len(Joins(q)) >= n - 1 /\ \A j \in 1 .. n - 1 : Joins(q)[j] = s[j]
  <2>1. Joins(q) = s \o t
    BY <1>3 DEF s
  <2> QED
    BY <1>1, <1>5, <2>1
<1>7. \A j \in 1 .. n - 1 : s[j] = EdgeOf(q, 1, 1 + j)
  BY <1>2 DEF s
<1>8. Len(Joins(q)) \in Nat
  BY JoinsAre
<1> QED
  BY <1>1, <1>4, <1>6, <1>7, <1>8

-----------------------------------------------------------------------------
(* The selection sort *)

\* The first of the lightest edges from position k on.
LightestFrom(a, k) ==
  CHOOSE m \in k .. Len(a) : /\ \A l \in k .. Len(a) : a[m].weight <= a[l].weight
                             /\ \A l \in k .. m - 1 : a[m].weight < a[l].weight

LEMMA LightestFromIs ==
  ASSUME NEW E, \A e \in E : e.weight \in Nat, NEW a \in Seq(E), NEW k \in 1 .. Len(a)
  PROVE  /\ LightestFrom(a, k) \in k .. Len(a)
         /\ \A l \in k .. Len(a) : a[LightestFrom(a, k)].weight <= a[l].weight
         /\ \A l \in k .. LightestFrom(a, k) - 1 : a[LightestFrom(a, k)].weight < a[l].weight
<1> DEFINE n == Len(a)
           W == {a[l].weight : l \in k .. n}
<1>1. n \in Nat /\ k \in 1 .. n /\ \A l \in 1 .. n : a[l] \in E /\ a[l].weight \in Nat
  OBVIOUS
<1> HIDE DEF n
<1>2. W \subseteq Nat /\ W # {}
  BY <1>1
<1>3. PICK w \in W : \A v \in W : w <= v
  <2> HIDE DEF W
  <2> QED
    BY <1>2, LeastNumber
<1> DEFINE S == {l \in k .. n : a[l].weight = w}
<1>4. S \subseteq Nat /\ S # {}
  BY <1>1, <1>3
<1>5. PICK m \in S : \A l \in S : m <= l
  <2> HIDE DEF S
  <2> QED
    BY <1>4, LeastNumber
<1>6. m \in k .. n /\ \A l \in k .. n : a[m].weight <= a[l].weight
  BY <1>3, <1>5
<1>7. ASSUME NEW l \in k .. m - 1
      PROVE  a[m].weight < a[l].weight
  <2>1. l \in k .. n /\ ~(m <= l)
    BY <1>1, <1>6
  <2>2. l \notin S
    <3> HIDE DEF S
    <3> QED
      BY <1>5, <2>1
  <2>3. a[l].weight # w /\ a[m].weight = w /\ a[m].weight <= a[l].weight
    BY <1>5, <1>6, <2>1, <2>2
  <2>4. a[l].weight \in Nat /\ w \in Nat
    BY <1>1, <1>2, <2>1
  <2> QED
    BY <2>3, <2>4
<1> DEFINE Is(x) == /\ \A l \in k .. n : a[x].weight <= a[l].weight
                    /\ \A l \in k .. x - 1 : a[x].weight < a[l].weight
<1>8. Is(m)
  BY <1>6, <1>7
<1> HIDE DEF Is, W, S
<1>9. LightestFrom(a, k) = CHOOSE x \in k .. n : Is(x)
  BY DEF LightestFrom, Is, n
<1>10. LightestFrom(a, k) \in k .. n /\ Is(LightestFrom(a, k))
  BY <1>6, <1>8, <1>9
<1> QED
  BY <1>10 DEF Is, n

(***************************************************************************)
(* One round: position k gets the lightest edge from k on, the positions   *)
(* before it keep theirs, and nothing changes if its own is the lightest.  *)
(***************************************************************************)
SortStep(a, k) == Swapped(a, k, LightestFrom(a, k))

LEMMA SortRound ==
  ASSUME NEW E, \A e \in E : e.weight \in Nat, NEW a \in Seq(E), NEW k \in 1 .. Len(a)
  PROVE  /\ SortStep(a, k) \in Seq(E) /\ Len(SortStep(a, k)) = Len(a)
         /\ Range(SortStep(a, k)) = Range(a)
         /\ \A i \in 1 .. k - 1 : SortStep(a, k)[i] = a[i]
         /\ \A j \in k .. Len(a) : /\ SortStep(a, k)[k].weight <= SortStep(a, k)[j].weight
                                   /\ \E l \in k .. Len(a) : SortStep(a, k)[j] = a[l]
         /\ (\A j \in k .. Len(a) : a[k].weight <= a[j].weight) => SortStep(a, k) = a
<1> DEFINE n == Len(a)
           m == LightestFrom(a, k)
           b == SortStep(a, k)
<1>1. /\ n \in Nat /\ k \in 1 .. n /\ DOMAIN a = 1 .. n
      /\ \A l \in 1 .. n : a[l] \in E /\ a[l].weight \in Nat
  OBVIOUS
<1>2. /\ m \in k .. n /\ \A l \in k .. n : a[m].weight <= a[l].weight
      /\ \A l \in k .. m - 1 : a[m].weight < a[l].weight
  BY LightestFromIs
<1>3. b = [a EXCEPT ![k] = a[m], ![m] = a[k]]
  BY DEF SortStep, Swapped
<1> HIDE DEF n, m, b
<1>4. m \in 1 .. n /\ k \in 1 .. n
  BY <1>1, <1>2
<1>5. /\ DOMAIN b = 1 .. n
      /\ \A l \in 1 .. n : b[l] = IF l = m THEN a[k] ELSE IF l = k THEN a[m] ELSE a[l]
  BY <1>1, <1>3, <1>4
<1>6. b \in [1 .. n -> E]
  <2>1. \A l \in 1 .. n : b[l] \in E
    BY <1>1, <1>4, <1>5
  <2>2. b = [l \in 1 .. n |-> b[l]]
    BY <1>1, <1>3, <1>5
  <2> QED
    BY <2>1, <2>2
<1>7. b \in Seq(E) /\ Len(b) = n
  BY <1>1, <1>6
<1>8. Range(b) = Range(a)
  <2>1. ASSUME NEW l \in 1 .. n
        PROVE  b[l] \in Range(a) /\ a[l] \in Range(b)
    <3>1. b[m] = a[k] /\ b[k] = a[m]
      BY <1>4, <1>5
    <3>2. a[k] \in Range(a) /\ a[m] \in Range(a) /\ a[l] \in Range(a)
      BY <1>1, <1>4 DEF Range
    <3>3. b[k] \in Range(b) /\ b[m] \in Range(b) /\ b[l] \in Range(b)
      BY <1>4, <1>5 DEF Range
    <3> QED
      BY <1>5, <3>1, <3>2, <3>3
  <2> QED
    BY <1>1, <1>5, <2>1 DEF Range
<1>9. \A i \in 1 .. k - 1 : b[i] = a[i]
  BY <1>1, <1>2, <1>5
<1>10. ASSUME NEW j \in k .. n
       PROVE  b[k].weight <= b[j].weight /\ \E l \in k .. n : b[j] = a[l]
  <2>1. j \in 1 .. n /\ k \in k .. n /\ m \in k .. n
    BY <1>1, <1>2
  <2>2. \E l \in k .. n : b[j] = a[l]
    BY <1>5, <2>1
  <2>3. b[k] = a[m]
    BY <1>4, <1>5
  <2> QED
    BY <1>2, <2>2, <2>3
<1>11. ASSUME \A j \in k .. n : a[k].weight <= a[j].weight
       PROVE  b = a
  <2>1. m = k
    <3>1. SUFFICES ASSUME m # k PROVE FALSE
      OBVIOUS
    <3>2. k \in k .. m - 1
      BY <1>1, <1>2, <3>1
    <3>3. a[m].weight < a[k].weight /\ a[k].weight <= a[m].weight
      BY <1>2, <1>11, <3>2
    <3>4. a[m].weight \in Nat /\ a[k].weight \in Nat
      BY <1>1, <1>4
    <3> QED
      BY <3>3, <3>4
  <2>2. \A l \in 1 .. n : b[l] = a[l]
    BY <1>5, <2>1
  <2>3. b = [l \in 1 .. n |-> b[l]] /\ a = [l \in 1 .. n |-> a[l]]
    BY <1>1, <1>6
  <2> QED
    BY <2>2, <2>3
<1> QED
  BY <1>7, <1>8, <1>9, <1>10, <1>11 DEF n, b

(***************************************************************************)
(* The edges are sorted, none is lost, and those in front that no other    *)
(* one is lighter than keep their places.                                  *)
(***************************************************************************)
SortedTo(es, n, k, m, a) ==
  /\ Len(a) = n /\ Range(a) = Range(es)
  /\ \A i \in 1 .. k : \A j \in i .. n : a[i].weight <= a[j].weight
  /\ \A i \in 1 .. m : a[i] = es[i]
  /\ k <= m => a = es

LEMMA SortProgress ==
  ASSUME NEW E, \A e \in E : e.weight \in Nat, NEW es \in Seq(E),
         NEW m \in 0 .. Len(es),
         \A i \in 1 .. m : \A j \in 1 .. Len(es) : es[i].weight <= es[j].weight,
         NEW k \in 1 .. Len(es), NEW a \in Seq(E), SortedTo(es, Len(es), k - 1, m, a)
  PROVE  SortStep(a, k) \in Seq(E) /\ SortedTo(es, Len(es), k, m, SortStep(a, k))
<1> DEFINE n == Len(es)
           b == SortStep(a, k)
<1>1. n \in Nat /\ m \in Nat /\ m <= n /\ Len(a) = n /\ k \in 1 .. n /\ k \in Nat
  BY DEF SortedTo
<1>2. /\ b \in Seq(E) /\ Len(b) = n /\ Range(b) = Range(es)
      /\ \A i \in 1 .. k - 1 : b[i] = a[i]
      /\ \A j \in k .. n : b[k].weight <= b[j].weight /\ \E l \in k .. n : b[j] = a[l]
      /\ (\A j \in k .. n : a[k].weight <= a[j].weight) => b = a
  <2>1. k \in 1 .. Len(a)
    BY <1>1
  <2>2. b \in Seq(E) /\ Len(b) = Len(a)
    BY <2>1, SortRound
  <2>3. Range(b) = Range(a)
    BY <2>1, SortRound
  <2>4. \A i \in 1 .. k - 1 : b[i] = a[i]
    BY <2>1, SortRound
  <2>5. \A j \in k .. Len(a) : b[k].weight <= b[j].weight /\ \E l \in k .. Len(a) : b[j] = a[l]
    BY <2>1, SortRound
  <2>6. (\A j \in k .. Len(a) : a[k].weight <= a[j].weight) => b = a
    BY <2>1, SortRound
  <2>7. Range(a) = Range(es) /\ Len(a) = n
    BY DEF SortedTo
  <2> HIDE DEF b, n
  <2> QED
    BY <2>2, <2>3, <2>4, <2>5, <2>6, <2>7
<1> HIDE DEF b, n
<1>3. /\ \A i \in 1 .. k - 1 : \A j \in i .. n : a[i].weight <= a[j].weight
      /\ \A i \in 1 .. m : a[i] = es[i]
      /\ k - 1 <= m => a = es
      /\ \A i \in 1 .. m : \A j \in 1 .. n : es[i].weight <= es[j].weight
  BY DEF SortedTo, n
<1>4. ASSUME NEW i \in 1 .. k, NEW j \in i .. n
      PROVE  b[i].weight <= b[j].weight
  <2>1. CASE i = k
    BY <1>2, <2>1
  <2>2. CASE i # k /\ j < k
    <3>1. i \in 1 .. k - 1 /\ j \in 1 .. k - 1
      BY <1>1, <2>2
    <3> QED
      BY <1>2, <1>3, <3>1
  <2>3. CASE i # k /\ ~(j < k)
    <3>1. i \in 1 .. k - 1 /\ j \in k .. n
      BY <1>1, <2>3
    <3>2. PICK l \in k .. n : b[j] = a[l]
      BY <1>2, <3>1
    <3>3. l \in i .. n
      BY <1>1, <3>1
    <3> QED
      BY <1>2, <1>3, <3>1, <3>2, <3>3
  <2> QED
    BY <2>1, <2>2, <2>3
<1>5. k <= m => b = es
  <2>1. SUFFICES ASSUME k <= m PROVE b = es
    OBVIOUS
  <2>2. a = es /\ k \in 1 .. m
    BY <1>1, <1>3, <2>1
  <2>3. \A j \in k .. n : a[k].weight <= a[j].weight
    BY <1>1, <1>3, <2>2
  <2> QED
    BY <1>2, <2>2, <2>3
<1>6. \A i \in 1 .. m : b[i] = es[i]
  <2>1. CASE k <= m
    BY <1>5, <2>1
  <2>2. CASE ~(k <= m)
    <3>1. \A i \in 1 .. m : i \in 1 .. k - 1
      BY <1>1, <2>2
    <3> QED
      BY <1>2, <1>3, <3>1
  <2> QED
    BY <2>1, <2>2
<1> QED
  BY <1>2, <1>4, <1>5, <1>6 DEF SortedTo, b, n

LEMMA SortSorts ==
  ASSUME NEW E, \A e \in E : e.weight \in Nat, NEW es \in Seq(E)
  PROVE  /\ sortEdges(es) \in Seq(E) /\ Len(sortEdges(es)) = Len(es)
         /\ Range(sortEdges(es)) = Range(es)
         /\ \A i \in 1 .. Len(es) : \A j \in i .. Len(es) :
              sortEdges(es)[i].weight <= sortEdges(es)[j].weight
         /\ \A m \in 0 .. Len(es) :
              (\A i \in 1 .. m : \A j \in 1 .. Len(es) : es[i].weight <= es[j].weight)
                => \A i \in 1 .. m : sortEdges(es)[i] = es[i]
<1> DEFINE n == Len(es)
           S == {a \in Seq(E) : Len(a) = n}
           step == [k \in 1 .. n |-> [a \in S |-> SortStep(a, k)]]
<1>1. n \in Nat /\ es \in S
  OBVIOUS
<1>2. ASSUME NEW k \in 1 .. n, NEW a \in S
      PROVE  SortStep(a, k) \in S
  <2>1. a \in Seq(E) /\ k \in 1 .. Len(a) /\ Len(a) = n
    OBVIOUS
  <2>2. SortStep(a, k) \in Seq(E) /\ Len(SortStep(a, k)) = Len(a)
    BY <2>1, SortRound
  <2> QED
    BY <2>1, <2>2
<1> HIDE DEF n, S
<1>3. step \in [1 .. n -> [S -> S]] /\ \A k \in 1 .. n : \A a \in S : step[k][a] = SortStep(a, k)
  BY <1>2
<1> HIDE DEF step
<1>4. PICK s \in [0 .. n -> S] : Iterates(s, n, es, step)
  BY <1>1, <1>3, IterationExists
<1>5. s = [k \in 0 .. n |-> IF k = 0 THEN es ELSE SortStep(s[k - 1], k)]
  <2>1. \A k \in 0 .. n : s[k] = IF k = 0 THEN es ELSE step[k][s[k - 1]]
    BY <1>1, <1>4 DEF Iterates
  <2>2. ASSUME NEW k \in 0 .. n, k # 0
        PROVE  k \in 1 .. n /\ s[k - 1] \in S
    BY <1>1, <1>4, <2>2
  <2>3. \A k \in 0 .. n : s[k] = IF k = 0 THEN es ELSE SortStep(s[k - 1], k)
    BY <1>3, <2>1, <2>2
  <2>4. s = [k \in 0 .. n |-> s[k]]
    BY <1>4
  <2> QED
    BY <2>3, <2>4
<1> DEFINE c == CHOOSE t : t = [k \in 0 .. n |-> IF k = 0 THEN es ELSE SortStep(t[k - 1], k)]
<1>6. c = [k \in 0 .. n |-> IF k = 0 THEN es ELSE SortStep(c[k - 1], k)]
  BY <1>5
<1>7. sortEdges(es) = c[IF es = << >> THEN 0 ELSE n - 1]
  BY DEF sortEdges, SortStep, LightestFrom, n
<1> HIDE DEF c
<1>8. \A k \in 0 .. n : c[k] = IF k = 0 THEN es ELSE SortStep(c[k - 1], k)
  BY <1>6
<1>9. ASSUME NEW m \in 0 .. n,
             \A i \in 1 .. m : \A j \in 1 .. n : es[i].weight <= es[j].weight
      PROVE  \A k \in 0 .. n : c[k] \in Seq(E) /\ SortedTo(es, n, k, m, c[k])
  <2> DEFINE Good(k) == c[k] \in Seq(E) /\ SortedTo(es, n, k, m, c[k])
             D == {k \in 0 .. n : ~Good(k)}
  <2>1. D = {}
    <3>1. SUFFICES ASSUME D # {} PROVE FALSE
      OBVIOUS
    <3>2. PICK k \in D : \A j \in D : k <= j
      <4>1. D \subseteq Nat
        BY <1>1
      <4> HIDE DEF D
      <4> QED
        BY <3>1, <4>1, LeastNumber
    <3>3. k \in 0 .. n /\ ~Good(k)
      OBVIOUS
    <3>4. CASE k = 0
      <4>1. c[0] = es /\ 0 \in 0 .. n
        BY <1>1, <1>8
      <4>2. Good(0)
        BY <4>1 DEF SortedTo, n
      <4> QED
        BY <3>3, <3>4, <4>2
    <3>5. CASE k # 0
      <4> DEFINE l == k - 1
      <4>1. l \in 0 .. n /\ ~(k <= l) /\ k \in 1 .. n
        BY <1>1, <3>3, <3>5
      <4>2. c[k] = SortStep(c[l], k)
        BY <1>8, <3>3, <3>5
      <4>3. Good(l)
        <5> HIDE DEF Good, l
        <5> QED
          BY <3>2, <4>1
      <4>4. c[l] \in Seq(E) /\ SortedTo(es, Len(es), k - 1, m, c[l])
        BY <4>3 DEF n
      <4>5. k \in 1 .. Len(es) /\ m \in 0 .. Len(es)
            /\ \A i \in 1 .. m : \A j \in 1 .. Len(es) : es[i].weight <= es[j].weight
        BY <1>9, <4>1 DEF n
      <4> HIDE DEF l, D, Good
      <4>6. SortStep(c[l], k) \in Seq(E) /\ SortedTo(es, Len(es), k, m, SortStep(c[l], k))
        BY <4>4, <4>5, SortProgress
      <4>7. Good(k)
        BY <4>2, <4>6 DEF Good, n
      <4> QED
        BY <3>3, <4>7
    <3> QED
      BY <3>4, <3>5
  <2> HIDE DEF Good
  <2>2. \A k \in 0 .. n : Good(k)
    BY <2>1
  <2> QED
    BY <2>2 DEF Good
<1> DEFINE z == IF es = << >> THEN 0 ELSE n - 1
           r == c[z]
<1>10. z \in 0 .. n /\ z \in Nat /\ (n > 0 => z = n - 1)
  BY <1>1 DEF n
<1> HIDE DEF z
<1>11. ASSUME NEW m \in 0 .. n,
              \A i \in 1 .. m : \A j \in 1 .. n : es[i].weight <= es[j].weight
       PROVE  r \in Seq(E) /\ SortedTo(es, n, z, m, r)
  BY <1>9, <1>10, <1>11
<1> HIDE DEF r
<1>12. r \in Seq(E) /\ SortedTo(es, n, z, 0, r)
  <2>1. 0 \in 0 .. n /\ \A i \in 1 .. 0 : FALSE
    BY <1>1
  <2> QED
    BY <1>11, <2>1
<1>13. ASSUME NEW i \in 1 .. n, NEW j \in i .. n
       PROVE  r[i].weight <= r[j].weight
  <2>1. CASE i <= z
    BY <1>10, <1>12, <2>1 DEF SortedTo
  <2>2. CASE ~(i <= z)
    <3>1. i = n /\ j = n
      BY <1>1, <1>10, <2>2
    <3>2. r[n] \in E
      BY <1>1, <1>12, <3>1 DEF SortedTo
    <3>3. r[n].weight \in Nat
      BY <3>2
    <3> QED
      BY <3>1, <3>3
  <2> QED
    BY <2>1, <2>2
<1>14. sortEdges(es) = r
  BY <1>7 DEF r, z
<1>15. ASSUME NEW m \in 0 .. n,
              \A i \in 1 .. m : \A j \in 1 .. n : es[i].weight <= es[j].weight
       PROVE  \A i \in 1 .. m : r[i] = es[i]
  BY <1>11, <1>15 DEF SortedTo
<1>16. Len(r) = n /\ Range(r) = Range(es)
  BY <1>12 DEF SortedTo
<1> QED
  BY <1>12, <1>13, <1>14, <1>15, <1>16 DEF n

-----------------------------------------------------------------------------
(* Kruskal's algorithm *)

(***************************************************************************)
(* What the loop has decided: an edge whose unite has returned is passed,  *)
(* and taken if the answer was TRUE, though the loop has yet to see it.    *)
(***************************************************************************)
Answered == phase = "uniting" /\ request = NoRequest

Passed == IF Answered THEN next ELSE next - 1

Taken == IF Answered /\ answer THEN Append(mst, edges[next]) ELSE mst

PlanTypes ==
  /\ Rows
  /\ phase \in {"start", "edges", "uniting", "done"}
  /\ IF phase = "start" THEN names = << >> /\ edges = << >> /\ mst = << >> /\ next = 1
                        ELSE names \in Queries /\ edges = sortEdges(Joins(names))
  /\ next \in Nat \ {0} /\ next <= Len(edges) + 1
  /\ mst \in Seq(Range(edges))
  /\ IF phase = "uniting"
     THEN Wanted /\ request \in {NoRequest, <<edges[next].u, edges[next].v>>}
     ELSE request = NoRequest
  /\ phase = "done" => ~Wanted /\ plan = IF mst = << >> THEN names ELSE Order(mst)

\* No edge of es leads out of the set of nodes.
Closed(es, nodes) == \A f \in es : f.u \in nodes <=> f.v \in nodes

Roots == {x \in Nodes : parent[x] = x}

StarQuery ==
  /\ names # << >> /\ Distinct
  /\ \A k \in DOMAIN names : rows[names[1]] <= rows[names[k]]

(***************************************************************************)
(* The trees are what the edges taken connect, every edge passed is inside *)
(* a tree, each edge taken made one tree of two, and all of them are as    *)
(* light as the lightest table.  If the first table is one, its edges are  *)
(* taken one after the other.                                              *)
(***************************************************************************)
KruskalInv ==
  /\ \A j \in 1 .. Passed : Root[edges[j].u] = Root[edges[j].v]
  /\ \A nodes \in SUBSET Nodes :
       Closed(Range(Taken), nodes) =>
         \A x, y \in Nodes : Root[x] = Root[y] => (x \in nodes <=> y \in nodes)
  /\ Cardinality(Roots) + Len(Taken) = MaxNodes
  /\ \A i \in DOMAIN Taken : \A k \in DOMAIN names : Taken[i].weight <= rows[names[k]]
  /\ StarQuery => Passed <= Len(names) - 1 /\ Taken = SubSeq(edges, 1, Passed)

LEMMA EdgesAre ==
  ASSUME PlanTypes, phase # "start"
  PROVE  /\ names \in Queries /\ Rows
         /\ edges \in Seq(Edges(names)) /\ Range(edges) = Range(Joins(names))
         /\ Len(edges) = Len(Joins(names))
         /\ \A i \in 1 .. Len(edges) : \A j \in i .. Len(edges) : edges[i].weight <= edges[j].weight
         /\ \A m \in 0 .. Len(edges) :
              (\A i \in 1 .. m : \A j \in 1 .. Len(edges) :
                 Joins(names)[i].weight <= Joins(names)[j].weight)
                => \A i \in 1 .. m : edges[i] = Joins(names)[i]
<1>1. names \in Queries /\ Rows /\ edges = sortEdges(Joins(names))
  BY DEF PlanTypes
<1>2. Joins(names) \in Seq(Edges(names))
  BY <1>1, JoinsAre
<1>3. \A e \in Edges(names) : e.weight \in Nat
  BY DEF Edges
<1> DEFINE es == Joins(names)
           E == Edges(names)
<1> HIDE DEF es, E
<1>4. es \in Seq(E) /\ \A e \in E : e.weight \in Nat
  BY <1>2, <1>3 DEF es, E
<1>5. sortEdges(es) \in Seq(E) /\ Len(sortEdges(es)) = Len(es)
  BY <1>4, SortSorts
<1>6. Range(sortEdges(es)) = Range(es)
  BY <1>4, SortSorts
<1>7. \A i \in 1 .. Len(es) : \A j \in i .. Len(es) :
        sortEdges(es)[i].weight <= sortEdges(es)[j].weight
  BY <1>4, SortSorts
<1>8. \A m \in 0 .. Len(es) :
        (\A i \in 1 .. m : \A j \in 1 .. Len(es) : es[i].weight <= es[j].weight)
          => \A i \in 1 .. m : sortEdges(es)[i] = es[i]
  BY <1>4, SortSorts
<1>9. edges = sortEdges(es)
  BY <1>1 DEF es
<1> QED
  BY <1>1, <1>5, <1>6, <1>7, <1>8, <1>9 DEF es, E

LEMMA EdgeAt ==
  ASSUME PlanTypes, phase # "start", NEW j \in 1 .. Len(edges)
  PROVE  /\ edges[j] \in Edges(names) /\ edges[j] \in Range(edges)
         /\ edges[j].u \in Nodes /\ edges[j].v \in Nodes
         /\ edges[j].u \in FirstNodes(names) /\ edges[j].v \in FirstNodes(names)
<1>1. edges \in Seq(Edges(names)) /\ names \in Queries
  BY EdgesAre
<1>2. edges[j] \in Edges(names) /\ edges[j] \in Range(edges)
  BY <1>1 DEF Range
<1>3. FirstNodes(names) \subseteq Nodes
  BY <1>1, FirstNodesAre
<1> QED
  BY <1>2, <1>3 DEF Edges

(***************************************************************************)
(* What the planner does to the forest is what anyone may do to it.        *)
(***************************************************************************)
LEMMA PlanUsesForest ==
  ASSUME PlanTypes, [Next]_jvars
  PROVE  [UFNext]_ufvars /\ rows' = rows
<1>1. CASE \E q \in Queries : optimize(q)
  BY <1>1 DEF optimize, ufvars
<1>2. CASE TryEdge
  <2>1. next \in 1 .. Len(edges) /\ phase # "start"
    BY <1>2 DEF TryEdge, Wanted, PlanTypes
  <2>2. edges[next].u \in Nodes /\ edges[next].v \in Nodes
    BY <2>1, EdgeAt
  <2> QED
    BY <1>2, <2>2 DEF TryEdge, UFNext
<1>3. CASE Unite
  BY <1>3 DEF Unite, UFNext
<1>4. CASE TakeEdge
  BY <1>4 DEF TakeEdge, ufvars
<1>5. CASE Rebuild
  BY <1>5 DEF Rebuild, ufvars
<1>6. CASE UNCHANGED jvars
  BY <1>6 DEF jvars, ufvars
<1> QED
  BY <1>1, <1>2, <1>3, <1>4, <1>5, <1>6 DEF Next, Step, Done

LEMMA NextKeepsTypes ==
  ASSUME PlanTypes, [Next]_jvars
  PROVE  PlanTypes'
<1>0. Rows' /\ rows' = rows
  BY PlanUsesForest DEF PlanTypes, Rows
<1>1. ASSUME NEW q \in Queries, optimize(q)
      PROVE  PlanTypes'
  <2>1. /\ names' = q /\ edges' = sortEdges(Joins(q)) /\ phase' = "edges"
        /\ UNCHANGED <<next, mst, request>> /\ phase = "start"
    BY <1>1 DEF optimize, ufvars
  <2>2. Joins(names)' = Joins(q)
    BY <1>0, <2>1 DEF Joins
  <2>3. names' \in Queries /\ edges' = sortEdges(Joins(names)')
    BY <2>1, <2>2
  <2>4. next' = 1 /\ mst' = << >> /\ request' = NoRequest
    BY <2>1 DEF PlanTypes
  <2>5. Len(edges') \in Nat
    <3>1. Joins(q) \in Seq(Edges(q)) /\ \A e \in Edges(q) : e.weight \in Nat
      BY JoinsAre DEF PlanTypes, Edges
    <3> DEFINE E == Edges(q)
               es == Joins(q)
    <3> HIDE DEF E, es
    <3>2. es \in Seq(E) /\ \A e \in E : e.weight \in Nat
      BY <3>1 DEF E, es
    <3>3. sortEdges(es) \in Seq(E)
      BY <3>2, SortSorts
    <3>4. Len(sortEdges(es)) \in Nat
      BY <3>3
    <3> QED
      BY <2>1, <3>4 DEF es
  <2>6. mst' \in Seq(Range(edges)')
    BY <2>4
  <2> QED
    BY <1>0, <2>1, <2>3, <2>4, <2>5, <2>6 DEF PlanTypes
<1>2. ASSUME UNCHANGED <<names, edges, next, mst, plan>>, phase # "start", phase' # "start",
             phase' \in {"edges", "uniting", "done"},
             IF phase' = "uniting"
             THEN Wanted' /\ request' \in {NoRequest, <<edges'[next'].u, edges'[next'].v>>}
             ELSE request' = NoRequest,
             phase' = "done" => phase = "done"
      PROVE  PlanTypes'
  <2>1. Joins(names)' = Joins(names)
    BY <1>0, <1>2 DEF Joins
  <2>2. Wanted' = Wanted /\ Order(mst)' = Order(mst) /\ Range(edges)' = Range(edges)
    BY <1>2 DEF Wanted, Order
  <2> QED
    BY <1>0, <1>2, <2>1, <2>2 DEF PlanTypes
<1>3. CASE TryEdge
  BY <1>2, <1>3 DEF TryEdge, unite, Wanted, PlanTypes
<1>4. CASE Unite
  <2>1. request' \in {NoRequest, request}
    BY <1>4 DEF Unite, Find, FindX, FindY, Link
  <2>2. Wanted' = Wanted
    BY <1>4 DEF Unite, Wanted
  <2> QED
    BY <1>2, <1>4, <2>1, <2>2 DEF Unite, PlanTypes
<1>5. CASE TakeEdge
  <2>1. /\ phase = "uniting" /\ request = NoRequest /\ phase' = "edges" /\ request' = NoRequest
        /\ mst' = (IF answer THEN Append(mst, edges[next]) ELSE mst) /\ next' = next + 1
        /\ UNCHANGED <<names, rows, edges>>
    BY <1>5 DEF TakeEdge, ufvars
  <2>2. next \in 1 .. Len(edges) /\ Len(edges) \in Nat
    BY <2>1, EdgesAre DEF PlanTypes, Wanted
  <2>3. edges[next] \in Range(edges)
    BY <2>1, <2>2, EdgeAt
  <2>4. mst' \in Seq(Range(edges)')
    BY <2>1, <2>3 DEF PlanTypes
  <2>5. Joins(names)' = Joins(names)
    BY <2>1 DEF Joins
  <2>6. next' \in Nat \ {0} /\ next' <= Len(edges') + 1
    BY <2>1, <2>2
  <2> QED
    BY <1>0, <2>1, <2>4, <2>5, <2>6 DEF PlanTypes
<1>6. CASE Rebuild
  <2>1. /\ phase' = "done" /\ phase = "edges" /\ ~Wanted /\ plan' = (IF mst = << >> THEN names ELSE Order(mst))
        /\ UNCHANGED <<names, rows, edges, next, mst, request>>
    BY <1>6 DEF Rebuild, ufvars
  <2>2. Joins(names)' = Joins(names)
    BY <2>1 DEF Joins
  <2>3. Wanted' = Wanted /\ Order(mst)' = Order(mst) /\ Range(edges)' = Range(edges)
    BY <2>1 DEF Wanted, Order
  <2> QED
    BY <1>0, <2>1, <2>2, <2>3 DEF PlanTypes
<1>7. CASE UNCHANGED jvars
  <2>1. UNCHANGED <<request, phase, names, rows, edges, next, mst, plan>>
    BY <1>7 DEF jvars, ufvars
  <2>2. Joins(names)' = Joins(names)
    BY <2>1 DEF Joins
  <2>3. Wanted' = Wanted /\ Order(mst)' = Order(mst) /\ Range(edges)' = Range(edges)
    BY <2>1 DEF Wanted, Order
  <2> QED
    BY <1>0, <2>1, <2>2, <2>3 DEF PlanTypes
<1> QED
  BY <1>1, <1>3, <1>4, <1>5, <1>6, <1>7 DEF Next, Step, Done

LEMMA KruskalSame ==
  ASSUME KruskalInv, UNCHANGED <<names, rows, edges>>,
         Passed' = Passed, Taken' = Taken, Root' = Root, Roots' = Roots
  PROVE  KruskalInv'
<1>1. StarQuery' = StarQuery
  BY DEF StarQuery, Distinct
<1> QED
  BY <1>1 DEF KruskalInv

(***************************************************************************)
(* If the first table is a lightest one, its edges come first.             *)
(***************************************************************************)
LEMMA StarEdges ==
  ASSUME PlanTypes, phase # "start", StarQuery
  PROVE  /\ Len(names) \in Nat /\ Len(names) >= 1 /\ Len(names) - 1 <= Len(edges)
         /\ \A j \in 1 .. Len(names) - 1 : edges[j].u = 0 /\ edges[j].v = j
<1> DEFINE n == Len(names)
           es == Joins(names)
           w == rows[names[1]]
<1>1. /\ names \in Queries /\ Rows /\ Len(edges) = Len(es) /\ Len(edges) \in Nat
      /\ es \in Seq(Edges(names))
  BY EdgesAre, JoinsAre
<1>2. n \in Nat /\ n >= 1 /\ DOMAIN names = 1 .. n
  BY <1>1, QueryType
<1>3. IsInjective(names) /\ \A k \in 1 .. n : w <= rows[names[k]]
  BY <1>2 DEF StarQuery, Distinct
<1>4. /\ n - 1 <= Len(es) /\ \A j \in 1 .. n - 1 : es[j] = EdgeOf(names, 1, 1 + j)
      /\ \A k \in 1 .. n : tableIndex(names, names[k]) = k - 1
  BY <1>1, <1>3, FirstJoins
<1>5. Least(names, w)
  <2>1. 1 \in 1 .. n /\ w \in Nat
    BY <1>1, <1>2, QueryType DEF Rows
  <2> QED
    BY <1>3, <2>1 DEF Least
<1>6. ASSUME NEW j \in 1 .. n - 1
      PROVE  es[j].u = 0 /\ es[j].v = j /\ es[j].weight = w
  <2>1. 1 \in 1 .. n /\ 1 + j \in 1 .. n /\ (1 + j) - 1 = j
    BY <1>2
  <2>2. rows[names[1 + j]] \in Nat /\ w \in Nat /\ w <= rows[names[1 + j]]
    BY <1>1, <1>3, <2>1, QueryType DEF Rows
  <2>3. tableIndex(names, names[1]) = 0 /\ tableIndex(names, names[1 + j]) = j
    BY <1>4, <2>1
  <2>4. (IF w < rows[names[1 + j]] THEN w ELSE rows[names[1 + j]]) = w
    BY <2>2
  <2>5. EdgeOf(names, 1, 1 + j) = [u |-> 0, v |-> j, weight |-> w]
    BY <2>3, <2>4 DEF EdgeOf
  <2> QED
    BY <1>4, <2>5
<1>7. \A j \in 1 .. Len(es) : w <= es[j].weight
  <2>1. \A j \in 1 .. Len(es) : es[j] \in Range(es)
    BY <1>1 DEF Range
  <2> QED
    BY <1>1, <1>5, <2>1, EdgesWeigh
<1> HIDE DEF n, es, w
<1>8. n - 1 \in 0 .. Len(edges)
  BY <1>1, <1>2, <1>4
<1>9. \A i \in 1 .. n - 1 : \A j \in 1 .. Len(edges) : es[i].weight <= es[j].weight
  BY <1>1, <1>6, <1>7
<1>10. \A i \in 1 .. n - 1 : edges[i] = es[i]
  <2>1. \A m \in 0 .. Len(edges) :
          (\A i \in 1 .. m : \A j \in 1 .. Len(edges) : es[i].weight <= es[j].weight)
            => \A i \in 1 .. m : edges[i] = es[i]
    BY EdgesAre DEF es
  <2> QED
    BY <1>8, <1>9, <2>1
<1> QED
  BY <1>1, <1>2, <1>4, <1>6, <1>10 DEF n

(***************************************************************************)
(* An edge that joins two trees is as light as the lightest table: if it   *)
(* were not, the edges of that table would have come before it, and all    *)
(* nodes with edges would be in one tree.                                  *)
(***************************************************************************)
LEMMA TakenIsLight ==
  ASSUME PlanTypes, phase # "start", KruskalInv, NEW e, e = edges[next], next <= Len(edges),
         Passed = next - 1, Root[e.u] # Root[e.v]
  PROVE  \A k \in DOMAIN names : e.weight <= rows[names[k]]
<1>1. /\ names \in Queries /\ Rows /\ Range(edges) = Range(Joins(names))
      /\ edges \in Seq(Edges(names)) /\ Len(edges) \in Nat
  BY EdgesAre
<1>2. PICK w : Least(names, w)
  BY <1>1, LeastExists
<1>3. w \in Nat /\ \A k \in DOMAIN names : w <= rows[names[k]]
  BY <1>1, <1>2, QueryType DEF Least
<1>4. next \in 1 .. Len(edges)
  BY <1>1 DEF PlanTypes
<1>5. e.u \in FirstNodes(names) /\ e.v \in FirstNodes(names) /\ e.weight \in Nat
  BY <1>4, EdgeAt DEF Edges
<1>6. PICK m \in FirstNodes(names) : \A d \in FirstNodes(names) \ {m} :
        \E f \in Range(edges) : f.weight = w /\ {f.u, f.v} = {m, d}
  <2>1. HasStar(names, w, Range(edges))
    BY <1>1, <1>2, LightStar
  <2> QED
    BY <2>1 DEF HasStar
<1>7. ASSUME ~(e.weight <= w)
      PROVE  FALSE
  <2>1. ASSUME NEW d \in FirstNodes(names)
        PROVE  Root[d] = Root[m]
    <3>1. CASE d = m
      BY <3>1
    <3>2. CASE d # m
      <4>1. PICK f \in Range(edges) : f.weight = w /\ {f.u, f.v} = {m, d}
        BY <1>6, <3>2
      <4>2. PICK j \in 1 .. Len(edges) : f = edges[j]
        BY <1>1 DEF Range
      <4>3. ~(next <= j)
        <5>1. SUFFICES ASSUME next <= j PROVE FALSE
          OBVIOUS
        <5>2. j \in next .. Len(edges)
          BY <1>4, <5>1
        <5>3. e.weight <= f.weight
          BY <1>4, <4>2, <5>2, EdgesAre
        <5> QED
          BY <1>7, <4>1, <5>3
      <4>4. j \in 1 .. Passed
        BY <1>4, <4>3
      <4>5. Root[f.u] = Root[f.v]
        BY <4>2, <4>4 DEF KruskalInv
      <4> QED
        BY <4>1, <4>5
    <3> QED
      BY <3>1, <3>2
  <2> QED
    BY <1>5, <2>1
<1>8. e.weight <= w
  BY <1>7
<1>9. \A k \in DOMAIN names : rows[names[k]] \in Nat
  BY <1>1, QueryType DEF Rows
<1> QED
  BY <1>3, <1>5, <1>8, <1>9

(***************************************************************************)
(* The edge that is tried next, while the first table's edges are tried,   *)
(* joins a node that no edge has reached.                                  *)
(***************************************************************************)
LEMMA StarJoins ==
  ASSUME PlanTypes, KruskalInv, StarQuery, phase = "uniting", request # NoRequest
  PROVE  /\ next <= Len(names) - 1 /\ Root[edges[next].u] # Root[edges[next].v]
         /\ Append(mst, edges[next]) = SubSeq(edges, 1, next)
<1>1. Passed = next - 1 /\ Taken = mst
  BY DEF Passed, Taken, Answered
<1>2. /\ Len(names) \in Nat /\ Len(names) >= 1 /\ Len(names) - 1 <= Len(edges)
      /\ \A j \in 1 .. Len(names) - 1 : edges[j].u = 0 /\ edges[j].v = j
  BY StarEdges
<1>3. /\ next \in Nat /\ next >= 1 /\ next <= Len(edges) /\ Len(mst) < Len(names) - 1
      /\ mst = SubSeq(edges, 1, next - 1) /\ edges \in Seq(Edges(names)) /\ Len(edges) \in Nat
  BY <1>1, EdgesAre DEF PlanTypes, Wanted, KruskalInv
<1>4. Len(mst) = next - 1 /\ \A i \in 1 .. next - 1 : mst[i] = edges[i]
  BY <1>3
<1>5. next \in 1 .. Len(names) - 1 /\ next - 1 \in Nat
  BY <1>2, <1>3, <1>4
<1>6. edges[next].u = 0 /\ edges[next].v = next /\ 0 \in Nodes /\ next \in Nodes
  BY <1>2, <1>3, <1>5, EdgeAt
<1>7. Closed(Range(mst), {next})
  <2>1. ASSUME NEW f \in Range(mst)
        PROVE  f.u # next /\ f.v # next
    <3>1. PICK i \in 1 .. next - 1 : f = edges[i]
      BY <1>3, <1>4 DEF Range
    <3>2. f.u = 0 /\ f.v = i
      BY <1>2, <1>5, <3>1
    <3> QED
      BY <1>3, <3>2
  <2> QED
    BY <2>1 DEF Closed
<1>8. Root[0] # Root[next]
  <2>1. {next} \in SUBSET Nodes /\ 0 # next
    BY <1>3, <1>6
  <2> QED
    BY <1>1, <1>6, <1>7, <2>1 DEF KruskalInv
<1>9. Append(mst, edges[next]) = SubSeq(edges, 1, next)
  BY <1>3
<1> QED
  BY <1>5, <1>6, <1>8, <1>9
(***************************************************************************)
(* The two roots are the roots of the edge's nodes; linking them decides   *)
(* the edge.                                                               *)
(***************************************************************************)
LEMMA LinkDecides ==
  ASSUME PlanTypes, UFInv, TreesInv, phase = "uniting", Link,
         UNCHANGED <<phase, names, rows, edges, next, mst>>
  PROVE  /\ request # NoRequest /\ next \in 1 .. Len(edges)
         /\ edges[next].u \in Nodes /\ edges[next].v \in Nodes
         /\ Root[edges[next].u] = px /\ Root[edges[next].v] = py
         /\ px \in Roots /\ py \in Roots
         /\ Passed = next - 1 /\ Taken = mst /\ Passed' = next
         /\ Taken' = IF px # py THEN Append(mst, edges[next]) ELSE mst
         /\ edges[next] \in Range(edges) /\ mst \in Seq(Range(edges))
<1>1. /\ request # NoRequest /\ request' = NoRequest /\ answer' = (px # py)
      /\ parent[py] = py /\ parent[px] = px /\ px \in Nodes /\ py \in Nodes /\ walk = "y"
  BY DEF UFInv, UFTypeOK, Link
<1>2. request = <<edges[next].u, edges[next].v>> /\ next \in 1 .. Len(edges)
  <2>1. Len(edges) \in Nat
    BY EdgesAre
  <2> QED
    BY <1>1, <2>1 DEF PlanTypes, Wanted
<1>3. edges[next].u \in Nodes /\ edges[next].v \in Nodes /\ edges[next] \in Range(edges)
  BY <1>2, EdgeAt
<1>4. Root[px] = px /\ Root[py] = py
  BY <1>1, RootFacts DEF TreesInv
<1>5. Root[edges[next].u] = px /\ Root[edges[next].v] = py
  BY <1>1, <1>2, <1>4 DEF TreesInv
<1>6. ~Answered /\ Answered'
  BY <1>1 DEF Answered
<1>7. /\ Passed = next - 1 /\ Taken = mst /\ Passed' = next
      /\ Taken' = IF px # py THEN Append(mst, edges[next]) ELSE mst
  BY <1>1, <1>6 DEF Passed, Taken
<1>8. mst \in Seq(Range(edges))
  BY DEF PlanTypes
<1> QED
  BY <1>1, <1>2, <1>3, <1>5, <1>7, <1>8 DEF Roots

LEMMA LinkKeepsKruskal ==
  ASSUME PlanTypes, UFInv, TreesInv, KruskalInv, phase = "uniting", Link,
         UNCHANGED <<phase, names, rows, edges, next, mst>>
  PROVE  KruskalInv'
<1> DEFINE e == edges[next]
<1>1. /\ request # NoRequest /\ next \in 1 .. Len(edges)
      /\ e.u \in Nodes /\ e.v \in Nodes
      /\ Root[e.u] = px /\ Root[e.v] = py
      /\ px \in Roots /\ py \in Roots
      /\ Passed = next - 1 /\ Taken = mst /\ Passed' = next
      /\ Taken' = IF px # py THEN Append(mst, e) ELSE mst
      /\ e \in Range(edges) /\ mst \in Seq(Range(edges))
  BY LinkDecides
<1>2. phase # "start" /\ Len(edges) \in Nat
  BY EdgesAre
<1>3. StarQuery' = StarQuery
  BY DEF StarQuery, Distinct
<1>4. \A j \in 1 .. next - 1 : /\ edges[j].u \in Nodes /\ edges[j].v \in Nodes
                               /\ Root[edges[j].u] = Root[edges[j].v]
  <2>1. \A j \in 1 .. next - 1 : j \in 1 .. Len(edges)
    BY <1>1, <1>2
  <2> QED
    BY <1>1, <1>2, <2>1, EdgeAt DEF KruskalInv
<1>5. StarQuery => /\ next <= Len(names) - 1 /\ px # py
                   /\ Append(mst, e) = SubSeq(edges, 1, next)
  BY <1>1, StarJoins
<1> HIDE DEF e
<1>6. \A j \in 1 .. next : j = next \/ j \in 1 .. next - 1
  BY <1>1, <1>2
<1>7. CASE px = py
  <2>1. parent' = parent
    BY <1>7 DEF Link
  <2>2. Root' = Root /\ Roots' = Roots
    BY <2>1 DEF Root, Roots
  <2>3. \A j \in 1 .. next : Root[edges[j].u] = Root[edges[j].v]
    BY <1>1, <1>4, <1>6, <1>7 DEF e
  <2>4. Taken' = Taken /\ ~StarQuery
    BY <1>1, <1>5, <1>7
  <2> QED
    BY <1>1, <1>3, <2>2, <2>3, <2>4 DEF KruskalInv
<1>8. CASE px # py
  <2>1. PICK top \in Nodes, low \in Nodes :
          /\ {top, low} = {px, py} /\ top # low
          /\ parent' = [parent EXCEPT ![low] = top]
          /\ Root' = [x \in Nodes |-> IF Root[x] = low THEN top ELSE Root[x]]
    BY <1>8, LinkJoinsTrees
  <2>2. Taken' = Append(mst, e) /\ Len(mst) \in Nat /\ Len(Taken') = Len(mst) + 1
    BY <1>1, <1>8
  <2>3. \A j \in 1 .. next : Root'[edges[j].u] = Root'[edges[j].v]
    <3>1. Root'[e.u] = Root'[e.v]
      BY <1>1, <2>1
    <3>2. \A j \in 1 .. next - 1 : Root'[edges[j].u] = Root'[edges[j].v]
      BY <1>4, <2>1
    <3> QED
      BY <1>6, <3>1, <3>2 DEF e
  <2>4. ASSUME NEW nodes \in SUBSET Nodes, Closed(Range(Taken'), nodes),
               NEW x \in Nodes, NEW y \in Nodes, Root'[x] = Root'[y]
        PROVE  x \in nodes <=> y \in nodes
    <3>1. Range(Taken') = Range(mst) \union {e}
      BY <1>1, <2>2, RangeAppend
    <3>2. Closed(Range(mst), nodes) /\ (e.u \in nodes <=> e.v \in nodes)
      BY <2>4, <3>1 DEF Closed
    <3>3. \A a, b \in Nodes : Root[a] = Root[b] => (a \in nodes <=> b \in nodes)
      BY <1>1, <3>2 DEF KruskalInv
    <3>4. Root[x] = Root[y] \/ {Root[x], Root[y]} = {px, py}
      BY <2>1, <2>4
    <3> QED
      BY <1>1, <3>2, <3>3, <3>4
  <2>5. Cardinality(Roots)' + Len(Taken)' = MaxNodes
    <3>1. parent \in [Nodes -> Nodes]
      BY DEF UFInv, UFTypeOK
    <3>2. low \in Roots /\ Roots' = Roots \ {low}
      BY <1>1, <2>1, <3>1 DEF Roots
    <3>3. IsFiniteSet(Roots)
      <4>1. IsFiniteSet(Nodes) /\ Roots \subseteq Nodes
        BY UnionFindAssumption, FS_Interval DEF Nodes, Roots
      <4> QED
        BY <4>1, FS_Subset
    <3>4. Cardinality(Roots) \in Nat /\ Cardinality(Roots \ {low}) = Cardinality(Roots) - 1
      BY <3>2, <3>3, FS_RemoveElement, FS_CardinalityType
    <3>5. Cardinality(Roots) + Len(mst) = MaxNodes
      BY <1>1 DEF KruskalInv
    <3> QED
      BY <2>2, <3>2, <3>4, <3>5
  <2>6. \A i \in DOMAIN Taken' : \A k \in DOMAIN names : Taken'[i].weight <= rows[names[k]]
    <3>1. \A k \in DOMAIN names : e.weight <= rows[names[k]]
      <4>1. next <= Len(edges) /\ Root[e.u] # Root[e.v]
        BY <1>1, <1>2, <1>8
      <4> QED
        BY <1>1, <1>2, <4>1, TakenIsLight DEF e
    <3>2. \A i \in DOMAIN mst : \A k \in DOMAIN names : mst[i].weight <= rows[names[k]]
      BY <1>1 DEF KruskalInv
    <3>3. \A i \in DOMAIN Taken' : (i \in DOMAIN mst /\ Taken'[i] = mst[i]) \/ Taken'[i] = e
      BY <1>1, <2>2
    <3> QED
      BY <3>1, <3>2, <3>3
  <2>7. StarQuery => next <= Len(names) - 1 /\ Taken' = SubSeq(edges, 1, next)
    BY <1>5, <2>2
  <2> QED
    BY <1>1, <1>3, <2>3, <2>4, <2>5, <2>6, <2>7 DEF KruskalInv
<1> QED
  BY <1>7, <1>8

(***************************************************************************)
(* A find that halves a path, or that goes on to the second node, changes  *)
(* no tree and decides nothing.                                            *)
(***************************************************************************)
LEMMA WalkKeepsKruskal ==
  ASSUME UFInv, TreesInv, KruskalInv, FindX \/ FindY,
         UNCHANGED <<phase, names, rows, edges, next, mst>>
  PROVE  KruskalInv'
<1>1. request # NoRequest /\ request' # NoRequest
  BY DEF UFInv, FindX, FindY
<1>2. Passed' = Passed /\ Taken' = Taken
  BY <1>1 DEF Passed, Taken, Answered
<1>3. Root' = Root /\ Roots' = Roots
  <2>1. UFTypeOK /\ RanksGrow /\ px \in Nodes /\ py \in Nodes
    BY DEF UFInv, UFTypeOK, FindX, FindY
  <2>2. ASSUME NEW x \in Nodes, parent[x] # x, parent' = Halved(x), rank' = rank
        PROVE  Root' = Root /\ Roots' = Roots
    <3>1. Root' = Root
      BY <2>1, <2>2, HalvingKeepsRoots
    <3>2. \A y \in Nodes : parent'[y] = y <=> parent[y] = y
      BY <2>1, <2>2, HalvingKeepsRoots
    <3> QED
      BY <3>1, <3>2 DEF Roots
  <2>3. parent' = parent => Root' = Root /\ Roots' = Roots
    BY DEF Root, Roots
  <2> QED
    BY <2>1, <2>2, <2>3 DEF FindX, FindY
<1> QED
  BY <1>2, <1>3, KruskalSame

LEMMA NextKeepsKruskal ==
  ASSUME PlanTypes, UFInv, TreesInv, KruskalInv, [Next]_jvars
  PROVE  KruskalInv'
<1>1. ASSUME NEW q \in Queries, optimize(q)
      PROVE  KruskalInv'
  <2>1. /\ phase = "start" /\ phase' = "edges" /\ names' = q /\ rows' = rows
        /\ UNCHANGED ufvars /\ next' = next /\ mst' = mst
    BY <1>1 DEF optimize
  <2>2. next = 1 /\ mst = << >> /\ names = << >> /\ edges = << >>
    BY <2>1 DEF PlanTypes
  <2>3. Passed = 0 /\ Taken = << >> /\ Passed' = 0 /\ Taken' = << >>
    BY <2>1, <2>2 DEF Passed, Taken, Answered
  <2>4. Root' = Root /\ Roots' = Roots
    BY <2>1 DEF ufvars, Root, Roots
  <2>5. Len(names') - 1 \in Nat /\ SubSeq(edges', 1, 0) = << >>
    <3>1. Len(q) \in Nat /\ Len(q) >= 1
      BY QueryType
    <3> QED
      BY <2>1, <3>1
  <2> QED
    BY <2>3, <2>4, <2>5 DEF KruskalInv
<1>2. ASSUME UNCHANGED <<names, rows, edges, parent>>, Passed' = Passed, Taken' = Taken
      PROVE  KruskalInv'
  <2>1. Root' = Root /\ Roots' = Roots
    BY <1>2 DEF Root, Roots
  <2> QED
    BY <1>2, <2>1, KruskalSame
<1>3. CASE TryEdge
  <2>1. request' # NoRequest
    <3>1. next \in 1 .. Len(edges) /\ phase # "start"
      BY <1>3 DEF TryEdge, Wanted, PlanTypes
    <3>2. edges[next].u \in Nodes /\ edges[next].v \in Nodes
      BY <3>1, EdgeAt
    <3> QED
      BY <1>3, <3>2, UnionFindAssumption DEF TryEdge, unite
  <2>2. Passed' = Passed /\ Taken' = Taken
    BY <1>3, <2>1 DEF TryEdge, Passed, Taken, Answered
  <2> QED
    BY <1>2, <1>3, <2>2 DEF TryEdge, unite
<1>4. CASE Unite
  <2>1. CASE FindX \/ FindY
    BY <1>4, <2>1, WalkKeepsKruskal DEF Unite
  <2>2. CASE Link
    BY <1>4, <2>2, LinkKeepsKruskal DEF Unite
  <2> QED
    BY <1>4, <2>1, <2>2 DEF Unite, Find
<1>5. CASE TakeEdge
  <2>1. /\ phase = "uniting" /\ request = NoRequest /\ phase' = "edges"
        /\ mst' = (IF answer THEN Append(mst, edges[next]) ELSE mst) /\ next' = next + 1
        /\ UNCHANGED <<names, rows, edges, parent>>
    BY <1>5 DEF TakeEdge, ufvars
  <2>2. Passed' = Passed /\ Taken' = Taken
    BY <2>1 DEF Passed, Taken, Answered, PlanTypes
  <2> QED
    BY <1>2, <2>1, <2>2
<1>6. CASE Rebuild
  <2>1. Passed' = Passed /\ Taken' = Taken
    BY <1>6 DEF Rebuild, Passed, Taken, Answered
  <2> QED
    BY <1>2, <1>6, <2>1 DEF Rebuild, ufvars
<1>7. CASE UNCHANGED jvars
  <2>1. Passed' = Passed /\ Taken' = Taken
    BY <1>7 DEF jvars, ufvars, Passed, Taken, Answered
  <2> QED
    BY <1>2, <1>7, <2>1 DEF jvars, ufvars
<1> QED
  BY <1>1, <1>3, <1>4, <1>5, <1>6, <1>7 DEF Next, Step, Done
-----------------------------------------------------------------------------
(* What holds in every state of the planner *)

PlanInv == PlanTypes /\ UFInv /\ TreesInv /\ KruskalInv

LEMMA InitIsPlanned == Init => PlanInv
<1> SUFFICES ASSUME Init PROVE PlanInv
  OBVIOUS
<1>1. /\ UFInit /\ phase = "start" /\ names = << >> /\ edges = << >> /\ next = 1 /\ mst = << >>
      /\ rows \in [Names -> RowCounts] /\ request = NoRequest
  BY DEF Init, UFInit
<1>2. PlanTypes
  <2>1. Rows
    BY <1>1, JoinPlanAssumption DEF Rows
  <2>2. Len(edges) = 0 /\ mst \in Seq(Range(edges))
    BY <1>1
  <2> QED
    BY <1>1, <2>1, <2>2 DEF PlanTypes
<1>3. UFInv
  BY <1>1, InitHasForest
<1>4. TreesInv /\ Root = [x \in Nodes |-> x]
  BY <1>1, InitHasTrees
<1>5. KruskalInv
  <2>1. Passed = 0 /\ Taken = << >> /\ ~StarQuery
    BY <1>1 DEF Passed, Taken, Answered, StarQuery
  <2>2. Roots = Nodes /\ Cardinality(Nodes) = MaxNodes
    <3>1. Roots = Nodes
      BY <1>1 DEF UFInit, Roots
    <3>2. MaxNodes \in Nat /\ Nodes = 0 .. MaxNodes - 1
      BY UnionFindAssumption DEF Nodes
    <3>3. Cardinality(0 .. MaxNodes - 1) = IF 0 > MaxNodes - 1 THEN 0 ELSE (MaxNodes - 1) - 0 + 1
      BY <3>2, FS_Interval
    <3> QED
      BY <3>1, <3>2, <3>3
  <2>3. Cardinality(Roots) + Len(Taken) = MaxNodes
    BY <2>1, <2>2, UnionFindAssumption
  <2>4. \A j \in 1 .. Passed : FALSE
    BY <2>1
  <2>5. \A x, y \in Nodes : Root[x] = Root[y] => x = y
    BY <1>4
  <2> QED
    BY <2>1, <2>3, <2>4, <2>5 DEF KruskalInv
<1> QED
  BY <1>2, <1>3, <1>4, <1>5 DEF PlanInv

LEMMA NextKeepsPlan == PlanInv /\ [Next]_jvars => PlanInv'
<1> SUFFICES ASSUME PlanInv, [Next]_jvars PROVE PlanInv'
  OBVIOUS
<1>1. PlanTypes /\ UFInv /\ TreesInv /\ KruskalInv
  BY DEF PlanInv
<1>2. [UFNext]_ufvars
  BY <1>1, PlanUsesForest
<1>3. PlanTypes'
  BY <1>1, NextKeepsTypes
<1>4. UFInv'
  BY <1>1, <1>2, NextKeepsForest
<1>5. TreesInv'
  BY <1>1, <1>2, NextKeepsTrees
<1>6. KruskalInv'
  BY <1>1, NextKeepsKruskal
<1> QED
  BY <1>3, <1>4, <1>5, <1>6 DEF PlanInv

(***************************************************************************)
(* Whatever the tables and their sizes, the planner's state is in its      *)
(* ranges, its forest is one, and the edges it has taken connect what the  *)
(* edges it has passed do.                                                 *)
(***************************************************************************)
THEOREM PlanInvariant == Spec => []PlanInv
<1> QED
  BY InitIsPlanned, NextKeepsPlan, PTL DEF Spec

-----------------------------------------------------------------------------
(* The order of the plan *)

LEMMA StarPlan ==
  ASSUME PlanInv, phase = "done", StarQuery
  PROVE  plan = names
<1> DEFINE n == Len(names)
<1>1. PlanTypes /\ KruskalInv
  BY DEF PlanInv
<1>2. Passed = next - 1 /\ Taken = mst /\ ~Wanted
  BY <1>1 DEF Passed, Taken, Answered, PlanTypes
<1>3. /\ n \in Nat /\ n >= 1 /\ n - 1 <= Len(edges)
      /\ \A j \in 1 .. n - 1 : edges[j].u = 0 /\ edges[j].v = j
  BY <1>1, StarEdges
<1>4. Len(edges) \in Nat /\ edges \in Seq(Edges(names)) /\ names \in Seq(Names)
  BY <1>1, EdgesAre, QueryType
<1>5. next \in Nat /\ next >= 1 /\ next - 1 <= n - 1 /\ mst = SubSeq(edges, 1, next - 1)
  BY <1>1, <1>2 DEF PlanTypes, KruskalInv
<1>6. Len(mst) = next - 1 /\ \A i \in 1 .. next - 1 : mst[i] = edges[i]
  BY <1>3, <1>4, <1>5
<1>7. next - 1 = n - 1
  BY <1>2, <1>3, <1>4, <1>5, <1>6 DEF Wanted
<1>8. Len(mst) = n - 1 /\ \A j \in 1 .. n - 1 : mst[j].u = 0 /\ mst[j].v = j
  BY <1>3, <1>6, <1>7
<1>9. plan = IF mst = << >> THEN names ELSE Order(mst)
  BY <1>1 DEF PlanTypes
<1>10. CASE mst # << >>
  <2>1. n > 1 /\ DOMAIN mst = 1 .. n - 1
    <3>1. mst \in Seq(Edges(names))
      <4> DEFINE E == Edges(names)
      <4> HIDE DEF E
      <4>1. SubSeq(edges, 1, next - 1) \in Seq(E)
        BY <1>3, <1>4, <1>5 DEF E
      <4> QED
        BY <1>5, <4>1 DEF E
    <3>2. DOMAIN mst = 1 .. n - 1
      BY <1>8, <3>1
    <3> QED
      BY <1>3, <1>8, <1>10, <3>1, <3>2
  <2>2. mst[1].u + 1 = 1 /\ \A j \in 1 .. n - 1 : mst[j].v + 1 = j + 1
    BY <1>8, <2>1, <1>3
  <2> DEFINE tail == [k \in 1 .. n - 1 |-> names[k + 1]]
  <2>3. Order(mst) = <<names[1]>> \o tail
    BY <2>1, <2>2 DEF Order
  <2>4. <<names[1]>> \o tail = names
    <3>1. tail \in Seq(Names) /\ Len(tail) = n - 1 /\ names[1] \in Names
      BY <1>3, <1>4
    <3> QED
      BY <1>3, <1>4, <3>1
  <2> QED
    BY <1>9, <1>10, <2>3, <2>4
<1> QED
  BY <1>9, <1>10

(***************************************************************************)
(* A query that begins with a table no other is smaller than is joined in  *)
(* its own order: optimize changes nothing of the demonstration's query,   *)
(* however many tables follow.                                             *)
(***************************************************************************)
THEOREM PlanKeepsOrder == Spec => []PlanKeepsOrderIfFirstIsSmallest
<1>1. PlanInv => PlanKeepsOrderIfFirstIsSmallest
  <2>1. PlanInv /\ phase = "done" => names # << >>
    <3>1. PlanTypes /\ phase = "done" => names \in Queries
      BY DEF PlanTypes
    <3>2. \A q \in Queries : q # << >>
      BY QueryType
    <3> QED
      BY <3>1, <3>2 DEF PlanInv
  <2> QED
    BY <2>1, StarPlan DEF PlanKeepsOrderIfFirstIsSmallest, StarQuery
<1> QED
  BY <1>1, PlanInvariant, PTL
-----------------------------------------------------------------------------
(* What the edges connect *)

\* A round of Reached, and all of them.
Wider(es, set) == set \union {e.u : e \in {f \in es : f.v \in set}}
                      \union {e.v : e \in {f \in es : f.u \in set}}

Rounds(es, x) ==
  CHOOSE r : r = [k \in 0 .. Len(names) |-> IF k = 0 THEN {x} ELSE Wider(es, r[k - 1])]

AreRounds(es, x, r) ==
  /\ r \in [0 .. Len(names) -> SUBSET Tables]
  /\ r[0] = {x}
  /\ \A k \in 1 .. Len(names) : r[k] = Wider(es, r[k - 1])

TableEdges(es) == \A f \in es : f.u \in Tables /\ f.v \in Tables

LEMMA RoundsAre ==
  ASSUME names \in Queries, NEW es, TableEdges(es), NEW x \in Tables
  PROVE  Reached(es, x) = Rounds(es, x)[Len(names)] /\ AreRounds(es, x, Rounds(es, x))
<1> DEFINE n == Len(names)
           S == SUBSET Tables
           step == [k \in 1 .. n |-> [a \in S |-> Wider(es, a)]]
<1>1. n \in Nat /\ {x} \in S
  BY QueryType
<1>2. ASSUME NEW a \in S
      PROVE  Wider(es, a) \in S
  BY DEF Wider, TableEdges
<1>3. Reached(es, x) = Rounds(es, x)[n]
  BY DEF Reached, Rounds, Wider
<1> HIDE DEF n, S
<1>4. step \in [1 .. n -> [S -> S]] /\ \A k \in 1 .. n : \A a \in S : step[k][a] = Wider(es, a)
  BY <1>2
<1> HIDE DEF step
<1>5. PICK s \in [0 .. n -> S] : Iterates(s, n, {x}, step)
  BY <1>1, <1>4, IterationExists
<1>6. \A k \in 1 .. n : k \in 0 .. n /\ k - 1 \in 0 .. n
  BY <1>1
<1>7. s = [k \in 0 .. n |-> IF k = 0 THEN {x} ELSE Wider(es, s[k - 1])]
  <2>1. ASSUME NEW k \in 0 .. n
        PROVE  s[k] = IF k = 0 THEN {x} ELSE Wider(es, s[k - 1])
    <3>1. CASE k = 0
      BY <1>5, <3>1 DEF Iterates
    <3>2. CASE k # 0
      <4>1. k \in 1 .. n /\ k - 1 \in 0 .. n
        BY <1>1, <3>2
      <4>2. s[k] = step[k][s[k - 1]] /\ s[k - 1] \in S
        BY <1>5, <4>1 DEF Iterates
      <4> QED
        BY <1>4, <3>2, <4>1, <4>2
    <3> QED
      BY <3>1, <3>2
  <2>2. s = [k \in 0 .. n |-> s[k]]
    BY <1>5
  <2> QED
    BY <2>1, <2>2
<1> DEFINE r == Rounds(es, x)
<1>8. r = [k \in 0 .. n |-> IF k = 0 THEN {x} ELSE Wider(es, r[k - 1])]
  BY <1>7 DEF Rounds, n
<1> HIDE DEF r
<1>9. r[0] = {x} /\ 0 \in 0 .. n /\ \A k \in 1 .. n : r[k] = Wider(es, r[k - 1])
  <2>1. 0 \in 0 .. n /\ \A k \in 1 .. n : k # 0
    BY <1>1
  <2>2. \A k \in 0 .. n : r[k] = IF k = 0 THEN {x} ELSE Wider(es, r[k - 1])
    BY <1>8
  <2> QED
    BY <1>6, <2>1, <2>2
<1>10. \A k \in 0 .. n : r[k] \in S
  <2> DEFINE G == {k \in 0 .. n : r[k] \in S}
  <2>1. 0 \in G
    BY <1>1, <1>9
  <2>2. \A k \in 1 .. n : k - 1 \in G => k \in G
    BY <1>2, <1>6, <1>9
  <2>3. 0 .. n \subseteq G
    <3> HIDE DEF G
    <3> QED
      BY <1>1, <2>1, <2>2, UptoInduction
  <2> QED
    BY <2>3
<1>11. r \in [0 .. n -> S]
  BY <1>8, <1>10
<1>12. AreRounds(es, x, r)
  BY <1>9, <1>11 DEF AreRounds, n, S
<1> QED
  BY <1>3, <1>12 DEF r, n

(***************************************************************************)
(* As many rounds as there are tables are enough: Reached is the least set *)
(* with x that no edge leads out of.                                       *)
(***************************************************************************)
LEMMA ReachedIs ==
  ASSUME names \in Queries, NEW es, TableEdges(es), NEW x \in Tables
  PROVE  /\ Reached(es, x) \subseteq Tables /\ x \in Reached(es, x)
         /\ Closed(es, Reached(es, x))
         /\ \A nodes : x \in nodes /\ Closed(es, nodes) => Reached(es, x) \subseteq nodes
<1> DEFINE n == Len(names)
           r == Rounds(es, x)
<1>1. n \in Nat
  BY QueryType
<1>2. Reached(es, x) = r[n] /\ AreRounds(es, x, r)
  BY RoundsAre
<1> HIDE DEF r
<1>3. /\ r[0] = {x} /\ \A k \in 0 .. n : r[k] \subseteq Tables
      /\ \A k \in 1 .. n : r[k] = Wider(es, r[k - 1]) /\ k \in 0 .. n /\ k - 1 \in 0 .. n
  BY <1>1, <1>2 DEF AreRounds
<1>4. n \in 0 .. n /\ 0 \in 0 .. n
  BY <1>1
<1> HIDE DEF n
<1>5. x \in r[n]
  <2> DEFINE G == {k \in 0 .. n : x \in r[k]}
  <2>1. 0 \in G
    BY <1>3, <1>4
  <2>2. \A k \in 1 .. n : k - 1 \in G => k \in G
    BY <1>3 DEF Wider
  <2>3. 0 .. n \subseteq G
    <3> HIDE DEF G
    <3> QED
      BY <1>1, <2>1, <2>2, UptoInduction
  <2> QED
    BY <1>4, <2>3
<1>6. ASSUME NEW nodes, x \in nodes, Closed(es, nodes)
      PROVE  r[n] \subseteq nodes
  <2> DEFINE G == {k \in 0 .. n : r[k] \subseteq nodes}
  <2>1. 0 \in G
    BY <1>3, <1>4, <1>6
  <2>2. \A k \in 1 .. n : k - 1 \in G => k \in G
    BY <1>3, <1>6 DEF Wider, Closed
  <2>3. 0 .. n \subseteq G
    <3> HIDE DEF G
    <3> QED
      BY <1>1, <2>1, <2>2, UptoInduction
  <2> QED
    BY <1>4, <2>3
<1>7. IsFiniteSet(Tables) /\ Cardinality(Tables) = n
  <2>1. Tables = 0 .. n - 1
    BY DEF Tables, n
  <2>2. IsFiniteSet(0 .. n - 1) /\ Cardinality(0 .. n - 1) = IF 0 > n - 1 THEN 0 ELSE (n - 1) - 0 + 1
    BY <1>1, FS_Interval
  <2> QED
    BY <1>1, <2>1, <2>2
<1>8. \A k \in 0 .. n : IsFiniteSet(r[k]) /\ Cardinality(r[k]) \in Nat /\ Cardinality(r[k]) <= n
  BY <1>3, <1>7, FS_Subset, FS_CardinalityType
<1>9. Wider(es, r[n]) = r[n]
  <2> DEFINE G == {k \in 0 .. n : Cardinality(r[k]) >= k + 1 \/ Wider(es, r[k]) = r[k]}
  <2>1. 0 \in G
    <3>1. Cardinality({x}) = 1
      BY FS_Singleton
    <3>2. Cardinality(r[0]) >= 0 + 1
      BY <1>3, <3>1
    <3> QED
      BY <1>4, <3>2
  <2>2. ASSUME NEW k \in 1 .. n, k - 1 \in G
        PROVE  k \in G
    <3> DEFINE a == r[k - 1]
               b == r[k]
    <3>1. b = Wider(es, a) /\ a \subseteq b /\ k \in 0 .. n /\ k - 1 \in 0 .. n
      BY <1>3 DEF Wider
    <3>2. Cardinality(a) >= (k - 1) + 1 \/ Wider(es, a) = a
      BY <2>2
    <3>3. /\ IsFiniteSet(b) /\ Cardinality(a) \in Nat /\ Cardinality(b) \in Nat
      BY <1>8, <3>1
    <3> HIDE DEF a, b
    <3>4. CASE a = b
      <4>1. Wider(es, b) = b
        BY <3>1, <3>4
      <4> QED
        BY <3>1, <4>1 DEF b
    <3>5. CASE a # b
      <4>1. Cardinality(a) <= Cardinality(b) /\ Cardinality(a) # Cardinality(b)
        BY <3>1, <3>3, <3>5, FS_Subset
      <4>2. Cardinality(a) >= (k - 1) + 1
        BY <3>1, <3>2, <3>5
      <4>3. Cardinality(b) >= k + 1
        BY <1>1, <3>3, <4>1, <4>2
      <4> QED
        BY <3>1, <4>3 DEF b
    <3> QED
      BY <3>4, <3>5
  <2>3. 0 .. n \subseteq G
    <3> HIDE DEF G
    <3> QED
      BY <1>1, <2>1, <2>2, UptoInduction
  <2>4. Cardinality(r[n]) >= n + 1 \/ Wider(es, r[n]) = r[n]
    BY <1>4, <2>3
  <2>5. Cardinality(r[n]) \in Nat /\ Cardinality(r[n]) <= n
    BY <1>4, <1>8
  <2> QED
    BY <1>1, <2>4, <2>5
<1>10. Closed(es, r[n])
  BY <1>9 DEF Wider, Closed
<1>11. r[n] \subseteq Tables
  BY <1>3, <1>4
<1> QED
  BY <1>2, <1>5, <1>6, <1>10, <1>11 DEF n
(***************************************************************************)
(* k edges reach k further nodes at most: every node has an edge of its    *)
(* own, by which it was first reached.                                     *)
(***************************************************************************)
LEMMA ReachedBound ==
  ASSUME names \in Queries, NEW es, TableEdges(es), IsFiniteSet(es), NEW x \in Tables
  PROVE  IsFiniteSet(Reached(es, x)) /\ Cardinality(Reached(es, x)) <= Cardinality(es) + 1
<1> DEFINE n == Len(names)
           r == Rounds(es, x)
           R == Reached(es, x)
<1>1. n \in Nat /\ R = r[n] /\ AreRounds(es, x, r) /\ x \in R
  BY QueryType, RoundsAre, ReachedIs
<1> HIDE DEF r, R
<1>2. r[0] = {x} /\ \A k \in 1 .. n : r[k] = Wider(es, r[k - 1])
  BY <1>1 DEF AreRounds
<1> HIDE DEF n
<1> DEFINE First(y, k) == k \in 0 .. n /\ y \in r[k] /\ \A l \in 0 .. n : y \in r[l] => k <= l
<1>3. ASSUME NEW y \in R
      PROVE  \E k : First(y, k)
  <2> DEFINE L == {k \in 0 .. n : y \in r[k]}
  <2>1. L \subseteq Nat /\ n \in L
    BY <1>1
  <2>2. PICK k \in L : \A l \in L : k <= l
    <3> HIDE DEF L
    <3> QED
      BY <2>1, LeastNumber
  <2> QED
    BY <2>2
<1> DEFINE level == [y \in R |-> CHOOSE k : First(y, k)]
<1>4. \A y \in R : First(y, level[y])
  BY <1>3
<1> HIDE DEF level
<1> DEFINE By(y, e) == \/ e.u = y /\ e.v \in r[level[y] - 1]
                       \/ e.v = y /\ e.u \in r[level[y] - 1]
<1>5. ASSUME NEW y \in R \ {x}
      PROVE  /\ level[y] \in 1 .. n /\ level[y] - 1 \in 0 .. n
             /\ \E e \in es : By(y, e)
  <2>1. level[y] # 0
    BY <1>2, <1>4
  <2>2. level[y] \in 1 .. n /\ level[y] - 1 \in 0 .. n /\ ~(level[y] <= level[y] - 1)
    BY <1>1, <1>4, <2>1
  <2>3. y \in Wider(es, r[level[y] - 1]) /\ y \notin r[level[y] - 1]
    BY <1>2, <1>4, <2>2
  <2> QED
    BY <2>2, <2>3 DEF Wider
<1> DEFINE g == [y \in R \ {x} |-> CHOOSE e \in es : By(y, e)]
<1>6. \A y \in R \ {x} : g[y] \in es /\ By(y, g[y])
  BY <1>5
<1> HIDE DEF g
<1>7. ASSUME NEW y \in R \ {x}, NEW z \in R \ {x}, g[y] = g[z], y # z
      PROVE  FALSE
  <2>1. y \in r[level[z] - 1] /\ z \in r[level[y] - 1]
    BY <1>6, <1>7
  <2>2. level[y] <= level[z] - 1 /\ level[z] <= level[y] - 1
    BY <1>4, <1>5, <2>1
  <2>3. level[y] \in Nat /\ level[z] \in Nat
    BY <1>1, <1>4
  <2> QED
    BY <2>2, <2>3
<1>8. g \in Injection(R \ {x}, es)
  <2>1. g \in [R \ {x} -> es]
    <3>1. g = [y \in R \ {x} |-> g[y]]
      BY DEF g
    <3> QED
      BY <1>6, <3>1
  <2> QED
    BY <1>7, <2>1 DEF Injection, IsInjective
<1>9. IsFiniteSet(R \ {x}) /\ Cardinality(R \ {x}) <= Cardinality(es)
  BY <1>8, FS_Injection
<1>10. IsFiniteSet(R)
  <2>1. R = (R \ {x}) \union {x}
    BY <1>1
  <2> QED
    BY <1>9, <2>1, FS_AddElement
<1>11. Cardinality(R \ {x}) = Cardinality(R) - 1
  BY <1>1, <1>10, FS_RemoveElement
<1>12. Cardinality(R) \in Nat /\ Cardinality(es) \in Nat
  BY <1>10, FS_CardinalityType
<1>13. Cardinality(R) <= Cardinality(es) + 1
  BY <1>9, <1>11, <1>12
<1> QED
  BY <1>10, <1>13 DEF R

(***************************************************************************)
(* The node of the first table has an edge to every other that has edges.  *)
(***************************************************************************)
LEMMA ZeroEdges ==
  ASSUME PlanTypes, phase # "start", NEW y \in FirstNodes(names), y # 0
  PROVE  \E j \in 1 .. Len(edges) : edges[j].u = 0 /\ edges[j].v = y
<1>1. names \in Queries /\ Rows /\ Range(edges) = Range(Joins(names)) /\ edges \in Seq(Edges(names))
  BY EdgesAre
<1>2. /\ 0 + 1 \in 1 .. Len(names) /\ tableIndex(names, names[0 + 1]) = 0
      /\ y + 1 \in 1 .. Len(names) /\ tableIndex(names, names[y + 1]) = y
      /\ y \in 0 .. Len(names) - 1 /\ Len(names) \in Nat
  BY <1>1, FirstNodesAre, QueryType
<1> DEFINE p == <<1, y + 1>>
<1>3. p \in (1 .. Len(names)) \X (1 .. Len(names)) /\ p[1] < p[2] /\ p[1] = 1 /\ p[2] = y + 1
  BY <1>2
<1>4. EdgeOf(names, 1, y + 1) \in Range(edges)
  BY <1>1, <1>3, JoinsAre
<1>5. EdgeOf(names, 1, y + 1).u = 0 /\ EdgeOf(names, 1, y + 1).v = y
  BY <1>2 DEF EdgeOf
<1>6. PICK j \in 1 .. Len(edges) : edges[j] = EdgeOf(names, 1, y + 1)
  BY <1>1, <1>4 DEF Range
<1> QED
  BY <1>5, <1>6

(***************************************************************************)
(* In the end all nodes that have edges are in one tree, and every other   *)
(* node is a tree of its own, so the tree has one edge less than nodes.    *)
(***************************************************************************)
LEMMA LonelyNodes ==
  ASSUME PlanInv, phase = "done", NEW y \in Nodes \ FirstNodes(names), NEW z \in Nodes,
         Root[z] = y
  PROVE  z = y
<1>1. PlanTypes /\ KruskalInv /\ TreesInv /\ UFInv
  BY DEF PlanInv
<1>2. Taken = mst /\ mst \in Seq(Range(edges)) /\ edges \in Seq(Edges(names))
  BY <1>1, EdgesAre DEF Taken, Answered, PlanTypes
<1>3. Closed(Range(Taken), {y})
  <2>1. Range(mst) \subseteq Edges(names)
    BY <1>2 DEF Range
  <2> QED
    BY <1>2, <2>1 DEF Closed, Edges
<1>4. Root[y] = y
  <2>1. parent[y] = y
    BY <1>1 DEF TreesInv
  <2> QED
    BY <1>1, <2>1, RootFacts DEF TreesInv
<1>5. {y} \in SUBSET Nodes
  OBVIOUS
<1> QED
  BY <1>1, <1>3, <1>4, <1>5 DEF KruskalInv

LEMMA TreeOfTables ==
  ASSUME PlanInv, phase = "done"
  PROVE  /\ Len(mst) \in Nat /\ Len(mst) <= Cardinality(FirstNodes(names)) - 1
         /\ \A a, b \in FirstNodes(names) : Root[a] = Root[b]
<1> DEFINE F == FirstNodes(names)
           n == Len(names)
<1>1. PlanTypes /\ KruskalInv /\ TreesInv /\ UFInv
  BY DEF PlanInv
<1>2. /\ Taken = mst /\ mst \in Seq(Range(edges)) /\ Passed = next - 1 /\ ~Wanted
      /\ next \in Nat /\ next >= 1
  BY <1>1 DEF Passed, Taken, Answered, PlanTypes
<1>3. /\ names \in Queries /\ n \in Nat /\ n >= 1 /\ edges \in Seq(Edges(names)) /\ Len(edges) \in Nat
      /\ F \subseteq 0 .. n - 1 /\ 0 \in F /\ F \subseteq Nodes /\ MaxNodes \in Nat
  BY <1>1, EdgesAre, QueryType, FirstNodesAre
<1>4. \A z \in Nodes : Root[z] \in Nodes /\ parent[Root[z]] = Root[z]
  BY <1>1 DEF TreesInv
<1>5. \A z \in Nodes : Root[z] \notin F => Root[z] = z
  BY <1>4, LonelyNodes
<1>6. \A z \in Nodes \ F : z \in Roots
  <2>1. \A z \in Nodes : parent[z] = z => z \in Roots
    BY DEF Roots
  <2>2. ASSUME NEW z \in Nodes \ F
        PROVE  parent[z] = z
    <3>1. Closed(Range(mst), {z})
      <4>1. Range(mst) \subseteq Edges(names)
        BY <1>2, <1>3 DEF Range
      <4> QED
        BY <4>1 DEF Closed, Edges
    <3>2. Root[Root[z]] = Root[z]
      BY <1>1, <1>4, RootFacts DEF TreesInv
    <3>3. {z} \in SUBSET Nodes /\ z \in Nodes /\ Root[z] \in Nodes
      BY <1>4
    <3>4. Root[z] \in {z} <=> z \in {z}
      BY <1>1, <1>2, <3>1, <3>2, <3>3 DEF KruskalInv
    <3> QED
      BY <1>4, <3>3, <3>4
  <2> QED
    BY <2>1, <2>2
<1> DEFINE top == Root[0]
<1>7. top \in F /\ top \in Roots
  <2>1. 0 \in Nodes
    BY <1>3
  <2> QED
    BY <1>3, <1>4, <1>5, <2>1 DEF Roots
<1> HIDE DEF top, F, n
<1>8. IsFiniteSet(Nodes) /\ Cardinality(Nodes) = MaxNodes
  <2>1. /\ IsFiniteSet(0 .. MaxNodes - 1)
        /\ Cardinality(0 .. MaxNodes - 1) = IF 0 > MaxNodes - 1 THEN 0 ELSE (MaxNodes - 1) - 0 + 1
    BY <1>3, FS_Interval
  <2> QED
    BY <1>3, <2>1 DEF Nodes
<1>9. /\ IsFiniteSet(F) /\ Cardinality(F) \in Nat /\ IsFiniteSet(Nodes \ F)
      /\ Cardinality(Nodes \ F) = MaxNodes - Cardinality(F)
  <2>1. IsFiniteSet(F) /\ Cardinality(F) \in Nat
    BY <1>3, <1>8, FS_Subset, FS_CardinalityType
  <2>2. IsFiniteSet(Nodes \ F) /\ Cardinality(Nodes \ F) = Cardinality(Nodes) - Cardinality(Nodes \cap F)
    BY <1>8, FS_Difference
  <2>3. Nodes \cap F = F
    BY <1>3
  <2> QED
    BY <1>8, <2>1, <2>2, <2>3
<1>10. Roots \subseteq Nodes /\ IsFiniteSet(Roots) /\ Cardinality(Roots) \in Nat
       /\ Cardinality(Roots) + Len(mst) = MaxNodes /\ Len(mst) \in Nat
  <2>1. Roots \subseteq Nodes
    BY DEF Roots
  <2>2. IsFiniteSet(Roots) /\ Cardinality(Roots) \in Nat
    BY <1>8, <2>1, FS_Subset, FS_CardinalityType
  <2>3. Cardinality(Roots) + Len(mst) = MaxNodes
    BY <1>1, <1>2 DEF KruskalInv
  <2> QED
    BY <1>2, <2>1, <2>2, <2>3
<1>11. \* A set of roots beside the nodes without edges.
       ASSUME NEW T, T \subseteq Roots \cap F, IsFiniteSet(T)
       PROVE  Cardinality(T) + (MaxNodes - Cardinality(F)) <= Cardinality(Roots)
  <2> DEFINE U == (Nodes \ F) \union T
  <2>1. U \subseteq Roots /\ (Nodes \ F) \cap T = {}
    BY <1>6, <1>11
  <2>2. Cardinality(U) = Cardinality(Nodes \ F) + Cardinality(T) - Cardinality((Nodes \ F) \cap T)
    BY <1>9, <1>11, FS_Union
  <2>3. Cardinality((Nodes \ F) \cap T) = 0
    BY <2>1, FS_EmptySet
  <2> HIDE DEF U
  <2>4. Cardinality(U) <= Cardinality(Roots)
    BY <1>10, <2>1, FS_Subset
  <2>5. Cardinality(T) \in Nat
    BY <1>11, FS_CardinalityType
  <2> QED
    BY <1>3, <1>9, <1>10, <2>2, <2>3, <2>4, <2>5
<1>12. Len(mst) <= Cardinality(F) - 1
  <2>1. {top} \subseteq Roots \cap F /\ IsFiniteSet({top}) /\ Cardinality({top}) = 1
    BY <1>7, FS_Singleton
  <2>2. 1 + (MaxNodes - Cardinality(F)) <= Cardinality(Roots)
    BY <1>11, <2>1
  <2> QED
    BY <1>3, <1>9, <1>10, <2>2
<1>13. \A a \in F : Root[a] = top
  <2>1. ASSUME NEW a \in F
        PROVE  Root[a] = top
    <3>1. CASE next <= Len(edges)
      <4>1. Len(mst) >= n - 1
        BY <1>2, <1>3, <1>10, <3>1 DEF Wanted, n
      <4>2. Cardinality(F) <= n
        <5>1. IsFiniteSet(0 .. n - 1) /\ Cardinality(0 .. n - 1) = n
          BY <1>3, IntervalSize
        <5> QED
          BY <1>3, <5>1, FS_Subset
      <4>3. a \in Nodes /\ Root[a] \in Roots
        BY <1>3, <1>4 DEF Roots
      <4>4. Root[a] \in F
        BY <1>5, <4>3
      <4>5. SUFFICES ASSUME Root[a] # top PROVE FALSE
        OBVIOUS
      <4> DEFINE T == {top, Root[a]}
      <4>6. T \subseteq Roots \cap F
        BY <1>7, <4>3, <4>4
      <4>7. IsFiniteSet(T) /\ Cardinality(T) = 2
        <5>1. IsFiniteSet({top}) /\ Cardinality({top}) = 1
          BY FS_Singleton
        <5>2. T = {top} \union {Root[a]} /\ Root[a] \notin {top}
          BY <4>5
        <5>3. IsFiniteSet({top} \union {Root[a]}) /\ Cardinality({top} \union {Root[a]}) = Cardinality({top}) + 1
          BY <5>1, <5>2, FS_AddElement
        <5> HIDE DEF T
        <5> QED
          BY <5>1, <5>2, <5>3
      <4> HIDE DEF T
      <4>8. 2 + (MaxNodes - Cardinality(F)) <= Cardinality(Roots)
        BY <1>11, <4>6, <4>7
      <4> QED
        BY <1>3, <1>9, <1>10, <4>1, <4>2, <4>8
    <3>2. CASE ~(next <= Len(edges))
      <4>1. CASE a = 0
        BY <4>1 DEF top
      <4>2. CASE a # 0
        <5>1. PICK j \in 1 .. Len(edges) : edges[j].u = 0 /\ edges[j].v = a
          BY <1>1, <4>2, ZeroEdges DEF F
        <5>2. j \in 1 .. Passed
          BY <1>2, <1>3, <3>2
        <5>3. Root[edges[j].u] = Root[edges[j].v]
          BY <1>1, <5>2 DEF KruskalInv
        <5> QED
          BY <5>1, <5>3 DEF top
      <4> QED
        BY <4>1, <4>2
    <3> QED
      BY <3>1, <3>2
  <2> QED
    BY <2>1
<1>14. \A a, b \in F : Root[a] = Root[b]
  BY <1>13
<1> QED
  BY <1>10, <1>12, <1>14 DEF F
(***************************************************************************)
(* What the whole graph connects is what any part of it connects that      *)
(* leaves no node with edges behind.                                       *)
(***************************************************************************)
LEMMA ReachedFirst ==
  ASSUME PlanTypes, phase # "start", NEW es, es \subseteq Range(edges),
         \A nodes \in SUBSET Nodes :
           Closed(es, nodes) /\ nodes \cap FirstNodes(names) # {} => FirstNodes(names) \subseteq nodes,
         NEW x \in Tables
  PROVE  Reached(es, x) = IF x \in FirstNodes(names) THEN FirstNodes(names) ELSE {x}
<1> DEFINE F == FirstNodes(names)
           R == Reached(es, x)
<1>1. /\ names \in Queries /\ edges \in Seq(Edges(names)) /\ Len(names) \in Nat /\ MaxNodes \in Nat
      /\ Len(names) <= MaxNodes /\ F \subseteq Tables
  BY EdgesAre, QueryType, FirstNodesAre DEF Tables
<1>2. \A f \in es : f.u \in F /\ f.v \in F
  <2>1. Range(edges) \subseteq Edges(names)
    BY <1>1 DEF Range
  <2> QED
    BY <2>1 DEF Edges
<1>3. TableEdges(es)
  BY <1>1, <1>2 DEF TableEdges
<1>4. Tables \subseteq Nodes
  BY <1>1 DEF Tables, Nodes
<1>5. R \subseteq Tables /\ x \in R
  BY <1>1, <1>3, ReachedIs
<1>6. Closed(es, R)
  BY <1>1, <1>3, ReachedIs
<1>7. \A nodes : x \in nodes /\ Closed(es, nodes) => R \subseteq nodes
  BY <1>1, <1>3, ReachedIs
<1> HIDE DEF R, F
<1>8. CASE x \in F
  <2>1. Closed(es, F)
    BY <1>2 DEF Closed
  <2>2. R \subseteq F
    BY <1>7, <1>8, <2>1
  <2>3. R \in SUBSET Nodes /\ R \cap F # {}
    BY <1>4, <1>5, <1>8
  <2>4. F \subseteq R
    BY <1>6, <2>3 DEF F
  <2> QED
    BY <1>8, <2>2, <2>4 DEF R, F
<1>9. CASE x \notin F
  <2>1. Closed(es, {x})
    BY <1>2, <1>9 DEF Closed
  <2>2. R \subseteq {x}
    BY <1>7, <2>1
  <2> QED
    BY <1>5, <1>9, <2>2 DEF R, F
<1> QED
  BY <1>8, <1>9

(***************************************************************************)
(* The graph, and the tree in the end, connect all nodes that have edges.  *)
(***************************************************************************)
LEMMA GraphConnects ==
  ASSUME PlanTypes, phase # "start", NEW nodes, Closed(Range(edges), nodes),
         nodes \cap FirstNodes(names) # {}
  PROVE  FirstNodes(names) \subseteq nodes
<1>1. edges \in Seq(Edges(names)) /\ 0 \in FirstNodes(names)
  BY EdgesAre, FirstNodesAre
<1>2. ASSUME NEW y \in FirstNodes(names)
      PROVE  y \in nodes <=> 0 \in nodes
  <2>1. CASE y = 0
    BY <2>1
  <2>2. CASE y # 0
    <3>1. PICK j \in 1 .. Len(edges) : edges[j].u = 0 /\ edges[j].v = y
      BY <2>2, ZeroEdges
    <3>2. edges[j] \in Range(edges)
      BY <1>1 DEF Range
    <3> QED
      BY <3>1, <3>2 DEF Closed
  <2> QED
    BY <2>1, <2>2
<1> QED
  BY <1>1, <1>2

LEMMA TreeConnects ==
  ASSUME PlanInv, phase = "done", NEW nodes \in SUBSET Nodes, Closed(Range(mst), nodes),
         nodes \cap FirstNodes(names) # {}
  PROVE  FirstNodes(names) \subseteq nodes
<1>1. PlanTypes /\ KruskalInv /\ names \in Queries
  BY EdgesAre DEF PlanInv
<1>2. Taken = mst /\ FirstNodes(names) \subseteq Nodes
  BY <1>1, FirstNodesAre DEF Taken, Answered, PlanTypes
<1>3. \A x, y \in Nodes : Root[x] = Root[y] => (x \in nodes <=> y \in nodes)
  BY <1>1, <1>2 DEF KruskalInv
<1>4. \A a, b \in FirstNodes(names) : Root[a] = Root[b]
  BY TreeOfTables
<1> QED
  BY <1>2, <1>3, <1>4

-----------------------------------------------------------------------------
(* Weights *)

\* The folds of the model are sums.
LEMMA WeightIs ==
  ASSUME NEW ks, IsFiniteSet(ks), NEW w \in [ks -> Nat], \A k \in ks : w[k] = edges[k].weight
  PROVE  \E c : Sums(ks, w, c) /\ Weight(ks) = c[ks]
<1>1. PICK d : Sums(ks, w, d)
  BY SumsExist
<1> DEFINE Folds(c) == c = [s \in SUBSET ks |-> IF s = {} THEN 0
                   ELSE c[s \ {CHOOSE y \in s : TRUE}] + edges[CHOOSE y \in s : TRUE].weight]
           i == CHOOSE c : Folds(c)
<1>2. Weight(ks) = i[ks]
  BY DEF Weight, FoldSet, MapThenFoldSet
<1>3. ASSUME NEW c
      PROVE  Sums(ks, w, c) <=> Folds(c)
  <2>1. ASSUME NEW s \in SUBSET ks, s # {}
        PROVE  w[CHOOSE y \in s : TRUE] = edges[CHOOSE y \in s : TRUE].weight
    <3>1. (CHOOSE y \in s : TRUE) \in ks
      BY <2>1
    <3> QED
      BY <3>1
  <2> DEFINE a(s) == IF s = {} THEN 0
                     ELSE c[s \ {CHOOSE y \in s : TRUE}] + w[CHOOSE y \in s : TRUE]
             b(s) == IF s = {} THEN 0
                     ELSE c[s \ {CHOOSE y \in s : TRUE}] + edges[CHOOSE y \in s : TRUE].weight
  <2>2. \A s \in SUBSET ks : a(s) = b(s)
    BY <2>1
  <2>3. Sums(ks, w, c) <=> c = [s \in SUBSET ks |-> a(s)]
    BY DEF Sums
  <2> HIDE DEF a, b
  <2>4. [s \in SUBSET ks |-> a(s)] = [s \in SUBSET ks |-> b(s)]
    BY <2>2
  <2>5. Folds(c) <=> c = [s \in SUBSET ks |-> b(s)]
    BY DEF b
  <2> QED
    BY <2>3, <2>4, <2>5
<1> HIDE DEF Folds
<1>4. Sums(ks, w, i)
  BY <1>1, <1>3
<1> QED
  BY <1>2, <1>4

TakenWeight == FoldSeq(LAMBDA e, sum : sum + e.weight, 0, mst)

LEMMA TakenWeightIs ==
  ASSUME IsFiniteSet(DOMAIN mst), NEW w \in [DOMAIN mst -> Nat],
         \A k \in DOMAIN mst : w[k] = mst[k].weight
  PROVE  \E c : Sums(DOMAIN mst, w, c) /\ TakenWeight = c[DOMAIN mst]
<1> DEFINE ks == DOMAIN mst
<1>1. PICK d : Sums(ks, w, d)
  BY SumsExist
<1> DEFINE Folds(c) == c = [s \in SUBSET ks |-> IF s = {} THEN 0
                   ELSE c[s \ {CHOOSE y \in s : TRUE}] + mst[CHOOSE y \in s : TRUE].weight]
           i == CHOOSE c : Folds(c)
<1>2. TakenWeight = i[ks]
  BY DEF TakenWeight, FoldSeq, FoldFunction, FoldFunctionOnSet, MapThenFoldSet
<1>3. ASSUME NEW c
      PROVE  Sums(ks, w, c) <=> Folds(c)
  <2>1. ASSUME NEW s \in SUBSET ks, s # {}
        PROVE  w[CHOOSE y \in s : TRUE] = mst[CHOOSE y \in s : TRUE].weight
    <3>1. (CHOOSE y \in s : TRUE) \in ks
      BY <2>1
    <3> QED
      BY <3>1
  <2> DEFINE a(s) == IF s = {} THEN 0
                     ELSE c[s \ {CHOOSE y \in s : TRUE}] + w[CHOOSE y \in s : TRUE]
             b(s) == IF s = {} THEN 0
                     ELSE c[s \ {CHOOSE y \in s : TRUE}] + mst[CHOOSE y \in s : TRUE].weight
  <2>2. \A s \in SUBSET ks : a(s) = b(s)
    BY <2>1
  <2>3. Sums(ks, w, c) <=> c = [s \in SUBSET ks |-> a(s)]
    BY DEF Sums
  <2> HIDE DEF a, b
  <2>4. [s \in SUBSET ks |-> a(s)] = [s \in SUBSET ks |-> b(s)]
    BY <2>2
  <2>5. Folds(c) <=> c = [s \in SUBSET ks |-> b(s)]
    BY DEF b
  <2> QED
    BY <2>3, <2>4, <2>5
<1> HIDE DEF Folds
<1>4. Sums(ks, w, i)
  BY <1>1, <1>3
<1> QED
  BY <1>2, <1>4
LEMMA TimesGrows ==
  ASSUME NEW w \in Nat, NEW a \in Nat, NEW b \in Nat, a <= b
  PROVE  w * a <= w * b
<1> DEFINE d == b - a
<1>1. d \in Nat /\ b = a + d
  OBVIOUS
<1> HIDE DEF d
<1>2. w * (a + d) = w * a + w * d /\ w * d \in Nat /\ w * a \in Nat
  BY <1>1
<1> QED
  BY <1>1, <1>2

(***************************************************************************)
(* Every edge of the tree weighs as much as the lightest table.            *)
(***************************************************************************)
LEMMA TakenWeighs ==
  ASSUME PlanInv, phase = "done", NEW w, Least(names, w)
  PROVE  TakenWeight = w * Len(mst)
<1>1. /\ PlanTypes /\ KruskalInv /\ Taken = mst /\ mst \in Seq(Range(edges)) /\ w \in Nat
  BY DEF PlanInv, Taken, Answered, PlanTypes, Least
<1>2. /\ names \in Queries /\ Rows /\ Range(edges) = Range(Joins(names))
      /\ DOMAIN names = 1 .. Len(names)
  BY <1>1, EdgesAre, QueryType
<1>3. DOMAIN mst = 1 .. Len(mst) /\ Len(mst) \in Nat /\ \A i \in DOMAIN mst : mst[i] \in Range(edges)
  BY <1>1
<1>4. ASSUME NEW i \in DOMAIN mst
      PROVE  mst[i].weight = w
  <2>1. mst[i].weight \in Nat /\ w <= mst[i].weight
    BY <1>1, <1>2, <1>3, EdgesWeigh DEF Edges
  <2>2. PICK k \in 1 .. Len(names) : rows[names[k]] = w
    BY DEF Least
  <2>3. mst[i].weight <= rows[names[k]]
    BY <1>1, <1>2 DEF KruskalInv
  <2> QED
    BY <1>1, <2>1, <2>2, <2>3
<1> DEFINE S == DOMAIN mst
           v == [i \in S |-> mst[i].weight]
<1>5. IsFiniteSet(S) /\ Cardinality(S) = Len(mst)
  <2>1. /\ IsFiniteSet(1 .. Len(mst))
        /\ Cardinality(1 .. Len(mst)) = IF 1 > Len(mst) THEN 0 ELSE Len(mst) - 1 + 1
    BY <1>3, FS_Interval
  <2> QED
    BY <1>3, <2>1
<1>6. v \in [S -> Nat] /\ \A i \in S : v[i] = mst[i].weight
  BY <1>1, <1>4
<1>7. PICK c : Sums(S, v, c) /\ TakenWeight = c[S]
  BY <1>5, <1>6, TakenWeightIs
<1>8. \A i \in S : w <= v[i] /\ v[i] = w
  BY <1>1, <1>4, <1>6
<1> HIDE DEF v, S
<1>9. (\A i \in S : v[i] = w) => c[S] = w * Cardinality(S)
  BY <1>1, <1>5, <1>6, <1>7, <1>8, SumBounds
<1> QED
  BY <1>5, <1>7, <1>8, <1>9

\* The same for any edges, as a bound.
LEMMA EdgesWeighMore ==
  ASSUME PlanTypes, phase # "start", NEW w, Least(names, w),
         NEW ks \in SUBSET DOMAIN edges
  PROVE  /\ IsFiniteSet(ks) /\ Cardinality(ks) \in Nat
         /\ Weight(ks) \in Nat /\ w * Cardinality(ks) <= Weight(ks)
<1>1. /\ names \in Queries /\ Rows /\ Range(edges) = Range(Joins(names))
      /\ edges \in Seq(Edges(names)) /\ Len(edges) \in Nat /\ w \in Nat
  BY EdgesAre DEF Least
<1>2. IsFiniteSet(ks) /\ Cardinality(ks) \in Nat
  <2>1. IsFiniteSet(1 .. Len(edges)) /\ DOMAIN edges = 1 .. Len(edges)
    BY <1>1, FS_Interval
  <2> QED
    BY <2>1, FS_Subset, FS_CardinalityType
<1>3. \A k \in ks : edges[k].weight \in Nat /\ w <= edges[k].weight
  <2>1. \A k \in ks : edges[k] \in Range(edges)
    BY DEF Range
  <2> QED
    BY <1>1, <2>1, EdgesWeigh DEF Edges
<1> DEFINE v == [k \in ks |-> edges[k].weight]
<1>4. v \in [ks -> Nat] /\ \A k \in ks : v[k] = edges[k].weight /\ w <= v[k]
  BY <1>3
<1> HIDE DEF v
<1>5. PICK c : Sums(ks, v, c) /\ Weight(ks) = c[ks]
  BY <1>2, <1>4, WeightIs
<1>6. c[ks] \in Nat /\ w * Cardinality(ks) <= c[ks]
  BY <1>1, <1>2, <1>4, <1>5, SumBounds
<1> QED
  BY <1>2, <1>5, <1>6

LEMMA TreeIsMinimal ==
  ASSUME PlanInv, phase = "done"
  PROVE  /\ \A x \in Tables : Reached(Range(mst), x) = Reached(Range(edges), x)
         /\ \A ks \in SUBSET DOMAIN edges :
              Reached({edges[k] : k \in ks}, 0) = Reached(Range(edges), 0)
                => Len(mst) <= Cardinality(ks) /\ TakenWeight <= Weight(ks)
         /\ 0 \in Tables
<1> DEFINE F == FirstNodes(names)
           E == Range(edges)
           M == Range(mst)
<1>1. PlanTypes /\ phase # "start" /\ names \in Queries /\ Len(names) \in Nat
      /\ edges \in Seq(Edges(names)) /\ Len(edges) \in Nat
  BY EdgesAre, QueryType DEF PlanInv
<1>2. M \subseteq E
  BY <1>1 DEF PlanTypes, Range
<1>3. 0 \in F /\ F \subseteq Tables
  BY <1>1, FirstNodesAre DEF Tables
<1>4. \A nodes \in SUBSET Nodes : Closed(E, nodes) /\ nodes \cap F # {} => F \subseteq nodes
  BY <1>1, GraphConnects
<1>5. \A nodes \in SUBSET Nodes : Closed(M, nodes) /\ nodes \cap F # {} => F \subseteq nodes
  BY TreeConnects
<1>6. \A x \in Tables : Reached(E, x) = IF x \in F THEN F ELSE {x}
  BY <1>1, <1>4, ReachedFirst
<1>7. \A x \in Tables : Reached(M, x) = IF x \in F THEN F ELSE {x}
  BY <1>1, <1>2, <1>5, ReachedFirst
<1>8. ASSUME NEW ks \in SUBSET DOMAIN edges,
             Reached({edges[k] : k \in ks}, 0) = Reached(E, 0)
      PROVE  Len(mst) <= Cardinality(ks) /\ TakenWeight <= Weight(ks)
  <2> DEFINE es == {edges[k] : k \in ks}
  <2>1. PICK w : Least(names, w)
    BY <1>1, LeastExists DEF PlanTypes
  <2>2. IsFiniteSet(ks) /\ Cardinality(ks) \in Nat /\ Weight(ks) \in Nat /\ w * Cardinality(ks) <= Weight(ks)
    BY <1>1, <2>1, EdgesWeighMore
  <2>3. IsFiniteSet(es) /\ Cardinality(es) <= Cardinality(ks)
    <3> DEFINE g == [k \in ks |-> edges[k]]
    <3>1. g \in Surjection(ks, es)
      BY DEF Surjection
    <3> HIDE DEF es, g
    <3> QED
      BY <2>2, <3>1, FS_Surjection
  <2>4. TableEdges(es)
    <3>1. \A k \in ks : edges[k] \in Edges(names)
      BY <1>1
    <3> QED
      BY <1>3, <3>1 DEF TableEdges, Edges
  <2>5. Reached(es, 0) = F
    BY <1>3, <1>6, <1>8
  <2>6. Cardinality(F) <= Cardinality(es) + 1
    <3> HIDE DEF es, F
    <3>1. 0 \in Tables
      BY <1>3
    <3> QED
      BY <1>1, <2>3, <2>4, <2>5, <3>1, ReachedBound
  <2>7. Len(mst) \in Nat /\ Len(mst) <= Cardinality(F) - 1
    BY TreeOfTables
  <2>8. Cardinality(es) \in Nat /\ Cardinality(F) \in Nat
    <3>1. IsFiniteSet(F)
      <4>1. IsFiniteSet(0 .. Len(names) - 1)
        BY <1>1, FS_Interval
      <4> QED
        BY <1>3, <4>1, FS_Subset DEF Tables
    <3> HIDE DEF es, F
    <3> QED
      BY <2>3, <3>1, FS_CardinalityType
  <2> HIDE DEF es, F
  <2>9. Len(mst) <= Cardinality(ks)
    BY <2>2, <2>3, <2>6, <2>7, <2>8
  <2>10. TakenWeight = w * Len(mst) /\ w \in Nat
    BY <2>1, TakenWeighs DEF Least
  <2>11. w * Len(mst) <= w * Cardinality(ks) /\ w * Len(mst) \in Nat /\ w * Cardinality(ks) \in Nat
    BY <2>2, <2>7, <2>9, <2>10, TimesGrows
  <2> QED
    BY <2>2, <2>9, <2>10, <2>11
<1> QED
  BY <1>3, <1>6, <1>7, <1>8

(***************************************************************************)
(* For every query of any length and all sizes of tables, computeMST's     *)
(* result connects what the graph connects, and no set of edges that does  *)
(* so is smaller or lighter: leaving the loop after n - 1 edges misses     *)
(* nothing, and tables that are mentioned twice do no harm.                *)
(***************************************************************************)
THEOREM SpanningTree == Spec => []SpanningTreeIsMinimal
<1>1. PlanInv => SpanningTreeIsMinimal
  <2> SUFFICES ASSUME PlanInv, phase = "done"
               PROVE  SpanningTreeIsMinimal
    BY DEF SpanningTreeIsMinimal
  <2> DEFINE joined == [x \in Tables |-> Reached(Range(edges), x)]
             Spans(es) == \A x \in Tables : Reached(es, x) = joined[x]
  <2>1. Spans(Range(mst))
    BY TreeIsMinimal
  <2>2. ASSUME NEW ks \in SUBSET DOMAIN edges, Spans({edges[k] : k \in ks})
        PROVE  Len(mst) <= Cardinality(ks) /\ TakenWeight <= Weight(ks)
    <3>1. 0 \in Tables
      BY TreeIsMinimal
    <3>2. Reached({edges[k] : k \in ks}, 0) = Reached(Range(edges), 0)
      BY <2>2, <3>1
    <3> QED
      BY <3>2, TreeIsMinimal
  <2> QED
    BY <2>1, <2>2 DEF SpanningTreeIsMinimal, TakenWeight
<1> QED
  BY <1>1, PlanInvariant, PTL
=============================================================================
