----------------------------- MODULE UnionFind ------------------------------
(***************************************************************************)
(* The disjoint-set forest of common/Graph.h that Kruskal's algorithm      *)
(* runs on: union by rank, and find with path halving.  A find rewrites    *)
(* parents while it walks, one pair of nodes per iteration of its loop, so *)
(* a step here is one iteration and unite is a sequence of steps.          *)
(***************************************************************************)
EXTENDS Integers, FiniteSets

CONSTANTS
  MaxNodes,    \* nodes of the forest are 0 .. MaxNodes - 1
  NoRequest    \* no unite is running

Nodes == 0 .. MaxNodes - 1

ASSUME UnionFindAssumption ==
  /\ MaxNodes \in Nat
  /\ NoRequest \notin Nodes \X Nodes

VARIABLES
  parent, rank,
  request,     \* the arguments of the unite that is running, or NoRequest
  walk,        \* the find it is in: "x", "y", or "none"
  px, py,      \* how far the two finds have come
  answer       \* what the last unite returned

ufvars == <<parent, rank, request, walk, px, py, answer>>

UFTypeOK ==
  /\ parent \in [Nodes -> Nodes]
  /\ rank \in [Nodes -> Nat]
  /\ request \in (Nodes \X Nodes) \union {NoRequest}
  /\ walk \in {"none", "x", "y"}
  /\ walk # "none" => px \in Nodes /\ py \in Nodes
  /\ answer \in BOOLEAN

\* The constructor.
UFInit ==
  /\ parent = [x \in Nodes |-> x]
  /\ rank = [x \in Nodes |-> 0]
  /\ request = NoRequest /\ walk = "none" /\ px = 0 /\ py = 0
  /\ answer = FALSE

-----------------------------------------------------------------------------
(* unite *)

unite(x, y) ==
  /\ request = NoRequest
  /\ request' = <<x, y>> /\ walk' = "x" /\ px' = x /\ py' = y
  /\ answer' = FALSE
  /\ UNCHANGED <<parent, rank>>

\* parent[x] = parent[parent[x]]
Halved(x) == [parent EXCEPT ![x] = parent[parent[x]]]

\* The loop of find, for the first node and then for the second.
FindX ==
  /\ walk = "x"
  /\ IF parent[px] # px
     THEN parent' = Halved(px) /\ px' = parent'[px] /\ UNCHANGED walk
     ELSE walk' = "y" /\ UNCHANGED <<parent, px>>
  /\ UNCHANGED <<rank, request, py, answer>>

FindY ==
  /\ walk = "y" /\ parent[py] # py
  /\ parent' = Halved(py) /\ py' = parent'[py]
  /\ UNCHANGED <<rank, request, walk, px, answer>>

\* Mutants of Link: the ranks are not compared; the rank always grows; the
\* node is linked, not its root.
LinkUnordered ==
  /\ walk = "y" /\ parent[py] = py
  /\ answer' = (px # py)
  /\ IF px = py THEN UNCHANGED <<parent, rank>>
     ELSE /\ parent' = [parent EXCEPT ![py] = px]
          /\ rank' = [rank EXCEPT ![px] = IF rank[px] = rank[py] THEN @ + 1 ELSE @]
  /\ request' = NoRequest /\ walk' = "none"
  /\ UNCHANGED <<px, py>>

LinkAlwaysRaises ==
  /\ walk = "y" /\ parent[py] = py
  /\ answer' = (px # py)
  /\ IF px = py THEN UNCHANGED <<parent, rank>>
     ELSE LET top == IF rank[px] < rank[py] THEN py ELSE px
              low == IF rank[px] < rank[py] THEN px ELSE py
          IN  /\ parent' = [parent EXCEPT ![low] = top]
              /\ rank' = [rank EXCEPT ![top] = @ + 1]
  /\ request' = NoRequest /\ walk' = "none"
  /\ UNCHANGED <<px, py>>

LinkLosesSubtree ==
  /\ walk = "y" /\ parent[py] = py
  /\ answer' = (px # py)
  /\ parent' = IF px = py THEN parent ELSE [parent EXCEPT ![request[2]] = px]
  /\ rank' = rank
  /\ request' = NoRequest /\ walk' = "none"
  /\ UNCHANGED <<px, py>>

\* Both roots are known: the one of smaller rank goes below the other.
Link ==
  /\ walk = "y" /\ parent[py] = py
  /\ answer' = (px # py)
  /\ IF px = py THEN UNCHANGED <<parent, rank>>
     ELSE LET top == IF rank[px] < rank[py] THEN py ELSE px
              low == IF rank[px] < rank[py] THEN px ELSE py
          IN  /\ parent' = [parent EXCEPT ![low] = top]
              /\ rank' = [rank EXCEPT ![top] = IF @ = rank[low] THEN @ + 1 ELSE @]
  /\ request' = NoRequest /\ walk' = "none"
  /\ UNCHANGED <<px, py>>

Find == FindX \/ FindY \/ Link

UFNext == (\E x, y \in Nodes : unite(x, y)) \/ Find

\* unite is a loop in one thread: it goes on until it returns.
UFSpec == UFInit /\ [][UFNext]_ufvars /\ WF_ufvars(Find)

-----------------------------------------------------------------------------
(* Properties *)

\* The root a node is below.
Root ==
  LET r[x \in Nodes] == IF parent[x] = x THEN x ELSE r[parent[x]] IN r

Below(x) == {y \in Nodes : Root[y] = x}

P == INSTANCE Partition WITH blocks <- {Below(x) : x \in {Root[y] : y \in Nodes}}

(***************************************************************************)
(* Ranks grow from every node to its parent, whatever was united and       *)
(* however a find in progress has rewired the trees: there is no cycle of  *)
(* parents, and every walk of find gets to a root.                         *)
(***************************************************************************)
RanksGrow == \A x \in Nodes : parent[x] # x => rank[x] < rank[parent[x]]

(***************************************************************************)
(* A root of rank k has at least 2^k nodes below it, so ranks, and with    *)
(* them the length of a walk, are logarithmic in the number of nodes.      *)
(***************************************************************************)
RankNeedsNodes ==
  \A x \in Nodes : parent[x] = x => Cardinality(Below(x)) >= 2 ^ rank[x]

(***************************************************************************)
(* The forest is a Partition: halving paths never moves a node to another  *)
(* tree, unite merges the two trees it was asked to merge and no other,    *)
(* and its answer says whether they were different.                        *)
(***************************************************************************)
ForestIsPartition == P!Spec

\* Inductive: while the second find runs, the first one's root stays a root.
UFInv ==
  /\ UFTypeOK
  /\ RanksGrow
  /\ walk = "y" => parent[px] = px
  /\ request # NoRequest <=> walk # "none"
=============================================================================
