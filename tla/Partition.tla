----------------------------- MODULE Partition ------------------------------
(***************************************************************************)
(* What UnionFind promises (common/Graph.h): a partition of the nodes in   *)
(* which unite merges the blocks of two nodes and says whether they were   *)
(* different.  No trees, no ranks.                                         *)
(***************************************************************************)
CONSTANTS Nodes, NoRequest

VARIABLES
  blocks,    \* the partition: a set of disjoint sets of nodes
  request,   \* the pair unite was called with, or NoRequest
  answer     \* what the last unite returned; FALSE while one is running

vars == <<blocks, request, answer>>

Block(x) == CHOOSE B \in blocks : x \in B

Init ==
  /\ blocks = {{x} : x \in Nodes}
  /\ request = NoRequest
  /\ answer = FALSE

Call(x, y) ==
  /\ request = NoRequest
  /\ request' = <<x, y>>
  /\ answer' = FALSE
  /\ UNCHANGED blocks

Return ==
  /\ request # NoRequest
  /\ LET A == Block(request[1])
         B == Block(request[2])
     IN  /\ blocks' = (blocks \ {A, B}) \union {A \union B}
         /\ answer' = (A # B)
  /\ request' = NoRequest

Next == (\E x, y \in Nodes : Call(x, y)) \/ Return

Spec == Init /\ [][Next]_vars
=============================================================================
