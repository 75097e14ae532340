------------------------------- MODULE AVLTree -------------------------------
(***************************************************************************)
(* common/AVLTree.h: the balanced search tree under an index.  A tree is   *)
(* its root node, with the subtrees in place of the pointers; Nil is the   *)
(* null pointer.  remove and rangeQuery are left out: nothing in the       *)
(* program calls them.                                                     *)
(***************************************************************************)
EXTENDS Integers, FiniteSetsExt

Nil == [height |-> 0]
IsNil(n) == n.height = 0

AVLNode(key, value) == [key |-> key, value |-> value, height |-> 1,
                        left |-> Nil, right |-> Nil]

balanceFactor(n) == IF IsNil(n) THEN 0 ELSE n.left.height - n.right.height

updateHeight(n) ==
  [n EXCEPT !.height = 1 + Max({n.left.height, n.right.height})]

\* Mutant of rotateRight: the subtree between the two nodes is dropped.
rotateRightDropsT2(y) ==
  LET x == y.left
  IN  updateHeight([x EXCEPT !.right = updateHeight([y EXCEPT !.left = Nil])])

rotateRight(y) ==
  LET x == y.left
  IN  updateHeight(
        [x EXCEPT !.right = updateHeight([y EXCEPT !.left = x.right])])

rotateLeft(x) ==
  LET y == x.right
  IN  updateHeight(
        [y EXCEPT !.left = updateHeight([x EXCEPT !.right = y.left])])

\* Mutant of balance: single rotations only.
balanceSingle(m) ==
  LET n == updateHeight(m)
  IN  CASE balanceFactor(n) > 1  -> rotateRight(n)
        [] balanceFactor(n) < -1 -> rotateLeft(n)
        [] OTHER -> n

balance(m) ==
  LET n == updateHeight(m)
  IN  CASE balanceFactor(n) > 1 ->
             rotateRight(IF balanceFactor(n.left) < 0
                         THEN [n EXCEPT !.left = rotateLeft(n.left)] ELSE n)
        [] balanceFactor(n) < -1 ->
             rotateLeft(IF balanceFactor(n.right) > 0
                        THEN [n EXCEPT !.right = rotateRight(n.right)] ELSE n)
        [] OTHER -> n

RECURSIVE insert(_, _, _)
insert(n, key, value) ==
  IF IsNil(n) THEN AVLNode(key, value)
  ELSE IF key < n.key THEN balance([n EXCEPT !.left = insert(@, key, value)])
  ELSE IF key > n.key THEN balance([n EXCEPT !.right = insert(@, key, value)])
  ELSE [n EXCEPT !.value = value]

\* The node with a key, or Nil.
RECURSIVE find(_, _)
find(n, key) ==
  IF IsNil(n) \/ n.key = key THEN n
  ELSE find(IF key < n.key THEN n.left ELSE n.right, key)

\* All nodes of a tree.
RECURSIVE NodesOf(_)
NodesOf(n) == IF IsNil(n) THEN {} ELSE {n} \union NodesOf(n.left) \union NodesOf(n.right)

KeysOf(n) == {m.key : m \in NodesOf(n)}

-----------------------------------------------------------------------------
(* What an AVL tree is. *)

Ordered(n) == \A m \in NodesOf(n) : /\ \A k \in KeysOf(m.left) : k < m.key
                                    /\ \A k \in KeysOf(m.right) : k > m.key

\* The height of a tree by its definition, not the number stored in it.
RECURSIVE Levels(_)
Levels(n) == IF IsNil(n) THEN 0 ELSE 1 + Max({Levels(n.left), Levels(n.right)})

Balanced(n) == \A m \in NodesOf(n) : /\ m.height = Levels(m)
                                     /\ Levels(m.left) - Levels(m.right) \in -1 .. 1
=============================================================================
