--------------------------- MODULE MCWhereClause ---------------------------
(* WhereClause with two operands: two numbers in one row, two texts in
   another. *)
EXTENDS WhereClause

Text(rank) == [kind |-> "str", v |-> rank]

MCOperands == {"a", "b"}
MCOperators == {"or", "and", "<", "-", "*"}
MCRows == {[a |-> Num(0), b |-> Num(2)], [a |-> Text(0), b |-> Text(1)]}
=============================================================================
