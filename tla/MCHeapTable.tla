---------------------------- MODULE MCHeapTable -----------------------------
(***************************************************************************)
(* One table of at most two pages of two rows, two possible rows, and an   *)
(* UPDATE that turns one row into the other.                               *)
(***************************************************************************)
EXTENDS HeapTable

CONSTANTS r1, r2

MCWheres == {{r1}, {r2}}

MCAssignments == {[r \in Rows |-> r1]}
=============================================================================
