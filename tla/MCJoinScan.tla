----------------------------- MODULE MCJoinScan -----------------------------
(***************************************************************************)
(* Two tables of at most three pages in a pool of three frames, so that an *)
(* inner table fits beside the outer page with up to two pages and does    *)
(* not with three.                                                         *)
(***************************************************************************)
EXTENDS JoinScan

CONSTANTS t1, t2

MCTableHash == [t \in Tables |-> IF t = t1 THEN 3 ELSE 7]

MCBlank == << >>

\* What an INSERT into a new page leaves there: here a row that joins with itself.
OneRow == << <<1, 1>> >>

MCSmallPages == {MCBlank, OneRow}

MCFullSmallPages == {OneRow}

\* A page of two rows that join with each other, one of them with itself too.
TwoRows == << <<1, 2>>, <<2, 2>> >>

MCLargePages == {MCBlank, TwoRows}

MCFullPages == {TwoRows}

\* A join whose plan has a third table, and one whose second table has no schema.
MCPlans == {<<t1, t2, t1>>, <<t1, NoTable, NoTable>>}
=============================================================================
