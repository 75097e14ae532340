---------------------------- MODULE MCTableIndex -----------------------------
(* TableIndex with every order of six different keys and with tables
   of four rows and two keys, in pages of three rows; and with one full
   page, behind which INSERT allocates the next one. *)
EXTENDS TableIndex

MCKeys == 1 .. 6

\* The pages of a table, given all its rows.
Paged(rows) == << SubSeq(rows, 1, 3), SubSeq(rows, 4, Len(rows)) >>

MCFiles == {Paged(rows) : rows \in Permutations(MCKeys)}
           \union {Paged(rows) : rows \in {f \in [1 .. 4 -> 1 .. 2] : f[1] = 1}}
           \union {<<rows>> : rows \in [1 .. 3 -> 1 .. 2]}
=============================================================================
