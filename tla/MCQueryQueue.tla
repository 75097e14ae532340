---------------------------- MODULE MCQueryQueue ----------------------------
(***************************************************************************)
(* Up to five waiting queries of three priorities, so that a heap has three *)
(* levels and an entry can sift through all of them; the array begins with  *)
(* room for one and doubles three times.                                    *)
(***************************************************************************)
EXTENDS QueryQueue

CONSTANTS q1, q2
=============================================================================
