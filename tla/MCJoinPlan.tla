----------------------------- MODULE MCJoinPlan -----------------------------
(***************************************************************************)
(* Table lists of two to five tables in one order each, since every        *)
(* assignment of row counts is tried, and lists that mention a table       *)
(* twice, whose second node stays alone.                                   *)
(***************************************************************************)
EXTENDS JoinPlan

CONSTANTS a, b, c, d, e

MCQueries ==
  {<<a, b>>, <<a, a>>, <<a, b, c>>, <<a, a, b>>, <<a, b, a>>, <<a, b, b>>,
   <<a, b, c, d>>, <<a, b, a, c>>,
   <<a, b, c, d, e>>}
=============================================================================
