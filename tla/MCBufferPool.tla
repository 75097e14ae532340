---------------------------- MODULE MCBufferPool ----------------------------
(***************************************************************************)
(* A small pool for TLC: two tables of two pages, two frames.  The page    *)
(* keys are scaled down so that they still wrap around: 3 * 10 + p below   *)
(* KeyMod, 7 * 10 + p above it, as customer's are not and orders' are.     *)
(***************************************************************************)
EXTENDS BufferPoolRecency

CONSTANTS t1, t2

MCTableHash == t1 :> 3 @@ t2 :> 7
=============================================================================
