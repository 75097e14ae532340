---------------------------- MODULE UrgencyQueue ----------------------------
(***************************************************************************)
(* What the query queue promises: queries wait in no particular order, and *)
(* the one that is run next is one of the most urgent.  The same query may *)
(* wait several times, so what waits is a bag.                             *)
(***************************************************************************)
EXTENDS Integers, Bags

CONSTANTS
  Entries,    \* what can wait: records with a field priority
  Nothing     \* no query is being executed

VARIABLES
  waiting,    \* the bag of waiting entries
  executing,  \* the query that was taken out last, or Nothing
  draining    \* runQueue is running

vars == <<waiting, executing, draining>>

Init == waiting = EmptyBag /\ executing = Nothing /\ draining = FALSE

Enqueue(e) ==
  /\ ~draining
  /\ waiting' = waiting (+) SetToBag({e})
  /\ UNCHANGED <<executing, draining>>

Drain ==
  /\ ~draining /\ draining' = TRUE
  /\ UNCHANGED <<waiting, executing>>

Take(e) ==
  /\ draining /\ executing = Nothing
  /\ BagIn(e, waiting)
  /\ \A f \in BagToSet(waiting) : e.priority <= f.priority
  /\ waiting' = waiting (-) SetToBag({e})
  /\ executing' = e
  /\ UNCHANGED draining

Finish ==
  /\ executing # Nothing /\ executing' = Nothing
  /\ UNCHANGED <<waiting, draining>>

Return ==
  /\ draining /\ executing = Nothing /\ waiting = EmptyBag
  /\ draining' = FALSE
  /\ UNCHANGED <<waiting, executing>>

Next ==
  \/ \E e \in Entries : Enqueue(e) \/ Take(e)
  \/ Drain \/ Finish \/ Return

Spec == Init /\ [][Next]_vars
=============================================================================
