------------------------- MODULE BufferPoolRecency --------------------------
(***************************************************************************)
(* BufferPool with a history variable: for every page this process has     *)
(* fetched, which pages it has fetched since.  It constrains no action.    *)
(***************************************************************************)
EXTENDS BufferPool, FiniteSets

VARIABLE since   \* since[q]: the pages fetched after the last fetch of q

rvars == <<vars, since>>

NothingUsed == [q \in {} |-> {}]

RInit == Init /\ since = NothingUsed

\* One more use of tp.
Used(tp) ==
  [q \in DOMAIN since \union {tp} |-> IF q = tp THEN {} ELSE since[q] \union {tp}]

RNext ==
  \/ \E t \in Tables, p \in PageIds : fetchPage(t, p) /\ since' = Used(<<t, p>>)
  \/ /\ \/ \E c \in Contents : markDirty(c)
        \/ StartFlush(Tables, FALSE)
        \/ \E t \in Tables : StartFlush({t}, FALSE)
        \/ StartFlush(Tables, TRUE)
        \/ FlushFrame
     /\ UNCHANGED since
  \/ (Exit \/ Crash) /\ since' = NothingUsed

RSpec == RInit /\ [][RNext]_rvars

\* The page a frame holds.
PageIn(f) == <<frameInfos[f].table, frameInfos[f].pageId>>

(***************************************************************************)
(* A page is in the pool exactly if fewer than Capacity other pages were   *)
(* fetched since its last fetch, and as many as stand before it in the     *)
(* list: the page evictLRU takes from the tail really is the least         *)
(* recently used one, however hits and misses were interleaved.            *)
(***************************************************************************)
HoldsMostRecentPages ==
  /\ \A t \in Tables, p \in PageIds :
       Resident(t, p) <=>
         <<t, p>> \in DOMAIN since /\ Cardinality(since[<<t, p>>]) < Capacity
  /\ \A i \in DOMAIN lruList : Cardinality(since[PageIn(lruList[i])]) = i - 1
=============================================================================
