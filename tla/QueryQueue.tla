----------------------------- MODULE QueryQueue -----------------------------
(***************************************************************************)
(* The queue of queries of Executor: a binary heap in a growing array      *)
(* (common/PriorityQueue.h) that enqueueQuery fills and runQueue empties.  *)
(* The loops of siftUp and siftDown are one step per iteration.            *)
(*                                                                         *)
(* heap holds the entries below size_, and position i of the array is      *)
(* index i + 1 here, so the parent of i is i \div 2 and its children are   *)
(* 2 * i and 2 * i + 1.  The text of a query is opaque; executing it is    *)
(* the business of the other modules.                                      *)
(***************************************************************************)
EXTENDS Integers, SequencesExt, Bags

CONSTANTS
  Queries,          \* query texts
  Priorities,       \* 0 (admin), 1 (user), ...: smaller is more urgent
  InitialCapacity,  \* capacity of the new array, 512 in Executor
  MaxSize,          \* bound: queries waiting at one time
  Nothing           \* no query is being executed

ASSUME QueryQueueAssumption ==
  /\ Priorities \subseteq Int
  /\ InitialCapacity \in Nat \ {0}
  /\ MaxSize \in Nat

Entries == [priority : Priorities, query : Queries]

ASSUME NothingIsNoEntry == Nothing \notin Entries

VARIABLES
  heap,        \* heap_[0 .. size_ - 1]
  capacity,    \* capacity_
  sift,        \* the loop under way: "none", "up" or "down"
  at,          \* where it is
  executing,   \* the entry runQueue has taken out, or Nothing
  draining     \* runQueue is running

vars == <<heap, capacity, sift, at, executing, draining>>

Indices == DOMAIN heap

TypeOK ==
  /\ heap \in Seq(Entries)
  /\ capacity \in Nat \ {0}
  /\ sift \in {"none", "up", "down"}
  /\ sift # "none" => at \in Indices
  /\ executing \in Entries \union {Nothing}
  /\ draining \in BOOLEAN

Init ==
  /\ heap = << >> /\ capacity = InitialCapacity
  /\ sift = "none" /\ at = 1
  /\ executing = Nothing /\ draining = FALSE

-----------------------------------------------------------------------------
(* enqueue *)

\* Mutant of Full: the entry after the last one of the array still fits.
FullLate == Len(heap) > capacity

Full == Len(heap) >= capacity

\* Mutant of Copied: the last entry is left as the new array has it.
CopiedShort ==
  [i \in Indices |-> IF i < Len(heap) THEN heap[i] ELSE CHOOSE e \in Entries : TRUE]

\* What resize puts into an array of twice the length.
Copied == [i \in Indices |-> heap[i]]

enqueue(e) ==
  /\ ~draining /\ sift = "none"
  /\ Len(heap) < MaxSize
  /\ capacity' = IF Full THEN 2 * capacity ELSE capacity
  /\ heap' = Append(IF Full THEN Copied ELSE heap, e)
  /\ sift' = "up" /\ at' = Len(heap) + 1
  /\ UNCHANGED <<executing, draining>>

Swapped(i, j) == [heap EXCEPT ![i] = heap[j], ![j] = heap[i]]

\* Mutant of SiftUp: one exchange is thought to be enough.
SiftUpOnce ==
  /\ sift = "up"
  /\ IF at > 1 /\ heap[at \div 2].priority > heap[at].priority
     THEN heap' = Swapped(at \div 2, at) /\ at' = at \div 2
     ELSE UNCHANGED <<heap, at>>
  /\ sift' = "none"
  /\ UNCHANGED <<capacity, executing, draining>>

SiftUp ==
  /\ sift = "up"
  /\ IF at > 1 /\ heap[at \div 2].priority > heap[at].priority
     THEN heap' = Swapped(at \div 2, at) /\ at' = at \div 2 /\ UNCHANGED sift
     ELSE sift' = "none" /\ UNCHANGED <<heap, at>>
  /\ UNCHANGED <<capacity, executing, draining>>

-----------------------------------------------------------------------------
(* runQueue: dequeue and execute until the queue is empty *)

runQueue ==
  /\ ~draining /\ sift = "none"
  /\ draining' = TRUE
  /\ UNCHANGED <<heap, capacity, sift, at, executing>>

\* The last entry moves to the root.
dequeue ==
  /\ draining /\ sift = "none" /\ executing = Nothing
  /\ heap # << >>
  /\ executing' = heap[1]
  /\ heap' = [i \in 1 .. Len(heap) - 1 |-> IF i = 1 THEN Last(heap) ELSE heap[i]]
  /\ sift' = (IF Len(heap) > 1 THEN "down" ELSE "none") /\ at' = 1
  /\ UNCHANGED <<capacity, draining>>

\* The most urgent of entry i and its children.
Smallest(i) ==
  LET left == IF 2 * i \in Indices /\ heap[2 * i].priority < heap[i].priority
              THEN 2 * i ELSE i
  IN  IF 2 * i + 1 \in Indices /\ heap[2 * i + 1].priority < heap[left].priority
      THEN 2 * i + 1 ELSE left

\* Mutant of SiftDown: the loop does not follow the entry down.
SiftDownStays ==
  /\ sift = "down"
  /\ LET s == Smallest(at)
     IN  IF s # at THEN heap' = Swapped(at, s) /\ UNCHANGED <<at, sift>>
                   ELSE UNCHANGED <<heap, at, sift>>
  /\ UNCHANGED <<capacity, executing, draining>>

SiftDown ==
  /\ sift = "down"
  /\ LET s == Smallest(at)
     IN  IF s # at THEN heap' = Swapped(at, s) /\ at' = s /\ UNCHANGED sift
                   ELSE sift' = "none" /\ UNCHANGED <<heap, at>>
  /\ UNCHANGED <<capacity, executing, draining>>

\* executeSQL of the entry, after dequeue has returned it.
executeSQL ==
  /\ executing # Nothing /\ sift = "none"
  /\ executing' = Nothing
  /\ UNCHANGED <<heap, capacity, sift, at, draining>>

Return ==
  /\ draining /\ sift = "none" /\ executing = Nothing
  /\ heap = << >>
  /\ draining' = FALSE
  /\ UNCHANGED <<heap, capacity, sift, at, executing>>

Loop == SiftUp \/ dequeue \/ SiftDown \/ executeSQL \/ Return

Next == (\E e \in Entries : enqueue(e)) \/ runQueue \/ Loop

\* One thread, which does not stop in the middle of enqueue or runQueue.
Spec == Init /\ [][Next]_vars /\ WF_vars(Loop)

-----------------------------------------------------------------------------
(* Properties *)

NotAfter(i, j) == heap[i].priority <= heap[j].priority

(***************************************************************************)
(* Between two operations no entry is more urgent than its parent.  This   *)
(* is what makes the root the right entry to dequeue.                      *)
(***************************************************************************)
HeapOrder == sift = "none" => \A i \in Indices \ {1} : NotAfter(i \div 2, i)

(***************************************************************************)
(* The inductive form of HeapOrder.  While an entry is sifted the order    *)
(* may fail only above it (up) or below it (down), and what is below it is *)
(* never more urgent than what is above it.                                *)
(***************************************************************************)
SiftOrder ==
  /\ \A i \in Indices \ {1} :
       (sift = "up" => i # at) /\ (sift = "down" => i \div 2 # at) => NotAfter(i \div 2, i)
  /\ sift # "none" /\ at > 1 =>
       \A i \in Indices : i \div 2 = at => NotAfter(at \div 2, i)

(***************************************************************************)
(* enqueue and the sifting loops stay inside the array that the last       *)
(* resize allocated, also for the entry that finds it full.                *)
(***************************************************************************)
HeapFitsArray == Len(heap) <= capacity

QueueInv == TypeOK /\ HeapFitsArray /\ SiftOrder

EntriesOf(seq) == [e \in Range(seq) |-> Cardinality({i \in DOMAIN seq : seq[i] = e})]

U == INSTANCE UrgencyQueue WITH waiting <- EntriesOf(heap)

(***************************************************************************)
(* The heap is an UrgencyQueue: sifting and copying into a longer array    *)
(* neither lose nor invent a query, every query that was enqueued is       *)
(* executed once, and an admin query overtakes the user queries that wait, *)
(* however the arrivals were interleaved (test E of the demonstration).    *)
(***************************************************************************)
QueueIsUrgencyQueue == U!Spec

(***************************************************************************)
(* runQueue returns, and with an empty queue.                              *)
(***************************************************************************)
QueueDrains == draining ~> ~draining /\ heap = << >>
=============================================================================
