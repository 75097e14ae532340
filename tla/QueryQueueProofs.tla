-------------------------- MODULE QueryQueueProofs --------------------------
(***************************************************************************)
(* For any number of queries, any priorities and any order of arrival: the *)
(* array of QueryQueue is a heap whenever no entry is being sifted, the    *)
(* entry taken from its root is a most urgent one, and the array is the    *)
(* bag of entries that UrgencyQueue promises, whatever is swapped.         *)
(***************************************************************************)
EXTENDS QueryQueue, FiniteSetTheorems, WellFoundedInduction, TLAPS

\* The places around an index of the array.
LEMMA Halves ==
  \A i \in Nat : /\ i > 1 => i \div 2 \in Nat /\ i \div 2 >= 1 /\ i \div 2 < i
                 /\ \A j \in Nat : i \div 2 = j <=> i = 2 * j \/ i = 2 * j + 1
  OBVIOUS

(***************************************************************************)
(* Exchanging two entries.                                                 *)
(***************************************************************************)
LEMMA Exchange ==
  ASSUME heap \in Seq(Entries), NEW i \in Indices, NEW j \in Indices, i # j
  PROVE  /\ Swapped(i, j) \in Seq(Entries)
         /\ DOMAIN Swapped(i, j) = Indices /\ Len(Swapped(i, j)) = Len(heap)
         /\ Swapped(i, j)[i] = heap[j] /\ Swapped(i, j)[j] = heap[i]
         /\ \A k \in Indices \ {i, j} : Swapped(i, j)[k] = heap[k]
  BY DEF Swapped, Indices

(***************************************************************************)
(* Whether the array grows or not, the new entry comes after the others.   *)
(***************************************************************************)
LEMMA EnqueueAppends ==
  ASSUME heap \in Seq(Entries), NEW e \in Entries, enqueue(e)
  PROVE  heap' = Append(heap, e)
<1>1. Copied = heap
  BY DEF Copied, Indices
<1> QED
  BY <1>1 DEF enqueue

(***************************************************************************)
(* enqueue: the new entry is the only one that may be out of order, and    *)
(* nothing is below it.                                                    *)
(***************************************************************************)
LEMMA EnqueueKeepsInv ==
  ASSUME QueueInv, NEW e \in Entries, enqueue(e)
  PROVE  QueueInv'
<1>1. /\ heap \in Seq(Entries) /\ heap' = Append(heap, e)
      /\ sift = "none" /\ sift' = "up" /\ at' = Len(heap) + 1
      /\ capacity \in Nat \ {0} /\ Len(heap) <= capacity
      /\ capacity' = IF Full THEN 2 * capacity ELSE capacity
      /\ UNCHANGED <<executing, draining>>
  BY EnqueueAppends DEF QueueInv, TypeOK, HeapFitsArray, enqueue
<1>2. /\ heap' \in Seq(Entries) /\ Len(heap') = Len(heap) + 1
      /\ Indices = 1 .. Len(heap) /\ Indices' = 1 .. Len(heap) + 1
      /\ \A i \in Indices : heap'[i] = heap[i]
  BY <1>1 DEF Indices
<1>3. capacity' \in Nat \ {0} /\ Len(heap') <= capacity'
  BY <1>1, <1>2 DEF Full
<1>4. TypeOK' /\ HeapFitsArray'
  BY <1>1, <1>2, <1>3 DEF QueueInv, TypeOK, HeapFitsArray
<1>5. ASSUME NEW i \in Indices' \ {1}, i # at'
      PROVE  NotAfter(i \div 2, i)'
  <2>1. i \in Indices \ {1} /\ i \div 2 \in Indices
    BY <1>1, <1>2, <1>5, Halves
  <2>2. NotAfter(i \div 2, i)
    BY <2>1, <1>1 DEF QueueInv, SiftOrder
  <2> QED
    BY <2>1, <2>2, <1>2 DEF NotAfter
<1>6. ASSUME NEW i \in Indices'
      PROVE  i \div 2 # at'
  BY <1>1, <1>2
<1>7. SiftOrder'
  BY <1>1, <1>5, <1>6 DEF SiftOrder
<1> QED
  BY <1>4, <1>7 DEF QueueInv

(***************************************************************************)
(* One iteration of siftUp: the entry changes places with its parent,      *)
(* which is less urgent and, by the invariant, not after what was below.   *)
(***************************************************************************)
LEMMA SiftUpKeepsInv ==
  ASSUME QueueInv, SiftUp
  PROVE  QueueInv'
<1>1. /\ heap \in Seq(Entries) /\ Indices = 1 .. Len(heap) /\ Len(heap) \in Nat
      /\ at \in Indices /\ sift = "up"
      /\ UNCHANGED <<capacity, executing, draining>>
  BY DEF QueueInv, TypeOK, SiftUp, Indices
<1>2. \A i \in Indices : heap[i].priority \in Int
  <2>1. \A i \in Indices : heap[i] \in Entries
    BY <1>1
  <2> QED
    BY <2>1, QueryQueueAssumption DEF Entries
<1>3. /\ \A i \in Indices \ {1} : i # at => NotAfter(i \div 2, i)
      /\ at > 1 => \A i \in Indices : i \div 2 = at => NotAfter(at \div 2, i)
  BY <1>1 DEF QueueInv, SiftOrder
<1>4. CASE at > 1 /\ heap[at \div 2].priority > heap[at].priority
  <2> DEFINE up == at \div 2
  <2>1. /\ heap' = Swapped(up, at) /\ at' = up /\ sift' = "up"
        /\ up \in Indices /\ up < at
    BY <1>1, <1>4, Halves DEF SiftUp
  <2>2. heap[at].priority < heap[up].priority
    BY <1>2, <1>1, <1>4, <2>1
  <2>3. /\ heap' \in Seq(Entries) /\ Indices' = Indices /\ Len(heap') = Len(heap)
        /\ heap'[up] = heap[at] /\ heap'[at] = heap[up]
        /\ \A k \in Indices \ {up, at} : heap'[k] = heap[k]
    BY <1>1, <2>1, Exchange DEF Indices
  <2>4. TypeOK' /\ HeapFitsArray'
    BY <1>1, <2>1, <2>3 DEF QueueInv, TypeOK, HeapFitsArray
  <2>5. ASSUME NEW i \in Indices \ {1}, i # up
        PROVE  NotAfter(i \div 2, i)'
    <3>1. i \div 2 \in Indices /\ i \div 2 # i
      BY <1>1, Halves
    <3>2. CASE i = at
      BY <1>2, <2>2, <2>3, <3>2, <2>1 DEF NotAfter
    <3>3. CASE i # at /\ i \div 2 = at
      <4>1. heap[up].priority <= heap[i].priority
        BY <1>3, <1>4, <3>3 DEF NotAfter
      <4> QED
        BY <4>1, <2>3, <3>3, <2>5 DEF NotAfter
    <3>4. CASE i # at /\ i \div 2 = up
      <4>1. heap[up].priority <= heap[i].priority
        BY <1>3, <3>4 DEF NotAfter
      <4>2. heap[at].priority <= heap[i].priority
        BY <4>1, <2>2, <1>2, <1>1, <2>1
      <4> QED
        BY <4>2, <2>3, <3>4, <2>5 DEF NotAfter
    <3>5. CASE i # at /\ i \div 2 # at /\ i \div 2 # up
      <4>1. heap[i \div 2].priority <= heap[i].priority
        BY <1>3, <3>5 DEF NotAfter
      <4> QED
        BY <4>1, <2>3, <3>1, <3>5, <2>5 DEF NotAfter
    <3> QED
      BY <3>2, <3>3, <3>4, <3>5
  <2>6. ASSUME up > 1, NEW i \in Indices, i \div 2 = up
        PROVE  heap'[up \div 2].priority <= heap'[i].priority
    <3>1. /\ up \div 2 \in Indices /\ up \div 2 # up /\ up \div 2 # at
          /\ i \in Indices \ {1} /\ i # up
      BY <1>1, <2>1, <2>6, Halves
    <3>2. heap[up \div 2].priority <= heap[up].priority
      BY <1>3, <2>1, <2>6 DEF NotAfter
    <3>3. CASE i = at
      BY <3>1, <3>2, <3>3, <2>3
    <3>4. CASE i # at
      <4>1. heap[up].priority <= heap[i].priority
        BY <1>3, <3>1, <3>4, <2>6 DEF NotAfter
      <4>2. heap[up \div 2].priority <= heap[i].priority
        BY <4>1, <3>2, <3>1, <1>2, <2>1
      <4> QED
        BY <4>2, <3>1, <3>4, <2>3
    <3> QED
      BY <3>3, <3>4
  <2>7. SiftOrder'
    BY <2>1, <2>3, <2>5, <2>6 DEF SiftOrder, NotAfter
  <2> QED
    BY <2>4, <2>7 DEF QueueInv
<1>5. CASE ~(at > 1 /\ heap[at \div 2].priority > heap[at].priority)
  <2>1. UNCHANGED <<heap, at>> /\ sift' = "none"
    BY <1>5 DEF SiftUp
  <2>2. TypeOK' /\ HeapFitsArray'
    BY <1>1, <2>1 DEF QueueInv, TypeOK, HeapFitsArray, Indices
  <2>3. ASSUME NEW i \in Indices \ {1}
        PROVE  NotAfter(i \div 2, i)
    <3>1. CASE i # at
      BY <1>3, <3>1
    <3>2. CASE i = at
      <4>1. i \div 2 \in Indices /\ at > 1
        BY <1>1, <3>2, Halves
      <4> QED
        BY <4>1, <3>2, <1>5, <1>2, <1>1 DEF NotAfter
    <3> QED
      BY <3>1, <3>2
  <2>4. SiftOrder'
    BY <2>1, <2>3 DEF SiftOrder, NotAfter, Indices
  <2> QED
    BY <2>2, <2>4 DEF QueueInv
<1> QED
  BY <1>4, <1>5

(***************************************************************************)
(* dequeue: the root is taken out and the last entry put in its place; it  *)
(* may be less urgent than its children, and nothing is above it.          *)
(***************************************************************************)
LEMMA DequeueKeepsInv ==
  ASSUME QueueInv, dequeue
  PROVE  QueueInv'
<1>1. /\ heap \in Seq(Entries) /\ Len(heap) \in Nat \ {0} /\ Indices = 1 .. Len(heap)
      /\ sift = "none" /\ at' = 1 /\ executing' = heap[1]
      /\ heap' = [i \in 1 .. Len(heap) - 1 |-> IF i = 1 THEN Last(heap) ELSE heap[i]]
      /\ sift' = IF Len(heap) > 1 THEN "down" ELSE "none"
      /\ capacity \in Nat \ {0} /\ Len(heap) <= capacity
      /\ UNCHANGED <<capacity, draining>>
  BY DEF QueueInv, TypeOK, HeapFitsArray, dequeue, Indices
<1>2. \A i \in Indices : heap[i] \in Entries
  BY <1>1
<1>3. Last(heap) \in Entries
  BY <1>1, <1>2 DEF Last
<1>4. /\ heap' \in Seq(Entries) /\ Len(heap') = Len(heap) - 1
      /\ Indices' = 1 .. Len(heap) - 1
  BY <1>1, <1>2, <1>3 DEF Indices
<1>5. TypeOK' /\ HeapFitsArray'
  BY <1>1, <1>2, <1>4 DEF QueueInv, TypeOK, HeapFitsArray
<1>6. ASSUME NEW i \in Indices' \ {1}, i \div 2 # 1
      PROVE  NotAfter(i \div 2, i)'
  <2>1. i \in Indices \ {1} /\ i \div 2 \in Indices' \ {1}
    BY <1>1, <1>4, <1>6, Halves
  <2>2. NotAfter(i \div 2, i)
    BY <2>1, <1>1 DEF QueueInv, SiftOrder
  <2>3. heap'[i] = heap[i] /\ heap'[i \div 2] = heap[i \div 2]
    BY <1>1, <1>4, <1>6, <2>1
  <2> QED
    BY <2>2, <2>3 DEF NotAfter
<1>7. CASE Len(heap) > 1
  <2>1. sift' = "down"
    BY <1>1, <1>7
  <2> QED
    BY <1>1, <1>5, <1>6, <2>1 DEF QueueInv, SiftOrder
<1>8. CASE Len(heap) = 1
  <2>1. Indices' = {} /\ sift' = "none"
    BY <1>1, <1>4, <1>8
  <2> QED
    BY <1>5, <2>1 DEF QueueInv, SiftOrder
<1>9. Len(heap) > 1 \/ Len(heap) = 1
  <2>1. Len(heap) \in Nat \ {0}
    BY <1>1
  <2>2. \A n \in Nat \ {0} : n > 1 \/ n = 1
    OBVIOUS
  <2> QED
    BY <2>1, <2>2
<1> QED
  BY <1>7, <1>8, <1>9

(***************************************************************************)
(* What siftDown compares: the entry it looks for is not after any of the  *)
(* three, and it is before the parent if it is a child.                    *)
(***************************************************************************)
LEMMA SmallestOfThree ==
  ASSUME NEW i \in Indices, heap \in Seq(Entries)
  PROVE  /\ Smallest(i) \in Indices
         /\ Smallest(i) # i => /\ Smallest(i) \div 2 = i /\ Smallest(i) > i
                               /\ heap[Smallest(i)].priority < heap[i].priority
         /\ \A j \in Indices : j \div 2 = i =>
              heap[Smallest(i)].priority <= heap[j].priority
<1>1. Indices = 1 .. Len(heap) /\ Len(heap) \in Nat
  BY DEF Indices
<1>2. \A k \in Indices : heap[k].priority \in Int
  <2>1. \A k \in Indices : heap[k] \in Entries
    BY <1>1
  <2> QED
    BY <2>1, QueryQueueAssumption DEF Entries
<1>3. i \in Nat /\ i >= 1 /\ \A j \in Indices : j \div 2 = i <=> j = 2 * i \/ j = 2 * i + 1
  <2>1. i \in Nat /\ i >= 1
    BY <1>1
  <2>2. \A j \in Indices : j \in Nat
    BY <1>1
  <2> QED
    BY <2>1, <2>2, Halves
<1> DEFINE left == IF 2 * i \in Indices /\ heap[2 * i].priority < heap[i].priority
                   THEN 2 * i ELSE i
<1>4. /\ left \in Indices /\ left \in {i, 2 * i}
      /\ left # i => heap[left].priority < heap[i].priority
      /\ heap[left].priority <= heap[i].priority
      /\ 2 * i \in Indices => heap[left].priority <= heap[2 * i].priority
  BY <1>1, <1>2, <1>3
<1>5. Smallest(i) = IF 2 * i + 1 \in Indices /\ heap[2 * i + 1].priority < heap[left].priority
                    THEN 2 * i + 1 ELSE left
  BY DEF Smallest
<1> HIDE DEF left
<1>6. /\ Smallest(i) \in Indices /\ Smallest(i) \in {i, 2 * i, 2 * i + 1}
      /\ Smallest(i) # i => heap[Smallest(i)].priority < heap[i].priority
      /\ 2 * i \in Indices => heap[Smallest(i)].priority <= heap[2 * i].priority
      /\ 2 * i + 1 \in Indices => heap[Smallest(i)].priority <= heap[2 * i + 1].priority
  BY <1>2, <1>3, <1>4, <1>5
<1>7. Smallest(i) # i => Smallest(i) \div 2 = i /\ Smallest(i) > i
  BY <1>3, <1>6
<1>8. \A j \in Indices : j \div 2 = i => heap[Smallest(i)].priority <= heap[j].priority
  BY <1>3, <1>6
<1> QED
  BY <1>6, <1>7, <1>8

(***************************************************************************)
(* One iteration of siftDown: the entry changes places with its smaller    *)
(* child, which the invariant keeps after the entry's parent.              *)
(***************************************************************************)
LEMMA SiftDownKeepsInv ==
  ASSUME QueueInv, SiftDown
  PROVE  QueueInv'
<1> DEFINE s == Smallest(at)
<1>1. /\ heap \in Seq(Entries) /\ Indices = 1 .. Len(heap) /\ Len(heap) \in Nat
      /\ at \in Indices /\ sift = "down"
      /\ IF s # at THEN heap' = Swapped(at, s) /\ at' = s /\ sift' = sift
                   ELSE sift' = "none" /\ heap' = heap /\ at' = at
      /\ UNCHANGED <<capacity, executing, draining>>
  BY DEF QueueInv, TypeOK, SiftDown, Indices
<1>2. /\ \A i \in Indices \ {1} : i \div 2 # at => NotAfter(i \div 2, i)
      /\ at > 1 => \A i \in Indices : i \div 2 = at => NotAfter(at \div 2, i)
  BY <1>1 DEF QueueInv, SiftOrder
<1>3. /\ s \in Indices
      /\ s # at => s \div 2 = at /\ s > at /\ heap[s].priority < heap[at].priority
      /\ \A j \in Indices : j \div 2 = at => heap[s].priority <= heap[j].priority
  BY <1>1, SmallestOfThree
<1>4. \A i \in Indices : heap[i].priority \in Int
  <2>1. \A i \in Indices : heap[i] \in Entries
    BY <1>1
  <2> QED
    BY <2>1, QueryQueueAssumption DEF Entries
<1> HIDE DEF s
<1>5. CASE s # at
  <2>1. heap' = Swapped(at, s) /\ at' = s /\ sift' = "down"
    BY <1>1, <1>5
  <2>2. /\ heap' \in Seq(Entries) /\ Indices' = Indices /\ Len(heap') = Len(heap)
        /\ heap'[at] = heap[s] /\ heap'[s] = heap[at]
        /\ \A k \in Indices \ {at, s} : heap'[k] = heap[k]
    BY <1>1, <1>3, <1>5, <2>1, Exchange DEF Indices
  <2>3. TypeOK' /\ HeapFitsArray'
    BY <1>1, <1>3, <2>1, <2>2 DEF QueueInv, TypeOK, HeapFitsArray
  <2>4. ASSUME NEW i \in Indices \ {1}, i \div 2 # s
        PROVE  heap'[i \div 2].priority <= heap'[i].priority
    <3>1. i \div 2 \in Indices /\ i \div 2 # i /\ i \div 2 < i
      BY <1>1, Halves
    <3>2. CASE i = s
      BY <1>1, <1>3, <1>4, <1>5, <2>2, <3>2
    <3>3. CASE i # s /\ i \div 2 = at
      BY <1>1, <1>3, <2>2, <3>1, <3>3
    <3>4. CASE i = at
      <4>1. heap[at \div 2].priority <= heap[s].priority
        BY <1>1, <1>2, <1>3, <1>5, <3>4, <2>4 DEF NotAfter
      <4> QED
        BY <4>1, <2>2, <2>4, <3>1, <3>4
    <3>5. CASE i # s /\ i \div 2 # at /\ i # at
      <4>1. heap[i \div 2].priority <= heap[i].priority
        BY <1>2, <3>5 DEF NotAfter
      <4> QED
        BY <4>1, <2>2, <2>4, <3>1, <3>5
    <3> QED
      BY <3>2, <3>3, <3>4, <3>5
  <2>5. ASSUME NEW i \in Indices, i \div 2 = s
        PROVE  heap'[s \div 2].priority <= heap'[i].priority
    <3>1. i \in Indices \ {1} /\ i # s /\ i # at
      BY <1>1, <1>3, <1>5, <2>5, Halves
    <3>2. heap[s].priority <= heap[i].priority
      BY <1>2, <1>5, <3>1, <2>5 DEF NotAfter
    <3> QED
      BY <1>3, <1>5, <2>2, <3>1, <3>2
  <2>6. SiftOrder'
    BY <2>1, <2>2, <2>4, <2>5 DEF SiftOrder, NotAfter
  <2> QED
    BY <2>3, <2>6 DEF QueueInv
<1>6. CASE s = at
  <2>1. UNCHANGED <<heap, at>> /\ sift' = "none"
    BY <1>1, <1>6
  <2>2. TypeOK' /\ HeapFitsArray'
    BY <1>1, <2>1 DEF QueueInv, TypeOK, HeapFitsArray, Indices
  <2>3. ASSUME NEW i \in Indices \ {1}
        PROVE  NotAfter(i \div 2, i)
    BY <1>2, <1>3, <1>6 DEF NotAfter
  <2>4. SiftOrder'
    BY <2>1, <2>3 DEF SiftOrder, NotAfter, Indices
  <2> QED
    BY <2>2, <2>4 DEF QueueInv
<1> QED
  BY <1>5, <1>6

(***************************************************************************)
(* Every operation preserves the invariant.                                *)
(***************************************************************************)
LEMMA NextKeepsQueue == QueueInv /\ [Next]_vars => QueueInv'
<1> SUFFICES ASSUME QueueInv, [Next]_vars
             PROVE  QueueInv'
  OBVIOUS
<1>1. ASSUME UNCHANGED <<heap, capacity, sift, at>>,
             executing' \in Entries \union {Nothing}, draining' \in BOOLEAN
      PROVE  QueueInv'
  BY <1>1 DEF QueueInv, TypeOK, HeapFitsArray, SiftOrder, NotAfter, Indices
<1>2. executing \in Entries \union {Nothing} /\ draining \in BOOLEAN
  BY DEF QueueInv, TypeOK
<1>3. CASE runQueue
  BY <1>1, <1>2, <1>3 DEF runQueue
<1>4. CASE executeSQL
  BY <1>1, <1>2, <1>4 DEF executeSQL
<1>5. CASE Return
  BY <1>1, <1>2, <1>5 DEF Return
<1>6. CASE UNCHANGED vars
  BY <1>1, <1>2, <1>6 DEF vars
<1> QED
  BY <1>3, <1>4, <1>5, <1>6, EnqueueKeepsInv, SiftUpKeepsInv, DequeueKeepsInv, SiftDownKeepsInv
  DEF Next, Loop

(***************************************************************************)
(* The invariant of the queue.                                             *)
(***************************************************************************)
THEOREM QueueInvariant == Spec => []QueueInv
<1>1. Init => QueueInv
  <2> SUFFICES ASSUME Init PROVE QueueInv
    OBVIOUS
  <2>1. /\ heap = << >> /\ capacity = InitialCapacity /\ sift = "none"
        /\ executing = Nothing /\ draining = FALSE
    BY DEF Init
  <2>2. heap \in Seq(Entries) /\ Len(heap) = 0 /\ Indices = {}
    BY <2>1 DEF Indices
  <2>3. capacity \in Nat \ {0} /\ Len(heap) <= capacity
    <3>1. \A n \in Nat \ {0} : 0 <= n
      OBVIOUS
    <3> QED
      BY <2>1, <2>2, <3>1, QueryQueueAssumption
  <2>4. TypeOK /\ HeapFitsArray
    BY <2>1, <2>2, <2>3 DEF TypeOK, HeapFitsArray
  <2>5. SiftOrder
    BY <2>1, <2>2 DEF SiftOrder
  <2> QED
    BY <2>4, <2>5 DEF QueueInv
<1> QED
  BY <1>1, NextKeepsQueue, PTL DEF Spec

(***************************************************************************)
(* The array is a heap whenever no operation is under way.                 *)
(***************************************************************************)
THEOREM AlwaysAHeap == Spec => []HeapOrder
<1>1. QueueInv => HeapOrder
  BY DEF QueueInv, SiftOrder, HeapOrder
<1> QED
  BY <1>1, QueueInvariant, PTL

(***************************************************************************)
(* The entries never outgrow the array, for any first capacity and any     *)
(* number of doublings.                                                    *)
(***************************************************************************)
THEOREM NeverOutgrown == Spec => []HeapFitsArray
<1>1. QueueInv => HeapFitsArray
  BY DEF QueueInv
<1> QED
  BY <1>1, QueueInvariant, PTL

THEOREM QueueTypeCorrect == Spec => []TypeOK
<1>1. QueueInv => TypeOK
  BY DEF QueueInv
<1> QED
  BY <1>1, QueueInvariant, PTL

(***************************************************************************)
(* Every nonempty set of natural numbers has a least element.              *)
(***************************************************************************)
LEMMA LeastNumber ==
  ASSUME NEW S, S \subseteq Nat, S # {}
  PROVE  \E x \in S : \A y \in S : x <= y
<1> DEFINE Less == OpToRel(<, Nat)
<1>1. IsWellFoundedOn(Less, Nat)
  BY NatLessThanWellFounded, Zenon
<1>2. Less = {ss \in Nat \X Nat : ss[1] < ss[2]}
  BY DEF OpToRel
<1> HIDE DEF Less
<1>3. PICK x \in S : \A y \in S : ~(<<y, x>> \in Less)
  BY <1>1, WFMin, Zenon
<1>4. ASSUME NEW y \in S
      PROVE  x <= y
  <2>1. ~(<<y, x>> \in Less)
    BY <1>3
  <2>2. x \in Nat /\ y \in Nat
    OBVIOUS
  <2> QED
    BY <2>1, <2>2, <1>2
<1> QED
  BY <1>4

(***************************************************************************)
(* The root of a heap is not after any other entry: the first entry that   *)
(* is before the root would also be before its own parent.                 *)
(***************************************************************************)
LEMMA RootIsMostUrgent ==
  ASSUME QueueInv, sift = "none", NEW i \in Indices
  PROVE  heap[1].priority <= heap[i].priority
<1>1. /\ heap \in Seq(Entries) /\ Indices = 1 .. Len(heap) /\ Len(heap) \in Nat
      /\ 1 \in Indices
  BY DEF QueueInv, TypeOK, Indices
<1>2. \A k \in Indices : heap[k].priority \in Int
  <2>1. \A k \in Indices : heap[k] \in Entries
    BY <1>1
  <2> QED
    BY <2>1, QueryQueueAssumption DEF Entries
<1> DEFINE Before == {k \in Indices : heap[k].priority < heap[1].priority}
<1>3. ASSUME Before # {}
      PROVE  FALSE
  <2>1. Before \subseteq Nat
    BY <1>1
  <2>2. PICK k \in Before : \A l \in Before : k <= l
    BY <1>3, <2>1, LeastNumber
  <2>3. k \in Indices \ {1} /\ k \div 2 \in Indices /\ k \div 2 < k
    BY <1>1, <1>2, Halves
  <2>4. heap[k \div 2].priority <= heap[k].priority
    BY <2>3 DEF QueueInv, SiftOrder, NotAfter
  <2>5. k \div 2 \in Before
    BY <2>2, <2>3, <2>4, <1>1, <1>2
  <2> QED
    BY <2>1, <2>2, <2>3, <2>5
<1> QED
  BY <1>1, <1>2, <1>3

-----------------------------------------------------------------------------
(* The bag of the entries in the array *)

\* Where an entry is.
Places(seq, e) == {i \in DOMAIN seq : seq[i] = e}

LEMMA PlacesFinite ==
  ASSUME NEW seq \in Seq(Entries), NEW e
  PROVE  /\ IsFiniteSet(Places(seq, e)) /\ Cardinality(Places(seq, e)) \in Nat
         /\ Cardinality(Places(seq, e)) > 0 <=> e \in Range(seq)
<1>1. DOMAIN seq = 1 .. Len(seq) /\ Len(seq) \in Nat
  OBVIOUS
<1>2. IsFiniteSet(DOMAIN seq)
  BY <1>1, FS_Interval
<1>3. IsFiniteSet(Places(seq, e))
  BY <1>2, FS_Subset DEF Places
<1>4. Cardinality(Places(seq, e)) \in Nat
  BY <1>3, FS_CardinalityType
<1>5. Cardinality(Places(seq, e)) = 0 <=> Places(seq, e) = {}
  BY <1>3, FS_EmptySet
<1>6. Places(seq, e) # {} <=> e \in Range(seq)
  BY DEF Places, Range
<1> QED
  BY <1>3, <1>4, <1>5, <1>6

LEMMA BagOfEntries ==
  ASSUME NEW seq
  PROVE  /\ DOMAIN EntriesOf(seq) = Range(seq)
         /\ \A e \in Range(seq) : EntriesOf(seq)[e] = Cardinality(Places(seq, e))
         /\ EntriesOf(seq) = [e \in Range(seq) |-> Cardinality(Places(seq, e))]
  BY DEF EntriesOf, Places

(***************************************************************************)
(* Arrays that hold every entry equally often hold the same bag.           *)
(***************************************************************************)
LEMMA SameCountsSameBag ==
  ASSUME NEW seq \in Seq(Entries), NEW seq2 \in Seq(Entries),
         \A e \in Entries : Cardinality(Places(seq2, e)) = Cardinality(Places(seq, e))
  PROVE  EntriesOf(seq2) = EntriesOf(seq)
<1>1. Range(seq) \subseteq Entries /\ Range(seq2) \subseteq Entries
  BY DEF Range
<1>2. \A e \in Entries : e \in Range(seq) <=> e \in Range(seq2)
  BY PlacesFinite
<1>3. Range(seq) = Range(seq2)
  BY <1>1, <1>2
<1>4. \A e \in Range(seq) : Cardinality(Places(seq2, e)) = Cardinality(Places(seq, e))
  BY <1>1
<1> QED
  BY <1>3, <1>4, BagOfEntries

(***************************************************************************)
(* A new entry at the end is one more of its kind.                         *)
(***************************************************************************)
LEMMA AppendAddsEntry ==
  ASSUME NEW seq \in Seq(Entries), NEW e \in Entries
  PROVE  EntriesOf(Append(seq, e)) = EntriesOf(seq) (+) SetToBag({e})
<1> DEFINE new == Append(seq, e)
<1>1. /\ new \in Seq(Entries) /\ Len(seq) \in Nat
      /\ DOMAIN seq = 1 .. Len(seq) /\ DOMAIN new = 1 .. Len(seq) + 1
      /\ new[Len(seq) + 1] = e /\ \A i \in DOMAIN seq : new[i] = seq[i]
  OBVIOUS
<1> HIDE DEF new
<1>2. \A i : i \in DOMAIN new <=> i \in DOMAIN seq \/ i = Len(seq) + 1
  BY <1>1
<1>3. Range(new) = Range(seq) \union {e}
  BY <1>1, <1>2 DEF Range
<1>4. Places(new, e) = Places(seq, e) \union {Len(seq) + 1} /\ Len(seq) + 1 \notin Places(seq, e)
  BY <1>1, <1>2 DEF Places
<1>5. Cardinality(Places(new, e)) = Cardinality(Places(seq, e)) + 1
  BY <1>4, PlacesFinite, FS_AddElement
<1>6. \A f \in Range(seq) : f # e => Places(new, f) = Places(seq, f)
  BY <1>1, <1>2 DEF Places
<1>7. e \notin Range(seq) => Cardinality(Places(seq, e)) = 0
  BY PlacesFinite
<1>8. \A f \in Range(new) : Cardinality(Places(new, f)) =
        (IF f \in Range(seq) THEN Cardinality(Places(seq, f)) ELSE 0)
        + (IF f \in {e} THEN 1 ELSE 0)
  <2> TAKE f \in Range(new)
  <2>1. CASE f = e
    <3>1. Cardinality(Places(seq, e)) \in Nat
      BY PlacesFinite
    <3> QED
      BY <2>1, <3>1, <1>5, <1>7
  <2>2. CASE f # e
    <3>1. f \in Range(seq) /\ Places(new, f) = Places(seq, f)
      BY <2>2, <1>3, <1>6
    <3>2. Cardinality(Places(seq, f)) \in Nat
      BY PlacesFinite
    <3> QED
      BY <2>2, <3>1, <3>2
  <2> QED
    BY <2>1, <2>2
<1>9. EntriesOf(seq) (+) SetToBag({e}) =
        [f \in Range(seq) \union {e} |->
           (IF f \in Range(seq) THEN Cardinality(Places(seq, f)) ELSE 0)
           + (IF f \in {e} THEN 1 ELSE 0)]
  BY BagOfEntries DEF (+), SetToBag
<1>10. EntriesOf(new) = [f \in Range(new) |-> Cardinality(Places(new, f))]
  BY BagOfEntries
<1> QED
  BY <1>3, <1>8, <1>9, <1>10 DEF new

(***************************************************************************)
(* Exchanging two entries moves them, and keeps how many there are.        *)
(***************************************************************************)
LEMMA ExchangeKeepsEntries ==
  ASSUME heap \in Seq(Entries), NEW i \in Indices, NEW j \in Indices, i # j
  PROVE  EntriesOf(Swapped(i, j)) = EntriesOf(heap)
<1> DEFINE new == Swapped(i, j)
<1>1. /\ new \in Seq(Entries) /\ DOMAIN new = Indices
      /\ new[i] = heap[j] /\ new[j] = heap[i]
      /\ \A k \in Indices \ {i, j} : new[k] = heap[k]
  BY Exchange
<1> HIDE DEF new
<1>2. ASSUME NEW e \in Entries
      PROVE  Cardinality(Places(new, e)) = Cardinality(Places(heap, e))
  <2> DEFINE S == Places(heap, e)
             T == Places(new, e)
             g == [k \in S |-> IF k = i THEN j ELSE IF k = j THEN i ELSE k]
  <2>1. S \subseteq Indices /\ T \subseteq Indices
    BY <1>1 DEF Places, Indices
  <2>2. g \in [S -> T]
    BY <1>1 DEF Places, Indices
  <2>3. \A k, l \in S : g[k] = g[l] => k = l
    OBVIOUS
  <2>4. ASSUME NEW k \in T
        PROVE  \E l \in S : g[l] = k
    <3> DEFINE l == IF k = i THEN j ELSE IF k = j THEN i ELSE k
    <3>1. l \in S
      BY <1>1, <2>1 DEF Places, Indices
    <3>2. g[l] = k
      BY <3>1
    <3> QED
      BY <3>1, <3>2
  <2>5. IsFiniteSet(S)
    BY PlacesFinite
  <2> HIDE DEF S, T, g
  <2>6. g \in Bijection(S, T)
    BY <2>2, <2>3, <2>4 DEF Bijection, Injection, Surjection, IsInjective
  <2>7. ExistsBijection(S, T)
    BY <2>6 DEF ExistsBijection
  <2>8. Cardinality(T) = Cardinality(S)
    BY <2>5, <2>7, FS_Bijection
  <2> QED
    BY <2>8 DEF S, T
<1> QED
  BY <1>1, <1>2, SameCountsSameBag DEF new

(***************************************************************************)
(* Taking the root out and moving the last entry to its place: one entry   *)
(* of the root's kind less, and everything else as often as before.        *)
(***************************************************************************)
LEMMA DequeueRemovesRoot ==
  ASSUME NEW seq \in Seq(Entries), seq # << >>,
         NEW new,
         new = [i \in 1 .. Len(seq) - 1 |-> IF i = 1 THEN Last(seq) ELSE seq[i]]
  PROVE  EntriesOf(new) = EntriesOf(seq) (-) SetToBag({seq[1]})
<1> DEFINE n == Len(seq)
           e == seq[1]
<1>1. /\ n \in Nat /\ n >= 1 /\ DOMAIN seq = 1 .. n
      /\ \A i \in 1 .. n : seq[i] \in Entries
      /\ e \in Range(seq)
  <2>1. n \in Nat /\ n >= 1 /\ DOMAIN seq = 1 .. n
    OBVIOUS
  <2> QED
    BY <2>1 DEF Range
<1>2. Last(seq) = seq[n] /\ seq[n] \in Entries
  BY <1>1 DEF Last
<1>3. new \in Seq(Entries) /\ DOMAIN new = 1 .. n - 1
  BY <1>1, <1>2
<1> HIDE DEF n
<1>4. \A i \in 1 .. n - 1 : new[i] = IF i = 1 THEN seq[n] ELSE seq[i]
  BY <1>2 DEF n
<1> HIDE DEF e
<1>5. \A i : i \in 1 .. n - 1 <=> i \in 1 .. n /\ i # n
  BY <1>1
<1>6. n > 1 => 1 \in 1 .. n - 1 /\ n \in 1 .. n /\ 1 # n
  BY <1>1
<1>7. \A i, f : i \in Places(new, f) <=>
        i \in 1 .. n /\ i # n /\ (IF i = 1 THEN seq[n] = f ELSE seq[i] = f)
  BY <1>3, <1>4, <1>5 DEF Places
<1>8. \A i, f : i \in Places(seq, f) <=> i \in 1 .. n /\ seq[i] = f
  BY <1>1 DEF Places
<1>9. ASSUME NEW f
      PROVE  Cardinality(Places(new, f)) = Cardinality(Places(seq, f) \ {1})
  <2> DEFINE S == Places(seq, f) \ {1}
  <2>1. IsFiniteSet(S) /\ Cardinality(S) \in Nat
    BY PlacesFinite, FS_RemoveElement, FS_CardinalityType
  <2>2. CASE n > 1 /\ seq[n] = f
    <3>1. Places(new, f) = (S \ {n}) \union {1} /\ n \in S /\ 1 \notin S \ {n}
      <4>1. n \in S /\ 1 \notin S \ {n}
        BY <1>6, <1>8, <2>2
      <4>2. \A i : i \in Places(new, f) <=> i \in (S \ {n}) \union {1}
        BY <1>6, <1>7, <1>8, <1>5, <2>2
      <4> QED
        BY <4>1, <4>2
    <3>2. IsFiniteSet(S \ {n}) /\ Cardinality(S \ {n}) = Cardinality(S) - 1
      BY <2>1, <3>1, FS_RemoveElement
    <3> HIDE DEF S
    <3>3. Cardinality(Places(new, f)) = Cardinality(S \ {n}) + 1
      BY <3>1, <3>2, FS_AddElement
    <3>4. Cardinality(Places(new, f)) = Cardinality(S)
      BY <2>1, <3>2, <3>3
    <3> QED
      BY <3>4 DEF S
  <2>3. CASE ~(n > 1 /\ seq[n] = f)
    <3>1. Places(new, f) = S
      <4>1. \A i : i \in Places(new, f) <=> i \in S
        BY <1>1, <1>7, <1>8, <2>3
      <4> QED
        BY <4>1
    <3> QED
      BY <3>1
  <2> QED
    BY <2>2, <2>3
<1>10. ASSUME NEW f
      PROVE  Cardinality(Places(new, f)) =
               IF f = e THEN Cardinality(Places(seq, f)) - 1 ELSE Cardinality(Places(seq, f))
  <2>1. 1 \in Places(seq, f) <=> f = e
    BY <1>1 DEF Places, e
  <2> QED
    BY <1>9, <2>1, PlacesFinite, FS_RemoveElement
<1> DEFINE B == [f \in Range(seq) |-> IF f \in {e} THEN Cardinality(Places(seq, f)) - 1
                                                   ELSE Cardinality(Places(seq, f))]
<1>11. EntriesOf(seq) (-) SetToBag({e}) = [f \in {d \in Range(seq) : B[d] > 0} |-> B[f]]
  BY BagOfEntries DEF (-), SetToBag
<1>12. \A f \in Range(seq) : B[f] = Cardinality(Places(new, f))
  BY <1>10
<1>13. Range(new) \subseteq Range(seq)
  <2>1. ASSUME NEW i \in 1 .. n - 1
        PROVE  new[i] \in Range(seq)
    <3>1. i \in 1 .. n /\ n \in 1 .. n
      BY <1>1, <2>1
    <3> QED
      BY <1>1, <1>4, <3>1 DEF Range
  <2> QED
    BY <1>3, <2>1 DEF Range
<1> HIDE DEF B
<1>14. {d \in Range(seq) : B[d] > 0} = Range(new)
  BY <1>3, <1>12, <1>13, PlacesFinite
<1>15. EntriesOf(new) = [f \in Range(new) |-> Cardinality(Places(new, f))]
  BY BagOfEntries
<1>16. [f \in Range(new) |-> Cardinality(Places(new, f))] = [f \in Range(new) |-> B[f]]
  BY <1>12, <1>13
<1> QED
  BY <1>11, <1>14, <1>15, <1>16 DEF e

-----------------------------------------------------------------------------
(* The refinement: every step of the heap is a step of the UrgencyQueue    *)

LEMMA EnqueueRefines ==
  ASSUME QueueInv, NEW e \in Entries, enqueue(e)
  PROVE  U!Enqueue(e)
<1>1. heap \in Seq(Entries) /\ heap' = Append(heap, e) /\ ~draining
      /\ UNCHANGED <<executing, draining>>
  BY EnqueueAppends DEF QueueInv, TypeOK, enqueue
<1>2. EntriesOf(heap') = EntriesOf(heap) (+) SetToBag({e})
  BY <1>1, AppendAddsEntry
<1> QED
  BY <1>1, <1>2 DEF U!Enqueue, U!SetToBag, U!(+), SetToBag, (+)

LEMMA SiftRefines ==
  ASSUME QueueInv, SiftUp \/ SiftDown
  PROVE  UNCHANGED U!vars
<1>1. heap \in Seq(Entries) /\ sift # "none" /\ at \in Indices
  BY DEF QueueInv, TypeOK, SiftUp, SiftDown
<1>2. UNCHANGED <<executing, draining>>
  BY DEF SiftUp, SiftDown
<1>3. \/ heap' = heap
      \/ \E i, j \in Indices : i # j /\ heap' = Swapped(i, j)
  <2>1. CASE SiftUp
    <3>1. at > 1 => at \div 2 \in Indices /\ at \div 2 # at
      BY <1>1, Halves DEF Indices
    <3> QED
      BY <2>1, <3>1, <1>1 DEF SiftUp
  <2>2. CASE SiftDown
    <3>1. Smallest(at) \in Indices
      BY <1>1, SmallestOfThree
    <3> QED
      BY <2>2, <3>1, <1>1 DEF SiftDown
  <2> QED
    BY <2>1, <2>2
<1>4. EntriesOf(heap') = EntriesOf(heap)
  BY <1>1, <1>3, ExchangeKeepsEntries
<1> QED
  BY <1>2, <1>4 DEF U!vars

LEMMA DequeueRefines ==
  ASSUME QueueInv, dequeue
  PROVE  U!Take(heap[1]) /\ heap[1] \in Entries
<1>1. /\ heap \in Seq(Entries) /\ heap # << >> /\ sift = "none"
      /\ draining /\ executing = Nothing /\ executing' = heap[1] /\ draining' = draining
      /\ heap' = [i \in 1 .. Len(heap) - 1 |-> IF i = 1 THEN Last(heap) ELSE heap[i]]
  BY DEF QueueInv, TypeOK, dequeue
<1>2. 1 \in Indices /\ heap[1] \in Entries
  BY <1>1 DEF Indices
<1>3. EntriesOf(heap') = EntriesOf(heap) (-) SetToBag({heap[1]})
  BY <1>1, DequeueRemovesRoot
<1>4. BagToSet(EntriesOf(heap)) = {heap[i] : i \in Indices}
  BY BagOfEntries DEF BagToSet, Range, Indices
<1>5. BagIn(heap[1], EntriesOf(heap))
  BY <1>2, <1>4 DEF BagIn
<1>6. \A f \in BagToSet(EntriesOf(heap)) : heap[1].priority <= f.priority
  BY <1>1, <1>4, RootIsMostUrgent
<1> QED
  BY <1>1, <1>2, <1>3, <1>5, <1>6 DEF U!Take, U!SetToBag, U!(-), U!BagIn, U!BagToSet,
       SetToBag, (-), BagIn, BagToSet

LEMMA EmptyHeapEmptyBag ==
  heap = << >> => EntriesOf(heap) = EmptyBag
<1> SUFFICES ASSUME heap = << >> PROVE EntriesOf(heap) = EmptyBag
  OBVIOUS
<1>1. DOMAIN heap = {}
  OBVIOUS
<1>2. Range(heap) = {}
  BY <1>1 DEF Range
<1> QED
  BY <1>2 DEF EntriesOf, EmptyBag, SetToBag

LEMMA NextRefines ==
  QueueInv /\ [Next]_vars => [U!Next]_(U!vars)
<1> SUFFICES ASSUME QueueInv, [Next]_vars
             PROVE  U!Next \/ UNCHANGED U!vars
  OBVIOUS
<1>1. ASSUME NEW e \in Entries, enqueue(e)
      PROVE  U!Next
  BY <1>1, EnqueueRefines DEF U!Next
<1>2. CASE SiftUp \/ SiftDown
  BY <1>2, SiftRefines
<1>3. CASE dequeue
  BY <1>3, DequeueRefines DEF U!Next
<1>4. CASE runQueue
  BY <1>4 DEF runQueue, U!Drain, U!Next
<1>5. CASE executeSQL
  BY <1>5 DEF executeSQL, U!Finish, U!Next
<1>6. CASE Return
  BY <1>6, EmptyHeapEmptyBag DEF Return, U!Return, U!Next, U!EmptyBag, U!SetToBag, EmptyBag, SetToBag
<1>7. CASE UNCHANGED vars
  BY <1>7 DEF vars, U!vars
<1> QED
  BY <1>1, <1>2, <1>3, <1>4, <1>5, <1>6, <1>7 DEF Next, Loop

(***************************************************************************)
(* The heap implements the UrgencyQueue, for any queries and priorities:   *)
(* sifting and growing neither lose nor invent a query, and what runQueue  *)
(* takes out is one of the most urgent of those that wait.                 *)
(***************************************************************************)
THEOREM HeapImplementsUrgencyQueue == Spec => QueueIsUrgencyQueue
<1>1. Init => U!Init
  BY EmptyHeapEmptyBag DEF Init, U!Init, U!EmptyBag, U!SetToBag, EmptyBag, SetToBag
<1> QED
  BY <1>1, NextRefines, QueueInvariant, PTL DEF Spec, U!Spec, QueueIsUrgencyQueue
=============================================================================
