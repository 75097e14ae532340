--------------------------- MODULE PoolStructures ---------------------------
(***************************************************************************)
(* BufferPool with the two pointer structures it is made of: the nodes of  *)
(* DoublyLinkedList and the chained buckets of IntHashMap, changed by the  *)
(* pool's operations beside the sequence and the total function that stand *)
(* for them in BufferPool.  A list node is named by the frame it holds     *)
(* (lruNodes_ keeps one node for each frame in use), a null pointer is     *)
(* NoFrame.  size_, which nothing reads, is left out.                      *)
(***************************************************************************)
EXTENDS BufferPool

CONSTANT HashFactor   \* 2654435761 in IntHashMap::hash

ASSUME HashFactorAssumption == HashFactor \in Nat

VARIABLES
  links,      \* lruList_: head_, tail_ and the pointers of the nodes
  buckets     \* the chains of frameMap_

pvars == <<vars, links, buckets>>

NoNodes == [f \in Frames |-> NoFrame]

EmptyLinks == [head |-> NoFrame, tail |-> NoFrame, next |-> NoNodes, prev |-> NoNodes]

pushFront(l, f) ==
  [head |-> f,
   tail |-> IF l.tail = NoFrame THEN f ELSE l.tail,
   next |-> [l.next EXCEPT ![f] = l.head],
   prev |-> [g \in Frames |-> IF g = f THEN NoFrame ELSE IF g = l.head THEN f ELSE l.prev[g]]]

\* Mutant of unlink: the node behind keeps its pointer to f.
unlinkOneWay(l, f) ==
  [head |-> IF l.prev[f] = NoFrame THEN l.next[f] ELSE l.head,
   tail |-> IF l.next[f] = NoFrame THEN l.prev[f] ELSE l.tail,
   next |-> [g \in Frames |-> IF g = f THEN NoFrame
                              ELSE IF g = l.prev[f] THEN l.next[f] ELSE l.next[g]],
   prev |-> [l.prev EXCEPT ![f] = NoFrame]]

unlink(l, f) ==
  [head |-> IF l.prev[f] = NoFrame THEN l.next[f] ELSE l.head,
   tail |-> IF l.next[f] = NoFrame THEN l.prev[f] ELSE l.tail,
   next |-> [g \in Frames |-> IF g = f THEN NoFrame
                              ELSE IF g = l.prev[f] THEN l.next[f] ELSE l.next[g]],
   prev |-> [g \in Frames |-> IF g = f THEN NoFrame
                              ELSE IF g = l.next[f] THEN l.prev[f] ELSE l.prev[g]]]

moveToFront(f) ==
  IF f = links.head THEN UNCHANGED links
  ELSE \E l \in {unlink(links, f)} : links' = pushFront(l, f)

\* popTail, and the pushFront of the page loaded into the same frame.
TailToFront(f) ==
  \E l \in {unlink(links, f)} : links' = pushFront(l, f)

Buckets == 0 .. Capacity * 4 - 1

hash(key) == ((key * HashFactor) % KeyMod) % (Capacity * 4)

EmptyBuckets == [b \in Buckets |-> << >>]

\* Where the loop over a chain stops: the first node with that key, 0 if none.
Place(chain, key) == SelectInSeq(chain, LAMBDA node : node.key = key)

get(map, key) ==
  LET chain == map[hash(key)]
      i == Place(chain, key)
  IN  IF i = 0 THEN NoFrame ELSE chain[i].value

ChainPut(chain, key, f) ==
  LET i == Place(chain, key)
  IN  IF i = 0 THEN <<[key |-> key, value |-> f]>> \o chain
               ELSE [chain EXCEPT ![i].value = f]

put(map, key, f) == [map EXCEPT ![hash(key)] = ChainPut(@, key, f)]

\* Mutant of ChainRemove: the nodes in front of the removed one are dropped too.
ChainRemoveHead(chain, key) ==
  LET i == Place(chain, key)
  IN  IF i = 0 THEN chain ELSE SubSeq(chain, i + 1, Len(chain))

ChainRemove(chain, key) ==
  LET i == Place(chain, key) IN IF i = 0 THEN chain ELSE RemoveAt(chain, i)

remove(map, key) == [map EXCEPT ![hash(key)] = ChainRemove(@, key)]

PInit == Init /\ links = EmptyLinks /\ buckets = EmptyBuckets

\* The key of the page in frame f.
KeyOf(f) == makePageKey(frameInfos[f].table, frameInfos[f].pageId)

\* fetchPage, with what it does to the list and the map: a miss in a full pool
\* takes its frame from the tail (popTail) and removes that page's key.
fetchNode(t, p) ==
  LET key == makePageKey(t, p)
      hit == get(buckets, key)
  IN  /\ fetchPage(t, p)
      /\ \/ /\ hit # NoFrame
            /\ moveToFront(hit)
            /\ UNCHANGED buckets
         \/ /\ hit = NoFrame /\ freeFrames # << >>
            /\ links' = pushFront(links, Last(freeFrames))
            /\ buckets' = put(buckets, key, Last(freeFrames))
         \/ /\ hit = NoFrame /\ freeFrames = << >>
            /\ \E f \in {links.tail} :
                 /\ TailToFront(f)
                 /\ \E rest \in {remove(buckets, KeyOf(f))} : buckets' = put(rest, key, f)

PNext ==
  \/ \E t \in Tables, p \in PageIds : fetchNode(t, p)
  \/ /\ \/ \E c \in Contents : markDirty(c)
        \/ StartFlush(Tables, FALSE)
        \/ \E t \in Tables : StartFlush({t}, FALSE)
        \/ StartFlush(Tables, TRUE)
        \/ FlushFrame
     /\ UNCHANGED <<links, buckets>>
  \/ (Exit \/ Crash) /\ links' = EmptyLinks /\ buckets' = EmptyBuckets

PSpec == PInit /\ [][PNext]_pvars

-----------------------------------------------------------------------------
(* Properties *)

\* The frame at position i of the recency list, a null pointer beyond its ends.
NodeAt(i) == IF i \in DOMAIN lruList THEN lruList[i] ELSE NoFrame

(***************************************************************************)
(* The pointers spell the recency list, forwards and backwards, and no     *)
(* node outside the list points anywhere: any order of hits in the middle, *)
(* at the ends, evictions and loads leaves a list that evictLRU can take   *)
(* its victim from and whose two directions agree.                         *)
(***************************************************************************)
LinksSpellList ==
  /\ links.head = NodeAt(1) /\ links.tail = NodeAt(Len(lruList))
  /\ \A i \in DOMAIN lruList :
       links.next[lruList[i]] = NodeAt(i + 1) /\ links.prev[lruList[i]] = NodeAt(i - 1)
  /\ \A f \in Frames \ Range(lruList) : links.next[f] = NoFrame /\ links.prev[f] = NoFrame

(***************************************************************************)
(* The chains are the key map: every key the map holds is in one node, in  *)
(* its own bucket and with its frame, however many keys share a bucket,    *)
(* and no node outlives the page it was made for.                          *)
(***************************************************************************)
ChainsHoldMap ==
  /\ \A b \in Buckets : \A i \in DOMAIN buckets[b] :
       LET node == buckets[b][i]
       IN  /\ hash(node.key) = b /\ frameMap[node.key] = node.value
           /\ \A j \in 1 .. i - 1 : buckets[b][j].key # node.key
  /\ \A f \in Range(lruList) :
       \E node \in Range(buckets[hash(KeyOf(f))]) : node.key = KeyOf(f)
=============================================================================
