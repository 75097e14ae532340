--------------------------- MODULE JoinScanProofs ---------------------------
(***************************************************************************)
(* The join for every pool, table and page size, whatever the statements   *)
(* before it left in the pool, if the inner table leaves one frame to      *)
(* spare: the outer pointer survives the inner loop, because only inner    *)
(* pages are used more recently than the outer one (JoinInv).  If also no  *)
(* page of the two tables was waiting for its file to grow, the join       *)
(* prints what a nested-loop join prints, because at the head of each loop *)
(* it has printed the output for the rows passed (ScanInv).                *)
(***************************************************************************)
EXTENDS JoinScan, BufferPoolProofs, DataLemmas

\* In the list, g was used more recently than f.
Before(list, g, f) ==
  \E i, k \in DOMAIN list : i < k /\ list[i] = g /\ list[k] = f

FilesBounded == \A t \in Tables : pageCount(disk[t]) <= MaxPages

\* Frame g holds a page of the inner table.
HoldsInner(g) ==
  frameInfos[g].table = inner /\ frameInfos[g].pageId \in 0 .. pageCount(disk[inner]) - 1

\* The outer page is in its frame, and only inner pages were used since.
OuterKept ==
  /\ pg0 \in Range(lruList)
  /\ frameInfos[pg0] = [table |-> outer, pageId |-> pid0]
  /\ \A g \in Frames : Before(lruList, g, pg0) => HoldsInner(g)

\* The join has begun.
Running == phase \in {"outer", "row", "inner", "done"}

\* What the loops need of their counters: the files only grow while they run.
LoopTypes ==
  /\ phase \in {"idle", "new", "outer", "row", "inner", "done"}
  /\ pid0 \in Nat /\ pid1 \in Nat
  /\ Running =>
       /\ outer \in Tables /\ inner \in Tables \union {NoTable}
       /\ pg0Count \in Nat /\ pg0Count <= pageCount(disk[outer]) /\ innerFirst \in Nat
       /\ inner # NoTable => innerFirst <= pageCount(disk[inner])
  /\ phase = "inner" =>
       /\ inner \in Tables /\ pg1Count \in Nat
       /\ innerFirst <= pg1Count /\ pg1Count <= pageCount(disk[inner])

JoinInv ==
  /\ StructuresInv /\ FilesBounded /\ LoopTypes
  /\ phase \in {"row", "inner"} /\ InnerFits => OuterKept

-----------------------------------------------------------------------------
(* What a fetch does to the order of use *)

(***************************************************************************)
(* A frame pushed to the front is before all others, which keep their      *)
(* order.                                                                  *)
(***************************************************************************)
LEMMA BeforeInPushed ==
  ASSUME NEW list \in Seq(Frames), IsInjective(list), NEW h \in Frames, h \notin Range(list),
         NEW g, NEW f, Before(<<h>> \o list, g, f)
  PROVE  f # h /\ (g = h \/ Before(list, g, f))
<1> DEFINE n == Len(list)
           new == <<h>> \o list
<1>1. n \in Nat /\ DOMAIN list = 1 .. n
  OBVIOUS
<1>2. new \in Seq(Frames) /\ Len(new) = n + 1
  OBVIOUS
<1>3. DOMAIN new = 1 .. n + 1 /\ new[1] = h /\ \A i \in 1 .. n : new[i + 1] = list[i]
  BY <1>1, <1>2
<1>4. PICK i, k \in DOMAIN new : i < k /\ new[i] = g /\ new[k] = f
  BY DEF Before
<1> HIDE DEF new
<1>5. k - 1 \in 1 .. n /\ f = list[k - 1]
  <2>1. k - 1 \in 1 .. n /\ (k - 1) + 1 = k
    BY <1>1, <1>3, <1>4
  <2>2. new[(k - 1) + 1] = list[k - 1]
    BY <2>1, <1>3
  <2> QED
    BY <2>1, <2>2, <1>4
<1>6. f # h
  BY <1>1, <1>5 DEF Range
<1>7. ASSUME i # 1
      PROVE  Before(list, g, f)
  <2>1. i - 1 \in 1 .. n /\ (i - 1) + 1 = i /\ i - 1 < k - 1
    BY <1>1, <1>3, <1>4, <1>7
  <2>2. new[(i - 1) + 1] = list[i - 1]
    BY <2>1, <1>3
  <2> QED
    BY <2>1, <2>2, <1>1, <1>4, <1>5 DEF Before
<1> QED
  BY <1>3, <1>4, <1>6, <1>7

(***************************************************************************)
(* Taking a frame out of the list leaves the order of the others.          *)
(***************************************************************************)
LEMMA BeforeInWithout ==
  ASSUME NEW list \in Seq(Frames), NEW j \in DOMAIN list,
         NEW g, NEW f, Before(Without(list, j), g, f)
  PROVE  Before(list, g, f)
<1> DEFINE n == Len(list)
           src(i) == IF i < j THEN i ELSE i + 1
<1>1. n \in Nat /\ DOMAIN list = 1 .. n /\ j \in 1 .. n
  OBVIOUS
<1>2. PICK i, k \in 1 .. n - 1 : i < k /\ list[src(i)] = g /\ list[src(k)] = f
  BY <1>1 DEF Before, Without
<1>3. src(i) \in 1 .. n /\ src(k) \in 1 .. n /\ src(i) < src(k)
  BY <1>1, <1>2
<1> QED
  BY <1>1, <1>2, <1>3 DEF Before

(***************************************************************************)
(* fetchPage: the frame goes to the front, and a page leaves its frame     *)
(* only if it is the last of a full list and p is not there.               *)
(***************************************************************************)
LEMMA FetchShape ==
  ASSUME StructuresInv, NEW t \in Tables, NEW p \in PageIds, fetchPage(t, p)
  PROVE  \E h \in Frames, list \in Seq(Frames) :
           /\ lruList' = <<h>> \o list /\ IsInjective(list) /\ h \notin Range(list)
           /\ cursor' = [frame |-> h, table |-> t, pageId |-> p]
           /\ Range(lruList) \subseteq Range(list) \union {h}
           /\ \A g, f \in Frames : Before(list, g, f) => Before(lruList, g, f)
           /\ \A g \in Frames \ {h} : frameInfos'[g] = frameInfos[g]
           /\ \/ h \in Range(lruList) => frameInfos'[h] = frameInfos[h]
              \/ /\ freeFrames = << >> /\ h = Last(lruList)
                 /\ frameMap[makePageKey(t, p)] = NoFrame
<1> DEFINE key == makePageKey(t, p)
<1>1. /\ lruList \in Seq(Frames) /\ IsInjective(lruList) /\ key \in PageKeys
      /\ TypeOK /\ FrameAccounting /\ Indexes(frameMap, lruList) /\ PoolInv
  BY KeyType DEF StructuresInv, PoolInv, TypeOK, FrameAccounting, MapMatchesFrames, Indexes
<1>2. CASE FetchHit(t, p)
  <2> DEFINE h == frameMap[key]
  <2>1. /\ h \in Range(lruList) /\ lruList' = MoveToFront(lruList, h)
        /\ cursor' = [frame |-> h, table |-> t, pageId |-> p]
        /\ UNCHANGED frameInfos
    BY <1>1, <1>2 DEF FetchHit, Indexes
  <2> HIDE DEF h
  <2>2. PICK j \in DOMAIN lruList : lruList[j] = h
    BY <2>1 DEF Range
  <2> DEFINE list == Without(lruList, j)
  <2>3. list \in Seq(Frames) /\ IsInjective(list) /\ Range(list) = Range(lruList) \ {h}
    BY <1>1, <2>2, WithoutShape
  <2>4. lruList' = <<h>> \o list
    BY <1>1, <2>1, <2>2, MoveToFrontIsWithout
  <2>5. \A g, f \in Frames : Before(list, g, f) => Before(lruList, g, f)
    BY <1>1, BeforeInWithout
  <2>6. h \in Frames
    BY <1>1, <2>2
  <2> HIDE DEF list
  <2> QED
    BY <2>1, <2>3, <2>4, <2>5, <2>6
<1>3. CASE FetchMissFree(t, p)
  <2> DEFINE h == Last(freeFrames)
  <2>1. /\ freeFrames \in Seq(Frames) /\ IsInjective(freeFrames) /\ freeFrames # << >>
        /\ Range(lruList) \intersect Range(freeFrames) = {}
    BY <1>1, <1>3 DEF TypeOK, FrameAccounting, FetchMissFree
  <2>2. h \in Frames /\ h \notin Range(lruList)
    BY <2>1, DropLast DEF Range
  <2>3. /\ lruList' = <<h>> \o lruList
        /\ cursor' = [frame |-> h, table |-> t, pageId |-> p]
        /\ frameInfos' = [frameInfos EXCEPT ![h] = [table |-> t, pageId |-> p]]
    BY <1>3 DEF FetchMissFree, Load
  <2> HIDE DEF h
  <2>4. \A g \in Frames \ {h} : frameInfos'[g] = frameInfos[g]
    BY <1>1, <2>2, <2>3 DEF TypeOK
  <2> QED
    BY <1>1, <2>2, <2>3, <2>4
<1>4. CASE FetchMissEvict(t, p)
  <2> DEFINE h == Last(lruList)
             list == Front(lruList)
  <2>1. /\ list \in Seq(Frames) /\ IsInjective(list) /\ h \in Range(lruList)
        /\ Range(list) = Range(lruList) \ {h} /\ freeFrames = << >>
    BY <1>1, <1>4, EvictKeepsStructure DEF FetchMissEvict
  <2>2. lruList # << >> /\ Len(lruList) \in DOMAIN lruList /\ h \in Frames
    BY <1>1, <2>1 DEF Range
  <2>3. \A g, f \in Frames : Before(list, g, f) => Before(lruList, g, f)
    BY <1>1, <2>2, FrontIsWithout, BeforeInWithout
  <2>4. /\ lruList' = <<h>> \o list /\ frameMap[key] = NoFrame
        /\ cursor' = [frame |-> h, table |-> t, pageId |-> p]
        /\ frameInfos' = [frameInfos EXCEPT ![h] = [table |-> t, pageId |-> p]]
    BY <1>4 DEF FetchMissEvict, Load
  <2> HIDE DEF h, list
  <2>5. \A g \in Frames \ {h} : frameInfos'[g] = frameInfos[g]
    BY <1>1, <2>2, <2>4 DEF TypeOK
  <2>6. h = Last(lruList)
    BY DEF h
  <2> QED
    BY <1>1, <2>1, <2>2, <2>3, <2>4, <2>5, <2>6
<1> QED
  BY <1>2, <1>3, <1>4 DEF fetchPage

\* No file has fewer pages than before, and none more than there may be.
FilesGrow ==
  \A u \in Tables :
    /\ pageCount(disk[u]) \in Nat /\ pageCount(disk'[u]) \in Nat
    /\ pageCount(disk[u]) <= pageCount(disk'[u]) /\ pageCount(disk'[u]) <= MaxPages

(***************************************************************************)
(* What a write does to the length of a file.                              *)
(***************************************************************************)
LEMMA WriteLength ==
  ASSUME NEW file \in Seq(Contents), NEW p \in Nat, NEW c \in Contents
  PROVE  pageCount(writePage(file, p, c)) =
           IF p < pageCount(file) THEN pageCount(file) ELSE p + 1
<1> DEFINE n == IF p < Len(file) THEN Len(file) ELSE p + 1
<1>1. n \in Nat
  OBVIOUS
<1>2. DOMAIN writePage(file, p, c) = 1 .. n /\ writePage(file, p, c) \in Seq(Contents)
  BY WritePageType DEF writePage, pageCount
<1> HIDE DEF n
<1>3. Len(writePage(file, p, c)) = n
  BY <1>1, <1>2
<1> QED
  BY <1>3 DEF n, pageCount

(***************************************************************************)
(* The write of a frame in use, or a failed one, in terms of file lengths. *)
(***************************************************************************)
LEMMA WrittenGrows ==
  ASSUME PoolInv, FilesBounded, NEW f \in Range(lruList), NEW ok \in BOOLEAN,
         disk' = Written(f, ok)
  PROVE  FilesGrow
<1> DEFINE t == frameInfos[f].table
           p == pages[f].pageId
           c == pages[f].data
<1>1. t \in Tables /\ p \in PageIds /\ c \in Contents /\ MaxPages \in Nat
  BY FrameResident, BufferPoolAssumption DEF PoolInv, TypeOK
<1>2. disk \in [Tables -> Seq(Contents)] /\ p \in Nat /\ p < MaxPages
  BY <1>1 DEF PoolInv, TypeOK, PageIds
<1>3. \A u \in Tables : pageCount(disk[u]) \in Nat /\ pageCount(disk[u]) <= MaxPages
  BY <1>2 DEF FilesBounded, pageCount
<1>4. CASE ok
  <2>1. disk' = [disk EXCEPT ![t] = writePage(disk[t], p, c)]
    BY <1>4 DEF Written
  <2> HIDE DEF t, p, c
  <2>2. pageCount(writePage(disk[t], p, c)) =
          IF p < pageCount(disk[t]) THEN pageCount(disk[t]) ELSE p + 1
    BY <1>1, <1>2, WriteLength
  <2>3. \A u \in Tables :
          disk'[u] = IF u = t THEN writePage(disk[t], p, c) ELSE disk[u]
    BY <1>1, <1>2, <2>1
  <2> QED
    BY <1>1, <1>2, <1>3, <2>2, <2>3 DEF FilesGrow
<1>5. CASE ~ok
  <2>1. disk' = disk
    BY <1>5 DEF Written
  <2> QED
    BY <1>3, <2>1 DEF FilesGrow
<1> QED
  BY <1>4, <1>5

(***************************************************************************)
(* fetchPage may write the page it evicts, which may lengthen a file.      *)
(***************************************************************************)
LEMMA FetchGrowsFiles ==
  ASSUME PoolInv, FilesBounded, NEW t \in Tables, NEW p \in PageIds, fetchPage(t, p)
  PROVE  FilesGrow
<1>1. CASE disk' = disk
  <2>1. \A u \in Tables : pageCount(disk[u]) \in Nat
    BY DEF PoolInv, TypeOK, pageCount
  <2> QED
    BY <1>1, <2>1 DEF FilesGrow, FilesBounded
<1>2. CASE FetchMissEvict(t, p) /\ disk' # disk
  <2>1. PICK ok \in WriteOutcomes : disk' = Written(Last(lruList), ok)
    BY <1>2 DEF FetchMissEvict
  <2>2. Last(lruList) \in Range(lruList) /\ ok \in BOOLEAN
    BY <1>2, <2>1, EvictKeepsStructure, BufferPoolAssumption DEF FetchMissEvict
  <2> QED
    BY <2>1, <2>2, WrittenGrows
<1> QED
  BY <1>1, <1>2 DEF fetchPage, FetchHit, FetchMissFree

-----------------------------------------------------------------------------
(* The inner loop *)

(***************************************************************************)
(* In a full pool where only inner pages were used since the outer one,    *)
(* the outer frame is not the last: each other frame would hold its own    *)
(* inner page and one more is asked for, more than the inner table has.    *)
(***************************************************************************)
LEMMA OuterIsNotLast ==
  ASSUME StructuresInv, OuterKept, inner \in Tables, pageCount(disk[inner]) < Capacity,
         pageCount(disk[inner]) <= MaxPages,
         NEW p \in 0 .. pageCount(disk[inner]) - 1,
         frameMap[makePageKey(inner, p)] = NoFrame, freeFrames = << >>
  PROVE  pg0 # Last(lruList)
<1> SUFFICES ASSUME pg0 = Last(lruList) PROVE FALSE
  OBVIOUS
<1> DEFINE n == pageCount(disk[inner])
           page == [f \in Frames |-> IF f = pg0 THEN p ELSE frameInfos[f].pageId]
<1>1. /\ lruList \in Seq(Frames) /\ IsInjective(lruList) /\ Range(lruList) = Frames
      /\ TypeOK /\ MapMatchesFrames
  BY EvictKeepsStructure DEF StructuresInv, PoolInv, TypeOK, FrameAccounting
<1>2. n \in Nat /\ Capacity \in Nat
  BY <1>1, BufferPoolAssumption DEF TypeOK, pageCount
<1>3. \A f \in Frames \ {pg0} : HoldsInner(f)
  <2> TAKE f \in Frames \ {pg0}
  <2>1. PICK i \in DOMAIN lruList : lruList[i] = f
    BY <1>1 DEF Range
  <2>2. i < Len(lruList) /\ Len(lruList) \in DOMAIN lruList
    <3>1. lruList[i] # lruList[Len(lruList)]
      BY <2>1 DEF Last
    <3>2. i \in 1 .. Len(lruList) /\ Len(lruList) \in Nat
      BY <1>1
    <3> QED
      BY <3>1, <3>2, <1>1
  <2> QED
    BY <2>1, <2>2 DEF OuterKept, Before, Last
<1>4. page \in [Frames -> 0 .. n - 1]
  BY <1>3 DEF HoldsInner
<1>5. /\ IsFiniteSet(Frames) /\ Cardinality(Frames) = Capacity
      /\ IsFiniteSet(0 .. n - 1) /\ Cardinality(0 .. n - 1) = n
  <2> HIDE DEF n
  <2>1. ASSUME NEW k \in Nat
        PROVE  IsFiniteSet(0 .. k - 1) /\ Cardinality(0 .. k - 1) = k
    <3>1. /\ IsFiniteSet(0 .. k - 1)
          /\ Cardinality(0 .. k - 1) = IF 0 > k - 1 THEN 0 ELSE (k - 1) - 0 + 1
      BY FS_Interval
    <3> QED
      BY <3>1
  <2> QED
    BY <1>2, <2>1 DEF Frames
<1>6. PICK f, g \in Frames : f # g /\ page[f] = page[g]
  <2> HIDE DEF page, n
  <2>1. Cardinality(0 .. n - 1) < Cardinality(Frames)
    BY <1>5 DEF n
  <2> QED
    BY <2>1, <1>4, <1>5, FS_PigeonHole
<1>7. \A h \in Frames : frameMap[makePageKey(frameInfos[h].table, frameInfos[h].pageId)] = h
  BY <1>1 DEF MapMatchesFrames
<1>8. ASSUME NEW x \in Frames \ {pg0}, NEW y \in Frames, x # y, page[x] = page[y]
      PROVE  FALSE
  <2>1. frameInfos[x].table = inner /\ frameInfos[x].pageId = page[x]
    BY <1>3, <1>8 DEF HoldsInner
  <2>2. CASE y = pg0
    <3>1. frameMap[makePageKey(inner, p)] = x
      BY <2>1, <2>2, <1>7, <1>8
    <3> QED
      BY <3>1, NullIsNoFrame
  <2>3. CASE y # pg0
    <3>1. frameInfos[y].table = inner /\ frameInfos[y].pageId = page[y]
      BY <2>3, <1>3 DEF HoldsInner
    <3>2. frameMap[makePageKey(inner, page[x])] = x /\ frameMap[makePageKey(inner, page[y])] = y
      BY <2>1, <3>1, <1>7
    <3> QED
      BY <3>2, <1>8
  <2> QED
    BY <2>2, <2>3
<1> QED
  BY <1>6, <1>8

(***************************************************************************)
(* A fetch of the inner loop leaves the outer page in its frame.           *)
(***************************************************************************)
LEMMA InnerFetchKeepsOuter ==
  ASSUME StructuresInv, FilesBounded, PoolInv', OuterKept, inner \in Tables,
         pageCount(disk[inner]) < Capacity,
         NEW p \in 0 .. pageCount(disk[inner]) - 1, fetchPage(inner, p),
         UNCHANGED <<pg0, outer, inner, pid0>>
  PROVE  OuterKept'
<1>1. disk[inner] \in Seq(Contents) /\ p \in PageIds
  <2>1. disk[inner] \in Seq(Contents) /\ MaxPages \in Nat
    BY BufferPoolAssumption DEF StructuresInv, PoolInv, TypeOK
  <2>2. pageCount(disk[inner]) \in Nat
    BY <2>1 DEF pageCount
  <2> QED
    BY <2>1, <2>2 DEF PageIds, FilesBounded
<1>2. FilesGrow
  BY <1>1, FetchGrowsFiles DEF StructuresInv
<1>3. PICK h \in Frames, list \in Seq(Frames) :
        /\ lruList' = <<h>> \o list /\ IsInjective(list) /\ h \notin Range(list)
        /\ cursor' = [frame |-> h, table |-> inner, pageId |-> p]
        /\ Range(lruList) \subseteq Range(list) \union {h}
        /\ \A g, f \in Frames : Before(list, g, f) => Before(lruList, g, f)
        /\ \A g \in Frames \ {h} : frameInfos'[g] = frameInfos[g]
        /\ \/ h \in Range(lruList) => frameInfos'[h] = frameInfos[h]
           \/ /\ freeFrames = << >> /\ h = Last(lruList)
              /\ frameMap[makePageKey(inner, p)] = NoFrame
  BY <1>1, FetchShape
<1>4. Range(lruList') = Range(list) \union {h}
  BY <1>3, PushFrontAdds
<1>5. pg0 \in Range(lruList) /\ pg0 \in Frames
  BY DEF OuterKept, StructuresInv, PoolInv, TypeOK, Range
<1>6. frameInfos'[pg0] = frameInfos[pg0]
  <2>1. CASE pg0 = h
    BY <2>1, <1>3, <1>5, OuterIsNotLast DEF FilesBounded
  <2>2. CASE pg0 # h
    BY <2>2, <1>3, <1>5
  <2> QED
    BY <2>1, <2>2
<1>7. frameInfos'[h] = [table |-> inner, pageId |-> p]
  <2>1. cursor'.frame = h /\ cursor'.table = inner /\ cursor'.pageId = p /\ h # NoFrame
    BY <1>3, NullIsNoFrame
  <2> QED
    BY <2>1 DEF PoolInv, CursorValid
<1>8. 0 .. pageCount(disk[inner]) - 1 \subseteq 0 .. pageCount(disk'[inner]) - 1
  BY <1>2 DEF FilesGrow
<1>9. ASSUME NEW g \in Frames, Before(lruList', g, pg0)
      PROVE  HoldsInner(g)'
  <2>1. pg0 # h /\ (g = h \/ Before(list, g, pg0))
    BY <1>3, <1>9, BeforeInPushed
  <2>2. CASE g = h
    BY <2>2, <1>8, <1>7 DEF HoldsInner
  <2>3. CASE g # h
    <3>1. Before(lruList, g, pg0)
      BY <2>1, <2>3, <1>3, <1>5
    <3>2. HoldsInner(g)
      BY <3>1 DEF OuterKept
    <3> QED
      BY <3>2, <2>3, <1>8, <1>3 DEF HoldsInner
  <2> QED
    BY <2>2, <2>3
<1>10. pg0 \in Range(lruList')
  BY <1>3, <1>4, <1>5
<1> QED
  BY <1>6, <1>9, <1>10 DEF OuterKept

(***************************************************************************)
(* The fetch of the outer loop puts the outer page in front.               *)
(***************************************************************************)
LEMMA OuterFetchKeepsOuter ==
  ASSUME StructuresInv, PoolInv', NEW p \in PageIds, outer \in Tables,
         fetchPage(outer, p), pid0 = p, pg0' = cursor'.frame, UNCHANGED <<outer, pid0>>
  PROVE  OuterKept'
<1>1. PICK h \in Frames, list \in Seq(Frames) :
        /\ lruList' = <<h>> \o list /\ IsInjective(list) /\ h \notin Range(list)
        /\ cursor' = [frame |-> h, table |-> outer, pageId |-> p]
  BY FetchShape
<1>2. pg0' = h /\ h # NoFrame
  BY <1>1, NullIsNoFrame
<1>3. h \in Range(lruList')
  BY <1>1, PushFrontAdds
<1>4. frameInfos'[h] = [table |-> outer, pageId |-> p]
  <2>1. cursor'.frame = h /\ cursor'.table = outer /\ cursor'.pageId = p
    BY <1>1
  <2> QED
    BY <1>2, <2>1 DEF PoolInv, CursorValid
<1>5. \A g \in Frames : ~Before(lruList', g, h)
  BY <1>1, BeforeInPushed
<1> QED
  BY <1>2, <1>3, <1>4, <1>5 DEF OuterKept

-----------------------------------------------------------------------------
(* The join *)

(***************************************************************************)
(* A fetch keeps what a join needs of the pool and the files.              *)
(***************************************************************************)
LEMMA FetchKeepsPool ==
  ASSUME StructuresInv, FilesBounded, NEW t \in Tables, NEW p \in PageIds, fetchNode(t, p)
  PROVE  StructuresInv' /\ FilesBounded' /\ FilesGrow /\ fetchPage(t, p)
<1>1. fetchPage(t, p)
  BY DEF fetchNode
<1>2. FilesGrow
  BY <1>1, FetchGrowsFiles DEF StructuresInv
<1>3. FilesBounded'
  BY <1>2 DEF FilesGrow, FilesBounded
<1>4. StructuresInv'
  BY StructuresStep DEF PNext
<1> QED
  BY <1>1, <1>2, <1>3, <1>4

(***************************************************************************)
(* The pages of the files are pages the pool can hold.                     *)
(***************************************************************************)
LEMMA InFile ==
  ASSUME StructuresInv, FilesBounded, NEW t \in Tables
  PROVE  /\ pageCount(disk[t]) \in Nat /\ MaxPages \in Nat /\ pageCount(disk[t]) <= MaxPages
         /\ \A p \in Nat : p < pageCount(disk[t]) =>
              p \in PageIds /\ p \in 0 .. pageCount(disk[t]) - 1
         /\ pageCount(disk[t]) < MaxPages => pageCount(disk[t]) \in PageIds
<1>1. pageCount(disk[t]) \in Nat /\ MaxPages \in Nat /\ pageCount(disk[t]) <= MaxPages
  BY BufferPoolAssumption DEF StructuresInv, PoolInv, TypeOK, pageCount, FilesBounded
<1> QED
  BY <1>1 DEF PageIds

(***************************************************************************)
(* Steps of the loops that fetch nothing leave pool and pointer alone.     *)
(***************************************************************************)
LEMMA NoFetchKeeps ==
  ASSUME JoinInv, UNCHANGED pvars
  PROVE  /\ StructuresInv' /\ FilesBounded' /\ disk' = disk
         /\ UNCHANGED <<pg0, outer, inner, pid0>> /\ OuterKept => OuterKept'
         /\ inner' = inner /\ InnerFits' => InnerFits
<1>1. UNCHANGED <<disk, pages, frameInfos, lruList>>
  BY DEF pvars, vars
<1>2. StructuresInv'
  BY StructuresStep DEF JoinInv
<1>3. FilesBounded'
  BY <1>1 DEF JoinInv, FilesBounded
<1>4. UNCHANGED <<pg0, outer, inner, pid0>> /\ OuterKept => OuterKept'
  BY <1>1 DEF OuterKept, Before, HoldsInner
<1> QED
  BY <1>1, <1>2, <1>3, <1>4 DEF InnerFits

(***************************************************************************)
(* The statements before a join keep its invariant.                        *)
(***************************************************************************)
LEMMA EarlierStep ==
  ASSUME JoinInv,
         \/ EarlierFetch \/ EarlierAllocate
         \/ \E c \in Contents : EarlierStore(c) \/ EarlierAppend(c)
  PROVE  JoinInv'
<1>0. StructuresInv /\ FilesBounded /\ LoopTypes
  BY DEF JoinInv
<1>1. phase' \in {"idle", "new"} /\ UNCHANGED <<pid0, pid1>>
  BY <1>0 DEF EarlierFetch, EarlierAllocate, EarlierStore, EarlierAppend, join
<1>2. LoopTypes'
  BY <1>0, <1>1 DEF LoopTypes, Running
<1>3. CASE EarlierFetch \/ EarlierAllocate
  <2>1. PICK t \in Tables : \E p \in PageIds : fetchNode(t, p)
    <3>1. CASE EarlierFetch
      <4>1. PICK t \in Tables : \E p \in 0 .. pageCount(disk[t]) - 1 : fetchNode(t, p)
        BY <3>1 DEF EarlierFetch
      <4>2. 0 .. pageCount(disk[t]) - 1 \subseteq PageIds
        <5>1. \A p \in Nat : p < pageCount(disk[t]) => p \in PageIds
          BY <1>0, InFile
        <5>2. pageCount(disk[t]) \in Nat
          BY <1>0, InFile
        <5> QED
          BY <5>1, <5>2
      <4> QED
        BY <4>1, <4>2
    <3>2. CASE EarlierAllocate
      <4>1. PICK t \in Tables :
              pageCount(disk[t]) < MaxPages /\ fetchNode(t, pageCount(disk[t]))
        BY <3>2 DEF EarlierAllocate
      <4> QED
        BY <4>1, <1>0, InFile
    <3> QED
      BY <1>3, <3>1, <3>2
  <2>2. StructuresInv' /\ FilesBounded'
    BY <1>0, <2>1, FetchKeepsPool
  <2> QED
    BY <1>1, <1>2, <2>2 DEF JoinInv
<1>4. ASSUME NEW c \in Contents, EarlierStore(c) \/ EarlierAppend(c)
      PROVE  JoinInv'
  <2>1. markDirty(c) /\ UNCHANGED <<links, buckets>>
    BY <1>4 DEF EarlierStore, EarlierAppend
  <2>2. StructuresInv'
    BY <1>0, <2>1, StructuresStep DEF PNext
  <2>3. FilesBounded'
    BY <1>0, <2>1 DEF markDirty, FilesBounded
  <2> QED
    BY <1>1, <1>2, <2>2, <2>3 DEF JoinInv
<1> QED
  BY <1>3, <1>4

(***************************************************************************)
(* Every step of a join keeps its invariant.                               *)
(***************************************************************************)
LEMMA JoinStep == JoinInv /\ [JNext]_jvars => JoinInv'
<1> SUFFICES ASSUME JoinInv, [JNext]_jvars PROVE JoinInv'
  OBVIOUS
<1>0. /\ StructuresInv /\ FilesBounded /\ LoopTypes
      /\ \A t \in Tables : pageCount(disk[t]) \in Nat
  BY DEF JoinInv, StructuresInv, PoolInv, TypeOK, pageCount
<1>1. ASSUME NEW t \in Tables, NEW u \in Tables \union {NoTable}, NEW w, executeJoin(t, u, w)
      PROVE  JoinInv'
  <2>1. /\ UNCHANGED pvars /\ UNCHANGED <<pid0, pid1>> /\ phase' = "outer"
        /\ outer' = t /\ inner' = u /\ pg0Count' = pageCount(disk[t])
        /\ innerFirst' = IF u = NoTable THEN 0 ELSE pageCount(disk[u])
    BY <1>1 DEF executeJoin
  <2>2. StructuresInv' /\ FilesBounded' /\ disk' = disk
    BY <2>1, NoFetchKeeps
  <2>3. LoopTypes'
    <3>1. u # NoTable => innerFirst' = pageCount(disk[u]) /\ pageCount(disk[u]) \in Nat
      BY <1>0, <2>1
    <3> QED
      BY <1>0, <2>1, <2>2, <3>1 DEF LoopTypes, Running
  <2> QED
    BY <2>1, <2>2, <2>3 DEF JoinInv
<1>2. CASE OuterPage
  <2>1. /\ phase = "outer" /\ pid0 < pg0Count /\ fetchNode(outer, pid0)
        /\ pg0' = cursor'.frame /\ phase' = "row"
        /\ UNCHANGED <<outer, inner, innerFirst, pg0Count, pid0, pid1>>
    BY <1>2 DEF OuterPage, plan
  <2>2. outer \in Tables /\ pid0 \in Nat /\ pid0 < pageCount(disk[outer])
    BY <1>0, <2>1 DEF LoopTypes, Running
  <2>3. pid0 \in PageIds
    BY <1>0, <2>2, InFile
  <2>4. StructuresInv' /\ FilesBounded' /\ FilesGrow /\ fetchPage(outer, pid0)
    BY <1>0, <2>1, <2>2, <2>3, FetchKeepsPool
  <2>5. OuterKept'
    BY <1>0, <2>1, <2>2, <2>3, <2>4, OuterFetchKeepsOuter DEF StructuresInv
  <2>6. LoopTypes'
    <3>1. inner \in Tables \union {NoTable} /\ (inner # NoTable => inner \in Tables)
      BY <1>0, <2>1 DEF LoopTypes, Running
    <3> QED
      BY <1>0, <2>1, <2>2, <2>4, <3>1 DEF LoopTypes, Running, FilesGrow
  <2> QED
    BY <2>4, <2>5, <2>6 DEF JoinInv
<1>3. CASE OuterEnd
  <2>1. /\ UNCHANGED pvars /\ UNCHANGED <<outer, inner, innerFirst, pg0Count, pid0, pid1>>
        /\ phase = "outer" /\ phase' = "done"
    BY <1>3 DEF OuterEnd, plan
  <2>2. StructuresInv' /\ FilesBounded' /\ disk' = disk
    BY <2>1, NoFetchKeeps
  <2> QED
    BY <1>0, <2>1, <2>2 DEF JoinInv, LoopTypes, Running
<1>4. CASE OuterRow
  <2>1. /\ UNCHANGED pvars /\ UNCHANGED <<outer, inner, innerFirst, pg0Count, pid0, pg0>>
        /\ phase = "row"
    BY <1>4 DEF OuterRow, plan
  <2>2. \/ inner # NoTable /\ phase' = "inner" /\ pg1Count' = pageCount(disk[inner]) /\ pid1' = 0
        \/ phase' = "row" /\ pid1' = pid1
    BY <1>4, <2>1 DEF OuterRow
  <2>3. /\ StructuresInv' /\ FilesBounded' /\ disk' = disk
        /\ OuterKept => OuterKept'
        /\ InnerFits' => InnerFits
    BY <2>1, NoFetchKeeps
  <2>4. LoopTypes'
    BY <1>0, <2>1, <2>2, <2>3 DEF LoopTypes, Running
  <2> QED
    BY <2>1, <2>3, <2>4 DEF JoinInv
<1>5. CASE RowsEnd
  <2>1. /\ UNCHANGED pvars /\ UNCHANGED <<outer, inner, innerFirst, pg0Count, pid1>>
        /\ phase = "row" /\ phase' = "outer" /\ pid0' = pid0 + 1
    BY <1>5 DEF RowsEnd, plan
  <2>2. StructuresInv' /\ FilesBounded' /\ disk' = disk
    BY <2>1, NoFetchKeeps
  <2> QED
    BY <1>0, <2>1, <2>2 DEF JoinInv, LoopTypes, Running
<1>6. CASE InnerPage
  <2>1. /\ phase = "inner" /\ pid1 < pg1Count /\ fetchNode(inner, pid1) /\ pid1' = pid1 + 1
        /\ UNCHANGED <<phase, outer, inner, innerFirst, pg0Count, pg1Count, pid0, pg0>>
    BY <1>6 DEF InnerPage, plan
  <2>2. inner \in Tables /\ pid1 \in Nat /\ pid1 < pageCount(disk[inner])
    BY <1>0, <2>1 DEF LoopTypes
  <2>3. pid1 \in PageIds /\ pid1 \in 0 .. pageCount(disk[inner]) - 1
    BY <1>0, <2>2, InFile
  <2>4. StructuresInv' /\ FilesBounded' /\ FilesGrow /\ fetchPage(inner, pid1)
    BY <1>0, <2>1, <2>2, <2>3, FetchKeepsPool
  <2>5. LoopTypes'
    BY <1>0, <2>1, <2>2, <2>4 DEF LoopTypes, Running, FilesGrow
  <2>6. ASSUME InnerFits'
        PROVE  OuterKept'
    <3>1. inner # NoTable
      BY <2>2, BufferPoolAssumption
    <3>2. pageCount(disk[inner]) < Capacity
      <4>1. pageCount(disk'[inner]) < Capacity
        BY <2>1, <2>6, <3>1 DEF InnerFits
      <4> QED
        BY <4>1, <2>2, <2>4, BufferPoolAssumption DEF FilesGrow
    <3>3. OuterKept /\ PoolInv'
      BY <1>0, <2>1, <2>4, <3>2 DEF JoinInv, InnerFits, StructuresInv
    <3>4. UNCHANGED <<pg0, outer, inner, pid0>>
      BY <2>1
    <3> QED
      BY <1>0, <2>2, <2>3, <2>4, <3>2, <3>3, <3>4, InnerFetchKeepsOuter
  <2> QED
    BY <2>4, <2>5, <2>6 DEF JoinInv
<1>7. CASE InnerEnd
  <2>1. /\ UNCHANGED pvars /\ UNCHANGED <<outer, inner, innerFirst, pg0Count, pid0, pid1, pg0>>
        /\ phase = "inner" /\ phase' = "row"
    BY <1>7 DEF InnerEnd, plan
  <2>2. /\ StructuresInv' /\ FilesBounded' /\ disk' = disk
        /\ OuterKept => OuterKept'
        /\ InnerFits' => InnerFits
    BY <2>1, NoFetchKeeps
  <2>3. LoopTypes'
    BY <1>0, <2>1, <2>2 DEF LoopTypes, Running
  <2> QED
    BY <2>1, <2>2, <2>3 DEF JoinInv
<1>8. CASE UNCHANGED jvars
  <2>1. UNCHANGED pvars /\ UNCHANGED join
    BY <1>8 DEF jvars
  <2>2. /\ StructuresInv' /\ FilesBounded' /\ disk' = disk
        /\ OuterKept => OuterKept'
        /\ InnerFits' => InnerFits
    BY <2>1, NoFetchKeeps DEF join, plan
  <2>3. LoopTypes'
    BY <1>0, <2>1, <2>2 DEF LoopTypes, Running, join, plan
  <2> QED
    BY <2>1, <2>2, <2>3 DEF JoinInv, join, plan
<1>9. ASSUME NEW p \in Plans, executeJoin(p[1], p[2], p[3])
      PROVE  JoinInv'
  BY <1>1, <1>9, JoinScanAssumption
<1> QED
  BY <1>2, <1>3, <1>4, <1>5, <1>6, <1>7, <1>8, <1>9, EarlierStep DEF JNext, Loop, Done

(***************************************************************************)
(* The table files start with at most MaxPages pages.                      *)
(***************************************************************************)
LEMMA FilesStartBounded == Init => FilesBounded
<1>1. MaxPages \in Nat
  BY BufferPoolAssumption
<1>2. \A file \in BoundedSeq(Contents, MaxPages) : Len(file) <= MaxPages
  BY <1>1 DEF BoundedSeq, SeqOf
<1> QED
  BY <1>2 DEF Init, FilesBounded, pageCount

(***************************************************************************)
(* While the loops run, the page counts they took are pages the files      *)
(* still have, although evictions of modified pages may lengthen the files *)
(* (Executor.cpp:460, :471), and if the inner table leaves a frame to      *)
(* spare only its pages are used more recently than the outer page.  Pages *)
(* of any table may be dirty when the join begins, and a write may fail.   *)
(***************************************************************************)
THEOREM JoinInvariant == JSpec => []JoinInv
<1>1. JInit => JoinInv
  <2> SUFFICES ASSUME JInit PROVE JoinInv
    OBVIOUS
  <2>1. PInit /\ Init /\ phase = "idle" /\ pid0 = 0 /\ pid1 = 0
    BY DEF JInit, PInit
  <2>2. StructuresInv
    BY <2>1, InitHasStructures
  <2>3. FilesBounded
    BY <2>1, FilesStartBounded
  <2> QED
    BY <2>1, <2>2, <2>3 DEF JoinInv, LoopTypes, Running
<1> QED
  BY <1>1, JoinStep, PTL DEF JSpec

(***************************************************************************)
(* pg0 shows the outer page through every fetch of the inner loop, for a   *)
(* pool of any size and whatever earlier statements left in it, if the     *)
(* inner table has fewer pages than the pool.                              *)
(***************************************************************************)
THEOREM OuterPointerSurvives == JSpec => []PointerSurvivesIfInnerFits
<1>1. JoinInv => PointerSurvivesIfInnerFits
  BY DEF JoinInv, OuterKept, PointerSurvivesIfInnerFits
<1> QED
  BY <1>1, JoinInvariant, PTL

-----------------------------------------------------------------------------
(* What a join prints of which rows *)

\* The rows of all pages there can be.
RowSet == UNION {Range(c) : c \in Contents}

\* What a join may print.
Lines == {<<r>> : r \in RowSet} \union {<<r, s>> : r \in RowSet, s \in RowSet}

(***************************************************************************)
(* Pages and files hold rows.                                              *)
(***************************************************************************)
LEMMA PagesOfRows == Contents \subseteq Seq(RowSet)
<1> SUFFICES ASSUME NEW c \in Contents PROVE c \in Seq(RowSet)
  OBVIOUS
<1>1. c \in Seq(Range(c)) /\ Range(c) \subseteq RowSet
  BY JoinScanAssumption DEF RowSet
<1> QED
  BY <1>1, SeqMonotonic

(***************************************************************************)
(* What UpToLimit returns.                                                 *)
(***************************************************************************)
LEMMA LimitType ==
  ASSUME NEW X, NEW a \in Seq(X)
  PROVE  /\ UpToLimit(a) \in Seq(X)
         /\ Len(UpToLimit(a)) = IF Len(a) < PrintLimit THEN Len(a) ELSE PrintLimit
         /\ Len(a) <= PrintLimit => UpToLimit(a) = a
         /\ \A i \in 1 .. Len(UpToLimit(a)) : UpToLimit(a)[i] = a[i]
<1>1. Len(a) \in Nat /\ PrintLimit \in Nat
  BY JoinScanAssumption
<1> QED
  BY <1>1 DEF UpToLimit

(***************************************************************************)
(* The print limit cuts the end of the output off: cutting early and going *)
(* on is cutting at the end, and nothing is added to what is full.         *)
(***************************************************************************)
LEMMA LimitConcat ==
  ASSUME NEW X, NEW a \in Seq(X), NEW b \in Seq(X)
  PROVE  /\ UpToLimit(UpToLimit(a) \o b) = UpToLimit(a \o b)
         /\ ~(Len(UpToLimit(a)) < PrintLimit) => UpToLimit(a \o b) = UpToLimit(a)
<1> DEFINE l == UpToLimit(a)
           c == a \o b
           d == l \o b
<1>1. Len(a) \in Nat /\ Len(b) \in Nat /\ PrintLimit \in Nat
  BY JoinScanAssumption
<1>2. CASE Len(a) <= PrintLimit
  <2>1. l = a /\ Len(l) = Len(a)
    BY <1>1, <1>2, LimitType
  <2>2. UpToLimit(l \o b) = UpToLimit(c)
    BY <2>1
  <2>3. ASSUME ~(Len(l) < PrintLimit)
        PROVE  UpToLimit(c) = l
    <3>1. Len(a) = PrintLimit /\ Len(c) = Len(a) + Len(b)
      BY <1>1, <1>2, <2>1, <2>3, ConcatProperties
    <3>2. SubSeq(c, 1, Len(a)) = a
      BY <1>1
    <3>3. UpToLimit(c) = SubSeq(c, 1, Len(a))
      <4> HIDE DEF c
      <4> QED
        BY <1>1, <3>1 DEF UpToLimit
    <3> QED
      BY <2>1, <3>2, <3>3
  <2> QED
    BY <2>2, <2>3
<1>3. CASE ~(Len(a) <= PrintLimit)
  <2>1. l = SubSeq(a, 1, PrintLimit) /\ l \in Seq(X) /\ Len(l) = PrintLimit
    BY <1>1, <1>3, LimitType DEF UpToLimit
  <2>2. UpToLimit(c) = SubSeq(c, 1, PrintLimit) /\ UpToLimit(d) = SubSeq(d, 1, PrintLimit)
    <3>1. Len(c) = Len(a) + Len(b)
      OBVIOUS
    <3>2. Len(d) = Len(l) + Len(b)
      BY <2>1
    <3> HIDE DEF c, d
    <3> QED
      BY <1>1, <1>3, <2>1, <3>1, <3>2 DEF UpToLimit
  <2>3. SubSeq(c, 1, PrintLimit) = l
    BY <1>1, <1>3, <2>1
  <2>4. SubSeq(d, 1, PrintLimit) = l
    <3> HIDE DEF l
    <3> QED
      BY <1>1, <2>1
  <2> QED
    BY <2>2, <2>3, <2>4
<1> QED
  BY <1>2, <1>3

(***************************************************************************)
(* One more line while there is room.                                      *)
(***************************************************************************)
LEMMA LimitAppend ==
  ASSUME NEW X, NEW a \in Seq(X), NEW x \in X, Len(UpToLimit(a)) < PrintLimit
  PROVE  Append(UpToLimit(a), x) = UpToLimit(a \o <<x>>)
<1>1. Len(a) \in Nat /\ PrintLimit \in Nat
  BY JoinScanAssumption
<1>2. Len(a) < PrintLimit /\ UpToLimit(a) = a
  BY <1>1, LimitType
<1> DEFINE c == a \o <<x>>
<1>3. c \in Seq(X) /\ Len(c) = Len(a) + 1 /\ c = Append(a, x)
  BY AppendIsConcat
<1>4. UpToLimit(c) = c
  <2>1. c \in Seq(X) /\ Len(c) <= PrintLimit
    BY <1>1, <1>2, <1>3
  <2> HIDE DEF c
  <2> QED
    BY <2>1, LimitType
<1>5. Append(UpToLimit(a), x) = Append(a, x)
  BY <1>2
<1> HIDE DEF c
<1>6. UpToLimit(c) = Append(UpToLimit(a), x)
  BY <1>3, <1>4, <1>5
<1> QED
  BY <1>6 DEF c

(***************************************************************************)
(* A sequence that begins like q and goes on like r is their               *)
(* concatenation.                                                          *)
(***************************************************************************)
LEMMA IsConcat ==
  ASSUME NEW S, NEW p \in Seq(S), NEW q \in Seq(S), NEW r \in Seq(S),
         Len(p) = Len(q) + Len(r), \A i \in 1 .. Len(q) : p[i] = q[i],
         \A i \in 1 .. Len(r) : p[Len(q) + i] = r[i]
  PROVE  p = q \o r
<1>1. /\ q \o r \in Seq(S) /\ Len(q \o r) = Len(q) + Len(r)
      /\ Len(q) \in Nat /\ Len(r) \in Nat
      /\ \A i \in 1 .. Len(q) + Len(r) :
           (q \o r)[i] = IF i <= Len(q) THEN q[i] ELSE r[i - Len(q)]
  BY ConcatProperties, LenProperties
<1>2. ASSUME NEW i \in 1 .. Len(p)
      PROVE  p[i] = (q \o r)[i]
  <2>1. CASE i <= Len(q)
    BY <1>1, <2>1
  <2>2. CASE ~(i <= Len(q))
    <3>1. i - Len(q) \in 1 .. Len(r) /\ Len(q) + (i - Len(q)) = i
      BY <1>1, <2>2
    <3>2. p[Len(q) + (i - Len(q))] = r[i - Len(q)]
      BY <3>1
    <3> QED
      BY <1>1, <2>2, <3>1, <3>2
  <2> QED
    BY <2>1, <2>2
<1>3. Len(p) = Len(q \o r)
  BY <1>1
<1> QED
  BY <1>1, <1>2, <1>3, SeqEqual

(***************************************************************************)
(* The elements of a concatenation.                                        *)
(***************************************************************************)
LEMMA ConcatAt ==
  ASSUME NEW S, NEW a \in Seq(S), NEW b \in Seq(S)
  PROVE  /\ Len(a \o b) = Len(a) + Len(b) /\ Len(a) \in Nat /\ Len(b) \in Nat
         /\ \A i \in 1 .. Len(a) : i \in 1 .. Len(a \o b) /\ (a \o b)[i] = a[i]
         /\ \A i \in 1 .. Len(b) : Len(a) + i \in 1 .. Len(a \o b) /\ (a \o b)[Len(a) + i] = b[i]
OBVIOUS

\* The pieces that make up Joined(row, content).
Hits(row, content) ==
  [i \in DOMAIN content |->
     IF content[i][2] = row[1] THEN << <<row, content[i]>> >> ELSE << >>]

(***************************************************************************)
(* They and the lines are sequences of lines.                              *)
(***************************************************************************)
LEMMA HitsType ==
  ASSUME NEW row \in RowSet, NEW a \in Seq(RowSet)
  PROVE  /\ Hits(row, a) \in Seq(Seq(Lines)) /\ Joined(row, a) = FlattenSeq(Hits(row, a))
         /\ Joined(row, a) \in Seq(Lines)
<1>1. Len(a) \in Nat /\ DOMAIN a = 1 .. Len(a) /\ \A i \in 1 .. Len(a) : a[i] \in RowSet
  OBVIOUS
<1>2. Hits(row, a) \in [1 .. Len(a) -> Seq(Lines)]
  <2>1. << >> \in Seq(Lines)
    OBVIOUS
  <2>2. ASSUME NEW i \in 1 .. Len(a)
        PROVE  << <<row, a[i]>> >> \in Seq(Lines)
    <3>1. <<row, a[i]>> \in Lines
      BY <1>1 DEF Lines
    <3> QED
      BY <3>1
  <2> QED
    BY <1>1, <2>1, <2>2 DEF Hits
<1>3. Hits(row, a) \in Seq(Seq(Lines))
  <2> DEFINE S == Seq(Lines)
  <2> HIDE DEF S
  <2>1. Hits(row, a) \in [1 .. Len(a) -> S]
    BY <1>2 DEF S
  <2>2. Hits(row, a) \in Seq(S)
    BY <1>1, <2>1
  <2> QED
    BY <2>2 DEF S
<1> QED
  BY <1>3, FlattenType DEF Joined, Hits

(***************************************************************************)
(* The rows of two pages join one page after the other.                    *)
(***************************************************************************)
LEMMA JoinedConcat ==
  ASSUME NEW row \in RowSet, NEW a \in Seq(RowSet), NEW b \in Seq(RowSet)
  PROVE  Joined(row, a \o b) = Joined(row, a) \o Joined(row, b)
<1> DEFINE S == Seq(Lines)
           hit(x) == IF x[2] = row[1] THEN << <<row, x>> >> ELSE << >>
           p == Hits(row, a \o b)
           q == Hits(row, a)
           r == Hits(row, b)
<1>1. a \o b \in Seq(RowSet)
  OBVIOUS
<1>2. /\ Len(a \o b) = Len(a) + Len(b)
      /\ \A i \in 1 .. Len(a) : i \in 1 .. Len(a \o b) /\ (a \o b)[i] = a[i]
      /\ \A i \in 1 .. Len(b) : Len(a) + i \in 1 .. Len(a \o b) /\ (a \o b)[Len(a) + i] = b[i]
  BY ConcatAt
<1>3. ASSUME NEW c \in Seq(RowSet)
      PROVE  /\ Hits(row, c) \in Seq(S) /\ Len(Hits(row, c)) = Len(c)
             /\ \A i \in 1 .. Len(c) : Hits(row, c)[i] = hit(c[i])
  <2>1. DOMAIN c = 1 .. Len(c) /\ Len(c) \in Nat /\ Hits(row, c) \in Seq(S)
    BY HitsType
  <2> QED
    BY <2>1 DEF Hits
<1> HIDE DEF hit, S
<1>4. /\ p \in Seq(S) /\ q \in Seq(S) /\ r \in Seq(S)
      /\ Len(q) = Len(a) /\ Len(r) = Len(b) /\ Len(p) = Len(a \o b)
      /\ \A i \in 1 .. Len(a \o b) : p[i] = hit((a \o b)[i])
      /\ \A i \in 1 .. Len(a) : q[i] = hit(a[i])
      /\ \A i \in 1 .. Len(b) : r[i] = hit(b[i])
  BY <1>1, <1>3
<1> HIDE DEF p, q, r
<1>5. p = q \o r
  <2>1. \A i \in 1 .. Len(q) : p[i] = q[i]
    BY <1>4, <1>2
  <2>2. \A i \in 1 .. Len(r) : p[Len(q) + i] = r[i]
    BY <1>4, <1>2
  <2>3. Len(p) = Len(q) + Len(r)
    BY <1>4, <1>2
  <2> QED
    BY <1>4, <2>1, <2>2, <2>3, IsConcat
<1>6. FlattenSeq(q \o r) = FlattenSeq(q) \o FlattenSeq(r)
  <2> DEFINE X == Lines
  <2> HIDE DEF X
  <2>1. q \in Seq(Seq(X)) /\ r \in Seq(Seq(X))
    BY <1>4 DEF X, S
  <2> QED
    BY <2>1, FlattenConcat
<1> QED
  BY <1>1, <1>5, <1>6, HitsType DEF p, q, r

\* The lines of each row, and all lines of a nested-loop join without the limit:
\* a row alone is a line if there is no inner table.
Matches(rows, content) == [i \in DOMAIN rows |-> Joined(rows[i], content)]

Output(rows, alone, content) ==
  IF alone THEN [i \in DOMAIN rows |-> <<rows[i]>>] ELSE FlattenSeq(Matches(rows, content))

(***************************************************************************)
(* Each row contributes a sequence of lines.                               *)
(***************************************************************************)
LEMMA MatchesType ==
  ASSUME NEW rows \in Seq(RowSet), NEW content \in Seq(RowSet)
  PROVE  /\ Matches(rows, content) \in Seq(Seq(Lines))
         /\ Len(Matches(rows, content)) = Len(rows)
         /\ \A i \in 1 .. Len(rows) : Matches(rows, content)[i] = Joined(rows[i], content)
<1> DEFINE S == Seq(Lines)
           m == Matches(rows, content)
<1>1. /\ Len(rows) \in Nat /\ DOMAIN rows = 1 .. Len(rows)
      /\ \A i \in 1 .. Len(rows) : rows[i] \in RowSet
  OBVIOUS
<1>2. \A i \in 1 .. Len(rows) : Joined(rows[i], content) \in S
  BY <1>1, HitsType
<1> HIDE DEF S
<1>3. /\ m \in [1 .. Len(rows) -> S]
      /\ \A i \in 1 .. Len(rows) : m[i] = Joined(rows[i], content)
  BY <1>1, <1>2 DEF Matches
<1> HIDE DEF m
<1>4. m \in Seq(S) /\ Len(m) = Len(rows)
  BY <1>1, <1>3
<1> QED
  BY <1>3, <1>4 DEF m, S

(***************************************************************************)
(* Rows that come later print later.                                       *)
(***************************************************************************)
LEMMA OutputConcat ==
  ASSUME NEW alone \in BOOLEAN, NEW content \in Seq(RowSet),
         NEW a \in Seq(RowSet), NEW b \in Seq(RowSet)
  PROVE  /\ Output(a, alone, content) \in Seq(Lines)
         /\ Output(a \o b, alone, content) = Output(a, alone, content) \o Output(b, alone, content)
<1>1. a \o b \in Seq(RowSet)
  OBVIOUS
<1>2. /\ Len(a \o b) = Len(a) + Len(b)
      /\ \A i \in 1 .. Len(a) : i \in 1 .. Len(a \o b) /\ (a \o b)[i] = a[i]
      /\ \A i \in 1 .. Len(b) : Len(a) + i \in 1 .. Len(a \o b) /\ (a \o b)[Len(a) + i] = b[i]
  BY ConcatAt
<1>3. CASE alone
  <2> DEFINE line(x) == <<x>>
             out(rows) == [i \in DOMAIN rows |-> line(rows[i])]
             p == out(a \o b)
             q == out(a)
             r == out(b)
  <2>1. ASSUME NEW rows \in Seq(RowSet)
        PROVE  /\ out(rows) \in Seq(Lines) /\ Len(out(rows)) = Len(rows)
               /\ \A i \in 1 .. Len(rows) : out(rows)[i] = line(rows[i])
    <3>1. /\ Len(rows) \in Nat /\ DOMAIN rows = 1 .. Len(rows)
          /\ \A i \in 1 .. Len(rows) : rows[i] \in RowSet
      OBVIOUS
    <3>2. out(rows) \in [1 .. Len(rows) -> Lines]
      BY <3>1 DEF Lines
    <3> QED
      BY <3>1, <3>2
  <2> HIDE DEF out, line
  <2>2. /\ p \in Seq(Lines) /\ q \in Seq(Lines) /\ r \in Seq(Lines)
        /\ Len(q) = Len(a) /\ Len(r) = Len(b) /\ Len(p) = Len(a \o b)
        /\ \A i \in 1 .. Len(a \o b) : p[i] = line((a \o b)[i])
        /\ \A i \in 1 .. Len(a) : q[i] = line(a[i])
        /\ \A i \in 1 .. Len(b) : r[i] = line(b[i])
    BY <2>1, <1>1
  <2> HIDE DEF p, q, r
  <2>3. p = q \o r
    <3>1. \A i \in 1 .. Len(q) : p[i] = q[i]
      BY <2>2, <1>2
    <3>2. \A i \in 1 .. Len(r) : p[Len(q) + i] = r[i]
      BY <2>2, <1>2
    <3>3. Len(p) = Len(q) + Len(r)
      BY <2>2, <1>2
    <3> QED
      BY <2>2, <3>1, <3>2, <3>3, IsConcat
  <2>4. /\ Output(a \o b, alone, content) = p /\ Output(a, alone, content) = q
        /\ Output(b, alone, content) = r
    BY <1>3 DEF Output, out, line, p, q, r
  <2> QED
    BY <2>2, <2>3, <2>4
<1>4. CASE ~alone
  <2> DEFINE S == Seq(Lines)
             lines(x) == Joined(x, content)
             p == Matches(a \o b, content)
             q == Matches(a, content)
             r == Matches(b, content)
  <2>1. /\ p \in Seq(S) /\ q \in Seq(S) /\ r \in Seq(S)
        /\ Len(q) = Len(a) /\ Len(r) = Len(b) /\ Len(p) = Len(a \o b)
        /\ \A i \in 1 .. Len(a \o b) : p[i] = lines((a \o b)[i])
        /\ \A i \in 1 .. Len(a) : q[i] = lines(a[i])
        /\ \A i \in 1 .. Len(b) : r[i] = lines(b[i])
    BY <1>1, MatchesType
  <2> HIDE DEF p, q, r, S, lines
  <2>2. p = q \o r
    <3>1. \A i \in 1 .. Len(q) : p[i] = q[i]
      BY <2>1, <1>2
    <3>2. \A i \in 1 .. Len(r) : p[Len(q) + i] = r[i]
      BY <2>1, <1>2
    <3>3. Len(p) = Len(q) + Len(r)
      BY <2>1, <1>2
    <3> QED
      BY <2>1, <3>1, <3>2, <3>3, IsConcat
  <2>3. FlattenSeq(q \o r) = FlattenSeq(q) \o FlattenSeq(r) /\ FlattenSeq(q) \in Seq(Lines)
    <3> DEFINE X == Lines
    <3> HIDE DEF X
    <3>1. q \in Seq(Seq(X)) /\ r \in Seq(Seq(X))
      BY <2>1 DEF X, S
    <3>2. FlattenSeq(q \o r) = FlattenSeq(q) \o FlattenSeq(r) /\ FlattenSeq(q) \in Seq(X)
      BY <3>1, FlattenConcat, FlattenType
    <3> QED
      BY <3>2 DEF X
  <2>4. /\ Output(a \o b, alone, content) = FlattenSeq(p)
        /\ Output(a, alone, content) = FlattenSeq(q)
        /\ Output(b, alone, content) = FlattenSeq(r)
    BY <1>4 DEF Output, p, q, r
  <2> QED
    BY <2>2, <2>3, <2>4
<1> QED
  BY <1>3, <1>4

\* The rows of the first k pages of a file, in their order.
PagesBefore(file, k) == FlattenSeq(SubSeq(file, 1, k))

(***************************************************************************)
(* One page more is its rows more.                                         *)
(***************************************************************************)
LEMMA PageAdded ==
  ASSUME NEW file \in Seq(Contents)
  PROVE  /\ Len(file) \in Nat
         /\ PagesBefore(file, 0) = << >>
         /\ PagesBefore(file, Len(file)) = FlattenSeq(file)
         /\ \A k \in 0 .. Len(file) : PagesBefore(file, k) \in Seq(RowSet)
         /\ \A k \in 0 .. Len(file) - 1 :
              /\ file[k + 1] \in Seq(RowSet)
              /\ PagesBefore(file, k + 1) = PagesBefore(file, k) \o file[k + 1]
<1> DEFINE X == RowSet
           S == Seq(X)
<1>1. Len(file) \in Nat
  OBVIOUS
<1>2. file \in Seq(S)
  BY PagesOfRows, SeqMonotonic
<1> HIDE DEF X, S
<1>3. \A k \in 0 .. Len(file) : SubSeq(file, 1, k) \in Seq(S)
  BY <1>1, <1>2
<1>4. \A k \in 0 .. Len(file) - 1 :
        file[k + 1] \in S /\ SubSeq(file, 1, k + 1) = Append(SubSeq(file, 1, k), file[k + 1])
  BY <1>1, <1>2
<1>5. SubSeq(file, 1, 0) = << >> /\ SubSeq(file, 1, Len(file)) = file
  BY <1>1, <1>2
<1>6. ASSUME NEW k \in 0 .. Len(file)
      PROVE  PagesBefore(file, k) \in Seq(X)
  <2>1. SubSeq(file, 1, k) \in Seq(Seq(X))
    BY <1>3 DEF S
  <2> QED
    BY <2>1, FlattenType DEF PagesBefore
<1>7. ASSUME NEW k \in 0 .. Len(file) - 1
      PROVE  PagesBefore(file, k + 1) = PagesBefore(file, k) \o file[k + 1]
  <2>1. SubSeq(file, 1, k) \in Seq(Seq(X)) /\ file[k + 1] \in Seq(X)
    BY <1>1, <1>3, <1>4 DEF S
  <2>2. FlattenSeq(Append(SubSeq(file, 1, k), file[k + 1]))
          = FlattenSeq(SubSeq(file, 1, k)) \o file[k + 1]
    BY <2>1, FlattenAppend
  <2> QED
    BY <2>2, <1>4 DEF PagesBefore
<1>8. PagesBefore(file, 0) = << >> /\ PagesBefore(file, Len(file)) = FlattenSeq(file)
  BY <1>5, FlattenEmpty DEF PagesBefore
<1>9. \A k \in 0 .. Len(file) - 1 : file[k + 1] \in Seq(X)
  BY <1>4 DEF S
<1> QED
  BY <1>1, <1>6, <1>7, <1>8, <1>9 DEF X

(***************************************************************************)
(* The rows of the first pages come first.                                 *)
(***************************************************************************)
LEMMA RestOfFile ==
  ASSUME NEW file \in Seq(Contents), NEW k \in 0 .. Len(file)
  PROVE  \E rest \in Seq(RowSet) : FlattenSeq(file) = PagesBefore(file, k) \o rest
<1> DEFINE X == RowSet
           S == Seq(X)
           first == SubSeq(file, 1, k)
           others == SubSeq(file, k + 1, Len(file))
<1>1. file \in Seq(S) /\ Len(file) \in Nat
  <2>1. file \in Seq(S)
    BY PagesOfRows, SeqMonotonic
  <2> QED
    BY <2>1
<1> HIDE DEF X, S
<1>2. first \in Seq(S) /\ others \in Seq(S)
  BY <1>1
<1>3. first \o others = file
  <2>1. /\ Len(first) = k /\ Len(others) = Len(file) - k
        /\ \A i \in 1 .. k : file[i] = first[i]
        /\ \A i \in 1 .. Len(file) - k : file[k + i] = others[i]
    BY <1>1
  <2> HIDE DEF first, others
  <2>2. Len(file) = Len(first) + Len(others)
    BY <2>1, <1>1
  <2>3. \A i \in 1 .. Len(first) : file[i] = first[i]
    BY <2>1
  <2>4. \A i \in 1 .. Len(others) : file[Len(first) + i] = others[i]
    BY <2>1
  <2>5. file \in Seq(S)
    BY <1>1
  <2> QED
    BY <2>2, <2>3, <2>4, <2>5, <1>2, IsConcat
<1> HIDE DEF first, others
<1>4. first \in Seq(Seq(X)) /\ others \in Seq(Seq(X))
  BY <1>2 DEF S
<1>5. FlattenSeq(first \o others) = FlattenSeq(first) \o FlattenSeq(others)
  BY <1>4, FlattenConcat
<1>6. FlattenSeq(others) \in Seq(X)
  BY <1>4, FlattenType
<1> QED
  BY <1>3, <1>5, <1>6 DEF PagesBefore, first, X

(***************************************************************************)
(* What the limit leaves of the output goes on with the output of the next *)
(* rows, and nothing is added to it once it is full.                       *)
(***************************************************************************)
LEMMA OutputGoesOn ==
  ASSUME NEW alone \in BOOLEAN, NEW content \in Seq(RowSet),
         NEW a \in Seq(RowSet), NEW b \in Seq(RowSet)
  PROVE  /\ UpToLimit(UpToLimit(Output(a, alone, content)) \o Output(b, alone, content))
              = UpToLimit(Output(a \o b, alone, content))
         /\ ~(Len(UpToLimit(Output(a, alone, content))) < PrintLimit) =>
              UpToLimit(Output(a \o b, alone, content)) = UpToLimit(Output(a, alone, content))
<1> DEFINE p == Output(a, alone, content)
           q == Output(b, alone, content)
<1>1. p \in Seq(Lines) /\ q \in Seq(Lines) /\ Output(a \o b, alone, content) = p \o q
  BY OutputConcat
<1> HIDE DEF p, q
<1>2. /\ UpToLimit(UpToLimit(p) \o q) = UpToLimit(p \o q)
      /\ ~(Len(UpToLimit(p)) < PrintLimit) => UpToLimit(p \o q) = UpToLimit(p)
  BY <1>1, LimitConcat
<1> QED
  BY <1>1, <1>2 DEF p, q

(***************************************************************************)
(* The output for one row, and for none.                                   *)
(***************************************************************************)
LEMMA OutputOne ==
  ASSUME NEW content \in Seq(RowSet), NEW row \in RowSet
  PROVE  /\ Output(<<row>>, TRUE, content) = << <<row>> >>
         /\ Output(<<row>>, FALSE, content) = Joined(row, content)
         /\ Output(<< >>, TRUE, content) = << >> /\ Output(<< >>, FALSE, content) = << >>
<1>1. Output(<<row>>, TRUE, content) = << <<row>> >> /\ Output(<< >>, TRUE, content) = << >>
  BY DEF Output
<1>2. Matches(<< >>, content) = << >>
  BY DEF Matches
<1>3. Matches(<<row>>, content) = Append(<< >>, Joined(row, content))
  BY DEF Matches
<1>4. FlattenSeq(Append(<< >>, Joined(row, content))) = FlattenSeq(<< >>) \o Joined(row, content)
  <2>1. Joined(row, content) \in Seq(Lines) /\ << >> \in Seq(Seq(Lines))
    BY HitsType, EmptySeq
  <2> QED
    BY <2>1, FlattenAppend
<1>5. << >> \o Joined(row, content) = Joined(row, content)
  BY HitsType, ConcatEmptySeq
<1> QED
  BY <1>1, <1>2, <1>3, <1>4, <1>5, FlattenEmpty DEF Output

-----------------------------------------------------------------------------
(* What the loops see *)

\* The pages of the file of t, as the pool shows them.
View(t) == [p \in 1 .. pageCount(disk[t]) |-> visible[t][p - 1]]

\* A page behind the end of its file is modified, or is the one INSERT is about
\* to initialise.
BeyondDirty ==
  \A t \in Tables, p \in PageIds : Resident(t, p) /\ p >= pageCount(disk[t]) =>
    \/ <<t, p>> \in dirtyPages
    \/ phase = "new" /\ cursor.table = t /\ cursor.pageId = p

(***************************************************************************)
(* A view has the pages of the file, each with what a fetch returns.       *)
(***************************************************************************)
LEMMA ViewShape ==
  ASSUME PoolInv, FilesBounded, NEW t \in Tables
  PROVE  /\ View(t) \in Seq(Contents) /\ Len(View(t)) = pageCount(disk[t])
         /\ Len(View(t)) \in Nat
         /\ \A p \in 0 .. Len(View(t)) - 1 : p \in PageIds /\ View(t)[p + 1] = visible[t][p]
<1>1. /\ disk[t] \in Seq(Contents) /\ MaxPages \in Nat /\ pageCount(disk[t]) \in Nat
      /\ pageCount(disk[t]) <= MaxPages
  BY BufferPoolAssumption DEF PoolInv, TypeOK, pageCount, FilesBounded
<1>2. ASSUME NEW p \in PageIds
      PROVE  visible[t][p] \in Contents
  <2>1. CASE Resident(t, p)
    <3>1. frameMap[makePageKey(t, p)] \in Frames
      BY <2>1, ResidentFrame
    <3> QED
      BY <2>1, <3>1, VisibleAt DEF PageOf, PoolInv, TypeOK
  <2>2. CASE ~Resident(t, p)
    <3>1. visible[t][p] = readPage(disk[t], p) /\ p \in Nat
      <4>1. p \in Nat
        BY <1>1 DEF PageIds
      <4> QED
        BY <2>2, <4>1, VisibleAt
    <3> QED
      BY <1>1, <3>1, ReadPageType
  <2> QED
    BY <2>1, <2>2
<1> DEFINE n == pageCount(disk[t])
<1>3. \A p \in 1 .. n : p - 1 \in PageIds
  BY <1>1 DEF PageIds
<1>4. View(t) \in [1 .. n -> Contents]
  BY <1>2, <1>3 DEF View
<1>5. View(t) \in Seq(Contents) /\ Len(View(t)) = n /\ n \in Nat
  <2> HIDE DEF n
  <2>1. n \in Nat
    BY <1>1 DEF n
  <2> QED
    BY <1>4, <2>1
<1>6. ASSUME NEW p \in 0 .. n - 1
      PROVE  p \in PageIds /\ View(t)[p + 1] = visible[t][p]
  <2>1. p + 1 \in 1 .. n /\ (p + 1) - 1 = p
    BY <1>1, <1>6
  <2> QED
    BY <1>3, <2>1 DEF View
<1> QED
  BY <1>5, <1>6

\* In particular the view of the outer table.
OuterViewed == outer \in Tables => View(outer) \in Seq(Contents)

(***************************************************************************)
(* That is so in every state of the join.                                  *)
(***************************************************************************)
LEMMA OuterViewType == PoolInv /\ FilesBounded => OuterViewed
  BY ViewShape DEF OuterViewed

\* A frame in use holds what a fetch of its page returns.
FramesShow ==
  \A f \in Range(lruList) :
    pages[f].data = visible[frameInfos[f].table][frameInfos[f].pageId]

(***************************************************************************)
(* That is so in every state of the pool.                                  *)
(***************************************************************************)
LEMMA FrameShows == PoolInv => FramesShow
<1> SUFFICES ASSUME PoolInv, NEW f \in Range(lruList)
             PROVE  pages[f].data = visible[frameInfos[f].table][frameInfos[f].pageId]
  BY DEF FramesShow
<1>1. /\ frameInfos[f].table \in Tables /\ frameInfos[f].pageId \in PageIds
      /\ frameMap[makePageKey(frameInfos[f].table, frameInfos[f].pageId)] = f
      /\ Resident(frameInfos[f].table, frameInfos[f].pageId)
  BY FrameResident
<1> QED
  BY <1>1, VisibleAt DEF PageOf

(***************************************************************************)
(* What a fetch makes resident is the page it asks for.                    *)
(***************************************************************************)
LEMMA FetchResident ==
  ASSUME TypeOK, NEW t \in Tables, NEW p \in PageIds, fetchPage(t, p),
         NEW u \in Tables, NEW q \in PageIds, Resident(u, q)'
  PROVE  Resident(u, q) \/ (u = t /\ q = p)
<1> DEFINE k == makePageKey(u, q)
           x == makePageKey(t, p)
<1>1. k \in PageKeys /\ x \in PageKeys
  BY KeyType
<1>2. k = x => u = t /\ q = p
  BY PageKeysDistinct
<1>3. frameMap'[k] # NoFrame
  BY DEF Resident
<1>4. ASSUME k # x
      PROVE  frameMap[k] # NoFrame
  <2> HIDE DEF k, x
  <2>1. CASE FetchHit(t, p)
    BY <1>3, <2>1 DEF FetchHit
  <2>2. CASE FetchMissFree(t, p)
    BY <1>1, <1>3, <1>4, <2>2 DEF FetchMissFree, Load, TypeOK, x
  <2>3. CASE FetchMissEvict(t, p)
    <3> DEFINE y == makePageKey(frameInfos[Last(lruList)].table, frameInfos[Last(lruList)].pageId)
               less == [frameMap EXCEPT ![y] = NoFrame]
    <3>1. frameMap' = [less EXCEPT ![x] = Last(lruList)]
      BY <2>3 DEF FetchMissEvict, Load, Unmapped, x
    <3>2. DOMAIN less = PageKeys /\ DOMAIN frameMap = PageKeys
      BY DEF TypeOK
    <3> HIDE DEF y
    <3>3. less[k] = IF k = y THEN NoFrame ELSE frameMap[k]
      BY <1>1, <3>2
    <3> HIDE DEF less
    <3>4. frameMap'[k] = less[k]
      BY <1>1, <1>4, <3>1, <3>2
    <3> QED
      BY <1>3, <3>3, <3>4
  <2> QED
    BY <2>1, <2>2, <2>3 DEF fetchPage
<1>5. k = x \/ Resident(u, q)
  BY <1>4 DEF Resident
<1> QED
  BY <1>2, <1>5

(***************************************************************************)
(* If writes succeed, a fetch changes nothing that can be seen: a modified *)
(* page behind the end of its file stays modified or becomes part of the   *)
(* file, and so the table keeps its extent.                                *)
(***************************************************************************)
LEMMA FetchKeepsExtent ==
  ASSUME WriteOutcomes = {TRUE}, PoolInv, CleanFrames, FilesBounded,
         NEW t \in Tables, NEW p \in PageIds, fetchPage(t, p)
  PROVE  /\ visible' = visible
         /\ \A u \in Tables, q \in PageIds :
              <<u, q>> \in dirtyPages =>
                <<u, q>> \in dirtyPages' \/ q < pageCount(disk'[u])
<1>1. CASE UNCHANGED Store!vars
  BY <1>1 DEF Store!vars
<1>2. ASSUME NEW v \in Tables, NEW r \in PageIds, Store!WriteBack(v, r)
      PROVE  /\ visible' = visible
             /\ \A u \in Tables, q \in PageIds :
                  <<u, q>> \in dirtyPages =>
                    <<u, q>> \in dirtyPages' \/ q < pageCount(disk'[u])
  <2>1. /\ visible' = visible /\ dirtyPages' = dirtyPages \ {<<v, r>>}
        /\ disk' = [disk EXCEPT ![v] = Store!writePage(disk[v], r, visible[v][r])]
    BY <1>2 DEF Store!WriteBack
  <2>2. /\ disk \in [Tables -> Seq(Contents)] /\ r \in Nat
        /\ <<v, r>> \in dirtyPages
    BY <1>2, BufferPoolAssumption DEF Store!WriteBack, PoolInv, TypeOK, PageIds
  <2>3. visible[v][r] \in Contents
    <3>1. Resident(v, r)
      BY <2>2, VisibleAt
    <3>2. frameMap[makePageKey(v, r)] \in Frames
      BY <3>1, ResidentFrame
    <3> QED
      BY <3>1, <3>2, VisibleAt DEF PageOf, PoolInv, TypeOK
  <2>4. disk'[v] = writePage(disk[v], r, visible[v][r])
    BY <2>1, <2>2, StoreFiles
  <2>5. r < pageCount(disk'[v])
    <3> DEFINE n == pageCount(writePage(disk[v], r, visible[v][r]))
    <3>1. n = IF r < pageCount(disk[v]) THEN pageCount(disk[v]) ELSE r + 1
      BY <2>2, <2>3, WriteLength
    <3>2. disk[v] \in Seq(Contents) /\ pageCount(disk[v]) \in Nat
      BY <2>2 DEF pageCount
    <3> HIDE DEF n
    <3>3. r < n
      BY <2>2, <3>1, <3>2
    <3> QED
      BY <2>4, <3>3 DEF n
  <2>6. ASSUME NEW u \in Tables, NEW q \in PageIds, <<u, q>> \in dirtyPages,
               <<u, q>> \notin dirtyPages'
        PROVE  q < pageCount(disk'[u])
    <3>1. <<u, q>> = <<v, r>>
      BY <2>1, <2>6
    <3> QED
      BY <2>5, <3>1
  <2> QED
    BY <2>1, <2>6
<1> QED
  BY <1>1, <1>2, FetchRefines

(***************************************************************************)
(* A page that is behind the end of its file after a fetch is modified, or *)
(* is the page that was asked for.                                         *)
(***************************************************************************)
LEMMA FetchKeepsBeyond ==
  ASSUME WriteOutcomes = {TRUE}, PoolInv, CleanFrames, BeyondDirty, FilesBounded,
         phase # "new", NEW t \in Tables, NEW p \in PageIds, fetchPage(t, p),
         NEW u \in Tables, NEW q \in PageIds, Resident(u, q)', q >= pageCount(disk'[u])
  PROVE  <<u, q>> \in dirtyPages' \/ (u = t /\ q = p)
<1>1. FilesGrow
  BY FetchGrowsFiles
<1>2. q \in Nat /\ q >= pageCount(disk[u]) /\ ~(q < pageCount(disk'[u]))
  BY <1>1, BufferPoolAssumption DEF FilesGrow, PageIds
<1>3. ASSUME ~(u = t /\ q = p)
      PROVE  <<u, q>> \in dirtyPages'
  <2>1. Resident(u, q)
    BY <1>3, FetchResident DEF PoolInv
  <2>2. <<u, q>> \in dirtyPages
    BY <2>1, <1>2 DEF BeyondDirty
  <2> QED
    BY <2>2, <1>2, FetchKeepsExtent
<1> QED
  BY <1>3

\* What holds of the pool besides its structure when writes succeed.
StoreInv == CleanFrames /\ BeyondDirty

(***************************************************************************)
(* A fetch of a page of the file leaves the extent of every table that is  *)
(* no longer than its file.                                                *)
(***************************************************************************)
LEMMA FetchKeepsStore ==
  ASSUME WriteOutcomes = {TRUE}, PoolInv, PoolInv', StoreInv, FilesBounded, phase # "new",
         NEW t \in Tables, NEW p \in PageIds, p < pageCount(disk[t]), fetchPage(t, p)
  PROVE  /\ visible' = visible /\ StoreInv'
         /\ \A u \in Tables : Extent(u)' = pageCount(disk[u]) =>
              Extent(u) = pageCount(disk[u]) /\ pageCount(disk'[u]) = pageCount(disk[u])
<1>0. CleanFrames /\ BeyondDirty
  BY DEF StoreInv
<1>1. FilesGrow
  BY FetchGrowsFiles
<1>2. visible' = visible
  BY <1>0, FetchKeepsExtent
<1>3. CleanFrames'
  BY <1>0, NextKeepsClean DEF Next
<1>4. BeyondDirty'
  <2>1. ASSUME NEW u \in Tables, NEW q \in PageIds, Resident(u, q)', q >= pageCount(disk'[u])
        PROVE  <<u, q>> \in dirtyPages'
    <3>1. <<u, q>> \in dirtyPages' \/ (u = t /\ q = p)
      BY <1>0, <2>1, FetchKeepsBeyond
    <3>2. ~(u = t /\ q = p)
      BY <1>1, <2>1, BufferPoolAssumption DEF FilesGrow, PageIds
    <3> QED
      BY <3>1, <3>2
  <2> QED
    BY <2>1 DEF BeyondDirty
<1>5. ASSUME NEW u \in Tables, Extent(u)' = pageCount(disk[u])
      PROVE  Extent(u) = pageCount(disk[u]) /\ pageCount(disk'[u]) = pageCount(disk[u])
  <2> SUFFICES ASSUME NEW n, NEW m, n = pageCount(disk[u]), m = pageCount(disk'[u])
               PROVE  Extent(u) = n /\ m = n
    OBVIOUS
  <2>1. n \in Nat /\ m \in Nat /\ n <= m
    BY <1>1 DEF FilesGrow
  <2>2. Extent(u)' = n /\ Extent(u)' = IF m \in PageIds /\ Resident(u, m)' THEN m + 1 ELSE m
    BY <1>5 DEF Extent
  <2>3. m = n /\ ~(n \in PageIds /\ Resident(u, n)')
    BY <2>1, <2>2
  <2>4. ASSUME n \in PageIds, Resident(u, n)
        PROVE  FALSE
    <3>1. n >= pageCount(disk[u])
      BY <2>1
    <3>2. <<u, n>> \in dirtyPages
      BY <1>0, <2>4, <3>1 DEF BeyondDirty
    <3>3. <<u, n>> \in dirtyPages' \/ n < pageCount(disk'[u])
      BY <1>0, <2>4, <3>2, FetchKeepsExtent
    <3>4. <<u, n>> \in dirtyPages'
      BY <2>1, <2>3, <3>3
    <3>5. Resident(u, n)'
      BY <3>4 DEF dirtyPages
    <3> QED
      BY <2>3, <2>4, <3>5
  <2> QED
    BY <2>3, <2>4 DEF Extent
<1> QED
  BY <1>2, <1>3, <1>4, <1>5 DEF StoreInv

(***************************************************************************)
(* A change through the pointer of the last fetch makes no page resident,  *)
(* leaves modified pages modified and marks its own.                       *)
(***************************************************************************)
LEMMA StoreKeepsStore ==
  ASSUME WriteOutcomes = {TRUE}, PoolInv, PoolInv', StoreInv, NEW c \in Contents, markDirty(c)
  PROVE  StoreInv'
<1>0. CleanFrames /\ BeyondDirty /\ TypeOK
  BY DEF StoreInv, PoolInv
<1>1. CleanFrames'
  BY <1>0, NextKeepsClean DEF Next
<1> DEFINE k == makePageKey(cursor.table, cursor.pageId)
           g == frameMap[k]
<1>2. /\ UNCHANGED <<disk, frameMap, cursor>>
      /\ pages' = [h \in Frames |->
                     [pages[h] EXCEPT !.data = IF h = cursor.frame THEN c ELSE @,
                                      !.isDirty = IF h = g THEN TRUE ELSE @]]
  BY DEF markDirty
<1>3. \A h \in Frames : pages'[h].isDirty = IF h = g THEN TRUE ELSE pages[h].isDirty
  <2> TAKE h \in Frames
  <2>1. pages[h] \in [pageId : PageIds \union {-1}, isDirty : BOOLEAN,
                      isValid : BOOLEAN, data : Contents]
    BY <1>0 DEF TypeOK
  <2> HIDE DEF g
  <2>2. pages'[h] = [pages[h] EXCEPT !.data = IF h = cursor.frame THEN c ELSE @,
                                     !.isDirty = IF h = g THEN TRUE ELSE @]
    BY <1>2
  <2> QED
    BY <2>1, <2>2
<1>4. ASSUME NEW t \in Tables, NEW p \in PageIds, Resident(t, p)', p >= pageCount(disk'[t])
      PROVE  <<t, p>> \in dirtyPages'
  <2> DEFINE f == frameMap[makePageKey(t, p)]
  <2>1. Resident(t, p) /\ p >= pageCount(disk[t])
    BY <1>2, <1>4 DEF Resident
  <2>2. f \in Frames
    BY <2>1, ResidentFrame
  <2>3. \/ <<t, p>> \in dirtyPages
        \/ cursor.table = t /\ cursor.pageId = p
    BY <1>0, <2>1 DEF BeyondDirty
  <2>4. pages[f].isDirty \/ f = g
    BY <2>3 DEF dirtyPages, PageOf
  <2>5. pages'[f].isDirty
    <3> HIDE DEF f, g
    <3> QED
      BY <1>3, <2>2, <2>4
  <2>6. PageOf(t, p)'.isDirty
    BY <1>2, <2>5 DEF PageOf
  <2> QED
    BY <1>4, <2>6 DEF dirtyPages
<1> QED
  BY <1>1, <1>4 DEF StoreInv, BeyondDirty

(***************************************************************************)
(* No rows, no output.                                                     *)
(***************************************************************************)
LEMMA OutputEmpty == \A alone \in BOOLEAN : \A content : Output(<< >>, alone, content) = << >>
<1>1. \A content : Matches(<< >>, content) = << >>
  BY DEF Matches
<1> QED
  BY <1>1, FlattenEmpty DEF Output

(***************************************************************************)
(* An empty page joins with nothing.                                       *)
(***************************************************************************)
LEMMA JoinedEmpty == \A row : Joined(row, << >>) = << >>
<1> TAKE row
<1>1. Hits(row, << >>) = << >>
  BY DEF Hits
<1> QED
  BY <1>1, FlattenEmpty DEF Hits, Joined

\* The rows in front of row i of page k.
RowsBefore(file, k, i) == PagesBefore(file, k) \o SubSeq(file[k + 1], 1, i)

(***************************************************************************)
(* The rows of a page one by one: none of them, all of them, and one more. *)
(***************************************************************************)
LEMMA RowAdded ==
  ASSUME NEW file \in Seq(Contents), NEW k \in 0 .. Len(file) - 1
  PROVE  /\ Len(file[k + 1]) \in Nat
         /\ RowsBefore(file, k, 0) = PagesBefore(file, k)
         /\ RowsBefore(file, k, Len(file[k + 1])) = PagesBefore(file, k + 1)
         /\ \A i \in 0 .. Len(file[k + 1]) :
              /\ RowsBefore(file, k, i) \in Seq(RowSet)
              /\ \E rest \in Seq(RowSet) : PagesBefore(file, k + 1) = RowsBefore(file, k, i) \o rest
         /\ \A i \in 0 .. Len(file[k + 1]) - 1 :
              /\ file[k + 1][i + 1] \in RowSet
              /\ RowsBefore(file, k, i + 1) = RowsBefore(file, k, i) \o <<file[k + 1][i + 1]>>
<1> DEFINE page == file[k + 1]
           b == PagesBefore(file, k)
<1>1. /\ page \in Seq(RowSet) /\ b \in Seq(RowSet) /\ PagesBefore(file, k + 1) = b \o page
      /\ Len(page) \in Nat
  <2>1. Len(file) \in Nat /\ k \in 0 .. Len(file)
    BY PageAdded
  <2>2. page \in Seq(RowSet) /\ b \in Seq(RowSet) /\ PagesBefore(file, k + 1) = b \o page
    BY <2>1, PageAdded
  <2> HIDE DEF page
  <2> QED
    BY <2>2
<1> HIDE DEF page, b
<1>2. SubSeq(page, 1, 0) = << >> /\ SubSeq(page, 1, Len(page)) = page /\ b \o << >> = b
  BY <1>1, ConcatEmptySeq
<1>3. ASSUME NEW i \in 0 .. Len(page)
      PROVE  /\ b \o SubSeq(page, 1, i) \in Seq(RowSet)
             /\ \E rest \in Seq(RowSet) : b \o page = (b \o SubSeq(page, 1, i)) \o rest
  <2> DEFINE first == SubSeq(page, 1, i)
             rest == SubSeq(page, i + 1, Len(page))
  <2>1. first \in Seq(RowSet) /\ rest \in Seq(RowSet)
    BY <1>1
  <2>2. page = first \o rest
    <3>1. /\ Len(first) = i /\ Len(rest) = Len(page) - i
          /\ \A j \in 1 .. i : page[j] = first[j]
          /\ \A j \in 1 .. Len(page) - i : page[i + j] = rest[j]
      BY <1>1
    <3> HIDE DEF first, rest
    <3>2. Len(page) = Len(first) + Len(rest)
      BY <3>1, <1>1
    <3>3. \A j \in 1 .. Len(first) : page[j] = first[j]
      BY <3>1
    <3>4. \A j \in 1 .. Len(rest) : page[Len(first) + j] = rest[j]
      BY <3>1
    <3> QED
      BY <3>2, <3>3, <3>4, <1>1, <2>1, IsConcat
  <2> HIDE DEF first, rest
  <2>3. b \o (first \o rest) = (b \o first) \o rest
    <3>1. b \in Seq(RowSet) /\ first \in Seq(RowSet) /\ rest \in Seq(RowSet)
      BY <1>1, <2>1
    <3> QED
      BY <3>1
  <2>4. b \o first \in Seq(RowSet)
    BY <1>1, <2>1
  <2> QED
    BY <2>1, <2>2, <2>3, <2>4 DEF first
<1>4. ASSUME NEW i \in 0 .. Len(page) - 1
      PROVE  /\ page[i + 1] \in RowSet
             /\ b \o SubSeq(page, 1, i + 1) = (b \o SubSeq(page, 1, i)) \o <<page[i + 1]>>
  <2> DEFINE first == SubSeq(page, 1, i)
             one == <<page[i + 1]>>
  <2>1. /\ page[i + 1] \in RowSet /\ first \in Seq(RowSet) /\ one \in Seq(RowSet)
        /\ SubSeq(page, 1, i + 1) = first \o one
    <3>1. /\ page[i + 1] \in RowSet /\ first \in Seq(RowSet)
          /\ SubSeq(page, 1, i + 1) = Append(first, page[i + 1])
      BY <1>1
    <3> HIDE DEF first
    <3>2. Append(first, page[i + 1]) = first \o one
      BY <3>1, AppendIsConcat
    <3> QED
      BY <3>1, <3>2
  <2> HIDE DEF first, one
  <2>2. b \o (first \o one) = (b \o first) \o one
    <3>1. b \in Seq(RowSet) /\ first \in Seq(RowSet) /\ one \in Seq(RowSet)
      BY <1>1, <2>1
    <3> QED
      BY <3>1
  <2> QED
    BY <2>1, <2>2 DEF first, one
<1> QED
  BY <1>1, <1>2, <1>3, <1>4 DEF RowsBefore, page, b

(***************************************************************************)
(* The lines of an outer row go on with those of the next inner page, and  *)
(* nothing is added once the limit is reached.                             *)
(***************************************************************************)
LEMMA JoinedGoesOn ==
  ASSUME NEW head \in Seq(Lines), NEW row \in RowSet, NEW a \in Seq(RowSet), NEW b \in Seq(RowSet)
  PROVE  /\ UpToLimit(UpToLimit(head \o Joined(row, a)) \o Joined(row, b))
              = UpToLimit(head \o Joined(row, a \o b))
         /\ ~(Len(UpToLimit(head \o Joined(row, a))) < PrintLimit) =>
              UpToLimit(head \o Joined(row, a \o b)) = UpToLimit(head \o Joined(row, a))
<1> DEFINE X == Lines
           p == Joined(row, a)
           q == Joined(row, b)
<1>1. p \in Seq(X) /\ q \in Seq(X) /\ Joined(row, a \o b) = p \o q
  BY HitsType, JoinedConcat
<1> HIDE DEF p, q, X
<1>2. head \in Seq(X)
  BY DEF X
<1>3. head \o (p \o q) = (head \o p) \o q /\ head \o p \in Seq(X)
  BY <1>1, <1>2
<1>4. /\ UpToLimit(UpToLimit(head \o p) \o q) = UpToLimit((head \o p) \o q)
      /\ ~(Len(UpToLimit(head \o p)) < PrintLimit) =>
           UpToLimit((head \o p) \o q) = UpToLimit(head \o p)
  <2> DEFINE s == head \o p
  <2>1. s \in Seq(X) /\ q \in Seq(X)
    BY <1>1, <1>3
  <2> HIDE DEF s
  <2> QED
    BY <2>1, LimitConcat DEF s
<1> QED
  BY <1>1, <1>3, <1>4 DEF p, q

-----------------------------------------------------------------------------
(* What is printed *)

\* The rows of the inner table.
InnerRows == IF inner = NoTable THEN << >> ELSE FlattenSeq(View(inner))

\* What the rows printed so far come from, at the head of each loop and at the end.
AtOuter ==
  /\ pid0 <= pg0Count
  /\ printed = UpToLimit(Output(PagesBefore(View(outer), pid0), inner = NoTable, InnerRows))

AtRow ==
  /\ pid0 < pg0Count /\ ri0 <= Len(View(outer)[pid0 + 1])
  /\ printed = UpToLimit(Output(RowsBefore(View(outer), pid0, ri0), inner = NoTable, InnerRows))

AtInner ==
  /\ pid0 < pg0Count /\ ri0 < Len(View(outer)[pid0 + 1]) /\ pid1 <= pg1Count
  /\ r0 = View(outer)[pid0 + 1][ri0 + 1]
  /\ printed = UpToLimit(Output(RowsBefore(View(outer), pid0, ri0), inner = NoTable, InnerRows)
                           \o Joined(r0, PagesBefore(View(inner), pid1)))

AtEnd ==
  printed = UpToLimit(Output(FlattenSeq(View(outer)), inner = NoTable, InnerRows))

PrintedSoFar ==
  /\ phase = "outer" => AtOuter
  /\ phase = "row" => AtRow
  /\ phase = "inner" => AtInner
  /\ phase = "done" => AtEnd

\* The two files are as long as they were when the join began.
SameLength ==
  /\ pageCount(disk[outer]) = pg0Count
  /\ inner # NoTable => pageCount(disk[inner]) = innerFirst

\* What was printed is what the loops passed, if no page was behind its file.
ScanInv ==
  /\ StoreInv /\ ri0 \in Nat
  /\ phase \in {"idle", "new"} => pid0 = 0 /\ printed = << >>
  /\ Running /\ InnerFits /\ StoredAtStart => PrintedSoFar

(***************************************************************************)
(* A table that extends to a count its file had does not go beyond the     *)
(* file.                                                                   *)
(***************************************************************************)
LEMMA StoredIsSameLength ==
  JoinInv /\ Running /\ StoredAtStart => SameLength
<1> SUFFICES ASSUME JoinInv, Running, StoredAtStart PROVE SameLength
  OBVIOUS
<1>1. /\ outer \in Tables /\ inner \in Tables \union {NoTable}
      /\ pg0Count \in Nat /\ pg0Count <= pageCount(disk[outer]) /\ innerFirst \in Nat
      /\ inner # NoTable => innerFirst <= pageCount(disk[inner])
      /\ \A t \in Tables : pageCount(disk[t]) \in Nat
  BY DEF JoinInv, LoopTypes, StructuresInv, PoolInv, TypeOK, pageCount
<1>2. ASSUME NEW t \in Tables, NEW n \in Nat, n <= pageCount(disk[t]), Extent(t) = n
      PROVE  pageCount(disk[t]) = n
  <2> DEFINE m == pageCount(disk[t])
  <2>1. m \in Nat /\ (Extent(t) = m \/ Extent(t) = m + 1) /\ n <= m
    BY <1>1, <1>2 DEF Extent
  <2> HIDE DEF m
  <2>2. m = n
    BY <1>2, <2>1
  <2> QED
    BY <2>2 DEF m
<1> QED
  BY <1>1, <1>2 DEF StoredAtStart, SameLength

(***************************************************************************)
(* A step of the loops fetches a page that is in its file, or leaves the   *)
(* pool alone.                                                             *)
(***************************************************************************)
LEMMA FetchesOrNot ==
  ASSUME JoinInv, Loop
  PROVE  \/ UNCHANGED pvars
         \/ \E t \in Tables, p \in Nat : p < pageCount(disk[t]) /\ fetchNode(t, p)
<1>0. LoopTypes /\ \A t \in Tables : pageCount(disk[t]) \in Nat
  BY DEF JoinInv, StructuresInv, PoolInv, TypeOK, pageCount
<1>1. CASE OuterPage
  <2>1. outer \in Tables /\ pid0 \in Nat /\ pid0 < pageCount(disk[outer]) /\ fetchNode(outer, pid0)
    BY <1>0, <1>1 DEF OuterPage, LoopTypes, Running
  <2> QED
    BY <2>1
<1>2. CASE InnerPage
  <2>1. inner \in Tables /\ pid1 \in Nat /\ pid1 < pageCount(disk[inner]) /\ fetchNode(inner, pid1)
    BY <1>0, <1>2 DEF InnerPage, LoopTypes
  <2> QED
    BY <2>1
<1>3. CASE OuterEnd \/ OuterRow \/ RowsEnd \/ InnerEnd
  BY <1>3 DEF OuterEnd, OuterRow, RowsEnd, InnerEnd
<1> QED
  BY <1>1, <1>2, <1>3 DEF Loop

(***************************************************************************)
(* Without a step of the pool nothing changes in it.                       *)
(***************************************************************************)
LEMMA QuietKeepsStore ==
  ASSUME UNCHANGED pvars, phase # "new" \/ phase' = phase
  PROVE  /\ StoreInv => StoreInv'
         /\ visible' = visible /\ disk' = disk
         /\ \A t \in Tables : Extent(t)' = Extent(t)
<1>1. UNCHANGED <<disk, pages, frameInfos, frameMap, lruList, cursor>>
  BY DEF pvars, vars
<1>2. visible' = visible /\ dirtyPages' = dirtyPages
      /\ \A t \in Tables : \A p \in PageIds : Resident(t, p)' = Resident(t, p)
  BY <1>1 DEF visible, dirtyPages, Resident, PageOf
<1>3. CleanFrames => CleanFrames'
  BY <1>1 DEF CleanFrames
<1>4. BeyondDirty => BeyondDirty'
  BY <1>1, <1>2 DEF BeyondDirty
<1>5. \A t \in Tables : Extent(t)' = Extent(t)
  BY <1>1 DEF Extent, Resident
<1> QED
  BY <1>1, <1>2, <1>3, <1>4, <1>5 DEF StoreInv

(***************************************************************************)
(* The loops change nothing that can be seen, and if the tables are no     *)
(* longer than their files after a step they were so before it.            *)
(***************************************************************************)
LEMMA LoopKeepsStore ==
  ASSUME WriteOutcomes = {TRUE}, JoinInv, JoinInv', StoreInv, Loop
  PROVE  /\ StoreInv' /\ visible' = visible
         /\ StoredAtStart' =>
              /\ StoredAtStart /\ SameLength
              /\ View(outer)' = View(outer)
              /\ inner # NoTable => View(inner)' = View(inner)
<1>0. /\ PoolInv /\ PoolInv' /\ FilesBounded /\ Running /\ Running' /\ phase # "new"
      /\ UNCHANGED plan /\ pg0Count' = pg0Count /\ StructuresInv
  BY DEF JoinInv, StructuresInv, Running, Loop, OuterPage, OuterEnd, OuterRow, RowsEnd,
         InnerPage, InnerEnd
<1>1. /\ StoreInv' /\ visible' = visible
      /\ \A u \in Tables : Extent(u)' = pageCount(disk[u]) =>
           Extent(u) = pageCount(disk[u]) /\ pageCount(disk'[u]) = pageCount(disk[u])
      /\ FilesGrow
  <2>1. CASE UNCHANGED pvars
    <3>1. StoreInv' /\ visible' = visible /\ disk' = disk /\ \A t \in Tables : Extent(t)' = Extent(t)
      BY <1>0, <2>1, QuietKeepsStore
    <3>2. FilesGrow
      BY <1>0, <3>1 DEF FilesGrow, FilesBounded, PoolInv, TypeOK, pageCount
    <3> QED
      BY <3>1, <3>2
  <2>2. ASSUME NEW t \in Tables, NEW p \in Nat, p < pageCount(disk[t]), fetchNode(t, p)
        PROVE  /\ StoreInv' /\ visible' = visible /\ FilesGrow
               /\ \A u \in Tables : Extent(u)' = pageCount(disk[u]) =>
                    Extent(u) = pageCount(disk[u]) /\ pageCount(disk'[u]) = pageCount(disk[u])
    <3>1. p \in PageIds
      BY <1>0, <2>2, InFile
    <3>2. fetchPage(t, p) /\ FilesGrow
      BY <1>0, <2>2, <3>1, FetchKeepsPool
    <3> QED
      BY <1>0, <2>2, <3>1, <3>2, FetchKeepsStore
  <2> QED
    BY <2>1, <2>2, FetchesOrNot
<1>2. ASSUME StoredAtStart'
      PROVE  /\ StoredAtStart /\ SameLength
             /\ View(outer)' = View(outer)
             /\ inner # NoTable => View(inner)' = View(inner)
  <2>1. /\ outer' = outer /\ inner' = inner /\ innerFirst' = innerFirst
        /\ outer \in Tables /\ inner \in Tables \union {NoTable} /\ pg0Count \in Nat
        /\ pg0Count <= pageCount(disk[outer]) /\ innerFirst \in Nat
        /\ inner # NoTable => innerFirst <= pageCount(disk[inner])
    BY <1>0 DEF plan, JoinInv, LoopTypes
  <2>2. SameLength'
    BY <1>0, <1>2, StoredIsSameLength, PTL
  <2>3. ASSUME NEW t \in Tables, NEW n \in Nat, n <= pageCount(disk[t]),
               pageCount(disk'[t]) = n, Extent(t)' = n
        PROVE  pageCount(disk[t]) = n /\ Extent(t) = n /\ View(t)' = View(t)
    <3>1. pageCount(disk[t]) = n
      BY <1>1, <2>3 DEF FilesGrow
    <3>2. Extent(t) = n
      BY <1>1, <2>3, <3>1
    <3>3. View(t)' = View(t)
      BY <1>1, <2>3, <3>1 DEF View
    <3> QED
      BY <3>1, <3>2, <3>3
  <2>4. /\ Extent(outer)' = pg0Count /\ pageCount(disk'[outer]) = pg0Count
        /\ inner # NoTable => Extent(inner)' = innerFirst /\ pageCount(disk'[inner]) = innerFirst
    BY <1>0, <1>2, <2>1, <2>2 DEF StoredAtStart, SameLength, Extent, Resident
  <2>5. /\ pageCount(disk[outer]) = pg0Count /\ Extent(outer) = pg0Count
        /\ View(outer)' = View(outer)
    BY <2>1, <2>3, <2>4
  <2>6. ASSUME inner # NoTable
        PROVE  /\ pageCount(disk[inner]) = innerFirst /\ Extent(inner) = innerFirst
               /\ View(inner)' = View(inner)
    BY <2>1, <2>3, <2>4, <2>6
  <2> QED
    BY <2>5, <2>6 DEF StoredAtStart, SameLength
<1> QED
  BY <1>1, <1>2

(***************************************************************************)
(* The statements before the join keep modified what is not in a file.     *)
(***************************************************************************)
LEMMA EarlierKeepsStore ==
  ASSUME WriteOutcomes = {TRUE}, JoinInv, JoinInv', StoreInv,
         \/ EarlierFetch \/ EarlierAllocate
         \/ \E c \in Contents : EarlierStore(c) \/ EarlierAppend(c)
  PROVE  StoreInv'
<1>0. PoolInv /\ PoolInv' /\ FilesBounded /\ StructuresInv
  BY DEF JoinInv, StructuresInv
<1>1. CASE EarlierFetch
  <2>1. PICK t \in Tables : \E p \in 0 .. pageCount(disk[t]) - 1 : fetchNode(t, p)
    BY <1>1 DEF EarlierFetch
  <2>2. PICK p \in 0 .. pageCount(disk[t]) - 1 : fetchNode(t, p)
    BY <2>1
  <2>3. p \in PageIds /\ p < pageCount(disk[t])
    <3>1. pageCount(disk[t]) \in Nat
      BY <1>0, InFile
    <3>2. p \in Nat /\ p < pageCount(disk[t])
      BY <3>1
    <3> QED
      BY <1>0, <3>2, InFile
  <2>4. fetchPage(t, p) /\ phase # "new"
    BY <1>1, <2>2 DEF EarlierFetch, fetchNode
  <2> QED
    BY <1>0, <2>3, <2>4, FetchKeepsStore
<1>2. CASE EarlierAllocate
  <2>1. PICK t \in Tables : pageCount(disk[t]) < MaxPages /\ fetchNode(t, pageCount(disk[t]))
    BY <1>2 DEF EarlierAllocate
  <2>2. PICK p \in PageIds : fetchNode(t, p)
    BY <1>0, <2>1, InFile
  <2>3. phase # "new" /\ phase' = "new" /\ fetchPage(t, p)
    BY <1>2, <2>2 DEF EarlierAllocate, fetchNode
  <2>4. cursor'.table = t /\ cursor'.pageId = p
    <3>1. PICK h \in Frames : cursor' = [frame |-> h, table |-> t, pageId |-> p]
      BY <1>0, <2>3, FetchShape
    <3> QED
      BY <3>1
  <2>5. CleanFrames'
    BY <1>0, <2>3, NextKeepsClean DEF Next, StoreInv
  <2>6. ASSUME NEW u \in Tables, NEW q \in PageIds, Resident(u, q)', q >= pageCount(disk'[u])
        PROVE  <<u, q>> \in dirtyPages' \/ (phase' = "new" /\ cursor'.table = u /\ cursor'.pageId = q)
    <3>1. <<u, q>> \in dirtyPages' \/ (u = t /\ q = p)
      BY <1>0, <2>3, <2>6, FetchKeepsBeyond DEF StoreInv
    <3> QED
      BY <2>3, <2>4, <3>1
  <2> QED
    BY <2>5, <2>6 DEF StoreInv, BeyondDirty
<1>3. ASSUME NEW c \in Contents, EarlierStore(c) \/ EarlierAppend(c)
      PROVE  StoreInv'
  <2>1. markDirty(c)
    BY <1>3 DEF EarlierStore, EarlierAppend
  <2> QED
    BY <1>0, <2>1, StoreKeepsStore
<1> QED
  BY <1>1, <1>2, <1>3

(***************************************************************************)
(* Every step of a join prints the lines of the rows it passes.            *)
(***************************************************************************)
LEMMA ScanStep ==
  ASSUME WriteOutcomes = {TRUE}, JoinInv, JoinInv', ScanInv, [JNext]_jvars
  PROVE  ScanInv'
<1>2. /\ disk \in [Tables -> Seq(Contents)] /\ LoopTypes /\ ri0 \in Nat /\ PrintLimit \in Nat
      /\ PoolInv /\ PoolInv' /\ FilesBounded /\ StructuresInv /\ StoreInv
  BY JoinScanAssumption DEF JoinInv, StructuresInv, PoolInv, TypeOK, ScanInv
<1>3. CASE \/ EarlierFetch \/ EarlierAllocate
           \/ \E c \in Contents : EarlierStore(c) \/ EarlierAppend(c)
  <2>1. StoreInv'
    BY <1>2, <1>3, EarlierKeepsStore
  <2>2. phase \in {"idle", "new"} /\ phase' \in {"idle", "new"} /\ UNCHANGED <<pid0, ri0, printed>>
    BY <1>3 DEF EarlierFetch, EarlierAllocate, EarlierStore, EarlierAppend, join
  <2>3. ~Running'
    BY <2>2 DEF Running
  <2> QED
    BY <1>2, <2>1, <2>2, <2>3 DEF ScanInv
<1>4. ASSUME NEW t \in Tables, NEW u \in Tables \union {NoTable}, NEW w, executeJoin(t, u, w)
      PROVE  ScanInv'
  <2>1. /\ phase = "idle" /\ phase' = "outer" /\ outer' = t /\ inner' = u
        /\ pg0Count' = pageCount(disk[t]) /\ UNCHANGED <<pid0, ri0, printed>> /\ UNCHANGED pvars
    BY <1>4 DEF executeJoin
  <2>2. pid0' = 0 /\ printed' = << >> /\ pg0Count' \in Nat
    BY <1>2, <2>1 DEF ScanInv, pageCount
  <2>3. PagesBefore(View(outer)', 0) = << >>
    <3>1. outer' \in Tables /\ FilesBounded'
      BY <2>1 DEF JoinInv
    <3>2. OuterViewed'
      BY <1>2, <3>1, OuterViewType, PTL
    <3>3. View(outer)' \in Seq(Contents)
      BY <3>1, <3>2 DEF OuterViewed
    <3> QED
      BY <3>3, PageAdded
  <2>4. Output(<< >>, inner' = NoTable, InnerRows') = << >>
    BY OutputEmpty
  <2>5. UpToLimit(<< >>) = << >>
    BY <1>2 DEF UpToLimit
  <2>6. printed' = UpToLimit(Output(PagesBefore(View(outer)', pid0'),
                                    inner' = NoTable, InnerRows'))
    BY <2>2, <2>3, <2>4, <2>5
  <2>7. 0 <= pg0Count'
    BY <2>2
  <2>8. PrintedSoFar'
    BY <2>1, <2>2, <2>6, <2>7 DEF PrintedSoFar, AtOuter
  <2>9. StoreInv'
    BY <1>2, <2>1, QuietKeepsStore
  <2> QED
    BY <1>2, <2>1, <2>8, <2>9 DEF ScanInv
<1>6. CASE Done \/ UNCHANGED jvars
  <2>1. UNCHANGED pvars /\ UNCHANGED join /\ phase' = phase
    BY <1>6 DEF Done, jvars, join
  <2>2. StoreInv' /\ visible' = visible /\ disk' = disk /\ \A t \in Tables : Extent(t)' = Extent(t)
    BY <1>2, <2>1, QuietKeepsStore
  <2>3. UNCHANGED <<outer, inner, innerFirst, pg0Count, pg1Count, pid0, ri0, pid1, r0, printed>>
    BY <2>1 DEF join, plan
  <2>4. ASSUME Running', InnerFits', StoredAtStart'
        PROVE  PrintedSoFar'
    <3>1. Running /\ InnerFits
      BY <2>1, <2>2, <2>3, <2>4 DEF Running, InnerFits
    <3>2. outer \in Tables /\ (inner # NoTable => inner \in Tables)
      BY <1>2, <3>1 DEF LoopTypes
    <3>3. StoredAtStart
      BY <2>2, <2>3, <2>4, <3>2 DEF StoredAtStart
    <3>4. PrintedSoFar
      BY <3>1, <3>3 DEF ScanInv
    <3>5. View(outer)' = View(outer) /\ (inner # NoTable => View(inner)' = View(inner))
      BY <2>2, <2>3 DEF View
    <3>6. InnerRows' = InnerRows
      BY <2>3, <3>5 DEF InnerRows
    <3>7. phase = "inner" => inner # NoTable
      BY <1>2, BufferPoolAssumption DEF LoopTypes
    <3> QED
      BY <2>1, <2>3, <3>4, <3>5, <3>6, <3>7 DEF PrintedSoFar, AtOuter, AtRow, AtInner, AtEnd
  <2> QED
    BY <1>2, <2>1, <2>2, <2>3, <2>4 DEF ScanInv
<1>5. CASE Loop
  <2>1. /\ UNCHANGED <<outer, inner, innerFirst, pg0Count>> /\ ri0' \in Nat
        /\ Running /\ Running' /\ phase' \notin {"idle", "new"}
    BY <1>2, <1>5 DEF Loop, OuterPage, OuterEnd, OuterRow, RowsEnd, InnerPage, InnerEnd, plan,
                      Running
  <2>12. /\ StoreInv' /\ visible' = visible
         /\ StoredAtStart' =>
              /\ StoredAtStart /\ SameLength
              /\ View(outer)' = View(outer)
              /\ inner # NoTable => View(inner)' = View(inner)
    BY <1>2, <1>5, LoopKeepsStore
  <2>2. SUFFICES ASSUME InnerFits', StoredAtStart' PROVE PrintedSoFar'
    BY <2>1, <2>12 DEF ScanInv
  <2> DEFINE file == View(outer)
             alone == inner = NoTable
             content == InnerRows
             Cut(rows) == UpToLimit(Output(rows, alone, content))
  <2>4. /\ outer \in Tables /\ inner \in Tables \union {NoTable}
        /\ inner # NoTable => inner \in Tables
        /\ file \in Seq(Contents) /\ Len(file) \in Nat /\ pg0Count = Len(file) /\ pid0 \in Nat
        /\ \A p \in 0 .. Len(file) - 1 : file[p + 1] = visible[outer][p]
    <3>1. outer \in Tables /\ inner \in Tables \union {NoTable} /\ pid0 \in Nat
      BY <1>2, <2>1 DEF LoopTypes
    <3>2. pg0Count = pageCount(disk[outer])
      BY <2>2, <2>12 DEF SameLength
    <3> QED
      BY <1>2, <3>1, <3>2, ViewShape
  <2>13. ASSUME inner # NoTable
        PROVE  /\ View(inner) \in Seq(Contents) /\ Len(View(inner)) \in Nat
               /\ Len(View(inner)) = innerFirst /\ pageCount(disk[inner]) = innerFirst
               /\ \A p \in 0 .. Len(View(inner)) - 1 :
                    p \in PageIds /\ View(inner)[p + 1] = visible[inner][p]
    <3>1. pageCount(disk[inner]) = innerFirst
      BY <2>2, <2>12, <2>13 DEF SameLength
    <3> QED
      BY <1>2, <2>4, <2>13, <3>1, ViewShape
  <2>3. InnerFits /\ PrintedSoFar
    <3>1. InnerFits
      <4>1. CASE inner = NoTable
        BY <4>1 DEF InnerFits
      <4>2. CASE inner # NoTable
        <5>1. pageCount(disk'[inner]) = innerFirst
          <6>1. SameLength'
            BY <2>1, <2>2, StoredIsSameLength, PTL
          <6> QED
            BY <2>1, <4>2, <6>1 DEF SameLength
        <5> QED
          BY <2>1, <2>2, <2>13, <4>2, <5>1 DEF InnerFits
      <4> QED
        BY <4>1, <4>2
    <3> QED
      BY <2>1, <2>2, <2>12, <3>1 DEF ScanInv
  <2>14. View(outer)' = file /\ (inner # NoTable => View(inner)' = View(inner))
    BY <2>2, <2>12
  <2>5. alone \in BOOLEAN /\ content \in Seq(RowSet)
    <3>1. ASSUME inner # NoTable
          PROVE  FlattenSeq(View(inner)) \in Seq(RowSet)
      <4>1. View(inner) \in Seq(Seq(RowSet))
        BY <2>13, <3>1, PagesOfRows, SeqMonotonic
      <4> QED
        BY <4>1, FlattenType
    <3>2. << >> \in Seq(RowSet)
      OBVIOUS
    <3> QED
      BY <3>1, <3>2 DEF InnerRows
  <2>6. InnerRows' = InnerRows
    BY <2>1, <2>14 DEF InnerRows
  <2> DEFINE page == file[pid0 + 1]
  <2>0. ASSUME phase \in {"row", "inner"}
        PROVE  /\ pid0 \in 0 .. Len(file) - 1 /\ pages[pg0].data = page
               /\ page \in Seq(RowSet) /\ Len(page) \in Nat
    <3>1. pid0 \in 0 .. Len(file) - 1
      BY <2>0, <2>3, <2>4 DEF PrintedSoFar, AtRow, AtInner
    <3>2. OuterKept
      BY <2>0, <2>3 DEF JoinInv
    <3>3. frameInfos[pg0].table = outer /\ frameInfos[pg0].pageId = pid0 /\ pg0 \in Range(lruList)
      BY <3>2 DEF OuterKept
    <3>4. pages[pg0].data = visible[outer][pid0]
      BY <1>2, <3>3, FrameShows DEF FramesShow
    <3>5. pages[pg0].data = page
      BY <2>4, <3>1, <3>4
    <3>6. page \in Seq(RowSet)
      BY <2>4, <3>1, PageAdded
    <3>7. Len(page) \in Nat
      BY <3>6, LenProperties
    <3> QED
      BY <3>1, <3>5, <3>6, <3>7
  <2>7. CASE OuterPage
    <3>1. /\ phase = "outer" /\ pid0 < pg0Count /\ phase' = "row" /\ ri0' = 0
          /\ pid0' = pid0 /\ printed' = printed
      BY <2>7 DEF OuterPage
    <3>2. pid0 \in 0 .. Len(file) - 1 /\ printed = Cut(PagesBefore(file, pid0))
      BY <2>3, <2>4, <3>1 DEF PrintedSoFar, AtOuter
    <3>3. RowsBefore(file, pid0, 0) = PagesBefore(file, pid0) /\ 0 <= Len(file[pid0 + 1])
      BY <2>4, <3>2, RowAdded
    <3> QED
      BY <2>1, <2>14, <2>6, <3>1, <3>2, <3>3 DEF PrintedSoFar, AtRow
  <2>8. CASE OuterEnd
    <3>1. /\ phase = "outer" /\ ~(pid0 < pg0Count /\ More) /\ phase' = "done" /\ printed' = printed
      BY <2>8 DEF OuterEnd
    <3>2. pid0 \in 0 .. Len(file) /\ printed = Cut(PagesBefore(file, pid0))
      BY <2>3, <2>4, <3>1 DEF PrintedSoFar, AtOuter
    <3>3. printed = Cut(FlattenSeq(file))
      <4>1. CASE pid0 = Len(file)
        BY <2>4, <3>2, <4>1, PageAdded
      <4>2. CASE pid0 # Len(file)
        <5>1. ~(Len(printed) < PrintLimit)
          BY <2>4, <3>1, <3>2, <4>2 DEF More
        <5>2. PICK rest \in Seq(RowSet) : FlattenSeq(file) = PagesBefore(file, pid0) \o rest
          BY <2>4, <3>2, RestOfFile
        <5>3. PagesBefore(file, pid0) \in Seq(RowSet)
          BY <2>4, <3>2, PageAdded
        <5> HIDE DEF file, alone, content
        <5>4. Cut(PagesBefore(file, pid0) \o rest) = Cut(PagesBefore(file, pid0))
          BY <2>5, <3>2, <5>1, <5>3, OutputGoesOn
        <5> QED
          BY <3>2, <5>2, <5>4
      <4> QED
        BY <4>1, <4>2
    <3> QED
      BY <2>1, <2>14, <2>6, <3>1, <3>3 DEF PrintedSoFar, AtEnd
  <2>9. CASE RowsEnd
    <3>1. /\ phase = "row" /\ ~HasRow /\ phase' = "outer" /\ pid0' = pid0 + 1 /\ printed' = printed
      BY <2>9 DEF RowsEnd
    <3>2. /\ pid0 \in 0 .. Len(file) - 1 /\ ri0 \in 0 .. Len(page)
          /\ printed = Cut(RowsBefore(file, pid0, ri0))
      BY <1>2, <2>0, <2>3, <3>1 DEF PrintedSoFar, AtRow, AtInner
    <3>3. pages[pg0].data = page
      BY <2>0, <3>1
    <3>4. printed = Cut(PagesBefore(file, pid0 + 1))
      <4>1. CASE ri0 = Len(page)
        BY <2>4, <3>2, <4>1, RowAdded
      <4>2. CASE ri0 # Len(page)
        <5>1. ~(Len(printed) < PrintLimit)
          BY <3>1, <3>2, <3>3, <4>2 DEF HasRow, More
        <5>2. RowsBefore(file, pid0, ri0) \in Seq(RowSet)
          BY <2>4, <3>2, RowAdded
        <5>3. PICK rest \in Seq(RowSet) :
                PagesBefore(file, pid0 + 1) = RowsBefore(file, pid0, ri0) \o rest
          BY <2>4, <3>2, RowAdded
        <5> HIDE DEF file, alone, content
        <5>4. Cut(RowsBefore(file, pid0, ri0) \o rest) = Cut(RowsBefore(file, pid0, ri0))
          BY <2>5, <3>2, <5>1, <5>2, OutputGoesOn
        <5> QED
          BY <3>2, <5>3, <5>4
      <4> QED
        BY <4>1, <4>2
    <3>5. pid0 + 1 <= pg0Count
      BY <2>4, <3>2
    <3> QED
      BY <2>1, <2>14, <2>6, <3>1, <3>4, <3>5 DEF PrintedSoFar, AtOuter
  <2>10. CASE OuterRow
    <3>1. /\ phase = "row" /\ ri0 < Len(pages[pg0].data) /\ More /\ r0' = pages[pg0].data[ri0 + 1]
          /\ pid0' = pid0
          /\ \/ /\ inner # NoTable /\ phase' = "inner" /\ pg1Count' = pageCount(disk[inner])
                /\ pid1' = 0 /\ ri0' = ri0 /\ printed' = printed
             \/ /\ inner = NoTable /\ phase' = "row" /\ ri0' = ri0 + 1
                /\ printed' = Append(printed, <<r0'>>)
      BY <2>10 DEF OuterRow, HasRow
    <3> DEFINE passed == RowsBefore(file, pid0, ri0)
               row == page[ri0 + 1]
    <3>2. /\ pid0 \in 0 .. Len(file) - 1 /\ ri0 \in 0 .. Len(page) - 1 /\ Len(page) \in Nat
          /\ ri0 \in 0 .. Len(page) /\ printed = Cut(passed) /\ r0' = row
      BY <1>2, <2>0, <2>3, <3>1 DEF PrintedSoFar, AtRow, AtInner
    <3>3. /\ passed \in Seq(RowSet) /\ row \in RowSet
          /\ RowsBefore(file, pid0, ri0 + 1) = passed \o <<row>>
      BY <2>4, <3>2, RowAdded
    <3>4. CASE inner # NoTable
      <4>1. Output(passed, alone, content) \o Joined(row, PagesBefore(View(inner), 0))
              = Output(passed, alone, content)
        <5>1. PagesBefore(View(inner), 0) = << >>
          BY <2>13, <3>4, PageAdded
        <5>2. Output(passed, alone, content) \in Seq(Lines)
          BY <2>5, <3>3, OutputConcat
        <5> HIDE DEF passed, alone, content, row
        <5> QED
          BY <5>1, <5>2, JoinedEmpty, ConcatEmptySeq
      <4>2. printed = UpToLimit(Output(passed, alone, content)
                                  \o Joined(row, PagesBefore(View(inner), 0)))
        BY <3>2, <4>1
      <4>3. 0 <= pageCount(disk[inner]) /\ ri0 < Len(page) /\ pid0 < pg0Count
        BY <2>4, <2>13, <3>2, <3>4
      <4>4. /\ phase' = "inner" /\ pg1Count' = pageCount(disk[inner]) /\ pid1' = 0 /\ ri0' = ri0
            /\ printed' = printed /\ r0' = row
        BY <3>1, <3>2, <3>4
      <4>5. AtInner'
        BY <2>1, <2>14, <2>6, <3>1, <4>2, <4>3, <4>4 DEF AtInner
      <4> QED
        BY <4>4, <4>5 DEF PrintedSoFar
    <3>5. CASE inner = NoTable
      <4>1. Append(printed, <<row>>) = Cut(passed \o <<row>>)
        <5> DEFINE a == Output(passed, alone, content)
                   x == <<row>>
        <5>1. a \in Seq(Lines) /\ x \in Lines
          <6>1. a \in Seq(Lines)
            BY <2>5, <3>3, OutputConcat
          <6> HIDE DEF a
          <6> QED
            BY <3>3, <6>1 DEF Lines
        <5>2. Output(passed \o <<row>>, alone, content) = a \o <<x>>
          <6>1. <<row>> \in Seq(RowSet)
            BY <3>3
          <6>2. Output(passed \o <<row>>, alone, content) = a \o Output(<<row>>, alone, content)
            BY <2>5, <3>3, <6>1, OutputConcat
          <6>3. Output(<<row>>, TRUE, content) = <<x>>
            BY <2>5, <3>3, OutputOne
          <6>4. alone = TRUE
            BY <3>5
          <6> HIDE DEF a, x, row, passed, alone, content
          <6> QED
            BY <6>2, <6>3, <6>4
        <5>3. Len(UpToLimit(a)) < PrintLimit /\ printed = UpToLimit(a)
          BY <3>1, <3>2 DEF More
        <5> HIDE DEF a, x
        <5>4. Append(UpToLimit(a), x) = UpToLimit(a \o <<x>>)
          BY <5>1, <5>3, LimitAppend
        <5> QED
          BY <5>2, <5>3, <5>4 DEF x
      <4>2. phase' = "row" /\ ri0' = ri0 + 1 /\ printed' = Append(printed, <<row>>)
        BY <3>1, <3>2, <3>5
      <4>3. ri0 + 1 <= Len(page) /\ pid0 < pg0Count
        BY <2>4, <3>2
      <4>4. printed' = Cut(RowsBefore(file, pid0, ri0 + 1))
        <5> HIDE DEF passed, row, page, file, alone, content
        <5> QED
          BY <3>3, <4>1, <4>2
      <4>5. AtRow'
        BY <2>1, <2>14, <2>6, <3>1, <4>2, <4>3, <4>4 DEF AtRow
      <4> QED
        BY <4>2, <4>5 DEF PrintedSoFar
    <3> QED
      BY <3>4, <3>5
  <2>11. CASE InnerPage \/ InnerEnd
    <3>1. /\ phase = "inner" /\ pid0' = pid0
          /\ \/ /\ pid1 < pg1Count /\ phase' = "inner" /\ pid1' = pid1 + 1 /\ fetchNode(inner, pid1)
                /\ UNCHANGED <<ri0, r0, pg1Count>>
                /\ printed' = UpToLimit(printed \o Joined(r0, pages'[cursor'.frame].data))
             \/ /\ ~(pid1 < pg1Count /\ More) /\ phase' = "row" /\ ri0' = ri0 + 1
                /\ printed' = printed
      BY <2>11 DEF InnerPage, InnerEnd
    <3> DEFINE passed == RowsBefore(file, pid0, ri0)
               list == View(inner)
               head == Output(passed, alone, content)
    <3>2. /\ pid0 \in 0 .. Len(file) - 1 /\ ri0 \in 0 .. Len(page) - 1 /\ Len(page) \in Nat
          /\ ri0 \in 0 .. Len(page) /\ r0 = page[ri0 + 1]
          /\ printed = UpToLimit(head \o Joined(r0, PagesBefore(list, pid1)))
      BY <1>2, <2>0, <2>3, <3>1 DEF PrintedSoFar, AtRow, AtInner
    <3>3. /\ inner \in Tables /\ inner # NoTable /\ list \in Seq(Contents) /\ Len(list) \in Nat
          /\ pid1 \in 0 .. Len(list) /\ pg1Count = Len(list)
      <4>1. /\ inner \in Tables /\ inner # NoTable /\ pid1 \in Nat /\ pg1Count \in Nat
            /\ innerFirst <= pg1Count /\ pg1Count <= pageCount(disk[inner]) /\ pid1 <= pg1Count
        BY <1>2, <2>3, <3>1, BufferPoolAssumption DEF LoopTypes, PrintedSoFar, AtInner
      <4>2. list \in Seq(Contents) /\ Len(list) \in Nat /\ Len(list) = innerFirst
            /\ pageCount(disk[inner]) = innerFirst
        BY <2>13, <4>1
      <4> HIDE DEF list
      <4> QED
        BY <4>1, <4>2
    <3>4. /\ passed \in Seq(RowSet) /\ r0 \in RowSet
          /\ RowsBefore(file, pid0, ri0 + 1) = passed \o <<r0>>
          /\ head \in Seq(Lines) /\ PagesBefore(list, pid1) \in Seq(RowSet)
      <4>1. /\ passed \in Seq(RowSet) /\ r0 \in RowSet
            /\ RowsBefore(file, pid0, ri0 + 1) = passed \o <<r0>>
        BY <2>4, <3>2, RowAdded
      <4>2. PagesBefore(list, pid1) \in Seq(RowSet)
        BY <3>3, PageAdded
      <4> QED
        BY <2>5, <4>1, <4>2, OutputConcat
    <3>5. CASE phase' = "inner"
      <4>1. /\ pid1 \in 0 .. Len(list) - 1 /\ fetchNode(inner, pid1) /\ pid1' = pid1 + 1
            /\ UNCHANGED <<ri0, r0, pg1Count>>
            /\ printed' = UpToLimit(printed \o Joined(r0, pages'[cursor'.frame].data))
        BY <3>1, <3>3, <3>5
      <4>2. pages'[cursor'.frame].data = list[pid1 + 1]
        <5>1. pid1 \in PageIds /\ list[pid1 + 1] = visible[inner][pid1]
          BY <2>13, <3>3, <4>1
        <5>2. fetchPage(inner, pid1)
          BY <4>1 DEF fetchNode
        <5>3. PICK h \in Frames : cursor' = [frame |-> h, table |-> inner, pageId |-> pid1]
          BY <1>2, <3>3, <5>1, <5>2, FetchShape
        <5>4. cursor'.frame = h /\ cursor'.table = inner /\ cursor'.pageId = pid1 /\ h # NoFrame
          BY <5>3, NullIsNoFrame
        <5>5. h \in Range(lruList') /\ frameInfos'[h] = [table |-> inner, pageId |-> pid1]
          BY <1>2, <5>4 DEF PoolInv, CursorValid
        <5>6. FramesShow'
          BY <1>2, FrameShows, PTL
        <5>7. pages'[h].data = visible[inner][pid1]
          BY <2>12, <5>5, <5>6 DEF FramesShow
        <5> QED
          BY <5>1, <5>4, <5>7
      <4>3. /\ list[pid1 + 1] \in Seq(RowSet)
            /\ PagesBefore(list, pid1 + 1) = PagesBefore(list, pid1) \o list[pid1 + 1]
        BY <3>3, <4>1, PageAdded
      <4>4. printed' = UpToLimit(head \o Joined(r0, PagesBefore(list, pid1 + 1)))
        <5> DEFINE a == PagesBefore(list, pid1)
                   b == list[pid1 + 1]
        <5>1. head \in Seq(Lines) /\ r0 \in RowSet /\ a \in Seq(RowSet) /\ b \in Seq(RowSet)
          BY <3>4, <4>3
        <5> HIDE DEF head, a, b
        <5>2. UpToLimit(UpToLimit(head \o Joined(r0, a)) \o Joined(r0, b))
                = UpToLimit(head \o Joined(r0, a \o b))
          BY <5>1, JoinedGoesOn
        <5> QED
          BY <3>2, <4>1, <4>2, <4>3, <5>2 DEF a, b
      <4>5. pid1 + 1 <= pg1Count /\ ri0 < Len(page) /\ pid0 < pg0Count
        <5>1. pid1 \in 0 .. Len(list) - 1
          BY <4>1
        <5>2. pid1 + 1 <= pg1Count
          BY <3>3, <5>1
        <5> QED
          BY <2>4, <3>2, <5>2
      <4>6. AtInner'
        BY <2>1, <2>14, <2>6, <3>1, <3>2, <3>3, <4>1, <4>4, <4>5 DEF AtInner
      <4> QED
        BY <3>5, <4>6 DEF PrintedSoFar
    <3>6. CASE phase' = "row"
      <4>1. ~(pid1 < pg1Count /\ More) /\ ri0' = ri0 + 1 /\ printed' = printed
        BY <3>1, <3>6
      <4>2. printed = UpToLimit(head \o Joined(r0, FlattenSeq(list)))
        <5>1. CASE pid1 = Len(list)
          BY <3>2, <3>3, <5>1, PageAdded
        <5>2. CASE pid1 # Len(list)
          <6>1. ~(Len(printed) < PrintLimit)
            BY <3>3, <4>1, <5>2 DEF More
          <6>2. PICK rest \in Seq(RowSet) : FlattenSeq(list) = PagesBefore(list, pid1) \o rest
            BY <3>3, RestOfFile
          <6> DEFINE a == PagesBefore(list, pid1)
          <6>3. head \in Seq(Lines) /\ r0 \in RowSet /\ a \in Seq(RowSet)
            BY <3>4
          <6> HIDE DEF head, a
          <6>4. printed = UpToLimit(head \o Joined(r0, a)) /\ FlattenSeq(list) = a \o rest
            BY <3>2, <6>2 DEF a
          <6>5. ~(Len(UpToLimit(head \o Joined(r0, a))) < PrintLimit) =>
                  UpToLimit(head \o Joined(r0, a \o rest)) = UpToLimit(head \o Joined(r0, a))
            BY <6>3, JoinedGoesOn
          <6> QED
            BY <6>1, <6>4, <6>5
        <5> QED
          BY <5>1, <5>2
      <4>3. head \o Joined(r0, FlattenSeq(list)) = Output(passed \o <<r0>>, alone, content)
        <5>1. Output(<<r0>>, FALSE, content) = Joined(r0, content)
          BY <2>5, <3>4, OutputOne
        <5>2. alone = FALSE /\ content = FlattenSeq(list)
          BY <3>3 DEF InnerRows
        <5>3. <<r0>> \in Seq(RowSet)
          BY <3>4
        <5>4. Output(passed \o <<r0>>, alone, content) = head \o Output(<<r0>>, alone, content)
          BY <2>5, <3>4, <5>3, OutputConcat
        <5> QED
          BY <5>1, <5>2, <5>4
      <4>4. printed' = Cut(RowsBefore(file, pid0, ri0 + 1))
        <5> HIDE DEF passed, file, alone, content, head, list
        <5> QED
          BY <3>4, <4>1, <4>2, <4>3
      <4>5. ri0 + 1 <= Len(page) /\ pid0 < pg0Count
        BY <2>4, <3>2
      <4>6. AtRow'
        BY <2>1, <2>14, <2>6, <3>1, <4>1, <4>4, <4>5 DEF AtRow
      <4> QED
        BY <3>6, <4>6 DEF PrintedSoFar
    <3> QED
      BY <3>1, <3>5, <3>6
  <2> QED
    BY <1>5, <2>7, <2>8, <2>9, <2>10, <2>11 DEF Loop
<1>7. ASSUME NEW p \in Plans, executeJoin(p[1], p[2], p[3])
      PROVE  ScanInv'
  BY <1>4, <1>7, JoinScanAssumption
<1> QED
  BY <1>3, <1>5, <1>6, <1>7 DEF JNext

(***************************************************************************)
(* At the end that is the nested-loop join of the two tables.              *)
(***************************************************************************)
LEMMA ScanCounts == JoinInv /\ ScanInv => JoinExactIfStoredAndFits
<1> SUFFICES ASSUME JoinInv, ScanInv, phase = "done", InnerFits, StoredAtStart
             PROVE  printed = ExpectedRows
  BY DEF JoinExactIfStoredAndFits
<1>1. LoopTypes /\ Running /\ SameLength /\ PrintedSoFar
  BY StoredIsSameLength DEF JoinInv, ScanInv, Running
<1>2. outer \in Tables /\ inner \in Tables \union {NoTable}
  BY <1>1 DEF LoopTypes
<1>3. RowsUpTo(outer, Extent(outer)) = FlattenSeq(View(outer))
  BY <1>1 DEF RowsUpTo, View, StoredAtStart, SameLength
<1>4. inner # NoTable => RowsUpTo(inner, Extent(inner)) = InnerRows
  BY <1>1 DEF RowsUpTo, View, StoredAtStart, SameLength, InnerRows
<1>5. printed = UpToLimit(Output(RowsUpTo(outer, Extent(outer)), inner = NoTable, InnerRows))
  BY <1>1, <1>3 DEF PrintedSoFar, AtEnd
<1>6. CASE inner = NoTable
  BY <1>5, <1>6 DEF ExpectedRows, AllLines, JoinLines, Output
<1>7. CASE inner # NoTable
  BY <1>4, <1>5, <1>7 DEF ExpectedRows, AllLines, JoinLines, Output, Matches
<1> QED
  BY <1>6, <1>7

(***************************************************************************)
(* If writes succeed, the join prints what a nested-loop join of the first *)
(* two tables of its plan prints, rows, order and limit, for any tables,   *)
(* pages and pool and whatever earlier statements left modified in it, if  *)
(* the inner table has fewer pages than the pool and no page of the two    *)
(* tables was still missing in its file when the join began.               *)
(***************************************************************************)
THEOREM JoinPrintsExactly ==
  ASSUME WriteOutcomes = {TRUE}
  PROVE  JSpec => []JoinExactIfStoredAndFits
<1>1. JInit => ScanInv
  <2> SUFFICES ASSUME JInit PROVE ScanInv
    OBVIOUS
  <2>1. Init /\ phase = "idle" /\ pid0 = 0 /\ ri0 = 0 /\ printed = << >>
    BY DEF JInit, PInit
  <2>2. CleanFrames
    BY <2>1 DEF Init, CleanFrames, Range
  <2>3. \A t \in Tables, p \in PageIds : ~Resident(t, p)
    BY <2>1, KeyType DEF Init, FreshMap, Resident
  <2> QED
    BY <2>1, <2>2, <2>3 DEF ScanInv, StoreInv, BeyondDirty, Running
<1>2. JoinInv /\ JoinInv' /\ ScanInv /\ [JNext]_jvars => ScanInv'
  BY ScanStep
<1>3. JSpec => []JoinInv
  BY JoinInvariant
<1>4. JSpec => []ScanInv
  BY <1>1, <1>2, <1>3, PTL DEF JSpec
<1> QED
  BY <1>3, <1>4, ScanCounts, PTL
=============================================================================
