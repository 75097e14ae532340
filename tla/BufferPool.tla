----------------------------- MODULE BufferPool -----------------------------
(***************************************************************************)
(* The page cache of storage/BufferPool.h between the executor and the     *)
(* table files: a fixed array of frames, a hash map from page keys to      *)
(* frames, a doubly linked list in recency order, and a stack of frames    *)
(* that were never used.  One process uses it, one call at a time; the     *)
(* process may be killed between any two steps, and a flush is one step    *)
(* per frame because its writes reach the files one after the other.       *)
(*                                                                         *)
(* The DLLNode pointers of lruNodes_ are abstracted to positions in        *)
(* lruList (no frame occurs twice), the buckets of IntHashMap to a total   *)
(* function, and evictionCount_, a statistic, is left out.                 *)
(***************************************************************************)
EXTENDS Integers, SequencesExt, DiskManager

CONSTANTS
  Tables,         \* the tables whose files go through this pool
  NoTable,        \* tag of a frame that was never used
  TableHash,      \* SystemCatalog::tableHash of each table
  KeyRadix,       \* 100000 in makePageKey
  KeyMod,         \* 2^32: a page key is a 32-bit int and wraps around
  MaxPages,       \* bound: page numbers are below MaxPages
  Capacity,       \* frames of the pool
  Contents,       \* what a page can hold, Blank among them
  WriteOutcomes   \* results DiskManager::writePage can have: {TRUE} on a
                  \* healthy file system, BOOLEAN when a write can fail

PageIds == 0 .. MaxPages - 1

makePageKey(t, p) == (TableHash[t] * KeyRadix + p) % KeyMod

PageKeys == 0 .. KeyMod - 1

ASSUME BufferPoolAssumption ==
  /\ NoTable \notin Tables
  /\ TableHash \in [Tables -> Nat]
  /\ KeyRadix \in Nat
  /\ KeyMod \in Nat \ {0}
  /\ MaxPages \in Nat
  /\ Capacity \in Nat \ {0}
  /\ Blank \in Contents
  /\ WriteOutcomes \subseteq BOOLEAN

(***************************************************************************)
(* The keys of distinct pages are distinct.  makePageKey does not ensure   *)
(* it for every hash: it holds for the three tables of Schema.h, whose     *)
(* keys modulo 2^32 stay more than 98 million pages apart.                 *)
(***************************************************************************)
ASSUME PageKeysDistinct ==
  \A t, u \in Tables : \A p, q \in PageIds :
    makePageKey(t, p) = makePageKey(u, q) => t = u /\ p = q

Frames == 0 .. Capacity - 1

NoFrame == -1

VARIABLES
  disk,         \* disk[t]: the file of t, a sequence of contents
  pages,        \* pages_: the Page object of each frame
  frameInfos,   \* frameInfos_: table and page number a frame was loaded for
  frameMap,     \* frameMap_: page key -> frame, or NoFrame
  lruList,      \* lruList_: frames in use, most recently used first
  freeFrames,   \* freeFrames_: stack of frames, top at the end
  cursor,       \* the pointer the client got from its last fetchPage
  flush         \* flushAll or flushTable under way: next frame and scope

vars == <<disk, pages, frameInfos, frameMap, lruList, freeFrames, cursor, flush>>

EmptyPage == [pageId |-> -1, isDirty |-> FALSE, isValid |-> FALSE, data |-> Blank]

EmptyInfo == [table |-> NoTable, pageId |-> 0]

NoCursor == [frame |-> NoFrame, table |-> NoTable, pageId |-> 0]

NoFlush == [at |-> Capacity, scope |-> {}, exit |-> FALSE]

TypeOK ==
  /\ disk \in [Tables -> Seq(Contents)]
  /\ pages \in [Frames -> [pageId : PageIds \union {-1}, isDirty : BOOLEAN,
                           isValid : BOOLEAN, data : Contents]]
  /\ frameInfos \in [Frames -> [table : Tables \union {NoTable},
                                pageId : PageIds \union {0}]]
  /\ frameMap \in [PageKeys -> Frames \union {NoFrame}]
  /\ lruList \in Seq(Frames)
  /\ freeFrames \in Seq(Frames)
  /\ cursor \in [frame : Frames \union {NoFrame}, table : Tables \union {NoTable},
                 pageId : PageIds \union {0}]
  /\ flush \in [at : 0 .. Capacity, scope : SUBSET Tables, exit : BOOLEAN]

-----------------------------------------------------------------------------
(* Starting a process *)

\* What the constructor leaves in the arrays and the free stack.
FreshPages == [f \in Frames |-> EmptyPage]

FreshInfos == [f \in Frames |-> EmptyInfo]

FreshMap == [k \in PageKeys |-> NoFrame]

FreshStack == [i \in 1 .. Capacity |-> Capacity - i]

\* The table files may hold anything an earlier process left in them.
Init ==
  /\ disk \in [Tables -> BoundedSeq(Contents, MaxPages)]
  /\ pages = FreshPages /\ frameInfos = FreshInfos /\ frameMap = FreshMap
  /\ lruList = << >> /\ freeFrames = FreshStack
  /\ cursor = NoCursor /\ flush = NoFlush

-----------------------------------------------------------------------------
(* fetchPage *)

\* No flush is running, and the process is not on its way out.
Idle == flush.at = Capacity /\ ~flush.exit

\* Mutants of MoveToFront: the node is not unlinked first; a hit is not a use.
MoveToFrontNoUnlink(list, f) == <<f>> \o list

MoveToFrontForgotten(list, f) == list

\* DoublyLinkedList::moveToFront of the node that holds frame f.
MoveToFront(list, f) ==
  LET k == CHOOSE i \in DOMAIN list : list[i] = f
  IN  [i \in DOMAIN list |->
         IF i = 1 THEN f ELSE IF i <= k THEN list[i - 1] ELSE list[i]]

\* Mutant of Written: the page goes to position 0, without the seek.
WrittenNoSeek(f, ok) ==
  IF ok THEN [disk EXCEPT ![frameInfos[f].table] = writePage(@, 0, pages[f].data)]
        ELSE disk

\* The page of frame f written to its file: the table comes from frameInfos_,
\* the position from the page itself.  A failed write leaves the file alone.
Written(f, ok) ==
  IF ok THEN [disk EXCEPT ![frameInfos[f].table] =
                             writePage(@, pages[f].pageId, pages[f].data)]
        ELSE disk

\* Mutant of Load: the pointer returned is the one of the old list head.
LoadStaleCursor(f, t, p, files, map, list) ==
  /\ pages' = [pages EXCEPT ![f] = [pageId |-> p, isDirty |-> FALSE, isValid |-> TRUE,
                                    data |-> readPage(files[t], p)]]
  /\ frameInfos' = [frameInfos EXCEPT ![f] = [table |-> t, pageId |-> p]]
  /\ frameMap' = [map EXCEPT ![makePageKey(t, p)] = f]
  /\ lruList' = <<f>> \o list
  /\ cursor' = [frame |-> IF lruList = << >> THEN f ELSE lruList[1],
                table |-> t, pageId |-> p]

\* Load page p of t into frame f, whose frame map entry is free, and
\* register it as the most recently used one.
Load(f, t, p, files, map, list) ==
  /\ pages' = [pages EXCEPT ![f] = [pageId |-> p, isDirty |-> FALSE, isValid |-> TRUE,
                                    data |-> readPage(files[t], p)]]
  /\ frameInfos' = [frameInfos EXCEPT ![f] = [table |-> t, pageId |-> p]]
  /\ frameMap' = [map EXCEPT ![makePageKey(t, p)] = f]
  /\ lruList' = <<f>> \o list
  /\ cursor' = [frame |-> f, table |-> t, pageId |-> p]

FetchHit(t, p) ==
  LET f == frameMap[makePageKey(t, p)]
  IN  /\ Idle
      /\ f # NoFrame
      /\ lruList' = MoveToFront(lruList, f)
      /\ cursor' = [frame |-> f, table |-> t, pageId |-> p]
      /\ UNCHANGED <<disk, pages, frameInfos, frameMap, freeFrames, flush>>

FetchMissFree(t, p) ==
  /\ Idle
  /\ frameMap[makePageKey(t, p)] = NoFrame
  /\ freeFrames # << >>
  /\ freeFrames' = Front(freeFrames)
  /\ Load(Last(freeFrames), t, p, disk, frameMap, lruList)
  /\ UNCHANGED <<disk, flush>>

\* Mutant of Unmapped: the key of the evicted page stays in the map.
UnmappedForgotten(f) == frameMap

\* frameMap_ without the entry of the page in frame f.
Unmapped(f) ==
  [frameMap EXCEPT ![makePageKey(frameInfos[f].table, frameInfos[f].pageId)] = NoFrame]

\* evictLRU, then the load.  The result of writePage is not looked at.
FetchMissEvict(t, p) ==
  LET victim == Last(lruList)
  IN  /\ Idle
      /\ frameMap[makePageKey(t, p)] = NoFrame
      /\ freeFrames = << >>
      /\ IF pages[victim].isDirty
         THEN \E ok \in WriteOutcomes : disk' = Written(victim, ok)
         ELSE UNCHANGED disk
      /\ Load(victim, t, p, disk', Unmapped(victim), Front(lruList))
      /\ UNCHANGED <<freeFrames, flush>>

fetchPage(t, p) == FetchHit(t, p) \/ FetchMissFree(t, p) \/ FetchMissEvict(t, p)

-----------------------------------------------------------------------------
(* Writing to a fetched page *)

\* Mutant of markDirty: the flag is never set.
markDirtyForgotten(c) ==
  /\ Idle
  /\ cursor.frame # NoFrame
  /\ pages' = [pages EXCEPT ![cursor.frame].data = c]
  /\ UNCHANGED <<disk, frameInfos, frameMap, lruList, freeFrames, cursor, flush>>

\* The client stores content through the pointer of its last fetchPage, then
\* calls markDirty with the numbers of the page it believes it holds.
markDirty(c) ==
  LET f == cursor.frame
      g == frameMap[makePageKey(cursor.table, cursor.pageId)]
  IN  /\ Idle
      /\ f # NoFrame
      /\ pages' = [h \in Frames |->
                     [pages[h] EXCEPT !.data = IF h = f THEN c ELSE @,
                                      !.isDirty = IF h = g THEN TRUE ELSE @]]
      /\ UNCHANGED <<disk, frameInfos, frameMap, lruList, freeFrames, cursor, flush>>

-----------------------------------------------------------------------------
(* flushAll, flushTable, the destructor, and the end of a process *)

\* Mutant of StartFlush: the loop starts at frame 1.
StartFlushOffByOne(scope, exit) ==
  /\ Idle
  /\ flush' = [at |-> 1, scope |-> scope, exit |-> exit]
  /\ UNCHANGED <<disk, pages, frameInfos, frameMap, lruList, freeFrames, cursor>>

\* flushAll has every table in its scope, flushTable one.  The flush that
\* precedes the end of the process is main's last one or the destructor's.
StartFlush(scope, exit) ==
  /\ Idle
  /\ flush' = [at |-> 0, scope |-> scope, exit |-> exit]
  /\ UNCHANGED <<disk, pages, frameInfos, frameMap, lruList, freeFrames, cursor>>

\* One iteration of the loop.  The page is clean afterwards, written or not.
FlushFrame ==
  LET f == flush.at
  IN  /\ flush.at < Capacity
      /\ IF pages[f].isValid /\ pages[f].isDirty /\ frameInfos[f].table \in flush.scope
         THEN /\ \E ok \in WriteOutcomes : disk' = Written(f, ok)
              /\ pages' = [pages EXCEPT ![f].isDirty = FALSE]
         ELSE UNCHANGED <<disk, pages>>
      /\ flush' = IF f + 1 = Capacity /\ ~flush.exit
                  THEN NoFlush ELSE [flush EXCEPT !.at = @ + 1]
      /\ UNCHANGED <<frameInfos, frameMap, lruList, freeFrames, cursor>>

\* The next process starts on the files this one leaves behind.
Reset ==
  /\ pages' = FreshPages /\ frameInfos' = FreshInfos /\ frameMap' = FreshMap
  /\ lruList' = << >> /\ freeFrames' = FreshStack
  /\ cursor' = NoCursor /\ flush' = NoFlush
  /\ UNCHANGED disk

Exit == flush.at = Capacity /\ flush.exit /\ Reset

\* The process is killed: at any moment, in the middle of a flush too.
Crash == Reset

Next ==
  \/ \E t \in Tables, p \in PageIds : fetchPage(t, p)
  \/ \E c \in Contents : markDirty(c)
  \/ StartFlush(Tables, FALSE)
  \/ \E t \in Tables : StartFlush({t}, FALSE)
  \/ StartFlush(Tables, TRUE)
  \/ FlushFrame
  \/ Exit
  \/ Crash

Spec == Init /\ [][Next]_vars

-----------------------------------------------------------------------------
(* The abstract store this pool implements *)

Resident(t, p) == frameMap[makePageKey(t, p)] # NoFrame

PageOf(t, p) == pages[frameMap[makePageKey(t, p)]]

\* The content the next fetchPage of p returns.
visible ==
  [t \in Tables |-> [p \in PageIds |->
     IF Resident(t, p) THEN PageOf(t, p).data ELSE readPage(disk[t], p)]]

dirtyPages ==
  {tp \in Tables \X PageIds : Resident(tp[1], tp[2]) /\ PageOf(tp[1], tp[2]).isDirty}

Store == INSTANCE PageStore WITH durable <- disk, view <- visible, dirty <- dirtyPages

-----------------------------------------------------------------------------
(* Properties *)

(***************************************************************************)
(* Every frame is either on the free stack or in the recency list, once,   *)
(* and a frame on the free stack holds no page: no sequence of evictions,  *)
(* hits and loads leaks a frame or hands one out twice.                    *)
(***************************************************************************)
FrameAccounting ==
  /\ IsInjective(lruList)
  /\ IsInjective(freeFrames)
  /\ Range(lruList) \intersect Range(freeFrames) = {}
  /\ Range(lruList) \union Range(freeFrames) = Frames
  /\ \A f \in Range(freeFrames) : pages[f] = EmptyPage

(***************************************************************************)
(* The hash map, the frame table and the pages agree: a frame in use is    *)
(* valid, carries the same page number in its Page and its FrameInfo, and  *)
(* is the one the map finds under its key; the map finds nothing else.  An *)
(* eviction that removed the wrong key, or left the old one behind, would  *)
(* make a later fetchPage return another table's page.                     *)
(***************************************************************************)
MapMatchesFrames ==
  /\ \A f \in Range(lruList) :
       /\ pages[f].isValid
       /\ frameInfos[f].table \in Tables
       /\ pages[f].pageId = frameInfos[f].pageId
       /\ frameMap[makePageKey(frameInfos[f].table, frameInfos[f].pageId)] = f
  /\ \A k \in PageKeys : frameMap[k] # NoFrame =>
       /\ frameMap[k] \in Range(lruList)
       /\ k = makePageKey(frameInfos[frameMap[k]].table, frameInfos[frameMap[k]].pageId)

(***************************************************************************)
(* The pointer the client holds is the frame of the page it fetched: true  *)
(* of the last fetchPage only (BufferPool.h:50, "valid until next          *)
(* fetch/evict"), flushes and writes leave it alone.                       *)
(***************************************************************************)
CursorValid ==
  cursor.frame # NoFrame =>
    /\ cursor.table \in Tables
    /\ cursor.frame \in Range(lruList)
    /\ frameInfos[cursor.frame] = [table |-> cursor.table, pageId |-> cursor.pageId]

\* The conjunction is inductive; none of its parts is.
PoolInv == TypeOK /\ FrameAccounting /\ MapMatchesFrames /\ CursorValid

(***************************************************************************)
(* A page in the pool that is not dirty is the page in the file, whatever  *)
(* was evicted, flushed, reloaded or lost before: evictLRU may drop it     *)
(* without a write.  It holds as long as writePage does not fail.          *)
(***************************************************************************)
CleanPagesMatchDisk ==
  \A t \in Tables, p \in PageIds :
    Resident(t, p) /\ ~PageOf(t, p).isDirty => PageOf(t, p).data = readPage(disk[t], p)

(***************************************************************************)
(* A process that leaves through its last flush loses nothing: the next    *)
(* process reads exactly what this one would have read.                    *)
(***************************************************************************)
ExitLosesNothing == [][Exit => visible' = visible]_vars

(***************************************************************************)
(* The pool is a PageStore: replacement, recency and frames are invisible, *)
(* and a page changes in its file only when a modified page is written.    *)
(***************************************************************************)
StoreSpec == Store!Spec
=============================================================================
