----------------------------- MODULE TableIndex ------------------------------
(***************************************************************************)
(* An index on an integer column, as Executor::benchmarkIndex uses it: it  *)
(* counts the rows with a key by a sequential scan, gets the index of the  *)
(* column (built the first time, from the pages in the file, and cached    *)
(* for good by getOrBuildIndex), and counts them again through the index   *)
(* (executor/Executor.cpp, index/AVLIndex.cpp, common/AVLTree.h).          *)
(*                                                                         *)
(* Between two calls statements change rows, and INSERT takes a new page   *)
(* when those of the file are full.  That page is in the pool only, until  *)
(* the pool writes it back: the loops over the table count the pages of    *)
(* the file.  Between two calls any modified page may be written, and      *)
(* during a scan one for each page the scan fetches.  Nothing tells the    *)
(* index.                                                                  *)
(*                                                                         *)
(* One table and one column; a row is the key it has in that column.       *)
(***************************************************************************)
EXTENDS AVLTree, SequencesExt

CONSTANTS
  Keys,
  Files,        \* the table files to begin with: sequences of pages of keys
  RowsPerPage,  \* TableSchema::recordsPerPage
  MAX_LOCS,     \* IndexEntry::MAX_LOCS
  MaxChanges,   \* bound: rows changed in one behaviour
  MaxRows       \* bound: no table with more rows is changed

ASSUME TableIndexAssumption ==
  /\ Keys \subseteq Int
  /\ RowsPerPage \in Nat /\ MAX_LOCS \in Nat
  /\ MaxChanges \in Nat /\ MaxRows \in Nat
  /\ \A f \in Files : \A p \in DOMAIN f :
       f[p] \in Seq(Keys) /\ Len(f[p]) <= RowsPerPage

VARIABLES
  disk,         \* the pages in the file
  view,         \* the pages as fetchPage shows them: one more than the
                \* file has, if INSERT allocated one that is not written
  changes,      \* history: rows changed so far
  pc,           \* "idle", "seq", "cached?", "build", "scan" or "report"
  searchKey,
  pgCount,      \* pages of the file when the sequential scan began
  pid,          \* the page it fetches next
  seqCount,     \* cnt1 of benchmarkIndex
  idxCount,     \* its cnt2
  built,        \* the cache of indexes holds this one
  tree, size,   \* AVLTree::root_, size_
  next,         \* the row that build handles next
  indexed       \* history: the file as build read it

client == <<disk, view, changes>>
call == <<pc, searchKey, pgCount, pid, seqCount, idxCount>>
index == <<built, tree, size, next, indexed>>
vars == <<client, call, index>>

\* The places of all rows of a file, in the order of a scan.
Places(file) ==
  FlattenSeq([p \in DOMAIN file |-> [r \in DOMAIN file[p] |-> <<p, r>>]])

KeyAt(file, place) == file[place[1]][place[2]]

\* The places of the rows with a key, in that order.
PlacesOf(file, key) ==
  LET HasKey(place) == KeyAt(file, place) = key
  IN  SelectSeq(Places(file), HasKey)

\* The locals of benchmarkIndex have no meaning between two calls.
AnyKey == CHOOSE k \in Keys : TRUE

Init ==
  /\ disk \in Files /\ view = disk /\ changes = 0
  /\ pc = "idle" /\ searchKey = AnyKey /\ pgCount = 0 /\ pid = 1
  /\ seqCount = 0 /\ idxCount = 0
  /\ built = FALSE /\ tree = Nil /\ size = 0 /\ next = 1 /\ indexed = << >>

-----------------------------------------------------------------------------
(* Statements and write-backs. *)

\* A statement leaves the pages of the table as newView.
Change(newView) ==
  /\ pc = "idle"
  /\ changes < MaxChanges /\ Len(Places(view)) <= MaxRows
  /\ view' = newView
  /\ changes' = changes + 1
  /\ UNCHANGED <<disk, call, index>>

\* executeUpdate writes a row in its place, on a page of the file.
Update == \E p \in DOMAIN disk : \E r \in DOMAIN view[p], k \in Keys :
            k # view[p][r] /\ Change([view EXCEPT ![p][r] = k])

\* executeDelete closes the gap in the page.
Delete == \E p \in DOMAIN disk : \E r \in DOMAIN view[p] :
            Change([view EXCEPT ![p] = RemoveAt(@, r)])

HasRoom(p) == Len(view[p]) < RowsPerPage

\* executeInsert appends to the last page of the file with room.
Insert == \E p \in DOMAIN disk, k \in Keys :
            /\ HasRoom(p)
            /\ \A q \in DOMAIN disk : q > p => ~HasRoom(q)
            /\ Change([view EXCEPT ![p] = Append(@, k)])

\* If none has, it initialises the page behind the file, which may hold the row
\* of an earlier INSERT already.
InsertNewPage == \E k \in Keys :
  /\ \A p \in DOMAIN disk : ~HasRoom(p)
  /\ Change(Append(SubSeq(view, 1, Len(disk)), <<k>>))

\* The pages that differ from the file, or are not in it.
Modified == {p \in DOMAIN view : p \in DOMAIN disk => disk[p] # view[p]}

\* The file after page p is written; only the last page can be behind its end.
Written(p) ==
  IF p \in DOMAIN disk THEN [disk EXCEPT ![p] = view[p]] ELSE Append(disk, view[p])

\* Other statements fetch pages and evict modified ones, or flush them, and so
\* does the scan by the index.
WriteBack(p) ==
  /\ pc \in {"idle", "scan"}
  /\ p \in Modified
  /\ disk' = Written(p)
  /\ UNCHANGED <<view, changes, call, index>>

-----------------------------------------------------------------------------
(* benchmarkIndex. *)

benchmarkIndex(key) ==
  /\ pc = "idle"
  /\ pc' = "seq"
  /\ searchKey' = key
  /\ pgCount' = Len(disk) /\ pid' = 1 /\ seqCount' = 0
  /\ UNCHANGED <<idxCount, client, index>>

\* The file after page p is fetched: a page that is not in the pool may take the
\* place of a modified one.
AfterFetch(p) ==
  {disk} \union (IF p \in Modified THEN {} ELSE {Written(q) : q \in Modified})

\* seqScan: one page of the file it counted.
SeqPage ==
  /\ pc = "seq" /\ pid <= pgCount
  /\ disk' \in AfterFetch(pid)
  /\ seqCount' = seqCount + Cardinality({r \in DOMAIN view[pid] : view[pid][r] = searchKey})
  /\ pid' = pid + 1
  /\ UNCHANGED <<view, changes, pc, searchKey, pgCount, idxCount, index>>

SeqEnd ==
  /\ pc = "seq" /\ pid > pgCount
  /\ pc' = "cached?"
  /\ UNCHANGED <<searchKey, pgCount, pid, seqCount, idxCount, client, index>>

Cached ==
  /\ pc = "cached?" /\ built
  /\ pc' = "scan"
  /\ UNCHANGED <<searchKey, pgCount, pid, seqCount, idxCount, client, index>>

StartBuild ==
  /\ pc = "cached?" /\ ~built
  /\ pc' = "build"
  /\ tree' = Nil /\ size' = 0 /\ next' = 1
  /\ indexed' = disk
  /\ UNCHANGED <<searchKey, pgCount, pid, seqCount, idxCount, built, client>>

\* IndexEntry::add: places beyond the capacity of the entry are dropped.
WithPlace(entry, place) ==
  IF Len(entry) < MAX_LOCS THEN Append(entry, place) ELSE entry

\* AVLIndex::build: the entry of the key is searched, extended and inserted.
BuildRow ==
  /\ pc = "build"
  /\ next <= Len(Places(disk))
  /\ LET place == Places(disk)[next]
         key == KeyAt(disk, place)
         node == find(tree, key)
         entry == IF IsNil(node) THEN << >> ELSE node.value
     IN  /\ tree' = insert(tree, key, WithPlace(entry, place))
         /\ size' = IF IsNil(node) THEN size + 1 ELSE size
  /\ next' = next + 1
  /\ UNCHANGED <<call, built, indexed, client>>

BuildEnd ==
  /\ pc = "build"
  /\ next > Len(Places(disk))
  /\ pc' = "scan"
  /\ built' = TRUE
  /\ UNCHANGED <<searchKey, pgCount, pid, seqCount, idxCount, tree, size, next, indexed, client>>

\* Mutant of Selected: the WHERE clause is not evaluated again.
SelectedBlindly(place) == place[2] \in DOMAIN view[place[1]]

\* getRow finds a record there, and evalWhere accepts it.
Selected(place) ==
  /\ place[2] \in DOMAIN view[place[1]]
  /\ KeyAt(view, place) = searchKey

indexScan ==
  /\ pc = "scan"
  /\ pc' = "report"
  /\ idxCount' = LET node == find(tree, searchKey)
                 IN  IF IsNil(node) THEN 0
                     ELSE Len(SelectSeq(node.value, Selected))
  /\ UNCHANGED <<searchKey, pgCount, pid, seqCount, client, index>>

\* The counts are printed; benchmarkIndex returns.
Report ==
  /\ pc = "report"
  /\ pc' = "idle" /\ searchKey' = AnyKey /\ pgCount' = 0 /\ pid' = 1
  /\ seqCount' = 0 /\ idxCount' = 0
  /\ UNCHANGED <<client, index>>

Next ==
  \/ Update \/ Delete \/ Insert \/ InsertNewPage
  \/ \E p \in DOMAIN view : WriteBack(p)
  \/ \E k \in Keys : benchmarkIndex(k)
  \/ SeqPage \/ SeqEnd
  \/ Cached \/ StartBuild \/ BuildRow \/ BuildEnd
  \/ indexScan \/ Report

Spec == Init /\ [][Next]_vars

-----------------------------------------------------------------------------
(* Properties. *)

\* Whatever the order in which the keys come, the tree of the index is a
\* balanced search tree and knows its heights (AVLTree::balance).
IndexIsAVLTree == Ordered(tree) /\ Balanced(tree)

\* After any number of rows the tree leads to every key met so far, with the
\* first MAX_LOCS places of its rows in file order, and to no other key: no
\* rotation and no rewriting of an entry loses one, and size_ counts the keys.
IndexHoldsFile ==
  LET done == SubSeq(Places(indexed), 1, next - 1)
  IN  /\ size = Cardinality(KeysOf(tree))
      /\ \A k \in Keys :
            LET HasKey(place) == KeyAt(indexed, place) = k
                places == SelectSeq(done, HasKey)
                node == find(tree, k)
            IN  IF places = << >> THEN IsNil(node)
                ELSE /\ ~IsNil(node)
                     /\ node.value = SubSeq(places, 1, Min({MAX_LOCS, Len(places)}))

\* The two counts that benchmarkIndex prints.  However old the index is, it finds
\* no row the scan does not find, unless an eviction during the scan itself made
\* the file longer, with a page the scan did not count and the index is built
\* from.  Both find the same rows if the scan counted all pages, the table is as
\* it was in the file when the index was built, and no key has more rows than an
\* entry holds.
BenchmarkCounts ==
  pc = "report" =>
    /\ Len(indexed) <= pgCount => idxCount <= seqCount
    /\ view = indexed /\ pgCount = Len(view) /\ seqCount <= MAX_LOCS => idxCount = seqCount
=============================================================================
