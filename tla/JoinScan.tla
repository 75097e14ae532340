------------------------------ MODULE JoinScan ------------------------------
(***************************************************************************)
(* The nested-loop join of Executor::executeJoin on top of the real frames *)
(* of BufferPool and the list and map they are kept in (PoolStructures).   *)
(* The outer loop keeps the Page pointer it got from fetchPage (pg0) while *)
(* the inner loop fetches page after page of the other table, and reads    *)
(* through it again afterwards: this module is about what that pointer     *)
(* shows by then.                                                          *)
(*                                                                         *)
(* A page is a sequence of rows and a row the pair of its first two        *)
(* fields: the join compares field 0 of the outer row with field 1 of the  *)
(* inner one, whatever the ON clause says.  Field 0 is an integer in every *)
(* schema; a field 1 that is not is a value no field 0 has (-2 in the      *)
(* code).  The order of the tables comes from JoinOptimizer and is an      *)
(* input here; of a third table only the schema is looked up.              *)
(*                                                                         *)
(* The statements before the join have left their pages in the pool, some  *)
(* of them modified: an eviction in the middle of the join writes those to *)
(* their files, and a page that INSERT allocated behind the end of its     *)
(* file lengthens the file then.  The join counts the pages of the files,  *)
(* those of the outer table once and those of the inner one for every      *)
(* outer row.                                                              *)
(***************************************************************************)
EXTENDS PoolStructures

CONSTANTS
  FullPages,    \* contents no row fits into any more
  Plans,        \* the plans a join may get: three tables, in order
  PrintLimit,   \* rows the join prints: 20 in executeSQL
  MaxEarlier    \* bound: pages earlier statements have left in the pool

ASSUME JoinScanAssumption ==
  /\ Plans \subseteq Tables \X (Tables \union {NoTable}) \X (Tables \union {NoTable})
  /\ FullPages \subseteq Contents
  /\ PrintLimit \in Nat
  /\ \A c \in Contents : c \in Seq(Range(c))

VARIABLES
  phase,          \* "idle", "new" between the two halves of an INSERT into a
                  \* new page, then the loop the join is in, then "done"
  outer, inner,   \* the two tables; inner is NoTable if it has no schema
  third,          \* the third one, NoTable in a plan of two
  pg0Count,       \* pages of the outer table, counted once
  pg1Count,       \* pages of the inner table, counted for every outer row
  pid0, ri0,      \* outer page and row
  pid1,           \* inner page
  pg0,            \* the frame the outer pointer points to
  r0,             \* the current outer row, a copy
  printed,        \* the rows printed so far
  innerFirst      \* history: pages of the inner table when the join began

plan == <<outer, inner, third, innerFirst>>
join == <<phase, plan, pg0Count, pg1Count, pid0, ri0, pid1, pg0, r0, printed>>
jvars == <<pvars, join>>

NoRow == << >>

JInit ==
  /\ PInit
  /\ phase = "idle" /\ outer = NoTable /\ inner = NoTable /\ third = NoTable
  /\ innerFirst = 0 /\ pg0Count = 0 /\ pg1Count = 0 /\ pid0 = 0 /\ ri0 = 0 /\ pid1 = 0
  /\ pg0 = NoFrame /\ r0 = NoRow /\ printed = << >>

-----------------------------------------------------------------------------
(* The statements before the join *)

\* A statement fetches a page that the file has.
EarlierFetch ==
  /\ phase = "idle" /\ Len(lruList) < MaxEarlier
  /\ \E t \in Tables : \E p \in 0 .. pageCount(disk[t]) - 1 : fetchNode(t, p)
  /\ UNCHANGED join

\* UPDATE, DELETE or INSERT changes the rows of such a page.
EarlierStore(c) ==
  /\ phase = "idle" /\ cursor.frame # NoFrame
  /\ cursor.pageId < pageCount(disk[cursor.table])
  /\ markDirty(c)
  /\ UNCHANGED <<links, buckets, join>>

\* INSERT has come down to page 0, found every page of the file full, and takes
\* the next page, which the pool may hold already: a page allocated before does
\* not count as long as it is not written.
EarlierAllocate ==
  /\ phase = "idle" /\ Len(lruList) < MaxEarlier
  /\ \E t \in Tables :
       /\ pageCount(disk[t]) < MaxPages
       /\ pageCount(disk[t]) > 0 => cursor.table = t /\ cursor.pageId = 0
       /\ \A p \in 0 .. pageCount(disk[t]) - 1 : visible[t][p] \in FullPages
       /\ fetchNode(t, pageCount(disk[t]))
  /\ phase' = "new"
  /\ UNCHANGED <<plan, pg0Count, pg1Count, pid0, ri0, pid1, pg0, r0, printed>>

\* It initialises that page and appends its row.
EarlierAppend(c) ==
  /\ phase = "new" /\ Len(c) = 1
  /\ markDirty(c)
  /\ phase' = "idle"
  /\ UNCHANGED <<links, buckets, plan, pg0Count, pg1Count, pid0, ri0, pid1, pg0, r0, printed>>

-----------------------------------------------------------------------------
(* The join *)

executeJoin(t, u, w) ==
  /\ phase = "idle"
  /\ phase' = "outer" /\ outer' = t /\ inner' = u /\ third' = w
  /\ pg0Count' = pageCount(disk[t])
  /\ innerFirst' = IF u = NoTable THEN 0 ELSE pageCount(disk[u])
  /\ UNCHANGED <<pvars, pg1Count, pid0, ri0, pid1, pg0, r0, printed>>

More == Len(printed) < PrintLimit

\* Mutant of OuterPage: the row counter goes on from the page before.
OuterPageKeepsRow ==
  /\ phase = "outer" /\ pid0 < pg0Count /\ More
  /\ fetchNode(outer, pid0)
  /\ pg0' = cursor'.frame /\ phase' = "row"
  /\ UNCHANGED <<plan, pg0Count, pg1Count, pid0, ri0, pid1, r0, printed>>

\* Head of the loop over outer pages.
OuterPage ==
  /\ phase = "outer" /\ pid0 < pg0Count /\ More
  /\ fetchNode(outer, pid0)
  /\ pg0' = cursor'.frame /\ ri0' = 0 /\ phase' = "row"
  /\ UNCHANGED <<plan, pg0Count, pg1Count, pid0, pid1, r0, printed>>

OuterEnd ==
  /\ phase = "outer" /\ ~(pid0 < pg0Count /\ More)
  /\ phase' = "done"
  /\ UNCHANGED <<pvars, plan, pg0Count, pg1Count, pid0, ri0, pid1, pg0, r0, printed>>

\* Head of the loop over outer rows: record count and row come through pg0.
HasRow == ri0 < Len(pages[pg0].data) /\ More

OuterRow ==
  /\ phase = "row" /\ HasRow
  /\ r0' = pages[pg0].data[ri0 + 1]
  /\ IF inner # NoTable
     THEN /\ pg1Count' = pageCount(disk[inner]) /\ pid1' = 0 /\ phase' = "inner"
          /\ UNCHANGED <<ri0, printed>>
     ELSE /\ printed' = Append(printed, <<r0'>>) /\ ri0' = ri0 + 1
          /\ UNCHANGED <<phase, pg1Count, pid1>>
  /\ UNCHANGED <<pvars, plan, pg0Count, pid0, pg0>>

RowsEnd ==
  /\ phase = "row" /\ ~HasRow
  /\ pid0' = pid0 + 1 /\ phase' = "outer"
  /\ UNCHANGED <<pvars, plan, pg0Count, pg1Count, ri0, pid1, pg0, r0, printed>>

\* The rows of content that join with row, as they are printed.
Joined(row, content) ==
  FlattenSeq([i \in DOMAIN content |->
                IF content[i][2] = row[1] THEN << <<row, content[i]>> >> ELSE << >>])

UpToLimit(rows) ==
  SubSeq(rows, 1, IF Len(rows) < PrintLimit THEN Len(rows) ELSE PrintLimit)

\* Mutant of InnerPage: the page number is not advanced.
InnerPageNoMove ==
  /\ phase = "inner" /\ pid1 < pg1Count /\ More
  /\ fetchNode(inner, pid1)
  /\ printed' = UpToLimit(printed \o Joined(r0, pages'[cursor'.frame].data))
  /\ UNCHANGED <<phase, plan, pg0Count, pg1Count, pid0, ri0, pid1, pg0, r0>>

\* One inner page: fetched, and its rows compared, with no call in between.
InnerPage ==
  /\ phase = "inner" /\ pid1 < pg1Count /\ More
  /\ fetchNode(inner, pid1)
  /\ printed' = UpToLimit(printed \o Joined(r0, pages'[cursor'.frame].data))
  /\ pid1' = pid1 + 1
  /\ UNCHANGED <<phase, plan, pg0Count, pg1Count, pid0, ri0, pg0, r0>>

InnerEnd ==
  /\ phase = "inner" /\ ~(pid1 < pg1Count /\ More)
  /\ ri0' = ri0 + 1 /\ phase' = "row"
  /\ UNCHANGED <<pvars, plan, pg0Count, pg1Count, pid0, pid1, pg0, r0, printed>>

Loop == OuterPage \/ OuterEnd \/ OuterRow \/ RowsEnd \/ InnerPage \/ InnerEnd

\* The join is over and the next statement runs elsewhere.
Done == phase = "done" /\ UNCHANGED jvars

JNext ==
  \/ EarlierFetch
  \/ EarlierAllocate
  \/ \E c \in Contents : EarlierStore(c) \/ EarlierAppend(c)
  \/ \E p \in Plans : executeJoin(p[1], p[2], p[3])
  \/ Loop
  \/ Done

\* The loops of the join run to their end.
JSpec == JInit /\ [][JNext]_jvars /\ WF_jvars(Loop)

-----------------------------------------------------------------------------
(* Properties *)

\* The pages of t, the one that waits in the pool for its file to grow included:
\* INSERT allocates at the page count of the file, so there is at most one.
Extent(t) ==
  LET n == pageCount(disk[t])
  IN  IF n \in PageIds /\ Resident(t, n) THEN n + 1 ELSE n

\* The rows of the first n pages of table t, as the pool shows them.
RowsUpTo(t, n) == FlattenSeq([p \in 1 .. n |-> visible[t][p - 1]])

RowsOf(t) == RowsUpTo(t, Extent(t))

\* The lines of a nested-loop join of m outer and n inner pages, all of them.
JoinLines(m, n) ==
  LET rows == RowsUpTo(outer, m)
  IN  IF inner = NoTable
      THEN [i \in DOMAIN rows |-> <<rows[i]>>]
      ELSE FlattenSeq([i \in DOMAIN rows |-> Joined(rows[i], RowsUpTo(inner, n))])

AllLines == JoinLines(Extent(outer), IF inner = NoTable THEN 0 ELSE Extent(inner))

\* What a nested-loop join of the first two tables prints.
ExpectedRows == UpToLimit(AllLines)

InnerFits == inner # NoTable => pageCount(disk[inner]) < Capacity

\* When the join began, the files had all pages of the two tables.
StoredAtStart ==
  /\ Extent(outer) = pg0Count
  /\ inner # NoTable => Extent(inner) = innerFirst

(***************************************************************************)
(* The outer pointer outlives the fetches of the inner loop when the inner *)
(* table leaves a frame to spare: replacement in recency order cannot      *)
(* reach the outer page in one pass over the inner one, although neither   *)
(* loop ever fetches it again, and although the inner file may grow while  *)
(* the loop runs.                                                          *)
(***************************************************************************)
PointerSurvivesIfInnerFits ==
  phase \in {"row", "inner"} /\ InnerFits =>
    frameInfos[pg0] = [table |-> outer, pageId |-> pid0]

(***************************************************************************)
(* The join prints what a nested-loop join of the first two tables of its  *)
(* plan prints, rows and order, when the inner table leaves a frame to     *)
(* spare and no page of either table was waiting for its file to grow.     *)
(* Other changes of earlier statements may still be in the pool, and reach *)
(* the files while the join runs.                                          *)
(***************************************************************************)
JoinExactIfStoredAndFits ==
  phase = "done" /\ InnerFits /\ StoredAtStart => printed = ExpectedRows

(***************************************************************************)
(* A page that waits for its file to grow costs the join no other row:     *)
(* every line of the pages the files had when it began is printed, unless  *)
(* the limit was reached first, and nothing is printed more often than it  *)
(* is a line of the join.                                                  *)
(***************************************************************************)
JoinMissesOnlyNewRows ==
  phase = "done" /\ InnerFits =>
    /\ More => ToBag(JoinLines(pg0Count, innerFirst)) \sqsubseteq ToBag(printed)
    /\ ToBag(printed) \sqsubseteq ToBag(AllLines)

(***************************************************************************)
(* The join comes to its end: over a pointer to the wrong page, and over   *)
(* an inner file that its own evictions lengthen.                          *)
(***************************************************************************)
JoinEnds == phase = "outer" ~> phase = "done"

(***************************************************************************)
(* The comment in the code (Executor.cpp:450): "nested loop join - simple, *)
(* correct".  It is not, once the inner table is as large as the pool.     *)
(***************************************************************************)
JoinExact == phase = "done" => printed = ExpectedRows
=============================================================================
