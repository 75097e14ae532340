# NanoDB in TLA+

NanoDB (`src/`, C++) is a single-process database engine: a SQL-like parser, an
executor, a buffer pool over paged table files, an AVL index, a join optimizer and a
priority queue of statements. This directory models the parts that keep state,
model-checks them with TLC on small instances, and proves the main invariants with
TLAPS for every instance.

All paths below are relative to the repository's `src/` directory unless they begin
with `README.md` or `queries.txt`.

## The system

| Component | State | Operations | Used by |
|---|---|---|---|
| Disk manager (`storage/DiskManager.h`) | the table files | `readPage`, `writePage`, `pageCount` | pool, executor, index, optimizer |
| Page (`storage/Page.h`) | record count and records of one page | `init`, `appendRow`, `getRow`, `isFull` | executor |
| Buffer pool (`storage/BufferPool.h`, `common/DoublyLinkedList.h`, `common/HashMap.h`, `common/Stack.h`) | frames, frame table, key map, recency list, free stack | `fetchPage`, `markDirty`, `flushAll`, `flushTable`, destructor | executor, `main.cpp` |
| DML statements (`executor/Executor.cpp`) | loop variables of the running statement | `executeInsert`, `executeUpdate`, `executeDelete`, `seqScan` | `executeSQL` |
| Join (`Executor::executeJoin`) | loop variables, a `Page*` kept across fetches | `executeJoin` | `executeSQL`, `main.cpp` |
| Join optimizer (`optimizer/JoinOptimizer.cpp`, `common/Graph.h`) | graph, disjoint-set forest, plan | `optimize`, `computeMST`, `unite`, `find` | `executeJoin` |
| Query queue (`common/PriorityQueue.h`, `Executor::enqueueQuery`, `runQueue`) | a heap in a growing array | `enqueue`, `dequeue` | `main.cpp` |
| WHERE evaluation (`Parser::shuntingYard`, `Executor::evalWhere`) | operator and value stacks of one call | conversion, evaluation | DML, `benchmarkIndex` |
| AVL index (`common/AVLTree.h`, `index/`, `getOrBuildIndex`, `indexScan`) | trees, the cache of built indexes | `build`, `search` | `benchmarkIndex` |
| Start (`main.cpp`, `test_runner.cpp`, `tpch/DataGenerator.cpp`) | the table files across processes | `needGen`, the three generators, the run, the final flush | – |
| Parser (`parser/Parser.cpp`) | none between calls | `parse`: a token sequence to a `ParsedQuery` | `main.cpp`, `test_runner.cpp` |
| Rows in pages (`storage/Page.h`, `Row.h`, `Field.h`, `catalog/Schema.h`) | the bytes of a page | `serialize`, `deserialize`, offsets, record counts | executor, generators |
| Catalog, lexer, logger, console | constant data, or no state between calls | – | all |

Everything runs in one thread and statements run one after the other. What makes the
system hard is elsewhere: the process can be killed at any moment and a flush writes
page after page; an eviction, triggered by any fetch, decides which modified pages are
already in their files; code keeps pointers, page counts and indexes taken from the
pool or the file while later calls change what they described; the data structures are
written by hand and must survive any sequence of calls.

What each component has to get right:

- the pool: no frame leaked or shared, the map and the frames agree, the pointer
  handed out is the page asked for, least recently used pages go first, clean pages
  are in the file, nothing is lost at a regular exit;
- statements: each does to the table what it says whatever is written back meanwhile,
  leaves no hole in the file, and returns;
- the join: the rows of a nested-loop join, in its order;
- the optimizer: the forest represents the partition, the tree is a least spanning
  tree, the plan is an order of the query's tables;
- the queue: a heap; nothing lost; the most urgent statement first; it drains;
- a WHERE clause: it selects the rows it describes;
- a start: the data set is generated once and completely, and never over rows a user
  has changed; what is written as bytes is read back as it was meant;
- the index: a balanced search tree that leads to every row of the file it was built
  from, and never to a row that a scan of the same pages would not find.

## Modules

```
DiskManager        files as sequences of pages
PageStore          abstract: what the pool promises    (uses DiskManager)
BufferPool         the pool, frame by frame            implements PageStore
BufferPoolRecency  BufferPool + history of uses
HeapTable          the DML statements                  over PageStore
PoolStructures     list pointers and hash chains       beside BufferPool
JoinScan           the join                            over PoolStructures
Partition          abstract: disjoint sets
UnionFind          the forest of Graph.h               implements Partition
JoinPlan           the join optimizer                  over UnionFind
UrgencyQueue       abstract: a bag, most urgent first
QueryQueue         the heap and runQueue               implements UrgencyQueue
WhereClause        conversion and evaluation of WHERE
AVLTree            tree operations (no state)
TableIndex         the index and its benchmark         uses AVLTree
Records            rows in pages of bytes (no state)
Statements         INSERT, UPDATE, DELETE parsed (no state)
Session            the files across processes          uses Records, Statements, DiskManager
```

`MC*` modules give the constants their values for TLC, `*Proofs` modules hold the
theorems: `BufferPoolProofs` also those of `PoolStructures`, `JoinPlanProofs` also those
of `UnionFind`. `DataLemmas` has what several of them need of sums, iterations and
`FlattenSeq`. `UnionFind.cfg` needs no MC module.

**BufferPool.** `disk`, `pages`, `frameInfos`, `frameMap`, `lruList`, `freeFrames` are
the members of the class; `cursor` is the pointer and the page numbers the client holds
after its last `fetchPage`; `flush` is the position of a running flush loop.
`fetchPage` is one action with three cases (hit, free frame, eviction), because no other
code runs inside it. `markDirty(c)` is what every caller does: store through the
pointer, then `markDirty` with the page numbers. A flush is one step per frame, so that
the process can be killed inside it (`Crash`, at any moment). `Exit` is the regular end
after the last flush. The table of the page written comes from `frameInfos_`, the
position from the page itself, as in the code; that both name the same page is a
property (`MapMatchesFrames`), not an assumption. Page keys are computed modulo 2^32
(`KeyMod`). `WriteOutcomes` says what `writePage` may return: the code ignores it.

**PoolStructures.** What the pool is made of: `links` has `head_`, `tail_` and the
pointers of every list node (a node is named by its frame), `buckets` the chains of
`IntHashMap`, newest node first. `fetchNode` does to both what `fetchPage` does, taking
its victim from `links.tail` and its hit from the chain, not from the abstract list and
map; that these agree is `LinksSpellList` and `ChainsHoldMap`.

**HeapTable.** A statement reads the page count of the file once (`Begin`), handles one
page per step and returns (`End`). Rows are opaque, a WHERE clause is the set of rows it
accepts. Two things of the code are kept although they look odd: a DELETE without a
WHERE deletes nothing, and after its first deletion a DELETE rewrites every later page.
A DELETE moves each row it keeps to the place the counter `kept` gives it (`Compacted`);
that nothing but the others is gone and their order is kept is the property.
Write-backs and restarts happen between any two steps.

**JoinScan.** The real frames and pointers, because the property is about a pointer:
`pg0` is a frame number, and the record count and the rows of the outer loop are read
through it. Before the join, statements fetch and change pages (`EarlierFetch`,
`EarlierStore`) and INSERTs allocate pages behind the end of a file (`EarlierAllocate`,
`EarlierAppend`), so the pool a join starts with may hold any pages, clean, dirty, or not
yet in their file; an eviction in the middle of the join writes a dirty page and may
lengthen a file whose pages the join counts anew for every outer row. A plan has up to
three tables, and the code reads two.

**UnionFind, JoinPlan.** One iteration of `find` per step; `JoinPlan` drives it over the
sorted edges. Only `optimize` uses the graph, and its graphs are complete with the
smaller row count as weight, so every least spanning tree it meets is a star and paths
stay short; this is why `UnionFind` is also checked alone, under arbitrary unites.

**QueryQueue.** `siftUp` and `siftDown` are one step per iteration; array positions are
shifted by one, so a parent is `i \div 2`. `Copied` is what `resize` puts into the longer
array.

**WhereClause.** `parseWhere`, `shuntingYard` and `evalWhere`, one step per token. The
text is any well-formed clause, chosen token by token; `Meaning` defines what it says by
splitting it at its weakest operator, without a stack and with a table of operators of
its own; a number counts as true if it is not 0, as in the code. An int and a double are one
integer, a text is its rank in the order of texts. Division is left out (fractions), as
is `NOT`, which the conversion drops.

**AVLTree, TableIndex.** A tree is its root node with the subtrees in place of the
pointers; `insert` is the recursion of the code. `TableIndex` builds an index row by row
from the file, caches it, and compares it with a scan as `benchmarkIndex` does, while
single-row changes, INSERTs into new pages and write-backs happen between two calls. The
sequential scan is one step per page of the file as it was counted at its start
(`SeqPage`), and each fetch may evict a modified page (`AfterFetch`), which may be one the
file did not have. Nothing in the code tells the index of a change; `indexScan` evaluates
the WHERE clause again, so an old index can miss rows but not invent any. It can find a
row that the scan missed, if an eviction during that scan made the file longer before the
index was built from it. `BenchmarkCounts` says that this is the only way.

**Records, Statements, Session.** `Session` follows the three table files through any
number of processes: either program starts (`Start`), decides whether to generate,
generates table after table (`Truncate`, one `GenerateRow` per round of the loop,
`GenerateEnd`), runs statements, writes pages back, leaves (`Exit`) or is killed at any
moment (`Kill`). Here pages are bytes: `Records` has the header, the little-endian
numbers, the texts cut to their column less one, and rewriting in place by offset. A
statement is a token sequence that `Statements` parses as `Parser::parse` does; the
requests users give are structured (`TextOf` writes them down as tokens), so that a
property can compare what was meant with what the bytes hold. The steps inside a
statement are `HeapTable`'s, the frames of the pool `BufferPool`'s: here a statement is
one step, and the pool is what it shows (`view`). `ran`, `complete` and `used` are
history.

## Runs

| Run | Shows | Bounds |
|---|---|---|
| `buffer_pool` | structures consistent, LRU order, clean pages on disk, nothing lost at exit, pool implements `PageStore` | 2 tables × 2 pages, 2 frames, 2 contents: every fetch pattern with hits, free frames, evictions of clean and dirty pages; keys scaled so that one table's keys wrap around as those of `orders` and `lineitem` do; for each page the pages fetched since, instead of a full history (381122 states) |
| `heap_table` | each statement's effect when it returns, no holes, termination | 1 table × 2 pages × 2 rows, 2 rows, 2 WHERE sets, 1 assignment: full and half-full pages, page allocation, duplicates; a file of two pages takes no INSERT (bound) |
| `join_scan` | the outer pointer is valid if the inner table leaves a frame to spare; the join then is exact if no page of its tables was missing in its file, and otherwise loses no other row and repeats none; it ends in any case; the list pointers spell the recency list and the hash chains hold the key map | 2 tables of up to 3 pages, an empty page or one row, and a plan with a third table or without a second one; 3 frames (an inner table fits with 2 pages, not with 3), of which earlier statements fill up to 2 (so fetches of the join evict dirty pages and pages behind the end of a file); print limit 7; a hash factor that puts several keys in a bucket (465893 states) |
| `union_find` | acyclic, shallow, represents the partition | 5 nodes: the smallest number at which a path is halved and a tree of rank 2 grows |
| `join_plan` | least spanning tree; plan complete if the first table is smallest; a plan is made in any case | 2–4 tables, row counts 0–2 (all orders and ties), lists with repeated tables |
| `query_queue` | heap order, entries within the array, no entry lost or duplicated by sifting or copying, most urgent first, drains | 5 waiting entries (3 levels), 3 priorities, 2 queries, array growing from 1 to 8 |
| `where_clause` | a clause that fits selects by its meaning; one that does not fit, without parentheses, selects nothing, nor does one with a negative number | `MAX_POSTFIX` 8 (even, as 256 is): the clauses that fit have up to 7 tokens (4 operands, or 3 and parentheses, or 2 and nested ones), those of 9 are cut; 5 operators of all levels, a row of numbers and a row of texts |
| `table_index` | balanced search tree, all rows found, index against scan | every order of 6 keys (all four rotations, also below the root); tables of 4 rows and 2 keys with 2 changed rows, and full tables of one page to which INSERT adds the next; entries of 2 places, so that some overflow |
| `session` | generated rows complete and in order; under nanodb no run without a table and no generation over user rows; UPDATE and DELETE confined to the rows they describe, byte for byte, and what a signed UPDATE changes; INSERT reads back | 3 tables of 1–2 columns, 31-byte pages (2–3 rows), a table that ends inside a page and one that ends with a full page; 13 requests, 2 statements in a history (so one can meet what another left), both programs in any order |
| `insert_loses_rows` | **violation** of `InsertKeepsRows` | as `heap_table` |
| `join_stale_pointer` | **violation** of `JoinExact` | files of up to 3 pages of two rows, 3 frames, nothing fetched earlier |
| `join_plan_order` | **violation** of `PlanHasAllTables` | as `join_plan` |

Deadlock is checked in every run. The pool, the queue, the forest and the statements
can always go on, the next clause or benchmark follows the last; `JoinScan` and
`JoinPlan` end in a `Done` step.

**Fairness.** Only the loops of a call that is running are fair (`WF` on `Step`, `Loop`
or `Find`): they are straight-line code in the one thread, and nothing in it
blocks. No fairness is put on clients, write-backs, crashes or restarts.
`StatementEnds` allows that the process dies instead.

### Disagreements found

Items 1, 2 and 5 have runs of their own, which violate what the code or its documents say.
The others are what a property of a passing run had to exclude, or says in place of what
one would expect.

1. *Rows lost by INSERT* (`Executor.cpp:101`, `119`). The page count comes from the
   file. A page an earlier INSERT allocated, still dirty in the pool, is not counted;
   the next INSERT allocates it again and `init` erases its rows. `README.md:94`
   (test G) promises that five inserted rows are found again.
2. *Stale outer page in the join* (`Executor.cpp:465`). After an inner table as large as
   the pool was scanned, `pg0` points to an inner page. `BufferPool.h:50` says a pointer
   is valid until the next fetch, `Executor.cpp:450` calls the join correct.
3. *An inner table that grows during the join* (`Executor.cpp:471`). A page an INSERT
   allocated is not in its file before it is evicted, which a fetch of the join may do:
   the outer rows before that miss its rows, those after it meet them.
   `JoinExactIfStoredAndFits` excludes this (`StoredAtStart`); `JoinMissesOnlyNewRows`
   says that nothing else goes wrong.
4. *The third table of a join* (`Executor.cpp:455`). `README.md:90` and `Executor.h:51`
   call it a join of three tables; the third one is never read, and the properties of
   `join_scan` are about the first two.
5. *Plans that lose a table* (`JoinOptimizer.cpp:40`). The order is read off `tableU` of
   the first edge and `tableV` of all edges; if a table other than the first is the
   centre of the tree, it appears twice and another table not at all.
6. *UPDATE to a negative number* (`Parser.cpp:122`). The sign is taken for the value and
   the WHERE behind the number is not seen: the column becomes 0 in every row on
   the pages of the file. `Taken` has this in `ClauseConfinesChanges`.
7. *The column list of INSERT* (`Executor.cpp:87-93`). The comment says that columns are
   matched by name; the result is not used, and a column without a value stores what
   the uninitialised `ParsedQuery` held. `InsertReadsBack` is about full lists in order.
8. *Interrupted generation* (`test_runner.cpp:41`). `README.md:100` says the data set is
   generated if it is not present; `test_runner` looks at the customers only. nanodb
   (`main.cpp:42`) accepts a last table cut short by a kill for good, hence the condition
   in `NanodbStartsComplete`; `StartKeepsUserRows` also speaks of nanodb alone.
9. *Clauses cut inside parentheses* (`Parser.cpp:157`).
   `Parser.cpp:146` says "Collect WHERE tokens until end"; beyond `MAX_POSTFIX` they are
   dropped, and what is left can select rows that the whole clause excludes. A clause
   without parentheses selects nothing when it is cut (`OverlongSelectsNothing`).
10. *Negative numbers in a WHERE clause* (`Parser.cpp:221`). The sign is converted as a
   binary operator; `evalWhere` then misses a value and returns false. The test queries
   `queries.txt:38` and `48` (`c_acctbal < -500`) select nothing at all. What the code
   does is `SignedSelectsNothing`.
11. *Columns of one character* (`Row.h:47`). One byte is kept for the NUL, so a column of
   width 1 is always empty: every `o_orderstatus` and both flags of a lineitem.
   `queries.txt:23` asks for orders with status `"O"` and gets none. What is kept is
   `ReadBack` in `InsertReadsBack`.

`main.cpp:49` passes `ORDER_COUNT` for the parameter that `DataGenerator.h` calls
`maxCustKey`: orders name customers that do not exist. No statement joins on values the
program could miss, so it is not a property.

## Proofs

| Theorem | Statement |
|---|---|
| `BufferPoolProofs!PoolInvariant` | `Spec => []PoolInv` |
| `TypeCorrect`, `FramesAccountedFor`, `MapAndFramesAgree`, `CursorStaysValid` | its four parts, each a property of run `buffer_pool` |
| `BufferPoolProofs!CleanPagesAreOnDisk` | `Spec => []CleanPagesMatchDisk` if writes succeed |
| `BufferPoolProofs!PoolImplementsStore` | `Spec => Store!Spec` if writes succeed |
| `BufferPoolProofs!RegularExitKeepsAll` | `Spec => ExitLosesNothing` if writes succeed |
| `BufferPoolProofs!PoolHoldsMostRecentPages` | `RSpec => []HoldsMostRecentPages` |
| `BufferPoolProofs!StructuresInvariant`, `FindsSameFrame` | `PSpec => []StructuresInv`, `[]StructuresAnswer` |
| `BufferPoolProofs!PointersSpellList`, `ChainsAreMap` | `PSpec => []LinksSpellList`, `[]ChainsHoldMap` |
| `JoinScanProofs!JoinInvariant`, `OuterPointerSurvives` | `JSpec => []JoinInv`, `[]PointerSurvivesIfInnerFits` |
| `JoinScanProofs!JoinPrintsExactly` | `JSpec => []JoinExactIfStoredAndFits` if writes succeed |
| `JoinPlanProofs!ForestInvariant`, `RanksAlwaysGrow`, `ForestTypeCorrect` | `UFSpec => []UFInv`, `[]RanksGrow`, `[]UFTypeOK` |
| `JoinPlanProofs!ForestOfTrees`, `RanksAreLogarithmic` | `UFSpec => [](UFInv /\ TreesInv)`, `[]RankNeedsNodes` |
| `JoinPlanProofs!ForestImplementsPartition` | `UFSpec => ForestIsPartition` |
| `JoinPlanProofs!PlanInvariant`, `PlanKeepsOrder` | `Spec => []PlanInv`, `[]PlanKeepsOrderIfFirstIsSmallest` |
| `JoinPlanProofs!SpanningTree` | `Spec => []SpanningTreeIsMinimal` |
| `QueryQueueProofs!QueueInvariant`, `AlwaysAHeap`, `QueueTypeCorrect` | `Spec => []QueueInv`, `[]HeapOrder`, `[]TypeOK` |
| `QueryQueueProofs!NeverOutgrown` | `Spec => []HeapFitsArray` |
| `QueryQueueProofs!HeapImplementsUrgencyQueue` | `Spec => QueueIsUrgencyQueue` |
| `HeapTableProofs!TypedInvariant`, `NoHoles` | `Spec => []TypedInv`, `[]NoGaps` |
| `HeapTableProofs!UpdateExact`, `DeleteExact`, `InsertExact`, `SelectExact` | `Spec => UpdateRewritesMatches`, `DeleteKeepsTheOthers`, `InsertAddsItsRow`, `SelectCountsMatches` |
| `WhereClauseProofs!ClauseCounts` | `Spec => []CountInv` |
| `WhereClauseProofs!SignedClausesSelectNothing`, `OverlongClausesSelectNothing` | `Spec => []SignedSelectsNothing`, `[]OverlongSelectsNothing` |
| `WhereClauseProofs!ClausesSelectByMeaning` | `Spec => []SelectsByMeaning` |
| `SessionProofs!SessionInvariant` | `Spec => []SessionInv` |
| `SessionProofs!NanodbAlwaysStartsComplete`, `UserRowsKept` | `Spec => []NanodbStartsComplete`, `[]StartKeepsUserRows` |
| `SessionProofs!GeneratorInvariant`, `GeneratedRowsInOrder` | `Spec => []GenInv`, `[]GeneratedInOrder` |
| `SessionProofs!PagesInvariant` | `Spec => []PagesInv` |
| `SessionProofs!StatementsConfined`, `InsertsReadBack` | `Spec => ClauseConfinesChanges`, `InsertReadsBack` |

They hold for any number of tables, pages, frames, rows, nodes and entries, and for any
schema, data set, set of requests and history of statements.

*Assumptions.* `BufferPoolAssumption` gives the constants their types and at least one
frame. `PageKeysDistinct` says that `makePageKey` separates the pages in use; the hash
does not guarantee it in general, but for `customer`, `orders` and `lineitem` the keys
modulo 2^32 are more than 98 million apart, and no table has that many pages. The three
theorems about the disk in `BufferPoolProofs`, and `JoinPrintsExactly`, assume `WriteOutcomes = {TRUE}`: with
failing writes they are false, because `flushAll` and `evictLRU` ignore the result of `writePage`
(lines 101, 132) and drop or clean the page all the same. `PoolInv` and
the recency order hold without it, and so does `JoinInvariant`.
`WhereAssumption` says that columns and literals are numbers or texts and no operators or
parentheses, and that `MAX_POSTFIX` is positive and even, as 256 is (`Parser.h:24`).
`JoinPlanAssumption` says that a query has at least one table and at most as many as the
graph has nodes, and that row counts are natural numbers. `UnionFindAssumption`,
`QueryQueueAssumption` and `HeapTableAssumption` only type the constants, and so do `HashFactorAssumption` and `JoinScanAssumption` (the print limit is a
number, the contents of a page are a sequence of rows). `RecordsAssumption` bounds a page
by the largest 32-bit number and gives it room for its header; `SessionAssumption` says that there is a table, that every table has
rows to generate and that a row fits in a page. `RowsAssumption` says that its columns
are `INT`s of four bytes or texts, and that a row of the data set has a number that an
`int` can hold or a text without a 0 for every column, as the rows that
`tpch/DataGenerator.cpp` makes do (their FLOAT columns are not modelled).
`RequestsAssumption` describes the statements: they are about existing tables and
columns, whose names are distinct (`Schema::columnIndex` finds the first of a name) and at
most `MAX_COLUMNS` in a table; a value is a text or a number that fits in an `int` with
either sign, because the lexer makes a sign a token of its own, and is of the type of its
column. What an uninitialised value holds converts to some `int` and some text.

*Arguments.* No part of `PoolInv` is inductive alone. That an eviction takes the right
key out of the map needs `MapMatchesFrames` for the victim; that the victim is in the
map needs `FrameAccounting` (a frame in the list is used once); that `markDirty` marks
the frame the client wrote to needs `CursorValid`. For the refinement the proof adds
`CleanFrames` (a clean frame holds what its file holds) and shows page by page what a
step makes visible. That a regular end loses nothing needs one more fact
(`LastFlush`): beside the last flush nothing else runs, and it leaves no dirty frame
behind it.

The recency order rests on `RecencyInv`: for the page at place i of the list, the pages
fetched since its last fetch are the i - 1 before it; for a page that was fetched once
and is not in the pool, they include all pages that are. A hit removes its page from the
list and puts it in front (`Without`, `FrontIsWithout`), so those that stood before it
move up by one and gain one page; an eviction takes the only page with Capacity - 1
successors, which then has Capacity.

The pointers are proved operation by operation: `pushFront` of links that spell a list
spells the list with a new front (`PushFrontSpells`), `unlink` the list without one
element (`UnlinkSpells`), and `moveToFront` and `popTail` are compositions of the two
(`MoveToFrontIsWithout`, `FrontIsWithout`). The same is done for a chain under `put` and
`remove`, for any key and bucket. `StructuresInv` needs `PoolInv`: a new node is not in
the list yet because its frame is free, and the key of a victim is in the map.

The outer pointer of the join survives because nothing but inner pages is used more
recently than its page (`OuterKept`): an eviction that reached it would find a pool whose
other frames hold different inner pages, and fetch one more, so the inner table would
have as many pages as the pool has frames (`OuterIsNotLast`, by the pigeonhole
principle). A dirty page evicted by the join can lengthen a file, the inner one too;
`JoinInvariant` therefore says that the files have at least the pages the loops counted
(`LoopTypes`), and the frame to spare is asked for at the length the inner file has by
then.

What the join prints follows from `ScanInv`: at the head of each of its three loops, the
rows printed are those of the nested-loop join of what the loops have passed, cut at the
print limit (`AtOuter`, `AtRow`, `AtInner`). The rows are those the pool shows (`visible`),
modified or not, and a fetch keeps them whatever it evicts, if writes succeed
(`StoreInv`). If no page of the two tables was behind its file at the start, none can
lengthen it (`StoredIsSameLength`), so the counts the loops took are those of all rows. A cut never hides a row that
belongs before the limit because cutting commutes with putting pieces together
(`LimitConcat`). The output is a concatenation over pages and
rows (`FlattenSeq`); its laws are proved from the recursive definition by the least
length at which they would fail, since induction is not available as a theorem.

That the trees are the classes of `Partition` needs `TreesInv`: `Root`, a recursive
function, really leads every node to a root. Because ranks grow there is only one such
function (`OneRootMap`), so a step is followed by naming the new one: halving a path
changes parents but not `Root`. A unite of two roots joins their two trees; if the ranks are equal the new rank
r + 1 has the 2^r nodes of either side, hence `RankNeedsNodes`.

`KruskalInv` connects the planner with its forest. An edge that was passed lies inside a
tree; a set of nodes that no taken edge leads out of is a union of trees, so the taken
edges connect what the trees do; every taken edge removed one root, so roots and edges
taken add up to `MaxNodes`. That the tree is least needs no exchange argument here: the
lightest table has an edge of its own weight to every other, so as long as an edge joins
two trees it is one of that weight (`TakenIsLight`), and no edge of the graph is lighter.
Any other set of edges that connects as much has as many edges, because a node is
reached first by an edge of its own (`ReachedBound`). That the loop may stop after
n - 1 edges is counted: there is one root left among the nodes of the query, or a node
that is mentioned twice is its own (`TreeOfTables`). The order of the plan follows from
what the selection sort does: it leaves a prefix of lightest edges where it is
(`SortProgress`), and those of a smallest first table stand in front.

The forest invariant adds that the first root stays a root while the
second find rewires other nodes; the ranks grow towards every root, so a halved path
only jumps to still higher ranks. The queue invariant (`SiftOrder`) says where the heap
order may be broken while an entry is sifted, and that what is below that entry is never
before what is above it; the root of a heap is then minimal by a least-element argument
(`LeastNumber`). For the refinement the array is read as a bag: an entry counts as often
as it has places (`Places`); a swap is a bijection of the places of every entry
(`ExchangeKeepsEntries`), and a dequeue removes one place of the entry at the root, also when
equal entries wait or the last one is moved there (`DequeueRemovesRoot`).

Each statement of `HeapTable` has an invariant of its loop: the pages before the one it
handles next are as they should become, the others as it found them (`UpdateInv`,
`DeleteInv`, `SelectInv`), or all pages behind it are full (`InsertInv`). That a DELETE
skips the write of a page from which nothing is deleted is right because the numbering
of the rows that stay is a bijection (`Numbered`, from the pigeonhole principle), so a
page of unchanged length is unchanged. All of them need `LoopInv`: the page count a
statement took at its start stays within the file while it runs.

For `Session` the property says nothing of the moments between two runs. What nanodb
relies on is the order of its generators: the last file gets its first page when all
other tables are complete and is empty whenever a generation begins (`OrderInv`), so a
set of files without an empty one has at most its last table cut short. That a generator
leaves a file with pages at all depends on `getRecordCount(page) > 0` at its end, which
is read from bytes: the lemmas `CountSet` and `AppendedRow` follow the count through
little-endian encoding and through rows written behind it.

That the generated rows are in the files is proved down to the bytes. A number and a text
are read back from their bytes as they were written, the text cut to its column
(`SignedRoundTrip`, `TextRoundTrip`); the columns of a row have disjoint places because a
record's size is the sum of their sizes (`RecordSizeIs`), so a row reads back
(`RowRoundTrip`); the records of a page have disjoint places in it (`OffsetsFit`), so
`appendRow` adds its row and keeps the others (`PutIs`, `AppendedRow`); and a page written
behind the others adds its rows to those of the file (`PageAdded`). `GeneratorInv` then
says that file and page together hold the rows made so far, and that a table is not
complete while it is filled; `CompleteInv`, that before the first statement the pages a
process sees, and so writes back at its end, are those of the files.

Statements are followed from their tokens to the bytes of the pages. The parser is a
function of tokens put together from literals, commas and clauses: where each of its
loops stops (`Until`) and what it collects (`Chosen`, a fold) is shown for any number of
values, so an UPDATE, DELETE or INSERT is parsed into what was asked (`UpdateParsed`,
`DeleteParsed`, `InsertParsed`), and one with a sign before its value into what the parser
takes it for (`SignedUpdateParsed`). A page is then rewritten row by
row: an UPDATE puts each row back in its place and its places are disjoint
(`UpdatedPage`); a DELETE writes the rows that stay one behind the other and sets the
count (`DeletedPage`); an INSERT appends (`AppendedRow`) to the first page with room or
to a new one. What is read from such a page are the new rows, *read back*: cut to their
columns. That this leaves the rows which were not meant as they are needs `PagesInv`: on
every page, of every file and in the pool, the count is in bounds and each row reads back
as it is, whoever wrote it (the generator, a statement, or nobody: a hole is a page
without rows); and the pool sees at least the pages of the file, whose number is what
UPDATE and DELETE go by.

For `WHERE` clauses two invariants are kept apart. `CountInv` counts: the conversion
loses no operand and no operator and cuts nothing off, because each token of the array is
pushed out once at most; and the stack of `evalWhere` has as many values as operands less
operators were read, and is empty only before the first. A row is therefore accepted only
if the array has more operands than operators (or neither). A sign makes an operator
without a left operand, so a clause with one never has; nor has the even number of tokens
that is left of an overlong clause without parentheses.

That a clause selects by its meaning needs `MeaningInv`. The tokens read so far are cut at
the places `q[j]` of the elements of the operator stack (`Pending`): between an operator
and the element below it lies its left operand, a closed part of the text in which nothing
binds weaker, and its meaning is in the stack that the postfix so far computes
(`Computes`). Popping an operator joins two adjacent parts (`PopOne`), and what they mean
together is what the operator computes from them, because no operator of the left part
binds weaker and all of the right part bind stronger, so the splitting operator of the
whole is this one (`JoinedPartsMean`). The meanings are a recursive function on parts of
the text; it exists because a part depends on smaller ones only (`SmallerPartsSuffice`,
`MeaningIs`). `evalWhere` then computes values that are these meanings wherever there is
one (`ApplyIsCombine`): texts compared with numbers have none.

*Only model-checked:* the liveness properties, `JoinMissesOnlyNewRows` and `TableIndex` (a
tree built by recursion over data). Liveness under fairness is outside what the prover does, and so is
in general what a recursively defined function (`FoldLeft`) computes for every input;
where it was proved (`Root`, `FlattenSeq`, `Meanings`, `sortEdges`, `Reached`, the sums of
weights and of column sizes, `Chosen`) it took a least-counterexample argument of its own
(`LeastNumber`).

## Not modelled, and why

- The lexer (characters to tokens), the parsing of SELECT and JOIN, FLOAT columns (eight
  bytes copied as they are; comparison with a tolerance), the logger, the console and
  the interactive loop: no state between calls.
- Division and `NOT` in a WHERE clause: fractions, and an operator the conversion drops.
- `AVLTree::remove`, `rangeQuery`, `AVLIndex::insert`: nothing calls them. Indexes on
  several tables or columns, and a full cache of indexes, which the program never has.
- The second pool of the memory stress test (`main.cpp:117`): it only reads. Test G
  (`main.cpp:168`) flushes that pool and not the one with its rows; `InsertKeepsRows` and
  `ExitLosesNothing` state what it was meant to show.
- Failing writes, beyond `WriteOutcomes` in `BufferPool`: no document promises anything.
- `fsync`: a written page is taken to be in the file.

## Plan

Done: the pool with its pointers and buckets and its abstract store, the statements, the
join, the optimizer, the queue, WHERE clauses, the index, the life of the files, and
proofs about the pool, its structures, its recency order and its store, the statements,
what the join prints, the forest and its partition, the plan, the queue and its bag, WHERE clauses,
the start, the generated rows byte for byte, and what statements do to the pages of all tables.

Left, in this order:

1. a statement with a clause of `WhereClause` in place of one comparison in `Session`;
2. SELECT and JOIN parsed from tokens.
