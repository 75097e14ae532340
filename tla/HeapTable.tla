----------------------------- MODULE HeapTable ------------------------------
(***************************************************************************)
(* The statements of executor/Executor.cpp that read and change tables:    *)
(* executeInsert, executeUpdate, executeDelete and the sequential scan of  *)
(* executeSelect, running one at a time over a PageStore (the promise of   *)
(* the buffer pool).  A statement takes the page count of the table file   *)
(* once, when it starts, and then handles one page per step: between two   *)
(* steps the pool may write any modified page back, and the process may    *)
(* die.                                                                    *)
(*                                                                         *)
(* A row is opaque, a page is the sequence of its rows; a WHERE clause is  *)
(* the set of rows it accepts, the SET of an UPDATE a function on rows.    *)
(* Parsing, logging and the printing of rows are left out.                 *)
(***************************************************************************)
EXTENDS Integers, SequencesExt

CONSTANTS
  Tables,
  Rows,
  RowsPerPage,   \* TableSchema::recordsPerPage
  MaxPages,      \* bound: no table grows beyond MaxPages pages
  Wheres,        \* the WHERE clauses a query may have, as sets of rows
  Assignments    \* the SET clauses an UPDATE may have, as functions on rows

ASSUME HeapTableAssumption ==
  /\ RowsPerPage \in Nat \ {0}
  /\ MaxPages \in Nat
  /\ Wheres \subseteq SUBSET Rows
  /\ Assignments \subseteq [Rows -> Rows]

PageIds == 0 .. MaxPages - 1

PageContents == BoundedSeq(Rows, RowsPerPage)

\* A query as the parser hands it over: a WHERE may be absent.
Clauses == {[hasWhere |-> FALSE, rows |-> {}]} \union
           [hasWhere : {TRUE}, rows : Wheres]

Queries == [op : {"SELECT", "DELETE"}, table : Tables, clause : Clauses]
           \union [op : {"INSERT"}, table : Tables, row : Rows]
           \union [op : {"UPDATE"}, table : Tables, clause : Clauses, set : Assignments]

NoQuery == [op |-> "NONE"]

VARIABLES
  durable, view, dirty,   \* the page store
  query,                  \* the statement being executed, or NoQuery
  pgCount,                \* its page count, read from the file at its start
  pid,                    \* the page it handles next
  count,                  \* inserted, updated, deleted or matched rows so far
  before                  \* history: the table as the statement found it

store == <<durable, view, dirty>>
locals == <<query, pgCount, pid, count, before>>
vars == <<durable, view, dirty, query, pgCount, pid, count, before>>

Store == INSTANCE PageStore WITH Contents <- PageContents, Blank <- << >>

EmptyTable == [p \in PageIds |-> << >>]

TypeOK ==
  /\ Store!TypeOK
  /\ query \in Queries \union {NoQuery}
  /\ pgCount \in 0 .. MaxPages
  /\ pid \in -1 .. MaxPages
  /\ count \in Nat
  /\ before \in [PageIds -> PageContents]

-----------------------------------------------------------------------------
(* Beginning and ending a statement *)

Running(op) == query.op = op

Idle == Running("NONE")

NoLocals ==
  query = NoQuery /\ pgCount = 0 /\ pid = 0 /\ count = 0 /\ before = EmptyTable

Init ==
  /\ durable \in [Tables -> BoundedSeq(PageContents, MaxPages)]
  /\ view = Store!FreshView(durable)
  /\ dirty = {}
  /\ NoLocals

\* Mutant of Begin: the loops over the pages start at page 1.
BeginAtPage1(q) ==
  LET n == Store!pageCount(durable[q.table])
  IN  /\ Idle
      /\ q.op = "INSERT" => n < MaxPages
      /\ query' = q
      /\ pgCount' = n
      /\ pid' = IF q.op = "INSERT" THEN n - 1 ELSE IF n = 0 THEN 0 ELSE 1
      /\ count' = 0
      /\ before' = view[q.table]
      /\ UNCHANGED store

\* executeSQL dispatches; the statement asks DiskManager for the page count.
\* Bound: a table whose file has MaxPages pages takes no INSERT.
Begin(q) ==
  LET n == Store!pageCount(durable[q.table])
  IN  /\ Idle
      /\ q.op = "INSERT" => n < MaxPages
      /\ query' = q
      /\ pgCount' = n
      /\ pid' = IF q.op = "INSERT" THEN n - 1 ELSE 0
      /\ count' = 0
      /\ before' = view[q.table]
      /\ UNCHANGED store

\* The loop is over, or the row is in: the statement returns.
End ==
  /\ ~Idle
  /\ IF Running("INSERT") THEN count = 1 ELSE pid = pgCount
  /\ query' = NoQuery /\ pgCount' = 0 /\ pid' = 0 /\ count' = 0 /\ before' = EmptyTable
  /\ UNCHANGED store

\* The page the statement fetches next, and storing its new content.
Fetched == view[query.table][pid]

Put(p, content) == Store!Modify(query.table, p, content)

Advance(n) == count' = count + n /\ UNCHANGED <<query, pgCount, before>>

-----------------------------------------------------------------------------
(* executeInsert *)

isFull(content) == Len(content) >= RowsPerPage

\* Mutants of InsertProbe: the loop goes on after the row is stored; the loop
\* does not move to the next page.
InsertProbeNoStop ==
  /\ Running("INSERT") /\ count = 0 /\ pid >= 0
  /\ pid' = pid - 1 /\ Advance(0)
  /\ IF isFull(Fetched) THEN UNCHANGED store
     ELSE Put(pid, Append(Fetched, query.row))

InsertProbeNoMove ==
  /\ Running("INSERT") /\ count = 0 /\ pid >= 0 /\ pid' = pid
  /\ IF isFull(Fetched) THEN Advance(0) /\ UNCHANGED store
     ELSE Put(pid, Append(Fetched, query.row)) /\ Advance(1)

\* Probe the pages of the file, last one first, for room.
InsertProbe ==
  /\ Running("INSERT") /\ count = 0 /\ pid >= 0
  /\ IF isFull(Fetched)
     THEN pid' = pid - 1 /\ Advance(0) /\ UNCHANGED store
     ELSE Put(pid, Append(Fetched, query.row)) /\ pid' = pid /\ Advance(1)

\* Mutant of InsertNewPage: the page after the next one is allocated.
InsertNewPageSkipsOne ==
  /\ Running("INSERT") /\ count = 0 /\ pid = -1
  /\ Put(pgCount + 1, <<query.row>>)
  /\ pid' = pid
  /\ Advance(1)

\* No room: page pgCount is fetched, initialised, and takes the row.
InsertNewPage ==
  /\ Running("INSERT") /\ count = 0 /\ pid = -1
  /\ Put(pgCount, <<query.row>>)
  /\ pid' = pid
  /\ Advance(1)

-----------------------------------------------------------------------------
(* executeUpdate, executeDelete, seqScan *)

\* evalWhere, or no WHERE at all.
Matches(row) == ~query.clause.hasWhere \/ row \in query.clause.rows

\* executeDelete wants a WHERE: without one it deletes nothing.
Deletes(row) == query.clause.hasWhere /\ row \in query.clause.rows

Matching(content) == Cardinality({i \in DOMAIN content : Matches(content[i])})

\* The matching rows are serialized back in place, each with a markDirty.
UpdatePage ==
  LET n == Matching(Fetched)
      new == [i \in DOMAIN Fetched |->
                IF Matches(Fetched[i]) THEN query.set[Fetched[i]] ELSE Fetched[i]]
  IN  /\ Running("UPDATE") /\ pid < pgCount
      /\ IF n > 0 THEN Put(pid, new) ELSE UNCHANGED store
      /\ pid' = pid + 1
      /\ Advance(n)

\* The positions of the rows that stay, and the number of them up to position i.
Staying(content) == {i \in DOMAIN content : ~Deletes(content[i])}

CountTo(stay, i) == Cardinality({j \in stay : j <= i})

\* A row that stays goes behind those that stayed before it (src: kept counts).
Compacted(content) ==
  LET stay == Staying(content)
  IN  [k \in 1 .. Cardinality(stay) |-> content[CHOOSE i \in stay : CountTo(stay, i) = k]]

\* Mutant of DeletePage: the page's own deletions are counted too late.
DeletePageCountsLate ==
  LET kept == Compacted(Fetched)
      n == Len(Fetched) - Len(kept)
  IN  /\ Running("DELETE") /\ pid < pgCount
      /\ IF count > 0 THEN Put(pid, kept) ELSE UNCHANGED store
      /\ pid' = pid + 1
      /\ Advance(n)

\* The rows that stay move to the front.  deleted counts from the first page on, so
\* every page after the first deletion is rewritten, changed or not.
DeletePage ==
  LET kept == Compacted(Fetched)
      n == Len(Fetched) - Len(kept)
  IN  /\ Running("DELETE") /\ pid < pgCount
      /\ IF count + n > 0 THEN Put(pid, kept) ELSE UNCHANGED store
      /\ pid' = pid + 1
      /\ Advance(n)

\* Mutant of ScanPage: matched starts from zero on every page.
ScanPageRecounts ==
  /\ Running("SELECT") /\ pid < pgCount
  /\ pid' = pid + 1
  /\ count' = Matching(Fetched)
  /\ UNCHANGED <<store, query, pgCount, before>>

ScanPage ==
  /\ Running("SELECT") /\ pid < pgCount
  /\ pid' = pid + 1
  /\ Advance(Matching(Fetched))
  /\ UNCHANGED store

-----------------------------------------------------------------------------
(* The pool, and the process *)

WriteBack ==
  /\ \E t \in Tables, p \in PageIds : Store!WriteBack(t, p)
  /\ UNCHANGED locals

\* The process stops, in the middle of a statement or not, and restarts.
Restart ==
  /\ Store!Restart
  /\ query' = NoQuery /\ pgCount' = 0 /\ pid' = 0 /\ count' = 0 /\ before' = EmptyTable

Step == InsertProbe \/ InsertNewPage \/ UpdatePage \/ DeletePage \/ ScanPage \/ End

Next ==
  \/ \E q \in Queries : Begin(q)
  \/ Step
  \/ WriteBack
  \/ Restart

(***************************************************************************)
(* The loops of Executor.cpp run to their end: a statement that can take   *)
(* its next step takes it, unless the process dies.                        *)
(***************************************************************************)
Spec == Init /\ [][Next]_vars /\ WF_vars(Step)

-----------------------------------------------------------------------------
(* Properties *)

(***************************************************************************)
(* An UPDATE that returns has assigned to exactly the rows that matched    *)
(* when it began, in place, on all pages of the file, whatever was written *)
(* back in the meantime.                                                   *)
(***************************************************************************)
UpdateRewritesMatches ==
  [][End /\ Running("UPDATE") =>
       view[query.table] =
         [p \in PageIds |-> [i \in DOMAIN before[p] |->
            IF p < pgCount /\ Matches(before[p][i])
            THEN query.set[before[p][i]] ELSE before[p][i]]]]_vars

(***************************************************************************)
(* A DELETE that returns has removed exactly the rows its WHERE accepted   *)
(* when it began; the others are still there, each once and in order,      *)
(* although pages after the first deletion are rewritten wholesale.        *)
(***************************************************************************)
DeleteKeepsTheOthers ==
  [][End /\ Running("DELETE") =>
       \A p \in PageIds :
         LET old == before[p]
             new == view[query.table][p]
         IN  IF p >= pgCount THEN new = old
             ELSE \E place \in Bijection(Staying(old), DOMAIN new) :
                    /\ \A i \in Staying(old) : new[place[i]] = old[i]
                    /\ \A i, j \in Staying(old) : i < j => place[i] < place[j]]_vars

(***************************************************************************)
(* The count a SELECT returns is the number of matching rows on all pages  *)
(* the file had when it began, and it leaves the table alone.              *)
(***************************************************************************)
SelectCountsMatches ==
  [][End /\ Running("SELECT") =>
       /\ view[query.table] = before
       /\ count = Cardinality({pi \in (0 .. pgCount - 1) \X (1 .. RowsPerPage) :
                     pi[2] \in DOMAIN before[pi[1]] /\ Matches(before[pi[1]][pi[2]])})]_vars

(***************************************************************************)
(* An INSERT that returns has appended its row to exactly one page of the  *)
(* file, or has filled page pgCount with it when no page of the file had   *)
(* room.  What page pgCount held before is a matter of its own (see        *)
(* InsertKeepsRows).                                                       *)
(***************************************************************************)
InsertAddsItsRow ==
  [][End /\ Running("INSERT") =>
       \E p \in 0 .. pgCount :
         /\ \A q \in PageIds \ {p} : view[query.table][q] = before[q]
         /\ view[query.table][p] =
              IF p < pgCount THEN Append(before[p], query.row) ELSE <<query.row>>
         /\ p = pgCount => \A q \in 0 .. pgCount - 1 : Len(before[q]) = RowsPerPage]_vars

(***************************************************************************)
(* Beyond the end of a table file there is at most one page with rows, the *)
(* next one: statements, evictions and restarts in any order leave no hole *)
(* in the file.  That next page is not scanned before it is written        *)
(* (Executor.cpp:221); every other page with rows is below the file's page *)
(* count.                                                                  *)
(***************************************************************************)
NoGaps ==
  \A t \in Tables, p \in PageIds :
    view[t][p] # << >> \/ <<t, p>> \in dirty => p <= Store!pageCount(durable[t])

(***************************************************************************)
(* Every statement returns, or the process dies under it.                  *)
(***************************************************************************)
StatementEnds == ~Idle ~> Idle

(***************************************************************************)
(* An INSERT only adds: no step of it takes away rows the table showed     *)
(* before.  The code does not keep this (a page that was allocated but not *)
(* yet written to the file is initialised again by the next INSERT).       *)
(***************************************************************************)
InsertKeepsRows ==
  [][InsertProbe \/ InsertNewPage =>
       \A p \in PageIds : IsPrefix(view[query.table][p], view[query.table]'[p])]_vars
=============================================================================
