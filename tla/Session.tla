------------------------------ MODULE Session -------------------------------
(***************************************************************************)
(* The life of the database files across processes.  Two programs use      *)
(* them: nanodb (main.cpp) and test_runner (test_runner.cpp).  Each        *)
(* decides at its start whether to generate the data set, generates it     *)
(* table after table straight into the files (tpch/DataGenerator.cpp),     *)
(* then runs statements on the pool, and flushes the pool when it leaves.  *)
(* A process can be killed at any moment.                                  *)
(*                                                                         *)
(* A statement is parsed (Statements) and run on pages of bytes (Records)  *)
(* in one step; HeapTable has the steps inside.  The pool is what it shows *)
(* of a table (view); BufferPool says how.  The generator's seeds are      *)
(* constants, so its rows are too.                                         *)
(***************************************************************************)
EXTENDS Records, Statements, DiskManager

CONSTANTS
  Schemas,      \* the columns of customer, orders and lineitem, in this order
  TableNames,   \* their names
  Dataset,      \* the rows the generator makes for each
  Requests,     \* the statements users give
  Garbage,      \* what an uninitialised value may hold: tokens
  MaxUsed       \* bound: statements in the whole history

Tables == DOMAIN Schemas

Programs == {"nanodb", "test_runner"}

ASSUME SessionAssumption ==
  /\ Len(Schemas) \in Nat \ {0} /\ Tables = 1 .. Len(Schemas)
  /\ DOMAIN TableNames = Tables /\ DOMAIN Dataset = Tables
  /\ \A t \in Tables : /\ recordSize(Schemas[t]) \in 1 .. PageSize - PageHeader
                       /\ Len(Dataset[t]) \in Nat \ {0}
  /\ Blank = ZeroPage

\* Numbers fit in an int and texts hold no 0.
ASSUME RowsAssumption ==
  \A t \in Tables : /\ IsSchema(Schemas[t])
                    /\ \A i \in 1 .. Len(Dataset[t]) : IsRow(Schemas[t], Dataset[t][i])

\* Values are numbers that an int holds with either sign, and texts.
Values == [type : {"INT", "STRING"}, n : {n \in Int32 : -n \in Int32}, s : Texts]

\* Column name of table t exists, and v is of its type.
Fits(t, name, v) == \E c \in DOMAIN Schemas[t] : /\ Schemas[t][c].name = name
                                                 /\ Schemas[t][c].type = v.type

ASSUME RequestsAssumption ==
  /\ \A t, u \in Tables : TableNames[t] \in STRING /\ (TableNames[t] = TableNames[u] => t = u)
  /\ \A t \in Tables : /\ Len(Schemas[t]) <= MAX_COLUMNS
                       /\ \A c, d \in DOMAIN Schemas[t] :
                            Schemas[t][c].name = Schemas[t][d].name => c = d
  /\ MAX_COLUMNS \in Nat /\ \A tok \in Garbage : tok.n \in Int32 /\ tok.s \in Texts
  /\ \A r \in Requests :
       /\ r.kind \in {"INSERT", "UPDATE", "DELETE"} /\ r.table \in Tables
       /\ r.cols \in Seq(STRING) /\ r.vals \in Seq(Values) /\ Len(r.cols) = Len(r.vals)
       /\ \A i \in DOMAIN r.cols : Fits(r.table, r.cols[i], r.vals[i])
       /\ r.col \in STRING /\ r.val \in Values /\ r.wcol \in STRING /\ r.wval \in Values
       /\ r.kind = "UPDATE" => Fits(r.table, r.col, r.val)
       /\ r.wcol # "" => Fits(r.table, r.wcol, r.wval)

VARIABLES
  files,     \* the table files, sequences of pages
  phase,     \* "down", "generate", "generating", "run"
  program,   \* the program that runs or ran last
  table,     \* the table whose turn it is in the generation
  made,      \* rows the generator has made of it
  page,      \* the page it fills
  view,      \* the tables as the running process sees them
  ran,       \* history: programs that were started so far
  complete,  \* history: tables whose file a generator wrote to its end
  used       \* history: number of statements executed

vars == <<files, phase, program, table, made, page, view, ran, complete, used>>

Init ==
  /\ files = [t \in Tables |-> << >>] /\ view = files
  /\ phase = "down" /\ program = "nanodb" /\ table = 1 /\ made = 0 /\ page = initPage(0)
  /\ ran = {} /\ complete = {} /\ used = 0

-----------------------------------------------------------------------------
(* Starting *)

\* Mutants of needGen: the rule of test_runner in both programs; a table is
\* missing if it has no rows.
needGenFirstOnly(prog) == pageCount(files[1]) = 0

needGenByRows(prog) ==
  \E t \in Tables : \A p \in DOMAIN files[t] : getRecordCount(files[t][p]) = 0

\* main looks at all files, test_runner at the customers' only.
needGen(prog) ==
  IF prog = "nanodb" THEN \E t \in Tables : pageCount(files[t]) = 0
                     ELSE pageCount(files[1]) = 0

Start(prog) ==
  /\ phase = "down"
  /\ program' = prog /\ ran' = ran \union {prog}
  /\ phase' = IF needGen(prog) THEN "generate" ELSE "run"
  /\ table' = 1 /\ view' = files
  /\ UNCHANGED <<files, made, page, complete, used>>

\* The generator of the next table truncates its file.
Truncate ==
  /\ phase = "generate"
  /\ files' = [files EXCEPT ![table] = << >>]
  /\ page' = initPage(0) /\ made' = 0 /\ complete' = complete \ {table}
  /\ phase' = "generating"
  /\ UNCHANGED <<program, table, view, ran, used>>

\* Number of the page the generator fills: its pages are written in order.
pageId == pageCount(files[table])

\* Mutant of GenerateRow: the row that found the page full is not appended.
GenerateRowLost ==
  /\ phase = "generating" /\ made < Len(Dataset[table])
  /\ IF isFull(Schemas[table], page)
     THEN /\ files' = [files EXCEPT ![table] = writePage(@, pageId, page)]
          /\ page' = initPage(pageId + 1)
     ELSE /\ page' = appendRow(Schemas[table], page, Dataset[table][made + 1])
          /\ UNCHANGED files
  /\ made' = made + 1
  /\ UNCHANGED <<phase, program, table, view, ran, complete, used>>

\* One round of the generator's loop: a full page goes to the file first.
GenerateRow ==
  /\ phase = "generating" /\ made < Len(Dataset[table])
  /\ made' = made + 1
  /\ \E fresh \in {IF isFull(Schemas[table], page) THEN initPage(pageId + 1) ELSE page} :
     \E filled \in {appendRow(Schemas[table], fresh, Dataset[table][made + 1])} :
       /\ page' = filled
       /\ files' = IF isFull(Schemas[table], page)
                   THEN [files EXCEPT ![table] = writePage(@, pageId, page)] ELSE files
  /\ UNCHANGED <<phase, program, table, view, ran, complete, used>>

\* The last page is written if it has a row; then the next table, or a pool.
GenerateEnd ==
  /\ phase = "generating" /\ made = Len(Dataset[table])
  /\ files' = IF getRecordCount(page) > 0
              THEN [files EXCEPT ![table] = writePage(@, pageId, page)] ELSE files
  /\ complete' = complete \union {table}
  /\ IF table < Len(Schemas)
     THEN phase' = "generate" /\ table' = table + 1 /\ UNCHANGED view
     ELSE phase' = "run" /\ view' = files' /\ UNCHANGED table
  /\ UNCHANGED <<program, made, page, ran, used>>

-----------------------------------------------------------------------------
(* What users write *)

\* A request says what its statement is to do: to insert vals into cols, to
\* set col to val, or to delete, where wcol is wval, or everywhere if wcol is
\* "".  A value is a number or a text.
Word(type) == Token(type, "", 0, << >>)

Name(name) == Token("IDENTIFIER", name, 0, << >>)

\* The lexer makes two tokens of a negative number.
Literal(v) ==
  CASE v.type = "STRING" -> <<Token("STRING_LIT", "", 0, v.s)>>
    [] v.type = "INT" /\ v.n >= 0 -> <<Token("INTEGER", "", v.n, v.s)>>
    [] OTHER -> <<Token("MINUS", "", 0, <<45>>), Token("INTEGER", "", -v.n, v.s)>>

Commas(items) ==
  FlattenSeq([i \in DOMAIN items |-> IF i = 1 THEN items[i] ELSE <<Word("COMMA")>> \o items[i]])

Where(r) ==
  IF r.wcol = "" THEN << >>
  ELSE <<Word("WHERE"), Name(r.wcol), Word("EQ")>> \o Literal(r.wval)

TextOf(r) ==
  CASE r.kind = "INSERT" ->
         <<Word("INSERT"), Word("INTO"), Name(TableNames[r.table]), Word("LPAREN")>>
           \o Commas([i \in DOMAIN r.cols |-> <<Name(r.cols[i])>>])
           \o <<Word("RPAREN"), Word("VALUES"), Word("LPAREN")>>
           \o Commas([i \in DOMAIN r.vals |-> Literal(r.vals[i])]) \o <<Word("RPAREN")>>
    [] r.kind = "UPDATE" ->
         <<Word("UPDATE"), Name(TableNames[r.table]), Word("SET"), Name(r.col),
           Word("ASSIGN")>> \o Literal(r.val) \o Where(r)
    [] r.kind = "DELETE" ->
         <<Word("DELETE"), Word("FROM"), Name(TableNames[r.table])>> \o Where(r)

-----------------------------------------------------------------------------
(* Statements *)

\* A value converted to the type of its column: a text has no digits here.
Field(col, tok) == IF col.type = "INT" THEN tok.n ELSE tok.s

\* evalWhere for a comparison of a column with a literal of its type.  A
\* clause with a sign in it has an operator too many and accepts no row.
evalWhere(cols, where, row) ==
  /\ Len(where) = 3 /\ where[2].type = "EQ"
  /\ LET c == columnIndex(cols, where[1].name)
     IN  c # 0 /\ row[c] = Field(cols[c], where[3])

\* The page with row i rewritten in place if the statement selects it.
UpdatePage(cols, q, pg) ==
  LET c == columnIndex(cols, q.updateCol)
      Step(acc, i) ==
        LET row == getRow(cols, acc, i - 1)
        IN  IF q.hasWhere => evalWhere(cols, q.where, row)
            THEN PutRow(cols, acc, i - 1, [row EXCEPT ![c] = Field(cols[c], q.updateVal)])
            ELSE acc
  IN  FoldLeft(Step, pg, [i \in 1 .. getRecordCount(pg) |-> i])

\* The pages of table t that its file has, each changed by Change.
Rewritten(t, Change(_)) ==
  [view EXCEPT ![t] = [p \in DOMAIN @ |->
     IF p <= pageCount(files[t]) THEN Change(@[p]) ELSE @[p]]]

executeUpdate(t, q) ==
  view' = IF columnIndex(Schemas[t], q.updateCol) = 0 THEN view
          ELSE Rewritten(t, LAMBDA pg : UpdatePage(Schemas[t], q, pg))

\* The kept rows moved to the front, the bytes behind them left as they are.
DeleteRows(cols, q, pg) ==
  LET rows == RowsOf(cols, pg)
      kept == Chosen(rows, {i \in DOMAIN rows : ~evalWhere(cols, q.where, rows[i])})
      packed == FoldLeftDomain(LAMBDA acc, i : PutRow(cols, acc, i - 1, kept[i]), pg, kept)
  IN  SetRecordCount(packed, Len(kept))

\* Without WHERE nothing is deleted.
executeDelete(t, q) ==
  view' = IF ~q.hasWhere THEN view
          ELSE Rewritten(t, LAMBDA pg : DeleteRows(Schemas[t], q, pg))

\* Value i goes to column i; a value the text lacks was never initialised.
InsertedRow(cols, vals, rest) ==
  [i \in DOMAIN cols |-> Field(cols[i], IF i \in DOMAIN vals THEN vals[i] ELSE rest)]

\* The last page of the file with room, or a new page behind the file.
executeInsert(t, q) ==
  LET n == pageCount(files[t])
      room == {p \in 0 .. n - 1 : ~isFull(Schemas[t], view[t][p + 1])}
  IN  \E rest \in Garbage :
        LET row == InsertedRow(Schemas[t], q.insertVals, rest)
        IN  \/ \E p \in room : /\ \A o \in room : o <= p
                               /\ view' = [view EXCEPT ![t][p + 1] =
                                             appendRow(Schemas[t], @, row)]
            \/ /\ room = {}
               /\ view' = [view EXCEPT ![t] =
                             writePage(@, n, appendRow(Schemas[t], initPage(n), row))]

executeSQL(sql) ==
  LET q == parse(sql)
  IN  /\ phase = "run" /\ used < MaxUsed
      /\ used' = used + 1
      /\ IF q.ok /\ \E t \in Tables : TableNames[t] = q.tableName
         THEN \E t \in Tables :
                /\ TableNames[t] = q.tableName
                /\ \/ q.type = "INSERT" /\ executeInsert(t, q)
                   \/ q.type = "UPDATE" /\ executeUpdate(t, q)
                   \/ q.type = "DELETE" /\ executeDelete(t, q)
         ELSE UNCHANGED view
      /\ UNCHANGED <<files, phase, program, table, made, page, ran, complete>>

-----------------------------------------------------------------------------
(* The pool writes a page, the process leaves or is killed *)

WriteBack(t, p) ==
  /\ phase = "run"
  /\ p < pageCount(view[t]) /\ view[t][p + 1] # readPage(files[t], p)
  /\ files' = [files EXCEPT ![t] = writePage(@, p, view[t][p + 1])]
  /\ UNCHANGED <<phase, program, table, made, page, view, ran, complete, used>>

\* flushAll; test_runner leaves through it as well if it has no workload file.
Exit ==
  /\ phase = "run"
  /\ files' = view /\ phase' = "down"
  /\ UNCHANGED <<program, table, made, page, view, ran, complete, used>>

Kill ==
  /\ phase # "down"
  /\ phase' = "down" /\ view' = files
  /\ UNCHANGED <<files, program, table, made, page, ran, complete, used>>

Generate == Truncate \/ GenerateRow \/ GenerateEnd

Next ==
  \/ \E prog \in Programs : Start(prog)
  \/ Generate
  \/ \E r \in Requests : executeSQL(TextOf(r))
  \/ \E t \in Tables : \E p \in 0 .. pageCount(view[t]) - 1 : WriteBack(t, p)
  \/ Exit \/ Kill

Spec == Init /\ [][Next]_vars

-----------------------------------------------------------------------------
(* Properties *)

\* What a row reads back as: a text keeps one character less than its column
\* is wide, so that a column of width 1 is always empty.
ReadBack(cols, row) ==
  [i \in DOMAIN cols |->
     IF cols[i].type = "INT" \/ Len(row[i]) < cols[i].size THEN row[i]
     ELSE SubSeq(row[i], 1, cols[i].size - 1)]

RowsIn(t, file) == FlattenSeq([p \in DOMAIN file |-> RowsOf(Schemas[t], file[p])])

GeneratedRows(t, n) == [i \in 1 .. n |-> ReadBack(Schemas[t], Dataset[t][i])]

(***************************************************************************)
(* The pages in the file and the page being filled hold the rows generated *)
(* so far, each once and in order, and all pages in the file are full; a   *)
(* table whose generator came to its end has all of its rows, whether or   *)
(* not they fill the last page, until a statement changes it.              *)
(***************************************************************************)
GeneratedInOrder ==
  /\ phase = "generating" =>
       /\ RowsIn(table, files[table]) \o RowsOf(Schemas[table], page) =
            GeneratedRows(table, made)
       /\ \A p \in DOMAIN files[table] : isFull(Schemas[table], files[table][p])
  /\ used = 0 => \A t \in complete : RowsIn(t, files[t]) = GeneratedRows(t, Len(Dataset[t]))

(***************************************************************************)
(* As long as only nanodb is used, no kill during a generation leads to a  *)
(* run without a table, or with a table but the last cut short: the tables *)
(* are generated in a fixed order and any empty file starts all over.  A   *)
(* last table that is cut short is accepted, and stays so for good.        *)
(***************************************************************************)
NanodbStartsComplete ==
  phase = "run" /\ ran = {"nanodb"} =>
    /\ \A t \in Tables : files[t] # << >>
    /\ Tables \ {Len(Schemas)} \subseteq complete

(***************************************************************************)
(* As long as only nanodb is used, a start never generates over tables     *)
(* that a statement was executed on, even if all of their rows have been   *)
(* deleted.  (After test_runner ran on a data set whose generation was     *)
(* killed, nanodb does: it drops what was inserted into the other tables.) *)
(***************************************************************************)
StartKeepsUserRows ==
  phase \in {"generate", "generating"} /\ ran = {"nanodb"} => used = 0

Positive(v) == v.type = "INT" => v.n >= 0

Meant(v) == IF v.type = "INT" THEN v.n ELSE v.s

\* The rows a statement is to change.
Selected(r, row) ==
  IF r.wcol = "" THEN r.kind = "UPDATE"
  ELSE Positive(r.wval) /\ row[columnIndex(Schemas[r.table], r.wcol)] = Meant(r.wval)

Changed(r, rows) ==
  IF r.kind = "DELETE" THEN Chosen(rows, {i \in DOMAIN rows : ~Selected(r, rows[i])})
  ELSE LET cols == Schemas[r.table]
           c == columnIndex(cols, r.col)
       IN  [i \in DOMAIN rows |->
              IF Selected(r, rows[i])
              THEN ReadBack(cols, [rows[i] EXCEPT ![c] = Meant(r.val)]) ELSE rows[i]]

\* The rows on the pages of the file are changed as r says, and nothing else.
ChangesAsSaid(r) ==
  \A t \in Tables :
    /\ Len(view'[t]) = Len(view[t])
    /\ \A p \in DOMAIN view[t] :
         LET rows == RowsOf(Schemas[t], view[t][p])
         IN  /\ ReadBytes(view'[t][p], 0, 4) = ReadBytes(view[t][p], 0, 4)
             /\ RowsOf(Schemas[t], view'[t][p]) =
                  IF t = r.table /\ p <= pageCount(files[t])
                  THEN Changed(r, rows) ELSE rows

\* What the parser takes a request for.  It reads one token for the value an
\* UPDATE sets: of a negative number that is the sign, which converts to zero,
\* and the number behind it hides the clause.
Taken(r) ==
  IF r.kind = "UPDATE" /\ ~Positive(r.val)
  THEN [kind |-> r.kind, table |-> r.table, col |-> r.col,
        val |-> [type |-> "INT", n |-> 0, s |-> << >>], wcol |-> ""]
  ELSE r

(***************************************************************************)
(* UPDATE and DELETE change the rows their clause describes, in the pages  *)
(* of the file, and no byte of another row, another page's number or       *)
(* another table - unless the value to set has a minus sign: then UPDATE   *)
(* sets the column to zero in every row of those pages, and still changes  *)
(* nothing else (Parser.cpp:121-129).                                      *)
(***************************************************************************)
ClauseConfinesChanges ==
  [][\A r \in Requests :
       executeSQL(TextOf(r)) /\ r.kind \in {"UPDATE", "DELETE"} =>
         ChangesAsSaid(Taken(r))]_vars

(***************************************************************************)
(* A row inserted with all of its values, in the order of the schema and   *)
(* without a sign, is there afterwards and reads back as it was given.     *)
(* (The column list of an INSERT is not looked at, Executor.cpp:87-93.)    *)
(***************************************************************************)
InsertReadsBack ==
  [][\A r \in Requests :
       LET cols == Schemas[r.table]
       IN  /\ executeSQL(TextOf(r)) /\ r.kind = "INSERT"
           /\ r.cols = [i \in DOMAIN cols |-> cols[i].name]
           /\ \A i \in DOMAIN r.vals : Positive(r.vals[i])
           => ReadBack(cols, [i \in DOMAIN cols |-> Meant(r.vals[i])])
                \in Range(RowsIn(r.table, view'[r.table]))]_vars
=============================================================================
