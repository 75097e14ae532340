-------------------------- MODULE HeapTableProofs ---------------------------
(***************************************************************************)
(* Proofs about HeapTable, for tables, pages and queries of any size, with *)
(* pages written back and restarts at any moment.                          *)
(*                                                                         *)
(* What a statement promises when it returns says nothing of the rounds    *)
(* before that, so each kind has an invariant of its loop: how the table   *)
(* differs from the one it found, in terms of the page it handles next     *)
(* (UpdateInv, DeleteInv, SelectInv, InsertInv).  They rest on the types,  *)
(* and on pgCount staying within the file while it is used (LoopInv).      *)
(***************************************************************************)
EXTENDS HeapTable, FiniteSetTheorems, TLAPS

-----------------------------------------------------------------------------
(* Counting the rows that stay *)

\* The rows that stay are numbered without gaps and in their order.
LEMMA Numbered ==
  ASSUME NEW n \in Nat, NEW stay \in SUBSET (1 .. n)
  PROVE  /\ IsFiniteSet(stay) /\ Cardinality(stay) \in 0 .. n
         /\ (Cardinality(stay) = n => stay = 1 .. n)
         /\ \A i, j \in stay : i < j => CountTo(stay, i) < CountTo(stay, j)
         /\ [i \in stay |-> CountTo(stay, i)] \in Bijection(stay, 1 .. Cardinality(stay))
<1>1. /\ IsFiniteSet(1 .. n) /\ Cardinality(1 .. n) = n
  BY FS_Interval
<1>2. /\ IsFiniteSet(stay) /\ Cardinality(stay) \in Nat /\ Cardinality(stay) <= n
      /\ (Cardinality(stay) = n => stay = 1 .. n)
  BY <1>1, FS_Subset, FS_CardinalityType
<1> DEFINE m == Cardinality(stay)
           Upto(i) == {j \in stay : j <= i}
           place == [i \in stay |-> CountTo(stay, i)]
<1>3. \A i \in stay : Upto(i) \in SUBSET stay /\ i \in Upto(i)
  OBVIOUS
<1>4. \A i \in stay : /\ IsFiniteSet(Upto(i)) /\ Cardinality(Upto(i)) \in Nat
                      /\ Cardinality(Upto(i)) <= m /\ Cardinality(Upto(i)) # 0
  BY <1>2, <1>3, FS_Subset, FS_CardinalityType, FS_EmptySet
<1>5. ASSUME NEW i \in stay, NEW j \in stay, i < j
      PROVE  Cardinality(Upto(i)) < Cardinality(Upto(j))
  <2>1. Upto(i) \in SUBSET Upto(j) /\ j \notin Upto(i) /\ j \in Upto(j)
    <3>1. i \in Int /\ j \in Int /\ \A x \in stay : x \in Int
      OBVIOUS
    <3>2. \A x \in stay : x <= i => x <= j
      BY <1>5, <3>1
    <3>3. ~(j <= i) /\ j <= j
      BY <1>5, <3>1
    <3> QED
      BY <3>2, <3>3, Zenon
  <2>2. IsFiniteSet(Upto(j)) /\ Cardinality(Upto(i)) \in Nat /\ Cardinality(Upto(j)) \in Nat
    BY <1>4
  <2> HIDE DEF Upto
  <2>3. /\ Cardinality(Upto(i)) <= Cardinality(Upto(j))
        /\ Cardinality(Upto(j)) = Cardinality(Upto(i)) => Upto(j) = Upto(i)
    BY <2>1, <2>2, FS_Subset
  <2> QED
    BY <2>1, <2>2, <2>3
<1>6. place \in [stay -> 1 .. m]
  BY <1>2, <1>4 DEF CountTo
<1>7. place \in Injection(stay, 1 .. m)
  <2>1. \A i, j \in stay : place[i] = place[j] => i = j
    BY <1>4, <1>5 DEF CountTo
  <2> HIDE DEF place, m
  <2> QED
    BY <1>6, <2>1 DEF Injection, IsInjective
<1>8. place \in Surjection(stay, 1 .. m)
  <2>1. IsFiniteSet(1 .. m) /\ Cardinality(1 .. m) = m
    BY <1>2, FS_Interval
  <2> HIDE DEF place
  <2> QED
    BY <1>7, <2>1, FS_Injection
<1> HIDE DEF place
<1> QED
  BY <1>2, <1>5, <1>7, <1>8 DEF Bijection, CountTo, place

\* What stays of a page is a page, and all of it stays if its length does.
LEMMA CompactedPage ==
  ASSUME NEW old \in PageContents
  PROVE  /\ Compacted(old) \in PageContents /\ Len(Compacted(old)) = Cardinality(Staying(old))
         /\ Len(old) - Len(Compacted(old)) \in Nat
         /\ Len(old) = Len(Compacted(old)) => Compacted(old) = old
         /\ \E place \in Bijection(Staying(old), DOMAIN Compacted(old)) :
              /\ \A i \in Staying(old) : Compacted(old)[place[i]] = old[i]
              /\ \A i, j \in Staying(old) : i < j => place[i] < place[j]
<1>1. PICK n \in 0 .. RowsPerPage : old \in [1 .. n -> Rows]
  BY DEF PageContents, BoundedSeq, SeqOf
<1> DEFINE stay == Staying(old)
           m == Cardinality(stay)
           place == [i \in stay |-> CountTo(stay, i)]
           new == Compacted(old)
<1>2. n \in Nat /\ Len(old) = n /\ stay \in SUBSET (1 .. n)
  BY <1>1, HeapTableAssumption DEF Staying
<1>3. /\ IsFiniteSet(stay) /\ m \in 0 .. n /\ (m = n => stay = 1 .. n)
      /\ \A i, j \in stay : i < j => CountTo(stay, i) < CountTo(stay, j)
      /\ place \in Bijection(stay, 1 .. m)
  BY <1>2, Numbered
<1>4. new = [k \in 1 .. m |-> old[CHOOSE i \in stay : CountTo(stay, i) = k]]
  BY DEF Compacted
<1> HIDE DEF stay, m, new
<1>5. \A k \in 1 .. m : \E i \in stay : CountTo(stay, i) = k
  BY <1>3 DEF Bijection, Surjection
<1>6. \A i, j \in stay : CountTo(stay, i) = CountTo(stay, j) => i = j
  BY <1>3 DEF Bijection, Injection, IsInjective
<1>7. \A i \in stay : CountTo(stay, i) \in 1 .. m
  BY <1>3 DEF Bijection, Injection
<1>8. \A k \in 1 .. m : /\ (CHOOSE i \in stay : CountTo(stay, i) = k) \in stay
                        /\ CountTo(stay, CHOOSE i \in stay : CountTo(stay, i) = k) = k
  BY <1>5
<1>9. new \in [1 .. m -> Rows] /\ Len(new) = m /\ DOMAIN new = 1 .. m
  <2> DEFINE at(k) == CHOOSE i \in stay : CountTo(stay, i) = k
  <2>1. \A k \in 1 .. m : old[at(k)] \in Rows
    BY <1>1, <1>2, <1>8
  <2>2. new = [k \in 1 .. m |-> old[at(k)]]
    BY <1>4
  <2> HIDE DEF at
  <2>3. new \in [1 .. m -> Rows]
    BY <2>1, <2>2
  <2> QED
    BY <1>3, <2>3
<1>10. \A i \in stay : new[place[i]] = old[i]
  <2> TAKE i \in stay
  <2>1. (CHOOSE j \in stay : CountTo(stay, j) = CountTo(stay, i)) = i
    BY <1>6, <1>7, <1>8
  <2> QED
    BY <1>4, <1>7, <2>1
<1>11. m \in 0 .. RowsPerPage
  BY <1>2, <1>3, HeapTableAssumption
<1>12. new \in PageContents
  BY <1>9, <1>11 DEF PageContents, BoundedSeq, SeqOf
<1>13. ASSUME m = n PROVE new = old
  <2>1. stay = 1 .. n
    BY <1>3, <1>13
  <2>2. \A i \in 1 .. n : CountTo(stay, i) = i
    <3> TAKE i \in 1 .. n
    <3>1. {j \in stay : j <= i} = 1 .. i
      BY <1>2, <2>1
    <3>2. Cardinality(1 .. i) = i
      BY <1>2, FS_Interval
    <3> QED
      BY <3>1, <3>2 DEF CountTo
  <2>3. \A i \in 1 .. n : new[i] = old[i]
    BY <1>10, <2>1, <2>2
  <2> QED
    BY <1>1, <1>9, <1>13, <2>3
<1> QED
  BY <1>2, <1>3, <1>9, <1>10, <1>12, <1>13 DEF stay, m, new

\* A page of the file that no row of matches counts no match.
LEMMA NoneMatch ==
  ASSUME NEW content \in PageContents
  PROVE  /\ Matching(content) \in Nat
         /\ Matching(content) = 0 => \A i \in DOMAIN content : ~Matches(content[i])
<1>1. PICK n \in 0 .. RowsPerPage : content \in [1 .. n -> Rows]
  BY DEF PageContents, BoundedSeq, SeqOf
<1> DEFINE hits == {i \in DOMAIN content : Matches(content[i])}
<1>2. hits \in SUBSET (1 .. n) /\ IsFiniteSet(1 .. n)
  BY <1>1, HeapTableAssumption, FS_Interval
<1>3. IsFiniteSet(hits)
  BY <1>2, FS_Subset
<1>4. Cardinality(hits) \in Nat /\ (Cardinality(hits) = 0 => hits = {})
  BY <1>3, FS_CardinalityType, FS_EmptySet
<1> QED
  BY <1>4 DEF Matching

-----------------------------------------------------------------------------
(* Types *)

\* An empty page is a page.
LEMMA BlankPage == << >> \in PageContents /\ EmptyTable \in [PageIds -> PageContents]
<1>1. << >> \in [1 .. 0 -> Rows] /\ 0 \in 0 .. RowsPerPage
  BY HeapTableAssumption
<1> QED
  BY <1>1 DEF PageContents, BoundedSeq, SeqOf, EmptyTable

\* Writing a page leaves a file of pages that is not shorter.
LEMMA WriteKeepsFile ==
  ASSUME NEW file \in Seq(PageContents), NEW p \in Nat, NEW content \in PageContents
  PROVE  /\ Store!writePage(file, p, content) \in Seq(PageContents)
         /\ Len(Store!writePage(file, p, content)) = IF p < Len(file) THEN Len(file) ELSE p + 1
<1> DEFINE n == IF p < Len(file) THEN Len(file) ELSE p + 1
           new == Store!writePage(file, p, content)
<1>1. n \in Nat /\ n >= Len(file) /\ n >= p + 1
  OBVIOUS
<1>2. << >> \in PageContents
  BY BlankPage
<1>3. new \in [1 .. n -> PageContents]
  BY <1>2 DEF Store!writePage, Store!pageCount
<1> HIDE DEF n, new
<1>4. new \in Seq(PageContents) /\ Len(new) = n
  BY <1>1, <1>3
<1> QED
  BY <1>1, <1>4 DEF new, n

\* What a new process sees are pages.
LEMMA FreshViewType ==
  ASSUME NEW files \in [Tables -> Seq(PageContents)]
  PROVE  Store!FreshView(files) \in [Tables -> [PageIds -> PageContents]]
<1>1. << >> \in PageContents
  BY BlankPage
<1>2. ASSUME NEW t \in Tables, NEW p \in PageIds
      PROVE  Store!readPage(files[t], p) \in PageContents
  <2>1. p \in Nat
    BY HeapTableAssumption DEF PageIds
  <2>2. CASE p < Len(files[t])
    BY <2>1, <2>2 DEF Store!readPage, Store!pageCount
  <2>3. CASE ~(p < Len(files[t]))
    BY <1>1, <2>3 DEF Store!readPage, Store!pageCount
  <2> QED
    BY <2>2, <2>3
<1> QED
  BY <1>2 DEF Store!FreshView

\* The kinds of a statement.
LEMMA QueryKinds ==
  ASSUME NEW q \in Queries
  PROVE  /\ q.table \in Tables
         /\ q.op \in {"SELECT", "DELETE", "INSERT", "UPDATE"}
         /\ q.op = "INSERT" => q.row \in Rows
         /\ q.op = "UPDATE" => q.set \in [Rows -> Rows]
  BY HeapTableAssumption DEF Queries

(***************************************************************************)
(* A statement works on the pages its file had when it began; files only   *)
(* grow while it runs, and within the bound on pages.                      *)
(***************************************************************************)
LoopInv ==
  /\ \A t \in Tables : Len(durable[t]) <= MaxPages
  /\ ~Idle => query \in Queries /\ pgCount <= Len(durable[query.table])
  /\ query.op \in {"SELECT", "DELETE", "UPDATE"} => pid \in 0 .. pgCount
  /\ Running("INSERT") => pgCount < MaxPages /\ pid \in -1 .. pgCount - 1 /\ count \in {0, 1}

TypedInv == TypeOK /\ LoopInv

\* The store, with a page of a table rewritten.
LEMMA PutEffect ==
  ASSUME TypedInv, NEW p \in PageIds, NEW content, ~Idle, Put(p, content)
  PROVE  /\ query.table \in Tables
         /\ durable' = durable /\ dirty' = dirty \union {<<query.table, p>>}
         /\ view' = [view EXCEPT ![query.table] = [@ EXCEPT ![p] = content]]
         /\ content \in PageContents => Store!TypeOK'
<1>1. query.table \in Tables
  BY QueryKinds DEF TypedInv, LoopInv
<1>2. /\ durable' = durable /\ dirty' = dirty \union {<<query.table, p>>}
      /\ view' = [view EXCEPT ![query.table] = [@ EXCEPT ![p] = content]]
  BY DEF Put, Store!Modify
<1> QED
  BY <1>1, <1>2 DEF TypedInv, TypeOK, Store!TypeOK

\* A statement begins with the page count of its file, and no pages passed.
LEMMA BeginType ==
  ASSUME TypedInv, NEW q \in Queries, Begin(q)
  PROVE  TypedInv'
<1>1. /\ q.table \in Tables /\ q.op \in {"SELECT", "DELETE", "INSERT", "UPDATE"}
  BY QueryKinds
<1>2. /\ query' = q /\ pgCount' = Len(durable[q.table])
      /\ q.op = "INSERT" => pgCount' < MaxPages
      /\ pid' = IF q.op = "INSERT" THEN pgCount' - 1 ELSE 0
      /\ count' = 0 /\ before' = view[q.table] /\ UNCHANGED <<durable, view, dirty>>
  BY DEF Begin, Store!pageCount, store
<1>3. /\ Len(durable[q.table]) \in 0 .. MaxPages /\ MaxPages \in Nat
      /\ before' \in [PageIds -> PageContents] /\ Store!TypeOK'
  BY <1>1, <1>2, HeapTableAssumption DEF TypedInv, TypeOK, LoopInv, Store!TypeOK
<1>4. TypeOK'
  BY <1>1, <1>2, <1>3 DEF TypeOK
<1>5. LoopInv'
  BY <1>1, <1>2, <1>3 DEF LoopInv, TypedInv, Idle, Running
<1> QED
  BY <1>4, <1>5 DEF TypedInv

\* No statement is running, as after Init, End and Restart.
LEMMA NoLocalsType ==
  NoLocals => /\ query = NoQuery /\ Idle /\ pgCount \in 0 .. MaxPages /\ pid \in -1 .. MaxPages
              /\ count \in Nat /\ before \in [PageIds -> PageContents]
  BY BlankPage, HeapTableAssumption DEF NoLocals, Idle, Running, NoQuery

\* At first no statement runs, on files within the bound.
LEMMA InitType == Init => TypedInv
<1> SUFFICES ASSUME Init PROVE TypedInv
  OBVIOUS
<1>1. durable \in [Tables -> Seq(PageContents)] /\ \A t \in Tables : Len(durable[t]) <= MaxPages
  <2>1. \A t \in Tables : \E m \in 0 .. MaxPages : durable[t] \in [1 .. m -> PageContents]
    BY DEF Init, BoundedSeq, SeqOf
  <2>2. \A t \in Tables : durable[t] \in Seq(PageContents) /\ Len(durable[t]) <= MaxPages
    <3> TAKE t \in Tables
    <3>1. PICK m \in 0 .. MaxPages : durable[t] \in [1 .. m -> PageContents]
      BY <2>1
    <3>2. m \in Nat /\ m <= MaxPages
      BY HeapTableAssumption
    <3> QED
      BY <3>1, <3>2
  <2> QED
    BY <2>2 DEF Init
<1>2. Store!TypeOK
  BY <1>1, FreshViewType DEF Init, Store!TypeOK
<1>3. NoLocals
  BY DEF Init
<1>4. TypeOK
  BY <1>2, <1>3, NoLocalsType DEF TypeOK
<1>5. LoopInv
  BY <1>1, <1>3, NoLocalsType DEF LoopInv, Idle, Running, NoQuery
<1> QED
  BY <1>4, <1>5 DEF TypedInv

\* Ending a statement or a process leaves the files alone.
LEMMA StopType ==
  ASSUME TypedInv, NoLocals', UNCHANGED durable, Store!TypeOK'
  PROVE  TypedInv'
<1>1. /\ query' = NoQuery /\ Idle' /\ pgCount' \in 0 .. MaxPages /\ pid' \in -1 .. MaxPages
      /\ count' \in Nat /\ before' \in [PageIds -> PageContents]
  BY BlankPage, HeapTableAssumption DEF NoLocals, Idle, Running, NoQuery
<1>2. TypeOK'
  BY <1>1 DEF TypeOK
<1>3. LoopInv'
  BY <1>1 DEF TypedInv, LoopInv, Idle, Running, NoQuery
<1> QED
  BY <1>2, <1>3 DEF TypedInv

\* A step of a statement that stores nothing, or a page, and moves on by a page.
LEMMA StepType ==
  ASSUME TypedInv, ~Idle, NEW n \in Nat, Advance(n), pid' \in -1 .. MaxPages,
         UNCHANGED durable, Store!TypeOK',
         Running("INSERT") => pid' \in -1 .. pgCount - 1 /\ count' \in {0, 1},
         query.op \in {"SELECT", "DELETE", "UPDATE"} => pid' \in 0 .. pgCount
  PROVE  TypedInv'
<1>1. /\ count' \in Nat /\ UNCHANGED <<query, pgCount, before, durable>>
  BY DEF Advance, TypedInv, TypeOK
<1>2. TypeOK'
  BY <1>1 DEF TypedInv, TypeOK
<1>3. LoopInv'
  BY <1>1 DEF TypedInv, LoopInv, Idle, Running
<1> QED
  BY <1>2, <1>3 DEF TypedInv

\* The page that a running statement looks at, and the page it may put.
LEMMA FetchedType ==
  ASSUME TypedInv, ~Idle
  PROVE  /\ query \in Queries /\ query.table \in Tables
         /\ pgCount \in 0 .. MaxPages /\ MaxPages \in Nat
         /\ \A p \in PageIds : view[query.table][p] \in PageContents
         /\ pid \in PageIds => Fetched \in PageContents
  BY QueryKinds, HeapTableAssumption DEF TypedInv, LoopInv, TypeOK, Store!TypeOK, Fetched

\* An INSERT stores a row where there is room for it, or in the page behind the file.
LEMMA InsertType ==
  ASSUME TypedInv, InsertProbe \/ InsertNewPage
  PROVE  TypedInv'
<1>1. Running("INSERT") /\ count = 0 /\ ~Idle /\ query.op = "INSERT"
  BY DEF InsertProbe, InsertNewPage, Running, Idle
<1>2. /\ query \in Queries /\ query.row \in Rows /\ pgCount < MaxPages /\ pid \in -1 .. pgCount - 1
      /\ pgCount \in 0 .. MaxPages /\ MaxPages \in Nat
  BY <1>1, FetchedType, QueryKinds DEF TypedInv, LoopInv
<1>3. CASE InsertProbe /\ isFull(Fetched)
  <2>1. pid >= 0 /\ pid' = pid - 1 /\ Advance(0) /\ UNCHANGED store
    BY <1>3 DEF InsertProbe
  <2>2. Store!TypeOK' /\ UNCHANGED durable
    BY <2>1 DEF TypedInv, TypeOK, store, Store!TypeOK
  <2>3. count' = 0
    BY <1>1, <2>1 DEF Advance
  <2> QED
    BY <1>1, <1>2, <2>1, <2>2, <2>3, StepType
<1>4. CASE InsertProbe /\ ~isFull(Fetched)
  <2>1. pid >= 0 /\ pid' = pid /\ Advance(1) /\ Put(pid, Append(Fetched, query.row))
    BY <1>4 DEF InsertProbe
  <2>2. pid \in PageIds
    BY <1>2, <2>1 DEF PageIds
  <2>3. Append(Fetched, query.row) \in PageContents
    <3>1. Fetched \in PageContents
      BY <1>1, <2>2, FetchedType
    <3>2. PICK m \in 0 .. RowsPerPage : Fetched \in [1 .. m -> Rows]
      BY <3>1 DEF PageContents, BoundedSeq, SeqOf
    <3>3. m + 1 \in 0 .. RowsPerPage /\ m \in Nat
      BY <1>4, <3>2, HeapTableAssumption DEF isFull
    <3>4. Append(Fetched, query.row) \in [1 .. m + 1 -> Rows]
      <4>1. Fetched \in Seq(Rows) /\ Len(Fetched) = m
        BY <3>2, <3>3
      <4>2. /\ Append(Fetched, query.row) \in Seq(Rows)
            /\ Len(Append(Fetched, query.row)) = m + 1
        BY <1>2, <4>1
      <4> DEFINE new == Append(Fetched, query.row)
      <4> HIDE DEF new
      <4>3. new \in Seq(Rows) /\ Len(new) = m + 1
        BY <4>2 DEF new
      <4>4. new \in [1 .. m + 1 -> Rows]
        BY <4>3
      <4> QED
        BY <4>4 DEF new
    <3> QED
      BY <3>3, <3>4 DEF PageContents, BoundedSeq, SeqOf
  <2>4. Store!TypeOK' /\ UNCHANGED durable
    BY <1>1, <2>1, <2>2, <2>3, PutEffect
  <2>5. count' = 1
    BY <1>1, <2>1 DEF Advance
  <2> QED
    BY <1>1, <1>2, <2>1, <2>4, <2>5, StepType
<1>5. CASE InsertNewPage
  <2>1. pid = -1 /\ pid' = pid /\ Advance(1) /\ Put(pgCount, <<query.row>>)
    BY <1>5 DEF InsertNewPage
  <2>2. pgCount \in PageIds
    BY <1>2 DEF PageIds
  <2>3. <<query.row>> \in PageContents
    <3>1. <<query.row>> \in [1 .. 1 -> Rows] /\ 1 \in 0 .. RowsPerPage
      BY <1>2, HeapTableAssumption
    <3> QED
      BY <3>1 DEF PageContents, BoundedSeq, SeqOf
  <2>4. Store!TypeOK' /\ UNCHANGED durable
    BY <1>1, <2>1, <2>2, <2>3, PutEffect
  <2>5. count' = 1
    BY <1>1, <2>1 DEF Advance
  <2> QED
    BY <1>1, <1>2, <2>1, <2>4, <2>5, StepType
<1> QED
  BY <1>3, <1>4, <1>5 DEF InsertProbe

\* What UPDATE makes of a page: the matching rows assigned to, in place.
Updated(content) ==
  [i \in DOMAIN content |-> IF Matches(content[i]) THEN query.set[content[i]] ELSE content[i]]

\* What is updated is a page, and the same page if no row of it matches.
LEMMA UpdatedPage ==
  ASSUME NEW content \in PageContents, query \in Queries, query.op = "UPDATE"
  PROVE  /\ Updated(content) \in PageContents
         /\ Matching(content) = 0 => Updated(content) = content
<1>1. PICK m \in 0 .. RowsPerPage : content \in [1 .. m -> Rows]
  BY DEF PageContents, BoundedSeq, SeqOf
<1>2. query.set \in [Rows -> Rows]
  BY QueryKinds
<1>3. Updated(content) \in [1 .. m -> Rows]
  BY <1>1, <1>2 DEF Updated
<1>4. ASSUME Matching(content) = 0
      PROVE  Updated(content) = content
  BY <1>1, <1>4, NoneMatch DEF Updated
<1> QED
  BY <1>3, <1>4 DEF PageContents, BoundedSeq, SeqOf

\* The loops over pages: every page is left alone or replaced by another page.
LEMMA LoopType ==
  ASSUME TypedInv, UpdatePage \/ DeletePage \/ ScanPage
  PROVE  TypedInv' /\ pid \in PageIds /\ pid \in 0 .. pgCount - 1 /\ pid' = pid + 1
<1>1. ~Idle /\ query.op \in {"UPDATE", "DELETE", "SELECT"} /\ pid < pgCount /\ pid' = pid + 1
  BY DEF UpdatePage, DeletePage, ScanPage, Running, Idle
<1>2. /\ query \in Queries /\ pid \in 0 .. pgCount /\ pgCount \in 0 .. MaxPages /\ MaxPages \in Nat
  BY <1>1, FetchedType DEF TypedInv, LoopInv
<1>3. pid \in PageIds /\ pid' \in 0 .. pgCount /\ pid' \in -1 .. MaxPages
  BY <1>1, <1>2 DEF PageIds
<1>4. Fetched \in PageContents
  BY <1>1, <1>3, FetchedType
<1>5. UNCHANGED store => Store!TypeOK' /\ UNCHANGED durable
  BY DEF TypedInv, TypeOK, store, Store!TypeOK
<1>6. ASSUME NEW content \in PageContents, Put(pid, content)
      PROVE  Store!TypeOK' /\ UNCHANGED durable
  BY <1>1, <1>3, <1>6, PutEffect
<1>7. /\ Store!TypeOK' /\ UNCHANGED durable
      /\ \E n \in Nat : Advance(n)
  <2>1. CASE UpdatePage
    <3>1. Updated(Fetched) \in PageContents /\ Matching(Fetched) \in Nat
      BY <1>2, <1>4, <2>1, UpdatedPage, NoneMatch DEF UpdatePage, Running
    <3>2. Advance(Matching(Fetched)) /\ (UNCHANGED store \/ Put(pid, Updated(Fetched)))
      BY <2>1 DEF UpdatePage, Updated
    <3> QED
      BY <1>5, <1>6, <3>1, <3>2
  <2>2. CASE DeletePage
    <3> DEFINE kept == Compacted(Fetched)
    <3>1. kept \in PageContents /\ Len(Fetched) - Len(kept) \in Nat
      BY <1>4, CompactedPage
    <3>2. Advance(Len(Fetched) - Len(kept)) /\ (UNCHANGED store \/ Put(pid, kept))
      BY <2>2 DEF DeletePage
    <3> HIDE DEF kept
    <3> QED
      BY <1>5, <1>6, <3>1, <3>2
  <2>3. CASE ScanPage
    BY <1>4, <1>5, <2>3, NoneMatch DEF ScanPage
  <2> QED
    BY <2>1, <2>2, <2>3
<1> QED
  BY <1>1, <1>2, <1>3, <1>7, StepType DEF Running

\* A page written back leaves what the program sees, and no file gets shorter.
LEMMA WriteBackType ==
  ASSUME TypedInv, WriteBack
  PROVE  /\ TypedInv' /\ UNCHANGED <<view, query, pgCount, pid, count, before>>
         /\ dirty' \subseteq dirty
         /\ \A t \in Tables : Len(durable[t]) <= Len(durable'[t])
<1>1. PICK t \in Tables, p \in PageIds : Store!WriteBack(t, p)
  BY DEF WriteBack
<1>2. /\ UNCHANGED <<view, query, pgCount, pid, count, before>> /\ dirty' = dirty \ {<<t, p>>}
      /\ durable' = [durable EXCEPT ![t] = Store!writePage(durable[t], p, view[t][p])]
  BY <1>1 DEF WriteBack, Store!WriteBack, locals
<1>3. /\ durable \in [Tables -> Seq(PageContents)] /\ view[t][p] \in PageContents /\ p \in Nat
      /\ p < MaxPages /\ \A u \in Tables : Len(durable[u]) <= MaxPages
      /\ \A u \in Tables : Len(durable[u]) \in Nat
  BY HeapTableAssumption DEF TypedInv, TypeOK, LoopInv, Store!TypeOK, PageIds
<1>4. /\ Store!writePage(durable[t], p, view[t][p]) \in Seq(PageContents)
      /\ Len(Store!writePage(durable[t], p, view[t][p])) >= Len(durable[t])
      /\ Len(Store!writePage(durable[t], p, view[t][p])) <= MaxPages
  <2> DEFINE file == durable[t]
             content == view[t][p]
             new == Store!writePage(file, p, content)
  <2>1. file \in Seq(PageContents) /\ content \in PageContents /\ p \in Nat
    BY <1>3
  <2>2. Len(file) \in Nat /\ Len(file) <= MaxPages /\ p < MaxPages /\ MaxPages \in Nat
    BY <1>3, HeapTableAssumption
  <2> HIDE DEF file, content
  <2>3. /\ new \in Seq(PageContents)
        /\ Len(new) = IF p < Len(file) THEN Len(file) ELSE p + 1
    BY <2>1, WriteKeepsFile
  <2> HIDE DEF new
  <2>4. Len(new) >= Len(file) /\ Len(new) <= MaxPages
    BY <2>1, <2>2, <2>3
  <2> QED
    BY <2>3, <2>4 DEF new, file, content
<1>5. /\ durable' \in [Tables -> Seq(PageContents)]
      /\ \A u \in Tables : Len(durable[u]) <= Len(durable'[u]) /\ Len(durable'[u]) <= MaxPages
  BY <1>2, <1>3, <1>4
<1>6. \A u \in Tables : Len(durable'[u]) \in Nat
  BY <1>5
<1>7. TypeOK'
  BY <1>2, <1>5 DEF TypedInv, TypeOK, Store!TypeOK
<1>8. LoopInv'
  <2>1. LoopInv /\ pgCount \in Nat
    BY HeapTableAssumption DEF TypedInv, TypeOK
  <2>2. ~Idle => query.table \in Tables
    BY <2>1, QueryKinds DEF LoopInv
  <2>3. ~Idle => pgCount <= Len(durable'[query.table])
    BY <1>3, <1>5, <1>6, <2>1, <2>2 DEF LoopInv
  <2> QED
    BY <1>2, <1>5, <2>1, <2>3 DEF LoopInv, Idle, Running
<1> QED
  BY <1>2, <1>5, <1>7, <1>8 DEF TypedInv

\* Ending a statement, and a restart.
LEMMA EndType ==
  ASSUME TypedInv, End
  PROVE  TypedInv' /\ Idle' /\ UNCHANGED store
<1>1. NoLocals' /\ UNCHANGED store
  BY DEF End, NoLocals
<1>2. Store!TypeOK' /\ UNCHANGED durable
  BY <1>1 DEF TypedInv, TypeOK, store, Store!TypeOK
<1> QED
  BY <1>1, <1>2, StopType DEF NoLocals, Idle, Running, NoQuery

\* A new process sees what the files hold.
LEMMA RestartType ==
  ASSUME TypedInv, Restart
  PROVE  TypedInv' /\ Idle' /\ UNCHANGED durable /\ dirty' = {}
         /\ view' = Store!FreshView(durable)
<1>1. NoLocals' /\ UNCHANGED durable /\ dirty' = {} /\ view' = Store!FreshView(durable)
  BY DEF Restart, NoLocals, Store!Restart
<1>2. Store!TypeOK'
  BY <1>1, FreshViewType DEF TypedInv, TypeOK, Store!TypeOK
<1> QED
  BY <1>1, <1>2, StopType DEF NoLocals, Idle, Running, NoQuery

(***************************************************************************)
(* Every variable has its type, and every statement stays within the pages *)
(* its file had when it began, in every state of every execution.          *)
(***************************************************************************)
THEOREM TypedInvariant == Spec => []TypedInv
<1>1. TypedInv /\ [Next]_vars => TypedInv'
  <2> SUFFICES ASSUME TypedInv, [Next]_vars PROVE TypedInv'
    OBVIOUS
  <2>1. CASE \E q \in Queries : Begin(q)
    BY <2>1, BeginType
  <2>2. CASE InsertProbe \/ InsertNewPage
    BY <2>2, InsertType
  <2>3. CASE UpdatePage \/ DeletePage \/ ScanPage
    BY <2>3, LoopType
  <2>4. CASE End
    BY <2>4, EndType
  <2>5. CASE WriteBack
    BY <2>5, WriteBackType
  <2>6. CASE Restart
    BY <2>6, RestartType
  <2>7. CASE UNCHANGED vars
    BY <2>7 DEF vars, TypedInv, TypeOK, LoopInv, Store!TypeOK, Idle, Running
  <2> QED
    BY <2>1, <2>2, <2>3, <2>4, <2>5, <2>6, <2>7 DEF Next, Step
<1> QED
  BY <1>1, InitType, PTL DEF Spec

-----------------------------------------------------------------------------
(* No holes *)

\* A page of the file, or the one behind it, may be put.
LEMMA PutNoGaps ==
  ASSUME TypedInv, NoGaps, ~Idle, NEW p \in PageIds, p <= Len(durable[query.table]),
         NEW content, Put(p, content)
  PROVE  NoGaps'
<1>1. /\ UNCHANGED durable /\ dirty' = dirty \union {<<query.table, p>>}
      /\ view' = [view EXCEPT ![query.table] = [@ EXCEPT ![p] = content]]
  BY PutEffect
<1>2. /\ query.table \in Tables /\ view \in [Tables -> [PageIds -> PageContents]]
  BY FetchedType DEF TypedInv, TypeOK, Store!TypeOK
<1>3. ASSUME NEW t \in Tables, NEW r \in PageIds, <<t, r>> # <<query.table, p>>
      PROVE  view'[t][r] = view[t][r] /\ (<<t, r>> \in dirty' <=> <<t, r>> \in dirty)
  BY <1>1, <1>2, <1>3
<1> QED
  BY <1>1, <1>3 DEF NoGaps, Store!pageCount

(***************************************************************************)
(* Statements, evictions and restarts in any order leave no hole in a      *)
(* file, so that every loop over page numbers is complete.                 *)
(***************************************************************************)
THEOREM NoHoles == Spec => []NoGaps
<1>1. Init => NoGaps
  <2> SUFFICES ASSUME Init, NEW t \in Tables, NEW p \in PageIds
               PROVE  ~(p <= Len(durable[t])) => view[t][p] = << >> /\ dirty = {}
    BY DEF NoGaps, Store!pageCount
  <2>1. view[t][p] = Store!readPage(durable[t], p) /\ dirty = {}
    BY DEF Init, Store!FreshView
  <2>2. p \in Nat /\ Len(durable[t]) \in Nat
    BY InitType, HeapTableAssumption DEF TypedInv, TypeOK, Store!TypeOK, PageIds
  <2> QED
    BY <2>1, <2>2 DEF Store!readPage, Store!pageCount
<1>2. TypedInv /\ NoGaps /\ [Next]_vars => NoGaps'
  <2> SUFFICES ASSUME TypedInv, NoGaps, [Next]_vars PROVE NoGaps'
    OBVIOUS
  <2>1. UNCHANGED store => NoGaps'
    BY DEF store, NoGaps
  <2>2. CASE \E q \in Queries : Begin(q)
    BY <2>1, <2>2 DEF Begin
  <2>3. CASE InsertProbe \/ InsertNewPage
    <3>1. /\ ~Idle /\ Running("INSERT") /\ pid \in -1 .. pgCount - 1 /\ pgCount < MaxPages
          /\ pgCount \in 0 .. MaxPages /\ pgCount <= Len(durable[query.table])
          /\ Len(durable[query.table]) \in Nat /\ MaxPages \in Nat
      BY <2>3, FetchedType DEF InsertProbe, InsertNewPage, TypedInv, LoopInv, Idle, Running,
                               TypeOK, Store!TypeOK
    <3>2. pgCount \in PageIds /\ (pid >= 0 => pid \in PageIds /\ pid <= Len(durable[query.table]))
      BY <3>1 DEF PageIds
    <3>3. \/ UNCHANGED store
          \/ pid >= 0 /\ Put(pid, Append(Fetched, query.row))
          \/ Put(pgCount, <<query.row>>)
      BY <2>3 DEF InsertProbe, InsertNewPage
    <3> QED
      BY <2>1, <3>1, <3>2, <3>3, PutNoGaps
  <2>4. CASE UpdatePage \/ DeletePage \/ ScanPage
    <3>1. /\ ~Idle /\ pid \in PageIds /\ pid \in 0 .. pgCount - 1 /\ pgCount \in 0 .. MaxPages
          /\ pgCount <= Len(durable[query.table]) /\ Len(durable[query.table]) \in Nat
      BY <2>4, LoopType, FetchedType
         DEF UpdatePage, DeletePage, ScanPage, TypedInv, LoopInv, Idle, Running, TypeOK,
             Store!TypeOK
    <3>2. pid <= Len(durable[query.table])
      BY <3>1
    <3>3. UNCHANGED store \/ \E content : Put(pid, content)
      BY <2>4 DEF UpdatePage, DeletePage, ScanPage
    <3> QED
      BY <2>1, <3>1, <3>2, <3>3, PutNoGaps
  <2>5. CASE End
    BY <2>1, <2>5, EndType
  <2>6. CASE WriteBack
    <3> SUFFICES ASSUME NEW t \in Tables, NEW p \in PageIds,
                        view[t][p] # << >> \/ <<t, p>> \in dirty'
                 PROVE  p <= Len(durable'[t])
      BY <2>6, WriteBackType DEF NoGaps, Store!pageCount
    <3>1. p <= Len(durable[t])
      BY <2>6, WriteBackType DEF NoGaps, Store!pageCount
    <3>2. p \in Nat /\ Len(durable[t]) \in Nat /\ Len(durable'[t]) \in Nat
      BY <2>6, WriteBackType, HeapTableAssumption DEF TypedInv, TypeOK, Store!TypeOK, PageIds
    <3> QED
      BY <2>6, <3>1, <3>2, WriteBackType
  <2>7. CASE Restart
    <3> SUFFICES ASSUME NEW t \in Tables, NEW p \in PageIds, view'[t][p] # << >>
                 PROVE  p <= Len(durable[t])
      BY <2>7, RestartType DEF NoGaps, Store!pageCount
    <3>1. view'[t][p] = Store!readPage(durable[t], p)
      BY <2>7, RestartType DEF Store!FreshView
    <3>2. p \in Nat /\ Len(durable[t]) \in Nat
      BY HeapTableAssumption DEF TypedInv, TypeOK, Store!TypeOK, PageIds
    <3> QED
      BY <3>1, <3>2 DEF Store!readPage, Store!pageCount
  <2>8. CASE UNCHANGED vars
    BY <2>1, <2>8 DEF vars, store
  <2> QED
    BY <2>2, <2>3, <2>4, <2>5, <2>6, <2>7, <2>8 DEF Next, Step
<1> QED
  BY <1>1, <1>2, TypedInvariant, PTL DEF Spec

-----------------------------------------------------------------------------
(* What a statement has done by the time it returns *)

\* A step after which a statement is running begins it, is one of its own, or
\* leaves what it works on alone.
LEMMA StepKinds ==
  ASSUME TypedInv, [Next]_vars, ~Idle'
  PROVE  \/ \E q \in Queries : Begin(q)
         \/ /\ InsertProbe \/ InsertNewPage \/ UpdatePage \/ DeletePage \/ ScanPage
            /\ ~Idle /\ UNCHANGED <<query, pgCount, before>>
         \/ UNCHANGED <<view, query, pgCount, pid, count, before>>
<1>1. CASE InsertProbe \/ InsertNewPage \/ UpdatePage \/ DeletePage \/ ScanPage
  <2>1. ~Idle
    BY <1>1 DEF InsertProbe, InsertNewPage, UpdatePage, DeletePage, ScanPage, Idle, Running
  <2> QED
    BY <1>1, <2>1 DEF InsertProbe, InsertNewPage, UpdatePage, DeletePage, ScanPage, Advance
<1>2. ~End /\ ~Restart
  BY EndType, RestartType
<1>3. CASE WriteBack
  BY <1>3, WriteBackType
<1>4. CASE UNCHANGED vars
  BY <1>4 DEF vars
<1> QED
  BY <1>1, <1>2, <1>3, <1>4 DEF Next, Step

\* The pages an UPDATE has passed are updated, the others as it found them.
UpdateInv ==
  Running("UPDATE") =>
    \A p \in PageIds :
      view[query.table][p] = IF p < pid THEN Updated(before[p]) ELSE before[p]

\* Each round of the loop of executeUpdate updates one page more.
LEMMA UpdateProgress ==
  ASSUME TypedInv, UpdateInv, [Next]_vars
  PROVE  UpdateInv'
<1> SUFFICES ASSUME Running("UPDATE")', NEW p \in PageIds
             PROVE  view'[query'.table][p] =
                      IF p < pid' THEN Updated(before[p])' ELSE before'[p]
  BY DEF UpdateInv
<1>1. p \in Nat
  BY HeapTableAssumption DEF PageIds
<1>2. ASSUME NEW q \in Queries, Begin(q)
      PROVE  view'[query'.table][p] = before'[p] /\ pid' = 0
  BY <1>2 DEF Begin, Running, store
<1>3. CASE UNCHANGED <<view, query, pgCount, pid, count, before>>
  BY <1>3 DEF UpdateInv, Updated, Matches, Running
<1>4. CASE UpdatePage /\ UNCHANGED <<query, pgCount, before>>
  <2>1. /\ ~Idle /\ Running("UPDATE") /\ query.op = "UPDATE" /\ query \in Queries
        /\ pid \in PageIds /\ pid \in Nat /\ pid' = pid + 1
    BY <1>4, LoopType, HeapTableAssumption DEF UpdatePage, Running, Idle, TypedInv, LoopInv, PageIds
  <2>2. Fetched \in PageContents /\ Fetched = before[pid]
    BY <2>1, FetchedType DEF UpdateInv, Fetched
  <2>3. \A r \in PageIds : Updated(before[r])' = Updated(before[r])
    BY <1>4 DEF Updated, Matches
  <2>4. CASE Matching(Fetched) > 0
    <3>1. Put(pid, Updated(Fetched))
      BY <1>4, <2>4 DEF UpdatePage, Updated
    <3>2. view' = [view EXCEPT ![query.table] = [@ EXCEPT ![pid] = Updated(Fetched)]]
      BY <2>1, <3>1, PutEffect
    <3>3. view'[query.table][p] = IF p = pid THEN Updated(Fetched) ELSE view[query.table][p]
      BY <2>1, <3>2, FetchedType DEF TypedInv, TypeOK, Store!TypeOK
    <3> QED
      BY <1>1, <1>4, <2>1, <2>2, <2>3, <3>3 DEF UpdateInv
  <2>5. CASE ~(Matching(Fetched) > 0)
    <3>1. view' = view
      BY <1>4, <2>5 DEF UpdatePage, store
    <3>2. Updated(Fetched) = Fetched
      BY <2>1, <2>2, <2>5, NoneMatch, UpdatedPage
    <3> QED
      BY <1>1, <1>4, <2>1, <2>2, <2>3, <3>1, <3>2 DEF UpdateInv
  <2> QED
    BY <2>4, <2>5
<1>5. ~Idle'
  BY DEF Idle, Running
<1>6. CASE /\ InsertProbe \/ InsertNewPage \/ DeletePage \/ ScanPage
           /\ UNCHANGED <<query, pgCount, before>>
  BY <1>6 DEF InsertProbe, InsertNewPage, DeletePage, ScanPage, Running
<1> QED
  BY <1>1, <1>2, <1>3, <1>4, <1>5, <1>6, StepKinds

(***************************************************************************)
(* An UPDATE that returns has assigned to exactly the rows that matched    *)
(* when it began, in place and on all pages of the file (executeUpdate).   *)
(***************************************************************************)
THEOREM UpdateExact == Spec => UpdateRewritesMatches
<1>1. Init => UpdateInv
  BY DEF Init, NoLocals, UpdateInv, Running, NoQuery
<1>2. TypedInv /\ UpdateInv /\ [Next]_vars =>
        [End /\ Running("UPDATE") =>
           view[query.table] =
             [p \in PageIds |-> [i \in DOMAIN before[p] |->
                IF p < pgCount /\ Matches(before[p][i])
                THEN query.set[before[p][i]] ELSE before[p][i]]]]_vars
  <2> SUFFICES ASSUME TypedInv, UpdateInv, End, Running("UPDATE")
               PROVE  view[query.table] =
                        [p \in PageIds |-> [i \in DOMAIN before[p] |->
                           IF p < pgCount /\ Matches(before[p][i])
                           THEN query.set[before[p][i]] ELSE before[p][i]]]
    OBVIOUS
  <2>1. ~Idle /\ pid = pgCount
    BY DEF End, Idle, Running
  <2>2. query.table \in Tables /\ view[query.table] \in [PageIds -> PageContents]
    BY <2>1, FetchedType DEF TypedInv, TypeOK, Store!TypeOK
  <2>3. ASSUME NEW p \in PageIds
        PROVE  view[query.table][p] = [i \in DOMAIN before[p] |->
                 IF p < pgCount /\ Matches(before[p][i])
                 THEN query.set[before[p][i]] ELSE before[p][i]]
    <3>1. before[p] = [i \in DOMAIN before[p] |-> before[p][i]]
      <4>1. before[p] \in PageContents
        BY DEF TypedInv, TypeOK
      <4> QED
        BY <4>1 DEF PageContents, BoundedSeq, SeqOf
    <3>2. CASE p < pgCount
      BY <2>1, <3>2 DEF UpdateInv, Updated
    <3>3. CASE ~(p < pgCount)
      <4>1. view[query.table][p] = before[p]
        BY <2>1, <3>3 DEF UpdateInv
      <4> HIDE DEF Matches
      <4> QED
        BY <3>1, <3>3, <4>1
    <3> QED
      BY <3>2, <3>3
  <2> QED
    BY <2>2, <2>3
<1> QED
  BY <1>1, <1>2, UpdateProgress, TypedInvariant, PTL DEF Spec, UpdateRewritesMatches

\* The pages a DELETE has passed keep what stays, the others are as it found them.
DeleteInv ==
  Running("DELETE") =>
    \A p \in PageIds :
      view[query.table][p] = IF p < pid THEN Compacted(before[p]) ELSE before[p]

\* Each round of the loop of executeDelete compacts one page more, written or not.
LEMMA DeleteProgress ==
  ASSUME TypedInv, DeleteInv, [Next]_vars
  PROVE  DeleteInv'
<1> SUFFICES ASSUME Running("DELETE")', NEW p \in PageIds
             PROVE  view'[query'.table][p] =
                      IF p < pid' THEN Compacted(before[p])' ELSE before'[p]
  BY DEF DeleteInv
<1>1. p \in Nat
  BY HeapTableAssumption DEF PageIds
<1>2. ASSUME NEW q \in Queries, Begin(q)
      PROVE  view'[query'.table][p] = before'[p] /\ pid' = 0
  BY <1>2 DEF Begin, Running, store
<1>3. UNCHANGED <<query, before>> =>
        \A r \in PageIds : Compacted(before[r])' = Compacted(before[r])
  BY DEF Compacted, Staying, Deletes
<1>4. CASE UNCHANGED <<view, query, pgCount, pid, count, before>>
  BY <1>3, <1>4 DEF DeleteInv, Running
<1>5. CASE DeletePage /\ UNCHANGED <<query, pgCount, before>>
  <2>1. /\ ~Idle /\ Running("DELETE") /\ pid \in PageIds /\ pid \in Nat /\ pid' = pid + 1
        /\ count \in Nat
    BY <1>5, LoopType, HeapTableAssumption
       DEF DeletePage, Running, Idle, TypedInv, TypeOK, LoopInv, PageIds
  <2>2. Fetched \in PageContents /\ Fetched = before[pid]
    BY <2>1, FetchedType DEF DeleteInv, Fetched
  <2> DEFINE kept == Compacted(Fetched)
             n == Len(Fetched) - Len(kept)
  <2>3. n \in Nat /\ (n = 0 => kept = Fetched)
    <3>1. Len(Fetched) \in Int /\ Len(kept) \in Int
      <4>1. \A c \in PageContents : Len(c) \in Int
        BY HeapTableAssumption DEF PageContents, BoundedSeq, SeqOf
      <4> QED
        BY <2>2, <4>1, CompactedPage
    <3>2. n \in Nat /\ (Len(Fetched) = Len(kept) => kept = Fetched)
      BY <2>2, CompactedPage
    <3> HIDE DEF kept
    <3> QED
      BY <3>1, <3>2
  <2>4. IF count + n > 0 THEN Put(pid, kept) ELSE UNCHANGED store
    BY <1>5 DEF DeletePage
  <2> HIDE DEF kept, n
  <2>5. CASE count + n > 0
    <3>1. view' = [view EXCEPT ![query.table] = [@ EXCEPT ![pid] = kept]]
      BY <2>1, <2>4, <2>5, PutEffect
    <3>2. view'[query.table][p] = IF p = pid THEN kept ELSE view[query.table][p]
      BY <2>1, <3>1, FetchedType DEF TypedInv, TypeOK, Store!TypeOK
    <3> QED
      BY <1>1, <1>3, <1>5, <2>1, <2>2, <3>2 DEF DeleteInv, kept
  <2>6. CASE ~(count + n > 0)
    <3>1. view' = view /\ kept = Fetched
      BY <2>1, <2>3, <2>4, <2>6 DEF store
    <3> QED
      BY <1>1, <1>3, <1>5, <2>1, <2>2, <3>1 DEF DeleteInv, kept
  <2> QED
    BY <2>5, <2>6
<1>6. ~Idle'
  BY DEF Idle, Running
<1>7. CASE /\ InsertProbe \/ InsertNewPage \/ UpdatePage \/ ScanPage
           /\ UNCHANGED <<query, pgCount, before>>
  BY <1>7 DEF InsertProbe, InsertNewPage, UpdatePage, ScanPage, Running
<1> QED
  BY <1>1, <1>2, <1>4, <1>5, <1>6, <1>7, StepKinds

(***************************************************************************)
(* A DELETE that returns has removed exactly the rows its WHERE accepted;  *)
(* the others are still there, each once and in order (executeDelete).     *)
(***************************************************************************)
THEOREM DeleteExact == Spec => DeleteKeepsTheOthers
<1>1. Init => DeleteInv
  BY DEF Init, NoLocals, DeleteInv, Running, NoQuery
<1>2. ASSUME TypedInv, DeleteInv, End, Running("DELETE"), NEW p \in PageIds
      PROVE  IF p >= pgCount THEN view[query.table][p] = before[p]
             ELSE \E place \in Bijection(Staying(before[p]), DOMAIN view[query.table][p]) :
                    /\ \A i \in Staying(before[p]) : view[query.table][p][place[i]] = before[p][i]
                    /\ \A i, j \in Staying(before[p]) : i < j => place[i] < place[j]
  <2>1. pid = pgCount /\ ~Idle
    BY <1>2 DEF End, Idle, Running
  <2>2. p \in Nat /\ pgCount \in Nat /\ before[p] \in PageContents
    BY <1>2, HeapTableAssumption DEF PageIds, TypedInv, TypeOK
  <2>3. view[query.table][p] = IF p < pgCount THEN Compacted(before[p]) ELSE before[p]
    BY <1>2, <2>1 DEF DeleteInv
  <2>4. CASE p >= pgCount
    BY <2>2, <2>3, <2>4
  <2>5. CASE ~(p >= pgCount)
    <3>1. view[query.table][p] = Compacted(before[p])
      BY <2>2, <2>3, <2>5
    <3> QED
      BY <2>2, <2>5, <3>1, CompactedPage
  <2> QED
    BY <2>4, <2>5
<1>3. TypedInv /\ DeleteInv /\ [Next]_vars =>
        [End /\ Running("DELETE") =>
           \A p \in PageIds :
             LET old == before[p]
                 new == view[query.table][p]
             IN  IF p >= pgCount THEN new = old
                 ELSE \E place \in Bijection(Staying(old), DOMAIN new) :
                        /\ \A i \in Staying(old) : new[place[i]] = old[i]
                        /\ \A i, j \in Staying(old) : i < j => place[i] < place[j]]_vars
  BY <1>2
<1> QED
  BY <1>1, <1>3, DeleteProgress, TypedInvariant, PTL DEF Spec, DeleteKeepsTheOthers

\* What an INSERT has done while it looks for room, and when it found it.
Added(p) ==
  /\ \A q \in PageIds \ {p} : view[query.table][q] = before[q]
  /\ view[query.table][p] =
       IF p < pgCount THEN Append(before[p], query.row) ELSE <<query.row>>
  /\ p = pgCount => \A q \in 0 .. pgCount - 1 : Len(before[q]) = RowsPerPage

InsertInv ==
  Running("INSERT") =>
    /\ count = 0 => /\ view[query.table] = before
                    /\ \A q \in 0 .. pgCount - 1 : q > pid => Len(before[q]) = RowsPerPage
    /\ count = 1 => \E p \in 0 .. pgCount : Added(p)

\* A page that executeInsert leaves behind is full, until it stores its row.
LEMMA InsertProgress ==
  ASSUME TypedInv, InsertInv, [Next]_vars
  PROVE  InsertInv'
<1> SUFFICES ASSUME Running("INSERT")' PROVE InsertInv!2'
  BY DEF InsertInv
<1>1. ASSUME NEW q \in Queries, Begin(q)
      PROVE  InsertInv!2'
  <2>1. /\ count' = 0 /\ view'[query'.table] = before' /\ pid' = pgCount' - 1
        /\ pgCount' \in Int
    BY <1>1, QueryKinds DEF Begin, Running, store, Store!pageCount, TypedInv, TypeOK, Store!TypeOK
  <2> QED
    BY <2>1
<1>2. CASE UNCHANGED <<view, query, pgCount, pid, count, before>>
  BY <1>2 DEF InsertInv, Added, Running
<1>3. CASE (InsertProbe \/ InsertNewPage) /\ UNCHANGED <<query, pgCount, before>>
  <2>1. /\ ~Idle /\ Running("INSERT") /\ count = 0 /\ view[query.table] = before
        /\ \A q \in 0 .. pgCount - 1 : q > pid => Len(before[q]) = RowsPerPage
    BY <1>3 DEF InsertProbe, InsertNewPage, Running, Idle, InsertInv
  <2>2. /\ pid \in -1 .. pgCount - 1 /\ pgCount < MaxPages /\ pgCount \in Nat
        /\ MaxPages \in Nat /\ query.table \in Tables
    BY <2>1, FetchedType DEF TypedInv, LoopInv
  <2>3. CASE InsertProbe /\ isFull(Fetched)
    <3>1. pid >= 0 /\ pid' = pid - 1 /\ count' = 0 /\ view' = view
      BY <2>1, <2>3 DEF InsertProbe, Advance, store
    <3>2. Len(before[pid]) = RowsPerPage
      <4>1. pid \in PageIds /\ Fetched = before[pid] /\ Fetched \in PageContents
        BY <2>1, <2>2, <3>1, FetchedType DEF PageIds, Fetched
      <4>2. PICK m \in 0 .. RowsPerPage : Fetched \in [1 .. m -> Rows]
        BY <4>1 DEF PageContents, BoundedSeq, SeqOf
      <4> QED
        BY <2>3, <4>1, <4>2, HeapTableAssumption DEF isFull
    <3> QED
      BY <1>3, <2>1, <2>2, <3>1, <3>2
  <2>4. ASSUME NEW p \in 0 .. pgCount, count' = 1,
               Put(p, IF p < pgCount THEN Append(before[p], query.row) ELSE <<query.row>>),
               p = pgCount => pid = -1
        PROVE  InsertInv!2'
    <3> DEFINE content == IF p < pgCount THEN Append(before[p], query.row) ELSE <<query.row>>
    <3>1. p \in PageIds
      BY <2>2 DEF PageIds
    <3>2. view' = [view EXCEPT ![query.table] = [@ EXCEPT ![p] = content]]
      BY <2>1, <2>4, <3>1, PutEffect
    <3> HIDE DEF content
    <3>3. \A q \in PageIds : view'[query.table][q] = IF q = p THEN content ELSE before[q]
      BY <2>1, <2>2, <3>1, <3>2 DEF TypedInv, TypeOK, Store!TypeOK
    <3>4. p = pgCount => \A q \in 0 .. pgCount - 1 : Len(before[q]) = RowsPerPage
      BY <2>1, <2>2, <2>4
    <3>5. Added(p)'
      BY <1>3, <3>1, <3>3, <3>4 DEF Added, content
    <3> QED
      BY <1>3, <2>4, <3>5
  <2>5. CASE InsertProbe /\ ~isFull(Fetched)
    <3>1. pid >= 0 /\ count' = 1 /\ Put(pid, Append(before[pid], query.row))
      BY <2>1, <2>5 DEF InsertProbe, Advance, Fetched
    <3>2. pid \in 0 .. pgCount /\ pid < pgCount /\ pid # pgCount
      BY <2>2, <3>1
    <3> QED
      BY <2>4, <3>1, <3>2
  <2>6. CASE InsertNewPage
    <3>1. pid = -1 /\ count' = 1 /\ Put(pgCount, <<query.row>>)
      BY <2>1, <2>6 DEF InsertNewPage, Advance
    <3>2. pgCount \in 0 .. pgCount /\ ~(pgCount < pgCount)
      BY <2>2
    <3> QED
      BY <2>4, <3>1, <3>2
  <2> QED
    BY <1>3, <2>3, <2>5, <2>6
<1>4. ~Idle'
  BY DEF Idle, Running
<1>5. CASE (UpdatePage \/ DeletePage \/ ScanPage) /\ UNCHANGED <<query, pgCount, before>>
  BY <1>5 DEF UpdatePage, DeletePage, ScanPage, Running
<1> QED
  BY <1>1, <1>2, <1>3, <1>4, <1>5, StepKinds

(***************************************************************************)
(* An INSERT that returns has appended its row to one page of the file, or *)
(* has filled the page behind the file with it when no page had room       *)
(* (executeInsert); every other page is as it was.                         *)
(***************************************************************************)
THEOREM InsertExact == Spec => InsertAddsItsRow
<1>1. Init => InsertInv
  BY DEF Init, NoLocals, InsertInv, Running, NoQuery
<1>2. ASSUME TypedInv, InsertInv, End, Running("INSERT")
      PROVE  \E p \in 0 .. pgCount : Added(p)
  BY <1>2 DEF End, InsertInv
<1>3. TypedInv /\ InsertInv /\ [Next]_vars =>
        [End /\ Running("INSERT") =>
           \E p \in 0 .. pgCount :
             /\ \A q \in PageIds \ {p} : view[query.table][q] = before[q]
             /\ view[query.table][p] =
                  IF p < pgCount THEN Append(before[p], query.row) ELSE <<query.row>>
             /\ p = pgCount => \A q \in 0 .. pgCount - 1 : Len(before[q]) = RowsPerPage]_vars
  BY <1>2 DEF Added
<1> QED
  BY <1>1, <1>3, InsertProgress, TypedInvariant, PTL DEF Spec, InsertAddsItsRow

\* The matching rows on the first n pages, as page and place.
Hits(n) ==
  {pi \in (0 .. n - 1) \X (1 .. RowsPerPage) :
     pi[2] \in DOMAIN before[pi[1]] /\ Matches(before[pi[1]][pi[2]])}

\* The next page adds its own matches to those of the pages before it.
LEMMA HitsGrow ==
  ASSUME TypedInv, NEW n \in PageIds
  PROVE  /\ Cardinality(Hits(n)) \in Nat /\ Cardinality(Hits(0)) = 0
         /\ Cardinality(Hits(n + 1)) = Cardinality(Hits(n)) + Matching(before[n])
<1>1. n \in Nat /\ RowsPerPage \in Nat /\ before[n] \in PageContents
  BY HeapTableAssumption DEF PageIds, TypedInv, TypeOK
<1>2. PICK m \in 0 .. RowsPerPage : before[n] \in [1 .. m -> Rows]
  BY <1>1 DEF PageContents, BoundedSeq, SeqOf
<1> DEFINE own == {i \in DOMAIN before[n] : Matches(before[n][i])}
<1>3. own \in SUBSET (1 .. RowsPerPage)
  BY <1>1, <1>2
<1>4. IsFiniteSet(own) /\ IsFiniteSet({n}) /\ Cardinality({n}) = 1 /\ Cardinality(own) \in Nat
  <2>1. IsFiniteSet(1 .. RowsPerPage)
    BY <1>1, FS_Interval
  <2>2. IsFiniteSet(own)
    BY <1>3, <2>1, FS_Subset
  <2> HIDE DEF own
  <2> QED
    BY <2>2, FS_Singleton, FS_CardinalityType
<1>5. IsFiniteSet(Hits(n))
  <2>1. IsFiniteSet((0 .. n - 1) \X (1 .. RowsPerPage))
    <3>1. 0 \in Int /\ n - 1 \in Int /\ 1 \in Int /\ RowsPerPage \in Int
      BY <1>1
    <3>2. IsFiniteSet(0 .. n - 1) /\ IsFiniteSet(1 .. RowsPerPage)
      BY <3>1, FS_Interval
    <3> QED
      BY <3>2, FS_Product
  <2> QED
    BY <2>1, FS_Subset DEF Hits
<1>6. Hits(n + 1) = Hits(n) \union ({n} \X own)
  <2>1. 0 .. (n + 1) - 1 = (0 .. n - 1) \union {n}
    BY <1>1
  <2> QED
    BY <1>3, <2>1 DEF Hits
<1>7. Hits(n) \intersect ({n} \X own) = {}
  BY <1>1 DEF Hits
<1>8. Hits(0) = {}
  BY DEF Hits
<1> DEFINE page == {n} \X own
<1>9. IsFiniteSet(page) /\ Cardinality(page) = Cardinality(own)
  <2> HIDE DEF own
  <2>1. IsFiniteSet(page) /\ Cardinality(page) = 1 * Cardinality(own)
    BY <1>4, FS_Product
  <2> QED
    BY <1>4, <2>1
<1> HIDE DEF page, own
<1>10. Cardinality(Hits(n) \union page) =
         Cardinality(Hits(n)) + Cardinality(page) - Cardinality(Hits(n) \intersect page)
  BY <1>5, <1>9, FS_Union
<1>11. Cardinality(Hits(n)) \in Nat /\ Cardinality({}) = 0
  BY <1>5, FS_CardinalityType, FS_EmptySet
<1>12. Hits(n + 1) = Hits(n) \union page /\ Hits(n) \intersect page = {}
  BY <1>6, <1>7 DEF page
<1>13. Matching(before[n]) = Cardinality(own)
  BY DEF Matching, own
<1> QED
  <2>1. Cardinality(Hits(n + 1)) = Cardinality(Hits(n)) + Cardinality(own) - 0
    BY <1>9, <1>10, <1>11, <1>12
  <2>2. Cardinality(own) \in Nat
    BY <1>4
  <2>3. Cardinality(Hits(0)) = 0
    BY <1>8, <1>11
  <2> QED
    BY <1>11, <1>13, <2>1, <2>2, <2>3

\* A SELECT has counted the matches on the pages it has passed.
SelectInv ==
  Running("SELECT") => view[query.table] = before /\ count = Cardinality(Hits(pid))

\* Each round of the loop of seqScan counts the matches of one page more.
LEMMA SelectProgress ==
  ASSUME TypedInv, SelectInv, [Next]_vars
  PROVE  SelectInv'
<1> SUFFICES ASSUME Running("SELECT")'
             PROVE  view'[query'.table] = before' /\ count' = Cardinality(Hits(pid))'
  BY DEF SelectInv
<1>1. ASSUME NEW q \in Queries, Begin(q)
      PROVE  view'[query'.table] = before' /\ count' = Cardinality(Hits(pid))'
  <2>1. view'[query'.table] = before' /\ count' = 0 /\ pid' = 0
    BY <1>1 DEF Begin, Running, store
  <2>2. Hits(pid)' = {}
    BY <2>1 DEF Hits
  <2> QED
    BY <2>1, <2>2, FS_EmptySet
<1>2. CASE UNCHANGED <<view, query, pgCount, pid, count, before>>
  BY <1>2 DEF SelectInv, Hits, Matches, Running
<1>3. CASE ScanPage /\ UNCHANGED <<query, pgCount, before>>
  <2>1. /\ ~Idle /\ Running("SELECT") /\ pid \in PageIds /\ pid' = pid + 1
        /\ count' = count + Matching(Fetched) /\ view' = view
    BY <1>3, LoopType DEF ScanPage, Running, Idle, Advance, store
  <2>2. /\ view[query.table] = before /\ count = Cardinality(Hits(pid))
        /\ Fetched = before[pid]
    BY <2>1 DEF SelectInv, Fetched
  <2>3. Hits(pid)' = Hits(pid + 1)
    BY <1>3, <2>1 DEF Hits, Matches
  <2> QED
    BY <1>3, <2>1, <2>2, <2>3, HitsGrow
<1>4. ~Idle'
  BY DEF Idle, Running
<1>5. CASE /\ InsertProbe \/ InsertNewPage \/ UpdatePage \/ DeletePage
           /\ UNCHANGED <<query, pgCount, before>>
  BY <1>5 DEF InsertProbe, InsertNewPage, UpdatePage, DeletePage, Running
<1> QED
  BY <1>1, <1>2, <1>3, <1>4, <1>5, StepKinds

(***************************************************************************)
(* The count a SELECT returns is the number of matching rows on the pages  *)
(* the file had when it began, and it leaves the table alone (seqScan).    *)
(***************************************************************************)
THEOREM SelectExact == Spec => SelectCountsMatches
<1>1. Init => SelectInv
  BY DEF Init, NoLocals, SelectInv, Running, NoQuery
<1>2. ASSUME TypedInv, SelectInv, End, Running("SELECT")
      PROVE  view[query.table] = before /\ count = Cardinality(Hits(pgCount))
  BY <1>2 DEF End, SelectInv, Running
<1>3. TypedInv /\ SelectInv /\ [Next]_vars =>
        [End /\ Running("SELECT") =>
           /\ view[query.table] = before
           /\ count = Cardinality({pi \in (0 .. pgCount - 1) \X (1 .. RowsPerPage) :
                pi[2] \in DOMAIN before[pi[1]] /\ Matches(before[pi[1]][pi[2]])})]_vars
  BY <1>2 DEF Hits
<1> QED
  BY <1>1, <1>3, SelectProgress, TypedInvariant, PTL DEF Spec, SelectCountsMatches
=============================================================================
