--------------------------- MODULE SessionProofs ----------------------------
(***************************************************************************)
(* Proofs about Session, for every schema, data set and set of requests,   *)
(* any number of tables and statements, and kills at any moment.           *)
(*                                                                         *)
(* Everything here rests on bytes.  A row that appendRow writes lies where *)
(* getRow looks for it and reads back cut to its columns, no other row of  *)
(* the page changes, and the count in the header follows (AppendedRow).    *)
(*                                                                         *)
(* NanodbStartsComplete says nothing of the moments between two runs, so   *)
(* it is not inductive.  What nanodb relies on is the order of its         *)
(* generators: the file of the last table gets its first page when all     *)
(* others are complete, and is empty whenever a generation begins          *)
(* (OrderInv).  GeneratedInOrder needs that the file grows by pages that   *)
(* hold rows, and that before the first statement no process sees anything *)
(* but the files (GeneratorInv, CompleteInv).                              *)
(*                                                                         *)
(* The last part is about statements.  The parser takes the tokens of a    *)
(* request for what was asked (DeleteParsed, UpdateParsed, InsertParsed),  *)
(* evalWhere accepts the rows the clause describes, and a page that is     *)
(* rewritten has the rows it should (UpdatedPage, DeletedPage).  That rows *)
(* which are written back unchanged read as before needs that every page   *)
(* in the files and in the pool holds rows that read back as they are      *)
(* (PagesInv), whatever was executed on it.                                *)
(***************************************************************************)
EXTENDS Session, DataLemmas

-----------------------------------------------------------------------------
(* Numbers and texts as bytes *)

\* A number in two's complement is read back as it was written.
LEMMA SignedRoundTrip ==
  ASSUME NEW n \in Int32
  PROVE  /\ BytesInt(IntBytes(n)) = n
         /\ IntBytes(n) \in Seq(Int) /\ Len(IntBytes(n)) = 4
<1> DEFINE b1 == n % 256
           d1 == n \div 256
           b2 == d1 % 256
           d2 == d1 \div 256
           b3 == d2 % 256
           d3 == d2 \div 256
           b4 == d3 % 256
<1>0. n \in Int /\ -2147483648 <= n /\ n <= 2147483647
  BY SMT DEF Int32
<1>1. /\ d1 \in Int /\ -8388608 <= d1 /\ d1 <= 8388607
      /\ b1 \in 0 .. 255 /\ n = 256 * d1 + b1
  BY <1>0, SMT
<1>2. n \div 65536 = d1 \div 256 /\ n \div 16777216 = (d1 \div 256) \div 256
  BY <1>0, SMT
<1> HIDE DEF d1, b1
<1>3. /\ d2 \in Int /\ -32768 <= d2 /\ d2 <= 32767 /\ b2 \in 0 .. 255 /\ d1 = 256 * d2 + b2
  BY <1>1, SMT
<1> HIDE DEF d2, b2
<1>4. /\ d3 \in Int /\ -128 <= d3 /\ d3 <= 127 /\ b3 \in 0 .. 255 /\ d2 = 256 * d3 + b3
  BY <1>3, SMT
<1> HIDE DEF d3, b3
<1>5. b4 \in 0 .. 255 /\ d3 = IF b4 < 128 THEN b4 ELSE b4 - 256
  BY <1>4, SMT
<1> HIDE DEF b4
<1>6. IntBytes(n) = <<b1, b2, b3, b4>>
  BY <1>2, SMT DEF IntBytes, b1, b2, b3, b4, d1, d2, d3
<1>7. BytesInt(<<b1, b2, b3, b4>>) = b1 + 256 * b2 + 65536 * b3 + 16777216 * d3
  BY <1>1, <1>3, <1>4, <1>5, SMT DEF BytesInt
<1>8. b1 + 256 * b2 + 65536 * b3 + 16777216 * d3 = n
  BY <1>1, <1>3, <1>4, SMT
<1>9. <<b1, b2, b3, b4>> \in Seq(Int) /\ Len(<<b1, b2, b3, b4>>) = 4
  BY <1>1, <1>3, <1>4, <1>5, SMT
<1> QED
  BY <1>6, <1>7, <1>8, <1>9, SMT

\* The first 0 in b is at k.
LEMMA FirstNul ==
  ASSUME NEW b, Len(b) \in Nat, NEW k \in 1 .. Len(b), b[k] = 0,
         \A j \in 1 .. k - 1 : b[j] # 0
  PROVE  BytesText(b) = SubSeq(b, 1, k - 1)
<1> DEFINE I == {i \in 1 .. Len(b) : b[i] = 0}
<1>1. k \in I /\ \A i \in I : k <= i
  <2>1. ASSUME NEW i \in I PROVE k <= i
    <3>1. i \in 1 .. Len(b) /\ b[i] = 0
      OBVIOUS
    <3>2. i \notin 1 .. k - 1
      BY <3>1
    <3> QED
      BY <3>1, <3>2
  <2> QED
    BY <2>1
<1>2. I \subseteq Nat
  OBVIOUS
<1>3. Min(I) = k
  <2> HIDE DEF I
  <2>1. \E x \in I : \A y \in I : x <= y
    BY <1>1
  <2>2. Min(I) \in I /\ \A y \in I : Min(I) <= y
    BY <2>1 DEF Min
  <2>3. Min(I) <= k /\ k <= Min(I) /\ Min(I) \in Nat
    BY <2>2, <1>1, <1>2
  <2> QED
    BY <2>3
<1>4. SelectInSeq(b, LAMBDA c : c = 0) = IF I # {} THEN Min(I) ELSE 0
  BY DEF SelectInSeq
<1>5. SelectInSeq(b, LAMBDA c : c = 0) = k
  <2> HIDE DEF I
  <2> QED
    BY <1>1, <1>3, <1>4
<1> QED
  BY <1>5 DEF BytesText

\* A text is read back up to the character before the last byte of its column.
LEMMA TextRoundTrip ==
  ASSUME NEW s \in Texts, NEW size \in Nat \ {0}
  PROVE  /\ BytesText(TextBytes(s, size)) = IF Len(s) < size THEN s ELSE SubSeq(s, 1, size - 1)
         /\ TextBytes(s, size) \in Seq(Int) /\ Len(TextBytes(s, size)) = size
<1> DEFINE b == TextBytes(s, size)
<1>2. Len(s) \in Nat /\ DOMAIN s = 1 .. Len(s) /\ s \in Seq(Characters)
  BY DEF Texts
<1>0. \A x \in Characters : x \in Int /\ x # 0
  BY DEF Characters
<1>1. \A j \in 1 .. Len(s) : s[j] \in Int /\ s[j] # 0
  <2> HIDE DEF b
  <2> QED
    BY <1>0, <1>2
<1>3. b = [j \in 1 .. size |-> IF j <= Len(s) /\ j < size THEN s[j] ELSE 0]
  BY DEF TextBytes
<1> HIDE DEF b
<1>4. /\ DOMAIN b = 1 .. size
      /\ \A j \in 1 .. size : b[j] = IF j <= Len(s) /\ j < size THEN s[j] ELSE 0
  BY <1>3
<1>5. \A j \in 1 .. size : b[j] \in Int
  <2>1. ASSUME NEW j \in 1 .. size PROVE b[j] \in Int
    <3>1. CASE j <= Len(s) /\ j < size
      <4>1. j \in 1 .. Len(s)
        BY <3>1, <1>2
      <4> QED
        BY <3>1, <4>1, <1>1, <1>4
    <3>2. CASE ~(j <= Len(s) /\ j < size)
      BY <3>2, <1>4
    <3> QED
      BY <3>1, <3>2
  <2> QED
    BY <2>1
<1>6. b \in [1 .. size -> Int]
  BY <1>3, <1>5
<1>7. b \in Seq(Int) /\ Len(b) = size
  BY <1>6
<1> DEFINE k == IF Len(s) < size THEN Len(s) + 1 ELSE size
<1>8. k \in 1 .. size /\ b[k] = 0
  <2>1. k \in 1 .. size /\ ~(k <= Len(s) /\ k < size)
    BY <1>2
  <2> HIDE DEF k
  <2> QED
    BY <2>1, <1>4
<1>9. \A j \in 1 .. k - 1 : b[j] # 0 /\ b[j] = s[j] /\ j \in 1 .. Len(s)
  <2>1. ASSUME NEW j \in 1 .. k - 1 PROVE b[j] # 0 /\ b[j] = s[j] /\ j \in 1 .. Len(s)
    <3>1. j \in 1 .. size /\ j <= Len(s) /\ j < size /\ j \in 1 .. Len(s)
      BY <1>2
    <3> HIDE DEF k
    <3>2. b[j] = s[j] /\ s[j] # 0
      BY <3>1, <1>1, <1>4
    <3> QED
      BY <3>1, <3>2
  <2> QED
    BY <2>1
<1>10. BytesText(b) = SubSeq(b, 1, k - 1)
  <2>1. k \in 1 .. Len(b) /\ Len(b) \in Nat
    BY <1>7, <1>8
  <2> HIDE DEF k
  <2> QED
    BY <2>1, <1>8, <1>9, FirstNul
<1>11. k - 1 \in 0 .. Len(s) /\ k - 1 \in 0 .. size /\ k - 1 = IF Len(s) < size THEN Len(s) ELSE size - 1
  BY <1>2
<1> HIDE DEF k
<1>12. SubSeq(b, 1, k - 1) = [j \in 1 .. k - 1 |-> b[j]]
  BY <1>7, <1>11
<1>13. SubSeq(s, 1, k - 1) = [j \in 1 .. k - 1 |-> s[j]]
  BY <1>2, <1>11
<1>14. SubSeq(b, 1, k - 1) = SubSeq(s, 1, k - 1)
  BY <1>9, <1>12, <1>13
<1>15. SubSeq(s, 1, Len(s)) = s
  BY <1>2
<1> QED
  BY <1>7, <1>10, <1>11, <1>14, <1>15 DEF b

-----------------------------------------------------------------------------
(* Rows as bytes *)

Column == [name : STRING, type : {"INT", "STRING"}, size : Nat \ {0}]

\* P[i] is the offset behind column i.
Layout(cols, P) ==
  /\ P \in [0 .. Len(cols) -> Nat] /\ P[0] = 0
  /\ \A i \in 1 .. Len(cols) : P[i] = P[i - 1] + cols[i].size

\* Columns have places: each starts where those before it end.
LEMMA LayoutExists ==
  ASSUME NEW cols \in Seq(Column)
  PROVE  \E P : Layout(cols, P)
<1> DEFINE n == Len(cols)
           step == [j \in 1 .. n |-> [v \in Nat |-> v + cols[j].size]]
<1>1. n \in Nat /\ \A j \in 1 .. n : cols[j].size \in Nat
  <2>1. n \in Nat /\ \A j \in 1 .. n : cols[j] \in Column
    OBVIOUS
  <2> QED
    BY <2>1 DEF Column
<1>2. step \in [1 .. n -> [Nat -> Nat]]
  BY <1>1
<1>3. \A j \in 1 .. n : \A v \in Nat : step[j][v] = v + cols[j].size
  BY <1>1
<1> HIDE DEF step
<1>4. PICK P \in [0 .. n -> Nat] : Iterates(P, n, 0, step)
  BY <1>1, <1>2, IterationExists
<1>5. \A i \in 1 .. n : P[i - 1] \in Nat /\ P[i] = step[i][P[i - 1]]
  BY <1>1, <1>4 DEF Iterates
<1>6. P[0] = 0
  BY <1>4 DEF Iterates
<1>7. Layout(cols, P)
  BY <1>3, <1>4, <1>5, <1>6 DEF Layout
<1> QED
  BY <1>7

\* A record ends where its last column does: the fold over the sizes is that place.
LEMMA RecordSizeIs ==
  ASSUME NEW cols \in Seq(Column), NEW P, Layout(cols, P)
  PROVE  recordSize(cols) = P[Len(cols)]
<1> DEFINE n == Len(cols)
           step == [j \in 1 .. n |-> [v \in Nat |-> v + cols[j].size]]
           Is(c) == c = [T \in SUBSET DOMAIN cols |->
                           IF T = {} THEN 0 ELSE c[T \ {Max(T)}] + cols[Max(T)].size]
           i == CHOOSE c : Is(c)
<1>1. /\ n \in Nat /\ DOMAIN cols = 1 .. n
      /\ \A j \in 1 .. n : cols[j].size \in Nat
  <2>1. n \in Nat /\ DOMAIN cols = 1 .. n /\ \A j \in 1 .. n : cols[j] \in Column
    OBVIOUS
  <2> QED
    BY <2>1 DEF Column
<1>2. recordSize(cols) = i[DOMAIN cols]
  BY DEF recordSize, FoldLeft, MapThenFoldSet
<1>3. \E c : Is(c)
  <2>1. step \in [1 .. n -> [Nat -> Nat]]
    BY <1>1
  <2>2. \A j \in 1 .. n : \A v \in Nat : step[j][v] = v + cols[j].size
    BY <1>1
  <2> HIDE DEF step
  <2>3. PICK c \in [SUBSET (1 .. n) -> Nat] : FoldSteps(c, n, 0, step)
    BY <1>1, <2>1, FoldExists
  <2>4. ASSUME NEW T \in SUBSET (1 .. n)
        PROVE  c[T] = IF T = {} THEN 0 ELSE c[T \ {Max(T)}] + cols[Max(T)].size
    <3>1. c[T] = IF T = {} THEN 0 ELSE step[Max(T)][c[T \ {Max(T)}]]
      BY <2>3 DEF FoldSteps
    <3>2. CASE T = {}
      BY <3>1, <3>2
    <3>3. CASE T # {}
      <4>1. Max(T) \in 1 .. n
        BY <1>1, <3>3, MaxUpto
      <4>2. T \ {Max(T)} \in SUBSET (1 .. n) /\ c[T \ {Max(T)}] \in Nat
        BY <2>3
      <4> QED
        BY <2>2, <3>1, <3>3, <4>1, <4>2
    <3> QED
      BY <3>2, <3>3
  <2>5. Is(c)
    BY <1>1, <2>3, <2>4
  <2> HIDE DEF Is
  <2> QED
    BY <2>5
<1>4. Is(i)
  <2> HIDE DEF Is
  <2> QED
    BY <1>3
<1> HIDE DEF i
<1>5. \A T \in SUBSET (1 .. n) :
        i[T] = IF T = {} THEN 0 ELSE i[T \ {Max(T)}] + cols[Max(T)].size
  BY <1>1, <1>4
<1> HIDE DEF Is, step
<1> DEFINE G == {k \in 0 .. n : i[1 .. k] = P[k]}
<1>6. 0 \in G
  <2>1. 1 .. 0 = {} /\ 1 .. 0 \in SUBSET (1 .. n)
    OBVIOUS
  <2>2. i[1 .. 0] = 0
    BY <1>5, <2>1
  <2> QED
    BY <1>1, <2>2 DEF Layout
<1>7. ASSUME NEW k \in 1 .. n, k - 1 \in G PROVE k \in G
  <2>1. /\ Max(1 .. k) = k /\ (1 .. k) \ {k} = 1 .. k - 1 /\ 1 .. k # {}
    BY <1>1, MaxInterval
  <2>2. 1 .. k \in SUBSET (1 .. n)
    BY <1>1
  <2>3. i[1 .. k] = i[1 .. k - 1] + cols[k].size
    BY <1>5, <2>1, <2>2
  <2>4. i[1 .. k - 1] = P[k - 1]
    BY <1>7
  <2> QED
    BY <2>3, <2>4 DEF Layout
<1>8. 0 .. n \subseteq G
  <2> HIDE DEF G
  <2> QED
    BY <1>1, <1>6, <1>7, UptoInduction
<1>9. i[1 .. n] = P[n]
  BY <1>1, <1>8
<1> QED
  BY <1>1, <1>2, <1>9

\* The columns before column i end where it starts.
LEMMA OffsetIs ==
  ASSUME NEW cols \in Seq(Column), NEW P, Layout(cols, P), NEW i \in 0 .. Len(cols)
  PROVE  recordSize(SubSeq(cols, 1, i)) = P[i]
<1> DEFINE pre == SubSeq(cols, 1, i)
           Q == [k \in 0 .. i |-> P[k]]
<1>1. /\ pre \in Seq(Column) /\ Len(pre) = i /\ i \in Nat
      /\ \A k \in 1 .. i : pre[k] = cols[k]
  OBVIOUS
<1> HIDE DEF pre
<1>2. Layout(pre, Q)
  <2>1. \A k \in 0 .. i : Q[k] = P[k] /\ P[k] \in Nat
    BY DEF Layout
  <2>2. ASSUME NEW k \in 1 .. i PROVE Q[k] = Q[k - 1] + pre[k].size
    <3>1. k \in 0 .. i /\ k - 1 \in 0 .. i /\ k \in 1 .. Len(cols)
      BY <1>1
    <3>2. Q[k] = P[k] /\ Q[k - 1] = P[k - 1]
      BY <2>1, <3>1
    <3> HIDE DEF Q
    <3> QED
      BY <1>1, <3>1, <3>2 DEF Layout
  <2>3. Q[0] = 0
    BY <1>1 DEF Layout
  <2>4. Q \in [0 .. i -> Nat]
    BY <2>1
  <2> HIDE DEF Q
  <2> QED
    BY <1>1, <2>2, <2>3, <2>4 DEF Layout
<1> HIDE DEF Q
<1>3. recordSize(pre) = Q[i]
  BY <1>1, <1>2, RecordSizeIs
<1> QED
  BY <1>3 DEF pre, Q

\* Offsets grow.
LEMMA LayoutGrows ==
  ASSUME NEW cols \in Seq(Column), NEW P, Layout(cols, P),
         NEW i \in 0 .. Len(cols), NEW j \in 0 .. Len(cols), i <= j
  PROVE  P[i] <= P[j]
<1> DEFINE n == Len(cols)
           G == {k \in 0 .. n : i <= k => P[i] <= P[k]}
<1>1. n \in Nat /\ \A k \in 1 .. n : P[k] \in Nat /\ P[k - 1] \in Nat /\ P[k - 1] <= P[k]
  <2>1. n \in Nat /\ \A k \in 1 .. n : cols[k] \in Column
    OBVIOUS
  <2>2. \A k \in 1 .. n : cols[k].size \in Nat
    BY <2>1 DEF Column
  <2>3. ASSUME NEW k \in 1 .. n PROVE P[k] \in Nat /\ P[k - 1] \in Nat /\ P[k - 1] <= P[k]
    <3>1. k \in 0 .. n /\ k - 1 \in 0 .. n
      BY <2>1
    <3>2. P[k] \in Nat /\ P[k - 1] \in Nat /\ P[k] = P[k - 1] + cols[k].size
      BY <3>1 DEF Layout
    <3> QED
      BY <2>2, <3>2
  <2> QED
    BY <2>1, <2>3
<1>2. 0 \in G
  BY <1>1 DEF Layout
<1>3. ASSUME NEW k \in 1 .. n, k - 1 \in G PROVE k \in G
  <2>1. P[k] \in Nat /\ P[k - 1] \in Nat /\ P[k - 1] <= P[k] /\ P[i] \in Nat
    BY <1>1 DEF Layout
  <2>2. i <= k - 1 => P[i] <= P[k - 1]
    BY <1>3
  <2>3. i <= k => i <= k - 1 \/ i = k
    OBVIOUS
  <2> QED
    BY <2>1, <2>2, <2>3
<1>4. 0 .. n \subseteq G
  <2> HIDE DEF G
  <2> QED
    BY <1>1, <1>2, <1>3, UptoInduction
<1>5. j \in G
  BY <1>4
<1> QED
  BY <1>5

FieldBytes(cols, row, i) ==
  IF cols[i].type = "INT" THEN IntBytes(row[i]) ELSE TextBytes(row[i], cols[i].size)

\* The parts of a schema have their types.
LEMMA SchemaType ==
  ASSUME NEW cols, IsSchema(cols)
  PROVE  /\ cols \in Seq(Column) /\ Len(cols) \in Nat \ {0} /\ DOMAIN cols = 1 .. Len(cols)
         /\ \A i \in 1 .. Len(cols) : /\ cols[i].size \in Nat \ {0}
                                      /\ cols[i].type \in {"INT", "STRING"}
                                      /\ cols[i].type = "INT" => cols[i].size = 4
<1>1. cols \in Seq(Column) /\ cols # << >>
  BY DEF IsSchema, Column
<1>2. Len(cols) \in Nat \ {0} /\ DOMAIN cols = 1 .. Len(cols) /\ \A i \in 1 .. Len(cols) : cols[i] \in Column
  BY <1>1
<1>3. \A i \in 1 .. Len(cols) : cols[i].size \in Nat \ {0} /\ cols[i].type \in {"INT", "STRING"}
  BY <1>2 DEF Column
<1> QED
  BY <1>1, <1>2, <1>3 DEF IsSchema

\* A field fills its column, and reads back cut to fit it.
LEMMA FieldRoundTrip ==
  ASSUME NEW cols, IsSchema(cols), NEW row, IsRow(cols, row), NEW i \in 1 .. Len(cols)
  PROVE  /\ FieldBytes(cols, row, i) \in Seq(Int)
         /\ Len(FieldBytes(cols, row, i)) = cols[i].size
         /\ (IF cols[i].type = "INT" THEN BytesInt(FieldBytes(cols, row, i))
             ELSE BytesText(FieldBytes(cols, row, i))) = ReadBack(cols, row)[i]
<1>1. /\ i \in DOMAIN cols /\ cols[i].size \in Nat \ {0}
      /\ cols[i].type = "INT" => cols[i].size = 4
  BY SchemaType
<1>2. ReadBack(cols, row)[i] = IF cols[i].type = "INT" \/ Len(row[i]) < cols[i].size THEN row[i]
                               ELSE SubSeq(row[i], 1, cols[i].size - 1)
  BY <1>1 DEF ReadBack
<1>3. CASE cols[i].type = "INT"
  <2>1. row[i] \in Int32
    BY <1>1, <1>3 DEF IsRow
  <2>2. FieldBytes(cols, row, i) = IntBytes(row[i])
    BY <1>3 DEF FieldBytes
  <2>3. /\ BytesInt(IntBytes(row[i])) = row[i]
        /\ IntBytes(row[i]) \in Seq(Int) /\ Len(IntBytes(row[i])) = 4
    BY <2>1, SignedRoundTrip
  <2> QED
    BY <1>1, <1>2, <1>3, <2>2, <2>3
<1>4. CASE cols[i].type # "INT"
  <2>1. row[i] \in Texts
    BY <1>1, <1>4 DEF IsRow
  <2> DEFINE b == TextBytes(row[i], cols[i].size)
  <2>2. FieldBytes(cols, row, i) = b
    BY <1>4 DEF FieldBytes
  <2>3. /\ BytesText(b) = IF Len(row[i]) < cols[i].size THEN row[i]
                          ELSE SubSeq(row[i], 1, cols[i].size - 1)
        /\ b \in Seq(Int) /\ Len(b) = cols[i].size
    BY <1>1, <2>1, TextRoundTrip
  <2> HIDE DEF b
  <2> QED
    BY <1>2, <1>4, <2>2, <2>3
<1> QED
  BY <1>3, <1>4

\* The bytes of a row: field after field, each where its column starts.
Spells(bytes, cols, row, P) ==
  /\ bytes \in Seq(Int) /\ Len(bytes) = P[Len(cols)]
  /\ \A j \in 1 .. Len(cols) : \A k \in 1 .. cols[j].size :
       bytes[P[j - 1] + k] = FieldBytes(cols, row, j)[k]

\* Row::serialize writes every field at the place of its column.
LEMMA SerializeIs ==
  ASSUME NEW cols, IsSchema(cols), NEW row, IsRow(cols, row), NEW P, Layout(cols, P)
  PROVE  Spells(serialize(cols, row), cols, row, P)
<1> DEFINE n == Len(cols)
           s == [i \in 1 .. n |-> FieldBytes(cols, row, i)]
           Upto(f, i) == /\ f[i] \in Seq(Int) /\ Len(f[i]) = P[i]
                         /\ \A j \in 1 .. i : \A k \in 1 .. cols[j].size :
                              f[i][P[j - 1] + k] = s[j][k]
<1>1. /\ n \in Nat \ {0} /\ DOMAIN cols = 1 .. n /\ cols \in Seq(Column)
      /\ \A i \in 1 .. n : cols[i].size \in Nat
  BY SchemaType
<1>2. \A i \in 1 .. n : s[i] \in Seq(Int) /\ Len(s[i]) = cols[i].size /\ s[i] = FieldBytes(cols, row, i)
  BY FieldRoundTrip
<1>3. serialize(cols, row) = FlattenSeq(s)
  BY <1>1 DEF serialize, FieldBytes
<1>4. Len(s) = n
  BY <1>1
<1> HIDE DEF n, s
<1>5. PICK f : Flattens(s, f) /\ FlattenSeq(s) = f[n]
  BY <1>1, <1>4, FlattenIs
<1>6. f = [i \in 1 .. n |-> IF i = 1 THEN s[i] ELSE f[i - 1] \o s[i]]
  BY <1>4, <1>5 DEF Flattens
<1>7. \A i \in 1 .. n : f[i] = IF i = 1 THEN s[i] ELSE f[i - 1] \o s[i]
  BY <1>6
<1>8. /\ \A i \in 0 .. n : P[i] \in Nat
      /\ P[0] = 0
      /\ \A i \in 1 .. n : P[i] = P[i - 1] + cols[i].size
  BY <1>1 DEF Layout, n
<1> DEFINE G == {i \in 0 .. n : i > 0 => Upto(f, i)}
<1>9. ASSUME NEW i \in 1 .. n, i - 1 \in G PROVE i \in G
  <2>1. CASE i = 1
    <3>1. f[1] = s[1] /\ P[1] = cols[1].size /\ 1 \in 1 .. n /\ P[1 - 1] = 0
      BY <2>1, <1>1, <1>7, <1>8
    <3>2. \A j \in 1 .. 1 : \A k \in 1 .. cols[j].size : f[1][P[j - 1] + k] = s[j][k]
      BY <3>1
    <3>3. Upto(f, 1)
      BY <3>1, <3>2, <1>2
    <3> HIDE DEF Upto
    <3> QED
      BY <2>1, <3>3
  <2>2. CASE i # 1
    <3> DEFINE h == i - 1
    <3>1. h \in 1 .. n /\ h > 0 /\ h = i - 1 /\ h \in 0 .. n /\ i \in 0 .. n
      BY <2>2, <1>1
    <3>2. Upto(f, h)
      BY <1>9, <3>1
    <3>3. f[i] = f[h] \o s[i]
      BY <2>2, <1>7
    <3>4. /\ f[h] \in Seq(Int) /\ Len(f[h]) = P[h]
          /\ s[i] \in Seq(Int) /\ Len(s[i]) = cols[i].size
          /\ P[i] = P[h] + cols[i].size /\ P[h] \in Nat
      BY <1>2, <1>8, <3>1, <3>2
    <3>5. /\ f[i] \in Seq(Int) /\ Len(f[i]) = P[i]
          /\ \A k \in 1 .. P[h] : f[i][k] = f[h][k]
          /\ \A k \in 1 .. cols[i].size : f[i][P[h] + k] = s[i][k]
      <4> HIDE DEF Upto, G, h
      <4>1. /\ f[i] \in Seq(Int) /\ Len(f[i]) = Len(f[h]) + Len(s[i])
            /\ \A k \in 1 .. Len(f[h]) : f[i][k] = f[h][k]
            /\ \A k \in 1 .. Len(s[i]) : f[i][Len(f[h]) + k] = s[i][k]
        <5>1. f[h] \in Seq(Int) /\ s[i] \in Seq(Int)
          BY <3>4
        <5>2. Spliced(f[h] \o s[i], f[h], s[i], Int)
          BY <5>1, Concatenated
        <5> QED
          BY <3>3, <5>2 DEF Spliced
      <4> QED
        BY <4>1, <3>4
    <3>6. ASSUME NEW j \in 1 .. i, NEW k \in 1 .. cols[j].size
          PROVE  f[i][P[j - 1] + k] = s[j][k]
      <4>1. CASE j = i
        BY <4>1, <3>5
      <4>2. CASE j # i
        <5>1. j \in 1 .. h /\ j \in 1 .. n /\ j \in 0 .. n /\ j - 1 \in 0 .. n /\ j <= h
          BY <4>2, <3>1, <1>1
        <5>0. P[j] <= P[h]
          <6>1. j \in 0 .. Len(cols) /\ h \in 0 .. Len(cols)
            BY <5>1, <3>1 DEF n
          <6> HIDE DEF h
          <6> QED
            BY <6>1, <5>1, <1>1, LayoutGrows
        <5>2. P[j] = P[j - 1] + cols[j].size /\ P[j - 1] \in Nat /\ P[h] \in Nat /\ cols[j].size \in Nat
          BY <5>1, <3>4, <1>1, <1>8
        <5>3. P[j - 1] + k \in 1 .. P[h]
          <6> HIDE DEF h
          <6> QED
            BY <5>0, <5>2
        <5>4. f[h][P[j - 1] + k] = s[j][k]
          BY <3>2, <5>1
        <5> QED
          BY <5>3, <5>4, <3>5
      <4> QED
        BY <4>1, <4>2
    <3>7. Upto(f, i)
      BY <3>5, <3>6
    <3> HIDE DEF Upto
    <3> QED
      BY <3>1, <3>7
  <2> QED
    BY <2>1, <2>2
<1>10. n \in G
  <2>1. 0 \in G
    BY <1>1
  <2> HIDE DEF G
  <2>2. 0 .. n \subseteq G
    BY <1>1, <1>9, <2>1, UptoInduction
  <2> QED
    BY <1>1, <2>2
<1>11. Upto(f, n)
  BY <1>1, <1>10
<1>12. \A j \in 1 .. n : s[j] = FieldBytes(cols, row, j)
  BY <1>2
<1> QED
  BY <1>1, <1>3, <1>5, <1>11, <1>12 DEF Spells, n

\* A row reads back from its bytes.
LEMMA RowRoundTrip ==
  ASSUME NEW cols, IsSchema(cols), NEW row, IsRow(cols, row)
  PROVE  /\ deserialize(cols, serialize(cols, row)) = ReadBack(cols, row)
         /\ serialize(cols, row) \in Seq(Int) /\ Len(serialize(cols, row)) = recordSize(cols)
         /\ recordSize(cols) \in Nat
<1> DEFINE n == Len(cols)
           b == serialize(cols, row)
<1>1. n \in Nat \ {0} /\ DOMAIN cols = 1 .. n /\ cols \in Seq(Column)
  BY SchemaType
<1>2. PICK P : Layout(cols, P)
  BY <1>1, LayoutExists
<1>3. /\ b \in Seq(Int) /\ Len(b) = P[n]
      /\ \A j \in 1 .. n : \A k \in 1 .. cols[j].size : b[P[j - 1] + k] = FieldBytes(cols, row, j)[k]
  BY <1>2, SerializeIs DEF Spells
<1>4. /\ \A i \in 0 .. n : P[i] \in Nat
      /\ \A i \in 1 .. n : P[i] = P[i - 1] + cols[i].size
  BY <1>2 DEF Layout
<1>5. recordSize(cols) = P[n] /\ P[n] \in Nat
  BY <1>1, <1>2, <1>4, RecordSizeIs
<1> HIDE DEF b
<1> DEFINE part(i) == SubSeq(b, recordSize(SubSeq(cols, 1, i - 1)) + 1,
                                recordSize(SubSeq(cols, 1, i - 1)) + cols[i].size)
<1>6. ASSUME NEW i \in 1 .. n
      PROVE  part(i) = FieldBytes(cols, row, i)
  <2> DEFINE at == P[i - 1]
             size == cols[i].size
             fb == FieldBytes(cols, row, i)
  <2>1. i - 1 \in 0 .. n /\ i \in 0 .. n /\ i <= n /\ n \in 0 .. n
    BY <1>1
  <2>2. recordSize(SubSeq(cols, 1, i - 1)) = at
    BY <1>1, <1>2, <2>1, OffsetIs
  <2>3. P[i] <= P[n]
    BY <1>1, <1>2, <2>1, LayoutGrows
  <2>4. size \in Nat /\ at \in Nat /\ at + size <= Len(b) /\ P[n] \in Nat
    BY <1>3, <1>4, <2>1, <2>3, SchemaType
  <2>5. fb \in Seq(Int) /\ Len(fb) = size
    BY FieldRoundTrip
  <2>6. \A k \in 1 .. size : b[at + k] = fb[k]
    BY <1>3
  <2> HIDE DEF at, size, fb
  <2>7. SubSeq(b, at + 1, at + size) = [k \in 1 .. size |-> b[at + k]]
    <3> DEFINE l == SubSeq(b, at + 1, at + size)
    <3>1. l \in Seq(Int) /\ Len(l) = size /\ \A k \in 1 .. size : l[k] = b[at + k]
      BY <1>3, <2>4
    <3> HIDE DEF l
    <3>2. l = [k \in 1 .. size |-> l[k]]
      BY <3>1, <2>4
    <3>3. l = [k \in 1 .. size |-> b[at + k]]
      BY <3>1, <3>2
    <3> QED
      BY <3>3 DEF l
  <2>8. fb = [k \in 1 .. size |-> fb[k]]
    BY <2>5
  <2>9. SubSeq(b, at + 1, at + size) = fb
    BY <2>6, <2>7, <2>8
  <2> QED
    BY <2>2, <2>9 DEF size, fb
<1>7. deserialize(cols, b) =
        [i \in 1 .. n |-> IF cols[i].type = "INT" THEN BytesInt(part(i)) ELSE BytesText(part(i))]
  BY <1>1 DEF deserialize
<1> HIDE DEF part
<1>8. ASSUME NEW i \in 1 .. n
      PROVE  (IF cols[i].type = "INT" THEN BytesInt(part(i)) ELSE BytesText(part(i)))
               = ReadBack(cols, row)[i]
  BY <1>6, FieldRoundTrip
<1>9. ReadBack(cols, row) = [i \in 1 .. n |-> ReadBack(cols, row)[i]]
  BY <1>1 DEF ReadBack
<1>10. deserialize(cols, b) = ReadBack(cols, row)
  BY <1>7, <1>8, <1>9
<1> QED
  BY <1>3, <1>5, <1>10 DEF b

-----------------------------------------------------------------------------
(* Rows in a page *)

\* A schema whose rows fit in a page.
FitsPage(cols) == IsSchema(cols) /\ recordSize(cols) \in 1 .. PageSize - PageHeader

\* Bytes written into a page are where they were written; the others stay.
LEMMA Written ==
  ASSUME NEW pg, DOMAIN pg = 1 .. PageSize, NEW off, NEW bytes
  PROVE  /\ DOMAIN WriteBytes(pg, off, bytes) = 1 .. PageSize
         /\ \A k \in 1 .. PageSize :
              WriteBytes(pg, off, bytes)[k] =
                IF k - off \in 1 .. Len(bytes) THEN bytes[k - off] ELSE pg[k]
  BY DEF WriteBytes

\* As many records as recordsPerPage says lie in the page, one behind the other.
LEMMA OffsetsFit ==
  ASSUME NEW cols, FitsPage(cols), NEW i \in Nat, i < recordsPerPage(cols),
         NEW k \in 1 .. recordSize(cols)
  PROVE  /\ Offset(cols, i) \in Nat /\ Offset(cols, i) >= 12
         /\ Offset(cols, i) + k \in 13 .. PageSize
         /\ \A j \in Nat : j # i =>
              (Offset(cols, i) + k) - Offset(cols, j) \notin 1 .. recordSize(cols)
<1> DEFINE rs == recordSize(cols)
           space == PageSize - PageHeader
           n == space \div rs
<1>1. /\ PageSize \in Nat /\ PageHeader \in Nat /\ PageHeader >= 12 /\ PageHeader <= PageSize
      /\ space \in Nat /\ rs \in Nat \ {0}
  <2>1. PageSize \in Nat /\ PageHeader \in 12 .. PageSize
    BY RecordsAssumption
  <2>2. rs \in 1 .. space
    BY DEF FitsPage
  <2> HIDE DEF rs
  <2> QED
    BY <2>1, <2>2
<1>2. n \in Nat /\ rs * n <= space /\ i < n
  <2>1. n = recordsPerPage(cols)
    BY DEF recordsPerPage
  <2> HIDE DEF rs, space
  <2>2. n \in Nat /\ rs * n + (space % rs) = space /\ space % rs >= 0
    BY <1>1
  <2>3. rs * n \in Nat /\ space % rs \in Nat
    BY <1>1, <2>2
  <2> HIDE DEF n
  <2> QED
    BY <1>1, <2>1, <2>2, <2>3
<1>3. \A j \in Nat : Offset(cols, j) = PageHeader + j * rs /\ j * rs \in Nat
  BY <1>1 DEF Offset
<1>4. k \in 1 .. rs
  OBVIOUS
<1> HIDE DEF n, rs, space
<1>5. \A a, b \in Nat : a < b => a * rs + rs <= b * rs
  <2>1. ASSUME NEW a \in Nat, NEW b \in Nat, a < b PROVE a * rs + rs <= b * rs
    <3>1. PICK d \in Nat : b = a + 1 + d
      <4>1. b - a - 1 \in Nat /\ b = a + 1 + (b - a - 1)
        BY <2>1
      <4> QED
        BY <4>1
    <3>2. b * rs = a * rs + rs + d * rs /\ d * rs \in Nat /\ a * rs \in Nat
      BY <1>1, <3>1
    <3> QED
      BY <3>2, <1>1
  <2> QED
    BY <2>1
<1>6. i * rs + rs <= n * rs /\ n * rs = rs * n
  BY <1>1, <1>2, <1>5
<1>7. Offset(cols, i) \in Nat /\ Offset(cols, i) >= 12 /\ Offset(cols, i) + k \in 13 .. PageSize
  <2>1. i * rs \in Nat /\ Offset(cols, i) = PageHeader + i * rs
    BY <1>3
  <2>2. rs * n \in Nat
    BY <1>1, <1>2
  <2> DEFINE at == i * rs
             all == rs * n
  <2>3. at + rs <= space
    BY <1>1, <1>2, <1>6
  <2> HIDE DEF at, all
  <2> QED
    BY <1>1, <1>4, <2>1, <2>3 DEF space, at
<1>8. ASSUME NEW j \in Nat, j # i
      PROVE  (Offset(cols, i) + k) - Offset(cols, j) \notin 1 .. rs
  <2> DEFINE a == i * rs
             b == j * rs
  <2>1. a \in Nat /\ b \in Nat
    BY <1>1
  <2>2. a + rs <= b \/ b + rs <= a
    <3>1. i < j \/ j < i
      BY <1>8
    <3> QED
      BY <3>1, <1>5
  <2>3. (Offset(cols, i) + k) - Offset(cols, j) = a + k - b
    BY <1>1, <1>3, <1>4
  <2> HIDE DEF a, b
  <2> QED
    BY <1>1, <1>4, <2>1, <2>2, <2>3
<1> QED
  BY <1>7, <1>8 DEF rs

\* What PutRow changes: row i, and nothing else in the page.
LEMMA PutIs ==
  ASSUME NEW cols, FitsPage(cols), NEW pg, DOMAIN pg = 1 .. PageSize,
         NEW i \in Nat, i < recordsPerPage(cols), NEW row, IsRow(cols, row)
  PROVE  /\ DOMAIN PutRow(cols, pg, i, row) = 1 .. PageSize
         /\ getRecordCount(PutRow(cols, pg, i, row)) = getRecordCount(pg)
         /\ ReadBytes(PutRow(cols, pg, i, row), 0, 4) = ReadBytes(pg, 0, 4)
         /\ getRow(cols, PutRow(cols, pg, i, row), i) = ReadBack(cols, row)
         /\ \A j \in Nat : j # i /\ j < recordsPerPage(cols) =>
              getRow(cols, PutRow(cols, pg, i, row), j) = getRow(cols, pg, j)
<1> DEFINE new == PutRow(cols, pg, i, row)
           bytes == serialize(cols, row)
           rs == recordSize(cols)
           off == Offset(cols, i)
<1>1. bytes \in Seq(Int) /\ Len(bytes) = rs /\ rs \in Nat /\ rs >= 1
      /\ deserialize(cols, bytes) = ReadBack(cols, row)
  <2>1. rs \in 1 .. PageSize - PageHeader
    BY DEF FitsPage
  <2>2. rs >= 1
    <3> HIDE DEF rs
    <3> QED
      BY <2>1
  <2> QED
    BY <2>2, RowRoundTrip DEF FitsPage
<1>2. /\ DOMAIN new = 1 .. PageSize
      /\ \A k \in 1 .. PageSize : new[k] = IF k - off \in 1 .. rs THEN bytes[k - off] ELSE pg[k]
  <2>1. new = WriteBytes(pg, off, bytes)
    BY DEF PutRow
  <2> HIDE DEF new, off, bytes
  <2>2. /\ DOMAIN WriteBytes(pg, off, bytes) = 1 .. PageSize
        /\ \A k \in 1 .. PageSize : WriteBytes(pg, off, bytes)[k] =
             IF k - off \in 1 .. Len(bytes) THEN bytes[k - off] ELSE pg[k]
    BY DEF WriteBytes
  <2> HIDE DEF rs
  <2> QED
    BY <1>1, <2>1, <2>2
<1>3. PageSize \in Nat /\ PageSize >= 12
  BY RecordsAssumption
<1>4. off \in Nat /\ off >= 12 /\ \A k \in 1 .. rs : off + k \in 13 .. PageSize
  <2>1. 1 \in 1 .. rs
    BY <1>1
  <2> QED
    BY <2>1, OffsetsFit
<1>5. ASSUME NEW j \in Nat, j # i, j < recordsPerPage(cols), NEW k \in 1 .. rs
      PROVE  Offset(cols, j) + k \in 1 .. PageSize /\ (Offset(cols, j) + k) - off \notin 1 .. rs
  <2>1. Offset(cols, j) + k \in 13 .. PageSize
    BY <1>5, OffsetsFit
  <2>2. (Offset(cols, j) + k) - off \notin 1 .. rs
    BY <1>5, OffsetsFit
  <2>3. Offset(cols, j) + k \in 1 .. PageSize
    <3> DEFINE o == Offset(cols, j) + k
    <3> HIDE DEF o
    <3>1. o \in 13 .. PageSize => o \in 1 .. PageSize
      BY <1>3
    <3> QED
      BY <2>1, <3>1 DEF o
  <2> QED
    BY <2>2, <2>3
<1> HIDE DEF new, bytes, rs, off
<1>6. \A k \in 1 .. 12 : k \in 1 .. PageSize /\ new[k] = pg[k]
  <2>1. ASSUME NEW k \in 1 .. 12 PROVE k \in 1 .. PageSize /\ new[k] = pg[k]
    <3>1. k \in 1 .. PageSize /\ k - off \notin 1 .. rs
      BY <1>1, <1>3, <1>4
    <3> QED
      BY <1>2, <3>1
  <2> QED
    BY <2>1
<1>7. ReadBytes(new, 4, 4) = ReadBytes(pg, 4, 4) /\ ReadBytes(new, 0, 4) = ReadBytes(pg, 0, 4)
  <2>1. \A k \in 1 .. 4 : 4 + k \in 1 .. 12 /\ 0 + k \in 1 .. 12
    OBVIOUS
  <2>2. \A k \in 1 .. 4 : new[4 + k] = pg[4 + k] /\ new[0 + k] = pg[0 + k]
    BY <1>6, <2>1
  <2> QED
    BY <2>2 DEF ReadBytes
<1>8. getRecordCount(new) = getRecordCount(pg)
  BY <1>7 DEF getRecordCount
<1>9. getRow(cols, new, i) = ReadBack(cols, row)
  <2>1. \A k \in 1 .. rs : new[off + k] = bytes[k]
    <3>1. ASSUME NEW k \in 1 .. rs PROVE new[off + k] = bytes[k]
      <4>1. off + k \in 13 .. PageSize /\ k \in 1 .. rs
        BY <1>4
      <4>3. (off + k) - off = k
        BY <1>1, <1>4
      <4>2. off + k \in 1 .. PageSize
        BY <4>1, <1>3, <1>4
      <4> QED
        BY <1>2, <4>1, <4>2, <4>3
    <3> QED
      BY <3>1
  <2>2. ReadBytes(new, off, rs) = [k \in 1 .. rs |-> bytes[k]]
    BY <2>1 DEF ReadBytes
  <2>3. bytes = [k \in 1 .. rs |-> bytes[k]]
    BY <1>1
  <2> QED
    BY <1>1, <2>2, <2>3 DEF getRow, rs, off
<1>10. ASSUME NEW j \in Nat, j # i, j < recordsPerPage(cols)
       PROVE  getRow(cols, new, j) = getRow(cols, pg, j)
  <2>1. \A k \in 1 .. rs : new[Offset(cols, j) + k] = pg[Offset(cols, j) + k]
    BY <1>2, <1>5, <1>10
  <2>2. ReadBytes(new, Offset(cols, j), rs) = ReadBytes(pg, Offset(cols, j), rs)
    BY <2>1 DEF ReadBytes
  <2> QED
    BY <2>2 DEF getRow, rs
<1> QED
  BY <1>2, <1>7, <1>8, <1>9, <1>10 DEF new

\* A number that four bytes can hold is read back as it was written.
LEMMA IntRoundTrip ==
  ASSUME NEW n \in Nat, n <= 2147483647
  PROVE  BytesInt(IntBytes(n)) = n
<1>1. n \in Int32
  BY SMT DEF Int32
<1> QED
  BY <1>1, SignedRoundTrip

\* setRecordCount puts the count where getRecordCount looks for it, and changes
\* neither the page's number nor its rows.
LEMMA CountSet ==
  ASSUME NEW cols, FitsPage(cols), NEW pg, DOMAIN pg = 1 .. PageSize,
         NEW n \in Nat, n <= recordsPerPage(cols)
  PROVE  /\ DOMAIN SetRecordCount(pg, n) = 1 .. PageSize
         /\ getRecordCount(SetRecordCount(pg, n)) = n
         /\ ReadBytes(SetRecordCount(pg, n), 0, 4) = ReadBytes(pg, 0, 4)
         /\ \A j \in Nat : j < recordsPerPage(cols) =>
              getRow(cols, SetRecordCount(pg, n), j) = getRow(cols, pg, j)
<1> DEFINE new == SetRecordCount(pg, n)
           bytes == IntBytes(n)
<1>1. Len(bytes) = 4
  BY DEF IntBytes
<1>2. /\ DOMAIN new = 1 .. PageSize
      /\ \A k \in 1 .. PageSize : new[k] = IF k - 4 \in 1 .. 4 THEN bytes[k - 4] ELSE pg[k]
  <2>1. new = WriteBytes(pg, 4, bytes)
    BY DEF SetRecordCount
  <2> HIDE DEF new, bytes
  <2>2. /\ DOMAIN WriteBytes(pg, 4, bytes) = 1 .. PageSize
        /\ \A k \in 1 .. PageSize : WriteBytes(pg, 4, bytes)[k] =
             IF k - 4 \in 1 .. Len(bytes) THEN bytes[k - 4] ELSE pg[k]
    BY DEF WriteBytes
  <2> QED
    BY <1>1, <2>1, <2>2
<1>3. PageSize \in Nat /\ PageSize >= 12
  BY RecordsAssumption
<1>4. BytesInt(bytes) = n
  <2>1. recordsPerPage(cols) \in Int /\ recordsPerPage(cols) <= PageSize
    <3>1. recordSize(cols) \in 1 .. PageSize - PageHeader /\ PageHeader \in 12 .. PageSize
      BY RecordsAssumption DEF FitsPage
    <3> QED
      BY <1>3, <3>1 DEF recordsPerPage
  <2>2. n <= 2147483647
    BY <1>3, <2>1, RecordsAssumption, SMT
  <2> QED
    BY <2>2, IntRoundTrip
<1> HIDE DEF new, bytes
<1>5. ReadBytes(new, 4, 4) = [k \in 1 .. 4 |-> bytes[k]]
  <2>1. \A k \in 1 .. 4 : 4 + k \in 1 .. PageSize /\ (4 + k) - 4 = k
    BY <1>3
  <2>2. \A k \in 1 .. 4 : new[4 + k] = bytes[k]
    BY <1>2, <2>1
  <2> QED
    BY <2>2 DEF ReadBytes
<1>6. BytesInt(ReadBytes(new, 4, 4)) = BytesInt(bytes)
  BY <1>5 DEF BytesInt
<1>7. ReadBytes(new, 0, 4) = ReadBytes(pg, 0, 4)
  <2>1. \A k \in 1 .. 4 : 0 + k \in 1 .. PageSize /\ (0 + k) - 4 \notin 1 .. 4
    BY <1>3
  <2>2. \A k \in 1 .. 4 : new[0 + k] = pg[0 + k]
    BY <1>2, <2>1
  <2> QED
    BY <2>2 DEF ReadBytes
<1>8. ASSUME NEW j \in Nat, j < recordsPerPage(cols)
      PROVE  getRow(cols, new, j) = getRow(cols, pg, j)
  <2> DEFINE o == Offset(cols, j)
             rs == recordSize(cols)
  <2>1. \A k \in 1 .. rs : o + k \in 13 .. PageSize
    BY <1>8, OffsetsFit
  <2> HIDE DEF o, rs
  <2>2. \A k \in 1 .. rs : new[o + k] = pg[o + k]
    <3>1. ASSUME NEW k \in 1 .. rs PROVE new[o + k] = pg[o + k]
      <4> DEFINE x == o + k
      <4>1. x \in 13 .. PageSize
        BY <2>1
      <4> HIDE DEF x
      <4>2. x \in 1 .. PageSize /\ x - 4 \notin 1 .. 4
        BY <4>1, <1>3
      <4>3. new[x] = pg[x]
        BY <1>2, <4>2
      <4> QED
        BY <4>3 DEF x
    <3> QED
      BY <3>1
  <2>3. ReadBytes(new, o, rs) = ReadBytes(pg, o, rs)
    BY <2>2 DEF ReadBytes
  <2> QED
    BY <2>3 DEF getRow, o, rs
<1> QED
  BY <1>2, <1>4, <1>6, <1>7, <1>8 DEF getRecordCount, new

\* A row as it can be read from a page: reading it back changes nothing.
Stored(cols, row) == IsRow(cols, row) /\ ReadBack(cols, row) = row

\* A page whose count is in bounds and whose rows are rows.
PageOK(cols, pg) ==
  /\ DOMAIN pg = 1 .. PageSize
  /\ getRecordCount(pg) \in 0 .. recordsPerPage(cols)
  /\ \A i \in 0 .. getRecordCount(pg) - 1 : Stored(cols, getRow(cols, pg, i))

\* What is read back is a row that reads back as it is.
LEMMA ReadBackStored ==
  ASSUME NEW cols, IsSchema(cols), NEW row, IsRow(cols, row)
  PROVE  Stored(cols, ReadBack(cols, row))
<1> DEFINE back == ReadBack(cols, row)
<1>1. DOMAIN cols = 1 .. Len(cols) /\ \A i \in DOMAIN cols : cols[i].size \in Nat \ {0}
  BY SchemaType
<1>2. /\ DOMAIN back = DOMAIN cols
      /\ \A i \in DOMAIN cols :
           back[i] = IF cols[i].type = "INT" \/ Len(row[i]) < cols[i].size THEN row[i]
                     ELSE SubSeq(row[i], 1, cols[i].size - 1)
  BY DEF ReadBack
<1>3. ASSUME NEW i \in DOMAIN cols
      PROVE  /\ IF cols[i].type = "INT" THEN back[i] \in Int32 ELSE back[i] \in Texts
             /\ cols[i].type = "INT" \/ Len(back[i]) < cols[i].size
  <2>1. CASE cols[i].type = "INT"
    BY <1>2, <2>1 DEF IsRow
  <2>2. CASE cols[i].type # "INT"
    <3> DEFINE s == row[i]
               z == cols[i].size
    <3>1. s \in Seq(Characters) /\ z \in Nat \ {0}
      BY <1>1, <2>2 DEF IsRow, Texts
    <3>2. back[i] = IF Len(s) < z THEN s ELSE SubSeq(s, 1, z - 1)
      BY <1>2, <2>2
    <3> HIDE DEF s, z
    <3>3. ~(Len(s) < z) => /\ SubSeq(s, 1, z - 1) \in Seq(Characters)
                           /\ Len(SubSeq(s, 1, z - 1)) = z - 1
      BY <3>1
    <3>4. back[i] \in Seq(Characters) /\ Len(back[i]) < z
      <4> HIDE DEF back
      <4> QED
        BY <3>1, <3>2, <3>3
    <3> QED
      BY <2>2, <3>4 DEF Texts, z
  <2> QED
    BY <2>1, <2>2
<1>4. ReadBack(cols, back) = [i \in DOMAIN cols |-> back[i]]
  <2> HIDE DEF back
  <2> QED
    BY <1>3 DEF ReadBack
<1>5. back = [i \in DOMAIN cols |-> back[i]]
  BY DEF ReadBack
<1>6. IsRow(cols, back)
  <2> HIDE DEF back
  <2> QED
    BY <1>2, <1>3 DEF IsRow
<1> QED
  BY <1>4, <1>5, <1>6 DEF Stored

\* At least one record fits.
LEMMA RecordsFit ==
  ASSUME NEW cols, FitsPage(cols)
  PROVE  recordsPerPage(cols) \in Nat \ {0} /\ recordsPerPage(cols) <= PageSize
<1>1. PageSize \in Nat /\ PageHeader \in 12 .. PageSize /\ recordSize(cols) \in 1 .. PageSize - PageHeader
  BY RecordsAssumption DEF FitsPage
<1> DEFINE rs == recordSize(cols)
           space == PageSize - PageHeader
<1>2. rs \in Nat \ {0} /\ space \in Nat /\ rs <= space /\ space <= PageSize
  BY <1>1
<1> HIDE DEF rs, space
<1>3. space \div rs \in Nat \ {0} /\ space \div rs <= space
  <2>1. space \div rs \in Nat /\ space = rs * (space \div rs) + (space % rs) /\ space % rs \in 0 .. rs - 1
    BY <1>2
  <2> DEFINE d == space \div rs
  <2> HIDE DEF d
  <2>2. d \in Nat /\ space = rs * d + (space % rs) /\ space % rs \in 0 .. rs - 1
    BY <2>1 DEF d
  <2>3. d # 0
    BY <1>2, <2>2
  <2>4. d <= rs * d
    BY <1>2, <2>2
  <2>5. d <= space
    <3> DEFINE m == rs * d
    <3>1. m \in Nat
      BY <1>2, <2>2
    <3> HIDE DEF m
    <3> QED
      BY <1>2, <2>2, <2>4, <3>1 DEF m
  <2> QED
    BY <2>2, <2>3, <2>5 DEF d
<1> QED
  BY <1>1, <1>2, <1>3 DEF recordsPerPage, rs, space

\* A page without records.
LEMMA EmptyPage ==
  ASSUME NEW cols, FitsPage(cols), NEW pg, DOMAIN pg = 1 .. PageSize,
         \A k \in 5 .. 8 : pg[k] = 0
  PROVE  PageOK(cols, pg) /\ getRecordCount(pg) = 0 /\ RowsOf(cols, pg) = << >>
<1>1. \A k \in 1 .. 4 : pg[4 + k] = 0
  OBVIOUS
<1>2. ReadBytes(pg, 4, 4) = [k \in 1 .. 4 |-> 0]
  BY <1>1 DEF ReadBytes
<1>3. getRecordCount(pg) = 0
  BY <1>2 DEF getRecordCount, BytesInt
<1>4. RowsOf(cols, pg) = << >>
  BY <1>3 DEF RowsOf
<1> QED
  BY <1>3, <1>4, RecordsFit DEF PageOK

\* Page::init makes one, and so does a hole in the file.
LEMMA FreshPage ==
  ASSUME NEW cols, FitsPage(cols), NEW pid
  PROVE  /\ PageOK(cols, initPage(pid)) /\ getRecordCount(initPage(pid)) = 0
         /\ RowsOf(cols, initPage(pid)) = << >>
         /\ PageOK(cols, ZeroPage)
<1> DEFINE w1 == WriteBytes(ZeroPage, 0, IntBytes(pid))
           w2 == WriteBytes(w1, 4, IntBytes(0))
           w3 == WriteBytes(w2, 8, IntBytes(-1))
<1>1. DOMAIN w1 = 1 .. PageSize /\ DOMAIN w2 = 1 .. PageSize
  BY DEF ZeroPage, WriteBytes
<1>2. Len(IntBytes(0)) = 4 /\ Len(IntBytes(-1)) = 4 /\ \A k \in 1 .. 4 : IntBytes(0)[k] = 0
  BY DEF IntBytes
<1>3. PageSize \in Nat /\ PageSize >= 12
  BY RecordsAssumption
<1>4. /\ DOMAIN w3 = 1 .. PageSize
      /\ \A k \in 5 .. 8 : w3[k] = 0
  <2> HIDE DEF w1, w2, w3
  <2>1. \A k \in 1 .. PageSize : w2[k] = IF k - 4 \in 1 .. 4 THEN IntBytes(0)[k - 4] ELSE w1[k]
    BY <1>1, <1>2 DEF w2, WriteBytes
  <2>3. /\ DOMAIN w3 = 1 .. PageSize
        /\ \A k \in 1 .. PageSize :
             w3[k] = IF k - 8 \in 1 .. 4 THEN IntBytes(-1)[k - 8] ELSE w2[k]
    BY <1>1, <1>2 DEF w3, WriteBytes
  <2>2. ASSUME NEW k \in 5 .. 8
        PROVE  w3[k] = 0
    <3>1. k \in 1 .. PageSize /\ k - 4 \in 1 .. 4 /\ k - 8 \notin 1 .. 4
      BY <1>3
    <3>2. IntBytes(0)[k - 4] = 0
      BY <3>1, <1>2
    <3> QED
      BY <2>1, <2>3, <3>1, <3>2
  <2> QED
    BY <2>2, <2>3
<1>5. initPage(pid) = w3
  BY DEF initPage
<1> HIDE DEF w3
<1>6. DOMAIN ZeroPage = 1 .. PageSize /\ \A k \in 5 .. 8 : ZeroPage[k] = 0
  <2>1. \A k \in 5 .. 8 : k \in 1 .. PageSize
    BY <1>3
  <2> QED
    BY <2>1 DEF ZeroPage
<1> QED
  BY <1>4, <1>5, <1>6, EmptyPage

\* Appending to a sequence, as a function.
LEMMA AppendIs ==
  ASSUME NEW n \in Nat, NEW s, s = [i \in 1 .. n |-> s[i]], NEW x
  PROVE  Append(s, x) = [i \in 1 .. n + 1 |-> IF i = n + 1 THEN x ELSE s[i]]
<1> DEFINE X == {s[i] : i \in 1 .. n} \union {x}
<1>1. s \in [1 .. n -> X] /\ x \in X
  OBVIOUS
<1> HIDE DEF X
<1>2. s \in Seq(X) /\ Len(s) = n
  BY <1>1
<1> DEFINE a == Append(s, x)
<1>3. a \in Seq(X) /\ Len(a) = n + 1 /\ a[n + 1] = x /\ \A i \in 1 .. n : a[i] = s[i]
  BY <1>1, <1>2
<1> HIDE DEF a
<1>4. a = [i \in 1 .. n + 1 |-> a[i]]
  BY <1>3
<1>5. \A i \in 1 .. n + 1 : a[i] = IF i = n + 1 THEN x ELSE s[i]
  BY <1>3
<1>6. a = [i \in 1 .. n + 1 |-> IF i = n + 1 THEN x ELSE s[i]]
  BY <1>4, <1>5
<1> QED
  BY <1>6 DEF a

\* appendRow adds the row behind the others, and counts it.
LEMMA AppendedRow ==
  ASSUME NEW cols, FitsPage(cols), NEW pg, PageOK(cols, pg), ~isFull(cols, pg),
         NEW row, IsRow(cols, row)
  PROVE  /\ PageOK(cols, appendRow(cols, pg, row))
         /\ getRecordCount(appendRow(cols, pg, row)) = getRecordCount(pg) + 1
         /\ RowsOf(cols, appendRow(cols, pg, row)) =
              Append(RowsOf(cols, pg), ReadBack(cols, row))
<1> DEFINE n == getRecordCount(pg)
           put == PutRow(cols, pg, n, row)
           new == appendRow(cols, pg, row)
<1>1. n \in Nat /\ n < recordsPerPage(cols) /\ recordsPerPage(cols) \in Nat /\ DOMAIN pg = 1 .. PageSize
  <2>1. recordsPerPage(cols) \in Nat
    BY RecordsFit
  <2>2. n \in 0 .. recordsPerPage(cols) /\ ~(n >= recordsPerPage(cols)) /\ DOMAIN pg = 1 .. PageSize
    BY DEF PageOK, isFull
  <2> HIDE DEF n
  <2> QED
    BY <2>1, <2>2
<1>2. new = SetRecordCount(put, n + 1)
  BY DEF appendRow
<1> HIDE DEF n
<1>3. /\ DOMAIN put = 1 .. PageSize
      /\ getRow(cols, put, n) = ReadBack(cols, row)
      /\ \A j \in Nat : j # n /\ j < recordsPerPage(cols) =>
           getRow(cols, put, j) = getRow(cols, pg, j)
  BY <1>1, PutIs
<1> HIDE DEF put, new
<1>4. n + 1 \in Nat /\ n + 1 <= recordsPerPage(cols)
  BY <1>1
<1>5. /\ DOMAIN new = 1 .. PageSize
      /\ getRecordCount(new) = n + 1
      /\ \A j \in Nat : j < recordsPerPage(cols) => getRow(cols, new, j) = getRow(cols, put, j)
  BY <1>2, <1>3, <1>4, CountSet
<1>6. getRow(cols, new, n) = ReadBack(cols, row)
  BY <1>1, <1>3, <1>5
<1>7. \A j \in 0 .. n - 1 : getRow(cols, new, j) = getRow(cols, pg, j)
  <2>1. \A j \in 0 .. n - 1 : j \in Nat /\ j # n /\ j < recordsPerPage(cols)
    BY <1>1
  <2> QED
    BY <2>1, <1>3, <1>5
<1>8. \A j \in 0 .. n : Stored(cols, getRow(cols, new, j))
  <2>1. Stored(cols, ReadBack(cols, row))
    BY ReadBackStored DEF FitsPage
  <2>2. \A j \in 0 .. n - 1 : Stored(cols, getRow(cols, pg, j))
    BY DEF PageOK, n
  <2>3. \A j \in 0 .. n : j = n \/ j \in 0 .. n - 1
    BY <1>1
  <2> QED
    BY <1>6, <1>7, <2>1, <2>2, <2>3
<1>9. PageOK(cols, new)
  <2>1. (n + 1) - 1 = n /\ n + 1 \in 0 .. recordsPerPage(cols)
    BY <1>1, <1>4
  <2> QED
    BY <1>5, <1>8, <2>1 DEF PageOK
<1>10. RowsOf(cols, new) = Append(RowsOf(cols, pg), ReadBack(cols, row))
  <2> DEFINE s == RowsOf(cols, pg)
             x == ReadBack(cols, row)
  <2>1. s = [i \in 1 .. n |-> getRow(cols, pg, i - 1)]
    BY DEF RowsOf, n
  <2>2. s = [i \in 1 .. n |-> s[i]] /\ \A i \in 1 .. n : s[i] = getRow(cols, pg, i - 1)
    BY <2>1
  <2> HIDE DEF s, x
  <2>3. Append(s, x) = [i \in 1 .. n + 1 |-> IF i = n + 1 THEN x ELSE s[i]]
    BY <1>1, <2>2, AppendIs
  <2>4. RowsOf(cols, new) = [i \in 1 .. n + 1 |-> getRow(cols, new, i - 1)]
    BY <1>5 DEF RowsOf
  <2>5. ASSUME NEW i \in 1 .. n + 1
        PROVE  getRow(cols, new, i - 1) = IF i = n + 1 THEN x ELSE s[i]
    <3>1. CASE i = n + 1
      <4>1. i - 1 = n
        BY <1>1, <3>1
      <4> QED
        BY <1>6, <3>1, <4>1 DEF x
    <3>2. CASE i # n + 1
      <4>1. i \in 1 .. n /\ i - 1 \in 0 .. n - 1
        BY <1>1, <3>2
      <4> QED
        BY <1>7, <2>2, <3>2, <4>1
    <3> QED
      BY <3>1, <3>2
  <2> QED
    BY <2>3, <2>4, <2>5 DEF s, x
<1> QED
  BY <1>5, <1>9, <1>10 DEF new, n

-----------------------------------------------------------------------------
(* Files *)

\* Every table of a session has a schema whose rows fit in a page.
LEMMA SchemasFit == \A t \in Tables : FitsPage(Schemas[t])
  BY SessionAssumption, RowsAssumption DEF FitsPage

IsFile(f) == \E n \in Nat : f = [i \in 1 .. n |-> f[i]]

\* A file is a sequence: its length counts its pages.
LEMMA FileLength ==
  ASSUME NEW f, IsFile(f)
  PROVE  Len(f) \in Nat /\ DOMAIN f = 1 .. Len(f) /\ (Len(f) = 0 <=> f = << >>)
<1>1. PICK n \in Nat : f = [i \in 1 .. n |-> f[i]]
  BY DEF IsFile
<1>2. f \in [1 .. n -> {f[i] : i \in 1 .. n}]
  BY <1>1
<1>3. f \in Seq({f[i] : i \in 1 .. n})
  BY <1>2
<1> QED
  BY <1>3

\* A file that a page was written to is a file, and not empty.
LEMMA WrittenFile ==
  ASSUME NEW f, IsFile(f), NEW p \in Nat, NEW content
  PROVE  IsFile(writePage(f, p, content)) /\ writePage(f, p, content) # << >>
<1> DEFINE n == IF p < Len(f) THEN Len(f) ELSE p + 1
           new == writePage(f, p, content)
<1>1. n \in Nat \ {0}
  BY FileLength
<1>2. DOMAIN new = 1 .. n /\ new = [i \in 1 .. n |-> new[i]]
  BY DEF writePage, pageCount
<1> HIDE DEF n, new
<1>3. 1 \in DOMAIN new
  BY <1>1, <1>2
<1>4. IsFile(new)
  BY <1>1, <1>2 DEF IsFile
<1>5. new # << >>
  BY <1>3
<1> QED
  BY <1>4, <1>5 DEF new

\* So is a file whose pages were changed in place, if it was not empty.
LEMMA ChangedFile ==
  ASSUME NEW f, IsFile(f), NEW new, DOMAIN new = DOMAIN f, new = [i \in DOMAIN f |-> new[i]]
  PROVE  IsFile(new) /\ (f # << >> => new # << >>)
<1>1. Len(f) \in Nat /\ DOMAIN f = 1 .. Len(f) /\ (Len(f) = 0 <=> f = << >>)
  BY FileLength
<1>2. IsFile(new)
  BY <1>1 DEF IsFile
<1>3. ASSUME f # << >> PROVE new # << >>
  <2>1. 1 \in DOMAIN new
    BY <1>1, <1>3
  <2> QED
    BY <2>1
<1> QED
  BY <1>2, <1>3

-----------------------------------------------------------------------------
(* The invariant *)

OnlyNanodb == ran \subseteq {"nanodb"}

Generating == phase \in {"generate", "generating"}

AllNonempty(fs) == \A t \in Tables : fs[t] # << >>

\* All tables but the last one.
Others == Tables \ {Len(Schemas)}

TypesInv ==
  /\ phase \in {"down", "generate", "generating", "run"}
  /\ table \in Tables /\ made \in Nat /\ used \in Nat
  /\ complete \subseteq Tables
  /\ DOMAIN files = Tables /\ DOMAIN view = Tables
  /\ \A t \in Tables : IsFile(files[t]) /\ IsFile(view[t])

\* The page a generator fills has rows, in bounds, when it has made any.
PageInv ==
  phase = "generating" =>
    /\ PageOK(Schemas[table], page)
    /\ made > 0 => getRecordCount(page) > 0

\* What holds as long as only nanodb is used: the last file gets its first page
\* when all others are complete, and it is empty whenever a generation begins.
OrderInv ==
  OnlyNanodb =>
    /\ files[Len(Schemas)] # << >> => Others \subseteq complete
    /\ \A t \in complete : files[t] # << >>
    /\ Generating => /\ used = 0
                     /\ \A t \in Tables : t < table => t \in complete
                     /\ phase = "generate" \/ table # Len(Schemas)
                          => files[Len(Schemas)] = << >>
    /\ phase = "run" => AllNonempty(files) /\ AllNonempty(view) /\ Others \subseteq complete
    /\ used > 0 => AllNonempty(files)

SessionInv == TypesInv /\ PageInv /\ OrderInv

\* At first all files are empty and nothing runs.
LEMMA InitInv == Init => SessionInv
<1> SUFFICES ASSUME Init PROVE SessionInv
  OBVIOUS
<1>1. Len(Schemas) \in Nat \ {0} /\ Tables = 1 .. Len(Schemas)
  BY SessionAssumption
<1>2. \A t \in Tables : files[t] = << >> /\ view[t] = << >>
  BY DEF Init
<1>3. IsFile(<< >>)
  BY DEF IsFile
<1>4. TypesInv
  BY <1>1, <1>2, <1>3 DEF Init, TypesInv
<1>5. PageInv
  BY DEF Init, PageInv
<1>6. OrderInv
  BY <1>1, <1>2 DEF Init, OrderInv, Generating
<1> QED
  BY <1>4, <1>5, <1>6 DEF SessionInv

\* A program that starts generates unless all files it looks at have pages.
LEMMA StartKeepsInv ==
  ASSUME SessionInv, NEW prog \in Programs, Start(prog)
  PROVE  SessionInv'
<1>1. Len(Schemas) \in Nat \ {0} /\ Tables = 1 .. Len(Schemas)
  BY SessionAssumption
<1>2. TypesInv'
  BY <1>1 DEF SessionInv, TypesInv, Start
<1>3. PageInv'
  BY DEF PageInv, Start
<1>4. ASSUME OnlyNanodb'
      PROVE  OnlyNanodb /\ prog = "nanodb"
  BY <1>4 DEF OnlyNanodb, Start
<1>5. needGen("nanodb") <=> ~AllNonempty(files)
  BY FileLength DEF needGen, pageCount, AllNonempty, SessionInv, TypesInv
<1>6. AllNonempty(files) \/ files[Len(Schemas)] = << >>  \/ ~OnlyNanodb
  BY <1>1 DEF SessionInv, OrderInv, AllNonempty, Others
<1>7. ASSUME OnlyNanodb'
      PROVE  /\ files[Len(Schemas)] # << >> => Others \subseteq complete
             /\ \A t \in complete : files[t] # << >>
             /\ used > 0 => AllNonempty(files)
             /\ used \in Nat
             /\ phase' = IF AllNonempty(files) THEN "run" ELSE "generate"
             /\ files' = files /\ view' = files /\ UNCHANGED <<complete, used>>
             /\ table' = 1
  BY <1>4, <1>5, <1>7 DEF SessionInv, TypesInv, OrderInv, Start
<1>8. AllNonempty(files)' <=> AllNonempty(files)
  BY DEF AllNonempty, Start
<1>9. AllNonempty(view)' <=> AllNonempty(files)
  BY DEF AllNonempty, Start
<1>10. OrderInv'
  <2> SUFFICES ASSUME OnlyNanodb' PROVE OrderInv!2'
    BY DEF OrderInv
  <2>1. CASE AllNonempty(files)
    <3>1. files[Len(Schemas)] # << >>
      BY <1>1, <2>1 DEF AllNonempty
    <3> QED
      BY <1>7, <1>8, <1>9, <2>1, <3>1 DEF Generating, Others
  <2>2. CASE ~AllNonempty(files)
    <3>1. files[Len(Schemas)] = << >>
      BY <1>6, <1>4, <2>2
    <3> QED
      BY <1>1, <1>7, <1>8, <2>2, <3>1 DEF Generating, Others
  <2> QED
    BY <2>1, <2>2
<1> QED
  BY <1>2, <1>3, <1>10 DEF SessionInv

\* A generator starts with an empty file and an empty page.
LEMMA TruncateKeepsInv ==
  ASSUME SessionInv, Truncate
  PROVE  SessionInv'
<1>1. Len(Schemas) \in Nat \ {0} /\ Tables = 1 .. Len(Schemas)
  BY SessionAssumption
<1>2. /\ phase = "generate" /\ phase' = "generating" /\ made' = 0 /\ table' = table
      /\ table \in Tables /\ DOMAIN files' = Tables
      /\ \A t \in Tables : files'[t] = IF t = table THEN << >> ELSE files[t]
      /\ complete' = complete \ {table}
  BY DEF Truncate, SessionInv, TypesInv
<1>3. IsFile(<< >>)
  BY DEF IsFile
<1>4. TypesInv'
  BY <1>2, <1>3 DEF SessionInv, TypesInv, Truncate
<1>5. PageInv'
  BY <1>2, FreshPage, SchemasFit DEF Truncate, PageInv
<1>6. OrderInv'
  BY <1>1, <1>2 DEF SessionInv, TypesInv, OrderInv, Truncate, Generating, AllNonempty, Others, OnlyNanodb
<1> QED
  BY <1>4, <1>5, <1>6 DEF SessionInv

\* A row keeps the counts in bounds; only the file of the table in turn grows.
LEMMA GenerateRowKeepsInv ==
  ASSUME SessionInv, GenerateRow
  PROVE  SessionInv'
<1>1. Len(Schemas) \in Nat \ {0} /\ Tables = 1 .. Len(Schemas)
  BY SessionAssumption
<1> DEFINE cols == Schemas[table]
           row == Dataset[table][made + 1]
           fresh == IF isFull(cols, page) THEN initPage(pageId + 1) ELSE page
<1>2. /\ phase = "generating" /\ phase' = phase /\ made' = made + 1 /\ table' = table
      /\ page' = appendRow(cols, fresh, row)
      /\ files' = IF isFull(cols, page)
                  THEN [files EXCEPT ![table] = writePage(@, pageId, page)] ELSE files
      /\ UNCHANGED <<program, view, ran, complete, used>>
  BY DEF GenerateRow
<1>3. made \in Nat /\ table \in Tables /\ DOMAIN files = Tables /\ IsFile(files[table])
  BY DEF SessionInv, TypesInv
<1>4. pageId \in Nat
  BY <1>3, FileLength DEF pageId, pageCount
<1>5. FitsPage(cols) /\ recordsPerPage(cols) \in Nat \ {0}
  BY <1>3, SchemasFit, RecordsFit
<1>6. IsRow(cols, row)
  <2>1. made < Len(Dataset[table]) /\ Len(Dataset[table]) \in Nat
    BY <1>3, SessionAssumption DEF GenerateRow
  <2>2. made + 1 \in 1 .. Len(Dataset[table])
    BY <1>3, <2>1
  <2> QED
    BY <1>3, <2>2, RowsAssumption
<1>7. PageOK(cols, fresh) /\ ~isFull(cols, fresh)
  <2> HIDE DEF cols
  <2>1. CASE isFull(cols, page)
    <3>1. PageOK(cols, initPage(pageId + 1)) /\ getRecordCount(initPage(pageId + 1)) = 0
      BY <1>5, FreshPage
    <3>2. ~(0 >= recordsPerPage(cols))
      BY <1>5
    <3> QED
      BY <2>1, <3>1, <3>2 DEF isFull
  <2>2. CASE ~isFull(cols, page)
    BY <1>2, <2>2 DEF SessionInv, PageInv, cols
  <2> QED
    BY <2>1, <2>2
<1>8. PageInv'
  <2> HIDE DEF cols, row, fresh
  <2>1. /\ PageOK(cols, page')
        /\ getRecordCount(page') = getRecordCount(fresh) + 1
    BY <1>2, <1>5, <1>6, <1>7, AppendedRow
  <2>2. getRecordCount(fresh) \in 0 .. recordsPerPage(cols)
    BY <1>7 DEF PageOK
  <2>3. getRecordCount(page') > 0
    BY <1>5, <2>1, <2>2
  <2> QED
    BY <1>2, <2>1, <2>3 DEF PageInv, cols
<1>9. /\ DOMAIN files' = Tables
      /\ \A t \in Tables :
           /\ IsFile(files'[t])
           /\ t # table => files'[t] = files[t]
           /\ files[t] # << >> => files'[t] # << >>
  <2>1. IsFile(writePage(files[table], pageId, page)) /\ writePage(files[table], pageId, page) # << >>
    BY <1>3, <1>4, WrittenFile
  <2>2. \A t \in Tables : IsFile(files[t])
    BY DEF SessionInv, TypesInv
  <2> HIDE DEF cols
  <2> QED
    BY <1>2, <1>3, <2>1, <2>2
<1>10. /\ phase = "generating" /\ phase' = phase /\ made' = made + 1 /\ table' = table
       /\ UNCHANGED <<view, ran, complete, used>>
  BY <1>2
<1> HIDE DEF cols, row, fresh
<1>11. TypesInv'
  <2>1. TypesInv /\ made + 1 \in Nat
    BY <1>3 DEF SessionInv
  <2> QED
    BY <1>9, <1>10, <2>1 DEF TypesInv
<1>12. OrderInv'
  <2>2. Len(Schemas) \in Tables /\ complete \subseteq Tables /\ table \in Tables
    BY <1>1, <1>3 DEF SessionInv, TypesInv
  <2>3. OrderInv
    BY DEF SessionInv
  <2> HIDE DEF OrderInv
  <2> QED
    BY <1>1, <1>9, <1>10, <2>2, <2>3 DEF OrderInv, Generating, Others, OnlyNanodb
<1> QED
  BY <1>8, <1>11, <1>12 DEF SessionInv

\* A generator that ends has a row in its page, and so leaves a file with pages.
LEMMA GenerateEndKeepsInv ==
  ASSUME SessionInv, GenerateEnd
  PROVE  SessionInv'
<1>1. Len(Schemas) \in Nat \ {0} /\ Tables = 1 .. Len(Schemas)
  BY SessionAssumption
<1>2. /\ phase = "generating" /\ made = Len(Dataset[table]) /\ table \in Tables
      /\ DOMAIN files = Tables /\ IsFile(files[table])
  BY DEF GenerateEnd, SessionInv, TypesInv
<1>3. getRecordCount(page) > 0
  BY <1>2, SessionAssumption DEF SessionInv, PageInv
<1>4. files' = [files EXCEPT ![table] = writePage(@, pageId, page)]
  BY <1>3 DEF GenerateEnd
<1>5. pageId \in Nat
  BY <1>2, FileLength DEF pageId, pageCount
<1>6. /\ DOMAIN files' = Tables /\ files'[table] # << >>
      /\ \A t \in Tables : IsFile(files'[t]) /\ (t # table => files'[t] = files[t])
  <2>1. IsFile(writePage(files[table], pageId, page)) /\ writePage(files[table], pageId, page) # << >>
    BY <1>2, <1>5, WrittenFile
  <2>2. \A t \in Tables : IsFile(files[t])
    BY DEF SessionInv, TypesInv
  <2> QED
    BY <1>2, <1>4, <2>1, <2>2
<1>7. /\ complete' = complete \union {table} /\ UNCHANGED <<made, page, ran, used>>
      /\ \/ /\ table < Len(Schemas) /\ phase' = "generate" /\ table' = table + 1
            /\ view' = view
         \/ /\ table = Len(Schemas) /\ phase' = "run" /\ table' = table /\ view' = files'
  BY <1>1, <1>2 DEF GenerateEnd
<1>8. TypesInv'
  <2>1. TypesInv
    BY DEF SessionInv
  <2>2. table' \in Tables
    BY <1>1, <1>2, <1>7
  <2>3. DOMAIN view' = Tables /\ \A t \in Tables : IsFile(view'[t])
    BY <1>6, <1>7, <2>1 DEF TypesInv
  <2> QED
    BY <1>2, <1>6, <1>7, <2>1, <2>2, <2>3 DEF TypesInv
<1>9. PageInv'
  BY <1>7 DEF PageInv
<1>10. OrderInv'
  <2>1. ASSUME OnlyNanodb'
        PROVE  /\ OrderInv!2
               /\ OnlyNanodb
    BY <1>7, <2>1 DEF SessionInv, OrderInv, OnlyNanodb
  <2>2. ASSUME OnlyNanodb'
        PROVE  /\ used' = 0
               /\ \A t \in Tables : t < table => t \in complete
               /\ \A t \in complete : files[t] # << >>
               /\ table # Len(Schemas) => files[Len(Schemas)] = << >>
    BY <1>2, <1>7, <2>1, <2>2 DEF Generating
  <2>3. complete \subseteq Tables
    BY DEF SessionInv, TypesInv
  <2>4. \A t \in complete' : OnlyNanodb' => files'[t] # << >>
    BY <1>6, <1>7, <2>2, <2>3
  <2>5. CASE table < Len(Schemas)
    <3> SUFFICES ASSUME OnlyNanodb' PROVE OrderInv!2'
      BY DEF OrderInv
    <3>1. files'[Len(Schemas)] = << >>
      BY <1>1, <1>6, <2>2, <2>5
    <3>2. \A t \in Tables : t < table + 1 => t \in complete'
      BY <1>1, <1>2, <1>7, <2>2
    <3>3. phase' = "generate" /\ table' = table + 1
      BY <1>1, <1>2, <1>7, <2>5
    <3>4. Generating' => /\ used' = 0
                         /\ \A t \in Tables : t < table' => t \in complete'
                         /\ files'[Len(Schemas)] = << >>
      BY <2>2, <3>1, <3>2, <3>3
    <3> QED
      BY <2>2, <2>4, <3>1, <3>3, <3>4
  <2>6. CASE table = Len(Schemas)
    <3>1. OnlyNanodb' => complete' = Tables
      <4>1. \A t \in Tables : t < table \/ t = table
        BY <1>1, <2>6
      <4> QED
        BY <1>2, <1>7, <2>2, <2>3, <4>1
    <3>2. OnlyNanodb' => AllNonempty(files)' /\ AllNonempty(view)'
      BY <1>1, <1>7, <2>4, <2>6, <3>1 DEF AllNonempty
    <3>3. phase' = "run"
      BY <1>1, <1>7, <2>6
    <3> QED
      BY <2>2, <2>4, <3>1, <3>2, <3>3 DEF OrderInv, Generating, Others
  <2> QED
    BY <1>1, <1>2, <2>5, <2>6
<1> QED
  BY <1>8, <1>9, <1>10 DEF SessionInv

\* Every table still has its pages, or more, after a step.
PagesKept ==
  /\ DOMAIN view' = Tables
  /\ \A t \in Tables : IsFile(view'[t]) /\ (view[t] # << >> => view'[t] # << >>)

\* A statement gives each table pages again, and takes no page from a file.
LEMMA StatementKeepsPages ==
  ASSUME SessionInv, NEW sql, executeSQL(sql)
  PROVE  PagesKept
<1>1. /\ DOMAIN view = Tables
      /\ \A t \in Tables : IsFile(view[t]) /\ IsFile(files[t])
  BY DEF SessionInv, TypesInv
<1> DEFINE q == parse(sql)
<1>2. \/ view' = view
      \/ \E t \in Tables : executeInsert(t, q) \/ executeUpdate(t, q) \/ executeDelete(t, q)
  BY DEF executeSQL
<1> HIDE DEF q
<1>3. CASE view' = view
  BY <1>1, <1>3 DEF PagesKept
<1>4. ASSUME NEW t \in Tables, NEW new, view' = [view EXCEPT ![t] = new],
             DOMAIN new = DOMAIN view[t], new = [p \in DOMAIN view[t] |-> new[p]]
      PROVE  PagesKept
  <2>1. IsFile(new) /\ (view[t] # << >> => new # << >>)
    BY <1>1, <1>4, ChangedFile
  <2> QED
    BY <1>1, <1>4, <2>1 DEF PagesKept
<1>5. ASSUME NEW t \in Tables, executeUpdate(t, q)
      PROVE  PagesKept
  <2> DEFINE new == [p \in DOMAIN view[t] |->
                       IF p <= pageCount(files[t]) THEN UpdatePage(Schemas[t], q, view[t][p])
                       ELSE view[t][p]]
  <2>1. view' = view \/ view' = [view EXCEPT ![t] = new]
    BY <1>1, <1>5 DEF executeUpdate, Rewritten
  <2>2. DOMAIN new = DOMAIN view[t] /\ new = [p \in DOMAIN view[t] |-> new[p]]
    OBVIOUS
  <2> HIDE DEF new
  <2> QED
    BY <1>3, <1>4, <2>1, <2>2
<1>6. ASSUME NEW t \in Tables, executeDelete(t, q)
      PROVE  PagesKept
  <2> DEFINE new == [p \in DOMAIN view[t] |->
                       IF p <= pageCount(files[t]) THEN DeleteRows(Schemas[t], q, view[t][p])
                       ELSE view[t][p]]
  <2>1. view' = view \/ view' = [view EXCEPT ![t] = new]
    BY <1>1, <1>6 DEF executeDelete, Rewritten
  <2>2. DOMAIN new = DOMAIN view[t] /\ new = [p \in DOMAIN view[t] |-> new[p]]
    OBVIOUS
  <2> HIDE DEF new
  <2> QED
    BY <1>3, <1>4, <2>1, <2>2
<1>7. ASSUME NEW t \in Tables, executeInsert(t, q)
      PROVE  PagesKept
  <2>1. pageCount(files[t]) \in Nat
    BY <1>1, FileLength DEF pageCount
  <2>2. ASSUME NEW p \in Nat, NEW content, view' = [view EXCEPT ![t][p + 1] = content]
        PROVE  PagesKept
    <3>1. view' = [view EXCEPT ![t] = [view[t] EXCEPT ![p + 1] = content]]
      BY <2>2
    <3> DEFINE new == [view[t] EXCEPT ![p + 1] = content]
    <3>2. DOMAIN new = DOMAIN view[t] /\ new = [i \in DOMAIN view[t] |-> new[i]]
      OBVIOUS
    <3> HIDE DEF new
    <3> QED
      BY <1>4, <3>1, <3>2
  <2>3. ASSUME NEW content,
               view' = [view EXCEPT ![t] = writePage(@, pageCount(files[t]), content)]
        PROVE  PagesKept
    <3>1. /\ IsFile(writePage(view[t], pageCount(files[t]), content))
          /\ writePage(view[t], pageCount(files[t]), content) # << >>
      BY <1>1, <2>1, WrittenFile
    <3> QED
      BY <1>1, <2>3, <3>1 DEF PagesKept
  <2>4. \/ \E p \in Nat : \E content : view' = [view EXCEPT ![t][p + 1] = content]
        \/ \E content : view' = [view EXCEPT ![t] = writePage(@, pageCount(files[t]), content)]
    <3> DEFINE n == pageCount(files[t])
               room == {p \in 0 .. n - 1 : ~isFull(Schemas[t], view[t][p + 1])}
    <3>1. room \subseteq Nat
      BY <2>1
    <3>2. PICK rest \in Garbage :
            LET row == InsertedRow(Schemas[t], q.insertVals, rest)
            IN  \/ \E p \in room : /\ \A o \in room : o <= p
                                   /\ view' = [view EXCEPT ![t][p + 1] =
                                                 appendRow(Schemas[t], @, row)]
                \/ /\ room = {}
                   /\ view' = [view EXCEPT ![t] =
                                 writePage(@, n, appendRow(Schemas[t], initPage(n), row))]
      BY <1>7 DEF executeInsert
    <3> HIDE DEF room
    <3> QED
      BY <3>1, <3>2
  <2> QED
    BY <2>2, <2>3, <2>4
<1> QED
  BY <1>2, <1>3, <1>5, <1>6, <1>7

\* A statement needs a process that runs, and changes no file.
LEMMA StatementKeepsInv ==
  ASSUME SessionInv, NEW sql, executeSQL(sql)
  PROVE  SessionInv'
<1>1. /\ phase = "run" /\ used' = used + 1
      /\ UNCHANGED <<files, phase, program, table, made, page, ran, complete>>
  BY DEF executeSQL
<1>2. PagesKept
  BY StatementKeepsPages
<1>3. TypesInv'
  <2>1. TypesInv
    BY DEF SessionInv
  <2> QED
    BY <1>1, <1>2, <2>1 DEF TypesInv, PagesKept
<1>4. PageInv'
  BY <1>1 DEF PageInv
<1>5. OrderInv'
  <2> SUFFICES ASSUME OnlyNanodb' PROVE OrderInv!2'
    BY DEF OrderInv
  <2>1. OrderInv!2
    BY <1>1 DEF SessionInv, OrderInv, OnlyNanodb
  <2>2. AllNonempty(view)'
    BY <1>1, <1>2, <2>1 DEF AllNonempty, PagesKept
  <2> QED
    BY <1>1, <2>1, <2>2 DEF AllNonempty, Generating, Others
<1> QED
  BY <1>3, <1>4, <1>5 DEF SessionInv

\* A page that is written back leaves its file with pages.
LEMMA WriteBackKeepsInv ==
  ASSUME SessionInv, NEW t \in Tables, NEW p \in 0 .. pageCount(view[t]) - 1, WriteBack(t, p)
  PROVE  SessionInv'
<1>1. /\ phase = "run"
      /\ files' = [files EXCEPT ![t] = writePage(@, p, view[t][p + 1])]
      /\ UNCHANGED <<phase, program, table, made, page, view, ran, complete, used>>
  BY DEF WriteBack
<1>2. TypesInv
  BY DEF SessionInv
<1>3. pageCount(view[t]) \in Nat
  BY <1>2, FileLength DEF TypesInv, pageCount
<1>4. /\ IsFile(writePage(files[t], p, view[t][p + 1]))
      /\ writePage(files[t], p, view[t][p + 1]) # << >>
  BY <1>2, <1>3, WrittenFile DEF TypesInv
<1>5. /\ DOMAIN files' = Tables
      /\ \A u \in Tables : IsFile(files'[u]) /\ (files[u] # << >> => files'[u] # << >>)
  BY <1>1, <1>2, <1>4 DEF TypesInv
<1>6. TypesInv'
  BY <1>1, <1>2, <1>5 DEF TypesInv
<1>7. PageInv'
  BY <1>1 DEF PageInv
<1>8. OrderInv'
  <2> SUFFICES ASSUME OnlyNanodb' PROVE OrderInv!2'
    BY DEF OrderInv
  <2>1. OrderInv!2
    BY <1>1 DEF SessionInv, OrderInv, OnlyNanodb
  <2>2. complete \subseteq Tables
    BY <1>2 DEF TypesInv
  <2> QED
    BY <1>1, <1>5, <2>1, <2>2 DEF AllNonempty, Generating, Others
<1> QED
  BY <1>6, <1>7, <1>8 DEF SessionInv

\* The tables go to the files as they were seen, with all of their pages.
LEMMA ExitKeepsInv ==
  ASSUME SessionInv, Exit
  PROVE  SessionInv'
<1>1. /\ phase = "run" /\ phase' = "down" /\ files' = view
      /\ UNCHANGED <<program, table, made, page, view, ran, complete, used>>
  BY DEF Exit
<1>2. TypesInv
  BY DEF SessionInv
<1>3. TypesInv'
  BY <1>1, <1>2 DEF TypesInv
<1>4. PageInv'
  BY <1>1 DEF PageInv
<1>5. OrderInv'
  <2> SUFFICES ASSUME OnlyNanodb' PROVE OrderInv!2'
    BY DEF OrderInv
  <2>1. OrderInv!2
    BY <1>1 DEF SessionInv, OrderInv, OnlyNanodb
  <2> QED
    BY <1>1, <1>2, <2>1 DEF AllNonempty, Generating, Others, TypesInv
<1> QED
  BY <1>3, <1>4, <1>5 DEF SessionInv

\* A kill changes no file: a page that was being filled is lost with the process.
LEMMA KillKeepsInv ==
  ASSUME SessionInv, Kill
  PROVE  SessionInv'
<1>1. /\ phase' = "down" /\ view' = files
      /\ UNCHANGED <<files, program, table, made, page, ran, complete, used>>
  BY DEF Kill
<1>2. TypesInv
  BY DEF SessionInv
<1>3. TypesInv'
  BY <1>1, <1>2 DEF TypesInv
<1>4. PageInv'
  BY <1>1 DEF PageInv
<1>5. OrderInv'
  <2> SUFFICES ASSUME OnlyNanodb' PROVE OrderInv!2'
    BY DEF OrderInv
  <2>1. OrderInv!2
    BY <1>1 DEF SessionInv, OrderInv, OnlyNanodb
  <2> QED
    BY <1>1, <2>1 DEF AllNonempty, Generating
<1> QED
  BY <1>3, <1>4, <1>5 DEF SessionInv

-----------------------------------------------------------------------------
(* The theorems *)

(***************************************************************************)
(* In every reachable state the files are sequences of pages, the page     *)
(* that a generator fills counts the rows in it within its bounds, and as  *)
(* long as only nanodb was started the tables got their pages in order.    *)
(***************************************************************************)
THEOREM SessionInvariant == Spec => []SessionInv
<1>1. SessionInv /\ [Next]_vars => SessionInv'
  <2> SUFFICES ASSUME SessionInv, [Next]_vars PROVE SessionInv'
    OBVIOUS
  <2>1. CASE \E prog \in Programs : Start(prog)
    BY <2>1, StartKeepsInv
  <2>2. CASE Generate
    BY <2>2, TruncateKeepsInv, GenerateRowKeepsInv, GenerateEndKeepsInv DEF Generate
  <2>3. CASE \E r \in Requests : executeSQL(TextOf(r))
    BY <2>3, StatementKeepsInv
  <2>4. CASE \E t \in Tables : \E p \in 0 .. pageCount(view[t]) - 1 : WriteBack(t, p)
    BY <2>4, WriteBackKeepsInv
  <2>5. CASE Exit \/ Kill
    BY <2>5, ExitKeepsInv, KillKeepsInv
  <2>6. CASE UNCHANGED vars
    BY <2>6 DEF vars, SessionInv, TypesInv, PageInv, OrderInv, OnlyNanodb, Generating,
                AllNonempty, Others
  <2> QED
    BY <2>1, <2>2, <2>3, <2>4, <2>5, <2>6 DEF Next
<1> QED
  BY <1>1, InitInv, PTL DEF Spec

(***************************************************************************)
(* As long as only nanodb is used, no history of kills, restarts and       *)
(* statements leads to a run of it without a table, or with one of the     *)
(* tables before the last cut short (main.cpp:38-54).                      *)
(***************************************************************************)
THEOREM NanodbAlwaysStartsComplete == Spec => []NanodbStartsComplete
<1>1. SessionInv => NanodbStartsComplete
  BY DEF SessionInv, OrderInv, OnlyNanodb, AllNonempty, Others, NanodbStartsComplete
<1> QED
  BY <1>1, SessionInvariant, PTL

(***************************************************************************)
(* As long as only nanodb is used, it never generates again over tables    *)
(* that a statement was executed on, not even if all rows are deleted.     *)
(***************************************************************************)
THEOREM UserRowsKept == Spec => []StartKeepsUserRows
<1>1. SessionInv => StartKeepsUserRows
  BY DEF SessionInv, OrderInv, OnlyNanodb, Generating, StartKeepsUserRows
<1> QED
  BY <1>1, SessionInvariant, PTL

-----------------------------------------------------------------------------
(* The rows that are generated *)

\* Rows that are stored are functions into numbers and texts.
RowSet(cols) == [DOMAIN cols -> Int32 \union Texts]

\* A stored row has a type that does not depend on the data.
LEMMA StoredType ==
  ASSUME NEW cols, NEW row, Stored(cols, row)
  PROVE  row \in RowSet(cols)
<1>1. row = [i \in DOMAIN cols |-> row[i]]
  <2>1. ReadBack(cols, row) = row
    BY DEF Stored
  <2>2. \A i \in DOMAIN cols :
          ReadBack(cols, row)[i] = IF cols[i].type = "INT" \/ Len(row[i]) < cols[i].size THEN row[i]
                                   ELSE SubSeq(row[i], 1, cols[i].size - 1)
    BY DEF ReadBack
  <2>3. ReadBack(cols, row) = [i \in DOMAIN cols |-> ReadBack(cols, row)[i]]
    BY DEF ReadBack
  <2> QED
    BY <2>1, <2>3
<1>2. \A i \in DOMAIN cols : row[i] \in Int32 \union Texts
  BY DEF Stored, IsRow
<1> QED
  BY <1>1, <1>2 DEF RowSet

\* So have the rows of a page.
LEMMA RowsType ==
  ASSUME NEW cols, FitsPage(cols), NEW pg, PageOK(cols, pg)
  PROVE  RowsOf(cols, pg) \in Seq(RowSet(cols)) /\ Len(RowsOf(cols, pg)) = getRecordCount(pg)
<1> DEFINE n == getRecordCount(pg)
<1>1. n \in Nat /\ \A i \in 0 .. n - 1 : getRow(cols, pg, i) \in RowSet(cols)
  BY RecordsFit, StoredType DEF PageOK
<1> HIDE DEF n
<1>2. \A i \in 1 .. n : i - 1 \in 0 .. n - 1
  BY <1>1
<1>3. [i \in 1 .. n |-> getRow(cols, pg, i - 1)] \in [1 .. n -> RowSet(cols)]
  BY <1>1, <1>2
<1>4. RowsOf(cols, pg) = [i \in 1 .. n |-> getRow(cols, pg, i - 1)]
  BY DEF RowsOf, n
<1> QED
  BY <1>1, <1>3, <1>4 DEF n

\* The pages of a file of table t.
FileOK(t, f) == IsFile(f) /\ \A p \in 1 .. Len(f) : PageOK(Schemas[t], f[p])

\* And those of all pages of a file.
LEMMA FileRowsType ==
  ASSUME NEW t \in Tables, NEW f, FileOK(t, f)
  PROVE  RowsIn(t, f) \in Seq(RowSet(Schemas[t]))
<1> DEFINE Y == RowSet(Schemas[t])
           s == [p \in DOMAIN f |-> RowsOf(Schemas[t], f[p])]
<1>1. Len(f) \in Nat /\ DOMAIN f = 1 .. Len(f)
  BY FileLength DEF FileOK
<1>2. \A p \in 1 .. Len(f) : RowsOf(Schemas[t], f[p]) \in Seq(Y)
  BY RowsType, SchemasFit DEF FileOK
<1> HIDE DEF Y
<1>3. s \in Seq(Seq(Y))
  BY <1>1, <1>2
<1>4. RowsIn(t, f) = FlattenSeq(s)
  BY DEF RowsIn
<1> HIDE DEF s
<1>5. FlattenSeq(s) \in Seq(Y)
  BY <1>3, FlattenType
<1> QED
  BY <1>4, <1>5 DEF Y

Added(t, f, pg, new) ==
  /\ FileOK(t, new)
  /\ RowsIn(t, new) = RowsIn(t, f) \o RowsOf(Schemas[t], pg)
  /\ \A p \in DOMAIN new : new[p] = pg \/ (p \in DOMAIN f /\ new[p] = f[p])

\* A page written to the end of a file adds its rows behind the others.
LEMMA PageAdded ==
  ASSUME NEW t \in Tables, NEW f, FileOK(t, f), NEW pg, PageOK(Schemas[t], pg)
  PROVE  Added(t, f, pg, writePage(f, Len(f), pg))
<1> DEFINE n == Len(f)
           cols == Schemas[t]
           Y == RowSet(cols)
           new == writePage(f, Len(f), pg)
           s == [p \in DOMAIN f |-> RowsOf(cols, f[p])]
           x == RowsOf(cols, pg)
<1>1. n \in Nat /\ DOMAIN f = 1 .. n
  BY FileLength DEF FileOK
<1>2. new = [i \in 1 .. n + 1 |-> IF i = n + 1 THEN pg ELSE f[i]]
  <2>1. ~(n < n)
    BY <1>1
  <2>2. new = [i \in 1 .. n + 1 |-> IF i = n + 1 THEN pg ELSE IF i <= n THEN f[i] ELSE Blank]
    BY <2>1 DEF writePage, pageCount
  <2>3. \A i \in 1 .. n + 1 : i # n + 1 => i <= n
    BY <1>1
  <2> HIDE DEF n
  <2> QED
    BY <2>2, <2>3
<1>3. /\ DOMAIN new = 1 .. n + 1 /\ new[n + 1] = pg
      /\ \A i \in 1 .. n : new[i] = f[i]
      /\ \A i \in 1 .. n + 1 : i = n + 1 \/ i \in 1 .. n
      /\ n + 1 \in 1 .. n + 1
  <2> HIDE DEF n
  <2> QED
    BY <1>1, <1>2
<1>4. IsFile(new) /\ Len(new) = n + 1
  <2>1. IsFile(new)
    BY <1>1, WrittenFile DEF FileOK
  <2>2. Len(new) \in Nat /\ DOMAIN new = 1 .. Len(new)
    BY <2>1, FileLength
  <2> HIDE DEF n, new
  <2>3. 1 .. n + 1 = 1 .. Len(new)
    BY <1>3, <2>2
  <2> DEFINE l == Len(new)
  <2>4. l \in Nat /\ 1 .. n + 1 = 1 .. l
    BY <2>2, <2>3
  <2> HIDE DEF l
  <2>5. n + 1 \in 1 .. l /\ (l = 0 \/ l \in 1 .. n + 1)
    <3>1. n + 1 \in 1 .. n + 1 /\ (l = 0 \/ l \in 1 .. l)
      BY <1>1, <2>4
    <3> QED
      BY <2>4, <3>1
  <2>6. l = n + 1
    BY <1>1, <2>4, <2>5
  <2> QED
    BY <2>1, <2>6 DEF l
<1> HIDE DEF new, n
<1>5. FileOK(t, new)
  <2>1. \A p \in 1 .. n : PageOK(cols, f[p])
    BY DEF FileOK, n
  <2> QED
    BY <1>3, <1>4, <2>1 DEF FileOK
<1>6. \A p \in 1 .. n : RowsOf(cols, f[p]) \in Seq(Y)
  BY RowsType, SchemasFit DEF FileOK, n
<1>7. x \in Seq(Y)
  BY RowsType, SchemasFit
<1>8. s = [p \in 1 .. n |-> RowsOf(cols, f[p])]
  BY <1>1
<1> HIDE DEF Y, cols, x, s
<1>9. s \in Seq(Seq(Y)) /\ s = [i \in 1 .. n |-> s[i]] /\ \A i \in 1 .. n : s[i] = RowsOf(cols, f[i])
  BY <1>1, <1>6, <1>8
<1>10. Append(s, x) = [i \in 1 .. n + 1 |-> IF i = n + 1 THEN x ELSE s[i]]
  BY <1>1, <1>9, AppendIs
<1>11. [p \in DOMAIN new |-> RowsOf(cols, new[p])] = Append(s, x)
  <2>1. \A p \in 1 .. n + 1 : RowsOf(cols, new[p]) = IF p = n + 1 THEN x ELSE s[p]
    BY <1>3, <1>9 DEF x
  <2> QED
    BY <1>3, <1>10, <2>1
<1>12. FlattenSeq(Append(s, x)) = FlattenSeq(s) \o x
  BY <1>7, <1>9, FlattenAppend
<1>13. RowsIn(t, new) = RowsIn(t, f) \o x
  BY <1>11, <1>12 DEF RowsIn, cols, s
<1>14. \A p \in DOMAIN new : new[p] = pg \/ (p \in DOMAIN f /\ new[p] = f[p])
  BY <1>1, <1>3
<1>15. Added(t, f, pg, new)
  BY <1>5, <1>13, <1>14 DEF Added, cols, x
<1>16. new = writePage(f, Len(f), pg)
  BY DEF new
<1> QED
  BY <1>15, <1>16

-----------------------------------------------------------------------------

\* A generator's file holds full pages only, which hold, with the page being
\* filled, the rows made so far; its table is not complete.
GeneratorInv ==
  phase = "generating" =>
    /\ FileOK(table, files[table])
    /\ made <= Len(Dataset[table]) /\ table \notin complete
    /\ RowsIn(table, files[table]) \o RowsOf(Schemas[table], page) = GeneratedRows(table, made)
    /\ \A p \in DOMAIN files[table] : isFull(Schemas[table], files[table][p])

\* Before the first statement a process sees what the files hold.
CompleteInv ==
  used = 0 =>
    /\ \A t \in complete : RowsIn(t, files[t]) = GeneratedRows(t, Len(Dataset[t]))
    /\ phase = "run" => view = files

GenInv == GeneratorInv /\ CompleteInv

\* An empty file has no rows, and no page that could be wrong.
LEMMA NoRows == ASSUME NEW t \in Tables PROVE RowsIn(t, << >>) = << >> /\ FileOK(t, << >>)
<1>1. [p \in DOMAIN << >> |-> RowsOf(Schemas[t], << >>[p])] = << >>
  OBVIOUS
<1>2. RowsIn(t, << >>) = << >>
  BY <1>1, FlattenEmpty DEF RowsIn
<1>3. IsFile(<< >>)
  BY DEF IsFile
<1> QED
  BY <1>2, <1>3 DEF FileOK

\* A generator starts from nothing: no rows made, none in its file or its page.
LEMMA TruncateKeepsGen ==
  ASSUME SessionInv, GenInv, Truncate
  PROVE  GenInv'
<1>1. /\ phase' = "generating" /\ table' = table /\ table \in Tables
      /\ DOMAIN files = Tables /\ files' = [files EXCEPT ![table] = << >>]
      /\ page' = initPage(0) /\ made' = 0 /\ complete' = complete \ {table}
      /\ complete \subseteq Tables /\ used' = used
  BY DEF Truncate, SessionInv, TypesInv
<1>2. files'[table] = << >> /\ \A t \in Tables : t # table => files'[t] = files[t]
  BY <1>1
<1>3. GeneratorInv'
  <2>1. FileOK(table, << >>) /\ RowsIn(table, << >>) = << >>
    BY <1>1, NoRows
  <2>2. PageOK(Schemas[table], initPage(0)) /\ RowsOf(Schemas[table], initPage(0)) = << >>
    BY <1>1, FreshPage, SchemasFit
  <2>3. GeneratedRows(table, 0) = << >> /\ << >> \o << >> = << >>
    BY DEF GeneratedRows
  <2>4. 0 <= Len(Dataset[table])
    BY <1>1, SessionAssumption
  <2>5. DOMAIN << >> = {}
    OBVIOUS
  <2>6. /\ FileOK(table, files'[table]) /\ table \notin complete'
        /\ RowsIn(table, files'[table]) \o RowsOf(Schemas[table], page') = GeneratedRows(table, made')
    BY <1>1, <1>2, <2>1, <2>2, <2>3
  <2> QED
    BY <1>1, <1>2, <2>4, <2>5, <2>6 DEF GeneratorInv
<1>4. CompleteInv'
  BY <1>1, <1>2 DEF GenInv, CompleteInv
<1> QED
  BY <1>3, <1>4 DEF GenInv

\* A row goes behind those made before it, in the page or at the start of the next one.
LEMMA GenerateRowKeepsGen ==
  ASSUME SessionInv, GenInv, GenerateRow
  PROVE  GenInv'
<1> DEFINE cols == Schemas[table]
           row == Dataset[table][made + 1]
           fresh == IF isFull(cols, page) THEN initPage(pageId + 1) ELSE page
           Y == RowSet(cols)
           x == ReadBack(cols, row)
<1>1. /\ phase = "generating" /\ phase' = phase /\ made' = made + 1 /\ table' = table
      /\ made < Len(Dataset[table]) /\ made \in Nat /\ table \in Tables /\ DOMAIN files = Tables
      /\ page' = appendRow(cols, fresh, row)
      /\ files' = IF isFull(cols, page)
                  THEN [files EXCEPT ![table] = writePage(@, pageId, page)] ELSE files
      /\ UNCHANGED <<program, view, ran, complete, used>> /\ complete \subseteq Tables
  BY DEF GenerateRow, SessionInv, TypesInv
<1>2. /\ FileOK(table, files[table]) /\ PageOK(cols, page) /\ table \notin complete
      /\ RowsIn(table, files[table]) \o RowsOf(cols, page) = GeneratedRows(table, made)
      /\ \A p \in DOMAIN files[table] : isFull(cols, files[table][p])
  BY <1>1 DEF GenInv, GeneratorInv, SessionInv, PageInv
<1>3. FitsPage(cols) /\ Len(Dataset[table]) \in Nat
  BY <1>1, SchemasFit, SessionAssumption
<1>4. IsRow(cols, row) /\ made + 1 \in 1 .. Len(Dataset[table]) /\ made + 1 <= Len(Dataset[table])
  BY <1>1, <1>3, RowsAssumption
<1>5. pageId = Len(files[table])
  BY DEF pageId, pageCount
<1>6. recordsPerPage(cols) \in Nat \ {0}
  BY <1>3, RecordsFit
<1> HIDE DEF cols, row
<1>7. PageOK(cols, fresh) /\ ~isFull(cols, fresh)
  <2>1. CASE isFull(cols, page)
    <3>1. PageOK(cols, initPage(pageId + 1)) /\ getRecordCount(initPage(pageId + 1)) = 0
      BY <1>3, FreshPage
    <3>2. ~(0 >= recordsPerPage(cols))
      BY <1>6
    <3> QED
      BY <2>1, <3>1, <3>2 DEF isFull
  <2>2. CASE ~isFull(cols, page)
    BY <1>2, <2>2
  <2> QED
    BY <2>1, <2>2
<1>8. PageOK(cols, page') /\ RowsOf(cols, page') = Append(RowsOf(cols, fresh), x)
  <2> HIDE DEF fresh
  <2> QED
    BY <1>1, <1>3, <1>4, <1>7, AppendedRow
<1>9. x \in Y /\ RowsIn(table, files[table]) \in Seq(Y) /\ RowsOf(cols, page) \in Seq(Y)
  <2>1. Stored(cols, x)
    BY <1>3, <1>4, ReadBackStored DEF FitsPage
  <2>2. x \in Y
    BY <2>1, StoredType
  <2>3. RowsIn(table, files[table]) \in Seq(Y)
    BY <1>1, <1>2, FileRowsType DEF cols
  <2>4. RowsOf(cols, page) \in Seq(Y)
    BY <1>2, <1>3, RowsType
  <2> QED
    BY <2>2, <2>3, <2>4
<1>10. Append(GeneratedRows(table, made), x) = GeneratedRows(table, made + 1)
  <2> DEFINE g == GeneratedRows(table, made)
  <2>1. g = [i \in 1 .. made |-> ReadBack(cols, Dataset[table][i])]
    BY DEF GeneratedRows, cols
  <2>2. g = [i \in 1 .. made |-> g[i]] /\ \A i \in 1 .. made : g[i] = ReadBack(cols, Dataset[table][i])
    BY <2>1
  <2> HIDE DEF g, x
  <2>3. Append(g, x) = [i \in 1 .. made + 1 |-> IF i = made + 1 THEN x ELSE g[i]]
    BY <1>1, <2>2, AppendIs
  <2>4. \A i \in 1 .. made + 1 : i = made + 1 \/ i \in 1 .. made
    BY <1>1
  <2>5. \A i \in 1 .. made + 1 : (IF i = made + 1 THEN x ELSE g[i]) = ReadBack(cols, Dataset[table][i])
    BY <2>2, <2>4 DEF x, row
  <2> QED
    BY <2>3, <2>5 DEF GeneratedRows, cols, g
<1>11. CompleteInv'
  <2>1. \A t \in complete : files'[t] = files[t]
    BY <1>1, <1>2
  <2> QED
    BY <1>1, <2>1 DEF GenInv, CompleteInv
<1> HIDE DEF x, Y, fresh
<1>12. CASE isFull(cols, page)
  <2> DEFINE new == writePage(files[table], Len(files[table]), page)
  <2>1. /\ FileOK(table, new)
        /\ RowsIn(table, new) = RowsIn(table, files[table]) \o RowsOf(cols, page)
        /\ \A p \in DOMAIN new : new[p] = page \/ (p \in DOMAIN files[table] /\ new[p] = files[table][p])
    <3>1. FileOK(table, files[table]) /\ PageOK(Schemas[table], page)
      BY <1>2 DEF cols
    <3>2. Added(table, files[table], page, new)
      BY <1>1, <3>1, PageAdded
    <3> QED
      BY <3>2 DEF Added, cols
  <2>2. files'[table] = new
    BY <1>1, <1>5, <1>12
  <2> HIDE DEF new
  <2>3. RowsOf(cols, fresh) = << >>
    BY <1>3, <1>12, FreshPage DEF fresh
  <2>4. RowsOf(cols, page') = <<x>>
    BY <1>8, <2>3
  <2>5. RowsIn(table, files'[table]) \o RowsOf(cols, page') = Append(GeneratedRows(table, made), x)
    <3> DEFINE g == RowsIn(table, files[table]) \o RowsOf(cols, page)
    <3>1. g \in Seq(Y)
      BY <1>9
    <3> HIDE DEF g
    <3>2. g \o <<x>> = Append(g, x)
      BY <1>9, <3>1
    <3> QED
      BY <1>2, <2>1, <2>2, <2>4, <3>2 DEF g
  <2>6. \A p \in DOMAIN new : isFull(cols, new[p])
    BY <1>2, <1>12, <2>1
  <2>7. GeneratorInv'
    BY <1>1, <1>2, <1>4, <1>8, <1>10, <2>1, <2>2, <2>5, <2>6 DEF GeneratorInv, cols
  <2> QED
    BY <1>11, <2>7 DEF GenInv
<1>13. CASE ~isFull(cols, page)
  <2>1. files' = files /\ fresh = page
    BY <1>1, <1>13 DEF fresh
  <2>2. RowsIn(table, files[table]) \o RowsOf(cols, page') = Append(GeneratedRows(table, made), x)
    BY <1>2, <1>8, <1>9, <2>1, AppendAfter
  <2>3. GeneratorInv'
    BY <1>1, <1>2, <1>4, <1>8, <1>10, <2>1, <2>2 DEF GeneratorInv, cols
  <2> QED
    BY <1>11, <2>3 DEF GenInv
<1> QED
  BY <1>12, <1>13

\* At its end all rows of the data set were made, and the last page is written.
LEMMA GenerateEndKeepsGen ==
  ASSUME SessionInv, GenInv, GenerateEnd
  PROVE  GenInv'
<1>1. /\ phase = "generating" /\ made = Len(Dataset[table]) /\ table \in Tables
      /\ DOMAIN files = Tables /\ complete \subseteq Tables
      /\ complete' = complete \union {table} /\ UNCHANGED <<made, page, ran, used>>
      /\ \/ phase' = "generate"
         \/ phase' = "run" /\ view' = files'
  BY DEF GenerateEnd, SessionInv, TypesInv
<1>2. getRecordCount(page) > 0
  BY <1>1, SessionAssumption DEF SessionInv, PageInv
<1> DEFINE new == writePage(files[table], Len(files[table]), page)
<1>3. files' = [files EXCEPT ![table] = new]
  BY <1>2 DEF GenerateEnd, pageId, pageCount
<1>4. /\ FileOK(table, files[table]) /\ PageOK(Schemas[table], page) /\ table \notin complete
      /\ RowsIn(table, files[table]) \o RowsOf(Schemas[table], page) = GeneratedRows(table, made)
  BY <1>1 DEF GenInv, GeneratorInv, SessionInv, PageInv
<1>5. RowsIn(table, new) = RowsIn(table, files[table]) \o RowsOf(Schemas[table], page)
  <2>1. Added(table, files[table], page, new)
    BY <1>1, <1>4, PageAdded
  <2> QED
    BY <2>1 DEF Added
<1> HIDE DEF new
<1>6. files'[table] = new /\ \A t \in Tables : t # table => files'[t] = files[t]
  BY <1>1, <1>3
<1>7. CompleteInv'
  BY <1>1, <1>4, <1>5, <1>6 DEF GenInv, CompleteInv
<1>8. GeneratorInv'
  BY <1>1 DEF GeneratorInv
<1> QED
  BY <1>7, <1>8 DEF GenInv

\* No other action changes a file before a statement was executed.
LEMMA OthersKeepGen ==
  ASSUME SessionInv, GenInv,
         \/ \E prog \in Programs : Start(prog)
         \/ \E r \in Requests : executeSQL(TextOf(r))
         \/ \E t \in Tables : \E p \in 0 .. pageCount(view[t]) - 1 : WriteBack(t, p)
         \/ Exit \/ Kill
  PROVE  GenInv'
<1>1. phase' # "generating"
  BY DEF Start, executeSQL, WriteBack, Exit, Kill
<1>2. GeneratorInv'
  BY <1>1 DEF GeneratorInv
<1>3. CASE \E prog \in Programs : Start(prog)
  BY <1>2, <1>3 DEF GenInv, CompleteInv, Start
<1>4. CASE \E r \in Requests : executeSQL(TextOf(r))
  <2>1. used' = used + 1 /\ used \in Nat
    BY <1>4 DEF executeSQL, SessionInv, TypesInv
  <2>2. used' # 0
    BY <2>1
  <2> QED
    BY <1>2, <2>2 DEF GenInv, CompleteInv
<1>5. ASSUME NEW t \in Tables, NEW p \in 0 .. pageCount(view[t]) - 1, WriteBack(t, p)
      PROVE  GenInv'
  <2>1. used' = used /\ phase = "run" /\ view[t][p + 1] # readPage(files[t], p) /\ p < pageCount(view[t])
    BY <1>5 DEF WriteBack
  <2>2. view # files
    BY <2>1 DEF readPage
  <2>3. used' # 0
    BY <2>1, <2>2 DEF GenInv, CompleteInv
  <2> QED
    BY <1>2, <2>3 DEF GenInv, CompleteInv
<1>6. CASE Exit
  BY <1>2, <1>6 DEF GenInv, CompleteInv, Exit
<1>7. CASE Kill
  BY <1>2, <1>7 DEF GenInv, CompleteInv, Kill
<1> QED
  BY <1>3, <1>4, <1>5, <1>6, <1>7

(***************************************************************************)
(* In every reachable state the file and the page of a generator hold the  *)
(* rows made so far (DataGenerator.cpp:47-79), all pages of it are well    *)
(* formed, and the tables that were completed keep their rows until the    *)
(* first statement; up to then a process sees what the files hold.         *)
(***************************************************************************)
THEOREM GeneratorInvariant == Spec => []GenInv
<1>1. Init => GenInv
  BY DEF Init, GenInv, GeneratorInv, CompleteInv
<1>2. SessionInv /\ GenInv /\ [Next]_vars => GenInv'
  <2> SUFFICES ASSUME SessionInv, GenInv, [Next]_vars PROVE GenInv'
    OBVIOUS
  <2>1. CASE Generate
    BY <2>1, TruncateKeepsGen, GenerateRowKeepsGen, GenerateEndKeepsGen DEF Generate
  <2>2. CASE UNCHANGED vars
    BY <2>2 DEF vars, GenInv, GeneratorInv, CompleteInv
  <2> QED
    BY <2>1, <2>2, OthersKeepGen DEF Next
<1> QED
  BY <1>1, <1>2, SessionInvariant, PTL DEF Spec

(***************************************************************************)
(* For any data set, schemas of numbers and texts, and page size: the rows *)
(* in the bytes of the generated files are those of the data set, each     *)
(* once, in order, texts cut to their columns, across all ends of pages.     *)
(***************************************************************************)
THEOREM GeneratedRowsInOrder == Spec => []GeneratedInOrder
<1>1. GenInv => GeneratedInOrder
  BY DEF GenInv, GeneratorInv, CompleteInv, GeneratedInOrder
<1> QED
  BY <1>1, GeneratorInvariant, PTL

-----------------------------------------------------------------------------
(* Chosen elements of a sequence *)

\* f[k] has the chosen elements among the first k.
Chooses(s, A, f) ==
  /\ f[0] = << >>
  /\ \A k \in 1 .. Len(s) : f[k] = IF k \in A THEN Append(f[k - 1], s[k]) ELSE f[k - 1]

\* There is such a function, and its last value is the choice.
LEMMA ChosenIs ==
  ASSUME NEW X, NEW s \in Seq(X), NEW A
  PROVE  \E f \in [0 .. Len(s) -> Seq(X)] : Chooses(s, A, f) /\ Chosen(s, A) = f[Len(s)]
<1> DEFINE n == Len(s)
           d == [k \in DOMAIN s |-> k]
           step == [j \in 1 .. n |-> [v \in Seq(X) |-> IF j \in A THEN Append(v, s[j]) ELSE v]]
           Is(c) == c = [T \in SUBSET DOMAIN d |->
                           IF T = {} THEN << >>
                           ELSE IF d[Max(T)] \in A THEN Append(c[T \ {Max(T)}], s[d[Max(T)]])
                                                   ELSE c[T \ {Max(T)}]]
           i == CHOOSE c : Is(c)
<1>1. /\ n \in Nat /\ DOMAIN d = 1 .. n
      /\ \A j \in 1 .. n : s[j] \in X /\ d[j] = j
  OBVIOUS
<1>2. Chosen(s, A) = i[DOMAIN d]
  BY DEF Chosen, FoldLeftDomain, FoldLeft, MapThenFoldSet
<1>3. \E c \in [SUBSET (1 .. n) -> Seq(X)] : Is(c)
  <2>1. step \in [1 .. n -> [Seq(X) -> Seq(X)]]
    BY <1>1
  <2>2. \A j \in 1 .. n : \A v \in Seq(X) : step[j][v] = IF j \in A THEN Append(v, s[j]) ELSE v
    BY <1>1
  <2> HIDE DEF step, d
  <2>0. << >> \in Seq(X)
    OBVIOUS
  <2>3. PICK c \in [SUBSET (1 .. n) -> Seq(X)] : FoldSteps(c, n, << >>, step)
    BY <1>1, <2>0, <2>1, FoldExists
  <2>4. ASSUME NEW T \in SUBSET (1 .. n)
        PROVE  c[T] = IF T = {} THEN << >>
                      ELSE IF d[Max(T)] \in A THEN Append(c[T \ {Max(T)}], s[d[Max(T)]])
                                              ELSE c[T \ {Max(T)}]
    <3>1. c[T] = IF T = {} THEN << >> ELSE step[Max(T)][c[T \ {Max(T)}]]
      BY <2>3 DEF FoldSteps
    <3>2. CASE T = {}
      BY <3>1, <3>2
    <3>3. CASE T # {}
      <4>1. Max(T) \in 1 .. n
        BY <1>1, <3>3, MaxUpto
      <4>2. T \ {Max(T)} \in SUBSET (1 .. n) /\ c[T \ {Max(T)}] \in Seq(X)
        BY <2>3
      <4> QED
        BY <1>1, <2>2, <3>1, <3>3, <4>1, <4>2
    <3> QED
      BY <3>2, <3>3
  <2>5. Is(c)
    BY <1>1, <2>3, <2>4
  <2> HIDE DEF Is
  <2> QED
    BY <2>3, <2>5
<1>4. Is(i)
  <2> HIDE DEF Is
  <2> QED
    BY <1>3
<1> HIDE DEF i
<1>5. \A T \in SUBSET (1 .. n) :
        i[T] = IF T = {} THEN << >>
               ELSE IF Max(T) \in A THEN Append(i[T \ {Max(T)}], s[Max(T)])
                                    ELSE i[T \ {Max(T)}]
  <2>1. ASSUME NEW T \in SUBSET (1 .. n)
        PROVE  i[T] = IF T = {} THEN << >>
                      ELSE IF Max(T) \in A THEN Append(i[T \ {Max(T)}], s[Max(T)])
                                           ELSE i[T \ {Max(T)}]
    <3>1. T # {} => Max(T) \in 1 .. n
      BY <1>1, MaxUpto
    <3>2. T # {} => d[Max(T)] = Max(T)
      BY <1>1, <3>1
    <3>3. T \in SUBSET DOMAIN d
      BY <1>1
    <3> HIDE DEF d
    <3>4. i[T] = IF T = {} THEN << >>
                 ELSE IF d[Max(T)] \in A THEN Append(i[T \ {Max(T)}], s[d[Max(T)]])
                                         ELSE i[T \ {Max(T)}]
      BY <1>4, <3>3
    <3> QED
      BY <3>2, <3>4
  <2> QED
    BY <2>1
<1> HIDE DEF Is, step, d
<1> DEFINE f == [k \in 0 .. n |-> i[1 .. k]]
<1>6. \A k \in 0 .. n : f[k] = i[1 .. k]
  OBVIOUS
<1>7. f[0] = << >>
  <2>1. 1 .. 0 = {} /\ 1 .. 0 \in SUBSET (1 .. n) /\ 0 \in 0 .. n
    BY <1>1
  <2> QED
    BY <1>5, <1>6, <2>1
<1>8. ASSUME NEW k \in 1 .. n
      PROVE  f[k] = IF k \in A THEN Append(f[k - 1], s[k]) ELSE f[k - 1]
  <2>1. /\ Max(1 .. k) = k /\ (1 .. k) \ {k} = 1 .. k - 1 /\ 1 .. k # {}
    BY <1>1, MaxInterval
  <2>2. 1 .. k \in SUBSET (1 .. n) /\ k \in 0 .. n /\ k - 1 \in 0 .. n
    BY <1>1
  <2>3. i[1 .. k] = IF k \in A THEN Append(i[1 .. k - 1], s[k]) ELSE i[1 .. k - 1]
    BY <1>5, <2>1, <2>2
  <2>4. f[k] = i[1 .. k] /\ f[k - 1] = i[1 .. k - 1]
    BY <1>6, <2>2
  <2> HIDE DEF f
  <2> QED
    BY <2>3, <2>4
<1>9. f \in [0 .. n -> Seq(X)]
  <2> DEFINE G == {k \in 0 .. n : f[k] \in Seq(X)}
  <2>1. f = [k \in 0 .. n |-> f[k]]
    OBVIOUS
  <2> HIDE DEF f
  <2>2. 0 \in G
    <3>1. << >> \in Seq(X) /\ 0 \in 0 .. n
      BY <1>1
    <3> QED
      BY <1>7, <3>1
  <2>3. ASSUME NEW k \in 1 .. n, k - 1 \in G PROVE k \in G
    <3>1. k \in 0 .. n /\ f[k - 1] \in Seq(X) /\ s[k] \in X
      BY <1>1, <2>3
    <3>2. Append(f[k - 1], s[k]) \in Seq(X)
      BY <3>1
    <3>3. f[k] \in Seq(X)
      BY <1>8, <3>1, <3>2
    <3> QED
      BY <3>1, <3>3
  <2> HIDE DEF G
  <2>4. 0 .. n \subseteq G
    BY <1>1, <2>2, <2>3, UptoInduction
  <2> QED
    BY <2>1, <2>4 DEF G
<1>10. f[n] = Chosen(s, A)
  BY <1>1, <1>2, <1>6
<1>11. Chooses(s, A, f)
  <2> HIDE DEF f
  <2> QED
    BY <1>7, <1>8 DEF Chooses
<1> HIDE DEF f
<1> QED
  BY <1>9, <1>10, <1>11

\* Nothing is chosen from the empty sequence.
LEMMA ChosenNone == \A A : Chosen(<< >>, A) = << >>
<1>1. ASSUME NEW A
      PROVE  Chosen(<< >>, A) = << >>
  <2> DEFINE e == << >>
             Y == {0}
  <2>1. e \in Seq(Y) /\ Len(e) = 0
    OBVIOUS
  <2> HIDE DEF e, Y
  <2>2. e \in Seq(Y)
    BY <2>1
  <2>3. PICK f \in [0 .. Len(e) -> Seq(Y)] : Chooses(e, A, f) /\ Chosen(e, A) = f[Len(e)]
    BY <2>2, ChosenIs
  <2>4. Chosen(e, A) = << >>
    BY <2>1, <2>3 DEF Chooses
  <2> QED
    BY <2>4 DEF e
<1> QED
  BY <1>1

\* Choosing does not invent elements, and has no more than there are.
LEMMA ChosenType ==
  ASSUME NEW X, NEW s \in Seq(X), NEW A
  PROVE  Chosen(s, A) \in Seq(X) /\ Len(Chosen(s, A)) <= Len(s)
<1>1. PICK f \in [0 .. Len(s) -> Seq(X)] : Chooses(s, A, f) /\ Chosen(s, A) = f[Len(s)]
  BY ChosenIs
<1> DEFINE n == Len(s)
           G == {k \in 0 .. n : Len(f[k]) <= k}
<1>2. n \in Nat
  OBVIOUS
<1>3. 0 \in G
  BY <1>1, <1>2 DEF Chooses
<1>4. ASSUME NEW k \in 1 .. n, k - 1 \in G PROVE k \in G
  <2>1. k - 1 \in 0 .. n /\ k \in 0 .. n /\ k \in Nat /\ f[k - 1] \in Seq(X) /\ s[k] \in X
    BY <1>2
  <2>2. f[k] = IF k \in A THEN Append(f[k - 1], s[k]) ELSE f[k - 1]
    BY <1>1 DEF Chooses
  <2> QED
    BY <1>4, <2>1, <2>2
<1>5. 0 .. n \subseteq G
  <2> HIDE DEF G, n
  <2> QED
    BY <1>2, <1>3, <1>4, UptoInduction
<1>6. n \in G /\ n \in 0 .. n
  <2> HIDE DEF G
  <2> QED
    BY <1>2, <1>5
<1> QED
  BY <1>1, <1>6

\* Whoever chooses all gets all.
LEMMA ChosenAll ==
  ASSUME NEW X, NEW s \in Seq(X), NEW A, 1 .. Len(s) \subseteq A
  PROVE  Chosen(s, A) = s
<1>1. PICK f \in [0 .. Len(s) -> Seq(X)] : Chooses(s, A, f) /\ Chosen(s, A) = f[Len(s)]
  BY ChosenIs
<1> DEFINE n == Len(s)
           G == {k \in 0 .. n : f[k] = SubSeq(s, 1, k)}
<1>2. n \in Nat
  OBVIOUS
<1>3. 0 \in G
  BY <1>1, <1>2 DEF Chooses
<1>4. ASSUME NEW k \in 1 .. n, k - 1 \in G PROVE k \in G
  <2>1. k - 1 \in 0 .. n /\ k \in 0 .. n /\ k \in A /\ s[k] \in X
    BY <1>2
  <2>2. f[k] = Append(f[k - 1], s[k]) /\ f[k - 1] = SubSeq(s, 1, k - 1)
    BY <1>1, <1>4, <2>1 DEF Chooses
  <2>3. Append(SubSeq(s, 1, k - 1), s[k]) = SubSeq(s, 1, k)
    BY <1>2, <2>1
  <2> QED
    BY <2>1, <2>2, <2>3
<1>5. 0 .. n \subseteq G
  <2> HIDE DEF G, n
  <2> QED
    BY <1>2, <1>3, <1>4, UptoInduction
<1>6. n \in G
  <2> HIDE DEF G
  <2> QED
    BY <1>2, <1>5
<1>7. SubSeq(s, 1, n) = s
  OBVIOUS
<1> QED
  BY <1>1, <1>6, <1>7

-----------------------------------------------------------------------------
(* What UPDATE and DELETE do to a page *)

\* What putting rows into pg can lead to.
FromPage(pg) ==
  {v \in [1 .. PageSize -> Int \union {pg[k] : k \in 1 .. PageSize}] \union {pg} :
     DOMAIN v = 1 .. PageSize}

\* Putting one more row leads there, too.
LEMMA PutStays ==
  ASSUME NEW cols, FitsPage(cols), NEW pg, DOMAIN pg = 1 .. PageSize, NEW v \in FromPage(pg),
         NEW i \in Nat, NEW row, IsRow(cols, row)
  PROVE  PutRow(cols, v, i, row) \in FromPage(pg)
<1> DEFINE V == Int \union {pg[k] : k \in 1 .. PageSize}
           bytes == serialize(cols, row)
           off == Offset(cols, i)
           new == [k \in 1 .. PageSize |->
                     IF k - off \in 1 .. Len(bytes) THEN bytes[k - off] ELSE v[k]]
<1>1. bytes \in Seq(Int)
  BY RowRoundTrip DEF FitsPage
<1>2. DOMAIN v = 1 .. PageSize /\ \A k \in 1 .. PageSize : v[k] \in V
  BY DEF FromPage
<1>3. PutRow(cols, v, i, row) = new
  BY <1>2 DEF PutRow, WriteBytes
<1> HIDE DEF bytes, off
<1>4. ASSUME NEW k \in 1 .. PageSize
      PROVE  (IF k - off \in 1 .. Len(bytes) THEN bytes[k - off] ELSE v[k]) \in V
  <2>1. k - off \in 1 .. Len(bytes) => bytes[k - off] \in Int
    BY <1>1
  <2> QED
    BY <1>2, <2>1
<1>5. new \in [1 .. PageSize -> V]
  <2> HIDE DEF V
  <2> QED
    BY <1>4
<1>6. DOMAIN new = 1 .. PageSize
  OBVIOUS
<1> HIDE DEF new
<1> QED
  BY <1>3, <1>5, <1>6 DEF FromPage

\* The value to set has the type of its column.
SetsField(cols, q) ==
  LET c == columnIndex(cols, q.updateCol)
  IN  /\ c \in DOMAIN cols
      /\ IF cols[c].type = "INT" THEN q.updateVal.n \in Int32 ELSE q.updateVal.s \in Texts

SetRow(cols, q, row) ==
  LET c == columnIndex(cols, q.updateCol) IN [row EXCEPT ![c] = Field(cols[c], q.updateVal)]

\* What an UPDATE makes of a row.
UpdatedRow(cols, q, row) ==
  IF q.hasWhere => evalWhere(cols, q.where, row) THEN ReadBack(cols, SetRow(cols, q, row)) ELSE row

\* One round of its loop.
UpdateStep(cols, q, v, i) ==
  IF q.hasWhere => evalWhere(cols, q.where, getRow(cols, v, i - 1))
  THEN PutRow(cols, v, i - 1, SetRow(cols, q, getRow(cols, v, i - 1)))
  ELSE v

\* A row with a new value is a row.
LEMMA SetRowType ==
  ASSUME NEW cols, IsSchema(cols), NEW q, SetsField(cols, q), NEW row, IsRow(cols, row)
  PROVE  IsRow(cols, SetRow(cols, q, row))
<1> DEFINE c == columnIndex(cols, q.updateCol)
           x == Field(cols[c], q.updateVal)
           new == SetRow(cols, q, row)
<1>1. c \in DOMAIN cols /\ IF cols[c].type = "INT" THEN x \in Int32 ELSE x \in Texts
  BY DEF SetsField, Field
<1>2. new = [row EXCEPT ![c] = x]
  BY DEF SetRow
<1> HIDE DEF c, x, new
<1>3. DOMAIN new = DOMAIN cols /\ \A i \in DOMAIN cols : new[i] = IF i = c THEN x ELSE row[i]
  BY <1>2 DEF IsRow
<1>4. IsRow(cols, new)
  BY <1>1, <1>3 DEF IsRow
<1> QED
  BY <1>4 DEF new

\* What a round changes.
LEMMA UpdateStepIs ==
  ASSUME NEW cols, FitsPage(cols), NEW q, SetsField(cols, q), NEW v, PageOK(cols, v),
         NEW i \in 1 .. getRecordCount(v)
  PROVE  LET w == UpdateStep(cols, q, v, i)
         IN  /\ PageOK(cols, w) /\ getRecordCount(w) = getRecordCount(v)
             /\ ReadBytes(w, 0, 4) = ReadBytes(v, 0, 4)
             /\ getRow(cols, w, i - 1) = UpdatedRow(cols, q, getRow(cols, v, i - 1))
             /\ \A j \in 0 .. getRecordCount(v) - 1 : j # i - 1 =>
                  getRow(cols, w, j) = getRow(cols, v, j)
             /\ \A pg : DOMAIN pg = 1 .. PageSize /\ v \in FromPage(pg) => w \in FromPage(pg)
<1> DEFINE w == UpdateStep(cols, q, v, i)
           n == getRecordCount(v)
           row == getRow(cols, v, i - 1)
           set == SetRow(cols, q, row)
<1>1. /\ n \in Nat /\ n <= recordsPerPage(cols) /\ recordsPerPage(cols) \in Nat
      /\ DOMAIN v = 1 .. PageSize /\ IsSchema(cols)
  <2>1. recordsPerPage(cols) \in Nat
    BY RecordsFit
  <2>2. n \in 0 .. recordsPerPage(cols) /\ DOMAIN v = 1 .. PageSize
    BY DEF PageOK
  <2> HIDE DEF n
  <2> QED
    BY <2>1, <2>2 DEF FitsPage
<1>2. i - 1 \in Nat /\ i - 1 < recordsPerPage(cols) /\ i - 1 \in 0 .. n - 1
  <2>1. i \in 1 .. n
    OBVIOUS
  <2> HIDE DEF n
  <2> QED
    BY <1>1, <2>1
<1>3. Stored(cols, row)
  BY <1>2 DEF PageOK
<1>4. IsRow(cols, set)
  BY <1>1, <1>3, SetRowType DEF Stored
<1>5. CASE ~(q.hasWhere => evalWhere(cols, q.where, row))
  <2>1. w = v /\ UpdatedRow(cols, q, row) = row
    BY <1>5 DEF UpdateStep, UpdatedRow
  <2> QED
    BY <2>1
<1>6. CASE q.hasWhere => evalWhere(cols, q.where, row)
  <2>1. w = PutRow(cols, v, i - 1, set) /\ UpdatedRow(cols, q, row) = ReadBack(cols, set)
    BY <1>6 DEF UpdateStep, UpdatedRow
  <2> HIDE DEF w, set, row
  <2>2. /\ DOMAIN w = 1 .. PageSize /\ getRecordCount(w) = n
        /\ ReadBytes(w, 0, 4) = ReadBytes(v, 0, 4)
        /\ getRow(cols, w, i - 1) = ReadBack(cols, set)
        /\ \A j \in Nat : j # i - 1 /\ j < recordsPerPage(cols) =>
             getRow(cols, w, j) = getRow(cols, v, j)
    BY <1>1, <1>2, <1>4, <2>1, PutIs
  <2>3. \A j \in 0 .. n - 1 : j \in Nat /\ j < recordsPerPage(cols)
    BY <1>1
  <2>4. Stored(cols, ReadBack(cols, set))
    BY <1>1, <1>4, ReadBackStored
  <2>5. \A j \in 0 .. n - 1 : Stored(cols, getRow(cols, v, j))
    BY DEF PageOK
  <2>6. \A j \in 0 .. n - 1 : Stored(cols, getRow(cols, w, j))
    BY <2>2, <2>3, <2>4, <2>5
  <2>7. getRecordCount(w) \in 0 .. recordsPerPage(cols)
    BY <2>2 DEF PageOK
  <2>8. PageOK(cols, w)
    BY <2>2, <2>6, <2>7 DEF PageOK
  <2>9. \A pg : DOMAIN pg = 1 .. PageSize /\ v \in FromPage(pg) => w \in FromPage(pg)
    BY <1>2, <1>4, <2>1, PutStays
  <2>10. \A j \in 0 .. n - 1 : j # i - 1 => getRow(cols, w, j) = getRow(cols, v, j)
    BY <2>2, <2>3
  <2> QED
    BY <2>1, <2>2, <2>8, <2>9, <2>10 DEF w, row
<1> QED
  BY <1>5, <1>6

\* UpdatePage does its rounds one after the other.
LEMMA UpdatePageIs ==
  ASSUME NEW cols, FitsPage(cols), NEW q, SetsField(cols, q), NEW pg, PageOK(cols, pg)
  PROVE  \E f : /\ f[0] = pg /\ UpdatePage(cols, q, pg) = f[getRecordCount(pg)]
                /\ \A k \in 1 .. getRecordCount(pg) : f[k] = UpdateStep(cols, q, f[k - 1], k)
<1> DEFINE n == getRecordCount(pg)
           S == {v \in FromPage(pg) : PageOK(cols, v) /\ getRecordCount(v) = n}
           d == [k \in 1 .. n |-> k]
           step == [j \in 1 .. n |-> [v \in S |-> UpdateStep(cols, q, v, j)]]
           Is(c) == c = [T \in SUBSET DOMAIN d |->
                           IF T = {} THEN pg ELSE UpdateStep(cols, q, c[T \ {Max(T)}], d[Max(T)])]
           i == CHOOSE c : Is(c)
<1>1. DOMAIN d = 1 .. n /\ \A j \in 1 .. n : d[j] = j
  OBVIOUS
<1>2. UpdatePage(cols, q, pg) = i[DOMAIN d]
  BY DEF UpdatePage, FoldLeft, MapThenFoldSet, UpdateStep, SetRow
<1>3. n \in Nat /\ pg \in S
  <2>1. recordsPerPage(cols) \in Nat
    BY RecordsFit
  <2>2. n \in 0 .. recordsPerPage(cols) /\ DOMAIN pg = 1 .. PageSize
    BY DEF PageOK
  <2>3. pg \in FromPage(pg)
    BY <2>2 DEF FromPage
  <2>4. pg \in S
    BY <2>3
  <2> HIDE DEF n, S
  <2> QED
    BY <2>1, <2>2, <2>4
<1>4. ASSUME NEW j \in 1 .. n, NEW v \in S PROVE UpdateStep(cols, q, v, j) \in S
  <2>1. PageOK(cols, v) /\ j \in 1 .. getRecordCount(v) /\ v \in FromPage(pg)
    BY <1>4
  <2>2. DOMAIN pg = 1 .. PageSize
    BY DEF PageOK
  <2> DEFINE w == UpdateStep(cols, q, v, j)
  <2>3. PageOK(cols, w) /\ getRecordCount(w) = getRecordCount(v) /\ w \in FromPage(pg)
    BY <2>1, <2>2, UpdateStepIs
  <2> HIDE DEF w
  <2>4. w \in S
    BY <1>4, <2>3
  <2> QED
    BY <2>4 DEF w
<1> HIDE DEF n, S, d
<1>5. \E c : Is(c)
  <2>1. step \in [1 .. n -> [S -> S]]
    BY <1>4
  <2>2. \A j \in 1 .. n : \A v \in S : step[j][v] = UpdateStep(cols, q, v, j)
    OBVIOUS
  <2> HIDE DEF step
  <2>3. PICK c \in [SUBSET (1 .. n) -> S] : FoldSteps(c, n, pg, step)
    BY <1>3, <2>1, FoldExists
  <2>4. ASSUME NEW T \in SUBSET (1 .. n)
        PROVE  c[T] = IF T = {} THEN pg ELSE UpdateStep(cols, q, c[T \ {Max(T)}], d[Max(T)])
    <3>1. c[T] = IF T = {} THEN pg ELSE step[Max(T)][c[T \ {Max(T)}]]
      BY <2>3 DEF FoldSteps
    <3>2. CASE T = {}
      BY <3>1, <3>2
    <3>3. CASE T # {}
      <4>1. Max(T) \in 1 .. n
        BY <1>3, <3>3, MaxUpto
      <4>2. T \ {Max(T)} \in SUBSET (1 .. n) /\ c[T \ {Max(T)}] \in S
        BY <2>3
      <4> QED
        BY <1>1, <2>2, <3>1, <3>3, <4>1, <4>2
    <3> QED
      BY <3>2, <3>3
  <2>5. Is(c)
    BY <1>1, <2>3, <2>4
  <2> HIDE DEF Is
  <2> QED
    BY <2>5
<1>6. Is(i)
  <2> HIDE DEF Is
  <2> QED
    BY <1>5
<1> HIDE DEF i, step
<1>7. ASSUME NEW T \in SUBSET (1 .. n)
      PROVE  i[T] = IF T = {} THEN pg ELSE UpdateStep(cols, q, i[T \ {Max(T)}], d[Max(T)])
  BY <1>1, <1>6
<1> HIDE DEF Is
<1> DEFINE f == [k \in 0 .. n |-> i[1 .. k]]
<1>8. f[0] = pg
  <2>1. 1 .. 0 = {} /\ 1 .. 0 \in SUBSET (1 .. n) /\ 0 \in 0 .. n
    BY <1>3
  <2>2. i[1 .. 0] = pg
    BY <1>7, <2>1
  <2> QED
    BY <2>1, <2>2
<1>9. ASSUME NEW k \in 1 .. n PROVE f[k] = UpdateStep(cols, q, f[k - 1], k)
  <2>1. /\ Max(1 .. k) = k /\ (1 .. k) \ {k} = 1 .. k - 1 /\ 1 .. k # {}
    BY <1>3, MaxInterval
  <2>2. 1 .. k \in SUBSET (1 .. n) /\ k \in 0 .. n /\ k - 1 \in 0 .. n
    BY <1>3
  <2>3. i[1 .. k] = UpdateStep(cols, q, i[1 .. k - 1], k)
    BY <1>1, <1>7, <2>1, <2>2
  <2> QED
    BY <2>2, <2>3
<1>10. f[n] = UpdatePage(cols, q, pg)
  BY <1>1, <1>2, <1>3
<1> HIDE DEF f
<1> QED
  BY <1>8, <1>9, <1>10 DEF n

(***************************************************************************)
(* UPDATE rewrites the rows it selects, each from its old value, and       *)
(* leaves the number and the count of the page.                            *)
(***************************************************************************)
LEMMA UpdatedPage ==
  ASSUME NEW cols, FitsPage(cols), NEW q, SetsField(cols, q), NEW pg, PageOK(cols, pg)
  PROVE  LET new == UpdatePage(cols, q, pg)
             rows == RowsOf(cols, pg)
         IN  /\ PageOK(cols, new) /\ ReadBytes(new, 0, 4) = ReadBytes(pg, 0, 4)
             /\ RowsOf(cols, new) = [i \in DOMAIN rows |-> UpdatedRow(cols, q, rows[i])]
<1> DEFINE n == getRecordCount(pg)
           new == UpdatePage(cols, q, pg)
           rows == RowsOf(cols, pg)
<1>1. PICK f : /\ f[0] = pg /\ new = f[n]
               /\ \A k \in 1 .. n : f[k] = UpdateStep(cols, q, f[k - 1], k)
  BY UpdatePageIs
<1>2. n \in Nat
  <2>1. recordsPerPage(cols) \in Nat /\ n \in 0 .. recordsPerPage(cols)
    BY RecordsFit DEF PageOK
  <2> QED
    BY <2>1
<1> HIDE DEF n, new
<1> DEFINE Done(k, v) ==
             /\ PageOK(cols, v) /\ getRecordCount(v) = n
             /\ ReadBytes(v, 0, 4) = ReadBytes(pg, 0, 4)
             /\ \A j \in 0 .. n - 1 : getRow(cols, v, j) =
                  IF j < k THEN UpdatedRow(cols, q, getRow(cols, pg, j)) ELSE getRow(cols, pg, j)
           G == {k \in 0 .. n : Done(k, f[k])}
<1>3. 0 \in G
  <2>1. \A j \in 0 .. n - 1 : ~(j < 0)
    OBVIOUS
  <2>2. Done(0, pg)
    BY <2>1 DEF n
  <2> HIDE DEF Done
  <2> QED
    BY <1>1, <1>2, <2>2
<1>4. ASSUME NEW k \in 1 .. n, k - 1 \in G PROVE k \in G
  <2> DEFINE v == f[k - 1]
             w == f[k]
  <2>1. Done(k - 1, v) /\ k \in 0 .. n /\ k \in Nat
    BY <1>2, <1>4
  <2>2. w = UpdateStep(cols, q, v, k)
    BY <1>1
  <2> HIDE DEF v, w
  <2>3. PageOK(cols, v) /\ k \in 1 .. getRecordCount(v) /\ getRecordCount(v) = n
    BY <2>1
  <2>4. /\ PageOK(cols, w) /\ getRecordCount(w) = n
        /\ ReadBytes(w, 0, 4) = ReadBytes(v, 0, 4)
        /\ getRow(cols, w, k - 1) = UpdatedRow(cols, q, getRow(cols, v, k - 1))
        /\ \A j \in 0 .. n - 1 : j # k - 1 => getRow(cols, w, j) = getRow(cols, v, j)
    BY <2>2, <2>3, UpdateStepIs
  <2>5. ASSUME NEW j \in 0 .. n - 1
        PROVE  getRow(cols, w, j) =
                 IF j < k THEN UpdatedRow(cols, q, getRow(cols, pg, j)) ELSE getRow(cols, pg, j)
    <3>1. CASE j = k - 1
      <4>1. j < k /\ ~(j < k - 1)
        BY <1>2, <3>1
      <4> QED
        BY <2>1, <2>4, <3>1, <4>1
    <3>2. CASE j # k - 1
      <4>1. j < k <=> j < k - 1
        BY <1>2, <3>2
      <4> QED
        BY <2>1, <2>4, <3>2, <4>1
    <3> QED
      BY <3>1, <3>2
  <2>6. ReadBytes(w, 0, 4) = ReadBytes(pg, 0, 4)
    BY <2>1, <2>4
  <2>7. Done(k, w)
    BY <2>4, <2>5, <2>6
  <2> HIDE DEF Done
  <2> QED
    BY <2>1, <2>7 DEF w
<1> HIDE DEF Done
<1>5. 0 .. n \subseteq G
  <2> HIDE DEF G
  <2> QED
    BY <1>2, <1>3, <1>4, UptoInduction
<1>6. Done(n, new)
  <2>1. n \in 0 .. n
    BY <1>2
  <2>2. n \in G
    BY <1>5, <2>1
  <2> QED
    BY <1>1, <2>2
<1>7. /\ PageOK(cols, new) /\ getRecordCount(new) = n
      /\ ReadBytes(new, 0, 4) = ReadBytes(pg, 0, 4)
      /\ \A j \in 0 .. n - 1 : getRow(cols, new, j) = UpdatedRow(cols, q, getRow(cols, pg, j))
  BY <1>2, <1>6 DEF Done
<1>8. DOMAIN rows = 1 .. n /\ \A k \in 1 .. n : rows[k] = getRow(cols, pg, k - 1)
  BY DEF RowsOf, n
<1>9. RowsOf(cols, new) = [k \in 1 .. n |-> getRow(cols, new, k - 1)]
  BY <1>7 DEF RowsOf
<1> HIDE DEF rows
<1>10. \A k \in 1 .. n : getRow(cols, new, k - 1) = UpdatedRow(cols, q, rows[k])
  <2>1. \A k \in 1 .. n : k - 1 \in 0 .. n - 1
    BY <1>2
  <2> QED
    BY <1>7, <1>8, <2>1
<1>11. RowsOf(cols, new) = [k \in DOMAIN rows |-> UpdatedRow(cols, q, rows[k])]
  BY <1>8, <1>9, <1>10
<1> QED
  BY <1>7, <1>11 DEF new, rows

\* Rows put into a page from its beginning on.
Pack(cols, pg, kept) == FoldLeftDomain(LAMBDA acc, i : PutRow(cols, acc, i - 1, kept[i]), pg, kept)

\* They are put one after the other.
LEMMA PackIs ==
  ASSUME NEW cols, FitsPage(cols), NEW pg, DOMAIN pg = 1 .. PageSize,
         NEW X, NEW kept \in Seq(X), \A row \in X : IsRow(cols, row)
  PROVE  \E f : /\ f[0] = pg /\ Pack(cols, pg, kept) = f[Len(kept)]
                /\ \A k \in 1 .. Len(kept) : f[k] = PutRow(cols, f[k - 1], k - 1, kept[k])
<1> DEFINE n == Len(kept)
           S == FromPage(pg)
           d == [k \in DOMAIN kept |-> k]
           step == [j \in 1 .. n |-> [v \in S |-> PutRow(cols, v, j - 1, kept[j])]]
           Is(c) == c = [T \in SUBSET DOMAIN d |->
                           IF T = {} THEN pg
                           ELSE PutRow(cols, c[T \ {Max(T)}], d[Max(T)] - 1, kept[d[Max(T)]])]
           i == CHOOSE c : Is(c)
<1>1. /\ n \in Nat /\ DOMAIN d = 1 .. n
      /\ \A j \in 1 .. n : d[j] = j /\ kept[j] \in X
  OBVIOUS
<1>2. Pack(cols, pg, kept) = i[DOMAIN d]
  BY DEF Pack, FoldLeftDomain, FoldLeft, MapThenFoldSet
<1>3. pg \in S
  BY DEF FromPage
<1>4. ASSUME NEW j \in 1 .. n, NEW v \in S PROVE PutRow(cols, v, j - 1, kept[j]) \in S
  <2>1. j - 1 \in Nat /\ IsRow(cols, kept[j])
    BY <1>1
  <2> QED
    BY <2>1, PutStays
<1> HIDE DEF n, S, d
<1>5. \E c : Is(c)
  <2>1. step \in [1 .. n -> [S -> S]]
    BY <1>4
  <2>2. \A j \in 1 .. n : \A v \in S : step[j][v] = PutRow(cols, v, j - 1, kept[j])
    OBVIOUS
  <2> HIDE DEF step
  <2>3. PICK c \in [SUBSET (1 .. n) -> S] : FoldSteps(c, n, pg, step)
    BY <1>1, <1>3, <2>1, FoldExists
  <2>4. ASSUME NEW T \in SUBSET (1 .. n)
        PROVE  c[T] = IF T = {} THEN pg
                      ELSE PutRow(cols, c[T \ {Max(T)}], d[Max(T)] - 1, kept[d[Max(T)]])
    <3>1. c[T] = IF T = {} THEN pg ELSE step[Max(T)][c[T \ {Max(T)}]]
      BY <2>3 DEF FoldSteps
    <3>2. CASE T = {}
      BY <3>1, <3>2
    <3>3. CASE T # {}
      <4>1. Max(T) \in 1 .. n
        BY <1>1, <3>3, MaxUpto
      <4>2. T \ {Max(T)} \in SUBSET (1 .. n) /\ c[T \ {Max(T)}] \in S
        BY <2>3
      <4> QED
        BY <1>1, <2>2, <3>1, <3>3, <4>1, <4>2
    <3> QED
      BY <3>2, <3>3
  <2>5. Is(c)
    BY <1>1, <2>3, <2>4
  <2> HIDE DEF Is
  <2> QED
    BY <2>5
<1>6. Is(i)
  <2> HIDE DEF Is
  <2> QED
    BY <1>5
<1> HIDE DEF i, step
<1>7. ASSUME NEW T \in SUBSET (1 .. n)
      PROVE  i[T] = IF T = {} THEN pg
                    ELSE PutRow(cols, i[T \ {Max(T)}], d[Max(T)] - 1, kept[d[Max(T)]])
  BY <1>1, <1>6
<1> HIDE DEF Is
<1> DEFINE f == [k \in 0 .. n |-> i[1 .. k]]
<1>0. n \in Nat
  BY <1>1
<1>8. f[0] = pg
  <2>1. 1 .. 0 = {} /\ 1 .. 0 \in SUBSET (1 .. n) /\ 0 \in 0 .. n
    BY <1>0
  <2>2. i[1 .. 0] = pg
    BY <1>7, <2>1
  <2> QED
    BY <2>1, <2>2
<1>9. ASSUME NEW k \in 1 .. n PROVE f[k] = PutRow(cols, f[k - 1], k - 1, kept[k])
  <2>1. /\ Max(1 .. k) = k /\ (1 .. k) \ {k} = 1 .. k - 1 /\ 1 .. k # {}
    BY <1>0, MaxInterval
  <2>2. 1 .. k \in SUBSET (1 .. n) /\ k \in 0 .. n /\ k - 1 \in 0 .. n
    BY <1>0
  <2>3. i[1 .. k] = PutRow(cols, i[1 .. k - 1], d[k] - 1, kept[d[k]])
    BY <1>7, <2>1, <2>2
  <2>4. d[k] = k
    BY <1>1
  <2> QED
    BY <2>2, <2>3, <2>4
<1>10. f[n] = Pack(cols, pg, kept)
  BY <1>1, <1>2
<1> HIDE DEF f
<1> QED
  BY <1>8, <1>9, <1>10 DEF n

\* As many of them as fit are the first rows of the page then.
LEMMA Packed ==
  ASSUME NEW cols, FitsPage(cols), NEW pg, DOMAIN pg = 1 .. PageSize,
         NEW X, NEW kept \in Seq(X), \A row \in X : IsRow(cols, row),
         Len(kept) <= recordsPerPage(cols)
  PROVE  LET v == Pack(cols, pg, kept)
         IN  /\ DOMAIN v = 1 .. PageSize /\ ReadBytes(v, 0, 4) = ReadBytes(pg, 0, 4)
             /\ \A j \in 1 .. Len(kept) : getRow(cols, v, j - 1) = ReadBack(cols, kept[j])
<1> DEFINE n == Len(kept)
<1>1. PICK f : /\ f[0] = pg /\ Pack(cols, pg, kept) = f[n]
               /\ \A k \in 1 .. n : f[k] = PutRow(cols, f[k - 1], k - 1, kept[k])
  BY PackIs
<1>2. /\ n \in Nat /\ recordsPerPage(cols) \in Nat /\ n <= recordsPerPage(cols)
      /\ \A j \in 1 .. n : kept[j] \in X
  BY RecordsFit
<1> HIDE DEF n
<1> DEFINE Done(k, v) ==
             /\ DOMAIN v = 1 .. PageSize /\ ReadBytes(v, 0, 4) = ReadBytes(pg, 0, 4)
             /\ \A j \in 1 .. k : getRow(cols, v, j - 1) = ReadBack(cols, kept[j])
           G == {k \in 0 .. n : Done(k, f[k])}
<1>3. 0 \in G
  BY <1>1, <1>2
<1>4. ASSUME NEW k \in 1 .. n, k - 1 \in G PROVE k \in G
  <2> DEFINE v == f[k - 1]
             w == f[k]
  <2>1. Done(k - 1, v) /\ k \in 0 .. n /\ k \in Nat
    BY <1>2, <1>4
  <2>2. w = PutRow(cols, v, k - 1, kept[k])
    BY <1>1
  <2>3. IsRow(cols, kept[k]) /\ k - 1 \in Nat /\ k - 1 < recordsPerPage(cols)
    BY <1>2
  <2> HIDE DEF v, w
  <2>4. /\ DOMAIN w = 1 .. PageSize /\ ReadBytes(w, 0, 4) = ReadBytes(v, 0, 4)
        /\ getRow(cols, w, k - 1) = ReadBack(cols, kept[k])
        /\ \A j \in Nat : j # k - 1 /\ j < recordsPerPage(cols) =>
             getRow(cols, w, j) = getRow(cols, v, j)
    BY <2>1, <2>2, <2>3, PutIs
  <2>5. ASSUME NEW j \in 1 .. k PROVE getRow(cols, w, j - 1) = ReadBack(cols, kept[j])
    <3>1. CASE j = k
      BY <2>4, <3>1
    <3>2. CASE j # k
      <4>1. j - 1 \in Nat /\ j - 1 # k - 1 /\ j - 1 < recordsPerPage(cols) /\ j \in 1 .. k - 1
        BY <1>2, <3>2
      <4> QED
        BY <2>1, <2>4, <4>1
    <3> QED
      BY <3>1, <3>2
  <2>6. ReadBytes(w, 0, 4) = ReadBytes(pg, 0, 4)
    BY <2>1, <2>4
  <2>7. Done(k, w)
    BY <2>4, <2>5, <2>6
  <2> HIDE DEF Done
  <2> QED
    BY <2>1, <2>7 DEF w
<1> HIDE DEF Done
<1>5. 0 .. n \subseteq G
  <2> HIDE DEF G
  <2> QED
    BY <1>2, <1>3, <1>4, UptoInduction
<1>6. n \in 0 .. n
  BY <1>2
<1>7. Done(n, f[n])
  BY <1>5, <1>6
<1> QED
  BY <1>1, <1>7 DEF Done, n

(***************************************************************************)
(* DELETE leaves the rows it does not select, in their order, and the      *)
(* number of the page.                                                     *)
(***************************************************************************)
LEMMA DeletedPage ==
  ASSUME NEW cols, FitsPage(cols), NEW q, NEW pg, PageOK(cols, pg)
  PROVE  LET new == DeleteRows(cols, q, pg)
             rows == RowsOf(cols, pg)
         IN  /\ PageOK(cols, new) /\ ReadBytes(new, 0, 4) = ReadBytes(pg, 0, 4)
             /\ RowsOf(cols, new) =
                  Chosen(rows, {i \in DOMAIN rows : ~evalWhere(cols, q.where, rows[i])})
<1> DEFINE n == getRecordCount(pg)
           rows == RowsOf(cols, pg)
           kept == Chosen(rows, {i \in DOMAIN rows : ~evalWhere(cols, q.where, rows[i])})
           X == {rows[i] : i \in 1 .. n}
           packed == Pack(cols, pg, kept)
           new == DeleteRows(cols, q, pg)
<1>1. new = SetRecordCount(packed, Len(kept))
  BY DEF DeleteRows, Pack
<1>2. /\ n \in Nat /\ n <= recordsPerPage(cols) /\ recordsPerPage(cols) \in Nat
      /\ DOMAIN pg = 1 .. PageSize
  <2>1. recordsPerPage(cols) \in Nat
    BY RecordsFit
  <2>2. n \in 0 .. recordsPerPage(cols) /\ DOMAIN pg = 1 .. PageSize
    BY DEF PageOK
  <2> HIDE DEF n
  <2> QED
    BY <2>1, <2>2
<1>3. rows = [i \in 1 .. n |-> getRow(cols, pg, i - 1)]
  BY DEF RowsOf
<1>4. \A row \in X : Stored(cols, row)
  <2>1. ASSUME NEW i \in 1 .. n PROVE Stored(cols, rows[i])
    <3>1. i - 1 \in 0 .. n - 1
      BY <1>2
    <3>2. Stored(cols, getRow(cols, pg, i - 1))
      BY <3>1 DEF PageOK
    <3> QED
      BY <1>3, <3>2
  <2> HIDE DEF rows
  <2> QED
    BY <2>1
<1> HIDE DEF n
<1>5. rows \in Seq(X) /\ Len(rows) = n
  <2> HIDE DEF rows
  <2>1. rows \in [1 .. n -> X]
    BY <1>3
  <2> HIDE DEF X
  <2> QED
    BY <1>2, <2>1
<1> HIDE DEF X, rows
<1>6. kept \in Seq(X) /\ Len(kept) <= n
  BY <1>5, ChosenType
<1> HIDE DEF kept
<1>7. \A row \in X : IsRow(cols, row)
  BY <1>4 DEF Stored
<1>8. Len(kept) \in Nat /\ Len(kept) <= recordsPerPage(cols)
  BY <1>2, <1>6
<1>9. /\ DOMAIN packed = 1 .. PageSize /\ ReadBytes(packed, 0, 4) = ReadBytes(pg, 0, 4)
      /\ \A j \in 1 .. Len(kept) : getRow(cols, packed, j - 1) = ReadBack(cols, kept[j])
  BY <1>2, <1>6, <1>7, <1>8, Packed
<1> HIDE DEF packed, new
<1>10. /\ DOMAIN new = 1 .. PageSize /\ getRecordCount(new) = Len(kept)
       /\ ReadBytes(new, 0, 4) = ReadBytes(packed, 0, 4)
       /\ \A j \in Nat : j < recordsPerPage(cols) => getRow(cols, new, j) = getRow(cols, packed, j)
  BY <1>1, <1>8, <1>9, CountSet
<1>11. ASSUME NEW j \in 1 .. Len(kept)
       PROVE  getRow(cols, new, j - 1) = kept[j] /\ Stored(cols, kept[j])
  <2>1. j - 1 \in Nat /\ j - 1 < recordsPerPage(cols) /\ kept[j] \in X
    BY <1>2, <1>6, <1>8
  <2>2. Stored(cols, kept[j])
    BY <1>4, <2>1
  <2> QED
    BY <1>9, <1>10, <2>1, <2>2 DEF Stored
<1>12. PageOK(cols, new)
  <2>1. \A i \in 0 .. Len(kept) - 1 : i + 1 \in 1 .. Len(kept) /\ (i + 1) - 1 = i
    BY <1>8
  <2>2. \A i \in 0 .. Len(kept) - 1 : Stored(cols, getRow(cols, new, i))
    BY <1>11, <2>1
  <2>3. Len(kept) \in 0 .. recordsPerPage(cols)
    BY <1>2, <1>8
  <2> QED
    BY <1>10, <2>2, <2>3 DEF PageOK
<1>13. RowsOf(cols, new) = kept
  <2>1. RowsOf(cols, new) = [i \in 1 .. Len(kept) |-> getRow(cols, new, i - 1)]
    BY <1>10 DEF RowsOf
  <2>2. kept = [i \in 1 .. Len(kept) |-> kept[i]]
    BY <1>6
  <2> QED
    BY <1>11, <2>1, <2>2
<1> QED
  BY <1>9, <1>10, <1>12, <1>13 DEF new, kept, rows

-----------------------------------------------------------------------------
(* What the parser takes statements for *)

\* A part in the middle of a sequence.
LEMMA MiddlePart ==
  ASSUME NEW X, NEW a \in Seq(X), NEW b \in Seq(X), NEW c \in Seq(X)
  PROVE  /\ (a \o b) \o c = a \o (b \o c)
         /\ SubSeq(a \o b \o c, Len(a) + 1, Len(a) + Len(b)) = b
         /\ SubSeq(a \o b, Len(a) + 1, Len(a \o b)) = b
<1> DEFINE s == (a \o b) \o c
           r == a \o (b \o c)
<1>1. /\ Len(a) \in Nat /\ Len(b) \in Nat /\ Len(c) \in Nat
      /\ s \in Seq(X) /\ r \in Seq(X) /\ a \o b \in Seq(X) /\ b \o c \in Seq(X)
      /\ Len(a \o b) = Len(a) + Len(b)
      /\ Len(s) = Len(a) + Len(b) + Len(c) /\ Len(r) = Len(a) + Len(b) + Len(c)
  OBVIOUS
<1>2. \A i \in 1 .. Len(s) : s[i] = r[i]
  OBVIOUS
<1>3. \A i \in 1 .. Len(b) : s[Len(a) + i] = b[i] /\ (a \o b)[Len(a) + i] = b[i]
  OBVIOUS
<1>4. b = [i \in 1 .. Len(b) |-> b[i]]
  OBVIOUS
<1> DEFINE m == SubSeq(s, Len(a) + 1, Len(a) + Len(b))
           e == SubSeq(a \o b, Len(a) + 1, Len(a \o b))
<1>5. m \in Seq(X) /\ Len(m) = Len(b) /\ \A i \in 1 .. Len(b) : m[i] = s[Len(a) + i]
  <2> HIDE DEF s
  <2> QED
    BY <1>1
<1>6. e \in Seq(X) /\ Len(e) = Len(b) /\ \A i \in 1 .. Len(b) : e[i] = (a \o b)[Len(a) + i]
  BY <1>1
<1> HIDE DEF s, r, m, e
<1>7. s = r
  <2>1. s = [i \in 1 .. Len(s) |-> s[i]] /\ r = [i \in 1 .. Len(s) |-> r[i]]
    BY <1>1
  <2> QED
    BY <1>2, <2>1
<1>8. m = b
  <2>1. m = [i \in 1 .. Len(b) |-> m[i]]
    BY <1>5
  <2> QED
    BY <1>3, <1>4, <1>5, <2>1
<1>9. e = b
  <2>1. e = [i \in 1 .. Len(b) |-> e[i]]
    BY <1>6
  <2> QED
    BY <1>3, <1>4, <1>6, <2>1
<1> QED
  BY <1>7, <1>8, <1>9 DEF s, r, m, e

\* A skipping loop stops at the first token of one of the types, or behind the last token.
LEMMA UntilIs ==
  ASSUME NEW X, NEW sql \in Seq(X), NEW types, NEW k \in 1 .. Len(sql) + 1,
         NEW e \in k .. Len(sql) + 1, \A j \in k .. e - 1 : sql[j].type \notin types,
         e <= Len(sql) => sql[e].type \in types
  PROVE  Until(sql, k, types) = e
<1> DEFINE n == Len(sql)
           rest == SubSeq(sql, k, n)
           I == {i \in 1 .. Len(rest) : rest[i].type \in types}
<1>1. n \in Nat /\ k \in 1 .. n + 1 /\ e \in k .. n + 1
  OBVIOUS
<1>2. CASE k > n
  BY <1>1, <1>2 DEF Until
<1>3. CASE ~(k > n)
  <2>1. Len(rest) = n - k + 1 /\ \A i \in 1 .. n - k + 1 : rest[i] = sql[k + i - 1]
    BY <1>1, <1>3
  <2>2. Until(sql, k, types) = LET i == IF I # {} THEN Min(I) ELSE 0
                              IN  IF i = 0 THEN n + 1 ELSE k + i - 1
    BY <1>3 DEF Until, SelectInSeq
  <2> HIDE DEF rest
  <2>3. I = {i \in 1 .. n - k + 1 : sql[k + i - 1].type \in types}
    BY <2>1
  <2> HIDE DEF I, n
  <2>4. CASE e = n + 1
    <3>1. \A i \in 1 .. n - k + 1 : k + i - 1 \in k .. e - 1
      BY <1>1, <2>4
    <3>2. I = {}
      BY <2>3, <3>1
    <3> QED
      BY <2>2, <2>4, <3>2
  <2>5. CASE e # n + 1
    <3> DEFINE x == e - k + 1
    <3>1. x \in 1 .. n - k + 1 /\ k + x - 1 = e /\ e <= n
      BY <1>1, <2>5
    <3>2. x \in I
      BY <2>3, <3>1 DEF n
    <3>3. \A y \in I : x <= y
      <4>1. ASSUME NEW y \in I, ~(x <= y) PROVE FALSE
        <5>1. y \in 1 .. n - k + 1 /\ sql[k + y - 1].type \in types
          BY <2>3
        <5>2. k + y - 1 \in k .. e - 1
          BY <1>1, <4>1, <5>1
        <5> QED
          BY <5>1, <5>2
      <4> QED
        BY <4>1
    <3>4. I \subseteq Nat
      BY <1>1, <2>3
    <3> HIDE DEF x
    <3>5. Min(I) = x
      <4>1. \A y \in I : (\A z \in I : y <= z) => y = x
        BY <3>2, <3>3, <3>4
      <4> QED
        BY <3>2, <3>3, <4>1 DEF Min
    <3>6. x # 0 /\ x \in Nat
      BY <1>1, <3>1
    <3> QED
      BY <2>2, <3>1, <3>2, <3>5, <3>6
  <2> QED
    BY <2>4, <2>5
<1> QED
  BY <1>2, <1>3

\* It stops behind where it started, inside the text or right behind it.
LEMMA UntilBound ==
  ASSUME NEW X, NEW sql \in Seq(X), NEW types, NEW k \in Nat \ {0}
  PROVE  /\ Until(sql, k, types) \in Nat /\ Until(sql, k, types) >= k
         /\ k <= Len(sql) + 1 => Until(sql, k, types) <= Len(sql) + 1
<1> DEFINE n == Len(sql)
           rest == SubSeq(sql, k, n)
           I == {i \in 1 .. Len(rest) : rest[i].type \in types}
<1>1. n \in Nat
  OBVIOUS
<1>2. CASE k > n
  BY <1>1, <1>2 DEF Until
<1>3. CASE ~(k > n)
  <2>1. Len(rest) = n - k + 1
    BY <1>1, <1>3
  <2>2. Until(sql, k, types) = LET i == IF I # {} THEN Min(I) ELSE 0
                              IN  IF i = 0 THEN n + 1 ELSE k + i - 1
    BY <1>3 DEF Until, SelectInSeq
  <2> HIDE DEF rest, n
  <2>3. I \subseteq 1 .. n - k + 1
    BY <2>1
  <2> HIDE DEF I
  <2>4. I # {} => Min(I) \in 1 .. n - k + 1
    <3>1. ASSUME I # {} PROVE Min(I) \in 1 .. n - k + 1
      <4>1. I \subseteq Nat
        BY <2>3
      <4>2. PICK x \in I : \A y \in I : x <= y
        BY <3>1, <4>1, LeastNumber
      <4>3. Min(I) \in I
        BY <4>2 DEF Min
      <4> QED
        BY <2>3, <4>3
    <3> QED
      BY <3>1
  <2>5. CASE I = {}
    BY <1>1, <1>3, <2>2, <2>5 DEF n
  <2>6. CASE I # {}
    <3> DEFINE x == Min(I)
    <3>1. x \in 1 .. n - k + 1
      BY <2>4, <2>6
    <3>2. Until(sql, k, types) = IF x = 0 THEN n + 1 ELSE k + x - 1
      BY <2>2, <2>6
    <3> HIDE DEF x
    <3> QED
      BY <1>1, <1>3, <3>1, <3>2 DEF n
  <2> QED
    BY <2>5, <2>6
<1> QED
  BY <1>2, <1>3

\* The words of the statements, and the tokens: they convert to numbers and texts of fields.
Words == {"INSERT", "INTO", "VALUES", "UPDATE", "SET", "DELETE", "FROM", "WHERE", "LPAREN",
          "RPAREN", "COMMA", "ASSIGN", "EQ"}

Tokens ==
  [type : Words \union {"IDENTIFIER", "STRING_LIT", "INTEGER", "MINUS", "END"},
   name : STRING \union {""}, n : Int32, s : Texts]

\* Tokens that carry no number and no text.
LEMMA WordType ==
  /\ \A type \in Words : Word(type) \in Tokens /\ Word(type).type = type
  /\ \A name \in STRING : /\ Name(name) \in Tokens /\ Name(name).type = "IDENTIFIER"
                           /\ Name(name).name = name
<1>1. 0 \in Int32
  BY SMT DEF Int32
<1>2. << >> \in Texts
  BY DEF Texts
<1>3. "" \in STRING \union {""} /\ \A name \in STRING : name \in STRING \union {""}
  OBVIOUS
<1>4. ASSUME NEW type \in Words PROVE Word(type) \in Tokens /\ Word(type).type = type
  BY <1>1, <1>2, <1>3, <1>4 DEF Word, Token, Tokens
<1>5. ASSUME NEW name \in STRING
      PROVE  /\ Name(name) \in Tokens /\ Name(name).type = "IDENTIFIER"
             /\ Name(name).name = name
  BY <1>1, <1>2, <1>3 DEF Name, Token, Tokens
<1> QED
  BY <1>4, <1>5

\* A value is one token that converts to it, unless it has a sign.
LEMMA LiteralIs ==
  ASSUME NEW v \in Values
  PROVE  /\ Literal(v) \in Seq(Tokens) /\ Len(Literal(v)) = IF Positive(v) THEN 1 ELSE 2
         /\ \A i \in DOMAIN Literal(v) :
              Literal(v)[i].type \in {"STRING_LIT", "INTEGER", "MINUS"}
         /\ Positive(v) => /\ v.type = "INT" => Literal(v)[1].n = v.n
                           /\ v.type = "STRING" => Literal(v)[1].s = v.s
         /\ ~Positive(v) => v.type = "INT" /\ Literal(v)[1].n = 0
<1>1. /\ v.type \in {"INT", "STRING"} /\ v.n \in Int32 /\ -v.n \in Int32 /\ v.s \in Texts
      /\ v.n \in Int
  BY DEF Values, Int32
<1>2. 0 \in Int32 /\ << >> \in Texts /\ <<45>> \in Texts
  <2>1. 0 \in Int32
    BY SMT DEF Int32
  <2>2. 45 \in Characters
    BY DEF Characters
  <2>3. <<45>> \in Seq(Characters) /\ << >> \in Seq(Characters)
    BY <2>2
  <2> QED
    BY <2>1, <2>3 DEF Texts
<1>3. "" \in STRING \union {""}
  OBVIOUS
<1>4. CASE v.type = "STRING"
  <2>1. Literal(v) = <<Token("STRING_LIT", "", 0, v.s)>> /\ Positive(v)
    BY <1>4 DEF Literal, Positive
  <2> DEFINE tok == Token("STRING_LIT", "", 0, v.s)
  <2>2. tok \in Tokens /\ tok.type = "STRING_LIT" /\ tok.s = v.s
    BY <1>1, <1>2, <1>3 DEF Token, Tokens
  <2> HIDE DEF tok
  <2>3. <<tok>> \in Seq(Tokens) /\ Len(<<tok>>) = 1 /\ DOMAIN <<tok>> = {1} /\ <<tok>>[1] = tok
    BY <2>2
  <2> QED
    BY <1>4, <2>1, <2>2, <2>3 DEF tok
<1>5. CASE v.type = "INT" /\ v.n >= 0
  <2>1. Literal(v) = <<Token("INTEGER", "", v.n, v.s)>> /\ Positive(v)
    BY <1>5 DEF Literal, Positive
  <2> DEFINE tok == Token("INTEGER", "", v.n, v.s)
  <2>2. tok \in Tokens /\ tok.type = "INTEGER" /\ tok.n = v.n
    BY <1>1, <1>2, <1>3 DEF Token, Tokens
  <2> HIDE DEF tok
  <2>3. <<tok>> \in Seq(Tokens) /\ Len(<<tok>>) = 1 /\ DOMAIN <<tok>> = {1} /\ <<tok>>[1] = tok
    BY <2>2
  <2> QED
    BY <1>5, <2>1, <2>2, <2>3 DEF tok
<1>6. CASE v.type = "INT" /\ ~(v.n >= 0)
  <2>1. Literal(v) = <<Token("MINUS", "", 0, <<45>>), Token("INTEGER", "", -v.n, v.s)>> /\ ~Positive(v)
    BY <1>6 DEF Literal, Positive
  <2> DEFINE sign == Token("MINUS", "", 0, <<45>>)
             tok == Token("INTEGER", "", -v.n, v.s)
  <2>2. tok \in Tokens /\ tok.type = "INTEGER"
    BY <1>1, <1>3 DEF Token, Tokens
  <2>4. sign \in Tokens /\ sign.type = "MINUS" /\ sign.n = 0
    BY <1>2, <1>3 DEF Token, Tokens
  <2> HIDE DEF sign, tok
  <2>3. /\ <<sign, tok>> \in Seq(Tokens) /\ Len(<<sign, tok>>) = 2 /\ <<sign, tok>>[1] = sign
        /\ \A i \in DOMAIN <<sign, tok>> : <<sign, tok>>[i] = sign \/ <<sign, tok>>[i] = tok
    BY <2>2, <2>4
  <2> QED
    BY <1>6, <2>1, <2>2, <2>3, <2>4 DEF sign, tok
<1> QED
  BY <1>1, <1>4, <1>5, <1>6

\* Items with commas between them are tokens.
LEMMA CommasType ==
  ASSUME NEW items \in Seq(Seq(Tokens))
  PROVE  Commas(items) \in Seq(Tokens)
<1> DEFINE g == [i \in DOMAIN items |-> IF i = 1 THEN items[i] ELSE <<Word("COMMA")>> \o items[i]]
<1>1. /\ Len(items) \in Nat /\ DOMAIN items = 1 .. Len(items)
      /\ \A i \in 1 .. Len(items) : items[i] \in Seq(Tokens)
  OBVIOUS
<1>2. Word("COMMA") \in Tokens
  BY WordType DEF Words
<1>3. ASSUME NEW i \in 1 .. Len(items) PROVE <<Word("COMMA")>> \o items[i] \in Seq(Tokens)
  BY <1>1, <1>2
<1>4. g \in [1 .. Len(items) -> Seq(Tokens)]
  BY <1>1, <1>3
<1> HIDE DEF g
<1>5. g \in Seq(Seq(Tokens))
  <2> DEFINE n == Len(items)
  <2>1. n \in Nat /\ g \in [1 .. n -> Seq(Tokens)]
    BY <1>4
  <2> HIDE DEF n
  <2> QED
    BY <2>1
<1> QED
  BY <1>5, FlattenType DEF Commas, g

\* What stands behind WHERE.
Clause(r) == <<Name(r.wcol), Word("EQ")>> \o Literal(r.wval)

\* The clause of a statement is WHERE and what stands behind it.
LEMMA WhereType ==
  ASSUME NEW r \in Requests
  PROVE  Where(r) \in Seq(Tokens) /\ (r.wcol # "" => Where(r) = <<Word("WHERE")>> \o Clause(r))
<1>1. r.wcol \in STRING /\ r.wval \in Values
  BY RequestsAssumption
<1>2. Word("WHERE") \in Tokens /\ Word("EQ") \in Tokens /\ Name(r.wcol) \in Tokens
  BY <1>1, WordType DEF Words
<1>3. Literal(r.wval) \in Seq(Tokens)
  BY <1>1, LiteralIs
<1> DEFINE a == Word("WHERE")
           b == Name(r.wcol)
           c == Word("EQ")
           l == Literal(r.wval)
<1>4. CASE r.wcol = ""
  <2>1. Where(r) = << >>
    BY <1>4 DEF Where
  <2>2. << >> \in Seq(Tokens)
    OBVIOUS
  <2> HIDE DEF a, b, c, l
  <2> QED
    BY <1>4, <2>1, <2>2
<1>5. CASE r.wcol # ""
  <2>1. Where(r) = <<a, b, c>> \o l
    BY <1>5 DEF Where
  <2> HIDE DEF a, b, c, l
  <2>2. /\ <<a, b, c>> \in Seq(Tokens) /\ <<a>> \in Seq(Tokens)
        /\ <<b, c>> \in Seq(Tokens) /\ l \in Seq(Tokens)
    BY <1>2, <1>3 DEF a, b, c, l
  <2>3. <<a, b, c>> = <<a>> \o <<b, c>>
    OBVIOUS
  <2>4. <<a, b, c>> \o l = <<a>> \o (<<b, c>> \o l)
    BY <2>2, <2>3, MiddlePart
  <2>5. <<a, b, c>> \o l \in Seq(Tokens)
    BY <2>2
  <2> QED
    BY <2>1, <2>4, <2>5 DEF a, b, c, l, Clause
<1> QED
  BY <1>4, <1>5

\* What users write is made of tokens.
LEMMA TextType ==
  ASSUME NEW r \in Requests
  PROVE  TextOf(r) \in Seq(Tokens)
<1>1. /\ r.kind \in {"INSERT", "UPDATE", "DELETE"} /\ r.table \in Tables
      /\ r.cols \in Seq(STRING) /\ r.vals \in Seq(Values) /\ r.col \in STRING /\ r.val \in Values
      /\ TableNames[r.table] \in STRING
  BY RequestsAssumption
<1> DEFINE tn == Name(TableNames[r.table])
           names == Commas([i \in DOMAIN r.cols |-> <<Name(r.cols[i])>>])
           lits == Commas([i \in DOMAIN r.vals |-> Literal(r.vals[i])])
<1>2. tn \in Tokens /\ Name(r.col) \in Tokens
  BY <1>1, WordType
<1>4. names \in Seq(Tokens)
  <2> DEFINE g == [i \in DOMAIN r.cols |-> <<Name(r.cols[i])>>]
  <2>1. Len(r.cols) \in Nat /\ DOMAIN r.cols = 1 .. Len(r.cols)
    BY <1>1
  <2>2. ASSUME NEW i \in 1 .. Len(r.cols) PROVE <<Name(r.cols[i])>> \in Seq(Tokens)
    <3>1. r.cols[i] \in STRING
      BY <1>1
    <3>2. Name(r.cols[i]) \in Tokens
      BY <3>1, WordType
    <3> QED
      BY <3>2
  <2>3. g \in [1 .. Len(r.cols) -> Seq(Tokens)]
    BY <2>1, <2>2
  <2> HIDE DEF g
  <2>4. g \in Seq(Seq(Tokens))
    BY <2>1, <2>3
  <2> QED
    BY <2>4, CommasType DEF g
<1>5. lits \in Seq(Tokens)
  <2> DEFINE g == [i \in DOMAIN r.vals |-> Literal(r.vals[i])]
  <2>1. Len(r.vals) \in Nat /\ DOMAIN r.vals = 1 .. Len(r.vals)
    BY <1>1
  <2>2. ASSUME NEW i \in 1 .. Len(r.vals) PROVE Literal(r.vals[i]) \in Seq(Tokens)
    <3>1. r.vals[i] \in Values
      BY <1>1
    <3> QED
      BY <3>1, LiteralIs
  <2>3. g \in [1 .. Len(r.vals) -> Seq(Tokens)]
    BY <2>1, <2>2
  <2> HIDE DEF g
  <2>4. g \in Seq(Seq(Tokens))
    BY <2>1, <2>3
  <2> QED
    BY <2>4, CommasType DEF g
<1>6. Literal(r.val) \in Seq(Tokens) /\ Where(r) \in Seq(Tokens)
  BY <1>1, LiteralIs, WhereType
<1> DEFINE i1 == <<Word("INSERT"), Word("INTO"), tn, Word("LPAREN")>>
           i2 == <<Word("RPAREN"), Word("VALUES"), Word("LPAREN")>>
           i3 == <<Word("RPAREN")>>
           u == <<Word("UPDATE"), tn, Word("SET"), Name(r.col), Word("ASSIGN")>>
           d == <<Word("DELETE"), Word("FROM"), tn>>
<1>7. /\ r.kind = "INSERT" => TextOf(r) = i1 \o names \o i2 \o lits \o i3
      /\ r.kind = "UPDATE" => TextOf(r) = u \o Literal(r.val) \o Where(r)
      /\ r.kind = "DELETE" => TextOf(r) = d \o Where(r)
  BY DEF TextOf
<1>8. /\ Word("INSERT") \in Tokens /\ Word("INTO") \in Tokens /\ Word("LPAREN") \in Tokens
      /\ Word("RPAREN") \in Tokens /\ Word("VALUES") \in Tokens /\ Word("UPDATE") \in Tokens
      /\ Word("SET") \in Tokens /\ Word("ASSIGN") \in Tokens /\ Word("DELETE") \in Tokens
      /\ Word("FROM") \in Tokens
  BY WordType DEF Words
<1> HIDE DEF tn
<1>9. i1 \in Seq(Tokens) /\ i2 \in Seq(Tokens) /\ i3 \in Seq(Tokens)
  BY <1>2, <1>8
<1>10. u \in Seq(Tokens) /\ d \in Seq(Tokens)
  BY <1>2, <1>8
<1> HIDE DEF i1, i2, i3, u, d, names, lits
<1>11. /\ i1 \o names \o i2 \o lits \o i3 \in Seq(Tokens)
       /\ u \o Literal(r.val) \o Where(r) \in Seq(Tokens) /\ d \o Where(r) \in Seq(Tokens)
  BY <1>4, <1>5, <1>6, <1>9, <1>10
<1> QED
  BY <1>1, <1>7, <1>11

\* A value that is parsed converts to what a field can hold.
LEMMA ParsedValues ==
  ASSUME NEW sql \in Seq(Tokens)
  PROVE  parse(sql).updateVal \in Tokens /\ parse(sql).insertVals \in Seq(Tokens)
<1> DEFINE q == [EmptyQuery EXCEPT !.type = TypeAt(sql, 1)]
           none == Token("END", "", 0, << >>)
<1>1. none \in Tokens /\ << >> \in Seq(Tokens)
  <2>1. 0 \in Int32 /\ "" \in STRING \union {""}
    BY SMT DEF Int32
  <2>2. << >> \in Texts
    BY DEF Texts
  <2>3. none \in Tokens
    BY <2>1, <2>2 DEF Token, Tokens
  <2>4. << >> \in Seq(Tokens)
    OBVIOUS
  <2> QED
    BY <2>3, <2>4
<1>2. \A k \in DOMAIN sql : sql[k] \in Tokens
  OBVIOUS
<1>3. CASE q.type = "INSERT"
  <2> DEFINE values == IF TypeAt(sql, 4) = "LPAREN" THEN Until(sql, 5, {"RPAREN"}) + 1 ELSE 4
             open == IF TypeAt(sql, values) = "VALUES" THEN values + 1 ELSE values
             inside == SubSeq(sql, open + 1, Until(sql, open + 1, {"RPAREN"}) - 1)
             vals == Chosen(inside, {i \in DOMAIN inside : inside[i].type # "COMMA"})
             m == IF Len(vals) < MAX_COLUMNS THEN Len(vals) ELSE MAX_COLUMNS
  <2>1. values \in Nat \ {0}
    BY UntilBound
  <2>2. open \in Nat \ {0}
    BY <2>1
  <2> HIDE DEF values
  <2>3. /\ Until(sql, open + 1, {"RPAREN"}) \in Nat /\ Until(sql, open + 1, {"RPAREN"}) >= open + 1
        /\ open + 1 <= Len(sql) + 1 => Until(sql, open + 1, {"RPAREN"}) <= Len(sql) + 1
    <3> HIDE DEF open
    <3>1. open + 1 \in Nat \ {0}
      BY <2>2
    <3> QED
      BY <3>1, UntilBound
  <2>4. inside \in Seq(Tokens)
    <3> DEFINE u == Until(sql, open + 1, {"RPAREN"})
    <3>1. u \in Nat /\ u >= open + 1 /\ (open + 1 <= Len(sql) + 1 => u <= Len(sql) + 1)
      BY <2>3
    <3>2. inside = SubSeq(sql, open + 1, u - 1)
      OBVIOUS
    <3> HIDE DEF open, u, inside
    <3>3. Len(sql) \in Nat
      OBVIOUS
    <3>4. CASE open + 1 <= Len(sql) + 1
      <4>1. open + 1 \in 1 .. Len(sql) + 1 /\ u - 1 \in Nat /\ u - 1 <= Len(sql)
        BY <2>2, <3>1, <3>3, <3>4
      <4> QED
        BY <3>2, <4>1
    <3>5. CASE ~(open + 1 <= Len(sql) + 1)
      <4>1. Until(sql, open + 1, {"RPAREN"}) = open + 1
        BY <2>2, <3>3, <3>5 DEF Until
      <4>2. u - 1 = open
        BY <2>2, <4>1 DEF u
      <4>3. SubSeq(sql, open + 1, open) = << >>
        BY <2>2
      <4> QED
        BY <1>1, <3>2, <4>2, <4>3
    <3> QED
      BY <3>4, <3>5
  <2> HIDE DEF inside
  <2>5. vals \in Seq(Tokens)
    BY <2>4, ChosenType
  <2> HIDE DEF vals
  <2>6. m \in Nat /\ m <= Len(vals)
    <3>1. MAX_COLUMNS \in Nat
      BY RequestsAssumption
    <3>2. Len(vals) \in Nat
      BY <2>5
    <3> QED
      BY <3>1, <3>2
  <2>7. SubSeq(vals, 1, m) \in Seq(Tokens)
    <3> HIDE DEF m
    <3> QED
      BY <2>5, <2>6
  <2>8. /\ parse(sql) = parseInsert(q, sql)
    BY <1>3 DEF parse
  <2> HIDE DEF m
  <2>9. parseInsert(q, sql) =
          IF TypeAt(sql, 2) # "INTO" \/ TypeAt(sql, 3) # "IDENTIFIER" THEN q
          ELSE [q EXCEPT !.ok = TRUE, !.tableName = NameAt(sql, 3),
                         !.insertVals = IF TypeAt(sql, open) # "LPAREN" THEN << >>
                                        ELSE SubSeq(vals, 1, m)]
    BY DEF parseInsert, values, inside, vals, m
  <2> HIDE DEF open
  <2>10. q.updateVal = none /\ q.insertVals = << >>
    BY DEF EmptyQuery
  <2>11. /\ parseInsert(q, sql).updateVal = none
         /\ parseInsert(q, sql).insertVals \in {<< >>, SubSeq(vals, 1, m)}
    BY <2>9 DEF EmptyQuery
  <2> QED
    BY <1>1, <2>7, <2>8, <2>11
<1>4. CASE q.type = "UPDATE"
  <2>1. parse(sql) = parseUpdate(q, sql)
    BY <1>4 DEF parse
  <2>2. /\ parseUpdate(q, sql).updateVal \in {none, sql[6]}
        /\ parseUpdate(q, sql).updateVal = sql[6] => 6 \in DOMAIN sql \/ none = sql[6]
        /\ parseUpdate(q, sql).insertVals = << >>
    BY DEF parseUpdate, parseWhere, EmptyQuery
  <2> QED
    BY <1>1, <1>2, <2>1, <2>2
<1>5. CASE q.type = "DELETE"
  <2>1. parse(sql) = parseDelete(q, sql)
    BY <1>5 DEF parse
  <2>2. /\ parseDelete(q, sql).updateVal = none
        /\ parseDelete(q, sql).insertVals = << >>
    BY DEF parseDelete, parseWhere, EmptyQuery
  <2> QED
    BY <1>1, <2>1, <2>2
<1>6. CASE q.type \notin {"INSERT", "UPDATE", "DELETE"}
  <2>1. parse(sql) = EmptyQuery
    BY <1>6 DEF parse
  <2>2. EmptyQuery.updateVal = none /\ EmptyQuery.insertVals = << >>
    BY DEF EmptyQuery
  <2> QED
    BY <1>1, <2>1, <2>2
<1> QED
  BY <1>3, <1>4, <1>5, <1>6

\* A clause is what stands behind WHERE, up to the end of the text.
LEMMA ClauseParsed ==
  ASSUME NEW r \in Requests, NEW a \in Seq(Tokens), NEW q
  PROVE  /\ r.wcol = "" => parseWhere(q, a \o Where(r), Len(a) + 1) = [q EXCEPT !.ok = TRUE]
         /\ r.wcol # "" =>
              parseWhere(q, a \o Where(r), Len(a) + 1) =
                [q EXCEPT !.ok = TRUE, !.hasWhere = TRUE,
                          !.where = Clause(r)]
<1> DEFINE sql == a \o Where(r)
           k == Len(a) + 1
           c == Clause(r)
<1>1. Len(a) \in Nat /\ Where(r) \in Seq(Tokens) /\ sql \in Seq(Tokens)
      /\ Len(sql) = Len(a) + Len(Where(r)) /\ DOMAIN sql = 1 .. Len(sql)
  <2>1. Where(r) \in Seq(Tokens)
    BY WhereType
  <2> HIDE DEF c
  <2> QED
    BY <2>1
<1>2. CASE r.wcol = ""
  <2>1. Where(r) = << >> /\ Len(Where(r)) = 0
    BY <1>2 DEF Where
  <2>2. k \notin DOMAIN sql
    <3> HIDE DEF sql
    <3> QED
      BY <1>1, <2>1
  <2>3. TypeAt(sql, k) # "WHERE"
    BY <2>2 DEF TypeAt
  <2> QED
    BY <1>2, <2>3 DEF parseWhere
<1>3. CASE r.wcol # ""
  <2>1. /\ r.wcol \in STRING /\ r.wval \in Values
    BY RequestsAssumption
  <2>2. /\ Word("WHERE") \in Tokens /\ Word("WHERE").type = "WHERE"
        /\ Word("EQ") \in Tokens /\ Word("EQ").type = "EQ"
        /\ Name(r.wcol) \in Tokens /\ Name(r.wcol).type = "IDENTIFIER"
    BY <2>1, WordType DEF Words
  <2>3. /\ Literal(r.wval) \in Seq(Tokens)
        /\ \A i \in DOMAIN Literal(r.wval) :
             Literal(r.wval)[i].type \in {"STRING_LIT", "INTEGER", "MINUS"}
    BY <2>1, LiteralIs
  <2> DEFINE x == Name(r.wcol)
             e == Word("EQ")
             l == Literal(r.wval)
             w == Word("WHERE")
  <2>4. Where(r) = <<w>> \o c
    BY <1>3, WhereType
  <2>5. c = <<x, e>> \o l
    BY DEF Clause
  <2> HIDE DEF x, e, l, w, c
  <2>6. c \in Seq(Tokens) /\ \A i \in 1 .. Len(c) : c[i].type \notin {"SEMICOLON", "ORDER"}
    <3>1. <<x, e>> \in Seq(Tokens) /\ Len(<<x, e>>) = 2 /\ l \in Seq(Tokens)
      BY <2>2, <2>3 DEF x, e, l
    <3>2. c \in Seq(Tokens) /\ Len(c) = 2 + Len(l) /\ Len(l) \in Nat /\ c[1] = x /\ c[2] = e
          /\ \A i \in 1 .. Len(l) : c[2 + i] = l[i]
      BY <2>5, <3>1
    <3>3. ASSUME NEW i \in 1 .. Len(c) PROVE c[i].type \notin {"SEMICOLON", "ORDER"}
      <4>1. CASE i = 1
        BY <2>2, <3>2, <4>1 DEF x
      <4>2. CASE i = 2
        BY <2>2, <3>2, <4>2 DEF e
      <4>3. CASE i > 2
        <5>1. i - 2 \in 1 .. Len(l) /\ i = 2 + (i - 2)
          BY <3>2, <4>3
        <5>2. c[i] = l[i - 2]
          BY <3>2, <5>1
        <5>3. l[i - 2].type \in {"STRING_LIT", "INTEGER", "MINUS"}
          BY <2>3, <3>1, <5>1 DEF l
        <5> QED
          BY <5>2, <5>3
      <4> QED
        BY <3>2, <4>1, <4>2, <4>3
    <3> QED
      BY <3>2, <3>3
  <2>7. <<w>> \in Seq(Tokens) /\ Len(<<w>>) = 1
    BY <2>2 DEF w
  <2> DEFINE b == a \o <<w>>
  <2>8. sql = b \o c /\ b \in Seq(Tokens) /\ Len(b) = k
    <3>1. sql = a \o (<<w>> \o c)
      BY <2>4
    <3>2. (a \o <<w>>) \o c = a \o (<<w>> \o c)
      BY <2>6, <2>7, MiddlePart
    <3> QED
      BY <2>7, <3>1, <3>2
  <2>9. b[k] = w /\ k \in 1 .. Len(b)
    BY <1>1, <2>7
  <2> HIDE DEF sql, b
  <2>10. /\ Len(sql) = k + Len(c) /\ Len(c) \in Nat /\ k \in Nat \ {0}
         /\ sql[k] = w /\ \A i \in 1 .. Len(c) : sql[k + i] = c[i]
    <3>0. b \in Seq(Tokens) /\ c \in Seq(Tokens)
      BY <2>6, <2>8
    <3>1. /\ Len(b \o c) = Len(b) + Len(c) /\ Len(c) \in Nat /\ Len(b) \in Nat
          /\ \A i \in 1 .. Len(b) : (b \o c)[i] = b[i]
          /\ \A i \in 1 .. Len(c) : (b \o c)[Len(b) + i] = c[i]
      BY <3>0
    <3>2. k \in Nat \ {0}
      BY <1>1
    <3> HIDE DEF k
    <3> QED
      BY <2>8, <2>9, <3>1, <3>2
  <2>11. TypeAt(sql, k) = "WHERE"
    BY <1>1, <2>2, <2>10 DEF TypeAt, w
  <2> HIDE DEF k
  <2>12. Until(sql, k + 1, {"SEMICOLON", "ORDER"}) = Len(sql) + 1
    <3> DEFINE last == Len(sql) + 1
               types == {"SEMICOLON", "ORDER"}
    <3>1. k + 1 \in 1 .. Len(sql) + 1 /\ last \in k + 1 .. Len(sql) + 1 /\ ~(last <= Len(sql))
      BY <2>10
    <3>2. ASSUME NEW j \in k + 1 .. last - 1 PROVE sql[j].type \notin types
      <4>1. j - k \in 1 .. Len(c) /\ j = k + (j - k)
        BY <2>10
      <4>2. sql[j] = c[j - k]
        BY <2>10, <4>1
      <4> QED
        BY <2>6, <4>1, <4>2
    <3> HIDE DEF last, types
    <3>3. Until(sql, k + 1, types) = last
      BY <1>1, <3>1, <3>2, UntilIs
    <3> QED
      BY <3>3 DEF last, types
  <2>13. SubSeq(sql, k + 1, Until(sql, k + 1, {"SEMICOLON", "ORDER"}) - 1) = c
    <3>1. (Len(sql) + 1) - 1 = Len(sql)
      BY <2>10
    <3>2. SubSeq(b \o c, Len(b) + 1, Len(b \o c)) = c
      BY <2>6, <2>8, MiddlePart
    <3> QED
      BY <2>8, <2>12, <3>1, <3>2
  <2>14. parseWhere(q, sql, k) = [q EXCEPT !.ok = TRUE, !.hasWhere = TRUE, !.where = c]
    BY <2>11, <2>13 DEF parseWhere
  <2> QED
    BY <1>3, <2>14 DEF sql, k, c
<1> QED
  BY <1>2, <1>3

\* The fields a statement with a clause is parsed into.
ParsedClause(p, r) ==
  /\ p.hasWhere = (r.wcol # "")
  /\ r.wcol # "" => p.where = Clause(r)

\* A DELETE is parsed into its table and its clause.
LEMMA DeleteParsed ==
  ASSUME NEW r \in Requests, r.kind = "DELETE"
  PROVE  /\ parse(TextOf(r)).ok /\ parse(TextOf(r)).type = "DELETE"
         /\ parse(TextOf(r)).tableName = TableNames[r.table]
         /\ ParsedClause(parse(TextOf(r)), r)
<1> DEFINE x1 == Word("DELETE")
           x2 == Word("FROM")
           x3 == Name(TableNames[r.table])
           a == <<x1, x2, x3>>
           sql == a \o Where(r)
           p == parse(sql)
           q == [[EmptyQuery EXCEPT !.type = "DELETE"] EXCEPT !.tableName = x3.name]
<1>1. TextOf(r) = sql
  BY DEF TextOf
<1>2. /\ x1 \in Tokens /\ x1.type = "DELETE" /\ x2 \in Tokens /\ x2.type = "FROM"
      /\ x3 \in Tokens /\ x3.type = "IDENTIFIER" /\ x3.name = TableNames[r.table]
  <2>1. TableNames[r.table] \in STRING
    BY RequestsAssumption
  <2> QED
    BY <2>1, WordType DEF Words
<1> HIDE DEF x1, x2, x3
<1>3. a \in Seq(Tokens) /\ Len(a) = 3 /\ Where(r) \in Seq(Tokens)
  <2>1. Where(r) \in Seq(Tokens)
    BY WhereType
  <2>2. a \in Seq(Tokens) /\ Len(a) = 3
    BY <1>2
  <2> QED
    BY <2>1, <2>2
<1>4. /\ sql \in Seq(Tokens) /\ 1 \in DOMAIN sql /\ 2 \in DOMAIN sql /\ 3 \in DOMAIN sql
      /\ sql[1] = x1 /\ sql[2] = x2 /\ sql[3] = x3
  BY <1>3
<1> HIDE DEF sql, a
<1>5. TypeAt(sql, 1) = "DELETE" /\ TypeAt(sql, 2) = "FROM" /\ TypeAt(sql, 3) = "IDENTIFIER"
      /\ NameAt(sql, 3) = x3.name
  BY <1>2, <1>4 DEF TypeAt, NameAt
<1>6. p = parseWhere(q, sql, 4)
  <2>1. p = parseDelete([EmptyQuery EXCEPT !.type = "DELETE"], sql)
    BY <1>5 DEF parse, EmptyQuery
  <2>2. 3 + 1 = 4
    OBVIOUS
  <2> QED
    BY <1>5, <2>1, <2>2 DEF parseDelete
<1>7. Len(a) + 1 = 4
  BY <1>3
<1>8. /\ r.wcol = "" => p = [q EXCEPT !.ok = TRUE]
      /\ r.wcol # "" => p = [q EXCEPT !.ok = TRUE, !.hasWhere = TRUE,
                                      !.where = Clause(r)]
  <2> HIDE DEF q, p
  <2>1. p = parseWhere(q, a \o Where(r), Len(a) + 1)
    BY <1>6, <1>7 DEF sql
  <2>2. a \in Seq(Tokens)
    BY <1>3
  <2>3. /\ r.wcol = "" => parseWhere(q, a \o Where(r), Len(a) + 1) = [q EXCEPT !.ok = TRUE]
        /\ r.wcol # "" =>
             parseWhere(q, a \o Where(r), Len(a) + 1) =
               [q EXCEPT !.ok = TRUE, !.hasWhere = TRUE, !.where = Clause(r)]
    BY <2>2, ClauseParsed
  <2> QED
    BY <2>1, <2>3
<1> DEFINE c == Clause(r)
<1> HIDE DEF p, c
<1>9. CASE r.wcol = ""
  <2>1. p = [q EXCEPT !.ok = TRUE]
    BY <1>8, <1>9
  <2>2. p.ok /\ p.type = "DELETE" /\ p.tableName = x3.name /\ p.hasWhere = FALSE
    BY <2>1 DEF EmptyQuery
  <2> QED
    BY <1>1, <1>2, <1>9, <2>2 DEF ParsedClause, p
<1>10. CASE r.wcol # ""
  <2>1. p = [q EXCEPT !.ok = TRUE, !.hasWhere = TRUE, !.where = c]
    BY <1>8, <1>10 DEF c
  <2>2. p.ok /\ p.type = "DELETE" /\ p.tableName = x3.name /\ p.hasWhere = TRUE /\ p.where = c
    BY <2>1 DEF EmptyQuery
  <2> QED
    BY <1>1, <1>2, <1>10, <2>2 DEF ParsedClause, p, c
<1> QED
  BY <1>9, <1>10

\* An UPDATE up to its value.
Assigned(r) ==
  <<Word("UPDATE"), Name(TableNames[r.table]), Word("SET"), Name(r.col), Word("ASSIGN")>>
    \o Literal(r.val)

\* What the parser has read when it comes to the seventh token.
UpdateQuery(r) ==
  [EmptyQuery EXCEPT !.type = "UPDATE", !.tableName = TableNames[r.table],
                     !.updateCol = r.col, !.updateVal = Literal(r.val)[1]]

\* The parser takes the token after the assignment sign for the value.
LEMMA UpdateHead ==
  ASSUME NEW r \in Requests, r.kind = "UPDATE"
  PROVE  /\ TextOf(r) = Assigned(r) \o Where(r)
         /\ Assigned(r) \in Seq(Tokens) /\ Len(Assigned(r)) = 5 + Len(Literal(r.val))
         /\ \A i \in DOMAIN Literal(r.val) : TextOf(r)[5 + i] = Literal(r.val)[i]
         /\ Len(TextOf(r)) >= Len(Assigned(r)) /\ Len(TextOf(r)) \in Nat
         /\ parse(TextOf(r)) = parseWhere(UpdateQuery(r), TextOf(r), 7)
<1> DEFINE x1 == Word("UPDATE")
           x2 == Name(TableNames[r.table])
           x3 == Word("SET")
           x4 == Name(r.col)
           x5 == Word("ASSIGN")
           b == <<x1, x2, x3, x4, x5>>
           l == Literal(r.val)
           a == b \o l
           sql == a \o Where(r)
           p == parse(sql)
<1>1. TextOf(r) = sql /\ Assigned(r) = a
  BY DEF TextOf, Assigned
<1>2. /\ x1 \in Tokens /\ x1.type = "UPDATE" /\ x3 \in Tokens /\ x3.type = "SET"
      /\ x5 \in Tokens
      /\ x2 \in Tokens /\ x2.type = "IDENTIFIER" /\ x2.name = TableNames[r.table]
      /\ x4 \in Tokens /\ x4.type = "IDENTIFIER" /\ x4.name = r.col
  <2>1. TableNames[r.table] \in STRING /\ r.col \in STRING
    BY RequestsAssumption
  <2> QED
    BY <2>1, WordType DEF Words
<1>3. l \in Seq(Tokens) /\ Len(l) \in Nat /\ Len(l) >= 1
  <2>1. r.val \in Values
    BY RequestsAssumption
  <2>2. l \in Seq(Tokens) /\ Len(l) = IF Positive(r.val) THEN 1 ELSE 2
    BY <2>1, LiteralIs
  <2> HIDE DEF l
  <2>3. Len(l) = 1 \/ Len(l) = 2
    BY <2>2
  <2> QED
    BY <2>2, <2>3
<1> HIDE DEF x1, x2, x3, x4, x5, l
<1>4. /\ b \in Seq(Tokens) /\ Len(b) = 5
      /\ b[1] = x1 /\ b[2] = x2 /\ b[3] = x3 /\ b[4] = x4 /\ b[5] = x5
  <2>1. b \in Seq(Tokens)
    BY <1>2
  <2> QED
    BY <2>1
<1>5. Where(r) \in Seq(Tokens)
  BY WhereType
<1> HIDE DEF b
<1>6. /\ a \in Seq(Tokens) /\ Len(a) = 5 + Len(l)
      /\ a[1] = x1 /\ a[2] = x2 /\ a[3] = x3 /\ a[4] = x4
      /\ \A i \in DOMAIN l : a[5 + i] = l[i]
  <2>1. Spliced(a, b, l, Tokens)
    BY <1>3, <1>4, Concatenated
  <2>2. a \in Seq(Tokens) /\ Len(a) = 5 + Len(l) /\ \A i \in 1 .. 5 : a[i] = b[i]
    BY <1>3, <1>4, <2>1 DEF Spliced
  <2>3. \A i \in 1 .. Len(l) : a[5 + i] = l[i]
    BY <1>3, <1>4, <2>1 DEF Spliced
  <2> QED
    BY <1>3, <1>4, <2>2, <2>3
<1> HIDE DEF a
<1>7. /\ sql \in Seq(Tokens) /\ Len(sql) \in Nat /\ Len(sql) >= Len(a)
      /\ {1, 2, 3, 4, 6} \subseteq DOMAIN sql
      /\ sql[1] = x1 /\ sql[2] = x2 /\ sql[3] = x3 /\ sql[4] = x4
      /\ \A i \in DOMAIN l : sql[5 + i] = l[i]
  <2>1. Spliced(sql, a, Where(r), Tokens)
    BY <1>5, <1>6, Concatenated
  <2>2. sql \in Seq(Tokens) /\ Len(sql) \in Nat /\ Len(sql) >= Len(a)
        /\ \A i \in 1 .. Len(a) : sql[i] = a[i]
    BY <1>5, <1>6, <2>1 DEF Spliced
  <2>3. DOMAIN l = 1 .. Len(l) /\ Len(a) >= 6 /\ Len(a) \in Nat /\ DOMAIN sql = 1 .. Len(sql)
    <3>1. DOMAIN l = 1 .. Len(l)
      BY <1>3
    <3>2. Len(a) >= 6 /\ Len(a) \in Nat
      <4>1. Len(a) = 5 + Len(l)
        BY <1>6
      <4> QED
        BY <1>3, <4>1
    <3>3. DOMAIN sql = 1 .. Len(sql)
      BY <2>2
    <3> QED
      BY <3>1, <3>2, <3>3
  <2>4. \A i \in DOMAIN l : 5 + i \in 1 .. Len(a)
    BY <1>3, <1>6, <2>3
  <2>5. \A i \in DOMAIN l : sql[5 + i] = l[i]
    BY <1>6, <2>2, <2>4
  <2> QED
    BY <1>6, <2>2, <2>3, <2>5
<1> HIDE DEF sql
<1>8. /\ TypeAt(sql, 1) = "UPDATE" /\ TypeAt(sql, 2) = "IDENTIFIER"
      /\ TypeAt(sql, 3) = "SET" /\ TypeAt(sql, 4) = "IDENTIFIER"
      /\ NameAt(sql, 2) = x2.name /\ NameAt(sql, 4) = x4.name
  BY <1>2, <1>7 DEF TypeAt, NameAt
<1>9. sql[6] = l[1]
  <2>1. 1 \in DOMAIN l
    BY <1>3
  <2>2. 5 + 1 = 6
    OBVIOUS
  <2> QED
    BY <1>7, <2>1, <2>2
<1>10. p = parseWhere(UpdateQuery(r), sql, 7)
  <2>1. p = parseUpdate([EmptyQuery EXCEPT !.type = "UPDATE"], sql)
    BY <1>8 DEF parse, EmptyQuery
  <2>2. parseUpdate([EmptyQuery EXCEPT !.type = "UPDATE"], sql) =
          parseWhere([[EmptyQuery EXCEPT !.type = "UPDATE"] EXCEPT
                        !.tableName = x2.name, !.updateCol = x4.name, !.updateVal = l[1]],
                     sql, 7)
    <3>1. 6 \in DOMAIN sql
      BY <1>7
    <3> QED
      BY <1>8, <1>9, <3>1 DEF parseUpdate, EmptyQuery
  <2>3. [[EmptyQuery EXCEPT !.type = "UPDATE"] EXCEPT
            !.tableName = x2.name, !.updateCol = x4.name, !.updateVal = l[1]]
          = UpdateQuery(r)
    BY <1>2 DEF EmptyQuery, UpdateQuery, l
  <2> QED
    BY <2>1, <2>2, <2>3
<1> QED
  BY <1>1, <1>5, <1>6, <1>7, <1>10 DEF l, p, sql

\* A value that is a single token is taken as it is, and the clause is seen.
LEMMA UpdateParsed ==
  ASSUME NEW r \in Requests, r.kind = "UPDATE", Positive(r.val)
  PROVE  /\ parse(TextOf(r)).ok /\ parse(TextOf(r)).type = "UPDATE"
         /\ parse(TextOf(r)).tableName = TableNames[r.table]
         /\ parse(TextOf(r)).updateCol = r.col
         /\ parse(TextOf(r)).updateVal = Literal(r.val)[1]
         /\ ParsedClause(parse(TextOf(r)), r)
<1> DEFINE a == Assigned(r)
           p == parse(TextOf(r))
           q == UpdateQuery(r)
           c == Clause(r)
<1>1. r.val \in Values
  BY RequestsAssumption
<1>2. Len(Literal(r.val)) = 1
  BY <1>1, LiteralIs
<1>3. /\ a \in Seq(Tokens) /\ Len(a) = 5 + Len(Literal(r.val))
      /\ TextOf(r) = a \o Where(r) /\ p = parseWhere(q, TextOf(r), 7)
  BY UpdateHead
<1> HIDE DEF p, q, a, c
<1>4. /\ r.wcol = "" => p = [q EXCEPT !.ok = TRUE]
      /\ r.wcol # "" => p = [q EXCEPT !.ok = TRUE, !.hasWhere = TRUE, !.where = c]
  <2>1. Len(a) + 1 = 7
    BY <1>2, <1>3
  <2>2. p = parseWhere(q, a \o Where(r), Len(a) + 1)
    BY <1>3, <2>1
  <2>3. a \in Seq(Tokens)
    BY <1>3
  <2>4. /\ r.wcol = "" => parseWhere(q, a \o Where(r), Len(a) + 1) = [q EXCEPT !.ok = TRUE]
        /\ r.wcol # "" =>
             parseWhere(q, a \o Where(r), Len(a) + 1) =
               [q EXCEPT !.ok = TRUE, !.hasWhere = TRUE, !.where = Clause(r)]
    BY <2>3, ClauseParsed
  <2> QED
    BY <2>2, <2>4 DEF c
<1>5. CASE r.wcol = ""
  <2>1. p = [q EXCEPT !.ok = TRUE]
    BY <1>4, <1>5
  <2>2. /\ p.ok /\ p.type = "UPDATE" /\ p.tableName = TableNames[r.table] /\ p.hasWhere = FALSE
        /\ p.updateCol = r.col /\ p.updateVal = Literal(r.val)[1]
    BY <2>1 DEF EmptyQuery, UpdateQuery, q
  <2> QED
    BY <1>5, <2>2 DEF ParsedClause, p
<1>6. CASE r.wcol # ""
  <2>1. p = [q EXCEPT !.ok = TRUE, !.hasWhere = TRUE, !.where = c]
    BY <1>4, <1>6
  <2>2. /\ p.ok /\ p.type = "UPDATE" /\ p.tableName = TableNames[r.table] /\ p.hasWhere = TRUE
        /\ p.updateCol = r.col /\ p.updateVal = Literal(r.val)[1] /\ p.where = c
    BY <2>1 DEF EmptyQuery, UpdateQuery, q
  <2> QED
    BY <1>6, <2>2 DEF ParsedClause, p, c
<1> QED
  BY <1>5, <1>6

\* Of a negative number the sign is taken, and the clause is not seen.
LEMMA SignedUpdateParsed ==
  ASSUME NEW r \in Requests, r.kind = "UPDATE", ~Positive(r.val)
  PROVE  /\ parse(TextOf(r)).ok /\ parse(TextOf(r)).type = "UPDATE"
         /\ parse(TextOf(r)).tableName = TableNames[r.table]
         /\ parse(TextOf(r)).updateCol = r.col
         /\ parse(TextOf(r)).updateVal = Literal(r.val)[1]
         /\ parse(TextOf(r)).hasWhere = FALSE
<1> DEFINE sql == TextOf(r)
           l == Literal(r.val)
           p == parse(sql)
           q == UpdateQuery(r)
<1>1. r.val \in Values
  BY RequestsAssumption
<1>2. Len(l) = 2 /\ DOMAIN l = 1 .. 2 /\ l[2].type # "WHERE"
  <2>1. Len(l) = 2 /\ l \in Seq(Tokens)
    BY <1>1, LiteralIs
  <2> HIDE DEF l
  <2>2. DOMAIN l = 1 .. 2 /\ 2 \in DOMAIN l
    BY <2>1
  <2>3. l[2].type \in {"STRING_LIT", "INTEGER", "MINUS"}
    BY <1>1, <2>2, LiteralIs DEF l
  <2> QED
    BY <2>1, <2>2, <2>3
<1>3. sql[7] = l[2] /\ p = parseWhere(q, sql, 7)
  <2>1. 2 \in DOMAIN l /\ 5 + 2 = 7
    BY <1>2
  <2>2. sql[5 + 2] = l[2] /\ p = parseWhere(q, sql, 7)
    BY <2>1, UpdateHead
  <2> QED
    BY <2>1, <2>2
<1> HIDE DEF sql, l, p, q
<1>4. TypeAt(sql, 7) # "WHERE"
  BY <1>2, <1>3 DEF TypeAt
<1>5. p = [q EXCEPT !.ok = TRUE]
  BY <1>3, <1>4 DEF parseWhere
<1>6. /\ p.ok /\ p.type = "UPDATE" /\ p.tableName = TableNames[r.table] /\ p.hasWhere = FALSE
      /\ p.updateCol = r.col /\ p.updateVal = l[1]
  BY <1>5 DEF EmptyQuery, UpdateQuery, q, l
<1> QED
  BY <1>6 DEF p, sql, l

\* The choice from a longer sequence is a choice from the shorter one.
LEMMA ChosenAppend ==
  ASSUME NEW X, NEW s \in Seq(X), NEW x \in X, NEW A, NEW B,
         \A i \in 1 .. Len(s) : i \in A <=> i \in B
  PROVE  Chosen(Append(s, x), B) =
           IF Len(s) + 1 \in B THEN Append(Chosen(s, A), x) ELSE Chosen(s, A)
<1> DEFINE n == Len(s)
           t == Append(s, x)
<1>1. /\ n \in Nat /\ t \in Seq(X) /\ Len(t) = n + 1 /\ t[n + 1] = x
      /\ \A i \in 1 .. n : t[i] = s[i]
  OBVIOUS
<1>2. PICK f \in [0 .. Len(s) -> Seq(X)] : Chooses(s, A, f) /\ Chosen(s, A) = f[Len(s)]
  BY ChosenIs
<1> HIDE DEF t
<1>3. PICK g : Chooses(t, B, g) /\ Chosen(t, B) = g[n + 1]
  BY <1>1, ChosenIs
<1> DEFINE G == {k \in 0 .. n : f[k] = g[k]}
<1>4. 0 \in G
  BY <1>1, <1>2, <1>3 DEF Chooses
<1> HIDE DEF n
<1>5. ASSUME NEW k \in 1 .. n, k - 1 \in G PROVE k \in G
  <2>1. k \in 0 .. n /\ k \in 1 .. n + 1 /\ f[k - 1] = g[k - 1] /\ t[k] = s[k]
        /\ (k \in A <=> k \in B)
    BY <1>1, <1>5 DEF n
  <2>2. f[k] = IF k \in A THEN Append(f[k - 1], s[k]) ELSE f[k - 1]
    BY <1>2 DEF Chooses, n
  <2>3. g[k] = IF k \in B THEN Append(g[k - 1], t[k]) ELSE g[k - 1]
    BY <1>1, <1>3, <2>1 DEF Chooses
  <2> QED
    BY <2>1, <2>2, <2>3
<1> HIDE DEF G
<1>6. 0 .. n \subseteq G
  BY <1>1, <1>4, <1>5, UptoInduction
<1>7. f[n] = g[n]
  <2>1. n \in 0 .. n
    BY <1>1
  <2> QED
    BY <1>6, <2>1 DEF G
<1>8. g[n + 1] = IF n + 1 \in B THEN Append(g[n], x) ELSE g[n]
  <2>1. n + 1 \in 1 .. n + 1 /\ (n + 1) - 1 = n
    BY <1>1
  <2> QED
    BY <1>1, <1>3, <2>1 DEF Chooses
<1> QED
  BY <1>2, <1>3, <1>7, <1>8 DEF n, t

\* The tokens between the parentheses that are no commas.
NoCommas(s) == Chosen(s, {i \in DOMAIN s : s[i].type # "COMMA"})

\* One more token is kept unless it is a comma.
LEMMA NoCommasAppend ==
  ASSUME NEW s \in Seq(Tokens), NEW x \in Tokens
  PROVE  NoCommas(Append(s, x)) =
           IF x.type # "COMMA" THEN Append(NoCommas(s), x) ELSE NoCommas(s)
<1> DEFINE n == Len(s)
           t == Append(s, x)
           A == {i \in DOMAIN s : s[i].type # "COMMA"}
           B == {i \in DOMAIN t : t[i].type # "COMMA"}
<1>1. /\ n \in Nat /\ DOMAIN s = 1 .. n /\ DOMAIN t = 1 .. n + 1 /\ t[n + 1] = x
      /\ \A i \in 1 .. n : t[i] = s[i]
  OBVIOUS
<1> HIDE DEF n, t
<1>2. \A i \in 1 .. n : i \in A <=> i \in B
  BY <1>1
<1>3. n + 1 \in B <=> x.type # "COMMA"
  BY <1>1
<1> HIDE DEF A, B
<1>4. Chosen(t, B) = IF n + 1 \in B THEN Append(Chosen(s, A), x) ELSE Chosen(s, A)
  BY <1>2, ChosenAppend DEF n, t
<1> QED
  BY <1>3, <1>4 DEF NoCommas, A, B, t

\* Of single tokens with commas between them the parser gets the tokens.
LEMMA NoCommasOfCommas ==
  ASSUME NEW items \in Seq(Seq(Tokens)),
         \A i \in 1 .. Len(items) : Len(items[i]) = 1 /\ items[i][1].type # "COMMA"
  PROVE  NoCommas(Commas(items)) = [i \in 1 .. Len(items) |-> items[i][1]]
<1> DEFINE n == Len(items)
           comma == Word("COMMA")
           g == [i \in DOMAIN items |-> IF i = 1 THEN items[i] ELSE <<comma>> \o items[i]]
           P(k) == FlattenSeq(SubSeq(g, 1, k))
           R(k) == [i \in 1 .. k |-> items[i][1]]
<1>1. /\ n \in Nat /\ DOMAIN items = 1 .. n
      /\ \A i \in 1 .. n : items[i] \in Seq(Tokens)
  OBVIOUS
<1>2. comma \in Tokens /\ comma.type = "COMMA"
  BY WordType DEF Words
<1> HIDE DEF n, comma
<1>3. ASSUME NEW i \in 1 .. n
      PROVE  /\ items[i][1] \in Tokens /\ items[i] = <<items[i][1]>>
             /\ g[i] = IF i = 1 THEN <<items[i][1]>> ELSE <<comma, items[i][1]>>
             /\ g[i] \in Seq(Tokens)
  <2> DEFINE it == items[i]
             y == it[1]
  <2>1. it \in Seq(Tokens) /\ Len(it) = 1
    BY <1>1 DEF n
  <2>2. g[i] = IF i = 1 THEN it ELSE <<comma>> \o it
    BY <1>1
  <2> HIDE DEF it, g
  <2>3. y \in Tokens /\ it = <<y>>
    <3>1. y \in Tokens
      BY <2>1
    <3>2. it = [k \in 1 .. 1 |-> it[k]]
      BY <2>1
    <3>3. <<y>> = [k \in 1 .. 1 |-> y]
      OBVIOUS
    <3>4. \A k \in 1 .. 1 : it[k] = y
      OBVIOUS
    <3> HIDE DEF y
    <3> QED
      BY <3>1, <3>2, <3>3, <3>4
  <2> HIDE DEF y
  <2>4. <<comma>> \o <<y>> = <<comma, y>>
    <3>1. <<comma>> \in Seq(Tokens) /\ <<y>> \in Seq(Tokens)
      BY <1>2, <2>3
    <3>2. Len(<<comma>>) = 1 /\ Len(<<y>>) = 1
      OBVIOUS
    <3> DEFINE p == <<comma>>
               q == <<y>>
    <3>3. /\ p \in Seq(Tokens) /\ q \in Seq(Tokens) /\ Len(p) = 1 /\ Len(q) = 1
          /\ p[1] = comma /\ q[1] = y
      BY <3>1, <3>2
    <3> HIDE DEF p, q
    <3>4. Len(p \o q) = 2 /\ p \o q = [m \in 1 .. 2 |-> (p \o q)[m]]
          /\ (p \o q)[1] = comma /\ (p \o q)[2] = y
      <4>1. Spliced(p \o q, p, q, Tokens)
        BY <3>3, Concatenated
      <4>2. (p \o q)[1] = comma
        BY <3>3, <4>1 DEF Spliced
      <4>3. (p \o q)[1 + 1] = y
        BY <3>3, <4>1 DEF Spliced
      <4>4. p \o q \in Seq(Tokens) /\ Len(p \o q) = 2
        BY <3>3, <4>1 DEF Spliced
      <4> DEFINE pq == p \o q
      <4>6. pq \in Seq(Tokens) /\ Len(pq) = 2
        BY <4>4
      <4> HIDE DEF pq
      <4>5. pq = [m \in 1 .. 2 |-> pq[m]]
        BY <4>6
      <4> QED
        BY <4>2, <4>3, <4>4, <4>5 DEF pq
    <3>5. <<comma, y>> = [m \in 1 .. 2 |-> IF m = 1 THEN comma ELSE y]
      OBVIOUS
    <3>6. \A m \in 1 .. 2 : (p \o q)[m] = IF m = 1 THEN comma ELSE y
      BY <3>4
    <3>7. p \o q = <<comma, y>>
      BY <3>4, <3>5, <3>6
    <3> QED
      BY <3>7 DEF p, q
  <2>5. <<y>> \in Seq(Tokens) /\ <<comma, y>> \in Seq(Tokens)
    BY <1>2, <2>3
  <2> QED
    BY <2>2, <2>3, <2>4, <2>5 DEF y, it
<1>4. g \in Seq(Seq(Tokens)) /\ Len(g) = n
  <2>1. g \in [1 .. n -> Seq(Tokens)]
    <3>1. DOMAIN g = 1 .. n /\ g = [i \in 1 .. n |-> g[i]]
      BY <1>1
    <3> HIDE DEF g
    <3> QED
      BY <1>3, <3>1
  <2> HIDE DEF g
  <2> QED
    BY <1>1, <2>1
<1> DEFINE H == {k \in 0 .. n : P(k) \in Seq(Tokens) /\ NoCommas(P(k)) = R(k)}
<1> HIDE DEF g
<1>5. 0 \in H
  <2>1. SubSeq(g, 1, 0) = << >>
    BY <1>4
  <2>2. P(0) = << >>
    BY <2>1, FlattenEmpty
  <2>3. << >> \in Seq(Tokens) /\ Len(<< >>) = 0
    OBVIOUS
  <2>4. NoCommas(<< >>) = << >>
    <3> DEFINE e == << >>
               A == {i \in DOMAIN e : e[i].type # "COMMA"}
    <3> HIDE DEF A, e
    <3>1. Chosen(e, A) = << >>
      BY ChosenNone DEF e
    <3> QED
      BY <3>1 DEF NoCommas, A, e
  <2>5. R(0) = << >>
    OBVIOUS
  <2>6. 0 \in 0 .. n
    BY <1>1
  <2> QED
    BY <2>2, <2>3, <2>4, <2>5, <2>6
<1>6. ASSUME NEW k \in 1 .. n, k - 1 \in H PROVE k \in H
  <2> DEFINE u == P(k - 1)
             y == items[k][1]
  <2> HIDE DEF P, R
  <2>1. k \in 0 .. n /\ k \in Nat /\ u \in Seq(Tokens) /\ NoCommas(u) = R(k - 1)
    BY <1>1, <1>6
  <2> USE DEF P, R
  <2>2. y \in Tokens /\ y.type # "COMMA"
    <3>1. y \in Tokens
      BY <1>3
    <3>2. items[k][1].type # "COMMA"
      BY DEF n
    <3> QED
      BY <3>1, <3>2
  <2>3. /\ SubSeq(g, 1, k) = Append(SubSeq(g, 1, k - 1), g[k])
        /\ SubSeq(g, 1, k - 1) \in Seq(Seq(Tokens)) /\ g[k] \in Seq(Tokens)
    <3>1. k \in 1 .. Len(g) /\ g[k] \in Seq(Tokens)
      BY <1>3, <1>4
    <3> DEFINE XX == Seq(Tokens)
    <3>2. g \in Seq(XX)
      BY <1>4
    <3> HIDE DEF XX, n
    <3>3. SubSeq(g, 1, k) = Append(SubSeq(g, 1, k - 1), g[k]) /\ SubSeq(g, 1, k - 1) \in Seq(XX)
      BY <3>1, <3>2
    <3> QED
      BY <3>1, <3>3 DEF XX
  <2>4. P(k) = u \o g[k]
    BY <2>3, FlattenAppend
  <2>5. R(k) = Append(R(k - 1), y)
    <3>1. (k - 1) + 1 = k /\ k - 1 \in Nat
      BY <1>1
    <3>2. R(k - 1) = [i \in 1 .. k - 1 |-> R(k - 1)[i]]
      OBVIOUS
    <3>3. Append(R(k - 1), y) = [i \in 1 .. (k - 1) + 1 |-> IF i = (k - 1) + 1 THEN y ELSE R(k - 1)[i]]
      <4> DEFINE s == R(k - 1)
      <4>1. s = [i \in 1 .. k - 1 |-> s[i]]
        OBVIOUS
      <4> HIDE DEF s, y
      <4>2. Append(s, y) = [i \in 1 .. (k - 1) + 1 |-> IF i = (k - 1) + 1 THEN y ELSE s[i]]
        BY <3>1, <4>1, AppendIs
      <4> QED
        BY <4>2 DEF s
    <3>4. \A i \in 1 .. k - 1 : R(k - 1)[i] = items[i][1]
      OBVIOUS
    <3>5. ASSUME NEW i \in 1 .. k PROVE (IF i = k THEN y ELSE R(k - 1)[i]) = items[i][1]
      <4>1. i # k => i \in 1 .. k - 1
        BY <3>1
      <4> HIDE DEF R
      <4> QED
        BY <3>4, <4>1
    <3> DEFINE Q(j) == IF j = k THEN y ELSE R(k - 1)[j]
    <3>6. [j \in 1 .. k |-> Q(j)] = [j \in 1 .. k |-> items[j][1]]
      BY <3>5
    <3> QED
      BY <3>1, <3>3, <3>6
  <2> HIDE DEF P, R, u
  <2>6. CASE k = 1
    <3>1. g[k] = <<y>>
      BY <1>3, <2>6
    <3> HIDE DEF y
    <3>2. P(k) = Append(u, y) /\ P(k) \in Seq(Tokens)
      BY <2>1, <2>2, <2>4, <3>1
    <3>3. NoCommas(P(k)) = Append(NoCommas(u), y)
      BY <2>1, <2>2, <3>2, NoCommasAppend
    <3> QED
      BY <2>1, <2>5, <3>2, <3>3
  <2>7. CASE k # 1
    <3>1. g[k] = <<comma, y>>
      BY <1>3, <2>7
    <3> HIDE DEF y
    <3> DEFINE v == Append(u, comma)
    <3>2. v \in Seq(Tokens) /\ P(k) = Append(v, y) /\ P(k) \in Seq(Tokens)
      BY <1>2, <2>1, <2>2, <2>4, <3>1
    <3>3. NoCommas(v) = NoCommas(u)
      BY <1>2, <2>1, NoCommasAppend
    <3> HIDE DEF v
    <3>4. NoCommas(P(k)) = Append(NoCommas(v), y)
      BY <2>2, <3>2, NoCommasAppend
    <3> QED
      BY <2>1, <2>5, <3>2, <3>3, <3>4
  <2> QED
    BY <2>6, <2>7
<1> HIDE DEF H
<1>7. 0 .. n \subseteq H
  BY <1>1, <1>5, <1>6, UptoInduction
<1>8. NoCommas(P(n)) = R(n)
  <2>1. n \in 0 .. n
    BY <1>1
  <2> HIDE DEF P, R
  <2> QED
    BY <1>7, <2>1 DEF H
<1>9. SubSeq(g, 1, n) = g
  BY <1>4
<1> HIDE DEF R
<1> QED
  BY <1>8, <1>9 DEF Commas, g, R, n, comma

\* Items with commas between them consist of their tokens and of commas.
LEMMA CommasTokens ==
  ASSUME NEW items \in Seq(Seq(Tokens)), NEW T,
         \A i \in 1 .. Len(items) : \A j \in 1 .. Len(items[i]) : items[i][j].type \in T
  PROVE  /\ Commas(items) \in Seq(Tokens)
         /\ \A k \in 1 .. Len(Commas(items)) : Commas(items)[k].type \in T \union {"COMMA"}
<1> DEFINE n == Len(items)
           comma == Word("COMMA")
           g == [i \in DOMAIN items |-> IF i = 1 THEN items[i] ELSE <<comma>> \o items[i]]
           c == Commas(items)
           U == T \union {"COMMA"}
<1>1. /\ n \in Nat /\ DOMAIN items = 1 .. n
      /\ \A i \in 1 .. n : items[i] \in Seq(Tokens)
  OBVIOUS
<1>2. comma \in Tokens /\ comma.type = "COMMA"
  BY WordType DEF Words
<1>3. c = FlattenSeq(g)
  BY DEF Commas
<1> HIDE DEF comma
<1>4. ASSUME NEW i \in 1 .. n
      PROVE  g[i] \in Seq(Tokens) /\ \A x \in Range(g[i]) : x.type \in U
  <2> DEFINE it == items[i]
             p == <<comma>>
             gi == g[i]
  <2>1. it \in Seq(Tokens) /\ \A j \in 1 .. Len(it) : it[j].type \in T
    BY <1>1
  <2>2. p \in Seq(Tokens) /\ Len(p) = 1 /\ p[1] = comma
    BY <1>2
  <2>3. gi = IF i = 1 THEN it ELSE p \o it
    BY <1>1
  <2> HIDE DEF p, it, g
  <2>4. Range(it) = {it[j] : j \in 1 .. Len(it)}
    BY <2>1 DEF Range
  <2>5. Range(p) = {comma}
    <3>1. DOMAIN p = {1}
      BY <2>2
    <3> QED
      BY <2>2, <3>1 DEF Range
  <2>6. p \o it \in Seq(Tokens) /\ Range(p \o it) = Range(p) \union Range(it)
    BY <2>1, <2>2, RangeConcat
  <2> HIDE DEF gi
  <2>7. \A x \in Range(gi) : x = comma \/ x \in Range(it)
    BY <2>3, <2>5, <2>6
  <2>8. gi \in Seq(Tokens)
    BY <2>1, <2>3, <2>6
  <2>9. \A x \in Range(it) : x.type \in T
    BY <2>1, <2>4
  <2> QED
    BY <1>2, <2>7, <2>8, <2>9 DEF gi
<1>5. g \in Seq(Seq(Tokens)) /\ Len(g) = n
  <2>1. DOMAIN g = 1 .. n /\ g = [i \in 1 .. n |-> g[i]]
    BY <1>1
  <2> HIDE DEF g
  <2>2. g \in [1 .. n -> Seq(Tokens)]
    BY <1>4, <2>1
  <2> HIDE DEF n
  <2> QED
    BY <1>1, <2>2
<1> HIDE DEF g, n, U
<1>6. c \in Seq(Tokens) /\ Range(c) = UNION {Range(g[i]) : i \in 1 .. n}
  BY <1>3, <1>5, FlattenType, FlattenRange
<1> HIDE DEF c
<1>7. ASSUME NEW k \in 1 .. Len(c) PROVE c[k].type \in U
  <2>1. c[k] \in Range(c)
    <3>1. DOMAIN c = 1 .. Len(c)
      BY <1>6
    <3> QED
      BY <3>1 DEF Range
  <2>2. PICK i \in 1 .. n : c[k] \in Range(g[i])
    BY <1>6, <2>1
  <2> QED
    BY <1>4, <2>2
<1> QED
  BY <1>6, <1>7 DEF c, U

\* A text with two lists in parentheses, and what the parser finds where.
Places(sql, a, A, m, B) ==
  /\ sql \in Seq(Tokens)
  /\ \A k \in 1 .. 4 : k \in DOMAIN sql /\ sql[k] = a[k]
  /\ Until(sql, 5, {"RPAREN"}) = Len(A) + 5
  /\ Len(A) + 6 \in DOMAIN sql /\ sql[Len(A) + 6] = m[2]
  /\ Len(A) + 7 \in DOMAIN sql /\ sql[Len(A) + 7] = m[3]
  /\ Until(sql, Len(A) + 8, {"RPAREN"}) = Len(A) + Len(B) + 8
  /\ SubSeq(sql, Len(A) + 8, Len(A) + Len(B) + 7) = B

\* They are there for any two lists without a closing parenthesis.
LEMMA InsertPlaces ==
  ASSUME NEW a \in Seq(Tokens), Len(a) = 4, NEW A \in Seq(Tokens),
         NEW m \in Seq(Tokens), Len(m) = 3, NEW B \in Seq(Tokens),
         NEW e \in Seq(Tokens), Len(e) = 1,
         \A k \in 1 .. Len(A) : A[k].type # "RPAREN",
         \A k \in 1 .. Len(B) : B[k].type # "RPAREN",
         m[1].type = "RPAREN", e[1].type = "RPAREN"
  PROVE  Places(a \o A \o m \o B \o e, a, A, m, B)
<1> DEFINE x == Len(A)
           y == Len(B)
           s1 == a \o A
           s2 == s1 \o m
           s3 == s2 \o B
           sql == s3 \o e
           types == {"RPAREN"}
<1>0. x \in Nat /\ y \in Nat
  OBVIOUS
<1>1. Spliced(s1, a, A, Tokens)
  BY Concatenated
<1>2. Spliced(s2, s1, m, Tokens)
  <2>1. s1 \in Seq(Tokens)
    BY <1>1 DEF Spliced
  <2> HIDE DEF s1
  <2> QED
    BY <2>1, Concatenated
<1>3. Spliced(s3, s2, B, Tokens)
  <2>1. s2 \in Seq(Tokens)
    BY <1>2 DEF Spliced
  <2> HIDE DEF s2
  <2> QED
    BY <2>1, Concatenated
<1>4. Spliced(sql, s3, e, Tokens)
  <2>1. s3 \in Seq(Tokens)
    BY <1>3 DEF Spliced
  <2> HIDE DEF s3
  <2> QED
    BY <2>1, Concatenated
<1>5. SubSeq(sql, Len(s2) + 1, Len(s2) + Len(B)) = B
  <2>1. s2 \in Seq(Tokens)
    BY <1>2 DEF Spliced
  <2> HIDE DEF s2
  <2> QED
    BY <2>1, MiddlePart
<1> HIDE DEF sql, s3, s2, s1
<1>7. /\ s1 \in Seq(Tokens) /\ Len(s1) = x + 4
      /\ \A k \in 1 .. 4 : s1[k] = a[k]
      /\ \A k \in 1 .. x : s1[4 + k] = A[k]
  BY <1>1 DEF Spliced
<1>8. /\ s2 \in Seq(Tokens) /\ Len(s2) = x + 7
      /\ \A k \in 1 .. x + 4 : s2[k] = s1[k]
      /\ \A k \in 1 .. 3 : s2[(x + 4) + k] = m[k]
  BY <1>0, <1>2, <1>7 DEF Spliced
<1>9. /\ s3 \in Seq(Tokens) /\ Len(s3) = x + y + 7
      /\ \A k \in 1 .. x + 7 : s3[k] = s2[k]
      /\ \A k \in 1 .. y : s3[(x + 7) + k] = B[k]
  BY <1>0, <1>3, <1>8 DEF Spliced
<1>10. /\ sql \in Seq(Tokens) /\ Len(sql) = x + y + 8
       /\ \A k \in 1 .. x + y + 7 : sql[k] = s3[k]
       /\ sql[(x + y + 7) + 1] = e[1]
  BY <1>0, <1>4, <1>9 DEF Spliced
<1>11. DOMAIN sql = 1 .. x + y + 8
  BY <1>10
<1> HIDE DEF x, y
<1>12. \A k \in 1 .. 4 : sql[k] = a[k]
  BY <1>0, <1>7, <1>8, <1>9, <1>10
<1>13. ASSUME NEW k \in 5 .. x + 4 PROVE sql[k].type # "RPAREN"
  <2>1. k - 4 \in 1 .. x /\ k = 4 + (k - 4)
    BY <1>0
  <2>2. k \in 1 .. x + 4 /\ k \in 1 .. x + 7 /\ k \in 1 .. x + y + 7
    BY <1>0
  <2>3. sql[k] = A[k - 4]
    <3>1. sql[k] = s1[k]
      BY <1>8, <1>9, <1>10, <2>2
    <3>2. s1[4 + (k - 4)] = A[k - 4]
      BY <1>7, <2>1
    <3> QED
      BY <2>1, <3>1, <3>2
  <2> QED
    BY <2>1, <2>3 DEF x
<1>14. ASSUME NEW k \in 1 .. 3 PROVE sql[x + 4 + k] = m[k]
  <2>1. x + 4 + k \in 1 .. x + 7 /\ x + 4 + k \in 1 .. x + y + 7 /\ x + 4 + k = (x + 4) + k
    BY <1>0
  <2> QED
    BY <1>8, <1>9, <1>10, <2>1
<1>15. ASSUME NEW k \in x + 8 .. x + y + 7 PROVE sql[k].type # "RPAREN"
  <2>1. k - (x + 7) \in 1 .. y /\ k = (x + 7) + (k - (x + 7)) /\ k \in 1 .. x + y + 7
    BY <1>0
  <2>2. sql[k] = B[k - (x + 7)]
    BY <1>9, <1>10, <2>1
  <2> QED
    BY <2>1, <2>2 DEF y
<1>16. sql[x + 5] = m[1] /\ sql[x + 6] = m[2] /\ sql[x + 7] = m[3]
  <2>1. x + 4 + 1 = x + 5 /\ x + 4 + 2 = x + 6 /\ x + 4 + 3 = x + 7
    BY <1>0
  <2> QED
    BY <1>14, <2>1
<1>17. sql[x + y + 8] = e[1]
  <2>1. (x + y + 7) + 1 = x + y + 8
    BY <1>0
  <2> QED
    BY <1>10, <2>1
<1>18. Until(sql, 5, types) = x + 5
  <2>1. 5 \in 1 .. Len(sql) + 1 /\ x + 5 \in 5 .. Len(sql) + 1 /\ (x + 5) - 1 = x + 4
    BY <1>0, <1>10
  <2>2. \A j \in 5 .. (x + 5) - 1 : sql[j].type \notin types
    BY <1>13, <2>1
  <2>3. sql[x + 5].type \in types
    BY <1>16
  <2> HIDE DEF types
  <2> QED
    BY <1>10, <2>1, <2>2, <2>3, UntilIs
<1>19. Until(sql, x + 8, types) = x + y + 8
  <2>1. x + 8 \in 1 .. Len(sql) + 1 /\ x + y + 8 \in x + 8 .. Len(sql) + 1
        /\ (x + y + 8) - 1 = x + y + 7
    BY <1>0, <1>10
  <2>2. \A j \in x + 8 .. (x + y + 8) - 1 : sql[j].type \notin types
    BY <1>15, <2>1
  <2>3. sql[x + y + 8].type \in types
    BY <1>17
  <2> HIDE DEF types
  <2> QED
    BY <1>10, <2>1, <2>2, <2>3, UntilIs
<1>20. SubSeq(sql, x + 8, x + y + 7) = B
  <2>1. Len(s2) + 1 = x + 8 /\ Len(s2) + y = x + y + 7
    BY <1>0, <1>8
  <2> QED
    BY <1>5, <2>1 DEF y
<1>21. /\ \A k \in 1 .. 4 : k \in DOMAIN sql
       /\ x + 6 \in DOMAIN sql /\ x + 7 \in DOMAIN sql
  BY <1>0, <1>11
<1> HIDE DEF types
<1> QED
  <2>1. /\ sql \in Seq(Tokens)
        /\ \A k \in 1 .. 4 : k \in DOMAIN sql /\ sql[k] = a[k]
        /\ Until(sql, 5, types) = x + 5
        /\ x + 6 \in DOMAIN sql /\ sql[x + 6] = m[2]
        /\ x + 7 \in DOMAIN sql /\ sql[x + 7] = m[3]
        /\ Until(sql, x + 8, types) = x + y + 8
        /\ SubSeq(sql, x + 8, x + y + 7) = B
    BY <1>10, <1>12, <1>16, <1>18, <1>19, <1>20, <1>21
  <2>2. Places(sql, a, A, m, B)
    BY <2>1 DEF Places, x, y, types
  <2> QED
    BY <2>2 DEF sql, s3, s2, s1

\* The literals of a statement, if none of its values has a sign.
Literals(r) == [i \in 1 .. Len(r.vals) |-> Literal(r.vals[i])[1]]

\* The list of values holds no parenthesis; without its commas, and if no value has a
\* sign, it is the literals.
LEMMA LiteralList ==
  ASSUME NEW r \in Requests
  PROVE  LET lits == Commas([i \in DOMAIN r.vals |-> Literal(r.vals[i])])
         IN  /\ lits \in Seq(Tokens)
             /\ \A k \in 1 .. Len(lits) : lits[k].type # "RPAREN"
             /\ (\A i \in DOMAIN r.vals : Positive(r.vals[i])) => NoCommas(lits) = Literals(r)
<1> DEFINE g == [i \in DOMAIN r.vals |-> Literal(r.vals[i])]
           n == Len(r.vals)
           T == {"STRING_LIT", "INTEGER", "MINUS"}
<1>1. n \in Nat /\ DOMAIN r.vals = 1 .. n /\ \A i \in 1 .. n : r.vals[i] \in Values
  <2>1. r.vals \in Seq(Values)
    BY RequestsAssumption
  <2> QED
    BY <2>1
<1> HIDE DEF n
<1>2. ASSUME NEW i \in 1 .. n
      PROVE  /\ g[i] = Literal(r.vals[i]) /\ g[i] \in Seq(Tokens)
             /\ \A j \in 1 .. Len(g[i]) : g[i][j].type \in T
             /\ Positive(r.vals[i]) => Len(g[i]) = 1
  <2> DEFINE l == Literal(r.vals[i])
  <2>1. g[i] = l
    BY <1>1
  <2>2. r.vals[i] \in Values
    BY <1>1
  <2>3. l \in Seq(Tokens) /\ (\A j \in DOMAIN l : l[j].type \in T)
        /\ (Positive(r.vals[i]) => Len(l) = 1)
    BY <2>2, LiteralIs
  <2> HIDE DEF l, g, T
  <2>4. DOMAIN l = 1 .. Len(l)
    BY <2>3
  <2> QED
    BY <2>1, <2>3, <2>4 DEF l
<1>3. g \in Seq(Seq(Tokens)) /\ Len(g) = n
  <2>1. DOMAIN g = 1 .. n /\ g = [i \in 1 .. n |-> g[i]]
    BY <1>1
  <2> HIDE DEF g
  <2>2. g \in [1 .. n -> Seq(Tokens)]
    BY <1>2, <2>1
  <2> QED
    BY <1>1, <2>2
<1> DEFINE lits == Commas(g)
<1> HIDE DEF g, T
<1>4. lits \in Seq(Tokens) /\ \A k \in 1 .. Len(lits) : lits[k].type \in T \union {"COMMA"}
  BY <1>2, <1>3, CommasTokens
<1>5. \A k \in 1 .. Len(lits) : lits[k].type # "RPAREN"
  <2> HIDE DEF lits
  <2> QED
    BY <1>4 DEF T
<1>6. ASSUME \A i \in DOMAIN r.vals : Positive(r.vals[i])
      PROVE  NoCommas(lits) = Literals(r)
  <2>1. ASSUME NEW i \in 1 .. Len(g) PROVE Len(g[i]) = 1 /\ g[i][1].type # "COMMA"
    <3>1. i \in 1 .. n /\ Positive(r.vals[i])
      BY <1>1, <1>3, <1>6
    <3>2. Len(g[i]) = 1 /\ g[i][1].type \in T
      BY <1>2, <3>1
    <3> QED
      BY <3>2 DEF T
  <2>2. NoCommas(lits) = [i \in 1 .. Len(g) |-> g[i][1]]
    BY <1>3, <2>1, NoCommasOfCommas
  <2> HIDE DEF lits
  <2>3. \A i \in 1 .. n : g[i][1] = Literal(r.vals[i])[1]
    BY <1>2
  <2>4. [i \in 1 .. n |-> g[i][1]] = [i \in 1 .. n |-> Literal(r.vals[i])[1]]
    BY <2>3
  <2> QED
    BY <1>3, <2>2, <2>4 DEF Literals, n
<1> QED
  BY <1>4, <1>5, <1>6 DEF lits, g

\* The list of columns holds no parenthesis.
LEMMA NameList ==
  ASSUME NEW r \in Requests
  PROVE  LET names == Commas([i \in DOMAIN r.cols |-> <<Name(r.cols[i])>>])
         IN  names \in Seq(Tokens) /\ \A k \in 1 .. Len(names) : names[k].type # "RPAREN"
<1> DEFINE g == [i \in DOMAIN r.cols |-> <<Name(r.cols[i])>>]
           n == Len(r.cols)
           T == {"IDENTIFIER"}
<1>1. n \in Nat /\ DOMAIN r.cols = 1 .. n /\ \A i \in 1 .. n : r.cols[i] \in STRING
  <2>1. r.cols \in Seq(STRING)
    BY RequestsAssumption
  <2> QED
    BY <2>1
<1> HIDE DEF n
<1>2. ASSUME NEW i \in 1 .. n
      PROVE  g[i] \in Seq(Tokens) /\ \A j \in 1 .. Len(g[i]) : g[i][j].type \in T
  <2> DEFINE x == Name(r.cols[i])
             gi == g[i]
  <2>1. gi = <<x>>
    BY <1>1
  <2>2. x \in Tokens /\ x.type = "IDENTIFIER"
    BY <1>1, WordType
  <2> HIDE DEF x, gi
  <2>3. gi \in Seq(Tokens) /\ Len(gi) = 1 /\ gi[1] = x
    BY <2>1, <2>2
  <2>4. \A j \in 1 .. Len(gi) : gi[j].type \in T
    BY <2>2, <2>3
  <2> QED
    BY <2>3, <2>4 DEF gi
<1>3. g \in Seq(Seq(Tokens)) /\ Len(g) = n
  <2>1. DOMAIN g = 1 .. n /\ g = [i \in 1 .. n |-> g[i]]
    BY <1>1
  <2> HIDE DEF g
  <2>2. g \in [1 .. n -> Seq(Tokens)]
    BY <1>2, <2>1
  <2> QED
    BY <1>1, <2>2
<1> DEFINE names == Commas(g)
<1> HIDE DEF g, T
<1>4. names \in Seq(Tokens) /\ \A k \in 1 .. Len(names) : names[k].type \in T \union {"COMMA"}
  BY <1>2, <1>3, CommasTokens
<1>5. \A k \in 1 .. Len(names) : names[k].type # "RPAREN"
  <2> HIDE DEF names
  <2> QED
    BY <1>4 DEF T
<1> QED
  BY <1>4, <1>5 DEF names, g

\* The values of an INSERT without a sign are its literals, in order.
LEMMA InsertParsed ==
  ASSUME NEW r \in Requests, r.kind = "INSERT", \A i \in DOMAIN r.vals : Positive(r.vals[i]),
         Len(r.vals) <= MAX_COLUMNS
  PROVE  /\ parse(TextOf(r)).ok /\ parse(TextOf(r)).type = "INSERT"
         /\ parse(TextOf(r)).tableName = TableNames[r.table]
         /\ parse(TextOf(r)).insertVals = Literals(r)
<1> DEFINE x1 == Word("INSERT")
           x2 == Word("INTO")
           x3 == Name(TableNames[r.table])
           x4 == Word("LPAREN")
           x5 == Word("RPAREN")
           x6 == Word("VALUES")
           a == <<x1, x2, x3, x4>>
           m == <<x5, x6, x4>>
           e == <<x5>>
           A == Commas([i \in DOMAIN r.cols |-> <<Name(r.cols[i])>>])
           B == Commas([i \in DOMAIN r.vals |-> Literal(r.vals[i])])
           sql == a \o A \o m \o B \o e
           p == parse(sql)
           q == [EmptyQuery EXCEPT !.type = "INSERT"]
           x == Len(A)
           y == Len(B)
<1>1. TextOf(r) = sql
  BY DEF TextOf
<1>2. /\ x1 \in Tokens /\ x1.type = "INSERT" /\ x2 \in Tokens /\ x2.type = "INTO"
      /\ x4 \in Tokens /\ x4.type = "LPAREN" /\ x5 \in Tokens /\ x5.type = "RPAREN"
      /\ x6 \in Tokens /\ x6.type = "VALUES"
      /\ x3 \in Tokens /\ x3.type = "IDENTIFIER" /\ x3.name = TableNames[r.table]
  <2>1. TableNames[r.table] \in STRING
    BY RequestsAssumption
  <2> QED
    BY <2>1, WordType DEF Words
<1>3. A \in Seq(Tokens) /\ \A k \in 1 .. Len(A) : A[k].type # "RPAREN"
  BY NameList
<1>4. /\ B \in Seq(Tokens) /\ \A k \in 1 .. Len(B) : B[k].type # "RPAREN"
      /\ NoCommas(B) = Literals(r)
  BY LiteralList
<1> HIDE DEF x1, x2, x3, x4, x5, x6, A, B
<1>5. /\ a \in Seq(Tokens) /\ Len(a) = 4 /\ a[1] = x1 /\ a[2] = x2 /\ a[3] = x3 /\ a[4] = x4
  <2>1. a \in Seq(Tokens)
    BY <1>2
  <2> QED
    BY <2>1
<1>6. m \in Seq(Tokens) /\ Len(m) = 3 /\ m[1] = x5 /\ m[2] = x6 /\ m[3] = x4
  <2>1. m \in Seq(Tokens)
    BY <1>2
  <2> QED
    BY <2>1
<1>7. e \in Seq(Tokens) /\ Len(e) = 1 /\ e[1] = x5
  BY <1>2
<1> HIDE DEF a, m, e
<1>8. Places(sql, a, A, m, B)
  <2>1. m[1].type = "RPAREN" /\ e[1].type = "RPAREN"
    BY <1>2, <1>6, <1>7
  <2> QED
    BY <1>3, <1>4, <1>5, <1>6, <1>7, <2>1, InsertPlaces
<1>9. x \in Nat /\ y \in Nat
  BY <1>3, <1>4
<1> HIDE DEF sql, x, y
<1>10. /\ TypeAt(sql, 1) = "INSERT" /\ TypeAt(sql, 2) = "INTO"
       /\ TypeAt(sql, 3) = "IDENTIFIER" /\ NameAt(sql, 3) = x3.name
       /\ TypeAt(sql, 4) = "LPAREN"
  BY <1>2, <1>5, <1>8 DEF TypeAt, NameAt, Places
<1>11. TypeAt(sql, x + 6) = "VALUES" /\ TypeAt(sql, x + 7) = "LPAREN"
  BY <1>2, <1>6, <1>8 DEF TypeAt, Places, x
<1>12. p = parseInsert(q, sql)
  BY <1>10 DEF parse, EmptyQuery
<1> DEFINE values == IF TypeAt(sql, 4) = "LPAREN" THEN Until(sql, 5, {"RPAREN"}) + 1 ELSE 4
           open == IF TypeAt(sql, values) = "VALUES" THEN values + 1 ELSE values
           inside == SubSeq(sql, open + 1, Until(sql, open + 1, {"RPAREN"}) - 1)
           vals == Chosen(inside, {i \in DOMAIN inside : inside[i].type # "COMMA"})
<1>13. values = x + 6
  <2>1. (x + 5) + 1 = x + 6
    BY <1>9
  <2> QED
    BY <1>8, <1>10, <2>1 DEF Places, x
<1> HIDE DEF values
<1>14. open = x + 7
  <2>1. (x + 6) + 1 = x + 7
    BY <1>9
  <2> QED
    BY <1>11, <1>13, <2>1
<1> HIDE DEF open
<1>15. inside = B
  <2>1. (x + 7) + 1 = x + 8 /\ (x + y + 8) - 1 = x + y + 7
    BY <1>9
  <2>2. Until(sql, x + 8, {"RPAREN"}) = x + y + 8 /\ SubSeq(sql, x + 8, x + y + 7) = B
    BY <1>8 DEF Places, x, y
  <2> QED
    BY <1>14, <2>1, <2>2
<1> HIDE DEF inside
<1>16. vals = Literals(r)
  BY <1>4, <1>15 DEF NoCommas
<1>17. parseInsert(q, sql) =
         [q EXCEPT !.ok = TRUE, !.tableName = NameAt(sql, 3),
                   !.insertVals = SubSeq(vals, 1, IF Len(vals) < MAX_COLUMNS
                                                  THEN Len(vals) ELSE MAX_COLUMNS)]
  <2>1. TypeAt(sql, open) = "LPAREN"
    BY <1>11, <1>14
  <2> HIDE DEF q
  <2> QED
    BY <1>10, <2>1 DEF parseInsert, vals, inside, open, values
<1> HIDE DEF vals
<1>18. SubSeq(vals, 1, IF Len(vals) < MAX_COLUMNS THEN Len(vals) ELSE MAX_COLUMNS) = Literals(r)
  <2> DEFINE n == Len(r.vals)
             s == Literals(r)
  <2>0. MAX_COLUMNS \in Nat
    BY RequestsAssumption
  <2>1. n \in Nat /\ n <= MAX_COLUMNS
    <3>1. r.vals \in Seq(Values)
      BY RequestsAssumption
    <3> QED
      BY <3>1
  <2>2. s \in Seq({s[i] : i \in 1 .. n}) /\ Len(s) = n
    <3>1. s = [i \in 1 .. n |-> s[i]]
      BY DEF Literals
    <3> HIDE DEF n, s
    <3> QED
      BY <2>1, <3>1
  <2> HIDE DEF n, s
  <2>3. (IF Len(s) < MAX_COLUMNS THEN Len(s) ELSE MAX_COLUMNS) = n
    BY <2>0, <2>1, <2>2
  <2>4. SubSeq(s, 1, n) = s
    BY <2>1, <2>2
  <2> QED
    BY <1>16, <2>3, <2>4 DEF s
<1>19. p = [q EXCEPT !.ok = TRUE, !.tableName = x3.name, !.insertVals = Literals(r)]
  <2> HIDE DEF q, p
  <2> QED
    BY <1>10, <1>12, <1>17, <1>18
<1> HIDE DEF p
<1>20. p.ok /\ p.type = "INSERT" /\ p.tableName = x3.name /\ p.insertVals = Literals(r)
  BY <1>19 DEF EmptyQuery
<1> QED
  BY <1>1, <1>2, <1>20 DEF p

-----------------------------------------------------------------------------
(* What a parsed statement does with rows *)

\* A column is found under its name.
LEMMA ColumnFound ==
  ASSUME NEW t \in Tables, NEW c \in DOMAIN Schemas[t]
  PROVE  columnIndex(Schemas[t], Schemas[t][c].name) = c
<1> DEFINE cols == Schemas[t]
           n == Len(cols)
           name == cols[c].name
           I == {i \in 1 .. n : cols[i].name = name}
<1>1. n \in Nat \ {0} /\ DOMAIN cols = 1 .. n
  BY RowsAssumption, SchemaType
<1>2. \A i \in DOMAIN cols : cols[i].name = name => i = c
  BY RequestsAssumption
<1>3. I = {c}
  BY <1>1, <1>2
<1>4. columnIndex(cols, name) = IF I # {} THEN Min(I) ELSE 0
  BY DEF columnIndex, SelectInSeq
<1>5. c \in Nat
  BY <1>1
<1> HIDE DEF I
<1>6. Min(I) = c
  BY <1>3, <1>5 DEF Min
<1> QED
  BY <1>3, <1>4, <1>6

\* So is the column that a value of a request fits, and it has the value's type.
LEMMA FittingColumn ==
  ASSUME NEW t \in Tables, NEW name, NEW v, Fits(t, name, v)
  PROVE  /\ columnIndex(Schemas[t], name) \in DOMAIN Schemas[t]
         /\ columnIndex(Schemas[t], name) # 0
         /\ Schemas[t][columnIndex(Schemas[t], name)].type = v.type
<1>1. PICK c \in DOMAIN Schemas[t] : Schemas[t][c].name = name /\ Schemas[t][c].type = v.type
  BY DEF Fits
<1>2. columnIndex(Schemas[t], name) = c
  BY <1>1, ColumnFound
<1>3. c # 0
  <2>1. Len(Schemas[t]) \in Nat /\ DOMAIN Schemas[t] = 1 .. Len(Schemas[t])
    BY RowsAssumption, SchemaType
  <2> QED
    BY <2>1
<1> QED
  BY <1>1, <1>2, <1>3

\* A literal without a sign converts to what its value means.
LEMMA MeantField ==
  ASSUME NEW v \in Values, Positive(v), NEW col, col.type = v.type
  PROVE  Field(col, Literal(v)[1]) = Meant(v)
<1>1. v.type \in {"INT", "STRING"}
  BY DEF Values
<1>2. /\ v.type = "INT" => Literal(v)[1].n = v.n
      /\ v.type = "STRING" => Literal(v)[1].s = v.s
  BY LiteralIs
<1> QED
  BY <1>1, <1>2 DEF Field, Meant

\* The clause of a request accepts the rows that the request selects.
LEMMA ClauseSelects ==
  ASSUME NEW r \in Requests, NEW row
  PROVE  r.wcol # "" => (evalWhere(Schemas[r.table], Clause(r), row) <=> Selected(r, row))
<1> DEFINE cols == Schemas[r.table]
           k == columnIndex(cols, r.wcol)
           l == Literal(r.wval)
           x == Name(r.wcol)
           e == Word("EQ")
           c == Clause(r)
<1>0. HAVE r.wcol # ""
<1>1. r.table \in Tables /\ r.wcol \in STRING /\ r.wval \in Values /\ Fits(r.table, r.wcol, r.wval)
  BY <1>0, RequestsAssumption
<1>2. k # 0 /\ cols[k].type = r.wval.type
  BY <1>1, FittingColumn
<1>3. l \in Seq(Tokens) /\ Len(l) = IF Positive(r.wval) THEN 1 ELSE 2
  BY <1>1, LiteralIs
<1>4. Positive(r.wval) => Field(cols[k], l[1]) = Meant(r.wval)
  BY <1>1, <1>2, MeantField
<1>5. x \in Tokens /\ x.name = r.wcol /\ e \in Tokens /\ e.type = "EQ"
  BY <1>1, WordType DEF Words
<1>6. c = <<x, e>> \o l
  BY DEF Clause
<1>7. Selected(r, row) <=> Positive(r.wval) /\ row[k] = Meant(r.wval)
  BY <1>0 DEF Selected
<1>8. evalWhere(cols, c, row) <=>
        /\ Len(c) = 3 /\ c[2].type = "EQ"
        /\ columnIndex(cols, c[1].name) # 0
        /\ row[columnIndex(cols, c[1].name)] =
             Field(cols[columnIndex(cols, c[1].name)], c[3])
  BY DEF evalWhere
<1> HIDE DEF cols, l, x, e, c, k
<1> DEFINE a == <<x, e>>
<1>51. x \in Tokens /\ e \in Tokens
  BY <1>5
<1>52. Len(l) = IF Positive(r.wval) THEN 1 ELSE 2
  BY <1>3
<1>9. a \in Seq(Tokens) /\ Len(a) = 2 /\ a[1] = x /\ a[2] = e
  <2>1. a \in Seq(Tokens)
    BY <1>51
  <2> QED
    BY <2>1
<1>10. c = a \o l
  BY <1>6
<1> HIDE DEF a
<1>11. Spliced(c, a, l, Tokens)
  BY <1>3, <1>9, <1>10, Concatenated
<1>12. /\ Len(c) = 2 + Len(l) /\ c[1] = x /\ c[2] = e
       /\ Len(l) = 1 => c[3] = l[1]
  <2>1. Len(c) = Len(a) + Len(l) /\ (\A i \in 1 .. Len(a) : c[i] = a[i])
    BY <1>11 DEF Spliced
  <2>2. \A i \in 1 .. Len(l) : c[Len(a) + i] = l[i]
    BY <1>11 DEF Spliced
  <2>3. Len(c) = 2 + Len(l)
    BY <1>9, <2>1
  <2>4. c[1] = x /\ c[2] = e
    <3>1. 1 \in 1 .. Len(a) /\ 2 \in 1 .. Len(a)
      BY <1>9
    <3> QED
      BY <1>9, <2>1, <3>1
  <2>5. ASSUME Len(l) = 1 PROVE c[3] = l[1]
    <3>1. 1 \in 1 .. Len(l) /\ Len(a) + 1 = 3
      BY <1>9, <2>5
    <3>2. c[Len(a) + 1] = l[1]
      BY <2>2, <3>1
    <3> QED
      BY <3>1, <3>2
  <2> QED
    BY <2>3, <2>4, <2>5
<1>13. columnIndex(cols, c[1].name) = k
  <2>1. c[1].name = r.wcol
    <3>1. c[1] = x /\ x.name = r.wcol
      BY <1>5, <1>12
    <3> QED
      BY <3>1
  <2> QED
    BY <2>1 DEF k
<1>14. CASE Positive(r.wval)
  <2>0. Len(l) = 1
    BY <1>52, <1>14
  <2>1. Len(c) = 3 /\ c[3] = l[1]
    BY <1>12, <2>0
  <2> QED
    BY <1>2, <1>4, <1>5, <1>7, <1>8, <1>12, <1>13, <1>14, <2>1 DEF c, cols
<1>15. CASE ~Positive(r.wval)
  <2>0. Len(l) = 2
    BY <1>52, <1>15
  <2>1. Len(c) # 3
    BY <1>12, <2>0
  <2> QED
    BY <1>7, <1>8, <1>15, <2>1 DEF c, cols
<1> QED
  BY <1>14, <1>15

\* Values and uninitialised memory make rows.
LEMMA InsertedType ==
  ASSUME NEW t \in Tables, NEW vals \in Seq(Tokens), NEW rest \in Garbage
  PROVE  IsRow(Schemas[t], InsertedRow(Schemas[t], vals, rest))
<1>1. rest.n \in Int32 /\ rest.s \in Texts
  BY RequestsAssumption
<1>2. \A i \in DOMAIN vals : vals[i].n \in Int32 /\ vals[i].s \in Texts
  <2>1. \A tok \in Tokens : tok.n \in Int32 /\ tok.s \in Texts
    BY DEF Tokens
  <2>2. \A i \in DOMAIN vals : vals[i] \in Tokens
    OBVIOUS
  <2> QED
    BY <2>1, <2>2
<1> QED
  BY <1>1, <1>2 DEF IsRow, InsertedRow, Field

-----------------------------------------------------------------------------
(* The pages of all tables *)

FilesOK(fs) == DOMAIN fs = Tables /\ \A t \in Tables : FileOK(t, fs[t])

\* No table has become shorter from fs to new.
NoShorter(fs, new) == \A t \in Tables : Len(fs[t]) <= Len(new[t])

\* All pages hold rows that read back as they are, and what the process sees
\* of a table has all pages of its file.
PagesInv ==
  /\ FilesOK(files)
  /\ phase = "run" => FilesOK(view) /\ NoShorter(files, view)

\* A page written to a file leaves it with pages of rows, holes included.
LEMMA WrittenOK ==
  ASSUME NEW t \in Tables, NEW f, FileOK(t, f), NEW p \in Nat,
         NEW content, PageOK(Schemas[t], content)
  PROVE  /\ FileOK(t, writePage(f, p, content))
         /\ Len(writePage(f, p, content)) = IF p < Len(f) THEN Len(f) ELSE p + 1
         /\ writePage(f, p, content)[p + 1] = content
         /\ Len(f) <= Len(writePage(f, p, content))
<1> DEFINE new == writePage(f, p, content)
           n == IF p < Len(f) THEN Len(f) ELSE p + 1
<1>1. IsFile(f) /\ Len(f) \in Nat /\ DOMAIN f = 1 .. Len(f)
  BY FileLength DEF FileOK
<1>2. IsFile(new)
  BY <1>1, WrittenFile
<1>3. Len(new) \in Nat /\ DOMAIN new = 1 .. Len(new)
  BY <1>2, FileLength
<1>4. n \in Nat \ {0} /\ Len(f) <= n /\ p + 1 \in 1 .. n
  BY <1>1
<1>5. /\ DOMAIN new = 1 .. n
      /\ \A i \in 1 .. n : new[i] = IF i = p + 1 THEN content
                                    ELSE IF i <= Len(f) THEN f[i] ELSE Blank
  BY DEF writePage, pageCount
<1> HIDE DEF new, n
<1>6. Len(new) = n
  <2>1. 1 .. Len(new) = 1 .. n /\ Len(new) \in Nat /\ n \in Nat \ {0}
    BY <1>3, <1>4, <1>5
  <2>2. n \in 1 .. Len(new) /\ (Len(new) > 0 => Len(new) \in 1 .. n)
    <3>1. n \in 1 .. n /\ (Len(new) > 0 => Len(new) \in 1 .. Len(new))
      BY <2>1
    <3> QED
      BY <2>1, <3>1
  <2> QED
    BY <2>1, <2>2
<1>7. PageOK(Schemas[t], Blank)
  <2>1. Blank = ZeroPage
    BY SessionAssumption
  <2> QED
    BY <2>1, SchemasFit, FreshPage
<1>8. ASSUME NEW i \in 1 .. Len(new) PROVE PageOK(Schemas[t], new[i])
  <2>1. new[i] = IF i = p + 1 THEN content ELSE IF i <= Len(f) THEN f[i] ELSE Blank
    BY <1>5, <1>6
  <2>2. i <= Len(f) => i \in 1 .. Len(f)
    BY <1>1, <1>3
  <2>3. \A j \in 1 .. Len(f) : PageOK(Schemas[t], f[j])
    BY DEF FileOK
  <2> QED
    BY <1>7, <2>1, <2>2, <2>3
<1>9. FileOK(t, new)
  BY <1>2, <1>8 DEF FileOK
<1>10. new[p + 1] = content
  BY <1>4, <1>5
<1> QED
  BY <1>4, <1>6, <1>9, <1>10 DEF new, n

\* So do pages rewritten in place.
LEMMA RewrittenOK ==
  ASSUME NEW t \in Tables, NEW f, FileOK(t, f), NEW new, DOMAIN new = DOMAIN f,
         new = [p \in DOMAIN f |-> new[p]], \A p \in DOMAIN f : PageOK(Schemas[t], new[p])
  PROVE  FileOK(t, new) /\ Len(new) = Len(f)
<1>1. IsFile(f) /\ Len(f) \in Nat /\ DOMAIN f = 1 .. Len(f)
  BY FileLength DEF FileOK
<1>2. IsFile(new)
  BY <1>1, ChangedFile
<1>3. Len(new) \in Nat /\ DOMAIN new = 1 .. Len(new)
  BY <1>2, FileLength
<1>4. 1 .. Len(new) = 1 .. Len(f)
  BY <1>1, <1>3
<1>5. Len(new) = Len(f)
  <2> DEFINE a == Len(new)
             b == Len(f)
  <2>1. a \in Nat /\ b \in Nat /\ 1 .. a = 1 .. b
    BY <1>1, <1>3, <1>4
  <2> HIDE DEF a, b
  <2>2. (a > 0 => a \in 1 .. a) /\ (b > 0 => b \in 1 .. b)
    BY <2>1
  <2>3. (a > 0 => a \in 1 .. b) /\ (b > 0 => b \in 1 .. a)
    BY <2>1, <2>2
  <2>4. a = b
    BY <2>1, <2>3
  <2> QED
    BY <2>4 DEF a, b
<1> QED
  BY <1>1, <1>2, <1>4, <1>5 DEF FileOK

\* One table changed leaves all with pages of rows.
LEMMA OneChangedOK ==
  ASSUME NEW fs, FilesOK(fs), NEW t \in Tables, NEW new, FileOK(t, new)
  PROVE  FilesOK([fs EXCEPT ![t] = new])
  BY DEF FilesOK

\* The page that an UPDATE or DELETE leaves.
Updated(t, q, p) == IF p <= pageCount(files[t]) THEN UpdatePage(Schemas[t], q, view[t][p])
                    ELSE view[t][p]

Deleted(t, q, p) == IF p <= pageCount(files[t]) THEN DeleteRows(Schemas[t], q, view[t][p])
                    ELSE view[t][p]

\* An UPDATE of a column that exists rewrites the pages of the file.
LEMMA UpdateIs ==
  ASSUME DOMAIN view = Tables, NEW t \in Tables, NEW q, executeUpdate(t, q)
  PROVE  IF columnIndex(Schemas[t], q.updateCol) = 0 THEN view' = view
         ELSE view' = [view EXCEPT ![t] = [p \in DOMAIN view[t] |-> Updated(t, q, p)]]
  BY DEF executeUpdate, Rewritten, Updated

\* So does a DELETE with a clause.
LEMMA DeleteIs ==
  ASSUME DOMAIN view = Tables, NEW t \in Tables, NEW q, executeDelete(t, q)
  PROVE  IF ~q.hasWhere THEN view' = view
         ELSE view' = [view EXCEPT ![t] = [p \in DOMAIN view[t] |-> Deleted(t, q, p)]]
  BY DEF executeDelete, Rewritten, Deleted

\* A column that is there can be set to what any token converts to.
LEMMA TokenSets ==
  ASSUME NEW t \in Tables, NEW q, q.updateVal \in Tokens,
         columnIndex(Schemas[t], q.updateCol) # 0
  PROVE  SetsField(Schemas[t], q)
<1> DEFINE cols == Schemas[t]
           n == Len(cols)
           I == {i \in 1 .. n : cols[i].name = q.updateCol}
           c == columnIndex(cols, q.updateCol)
<1>1. n \in Nat /\ DOMAIN cols = 1 .. n
  BY RowsAssumption, SchemaType
<1>2. c = IF I # {} THEN Min(I) ELSE 0
  BY DEF columnIndex, SelectInSeq
<1>3. I # {}
  <2>1. c # 0
    OBVIOUS
  <2> HIDE DEF c, I
  <2> QED
    BY <1>2, <2>1
<1>4. I \subseteq 1 .. n /\ I \subseteq Nat
  BY <1>1
<1> HIDE DEF I
<1>5. c \in I
  <2>1. PICK x \in I : \A y \in I : x <= y
    BY <1>3, <1>4, LeastNumber
  <2>2. Min(I) \in I
    BY <2>1 DEF Min
  <2> HIDE DEF c
  <2> QED
    BY <1>2, <1>3, <2>2
<1>6. q.updateVal.n \in Int32 /\ q.updateVal.s \in Texts
  BY DEF Tokens
<1>7. c \in DOMAIN cols
  BY <1>1, <1>4, <1>5
<1> QED
  BY <1>6, <1>7 DEF SetsField

\* UPDATE leaves pages of rows.
LEMMA UpdateKeepsPages ==
  ASSUME FilesOK(view), NEW t \in Tables, NEW q, q.updateVal \in Tokens, executeUpdate(t, q)
  PROVE  FilesOK(view') /\ NoShorter(view, view')
<1>1. DOMAIN view = Tables /\ \A u \in Tables : FileOK(u, view[u]) /\ Len(view[u]) \in Nat
                                                /\ DOMAIN view[u] = 1 .. Len(view[u])
  BY FileLength DEF FilesOK, FileOK
<1>2. CASE view' = view
  BY <1>1, <1>2 DEF NoShorter
<1> DEFINE new == [p \in DOMAIN view[t] |-> Updated(t, q, p)]
<1>3. CASE columnIndex(Schemas[t], q.updateCol) # 0
  <2>1. view' = [view EXCEPT ![t] = new]
    BY <1>1, <1>3, UpdateIs
  <2>2. ASSUME NEW p \in DOMAIN view[t] PROVE PageOK(Schemas[t], new[p])
    <3>1. PageOK(Schemas[t], view[t][p])
      BY <1>1 DEF FileOK
    <3>2. SetsField(Schemas[t], q)
      BY <1>3, TokenSets
    <3>3. PageOK(Schemas[t], UpdatePage(Schemas[t], q, view[t][p]))
      BY <3>1, <3>2, SchemasFit, UpdatedPage
    <3> QED
      BY <3>1, <3>3 DEF Updated
  <2>3. DOMAIN new = DOMAIN view[t] /\ new = [p \in DOMAIN view[t] |-> new[p]]
    OBVIOUS
  <2> HIDE DEF new
  <2>4. FileOK(t, new) /\ Len(new) = Len(view[t])
    BY <1>1, <2>2, <2>3, RewrittenOK
  <2>5. FilesOK(view')
    BY <2>1, <2>4, OneChangedOK
  <2> QED
    BY <1>1, <2>1, <2>4, <2>5 DEF NoShorter
<1>4. CASE columnIndex(Schemas[t], q.updateCol) = 0
  BY <1>1, <1>2, <1>4, UpdateIs
<1> QED
  BY <1>3, <1>4

\* So does DELETE.
LEMMA DeleteKeepsPages ==
  ASSUME FilesOK(view), NEW t \in Tables, NEW q, executeDelete(t, q)
  PROVE  FilesOK(view') /\ NoShorter(view, view')
<1>1. DOMAIN view = Tables /\ \A u \in Tables : FileOK(u, view[u]) /\ Len(view[u]) \in Nat
                                                /\ DOMAIN view[u] = 1 .. Len(view[u])
  BY FileLength DEF FilesOK, FileOK
<1>2. CASE view' = view
  BY <1>1, <1>2 DEF NoShorter
<1> DEFINE new == [p \in DOMAIN view[t] |-> Deleted(t, q, p)]
<1>3. CASE view' = [view EXCEPT ![t] = new]
  <2>2. ASSUME NEW p \in DOMAIN view[t] PROVE PageOK(Schemas[t], new[p])
    <3>1. PageOK(Schemas[t], view[t][p])
      BY <1>1 DEF FileOK
    <3>2. PageOK(Schemas[t], DeleteRows(Schemas[t], q, view[t][p]))
      BY <3>1, SchemasFit, DeletedPage
    <3> QED
      BY <3>1, <3>2 DEF Deleted
  <2>3. DOMAIN new = DOMAIN view[t] /\ new = [p \in DOMAIN view[t] |-> new[p]]
    OBVIOUS
  <2> HIDE DEF new
  <2>4. FileOK(t, new) /\ Len(new) = Len(view[t])
    BY <1>1, <2>2, <2>3, RewrittenOK
  <2>5. FilesOK(view')
    BY <1>3, <2>4, OneChangedOK
  <2> QED
    BY <1>1, <1>3, <2>4, <2>5 DEF NoShorter
<1> QED
  BY <1>1, <1>2, <1>3, DeleteIs

\* The row is on one of the pages of new.
Inserted(t, q, new) ==
  \E rest \in Garbage : \E p \in 1 .. Len(new) :
    ReadBack(Schemas[t], InsertedRow(Schemas[t], q.insertVals, rest))
      \in Range(RowsOf(Schemas[t], new[p]))

\* A row appended to a page is one of its rows.
LEMMA RowAppended ==
  ASSUME NEW cols, FitsPage(cols), NEW pg, PageOK(cols, pg), ~isFull(cols, pg),
         NEW row, IsRow(cols, row)
  PROVE  /\ PageOK(cols, appendRow(cols, pg, row))
         /\ ReadBack(cols, row) \in Range(RowsOf(cols, appendRow(cols, pg, row)))
<1> DEFINE back == ReadBack(cols, row)
           rows == RowsOf(cols, pg)
<1>1. rows \in Seq(RowSet(cols))
  BY RowsType
<1>2. back \in RowSet(cols)
  <2>1. Stored(cols, back)
    BY ReadBackStored DEF FitsPage
  <2> HIDE DEF back
  <2> QED
    BY <2>1, StoredType
<1>3. /\ PageOK(cols, appendRow(cols, pg, row))
      /\ RowsOf(cols, appendRow(cols, pg, row)) = Append(rows, back)
  BY AppendedRow
<1> HIDE DEF back, rows
<1>4. Range(Append(rows, back)) = Range(rows) \union {back}
  BY <1>1, <1>2, RangeAppend
<1> QED
  BY <1>3, <1>4 DEF back

\* INSERT changes its table alone, leaves its pages with rows, and one of them with the new row.
LEMMA InsertIs ==
  ASSUME FilesOK(files), FilesOK(view), NoShorter(files, view),
         NEW t \in Tables, NEW q, q.insertVals \in Seq(Tokens), executeInsert(t, q)
  PROVE  \E new : /\ view' = [view EXCEPT ![t] = new]
                  /\ FileOK(t, new) /\ Len(view[t]) <= Len(new) /\ Inserted(t, q, new)
<1> DEFINE cols == Schemas[t]
           f == view[t]
           n == pageCount(files[t])
           room == {p \in 0 .. n - 1 : ~isFull(cols, f[p + 1])}
<1>1. /\ DOMAIN view = Tables /\ FileOK(t, f) /\ Len(f) \in Nat /\ DOMAIN f = 1 .. Len(f)
      /\ FitsPage(cols)
  BY FileLength, SchemasFit DEF FilesOK, FileOK
<1>2. n \in Nat /\ n <= Len(f)
  BY FileLength DEF FilesOK, FileOK, NoShorter, pageCount
<1>3. PICK rest \in Garbage :
        LET row == InsertedRow(cols, q.insertVals, rest)
        IN  \/ \E p \in room : /\ \A o \in room : o <= p
                               /\ view' = [view EXCEPT ![t][p + 1] = appendRow(cols, @, row)]
            \/ /\ room = {}
               /\ view' = [view EXCEPT ![t] = writePage(@, n, appendRow(cols, initPage(n), row))]
  BY DEF executeInsert
<1> DEFINE row == InsertedRow(cols, q.insertVals, rest)
           back == ReadBack(cols, row)
<1>4. IsRow(cols, row)
  BY InsertedType
<1> HIDE DEF n, row, back
<1>5. ASSUME NEW p \in room, view' = [view EXCEPT ![t][p + 1] = appendRow(cols, @, row)]
      PROVE  \E new : /\ view' = [view EXCEPT ![t] = new]
                      /\ FileOK(t, new) /\ Len(view[t]) <= Len(new) /\ Inserted(t, q, new)
  <2> DEFINE pg == appendRow(cols, f[p + 1], row)
             new == [f EXCEPT ![p + 1] = pg]
  <2>1. p + 1 \in 1 .. Len(f) /\ ~isFull(cols, f[p + 1])
    BY <1>1, <1>2
  <2>2. PageOK(cols, f[p + 1])
    BY <1>1, <2>1 DEF FileOK
  <2>3. PageOK(cols, pg) /\ back \in Range(RowsOf(cols, pg))
    <3> DEFINE old == f[p + 1]
    <3>1. PageOK(cols, old) /\ ~isFull(cols, old)
      BY <2>1, <2>2
    <3> HIDE DEF old, cols
    <3> QED
      BY <1>1, <1>4, <3>1, RowAppended DEF old, back
  <2>4. view' = [view EXCEPT ![t] = new]
    BY <1>5
  <2>5. DOMAIN new = DOMAIN f /\ new = [i \in DOMAIN f |-> new[i]]
    OBVIOUS
  <2>6. new[p + 1] = pg /\ \A i \in DOMAIN f : i # p + 1 => new[i] = f[i]
    BY <1>1, <2>1
  <2> HIDE DEF new, pg
  <2>7. \A i \in DOMAIN f : PageOK(cols, new[i])
    BY <1>1, <2>3, <2>6 DEF FileOK
  <2>8. FileOK(t, new) /\ Len(new) = Len(f)
    BY <1>1, <2>5, <2>7, RewrittenOK
  <2>9. Inserted(t, q, new)
    BY <2>1, <2>3, <2>6, <2>8 DEF Inserted, row, back
  <2>10. Len(f) <= Len(new)
    <3> DEFINE a == Len(f)
    <3>1. a \in Nat /\ Len(new) = a
      BY <1>1, <2>8
    <3> HIDE DEF a
    <3>2. a <= Len(new)
      BY <3>1
    <3> QED
      BY <3>2 DEF a
  <2> QED
    BY <2>4, <2>8, <2>9, <2>10
<1>6. ASSUME view' = [view EXCEPT ![t] = writePage(@, n, appendRow(cols, initPage(n), row))]
      PROVE  \E new : /\ view' = [view EXCEPT ![t] = new]
                      /\ FileOK(t, new) /\ Len(view[t]) <= Len(new) /\ Inserted(t, q, new)
  <2> DEFINE fresh == initPage(n)
             pg == appendRow(cols, fresh, row)
             new == writePage(f, n, pg)
  <2>1. PageOK(cols, fresh) /\ ~isFull(cols, fresh)
    <3>1. PageOK(cols, fresh) /\ getRecordCount(fresh) = 0
      BY <1>1, FreshPage
    <3>2. recordsPerPage(cols) \in Nat \ {0}
      BY <1>1, RecordsFit
    <3> HIDE DEF fresh
    <3> QED
      BY <3>1, <3>2 DEF isFull
  <2> HIDE DEF fresh
  <2>2. PageOK(cols, pg) /\ back \in Range(RowsOf(cols, pg))
    <3> HIDE DEF cols
    <3> QED
      BY <1>1, <1>4, <2>1, RowAppended DEF back
  <2> HIDE DEF pg
  <2>3. FileOK(t, new) /\ new[n + 1] = pg /\ Len(f) <= Len(new)
        /\ Len(new) = IF n < Len(f) THEN Len(f) ELSE n + 1
    BY <1>1, <1>2, <2>2, WrittenOK
  <2>4. view' = [view EXCEPT ![t] = new]
    BY <1>1, <1>6 DEF pg, fresh
  <2> HIDE DEF new
  <2>5. n + 1 \in 1 .. Len(new)
    BY <1>1, <1>2, <2>3
  <2>6. Inserted(t, q, new)
    BY <2>2, <2>3, <2>5 DEF Inserted, row, back
  <2> QED
    BY <2>3, <2>4, <2>6
<1>7. \/ \E p \in room : view' = [view EXCEPT ![t][p + 1] = appendRow(cols, @, row)]
      \/ view' = [view EXCEPT ![t] = writePage(@, n, appendRow(cols, initPage(n), row))]
  <2> HIDE DEF room
  <2> QED
    BY <1>3 DEF row
<1> QED
  BY <1>5, <1>6, <1>7

\* Whatever is executed, all tables keep pages of rows.
LEMMA StatementKeepsRows ==
  ASSUME PagesInv, NEW r \in Requests, executeSQL(TextOf(r))
  PROVE  FilesOK(view') /\ NoShorter(view, view')
<1> DEFINE q == parse(TextOf(r))
<1>1. q.updateVal \in Tokens /\ q.insertVals \in Seq(Tokens)
  BY TextType, ParsedValues
<1>2. phase = "run" /\ FilesOK(files) /\ FilesOK(view) /\ NoShorter(files, view)
  BY DEF executeSQL, PagesInv
<1>3. \/ view' = view
      \/ \E t \in Tables : executeInsert(t, q) \/ executeUpdate(t, q) \/ executeDelete(t, q)
  BY DEF executeSQL
<1> HIDE DEF q
<1>4. \A u \in Tables : Len(view[u]) \in Nat
  BY <1>2, FileLength DEF FilesOK, FileOK
<1>5. CASE view' = view
  BY <1>2, <1>4, <1>5 DEF NoShorter
<1>6. ASSUME NEW t \in Tables, executeInsert(t, q)
      PROVE  FilesOK(view') /\ NoShorter(view, view')
  <2>1. PICK new : /\ view' = [view EXCEPT ![t] = new]
                   /\ FileOK(t, new) /\ Len(view[t]) <= Len(new)
    BY <1>1, <1>2, <1>6, InsertIs
  <2>2. FilesOK(view')
    BY <1>2, <2>1, OneChangedOK
  <2> QED
    BY <1>2, <1>4, <2>1, <2>2 DEF NoShorter, FilesOK
<1> QED
  BY <1>1, <1>2, <1>3, <1>5, <1>6, UpdateKeepsPages, DeleteKeepsPages

\* The page a generator fills goes to its file.
LEMMA GenerationKeepsPages ==
  ASSUME SessionInv, PagesInv, GenerateRow \/ GenerateEnd
  PROVE  PagesInv'
<1>1. /\ phase = "generating" /\ table \in Tables /\ PageOK(Schemas[table], page)
      /\ FilesOK(files)
  BY DEF GenerateRow, GenerateEnd, SessionInv, TypesInv, PageInv, PagesInv
<1>2. pageId \in Nat
  BY <1>1, FileLength DEF pageId, pageCount, FilesOK, FileOK
<1>3. files' = files \/ files' = [files EXCEPT ![table] = writePage(@, pageId, page)]
  BY DEF GenerateRow, GenerateEnd
<1>4. FilesOK(files')
  <2> DEFINE new == writePage(files[table], pageId, page)
  <2>1. FileOK(table, new)
    BY <1>1, <1>2, WrittenOK DEF FilesOK
  <2>2. files' = files \/ files' = [files EXCEPT ![table] = new]
    BY <1>1, <1>3 DEF FilesOK
  <2> HIDE DEF new
  <2> QED
    BY <1>1, <2>1, <2>2, OneChangedOK
<1>5. phase' = "run" => view' = files'
  BY <1>1 DEF GenerateRow, GenerateEnd
<1>6. \A t \in Tables : Len(files'[t]) \in Nat
  BY <1>4, FileLength DEF FilesOK, FileOK
<1> QED
  BY <1>4, <1>5, <1>6 DEF PagesInv, NoShorter

\* A page goes from the pool to its file.
LEMMA WriteBackKeepsPages ==
  ASSUME PagesInv, NEW t \in Tables, NEW p \in 0 .. pageCount(view[t]) - 1, WriteBack(t, p)
  PROVE  PagesInv'
<1>1. /\ phase = "run" /\ phase' = phase /\ view' = view
      /\ files' = [files EXCEPT ![t] = writePage(@, p, view[t][p + 1])]
      /\ FilesOK(files) /\ FilesOK(view) /\ NoShorter(files, view)
  BY DEF WriteBack, PagesInv
<1> DEFINE new == writePage(files[t], p, view[t][p + 1])
<1>2. /\ FileOK(t, files[t]) /\ FileOK(t, view[t]) /\ Len(files[t]) \in Nat
      /\ Len(view[t]) \in Nat /\ Len(files[t]) <= Len(view[t])
  BY <1>1, FileLength DEF FilesOK, FileOK, NoShorter
<1>3. p \in Nat /\ p + 1 \in 1 .. Len(view[t])
  BY <1>2 DEF pageCount
<1>4. PageOK(Schemas[t], view[t][p + 1])
  BY <1>2, <1>3 DEF FileOK
<1>5. FileOK(t, new) /\ Len(new) = IF p < Len(files[t]) THEN Len(files[t]) ELSE p + 1
  BY <1>2, <1>3, <1>4, WrittenOK
<1>6. files' = [files EXCEPT ![t] = new]
  BY <1>1
<1> HIDE DEF new
<1>7. FilesOK(files')
  <2>1. FilesOK(files) /\ FileOK(t, new)
    BY <1>1, <1>5
  <2>2. FilesOK([files EXCEPT ![t] = new])
    BY <2>1, OneChangedOK
  <2> QED
    BY <1>6, <2>2
<1>8. Len(new) <= Len(view[t])
  <2> DEFINE a == Len(files[t])
             b == Len(view[t])
             c == Len(new)
  <2>1. a <= b /\ p + 1 <= b /\ c = IF p < a THEN a ELSE p + 1
    BY <1>2, <1>3, <1>5
  <2> HIDE DEF a, b, c
  <2>2. c <= b
    BY <2>1
  <2> QED
    BY <2>2 DEF b, c
<1>9. NoShorter(files', view)
  <2>1. DOMAIN files = Tables /\ \A u \in Tables : Len(files[u]) <= Len(view[u])
    BY <1>1 DEF NoShorter, FilesOK
  <2>2. ASSUME NEW u \in Tables PROVE Len(files'[u]) <= Len(view[u])
    BY <1>6, <1>8, <2>1
  <2> QED
    BY <2>2 DEF NoShorter
<1> QED
  BY <1>1, <1>7, <1>9 DEF PagesInv

(***************************************************************************)
(* Whatever is executed, and whenever processes are killed: every page of  *)
(* every table, in the files and in the pool, has a count in bounds and    *)
(* rows that read back as they are, and the pool sees all pages of a file. *)
(***************************************************************************)
THEOREM PagesInvariant == Spec => []PagesInv
<1>1. Init => PagesInv
  <2> SUFFICES ASSUME Init PROVE PagesInv
    OBVIOUS
  <2>1. files = [t \in Tables |-> << >>] /\ phase = "down"
    BY DEF Init
  <2> QED
    BY <2>1, NoRows DEF PagesInv, FilesOK
<1>2. SessionInv /\ PagesInv /\ [Next]_vars => PagesInv'
  <2> SUFFICES ASSUME SessionInv, PagesInv, [Next]_vars PROVE PagesInv'
    OBVIOUS
  <2>1. FilesOK(files) /\ \A t \in Tables : Len(files[t]) \in Nat
    BY FileLength DEF PagesInv, FilesOK, FileOK
  <2>2. NoShorter(files, files)
    BY <2>1 DEF NoShorter
  <2>3. ASSUME NEW prog \in Programs, Start(prog) PROVE PagesInv'
    BY <2>1, <2>2, <2>3 DEF Start, PagesInv
  <2>4. CASE Truncate
    <3>1. files' = [files EXCEPT ![table] = << >>] /\ phase' = "generating" /\ table \in Tables
      BY <2>4 DEF Truncate, SessionInv, TypesInv
    <3>2. FilesOK(files')
      BY <2>1, <3>1, NoRows, OneChangedOK
    <3> QED
      BY <3>1, <3>2 DEF PagesInv
  <2>5. CASE GenerateRow \/ GenerateEnd
    BY <2>5, GenerationKeepsPages
  <2>6. ASSUME NEW r \in Requests, executeSQL(TextOf(r)) PROVE PagesInv'
    <3>1. phase = "run" /\ files' = files /\ phase' = phase
      BY <2>6 DEF executeSQL
    <3>2. FilesOK(view') /\ NoShorter(view, view')
      BY <2>6, StatementKeepsRows
    <3>3. NoShorter(files, view')
      <4>1. NoShorter(files, view) /\ FilesOK(view)
        BY <3>1 DEF PagesInv
      <4>2. ASSUME NEW t \in Tables PROVE Len(files[t]) <= Len(view'[t])
        <5>1. /\ Len(files[t]) \in Nat /\ Len(view[t]) \in Nat /\ Len(view'[t]) \in Nat
              /\ Len(files[t]) <= Len(view[t]) /\ Len(view[t]) <= Len(view'[t])
          BY <2>1, <3>2, <4>1, FileLength DEF FilesOK, FileOK, NoShorter
        <5> QED
          BY <5>1
      <4> QED
        BY <4>2 DEF NoShorter
    <3> QED
      BY <2>1, <3>1, <3>2, <3>3 DEF PagesInv
  <2>7. ASSUME NEW t \in Tables, NEW p \in 0 .. pageCount(view[t]) - 1, WriteBack(t, p)
        PROVE  PagesInv'
    BY <2>7, WriteBackKeepsPages
  <2>8. CASE Exit
    BY <2>8 DEF Exit, PagesInv
  <2>9. CASE Kill
    BY <2>1, <2>9 DEF Kill, PagesInv
  <2>10. CASE UNCHANGED vars
    BY <2>10 DEF vars, PagesInv
  <2> QED
    BY <2>3, <2>4, <2>5, <2>6, <2>7, <2>8, <2>9, <2>10 DEF Next, Generate
<1> QED
  BY <1>1, <1>2, SessionInvariant, PTL DEF Spec

-----------------------------------------------------------------------------
(* What a statement changes *)

\* A statement of a request works on the table of the request.
LEMMA StatementRuns ==
  ASSUME NEW r \in Requests, executeSQL(TextOf(r)), parse(TextOf(r)).ok,
         parse(TextOf(r)).tableName = TableNames[r.table]
  PROVE  /\ parse(TextOf(r)).type = "INSERT" => executeInsert(r.table, parse(TextOf(r)))
         /\ parse(TextOf(r)).type = "UPDATE" => executeUpdate(r.table, parse(TextOf(r)))
         /\ parse(TextOf(r)).type = "DELETE" => executeDelete(r.table, parse(TextOf(r)))
<1> DEFINE q == parse(TextOf(r))
<1>1. r.table \in Tables
  BY RequestsAssumption
<1>2. \E t \in Tables : TableNames[t] = q.tableName
  BY <1>1
<1>3. PICK t \in Tables : /\ TableNames[t] = q.tableName
                          /\ \/ q.type = "INSERT" /\ executeInsert(t, q)
                             \/ q.type = "UPDATE" /\ executeUpdate(t, q)
                             \/ q.type = "DELETE" /\ executeDelete(t, q)
  <2>1. q.ok
    OBVIOUS
  <2> HIDE DEF q
  <2> QED
    BY <1>2, <2>1 DEF executeSQL, q
<1>4. t = r.table
  <2>1. TableNames[t] = TableNames[r.table]
    BY <1>3
  <2> HIDE DEF q
  <2> QED
    BY <1>1, <2>1, RequestsAssumption
<1> HIDE DEF q
<1> QED
  BY <1>3, <1>4 DEF q

\* The pages of the file have the rows the request asks for, the others stay.
Confined(r, t, p) ==
  /\ ReadBytes(view'[t][p], 0, 4) = ReadBytes(view[t][p], 0, 4)
  /\ RowsOf(Schemas[t], view'[t][p]) =
       IF t = r.table /\ p <= pageCount(files[t])
       THEN Changed(r, RowsOf(Schemas[t], view[t][p])) ELSE RowsOf(Schemas[t], view[t][p])

AllConfined(r) ==
  \A t \in Tables : /\ Len(view'[t]) = Len(view[t])
                    /\ \A p \in DOMAIN view[t] : Confined(r, t, p)

\* An UPDATE makes of a row what the request is taken for.
LEMMA UpdateAsTaken ==
  ASSUME NEW r \in Requests, r.kind = "UPDATE", NEW row
  PROVE  UpdatedRow(Schemas[r.table], parse(TextOf(r)), row) =
           IF Selected(Taken(r), row)
           THEN ReadBack(Schemas[r.table],
                         [row EXCEPT ![columnIndex(Schemas[r.table], r.col)] =
                            Meant(Taken(r).val)])
           ELSE row
<1> DEFINE q == parse(TextOf(r))
           cols == Schemas[r.table]
           c == columnIndex(cols, r.col)
           s == Taken(r)
<1>1. r.table \in Tables /\ r.val \in Values /\ Fits(r.table, r.col, r.val)
  BY RequestsAssumption
<1>2. cols[c].type = r.val.type
  BY <1>1, FittingColumn
<1>3. q.updateCol = r.col /\ q.updateVal = Literal(r.val)[1]
  BY UpdateParsed, SignedUpdateParsed
<1> HIDE DEF q, cols, c, s
<1>4. /\ Field(cols[c], Literal(r.val)[1]) = Meant(s.val)
      /\ (q.hasWhere => evalWhere(cols, q.where, row)) <=> Selected(s, row)
  <2>1. CASE Positive(r.val)
    <3>1. s = r
      BY <2>1 DEF Taken, s
    <3>2. ParsedClause(q, r)
      BY <2>1, UpdateParsed DEF q
    <3>3. Field(cols[c], Literal(r.val)[1]) = Meant(s.val)
      BY <1>1, <1>2, <2>1, <3>1, MeantField
    <3>4. (q.hasWhere => evalWhere(cols, q.where, row)) <=> Selected(s, row)
      <4>1. CASE r.wcol = ""
        BY <3>1, <3>2, <4>1 DEF ParsedClause, Selected
      <4>2. CASE r.wcol # ""
        <5>1. q.hasWhere = TRUE /\ q.where = Clause(r)
          BY <3>2, <4>2 DEF ParsedClause
        <5>2. evalWhere(cols, Clause(r), row) <=> Selected(r, row)
          BY <4>2, ClauseSelects DEF cols
        <5> QED
          BY <3>1, <5>1, <5>2
      <4> QED
        BY <4>1, <4>2
    <3> QED
      BY <3>3, <3>4
  <2>2. CASE ~Positive(r.val)
    <3>1. s.kind = "UPDATE" /\ s.wcol = "" /\ s.val.type = "INT" /\ s.val.n = 0
      BY <2>2 DEF Taken, s
    <3>2. Literal(r.val)[1].n = 0 /\ r.val.type = "INT"
      BY <1>1, <2>2, LiteralIs
    <3>3. Field(cols[c], Literal(r.val)[1]) = Meant(s.val)
      BY <1>2, <3>1, <3>2 DEF Field, Meant
    <3>4. q.hasWhere = FALSE
      BY <2>2, SignedUpdateParsed DEF q
    <3>5. Selected(s, row)
      BY <3>1 DEF Selected
    <3> QED
      BY <3>3, <3>4, <3>5
  <2> QED
    BY <2>1, <2>2
<1>5. SetRow(cols, q, row) = [row EXCEPT ![c] = Meant(s.val)]
  BY <1>3, <1>4 DEF SetRow, c
<1>6. UpdatedRow(cols, q, row) =
        IF Selected(s, row) THEN ReadBack(cols, [row EXCEPT ![c] = Meant(s.val)]) ELSE row
  BY <1>4, <1>5 DEF UpdatedRow
<1> QED
  BY <1>6 DEF q, cols, c, s

\* An UPDATE changes the rows of the request it is taken for and nothing else.
LEMMA UpdateConfined ==
  ASSUME PagesInv, NEW r \in Requests, executeSQL(TextOf(r)), r.kind = "UPDATE"
  PROVE  AllConfined(Taken(r))
<1> DEFINE q == parse(TextOf(r))
           t == r.table
           cols == Schemas[t]
           new == [p \in DOMAIN view[t] |-> Updated(t, q, p)]
<1>0. Taken(r).kind = "UPDATE" /\ Taken(r).table = t /\ Taken(r).col = r.col
  BY DEF Taken
<1>1. t \in Tables /\ Fits(t, r.col, r.val)
  BY RequestsAssumption
<1>2. /\ q.ok /\ q.type = "UPDATE" /\ q.tableName = TableNames[t] /\ q.updateCol = r.col
  BY UpdateParsed, SignedUpdateParsed
<1>3. q.updateVal \in Tokens
  BY TextType, ParsedValues
<1>4. executeUpdate(t, q)
  BY <1>2, StatementRuns
<1>5. FilesOK(view)
  BY DEF executeSQL, PagesInv
<1>6. columnIndex(cols, q.updateCol) # 0
  BY <1>1, <1>2, FittingColumn
<1>7. view' = [view EXCEPT ![t] = new]
  <2> HIDE DEF q
  <2> QED
    BY <1>1, <1>4, <1>5, <1>6, UpdateIs DEF FilesOK
<1>8. SetsField(cols, q)
  <2> HIDE DEF q
  <2> QED
    BY <1>1, <1>3, <1>6, TokenSets
<1>9. ASSUME NEW p \in DOMAIN view[t]
      PROVE  PageOK(cols, view[t][p])
  <2>1. FileOK(t, view[t])
    BY <1>1, <1>5 DEF FilesOK
  <2> QED
    BY <2>1, FileLength DEF FileOK
<1>10. ASSUME NEW p \in DOMAIN view[t]
       PROVE  /\ PageOK(cols, new[p])
              /\ ReadBytes(new[p], 0, 4) = ReadBytes(view[t][p], 0, 4)
              /\ RowsOf(cols, new[p]) =
                   IF p <= pageCount(files[t]) THEN Changed(Taken(r), RowsOf(cols, view[t][p]))
                   ELSE RowsOf(cols, view[t][p])
  <2> DEFINE pg == view[t][p]
             rows == RowsOf(cols, pg)
             upd == UpdatePage(cols, q, pg)
  <2>1. PageOK(cols, pg)
    BY <1>9
  <2>2. /\ PageOK(cols, upd) /\ ReadBytes(upd, 0, 4) = ReadBytes(pg, 0, 4)
        /\ RowsOf(cols, upd) = [i \in DOMAIN rows |-> UpdatedRow(cols, q, rows[i])]
    <3> HIDE DEF q
    <3> QED
      BY <1>1, <1>8, <2>1, SchemasFit, UpdatedPage
  <2>3. Changed(Taken(r), rows) = [i \in DOMAIN rows |-> UpdatedRow(cols, q, rows[i])]
    <3>1. \A i \in DOMAIN rows :
            UpdatedRow(cols, q, rows[i]) =
              IF Selected(Taken(r), rows[i])
              THEN ReadBack(cols, [rows[i] EXCEPT ![columnIndex(cols, r.col)] =
                           Meant(Taken(r).val)])
              ELSE rows[i]
      <4> HIDE DEF rows
      <4> QED
        BY UpdateAsTaken
    <3>2. Changed(Taken(r), rows) =
            [i \in DOMAIN rows |->
               IF Selected(Taken(r), rows[i])
               THEN ReadBack(cols, [rows[i] EXCEPT ![columnIndex(cols, r.col)] =
                           Meant(Taken(r).val)])
               ELSE rows[i]]
      <4> HIDE DEF rows
      <4> QED
        BY <1>0 DEF Changed
    <3> HIDE DEF rows, q
    <3> QED
      BY <3>1, <3>2
  <2>4. new[p] = IF p <= pageCount(files[t]) THEN upd ELSE pg
    BY DEF Updated
  <2> HIDE DEF upd, pg, rows, new, q
  <2>5. CASE p <= pageCount(files[t])
    BY <2>2, <2>3, <2>4, <2>5 DEF rows, pg
  <2>6. CASE ~(p <= pageCount(files[t]))
    BY <2>1, <2>4, <2>6 DEF rows, pg
  <2> QED
    BY <2>5, <2>6
<1>11. DOMAIN new = DOMAIN view[t] /\ new = [p \in DOMAIN view[t] |-> new[p]]
  OBVIOUS
<1> HIDE DEF new, q
<1>12. Len(new) = Len(view[t])
  BY <1>1, <1>5, <1>10, <1>11, RewrittenOK DEF FilesOK
<1>13. ASSUME NEW u \in Tables
       PROVE  /\ Len(view'[u]) = Len(view[u])
              /\ \A p \in DOMAIN view[u] : Confined(Taken(r), u, p)
  <2>1. DOMAIN view = Tables
    BY <1>5 DEF FilesOK
  <2>2. CASE u = t
    <3>1. view'[u] = new
      BY <1>1, <1>7, <2>1, <2>2
    <3> QED
      BY <1>0, <1>10, <1>12, <2>2, <3>1 DEF Confined
  <2>3. CASE u # t
    <3>1. view'[u] = view[u]
      BY <1>7, <2>1, <2>3
    <3> QED
      BY <1>0, <2>3, <3>1 DEF Confined
  <2> QED
    BY <2>2, <2>3
<1> QED
  BY <1>13 DEF AllConfined

\* So does a DELETE; without a clause it changes nothing.
LEMMA DeleteConfined ==
  ASSUME PagesInv, NEW r \in Requests, executeSQL(TextOf(r)), r.kind = "DELETE"
  PROVE  AllConfined(r)
<1> DEFINE q == parse(TextOf(r))
           t == r.table
           cols == Schemas[t]
           new == [p \in DOMAIN view[t] |-> Deleted(t, q, p)]
<1>1. t \in Tables
  BY RequestsAssumption
<1>2. q.ok /\ q.type = "DELETE" /\ q.tableName = TableNames[t] /\ ParsedClause(q, r)
  BY DeleteParsed
<1>3. executeDelete(t, q)
  BY <1>2, StatementRuns
<1>4. FilesOK(view)
  BY DEF executeSQL, PagesInv
<1>5. ASSUME NEW u \in Tables, NEW p \in DOMAIN view[u]
      PROVE  PageOK(Schemas[u], view[u][p])
  <2>1. FileOK(u, view[u])
    BY <1>4 DEF FilesOK
  <2> QED
    BY <2>1, FileLength DEF FileOK
<1> HIDE DEF q
<1>6. CASE r.wcol = ""
  <2>1. view' = view
    <3>1. ~q.hasWhere
      BY <1>2, <1>6 DEF ParsedClause
    <3> QED
      BY <1>1, <1>3, <1>4, <3>1, DeleteIs DEF FilesOK
  <2>2. ASSUME NEW u \in Tables, NEW p \in DOMAIN view[u] PROVE Confined(r, u, p)
    <3> DEFINE rows == RowsOf(Schemas[u], view[u][p])
    <3>1. Changed(r, rows) = rows
      <4>1. rows \in Seq(RowSet(Schemas[u]))
        BY <1>5, SchemasFit, RowsType
      <4> HIDE DEF rows
      <4> DEFINE A == {i \in DOMAIN rows : ~Selected(r, rows[i])}
      <4>2. Changed(r, rows) = Chosen(rows, A)
        BY DEF Changed
      <4>3. \A row : ~Selected(r, row)
        BY <1>6 DEF Selected
      <4>4. DOMAIN rows = 1 .. Len(rows)
        BY <4>1
      <4>5. 1 .. Len(rows) \subseteq A
        BY <4>3, <4>4
      <4> HIDE DEF A
      <4> QED
        BY <4>1, <4>2, <4>5, ChosenAll
    <3> QED
      BY <2>1, <3>1 DEF Confined
  <2> QED
    BY <2>1, <2>2 DEF AllConfined
<1>7. CASE r.wcol # ""
  <2>1. q.hasWhere = TRUE /\ q.where = Clause(r)
    BY <1>2, <1>7 DEF ParsedClause
  <2>2. view' = [view EXCEPT ![t] = new]
    BY <1>1, <1>3, <1>4, <2>1, DeleteIs DEF FilesOK
  <2>3. ASSUME NEW p \in DOMAIN view[t]
        PROVE  /\ PageOK(cols, new[p])
               /\ ReadBytes(new[p], 0, 4) = ReadBytes(view[t][p], 0, 4)
               /\ RowsOf(cols, new[p]) =
                    IF p <= pageCount(files[t]) THEN Changed(r, RowsOf(cols, view[t][p]))
                    ELSE RowsOf(cols, view[t][p])
    <3> DEFINE pg == view[t][p]
               rows == RowsOf(cols, pg)
               del == DeleteRows(cols, q, pg)
    <3>1. PageOK(cols, pg)
      BY <1>1, <1>5
    <3>2. /\ PageOK(cols, del) /\ ReadBytes(del, 0, 4) = ReadBytes(pg, 0, 4)
          /\ RowsOf(cols, del) =
               Chosen(rows, {i \in DOMAIN rows : ~evalWhere(cols, q.where, rows[i])})
      <4>1. FitsPage(cols)
        BY <1>1, SchemasFit
      <4> HIDE DEF cols
      <4> QED
        BY <3>1, <4>1, DeletedPage
    <3>3. Changed(r, rows) =
            Chosen(rows, {i \in DOMAIN rows : ~evalWhere(cols, q.where, rows[i])})
      <4>1. \A row : evalWhere(cols, q.where, row) <=> Selected(r, row)
        BY <1>7, <2>1, ClauseSelects
      <4> HIDE DEF rows
      <4>2. {i \in DOMAIN rows : ~evalWhere(cols, q.where, rows[i])} =
              {i \in DOMAIN rows : ~Selected(r, rows[i])}
        BY <4>1
      <4>3. Changed(r, rows) = Chosen(rows, {i \in DOMAIN rows : ~Selected(r, rows[i])})
        BY DEF Changed
      <4> QED
        BY <4>2, <4>3
    <3>4. new[p] = IF p <= pageCount(files[t]) THEN del ELSE pg
      BY DEF Deleted
    <3> HIDE DEF del, pg, rows, new
    <3>5. CASE p <= pageCount(files[t])
      BY <3>2, <3>3, <3>4, <3>5 DEF rows, pg
    <3>6. CASE ~(p <= pageCount(files[t]))
      BY <3>1, <3>4, <3>6 DEF rows, pg
    <3> QED
      BY <3>5, <3>6
  <2>4. DOMAIN new = DOMAIN view[t] /\ new = [p \in DOMAIN view[t] |-> new[p]]
    OBVIOUS
  <2> HIDE DEF new
  <2>5. Len(new) = Len(view[t])
    BY <1>1, <1>4, <2>3, <2>4, RewrittenOK DEF FilesOK
  <2>6. ASSUME NEW u \in Tables
        PROVE  /\ Len(view'[u]) = Len(view[u])
               /\ \A p \in DOMAIN view[u] : Confined(r, u, p)
    <3>1. DOMAIN view = Tables
      BY <1>4 DEF FilesOK
    <3>2. CASE u = t
      <4>1. view'[u] = new
        BY <1>1, <2>2, <3>1, <3>2
      <4> QED
        BY <2>3, <2>5, <3>2, <4>1 DEF Confined
    <3>3. CASE u # t
      <4>1. view'[u] = view[u]
        BY <2>2, <3>1, <3>3
      <4> QED
        BY <3>3, <4>1 DEF Confined
    <3> QED
      BY <3>2, <3>3
  <2> QED
    BY <2>6 DEF AllConfined
<1> QED
  BY <1>6, <1>7

(***************************************************************************)
(* For any requests, schemas and page contents that can come about: UPDATE *)
(* and DELETE change the rows their clause describes on the pages of the   *)
(* file, as asked, and no other row, page number or table; if the value to *)
(* set has a minus sign, UPDATE zeroes the column in all of those rows     *)
(* (Parser.cpp:121-129).                                                   *)
(***************************************************************************)
THEOREM StatementsConfined == Spec => ClauseConfinesChanges
<1> DEFINE Step ==
      \A r \in Requests :
        executeSQL(TextOf(r)) /\ r.kind \in {"UPDATE", "DELETE"} =>
          ChangesAsSaid(Taken(r))
<1>1. PagesInv => Step
  <2> SUFFICES ASSUME PagesInv, NEW r \in Requests, executeSQL(TextOf(r)),
                      r.kind \in {"UPDATE", "DELETE"},
                      NEW t \in Tables
               PROVE  /\ Len(view'[t]) = Len(view[t])
                      /\ \A p \in DOMAIN view[t] : Confined(Taken(r), t, p)
    BY DEF Confined, ChangesAsSaid
  <2>1. CASE r.kind = "UPDATE"
    BY <2>1, UpdateConfined DEF AllConfined
  <2>2. CASE r.kind = "DELETE"
    <3>1. Taken(r) = r
      BY <2>2 DEF Taken
    <3> QED
      BY <2>2, <3>1, DeleteConfined DEF AllConfined
  <2> QED
    BY <2>1, <2>2
<1>2. PagesInv /\ [Next]_vars => [Step]_vars
  <2> HIDE DEF Step
  <2> QED
    BY <1>1
<1>3. ClauseConfinesChanges <=> [][Step]_vars
  BY DEF ClauseConfinesChanges
<1> HIDE DEF Step
<1> QED
  BY <1>2, <1>3, PagesInvariant, PTL DEF Spec

\* A row on a page of a file is a row of the file.
LEMMA RowInFile ==
  ASSUME NEW t \in Tables, NEW f, FileOK(t, f), NEW p \in 1 .. Len(f),
         NEW row \in Range(RowsOf(Schemas[t], f[p]))
  PROVE  row \in Range(RowsIn(t, f))
<1> DEFINE Y == RowSet(Schemas[t])
           s == [i \in DOMAIN f |-> RowsOf(Schemas[t], f[i])]
<1>1. Len(f) \in Nat /\ DOMAIN f = 1 .. Len(f)
  BY FileLength DEF FileOK
<1>2. \A i \in 1 .. Len(f) : RowsOf(Schemas[t], f[i]) \in Seq(Y)
  BY RowsType, SchemasFit DEF FileOK
<1> HIDE DEF Y
<1>3. s \in Seq(Seq(Y)) /\ Len(s) = Len(f)
  BY <1>1, <1>2
<1>4. RowsIn(t, f) = FlattenSeq(s)
  BY DEF RowsIn
<1>5. row \in Range(s[p])
  BY <1>1
<1> HIDE DEF s
<1>6. Range(FlattenSeq(s)) = UNION {Range(s[i]) : i \in 1 .. Len(s)}
  BY <1>3, FlattenRange
<1> QED
  BY <1>3, <1>4, <1>5, <1>6

\* With all values, in the order of the schema, and no sign: the row has what
\* the request says.
LEMMA InsertedAsAsked ==
  ASSUME NEW r \in Requests, r.kind = "INSERT",
         r.cols = [i \in DOMAIN Schemas[r.table] |-> Schemas[r.table][i].name],
         \A i \in DOMAIN r.vals : Positive(r.vals[i]), NEW rest
  PROVE  InsertedRow(Schemas[r.table], Literals(r), rest) =
           [i \in DOMAIN Schemas[r.table] |-> Meant(r.vals[i])]
<1> DEFINE t == r.table
           cols == Schemas[t]
           n == Len(cols)
           lits == Literals(r)
<1>1. t \in Tables /\ r.vals \in Seq(Values) /\ r.cols \in Seq(STRING)
      /\ Len(r.cols) = Len(r.vals)
      /\ \A i \in DOMAIN r.cols : Fits(t, r.cols[i], r.vals[i])
  BY RequestsAssumption
<1>2. n \in Nat /\ DOMAIN cols = 1 .. n
  BY <1>1, RowsAssumption, SchemaType
<1>3. DOMAIN r.cols = 1 .. n /\ \A i \in 1 .. n : r.cols[i] = cols[i].name
  BY <1>2
<1>4. Len(r.vals) = n /\ DOMAIN r.vals = 1 .. n
  <2> DEFINE c == r.cols
  <2>1. c \in Seq(STRING) /\ DOMAIN c = 1 .. n
    BY <1>1, <1>3
  <2> HIDE DEF c, n
  <2>2. Len(c) = n
    BY <1>2, <2>1
  <2> DEFINE v == r.vals
  <2>3. v \in Seq(Values) /\ Len(v) = n
    BY <1>1, <2>2 DEF c
  <2> HIDE DEF v
  <2>4. DOMAIN v = 1 .. n
    BY <2>3
  <2> QED
    BY <2>3, <2>4 DEF v
<1>5. DOMAIN lits = 1 .. n /\ \A i \in 1 .. n : lits[i] = Literal(r.vals[i])[1]
  BY <1>4 DEF Literals
<1> HIDE DEF n, lits
<1>6. ASSUME NEW i \in 1 .. n
      PROVE  Field(cols[i], IF i \in DOMAIN lits THEN lits[i] ELSE rest) = Meant(r.vals[i])
  <2>1. Fits(t, cols[i].name, r.vals[i])
    BY <1>1, <1>3
  <2>2. columnIndex(cols, cols[i].name) = i
    BY <1>1, <1>2, ColumnFound
  <2>3. cols[i].type = r.vals[i].type
    BY <1>1, <2>1, <2>2, FittingColumn
  <2>4. r.vals[i] \in Values /\ Positive(r.vals[i])
    BY <1>1, <1>4
  <2>5. Field(cols[i], Literal(r.vals[i])[1]) = Meant(r.vals[i])
    BY <2>3, <2>4, MeantField
  <2> QED
    BY <1>5, <2>5
<1>7. InsertedRow(cols, lits, rest) =
        [i \in DOMAIN cols |-> Field(cols[i], IF i \in DOMAIN lits THEN lits[i] ELSE rest)]
  BY DEF InsertedRow
<1> HIDE DEF cols
<1>8. InsertedRow(cols, lits, rest) = [i \in DOMAIN cols |-> Meant(r.vals[i])]
  BY <1>2, <1>6, <1>7
<1> QED
  BY <1>8 DEF lits, cols

\* The row of an INSERT is in the table afterwards.
LEMMA InsertReads ==
  ASSUME PagesInv, NEW r \in Requests, executeSQL(TextOf(r)), r.kind = "INSERT",
         r.cols = [i \in DOMAIN Schemas[r.table] |-> Schemas[r.table][i].name],
         \A i \in DOMAIN r.vals : Positive(r.vals[i])
  PROVE  ReadBack(Schemas[r.table], [i \in DOMAIN Schemas[r.table] |-> Meant(r.vals[i])])
           \in Range(RowsIn(r.table, view'[r.table]))
<1> DEFINE q == parse(TextOf(r))
           t == r.table
           cols == Schemas[t]
<1>1. t \in Tables /\ r.cols \in Seq(STRING) /\ Len(r.cols) = Len(r.vals)
      /\ Len(cols) <= MAX_COLUMNS
  BY RequestsAssumption
<1>2. Len(r.vals) <= MAX_COLUMNS
  <2> DEFINE n == Len(cols)
             c == r.cols
  <2>1. n \in Nat /\ DOMAIN cols = 1 .. n
    BY <1>1, RowsAssumption, SchemaType
  <2>2. c \in Seq(STRING) /\ DOMAIN c = 1 .. n
    BY <1>1, <2>1
  <2> HIDE DEF n, c
  <2>3. Len(c) = n
    BY <2>1, <2>2
  <2> QED
    BY <1>1, <2>3 DEF n, c
<1>3. /\ q.ok /\ q.type = "INSERT" /\ q.tableName = TableNames[t]
      /\ q.insertVals = Literals(r)
  BY <1>2, InsertParsed
<1>4. executeInsert(t, q)
  BY <1>3, StatementRuns
<1>5. q.insertVals \in Seq(Tokens)
  BY TextType, ParsedValues
<1>6. FilesOK(files) /\ FilesOK(view) /\ NoShorter(files, view)
  BY DEF executeSQL, PagesInv
<1> HIDE DEF q
<1>7. PICK new : /\ view' = [view EXCEPT ![t] = new]
                 /\ FileOK(t, new) /\ Inserted(t, q, new)
  BY <1>1, <1>4, <1>5, <1>6, InsertIs
<1>8. view'[t] = new
  BY <1>1, <1>6, <1>7 DEF FilesOK
<1>9. PICK rest \in Garbage, p \in 1 .. Len(new) :
        ReadBack(cols, InsertedRow(cols, q.insertVals, rest)) \in Range(RowsOf(cols, new[p]))
  BY <1>7 DEF Inserted
<1>10. InsertedRow(cols, q.insertVals, rest) = [i \in DOMAIN cols |-> Meant(r.vals[i])]
  <2>1. InsertedRow(cols, Literals(r), rest) = [i \in DOMAIN cols |-> Meant(r.vals[i])]
    BY InsertedAsAsked
  <2>2. q.insertVals = Literals(r)
    BY <1>3
  <2> HIDE DEF cols
  <2> QED
    BY <2>1, <2>2
<1> DEFINE row == ReadBack(cols, [i \in DOMAIN cols |-> Meant(r.vals[i])])
<1>11. row \in Range(RowsOf(Schemas[t], new[p]))
  BY <1>9, <1>10
<1> HIDE DEF row
<1>12. row \in Range(RowsIn(t, new))
  BY <1>1, <1>7, <1>11, RowInFile
<1> QED
  BY <1>8, <1>12 DEF row

(***************************************************************************)
(* For any schemas and requests: a row inserted with all of its values in  *)
(* the order of the schema, none of them with a sign, is in the table      *)
(* afterwards and reads back as it was given, texts cut to their columns.  *)
(***************************************************************************)
THEOREM InsertsReadBack == Spec => InsertReadsBack
<1> DEFINE Step ==
      \A r \in Requests :
        LET cols == Schemas[r.table]
        IN  /\ executeSQL(TextOf(r)) /\ r.kind = "INSERT"
            /\ r.cols = [i \in DOMAIN cols |-> cols[i].name]
            /\ \A i \in DOMAIN r.vals : Positive(r.vals[i])
            => ReadBack(cols, [i \in DOMAIN cols |-> Meant(r.vals[i])])
                 \in Range(RowsIn(r.table, view'[r.table]))
<1>1. PagesInv => Step
  BY InsertReads
<1>2. PagesInv /\ [Next]_vars => [Step]_vars
  <2> HIDE DEF Step
  <2> QED
    BY <1>1
<1>3. InsertReadsBack <=> [][Step]_vars
  BY DEF InsertReadsBack
<1> HIDE DEF Step
<1> QED
  BY <1>2, <1>3, PagesInvariant, PTL DEF Spec
=============================================================================
