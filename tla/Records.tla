------------------------------ MODULE Records -------------------------------
(***************************************************************************)
(* How rows lie in a page (storage/Page.h, Row.h, Field.h, the sizes of    *)
(* catalog/Schema.h): a page is PageSize bytes, a header with page number, *)
(* record count and link, then records of one size back to back.  Rows are *)
(* written and rewritten in place, by offset.                              *)
(*                                                                         *)
(* A text is the sequence of its characters, none of which is 0.  FLOAT    *)
(* columns, eight bytes copied as they are, are left out, and so are the   *)
(* longest texts of StringField (128): no column of Schema.h is that wide. *)
(***************************************************************************)
EXTENDS Integers, SequencesExt

CONSTANTS
  PageSize,    \* src: PAGE_SIZE, 4096
  PageHeader   \* src: PAGE_HEADER, 16

ASSUME RecordsAssumption ==
  PageSize \in Nat /\ PageSize <= 2147483647 /\ PageHeader \in 12 .. PageSize

\* A schema is the sequence of its columns: name, type and bytes.
IsSchema(cols) ==
  /\ cols \in Seq([name : STRING, type : {"INT", "STRING"}, size : Nat \ {0}]) /\ cols # << >>
  /\ \A i \in DOMAIN cols : cols[i].type = "INT" => cols[i].size = 4

\* What the fields of a row hold: int, and texts of characters other than 0.
Int32 == {n \in Int : -2147483647 - 1 <= n /\ n <= 2147483647}

Characters == 1 .. 255

Texts == Seq(Characters)

IsRow(cols, row) ==
  /\ DOMAIN row = DOMAIN cols
  /\ \A i \in DOMAIN cols : IF cols[i].type = "INT" THEN row[i] \in Int32 ELSE row[i] \in Texts

recordSize(cols) == FoldLeft(LAMBDA sum, col : sum + col.size, 0, cols)

recordsPerPage(cols) == (PageSize - PageHeader) \div recordSize(cols)

\* The position of a column of that name, 0 (src: -1) if there is none.
columnIndex(cols, name) == SelectInSeq(cols, LAMBDA col : col.name = name)

-----------------------------------------------------------------------------
(* Fields *)

\* Four bytes, the lowest first, of a number in two's complement.
IntBytes(n) ==
  <<n % 256, (n \div 256) % 256, (n \div 65536) % 256, (n \div 16777216) % 256>>

BytesInt(b) ==
  b[1] + 256 * b[2] + 65536 * b[3]
    + 16777216 * (IF b[4] < 128 THEN b[4] ELSE b[4] - 256)

\* Mutant of TextBytes: the last byte is not reserved for the NUL.
TextBytesFull(s, size) == [j \in 1 .. size |-> IF j <= Len(s) THEN s[j] ELSE 0]

\* A text, cut so that a NUL fits behind it, padded to the size of its column.
TextBytes(s, size) == [j \in 1 .. size |-> IF j <= Len(s) /\ j < size THEN s[j] ELSE 0]

\* Up to the first NUL.
BytesText(b) == LET nul == SelectInSeq(b, LAMBDA c : c = 0)
                IN  IF nul = 0 THEN b ELSE SubSeq(b, 1, nul - 1)

-----------------------------------------------------------------------------
(* Rows *)

serialize(cols, row) ==
  FlattenSeq([i \in DOMAIN cols |->
    IF cols[i].type = "INT" THEN IntBytes(row[i]) ELSE TextBytes(row[i], cols[i].size)])

deserialize(cols, bytes) ==
  [i \in DOMAIN cols |->
     LET at == recordSize(SubSeq(cols, 1, i - 1))
         b == SubSeq(bytes, at + 1, at + cols[i].size)
     IN  IF cols[i].type = "INT" THEN BytesInt(b) ELSE BytesText(b)]

-----------------------------------------------------------------------------
(* Pages *)

ReadBytes(page, off, n) == [k \in 1 .. n |-> page[off + k]]

WriteBytes(page, off, bytes) ==
  [k \in DOMAIN page |-> IF k - off \in 1 .. Len(bytes) THEN bytes[k - off] ELSE page[k]]

ZeroPage == [k \in 1 .. PageSize |-> 0]

\* Page number, record count, link.
initPage(pid) ==
  WriteBytes(WriteBytes(WriteBytes(ZeroPage, 0, IntBytes(pid)), 4, IntBytes(0)), 8, IntBytes(-1))

getRecordCount(page) == BytesInt(ReadBytes(page, 4, 4))

SetRecordCount(page, n) == WriteBytes(page, 4, IntBytes(n))

isFull(cols, page) == getRecordCount(page) >= recordsPerPage(cols)

\* Where record i of a page starts, from 0.
Offset(cols, i) == PageHeader + i * recordSize(cols)

\* Mutant of PutRow: the header is not skipped.
PutRowNoHeader(cols, page, i, row) ==
  WriteBytes(page, i * recordSize(cols), serialize(cols, row))

PutRow(cols, page, i, row) == WriteBytes(page, Offset(cols, i), serialize(cols, row))

\* The page after appendRow, which its callers tried or found not to be full.
appendRow(cols, page, row) ==
  LET cnt == getRecordCount(page)
  IN  SetRecordCount(PutRow(cols, page, cnt, row), cnt + 1)

getRow(cols, page, i) == deserialize(cols, ReadBytes(page, Offset(cols, i), recordSize(cols)))

\* The rows of a page, in order.
RowsOf(cols, page) == [i \in 1 .. getRecordCount(page) |-> getRow(cols, page, i - 1)]
=============================================================================
