---------------------------- MODULE DiskManager ----------------------------
(***************************************************************************)
(* A table file as DiskManager.h sees it: the sequence of its pages, page  *)
(* p of the program at index p + 1.  DiskManager is stateless: every call  *)
(* opens the file, seeks to p * PAGE_SIZE, transfers one page and closes.  *)
(* What a page holds is left to the modules that extend this one.          *)
(***************************************************************************)
EXTENDS Naturals, Sequences

CONSTANT Blank   \* A page without records: what Page::init leaves, and what
                 \* the zero bytes of a hole in the file read as.

pageCount(file) == Len(file)

(***************************************************************************)
(* What fetchPage loads: the page of the file, or the freshly initialised  *)
(* page when the file ends before it.                                      *)
(***************************************************************************)
readPage(file, p) == IF p < pageCount(file) THEN file[p + 1] ELSE Blank

(***************************************************************************)
(* Seek and write.  Writing beyond the end extends the file, and a gap     *)
(* between the old end and the written page is a hole of zero bytes.       *)
(***************************************************************************)
writePage(file, p, content) ==
  [i \in 1 .. (IF p < pageCount(file) THEN pageCount(file) ELSE p + 1) |->
     IF i = p + 1 THEN content
     ELSE IF i <= pageCount(file) THEN file[i] ELSE Blank]
=============================================================================
