----------------------------- MODULE PageStore ------------------------------
(***************************************************************************)
(* What the buffer pool promises to the code above it.  Every page has one *)
(* current content, the one the program sees (view), and the table files   *)
(* hold a possibly older one (durable).  Modified pages may reach their    *)
(* file at any moment the pool likes; when the process stops, whatever has *)
(* not reached a file is gone, and nothing else is.                        *)
(*                                                                         *)
(* There are no frames, no replacement policy and no pointers here:        *)
(* BufferPool implements this specification, HeapTable runs on top of it.  *)
(***************************************************************************)
EXTENDS DiskManager

CONSTANTS
  Tables,     \* tables, each with a file of its own
  PageIds,    \* page numbers the program may touch
  Contents    \* what a page can hold, Blank among them

VARIABLES
  durable,    \* durable[t]: the pages in the file of t
  view,       \* view[t][p]: the content the program sees
  dirty       \* pages whose view is not known to be in their file

vars == <<durable, view, dirty>>

TypeOK ==
  /\ durable \in [Tables -> Seq(Contents)]
  /\ view \in [Tables -> [PageIds -> Contents]]
  /\ dirty \subseteq Tables \X PageIds

\* The view of a process that has just opened the files.
FreshView(files) == [t \in Tables |-> [p \in PageIds |-> readPage(files[t], p)]]

Init ==
  /\ durable \in [Tables -> Seq(Contents)]
  /\ view = FreshView(durable)
  /\ dirty = {}

\* fetchPage, a write through the returned pointer, markDirty.
Modify(t, p, content) ==
  /\ UNCHANGED durable
  /\ dirty' = dirty \union {<<t, p>>}
  /\ view' = [view EXCEPT ![t][p] = content]

\* An eviction or a flush writes one modified page to its file.
WriteBack(t, p) ==
  /\ <<t, p>> \in dirty
  /\ durable' = [durable EXCEPT ![t] = writePage(@, p, view[t][p])]
  /\ dirty' = dirty \ {<<t, p>>}
  /\ UNCHANGED view

\* The process ends, in good order or not, and a new one starts.
Restart ==
  /\ UNCHANGED durable
  /\ dirty' = {}
  /\ view' = FreshView(durable)

Next ==
  \/ \E t \in Tables, p \in PageIds :
       \/ \E c \in Contents : Modify(t, p, c)
       \/ WriteBack(t, p)
  \/ Restart

Spec == Init /\ [][Next]_vars

(***************************************************************************)
(* A page that is not dirty reads the same from the file and through the   *)
(* pool (BufferPool.h:122-137 drops clean pages without writing them).     *)
(***************************************************************************)
CleanPagesAreDurable ==
  \A t \in Tables, p \in PageIds :
    <<t, p>> \notin dirty => view[t][p] = readPage(durable[t], p)
=============================================================================
