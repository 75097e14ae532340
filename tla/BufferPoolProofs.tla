-------------------------- MODULE BufferPoolProofs --------------------------
(***************************************************************************)
(* Theorems about BufferPool, for every pool size, page count and set of   *)
(* tables whose page keys are distinct: its structures agree; it loses     *)
(* nothing and implements PageStore while writes succeed; it holds the     *)
(* pages used last.  For every hash factor, the pointers of the recency    *)
(* list spell the sequence, and the hash chains hold the map, that         *)
(* BufferPool has in their place.                                          *)
(***************************************************************************)
EXTENDS PoolStructures, BufferPoolRecency, FiniteSetTheorems, TLAPS

-----------------------------------------------------------------------------
(* Table files *)

(***************************************************************************)
(* DiskManager::readPage yields a page content for any page number.        *)
(***************************************************************************)
LEMMA ReadPageType ==
  ASSUME NEW file \in Seq(Contents), NEW p \in Nat
  PROVE  readPage(file, p) \in Contents
  BY BufferPoolAssumption DEF readPage, pageCount

(***************************************************************************)
(* DiskManager::writePage leaves a file made of pages, holes included.     *)
(***************************************************************************)
LEMMA WritePageType ==
  ASSUME NEW file \in Seq(Contents), NEW p \in Nat, NEW c \in Contents
  PROVE  writePage(file, p, c) \in Seq(Contents)
<1> DEFINE n == IF p < Len(file) THEN Len(file) ELSE p + 1
<1>1. n \in Nat
  OBVIOUS
<1>2. writePage(file, p, c) \in [1 .. n -> Contents]
  BY BufferPoolAssumption DEF writePage, pageCount
<1> QED
  BY <1>1, <1>2

(***************************************************************************)
(* A page that was written reads back, and no other page changes.          *)
(***************************************************************************)
LEMMA ReadAfterWrite ==
  ASSUME NEW file \in Seq(Contents), NEW p \in Nat, NEW q \in Nat, NEW c \in Contents
  PROVE  readPage(writePage(file, p, c), q) = IF q = p THEN c ELSE readPage(file, q)
<1> DEFINE n == IF p < Len(file) THEN Len(file) ELSE p + 1
           w == writePage(file, p, c)
<1>1. n \in Nat /\ n >= Len(file) /\ n >= p + 1
  OBVIOUS
<1>2. w = [i \in 1 .. n |-> IF i = p + 1 THEN c
                            ELSE IF i <= Len(file) THEN file[i] ELSE Blank]
  BY DEF writePage, pageCount
<1>3. Len(w) = n
  BY <1>1, <1>2
<1>4. CASE q < n
  <2>1. w[q + 1] = IF q + 1 = p + 1 THEN c
                   ELSE IF q + 1 <= Len(file) THEN file[q + 1] ELSE Blank
    BY <1>1, <1>2, <1>4
  <2>2. readPage(w, q) = w[q + 1]
    BY <1>3, <1>4 DEF readPage, pageCount
  <2> QED
    BY <2>1, <2>2, <1>1 DEF readPage, pageCount
<1>5. CASE ~(q < n)
  BY <1>1, <1>3, <1>5 DEF readPage, pageCount
<1> QED
  BY <1>4, <1>5

-----------------------------------------------------------------------------
(* Lists of frames *)

(***************************************************************************)
(* moveToFront keeps the length and the frames of the list, each once.     *)
(***************************************************************************)
LEMMA MoveToFrontPermutes ==
  ASSUME NEW list \in Seq(Frames), IsInjective(list), NEW f \in Range(list)
  PROVE  /\ MoveToFront(list, f) \in Seq(Frames)
         /\ IsInjective(MoveToFront(list, f))
         /\ Range(MoveToFront(list, f)) = Range(list)
<1> DEFINE n == Len(list)
           k == CHOOSE i \in DOMAIN list : list[i] = f
           m == MoveToFront(list, f)
<1>1. n \in Nat /\ DOMAIN list = 1 .. n /\ list \in [1 .. n -> Frames]
  OBVIOUS
<1>2. \E i \in DOMAIN list : list[i] = f
  BY DEF Range
<1>3. k \in 1 .. n /\ list[k] = f
  BY <1>1, <1>2
<1>4. m = [i \in 1 .. n |-> IF i = 1 THEN f ELSE IF i <= k THEN list[i - 1] ELSE list[i]]
  BY <1>1 DEF MoveToFront
<1> HIDE DEF k, m
<1>5. \A i \in 1 .. n : m[i] \in Range(list)
  BY <1>1, <1>3, <1>4 DEF Range
<1>6. m \in [1 .. n -> Frames]
  BY <1>1, <1>4, <1>5 DEF Range
<1>7. \A i \in 1 .. n : \E j \in 1 .. n : m[j] = list[i]
  <2> TAKE i \in 1 .. n
  <2>1. CASE i = k
    BY <2>1, <1>1, <1>3, <1>4
  <2>2. CASE i < k
    <3>1. i + 1 \in 1 .. n /\ m[i + 1] = list[i]
      BY <2>2, <1>1, <1>3, <1>4
    <3> QED
      BY <3>1
  <2>3. CASE i > k
    BY <2>3, <1>1, <1>3, <1>4
  <2> QED
    BY <2>1, <2>2, <2>3, <1>1, <1>3
<1>8. Range(m) = Range(list)
  <2>1. DOMAIN m = 1 .. n /\ DOMAIN list = 1 .. n
    BY <1>1, <1>4
  <2>2. Range(m) \subseteq Range(list)
    BY <2>1, <1>5 DEF Range
  <2>3. Range(list) \subseteq Range(m)
    BY <2>1, <1>7 DEF Range
  <2> QED
    BY <2>2, <2>3
<1>9. ASSUME NEW i \in 1 .. n, NEW j \in 1 .. n, m[i] = m[j]
      PROVE  i = j
  <2> DEFINE src(x) == IF x = 1 THEN k ELSE IF x <= k THEN x - 1 ELSE x
  <2>1. \A x \in 1 .. n : src(x) \in 1 .. n /\ m[x] = list[src(x)]
    BY <1>1, <1>3, <1>4
  <2>2. src(i) = src(j)
    BY <2>1, <1>1, <1>9 DEF IsInjective
  <2> QED
    BY <2>2, <1>1, <1>3
<1>10. IsInjective(m)
  BY <1>4, <1>9 DEF IsInjective
<1>11. m \in Seq(Frames)
  BY <1>1, <1>6
<1> QED
  BY <1>8, <1>10, <1>11 DEF m

(***************************************************************************)
(* popTail, and the pop of the free stack: the element leaves the list.    *)
(***************************************************************************)
LEMMA DropLast ==
  ASSUME NEW list \in Seq(Frames), IsInjective(list), list # << >>
  PROVE  /\ Last(list) \in Range(list)
         /\ Front(list) \in Seq(Frames)
         /\ IsInjective(Front(list))
         /\ Range(Front(list)) = Range(list) \ {Last(list)}
<1> DEFINE n == Len(list)
           g == Front(list)
<1>1. n \in Nat \ {0} /\ DOMAIN list = 1 .. n /\ list \in [1 .. n -> Frames]
  OBVIOUS
<1>2. Last(list) = list[n] /\ Last(list) \in Range(list)
  BY <1>1 DEF Last, Range
<1>3. g \in Seq(Frames) /\ Len(g) = n - 1 /\ \A i \in 1 .. n - 1 : g[i] = list[i]
  BY <1>1 DEF Front
<1>4. DOMAIN g = 1 .. n - 1
  BY <1>1, <1>3
<1> HIDE DEF g
<1>5. IsInjective(g)
  BY <1>1, <1>3, <1>4 DEF IsInjective
<1>6. \A i \in 1 .. n - 1 : list[i] # list[n]
  BY <1>1 DEF IsInjective
<1>7. Range(g) = Range(list) \ {list[n]}
  <2>1. Range(g) \subseteq Range(list) \ {list[n]}
    BY <1>1, <1>3, <1>4, <1>6 DEF Range
  <2>2. ASSUME NEW x \in Range(list), x # list[n]
        PROVE  x \in Range(g)
    <3>1. PICK i \in 1 .. n : list[i] = x
      BY <1>1 DEF Range
    <3>2. i \in 1 .. n - 1
      BY <3>1, <2>2, <1>1
    <3> QED
      BY <3>1, <3>2, <1>3, <1>4 DEF Range
  <2> QED
    BY <2>1, <2>2
<1> QED
  BY <1>2, <1>3, <1>5, <1>7 DEF g

(***************************************************************************)
(* pushFront of a frame that is not in the list.                           *)
(***************************************************************************)
LEMMA PushFrontAdds ==
  ASSUME NEW list \in Seq(Frames), IsInjective(list), NEW f \in Frames, f \notin Range(list)
  PROVE  /\ <<f>> \o list \in Seq(Frames)
         /\ IsInjective(<<f>> \o list)
         /\ Range(<<f>> \o list) = Range(list) \union {f}
<1> DEFINE n == Len(list)
           g == <<f>> \o list
<1>1. n \in Nat /\ DOMAIN list = 1 .. n
  OBVIOUS
<1>2. g \in Seq(Frames) /\ Len(g) = n + 1
  OBVIOUS
<1>3. DOMAIN g = 1 .. n + 1 /\ g[1] = f /\ \A i \in 1 .. n : g[i + 1] = list[i]
  BY <1>1, <1>2
<1> HIDE DEF g
<1>4. ASSUME NEW i \in 1 .. n + 1, i # 1
      PROVE  i - 1 \in 1 .. n /\ g[i] = list[i - 1]
  <2>1. i - 1 \in 1 .. n
    BY <1>1, <1>4
  <2>2. g[(i - 1) + 1] = list[i - 1]
    BY <2>1, <1>3
  <2> QED
    BY <2>1, <2>2, <1>1
<1>5. \A i \in 1 .. n : list[i] # f
  BY <1>1 DEF Range
<1>6. IsInjective(g)
  <2>1. SUFFICES ASSUME NEW i \in 1 .. n + 1, NEW j \in 1 .. n + 1, g[i] = g[j]
                 PROVE  i = j
    BY <1>3 DEF IsInjective
  <2>2. CASE i = 1 \/ j = 1
    BY <2>1, <2>2, <1>1, <1>3, <1>4, <1>5
  <2>3. CASE i # 1 /\ j # 1
    <3>1. i - 1 = j - 1
      BY <2>1, <2>3, <1>1, <1>4 DEF IsInjective
    <3> QED
      BY <3>1, <1>1
  <2> QED
    BY <2>2, <2>3
<1>7. Range(g) = Range(list) \union {f}
  <2>1. Range(g) \subseteq Range(list) \union {f}
    <3>1. ASSUME NEW i \in 1 .. n + 1
          PROVE  g[i] \in Range(list) \union {f}
      BY <1>1, <1>3, <1>4 DEF Range
    <3> QED
      BY <3>1, <1>3 DEF Range
  <2>2. f \in Range(g)
    BY <1>1, <1>3 DEF Range
  <2>3. ASSUME NEW x \in Range(list) PROVE x \in Range(g)
    <3>1. PICK i \in 1 .. n : list[i] = x
      BY <1>1 DEF Range
    <3>2. i + 1 \in 1 .. n + 1
      BY <1>1
    <3> QED
      BY <3>1, <3>2, <1>3 DEF Range
  <2> QED
    BY <2>1, <2>2, <2>3
<1> QED
  BY <1>2, <1>6, <1>7 DEF g

\* The list without its element at position j.
Without(list, j) == [i \in 1 .. Len(list) - 1 |-> IF i < j THEN list[i] ELSE list[i + 1]]

(***************************************************************************)
(* A list without one of its elements.                                     *)
(***************************************************************************)
LEMMA WithoutShape ==
  ASSUME NEW list \in Seq(Frames), IsInjective(list), NEW j \in DOMAIN list
  PROVE  /\ Without(list, j) \in Seq(Frames)
         /\ IsInjective(Without(list, j))
         /\ Range(Without(list, j)) = Range(list) \ {list[j]}
<1> DEFINE n == Len(list)
           g == Without(list, j)
           src(i) == IF i < j THEN i ELSE i + 1
<1>1. n \in Nat /\ DOMAIN list = 1 .. n /\ j \in 1 .. n /\ \A i \in 1 .. n : list[i] \in Frames
  OBVIOUS
<1>2. /\ DOMAIN g = 1 .. n - 1
      /\ \A i \in 1 .. n - 1 : src(i) \in 1 .. n /\ src(i) # j /\ g[i] = list[src(i)]
  BY <1>1 DEF Without
<1>3. g \in Seq(Frames)
  <2>1. g \in [1 .. n - 1 -> Frames]
    BY <1>1 DEF Without
  <2> QED
    BY <2>1, <1>1
<1>4. \A h, i \in 1 .. n - 1 : src(h) = src(i) => h = i
  BY <1>1
<1>5. \A h \in 1 .. n : h # j => \E i \in 1 .. n - 1 : src(i) = h
  <2> TAKE h \in 1 .. n
  <2> HAVE h # j
  <2>1. CASE h < j
    BY <2>1, <1>1
  <2>2. CASE h > j
    <3>1. h - 1 \in 1 .. n - 1 /\ src(h - 1) = h
      BY <2>2, <1>1
    <3> QED
      BY <3>1
  <2> QED
    BY <2>1, <2>2, <1>1
<1> HIDE DEF g, src
<1>6. IsInjective(g)
  BY <1>1, <1>2, <1>4 DEF IsInjective
<1>7. Range(g) = Range(list) \ {list[j]}
  <2>1. \A i \in 1 .. n - 1 : g[i] \in Range(list) \ {list[j]}
    BY <1>1, <1>2 DEF Range, IsInjective
  <2>2. ASSUME NEW h \in 1 .. n, list[h] # list[j]
        PROVE  list[h] \in Range(g)
    BY <2>2, <1>2, <1>5 DEF Range
  <2> QED
    BY <2>1, <2>2, <1>1, <1>2 DEF Range
<1> QED
  BY <1>3, <1>6, <1>7 DEF g

(***************************************************************************)
(* popTail takes the last element, moveToFront the one it is given.        *)
(***************************************************************************)
LEMMA FrontIsWithout ==
  ASSUME NEW list \in Seq(Frames), list # << >>
  PROVE  Front(list) = Without(list, Len(list))
<1>1. Len(list) \in Nat \ {0}
  OBVIOUS
<1>2. Front(list) = [i \in 1 .. Len(list) - 1 |-> list[i]]
  BY <1>1 DEF Front
<1> QED
  BY <1>1, <1>2 DEF Without

LEMMA MoveToFrontIsWithout ==
  ASSUME NEW list \in Seq(Frames), IsInjective(list), NEW j \in DOMAIN list
  PROVE  MoveToFront(list, list[j]) = <<list[j]>> \o Without(list, j)
<1> DEFINE n == Len(list)
           m == MoveToFront(list, list[j])
           w == Without(list, j)
           g == <<list[j]>> \o w
<1>1. n \in Nat /\ DOMAIN list = 1 .. n /\ j \in 1 .. n
  OBVIOUS
<1>2. (CHOOSE i \in DOMAIN list : list[i] = list[j]) = j
  BY DEF IsInjective
<1>3. m = [i \in 1 .. n |-> IF i = 1 THEN list[j]
                            ELSE IF i <= j THEN list[i - 1] ELSE list[i]]
  BY <1>1, <1>2 DEF MoveToFront
<1>4. w \in Seq(Frames) /\ Len(w) = n - 1
      /\ \A i \in 1 .. n - 1 : w[i] = IF i < j THEN list[i] ELSE list[i + 1]
  BY <1>1, WithoutShape DEF Without
<1> HIDE DEF w
<1>5. g \in Seq(Frames) /\ Len(g) = n /\ g \in [1 .. n -> Frames]
  <2>1. g \in Seq(Frames)
    BY <1>4
  <2>2. Len(g) = 1 + Len(w)
    BY <1>4
  <2>3. Len(g) = n
    BY <2>2, <1>1, <1>4
  <2> HIDE DEF g
  <2> QED
    BY <2>1, <2>3
<1>6. ASSUME NEW i \in 1 .. n
      PROVE  g[i] = m[i]
  <2>1. CASE i = 1
    BY <2>1, <1>1, <1>3, <1>4
  <2>2. CASE i # 1
    <3>1. i - 1 \in 1 .. n - 1 /\ g[i] = w[i - 1]
      BY <2>2, <1>1, <1>4
    <3>2. w[i - 1] = IF i - 1 < j THEN list[i - 1] ELSE list[i]
      BY <3>1, <1>4
    <3>3. i - 1 < j <=> i <= j
      BY <1>1
    <3> QED
      BY <2>2, <3>1, <3>2, <3>3, <1>3
  <2> QED
    BY <2>1, <2>2
<1>7. g = [i \in 1 .. n |-> g[i]] /\ m = [i \in 1 .. n |-> m[i]]
  <2> HIDE DEF g
  <2> QED
    BY <1>5, <1>3
<1> HIDE DEF g, m
<1>8. g = m
  BY <1>6, <1>7
<1> QED
  BY <1>8 DEF g, m, w

-----------------------------------------------------------------------------
(* The structural invariant of the pool *)

(***************************************************************************)
(* A null pointer is no frame.                                             *)
(***************************************************************************)
LEMMA NullIsNoFrame == NoFrame \notin Frames
  BY BufferPoolAssumption DEF Frames, NoFrame

(***************************************************************************)
(* makePageKey yields a 32-bit key.                                        *)
(***************************************************************************)
LEMMA KeyType ==
  ASSUME NEW t \in Tables, NEW p \in PageIds
  PROVE  makePageKey(t, p) \in PageKeys
<1>1. TableHash[t] \in Nat /\ p \in Nat /\ KeyRadix \in Nat /\ KeyMod \in Nat \ {0}
  BY BufferPoolAssumption DEF PageIds
<1>2. TableHash[t] * KeyRadix \in Nat
  BY <1>1
<1>3. TableHash[t] * KeyRadix + p \in Nat
  BY <1>1, <1>2
<1>4. (TableHash[t] * KeyRadix + p) % KeyMod \in 0 .. KeyMod - 1
  BY <1>1, <1>3
<1> QED
  BY <1>4 DEF makePageKey, PageKeys

(***************************************************************************)
(* The free stack the constructor builds holds every frame once.           *)
(***************************************************************************)
LEMMA FreshStackHoldsFrames ==
  /\ FreshStack \in Seq(Frames)
  /\ IsInjective(FreshStack)
  /\ Range(FreshStack) = Frames
<1>1. Capacity \in Nat \ {0}
  BY BufferPoolAssumption
<1>2. FreshStack \in [1 .. Capacity -> Frames]
  BY <1>1 DEF FreshStack, Frames
<1>3. \A f \in Frames : Capacity - f \in 1 .. Capacity /\ FreshStack[Capacity - f] = f
  BY <1>1 DEF FreshStack, Frames
<1>4. IsInjective(FreshStack)
  BY <1>1 DEF FreshStack, IsInjective
<1>5. Range(FreshStack) = Frames
  BY <1>2, <1>3 DEF Range
<1> QED
  BY <1>1, <1>2, <1>4, <1>5

\* map finds exactly the frames of list, under the keys of their pages.
Indexes(map, list) ==
  /\ \A f \in Range(list) :
       /\ pages[f].isValid
       /\ frameInfos[f].table \in Tables
       /\ pages[f].pageId = frameInfos[f].pageId
       /\ map[makePageKey(frameInfos[f].table, frameInfos[f].pageId)] = f
  /\ \A k \in PageKeys : map[k] # NoFrame =>
       /\ map[k] \in Range(list)
       /\ k = makePageKey(frameInfos[map[k]].table, frameInfos[map[k]].pageId)

(***************************************************************************)
(* The frames in use hold pages of the tables, at the number their         *)
(* FrameInfo gives, and each is a frame.                                   *)
(***************************************************************************)
LEMMA FrameInUse ==
  ASSUME TypeOK, NEW map, NEW list \in Seq(Frames), Indexes(map, list),
         NEW f \in Range(list)
  PROVE  /\ f \in Frames
         /\ frameInfos[f].table \in Tables
         /\ frameInfos[f].pageId \in PageIds
         /\ pages[f].pageId = frameInfos[f].pageId
         /\ makePageKey(frameInfos[f].table, frameInfos[f].pageId) \in PageKeys
         /\ map[makePageKey(frameInfos[f].table, frameInfos[f].pageId)] = f
<1>1. f \in Frames
  BY DEF Range
<1>2. frameInfos[f].table \in Tables /\ pages[f].pageId = frameInfos[f].pageId
      /\ map[makePageKey(frameInfos[f].table, frameInfos[f].pageId)] = f
  BY DEF Indexes
<1>3. frameInfos[f].pageId \in PageIds
  BY <1>1, <1>2 DEF TypeOK, PageIds
<1> QED
  BY <1>1, <1>2, <1>3, KeyType

(***************************************************************************)
(* A written page leaves files made of pages.                              *)
(***************************************************************************)
LEMMA WrittenType ==
  ASSUME TypeOK, NEW f \in Frames, frameInfos[f].table \in Tables,
         pages[f].pageId \in Nat, NEW ok \in BOOLEAN
  PROVE  Written(f, ok) \in [Tables -> Seq(Contents)]
<1> DEFINE t == frameInfos[f].table
<1>1. writePage(disk[t], pages[f].pageId, pages[f].data) \in Seq(Contents)
  BY WritePageType DEF TypeOK
<1> QED
  BY <1>1 DEF Written, TypeOK

(***************************************************************************)
(* Loading a page into a frame outside the list, under a key the map does  *)
(* not hold: the frame joins the list and the map, and becomes the cursor. *)
(***************************************************************************)
LEMMA LoadKeepsStructure ==
  ASSUME TypeOK, NEW t \in Tables, NEW p \in PageIds, NEW f \in Frames,
         NEW files \in [Tables -> Seq(Contents)],
         NEW map \in [PageKeys -> Frames \union {NoFrame}],
         NEW list \in Seq(Frames), IsInjective(list), f \notin Range(list),
         Indexes(map, list), map[makePageKey(t, p)] = NoFrame,
         Load(f, t, p, files, map, list)
  PROVE  /\ pages' \in [Frames -> [pageId : PageIds \union {-1}, isDirty : BOOLEAN,
                                    isValid : BOOLEAN, data : Contents]]
         /\ frameInfos' \in [Frames -> [table : Tables \union {NoTable},
                                         pageId : PageIds \union {0}]]
         /\ frameMap' \in [PageKeys -> Frames \union {NoFrame}]
         /\ lruList' \in Seq(Frames)
         /\ cursor' \in [frame : Frames \union {NoFrame}, table : Tables \union {NoTable},
                          pageId : PageIds \union {0}]
         /\ IsInjective(lruList')
         /\ Range(lruList') = Range(list) \union {f}
         /\ \A g \in Frames \ {f} : pages'[g] = pages[g]
         /\ MapMatchesFrames'
         /\ CursorValid'
<1> DEFINE key == makePageKey(t, p)
           page == [pageId |-> p, isDirty |-> FALSE, isValid |-> TRUE,
                    data |-> readPage(files[t], p)]
<1>1. key \in PageKeys
  BY KeyType
<1>2. readPage(files[t], p) \in Contents
  BY ReadPageType DEF PageIds
<1>3. /\ pages' = [pages EXCEPT ![f] = page]
      /\ frameInfos' = [frameInfos EXCEPT ![f] = [table |-> t, pageId |-> p]]
      /\ frameMap' = [map EXCEPT ![key] = f]
      /\ lruList' = <<f>> \o list
      /\ cursor' = [frame |-> f, table |-> t, pageId |-> p]
  BY DEF Load
<1>4. /\ lruList' \in Seq(Frames)
      /\ IsInjective(lruList')
      /\ Range(lruList') = Range(list) \union {f}
  BY <1>3, PushFrontAdds
<1>5. pages'[f] = page /\ \A g \in Frames \ {f} : pages'[g] = pages[g]
  BY <1>3 DEF TypeOK
<1>6. /\ frameInfos'[f] = [table |-> t, pageId |-> p]
      /\ \A g \in Frames \ {f} : frameInfos'[g] = frameInfos[g]
  BY <1>3 DEF TypeOK
<1>7. frameMap'[key] = f /\ \A k \in PageKeys \ {key} : frameMap'[k] = map[k]
  BY <1>1, <1>3
<1>8. pages' \in [Frames -> [pageId : PageIds \union {-1}, isDirty : BOOLEAN,
                             isValid : BOOLEAN, data : Contents]]
  BY <1>2, <1>3 DEF TypeOK
<1>9. /\ frameInfos' \in [Frames -> [table : Tables \union {NoTable},
                                      pageId : PageIds \union {0}]]
      /\ frameMap' \in [PageKeys -> Frames \union {NoFrame}]
      /\ cursor' \in [frame : Frames \union {NoFrame}, table : Tables \union {NoTable},
                       pageId : PageIds \union {0}]
  BY <1>1, <1>3 DEF TypeOK
<1>10. ASSUME NEW g \in Range(lruList')
       PROVE  /\ pages'[g].isValid
              /\ frameInfos'[g].table \in Tables
              /\ pages'[g].pageId = frameInfos'[g].pageId
              /\ frameMap'[makePageKey(frameInfos'[g].table, frameInfos'[g].pageId)] = g
  <2>1. CASE g = f
    BY <2>1, <1>5, <1>6, <1>7
  <2>2. CASE g # f
    <3>1. g \in Range(list)
      BY <2>2, <1>4
    <3>2. pages[g].isValid /\ frameInfos[g].table \in Tables
          /\ pages[g].pageId = frameInfos[g].pageId
      BY <3>1 DEF Indexes
    <3>3. /\ g \in Frames
          /\ makePageKey(frameInfos[g].table, frameInfos[g].pageId) \in PageKeys
          /\ map[makePageKey(frameInfos[g].table, frameInfos[g].pageId)] = g
      BY <3>1, FrameInUse
    <3>4. makePageKey(frameInfos[g].table, frameInfos[g].pageId) # key
      BY <3>3 DEF NoFrame, Frames
    <3> QED
      BY <2>2, <3>2, <3>3, <3>4, <1>5, <1>6, <1>7
  <2> QED
    BY <2>1, <2>2
<1>11. ASSUME NEW k \in PageKeys, frameMap'[k] # NoFrame
       PROVE  /\ frameMap'[k] \in Range(lruList')
              /\ k = makePageKey(frameInfos'[frameMap'[k]].table,
                                 frameInfos'[frameMap'[k]].pageId)
  <2>1. CASE k = key
    BY <2>1, <1>4, <1>6, <1>7
  <2>2. CASE k # key
    <3>1. frameMap'[k] = map[k]
      BY <2>2, <1>7
    <3>2. /\ map[k] \in Range(list)
          /\ k = makePageKey(frameInfos[map[k]].table, frameInfos[map[k]].pageId)
      BY <3>1, <1>11 DEF Indexes
    <3>3. map[k] \in Frames \ {f}
      BY <3>2 DEF Range
    <3> QED
      BY <3>1, <3>2, <3>3, <1>4, <1>6
  <2> QED
    BY <2>1, <2>2
<1>12. MapMatchesFrames'
  BY <1>10, <1>11 DEF MapMatchesFrames
<1>13. CursorValid'
  BY <1>3, <1>4, <1>6 DEF CursorValid
<1> QED
  BY <1>4, <1>5, <1>8, <1>9, <1>12, <1>13

\* The variables of a process that has just started.
FreshPool ==
  /\ disk \in [Tables -> Seq(Contents)]
  /\ pages = FreshPages /\ frameInfos = FreshInfos /\ frameMap = FreshMap
  /\ lruList = << >> /\ freeFrames = FreshStack
  /\ cursor = NoCursor /\ flush = NoFlush

(***************************************************************************)
(* The pool of a new process satisfies the structural invariant.           *)
(***************************************************************************)
LEMMA FreshPoolInv == FreshPool => PoolInv
<1> SUFFICES ASSUME FreshPool PROVE PoolInv
  OBVIOUS
<1> USE DEF FreshPool
<1>1. TypeOK
  <2>1. Capacity \in 0 .. Capacity /\ Blank \in Contents
    BY BufferPoolAssumption
  <2>2. pages \in [Frames -> [pageId : PageIds \union {-1}, isDirty : BOOLEAN,
                              isValid : BOOLEAN, data : Contents]]
    BY <2>1 DEF FreshPages, EmptyPage
  <2> QED
    BY <2>1, <2>2, FreshStackHoldsFrames
    DEF TypeOK, FreshInfos, EmptyInfo, FreshMap, NoCursor, NoFlush
<1>2. Range(lruList) = {} /\ IsInjective(lruList)
  BY DEF Range, IsInjective
<1>3. FrameAccounting
  BY <1>2, FreshStackHoldsFrames DEF FrameAccounting, FreshPages
<1>4. MapMatchesFrames
  BY <1>2 DEF MapMatchesFrames, FreshMap
<1>5. CursorValid
  BY DEF CursorValid, NoCursor
<1> QED
  BY <1>1, <1>3, <1>4, <1>5 DEF PoolInv

(***************************************************************************)
(* Files bounded as Init bounds them are files.                            *)
(***************************************************************************)
LEMMA InitIsFresh == Init => FreshPool
<1>1. MaxPages \in Nat
  BY BufferPoolAssumption
<1>2. BoundedSeq(Contents, MaxPages) \subseteq Seq(Contents)
  BY <1>1 DEF BoundedSeq, SeqOf
<1> QED
  BY <1>2 DEF Init, FreshPool

(***************************************************************************)
(* evictLRU: the frame at the tail leaves the list and the map, and a page *)
(* that is not in the pool is still not in the map.                        *)
(***************************************************************************)
LEMMA EvictKeepsStructure ==
  ASSUME PoolInv, freeFrames = << >>
  PROVE  /\ Last(lruList) \in Range(lruList)
         /\ Front(lruList) \in Seq(Frames)
         /\ IsInjective(Front(lruList))
         /\ Range(Front(lruList)) = Range(lruList) \ {Last(lruList)}
         /\ Range(lruList) = Frames
         /\ Unmapped(Last(lruList)) \in [PageKeys -> Frames \union {NoFrame}]
         /\ Indexes(Unmapped(Last(lruList)), Front(lruList))
         /\ \A k \in PageKeys :
               frameMap[k] = NoFrame => Unmapped(Last(lruList))[k] = NoFrame
<1> DEFINE victim == Last(lruList)
           oldKey == makePageKey(frameInfos[victim].table, frameInfos[victim].pageId)
           map == Unmapped(victim)
<1>1. Range(lruList) = Frames
  BY DEF PoolInv, FrameAccounting, Range
<1>2. lruList \in Seq(Frames) /\ IsInjective(lruList) /\ lruList # << >>
  <2>1. 0 \in Frames
    BY BufferPoolAssumption DEF Frames
  <2> QED
    BY <1>1, <2>1 DEF PoolInv, TypeOK, FrameAccounting, Range
<1>3. /\ victim \in Range(lruList)
      /\ Front(lruList) \in Seq(Frames)
      /\ IsInjective(Front(lruList))
      /\ Range(Front(lruList)) = Range(lruList) \ {victim}
  BY <1>2, DropLast
<1>4. TypeOK /\ Indexes(frameMap, lruList)
  BY DEF PoolInv, MapMatchesFrames, Indexes
<1>5. victim \in Frames /\ oldKey \in PageKeys /\ frameMap[oldKey] = victim
  BY <1>2, <1>3, <1>4, FrameInUse
<1>6. map = [frameMap EXCEPT ![oldKey] = NoFrame]
  BY DEF Unmapped
<1>7. /\ map \in [PageKeys -> Frames \union {NoFrame}]
      /\ map[oldKey] = NoFrame
      /\ \A k \in PageKeys \ {oldKey} : map[k] = frameMap[k]
  BY <1>4, <1>5, <1>6 DEF TypeOK
<1> HIDE DEF map, victim
<1>8. ASSUME NEW g \in Range(Front(lruList))
      PROVE  /\ pages[g].isValid
             /\ frameInfos[g].table \in Tables
             /\ pages[g].pageId = frameInfos[g].pageId
             /\ map[makePageKey(frameInfos[g].table, frameInfos[g].pageId)] = g
  <2>1. g \in Range(lruList) /\ g # victim
    BY <1>3
  <2>2. /\ makePageKey(frameInfos[g].table, frameInfos[g].pageId) \in PageKeys
        /\ frameMap[makePageKey(frameInfos[g].table, frameInfos[g].pageId)] = g
    BY <2>1, <1>2, <1>4, FrameInUse
  <2>3. makePageKey(frameInfos[g].table, frameInfos[g].pageId) # oldKey
    BY <2>1, <2>2, <1>5
  <2> QED
    BY <2>1, <2>2, <2>3, <1>4, <1>7 DEF Indexes
<1>9. ASSUME NEW k \in PageKeys, map[k] # NoFrame
      PROVE  /\ map[k] \in Range(Front(lruList))
             /\ k = makePageKey(frameInfos[map[k]].table, frameInfos[map[k]].pageId)
  <2>1. k # oldKey /\ map[k] = frameMap[k]
    BY <1>7, <1>9
  <2>2. /\ frameMap[k] \in Range(lruList)
        /\ k = makePageKey(frameInfos[frameMap[k]].table, frameInfos[frameMap[k]].pageId)
    BY <2>1, <1>4, <1>9 DEF Indexes
  <2>3. frameMap[k] # victim
    BY <2>1, <2>2
  <2> QED
    BY <2>1, <2>2, <2>3, <1>3
<1>10. Indexes(map, Front(lruList))
  BY <1>8, <1>9 DEF Indexes
<1> QED
  BY <1>1, <1>3, <1>5, <1>7, <1>10 DEF map, victim

(***************************************************************************)
(* Every operation of the pool keeps the structural invariant.             *)
(***************************************************************************)
LEMMA NextKeepsInv == PoolInv /\ [Next]_vars => PoolInv'
<1> SUFFICES ASSUME PoolInv, [Next]_vars PROVE PoolInv'
  OBVIOUS
<1> USE DEF PoolInv
<1>0. TypeOK /\ Indexes(frameMap, lruList)
  BY DEF MapMatchesFrames, Indexes
<1>1. ASSUME NEW t \in Tables, NEW p \in PageIds, FetchHit(t, p)
      PROVE  PoolInv'
  <2> DEFINE key == makePageKey(t, p)
             f == frameMap[key]
  <2>1. key \in PageKeys
    BY KeyType
  <2>2. f # NoFrame /\ f \in Range(lruList)
        /\ key = makePageKey(frameInfos[f].table, frameInfos[f].pageId)
    BY <1>1, <1>0, <2>1 DEF FetchHit, Indexes
  <2>3. /\ lruList' \in Seq(Frames)
        /\ IsInjective(lruList')
        /\ Range(lruList') = Range(lruList)
    BY <1>1, <2>2, MoveToFrontPermutes DEF FetchHit, TypeOK, FrameAccounting
  <2>4. /\ UNCHANGED <<disk, pages, frameInfos, frameMap, freeFrames, flush>>
        /\ cursor' = [frame |-> f, table |-> t, pageId |-> p]
    BY <1>1 DEF FetchHit
  <2>5. f \in Frames /\ frameInfos[f].table \in Tables /\ frameInfos[f].pageId \in PageIds
    BY <1>0, <2>2, FrameInUse DEF TypeOK
  <2>6. frameInfos[f].table = t /\ frameInfos[f].pageId = p
    BY <2>2, <2>5, PageKeysDistinct
  <2>7. TypeOK'
    BY <2>3, <2>4, <2>5 DEF TypeOK
  <2>8. FrameAccounting'
    BY <2>3, <2>4 DEF FrameAccounting
  <2>9. MapMatchesFrames'
    BY <2>3, <2>4 DEF MapMatchesFrames
  <2>10. CursorValid'
    <3>1. frameInfos[f] = [table |-> t, pageId |-> p]
      BY <2>5, <2>6 DEF TypeOK
    <3> QED
      BY <3>1, <2>2, <2>3, <2>4 DEF CursorValid
  <2> QED
    BY <2>7, <2>8, <2>9, <2>10
<1>2. ASSUME NEW t \in Tables, NEW p \in PageIds, FetchMissFree(t, p)
      PROVE  PoolInv'
  <2> DEFINE f == Last(freeFrames)
  <2>1. /\ f \in Range(freeFrames)
        /\ freeFrames' \in Seq(Frames)
        /\ IsInjective(freeFrames')
        /\ Range(freeFrames') = Range(freeFrames) \ {f}
    BY <1>2, DropLast DEF FetchMissFree, TypeOK, FrameAccounting
  <2>2. f \in Frames /\ f \notin Range(lruList)
    BY <2>1 DEF FrameAccounting, TypeOK, Range
  <2>3. /\ Load(f, t, p, disk, frameMap, lruList)
        /\ frameMap[makePageKey(t, p)] = NoFrame
        /\ UNCHANGED <<disk, flush>>
    BY <1>2 DEF FetchMissFree
  <2>4. /\ pages' \in [Frames -> [pageId : PageIds \union {-1}, isDirty : BOOLEAN,
                                   isValid : BOOLEAN, data : Contents]]
        /\ frameInfos' \in [Frames -> [table : Tables \union {NoTable},
                                        pageId : PageIds \union {0}]]
        /\ frameMap' \in [PageKeys -> Frames \union {NoFrame}]
        /\ lruList' \in Seq(Frames)
        /\ cursor' \in [frame : Frames \union {NoFrame}, table : Tables \union {NoTable},
                         pageId : PageIds \union {0}]
        /\ IsInjective(lruList')
        /\ Range(lruList') = Range(lruList) \union {f}
        /\ \A g \in Frames \ {f} : pages'[g] = pages[g]
        /\ MapMatchesFrames'
        /\ CursorValid'
    <3>1. /\ disk \in [Tables -> Seq(Contents)]
          /\ frameMap \in [PageKeys -> Frames \union {NoFrame}]
          /\ lruList \in Seq(Frames) /\ IsInjective(lruList)
      BY DEF TypeOK, FrameAccounting
    <3> QED
      BY <3>1, <2>2, <2>3, <1>0, LoadKeepsStructure
  <2>5. TypeOK'
    BY <2>1, <2>3, <2>4 DEF TypeOK
  <2>6. FrameAccounting'
    <3>1. \A g \in Range(freeFrames') : g \in Frames \ {f} /\ pages'[g] = EmptyPage
      BY <2>1, <2>4 DEF FrameAccounting, TypeOK, Range
    <3> QED
      BY <3>1, <2>1, <2>4 DEF FrameAccounting
  <2> QED
    BY <2>4, <2>5, <2>6
<1>3. ASSUME NEW t \in Tables, NEW p \in PageIds, FetchMissEvict(t, p)
      PROVE  PoolInv'
  <2> DEFINE victim == Last(lruList)
  <2>1. /\ freeFrames = << >>
        /\ frameMap[makePageKey(t, p)] = NoFrame
        /\ IF pages[victim].isDirty
           THEN \E ok \in WriteOutcomes : disk' = Written(victim, ok)
           ELSE UNCHANGED disk
        /\ Load(victim, t, p, disk', Unmapped(victim), Front(lruList))
        /\ UNCHANGED <<freeFrames, flush>>
    BY <1>3 DEF FetchMissEvict
  <2>2. /\ victim \in Range(lruList)
        /\ Front(lruList) \in Seq(Frames)
        /\ IsInjective(Front(lruList))
        /\ Range(Front(lruList)) = Range(lruList) \ {victim}
        /\ Range(lruList) = Frames
        /\ Unmapped(victim) \in [PageKeys -> Frames \union {NoFrame}]
        /\ Indexes(Unmapped(victim), Front(lruList))
        /\ \A k \in PageKeys : frameMap[k] = NoFrame => Unmapped(victim)[k] = NoFrame
    BY <2>1, EvictKeepsStructure
  <2>3. disk' \in [Tables -> Seq(Contents)]
    <3>1. /\ victim \in Frames
          /\ frameInfos[victim].table \in Tables
          /\ pages[victim].pageId \in Nat
      BY <1>0, <2>2, FrameInUse DEF TypeOK, PageIds
    <3>2. \A ok \in WriteOutcomes : Written(victim, ok) \in [Tables -> Seq(Contents)]
      BY <3>1, <1>0, WrittenType, BufferPoolAssumption
    <3> QED
      BY <3>2, <2>1 DEF TypeOK
  <2>4. Unmapped(victim)[makePageKey(t, p)] = NoFrame
    BY <2>1, <2>2, KeyType
  <2>5. /\ pages' \in [Frames -> [pageId : PageIds \union {-1}, isDirty : BOOLEAN,
                                   isValid : BOOLEAN, data : Contents]]
        /\ frameInfos' \in [Frames -> [table : Tables \union {NoTable},
                                        pageId : PageIds \union {0}]]
        /\ frameMap' \in [PageKeys -> Frames \union {NoFrame}]
        /\ lruList' \in Seq(Frames)
        /\ cursor' \in [frame : Frames \union {NoFrame}, table : Tables \union {NoTable},
                         pageId : PageIds \union {0}]
        /\ IsInjective(lruList')
        /\ Range(lruList') = Range(Front(lruList)) \union {victim}
        /\ MapMatchesFrames'
        /\ CursorValid'
    <3>1. victim \in Frames /\ victim \notin Range(Front(lruList))
      BY <2>2
    <3> HIDE DEF victim
    <3> QED
      BY <3>1, <1>0, <2>1, <2>2, <2>3, <2>4, LoadKeepsStructure
  <2>6. TypeOK'
    BY <2>1, <2>3, <2>5 DEF TypeOK
  <2>7. FrameAccounting'
    <3>1. freeFrames' = << >> /\ Range(freeFrames') = {} /\ IsInjective(freeFrames')
      BY <2>1 DEF Range, IsInjective
    <3>2. Range(lruList') = Frames
      BY <2>2, <2>5
    <3> QED
      BY <3>1, <3>2, <2>5 DEF FrameAccounting
  <2> QED
    BY <2>5, <2>6, <2>7
<1>4. ASSUME NEW c \in Contents, markDirty(c)
      PROVE  PoolInv'
  <2> DEFINE f == cursor.frame
             g == frameMap[makePageKey(cursor.table, cursor.pageId)]
  <2>1. /\ f # NoFrame
        /\ pages' = [h \in Frames |->
                       [pages[h] EXCEPT !.data = IF h = f THEN c ELSE @,
                                        !.isDirty = IF h = g THEN TRUE ELSE @]]
        /\ UNCHANGED <<disk, frameInfos, frameMap, lruList, freeFrames, cursor, flush>>
    BY <1>4 DEF markDirty
  <2>2. f \in Range(lruList) /\ f = g
    <3>1. f \in Range(lruList) /\ frameInfos[f] = [table |-> cursor.table,
                                                   pageId |-> cursor.pageId]
      BY <2>1 DEF CursorValid
    <3> QED
      BY <3>1, <1>0 DEF Indexes
  <2>3. \A h \in Frames : /\ pages'[h].pageId = pages[h].pageId
                          /\ pages'[h].isValid = pages[h].isValid
                          /\ h # f => pages'[h] = pages[h]
    <3> SUFFICES ASSUME NEW h \in Frames
                 PROVE  /\ pages'[h].pageId = pages[h].pageId
                        /\ pages'[h].isValid = pages[h].isValid
                        /\ h # f => pages'[h] = pages[h]
      OBVIOUS
    <3>1. pages[h] \in [pageId : PageIds \union {-1}, isDirty : BOOLEAN,
                        isValid : BOOLEAN, data : Contents]
      BY DEF TypeOK
    <3>2. pages'[h] = [pages[h] EXCEPT !.data = IF h = f THEN c ELSE @,
                                       !.isDirty = IF h = g THEN TRUE ELSE @]
      BY <2>1
    <3>3. g = f
      BY <2>2
    <3> HIDE DEF f, g
    <3>4. /\ pages'[h].pageId = pages[h].pageId
          /\ pages'[h].isValid = pages[h].isValid
      BY <3>1, <3>2
    <3>5. h # f => pages'[h] = pages[h]
      BY <3>1, <3>2, <3>3
    <3> QED
      BY <3>4, <3>5
  <2>4. TypeOK'
    <3>1. \A h \in Frames :
            [pages[h] EXCEPT !.data = IF h = f THEN c ELSE @,
                             !.isDirty = IF h = g THEN TRUE ELSE @]
              \in [pageId : PageIds \union {-1}, isDirty : BOOLEAN,
                   isValid : BOOLEAN, data : Contents]
      BY DEF TypeOK
    <3> QED
      BY <3>1, <2>1 DEF TypeOK
  <2>5. FrameAccounting'
    <3>1. \A h \in Range(freeFrames) : h \in Frames /\ h # f
      BY <2>2 DEF FrameAccounting
    <3> QED
      BY <3>1, <2>1, <2>3 DEF FrameAccounting
  <2>6. MapMatchesFrames'
    <3>1. \A h \in Range(lruList) : h \in Frames
      BY DEF FrameAccounting
    <3>2. UNCHANGED <<frameInfos, frameMap, lruList>>
      BY <2>1
    <3> QED
      BY <3>1, <3>2, <2>3 DEF MapMatchesFrames
  <2>7. CursorValid'
    BY <2>1 DEF CursorValid
  <2> QED
    BY <2>4, <2>5, <2>6, <2>7
<1>5. ASSUME NEW scope \in SUBSET Tables, NEW exit \in BOOLEAN, StartFlush(scope, exit)
      PROVE  PoolInv'
  <2>1. 0 \in 0 .. Capacity
    BY BufferPoolAssumption
  <2>2. /\ flush' = [at |-> 0, scope |-> scope, exit |-> exit]
        /\ UNCHANGED <<disk, pages, frameInfos, frameMap, lruList, freeFrames, cursor>>
    BY <1>5 DEF StartFlush
  <2> QED
    BY <2>1, <2>2 DEF TypeOK, FrameAccounting, MapMatchesFrames, CursorValid
<1>6. CASE FlushFrame
  <2> DEFINE f == flush.at
  <2>1. f \in Frames
    BY <1>6, BufferPoolAssumption DEF FlushFrame, TypeOK, Frames
  <2>2. flush' \in [at : 0 .. Capacity, scope : SUBSET Tables, exit : BOOLEAN]
    <3>1. f + 1 \in 0 .. Capacity /\ Capacity \in 0 .. Capacity
      BY <2>1, BufferPoolAssumption DEF Frames
    <3> QED
      BY <3>1, <1>6 DEF FlushFrame, TypeOK, NoFlush
  <2>3. UNCHANGED <<frameInfos, frameMap, lruList, freeFrames, cursor>>
    BY <1>6 DEF FlushFrame
  <2>4. CASE pages[f].isValid /\ pages[f].isDirty /\ frameInfos[f].table \in flush.scope
    <3>1. /\ \E ok \in WriteOutcomes : disk' = Written(f, ok)
          /\ pages' = [pages EXCEPT ![f].isDirty = FALSE]
      BY <1>6, <2>4 DEF FlushFrame
    <3>2. f \in Range(lruList)
      <4>1. pages[f] # EmptyPage
        BY <2>4 DEF EmptyPage
      <4> QED
        BY <4>1, <2>1 DEF FrameAccounting
    <3>3. disk' \in [Tables -> Seq(Contents)]
      <4>1. frameInfos[f].table \in Tables /\ pages[f].pageId \in Nat
        BY <1>0, <3>2, FrameInUse DEF TypeOK, PageIds
      <4>2. \A ok \in WriteOutcomes : Written(f, ok) \in [Tables -> Seq(Contents)]
        BY <4>1, <2>1, <1>0, WrittenType, BufferPoolAssumption
      <4> QED
        BY <4>2, <3>1
    <3>4. TypeOK'
      BY <3>1, <3>3, <2>2, <2>3 DEF TypeOK
    <3>5. \A h \in Frames : /\ pages'[h].pageId = pages[h].pageId
                            /\ pages'[h].isValid = pages[h].isValid
                            /\ h # f => pages'[h] = pages[h]
      BY <3>1, <2>1 DEF TypeOK
    <3>6. FrameAccounting'
      <4>1. \A h \in Range(freeFrames) : h \in Frames /\ h # f
        BY <3>2 DEF FrameAccounting
      <4> QED
        BY <4>1, <3>5, <2>3 DEF FrameAccounting
    <3>7. MapMatchesFrames'
      <4>1. \A h \in Range(lruList) : h \in Frames
        BY DEF FrameAccounting
      <4> QED
        BY <4>1, <3>5, <2>3 DEF MapMatchesFrames
    <3>8. CursorValid'
      BY <2>3 DEF CursorValid
    <3> QED
      BY <3>4, <3>6, <3>7, <3>8
  <2>5. CASE ~(pages[f].isValid /\ pages[f].isDirty /\ frameInfos[f].table \in flush.scope)
    <3>1. UNCHANGED <<disk, pages>>
      BY <1>6, <2>5 DEF FlushFrame
    <3> QED
      BY <3>1, <2>2, <2>3 DEF TypeOK, FrameAccounting, MapMatchesFrames, CursorValid
  <2> QED
    BY <2>4, <2>5
<1>7. CASE Reset
  <2>1. FreshPool'
    BY <1>7 DEF Reset, FreshPool, TypeOK, FreshPages, FreshInfos, FreshMap, FreshStack,
                NoCursor, NoFlush
  <2>2. FreshPool' => PoolInv'
    BY FreshPoolInv, PTL
  <2> QED
    BY <2>1, <2>2
<1>8. CASE UNCHANGED vars
  BY <1>8 DEF vars, TypeOK, FrameAccounting, MapMatchesFrames, CursorValid
<1> QED
  BY <1>1, <1>2, <1>3, <1>4, <1>5, <1>6, <1>7, <1>8
  DEF Next, fetchPage, Exit, Crash

(***************************************************************************)
(* The invariant holds in every reachable state.                           *)
(***************************************************************************)
THEOREM PoolInvariant == Spec => []PoolInv
<1>1. Init => PoolInv
  BY InitIsFresh, FreshPoolInv
<1> QED
  BY <1>1, NextKeepsInv, PTL DEF Spec

(***************************************************************************)
(* Every variable of the pool keeps its type.                              *)
(***************************************************************************)
THEOREM TypeCorrect == Spec => []TypeOK
<1>1. PoolInv => TypeOK
  BY DEF PoolInv
<1> QED
  BY <1>1, PoolInvariant, PTL

(***************************************************************************)
(* No frame of the pool is leaked or handed out twice.                     *)
(***************************************************************************)
THEOREM FramesAccountedFor == Spec => []FrameAccounting
<1>1. PoolInv => FrameAccounting
  BY DEF PoolInv
<1> QED
  BY <1>1, PoolInvariant, PTL

(***************************************************************************)
(* Hash map, frame table and pages always agree.                           *)
(***************************************************************************)
THEOREM MapAndFramesAgree == Spec => []MapMatchesFrames
<1>1. PoolInv => MapMatchesFrames
  BY DEF PoolInv
<1> QED
  BY <1>1, PoolInvariant, PTL

(***************************************************************************)
(* The pointer of the last fetchPage stays the page it was asked for.      *)
(***************************************************************************)
THEOREM CursorStaysValid == Spec => []CursorValid
<1>1. PoolInv => CursorValid
  BY DEF PoolInv
<1> QED
  BY <1>1, PoolInvariant, PTL

-----------------------------------------------------------------------------
(***************************************************************************)
(* What the pool promises its callers.  It loses nothing: its clean pages  *)
(* are the pages of the files, and it implements PageStore, as long as     *)
(* DiskManager::writePage succeeds.  The theorems state that condition,    *)
(* WriteOutcomes = {TRUE}, themselves: the code ignores the result of      *)
(* writePage, and without the condition they are false.  And it holds the  *)
(* pages used last, whatever the writes do.                                *)
(***************************************************************************)

Info(t, p) == [table |-> t, pageId |-> p]

(***************************************************************************)
(* Two frames in use never hold the same page, and the map leads from a    *)
(* resident page to the frame that was loaded for it.                      *)
(***************************************************************************)
LEMMA ResidentFrame ==
  ASSUME PoolInv, NEW t \in Tables, NEW p \in PageIds, Resident(t, p)
  PROVE  /\ frameMap[makePageKey(t, p)] \in Range(lruList)
         /\ frameMap[makePageKey(t, p)] \in Frames
         /\ frameInfos[frameMap[makePageKey(t, p)]] = Info(t, p)
<1> DEFINE k == makePageKey(t, p)
           f == frameMap[k]
<1>1. k \in PageKeys /\ f # NoFrame
  BY KeyType DEF Resident
<1>2. f \in Range(lruList) /\ k = makePageKey(frameInfos[f].table, frameInfos[f].pageId)
  BY <1>1 DEF PoolInv, MapMatchesFrames
<1>3. TypeOK /\ Indexes(frameMap, lruList) /\ lruList \in Seq(Frames)
  BY DEF PoolInv, MapMatchesFrames, Indexes, TypeOK
<1>4. f \in Frames /\ frameInfos[f].table \in Tables /\ frameInfos[f].pageId \in PageIds
  BY <1>2, <1>3, FrameInUse
<1>5. frameInfos[f].table = t /\ frameInfos[f].pageId = p
  BY <1>2, <1>4, PageKeysDistinct
<1> QED
  BY <1>2, <1>3, <1>4, <1>5 DEF TypeOK, Info

(***************************************************************************)
(* Conversely, a frame in use holds a resident page of some table.         *)
(***************************************************************************)
LEMMA FrameResident ==
  ASSUME PoolInv, NEW f \in Range(lruList)
  PROVE  /\ f \in Frames
         /\ frameInfos[f].table \in Tables
         /\ frameInfos[f].pageId \in PageIds
         /\ pages[f].pageId = frameInfos[f].pageId
         /\ frameMap[makePageKey(frameInfos[f].table, frameInfos[f].pageId)] = f
         /\ Resident(frameInfos[f].table, frameInfos[f].pageId)
<1>1. TypeOK /\ Indexes(frameMap, lruList) /\ lruList \in Seq(Frames)
  BY DEF PoolInv, MapMatchesFrames, Indexes, TypeOK
<1>2. /\ f \in Frames
      /\ frameInfos[f].table \in Tables
      /\ frameInfos[f].pageId \in PageIds
      /\ pages[f].pageId = frameInfos[f].pageId
      /\ frameMap[makePageKey(frameInfos[f].table, frameInfos[f].pageId)] = f
  BY <1>1, FrameInUse
<1> QED
  BY <1>2 DEF Resident, Frames, NoFrame

(***************************************************************************)
(* After the write of a frame in use its page reads as the frame has it,   *)
(* and every other page of every table reads as before.                    *)
(***************************************************************************)
LEMMA WrittenReads ==
  ASSUME PoolInv, NEW f \in Range(lruList), NEW t \in Tables, NEW p \in PageIds
  PROVE  readPage(Written(f, TRUE)[t], p) =
           IF frameInfos[f].table = t /\ frameInfos[f].pageId = p
           THEN pages[f].data ELSE readPage(disk[t], p)
<1> DEFINE u == frameInfos[f].table
           q == pages[f].pageId
<1>1. /\ f \in Frames /\ u \in Tables
      /\ q \in PageIds /\ q = frameInfos[f].pageId
  BY FrameResident
<1>2. /\ disk \in [Tables -> Seq(Contents)]
      /\ pages[f].data \in Contents
  BY <1>1 DEF PoolInv, TypeOK
<1>3. Written(f, TRUE) = [disk EXCEPT ![u] = writePage(disk[u], q, pages[f].data)]
  BY <1>1, <1>2 DEF Written
<1>4. CASE t = u
  <2>1. Written(f, TRUE)[t] = writePage(disk[t], q, pages[f].data)
    BY <1>2, <1>3, <1>4
  <2>2. p \in Nat /\ q \in Nat
    BY <1>1 DEF PageIds
  <2> HIDE DEF u, q
  <2>3. readPage(writePage(disk[t], q, pages[f].data), p) =
          IF p = q THEN pages[f].data ELSE readPage(disk[t], p)
    BY <1>2, <2>2, ReadAfterWrite
  <2> QED
    BY <2>1, <2>3, <1>1, <1>4 DEF u
<1>5. CASE t # u
  BY <1>1, <1>2, <1>3, <1>5
<1> QED
  BY <1>4, <1>5

-----------------------------------------------------------------------------
(* Clean pages *)

\* CleanPagesMatchDisk, frame by frame.
CleanFrames ==
  \A f \in Range(lruList) :
    ~pages[f].isDirty =>
      pages[f].data = readPage(disk[frameInfos[f].table], frameInfos[f].pageId)

(***************************************************************************)
(* Clean frames and clean pages are the same thing.                        *)
(***************************************************************************)
LEMMA CleanFramesSuffice == PoolInv /\ CleanFrames => CleanPagesMatchDisk
<1> SUFFICES ASSUME PoolInv, CleanFrames,
                    NEW t \in Tables, NEW p \in PageIds,
                    Resident(t, p), ~PageOf(t, p).isDirty
             PROVE  PageOf(t, p).data = readPage(disk[t], p)
  BY DEF CleanPagesMatchDisk
<1>1. /\ frameMap[makePageKey(t, p)] \in Range(lruList)
      /\ frameInfos[frameMap[makePageKey(t, p)]] = Info(t, p)
  BY ResidentFrame
<1> QED
  BY <1>1 DEF CleanFrames, PageOf, Info

(***************************************************************************)
(* Every operation keeps clean frames equal to their pages in the files.   *)
(***************************************************************************)
LEMMA NextKeepsClean ==
  ASSUME WriteOutcomes = {TRUE}, PoolInv, PoolInv', CleanFrames, [Next]_vars
  PROVE  CleanFrames'
<1>0. /\ TypeOK
      /\ Range(lruList) \subseteq Frames
      /\ Range(lruList)' \subseteq Frames
  BY DEF PoolInv, FrameAccounting
<1>1. ASSUME NEW t \in Tables, NEW p \in PageIds, FetchHit(t, p)
      PROVE  CleanFrames'
  <2>1. UNCHANGED <<disk, pages, frameInfos>>
    BY <1>1 DEF FetchHit
  <2>2. frameMap[makePageKey(t, p)] \in Range(lruList)
    BY <1>1, ResidentFrame DEF FetchHit, Resident
  <2>3. Range(lruList)' = Range(lruList)
    BY <1>1, <2>2, MoveToFrontPermutes DEF FetchHit, PoolInv, TypeOK, FrameAccounting
  <2> QED
    BY <2>1, <2>3 DEF CleanFrames
<1>2. ASSUME NEW t \in Tables, NEW p \in PageIds, FetchMissFree(t, p)
      PROVE  CleanFrames'
  <2> DEFINE f == Last(freeFrames)
  <2>1. Load(f, t, p, disk, frameMap, lruList) /\ UNCHANGED disk /\ freeFrames # << >>
    BY <1>2 DEF FetchMissFree
  <2>2. f \in Range(freeFrames)
    BY <2>1, DropLast DEF PoolInv, TypeOK, FrameAccounting
  <2>3. f \in Frames /\ f \notin Range(lruList)
    BY <2>2 DEF PoolInv, FrameAccounting
  <2>4. Range(lruList)' = Range(lruList) \union {f}
    BY <2>1, <2>3, PushFrontAdds DEF Load, PoolInv, TypeOK, FrameAccounting
  <2>5. /\ pages'[f].data = readPage(disk[t], p)
        /\ frameInfos'[f] = Info(t, p)
        /\ \A g \in Frames \ {f} : pages'[g] = pages[g] /\ frameInfos'[g] = frameInfos[g]
    BY <2>1, <2>3, <1>0 DEF Load, TypeOK, Info
  <2> QED
    BY <2>1, <2>3, <2>4, <2>5, <1>0 DEF CleanFrames, Info
<1>3. ASSUME NEW t \in Tables, NEW p \in PageIds, FetchMissEvict(t, p)
      PROVE  CleanFrames'
  <2> DEFINE f == Last(lruList)
  <2>1. /\ freeFrames = << >>
        /\ IF pages[f].isDirty THEN disk' = Written(f, TRUE) ELSE disk' = disk
        /\ Load(f, t, p, disk', Unmapped(f), Front(lruList))
    BY <1>3 DEF FetchMissEvict
  <2>2. f \in Range(lruList) /\ Range(lruList) = Frames
    BY <2>1, EvictKeepsStructure
  <2>3. /\ pages'[f].data = readPage(disk'[t], p)
        /\ frameInfos'[f] = Info(t, p)
        /\ \A g \in Frames \ {f} : pages'[g] = pages[g] /\ frameInfos'[g] = frameInfos[g]
    BY <2>1, <2>2, <1>0 DEF Load, TypeOK, Info
  <2> HIDE DEF f
  <2>4. ASSUME NEW g \in Frames \ {f}
        PROVE  readPage(disk'[frameInfos[g].table], frameInfos[g].pageId) =
               readPage(disk[frameInfos[g].table], frameInfos[g].pageId)
    <3>1. /\ frameInfos[g].table \in Tables /\ frameInfos[g].pageId \in PageIds
          /\ frameMap[makePageKey(frameInfos[g].table, frameInfos[g].pageId)] = g
          /\ frameMap[makePageKey(frameInfos[f].table, frameInfos[f].pageId)] = f
      BY <2>2, FrameResident
    <3>2. ~(frameInfos[f].table = frameInfos[g].table
            /\ frameInfos[f].pageId = frameInfos[g].pageId)
      BY <3>1
    <3> QED
      <4>1. readPage(Written(f, TRUE)[frameInfos[g].table], frameInfos[g].pageId) =
            readPage(disk[frameInfos[g].table], frameInfos[g].pageId)
        BY <3>1, <3>2, <2>2, WrittenReads
      <4> QED
        BY <4>1, <2>1
  <2>5. ASSUME NEW g \in Range(lruList)', ~pages'[g].isDirty
        PROVE  pages'[g].data = readPage(disk'[frameInfos'[g].table], frameInfos'[g].pageId)
    <3>1. CASE g = f
      BY <3>1, <2>3 DEF Info
    <3>2. CASE g # f
      BY <3>2, <2>2, <2>3, <2>4, <2>5, <1>0 DEF CleanFrames
    <3> QED
      BY <3>1, <3>2
  <2> QED
    BY <2>5 DEF CleanFrames
<1>4. ASSUME NEW c \in Contents, markDirty(c)
      PROVE  CleanFrames'
  <2> DEFINE f == cursor.frame
             h == frameMap[makePageKey(cursor.table, cursor.pageId)]
  <2>1. /\ f # NoFrame
        /\ pages' = [g \in Frames |->
                       [pages[g] EXCEPT !.data = IF g = f THEN c ELSE @,
                                        !.isDirty = IF g = h THEN TRUE ELSE @]]
        /\ UNCHANGED <<disk, frameInfos, frameMap, lruList>>
    BY <1>4 DEF markDirty
  <2>2. f = h
    <3>1. f \in Range(lruList) /\ frameInfos[f] = Info(cursor.table, cursor.pageId)
      BY <2>1 DEF PoolInv, CursorValid, Info
    <3> QED
      BY <3>1, FrameResident DEF Info
  <2> HIDE DEF f, h
  <2>3. ASSUME NEW g \in Frames
        PROVE  /\ pages'[g].data = IF g = f THEN c ELSE pages[g].data
               /\ pages'[g].isDirty = IF g = f THEN TRUE ELSE pages[g].isDirty
    <3>1. pages[g] \in [pageId : PageIds \union {-1}, isDirty : BOOLEAN,
                        isValid : BOOLEAN, data : Contents]
      BY <1>0 DEF TypeOK
    <3>2. pages'[g] = [pages[g] EXCEPT !.data = IF g = f THEN c ELSE @,
                                       !.isDirty = IF g = h THEN TRUE ELSE @]
      BY <2>1
    <3> QED
      BY <3>1, <3>2, <2>2
  <2> QED
    BY <2>1, <2>3, <1>0 DEF CleanFrames
<1>5. ASSUME NEW scope \in SUBSET Tables, NEW exit \in BOOLEAN, StartFlush(scope, exit)
      PROVE  CleanFrames'
  BY <1>5 DEF StartFlush, CleanFrames
<1>6. CASE FlushFrame
  <2> DEFINE f == flush.at
  <2>1. f \in Frames
    BY <1>6, <1>0, BufferPoolAssumption DEF FlushFrame, TypeOK, Frames
  <2>2. UNCHANGED <<frameInfos, lruList>>
    BY <1>6 DEF FlushFrame
  <2>3. CASE pages[f].isValid /\ pages[f].isDirty /\ frameInfos[f].table \in flush.scope
    <3>1. /\ disk' = Written(f, TRUE)
          /\ pages' = [pages EXCEPT ![f].isDirty = FALSE]
      BY <1>6, <2>3 DEF FlushFrame
    <3>2. f \in Range(lruList)
      <4>1. pages[f] # EmptyPage
        BY <2>3 DEF EmptyPage
      <4> QED
        BY <4>1, <2>1 DEF PoolInv, FrameAccounting
    <3>3. /\ \A g \in Frames : pages'[g].data = pages[g].data
          /\ \A g \in Frames \ {f} : pages'[g] = pages[g]
      BY <3>1, <2>1, <1>0 DEF TypeOK
    <3> HIDE DEF f
    <3>4. ASSUME NEW g \in Range(lruList), g # f
          PROVE  readPage(disk'[frameInfos[g].table], frameInfos[g].pageId) =
                 readPage(disk[frameInfos[g].table], frameInfos[g].pageId)
      <4>1. /\ frameInfos[g].table \in Tables /\ frameInfos[g].pageId \in PageIds
            /\ frameMap[makePageKey(frameInfos[g].table, frameInfos[g].pageId)] = g
            /\ frameMap[makePageKey(frameInfos[f].table, frameInfos[f].pageId)] = f
        BY <3>2, FrameResident
      <4>2. ~(frameInfos[f].table = frameInfos[g].table
              /\ frameInfos[f].pageId = frameInfos[g].pageId)
        BY <4>1, <3>4
      <4> QED
        BY <4>1, <4>2, <3>1, <3>2, WrittenReads
    <3>5. readPage(disk'[frameInfos[f].table], frameInfos[f].pageId) = pages[f].data
      <4>1. frameInfos[f].table \in Tables /\ frameInfos[f].pageId \in PageIds
        BY <3>2, FrameResident
      <4>2. readPage(Written(f, TRUE)[frameInfos[f].table], frameInfos[f].pageId) =
            pages[f].data
        BY <4>1, <3>2, WrittenReads
      <4> QED
        BY <4>2, <3>1
    <3>6. ASSUME NEW g \in Range(lruList), ~pages'[g].isDirty
          PROVE  pages'[g].data = readPage(disk'[frameInfos[g].table], frameInfos[g].pageId)
      <4>1. CASE g = f
        <5>1. pages'[f].data = pages[f].data
          BY <3>2, <3>3, <1>0
        <5> QED
          BY <4>1, <5>1, <3>5
      <4>2. CASE g # f
        <5>1. pages'[g] = pages[g]
          BY <4>2, <3>3, <3>6, <1>0
        <5>2. pages[g].data = readPage(disk[frameInfos[g].table], frameInfos[g].pageId)
          BY <5>1, <3>6 DEF CleanFrames
        <5> QED
          BY <5>1, <5>2, <4>2, <3>4
      <4> QED
        BY <4>1, <4>2
    <3> QED
      BY <3>6, <2>2 DEF CleanFrames
  <2>4. CASE ~(pages[f].isValid /\ pages[f].isDirty /\ frameInfos[f].table \in flush.scope)
    BY <1>6, <2>2, <2>4 DEF FlushFrame, CleanFrames
  <2> QED
    BY <2>3, <2>4
<1>7. CASE Reset
  <2>1. Range(lruList)' = {}
    BY <1>7 DEF Reset, Range
  <2> QED
    BY <2>1 DEF CleanFrames
<1>8. CASE UNCHANGED vars
  BY <1>8 DEF vars, CleanFrames
<1> QED
  BY <1>1, <1>2, <1>3, <1>4, <1>5, <1>6, <1>7, <1>8
  DEF Next, fetchPage, Exit, Crash

(***************************************************************************)
(* If writes succeed, dropping a clean page never loses anything: what the *)
(* pool shows of it is what the file holds, in every reachable state.      *)
(***************************************************************************)
THEOREM CleanPagesAreOnDisk ==
  ASSUME WriteOutcomes = {TRUE}
  PROVE  Spec => []CleanPagesMatchDisk
<1>1. Init => CleanFrames
  BY DEF Init, CleanFrames, Range
<1>2. PoolInv /\ PoolInv' /\ CleanFrames /\ [Next]_vars => CleanFrames'
  BY NextKeepsClean
<1>3. Spec => []CleanFrames
  BY <1>1, <1>2, PoolInvariant, PTL DEF Spec
<1> QED
  BY <1>3, PoolInvariant, CleanFramesSuffice, PTL

-----------------------------------------------------------------------------
(* Refinement: the pool is a page store *)

(***************************************************************************)
(* The page store reads and writes files as the pool does.                 *)
(***************************************************************************)
LEMMA StoreFiles ==
  /\ \A file, p : Store!readPage(file, p) = readPage(file, p)
  /\ \A file, p, c : Store!writePage(file, p, c) = writePage(file, p, c)
  BY DEF Store!readPage, Store!writePage, Store!pageCount, readPage, writePage, pageCount

(***************************************************************************)
(* What is visible, and what is dirty, page by page.                       *)
(***************************************************************************)
LEMMA VisibleAt ==
  ASSUME NEW t \in Tables, NEW p \in PageIds
  PROVE  /\ Resident(t, p) => visible[t][p] = PageOf(t, p).data
         /\ ~Resident(t, p) => visible[t][p] = readPage(disk[t], p)
         /\ <<t, p>> \in dirtyPages <=> Resident(t, p) /\ PageOf(t, p).isDirty
  BY DEF visible, dirtyPages

(***************************************************************************)
(* Two views that agree on every page are equal, and so are two sets of    *)
(* dirty pages.                                                            *)
(***************************************************************************)
LEMMA SameStore ==
  ASSUME \A t \in Tables, p \in PageIds :
           /\ visible'[t][p] = visible[t][p]
           /\ <<t, p>> \in dirtyPages' <=> <<t, p>> \in dirtyPages
  PROVE  visible' = visible /\ dirtyPages' = dirtyPages
<1>1. visible' = visible
  BY DEF visible
<1>2. dirtyPages' \subseteq Tables \X PageIds /\ dirtyPages \subseteq Tables \X PageIds
  BY DEF dirtyPages
<1> QED
  BY <1>1, <1>2

(***************************************************************************)
(* A new process shows the files, and nothing is dirty.                    *)
(***************************************************************************)
LEMMA FreshPoolStore == FreshPool => visible = Store!FreshView(disk) /\ dirtyPages = {}
<1> SUFFICES ASSUME FreshPool
             PROVE  visible = Store!FreshView(disk) /\ dirtyPages = {}
  OBVIOUS
<1>1. \A t \in Tables, p \in PageIds : ~Resident(t, p)
  BY KeyType DEF FreshPool, FreshMap, Resident
<1>2. visible = [t \in Tables |-> [p \in PageIds |-> readPage(disk[t], p)]]
  BY <1>1 DEF visible
<1>3. dirtyPages = {}
  BY <1>1 DEF dirtyPages
<1> QED
  BY <1>2, <1>3, StoreFiles DEF Store!FreshView

(***************************************************************************)
(* Writing a modified frame back is the store's WriteBack of its page.     *)
(***************************************************************************)
LEMMA WriteBackFile ==
  ASSUME PoolInv, NEW f \in Range(lruList)
  PROVE  Written(f, TRUE) =
           [disk EXCEPT ![frameInfos[f].table] =
              Store!writePage(@, frameInfos[f].pageId,
                              visible[frameInfos[f].table][frameInfos[f].pageId])]
<1>1. /\ frameInfos[f].table \in Tables /\ frameInfos[f].pageId \in PageIds
      /\ pages[f].pageId = frameInfos[f].pageId
      /\ frameMap[makePageKey(frameInfos[f].table, frameInfos[f].pageId)] = f
      /\ Resident(frameInfos[f].table, frameInfos[f].pageId)
  BY FrameResident
<1>2. visible[frameInfos[f].table][frameInfos[f].pageId] = pages[f].data
  <2>1. PageOf(frameInfos[f].table, frameInfos[f].pageId) = pages[f]
    BY <1>1 DEF PageOf
  <2> QED
    BY <1>1, <2>1, VisibleAt
<1> QED
  BY <1>1, <1>2, StoreFiles DEF Written

(***************************************************************************)
(* A fetch is invisible, or it writes one modified page to its file.       *)
(***************************************************************************)
LEMMA FetchRefines ==
  ASSUME WriteOutcomes = {TRUE}, PoolInv, CleanFrames,
         NEW t \in Tables, NEW p \in PageIds, fetchPage(t, p)
  PROVE  \/ UNCHANGED Store!vars
         \/ \E u \in Tables, q \in PageIds : Store!WriteBack(u, q)
<1> USE DEF Store!vars
<1>0. TypeOK /\ Range(lruList) \subseteq Frames
  BY DEF PoolInv, FrameAccounting
<1>1. ASSUME FetchHit(t, p)
      PROVE  UNCHANGED Store!vars
  <2>1. UNCHANGED <<disk, pages, frameMap>>
    BY <1>1 DEF FetchHit
  <2> QED
    BY <2>1 DEF visible, dirtyPages, Resident, PageOf
<1>2. ASSUME FetchMissFree(t, p)
      PROVE  UNCHANGED Store!vars
  <2> DEFINE f == Last(freeFrames)
             key == makePageKey(t, p)
  <2>1. /\ Load(f, t, p, disk, frameMap, lruList) /\ UNCHANGED disk /\ freeFrames # << >>
        /\ frameMap[key] = NoFrame
    BY <1>2 DEF FetchMissFree
  <2>2. f \in Frames /\ f \notin Range(lruList)
    <3>1. f \in Range(freeFrames)
      BY <2>1, DropLast DEF PoolInv, TypeOK, FrameAccounting
    <3> QED
      BY <3>1 DEF PoolInv, FrameAccounting
  <2>3. key \in PageKeys
    BY KeyType
  <2>4. /\ pages'[f].data = readPage(disk[t], p) /\ ~pages'[f].isDirty
        /\ \A g \in Frames \ {f} : pages'[g] = pages[g]
        /\ frameMap'[key] = f
        /\ \A k \in PageKeys \ {key} : frameMap'[k] = frameMap[k]
    BY <2>1, <2>2, <2>3, <1>0 DEF Load, TypeOK
  <2> HIDE DEF f, key
  <2>5. ASSUME NEW u \in Tables, NEW q \in PageIds
        PROVE  /\ visible'[u][q] = visible[u][q]
               /\ <<u, q>> \in dirtyPages' <=> <<u, q>> \in dirtyPages
    <3> DEFINE k == makePageKey(u, q)
    <3>1. k \in PageKeys
      BY KeyType
    <3>2. CASE k = key
      <4>1. u = t /\ q = p
        BY <3>2, PageKeysDistinct DEF key
      <4>2. ~Resident(u, q) /\ Resident(u, q)' /\ PageOf(u, q)' = pages'[f]
        BY <3>2, <2>1, <2>2, <2>4 DEF Resident, PageOf, NoFrame, Frames
      <4>3. visible[u][q] = readPage(disk[u], q) /\ <<u, q>> \notin dirtyPages
        BY <4>2, VisibleAt
      <4>4. visible'[u][q] = PageOf(u, q)'.data /\ <<u, q>> \notin dirtyPages'
        BY <4>2, <2>4 DEF visible, dirtyPages
      <4> QED
        BY <4>1, <4>2, <4>3, <4>4, <2>4
    <3>3. CASE k # key
      <4>1. frameMap'[k] = frameMap[k]
        BY <3>1, <3>3, <2>4
      <4>2. Resident(u, q)' = Resident(u, q)
        BY <4>1 DEF Resident
      <4>3. Resident(u, q) => PageOf(u, q)' = PageOf(u, q)
        <5>1. Resident(u, q) => frameMap[k] \in Frames \ {f}
          BY ResidentFrame, <2>2
        <5> QED
          BY <5>1, <4>1, <2>4 DEF PageOf
      <4> QED
        BY <4>2, <4>3, <2>1 DEF visible, dirtyPages
    <3> QED
      BY <3>2, <3>3
  <2> QED
    BY <2>1, <2>5, SameStore
<1>3. ASSUME FetchMissEvict(t, p)
      PROVE  \/ UNCHANGED Store!vars
             \/ \E u \in Tables, q \in PageIds : Store!WriteBack(u, q)
  <2> DEFINE f == Last(lruList)
             key == makePageKey(t, p)
             t0 == frameInfos[f].table
             p0 == frameInfos[f].pageId
             key0 == makePageKey(t0, p0)
  <2>1. /\ freeFrames = << >>
        /\ frameMap[key] = NoFrame
        /\ IF pages[f].isDirty THEN disk' = Written(f, TRUE) ELSE disk' = disk
        /\ Load(f, t, p, disk', Unmapped(f), Front(lruList))
    BY <1>3 DEF FetchMissEvict
  <2>2. f \in Range(lruList) /\ f \in Frames
    BY <2>1, <1>0, EvictKeepsStructure
  <2>3. t0 \in Tables /\ p0 \in PageIds /\ frameMap[key0] = f /\ Resident(t0, p0)
    BY <2>2, FrameResident
  <2>4. key \in PageKeys /\ key0 \in PageKeys /\ key # key0
    <3>1. frameMap[key0] # NoFrame
      BY <2>3 DEF Resident
    <3> QED
      BY <3>1, <2>1, <2>3, KeyType
  <2>5. /\ pages'[f].data = readPage(disk'[t], p) /\ ~pages'[f].isDirty
        /\ \A g \in Frames \ {f} : pages'[g] = pages[g]
        /\ frameMap'[key] = f /\ frameMap'[key0] = NoFrame
        /\ \A k \in PageKeys \ {key, key0} : frameMap'[k] = frameMap[k]
    BY <2>1, <2>2, <2>4, <1>0 DEF Load, Unmapped, TypeOK
  <2>6. visible[t0][p0] = pages[f].data /\ (<<t0, p0>> \in dirtyPages <=> pages[f].isDirty)
    <3>1. PageOf(t0, p0) = pages[f]
      BY <2>3 DEF PageOf
    <3> HIDE DEF t0, p0
    <3> QED
      BY <2>3, <3>1, VisibleAt
  <2>7. ~pages[f].isDirty => pages[f].data = readPage(disk[t0], p0)
    BY <2>2 DEF CleanFrames
  <2>8. ASSUME NEW u \in Tables, NEW q \in PageIds
        PROVE  readPage(disk'[u], q) = IF u = t0 /\ q = p0 THEN pages[f].data
                                       ELSE readPage(disk[u], q)
    <3>1. CASE pages[f].isDirty
      <4>1. disk' = Written(f, TRUE)
        BY <2>1, <3>1
      <4> QED
        BY <4>1, <2>2, WrittenReads
    <3>2. CASE ~pages[f].isDirty
      BY <3>2, <2>1, <2>7
    <3> QED
      BY <3>1, <3>2
  <2> HIDE DEF f, key, t0, p0, key0
  <2>9. ASSUME NEW u \in Tables, NEW q \in PageIds
        PROVE  /\ visible'[u][q] = visible[u][q]
               /\ <<u, q>> \in dirtyPages' <=> <<u, q>> \in dirtyPages /\ <<u, q>> # <<t0, p0>>
    <3> DEFINE k == makePageKey(u, q)
    <3>1. k \in PageKeys
      BY KeyType
    <3>2. CASE k = key
      <4>1. u = t /\ q = p
        BY <3>2, PageKeysDistinct DEF key
      <4>2. ~Resident(u, q) /\ Resident(u, q)' /\ PageOf(u, q)' = pages'[f]
        BY <3>2, <2>1, <2>2, <2>5 DEF Resident, PageOf, NoFrame, Frames
      <4>3. visible[u][q] = readPage(disk[u], q) /\ <<u, q>> \notin dirtyPages
        BY <4>2, VisibleAt
      <4>4. visible'[u][q] = PageOf(u, q)'.data /\ <<u, q>> \notin dirtyPages'
        BY <4>2, <2>5 DEF visible, dirtyPages
      <4>5. ~(u = t0 /\ q = p0)
        BY <4>2, <2>3
      <4> QED
        BY <4>1, <4>2, <4>3, <4>4, <4>5, <2>5, <2>8
    <3>3. CASE k = key0
      <4>1. u = t0 /\ q = p0
        BY <3>3, <2>3, PageKeysDistinct DEF key0
      <4>2. ~Resident(u, q)'
        BY <3>3, <2>5 DEF Resident
      <4>3. visible'[u][q] = readPage(disk'[u], q) /\ <<u, q>> \notin dirtyPages'
        BY <4>2 DEF visible, dirtyPages
      <4> QED
        BY <4>1, <4>3, <2>6, <2>8
    <3>4. CASE k # key /\ k # key0
      <4>1. frameMap'[k] = frameMap[k]
        BY <3>1, <3>4, <2>5
      <4>2. Resident(u, q)' = Resident(u, q)
        BY <4>1 DEF Resident
      <4>3. <<u, q>> # <<t0, p0>>
        BY <3>4 DEF key0
      <4>4. Resident(u, q) => PageOf(u, q)' = PageOf(u, q)
        <5>1. Resident(u, q) => frameMap[k] \in Frames /\ frameInfos[frameMap[k]] = Info(u, q)
          BY ResidentFrame
        <5>2. Resident(u, q) => frameMap[k] # f
          BY <5>1, <4>3 DEF Info, t0, p0
        <5> QED
          BY <5>1, <5>2, <4>1, <2>5 DEF PageOf
      <4>5. readPage(disk'[u], q) = readPage(disk[u], q)
        BY <4>3, <2>8
      <4> QED
        BY <4>2, <4>3, <4>4, <4>5 DEF visible, dirtyPages
    <3> QED
      BY <3>2, <3>3, <3>4
  <2>10. CASE pages[f].isDirty
    <3>1. visible' = visible
      BY <2>9 DEF visible
    <3>2. dirtyPages' = dirtyPages \ {<<t0, p0>>}
      <4>1. /\ dirtyPages' \subseteq Tables \X PageIds
            /\ dirtyPages \subseteq Tables \X PageIds
        BY DEF dirtyPages
      <4> QED
        BY <4>1, <2>9
    <3>3. disk' = [disk EXCEPT ![t0] = Store!writePage(@, p0, visible[t0][p0])]
      BY <2>1, <2>2, <2>10, WriteBackFile DEF t0, p0
    <3>4. Store!WriteBack(t0, p0)
      BY <3>1, <3>2, <3>3, <2>6, <2>10 DEF Store!WriteBack
    <3> QED
      BY <3>4, <2>3
  <2>11. CASE ~pages[f].isDirty
    <3>1. <<t0, p0>> \notin dirtyPages
      BY <2>6, <2>11
    <3>2. visible' = visible /\ dirtyPages' = dirtyPages
      BY <3>1, <2>9, SameStore
    <3> QED
      BY <3>2, <2>1, <2>11
  <2> QED
    BY <2>10, <2>11
<1> QED
  BY <1>1, <1>2, <1>3 DEF fetchPage

(***************************************************************************)
(* Every operation of the pool is an operation of the store, or invisible. *)
(***************************************************************************)
LEMMA NextRefines ==
  ASSUME WriteOutcomes = {TRUE}, PoolInv, PoolInv', CleanFrames, [Next]_vars
  PROVE  [Store!Next]_(Store!vars)
<1> USE DEF Store!vars
<1>0. TypeOK /\ Range(lruList) \subseteq Frames /\ CleanPagesMatchDisk
  BY CleanFramesSuffice DEF PoolInv, FrameAccounting
<1>1. ASSUME NEW t \in Tables, NEW p \in PageIds, fetchPage(t, p)
      PROVE  [Store!Next]_(Store!vars)
  BY <1>1, FetchRefines DEF Store!Next
<1>2. ASSUME NEW c \in Contents, markDirty(c)
      PROVE  Store!Next
  <2> DEFINE f == cursor.frame
             t == cursor.table
             p == cursor.pageId
             h == frameMap[makePageKey(t, p)]
  <2>1. /\ f # NoFrame
        /\ pages' = [g \in Frames |->
                       [pages[g] EXCEPT !.data = IF g = f THEN c ELSE @,
                                        !.isDirty = IF g = h THEN TRUE ELSE @]]
        /\ UNCHANGED <<disk, frameInfos, frameMap, lruList>>
    BY <1>2 DEF markDirty
  <2>2. /\ f \in Range(lruList) /\ frameInfos[f] = Info(t, p)
        /\ t \in Tables
    BY <2>1 DEF PoolInv, CursorValid, Info
  <2>3. p \in PageIds /\ f = h /\ f \in Frames /\ Resident(t, p)
    BY <2>2, FrameResident DEF Info
  <2> HIDE DEF f, t, p, h
  <2>4. /\ pages'[f].data = c /\ pages'[f].isDirty
        /\ \A g \in Frames \ {f} : pages'[g] = pages[g]
    <3>1. \A g \in Frames :
            pages[g] \in [pageId : PageIds \union {-1}, isDirty : BOOLEAN,
                         isValid : BOOLEAN, data : Contents]
      BY <1>0 DEF TypeOK
    <3>2. pages'[f] = [pages[f] EXCEPT !.data = c, !.isDirty = TRUE]
      BY <2>1, <2>3
    <3>3. pages'[f].data = c /\ pages'[f].isDirty
      BY <3>1, <3>2, <2>3
    <3>4. ASSUME NEW g \in Frames \ {f}
          PROVE  pages'[g] = pages[g]
      <4>1. pages'[g] = [pages[g] EXCEPT !.data = pages[g].data,
                                         !.isDirty = pages[g].isDirty]
        BY <2>1, <2>3
      <4>2. pages[g] \in [pageId : PageIds \union {-1}, isDirty : BOOLEAN,
                          isValid : BOOLEAN, data : Contents]
        BY <3>1
      <4> QED
        BY <4>1, <4>2
    <3> QED
      BY <3>3, <3>4
  <2>5. ASSUME NEW u \in Tables, NEW q \in PageIds
        PROVE  /\ visible'[u][q] = IF u = t /\ q = p THEN c ELSE visible[u][q]
               /\ <<u, q>> \in dirtyPages'
                    <=> <<u, q>> \in dirtyPages \/ <<u, q>> = <<t, p>>
    <3>1. Resident(u, q)' = Resident(u, q)
      BY <2>1 DEF Resident
    <3>2. CASE u = t /\ q = p
      <4>1. PageOf(u, q)' = pages'[f]
        BY <3>2, <2>1, <2>3 DEF PageOf, h
      <4> QED
        BY <4>1, <3>1, <3>2, <2>3, <2>4 DEF visible, dirtyPages
    <3>3. CASE ~(u = t /\ q = p)
      <4>1. Resident(u, q) => frameMap[makePageKey(u, q)] \in Frames \ {f}
        <5>1. Resident(u, q) => /\ frameMap[makePageKey(u, q)] \in Frames
                                /\ frameInfos[frameMap[makePageKey(u, q)]] = Info(u, q)
          BY ResidentFrame
        <5>2. Info(u, q) # Info(t, p)
          BY <3>3 DEF Info
        <5> QED
          BY <5>1, <5>2, <2>2
      <4>2. Resident(u, q) => PageOf(u, q)' = PageOf(u, q)
        BY <4>1, <2>1, <2>4 DEF PageOf
      <4> QED
        BY <4>2, <3>1, <3>3, <2>1 DEF visible, dirtyPages
    <3> QED
      BY <3>2, <3>3
  <2>6. visible' = [visible EXCEPT ![t][p] = c]
    <3> DEFINE new == [visible EXCEPT ![t][p] = c]
    <3>1. visible' = [u \in Tables |-> visible'[u]] /\ new = [u \in Tables |-> new[u]]
      BY DEF visible
    <3>2. ASSUME NEW u \in Tables
          PROVE  visible'[u] = new[u]
      <4>1. /\ visible'[u] = [q \in PageIds |-> visible'[u][q]]
            /\ visible[u] = [q \in PageIds |-> visible[u][q]]
            /\ DOMAIN visible = Tables
        BY DEF visible
      <4>2. CASE u = t
        <5>1. new[u] = [visible[u] EXCEPT ![p] = c]
          BY <4>1, <4>2
        <5>2. new[u] = [q \in PageIds |-> IF q = p THEN c ELSE visible[u][q]]
          BY <5>1, <4>1
        <5>3. \A q \in PageIds : visible'[u][q] = IF q = p THEN c ELSE visible[u][q]
          BY <4>2, <2>5
        <5> HIDE DEF new
        <5> QED
          BY <5>2, <5>3, <4>1
      <4>3. CASE u # t
        <5>1. new[u] = visible[u]
          BY <4>1, <4>3
        <5>2. \A q \in PageIds : visible'[u][q] = visible[u][q]
          BY <4>3, <2>5
        <5> HIDE DEF new
        <5> QED
          BY <5>1, <5>2, <4>1
      <4> QED
        BY <4>2, <4>3
    <3> HIDE DEF new
    <3> QED
      BY <3>1, <3>2 DEF new
  <2>7. dirtyPages' = dirtyPages \union {<<t, p>>}
    <3>1. /\ dirtyPages' \subseteq Tables \X PageIds
          /\ dirtyPages \subseteq Tables \X PageIds
      BY DEF dirtyPages
    <3> QED
      BY <3>1, <2>2, <2>3, <2>5
  <2>8. Store!Modify(t, p, c)
    BY <2>1, <2>6, <2>7 DEF Store!Modify
  <2> QED
    BY <2>8, <2>2, <2>3 DEF Store!Next
<1>3. ASSUME NEW scope, NEW exit, StartFlush(scope, exit)
      PROVE  UNCHANGED Store!vars
  BY <1>3 DEF StartFlush, visible, dirtyPages, Resident, PageOf
<1>4. CASE FlushFrame
  <2> DEFINE f == flush.at
             t0 == frameInfos[f].table
             p0 == frameInfos[f].pageId
  <2>1. f \in Frames
    BY <1>4, <1>0, BufferPoolAssumption DEF FlushFrame, TypeOK, Frames
  <2>2. UNCHANGED <<frameInfos, frameMap, lruList>>
    BY <1>4 DEF FlushFrame
  <2>3. CASE pages[f].isValid /\ pages[f].isDirty /\ frameInfos[f].table \in flush.scope
    <3>1. /\ disk' = Written(f, TRUE)
          /\ pages' = [pages EXCEPT ![f].isDirty = FALSE]
      BY <1>4, <2>3 DEF FlushFrame
    <3>2. f \in Range(lruList)
      <4>1. pages[f] # EmptyPage
        BY <2>3 DEF EmptyPage
      <4> QED
        BY <4>1, <2>1 DEF PoolInv, FrameAccounting
    <3>3. /\ t0 \in Tables /\ p0 \in PageIds
          /\ frameMap[makePageKey(t0, p0)] = f /\ Resident(t0, p0)
      BY <3>2, FrameResident
    <3>4. /\ pages'[f].data = pages[f].data /\ ~pages'[f].isDirty
          /\ \A g \in Frames \ {f} : pages'[g] = pages[g]
      BY <3>1, <2>1, <1>0 DEF TypeOK
    <3>5. pages[f].isDirty
      BY <2>3
    <3>6. ASSUME NEW u \in Tables, NEW q \in PageIds
          PROVE  readPage(disk'[u], q) = IF u = t0 /\ q = p0 THEN pages[f].data
                                         ELSE readPage(disk[u], q)
      BY <3>1, <3>2, WrittenReads
    <3>7. disk' = [disk EXCEPT ![t0] = Store!writePage(@, p0, visible[t0][p0])]
      BY <3>1, <3>2, WriteBackFile
    <3>8. frameInfos[f] = Info(t0, p0)
      BY <2>1, <1>0 DEF TypeOK, Info
    <3> HIDE DEF f, t0, p0
    <3>9. ASSUME NEW u \in Tables, NEW q \in PageIds
          PROVE  /\ visible'[u][q] = visible[u][q]
                 /\ <<u, q>> \in dirtyPages'
                      <=> <<u, q>> \in dirtyPages /\ <<u, q>> # <<t0, p0>>
      <4>1. Resident(u, q)' = Resident(u, q)
        BY <2>2 DEF Resident
      <4>2. CASE u = t0 /\ q = p0
        <5>1. PageOf(u, q) = pages[f] /\ PageOf(u, q)' = pages'[f]
          BY <4>2, <3>3, <2>2 DEF PageOf
        <5> QED
          BY <5>1, <4>1, <4>2, <3>3, <3>4 DEF visible, dirtyPages
      <4>3. CASE ~(u = t0 /\ q = p0)
        <5>1. Resident(u, q) => /\ frameMap[makePageKey(u, q)] \in Frames
                                /\ frameInfos[frameMap[makePageKey(u, q)]] = Info(u, q)
          BY ResidentFrame
        <5>2. Resident(u, q) => frameMap[makePageKey(u, q)] # f
          BY <5>1, <4>3, <3>8 DEF Info
        <5>3. Resident(u, q) => PageOf(u, q)' = PageOf(u, q)
          BY <5>1, <5>2, <3>4, <2>2 DEF PageOf
        <5> QED
          BY <5>3, <4>1, <4>3, <3>6 DEF visible, dirtyPages
      <4> QED
        BY <4>2, <4>3
    <3>10. visible' = visible
      BY <3>9 DEF visible
    <3>11. dirtyPages' = dirtyPages \ {<<t0, p0>>}
      <4>1. /\ dirtyPages' \subseteq Tables \X PageIds
            /\ dirtyPages \subseteq Tables \X PageIds
        BY DEF dirtyPages
      <4> QED
        BY <4>1, <3>9
    <3>12. <<t0, p0>> \in dirtyPages
      <4>1. PageOf(t0, p0) = pages[f]
        BY <3>3 DEF PageOf
      <4> QED
        BY <3>3, <3>5, <4>1, VisibleAt
    <3>13. Store!WriteBack(t0, p0)
      BY <3>7, <3>10, <3>11, <3>12 DEF Store!WriteBack
    <3> QED
      BY <3>3, <3>13 DEF Store!Next
  <2>4. CASE ~(pages[f].isValid /\ pages[f].isDirty /\ frameInfos[f].table \in flush.scope)
    <3>1. UNCHANGED <<disk, pages, frameMap>>
      BY <1>4, <2>4 DEF FlushFrame
    <3> QED
      BY <3>1 DEF visible, dirtyPages, Resident, PageOf
  <2> QED
    BY <2>3, <2>4
<1>5. CASE Reset
  <2>1. FreshPool'
    BY <1>5, <1>0 DEF Reset, FreshPool, TypeOK, FreshPages, FreshInfos, FreshMap, FreshStack,
                      NoCursor, NoFlush
  <2>2. FreshPool' => (visible = Store!FreshView(disk) /\ dirtyPages = {})'
    BY FreshPoolStore, PTL
  <2>3. disk' = disk
    BY <1>5 DEF Reset
  <2>4. Store!Restart
    BY <2>1, <2>2, <2>3 DEF Store!Restart, Store!FreshView
  <2> QED
    BY <2>4 DEF Store!Next
<1>6. CASE UNCHANGED vars
  BY <1>6 DEF vars, visible, dirtyPages, Resident, PageOf
<1> QED
  BY <1>1, <1>2, <1>3, <1>4, <1>5, <1>6
  DEF Next, Exit, Crash

(***************************************************************************)
(* The buffer pool implements the page store: whatever is fetched, evicted *)
(* or flushed in whatever order, a page keeps its content until the client *)
(* changes it or the process ends, and a file changes only by taking a     *)
(* page the client modified.                                               *)
(***************************************************************************)
THEOREM PoolImplementsStore ==
  ASSUME WriteOutcomes = {TRUE}
  PROVE  Spec => StoreSpec
<1>1. Init => Store!Init
  <2>1. Init => visible = Store!FreshView(disk) /\ dirtyPages = {}
    BY InitIsFresh, FreshPoolStore
  <2>2. Init => disk \in [Tables -> Seq(Contents)]
    BY InitIsFresh DEF FreshPool
  <2> QED
    BY <2>1, <2>2 DEF Store!Init
<1>2. PoolInv /\ PoolInv' /\ CleanFrames /\ [Next]_vars => [Store!Next]_(Store!vars)
  BY NextRefines
<1>3. Init => CleanFrames
  BY DEF Init, CleanFrames, Range
<1>4. PoolInv /\ PoolInv' /\ CleanFrames /\ [Next]_vars => CleanFrames'
  BY NextKeepsClean
<1> QED
  BY <1>1, <1>2, <1>3, <1>4, PoolInvariant, PTL DEF Spec, StoreSpec, Store!Spec

-----------------------------------------------------------------------------
(* The end of a process *)

\* The last flush has cleaned the frames it has passed.
LastFlush ==
  flush.exit => /\ flush.scope = Tables
                /\ \A f \in Range(lruList) : f < flush.at => ~pages[f].isDirty

(***************************************************************************)
(* Nothing is fetched or written beside the last flush, and no frame it    *)
(* passes over was dirty.                                                  *)
(***************************************************************************)
LEMMA NextKeepsLastFlush ==
  ASSUME PoolInv, LastFlush, [Next]_vars
  PROVE  LastFlush'
<1>0. TypeOK /\ MapMatchesFrames /\ Range(lruList) \subseteq Frames
  BY DEF PoolInv, FrameAccounting
<1>1. ASSUME NEW t \in Tables, NEW p \in PageIds, fetchPage(t, p)
      PROVE  LastFlush'
  BY <1>1 DEF fetchPage, FetchHit, FetchMissFree, FetchMissEvict, Idle, LastFlush
<1>2. ASSUME NEW c \in Contents, markDirty(c)
      PROVE  LastFlush'
  BY <1>2 DEF markDirty, Idle, LastFlush
<1>3. ASSUME NEW scope, NEW exit \in BOOLEAN, StartFlush(scope, exit), exit => scope = Tables
      PROVE  LastFlush'
  <2>1. flush' = [at |-> 0, scope |-> scope, exit |-> exit] /\ lruList' = lruList
    BY <1>3 DEF StartFlush
  <2>2. \A f \in Range(lruList) : ~(f < 0)
    BY <1>0 DEF Frames
  <2> QED
    BY <2>1, <2>2, <1>3 DEF LastFlush
<1>4. CASE FlushFrame
  <2> DEFINE f == flush.at
  <2>1. SUFFICES ASSUME flush'.exit PROVE LastFlush'
    BY DEF LastFlush
  <2>2. flush.exit
    BY <1>4, <2>1 DEF FlushFrame, NoFlush
  <2>3. /\ flush' = [flush EXCEPT !.at = f + 1] /\ UNCHANGED <<lruList, frameInfos>>
        /\ f \in Nat /\ f < Capacity
    BY <1>4, <1>0, <2>2 DEF FlushFrame, TypeOK
  <2>4. flush'.scope = Tables /\ flush'.at = f + 1
    BY <1>0, <2>2, <2>3 DEF LastFlush, TypeOK
  <2>5. ASSUME NEW g \in Range(lruList), g < f + 1
        PROVE  ~pages'[g].isDirty
    <3>1. g \in Frames /\ g \in Int /\ pages[g].isValid /\ frameInfos[g].table \in Tables
      BY <1>0 DEF MapMatchesFrames, Frames
    <3>2. CASE g = f
      <4>1. CASE pages[f].isValid /\ pages[f].isDirty /\ frameInfos[f].table \in flush.scope
        <5>1. pages' = [pages EXCEPT ![f].isDirty = FALSE]
          BY <1>4, <4>1 DEF FlushFrame
        <5> QED
          BY <1>0, <3>1, <3>2, <5>1 DEF TypeOK
      <4>2. CASE ~(pages[f].isValid /\ pages[f].isDirty /\ frameInfos[f].table \in flush.scope)
        <5>1. pages' = pages
          BY <1>4, <4>2 DEF FlushFrame
        <5> QED
          BY <2>2, <3>1, <3>2, <4>2, <5>1 DEF LastFlush
      <4> QED
        BY <4>1, <4>2
    <3>3. CASE g # f
      <4>1. g < f
        BY <2>3, <2>5, <3>1, <3>3
      <4>2. pages'[g] = pages[g]
        BY <1>0, <1>4, <3>1, <3>3 DEF FlushFrame, TypeOK
      <4> QED
        BY <2>2, <4>1, <4>2 DEF LastFlush
    <3> QED
      BY <3>2, <3>3
  <2> QED
    BY <2>3, <2>4, <2>5 DEF LastFlush
<1>5. CASE Reset
  BY <1>5 DEF Reset, NoFlush, LastFlush
<1>6. CASE UNCHANGED vars
  BY <1>6 DEF vars, LastFlush
<1> QED
  BY <1>1, <1>2, <1>3, <1>4, <1>5, <1>6 DEF Next, Exit, Crash

(***************************************************************************)
(* When the last flush is over every page in the pool is clean, and the    *)
(* next process reads it from its file.                                    *)
(***************************************************************************)
LEMMA ExitKeepsView ==
  ASSUME PoolInv, CleanFrames, LastFlush, Exit
  PROVE  visible' = visible
<1>1. /\ \A f \in Range(lruList) : ~pages[f].isDirty
      /\ disk' = disk /\ frameMap' = FreshMap
  <2>1. Range(lruList) \subseteq Frames
    BY DEF PoolInv, FrameAccounting
  <2>2. \A f \in Frames : f < Capacity
    BY BufferPoolAssumption DEF Frames
  <2> QED
    BY <2>1, <2>2 DEF Exit, Reset, LastFlush
<1>2. ASSUME NEW t \in Tables, NEW p \in PageIds
      PROVE  visible[t][p] = readPage(disk[t], p)
  <2>1. CASE Resident(t, p)
    <3>1. ~PageOf(t, p).isDirty
      BY <1>1, <2>1, ResidentFrame DEF PageOf
    <3> QED
      BY <2>1, <3>1, CleanFramesSuffice, VisibleAt DEF CleanPagesMatchDisk
  <2>2. CASE ~Resident(t, p)
    BY <2>2, VisibleAt
  <2> QED
    BY <2>1, <2>2
<1>3. ASSUME NEW t \in Tables, NEW p \in PageIds
      PROVE  visible'[t][p] = readPage(disk[t], p)
  <2>1. frameMap'[makePageKey(t, p)] = NoFrame
    BY <1>1, KeyType DEF FreshMap
  <2> QED
    BY <1>1, <2>1 DEF visible, Resident
<1> QED
  BY <1>2, <1>3 DEF visible

(***************************************************************************)
(* A process that ends by its last flush leaves every page as it saw it,   *)
(* for pools of any size, whatever else was evicted, flushed or killed     *)
(* before.                                                                 *)
(***************************************************************************)
THEOREM RegularExitKeepsAll ==
  ASSUME WriteOutcomes = {TRUE}
  PROVE  Spec => ExitLosesNothing
<1>1. Init => CleanFrames /\ LastFlush
  BY DEF Init, CleanFrames, LastFlush, NoFlush, Range
<1>2. PoolInv /\ PoolInv' /\ CleanFrames /\ [Next]_vars => CleanFrames'
  BY NextKeepsClean
<1>3. PoolInv /\ LastFlush /\ [Next]_vars => LastFlush'
  BY NextKeepsLastFlush
<1>4. PoolInv /\ CleanFrames /\ LastFlush => [Exit => visible' = visible]_vars
  BY ExitKeepsView
<1> QED
  BY <1>1, <1>2, <1>3, <1>4, PoolInvariant, PTL DEF Spec, ExitLosesNothing

-----------------------------------------------------------------------------
(* The order of replacement *)

\* The pages in the frames of a list, and in those before position i.
PagesIn(list) == {PageIn(f) : f \in Range(list)}

PagesAhead(list, i) == {PageIn(list[j]) : j \in 1 .. i - 1}

\* Pages held were followed by those ahead of them in the list; a page was
\* dropped from a full pool, and all pages held were fetched after it.
RecencyInv ==
  /\ \A q \in DOMAIN since : IsFiniteSet(since[q])
  /\ \A i \in DOMAIN lruList :
       /\ PageIn(lruList[i]) \in DOMAIN since
       /\ since[PageIn(lruList[i])] = PagesAhead(lruList, i)
  /\ \A q \in DOMAIN since \ PagesIn(lruList) :
       freeFrames = << >> /\ PagesIn(lruList) \subseteq since[q]

(***************************************************************************)
(* What fetchPage does to the list: the frame of the page goes to the      *)
(* front.  It was in the list with this page, or comes from the free       *)
(* stack, or from the tail of a full list.                                 *)
(***************************************************************************)
LEMMA FetchReorders ==
  ASSUME PoolInv, NEW t \in Tables, NEW p \in PageIds, fetchPage(t, p)
  PROVE  \E h \in Frames, rest \in Seq(Frames) :
           /\ lruList' = <<h>> \o rest /\ h \notin Range(rest)
           /\ frameInfos'[h] = Info(t, p)
           /\ \A f \in Frames \ {h} : frameInfos'[f] = frameInfos[f]
           /\ \/ /\ rest = lruList /\ freeFrames # << >> /\ ~Resident(t, p)
              \/ \E j \in DOMAIN lruList :
                   /\ h = lruList[j] /\ rest = Without(lruList, j)
                   /\ freeFrames' = freeFrames
                   /\ \/ PageIn(h) = <<t, p>>
                      \/ (j = Len(lruList) /\ freeFrames = << >> /\ ~Resident(t, p))
<1> DEFINE key == makePageKey(t, p)
<1>1. /\ lruList \in Seq(Frames) /\ IsInjective(lruList) /\ key \in PageKeys
      /\ TypeOK /\ FrameAccounting
  BY KeyType DEF PoolInv, TypeOK, FrameAccounting
<1>2. CASE FetchHit(t, p)
  <2> DEFINE h == frameMap[key]
  <2>1. /\ h \in Range(lruList) /\ h \in Frames /\ frameInfos[h] = Info(t, p)
    BY <1>2, ResidentFrame DEF FetchHit, Resident
  <2>2. /\ lruList' = MoveToFront(lruList, h)
        /\ UNCHANGED <<frameInfos, freeFrames>>
    BY <1>2 DEF FetchHit
  <2>3. frameInfos'[h] = Info(t, p) /\ PageIn(h) = <<t, p>>
    BY <2>1, <2>2 DEF PageIn, Info
  <2> HIDE DEF h
  <2>4. PICK j \in DOMAIN lruList : lruList[j] = h
    BY <2>1 DEF Range
  <2>5. /\ Without(lruList, j) \in Seq(Frames) /\ h \notin Range(Without(lruList, j))
        /\ lruList' = <<h>> \o Without(lruList, j)
    BY <1>1, <2>2, <2>4, WithoutShape, MoveToFrontIsWithout
  <2> QED
    BY <2>1, <2>2, <2>3, <2>4, <2>5
<1>3. CASE FetchMissFree(t, p)
  <2> DEFINE h == Last(freeFrames)
  <2>1. h \in Frames /\ h \notin Range(lruList) /\ freeFrames # << >> /\ ~Resident(t, p)
    BY <1>1, <1>3, DropLast DEF FetchMissFree, TypeOK, FrameAccounting, Resident, Range
  <2>2. /\ lruList' = <<h>> \o lruList
        /\ frameInfos' = [frameInfos EXCEPT ![h] = Info(t, p)]
    BY <1>3 DEF FetchMissFree, Load, Info
  <2> HIDE DEF h
  <2>3. frameInfos'[h] = Info(t, p) /\ \A f \in Frames \ {h} : frameInfos'[f] = frameInfos[f]
    BY <1>1, <2>1, <2>2 DEF TypeOK
  <2> QED
    BY <1>1, <2>1, <2>2, <2>3
<1>4. CASE FetchMissEvict(t, p)
  <2> DEFINE h == Last(lruList)
             j == Len(lruList)
  <2>1. /\ freeFrames = << >> /\ freeFrames' = freeFrames
        /\ lruList' = <<h>> \o Front(lruList)
        /\ frameInfos' = [frameInfos EXCEPT ![h] = Info(t, p)]
    BY <1>4 DEF FetchMissEvict, Load, Info
  <2>2. h \in Range(lruList) /\ Range(lruList) = Frames
        /\ Front(lruList) \in Seq(Frames) /\ h \notin Range(Front(lruList))
    BY <2>1, EvictKeepsStructure
  <2>3. lruList # << >> /\ j \in DOMAIN lruList
    BY <1>1, <2>2 DEF Range
  <2>4. h = lruList[j] /\ Front(lruList) = Without(lruList, j) /\ ~Resident(t, p)
    BY <1>1, <1>4, <2>3, FrontIsWithout DEF Last, FetchMissEvict, Resident
  <2> HIDE DEF h
  <2>5. frameInfos'[h] = Info(t, p) /\ \A f \in Frames \ {h} : frameInfos'[f] = frameInfos[f]
    BY <1>1, <2>1, <2>2 DEF TypeOK
  <2> QED
    BY <2>1, <2>2, <2>3, <2>4, <2>5
<1> QED
  BY <1>2, <1>3, <1>4 DEF fetchPage

(***************************************************************************)
(* A fetch keeps the invariant: the page fetched stands first and is new   *)
(* to all others, which keep their order.                                  *)
(***************************************************************************)
LEMMA FetchKeepsRecency ==
  ASSUME PoolInv, RecencyInv, NEW t \in Tables, NEW p \in PageIds,
         fetchPage(t, p), since' = Used(<<t, p>>)
  PROVE  RecencyInv'
<1> DEFINE tp == <<t, p>>
           n == Len(lruList)
<1>1. PICK h \in Frames, rest \in Seq(Frames) :
        /\ lruList' = <<h>> \o rest /\ h \notin Range(rest)
        /\ frameInfos'[h] = Info(t, p)
        /\ \A f \in Frames \ {h} : frameInfos'[f] = frameInfos[f]
        /\ \/ /\ rest = lruList /\ freeFrames # << >> /\ ~Resident(t, p)
           \/ \E j \in DOMAIN lruList :
                /\ h = lruList[j] /\ rest = Without(lruList, j)
                /\ freeFrames' = freeFrames
                /\ \/ PageIn(h) = tp
                   \/ (j = Len(lruList) /\ freeFrames = << >> /\ ~Resident(t, p))
  BY FetchReorders
<1>2. /\ lruList \in Seq(Frames) /\ IsInjective(lruList)
      /\ n \in Nat /\ DOMAIN lruList = 1 .. n
      /\ Len(rest) \in Nat /\ DOMAIN rest = 1 .. Len(rest)
  BY DEF PoolInv, TypeOK, FrameAccounting
<1>3. /\ DOMAIN lruList' = 1 .. Len(rest) + 1 /\ lruList'[1] = h
      /\ \A i \in 1 .. Len(rest) : lruList'[i + 1] = rest[i]
  BY <1>1, <1>2
<1>4. /\ PageIn(h)' = tp
      /\ \A i \in 1 .. Len(rest) : PageIn(rest[i])' = PageIn(rest[i])
  <2>1. \A i \in 1 .. Len(rest) : rest[i] \in Frames \ {h}
    BY <1>1, <1>2 DEF Range
  <2> QED
    BY <2>1, <1>1 DEF PageIn, Info
<1>5. /\ DOMAIN since' = DOMAIN since \union {tp} /\ since'[tp] = {}
      /\ \A q \in DOMAIN since \ {tp} : since'[q] = since[q] \union {tp}
  BY DEF Used
<1>6. ASSUME NEW i \in 1 .. Len(rest)
      PROVE  /\ PageIn(rest[i]) \in DOMAIN since
             /\ since[PageIn(rest[i])] \union {tp} = PagesAhead(rest, i) \union {tp}
  <2>1. CASE rest = lruList
    <3>1. i \in DOMAIN lruList
      BY <2>1, <1>2
    <3>2. /\ PageIn(lruList[i]) \in DOMAIN since
          /\ since[PageIn(lruList[i])] = PagesAhead(lruList, i)
      BY <3>1 DEF RecencyInv
    <3> QED
      BY <2>1, <3>2
  <2>2. ASSUME NEW j \in 1 .. n, h = lruList[j], rest = Without(lruList, j),
               PageIn(h) = tp \/ j = n
        PROVE  /\ PageIn(rest[i]) \in DOMAIN since
               /\ since[PageIn(rest[i])] \union {tp} = PagesAhead(rest, i) \union {tp}
    <3> DEFINE src(k) == IF k < j THEN k ELSE k + 1
    <3>1. /\ Len(rest) = n - 1 /\ \A k \in 1 .. n - 1 : rest[k] = lruList[src(k)]
      <4> DEFINE w == Without(lruList, j)
      <4>1. w \in Seq(Frames) /\ Len(w) = n - 1
            /\ \A k \in 1 .. n - 1 : w[k] = IF k < j THEN lruList[k] ELSE lruList[k + 1]
        BY <1>2, WithoutShape DEF Without
      <4> HIDE DEF w
      <4> QED
        BY <4>1, <2>2 DEF w
    <3>2. /\ src(i) \in 1 .. n /\ PageIn(rest[i]) \in DOMAIN since
          /\ since[PageIn(rest[i])] = PagesAhead(lruList, src(i))
      <4>1. i \in 1 .. n - 1 /\ src(i) \in 1 .. n /\ rest[i] = lruList[src(i)]
        BY <1>2, <3>1
      <4> HIDE DEF src, n
      <4>2. src(i) \in DOMAIN lruList
        BY <4>1, <1>2
      <4>3. /\ PageIn(lruList[src(i)]) \in DOMAIN since
            /\ since[PageIn(lruList[src(i)])] = PagesAhead(lruList, src(i))
        BY <4>2 DEF RecencyInv
      <4> QED
        BY <4>1, <4>3
    <3>3. ASSUME NEW q, q # tp
          PROVE  q \in PagesAhead(lruList, src(i)) <=> q \in PagesAhead(rest, i)
      <4>1. ASSUME q \in PagesAhead(lruList, src(i))
            PROVE  q \in PagesAhead(rest, i)
        <5>1. PICK m \in 1 .. src(i) - 1 : q = PageIn(lruList[m])
          BY <4>1 DEF PagesAhead
        <5>2. m # j
          BY <5>1, <2>2, <3>1, <3>3, <1>2
        <5>3. CASE m < j
          <6>1. m \in 1 .. i - 1 /\ src(m) = m
            BY <5>1, <5>3, <3>1, <1>2
          <6> QED
            BY <6>1, <5>1, <3>1, <1>2 DEF PagesAhead
        <5>4. CASE m > j
          <6>1. m - 1 \in 1 .. i - 1 /\ m - 1 \in 1 .. n - 1 /\ src(m - 1) = m
            BY <5>1, <5>4, <3>1, <1>2
          <6>2. rest[m - 1] = lruList[m]
            BY <6>1, <3>1
          <6> QED
            BY <6>1, <6>2, <5>1 DEF PagesAhead
        <5> QED
          BY <5>1, <5>2, <5>3, <5>4, <1>2
      <4>2. ASSUME q \in PagesAhead(rest, i)
            PROVE  q \in PagesAhead(lruList, src(i))
        <5>1. PICK m \in 1 .. i - 1 : q = PageIn(rest[m])
          BY <4>2 DEF PagesAhead
        <5>2. src(m) \in 1 .. src(i) - 1 /\ rest[m] = lruList[src(m)]
          BY <5>1, <3>1, <1>2
        <5> QED
          BY <5>1, <5>2 DEF PagesAhead
      <4> QED
        BY <4>1, <4>2
    <3> QED
      BY <3>2, <3>3
  <2> QED
    BY <2>1, <2>2, <1>1, <1>2
<1>7. /\ \A f \in Range(rest) : f \in Range(lruList) /\ f # h /\ f \in Frames
      /\ PageIn(h) # tp => ~Resident(t, p)
      /\ PageIn(h) = tp => (h \in Range(lruList) \/ ~Resident(t, p))
  <2>1. CASE rest = lruList /\ freeFrames # << >> /\ ~Resident(t, p)
    <3>1. \A f \in Range(rest) : f \in Range(lruList) /\ f # h /\ f \in Frames
      BY <2>1, <1>1, <1>2 DEF Range
    <3> QED
      BY <2>1, <3>1
  <2>2. ASSUME NEW j \in DOMAIN lruList, h = lruList[j], rest = Without(lruList, j),
               PageIn(h) = tp \/ (j = Len(lruList) /\ ~Resident(t, p))
        PROVE  /\ \A f \in Range(rest) : f \in Range(lruList) /\ f # h /\ f \in Frames
               /\ PageIn(h) # tp => ~Resident(t, p)
               /\ PageIn(h) = tp => (h \in Range(lruList) \/ ~Resident(t, p))
    <3>1. Range(rest) = Range(lruList) \ {h}
      BY <2>2, <1>2, WithoutShape
    <3> QED
      BY <2>2, <3>1, <1>2 DEF Range
  <2> QED
    BY <2>1, <2>2, <1>1
<1>8. ASSUME NEW f \in Range(rest)
      PROVE  PageIn(f) # tp
  <2>1. SUFFICES ASSUME PageIn(f) = tp PROVE FALSE
    OBVIOUS
  <2>2. frameMap[makePageKey(t, p)] = f /\ Resident(t, p)
    BY <2>1, <1>7, FrameResident DEF PageIn
  <2>3. h \in Range(lruList) /\ PageIn(h) = tp
    BY <2>2, <1>7
  <2> QED
    BY <2>2, <2>3, <1>7, FrameResident DEF PageIn
<1>9. ASSUME NEW i \in DOMAIN lruList'
      PROVE  /\ (PageIn(lruList[i]))' \in DOMAIN since'
             /\ (since[PageIn(lruList[i])] = PagesAhead(lruList, i))'
  <2>1. CASE i = 1
    <3>1. PageIn(lruList[i])' = tp
      BY <2>1, <1>3, <1>4 DEF PageIn
    <3>2. PagesAhead(lruList, i)' = {}
      BY <2>1 DEF PagesAhead
    <3> QED
      BY <3>1, <3>2, <1>5
  <2>2. CASE i # 1
    <3> DEFINE m == i - 1
    <3>1. m \in 1 .. Len(rest) /\ i = m + 1
      BY <2>2, <1>2, <1>3
    <3>2. lruList'[i] = rest[m] /\ rest[m] \in Range(rest)
      BY <3>1, <1>2, <1>3 DEF Range
    <3>3. PageIn(lruList[i])' = PageIn(rest[m])
      BY <3>1, <3>2, <1>4 DEF PageIn
    <3>4. PagesAhead(lruList, i)' = PagesAhead(rest, m) \union {tp}
      <4>1. ASSUME NEW k \in 1 .. i - 1
            PROVE  PageIn(lruList[k])' \in PagesAhead(rest, m) \union {tp}
        <5>1. CASE k = 1
          BY <5>1, <1>3, <1>4 DEF PageIn
        <5>2. CASE k # 1
          <6>1. k - 1 \in 1 .. m - 1 /\ k - 1 \in 1 .. Len(rest) /\ (k - 1) + 1 = k
            BY <5>2, <3>1, <1>2
          <6>2. lruList'[(k - 1) + 1] = rest[k - 1] /\ PageIn(rest[k - 1])' = PageIn(rest[k - 1])
            BY <6>1, <1>3, <1>4
          <6>3. PageIn(lruList[k])' = PageIn(rest[k - 1])
            BY <6>1, <6>2 DEF PageIn
          <6> QED
            BY <6>1, <6>3 DEF PagesAhead
        <5> QED
          BY <5>1, <5>2
      <4>2. ASSUME NEW k \in 1 .. m - 1
            PROVE  PageIn(rest[k]) \in PagesAhead(lruList, i)'
        <5>1. k + 1 \in 1 .. i - 1 /\ k \in 1 .. Len(rest)
          BY <3>1, <1>2
        <5>2. lruList'[k + 1] = rest[k] /\ PageIn(rest[k])' = PageIn(rest[k])
          BY <5>1, <1>3, <1>4
        <5>3. PageIn(lruList[k + 1])' = PageIn(rest[k])
          BY <5>2 DEF PageIn
        <5> QED
          BY <5>1, <5>3 DEF PagesAhead
      <4>3. tp \in PagesAhead(lruList, i)'
        <5>1. 1 \in 1 .. i - 1 /\ PageIn(lruList[1])' = tp
          BY <3>1, <1>2, <1>3, <1>4 DEF PageIn
        <5> QED
          BY <5>1 DEF PagesAhead
      <4> QED
        BY <4>1, <4>2, <4>3 DEF PagesAhead
    <3>5. since'[PageIn(rest[m])] = since[PageIn(rest[m])] \union {tp}
      BY <3>1, <3>2, <1>5, <1>6, <1>8
    <3> QED
      BY <3>1, <3>3, <3>4, <3>5, <1>5, <1>6
  <2> QED
    BY <2>1, <2>2
<1>10. PagesIn(lruList)' = PagesIn(rest) \union {tp}
  <2>1. Range(lruList') = Range(rest) \union {h}
    <3>1. Range(lruList') \subseteq Range(rest) \union {h}
      <4>1. ASSUME NEW i \in DOMAIN lruList'
            PROVE  lruList'[i] \in Range(rest) \union {h}
        <5>1. CASE i # 1
          <6>1. i - 1 \in 1 .. Len(rest) /\ (i - 1) + 1 = i
            BY <5>1, <1>2, <1>3
          <6>2. lruList'[(i - 1) + 1] = rest[i - 1]
            BY <6>1, <1>3
          <6> QED
            BY <6>1, <6>2, <1>2 DEF Range
        <5> QED
          BY <5>1, <1>3
      <4> QED
        BY <4>1 DEF Range
    <3>2. Range(rest) \union {h} \subseteq Range(lruList')
      <4>1. \A i \in 1 .. Len(rest) : i + 1 \in DOMAIN lruList' /\ lruList'[i + 1] = rest[i]
        BY <1>2, <1>3
      <4>2. Range(rest) \subseteq Range(lruList')
        BY <4>1, <1>2 DEF Range
      <4>3. 1 \in DOMAIN lruList'
        BY <1>2, <1>3
      <4>4. h \in Range(lruList')
        BY <4>3, <1>3 DEF Range
      <4> QED
        BY <4>2, <4>4
    <3> QED
      BY <3>1, <3>2
  <2>2. PagesIn(lruList)' = {PageIn(f)' : f \in Range(lruList')}
    BY DEF PagesIn, Range
  <2>3. \A f \in Range(rest) : PageIn(f)' = PageIn(f)
    BY <1>2, <1>4 DEF Range
  <2> QED
    BY <2>1, <2>2, <2>3, <1>4 DEF PagesIn
<1>11. ASSUME NEW q \in DOMAIN since', q \notin PagesIn(lruList)'
       PROVE  freeFrames' = << >> /\ PagesIn(lruList)' \subseteq since'[q]
  <2>1. q # tp /\ q \in DOMAIN since /\ since'[q] = since[q] \union {tp} /\ q \notin PagesIn(rest)
    BY <1>5, <1>10, <1>11
  <2>2. CASE q \notin PagesIn(lruList)
    <3>1. freeFrames = << >> /\ PagesIn(lruList) \subseteq since[q]
      BY <2>1, <2>2 DEF RecencyInv
    <3>2. freeFrames' = << >> /\ PagesIn(rest) \subseteq PagesIn(lruList)
      BY <3>1, <1>1, <1>7 DEF PagesIn
    <3> QED
      BY <2>1, <3>1, <3>2, <1>10
  <2>3. CASE q \in PagesIn(lruList)
    <3>1. /\ h = lruList[n] /\ n \in 1 .. n /\ rest = Without(lruList, n)
          /\ freeFrames = << >> /\ freeFrames' = << >> /\ q = PageIn(h)
      <4>1. PICK f \in Range(lruList) : q = PageIn(f)
        BY <2>3 DEF PagesIn
      <4>2. f \notin Range(rest)
        BY <4>1, <2>1 DEF PagesIn
      <4>3. PICK j \in DOMAIN lruList :
              /\ h = lruList[j] /\ rest = Without(lruList, j)
              /\ freeFrames' = freeFrames
              /\ \/ PageIn(h) = tp
                 \/ (j = Len(lruList) /\ freeFrames = << >> /\ ~Resident(t, p))
        BY <4>1, <4>2, <1>1
      <4>4. f = h
        BY <4>1, <4>2, <4>3, <1>2, WithoutShape
      <4> QED
        BY <4>1, <4>3, <4>4, <2>1, <1>2
    <3>2. since[q] = PagesAhead(lruList, n)
      BY <3>1, <1>2 DEF RecencyInv
    <3>3. PagesIn(rest) \subseteq PagesAhead(lruList, n)
      <4>1. ASSUME NEW f \in Range(rest)
            PROVE  PageIn(f) \in PagesAhead(lruList, n)
        <5>1. f \in Range(lruList) /\ f # h
          BY <1>7
        <5>2. PICK i \in 1 .. n : f = lruList[i]
          BY <5>1, <1>2 DEF Range
        <5>3. i \in 1 .. n - 1
          BY <5>1, <5>2, <3>1, <1>2
        <5> QED
          BY <5>2, <5>3 DEF PagesAhead
      <4> QED
        BY <4>1 DEF PagesIn
    <3> QED
      BY <2>1, <3>1, <3>2, <3>3, <1>10
  <2> QED
    BY <2>2, <2>3
<1>12. ASSUME NEW q \in DOMAIN since'
       PROVE  IsFiniteSet(since'[q])
  <2>1. CASE q = tp
    BY <2>1, <1>5, FS_EmptySet
  <2>2. CASE q # tp
    <3>1. IsFiniteSet(since[q]) /\ since'[q] = since[q] \union {tp}
      BY <2>2, <1>5 DEF RecencyInv
    <3> QED
      BY <3>1, FS_AddElement
  <2> QED
    BY <2>1, <2>2
<1> QED
  BY <1>9, <1>11, <1>12 DEF RecencyInv

(***************************************************************************)
(* Markings and flushes leave list and pages alone, a new process starts   *)
(* with an empty list and no history.                                      *)
(***************************************************************************)
LEMMA NextKeepsRecency ==
  ASSUME PoolInv, RecencyInv, [RNext]_rvars
  PROVE  RecencyInv'
<1>1. ASSUME UNCHANGED <<frameInfos, lruList, freeFrames, since>>
      PROVE  RecencyInv'
  <2>1. \A f : PageIn(f)' = PageIn(f)
    BY <1>1 DEF PageIn
  <2>2. PagesIn(lruList)' = PagesIn(lruList)
        /\ \A i : PagesAhead(lruList, i)' = PagesAhead(lruList, i)
    BY <1>1 DEF PagesIn, PagesAhead, PageIn, Range
  <2> QED
    BY <1>1, <2>1, <2>2 DEF RecencyInv
<1>2. ASSUME NEW t \in Tables, NEW p \in PageIds, fetchPage(t, p), since' = Used(<<t, p>>)
      PROVE  RecencyInv'
  BY <1>2, FetchKeepsRecency
<1>3. ASSUME NEW c \in Contents, markDirty(c), UNCHANGED since
      PROVE  RecencyInv'
  BY <1>1, <1>3 DEF markDirty
<1>4. ASSUME NEW scope, NEW exit, StartFlush(scope, exit), UNCHANGED since
      PROVE  RecencyInv'
  BY <1>1, <1>4 DEF StartFlush
<1>5. CASE FlushFrame /\ UNCHANGED since
  BY <1>1, <1>5 DEF FlushFrame
<1>6. CASE Reset /\ since' = NothingUsed
  BY <1>6 DEF Reset, NothingUsed, RecencyInv
<1>7. CASE UNCHANGED rvars
  BY <1>1, <1>7 DEF rvars, vars
<1> QED
  BY <1>2, <1>3, <1>4, <1>5, <1>6, <1>7 DEF RNext, Exit, Crash

(***************************************************************************)
(* Frames in use hold different pages, so as many pages stand before a     *)
(* position of the list as there are positions; no list is longer than the *)
(* pool, and one with no free frame left is as long.                       *)
(***************************************************************************)
LEMMA PagesCounted ==
  ASSUME PoolInv, NEW i \in 1 .. Len(lruList) + 1
  PROVE  IsFiniteSet(PagesAhead(lruList, i)) /\ Cardinality(PagesAhead(lruList, i)) = i - 1
<1> DEFINE F == [j \in 1 .. i - 1 |-> PageIn(lruList[j])]
<1>1. lruList \in Seq(Frames) /\ IsInjective(lruList) /\ i - 1 \in Nat
  BY DEF PoolInv, TypeOK, FrameAccounting
<1>2. ASSUME NEW j \in 1 .. i - 1, NEW k \in 1 .. i - 1, F[j] = F[k]
      PROVE  j = k
  <2>1. j \in DOMAIN lruList /\ k \in DOMAIN lruList /\ PageIn(lruList[j]) = PageIn(lruList[k])
    BY <1>1, <1>2
  <2>2. lruList[j] \in Range(lruList) /\ lruList[k] \in Range(lruList)
    BY <2>1 DEF Range
  <2>3. lruList[j] = lruList[k]
    BY <2>1, <2>2, FrameResident DEF PageIn
  <2> QED
    BY <2>1, <2>3, <1>1 DEF IsInjective
<1>3. F \in Bijection(1 .. i - 1, PagesAhead(lruList, i))
  <2>1. PagesAhead(lruList, i) = {F[j] : j \in 1 .. i - 1}
    BY DEF PagesAhead
  <2>2. F \in [1 .. i - 1 -> PagesAhead(lruList, i)]
    BY DEF PagesAhead
  <2> HIDE DEF F
  <2>3. F \in Injection(1 .. i - 1, PagesAhead(lruList, i))
    BY <1>2, <2>2 DEF Injection, IsInjective
  <2>4. F \in Surjection(1 .. i - 1, PagesAhead(lruList, i))
    BY <2>1, <2>2 DEF Surjection
  <2> QED
    BY <2>3, <2>4 DEF Bijection
<1>4. ExistsBijection(1 .. i - 1, PagesAhead(lruList, i))
  BY <1>3 DEF ExistsBijection
<1>5. Cardinality(PagesAhead(lruList, i)) = i - 1
  BY <1>1, <1>4, FS_CountingElements
<1>6. IsFiniteSet(PagesAhead(lruList, i))
  BY <1>1, <1>4, FS_NatBijection
<1> QED
  BY <1>5, <1>6

LEMMA ListFitsPool ==
  ASSUME PoolInv
  PROVE  Len(lruList) <= Capacity /\ (freeFrames = << >> => Len(lruList) = Capacity)
<1>1. lruList \in Seq(Frames) /\ IsInjective(lruList) /\ Range(lruList) \subseteq Frames
      /\ Len(lruList) \in Nat /\ DOMAIN lruList = 1 .. Len(lruList)
  BY DEF PoolInv, TypeOK, FrameAccounting
<1>2. lruList \in Bijection(1 .. Len(lruList), Range(lruList))
  BY <1>1 DEF Bijection, Injection, Surjection, IsInjective, Range
<1>3. Cardinality(Range(lruList)) = Len(lruList)
  BY <1>1, <1>2, FS_CountingElements DEF ExistsBijection
<1>4. IsFiniteSet(Frames) /\ Cardinality(Frames) = Capacity
  <2>1. 0 \in Int /\ Capacity - 1 \in Int /\ Capacity \in Nat \ {0}
    BY BufferPoolAssumption
  <2>2. Cardinality(0 .. Capacity - 1) = Capacity - 1 - 0 + 1
    BY <2>1, FS_Interval
  <2> QED
    BY <2>1, <2>2, FS_Interval DEF Frames
<1>5. Len(lruList) <= Capacity
  BY <1>1, <1>3, <1>4, FS_Subset
<1>6. freeFrames = << >> => Range(lruList) = Frames
  BY DEF PoolInv, FrameAccounting, Range
<1> QED
  BY <1>3, <1>4, <1>5, <1>6

(***************************************************************************)
(* The invariant says what the pool holds.                                 *)
(***************************************************************************)
LEMMA RecencyCounts == PoolInv /\ RecencyInv => HoldsMostRecentPages
<1> SUFFICES ASSUME PoolInv, RecencyInv PROVE HoldsMostRecentPages
  OBVIOUS
<1> DEFINE n == Len(lruList)
<1>1. /\ lruList \in Seq(Frames) /\ n \in Nat /\ DOMAIN lruList = 1 .. n
      /\ n <= Capacity /\ Capacity \in Nat
  BY ListFitsPool, BufferPoolAssumption DEF PoolInv, TypeOK
<1>2. ASSUME NEW i \in DOMAIN lruList
      PROVE  /\ PageIn(lruList[i]) \in DOMAIN since
             /\ Cardinality(since[PageIn(lruList[i])]) = i - 1
  BY <1>1, PagesCounted DEF RecencyInv
<1>3. ASSUME NEW t \in Tables, NEW p \in PageIds, Resident(t, p)
      PROVE  <<t, p>> \in DOMAIN since /\ Cardinality(since[<<t, p>>]) < Capacity
  <2>1. PICK f \in Range(lruList) : <<t, p>> = PageIn(f)
    <3> DEFINE g == frameMap[makePageKey(t, p)]
    <3>1. g \in Range(lruList) /\ frameInfos[g] = Info(t, p)
      BY <1>3, ResidentFrame
    <3>2. <<t, p>> = PageIn(g)
      BY <3>1 DEF Info, PageIn
    <3> QED
      BY <3>1, <3>2
  <2>2. PICK i \in DOMAIN lruList : f = lruList[i]
    BY DEF Range
  <2> QED
    BY <1>1, <1>2, <2>1, <2>2
<1>4. ASSUME NEW t \in Tables, NEW p \in PageIds, ~Resident(t, p), <<t, p>> \in DOMAIN since
      PROVE  ~(Cardinality(since[<<t, p>>]) < Capacity)
  <2>1. <<t, p>> \notin PagesIn(lruList)
    BY <1>4, FrameResident DEF PagesIn, PageIn
  <2>2. freeFrames = << >> /\ PagesIn(lruList) \subseteq since[<<t, p>>]
        /\ IsFiniteSet(since[<<t, p>>])
    BY <1>4, <2>1 DEF RecencyInv
  <2>3. PagesIn(lruList) = PagesAhead(lruList, n + 1)
    <3>1. 1 .. (n + 1) - 1 = DOMAIN lruList
      BY <1>1
    <3> QED
      BY <3>1 DEF PagesIn, PagesAhead, Range
  <2>4. Cardinality(PagesIn(lruList)) = n /\ n = Capacity
    <3>1. n + 1 \in 1 .. Len(lruList) + 1 /\ (n + 1) - 1 = n
      BY <1>1
    <3>2. Cardinality(PagesAhead(lruList, n + 1)) = n
      BY <3>1, PagesCounted
    <3> QED
      BY <2>2, <2>3, <3>2, ListFitsPool
  <2>5. Cardinality(PagesIn(lruList)) <= Cardinality(since[<<t, p>>])
    BY <2>2, FS_Subset
  <2>6. Cardinality(since[<<t, p>>]) \in Nat
    BY <2>2, FS_CardinalityType
  <2> QED
    BY <1>1, <2>4, <2>5, <2>6
<1> QED
  BY <1>2, <1>3, <1>4 DEF HoldsMostRecentPages

(***************************************************************************)
(* For pools of any size and any sequence of fetches, writes, flushes and  *)
(* restarts, the pool holds the pages fetched most recently, in that       *)
(* order, and evictLRU gives up the one that was not used for the longest  *)
(* time.                                                                   *)
(***************************************************************************)
THEOREM PoolHoldsMostRecentPages == RSpec => []HoldsMostRecentPages
<1>1. RInit => PoolInv /\ RecencyInv
  <2>1. RInit => PoolInv
    BY InitIsFresh, FreshPoolInv DEF RInit
  <2>2. RInit => RecencyInv
    BY DEF RInit, Init, NothingUsed, RecencyInv
  <2> QED
    BY <2>1, <2>2
<1>2. PoolInv /\ RecencyInv /\ [RNext]_rvars => PoolInv' /\ RecencyInv'
  <2>1. [RNext]_rvars => [Next]_vars
    BY DEF RNext, Next, rvars, vars
  <2> QED
    BY <2>1, NextKeepsInv, NextKeepsRecency
<1> QED
  BY <1>1, <1>2, RecencyCounts, PTL DEF RSpec

-----------------------------------------------------------------------------
(* The pointers of the list *)

Pointers == Frames \union {NoFrame}

LinksType == [head : Pointers, tail : Pointers,
              next : [Frames -> Pointers], prev : [Frames -> Pointers]]

\* The frame at position i of a list, a null pointer beyond its ends.
At(list, i) == IF i \in DOMAIN list THEN list[i] ELSE NoFrame

\* The pointers l spell the list, and no other node points anywhere.
Spells(l, list) ==
  /\ l \in LinksType
  /\ l.head = At(list, 1) /\ l.tail = At(list, Len(list))
  /\ \A i \in DOMAIN list :
       l.next[list[i]] = At(list, i + 1) /\ l.prev[list[i]] = At(list, i - 1)
  /\ \A f \in Frames \ Range(list) : l.next[f] = NoFrame /\ l.prev[f] = NoFrame

(***************************************************************************)
(* pushFront of a node that is not in the list puts it in front of it.     *)
(***************************************************************************)
LEMMA PushFrontSpells ==
  ASSUME NEW list \in Seq(Frames), IsInjective(list), NEW f \in Frames, f \notin Range(list),
         NEW l, Spells(l, list)
  PROVE  Spells(pushFront(l, f), <<f>> \o list)
<1> DEFINE n == Len(list)
           g == <<f>> \o list
           r == pushFront(l, f)
<1>1. n \in Nat /\ DOMAIN list = 1 .. n /\ \A i \in 1 .. n : list[i] \in Frames
  OBVIOUS
<1>2. Len(g) = n + 1 /\ DOMAIN g = 1 .. n + 1
      /\ g[1] = f /\ \A i \in 1 .. n : g[i + 1] = list[i]
  <2>1. g \in Seq(Frames) /\ Len(g) = n + 1
    OBVIOUS
  <2> QED
    BY <1>1, <2>1
<1>3. Range(g) = Range(list) \union {f}
  BY PushFrontAdds
<1> HIDE DEF g
<1>4. /\ l.head \in Pointers /\ l.tail \in Pointers
      /\ l.next \in [Frames -> Pointers] /\ l.prev \in [Frames -> Pointers]
  BY DEF Spells, LinksType
<1>5. /\ r.head = f /\ r.tail = (IF l.tail = NoFrame THEN f ELSE l.tail)
      /\ r.next = [l.next EXCEPT ![f] = l.head]
      /\ r.prev = [h \in Frames |-> IF h = f THEN NoFrame
                                    ELSE IF h = l.head THEN f ELSE l.prev[h]]
  BY DEF pushFront
<1>6. r \in LinksType
  <2>1. r = [head |-> r.head, tail |-> r.tail, next |-> r.next, prev |-> r.prev]
    BY DEF pushFront
  <2>2. r.next \in [Frames -> Pointers] /\ r.prev \in [Frames -> Pointers]
    BY <1>4, <1>5 DEF Pointers
  <2>3. r.head \in Pointers /\ r.tail \in Pointers
    BY <1>4, <1>5 DEF Pointers
  <2> HIDE DEF r
  <2> QED
    BY <2>1, <2>2, <2>3 DEF LinksType
<1> HIDE DEF r
<1>7. /\ l.head = At(list, 1) /\ l.tail = At(list, n)
      /\ \A i \in 1 .. n : l.next[list[i]] = At(list, i + 1) /\ l.prev[list[i]] = At(list, i - 1)
      /\ \A h \in Frames \ Range(list) : l.next[h] = NoFrame /\ l.prev[h] = NoFrame
  BY <1>1 DEF Spells
<1>8. \A i \in 1 .. n : list[i] # f /\ (list[i] = l.head <=> i = 1)
  <2>1. \A i \in 1 .. n : list[i] # f
    BY <1>1 DEF Range
  <2>2. \A i \in 1 .. n : l.head = list[1] /\ (list[i] = list[1] <=> i = 1)
    BY <1>1, <1>7 DEF At, IsInjective
  <2> QED
    BY <2>1, <2>2
<1>9. r.head = At(g, 1) /\ r.tail = At(g, n + 1)
  <2>1. r.head = At(g, 1)
    BY <1>1, <1>2, <1>5 DEF At
  <2>2. CASE n = 0
    BY <2>2, <1>2, <1>5, <1>7, <1>1 DEF At
  <2>3. CASE n # 0
    <3>1. n \in 1 .. n /\ g[n + 1] = list[n] /\ l.tail = list[n]
      BY <2>3, <1>1, <1>2, <1>7 DEF At
    <3> QED
      BY <3>1, <1>1, <1>2, <1>5, NullIsNoFrame DEF At
  <2> QED
    BY <2>1, <2>2, <2>3
<1>10. ASSUME NEW i \in 1 .. n + 1
       PROVE  r.next[g[i]] = At(g, i + 1) /\ r.prev[g[i]] = At(g, i - 1)
  <2>1. CASE i = 1
    <3>1. r.next[f] = l.head /\ r.prev[f] = NoFrame
      BY <1>4, <1>5
    <3>2. At(g, 2) = At(list, 1)
      BY <1>1, <1>2 DEF At
    <3>3. At(g, 0) = NoFrame
      BY <1>1, <1>2 DEF At
    <3> QED
      BY <2>1, <3>1, <3>2, <3>3, <1>2, <1>7
  <2>2. CASE i # 1
    <3> DEFINE j == i - 1
    <3>1. j \in 1 .. n /\ i = j + 1 /\ g[i] = list[j] /\ list[j] \in Frames
      BY <2>2, <1>1, <1>2
    <3>2. /\ r.next[list[j]] = At(list, j + 1)
          /\ r.prev[list[j]] = IF j = 1 THEN f ELSE At(list, j - 1)
      BY <3>1, <1>4, <1>5, <1>7, <1>8
    <3>3. At(g, i + 1) = At(list, j + 1)
      BY <3>1, <1>1, <1>2 DEF At
    <3>4. At(g, j) = IF j = 1 THEN f ELSE At(list, j - 1)
      <4>1. CASE j = 1
        BY <4>1, <1>1, <1>2 DEF At
      <4>2. CASE j # 1
        <5>1. j - 1 \in 1 .. n /\ j \in 1 .. n + 1 /\ (j - 1) + 1 = j
          BY <4>2, <3>1, <1>1
        <5>2. g[(j - 1) + 1] = list[j - 1]
          BY <5>1, <1>2
        <5> HIDE DEF j
        <5> QED
          BY <4>2, <5>1, <5>2, <1>1, <1>2 DEF At
      <4> QED
        BY <4>1, <4>2
    <3> HIDE DEF j
    <3> QED
      BY <3>1, <3>2, <3>3, <3>4, <1>1
  <2> QED
    BY <2>1, <2>2
<1>11. ASSUME NEW h \in Frames \ Range(g)
       PROVE  r.next[h] = NoFrame /\ r.prev[h] = NoFrame
  <2>1. h # f /\ h \in Frames \ Range(list)
    BY <1>3
  <2>2. h # l.head
    <3>1. n # 0 => list[1] \in Range(list)
      BY <1>1 DEF Range
    <3> QED
      BY <2>1, <3>1, <1>1, <1>7, NullIsNoFrame DEF At
  <2> QED
    BY <2>1, <2>2, <1>4, <1>5, <1>7
<1> QED
  BY <1>2, <1>6, <1>9, <1>10, <1>11 DEF Spells, g, r

(***************************************************************************)
(* unlink takes the node out and leaves the order of the others.           *)
(***************************************************************************)
LEMMA UnlinkSpells ==
  ASSUME NEW list \in Seq(Frames), IsInjective(list), NEW j \in DOMAIN list,
         NEW l, Spells(l, list)
  PROVE  Spells(unlink(l, list[j]), Without(list, j))
<1> DEFINE n == Len(list)
           f == list[j]
           g == Without(list, j)
           r == unlink(l, f)
<1>1. n \in Nat /\ DOMAIN list = 1 .. n /\ j \in 1 .. n /\ \A i \in 1 .. n : list[i] \in Frames
  OBVIOUS
<1>2. /\ Len(g) = n - 1 /\ DOMAIN g = 1 .. n - 1
      /\ \A i \in 1 .. n - 1 : g[i] = IF i < j THEN list[i] ELSE list[i + 1]
  BY <1>1 DEF Without
<1>3. Range(g) = Range(list) \ {f}
  BY WithoutShape
<1> HIDE DEF g
<1>4. /\ l.head \in Pointers /\ l.tail \in Pointers
      /\ l.next \in [Frames -> Pointers] /\ l.prev \in [Frames -> Pointers]
  BY DEF Spells, LinksType
<1>5. /\ l.head = At(list, 1) /\ l.tail = At(list, n)
      /\ \A i \in 1 .. n : l.next[list[i]] = At(list, i + 1) /\ l.prev[list[i]] = At(list, i - 1)
      /\ \A h \in Frames \ Range(list) : l.next[h] = NoFrame /\ l.prev[h] = NoFrame
  BY <1>1 DEF Spells
<1>6. l.next[f] = At(list, j + 1) /\ l.prev[f] = At(list, j - 1) /\ f \in Frames
  BY <1>1, <1>5
<1>7. /\ r.head = IF At(list, j - 1) = NoFrame THEN At(list, j + 1) ELSE At(list, 1)
      /\ r.tail = IF At(list, j + 1) = NoFrame THEN At(list, j - 1) ELSE At(list, n)
      /\ r.next = [h \in Frames |-> IF h = f THEN NoFrame
                     ELSE IF h = At(list, j - 1) THEN At(list, j + 1) ELSE l.next[h]]
      /\ r.prev = [h \in Frames |-> IF h = f THEN NoFrame
                     ELSE IF h = At(list, j + 1) THEN At(list, j - 1) ELSE l.prev[h]]
  BY <1>5, <1>6 DEF unlink
<1>8. \A i \in Int : /\ At(list, i) \in Pointers
                     /\ (At(list, i) = NoFrame <=> i \notin 1 .. n)
                     /\ (i \in 1 .. n => At(list, i) = list[i])
  BY <1>1, NullIsNoFrame DEF At, Pointers
<1>9. \A i \in Int : \A k \in 1 .. n : At(list, i) = list[k] <=> i = k
  <2>1. \A i, k \in 1 .. n : list[i] = list[k] <=> i = k
    BY <1>1 DEF IsInjective
  <2> QED
    BY <2>1, <1>1, <1>8, NullIsNoFrame
<1>10. \A i \in Int : At(g, i) = IF i < j THEN At(list, i) ELSE At(list, i + 1)
  BY <1>1, <1>2 DEF At
<1>11. r \in LinksType
  <2>1. r = [head |-> r.head, tail |-> r.tail, next |-> r.next, prev |-> r.prev]
    BY DEF unlink
  <2>2. r.next \in [Frames -> Pointers] /\ r.prev \in [Frames -> Pointers]
    BY <1>1, <1>4, <1>7, <1>8 DEF Pointers
  <2>3. r.head \in Pointers /\ r.tail \in Pointers
    BY <1>1, <1>7, <1>8
  <2> HIDE DEF r
  <2> QED
    BY <2>1, <2>2, <2>3 DEF LinksType
<1> HIDE DEF r
<1>12. r.head = At(g, 1)
  BY <1>1, <1>7, <1>8, <1>10
<1>13. r.tail = At(g, n - 1)
  BY <1>1, <1>7, <1>8, <1>10
<1>14. ASSUME NEW i \in 1 .. n - 1
       PROVE  r.next[g[i]] = At(g, i + 1) /\ r.prev[g[i]] = At(g, i - 1)
  <2> DEFINE k == IF i < j THEN i ELSE i + 1
  <2>1. k \in 1 .. n /\ k # j /\ g[i] = list[k] /\ list[k] \in Frames /\ list[k] # f
    BY <1>1, <1>2, <1>9, <1>8
  <2>2. r.next[list[k]] = IF k = j - 1 THEN At(list, j + 1) ELSE At(list, k + 1)
    <3>1. list[k] = At(list, j - 1) <=> k = j - 1
      BY <2>1, <1>1, <1>9
    <3> HIDE DEF k
    <3> QED
      BY <2>1, <3>1, <1>5, <1>7
  <2>3. r.prev[list[k]] = IF k = j + 1 THEN At(list, j - 1) ELSE At(list, k - 1)
    <3>1. list[k] = At(list, j + 1) <=> k = j + 1
      BY <2>1, <1>1, <1>9
    <3> HIDE DEF k
    <3> QED
      BY <2>1, <3>1, <1>5, <1>7
  <2>4. At(g, i + 1) = IF k = j - 1 THEN At(list, j + 1) ELSE At(list, k + 1)
    <3>1. At(g, i + 1) = IF i + 1 < j THEN At(list, i + 1) ELSE At(list, (i + 1) + 1)
      BY <1>10
    <3> QED
      BY <3>1, <1>1
  <2>5. At(g, i - 1) = IF k = j + 1 THEN At(list, j - 1) ELSE At(list, k - 1)
    <3>1. At(g, i - 1) = IF i - 1 < j THEN At(list, i - 1) ELSE At(list, (i - 1) + 1)
      BY <1>10
    <3> QED
      BY <3>1, <1>1
  <2> HIDE DEF k
  <2> QED
    BY <2>1, <2>2, <2>3, <2>4, <2>5
<1>15. ASSUME NEW h \in Frames \ Range(g)
       PROVE  r.next[h] = NoFrame /\ r.prev[h] = NoFrame
  <2>1. CASE h = f
    BY <2>1, <1>7, <1>6
  <2>2. CASE h # f
    <3>1. h \notin Range(list)
      BY <2>2, <1>3
    <3>2. \A i \in 1 .. n : h # list[i]
      BY <3>1, <1>1 DEF Range
    <3>3. h # At(list, j - 1) /\ h # At(list, j + 1)
      BY <3>2, <1>1, <1>8, NullIsNoFrame
    <3> QED
      BY <2>2, <3>1, <3>3, <1>5, <1>7
  <2> QED
    BY <2>1, <2>2
<1> QED
  BY <1>2, <1>11, <1>12, <1>13, <1>14, <1>15 DEF Spells, g, r

-----------------------------------------------------------------------------
(* The chains of the hash map *)

Nodes == [key : PageKeys, value : Frames]

\* The chain c of bucket b has one node for each key of m in that bucket.
ChainHolds(c, b, m) ==
  /\ c \in Seq(Nodes)
  /\ \A i \in DOMAIN c : hash(c[i].key) = b /\ m[c[i].key] = c[i].value
  /\ \A i, j \in DOMAIN c : c[i].key = c[j].key => i = j
  /\ \A k \in PageKeys : hash(k) = b /\ m[k] # NoFrame => \E i \in DOMAIN c : c[i].key = k

\* What the buckets hold is m.
MapHolds(map, m) ==
  /\ m \in [PageKeys -> Frames \union {NoFrame}]
  /\ DOMAIN map = Buckets /\ map = [b \in Buckets |-> map[b]]
  /\ \A b \in Buckets : ChainHolds(map[b], b, m)

(***************************************************************************)
(* IntHashMap::hash yields a bucket.                                       *)
(***************************************************************************)
LEMMA HashIsBucket ==
  ASSUME NEW k \in PageKeys
  PROVE  hash(k) \in Buckets
<1>1. k \in Nat /\ HashFactor \in Nat /\ KeyMod \in Nat \ {0} /\ Capacity \in Nat \ {0}
  BY BufferPoolAssumption, HashFactorAssumption DEF PageKeys
<1>2. k * HashFactor \in Nat
  BY <1>1
<1>3. (k * HashFactor) % KeyMod \in Nat
  <2> DEFINE x == k * HashFactor
  <2>1. x \in Nat
    BY <1>2
  <2> HIDE DEF x
  <2>2. x % KeyMod \in Nat
    BY <2>1, <1>1
  <2> QED
    BY <2>2 DEF x
<1>4. hash(k) \in 0 .. Capacity * 4 - 1
  <2> DEFINE x == (k * HashFactor) % KeyMod
             y == Capacity * 4
  <2>1. x \in Nat /\ y \in Nat \ {0} /\ hash(k) = x % y
    BY <1>1, <1>3 DEF hash
  <2> HIDE DEF x, y
  <2>2. hash(k) \in 0 .. y - 1
    BY <2>1
  <2> QED
    BY <2>2 DEF y
<1> QED
  BY <1>4 DEF Buckets

(***************************************************************************)
(* The nodes of a chain.                                                   *)
(***************************************************************************)
LEMMA ChainNodes ==
  ASSUME NEW m, NEW b, NEW c, ChainHolds(c, b, m)
  PROVE  /\ Len(c) \in Nat /\ DOMAIN c = 1 .. Len(c)
         /\ \A i \in DOMAIN c : /\ hash(c[i].key) = b /\ m[c[i].key] = c[i].value
                                /\ c[i].key \in PageKeys /\ c[i].value \in Frames
<1>1. c \in Seq(Nodes)
  BY DEF ChainHolds
<1>2. Len(c) \in Nat /\ DOMAIN c = 1 .. Len(c) /\ \A i \in DOMAIN c : c[i] \in Nodes
  BY <1>1
<1>3. \A i \in DOMAIN c : c[i].key \in PageKeys /\ c[i].value \in Frames
  BY <1>2 DEF Nodes
<1> QED
  BY <1>2, <1>3 DEF ChainHolds

(***************************************************************************)
(* The loop over a chain stops at the node of the key, if the map has it.  *)
(***************************************************************************)
LEMMA PlaceFindsKey ==
  ASSUME NEW m \in [PageKeys -> Frames \union {NoFrame}], NEW k \in PageKeys,
         NEW c, ChainHolds(c, hash(k), m)
  PROVE  /\ m[k] = NoFrame => Place(c, k) = 0 /\ \A i \in DOMAIN c : c[i].key # k
         /\ m[k] # NoFrame => /\ Place(c, k) \in DOMAIN c
                              /\ c[Place(c, k)].key = k
                              /\ c[Place(c, k)].value = m[k]
<1> DEFINE found == {i \in 1 .. Len(c) : c[i].key = k}
<1>1. /\ DOMAIN c = 1 .. Len(c) /\ Len(c) \in Nat
      /\ \A i \in 1 .. Len(c) : m[c[i].key] = c[i].value /\ c[i].value \in Frames
  BY ChainNodes
<1>2. Place(c, k) = IF found # {} THEN Min(found) ELSE 0
  BY DEF Place, SelectInSeq
<1>3. CASE m[k] = NoFrame
  <2>1. found = {}
    BY <1>1, <1>3, NullIsNoFrame
  <2> QED
    BY <2>1, <1>1, <1>2, <1>3
<1>4. CASE m[k] # NoFrame
  <2>1. PICK i \in 1 .. Len(c) : c[i].key = k
    BY <1>1, <1>4 DEF ChainHolds
  <2>2. found = {i}
    BY <2>1, <1>1 DEF ChainHolds
  <2>3. Min(found) = i
    BY <2>1, <2>2 DEF Min
  <2> QED
    BY <2>1, <2>2, <2>3, <1>1, <1>2, <1>4
<1> QED
  BY <1>3, <1>4

(***************************************************************************)
(* get finds the frame of a key, and NoFrame if the map has none.          *)
(***************************************************************************)
LEMMA GetIsLookup ==
  ASSUME NEW m, NEW map, MapHolds(map, m), NEW k \in PageKeys
  PROVE  get(map, k) = m[k]
<1>1. ChainHolds(map[hash(k)], hash(k), m) /\ m \in [PageKeys -> Frames \union {NoFrame}]
  BY HashIsBucket DEF MapHolds
<1>2. m[k] # NoFrame => Place(map[hash(k)], k) # 0
  BY <1>1, PlaceFindsKey DEF ChainHolds
<1> QED
  BY <1>1, <1>2, PlaceFindsKey DEF get

(***************************************************************************)
(* A chain is not touched by a change of the map in another bucket.        *)
(***************************************************************************)
LEMMA OtherChainHolds ==
  ASSUME NEW m \in [PageKeys -> Frames \union {NoFrame}], NEW k \in PageKeys,
         NEW b, b # hash(k), NEW c, ChainHolds(c, b, m), NEW f
  PROVE  ChainHolds(c, b, [m EXCEPT ![k] = f])
<1> DEFINE n == [m EXCEPT ![k] = f]
<1>1. \A x \in PageKeys : hash(x) = b => n[x] = m[x]
  OBVIOUS
<1>2. \A i \in DOMAIN c : c[i].key \in PageKeys
  BY ChainNodes
<1> HIDE DEF n
<1>3. ChainHolds(c, b, n)
  BY <1>1, <1>2 DEF ChainHolds
<1> QED
  BY <1>3 DEF n

(***************************************************************************)
(* put of a key the map has not: a new node in front of its chain.         *)
(***************************************************************************)
LEMMA PutAddsKey ==
  ASSUME NEW m, NEW map, MapHolds(map, m), NEW k \in PageKeys, m[k] = NoFrame,
         NEW f \in Frames
  PROVE  MapHolds(put(map, k, f), [m EXCEPT ![k] = f])
<1> DEFINE b == hash(k)
           c == map[b]
           node == [key |-> k, value |-> f]
           d == <<node>> \o c
           n == [m EXCEPT ![k] = f]
<1>1. b \in Buckets /\ ChainHolds(c, b, m) /\ m \in [PageKeys -> Frames \union {NoFrame}]
  BY HashIsBucket DEF MapHolds
<1>2. Place(c, k) = 0 /\ \A i \in DOMAIN c : c[i].key # k
  BY <1>1, PlaceFindsKey
<1>3. put(map, k, f) = [map EXCEPT ![b] = d]
  BY <1>2 DEF put, ChainPut
<1>4. n[k] = f /\ \A x \in PageKeys \ {k} : n[x] = m[x]
  BY <1>1
<1>5. n \in [PageKeys -> Frames \union {NoFrame}]
  BY <1>1
<1>6. c \in Seq(Nodes) /\ node \in Nodes /\ node.key = k /\ node.value = f
  BY <1>1 DEF ChainHolds, Nodes
<1> HIDE DEF n, c, node
<1>7. /\ d \in Seq(Nodes) /\ Len(d) = Len(c) + 1 /\ Len(c) \in Nat /\ d[1] = node
      /\ \A i \in 1 .. Len(c) : d[i + 1] = c[i]
  BY <1>6
<1>8. DOMAIN c = 1 .. Len(c) /\ DOMAIN d = 1 .. Len(c) + 1
  BY <1>6, <1>7
<1> HIDE DEF d
<1>9. \A i \in DOMAIN d : i = 1 \/ (i - 1 \in DOMAIN c /\ d[i] = c[i - 1])
  <2> TAKE i \in DOMAIN d
  <2>1. CASE i # 1
    <3>1. i - 1 \in 1 .. Len(c)
      BY <2>1, <1>7, <1>8
    <3>2. d[(i - 1) + 1] = c[i - 1]
      BY <3>1, <1>7
    <3> QED
      BY <3>1, <3>2, <1>8
  <2> QED
    BY <2>1
<1>10. \A i \in DOMAIN c : /\ hash(c[i].key) = b /\ m[c[i].key] = c[i].value
                           /\ c[i].key \in PageKeys /\ c[i].key # k
  BY <1>1, <1>2, ChainNodes
<1>11. \A i, j \in DOMAIN c : c[i].key = c[j].key => i = j
  BY <1>1 DEF ChainHolds
<1>12. \A x \in PageKeys : hash(x) = b /\ m[x] # NoFrame => \E i \in DOMAIN c : c[i].key = x
  BY <1>1 DEF ChainHolds
<1> HIDE DEF b
<1>13. ChainHolds(d, b, n)
  <2>1. \A i \in DOMAIN d : hash(d[i].key) = b /\ n[d[i].key] = d[i].value
    BY <1>4, <1>6, <1>7, <1>9, <1>10 DEF b
  <2>2. \A i, j \in DOMAIN d : d[i].key = d[j].key => i = j
    <3> TAKE i, j \in DOMAIN d
    <3> HAVE d[i].key = d[j].key
    <3>1. CASE i = 1 \/ j = 1
      BY <3>1, <1>6, <1>7, <1>9, <1>10
    <3>2. CASE i # 1 /\ j # 1
      <4>1. i - 1 = j - 1
        BY <3>2, <1>9, <1>11
      <4> QED
        BY <4>1, <1>7, <1>8
    <3> QED
      BY <3>1, <3>2
  <2>3. ASSUME NEW x \in PageKeys, hash(x) = b, n[x] # NoFrame
        PROVE  \E i \in DOMAIN d : d[i].key = x
    <3>1. CASE x = k
      BY <3>1, <1>6, <1>7, <1>8
    <3>2. CASE x # k
      <4>1. PICK i \in DOMAIN c : c[i].key = x
        BY <3>2, <2>3, <1>4, <1>12
      <4>2. i + 1 \in DOMAIN d /\ d[i + 1] = c[i]
        BY <1>7, <1>8
      <4> QED
        BY <4>1, <4>2
    <3> QED
      BY <3>1, <3>2
  <2> QED
    BY <2>1, <2>2, <2>3, <1>7 DEF ChainHolds
<1>14. \A x \in Buckets \ {b} : ChainHolds(map[x], x, n)
  BY <1>1, OtherChainHolds DEF MapHolds, n, b
<1> QED
  BY <1>1, <1>3, <1>5, <1>13, <1>14 DEF MapHolds, n

(***************************************************************************)
(* remove of a key the map has: its node leaves its chain.                 *)
(***************************************************************************)
LEMMA RemoveDropsKey ==
  ASSUME NEW m, NEW map, MapHolds(map, m), NEW k \in PageKeys, m[k] # NoFrame
  PROVE  MapHolds(remove(map, k), [m EXCEPT ![k] = NoFrame])
<1> DEFINE b == hash(k)
           c == map[b]
           p == Place(c, k)
           d == RemoveAt(c, p)
           n == [m EXCEPT ![k] = NoFrame]
           src(i) == IF i < p THEN i ELSE i + 1
<1>1. b \in Buckets /\ ChainHolds(c, b, m) /\ m \in [PageKeys -> Frames \union {NoFrame}]
  BY HashIsBucket DEF MapHolds
<1>2. p \in DOMAIN c /\ c[p].key = k
  BY <1>1, PlaceFindsKey
<1>3. c \in Seq(Nodes) /\ DOMAIN c = 1 .. Len(c) /\ Len(c) \in Nat /\ p \in 1 .. Len(c)
  BY <1>1, <1>2 DEF ChainHolds
<1>4. remove(map, k) = [map EXCEPT ![b] = d]
  <2>1. p # 0
    BY <1>3
  <2>2. ChainRemove(c, k) = d
    BY <2>1 DEF ChainRemove
  <2> QED
    BY <2>2 DEF remove
<1>5. n[k] = NoFrame /\ \A x \in PageKeys \ {k} : n[x] = m[x]
  BY <1>1
<1>6. n \in [PageKeys -> Frames \union {NoFrame}]
  BY <1>1
<1> HIDE DEF n, p
<1>7. /\ d \in Seq(Nodes) /\ DOMAIN d = 1 .. Len(c) - 1
      /\ \A i \in DOMAIN d : d[i] = c[src(i)]
  <2> DEFINE u == SubSeq(c, 1, p - 1)
             v == SubSeq(c, p + 1, Len(c))
  <2>1. u \in Seq(Nodes) /\ Len(u) = p - 1 /\ \A i \in 1 .. p - 1 : u[i] = c[i]
    BY <1>3
  <2>2. v \in Seq(Nodes) /\ Len(v) = Len(c) - p /\ \A i \in 1 .. Len(c) - p : v[i] = c[i + p]
    BY <1>3
  <2>3. d = u \o v
    BY DEF RemoveAt
  <2> HIDE DEF u, v, d
  <2>4. d \in Seq(Nodes) /\ Len(d) = Len(c) - 1
    <3>1. u \in Seq(Nodes) /\ v \in Seq(Nodes)
      BY <2>1, <2>2
    <3>2. u \o v \in Seq(Nodes) /\ Len(u \o v) = Len(u) + Len(v)
      BY <3>1
    <3>3. Len(u) + Len(v) = Len(c) - 1
      BY <2>1, <2>2, <1>3
    <3> QED
      BY <3>2, <3>3, <2>3
  <2>5. DOMAIN d = 1 .. Len(c) - 1
    BY <2>4
  <2>6. ASSUME NEW i \in 1 .. Len(c) - 1
        PROVE  d[i] = c[src(i)]
    <3>1. CASE i < p
      <4>1. i \in 1 .. p - 1 /\ i \in 1 .. Len(u)
        BY <3>1, <1>3, <2>1
      <4>2. (u \o v)[i] = u[i]
        BY <4>1, <2>1, <2>2
      <4> QED
        BY <3>1, <4>1, <4>2, <2>1, <2>3
    <3>2. CASE ~(i < p)
      <4>1. i - (p - 1) \in 1 .. Len(c) - p /\ i - Len(u) = i - (p - 1)
        BY <3>2, <1>3, <2>1
      <4>2. (u \o v)[i] = v[i - Len(u)]
        BY <3>2, <4>1, <2>1, <2>2, <1>3
      <4>3. (i - (p - 1)) + p = i + 1
        BY <1>3
      <4> QED
        BY <3>2, <4>1, <4>2, <4>3, <2>2, <2>3
    <3> QED
      BY <3>1, <3>2
  <2> QED
    BY <2>4, <2>5, <2>6
<1>8. \A i \in DOMAIN d : src(i) \in DOMAIN c /\ src(i) # p
  BY <1>3, <1>7
<1>9. \A i, j \in DOMAIN d : src(i) = src(j) => i = j
  BY <1>3, <1>7
<1>10. \A h \in DOMAIN c : h # p => \E i \in DOMAIN d : src(i) = h
  <2> TAKE h \in DOMAIN c
  <2> HAVE h # p
  <2>1. CASE h < p
    <3>1. h \in DOMAIN d /\ src(h) = h
      BY <2>1, <1>3, <1>7
    <3> QED
      BY <3>1
  <2>2. CASE h > p
    <3>1. h - 1 \in DOMAIN d /\ src(h - 1) = h
      BY <2>2, <1>3, <1>7
    <3> QED
      BY <3>1
  <2> QED
    BY <2>1, <2>2, <1>3
<1>11. \A i, j \in DOMAIN c : c[i].key = c[j].key => i = j
  BY <1>1 DEF ChainHolds
<1>12. \A i \in DOMAIN c : /\ hash(c[i].key) = b /\ m[c[i].key] = c[i].value
                           /\ c[i].key \in PageKeys /\ (c[i].key = k <=> i = p)
  BY <1>1, <1>2, <1>11, ChainNodes
<1>13. \A x \in PageKeys : hash(x) = b /\ m[x] # NoFrame => \E i \in DOMAIN c : c[i].key = x
  BY <1>1 DEF ChainHolds
<1> HIDE DEF b, c, d, src
<1>14. ChainHolds(d, b, n)
  <2>1. \A i \in DOMAIN d : hash(d[i].key) = b /\ n[d[i].key] = d[i].value
    BY <1>5, <1>7, <1>8, <1>12
  <2>2. \A i, j \in DOMAIN d : d[i].key = d[j].key => i = j
    BY <1>7, <1>8, <1>9, <1>11
  <2>3. ASSUME NEW x \in PageKeys, hash(x) = b, n[x] # NoFrame
        PROVE  \E i \in DOMAIN d : d[i].key = x
    <3>1. x # k /\ m[x] # NoFrame
      BY <2>3, <1>5
    <3>2. PICK h \in DOMAIN c : c[h].key = x
      BY <3>1, <2>3, <1>13
    <3>3. h # p
      BY <3>1, <3>2, <1>12
    <3> QED
      BY <3>2, <3>3, <1>7, <1>10
  <2> QED
    BY <2>1, <2>2, <2>3, <1>7 DEF ChainHolds
<1>15. \A x \in Buckets \ {b} : ChainHolds(map[x], x, n)
  BY <1>1, OtherChainHolds DEF MapHolds, n, b
<1> QED
  BY <1>1, <1>4, <1>6, <1>14, <1>15 DEF MapHolds, n

-----------------------------------------------------------------------------
(* The pool with its structures *)

\* Inductive: a step needs the pool's own invariant to find the frame it
\* moves, and the pointers and the chains to find the same one.
StructuresInv == PoolInv /\ Spells(links, lruList) /\ MapHolds(buckets, frameMap)

(***************************************************************************)
(* Every step of the structures is a step of BufferPool.                   *)
(***************************************************************************)
LEMMA StepsArePoolSteps == [PNext]_pvars => [Next]_vars
<1>1. ASSUME NEW t \in Tables, NEW p \in PageIds, fetchNode(t, p) PROVE Next
  BY <1>1 DEF fetchNode, Next
<1> QED
  BY <1>1 DEF PNext, Next, pvars

(***************************************************************************)
(* A process starts with an empty list and empty chains.                   *)
(***************************************************************************)
LEMMA EmptySpells == Spells(EmptyLinks, << >>)
<1>1. EmptyLinks \in LinksType
  BY DEF EmptyLinks, LinksType, NoNodes, Pointers
<1>2. At(<< >>, 1) = NoFrame /\ At(<< >>, Len(<< >>)) = NoFrame
  BY DEF At
<1> QED
  BY <1>1, <1>2 DEF Spells, EmptyLinks, NoNodes

LEMMA EmptyHolds == MapHolds(EmptyBuckets, FreshMap)
<1>1. \A b \in Buckets : ChainHolds(<< >>, b, FreshMap)
  BY DEF ChainHolds, FreshMap
<1> QED
  BY <1>1 DEF MapHolds, EmptyBuckets, FreshMap

(***************************************************************************)
(* A hit: the node moves to the front, if it is not there.                 *)
(***************************************************************************)
LEMMA HitKeepsStructures ==
  ASSUME StructuresInv, NEW f \in Range(lruList), moveToFront(f),
         lruList' = MoveToFront(lruList, f)
  PROVE  Spells(links', lruList')
<1>1. lruList \in Seq(Frames) /\ IsInjective(lruList) /\ Spells(links, lruList)
  BY DEF StructuresInv, PoolInv, TypeOK, FrameAccounting
<1>2. PICK j \in DOMAIN lruList : lruList[j] = f
  BY DEF Range
<1>3. lruList' = <<f>> \o Without(lruList, j)
  BY <1>1, <1>2, MoveToFrontIsWithout
<1>4. CASE f = links.head
  <2>1. links.head = At(lruList, 1) /\ j \in 1 .. Len(lruList) /\ 1 \in DOMAIN lruList
    BY <1>1, <1>2 DEF Spells
  <2>2. lruList[1] = f
    BY <1>4, <2>1 DEF At
  <2>3. (CHOOSE i \in DOMAIN lruList : lruList[i] = f) = 1
    BY <1>1, <2>1, <2>2 DEF IsInjective
  <2>4. MoveToFront(lruList, f) = [i \in DOMAIN lruList |-> lruList[i]]
    <3>1. \A i \in DOMAIN lruList : i # 1 => ~(i <= 1)
      BY <1>1
    <3> QED
      BY <2>2, <2>3, <3>1 DEF MoveToFront
  <2>5. lruList' = lruList
    BY <1>1, <2>4
  <2> QED
    BY <1>1, <1>4, <2>5 DEF moveToFront
<1>5. CASE f # links.head
  <2>1. links' = pushFront(unlink(links, f), f)
    BY <1>5 DEF moveToFront
  <2>2. Spells(unlink(links, f), Without(lruList, j))
    BY <1>1, <1>2, UnlinkSpells
  <2>3. /\ Without(lruList, j) \in Seq(Frames) /\ IsInjective(Without(lruList, j))
        /\ Range(Without(lruList, j)) = Range(lruList) \ {f}
    BY <1>1, <1>2, WithoutShape
  <2>4. f \in Frames
    BY <1>1, <1>2
  <2> QED
    BY <1>3, <2>1, <2>2, <2>3, <2>4, PushFrontSpells
<1> QED
  BY <1>4, <1>5

(***************************************************************************)
(* A miss with a free frame: a new node in front of the list, a new key.   *)
(***************************************************************************)
LEMMA LoadKeepsStructures ==
  ASSUME StructuresInv, NEW t \in Tables, NEW p \in PageIds, FetchMissFree(t, p),
         links' = pushFront(links, Last(freeFrames)),
         buckets' = put(buckets, makePageKey(t, p), Last(freeFrames))
  PROVE  Spells(links', lruList') /\ MapHolds(buckets', frameMap')
<1> DEFINE f == Last(freeFrames)
           key == makePageKey(t, p)
<1>1. /\ lruList \in Seq(Frames) /\ IsInjective(lruList)
      /\ freeFrames \in Seq(Frames) /\ IsInjective(freeFrames) /\ freeFrames # << >>
      /\ Range(lruList) \intersect Range(freeFrames) = {}
  BY DEF StructuresInv, PoolInv, TypeOK, FrameAccounting, FetchMissFree
<1>2. f \in Range(freeFrames) /\ f \in Frames /\ f \notin Range(lruList)
  BY <1>1, DropLast DEF Range
<1>3. key \in PageKeys
  BY KeyType
<1>4. /\ lruList' = <<f>> \o lruList /\ frameMap[key] = NoFrame
      /\ frameMap' = [frameMap EXCEPT ![key] = f]
  BY DEF FetchMissFree, Load
<1> HIDE DEF f, key
<1>5. Spells(links, lruList) /\ MapHolds(buckets, frameMap)
  BY DEF StructuresInv
<1>6. links' = pushFront(links, f) /\ buckets' = put(buckets, key, f)
  BY DEF f, key
<1>7. Spells(pushFront(links, f), <<f>> \o lruList)
  BY <1>1, <1>2, <1>5, PushFrontSpells
<1>8. MapHolds(put(buckets, key, f), [frameMap EXCEPT ![key] = f])
  BY <1>2, <1>3, <1>4, <1>5, PutAddsKey
<1> QED
  BY <1>4, <1>6, <1>7, <1>8

(***************************************************************************)
(* A miss in a full pool: the tail leaves list and map, then comes back in *)
(* front and under the new key.                                            *)
(***************************************************************************)
LEMMA EvictKeepsStructures ==
  ASSUME StructuresInv, NEW t \in Tables, NEW p \in PageIds, FetchMissEvict(t, p),
         TailToFront(links.tail),
         buckets' = put(remove(buckets, KeyOf(links.tail)), makePageKey(t, p), links.tail)
  PROVE  Spells(links', lruList') /\ MapHolds(buckets', frameMap')
<1> DEFINE f == Last(lruList)
           n == Len(lruList)
           key == makePageKey(t, p)
           map == Unmapped(f)
<1>1. /\ lruList \in Seq(Frames) /\ IsInjective(lruList) /\ TypeOK
      /\ Indexes(frameMap, lruList) /\ freeFrames = << >>
  BY DEF StructuresInv, PoolInv, TypeOK, FrameAccounting, MapMatchesFrames, Indexes,
         FetchMissEvict
<1>2. /\ f \in Range(lruList) /\ map[key] = NoFrame /\ key \in PageKeys
      /\ frameMap[key] = NoFrame
  <2>1. f \in Range(lruList) /\ \A k \in PageKeys : frameMap[k] = NoFrame => map[k] = NoFrame
    BY <1>1, EvictKeepsStructure DEF StructuresInv
  <2>2. key \in PageKeys /\ frameMap[key] = NoFrame
    BY KeyType DEF FetchMissEvict
  <2> QED
    BY <2>1, <2>2
<1>3. n \in DOMAIN lruList /\ lruList # << >> /\ lruList[n] = f
  BY <1>1, <1>2 DEF Range, Last
<1>4. links.tail = f
  BY <1>3 DEF StructuresInv, Spells, At
<1>5. f \in Frames /\ KeyOf(f) \in PageKeys /\ frameMap[KeyOf(f)] = f
  BY <1>1, <1>2, FrameInUse DEF KeyOf
<1>6. map = [frameMap EXCEPT ![KeyOf(f)] = NoFrame]
  BY DEF Unmapped, KeyOf
<1>7. lruList' = <<f>> \o Without(lruList, n) /\ frameMap' = [map EXCEPT ![key] = f]
  BY <1>1, <1>3, FrontIsWithout DEF FetchMissEvict, Load
<1> HIDE DEF f, n, key, map
<1>8. links' = pushFront(unlink(links, f), f)
  BY <1>4 DEF TailToFront
<1>9. buckets' = put(remove(buckets, KeyOf(f)), key, f)
  BY <1>4 DEF key
<1>10. Spells(links', lruList')
  <2>1. Spells(unlink(links, f), Without(lruList, n))
    BY <1>1, <1>3, UnlinkSpells DEF StructuresInv
  <2>2. /\ Without(lruList, n) \in Seq(Frames) /\ IsInjective(Without(lruList, n))
        /\ Range(Without(lruList, n)) = Range(lruList) \ {f}
    BY <1>1, <1>3, WithoutShape
  <2> QED
    BY <1>5, <1>7, <1>8, <2>1, <2>2, PushFrontSpells
<1>11. MapHolds(buckets', frameMap')
  <2>1. MapHolds(remove(buckets, KeyOf(f)), map)
    BY <1>5, <1>6, NullIsNoFrame, RemoveDropsKey DEF StructuresInv
  <2> QED
    <3>1. map[key] = NoFrame /\ key \in PageKeys /\ f \in Frames
      BY <1>2, <1>5
    <3>2. MapHolds(put(remove(buckets, KeyOf(f)), key, f), [map EXCEPT ![key] = f])
      BY <2>1, <3>1, PutAddsKey
    <3> QED
      BY <3>2, <1>7, <1>9
<1> QED
  BY <1>10, <1>11

(***************************************************************************)
(* Every step keeps the structures in line with what stands for them.      *)
(***************************************************************************)
LEMMA StructuresStep == StructuresInv /\ [PNext]_pvars => StructuresInv'
<1> SUFFICES ASSUME StructuresInv, [PNext]_pvars PROVE StructuresInv'
  OBVIOUS
<1>1. PoolInv'
  BY StepsArePoolSteps, NextKeepsInv DEF StructuresInv
<1>2. ASSUME NEW t \in Tables, NEW p \in PageIds, fetchNode(t, p)
      PROVE  Spells(links', lruList') /\ MapHolds(buckets', frameMap')
  <2> DEFINE key == makePageKey(t, p)
             hit == get(buckets, key)
  <2>1. key \in PageKeys /\ hit = frameMap[key]
    BY KeyType, GetIsLookup DEF StructuresInv
  <2>2. CASE hit # NoFrame /\ moveToFront(hit) /\ UNCHANGED buckets
    <3>1. FetchHit(t, p)
      BY <1>2, <2>1, <2>2 DEF fetchNode, fetchPage, FetchMissFree, FetchMissEvict
    <3>2. lruList' = MoveToFront(lruList, hit) /\ frameMap' = frameMap
      BY <3>1, <2>1 DEF FetchHit
    <3>3. hit \in Range(lruList)
      BY <2>1, <2>2 DEF StructuresInv, PoolInv, MapMatchesFrames
    <3>4. Spells(links', lruList')
      BY <2>2, <3>2, <3>3, HitKeepsStructures
    <3> QED
      BY <2>2, <3>2, <3>4 DEF StructuresInv
  <2>3. CASE /\ hit = NoFrame /\ freeFrames # << >>
             /\ links' = pushFront(links, Last(freeFrames))
             /\ buckets' = put(buckets, key, Last(freeFrames))
    <3>1. FetchMissFree(t, p)
      BY <1>2, <2>1, <2>3 DEF fetchNode, fetchPage, FetchHit, FetchMissEvict
    <3> QED
      BY <2>3, <3>1, LoadKeepsStructures
  <2>4. CASE /\ hit = NoFrame /\ freeFrames = << >>
             /\ \E f \in {links.tail} :
                  /\ TailToFront(f)
                  /\ \E rest \in {remove(buckets, KeyOf(f))} : buckets' = put(rest, key, f)
    <3>1. FetchMissEvict(t, p)
      BY <1>2, <2>1, <2>4 DEF fetchNode, fetchPage, FetchHit, FetchMissFree
    <3>2. /\ TailToFront(links.tail)
          /\ buckets' = put(remove(buckets, KeyOf(links.tail)), key, links.tail)
      BY <2>4
    <3> QED
      BY <3>1, <3>2, EvictKeepsStructures
  <2> QED
    BY <1>2, <2>2, <2>3, <2>4 DEF fetchNode
<1>3. ASSUME UNCHANGED <<links, buckets, lruList, frameMap>>
      PROVE  Spells(links', lruList') /\ MapHolds(buckets', frameMap')
  BY <1>3 DEF StructuresInv
<1>4. ASSUME UNCHANGED <<links, buckets>>,
             \/ \E c \in Contents : markDirty(c)
             \/ StartFlush(Tables, FALSE)
             \/ \E t \in Tables : StartFlush({t}, FALSE)
             \/ StartFlush(Tables, TRUE)
             \/ FlushFrame
      PROVE  UNCHANGED <<links, buckets, lruList, frameMap>>
  BY <1>4 DEF markDirty, StartFlush, FlushFrame
<1>5. ASSUME Exit \/ Crash, links' = EmptyLinks, buckets' = EmptyBuckets
      PROVE  Spells(links', lruList') /\ MapHolds(buckets', frameMap')
  <2>1. lruList' = << >> /\ frameMap' = FreshMap
    BY <1>5 DEF Exit, Crash, Reset
  <2> QED
    BY <1>5, <2>1, EmptySpells, EmptyHolds
<1>6. ASSUME UNCHANGED pvars
      PROVE  UNCHANGED <<links, buckets, lruList, frameMap>>
  BY <1>6 DEF pvars, vars
<1>7. Spells(links', lruList') /\ MapHolds(buckets', frameMap')
  BY <1>2, <1>3, <1>4, <1>5, <1>6 DEF PNext
<1> QED
  BY <1>1, <1>7 DEF StructuresInv

(***************************************************************************)
(* Both structures start empty, and so does the pool.                      *)
(***************************************************************************)
LEMMA InitHasStructures == PInit => StructuresInv
<1> SUFFICES ASSUME PInit PROVE StructuresInv
  OBVIOUS
<1>1. PoolInv
  BY InitIsFresh, FreshPoolInv DEF PInit
<1>2. lruList = << >> /\ frameMap = FreshMap /\ links = EmptyLinks /\ buckets = EmptyBuckets
  BY DEF PInit, Init
<1> QED
  BY <1>1, <1>2, EmptySpells, EmptyHolds DEF StructuresInv

(***************************************************************************)
(* In every state the pointers spell the recency list and the chains hold  *)
(* the key map, and the pool is one of BufferPool's.                       *)
(***************************************************************************)
THEOREM StructuresInvariant == PSpec => []StructuresInv
<1> QED
  BY InitHasStructures, StructuresStep, PTL DEF PSpec

(***************************************************************************)
(* The pool with its structures is a BufferPool: what is proved of every   *)
(* behaviour of BufferPool holds of it.                                    *)
(***************************************************************************)
LEMMA StructuresImplementPool == PSpec => Spec
<1>1. PInit => Init
  BY DEF PInit
<1> QED
  BY <1>1, StepsArePoolSteps, PTL DEF PSpec, Spec

\* The chains answer as the map, and popTail takes the victim of BufferPool.
StructuresAnswer ==
  /\ \A t \in Tables, p \in PageIds :
       get(buckets, makePageKey(t, p)) = frameMap[makePageKey(t, p)]
  /\ lruList # << >> => links.tail = Last(lruList)

(***************************************************************************)
(* No lookup misses a page that is there or finds a frame that holds       *)
(* another one, and the node popTail takes is the least recent one: with   *)
(* the pointers and the chains fetchPage goes the way of BufferPool.       *)
(***************************************************************************)
THEOREM FindsSameFrame == PSpec => []StructuresAnswer
<1>1. StructuresInv => StructuresAnswer
  <2> SUFFICES ASSUME StructuresInv PROVE StructuresAnswer
    OBVIOUS
  <2>1. \A t \in Tables, p \in PageIds :
          get(buckets, makePageKey(t, p)) = frameMap[makePageKey(t, p)]
    BY KeyType, GetIsLookup DEF StructuresInv
  <2>2. ASSUME lruList # << >> PROVE links.tail = Last(lruList)
    <3>1. Len(lruList) \in DOMAIN lruList
      BY <2>2 DEF StructuresInv, PoolInv, TypeOK
    <3> QED
      BY <3>1 DEF StructuresInv, Spells, At, Last
  <2> QED
    BY <2>1, <2>2 DEF StructuresAnswer
<1> QED
  BY <1>1, StructuresInvariant, PTL

(***************************************************************************)
(* head_, tail_, next and prev are the recency list after any calls, for a *)
(* pool of any size: evictLRU always finds its victim at the tail.         *)
(***************************************************************************)
THEOREM PointersSpellList == PSpec => []LinksSpellList
<1>1. StructuresInv => LinksSpellList
  BY DEF StructuresInv, Spells, At, LinksSpellList, NodeAt
<1> QED
  BY <1>1, StructuresInvariant, PTL

(***************************************************************************)
(* The chains of IntHashMap are the key map after any puts and removes,    *)
(* for any hash factor and any number of keys in one bucket.               *)
(***************************************************************************)
THEOREM ChainsAreMap == PSpec => []ChainsHoldMap
<1>1. StructuresInv => ChainsHoldMap
  <2> SUFFICES ASSUME StructuresInv PROVE ChainsHoldMap
    OBVIOUS
  <2>1. ASSUME NEW b \in Buckets, NEW i \in DOMAIN buckets[b]
        PROVE  LET node == buckets[b][i]
               IN  /\ hash(node.key) = b /\ frameMap[node.key] = node.value
                   /\ \A j \in 1 .. i - 1 : buckets[b][j].key # node.key
    <3> DEFINE c == buckets[b]
    <3>1. ChainHolds(c, b, frameMap)
      BY DEF StructuresInv, MapHolds
    <3>2. Len(c) \in Nat /\ DOMAIN c = 1 .. Len(c)
      BY <3>1, ChainNodes
    <3> HIDE DEF c
    <3>3. \A j \in 1 .. i - 1 : j \in DOMAIN c /\ j # i
      BY <3>2 DEF c
    <3> QED
      BY <3>1, <3>3 DEF ChainHolds, c
  <2>2. ASSUME NEW f \in Range(lruList)
        PROVE  \E node \in Range(buckets[hash(KeyOf(f))]) : node.key = KeyOf(f)
    <3>1. lruList \in Seq(Frames) /\ TypeOK /\ Indexes(frameMap, lruList)
      BY DEF StructuresInv, PoolInv, TypeOK, MapMatchesFrames, Indexes
    <3>2. f \in Frames /\ KeyOf(f) \in PageKeys /\ frameMap[KeyOf(f)] = f
      BY <3>1, FrameInUse DEF KeyOf
    <3>3. ChainHolds(buckets[hash(KeyOf(f))], hash(KeyOf(f)), frameMap)
      BY <3>2, HashIsBucket DEF StructuresInv, MapHolds
    <3> QED
      BY <3>2, <3>3, NullIsNoFrame DEF ChainHolds, Range
  <2> QED
    BY <2>1, <2>2 DEF ChainsHoldMap
<1> QED
  BY <1>1, StructuresInvariant, PTL
=============================================================================
