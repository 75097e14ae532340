---------------------------- MODULE DataLemmas -----------------------------
(***************************************************************************)
(* What the proofs need to know of recursively defined data: iterations,   *)
(* folds, sums over finite sets, and FlattenSeq.  Each is the value of a   *)
(* recursive function.  That there is such a function, and what it yields, *)
(* is proved from the least number at which it would fail.                 *)
(***************************************************************************)
EXTENDS Integers, SequencesExt, FiniteSetTheorems, SequenceTheorems, WellFoundedInduction, TLAPS

-----------------------------------------------------------------------------
(* Least numbers and iterations *)

(***************************************************************************)
(* A set of natural numbers has a least element: what stands for induction *)
(* in proofs about recursive functions.                                    *)
(***************************************************************************)
LEMMA LeastNumber ==
  ASSUME NEW S, S \subseteq Nat, S # {}
  PROVE  \E x \in S : \A y \in S : x <= y
<1> DEFINE Less == OpToRel(<, Nat)
<1>1. IsWellFoundedOn(Less, Nat)
  BY NatLessThanWellFounded, Zenon
<1>2. Less = {ss \in Nat \X Nat : ss[1] < ss[2]}
  BY DEF OpToRel
<1> HIDE DEF Less
<1>3. PICK x \in S : \A y \in S : ~(<<y, x>> \in Less)
  BY <1>1, WFMin, Zenon
<1>4. ASSUME NEW y \in S
      PROVE  x <= y
  <2>1. ~(<<y, x>> \in Less)
    BY <1>3
  <2>2. x \in Nat /\ y \in Nat
    OBVIOUS
  <2> QED
    BY <2>1, <2>2, <1>2
<1> QED
  BY <1>4

(***************************************************************************)
(* Induction up to n, on a set instead of a predicate.                     *)
(***************************************************************************)
LEMMA UptoInduction ==
  ASSUME NEW n \in Nat, NEW G, 0 \in G, \A k \in 1 .. n : k - 1 \in G => k \in G
  PROVE  0 .. n \subseteq G
<1> DEFINE D == {k \in 0 .. n : k \notin G}
<1>1. SUFFICES ASSUME D # {} PROVE FALSE
  OBVIOUS
<1>2. PICK k \in D : \A j \in D : k <= j
  <2>1. D \subseteq Nat
    OBVIOUS
  <2> HIDE DEF D
  <2> QED
    BY <1>1, <2>1, LeastNumber
<1>3. k \in 1 .. n /\ k \notin G /\ k - 1 \in 0 .. n /\ ~(k <= k - 1)
  OBVIOUS
<1>4. k - 1 \notin D
  <2> HIDE DEF D
  <2> QED
    BY <1>2, <1>3
<1> QED
  BY <1>3, <1>4

\* s[k] is what k steps make of x.
Iterates(s, n, x, step) == s[0] = x /\ \A k \in 1 .. n : s[k] = step[k][s[k - 1]]

(***************************************************************************)
(* A step can be iterated n times.                                         *)
(***************************************************************************)
LEMMA IterationExists ==
  ASSUME NEW n \in Nat, NEW S, NEW x \in S, NEW step \in [1 .. n -> [S -> S]]
  PROVE  \E s \in [0 .. n -> S] : Iterates(s, n, x, step)
<1> DEFINE Is(k, s) == /\ s \in [0 .. k -> S]
                       /\ s[0] = x
                       /\ \A j \in 1 .. k : s[j] = step[j][s[j - 1]]
           D == {k \in 0 .. n : ~\E s : Is(k, s)}
<1>1. D = {}
  <2>1. SUFFICES ASSUME D # {} PROVE FALSE
    OBVIOUS
  <2>2. PICK k \in D : \A j \in D : k <= j
    <3>1. D \subseteq Nat
      OBVIOUS
    <3> HIDE DEF D
    <3> QED
      BY <2>1, <3>1, LeastNumber
  <2>3. k \in 0 .. n /\ ~\E s : Is(k, s)
    OBVIOUS
  <2>4. CASE k = 0
    <3> DEFINE s == [j \in 0 .. 0 |-> x]
    <3>1. Is(0, s)
      OBVIOUS
    <3> HIDE DEF Is, s
    <3> QED
      BY <2>3, <2>4, <3>1
  <2>5. CASE k # 0
    <3> DEFINE m == k - 1
    <3>1. m \in 0 .. n /\ ~(k <= m) /\ k = m + 1 /\ k \in 1 .. n
      BY <2>3, <2>5
    <3> HIDE DEF m
    <3>2. PICK s : Is(m, s)
      <4> HIDE DEF Is
      <4> QED
        BY <2>2, <3>1
    <3> DEFINE t == [j \in 0 .. k |-> IF j = k THEN step[k][s[m]] ELSE s[j]]
    <3>3. s[m] \in S /\ step[k][s[m]] \in S
      BY <3>1, <3>2
    <3>4. t \in [0 .. k -> S] /\ t[0] = x
      BY <3>1, <3>2, <3>3
    <3>5. ASSUME NEW j \in 1 .. k
          PROVE  t[j] = step[j][t[j - 1]]
      <4>1. CASE j = k
        BY <3>1, <4>1
      <4>2. CASE j # k
        <5>1. j \in 1 .. m /\ j - 1 \in 0 .. m /\ j - 1 # k /\ j - 1 \in 0 .. k
          BY <3>1, <4>2
        <5>2. t[j] = s[j] /\ t[j - 1] = s[j - 1]
          BY <4>2, <5>1
        <5> QED
          BY <3>2, <5>1, <5>2
      <4> QED
        BY <4>1, <4>2
    <3>6. Is(k, t)
      <4> HIDE DEF t
      <4> QED
        BY <3>4, <3>5
    <3> HIDE DEF Is, t
    <3> QED
      BY <2>3, <3>6
  <2> QED
    BY <2>4, <2>5
<1>2. PICK s : Is(n, s)
  <2>1. n \in 0 .. n
    OBVIOUS
  <2> HIDE DEF Is
  <2> QED
    BY <1>1, <2>1, Zenon
<1> QED
  BY <1>2 DEF Iterates

-----------------------------------------------------------------------------
(* Folds to the left *)

\* A set of the first natural numbers has a greatest element, and Max returns it.
LEMMA MaxUpto ==
  ASSUME NEW n \in Nat, NEW T \in SUBSET (1 .. n), T # {}
  PROVE  Max(T) \in T /\ \A y \in T : y <= Max(T)
<1> DEFINE D == {d \in 0 .. n : n - d \in T}
<1>1. D \subseteq Nat /\ D # {}
  <2>1. PICK y \in T : y \in 1 .. n
    OBVIOUS
  <2>2. n - y \in 0 .. n /\ n - (n - y) = y
    BY <2>1
  <2>3. n - y \in D
    BY <2>1, <2>2
  <2>4. D \subseteq Nat
    OBVIOUS
  <2> HIDE DEF D
  <2> QED
    BY <2>3, <2>4
<1>2. PICK d \in D : \A e \in D : d <= e
  <2> HIDE DEF D
  <2> QED
    BY <1>1, LeastNumber
<1>3. n - d \in T /\ d \in 0 .. n
  OBVIOUS
<1>4. ASSUME NEW y \in T PROVE n - d >= y
  <2>1. y \in 1 .. n /\ n - y \in 0 .. n /\ n - (n - y) = y
    OBVIOUS
  <2>2. n - y \in D
    BY <2>1
  <2>3. d <= n - y
    BY <1>2, <2>2
  <2> QED
    BY <2>1, <2>3, <1>3
<1>5. \E x \in T : \A y \in T : x >= y
  BY <1>3, <1>4
<1>6. Max(T) \in T /\ \A y \in T : Max(T) >= y
  BY <1>5 DEF Max
<1>7. ASSUME NEW y \in T PROVE y <= Max(T)
  <2>1. y \in 1 .. n /\ Max(T) \in 1 .. n /\ Max(T) >= y
    BY <1>6
  <2> HIDE DEF D
  <2> QED
    BY <2>1
<1> QED
  BY <1>6, <1>7

\* The greatest of the first k numbers is k.
LEMMA MaxInterval ==
  ASSUME NEW k \in Nat \ {0}
  PROVE  Max(1 .. k) = k /\ (1 .. k) \ {k} = 1 .. k - 1 /\ 1 .. k # {}
<1>1. 1 .. k # {} /\ k \in 1 .. k
  OBVIOUS
<1>2. Max(1 .. k) \in 1 .. k /\ k <= Max(1 .. k)
  BY <1>1, MaxUpto
<1> QED
  BY <1>1, <1>2

\* c is the function that a fold to the left over n steps is defined by.
FoldSteps(c, n, x, step) ==
  \A T \in SUBSET (1 .. n) :
    c[T] = IF T = {} THEN x ELSE step[Max(T)][c[T \ {Max(T)}]]

(***************************************************************************)
(* There is such a function, also on sets of steps that are no interval.   *)
(***************************************************************************)
LEMMA FoldExists ==
  ASSUME NEW n \in Nat, NEW S, NEW x \in S, NEW step \in [1 .. n -> [S -> S]]
  PROVE  \E c \in [SUBSET (1 .. n) -> S] : FoldSteps(c, n, x, step)
<1> DEFINE Is(k, c) == c \in [SUBSET (1 .. k) -> S] /\ FoldSteps(c, k, x, step)
           G == {k \in 0 .. n : \E c : Is(k, c)}
<1>1. 0 \in G
  <2> DEFINE c == [T \in SUBSET (1 .. 0) |-> x]
  <2>1. \A T \in SUBSET (1 .. 0) : T = {}
    OBVIOUS
  <2>2. c \in [SUBSET (1 .. 0) -> S] /\ \A T \in SUBSET (1 .. 0) : c[T] = x
    OBVIOUS
  <2> HIDE DEF c
  <2>3. Is(0, c)
    BY <2>1, <2>2 DEF FoldSteps
  <2> HIDE DEF Is
  <2> QED
    BY <2>3
<1>2. ASSUME NEW k \in 1 .. n, k - 1 \in G PROVE k \in G
  <2>1. PICK b : Is(k - 1, b)
    BY <1>2
  <2>2. /\ b \in [SUBSET (1 .. k - 1) -> S]
        /\ \A T \in SUBSET (1 .. k - 1) :
             b[T] = IF T = {} THEN x ELSE step[Max(T)][b[T \ {Max(T)}]]
    BY <2>1 DEF FoldSteps
  <2> DEFINE c == [T \in SUBSET (1 .. k) |-> IF k \in T THEN step[k][b[T \ {k}]] ELSE b[T]]
  <2>3. \A T \in SUBSET (1 .. k) : /\ T \ {k} \in SUBSET (1 .. k - 1)
                                   /\ k \notin T => T \in SUBSET (1 .. k - 1)
    <3>1. \A y \in 1 .. k : y # k => y \in 1 .. k - 1
      OBVIOUS
    <3> QED
      BY <3>1
  <2>4. step[k] \in [S -> S]
    OBVIOUS
  <2>5. c \in [SUBSET (1 .. k) -> S]
    <3>1. ASSUME NEW T \in SUBSET (1 .. k)
          PROVE  (IF k \in T THEN step[k][b[T \ {k}]] ELSE b[T]) \in S
      <4>1. CASE k \in T
        <5>1. b[T \ {k}] \in S
          BY <2>2, <2>3
        <5> QED
          BY <2>4, <4>1, <5>1
      <4>2. CASE k \notin T
        BY <2>2, <2>3, <4>2
      <4> QED
        BY <4>1, <4>2
    <3> QED
      BY <3>1
  <2>6. ASSUME NEW T \in SUBSET (1 .. k)
        PROVE  c[T] = IF T = {} THEN x ELSE step[Max(T)][c[T \ {Max(T)}]]
    <3>1. CASE k \in T
      <4>1. Max(T) = k /\ T # {}
        <5>0. k \in Nat /\ T # {}
          BY <3>1
        <5>1. Max(T) \in T /\ k <= Max(T)
          <6> HIDE DEF c
          <6> QED
            BY <3>1, <5>0, MaxUpto
        <5>2. Max(T) \in 1 .. k
          BY <5>1
        <5> QED
          BY <3>1, <5>1, <5>2
      <4>2. c[T] = step[k][b[T \ {k}]]
        BY <3>1
      <4>3. T \ {k} \in SUBSET (1 .. k) /\ k \notin T \ {k}
        OBVIOUS
      <4>4. c[T \ {k}] = b[T \ {k}]
        BY <4>3
      <4> QED
        BY <3>1, <4>1, <4>2, <4>4
    <3>2. CASE k \notin T
      <4>1. T \in SUBSET (1 .. k - 1) /\ c[T] = b[T]
        BY <2>3, <3>2
      <4>2. T \ {Max(T)} \in SUBSET (1 .. k) /\ k \notin T \ {Max(T)}
        BY <3>2
      <4>3. c[T \ {Max(T)}] = b[T \ {Max(T)}]
        BY <4>2
      <4> QED
        BY <2>2, <4>1, <4>3
    <3> QED
      BY <3>1, <3>2
  <2> HIDE DEF c
  <2>7. Is(k, c)
    BY <2>5, <2>6 DEF FoldSteps
  <2> HIDE DEF Is
  <2> QED
    BY <2>7
<1> HIDE DEF Is
<1>3. 0 .. n \subseteq G
  <2> HIDE DEF G
  <2> QED
    BY <1>1, <1>2, UptoInduction
<1>4. PICK c : Is(n, c)
  BY <1>3
<1> QED
  BY <1>4 DEF Is

-----------------------------------------------------------------------------
(* Concatenation of sequences of sequences *)

\* The elements of c are those of a, and those of b behind them.
Spliced(c, a, b, X) ==
  /\ c \in Seq(X) /\ Len(c) = Len(a) + Len(b)
  /\ \A k \in 1 .. Len(a) : c[k] = a[k]
  /\ \A k \in 1 .. Len(b) : c[Len(a) + k] = b[k]

LEMMA Concatenated ==
  ASSUME NEW X, NEW a \in Seq(X), NEW b \in Seq(X)
  PROVE  Spliced(a \o b, a, b, X)
  BY DEF Spliced

\* f[i] is the concatenation of the first i sequences of s.
Flattens(s, f) ==
  f = [i \in 1 .. Len(s) |-> IF i = 1 THEN s[i] ELSE f[i - 1] \o s[i]]

(***************************************************************************)
(* At most one function is that.                                           *)
(***************************************************************************)
LEMMA FlattensOne ==
  ASSUME NEW s, Len(s) \in Nat, NEW f, Flattens(s, f), NEW g, Flattens(s, g)
  PROVE  f = g
<1> DEFINE n == Len(s)
           D == {i \in 1 .. n : f[i] # g[i]}
<1>1. /\ f = [i \in 1 .. n |-> f[i]] /\ g = [i \in 1 .. n |-> g[i]]
      /\ \A i \in 1 .. n : f[i] = IF i = 1 THEN s[i] ELSE f[i - 1] \o s[i]
      /\ \A i \in 1 .. n : g[i] = IF i = 1 THEN s[i] ELSE g[i - 1] \o s[i]
  BY DEF Flattens
<1>2. D = {}
  <2>1. SUFFICES ASSUME D # {} PROVE FALSE
    OBVIOUS
  <2>2. PICK i \in D : \A j \in D : i <= j
    <3>1. D \subseteq Nat
      OBVIOUS
    <3> HIDE DEF D
    <3> QED
      BY <2>1, <3>1, LeastNumber
  <2>3. i # 1
    BY <1>1
  <2>4. i - 1 \in 1 .. n /\ i - 1 \notin D
    <3> DEFINE k == i - 1
    <3>1. k \in 1 .. n /\ ~(i <= k)
      BY <2>3
    <3> HIDE DEF D, k
    <3>2. k \notin D
      BY <2>2, <3>1
    <3> QED
      BY <3>1, <3>2 DEF k
  <2>5. i \in 1 .. n /\ f[i] # g[i] /\ f[i - 1] = g[i - 1]
    BY <2>4
  <2>6. f[i] = f[i - 1] \o s[i] /\ g[i] = g[i - 1] \o s[i]
    BY <2>3, <2>5, <1>1
  <2> QED
    BY <2>5, <2>6
<1> QED
  BY <1>1, <1>2

(***************************************************************************)
(* And there is one.                                                       *)
(***************************************************************************)
LEMMA FlattensExists ==
  ASSUME NEW s, Len(s) \in Nat
  PROVE  \E f : Flattens(s, f)
<1> DEFINE n == Len(s)
           Upto(k) == \E f : f = [i \in 1 .. k |-> IF i = 1 THEN s[i] ELSE f[i - 1] \o s[i]]
           D == {k \in 0 .. n : ~Upto(k)}
<1>1. D = {}
  <2>1. SUFFICES ASSUME D # {} PROVE FALSE
    OBVIOUS
  <2>2. PICK k \in D : \A j \in D : k <= j
    <3> HIDE DEF Upto
    <3>1. D \subseteq Nat
      OBVIOUS
    <3> HIDE DEF D
    <3> QED
      BY <2>1, <3>1, LeastNumber
  <2>3. Upto(0)
    <3> DEFINE e == [i \in 1 .. 0 |-> << >>]
    <3>1. \A i \in 1 .. 0 : e[i] = IF i = 1 THEN s[i] ELSE e[i - 1] \o s[i]
      OBVIOUS
    <3>2. e = [i \in 1 .. 0 |-> e[i]]
      OBVIOUS
    <3> HIDE DEF e
    <3>3. e = [i \in 1 .. 0 |-> IF i = 1 THEN s[i] ELSE e[i - 1] \o s[i]]
      BY <3>1, <3>2
    <3> HIDE DEF e
    <3> QED
      BY <3>3
  <2>4. k # 0 /\ k \in 0 .. n /\ k - 1 \in 0 .. n
    <3> HIDE DEF Upto
    <3> QED
      BY <2>2, <2>3
  <2>5. Upto(k - 1)
    <3>1. ~(k <= k - 1)
      BY <2>4
    <3> HIDE DEF Upto
    <3> QED
      BY <2>2, <2>4, <3>1
  <2>6. PICK f : f = [i \in 1 .. k - 1 |-> IF i = 1 THEN s[i] ELSE f[i - 1] \o s[i]]
    BY <2>5
  <2> DEFINE g == [i \in 1 .. k |-> IF i = k THEN (IF i = 1 THEN s[i] ELSE f[i - 1] \o s[i])
                                     ELSE f[i]]
  <2>7. g = [i \in 1 .. k |-> IF i = 1 THEN s[i] ELSE g[i - 1] \o s[i]]
    <3>1. ASSUME NEW i \in 1 .. k
          PROVE  g[i] = IF i = 1 THEN s[i] ELSE g[i - 1] \o s[i]
      <4>1. CASE i = 1
        BY <4>1, <2>6, <2>4
      <4>2. CASE i # 1
        <5>1. i - 1 \in 1 .. k - 1 /\ g[i - 1] = f[i - 1]
          BY <4>2, <2>4
        <5>2. CASE i = k
          BY <4>2, <5>1, <5>2
        <5>3. CASE i # k
          <6>1. i \in 1 .. k - 1 /\ g[i] = f[i]
            BY <5>3, <2>4
          <6>2. f[i] = f[i - 1] \o s[i]
            BY <6>1, <4>2, <2>6
          <6> QED
            BY <4>2, <5>1, <6>1, <6>2
        <5> QED
          BY <5>2, <5>3
      <4> QED
        BY <4>1, <4>2
    <3> QED
      BY <3>1
  <2> HIDE DEF g
  <2>8. Upto(k)
    BY <2>7
  <2> HIDE DEF Upto
  <2> QED
    BY <2>2, <2>8
<1>2. Upto(n)
  <2> HIDE DEF Upto
  <2> QED
    BY <1>1
<1> QED
  BY <1>2 DEF Flattens

(***************************************************************************)
(* FlattenSeq returns its last value.                                      *)
(***************************************************************************)
LEMMA FlattenIs ==
  ASSUME NEW s, Len(s) \in Nat \ {0}
  PROVE  \E f : Flattens(s, f) /\ FlattenSeq(s) = f[Len(s)]
<1>1. PICK f : Flattens(s, f)
  BY FlattensExists
<1> DEFINE c == CHOOSE g : g = [i \in 1 .. Len(s) |-> IF i = 1 THEN s[i] ELSE g[i - 1] \o s[i]]
<1>2. c = [i \in 1 .. Len(s) |-> IF i = 1 THEN s[i] ELSE c[i - 1] \o s[i]]
  BY <1>1 DEF Flattens
<1>3. FlattenSeq(s) = c[Len(s)]
  BY DEF FlattenSeq
<1> QED
  BY <1>2, <1>3 DEF Flattens

(***************************************************************************)
(* FlattenSeq of nothing is nothing, and yields sequences.                 *)
(***************************************************************************)
LEMMA FlattenEmpty == FlattenSeq(<< >>) = << >>
  BY DEF FlattenSeq

LEMMA FlattenType ==
  ASSUME NEW X, NEW s \in Seq(Seq(X))
  PROVE  FlattenSeq(s) \in Seq(X)
<1> DEFINE n == Len(s)
<1>1. CASE s = << >>
  <2>1. FlattenSeq(s) = << >>
    BY <1>1, FlattenEmpty
  <2>2. << >> \in Seq(X)
    OBVIOUS
  <2> QED
    BY <2>1, <2>2
<1>2. CASE s # << >>
  <2>1. n \in Nat \ {0} /\ \A i \in 1 .. n : s[i] \in Seq(X)
    BY <1>2
  <2>2. PICK f : Flattens(s, f) /\ FlattenSeq(s) = f[n]
    BY <2>1, FlattenIs
  <2> HIDE DEF n
  <2>3. \A i \in 1 .. n : f[i] = IF i = 1 THEN s[i] ELSE f[i - 1] \o s[i]
    BY <2>2 DEF Flattens, n
  <2> DEFINE D == {i \in 1 .. n : f[i] \notin Seq(X)}
  <2>4. D = {}
    <3>1. SUFFICES ASSUME D # {} PROVE FALSE
      OBVIOUS
    <3>2. PICK i \in D : \A j \in D : i <= j
      <4>1. D \subseteq Nat
        BY <2>1
      <4> HIDE DEF D
      <4> QED
        BY <3>1, <4>1, LeastNumber
    <3>3. i \in 1 .. n /\ f[i] \notin Seq(X)
      OBVIOUS
    <3>4. i # 1
      BY <2>1, <2>3, <3>3
    <3> DEFINE k == i - 1
    <3>5. k \in 1 .. n /\ ~(i <= k)
      BY <2>1, <3>3, <3>4
    <3>6. f[i] = f[k] \o s[i]
      BY <2>3, <3>3, <3>4
    <3> HIDE DEF k
    <3>7. f[k] \in Seq(X)
      BY <3>2, <3>5
    <3> QED
      BY <2>1, <3>3, <3>6, <3>7
  <2>5. n \in 1 .. n
    BY <2>1
  <2> QED
    BY <2>2, <2>4, <2>5
<1> QED
  BY <1>1, <1>2

(***************************************************************************)
(* One more sequence comes at the end.                                     *)
(***************************************************************************)
LEMMA FlattenAppend ==
  ASSUME NEW X, NEW s \in Seq(Seq(X)), NEW x \in Seq(X)
  PROVE  FlattenSeq(Append(s, x)) = FlattenSeq(s) \o x
<1> DEFINE n == Len(s)
           a == Append(s, x)
<1>1. n \in Nat /\ a \in Seq(Seq(X)) /\ Len(a) = n + 1 /\ a[n + 1] = x
      /\ \A i \in 1 .. n : a[i] = s[i]
  OBVIOUS
<1> HIDE DEF a
<1>2. PICK f : Flattens(a, f) /\ FlattenSeq(a) = f[n + 1]
  <2>1. Len(a) \in Nat \ {0}
    BY <1>1
  <2>2. \E f : Flattens(a, f) /\ FlattenSeq(a) = f[Len(a)]
    BY <2>1, FlattenIs
  <2> QED
    BY <1>1, <2>2
<1>3. \A i \in 1 .. n + 1 : f[i] = IF i = 1 THEN a[i] ELSE f[i - 1] \o a[i]
  BY <1>1, <1>2 DEF Flattens
<1>4. CASE n = 0
  <2>1. s = << >>
    BY <1>4
  <2>2. f[n + 1] = x
    BY <1>1, <1>3, <1>4
  <2>3. << >> \o x = x
    OBVIOUS
  <2> QED
    BY <1>2, <2>1, <2>2, <2>3, FlattenEmpty DEF a
<1>5. CASE n # 0
  <2>1. PICK g : Flattens(s, g) /\ FlattenSeq(s) = g[n]
    BY <1>1, <1>5, FlattenIs
  <2> DEFINE h == [i \in 1 .. n |-> f[i]]
  <2>2. Flattens(s, h)
    <3>1. ASSUME NEW i \in 1 .. n
          PROVE  h[i] = IF i = 1 THEN s[i] ELSE h[i - 1] \o s[i]
      <4>1. i \in 1 .. n + 1 /\ a[i] = s[i]
        BY <1>1
      <4>2. f[i] = IF i = 1 THEN s[i] ELSE f[i - 1] \o s[i]
        BY <4>1, <1>3
      <4>3. i # 1 => i - 1 \in 1 .. n
        BY <1>1
      <4> QED
        BY <4>2, <4>3
    <3>2. h = [i \in 1 .. n |-> h[i]]
      OBVIOUS
    <3> HIDE DEF h
    <3>3. h = [i \in 1 .. n |-> IF i = 1 THEN s[i] ELSE h[i - 1] \o s[i]]
      BY <3>1, <3>2
    <3> QED
      BY <3>3 DEF Flattens
  <2>3. h = g
    <3> HIDE DEF h
    <3> QED
      BY <1>1, <2>1, <2>2, FlattensOne
  <2>4. n \in 1 .. n /\ n + 1 \in 1 .. n + 1 /\ n + 1 # 1 /\ (n + 1) - 1 = n
    BY <1>1, <1>5
  <2>5. g[n] = f[n]
    BY <2>3, <2>4
  <2>6. f[n + 1] = f[n] \o x
    BY <1>1, <1>3, <2>4
  <2> QED
    BY <1>2, <2>1, <2>5, <2>6 DEF a
<1> QED
  BY <1>4, <1>5

(***************************************************************************)
(* Concatenation and Append.                                               *)
(***************************************************************************)
LEMMA AppendAfter ==
  ASSUME NEW Y, NEW a \in Seq(Y), NEW b \in Seq(Y), NEW x \in Y
  PROVE  a \o Append(b, x) = Append(a \o b, x) /\ a \o b \in Seq(Y)
<1> DEFINE l == a \o Append(b, x)
           r == Append(a \o b, x)
<1>1. /\ Len(a) \in Nat /\ Len(b) \in Nat /\ a \o b \in Seq(Y) /\ Len(a \o b) = Len(a) + Len(b)
      /\ Append(b, x) \in Seq(Y) /\ Len(Append(b, x)) = Len(b) + 1
  OBVIOUS
<1>2. Append(b, x) = b \o <<x>> /\ r = (a \o b) \o <<x>> /\ <<x>> \in Seq(Y)
  BY <1>1, AppendIsConcat
<1> QED
  BY <1>1, <1>2, ConcatAssociative

(***************************************************************************)
(* FlattenSeq distributes over concatenation.                              *)
(***************************************************************************)
LEMMA FlattenConcat ==
  ASSUME NEW X, NEW s \in Seq(Seq(X)), NEW t \in Seq(Seq(X))
  PROVE  FlattenSeq(s \o t) = FlattenSeq(s) \o FlattenSeq(t)
<1> DEFINE n == Len(t)
           u(k) == SubSeq(t, 1, k)
           D == {k \in 0 .. n : FlattenSeq(s \o u(k)) # FlattenSeq(s) \o FlattenSeq(u(k))}
<1>1. n \in Nat /\ u(n) = t
  OBVIOUS
<1>2. D = {}
  <2>1. SUFFICES ASSUME D # {} PROVE FALSE
    OBVIOUS
  <2>2. PICK k \in D : \A j \in D : k <= j
    <3>1. D \subseteq Nat
      BY <1>1
    <3> HIDE DEF D
    <3> QED
      BY <2>1, <3>1, LeastNumber
  <2>3. k \in 0 .. n /\ FlattenSeq(s \o u(k)) # FlattenSeq(s) \o FlattenSeq(u(k))
    OBVIOUS
  <2>4. k # 0
    <3>1. u(0) = << >> /\ s \o << >> = s /\ FlattenSeq(s) \o << >> = FlattenSeq(s)
      BY FlattenType
    <3> HIDE DEF u
    <3> QED
      BY <2>3, <3>1, FlattenEmpty
  <2> DEFINE m == k - 1
  <2>5. m \in 0 .. n /\ ~(k <= m) /\ k \in 1 .. n /\ k = m + 1
    BY <1>1, <2>3, <2>4
  <2> HIDE DEF m
  <2>6. FlattenSeq(s \o u(m)) = FlattenSeq(s) \o FlattenSeq(u(m))
    <3> HIDE DEF u
    <3> QED
      BY <2>2, <2>5
  <2>7. u(m) \in Seq(Seq(X)) /\ t[k] \in Seq(X) /\ u(k) = Append(u(m), t[k])
    BY <1>1, <2>5
  <2> HIDE DEF u
  <2>8. s \o u(k) = Append(s \o u(m), t[k]) /\ s \o u(m) \in Seq(Seq(X))
    <3> DEFINE Y == Seq(X)
               b == u(m)
               x == t[k]
    <3>1. s \in Seq(Y) /\ b \in Seq(Y) /\ x \in Y /\ u(k) = Append(b, x)
      BY <2>7
    <3> HIDE DEF Y, b, x, D
    <3>2. s \o Append(b, x) = Append(s \o b, x) /\ s \o b \in Seq(Y)
      BY <3>1, AppendAfter
    <3> QED
      BY <3>1, <3>2 DEF Y, b, x
  <2>9. FlattenSeq(s \o u(k)) = (FlattenSeq(s) \o FlattenSeq(u(m))) \o t[k]
    BY <2>6, <2>7, <2>8, FlattenAppend
  <2>10. FlattenSeq(u(k)) = FlattenSeq(u(m)) \o t[k]
    BY <2>7, FlattenAppend
  <2>11. FlattenSeq(s) \in Seq(X) /\ FlattenSeq(u(m)) \in Seq(X)
    BY <2>7, FlattenType
  <2>12. (FlattenSeq(s) \o FlattenSeq(u(m))) \o t[k] = FlattenSeq(s) \o (FlattenSeq(u(m)) \o t[k])
    <3> DEFINE a == FlattenSeq(s)
               b == FlattenSeq(u(m))
               c == t[k]
    <3>1. a \in Seq(X) /\ b \in Seq(X) /\ c \in Seq(X)
      BY <2>7, <2>11
    <3> HIDE DEF a, b, c, D
    <3>2. (a \o b) \o c = a \o (b \o c)
      BY <3>1, ConcatAssociative, SMTT(30)
    <3> QED
      BY <3>2 DEF a, b, c
  <2> QED
    BY <2>3, <2>9, <2>10, <2>12
<1>3. FlattenSeq(s \o u(n)) = FlattenSeq(s) \o FlattenSeq(u(n))
  <2> HIDE DEF u
  <2>1. n \in 0 .. n
    BY <1>1
  <2>2. n \notin D
    <3> HIDE DEF D
    <3> QED
      BY <1>2
  <2> QED
    BY <2>1, <2>2
<1> QED
  BY <1>1, <1>3

LEMMA RangeAppend ==
  ASSUME NEW X, NEW s \in Seq(X), NEW x \in X
  PROVE  Range(Append(s, x)) = Range(s) \union {x}
<1> DEFINE n == Len(s)
           a == Append(s, x)
<1>1. /\ n \in Nat /\ DOMAIN s = 1 .. n /\ DOMAIN a = 1 .. n + 1
      /\ a[n + 1] = x /\ \A i \in 1 .. n : a[i] = s[i]
  OBVIOUS
<1> HIDE DEF n, a
<1>2. /\ n + 1 \in 1 .. n + 1 /\ \A i \in 1 .. n : i \in 1 .. n + 1
      /\ \A i \in 1 .. n + 1 : i = n + 1 \/ i \in 1 .. n
  BY <1>1
<1>3. Range(a) = {a[i] : i \in 1 .. n + 1} /\ Range(s) = {s[i] : i \in 1 .. n}
  BY <1>1 DEF Range
<1>4. Range(a) = Range(s) \union {x}
  BY <1>1, <1>2, <1>3
<1> QED
  BY <1>4 DEF a

(***************************************************************************)
(* FlattenSeq has the elements of its pieces, and the first piece first.   *)
(***************************************************************************)
LEMMA RangeConcat ==
  ASSUME NEW X, NEW a \in Seq(X), NEW b \in Seq(X)
  PROVE  Range(a \o b) = Range(a) \union Range(b)
<1>1. /\ Len(a) \in Nat /\ Len(b) \in Nat /\ DOMAIN a = 1 .. Len(a) /\ DOMAIN b = 1 .. Len(b)
      /\ DOMAIN (a \o b) = 1 .. Len(a) + Len(b)
  OBVIOUS
<1>2. /\ \A i \in 1 .. Len(a) : (a \o b)[i] = a[i] /\ i \in 1 .. Len(a) + Len(b)
      /\ \A i \in 1 .. Len(b) : (a \o b)[Len(a) + i] = b[i] /\ Len(a) + i \in 1 .. Len(a) + Len(b)
  BY <1>1
<1>3. \A i \in 1 .. Len(a) + Len(b) : i \in 1 .. Len(a) \/ \E j \in 1 .. Len(b) : i = Len(a) + j
  <2>1. ASSUME NEW i \in 1 .. Len(a) + Len(b), i \notin 1 .. Len(a)
        PROVE  i - Len(a) \in 1 .. Len(b) /\ i = Len(a) + (i - Len(a))
    BY <1>1, <2>1
  <2> QED
    BY <2>1
<1> DEFINE c == a \o b
<1>4. /\ Range(c) = {c[i] : i \in 1 .. Len(a) + Len(b)}
      /\ Range(a) = {a[i] : i \in 1 .. Len(a)} /\ Range(b) = {b[i] : i \in 1 .. Len(b)}
  BY <1>1 DEF Range
<1>5. /\ \A i \in 1 .. Len(a) : c[i] = a[i]
      /\ \A i \in 1 .. Len(b) : c[Len(a) + i] = b[i]
  BY <1>2
<1> HIDE DEF c
<1>6. ASSUME NEW i \in 1 .. Len(a) + Len(b) PROVE c[i] \in Range(a) \union Range(b)
  <2>1. CASE i \in 1 .. Len(a)
    BY <1>4, <1>5, <2>1
  <2>2. CASE i \notin 1 .. Len(a)
    <3>1. PICK j \in 1 .. Len(b) : i = Len(a) + j
      BY <1>3, <2>2
    <3> QED
      BY <1>4, <1>5, <3>1
  <2> QED
    BY <2>1, <2>2
<1>7. \A i \in 1 .. Len(a) : a[i] \in Range(c)
  BY <1>2, <1>4, <1>5
<1>8. \A i \in 1 .. Len(b) : b[i] \in Range(c)
  BY <1>2, <1>4, <1>5
<1>9. Range(c) = Range(a) \union Range(b)
  BY <1>4, <1>6, <1>7, <1>8
<1> QED
  BY <1>9 DEF c

LEMMA FlattenRange ==
  ASSUME NEW X, NEW s \in Seq(Seq(X))
  PROVE  Range(FlattenSeq(s)) = UNION {Range(s[i]) : i \in 1 .. Len(s)}
<1> DEFINE n == Len(s)
           u(k) == SubSeq(s, 1, k)
           All(k) == UNION {Range(s[i]) : i \in 1 .. k}
           D == {k \in 0 .. n : Range(FlattenSeq(u(k))) # All(k)}
<1>1. n \in Nat /\ u(n) = s /\ u(0) = << >> /\ n \in 0 .. n
  OBVIOUS
<1>2. D = {}
  <2>1. SUFFICES ASSUME D # {} PROVE FALSE
    OBVIOUS
  <2>2. PICK k \in D : \A j \in D : k <= j
    <3>1. D \subseteq Nat
      BY <1>1
    <3> HIDE DEF D
    <3> QED
      BY <2>1, <3>1, LeastNumber
  <2>3. k \in 0 .. n /\ Range(FlattenSeq(u(k))) # All(k)
    OBVIOUS
  <2>4. k # 0
    <3>1. Range(<< >>) = {} /\ All(0) = {}
      BY DEF Range
    <3> HIDE DEF u, All
    <3> QED
      BY <1>1, <2>3, <3>1, FlattenEmpty
  <2> DEFINE m == k - 1
  <2>5. m \in 0 .. n /\ ~(k <= m) /\ k \in 1 .. n /\ k = m + 1
    BY <1>1, <2>3, <2>4
  <2> HIDE DEF m
  <2>6. Range(FlattenSeq(u(m))) = All(m)
    <3> HIDE DEF u, All
    <3> QED
      BY <2>2, <2>5
  <2>7. u(m) \in Seq(Seq(X)) /\ s[k] \in Seq(X) /\ u(k) = Append(u(m), s[k])
    BY <1>1, <2>5
  <2>8. All(k) = All(m) \union Range(s[k])
    <3>1. 1 .. k = (1 .. m) \union {k}
      BY <1>1, <2>5
    <3> QED
      BY <3>1
  <2> HIDE DEF u, All
  <2>9. FlattenSeq(u(k)) = FlattenSeq(u(m)) \o s[k] /\ FlattenSeq(u(m)) \in Seq(X)
    BY <2>7, FlattenAppend, FlattenType
  <2>10. Range(FlattenSeq(u(k))) = Range(FlattenSeq(u(m))) \union Range(s[k])
    BY <2>7, <2>9, RangeConcat
  <2> QED
    BY <2>3, <2>6, <2>8, <2>10
<1>3. Range(FlattenSeq(u(n))) = All(n)
  <2> HIDE DEF u, All
  <2> QED
    BY <1>1, <1>2
<1> QED
  BY <1>1, <1>3

LEMMA FlattenOne ==
  ASSUME NEW X, NEW h \in Seq(X)
  PROVE  FlattenSeq(<<h>>) = h
<1>1. << >> \in Seq(Seq(X)) /\ Append(<< >>, h) = <<h>>
  OBVIOUS
<1>2. << >> \o h = h
  OBVIOUS
<1> QED
  BY <1>1, <1>2, FlattenAppend, FlattenEmpty

LEMMA FlattenFirst ==
  ASSUME NEW X, NEW s \in Seq(Seq(X)), s # << >>
  PROVE  \E t \in Seq(X) : FlattenSeq(s) = s[1] \o t
<1>1. s[1] \in Seq(X) /\ Tail(s) \in Seq(Seq(X)) /\ s = <<s[1]>> \o Tail(s) /\ <<s[1]>> \in Seq(Seq(X))
  OBVIOUS
<1>2. FlattenSeq(s) = FlattenSeq(<<s[1]>>) \o FlattenSeq(Tail(s))
  BY <1>1, FlattenConcat
<1> QED
  BY <1>1, <1>2, FlattenOne, FlattenType

-----------------------------------------------------------------------------
(* Finite sets *)

LEMMA IntervalSize ==
  ASSUME NEW n \in Nat
  PROVE  IsFiniteSet(0 .. n - 1) /\ Cardinality(0 .. n - 1) = n
<1>1. 0 \in Int /\ n - 1 \in Int
  OBVIOUS
<1>2. IsFiniteSet(0 .. n - 1) /\ Cardinality(0 .. n - 1) = IF 0 > n - 1 THEN 0 ELSE (n - 1) - 0 + 1
  BY <1>1, FS_Interval
<1> QED
  BY <1>2

-----------------------------------------------------------------------------
(* Sums over finite sets *)

\* c[s] is the sum of w over s, for every subset s of S: the function inside
\* FoldSet, when what is folded adds w.
Sums(S, w, c) ==
  c = [s \in SUBSET S |-> IF s = {} THEN 0
                          ELSE c[s \ {CHOOSE y \in s : TRUE}] + w[CHOOSE y \in s : TRUE]]

\* The same, for the sets of at most k elements.
SumsUpto(S, w, c, k) ==
  /\ c \in [SUBSET S -> Nat]
  /\ \A s \in SUBSET S : Cardinality(s) <= k =>
       c[s] = IF s = {} THEN 0
              ELSE c[s \ {CHOOSE y \in s : TRUE}] + w[CHOOSE y \in s : TRUE]

LEMMA Smaller ==
  ASSUME NEW S, IsFiniteSet(S), NEW s \in SUBSET S
  PROVE  /\ IsFiniteSet(s) /\ Cardinality(s) \in Nat /\ Cardinality(s) <= Cardinality(S)
         /\ Cardinality(s) = 0 <=> s = {}
         /\ s # {} => /\ (CHOOSE y \in s : TRUE) \in s
                      /\ Cardinality(s \ {CHOOSE y \in s : TRUE}) = Cardinality(s) - 1
<1>1. IsFiniteSet(s) /\ Cardinality(s) <= Cardinality(S)
  BY FS_Subset
<1>2. Cardinality(s) \in Nat /\ (Cardinality(s) = 0 <=> s = {})
  BY <1>1, FS_CardinalityType, FS_EmptySet
<1>3. ASSUME s # {}
      PROVE  (CHOOSE y \in s : TRUE) \in s
  BY <1>3
<1>4. ASSUME s # {}
      PROVE  Cardinality(s \ {CHOOSE y \in s : TRUE}) = Cardinality(s) - 1
  <2> DEFINE x == CHOOSE y \in s : TRUE
  <2>1. x \in s
    BY <1>3, <1>4
  <2> HIDE DEF x
  <2>2. Cardinality(s \ {x}) = Cardinality(s) - 1
    BY <1>1, <2>1, FS_RemoveElement
  <2> QED
    BY <2>2 DEF x
<1> QED
  BY <1>1, <1>2, <1>3, <1>4

LEMMA SumsExist ==
  ASSUME NEW S, IsFiniteSet(S), NEW w \in [S -> Nat]
  PROVE  \E c : Sums(S, w, c)
<1> DEFINE n == Cardinality(S)
           D == {k \in 0 .. n : ~\E c : SumsUpto(S, w, c, k)}
<1>1. n \in Nat
  BY FS_CardinalityType
<1> HIDE DEF n
<1>2. D = {}
  <2>1. SUFFICES ASSUME D # {} PROVE FALSE
    OBVIOUS
  <2>2. PICK k \in D : \A j \in D : k <= j
    <3>1. D \subseteq Nat
      OBVIOUS
    <3> HIDE DEF D
    <3> QED
      BY <2>1, <3>1, LeastNumber
  <2>3. k \in 0 .. n /\ ~\E c : SumsUpto(S, w, c, k)
    OBVIOUS
  <2>4. CASE k = 0
    <3> DEFINE c == [s \in SUBSET S |-> 0]
    <3>1. SumsUpto(S, w, c, 0)
      <4>1. ASSUME NEW s \in SUBSET S, Cardinality(s) <= 0
            PROVE  s = {}
        <5>1. Cardinality(s) \in Nat /\ (Cardinality(s) = 0 => s = {})
          BY Smaller
        <5> QED
          BY <4>1, <5>1
      <4> QED
        BY <4>1 DEF SumsUpto
    <3> QED
      BY <2>3, <2>4, <3>1
  <2>5. CASE k # 0
    <3> DEFINE m == k - 1
    <3>1. m \in 0 .. n /\ ~(k <= m) /\ k = m + 1
      BY <1>1, <2>3, <2>5
    <3> HIDE DEF m
    <3>2. PICK c : SumsUpto(S, w, c, m)
      BY <2>2, <3>1
    <3> DEFINE x(s) == CHOOSE y \in s : TRUE
               t == [s \in SUBSET S |-> IF Cardinality(s) = k THEN c[s \ {x(s)}] + w[x(s)] ELSE c[s]]
    <3>3. c \in [SUBSET S -> Nat]
      BY <3>2 DEF SumsUpto
    <3>4. ASSUME NEW s \in SUBSET S
          PROVE  /\ s # {} => /\ x(s) \in S /\ s \ {x(s)} \in SUBSET S
                              /\ Cardinality(s \ {x(s)}) = Cardinality(s) - 1
                 /\ Cardinality(s) \in Nat /\ (Cardinality(s) = 0 <=> s = {})
      BY Smaller
    <3> HIDE DEF x
    <3>5. ASSUME NEW s \in SUBSET S
          PROVE  t[s] \in Nat
      <4>1. Cardinality(s) = k => s # {}
        BY <3>4, <2>5
      <4>2. s # {} => c[s \ {x(s)}] \in Nat /\ w[x(s)] \in Nat
        BY <3>3, <3>4
      <4> QED
        BY <3>3, <4>1, <4>2
    <3>6. ASSUME NEW s \in SUBSET S, Cardinality(s) <= k
          PROVE  t[s] = IF s = {} THEN 0 ELSE t[s \ {x(s)}] + w[x(s)]
      <4>1. CASE s = {}
        <5>1. Cardinality(s) # k
          BY <2>5, <3>4, <4>1
        <5>2. Cardinality(s) = 0
          BY <3>4, <4>1
        <5>3. Cardinality(s) <= m
          BY <1>1, <3>1, <5>2
        <5> QED
          BY <3>2, <4>1, <5>1, <5>3 DEF SumsUpto
      <4>2. CASE s # {}
        <5>1. /\ s \ {x(s)} \in SUBSET S /\ Cardinality(s \ {x(s)}) # k
              /\ t[s \ {x(s)}] = c[s \ {x(s)}]
          BY <3>1, <3>4, <3>6, <4>2
        <5>2. CASE Cardinality(s) = k
          BY <4>2, <5>1, <5>2
        <5>3. CASE Cardinality(s) # k
          <6> DEFINE q == Cardinality(s)
          <6>0. q \in Nat /\ q <= k /\ q # k
            BY <3>4, <3>6, <5>3
          <6> HIDE DEF q
          <6>1. q <= m
            BY <1>1, <3>1, <6>0
          <6>2. c[s] = c[s \ {x(s)}] + w[x(s)]
            BY <3>2, <4>2, <6>1 DEF SumsUpto, x, q
          <6> QED
            BY <4>2, <5>1, <5>3, <6>2
        <5> QED
          BY <5>2, <5>3
      <4> QED
        BY <4>1, <4>2
    <3>7. t \in [SUBSET S -> Nat]
      BY <3>5
    <3> HIDE DEF t
    <3>8. SumsUpto(S, w, t, k)
      BY <3>6, <3>7 DEF SumsUpto, x
    <3> QED
      BY <2>3, <3>8
  <2> QED
    BY <2>4, <2>5
<1>3. n \in 0 .. n
  BY <1>1
<1>4. PICK c : SumsUpto(S, w, c, n)
  BY <1>2, <1>3
<1>5. c = [s \in SUBSET S |-> c[s]]
  BY <1>4 DEF SumsUpto
<1>6. ASSUME NEW s \in SUBSET S
      PROVE  c[s] = IF s = {} THEN 0
                    ELSE c[s \ {CHOOSE y \in s : TRUE}] + w[CHOOSE y \in s : TRUE]
  <2>1. Cardinality(s) <= n
    BY Smaller DEF n
  <2> QED
    BY <1>4, <2>1 DEF SumsUpto
<1>7. Sums(S, w, c)
  BY <1>5, <1>6 DEF Sums
<1> QED
  BY <1>7

(***************************************************************************)
(* A sum of numbers that are at least m is at least as many times m, and   *)
(* exactly that if all of them are m.                                      *)
(***************************************************************************)
LEMMA SumBounds ==
  ASSUME NEW S, IsFiniteSet(S), NEW w \in [S -> Nat], NEW c, Sums(S, w, c),
         NEW m \in Nat, \A x \in S : m <= w[x]
  PROVE  /\ c[S] \in Nat /\ m * Cardinality(S) <= c[S]
         /\ (\A x \in S : w[x] = m) => c[S] = m * Cardinality(S)
<1> DEFINE Good(s) == /\ c[s] \in Nat /\ m * Cardinality(s) <= c[s]
                      /\ (\A x \in S : w[x] = m) => c[s] = m * Cardinality(s)
           D == {k \in Nat : \E s \in SUBSET S : Cardinality(s) = k /\ ~Good(s)}
<1>1. ASSUME NEW s \in SUBSET S
      PROVE  /\ s # {} => /\ (CHOOSE y \in s : TRUE) \in S
                          /\ s \ {CHOOSE y \in s : TRUE} \in SUBSET S
                          /\ Cardinality(s \ {CHOOSE y \in s : TRUE}) = Cardinality(s) - 1
             /\ Cardinality(s) \in Nat /\ (Cardinality(s) = 0 <=> s = {})
  BY Smaller
<1>2. ASSUME NEW s \in SUBSET S
      PROVE  c[s] = IF s = {} THEN 0
                    ELSE c[s \ {CHOOSE y \in s : TRUE}] + w[CHOOSE y \in s : TRUE]
  BY DEF Sums
<1>3. D = {}
  <2>1. SUFFICES ASSUME D # {} PROVE FALSE
    OBVIOUS
  <2>2. PICK k \in D : \A j \in D : k <= j
    <3>1. D \subseteq Nat
      OBVIOUS
    <3> HIDE DEF D
    <3> QED
      BY <2>1, <3>1, LeastNumber
  <2>3. PICK s \in SUBSET S : Cardinality(s) = k /\ ~Good(s)
    BY <2>2
  <2>4. k \in Nat
    BY <2>2
  <2>5. CASE s = {}
    <3>1. c[s] = 0
      BY <1>2, <2>5
    <3>2. Cardinality(s) = 0
      BY <1>1, <2>5
    <3>3. m * 0 = 0 /\ m * Cardinality(s) = m * 0
      BY <3>2
    <3> QED
      BY <2>3, <3>1, <3>3
  <2>6. CASE s # {}
    <3> DEFINE x == CHOOSE y \in s : TRUE
               r == s \ {x}
    <3>1. /\ x \in S /\ r \in SUBSET S /\ Cardinality(r) = k - 1 /\ k - 1 \in Nat
          /\ c[s] = c[r] + w[x]
      <4>1. x \in S /\ r \in SUBSET S /\ Cardinality(r) = k - 1
        BY <1>1, <2>3, <2>6
      <4>2. k # 0
        BY <1>1, <2>3, <2>6
      <4>3. c[s] = c[r] + w[x]
        BY <1>2, <2>6
      <4> QED
        BY <2>4, <4>1, <4>2, <4>3
    <3>2. ~(k <= k - 1)
      BY <2>4
    <3> HIDE DEF x, r, Good
    <3>3. k - 1 \notin D
      <4> HIDE DEF D
      <4> QED
        BY <2>2, <3>2
    <3>4. Good(r)
      BY <3>1, <3>3
    <3>5. c[r] \in Nat /\ m * (k - 1) <= c[r] /\ ((\A y \in S : w[y] = m) => c[r] = m * (k - 1))
      BY <3>1, <3>4 DEF Good
    <3>6. m * k = m * (k - 1) + m /\ m * k \in Nat
      BY <2>4
    <3>7. w[x] \in Nat /\ m <= w[x]
      BY <3>1
    <3>8. c[s] \in Nat /\ m * k <= c[s]
      BY <3>1, <3>5, <3>6, <3>7
    <3>9. (\A y \in S : w[y] = m) => c[s] = m * k
      BY <3>1, <3>5, <3>6
    <3>10. Good(s)
      BY <2>3, <3>8, <3>9 DEF Good
    <3> QED
      BY <2>3, <3>10
  <2> QED
    BY <2>5, <2>6
<1>4. S \in SUBSET S /\ Cardinality(S) \in Nat
  BY <1>1
<1>5. Good(S)
  <2> HIDE DEF Good
  <2> QED
    BY <1>3, <1>4
<1> QED
  BY <1>5
=============================================================================
