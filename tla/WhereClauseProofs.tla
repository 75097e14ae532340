------------------------- MODULE WhereClauseProofs --------------------------
(***************************************************************************)
(* What WHERE clauses select, for clauses of any length, any operands and  *)
(* operators, and an array of any even size.                               *)
(***************************************************************************)
EXTENDS WhereClause, FiniteSetTheorems, SequenceTheorems, WellFoundedInduction, TLAPS

Tokens == Operands \union Operators \union {"(", ")"}

-----------------------------------------------------------------------------
(* Counting tokens *)

\* Where in s there is a token of S.
Places(S, s) == {k \in DOMAIN s : s[k] \in S}
NumOf(S, s) == Cardinality(Places(S, s))

LEMMA DisjointUnion ==
  ASSUME NEW A, NEW B, IsFiniteSet(A), IsFiniteSet(B), A \intersect B = {}
  PROVE  Cardinality(A \union B) = Cardinality(A) + Cardinality(B)
<1>1. Cardinality(A \union B) = Cardinality(A) + Cardinality(B) - Cardinality({})
  BY FS_Union
<1> QED
  BY <1>1, FS_EmptySet, FS_CardinalityType

LEMMA NumOfType ==
  ASSUME NEW S, NEW X, NEW s \in Seq(X)
  PROVE  /\ IsFiniteSet(Places(S, s)) /\ NumOf(S, s) \in Nat
         /\ NumOf(S, s) = 0 <=> \A k \in 1 .. Len(s) : s[k] \notin S
<1>1. Len(s) \in Nat /\ DOMAIN s = 1 .. Len(s)
  OBVIOUS
<1>2. IsFiniteSet(1 .. Len(s))
  BY <1>1, FS_Interval
<1>3. Places(S, s) \in SUBSET (1 .. Len(s))
  BY <1>1 DEF Places
<1>4. IsFiniteSet(Places(S, s))
  BY <1>2, <1>3, FS_Subset
<1>5. Cardinality(Places(S, s)) = 0 <=> Places(S, s) = {}
  BY <1>4, FS_EmptySet
<1> QED
  BY <1>1, <1>4, <1>5, FS_CardinalityType DEF NumOf, Places

LEMMA NumOfEmpty == \A S : NumOf(S, << >>) = 0
<1>1. \A S : Places(S, << >>) = {}
  BY DEF Places
<1> QED
  BY <1>1, FS_EmptySet DEF NumOf

LEMMA NumOfAppend ==
  ASSUME NEW S, NEW X, NEW s \in Seq(X), NEW x \in X
  PROVE  NumOf(S, Append(s, x)) = NumOf(S, s) + (IF x \in S THEN 1 ELSE 0)
<1> DEFINE n == Len(s) + 1
<1>1. n \in Nat /\ n \notin Places(S, s) /\ IsFiniteSet(Places(S, s))
  <2>1. n \in Nat /\ n \notin DOMAIN s
    OBVIOUS
  <2> QED
    BY <2>1, NumOfType DEF Places
<1>2. NumOf(S, s) \in Nat
  BY NumOfType
<1>3. Places(S, Append(s, x)) = IF x \in S THEN Places(S, s) \union {n} ELSE Places(S, s)
  BY DEF Places
<1>4. Cardinality(Places(S, s) \union {n}) = Cardinality(Places(S, s)) + 1
  BY <1>1, FS_AddElement
<1> QED
  BY <1>2, <1>3, <1>4 DEF NumOf

LEMMA NumOfConcat ==
  ASSUME NEW S, NEW X, NEW s \in Seq(X), NEW t \in Seq(X)
  PROVE  NumOf(S, s \o t) = NumOf(S, s) + NumOf(S, t)
<1> DEFINE n == Len(s)
           A == Places(S, s)
           B == Places(S, t)
           C == {k \in n + 1 .. n + Len(t) : t[k - n] \in S}
           g == [k \in B |-> k + n]
<1>1. n \in Nat /\ Len(t) \in Nat /\ DOMAIN s = 1 .. n /\ DOMAIN t = 1 .. Len(t)
  OBVIOUS
<1>2. /\ DOMAIN (s \o t) = 1 .. n + Len(t)
      /\ \A k \in 1 .. n : (s \o t)[k] = s[k]
      /\ \A k \in n + 1 .. n + Len(t) : (s \o t)[k] = t[k - n]
  OBVIOUS
<1>3. Places(S, s \o t) = A \union C
  BY <1>1, <1>2 DEF Places
<1>4. A \intersect C = {}
  BY <1>1 DEF Places
<1>5. IsFiniteSet(A) /\ IsFiniteSet(B) /\ NumOf(S, s) \in Nat /\ NumOf(S, t) \in Nat
  BY NumOfType
<1>6. g \in Bijection(B, C)
  <2>1. g \in [B -> C] /\ \A a, b \in B : g[a] = g[b] => a = b
    BY <1>1 DEF Places
  <2>2. \A k \in C : k - n \in B /\ g[k - n] = k
    BY <1>1 DEF Places
  <2> QED
    BY <2>1, <2>2 DEF Bijection, Injection, IsInjective, Surjection
<1>7. IsFiniteSet(C) /\ Cardinality(C) = Cardinality(B)
  BY <1>5, <1>6, FS_Bijection DEF ExistsBijection
<1>8. Cardinality(A \union C) = Cardinality(A) + Cardinality(C)
  BY <1>4, <1>5, <1>7, DisjointUnion
<1> QED
  BY <1>3, <1>7, <1>8 DEF NumOf

(***************************************************************************)
(* Popping n elements of a stack in order and keeping the others.          *)
(***************************************************************************)
LEMMA NumOfPopped ==
  ASSUME NEW S, NEW X, NEW s \in Seq(X), NEW n \in 0 .. Len(s)
  PROVE  /\ Popped(s, n) \in Seq(X) /\ Len(Popped(s, n)) = n
         /\ Remaining(s, n) \in Seq(X) /\ Len(Remaining(s, n)) = Len(s) - n
         /\ \A k \in 1 .. n : Popped(s, n)[k] = s[Len(s) + 1 - k]
         /\ \A k \in 1 .. Len(s) - n : Remaining(s, n)[k] = s[k]
         /\ NumOf(S, Popped(s, n)) + NumOf(S, Remaining(s, n)) = NumOf(S, s)
<1> DEFINE l == Len(s)
           p == Popped(s, n)
           q == Remaining(s, n)
           A == Places(S, p)
           B == Places(S, q)
           C == {k \in l + 1 - n .. l : s[k] \in S}
           g == [k \in A |-> l + 1 - k]
<1>1. l \in Nat /\ n \in Nat /\ n <= l
  OBVIOUS
<1>2. p \in Seq(X) /\ Len(p) = n /\ DOMAIN p = 1 .. n /\ \A k \in 1 .. n : p[k] = s[l + 1 - k]
  <2>1. p \in [1 .. n -> X] /\ \A k \in 1 .. n : p[k] = s[l + 1 - k]
    BY <1>1 DEF Popped
  <2> HIDE DEF p
  <2> QED
    BY <1>1, <2>1
<1>3. q \in Seq(X) /\ Len(q) = l - n /\ DOMAIN q = 1 .. l - n
      /\ \A k \in 1 .. l - n : q[k] = s[k]
  BY <1>1, SubSeqProperties DEF Remaining
<1> HIDE DEF p, q
<1>4. Places(S, s) = B \union C /\ B \intersect C = {}
  BY <1>1, <1>3 DEF Places
<1>5. IsFiniteSet(A) /\ IsFiniteSet(B)
  BY <1>2, <1>3, NumOfType
<1>6. g \in Bijection(A, C)
  <2>1. g \in [A -> C] /\ \A a, b \in A : g[a] = g[b] => a = b
    BY <1>1, <1>2 DEF Places
  <2>2. \A k \in C : l + 1 - k \in A /\ g[l + 1 - k] = k
    BY <1>1, <1>2 DEF Places
  <2> QED
    BY <2>1, <2>2 DEF Bijection, Injection, IsInjective, Surjection
<1>7. IsFiniteSet(C) /\ Cardinality(C) = Cardinality(A)
  BY <1>5, <1>6, FS_Bijection DEF ExistsBijection
<1>8. Cardinality(B \union C) = Cardinality(B) + Cardinality(C)
  BY <1>4, <1>5, <1>7, DisjointUnion
<1>9. Cardinality(A) \in Nat /\ Cardinality(B) \in Nat
  BY <1>5, FS_CardinalityType
<1>10. NumOf(S, p) + NumOf(S, q) = NumOf(S, s)
  BY <1>4, <1>7, <1>8, <1>9 DEF NumOf
<1> QED
  BY <1>2, <1>3, <1>10 DEF p, q

(***************************************************************************)
(* A set of natural numbers with a bound has a largest element, which Max  *)
(* chooses: the bound minus the largest one is the least distance.         *)
(***************************************************************************)
LEMMA LeastNumber ==
  ASSUME NEW S, S \subseteq Nat, S # {}
  PROVE  \E x \in S : \A y \in S : x <= y
<1> DEFINE Less == OpToRel(<, Nat)
<1>1. IsWellFoundedOn(Less, Nat)
  BY NatLessThanWellFounded, Zenon
<1>2. Less = {ss \in Nat \X Nat : ss[1] < ss[2]}
  BY DEF OpToRel
<1> HIDE DEF Less
<1>3. PICK x \in S : \A y \in S : ~(<<y, x>> \in Less)
  BY <1>1, WFMin, Zenon
<1>4. ASSUME NEW y \in S
      PROVE  x <= y
  <2>1. ~(<<y, x>> \in Less)
    BY <1>3
  <2>2. x \in Nat /\ y \in Nat
    OBVIOUS
  <2> QED
    BY <2>1, <2>2, <1>2
<1> QED
  BY <1>4

LEMMA LargestNumber ==
  ASSUME NEW n \in Nat, NEW S, S \subseteq 0 .. n, S # {}
  PROVE  Max(S) \in S /\ \A y \in S : Max(S) >= y
<1> DEFINE T == {n - x : x \in S}
<1>1. T \subseteq Nat /\ T # {}
  <2>1. \A x \in S : x \in 0 .. n /\ n - x \in Nat
    OBVIOUS
  <2> QED
    BY <2>1
<1>2. PICK d \in T : \A e \in T : d <= e
  BY <1>1, LeastNumber
<1>3. PICK x \in S : d = n - x
  BY <1>2
<1>4. \A y \in S : x >= y
  BY <1>2, <1>3
<1> QED
  BY <1>4 DEF Max

(***************************************************************************)
(* What is popped from a stack is its longest end made of elements of G.   *)
(***************************************************************************)
LEMMA PopsLongestEnd ==
  ASSUME NEW X, NEW s \in Seq(X), NEW G, NEW n,
         n = Max({m \in 0 .. Len(s) : \A k \in Len(s) + 1 - m .. Len(s) : s[k] \in G})
  PROVE  /\ n \in 0 .. Len(s)
         /\ \A k \in Len(s) + 1 - n .. Len(s) : s[k] \in G
         /\ n < Len(s) => s[Len(s) - n] \notin G
<1> DEFINE l == Len(s)
           M == {m \in 0 .. l : \A k \in l + 1 - m .. l : s[k] \in G}
<1>1. l \in Nat /\ 0 \in M /\ M \subseteq 0 .. l
  OBVIOUS
<1>2. n \in M /\ \A m \in M : n >= m
  BY <1>1, LargestNumber
<1>3. n \in 0 .. l /\ \A k \in l + 1 - n .. l : s[k] \in G
  BY <1>2
<1>4. ASSUME n < l, s[l - n] \in G
      PROVE  FALSE
  <2> HIDE DEF l, M
  <2>0. l \in Nat /\ n \in Nat /\ n < l
    BY <1>1, <1>3, <1>4
  <2>1. ASSUME NEW k \in l + 1 - (n + 1) .. l
        PROVE  s[k] \in G
    <3>1. k = l - n \/ k \in l + 1 - n .. l
      BY <2>0
    <3> QED
      BY <1>3, <1>4, <3>1
  <2>2. n + 1 \in M
    <3>1. n + 1 \in 0 .. l
      BY <2>0
    <3>2. \A k \in l + 1 - (n + 1) .. l : s[k] \in G
      BY <2>1
    <3> QED
      BY <3>1, <3>2 DEF M
  <2>3. n >= n + 1
    BY <1>2, <2>2
  <2> QED
    BY <1>1, <1>3, <2>3
<1> QED
  BY <1>3, <1>4

\* The loop for a closing parenthesis.
LEMMA PopsInside ==
  ASSUME NEW X, NEW s \in Seq(X), NEW n,
         LET Inside(op) == op # "(" IN n = PopCount(s, Inside)
  PROVE  /\ n \in 0 .. Len(s)
         /\ \A k \in Len(s) + 1 - n .. Len(s) : s[k] # "("
         /\ n < Len(s) => s[Len(s) - n] = "("
<1> DEFINE G == X \ {"("}
           l == Len(s)
<1>1. n = Max({m \in 0 .. l : \A k \in l + 1 - m .. l : s[k] # "("})
  BY DEF PopCount
<1>2. \A m \in 0 .. l : (\A k \in l + 1 - m .. l : s[k] # "(") <=>
                        (\A k \in l + 1 - m .. l : s[k] \in G)
  OBVIOUS
<1>3. {m \in 0 .. l : \A k \in l + 1 - m .. l : s[k] # "("} =
      {m \in 0 .. l : \A k \in l + 1 - m .. l : s[k] \in G}
  BY <1>2
<1>4. n = Max({m \in 0 .. l : \A k \in l + 1 - m .. l : s[k] \in G})
  BY <1>1, <1>3
<1>5. /\ n \in 0 .. l
      /\ \A k \in l + 1 - n .. l : s[k] \in G
      /\ n < l => s[l - n] \notin G
  BY <1>4, PopsLongestEnd
<1>6. l \in Nat /\ \A k \in 1 .. l : s[k] \in X
  OBVIOUS
<1> QED
  BY <1>5, <1>6

\* The loop for an operator.
LEMMA PopsBinding ==
  ASSUME NEW X, NEW s \in Seq(X), NEW x, NEW n,
         n = Max({m \in 0 .. Len(s) :
                    \A k \in Len(s) + 1 - m .. Len(s) :
                      s[k] # "(" /\ precedence(x) <= precedence(s[k])})
  PROVE  /\ n \in 0 .. Len(s)
         /\ \A k \in Len(s) + 1 - n .. Len(s) :
              s[k] # "(" /\ precedence(x) <= precedence(s[k])
         /\ n < Len(s) => s[Len(s) - n] = "("
                          \/ ~(precedence(x) <= precedence(s[Len(s) - n]))
<1> DEFINE G == {op \in X : op # "(" /\ precedence(x) <= precedence(op)}
           l == Len(s)
           B(k) == s[k] # "(" /\ precedence(x) <= precedence(s[k])
<1>1. n = Max({m \in 0 .. l : \A k \in l + 1 - m .. l : B(k)})
  OBVIOUS
<1>2. \A m \in 0 .. l : (\A k \in l + 1 - m .. l : B(k)) <=>
                        (\A k \in l + 1 - m .. l : s[k] \in G)
  OBVIOUS
<1>3. {m \in 0 .. l : \A k \in l + 1 - m .. l : B(k)} =
      {m \in 0 .. l : \A k \in l + 1 - m .. l : s[k] \in G}
  BY <1>2
<1>4. n = Max({m \in 0 .. l : \A k \in l + 1 - m .. l : s[k] \in G})
  BY <1>1, <1>3
<1>5. /\ n \in 0 .. l
      /\ \A k \in l + 1 - n .. l : s[k] \in G
      /\ n < l => s[l - n] \notin G
  BY <1>4, PopsLongestEnd
<1>6. l \in Nat /\ \A k \in 1 .. l : s[k] \in X
  OBVIOUS
<1>7. \A y \in X : y \notin G => y = "(" \/ ~(precedence(x) <= precedence(y))
  OBVIOUS
<1>8. n < l => s[l - n] \in X
  BY <1>5, <1>6
<1> HIDE DEF l
<1>9. n < l => s[l - n] = "(" \/ ~(precedence(x) <= precedence(s[l - n]))
  BY <1>5, <1>7, <1>8
<1>10. \A k \in l + 1 - n .. l : s[k] # "(" /\ precedence(x) <= precedence(s[k])
  BY <1>5
<1> QED
  BY <1>5, <1>9, <1>10 DEF l

-----------------------------------------------------------------------------
(* The text *)

Prefix(s, k) == SubSeq(s, 1, k)

LEMMA PrefixFacts ==
  ASSUME NEW X, NEW s \in Seq(X), NEW k \in 0 .. Len(s)
  PROVE  /\ Prefix(s, k) \in Seq(X) /\ Len(Prefix(s, k)) = k
         /\ \A j \in 1 .. k : Prefix(s, k)[j] = s[j]
         /\ k = 0 => Prefix(s, k) = << >>
         /\ k = Len(s) => Prefix(s, k) = s
         /\ k < Len(s) => Prefix(s, k + 1) = Append(Prefix(s, k), s[k + 1])
         /\ \A j \in 0 .. k : Prefix(Prefix(s, k), j) = Prefix(s, j)
         /\ \A x \in X : Prefix(Append(s, x), k) = Prefix(s, k)
<1>1. Len(s) \in Nat /\ k \in Nat /\ k <= Len(s) /\ \A j \in 1 .. Len(s) : s[j] \in X
  OBVIOUS
<1>2. ASSUME NEW t, NEW j \in 0 .. k, \A l \in 1 .. k : t[l] = s[l]
      PROVE  /\ Prefix(t, j) \in Seq(X) /\ Len(Prefix(t, j)) = j
             /\ \A l \in 1 .. j : Prefix(t, j)[l] = s[l]
  <2>1. \A l \in 1 .. j : t[l] \in X
    BY <1>1, <1>2
  <2> QED
    BY <1>1, <1>2, <2>1, SubSeqProperties DEF Prefix
<1>3. Prefix(s, k) \in Seq(X) /\ Len(Prefix(s, k)) = k /\ \A l \in 1 .. k : Prefix(s, k)[l] = s[l]
  BY <1>1, <1>2
<1>4. ASSUME NEW t, NEW j \in 0 .. k, \A l \in 1 .. k : t[l] = s[l]
      PROVE  Prefix(t, j) = Prefix(s, j)
  <2>1. /\ Prefix(t, j) \in Seq(X) /\ Len(Prefix(t, j)) = j
        /\ \A l \in 1 .. j : Prefix(t, j)[l] = s[l]
    BY <1>2, <1>4
  <2>2. /\ Prefix(s, j) \in Seq(X) /\ Len(Prefix(s, j)) = j
        /\ \A l \in 1 .. j : Prefix(s, j)[l] = s[l]
    BY <1>2, <1>4
  <2> QED
    BY <2>1, <2>2, SeqEqual
<1>5. k = 0 => Prefix(s, k) = << >>
  BY SubSeqEmpty DEF Prefix
<1>6. k = Len(s) => Prefix(s, k) = s
  BY SubSeqFull DEF Prefix
<1>7. ASSUME k < Len(s)
      PROVE  Prefix(s, k + 1) = Append(Prefix(s, k), s[k + 1])
  <2>1. k + 1 \in 1 .. Len(s) /\ 1 \in 1 .. Len(s) /\ k + 1 - 1 = k
    BY <1>1, <1>7
  <2>2. Prefix(s, k + 1) = Prefix(s, k) \o << s[k + 1] >>
    BY <2>1, SubSeqRecursiveSecond DEF Prefix
  <2>3. s[k + 1] \in X
    BY <1>1, <2>1
  <2> QED
    BY <1>3, <2>2, <2>3
<1>8. ASSUME NEW x \in X
      PROVE  Prefix(Append(s, x), k) = Prefix(s, k)
  <2>1. \A l \in 1 .. k : Append(s, x)[l] = s[l]
    BY <1>1
  <2>2. k \in 0 .. k
    BY <1>1
  <2> QED
    BY <1>4, <2>1, <2>2
<1> QED
  BY <1>1, <1>3, <1>4, <1>5, <1>6, <1>7, <1>8

LEMMA PrefixNext ==
  ASSUME NEW X, NEW s \in Seq(X), NEW j \in 1 .. Len(s)
  PROVE  /\ Prefix(s, j) = Append(Prefix(s, j - 1), s[j])
         /\ Prefix(s, j - 1) \in Seq(X) /\ Len(Prefix(s, j - 1)) = j - 1
         /\ \A S : NumOf(S, Prefix(s, j)) =
                    NumOf(S, Prefix(s, j - 1)) + (IF s[j] \in S THEN 1 ELSE 0)
<1> DEFINE k == j - 1
<1>1. k \in 0 .. Len(s) /\ k < Len(s) /\ k + 1 = j /\ s[j] \in X
  OBVIOUS
<1> HIDE DEF k
<1>2. /\ Prefix(s, k) \in Seq(X) /\ Len(Prefix(s, k)) = k
      /\ Prefix(s, k + 1) = Append(Prefix(s, k), s[k + 1])
  BY <1>1, PrefixFacts
<1>3. Prefix(s, j) = Append(Prefix(s, k), s[j])
  BY <1>1, <1>2
<1>4. \A S : NumOf(S, Prefix(s, j)) = NumOf(S, Prefix(s, k)) + (IF s[j] \in S THEN 1 ELSE 0)
  BY <1>1, <1>2, <1>3, NumOfAppend
<1> QED
  BY <1>2, <1>3, <1>4 DEF k

\* The signs in a text, as Sign tells them.
Signs(s) == {k \in DOMAIN s : s[k] = "-" /\ Expecting(Prefix(s, k - 1))}

\* One more operand than operators, but for signs and for an operand to come.
Balanced(s) ==
  /\ NumOf(Operands, s) + Cardinality(Signs(s)) + (IF Expecting(s) THEN 1 ELSE 0)
       = NumOf(Operators, s) + 1
  /\ NumOf({")"}, s) <= NumOf({"("}, s)

LEMMA Parentheses ==
  ASSUME NEW s
  PROVE  Unclosed(s) = NumOf({"("}, s) - NumOf({")"}, s)
<1>1. \A tok : {k \in DOMAIN s : s[k] = tok} = {k \in DOMAIN s : s[k] \in {tok}}
  OBVIOUS
<1> QED
  BY <1>1 DEF Unclosed, Count, NumOf, Places

LEMMA SignsType ==
  ASSUME NEW s \in Seq(Tokens)
  PROVE  /\ IsFiniteSet(Signs(s)) /\ Cardinality(Signs(s)) \in Nat
         /\ Cardinality(Signs(s)) = 0 <=> Signs(s) = {}
<1>1. Len(s) \in Int /\ DOMAIN s = 1 .. Len(s)
  OBVIOUS
<1>2. IsFiniteSet(1 .. Len(s)) /\ Signs(s) \in SUBSET (1 .. Len(s))
  BY <1>1, FS_Interval DEF Signs
<1>3. IsFiniteSet(Signs(s))
  BY <1>2, FS_Subset
<1> QED
  BY <1>3, FS_CardinalityType, FS_EmptySet

LEMMA SignsAppend ==
  ASSUME NEW s \in Seq(Tokens), NEW x \in Tokens
  PROVE  Cardinality(Signs(Append(s, x))) =
           Cardinality(Signs(s)) + (IF x = "-" /\ Expecting(s) THEN 1 ELSE 0)
<1> DEFINE n == Len(s) + 1
           t == Append(s, x)
<1>1. /\ Len(s) \in Nat /\ DOMAIN t = 1 .. n /\ DOMAIN s = 1 .. Len(s)
      /\ t[n] = x /\ \A k \in 1 .. Len(s) : t[k] = s[k]
  OBVIOUS
<1>2. \A k \in 1 .. n : Prefix(t, k - 1) = Prefix(s, k - 1)
  <2>1. \A k \in 1 .. n : k - 1 \in 0 .. Len(s)
    BY <1>1
  <2> QED
    BY <2>1, PrefixFacts
<1>3. Prefix(s, n - 1) = s
  BY <1>1, PrefixFacts
<1>4. IsFiniteSet(Signs(s)) /\ Cardinality(Signs(s)) \in Nat
  BY SignsType
<1> HIDE DEF t
<1>5. n \in Signs(t) <=> x = "-" /\ Expecting(s)
  BY <1>1, <1>2, <1>3 DEF Signs
<1>6. \A k \in 1 .. Len(s) : k \in Signs(t) <=> k \in Signs(s)
  BY <1>1, <1>2 DEF Signs
<1>7. Signs(t) \subseteq 1 .. n /\ Signs(s) \subseteq 1 .. Len(s)
  BY <1>1 DEF Signs
<1>8. 1 .. n = 1 .. Len(s) \union {n} /\ n \notin Signs(s)
  BY <1>1, <1>7
<1>9. Signs(t) = IF x = "-" /\ Expecting(s) THEN Signs(s) \union {n} ELSE Signs(s)
  <2> DEFINE P == x = "-" /\ Expecting(s)
             D == 1 .. Len(s)
             E == 1 .. n
  <2> HIDE DEF n, P, D, E
  <2>1. /\ Signs(t) \subseteq E /\ Signs(s) \subseteq D /\ E = D \union {n}
        /\ \A k \in D : k \in Signs(t) <=> k \in Signs(s)
        /\ n \in Signs(t) <=> P
        /\ n \notin Signs(s)
    BY <1>5, <1>6, <1>7, <1>8 DEF D, E, P
  <2>2. P => Signs(t) = Signs(s) \union {n}
    BY <2>1
  <2>3. ~P => Signs(t) = Signs(s)
    <3>1. \A k : k \in Signs(t) => k \in Signs(s) \/ k = n
      BY <2>1
    <3>2. \A k : k \in Signs(s) => k \in Signs(t)
      BY <2>1
    <3> QED
      BY <2>1, <3>1, <3>2
  <2> QED
    BY <2>2, <2>3 DEF P
<1>10. Cardinality(Signs(s) \union {n}) = Cardinality(Signs(s)) + 1
  BY <1>4, <1>8, FS_AddElement
<1> QED
  BY <1>4, <1>9, <1>10 DEF t

\* What may come next, and what the text then expects.
LEMMA NextToken ==
  ASSUME NEW s \in Seq(Tokens), NEW x \in Tokens, x \in NextTokens(s)
  PROVE  /\ Expecting(s) => x \in Operands \/ x = "(" \/ x = "-"
         /\ ~Expecting(s) => x \in Operators \/ (x = ")" /\ Unclosed(s) > 0)
         /\ Expecting(Append(s, x)) <=> x \in Operators \union {"("}
<1>1. Append(s, x) # << >> /\ Append(s, x)[Len(Append(s, x))] = x
  OBVIOUS
<1>2. AfterSign(s) => Expecting(s)
  BY DEF AfterSign
<1> QED
  BY <1>1, <1>2 DEF NextTokens, Expecting

\* The kinds of tokens exclude each other.
LEMMA KindsOfTokens ==
  /\ "(" \notin Operands /\ ")" \notin Operands /\ "-" \notin Operands
  /\ "(" \notin Operators /\ ")" \notin Operators
  /\ \A x \in Operands : x \notin Operators
  BY WhereAssumption

LEMMA BalancedNext ==
  ASSUME NEW s \in Seq(Tokens), NEW x \in Tokens, x \in NextTokens(s), Balanced(s)
  PROVE  Balanced(Append(s, x))
<1> DEFINE t == Append(s, x)
           c == Cardinality(Signs(s))
<1>1. /\ NumOf(Operands, t) = NumOf(Operands, s) + (IF x \in Operands THEN 1 ELSE 0)
      /\ NumOf(Operators, t) = NumOf(Operators, s) + (IF x \in Operators THEN 1 ELSE 0)
      /\ NumOf({"("}, t) = NumOf({"("}, s) + (IF x = "(" THEN 1 ELSE 0)
      /\ NumOf({")"}, t) = NumOf({")"}, s) + (IF x = ")" THEN 1 ELSE 0)
  <2>1. \A S : NumOf(S, t) = NumOf(S, s) + (IF x \in S THEN 1 ELSE 0)
    BY NumOfAppend
  <2> HIDE DEF t
  <2> QED
    BY <2>1
<1>2. /\ NumOf(Operands, s) \in Nat /\ NumOf(Operators, s) \in Nat
      /\ NumOf({"("}, s) \in Nat /\ NumOf({")"}, s) \in Nat /\ c \in Nat
  BY NumOfType, SignsType
<1>3. Cardinality(Signs(t)) = c + (IF x = "-" /\ Expecting(s) THEN 1 ELSE 0)
  BY SignsAppend
<1>4. /\ Expecting(s) => x \in Operands \/ x = "(" \/ x = "-"
      /\ ~Expecting(s) => x \in Operators \/ (x = ")" /\ NumOf({"("}, s) - NumOf({")"}, s) > 0)
      /\ Expecting(t) <=> x \in Operators \/ x = "("
  BY NextToken, Parentheses
<1>5. x = "-" => x \in Operators
  BY KindsOfTokens DEF Tokens
<1> HIDE DEF t, c
<1>6. NumOf(Operands, t) + Cardinality(Signs(t)) + (IF Expecting(t) THEN 1 ELSE 0)
        = NumOf(Operators, t) + 1
  <2>1. NumOf(Operands, s) + c + (IF Expecting(s) THEN 1 ELSE 0) = NumOf(Operators, s) + 1
    BY DEF Balanced, c
  <2>2. CASE Expecting(s)
    BY <1>1, <1>2, <1>3, <1>4, <1>5, <2>1, <2>2, KindsOfTokens
  <2>3. CASE ~Expecting(s)
    BY <1>1, <1>2, <1>3, <1>4, <1>5, <2>1, <2>3, KindsOfTokens
  <2> QED
    BY <2>2, <2>3
<1>7. NumOf({")"}, t) <= NumOf({"("}, t)
  <2>1. NumOf({")"}, s) <= NumOf({"("}, s)
    BY DEF Balanced
  <2>2. x = ")" => ~Expecting(s)
    BY <1>4, KindsOfTokens
  <2> QED
    BY <1>1, <1>2, <1>4, <2>1, <2>2, KindsOfTokens
<1> QED
  BY <1>6, <1>7 DEF Balanced, t
-----------------------------------------------------------------------------
(* The array of parseWhere *)

Fits == Len(clause) <= MAX_POSTFIX

\* Each token of the text may follow those before it, so that every beginning is
\* balanced, and the array holds the first
\* MAX_POSTFIX tokens.
TextInv ==
  /\ pc \in {"collect", "convert", "evaluate", "done"}
  /\ clause \in Seq(Tokens)
  /\ \A k \in 1 .. Len(clause) : clause[k] \in NextTokens(Prefix(clause, k - 1))
  /\ \A k \in 0 .. Len(clause) : Balanced(Prefix(clause, k))
  /\ whereTokens = IF Fits THEN clause ELSE Prefix(clause, MAX_POSTFIX)
  /\ pc # "collect" => Missing(clause) = 0

LEMMA TokensKept ==
  ASSUME TextInv
  PROVE  /\ whereTokens \in Seq(Tokens) /\ Len(whereTokens) \in Nat
         /\ Len(whereTokens) = IF Fits THEN Len(clause) ELSE MAX_POSTFIX
         /\ \A k \in 1 .. Len(whereTokens) : whereTokens[k] = clause[k]
         /\ Balanced(whereTokens)
<1>1. Len(clause) \in Nat /\ MAX_POSTFIX \in Nat /\ clause \in Seq(Tokens)
  BY WhereAssumption DEF TextInv
<1>2. CASE Fits
  <2>1. Len(clause) \in 0 .. Len(clause) /\ Prefix(clause, Len(clause)) = clause
    BY <1>1, PrefixFacts
  <2> QED
    BY <1>1, <1>2, <2>1 DEF TextInv
<1>3. CASE ~Fits
  <2>1. MAX_POSTFIX \in 0 .. Len(clause)
    BY <1>1, <1>3 DEF Fits
  <2> QED
    BY <1>1, <1>3, <2>1, PrefixFacts DEF TextInv
<1> QED
  BY <1>2, <1>3

LEMMA EmptyTextIsBalanced == Balanced(<< >>)
<1>1. \A S : NumOf(S, << >>) = 0
  BY NumOfEmpty
<1>2. Cardinality(Signs(<< >>)) = 0
  <2>1. Signs(<< >>) = {}
    BY DEF Signs
  <2> QED
    BY <2>1, FS_EmptySet
<1>3. Expecting(<< >>)
  BY DEF Expecting
<1> QED
  BY <1>1, <1>2, <1>3 DEF Balanced

LEMMA CollectKeepsText ==
  ASSUME TextInv, NEW tok \in Tokens, Collect(tok)
  PROVE  TextInv'
<1>1. /\ pc = "collect" /\ pc' = pc /\ tok \in NextTokens(clause)
      /\ clause' = Append(clause, tok)
      /\ whereTokens' = IF Len(whereTokens) < MAX_POSTFIX
                        THEN Append(whereTokens, tok) ELSE whereTokens
  BY DEF Collect
<1>2. /\ clause \in Seq(Tokens) /\ clause' \in Seq(Tokens)
      /\ Len(clause) \in Nat /\ Len(clause') = Len(clause) + 1 /\ MAX_POSTFIX \in Nat
  BY <1>1, WhereAssumption DEF TextInv
<1>3. ASSUME NEW k \in 0 .. Len(clause)
      PROVE  Prefix(clause', k) = Prefix(clause, k)
  BY <1>1, <1>2, PrefixFacts
<1>4. Prefix(clause', Len(clause')) = clause'
  <2>1. Len(clause') \in 0 .. Len(clause')
    BY <1>2
  <2> QED
    BY <1>2, <2>1, PrefixFacts
<1>5. Balanced(clause')
  <2>1. Len(clause) \in 0 .. Len(clause) /\ Prefix(clause, Len(clause)) = clause
    BY <1>2, PrefixFacts
  <2>2. Balanced(clause)
    BY <2>1 DEF TextInv
  <2> QED
    BY <1>1, <1>2, <2>2, BalancedNext
<1>6. ASSUME NEW k \in 0 .. Len(clause')
      PROVE  Balanced(Prefix(clause', k))
  <2>1. k \in 0 .. Len(clause) \/ k = Len(clause')
    BY <1>2
  <2> QED
    BY <1>3, <1>4, <1>5, <2>1 DEF TextInv
<1>7. ASSUME NEW k \in 1 .. Len(clause')
      PROVE  clause'[k] \in NextTokens(Prefix(clause', k - 1))
  <2>1. k - 1 \in 0 .. Len(clause) /\ (k \in 1 .. Len(clause) \/ k = Len(clause) + 1)
    BY <1>2
  <2>2. Prefix(clause', k - 1) = Prefix(clause, k - 1)
    BY <1>3, <2>1
  <2>3. CASE k \in 1 .. Len(clause)
    BY <1>1, <1>2, <2>2, <2>3 DEF TextInv
  <2>4. CASE k = Len(clause) + 1
    <3>1. clause'[k] = tok /\ k - 1 = Len(clause) /\ Len(clause) \in 0 .. Len(clause)
      BY <1>1, <1>2, <2>4
    <3>2. Prefix(clause, k - 1) = clause
      BY <1>2, <3>1, PrefixFacts
    <3> QED
      BY <1>1, <2>2, <3>1, <3>2
  <2> QED
    BY <2>1, <2>3, <2>4
<1>8. whereTokens' = IF Fits' THEN clause' ELSE Prefix(clause', MAX_POSTFIX)
  <2>1. Len(whereTokens) = (IF Fits THEN Len(clause) ELSE MAX_POSTFIX)
    BY TokensKept
  <2>2. CASE Len(clause) < MAX_POSTFIX
    <3>1. Fits /\ Fits' /\ whereTokens = clause /\ Len(whereTokens) < MAX_POSTFIX
      BY <1>2, <2>1, <2>2 DEF Fits, TextInv
    <3> QED
      BY <1>1, <3>1
  <2>3. CASE ~(Len(clause) < MAX_POSTFIX)
    <3>1. ~Fits' /\ whereTokens' = whereTokens /\ MAX_POSTFIX \in 0 .. Len(clause)
      BY <1>1, <1>2, <2>1, <2>3 DEF Fits
    <3>2. whereTokens = Prefix(clause, MAX_POSTFIX)
      <4>1. CASE Fits
        <5>1. MAX_POSTFIX = Len(clause)
          BY <1>2, <2>3, <4>1 DEF Fits
        <5> QED
          BY <1>2, <3>1, <4>1, <5>1, PrefixFacts DEF TextInv
      <4>2. CASE ~Fits
        BY <4>2 DEF TextInv
      <4> QED
        BY <4>1, <4>2
    <3> QED
      BY <1>3, <3>1, <3>2
  <2> QED
    BY <2>2, <2>3
<1> QED
  BY <1>1, <1>2, <1>6, <1>7, <1>8 DEF TextInv

-----------------------------------------------------------------------------
(* The counts of operands and operators *)

Counted == {Operands, Operators}

\* While the tokens are converted, each of those passed is in the postfix or
\* on the stack, but for parentheses.
ConvertInv ==
  pc \in {"collect", "convert"} =>
    /\ opStack \in Seq(Operators \union {"("})
    /\ postfix \in Seq(Operands \union Operators \union {"("})
    /\ stk = << >>
    /\ i \in 1 .. Len(whereTokens) + 1 /\ (pc = "collect" => i = 1)
    /\ Len(postfix) + Len(opStack) <= i - 1
    /\ \A S \in Counted :
         NumOf(S, postfix) + NumOf(S, opStack) = NumOf(S, Prefix(whereTokens, i - 1))

Values == [kind : {"num", "str", "bool"}, v : Int]

\* While the postfix is evaluated, the stack has the operands passed less the
\* operators passed, and is empty only before the first operand.
EvaluateInv ==
  pc = "evaluate" =>
    /\ postfix \in Seq(Operands \union Operators \union {"("})
    /\ i \in 1 .. Len(postfix) + 1 /\ row \in Rows /\ stk \in Seq(Values)
    /\ \A S \in Counted : NumOf(S, postfix) = NumOf(S, whereTokens)
    /\ LET read == Prefix(postfix, i - 1)
       IN /\ Len(stk) + NumOf(Operators, read) = NumOf(Operands, read)
          /\ stk = << >> => NumOf(Operands, read) = 0

\* A clause accepts a row only if an operand is left over or it is empty.
DoneInv ==
  pc = "done" /\ result =>
    \/ NumOf(Operands, whereTokens) > NumOf(Operators, whereTokens)
    \/ NumOf(Operands, whereTokens) = 0 /\ NumOf(Operators, whereTokens) = 0

CountInv == TextInv /\ ConvertInv /\ EvaluateInv /\ DoneInv
\* What the postfix and the stack of operators may hold.
OnStack == Operators \union {"("}
InPostfix == Operands \union Operators \union {"("}

(***************************************************************************)
(* Nothing that is pushed out is ever cut off: parseWhere kept no more     *)
(* tokens than the postfix has places, and each of them is pushed once.    *)
(***************************************************************************)
LEMMA PushOutFits ==
  ASSUME NEW toks \in Seq(InPostfix), postfix \in Seq(InPostfix),
         Len(postfix) + Len(toks) <= MAX_POSTFIX, pushOut(toks)
  PROVE  postfix' = postfix \o toks
<1>1. Len(postfix \o toks) = Len(postfix) + Len(toks)
  BY ConcatProperties
<1> QED
  BY <1>1 DEF pushOut

LEMMA NumOfOne ==
  ASSUME NEW S, NEW x
  PROVE  NumOf(S, <<x>>) = IF x \in S THEN 1 ELSE 0
<1>1. Places(S, <<x>>) = IF x \in S THEN {1} ELSE {}
  <2>1. DOMAIN <<x>> = {1} /\ <<x>>[1] = x
    OBVIOUS
  <2> QED
    BY <2>1 DEF Places
<1> QED
  BY <1>1, FS_EmptySet, FS_Singleton DEF NumOf

\* What passing a token does: some operators go to the postfix, and the token
\* itself, unless it is a parenthesis, goes to the postfix or to the stack.
Moves(toks) ==
  /\ toks \in Seq(InPostfix)
  /\ postfix' = postfix \o toks
  /\ opStack' \in Seq(OnStack)
  /\ Len(toks) + Len(opStack') <= Len(opStack) + 1
  /\ \A S \in Counted :
       NumOf(S, toks) + NumOf(S, opStack') =
         NumOf(S, opStack) + (IF whereTokens[i] \in S THEN 1 ELSE 0)

LEMMA ShuntMoves ==
  ASSUME opStack \in Seq(OnStack), postfix \in Seq(InPostfix),
         Len(postfix) + Len(opStack) < MAX_POSTFIX,
         ShuntOperand \/ ShuntOpen \/ ShuntClose \/ ShuntOperator
  PROVE  \E toks : Moves(toks)
<1> DEFINE x == whereTokens[i]
           l == Len(opStack)
<1>1. /\ l \in Nat /\ Len(postfix) \in Nat /\ MAX_POSTFIX \in Nat
      /\ \A S \in Counted : "(" \notin S /\ ")" \notin S
      /\ \A s \in Seq(OnStack) : s \in Seq(InPostfix)
      /\ \A S : NumOf(S, opStack) \in Nat
  <2>1. OnStack \subseteq InPostfix
    BY DEF OnStack, InPostfix
  <2>2. \A s \in Seq(OnStack) : s \in Seq(InPostfix)
    BY <2>1, SeqMonotonic
  <2>3. \A S \in Counted : "(" \notin S /\ ")" \notin S
    BY KindsOfTokens DEF Counted
  <2>4. \A S : NumOf(S, opStack) \in Nat
    BY NumOfType
  <2> QED
    BY <2>2, <2>3, <2>4, WhereAssumption
<1>2. ASSUME NEW toks \in Seq(InPostfix), Len(toks) <= l + 1, pushOut(toks)
      PROVE  postfix' = postfix \o toks
  <2>1. Len(postfix) + Len(toks) <= MAX_POSTFIX
    BY <1>1, <1>2
  <2> QED
    BY <1>2, <2>1, PushOutFits
<1>3. CASE ShuntOperand
  <2>1. x \in Operands /\ x \in InPostfix /\ pushOut(<<x>>) /\ opStack' = opStack
    BY <1>3 DEF ShuntOperand, InPostfix
  <2>2. <<x>> \in Seq(InPostfix) /\ Len(<<x>>) = 1
    BY <2>1
  <2>3. postfix' = postfix \o <<x>>
    <3>1. Len(<<x>>) <= l + 1
      BY <1>1, <2>2
    <3> QED
      BY <1>2, <2>1, <2>2, <3>1
  <2>4. \A S \in Counted : NumOf(S, <<x>>) = IF x \in S THEN 1 ELSE 0
    BY <2>1, NumOfOne
  <2>5. Moves(<<x>>)
    BY <1>1, <2>1, <2>2, <2>3, <2>4 DEF Moves
  <2> QED
    BY <2>5
<1>4. CASE ShuntOpen
  <2>1. x = "(" /\ x \in OnStack /\ opStack' = Append(opStack, x) /\ postfix' = postfix
    BY <1>4 DEF ShuntOpen, OnStack
  <2>2. << >> \in Seq(InPostfix) /\ Len(<< >>) = 0 /\ postfix \o << >> = postfix
    BY ConcatEmptySeq
  <2>3. opStack' \in Seq(OnStack) /\ Len(opStack') = l + 1
    BY <2>1
  <2>4. \A S \in Counted : NumOf(S, << >>) = 0
    BY NumOfEmpty
  <2>5. \A S \in Counted : NumOf(S, opStack') = NumOf(S, opStack)
    BY <1>1, <2>1, NumOfAppend
  <2>6. Moves(<< >>)
    BY <1>1, <2>1, <2>2, <2>3, <2>4, <2>5 DEF Moves
  <2> QED
    BY <2>6
<1>5. CASE ShuntClose
  <2> DEFINE Inside(op) == op # "("
             n == PopCount(opStack, Inside)
             toks == Popped(opStack, n)
  <2>1. /\ x = ")" /\ pushOut(toks)
        /\ opStack' = IF n < l THEN Remaining(opStack, n + 1) ELSE << >>
    BY <1>5 DEF ShuntClose
  <2>2. n \in 0 .. l /\ (n < l => opStack[l - n] = "(")
    BY PopsInside
  <2> HIDE DEF n
  <2>3. /\ toks \in Seq(OnStack) /\ Len(toks) = n
        /\ Remaining(opStack, n) \in Seq(OnStack) /\ Len(Remaining(opStack, n)) = l - n
        /\ \A k \in 1 .. l - n : Remaining(opStack, n)[k] = opStack[k]
        /\ \A S : NumOf(S, toks) + NumOf(S, Remaining(opStack, n)) = NumOf(S, opStack)
    BY <2>2, NumOfPopped
  <2>4. ASSUME n < l
        PROVE  /\ opStack' \in Seq(OnStack) /\ Len(opStack') = l - (n + 1)
               /\ \A S \in Counted : NumOf(S, opStack') = NumOf(S, Remaining(opStack, n))
    <3>1. n + 1 \in 0 .. l /\ opStack' = Remaining(opStack, n + 1)
      BY <1>1, <2>1, <2>2, <2>4
    <3>2. /\ opStack' \in Seq(OnStack) /\ Len(opStack') = l - (n + 1)
          /\ \A k \in 1 .. l - (n + 1) : opStack'[k] = opStack[k]
      BY <3>1, NumOfPopped
    <3>3. "(" \in OnStack /\ l - n \in 1 .. l
      BY <1>1, <2>2, <2>4 DEF OnStack
    <3>4. Remaining(opStack, n) = Append(opStack', "(")
      <4>1. /\ Append(opStack', "(") \in Seq(OnStack)
            /\ Len(Append(opStack', "(")) = l - n
            /\ \A k \in 1 .. l - n :
                 Append(opStack', "(")[k] = IF k = l - n THEN "(" ELSE opStack'[k]
        <5>1. Len(opStack') + 1 = l - n
          BY <1>1, <2>2, <3>2
        <5> QED
          BY <3>2, <3>3, <5>1
      <4>2. \A k \in 1 .. l - n : Append(opStack', "(")[k] = Remaining(opStack, n)[k]
        BY <1>1, <2>2, <2>3, <2>4, <3>2, <3>3, <4>1
      <4> QED
        BY <2>3, <4>1, <4>2, SeqEqual
    <3>5. \A S \in Counted : NumOf(S, Remaining(opStack, n)) = NumOf(S, opStack')
      <4>1. ASSUME NEW S \in Counted
            PROVE  NumOf(S, Append(opStack', "(")) = NumOf(S, opStack')
        <5>1. NumOf(S, opStack') \in Nat
          BY <3>2, NumOfType
        <5> QED
          BY <1>1, <3>2, <3>3, <5>1, NumOfAppend
      <4> QED
        BY <3>4, <4>1
    <3> QED
      BY <3>2, <3>5
  <2>5. ASSUME ~(n < l)
        PROVE  /\ opStack' \in Seq(OnStack) /\ Len(opStack') = 0
               /\ \A S \in Counted : NumOf(S, opStack') = NumOf(S, Remaining(opStack, n))
    <3>1. opStack' = << >> /\ l - n = 0
      BY <1>1, <2>1, <2>2, <2>5
    <3>2. opStack' \in Seq(OnStack) /\ Len(opStack') = 0
      BY <3>1
    <3>3. \A S : NumOf(S, opStack') = 0
      BY <3>1, NumOfEmpty
    <3>4. \A S : NumOf(S, Remaining(opStack, n)) = 0
      <4>1. Remaining(opStack, n) = << >>
        BY <2>3, <3>1, EmptySeq
      <4> QED
        BY <4>1, NumOfEmpty
    <3> QED
      BY <3>2, <3>3, <3>4
  <2>6. toks \in Seq(InPostfix) /\ Len(toks) <= l + 1
    BY <1>1, <2>2, <2>3
  <2>7. postfix' = postfix \o toks
    BY <1>2, <2>1, <2>6
  <2>8. /\ opStack' \in Seq(OnStack) /\ Len(toks) + Len(opStack') <= l + 1
        /\ \A S \in Counted : NumOf(S, opStack') = NumOf(S, Remaining(opStack, n))
    BY <1>1, <2>2, <2>3, <2>4, <2>5
  <2>9. \A S \in Counted : NumOf(S, toks) + NumOf(S, opStack') = NumOf(S, opStack) + 0
    BY <1>1, <2>3, <2>8
  <2>10. Moves(toks)
    BY <1>1, <2>1, <2>6, <2>7, <2>8, <2>9 DEF Moves
  <2> QED
    BY <2>10
<1>6. CASE ShuntOperator
  <2> DEFINE Binds(op) == op # "(" /\ precedence(x) <= precedence(op)
             n == PopCount(opStack, Binds)
             toks == Popped(opStack, n)
             rest == Remaining(opStack, n)
  <2>1. x \in OnStack /\ pushOut(toks) /\ opStack' = Append(rest, x)
    BY <1>6 DEF ShuntOperator, OnStack
  <2>2. n \in 0 .. l
    <3>1. n = Max({m \in 0 .. l : \A k \in l + 1 - m .. l :
                     opStack[k] # "(" /\ precedence(x) <= precedence(opStack[k])})
      BY DEF PopCount
    <3> HIDE DEF n
    <3> QED
      BY <3>1, PopsBinding
  <2> HIDE DEF n
  <2>3. /\ toks \in Seq(OnStack) /\ Len(toks) = n /\ rest \in Seq(OnStack) /\ Len(rest) = l - n
        /\ \A S : NumOf(S, toks) + NumOf(S, rest) = NumOf(S, opStack)
    BY <2>2, NumOfPopped
  <2>4. toks \in Seq(InPostfix) /\ Len(toks) <= l + 1
    BY <1>1, <2>2, <2>3
  <2>5. postfix' = postfix \o toks
    BY <1>2, <2>1, <2>4
  <2> HIDE DEF toks, rest
  <2>6. opStack' \in Seq(OnStack) /\ Len(toks) + Len(opStack') <= l + 1
    BY <1>1, <2>1, <2>2, <2>3
  <2>7. ASSUME NEW S \in Counted
        PROVE  NumOf(S, toks) + NumOf(S, opStack')
                 = NumOf(S, opStack) + (IF x \in S THEN 1 ELSE 0)
    <3>1. NumOf(S, opStack') = NumOf(S, rest) + (IF x \in S THEN 1 ELSE 0)
      BY <2>1, <2>3, NumOfAppend
    <3>2. NumOf(S, toks) \in Nat /\ NumOf(S, rest) \in Nat
      BY <2>3, NumOfType
    <3> QED
      BY <2>3, <3>1, <3>2
  <2>8. Moves(toks)
    BY <2>4, <2>5, <2>6, <2>7 DEF Moves
  <2> QED
    BY <2>8
<1> QED
  BY <1>3, <1>4, <1>5, <1>6
-----------------------------------------------------------------------------
(* Every step keeps the counts *)

LEMMA ConvertKeepsInv ==
  ASSUME CountInv, Convert
  PROVE  CountInv'
<1> DEFINE n == Len(whereTokens)
           x == whereTokens[i]
<1>1. /\ pc = "convert" /\ pc' = pc /\ i \in 1 .. n /\ i' = i + 1
      /\ UNCHANGED <<clause, whereTokens, stk, result>>
      /\ ShuntOperand \/ ShuntOpen \/ ShuntClose \/ ShuntOperator
  <2>1. pc = "convert" /\ i <= n /\ i \in 1 .. n + 1
    BY DEF Convert, CountInv, ConvertInv
  <2> QED
    BY <2>1, TokensKept DEF Convert, CountInv
<1>2. /\ opStack \in Seq(OnStack) /\ postfix \in Seq(InPostfix) /\ stk = << >>
      /\ Len(postfix) + Len(opStack) <= i - 1
      /\ \A S \in Counted :
           NumOf(S, postfix) + NumOf(S, opStack) = NumOf(S, Prefix(whereTokens, i - 1))
  BY <1>1 DEF CountInv, ConvertInv, OnStack, InPostfix
<1>3. n \in Nat /\ n <= MAX_POSTFIX /\ MAX_POSTFIX \in Nat /\ whereTokens \in Seq(Tokens)
  <2>1. MAX_POSTFIX \in Nat /\ (Fits => Len(clause) <= MAX_POSTFIX)
    BY WhereAssumption DEF Fits
  <2> QED
    BY <2>1, TokensKept DEF CountInv
<1>4. Len(postfix) \in Nat /\ Len(opStack) \in Nat
  BY <1>2
<1>5. Len(postfix) + Len(opStack) < MAX_POSTFIX
  BY <1>1, <1>2, <1>3, <1>4
<1>6. PICK toks : Moves(toks)
  BY <1>1, <1>2, <1>5, ShuntMoves
<1>7. /\ toks \in Seq(InPostfix) /\ postfix' = postfix \o toks /\ opStack' \in Seq(OnStack)
      /\ Len(toks) + Len(opStack') <= Len(opStack) + 1
  BY <1>6 DEF Moves
<1>8. /\ postfix' \in Seq(InPostfix) /\ Len(postfix') = Len(postfix) + Len(toks)
      /\ Len(toks) \in Nat /\ Len(opStack') \in Nat
  BY <1>2, <1>7, ConcatProperties
<1>9. Len(postfix') + Len(opStack') <= i' - 1
  BY <1>1, <1>2, <1>4, <1>7, <1>8
<1>10. ASSUME NEW S \in Counted
       PROVE  NumOf(S, postfix') + NumOf(S, opStack') = NumOf(S, Prefix(whereTokens', i' - 1))
  <2>1. NumOf(S, postfix') = NumOf(S, postfix) + NumOf(S, toks)
    BY <1>2, <1>7, NumOfConcat
  <2>2. i' - 1 = i
    BY <1>1, <1>3
  <2>3. NumOf(S, Prefix(whereTokens, i)) =
          NumOf(S, Prefix(whereTokens, i - 1)) + (IF x \in S THEN 1 ELSE 0)
    <3>1. whereTokens \in Seq(Tokens) /\ i \in 1 .. Len(whereTokens)
      BY <1>1, <1>3
    <3>2. \A G : NumOf(G, Prefix(whereTokens, i)) =
                   NumOf(G, Prefix(whereTokens, i - 1)) + (IF whereTokens[i] \in G THEN 1 ELSE 0)
      BY <3>1, PrefixNext
    <3> QED
      BY <3>2
  <2>4. NumOf(S, toks) + NumOf(S, opStack') =
          NumOf(S, opStack) + (IF x \in S THEN 1 ELSE 0)
    BY <1>6 DEF Moves
  <2>5. /\ NumOf(S, postfix) \in Nat /\ NumOf(S, toks) \in Nat
        /\ NumOf(S, opStack) \in Nat /\ NumOf(S, opStack') \in Nat
    BY <1>2, <1>7, NumOfType
  <2>6. NumOf(S, Prefix(whereTokens', i' - 1)) = NumOf(S, Prefix(whereTokens, i))
    BY <1>1, <2>2
  <2>7. NumOf(S, postfix) + NumOf(S, opStack) = NumOf(S, Prefix(whereTokens, i - 1))
    BY <1>2
  <2> HIDE DEF x
  <2> QED
    BY <2>1, <2>3, <2>4, <2>5, <2>6, <2>7
<1>11. i' \in 1 .. Len(whereTokens') + 1
  BY <1>1, <1>3
<1>12. TextInv'
  BY <1>1 DEF CountInv, TextInv, Fits
<1>13. ConvertInv'
  BY <1>1, <1>2, <1>7, <1>8, <1>9, <1>10, <1>11 DEF ConvertInv, OnStack, InPostfix
<1> QED
  BY <1>1, <1>12, <1>13 DEF CountInv, EvaluateInv, DoneInv

LEMMA ConvertedKeepsInv ==
  ASSUME CountInv, Converted
  PROVE  CountInv'
<1> DEFINE n == Len(whereTokens)
           l == Len(opStack)
           toks == Popped(opStack, l)
<1>1. /\ pc = "convert" /\ pc' = "evaluate" /\ i > n /\ i' = 1
      /\ UNCHANGED <<clause, whereTokens, stk, result>>
      /\ pushOut(toks) /\ row' \in Rows
  BY DEF Converted
<1>2. /\ opStack \in Seq(OnStack) /\ postfix \in Seq(InPostfix) /\ stk = << >>
      /\ i \in 1 .. n + 1
      /\ Len(postfix) + l <= i - 1
      /\ \A S \in Counted :
           NumOf(S, postfix) + NumOf(S, opStack) = NumOf(S, Prefix(whereTokens, i - 1))
  BY <1>1 DEF CountInv, ConvertInv, OnStack, InPostfix
<1>3. n \in Nat /\ n <= MAX_POSTFIX /\ MAX_POSTFIX \in Nat /\ whereTokens \in Seq(Tokens)
  <2>1. MAX_POSTFIX \in Nat /\ (Fits => Len(clause) <= MAX_POSTFIX)
    BY WhereAssumption DEF Fits
  <2> QED
    BY <2>1, TokensKept DEF CountInv
<1>4. i - 1 = n /\ Prefix(whereTokens, n) = whereTokens
  <2>1. n \in 0 .. n
    BY <1>3
  <2> QED
    BY <1>1, <1>2, <1>3, <2>1, PrefixFacts
<1>5. /\ l \in Nat /\ Len(postfix) \in Nat /\ l \in 0 .. l
      /\ OnStack \subseteq InPostfix
  BY <1>2 DEF OnStack, InPostfix
<1>6. /\ toks \in Seq(OnStack) /\ Len(toks) = l
      /\ Remaining(opStack, l) \in Seq(OnStack) /\ Len(Remaining(opStack, l)) = l - l
      /\ \A S : NumOf(S, toks) + NumOf(S, Remaining(opStack, l)) = NumOf(S, opStack)
  BY <1>2, <1>5, NumOfPopped
<1> HIDE DEF toks
<1>7. toks \in Seq(InPostfix) /\ \A S : NumOf(S, toks) = NumOf(S, opStack)
  <2>1. Remaining(opStack, l) = << >>
    BY <1>5, <1>6, EmptySeq
  <2>2. \A S : NumOf(S, toks) \in Nat
    BY <1>6, NumOfType
  <2> QED
    BY <1>5, <1>6, <2>1, <2>2, SeqMonotonic, NumOfEmpty
<1>8. postfix' = postfix \o toks
  <2>1. Len(postfix) + Len(toks) <= MAX_POSTFIX
    BY <1>2, <1>3, <1>4, <1>5, <1>6
  <2> QED
    BY <1>1, <1>2, <1>7, <2>1, PushOutFits
<1>9. postfix' \in Seq(InPostfix) /\ Len(postfix') \in Nat
  BY <1>2, <1>7, <1>8, ConcatProperties
<1>10. \A S \in Counted : NumOf(S, postfix') = NumOf(S, whereTokens')
  <2>1. \A S : NumOf(S, postfix') = NumOf(S, postfix) + NumOf(S, toks)
    BY <1>2, <1>7, <1>8, NumOfConcat
  <2> QED
    BY <1>1, <1>2, <1>4, <1>7, <2>1
<1>11. /\ Len(stk') + NumOf(Operators, Prefix(postfix', i' - 1)) = NumOf(Operands, Prefix(postfix', i' - 1))
       /\ NumOf(Operands, Prefix(postfix', i' - 1)) = 0
  <2>1. Prefix(postfix', i' - 1) = << >>
    BY <1>1, <1>9, PrefixFacts
  <2>2. Len(stk') = 0
    BY <1>1, <1>2
  <2> QED
    BY <2>1, <2>2, NumOfEmpty
<1>12. stk' \in Seq(Values)
  BY <1>1, <1>2
<1>13. i' \in 1 .. Len(postfix') + 1
  BY <1>1, <1>9
<1>14. TextInv'
  BY <1>1 DEF CountInv, TextInv, Fits
<1>15. EvaluateInv'
  BY <1>1, <1>9, <1>10, <1>11, <1>12, <1>13 DEF EvaluateInv, InPostfix
<1> QED
  BY <1>1, <1>14, <1>15 DEF CountInv, ConvertInv, DoneInv

\* The evaluator computes values from values.
LEMMA ApplyType ==
  ASSUME NEW op \in Operators, NEW L \in Values, NEW R \in Values
  PROVE  applyOp(op, L, R) \in Values
<1>1. \A b : Bool(b) \in Values
  BY DEF Bool, Values
<1>2. \A n \in Int : Num(n) \in Values
  BY DEF Num, Values
<1>3. AsNum(L) \in Int /\ AsNum(R) \in Int /\ AsText(L) \in Int /\ AsText(R) \in Int
  BY DEF AsNum, AsText, Values
<1>4. CASE op \in {"and", "or"}
  BY <1>1, <1>4 DEF applyOp
<1>5. CASE op \in Comparing
  <2>1. op # "and" /\ op # "or"
    BY <1>5 DEF Comparing
  <2> QED
    BY <1>1, <1>5, <2>1 DEF applyOp
<1>6. CASE op \in {"+", "-", "*", "%"}
  <2>1. ASSUME NEW a \in Int, NEW b \in Int
        PROVE  Compute(op, a, b) \in Int
    <3>1. Remainder(a, b) \in Int
      <4> DEFINE abs(k) == IF k < 0 THEN -k ELSE k
      <4>1. b # 0 => abs(a) \in Nat /\ abs(b) \in Nat /\ abs(b) > 0
        BY <2>1
      <4>2. b # 0 => abs(a) % abs(b) \in Int
        BY <4>1
      <4> QED
        BY <4>2 DEF Remainder
    <3> QED
      BY <1>6, <3>1 DEF Compute
  <2>2. op # "and" /\ op # "or" /\ op \notin Comparing
    BY <1>6 DEF Comparing
  <2> QED
    BY <1>1, <1>2, <1>3, <2>1, <2>2 DEF applyOp
<1> QED
  BY <1>4, <1>5, <1>6, WhereAssumption DEF Comparing
LEMMA EvaluateKeepsInv ==
  ASSUME CountInv, Evaluate
  PROVE  CountInv'
<1> DEFINE x == postfix[i]
           n == Len(stk)
           read == Prefix(postfix, i - 1)
           next == Prefix(postfix, i)
<1>1. /\ pc = "evaluate" /\ i' = i + 1 /\ UNCHANGED <<clause, whereTokens, postfix, row>>
      /\ \/ x \in Operands /\ stk' = Append(stk, row[x]) /\ pc' = pc
         \/ /\ x \in Operators /\ n >= 2 /\ pc' = pc
            /\ stk' = Append(SubSeq(stk, 1, n - 2), applyOp(x, stk[n - 1], stk[n]))
         \/ x \in Operators /\ pc' = "done" /\ result' = FALSE
         \/ x = "(" /\ stk' = stk /\ pc' = pc
  BY DEF Evaluate, Return
<1>2. /\ postfix \in Seq(InPostfix) /\ i \in 1 .. Len(postfix) + 1 /\ i <= Len(postfix)
      /\ row \in Rows /\ stk \in Seq(Values)
      /\ \A S \in Counted : NumOf(S, postfix) = NumOf(S, whereTokens)
      /\ n + NumOf(Operators, read) = NumOf(Operands, read)
      /\ stk = << >> => NumOf(Operands, read) = 0
  BY <1>1 DEF Evaluate, CountInv, EvaluateInv, InPostfix
<1>3. n \in Nat /\ Len(postfix) \in Nat /\ i \in 1 .. Len(postfix)
  BY <1>2
<1>4. /\ read \in Seq(InPostfix)
      /\ \A S : NumOf(S, next) = NumOf(S, read) + (IF x \in S THEN 1 ELSE 0)
      /\ \A S : NumOf(S, read) \in Nat
  BY <1>2, <1>3, PrefixNext, NumOfType
<1>5. i' \in 1 .. Len(postfix') + 1 /\ i' - 1 = i
  BY <1>1, <1>3
<1>6. TextInv'
  BY <1>1 DEF CountInv, TextInv, Fits
<1> HIDE DEF read, next, x
<1>7. ASSUME /\ pc' = pc /\ stk' \in Seq(Values)
             /\ Len(stk') + NumOf(Operators, next) = NumOf(Operands, next)
             /\ stk' = << >> => NumOf(Operands, next) = 0
      PROVE  CountInv'
  <2>1. Prefix(postfix', i' - 1) = next
    BY <1>1, <1>5 DEF next
  <2>2. EvaluateInv'
    BY <1>1, <1>2, <1>5, <1>7, <2>1 DEF EvaluateInv, InPostfix
  <2> QED
    BY <1>1, <1>6, <1>7, <2>2 DEF CountInv, ConvertInv, DoneInv
<1>8. CASE x \in Operands /\ stk' = Append(stk, row[x]) /\ pc' = pc
  <2>1. row[x] \in Values
    BY <1>2, <1>8, WhereAssumption DEF Values
  <2>2. stk' \in Seq(Values) /\ Len(stk') = n + 1
    BY <1>2, <1>8, <2>1
  <2>3. x \notin Operators /\ stk' # << >>
    BY <1>3, <1>8, <2>2, KindsOfTokens
  <2>4. NumOf(Operands, next) = NumOf(Operands, read) + 1 /\ NumOf(Operators, next) = NumOf(Operators, read)
    BY <1>4, <1>8, <2>3
  <2>5. Len(stk') + NumOf(Operators, next) = NumOf(Operands, next)
    BY <1>2, <1>3, <1>4, <2>2, <2>4
  <2> QED
    BY <1>7, <1>8, <2>2, <2>3, <2>5
<1>9. CASE /\ x \in Operators /\ n >= 2 /\ pc' = pc
           /\ stk' = Append(SubSeq(stk, 1, n - 2), applyOp(x, stk[n - 1], stk[n]))
  <2> DEFINE below == SubSeq(stk, 1, n - 2)
             w == applyOp(x, stk[n - 1], stk[n])
  <2>1. w \in Values
    <3>1. stk[n - 1] \in Values /\ stk[n] \in Values
      BY <1>2, <1>3, <1>9
    <3> QED
      BY <1>9, <3>1, ApplyType
  <2>2. below \in Seq(Values) /\ Len(below) = n - 2
    <3> DEFINE m == n - 2
    <3>1. m \in Nat /\ 1 \in Int /\ m \in Int /\ \A k \in 1 .. m : stk[k] \in Values
      BY <1>2, <1>3, <1>9
    <3> HIDE DEF m
    <3>2. /\ SubSeq(stk, 1, m) \in Seq(Values)
          /\ Len(SubSeq(stk, 1, m)) = IF 1 <= m THEN m - 1 + 1 ELSE 0
      BY <3>1, SubSeqProperties
    <3>3. Len(SubSeq(stk, 1, m)) = m
      BY <3>1, <3>2
    <3> QED
      BY <3>2, <3>3 DEF m
  <2> HIDE DEF below, w
  <2>3. stk' = Append(below, w)
    BY <1>9 DEF below, w
  <2>4. stk' \in Seq(Values) /\ Len(stk') = (n - 2) + 1
    BY <2>1, <2>2, <2>3
  <2>5. x \notin Operands /\ stk' # << >>
    BY <1>3, <1>9, <2>4, KindsOfTokens
  <2>6. NumOf(Operators, next) = NumOf(Operators, read) + 1 /\ NumOf(Operands, next) = NumOf(Operands, read)
    BY <1>4, <1>9, <2>5
  <2>7. Len(stk') + NumOf(Operators, next) = NumOf(Operands, next)
    BY <1>2, <1>3, <1>4, <2>4, <2>6
  <2> QED
    BY <1>7, <1>9, <2>4, <2>5, <2>7
<1>10. CASE x \in Operators /\ pc' = "done" /\ result' = FALSE
  BY <1>6, <1>10 DEF CountInv, ConvertInv, EvaluateInv, DoneInv
<1>11. CASE x = "(" /\ stk' = stk /\ pc' = pc
  <2>1. x \notin Operands /\ x \notin Operators
    BY <1>11, KindsOfTokens
  <2>2. NumOf(Operators, next) = NumOf(Operators, read) /\ NumOf(Operands, next) = NumOf(Operands, read)
    BY <1>4, <2>1
  <2> QED
    BY <1>2, <1>7, <1>11, <2>2
<1> QED
  BY <1>1, <1>8, <1>9, <1>10, <1>11 DEF x

LEMMA EvaluatedKeepsInv ==
  ASSUME CountInv, Evaluated
  PROVE  CountInv'
<1> DEFINE read == Prefix(postfix, i - 1)
<1>1. /\ pc = "evaluate" /\ i > Len(postfix) /\ pc' = "done"
      /\ UNCHANGED <<clause, whereTokens>>
  BY DEF Evaluated, Return
<1>2. /\ postfix \in Seq(InPostfix) /\ i \in 1 .. Len(postfix) + 1
      /\ stk \in Seq(Values)
      /\ \A S \in Counted : NumOf(S, postfix) = NumOf(S, whereTokens)
      /\ Len(stk) + NumOf(Operators, read) = NumOf(Operands, read)
      /\ stk = << >> => NumOf(Operands, read) = 0
  BY <1>1 DEF CountInv, EvaluateInv, InPostfix
<1>3. read = postfix
  <2>1. i - 1 = Len(postfix) /\ Len(postfix) \in 0 .. Len(postfix)
    BY <1>1, <1>2
  <2> QED
    BY <1>2, <2>1, PrefixFacts
<1>4. /\ NumOf(Operators, read) = NumOf(Operators, whereTokens)
      /\ NumOf(Operands, read) = NumOf(Operands, whereTokens)
      /\ NumOf(Operators, read) \in Nat /\ NumOf(Operands, read) \in Nat
  BY <1>2, <1>3, NumOfType DEF Counted
<1>5. Len(stk) \in Nat /\ (stk # << >> => Len(stk) > 0)
  BY <1>2
<1> HIDE DEF read
<1>6. \/ NumOf(Operands, whereTokens) > NumOf(Operators, whereTokens)
      \/ NumOf(Operands, whereTokens) = 0 /\ NumOf(Operators, whereTokens) = 0
  BY <1>2, <1>4, <1>5
<1>7. TextInv'
  BY <1>1 DEF CountInv, TextInv, Fits
<1> QED
  BY <1>1, <1>6, <1>7 DEF CountInv, ConvertInv, EvaluateInv, DoneInv

\* A statement begins with nothing read.
LEMMA InitHasInv == Init => CountInv
<1> SUFFICES ASSUME Init PROVE CountInv
  OBVIOUS
<1>1. /\ pc = "collect" /\ clause = << >> /\ whereTokens = << >> /\ opStack = << >>
      /\ postfix = << >> /\ stk = << >> /\ i = 1
  BY DEF Init
<1>2. Len(<< >>) = 0 /\ \A k \in 0 .. 0 : Prefix(<< >>, k) = << >>
  BY SubSeqEmpty DEF Prefix
<1>3. Fits
  BY <1>1, <1>2, WhereAssumption DEF Fits
<1>4. TextInv
  BY <1>1, <1>2, <1>3, EmptyTextIsBalanced DEF TextInv
<1>5. ConvertInv
  <2>1. i - 1 = 0 /\ i \in 1 .. Len(whereTokens) + 1
    BY <1>1
  <2> QED
    BY <1>1, <1>2, <2>1, NumOfEmpty DEF ConvertInv
<1> QED
  BY <1>1, <1>4, <1>5 DEF CountInv, EvaluateInv, DoneInv

LEMMA NextStatementHasInv == NextStatement => CountInv'
<1> SUFFICES ASSUME NextStatement PROVE CountInv'
  OBVIOUS
<1>1. /\ pc' = "collect" /\ clause' = << >> /\ whereTokens' = << >> /\ opStack' = << >>
      /\ postfix' = << >> /\ stk' = << >> /\ i' = 1
  BY DEF NextStatement
<1>2. Len(<< >>) = 0 /\ \A k \in 0 .. 0 : Prefix(<< >>, k) = << >>
  BY SubSeqEmpty DEF Prefix
<1>3. Fits'
  BY <1>1, <1>2, WhereAssumption DEF Fits
<1>4. TextInv'
  BY <1>1, <1>2, <1>3, EmptyTextIsBalanced DEF TextInv
<1>5. ConvertInv'
  <2>1. i' - 1 = 0 /\ i' \in 1 .. Len(whereTokens') + 1
    BY <1>1
  <2> QED
    BY <1>1, <1>2, <2>1, NumOfEmpty DEF ConvertInv
<1> QED
  BY <1>1, <1>4, <1>5 DEF CountInv, EvaluateInv, DoneInv

LEMMA NextKeepsCounts == CountInv /\ [Next]_vars => CountInv'
<1> SUFFICES ASSUME CountInv, [Next]_vars PROVE CountInv'
  OBVIOUS
<1>1. ASSUME NEW tok \in Operands \cup Operators \cup {"(", ")"}, Collect(tok)
      PROVE  CountInv'
  <2>1. /\ pc = "collect" /\ pc' = pc /\ UNCHANGED <<opStack, postfix, stk, i>>
    BY <1>1 DEF Collect
  <2>2. TextInv'
    BY <1>1, CollectKeepsText DEF CountInv, Tokens
  <2>3. ConvertInv'
    <3>1. Len(whereTokens') \in Nat
      <4>1. whereTokens \in Seq(Tokens) /\ tok \in Tokens
        BY TokensKept DEF CountInv, Tokens
      <4>2. whereTokens' = whereTokens \/ whereTokens' = Append(whereTokens, tok)
        BY <1>1 DEF Collect
      <4> QED
        BY <4>1, <4>2
    <3>2. i = 1 /\ i - 1 = 0 /\ Prefix(whereTokens, 0) = << >> /\ Prefix(whereTokens', 0) = << >>
      BY <2>1, SubSeqEmpty DEF CountInv, ConvertInv, Prefix
    <3>3. i' \in 1 .. Len(whereTokens') + 1
      BY <2>1, <3>1, <3>2
    <3> QED
      BY <2>1, <3>2, <3>3 DEF CountInv, ConvertInv
  <2> QED
    BY <2>1, <2>2, <2>3 DEF CountInv, EvaluateInv, DoneInv
<1>2. CASE EndOfText
  <2>1. /\ pc = "collect" /\ pc' = "convert" /\ Missing(clause) = 0
        /\ UNCHANGED <<clause, whereTokens, opStack, postfix, stk, i>>
    BY <1>2 DEF EndOfText
  <2>2. TextInv'
    BY <2>1 DEF CountInv, TextInv, Fits
  <2>3. ConvertInv'
    BY <2>1 DEF CountInv, ConvertInv
  <2> QED
    BY <2>1, <2>2, <2>3 DEF CountInv, EvaluateInv, DoneInv
<1>3. CASE UNCHANGED vars
  BY <1>3 DEF vars, CountInv, TextInv, ConvertInv, EvaluateInv, DoneInv, Fits
<1> QED
  BY <1>1, <1>2, <1>3, ConvertKeepsInv, ConvertedKeepsInv, EvaluateKeepsInv, EvaluatedKeepsInv,
     NextStatementHasInv DEF Next

(***************************************************************************)
(* Whatever the text: the array holds its first tokens, nothing of them is *)
(* lost or cut off by the conversion, and evalWhere can only accept a row  *)
(* if there are more operands than operators in the array, or none at all. *)
(***************************************************************************)
THEOREM ClauseCounts == Spec => []CountInv
<1> QED
  BY InitHasInv, NextKeepsCounts, PTL DEF Spec

(***************************************************************************)
(* A clause with a sign has no more operands than operators.               *)
(***************************************************************************)
THEOREM SignedClausesSelectNothing == Spec => []SignedSelectsNothing
<1>1. ASSUME CountInv, pc = "done", HasSign, Fits, result
      PROVE  FALSE
  <2>1. TextInv /\ whereTokens = clause /\ Balanced(clause) /\ clause \in Seq(Tokens)
    BY <1>1, TokensKept DEF CountInv, TextInv
  <2>2. PICK k \in DOMAIN clause : clause[k] = "-" /\ Expecting(Prefix(clause, k - 1))
    BY <1>1 DEF HasSign, Sign, Prefix
  <2>3. Signs(clause) # {} /\ "-" \in Operators
    BY <2>1, <2>2, KindsOfTokens DEF Signs, Tokens
  <2>4. Cardinality(Signs(clause)) \in Nat /\ Cardinality(Signs(clause)) > 0
    BY <2>1, <2>3, SignsType
  <2>5. /\ NumOf(Operands, clause) \in Nat /\ NumOf(Operators, clause) \in Nat
        /\ NumOf(Operators, clause) # 0
    <3>1. k \in 1 .. Len(clause) /\ clause[k] \in Operators
      BY <2>1, <2>2, <2>3
    <3>2. NumOf(Operators, clause) = 0 <=> \A j \in 1 .. Len(clause) : clause[j] \notin Operators
      BY <2>1, NumOfType
    <3> QED
      BY <2>1, <3>1, <3>2, NumOfType
  <2>6. NumOf(Operands, clause) <= NumOf(Operators, clause)
    BY <2>1, <2>4, <2>5 DEF Balanced
  <2> QED
    BY <1>1, <2>1, <2>5, <2>6 DEF CountInv, DoneInv
<1>2. CountInv => SignedSelectsNothing
  BY <1>1 DEF SignedSelectsNothing, Fits
<1> QED
  BY <1>2, ClauseCounts, PTL

(***************************************************************************)
(* What is left of a clause that is too long has an even number of tokens, *)
(* and without signs and parentheses half of them are operators.           *)
(***************************************************************************)
THEOREM OverlongClausesSelectNothing == Spec => []OverlongSelectsNothing
<1>1. ASSUME CountInv, pc = "done", ~Fits, ~HasSign, Count("(", clause) = 0, result
      PROVE  FALSE
  <2> DEFINE w == whereTokens
             a == NumOf(Operands, w)
             o == NumOf(Operators, w)
  <2>1. /\ TextInv /\ Balanced(w) /\ w \in Seq(Tokens) /\ Len(w) = MAX_POSTFIX
        /\ clause \in Seq(Tokens) /\ \A k \in 1 .. Len(w) : w[k] = clause[k]
        /\ Len(w) \in Nat /\ w = Prefix(clause, MAX_POSTFIX)
    BY <1>1, TokensKept DEF CountInv, TextInv
  <2>2. MAX_POSTFIX \in 0 .. Len(clause) /\ Len(clause) \in Nat
    BY <1>1, <2>1, WhereAssumption DEF Fits
  <2>3. Signs(w) = {}
    <3>1. ASSUME NEW k \in DOMAIN w, w[k] = "-", Expecting(Prefix(w, k - 1))
          PROVE  FALSE
      <4>1. k \in 1 .. Len(w) /\ k \in DOMAIN clause /\ k - 1 \in 0 .. MAX_POSTFIX
        BY <2>1, <2>2, <3>1
      <4>2. Prefix(w, k - 1) = Prefix(clause, k - 1)
        BY <2>1, <2>2, <4>1, PrefixFacts
      <4>3. Sign(clause, k)
        BY <2>1, <3>1, <4>1, <4>2 DEF Sign, Prefix
      <4> QED
        BY <1>1, <4>1, <4>3 DEF HasSign
    <3> QED
      BY <3>1 DEF Signs
  <2>4. \A k \in 1 .. Len(clause) : clause[k] # "("
    <3>1. {k \in DOMAIN clause : clause[k] = "("} = Places({"("}, clause)
      BY DEF Places
    <3>2. NumOf({"("}, clause) = 0
      BY <1>1, <3>1 DEF Count, NumOf
    <3> QED
      BY <2>1, <3>2, NumOfType
  <2>5. \A k \in 1 .. Len(w) : w[k] # "("
    BY <2>1, <2>2, <2>4
  <2>6. NumOf({"("}, w) = 0
    BY <2>1, <2>5, NumOfType
  <2>7. NumOf({")"}, w) = 0
    <3>1. NumOf({")"}, w) \in Nat
      BY <2>1, NumOfType
    <3> QED
      BY <2>1, <2>6, <3>1 DEF Balanced
  <2>8. \A k \in 1 .. Len(w) : w[k] # ")"
    BY <2>1, <2>7, NumOfType
  <2>9. a + o = MAX_POSTFIX
    <3>1. Places(Operands, w) \union Places(Operators, w) = 1 .. Len(w)
      BY <2>1, <2>5, <2>8 DEF Places, Tokens
    <3>2. Places(Operands, w) \intersect Places(Operators, w) = {}
      BY KindsOfTokens DEF Places
    <3>3. IsFiniteSet(Places(Operands, w)) /\ IsFiniteSet(Places(Operators, w))
      BY <2>1, NumOfType
    <3>4. Cardinality(1 .. Len(w)) = MAX_POSTFIX
      <4>1. 1 \in Int /\ Len(w) \in Int /\ MAX_POSTFIX > 0
        BY <2>1, WhereAssumption
      <4> QED
        BY <2>1, <4>1, FS_Interval
    <3> QED
      BY <3>1, <3>2, <3>3, <3>4, DisjointUnion DEF NumOf
  <2>10. a \in Nat /\ o \in Nat
    BY <2>1, NumOfType
  <2>11. a + 0 + (IF Expecting(w) THEN 1 ELSE 0) = o + 1
    <3>1. Cardinality(Signs(w)) = 0
      BY <2>3, FS_EmptySet
    <3> QED
      BY <2>1, <3>1 DEF Balanced
  <2>12. MAX_POSTFIX % 2 = 0 /\ MAX_POSTFIX > 0
    BY WhereAssumption
  <2> HIDE DEF a, o
  <2>13. a = o /\ a > 0
    BY <2>9, <2>10, <2>11, <2>12
  <2> QED
    BY <1>1, <2>10, <2>13 DEF CountInv, DoneInv, a, o
<1>2. CountInv => OverlongSelectsNothing
  <2>1. CountInv => (Len(clause) > MAX_POSTFIX => ~Fits)
    BY WhereAssumption DEF CountInv, TextInv, Fits
  <2> QED
    BY <1>1, <2>1 DEF OverlongSelectsNothing
<1> QED
  BY <1>2, ClauseCounts, PTL

-----------------------------------------------------------------------------
(* What a text means *)

\* Precedences number the levels of the grammar.
LEMMA LevelIs ==
  ASSUME NEW x \in Operators, NEW y \in Operators
  PROVE  /\ Level(x) <= Level(y) <=> precedence(x) <= precedence(y)
         /\ precedence(x) \in Nat
<1> DEFINE N(z) == CASE z = "or" -> 1 [] z = "and" -> 2 [] z \in Comparing -> 3
                     [] z \in {"+", "-"} -> 4 [] OTHER -> 5
<1>1. ASSUME NEW z \in Operators
      PROVE  Level(z) = N(z)
  <2>1. /\ DOMAIN Levels = 1 .. 5
        /\ Levels[1] = {"or"} /\ Levels[2] = {"and"} /\ Levels[3] = Comparing
        /\ Levels[4] = {"+", "-"} /\ Levels[5] = {"*", "%"}
    BY DEF Levels
  <2>2. z \in {"or", "and", "+", "-", "*", "%"} \union Comparing
    BY WhereAssumption DEF Comparing
  <2>3. N(z) \in 1 .. 5 /\ z \in Levels[N(z)]
    BY <2>1, <2>2 DEF Comparing
  <2>4. \A n \in 1 .. 5 : z \in Levels[n] => n = N(z)
    BY <2>1, <2>2 DEF Comparing
  <2> HIDE DEF N
  <2> QED
    BY <2>1, <2>3, <2>4 DEF Level
<1>2. ASSUME NEW z \in Operators
      PROVE  precedence(z) = IF N(z) <= 2 THEN N(z) ELSE N(z) + 1
  <2>1. z \in {"or", "and", "+", "-", "*", "%"} \union Comparing
    BY WhereAssumption DEF Comparing
  <2> QED
    BY <2>1 DEF precedence, Comparing
<1>3. \A z : N(z) \in 1 .. 5
  OBVIOUS
<1> HIDE DEF N
<1> QED
  BY <1>1, <1>2, <1>3

\* SplitAt is the last of the weakest operators.
LEMMA SplitIsLast ==
  ASSUME NEW s \in Seq(Tokens), NEW a \in Nat, NEW b \in Nat, Outer(s, a, b) # {}
  PROVE  LET k == SplitAt(s, a, b)
         IN /\ k \in Outer(s, a, b) /\ k \in a .. b
            /\ \A m \in Outer(s, a, b) : /\ precedence(s[k]) <= precedence(s[m])
                                         /\ precedence(s[k]) = precedence(s[m]) => k >= m
<1> DEFINE O == Outer(s, a, b)
           W == {k \in O : \A m \in O : Level(s[k]) <= Level(s[m])}
           P == {precedence(s[k]) : k \in O}
<1>1. /\ O \subseteq 0 .. b /\ O \subseteq a .. b
      /\ \A k \in O : s[k] \in Operators /\ precedence(s[k]) \in Nat
      /\ \A k, m \in O : Level(s[k]) <= Level(s[m]) <=> precedence(s[k]) <= precedence(s[m])
  BY LevelIs DEF Outer
<1> HIDE DEF O
<1>2. W # {}
  <2>1. PICK p \in P : \A o \in P : p <= o
    <3>1. P \subseteq Nat /\ P # {}
      BY <1>1 DEF O
    <3> QED
      BY <3>1, LeastNumber
  <2>2. PICK k \in O : p = precedence(s[k])
    BY <2>1
  <2>3. \A m \in O : precedence(s[k]) <= precedence(s[m])
    BY <2>1, <2>2
  <2> QED
    BY <1>1, <2>2, <2>3
<1>3. W \subseteq 0 .. b
  BY <1>1
<1>4. Max(W) \in W /\ \A m \in W : Max(W) >= m
  <2> HIDE DEF W
  <2> QED
    BY <1>2, <1>3, LargestNumber
<1>5. SplitAt(s, a, b) = Max(W)
  BY DEF SplitAt, O
<1> DEFINE k == Max(W)
<1> HIDE DEF k
<1>6. k \in O /\ \A m \in O : precedence(s[k]) <= precedence(s[m])
  BY <1>1, <1>4 DEF k
<1>7. ASSUME NEW m \in O, precedence(s[k]) = precedence(s[m])
      PROVE  k >= m
  <2>1. \A o \in O : precedence(s[m]) <= precedence(s[o])
    BY <1>6, <1>7
  <2>2. m \in W
    BY <1>1, <2>1
  <2> QED
    BY <1>4, <2>2 DEF k
<1> QED
  BY <1>1, <1>5, <1>6, <1>7 DEF k, O

\* The meaning of a part depends on that of smaller parts only.
LEMMA SmallerPartsSuffice ==
  ASSUME NEW s \in Seq(Tokens), NEW r, NEW m, NEW n, NEW a \in 1 .. Len(s) + 1, NEW b \in 0 .. Len(s),
         \A cd \in Spans(s) : cd[2] - cd[1] < b - a => m[cd] = n[cd]
  PROVE  MeaningBy(s, r, m, a, b) = MeaningBy(s, r, n, a, b)
<1>1. Len(s) \in Nat /\ a \in Int /\ b \in Int
  OBVIOUS
<1>2. ASSUME NEW c \in 1 .. Len(s) + 1, NEW d \in 0 .. Len(s), d - c < b - a
      PROVE  m[<<c, d>>] = n[<<c, d>>]
  BY <1>2 DEF Spans
<1>3. CASE a > b
  BY <1>3 DEF MeaningBy
<1>4. CASE a <= b /\ Outer(s, a, b) # {}
  <2>1. SplitAt(s, a, b) \in a .. b
    BY <1>1, <1>4, SplitIsLast
  <2> DEFINE k == SplitAt(s, a, b)
  <2> HIDE DEF k
  <2>2. k \in a .. b
    BY <2>1 DEF k
  <2>3. /\ k - 1 \in 0 .. Len(s) /\ k + 1 \in 1 .. Len(s) + 1
        /\ (k - 1) - a < b - a /\ b - (k + 1) < b - a
    BY <1>1, <2>2
  <2>4. m[<<a, k - 1>>] = n[<<a, k - 1>>] /\ m[<<k + 1, b>>] = n[<<k + 1, b>>]
    BY <1>2, <2>3
  <2> QED
    BY <1>1, <1>4, <2>4 DEF MeaningBy, k
<1>5. CASE a <= b /\ Outer(s, a, b) = {}
  <2>1. /\ a + 1 \in 1 .. Len(s) + 1 /\ b - 1 \in 0 .. Len(s)
        /\ (b - 1) - (a + 1) < b - a /\ b - (a + 1) < b - a
    BY <1>1, <1>5
  <2>2. m[<<a + 1, b - 1>>] = n[<<a + 1, b - 1>>] /\ m[<<a + 1, b>>] = n[<<a + 1, b>>]
    BY <1>2, <2>1
  <2> QED
    BY <1>1, <1>5, <2>2 DEF MeaningBy
<1> QED
  BY <1>1, <1>3, <1>4, <1>5

LEMMA MeaningIs ==
  ASSUME NEW s \in Seq(Tokens), NEW r
  PROVE  \A a \in 1 .. Len(s) + 1, b \in 0 .. Len(s) :
           Meanings(s, r)[<<a, b>>] = MeaningBy(s, r, Meanings(s, r), a, b)
<1> DEFINE Sp == Spans(s)
           Known(n) == \E m : /\ m = [ab \in Sp |-> m[ab]]
                              /\ \A ab \in Sp : ab[2] - ab[1] < n =>
                                   m[ab] = MeaningBy(s, r, m, ab[1], ab[2])
           Failing == {n \in Nat : ~Known(n)}
<1>1. Len(s) \in Nat /\ \A ab \in Sp : /\ ab[1] \in 1 .. Len(s) + 1 /\ ab[2] \in 0 .. Len(s)
                                        /\ ab = <<ab[1], ab[2]>>
  BY DEF Spans
<1>2. Known(0)
  <2> DEFINE m == [ab \in Sp |-> NoMeaning]
  <2>1. m = [ab \in Sp |-> m[ab]]
    OBVIOUS
  <2>2. \A ab \in Sp : ab[2] - ab[1] < 0 => m[ab] = MeaningBy(s, r, m, ab[1], ab[2])
    BY <1>1 DEF MeaningBy
  <2> HIDE DEF m
  <2> QED
    BY <2>1, <2>2
<1>3. ASSUME NEW n \in Nat, Known(n)
      PROVE  Known(n + 1)
  <2>1. PICK m : /\ m = [ab \in Sp |-> m[ab]]
                 /\ \A ab \in Sp : ab[2] - ab[1] < n => m[ab] = MeaningBy(s, r, m, ab[1], ab[2])
    BY <1>3
  <2> DEFINE l == [ab \in Sp |-> IF ab[2] - ab[1] < n THEN m[ab]
                                 ELSE MeaningBy(s, r, m, ab[1], ab[2])]
  <2>2. /\ l = [ab \in Sp |-> l[ab]]
        /\ \A ab \in Sp : ab[2] - ab[1] < n => l[ab] = m[ab]
        /\ \A ab \in Sp : l[ab] = MeaningBy(s, r, m, ab[1], ab[2])
    BY <2>1
  <2> HIDE DEF l
  <2>3. ASSUME NEW ab \in Sp, ab[2] - ab[1] < n + 1
        PROVE  l[ab] = MeaningBy(s, r, l, ab[1], ab[2])
    <3> DEFINE a == ab[1]
               b == ab[2]
    <3>1. a \in 1 .. Len(s) + 1 /\ b \in 0 .. Len(s) /\ a \in Int /\ b \in Int /\ b - a < n + 1
      BY <1>1, <2>3
    <3>2. l[ab] = MeaningBy(s, r, m, a, b)
      BY <2>2
    <3> HIDE DEF a, b
    <3>3. ASSUME NEW cd \in Spans(s), cd[2] - cd[1] < b - a
          PROVE  m[cd] = l[cd]
      <4>1. cd[2] - cd[1] < n
        BY <1>1, <3>1, <3>3
      <4> QED
        BY <2>2, <4>1
    <3>4. MeaningBy(s, r, m, a, b) = MeaningBy(s, r, l, a, b)
      BY <3>1, <3>3, SmallerPartsSuffice
    <3> QED
      BY <3>2, <3>4 DEF a, b
  <2> QED
    BY <2>2, <2>3
<1> HIDE DEF Known, Sp
<1>4. Failing = {}
  <2> SUFFICES ASSUME Failing # {} PROVE FALSE
    OBVIOUS
  <2>1. PICK n \in Failing : \A k \in Failing : n <= k
    BY LeastNumber
  <2>2. n \in Nat /\ n # 0 /\ ~Known(n)
    BY <1>2, <2>1
  <2>3. n - 1 \in Nat /\ (n - 1) + 1 = n /\ ~(n <= n - 1)
    BY <2>2
  <2>4. Known(n - 1)
    BY <2>1, <2>3
  <2>5. Known((n - 1) + 1)
    BY <1>3, <2>3, <2>4
  <2> QED
    BY <2>2, <2>3, <2>5
<1>5. Known(Len(s) + 1)
  BY <1>1, <1>4
<1>6. PICK m : /\ m = [ab \in Sp |-> m[ab]]
               /\ \A ab \in Sp : ab[2] - ab[1] < Len(s) + 1 =>
                    m[ab] = MeaningBy(s, r, m, ab[1], ab[2])
  BY <1>5 DEF Known
<1>7. \A ab \in Sp : m[ab] = MeaningBy(s, r, m, ab[1], ab[2])
  BY <1>1, <1>6
<1>8. m = [ab \in Sp |-> MeaningBy(s, r, m, ab[1], ab[2])]
  BY <1>6, <1>7
<1> DEFINE M == CHOOSE f : f = [ab \in Sp |-> MeaningBy(s, r, f, ab[1], ab[2])]
<1>9. M = [ab \in Sp |-> MeaningBy(s, r, M, ab[1], ab[2])]
  BY <1>8
<1>10. Meanings(s, r) = M
  BY DEF Meanings, Sp
<1> HIDE DEF M
<1>11. ASSUME NEW a \in 1 .. Len(s) + 1, NEW b \in 0 .. Len(s)
       PROVE  M[<<a, b>>] = MeaningBy(s, r, M, a, b)
  <2>1. <<a, b>> \in Sp
    BY DEF Sp, Spans
  <2>2. M[<<a, b>>] = MeaningBy(s, r, M, <<a, b>>[1], <<a, b>>[2])
    BY <1>9, <2>1
  <2> QED
    BY <2>2
<1> QED
  BY <1>10, <1>11

-----------------------------------------------------------------------------
(* Clauses without signs *)

\* The beginning of a clause that has no sign.
Plain(s) ==
  /\ s \in Seq(Tokens)
  /\ \A k \in 1 .. Len(s) : s[k] \in NextTokens(Prefix(s, k - 1)) /\ ~Sign(s, k)
  /\ \A k \in 0 .. Len(s) : Balanced(Prefix(s, k))

\* How many parentheses are open behind the token k.
Depth(s, k) == Unclosed(Prefix(s, k))

LEMMA DepthSteps ==
  ASSUME NEW s, Plain(s)
  PROVE  /\ Depth(s, 0) = 0
         /\ \A k \in 0 .. Len(s) : Depth(s, k) \in Nat
         /\ \A k \in 1 .. Len(s) :
              Depth(s, k) = Depth(s, k - 1) + (IF s[k] = "(" THEN 1 ELSE IF s[k] = ")" THEN -1 ELSE 0)
<1>1. s \in Seq(Tokens) /\ Len(s) \in Nat
  BY DEF Plain
<1>2. Depth(s, 0) = 0
  <2>1. Prefix(s, 0) = << >>
    BY SubSeqEmpty DEF Prefix
  <2> QED
    BY <2>1, Parentheses, NumOfEmpty DEF Depth
<1>3. ASSUME NEW k \in 0 .. Len(s)
      PROVE  /\ NumOf({"("}, Prefix(s, k)) \in Nat /\ NumOf({")"}, Prefix(s, k)) \in Nat
             /\ Depth(s, k) = NumOf({"("}, Prefix(s, k)) - NumOf({")"}, Prefix(s, k))
             /\ Depth(s, k) \in Nat
  <2>1. Prefix(s, k) \in Seq(Tokens) /\ Balanced(Prefix(s, k))
    BY <1>1, PrefixFacts DEF Plain
  <2>2. NumOf({"("}, Prefix(s, k)) \in Nat /\ NumOf({")"}, Prefix(s, k)) \in Nat
    BY <2>1, NumOfType
  <2>3. Depth(s, k) = NumOf({"("}, Prefix(s, k)) - NumOf({")"}, Prefix(s, k))
    BY Parentheses DEF Depth
  <2> QED
    BY <2>1, <2>2, <2>3 DEF Balanced
<1>4. ASSUME NEW k \in 1 .. Len(s)
      PROVE  Depth(s, k) = Depth(s, k - 1) + (IF s[k] = "(" THEN 1 ELSE IF s[k] = ")" THEN -1 ELSE 0)
  <2>1. \A S : NumOf(S, Prefix(s, k)) = NumOf(S, Prefix(s, k - 1)) + (IF s[k] \in S THEN 1 ELSE 0)
    BY <1>1, PrefixNext
  <2>2. /\ NumOf({"("}, Prefix(s, k)) = NumOf({"("}, Prefix(s, k - 1)) + (IF s[k] = "(" THEN 1 ELSE 0)
        /\ NumOf({")"}, Prefix(s, k)) = NumOf({")"}, Prefix(s, k - 1)) + (IF s[k] = ")" THEN 1 ELSE 0)
    BY <2>1
  <2> DEFINE j == k - 1
  <2>3. j \in 0 .. Len(s) /\ k \in 0 .. Len(s)
    BY <1>1
  <2> HIDE DEF j
  <2>4. /\ NumOf({"("}, Prefix(s, j)) \in Nat /\ NumOf({")"}, Prefix(s, j)) \in Nat
        /\ Depth(s, j) = NumOf({"("}, Prefix(s, j)) - NumOf({")"}, Prefix(s, j))
        /\ Depth(s, k) = NumOf({"("}, Prefix(s, k)) - NumOf({")"}, Prefix(s, k))
    BY <1>3, <2>3
  <2>5. /\ NumOf({"("}, Prefix(s, k)) = NumOf({"("}, Prefix(s, j)) + (IF s[k] = "(" THEN 1 ELSE 0)
        /\ NumOf({")"}, Prefix(s, k)) = NumOf({")"}, Prefix(s, j)) + (IF s[k] = ")" THEN 1 ELSE 0)
    BY <2>2 DEF j
  <2>6. Depth(s, k) = Depth(s, j) + (IF s[k] = "(" THEN 1 ELSE IF s[k] = ")" THEN -1 ELSE 0)
    BY <2>4, <2>5
  <2> QED
    BY <2>6 DEF j
<1> QED
  BY <1>2, <1>3, <1>4

LEMMA DepthInside ==
  ASSUME NEW s \in Seq(Tokens), NEW a \in 1 .. Len(s), NEW k \in a .. Len(s)
  PROVE  Unclosed(SubSeq(s, a, k)) = Depth(s, k) - Depth(s, a - 1)
<1> DEFINE p == Prefix(s, a - 1)
           t == SubSeq(s, a, k)
<1>1. Len(s) \in Nat /\ a \in Nat /\ k \in Nat /\ 1 <= a /\ a <= k /\ k <= Len(s) /\ a - 1 \in 0 .. Len(s)
  OBVIOUS
<1>2. p \in Seq(Tokens) /\ Len(p) = a - 1 /\ \A j \in 1 .. a - 1 : p[j] = s[j]
  <2> DEFINE m == a - 1
  <2>1. m \in 0 .. Len(s)
    BY <1>1
  <2> HIDE DEF m
  <2>2. /\ Prefix(s, m) \in Seq(Tokens) /\ Len(Prefix(s, m)) = m
        /\ \A j \in 1 .. m : Prefix(s, m)[j] = s[j]
    BY <2>1, PrefixFacts
  <2> QED
    BY <2>2 DEF m
<1>3. t \in Seq(Tokens) /\ Len(t) = k - a + 1 /\ \A j \in 1 .. k - a + 1 : t[j] = s[a + j - 1]
  <2>1. \A j \in a .. k : s[j] \in Tokens
    BY <1>1
  <2>2. a \in Int /\ k \in Int
    BY <1>1
  <2>3. /\ t \in Seq(Tokens)
        /\ Len(t) = (IF a <= k THEN k - a + 1 ELSE 0)
        /\ \A j \in 1 .. k - a + 1 : t[j] = s[a + j - 1]
    BY <2>1, <2>2, SubSeqProperties
  <2> QED
    BY <1>1, <2>3
<1>4. Prefix(s, k) \in Seq(Tokens) /\ Len(Prefix(s, k)) = k /\ \A j \in 1 .. k : Prefix(s, k)[j] = s[j]
  <2>1. k \in 0 .. Len(s)
    BY <1>1
  <2> QED
    BY <2>1, PrefixFacts
<1> HIDE DEF p, t
<1> DEFINE n == a - 1
           d == k - a + 1
<1>5. n \in Nat /\ d \in Nat /\ k = n + d /\ \A j \in 1 .. d : a + j - 1 = n + j
  BY <1>1
<1>6. p \o t \in Seq(Tokens) /\ Len(p \o t) = k /\ \A j \in 1 .. k : (p \o t)[j] = s[j]
  <2>1. Len(p) = n /\ Len(t) = d /\ (\A j \in 1 .. n : p[j] = s[j]) /\ (\A j \in 1 .. d : t[j] = s[n + j])
    BY <1>2, <1>3, <1>5
  <2> HIDE DEF n, d
  <2>2. /\ p \o t \in Seq(Tokens) /\ Len(p \o t) = n + d
        /\ \A j \in 1 .. n + d : (p \o t)[j] = IF j <= n THEN p[j] ELSE t[j - n]
    <3>1. /\ p \o t \in Seq(Tokens) /\ Len(p \o t) = Len(p) + Len(t)
          /\ \A j \in 1 .. Len(p) + Len(t) :
               (p \o t)[j] = IF j <= Len(p) THEN p[j] ELSE t[j - Len(p)]
      BY <1>2, <1>3, ConcatProperties
    <3> QED
      BY <2>1, <3>1
  <2>3. ASSUME NEW j \in 1 .. k
        PROVE  (p \o t)[j] = s[j]
    <3>1. CASE j <= n
      BY <1>5, <2>1, <2>2, <3>1
    <3>2. CASE ~(j <= n)
      <4>1. j - n \in 1 .. d /\ n + (j - n) = j
        BY <1>5, <3>2
      <4>2. (p \o t)[j] = t[j - n]
        BY <1>5, <2>2, <3>2
      <4>3. t[j - n] = s[n + (j - n)]
        BY <2>1, <4>1
      <4> QED
        BY <4>1, <4>2, <4>3
    <3> QED
      BY <3>1, <3>2
  <2> QED
    BY <1>5, <2>2, <2>3
<1>7. Prefix(s, k) = p \o t
  BY <1>4, <1>6, SeqEqual
<1>8. \A S : NumOf(S, Prefix(s, k)) = NumOf(S, p) + NumOf(S, t)
  BY <1>2, <1>3, <1>7, NumOfConcat
<1>9. \A S : NumOf(S, p) \in Nat /\ NumOf(S, t) \in Nat
  BY <1>2, <1>3, NumOfType
<1> QED
  BY <1>8, <1>9, Parentheses DEF Depth, p, t

\* What follows what in a clause without signs.
LEMMA PlainTokens ==
  ASSUME NEW s, Plain(s), NEW k \in 1 .. Len(s)
  PROVE  /\ s[k] \in Tokens
         /\ Expecting(Prefix(s, k)) <=> s[k] \in Operators \union {"("}
         /\ Expecting(Prefix(s, k - 1)) => s[k] \in Operands \union {"("}
         /\ ~Expecting(Prefix(s, k - 1)) =>
              s[k] \in Operators \/ (s[k] = ")" /\ Depth(s, k - 1) > 0)
<1>1. s \in Seq(Tokens) /\ s[k] \in Tokens /\ s[k] \in NextTokens(Prefix(s, k - 1)) /\ ~Sign(s, k)
  BY DEF Plain
<1>2. /\ Prefix(s, k - 1) \in Seq(Tokens)
      /\ Prefix(s, k) = Append(Prefix(s, k - 1), s[k])
  BY <1>1, PrefixNext
<1>3. /\ Expecting(Prefix(s, k - 1)) => s[k] \in Operands \/ s[k] = "(" \/ s[k] = "-"
      /\ ~Expecting(Prefix(s, k - 1)) =>
           s[k] \in Operators \/ (s[k] = ")" /\ Unclosed(Prefix(s, k - 1)) > 0)
      /\ Expecting(Prefix(s, k)) <=> s[k] \in Operators \union {"("}
  BY <1>1, <1>2, NextToken
<1>4. ~(s[k] = "-" /\ Expecting(Prefix(s, k - 1)))
  BY <1>1 DEF Sign, Prefix
<1> QED
  BY <1>1, <1>3, <1>4 DEF Depth

-----------------------------------------------------------------------------
(* Parts of a clause *)

\* The tokens a .. b close the parentheses they open, and no others.
Closed(s, a, b) ==
  /\ a \in 1 .. Len(s) /\ b \in a .. Len(s)
  /\ Depth(s, b) = Depth(s, a - 1)
  /\ \A k \in a .. b : Depth(s, k) >= Depth(s, a - 1)

\* No operator outside their parentheses binds weaker than w.
AtLeast(s, a, b, w) == \A k \in Outer(s, a, b) : w <= precedence(s[k])

MeaningOf(s, r, a, b) == Meanings(s, r)[<<a, b>>]

LEMMA OuterIs ==
  ASSUME NEW s, Plain(s), NEW a \in 1 .. Len(s), NEW b \in a .. Len(s)
  PROVE  Outer(s, a, b) = {k \in a .. b : s[k] \in Operators /\ Depth(s, k) = Depth(s, a - 1)}
<1>1. s \in Seq(Tokens) /\ Len(s) \in Nat /\ \A k \in a .. b : k \in 1 .. Len(s) /\ k \in a .. Len(s)
  BY DEF Plain
<1>2. ASSUME NEW k \in a .. b
      PROVE  /\ ~Sign(s, k)
             /\ Unclosed(SubSeq(s, a, k)) = 0 <=> Depth(s, k) = Depth(s, a - 1)
  <2>1. ~Sign(s, k)
    BY <1>1 DEF Plain
  <2>2. Unclosed(SubSeq(s, a, k)) = Depth(s, k) - Depth(s, a - 1)
    BY <1>1, DepthInside
  <2>3. Depth(s, k) \in Nat /\ Depth(s, a - 1) \in Nat
    <3>1. k \in 0 .. Len(s) /\ a - 1 \in 0 .. Len(s)
      BY <1>1
    <3> QED
      BY <3>1, DepthSteps
  <2> QED
    BY <2>1, <2>2, <2>3
<1> QED
  BY <1>2 DEF Outer

LEMMA OperandMeans ==
  ASSUME NEW s, Plain(s), NEW a \in 1 .. Len(s), s[a] \in Operands
  PROVE  /\ Closed(s, a, a) /\ Outer(s, a, a) = {}
         /\ \A r : MeaningOf(s, r, a, a) = r[s[a]]
<1>1. /\ s \in Seq(Tokens) /\ Len(s) \in Nat /\ a \in a .. Len(s) /\ a \in 1 .. Len(s) + 1
      /\ a \in 0 .. Len(s) /\ a - 1 \in 0 .. Len(s) /\ a .. a = {a}
  BY DEF Plain
<1>2. s[a] \notin Operators /\ s[a] # "(" /\ s[a] # ")" /\ s[a] # "-"
  BY KindsOfTokens
<1>3. Outer(s, a, a) = {}
  BY <1>1, <1>2 DEF Outer
<1>4. Depth(s, a) = Depth(s, a - 1) /\ Depth(s, a) \in Nat
  <2>1. /\ Depth(s, a) = Depth(s, a - 1) + (IF s[a] = "(" THEN 1 ELSE IF s[a] = ")" THEN -1 ELSE 0)
        /\ Depth(s, a) \in Nat /\ Depth(s, a - 1) \in Nat
    BY <1>1, DepthSteps
  <2> QED
    BY <1>2, <2>1
<1>5. ASSUME NEW r
      PROVE  MeaningOf(s, r, a, a) = r[s[a]]
  <2>1. MeaningOf(s, r, a, a) = MeaningBy(s, r, Meanings(s, r), a, a)
    BY <1>1, MeaningIs DEF MeaningOf
  <2> QED
    BY <1>1, <1>2, <1>3, <2>1 DEF MeaningBy, Sign
<1> QED
  BY <1>1, <1>3, <1>4, <1>5 DEF Closed

LEMMA ParenthesesMean ==
  ASSUME NEW s, Plain(s), NEW a \in Nat, NEW b \in Nat, a > 0, b < Len(s), s[a] = "(", s[b + 1] = ")",
         Closed(s, a + 1, b)
  PROVE  /\ Closed(s, a, b + 1) /\ Outer(s, a, b + 1) = {}
         /\ \A r : MeaningOf(s, r, a, b + 1) = MeaningOf(s, r, a + 1, b)
<1> DEFINE c == b + 1
           z == a - 1
           y == a + 1
<1>1. /\ s \in Seq(Tokens) /\ Len(s) \in Nat /\ a \in 1 .. Len(s) /\ c \in a .. Len(s) /\ c \in 1 .. Len(s)
      /\ z \in 0 .. Len(s) /\ a < b + 1 /\ c - 1 = b /\ a - 1 = z /\ y - 1 = a
      /\ b \in 0 .. Len(s) /\ a \in 0 .. Len(s) /\ c \in 0 .. Len(s)
      /\ \A k : k \in a .. c <=> k = a \/ k \in y .. b \/ k = c
      /\ \A k \in a .. c : k \in 0 .. Len(s)
  BY DEF Plain, Closed
<1>2. /\ Depth(s, b) = Depth(s, a) /\ \A k \in y .. b : Depth(s, k) >= Depth(s, a)
  BY <1>1 DEF Closed
<1> HIDE DEF c, z, y
<1>3. \A k \in 0 .. Len(s) : Depth(s, k) \in Nat
  BY DepthSteps
<1>4. Depth(s, a) = Depth(s, z) + 1
  <2>1. Depth(s, a) = Depth(s, a - 1) + (IF s[a] = "(" THEN 1 ELSE IF s[a] = ")" THEN -1 ELSE 0)
    BY <1>1, DepthSteps
  <2> QED
    BY <1>1, <2>1
<1>5. Depth(s, c) = Depth(s, b) - 1
  <2>1. Depth(s, c) = Depth(s, c - 1) + (IF s[c] = "(" THEN 1 ELSE IF s[c] = ")" THEN -1 ELSE 0)
    BY <1>1, DepthSteps
  <2>2. s[c] = ")"
    BY DEF c
  <2> QED
    BY <1>1, <1>3, <2>1, <2>2
<1>6. Depth(s, c) = Depth(s, z) /\ \A k \in a .. c : k # c => Depth(s, k) > Depth(s, z)
  <2>1. Depth(s, z) \in Nat /\ Depth(s, a) \in Nat /\ Depth(s, b) \in Nat
    BY <1>1, <1>3
  <2>2. Depth(s, c) = Depth(s, z)
    BY <1>2, <1>4, <1>5, <2>1
  <2>3. ASSUME NEW k \in a .. c, k # c
        PROVE  Depth(s, k) > Depth(s, z)
    <3>1. Depth(s, k) \in Nat /\ (k = a \/ k \in y .. b)
      BY <1>1, <1>3, <2>3
    <3> QED
      BY <1>2, <1>4, <2>1, <3>1
  <2> QED
    BY <2>2, <2>3
<1>7. Closed(s, a, c)
  BY <1>1, <1>3, <1>6 DEF Closed
<1>8. Outer(s, a, c) = {}
  <2>1. Outer(s, a, c) = {k \in a .. c : s[k] \in Operators /\ Depth(s, k) = Depth(s, a - 1)}
    BY <1>1, OuterIs
  <2>2. s[c] \notin Operators
    BY KindsOfTokens DEF c
  <2>3. ASSUME NEW k \in a .. c, Depth(s, k) = Depth(s, z)
        PROVE  s[k] \notin Operators
    <3>1. Depth(s, k) \in Nat /\ Depth(s, z) \in Nat
      BY <1>1, <1>3
    <3>2. k # c => Depth(s, k) > Depth(s, z)
      BY <1>6
    <3>3. k = c
      BY <2>3, <3>1, <3>2
    <3> QED
      BY <2>2, <3>3
  <2> QED
    BY <1>1, <2>1, <2>3
<1>9. ASSUME NEW r
      PROVE  MeaningOf(s, r, a, c) = MeaningOf(s, r, y, b)
  <2>1. MeaningOf(s, r, a, c) = MeaningBy(s, r, Meanings(s, r), a, c)
    <3>1. a \in 1 .. Len(s) + 1
      BY <1>1
    <3> QED
      BY <1>1, <3>1, MeaningIs DEF MeaningOf
  <2>2. ~(a > c)
    BY <1>1
  <2>3. MeaningOf(s, r, a, c) = Meanings(s, r)[<<a + 1, c - 1>>]
    BY <1>8, <2>1, <2>2 DEF MeaningBy
  <2> QED
    BY <1>1, <2>3 DEF MeaningOf, y
<1> QED
  BY <1>7, <1>8, <1>9 DEF c, y

(***************************************************************************)
(* Two parts joined by an operator mean what it computes from them, if the *)
(* left one has no weaker operator and the right one only stronger ones.   *)
(***************************************************************************)
LEMMA JoinedPartsMean ==
  ASSUME NEW s, Plain(s), NEW a \in Nat, NEW p \in Nat, NEW b \in Nat, p > 0, s[p] \in Operators,
         Closed(s, a, p - 1), AtLeast(s, a, p - 1, precedence(s[p])),
         Closed(s, p + 1, b), AtLeast(s, p + 1, b, precedence(s[p]) + 1)
  PROVE  /\ Closed(s, a, b) /\ AtLeast(s, a, b, precedence(s[p]))
         /\ \A r : MeaningOf(s, r, a, b) =
                     Combine(s[p], MeaningOf(s, r, a, p - 1), MeaningOf(s, r, p + 1, b))
<1> DEFINE c == p - 1
           d == p + 1
           z == a - 1
           O == Outer(s, a, b)
           L == Outer(s, a, c)
           R == Outer(s, d, b)
           w == precedence(s[p])
<1>1. /\ s \in Seq(Tokens) /\ Len(s) \in Nat /\ a \in 1 .. Len(s) /\ b \in a .. Len(s)
      /\ p \in 1 .. Len(s) /\ c \in a .. Len(s) /\ d \in 1 .. Len(s) /\ b \in d .. Len(s)
      /\ a < p /\ p < b /\ p \in a .. b /\ d - 1 = p
      /\ z \in 0 .. Len(s) /\ p \in 0 .. Len(s) /\ b \in 0 .. Len(s) /\ c \in 0 .. Len(s)
      /\ \A k : k \in a .. b <=> k \in a .. c \/ k = p \/ k \in d .. b
      /\ \A k \in a .. b : k \in 0 .. Len(s)
      /\ \A k \in a .. c : k < p /\ \A l \in d .. b : l > p
  BY DEF Plain, Closed
<1>2. /\ Depth(s, c) = Depth(s, z) /\ \A k \in a .. c : Depth(s, k) >= Depth(s, z)
      /\ Depth(s, b) = Depth(s, p) /\ \A k \in d .. b : Depth(s, k) >= Depth(s, p)
  BY <1>1 DEF Closed
<1>3. \A k \in 0 .. Len(s) : Depth(s, k) \in Nat
  BY DepthSteps
<1>4. Depth(s, p) = Depth(s, c)
  <2>1. Depth(s, p) = Depth(s, p - 1) + (IF s[p] = "(" THEN 1 ELSE IF s[p] = ")" THEN -1 ELSE 0)
    BY <1>1, DepthSteps
  <2>2. s[p] # "(" /\ s[p] # ")"
    BY KindsOfTokens
  <2>3. Depth(s, c) \in Nat
    BY <1>1, <1>3
  <2> QED
    BY <2>1, <2>2, <2>3
<1>5. /\ O = {k \in a .. b : s[k] \in Operators /\ Depth(s, k) = Depth(s, z)}
      /\ L = {k \in a .. c : s[k] \in Operators /\ Depth(s, k) = Depth(s, z)}
      /\ R = {k \in d .. b : s[k] \in Operators /\ Depth(s, k) = Depth(s, p)}
  <2>1. /\ O = {k \in a .. b : s[k] \in Operators /\ Depth(s, k) = Depth(s, a - 1)}
        /\ L = {k \in a .. c : s[k] \in Operators /\ Depth(s, k) = Depth(s, a - 1)}
    BY <1>1, OuterIs
  <2> HIDE DEF d
  <2>2. R = {k \in d .. b : s[k] \in Operators /\ Depth(s, k) = Depth(s, d - 1)}
    BY <1>1, OuterIs
  <2> QED
    BY <1>1, <2>1, <2>2
<1>6. AtLeast(s, a, c, w) /\ AtLeast(s, d, b, w + 1)
  OBVIOUS
<1>7. /\ \A k \in L : w <= precedence(s[k]) /\ k < p
      /\ \A k \in R : w + 1 <= precedence(s[k]) /\ k > p
  <2>1. /\ \A k \in L : w <= precedence(s[k])
        /\ \A k \in R : w + 1 <= precedence(s[k])
    BY <1>6 DEF AtLeast
  <2>2. (\A k \in L : k < p) /\ (\A k \in R : k > p)
    BY <1>1, <1>5
  <2> QED
    BY <2>1, <2>2
<1> HIDE DEF c, d, z, O, L, R
<1>8. O = L \union {p} \union R /\ p \in O
  BY <1>1, <1>2, <1>3, <1>4, <1>5
<1>9. w \in Nat /\ \A k \in O : precedence(s[k]) \in Nat
  <2>1. \A k \in O : s[k] \in Operators
    BY <1>5
  <2> QED
    BY <2>1, LevelIs
<1> HIDE DEF w
<1>10. \A k \in O : /\ w <= precedence(s[k])
                    /\ w = precedence(s[k]) => p >= k
  <2>1. precedence(s[p]) = w
    BY DEF w
  <2>2. \A k \in L : w <= precedence(s[k]) /\ (w = precedence(s[k]) => p >= k)
    BY <1>1, <1>5, <1>7
  <2>3. ASSUME NEW k \in R
        PROVE  w <= precedence(s[k]) /\ w # precedence(s[k])
    <3>1. precedence(s[k]) \in Nat /\ w + 1 <= precedence(s[k])
      BY <1>7, <1>8, <1>9
    <3> QED
      BY <1>9, <3>1
  <2> QED
    BY <1>1, <1>8, <1>9, <2>1, <2>2, <2>3
<1>11. SplitAt(s, a, b) = p
  <2>1. PICK k : k = SplitAt(s, a, b)
    OBVIOUS
  <2>2. a \in Nat /\ b \in Nat /\ Outer(s, a, b) # {} /\ s \in Seq(Tokens)
    BY <1>1, <1>8 DEF O
  <2>3. /\ k \in Outer(s, a, b)
        /\ \A m \in Outer(s, a, b) : /\ precedence(s[k]) <= precedence(s[m])
                                     /\ precedence(s[k]) = precedence(s[m]) => k >= m
    BY <2>1, <2>2, SplitIsLast
  <2>4. /\ k \in O /\ p \in O /\ precedence(s[k]) <= precedence(s[p])
        /\ precedence(s[k]) = precedence(s[p]) => k >= p
    BY <1>8, <2>3 DEF O
  <2>5. k \in Nat
    BY <1>1, <1>5, <2>4
  <2>6. precedence(s[k]) = precedence(s[p])
    BY <1>9, <1>10, <2>4 DEF w
  <2>7. k >= p /\ p >= k
    BY <1>10, <2>4, <2>6 DEF w
  <2> QED
    BY <2>1, <2>5, <2>7
<1>12. Closed(s, a, b)
  <2>1. Depth(s, z) \in Nat /\ Depth(s, p) = Depth(s, z) /\ Depth(s, b) = Depth(s, z)
    BY <1>1, <1>2, <1>3, <1>4
  <2>2. ASSUME NEW k \in a .. b
        PROVE  Depth(s, k) >= Depth(s, z)
    <3>1. k \in a .. c \/ k = p \/ k \in d .. b
      BY <1>1
    <3> QED
      BY <1>2, <2>1, <3>1
  <2> QED
    BY <1>1, <2>1, <2>2 DEF Closed, z
<1>13. AtLeast(s, a, b, w)
  BY <1>10 DEF AtLeast, O
<1>14. ASSUME NEW r
       PROVE  MeaningOf(s, r, a, b) = Combine(s[p], MeaningOf(s, r, a, c), MeaningOf(s, r, d, b))
  <2>1. MeaningOf(s, r, a, b) = MeaningBy(s, r, Meanings(s, r), a, b)
    <3>1. a \in 1 .. Len(s) + 1
      BY <1>1
    <3> QED
      BY <1>1, <3>1, MeaningIs DEF MeaningOf
  <2>2. ~(a > b) /\ Outer(s, a, b) # {}
    BY <1>1, <1>8 DEF O
  <2> QED
    BY <1>11, <2>1, <2>2 DEF MeaningBy, MeaningOf, c, d
<1> QED
  BY <1>12, <1>13, <1>14 DEF w, c, d

-----------------------------------------------------------------------------
(* What waits on the stacks *)

Meant == [kind : {"num", "str", "bool", "none"}, v : Int]

\* The parts of the clause computed so far have a meaning or none.
LEMMA CombineType ==
  ASSUME NEW op \in Operators, NEW L \in Meant, NEW R \in Meant
  PROVE  Combine(op, L, R) \in Meant
<1>1. \A b : Bool(b) \in Meant
  BY DEF Bool, Meant
<1>2. \A n \in Int : Num(n) \in Meant
  BY DEF Num, Meant
<1>3. NoMeaning \in Meant
  BY DEF NoMeaning, Meant
<1>4. L.v \in Int /\ R.v \in Int
  BY DEF Meant
<1>5. op \notin Logical \union Comparing => op \in {"+", "-", "*", "%"}
  BY WhereAssumption DEF Logical, Comparing
<1>6. op \notin Logical \union Comparing => Compute(op, L.v, R.v) \in Int
  <2> DEFINE a == L.v
             b == R.v
             abs(k) == IF k < 0 THEN -k ELSE k
  <2>1. a \in Int /\ b \in Int
    BY <1>4
  <2> HIDE DEF a, b
  <2>2. Remainder(a, b) \in Int
    <3>1. b # 0 => abs(a) \in Nat /\ abs(b) \in Nat /\ abs(b) > 0
      BY <2>1
    <3>2. b # 0 => abs(a) % abs(b) \in Int
      BY <3>1
    <3> QED
      BY <3>2 DEF Remainder
  <2>3. op \in {"+", "-", "*", "%"} => Compute(op, a, b) \in Int
    BY <2>1, <2>2 DEF Compute
  <2> QED
    BY <1>5, <2>3 DEF a, b
<1>7. Combine(op, L, R) \in {Bool(TRUE), Bool(FALSE), NoMeaning} \union {Num(n) : n \in Int}
  <2>1. \A b : Bool(b) \in {Bool(TRUE), Bool(FALSE)}
    BY DEF Bool
  <2> QED
    BY <1>6, <2>1 DEF Combine
<1> QED
  BY <1>1, <1>2, <1>3, <1>7

LEMMA FewerBefore ==
  ASSUME NEW S, NEW X, NEW s \in Seq(X), NEW k \in 0 .. Len(s)
  PROVE  NumOf(S, Prefix(s, k)) <= NumOf(S, s)
<1>1. Prefix(s, k) \in Seq(X) /\ Len(Prefix(s, k)) = k /\ \A j \in 1 .. k : Prefix(s, k)[j] = s[j]
  BY PrefixFacts
<1>2. Len(s) \in Nat /\ \A j \in 1 .. k : j \in 1 .. Len(s)
  OBVIOUS
<1>3. Places(S, Prefix(s, k)) \subseteq Places(S, s)
  BY <1>1, <1>2 DEF Places
<1> QED
  BY <1>3, FS_Subset, NumOfType DEF NumOf

(***************************************************************************)
(* The element j of the operator stack os stands at the place q[j] of the  *)
(* clause.  If it is an operator, all between it and the element below is  *)
(* its left operand, whose meaning is in the stack of values at the place  *)
(* that counts the operators; and it binds stronger than the one below.    *)
(***************************************************************************)
PendingAt(s, r, os, q, vs, j) ==
  /\ q[j] \in 1 .. Len(s) /\ s[q[j]] = os[j]
  /\ os[j] = "(" => q[j] = q[j - 1] + 1
  /\ os[j] \in Operators =>
       /\ Closed(s, q[j - 1] + 1, q[j] - 1)
       /\ AtLeast(s, q[j - 1] + 1, q[j] - 1, precedence(os[j]))
       /\ j > 1 /\ os[j - 1] \in Operators => precedence(os[j - 1]) < precedence(os[j])
       /\ NumOf(Operators, Prefix(os, j)) \in 1 .. Len(vs)
       /\ vs[NumOf(Operators, Prefix(os, j))] = MeaningOf(s, r, q[j - 1] + 1, q[j] - 1)

Pending(s, r, os, q, vs) ==
  /\ os \in Seq(OnStack) /\ vs \in Seq(Meant)
  /\ q \in [Nat -> Nat] /\ q[0] = 0
  /\ \A j \in 1 .. Len(os) : PendingAt(s, r, os, q, vs, j)

LEMMA PendingPush ==
  ASSUME NEW s, NEW r, NEW os, NEW q, NEW vs, Pending(s, r, os, q, vs),
         NEW x \in OnStack, NEW p \in Nat,
         PendingAt(s, r, Append(os, x), [q EXCEPT ![Len(os) + 1] = p], vs, Len(os) + 1)
  PROVE  Pending(s, r, Append(os, x), [q EXCEPT ![Len(os) + 1] = p], vs)
<1> DEFINE os2 == Append(os, x)
           q2 == [q EXCEPT ![Len(os) + 1] = p]
           n == Len(os)
<1>1. /\ os \in Seq(OnStack) /\ n \in Nat /\ os2 \in Seq(OnStack) /\ Len(os2) = n + 1
      /\ \A j \in 1 .. n : os2[j] = os[j]
      /\ q \in [Nat -> Nat] /\ q[0] = 0 /\ vs \in Seq(Meant)
  <2>1. os \in Seq(OnStack) /\ q \in [Nat -> Nat] /\ q[0] = 0 /\ vs \in Seq(Meant)
    BY DEF Pending
  <2>2. n \in Nat /\ os2 \in Seq(OnStack) /\ Len(os2) = n + 1 /\ \A j \in 1 .. n : os2[j] = os[j]
    BY <2>1
  <2> QED
    BY <2>1, <2>2
<1>2. q2 \in [Nat -> Nat] /\ \A j \in 0 .. n : q2[j] = q[j]
  <2>1. n \in Nat /\ p \in Nat /\ q \in [Nat -> Nat]
    BY <1>1
  <2> HIDE DEF n
  <2>2. [q EXCEPT ![n + 1] = p] \in [Nat -> Nat] /\ \A j \in 0 .. n : [q EXCEPT ![n + 1] = p][j] = q[j]
    BY <2>1
  <2> QED
    BY <2>2 DEF n
<1>3. \A j \in 1 .. n : Prefix(os2, j) = Prefix(os, j)
  <2>1. \A j \in 1 .. n : j \in 0 .. Len(os)
    BY <1>1
  <2> QED
    BY <1>1, <2>1, PrefixFacts
<1> HIDE DEF os2, q2, n
<1>4. ASSUME NEW j \in 1 .. n
      PROVE  PendingAt(s, r, os2, q2, vs, j)
  <2>1. PendingAt(s, r, os, q, vs, j)
    BY <1>4 DEF Pending, n
  <2>2. /\ j - 1 \in 0 .. n /\ j \in 0 .. n /\ (j > 1 => j - 1 \in 1 .. n)
    BY <1>1, <1>4
  <2>3. /\ q2[j] = q[j] /\ q2[j - 1] = q[j - 1] /\ os2[j] = os[j]
        /\ j > 1 => os2[j - 1] = os[j - 1]
    BY <1>1, <1>2, <2>2
  <2>4. Prefix(os2, j) = Prefix(os, j)
    BY <1>3
  <2> QED
    BY <2>1, <2>3, <2>4 DEF PendingAt
<1>5. PendingAt(s, r, os2, q2, vs, n + 1)
  BY DEF os2, q2, n
<1>6. ASSUME NEW j \in 1 .. Len(os2)
      PROVE  PendingAt(s, r, os2, q2, vs, j)
  <2>1. j \in 1 .. n \/ j = n + 1
    BY <1>1
  <2> QED
    BY <1>4, <1>5, <2>1
<1>7. q2[0] = 0
  BY <1>1, <1>2
<1>8. Pending(s, r, os2, q2, vs)
  BY <1>1, <1>2, <1>6, <1>7 DEF Pending
<1> QED
  BY <1>8 DEF os2, q2

LEMMA PendingValues ==
  ASSUME NEW s, NEW r, NEW os, NEW q, NEW vs, Pending(s, r, os, q, vs),
         NEW vs2 \in Seq(Meant), NumOf(Operators, os) <= Len(vs2),
         \A k \in 1 .. NumOf(Operators, os) : vs2[k] = vs[k]
  PROVE  Pending(s, r, os, q, vs2)
<1>1. os \in Seq(OnStack) /\ vs \in Seq(Meant)
  BY DEF Pending
<1>2. ASSUME NEW j \in 1 .. Len(os)
      PROVE  PendingAt(s, r, os, q, vs2, j)
  <2> DEFINE h == NumOf(Operators, Prefix(os, j))
  <2>1. j \in 0 .. Len(os)
    OBVIOUS
  <2>2. h <= NumOf(Operators, os) /\ NumOf(Operators, os) \in Nat /\ Len(vs2) \in Nat
    <3>1. h <= NumOf(Operators, os)
      BY <1>1, <2>1, FewerBefore
    <3>2. NumOf(Operators, os) \in Nat
      BY <1>1, NumOfType
    <3>3. Len(vs2) \in Nat
      OBVIOUS
    <3> QED
      BY <3>1, <3>2, <3>3
  <2>3. PendingAt(s, r, os, q, vs, j)
    BY <1>2 DEF Pending
  <2>4. h \in Nat
    <3>1. Prefix(os, j) \in Seq(OnStack)
      BY <1>1, <2>1, PrefixFacts
    <3> QED
      BY <3>1, NumOfType
  <2>5. ASSUME h \in 1 .. Len(vs)
        PROVE  h \in 1 .. Len(vs2) /\ vs2[h] = vs[h]
    <3> HIDE DEF h
    <3>1. h \in 1 .. NumOf(Operators, os) /\ h \in 1 .. Len(vs2)
      BY <2>2, <2>4, <2>5
    <3> QED
      BY <3>1
  <2> QED
    BY <2>3, <2>5 DEF PendingAt
<1> QED
  BY <1>1, <1>2 DEF Pending

LEMMA PendingPop ==
  ASSUME NEW s, NEW r, NEW os \in Seq(OnStack), NEW x \in OnStack, NEW q, NEW vs,
         Pending(s, r, Append(os, x), q, vs)
  PROVE  Pending(s, r, os, q, vs)
<1> DEFINE os2 == Append(os, x)
           n == Len(os)
<1>1. n \in Nat /\ os2 \in Seq(OnStack) /\ Len(os2) = n + 1 /\ \A j \in 1 .. n : os2[j] = os[j]
  OBVIOUS
<1>2. \A j \in 1 .. n : Prefix(os2, j) = Prefix(os, j)
  <2>1. \A j \in 1 .. n : j \in 0 .. Len(os)
    BY <1>1
  <2> QED
    BY <2>1, PrefixFacts
<1>3. Pending(s, r, os2, q, vs)
  OBVIOUS
<1> HIDE DEF os2
<1>4. ASSUME NEW j \in 1 .. n
      PROVE  PendingAt(s, r, os, q, vs, j)
  <2>1. j \in 1 .. Len(os2) /\ (j > 1 => j - 1 \in 1 .. n)
    BY <1>1
  <2>2. PendingAt(s, r, os2, q, vs, j)
    BY <1>3, <2>1 DEF Pending
  <2>3. os2[j] = os[j] /\ Prefix(os2, j) = Prefix(os, j) /\ (j > 1 => os2[j - 1] = os[j - 1])
    BY <1>1, <1>2, <2>1
  <2> QED
    BY <2>2, <2>3 DEF PendingAt
<1> QED
  BY <1>3, <1>4 DEF Pending

\* The first e tokens have been passed, and an operand has to come next.
Waiting(s, r, os, q, vs, e) ==
  /\ Pending(s, r, os, q, vs)
  /\ e \in 0 .. Len(s) /\ q[Len(os)] = e
  /\ Len(vs) = NumOf(Operators, os)
  /\ Depth(s, e) = NumOf({"("}, os)

\* The first e tokens have been passed, and the last of them are an operand,
\* which binds stronger than the operator before it.
Complete(s, r, os, q, vs, e) ==
  /\ Pending(s, r, os, q, vs)
  /\ e \in 1 .. Len(s) /\ Closed(s, q[Len(os)] + 1, e)
  /\ \A w \in Operators : os # << >> /\ os[Len(os)] = w =>
       AtLeast(s, q[Len(os)] + 1, e, precedence(w) + 1)
  /\ Len(vs) = NumOf(Operators, os) + 1
  /\ vs[Len(vs)] = MeaningOf(s, r, q[Len(os)] + 1, e)
  /\ Depth(s, e) = NumOf({"("}, os)

LEMMA StackTypes ==
  ASSUME NEW s, NEW r, NEW os, NEW q, NEW vs, Pending(s, r, os, q, vs)
  PROVE  /\ os \in Seq(OnStack) /\ Len(os) \in Nat /\ vs \in Seq(Meant) /\ Len(vs) \in Nat
         /\ q \in [Nat -> Nat] /\ q[0] = 0 /\ q[Len(os)] \in Nat
         /\ NumOf(Operators, os) \in Nat /\ NumOf({"("}, os) \in Nat
<1>1. os \in Seq(OnStack) /\ vs \in Seq(Meant) /\ q \in [Nat -> Nat] /\ q[0] = 0
  BY DEF Pending
<1>2. NumOf(Operators, os) \in Nat /\ NumOf({"("}, os) \in Nat
  BY <1>1, NumOfType
<1>3. Len(os) \in Nat /\ Len(vs) \in Nat
  BY <1>1
<1>4. q[Len(os)] \in Nat
  BY <1>1, <1>3
<1> QED
  BY <1>1, <1>2, <1>3, <1>4

\* An operand.
LEMMA PassOperand ==
  ASSUME NEW s, Plain(s), NEW r \in Rows, NEW os, NEW q, NEW vs, NEW e, Waiting(s, r, os, q, vs, e),
         e < Len(s), s[e + 1] \in Operands
  PROVE  /\ Complete(s, r, os, q, Append(vs, r[s[e + 1]]), e + 1)
         /\ Outer(s, q[Len(os)] + 1, e + 1) = {}
<1> DEFINE p == e + 1
           x == r[s[e + 1]]
           vs2 == Append(vs, x)
           n == NumOf(Operators, os)
<1>1. /\ os \in Seq(OnStack) /\ vs \in Seq(Meant) /\ n \in Nat
      /\ Pending(s, r, os, q, vs) /\ q[Len(os)] = e /\ Len(vs) = n
      /\ Depth(s, e) = NumOf({"("}, os) /\ e \in Nat
  BY StackTypes DEF Waiting
<1>2. p \in 1 .. Len(s) /\ p - 1 = e /\ s[p] \in Operands
  BY <1>1 DEF Plain
<1>3. x \in Meant
  BY <1>2, WhereAssumption DEF Meant
<1> HIDE DEF p, x
<1>4. vs2 \in Seq(Meant) /\ Len(vs2) = n + 1 /\ vs2[n + 1] = x /\ \A k \in 1 .. n : vs2[k] = vs[k]
  BY <1>1, <1>3
<1>5. /\ Closed(s, p, p) /\ Outer(s, p, p) = {} /\ MeaningOf(s, r, p, p) = x
  BY <1>2, OperandMeans DEF x, p
<1> HIDE DEF vs2
<1>6. Pending(s, r, os, q, vs2)
  BY <1>1, <1>4, PendingValues
<1>7. Depth(s, p) = NumOf({"("}, os)
  BY <1>1, <1>2, <1>5 DEF Closed
<1>8. q[Len(os)] + 1 = p
  BY <1>1 DEF p
<1>9. Complete(s, r, os, q, vs2, p)
  BY <1>2, <1>4, <1>5, <1>6, <1>7, <1>8 DEF Complete, AtLeast
<1> QED
  BY <1>5, <1>8, <1>9 DEF p, vs2, x

\* An opening parenthesis.
LEMMA PassOpen ==
  ASSUME NEW s, Plain(s), NEW r, NEW os, NEW q, NEW vs, NEW e, Waiting(s, r, os, q, vs, e),
         e < Len(s), s[e + 1] = "("
  PROVE  Waiting(s, r, Append(os, "("), [q EXCEPT ![Len(os) + 1] = e + 1], vs, e + 1)
<1> DEFINE p == e + 1
           n == Len(os)
           os2 == Append(os, "(")
           q2 == [q EXCEPT ![n + 1] = p]
<1>1. /\ os \in Seq(OnStack) /\ n \in Nat /\ vs \in Seq(Meant) /\ q \in [Nat -> Nat]
      /\ Pending(s, r, os, q, vs) /\ q[n] = e /\ Len(vs) = NumOf(Operators, os)
      /\ Depth(s, e) = NumOf({"("}, os) /\ e \in Nat
  BY StackTypes DEF Waiting
<1>2. p \in 1 .. Len(s) /\ p - 1 = e /\ s[p] = "(" /\ p \in Nat /\ p \in 0 .. Len(s)
  BY <1>1 DEF Plain
<1>3. "(" \in OnStack /\ "(" \notin Operators
  BY KindsOfTokens DEF OnStack
<1>4. /\ Len(os2) = n + 1 /\ os2[n + 1] = "("
      /\ NumOf(Operators, os2) = NumOf(Operators, os) + 0
      /\ NumOf({"("}, os2) = NumOf({"("}, os) + 1
  <2>1. /\ NumOf(Operators, os2) = NumOf(Operators, os) + 0
        /\ NumOf({"("}, os2) = NumOf({"("}, os) + 1
    BY <1>1, <1>3, NumOfAppend
  <2> QED
    BY <1>1, <2>1
<1>5. q2[n + 1] = p /\ q2[n] = e /\ (n + 1) - 1 = n
  <2> HIDE DEF n, p
  <2> QED
    BY <1>1
<1> HIDE DEF p, n, os2, q2
<1>6. PendingAt(s, r, os2, q2, vs, n + 1)
  BY <1>2, <1>3, <1>4, <1>5 DEF PendingAt, p
<1>7. Pending(s, r, os2, q2, vs)
  BY <1>1, <1>2, <1>3, <1>6, PendingPush DEF os2, q2, n
<1>8. Depth(s, p) = Depth(s, e) + 1
  <2>1. Depth(s, p) = Depth(s, p - 1) + (IF s[p] = "(" THEN 1 ELSE IF s[p] = ")" THEN -1 ELSE 0)
    BY <1>2, DepthSteps
  <2> QED
    BY <1>2, <2>1
<1>9. NumOf(Operators, os) \in Nat
  BY <1>1, NumOfType
<1>10. Waiting(s, r, os2, q2, vs, p)
  BY <1>1, <1>2, <1>4, <1>5, <1>7, <1>8, <1>9 DEF Waiting
<1> QED
  BY <1>10 DEF os2, q2, n, p

\* An operator that nothing on the stack has to be computed before.
LEMMA PassOperator ==
  ASSUME NEW s, Plain(s), NEW r, NEW os, NEW q, NEW vs, NEW e, Complete(s, r, os, q, vs, e),
         e < Len(s), NEW x \in Operators, s[e + 1] = x,
         AtLeast(s, q[Len(os)] + 1, e, precedence(x)),
         os # << >> /\ os[Len(os)] \in Operators => precedence(os[Len(os)]) < precedence(x)
  PROVE  Waiting(s, r, Append(os, x), [q EXCEPT ![Len(os) + 1] = e + 1], vs, e + 1)
<1> DEFINE p == e + 1
           n == Len(os)
           os2 == Append(os, x)
           q2 == [q EXCEPT ![n + 1] = p]
           h == NumOf(Operators, os)
<1>1. /\ os \in Seq(OnStack) /\ n \in Nat /\ vs \in Seq(Meant) /\ q \in [Nat -> Nat]
      /\ Pending(s, r, os, q, vs) /\ Len(vs) = h + 1 /\ h \in Nat
      /\ vs[Len(vs)] = MeaningOf(s, r, q[n] + 1, e) /\ Closed(s, q[n] + 1, e)
      /\ Depth(s, e) = NumOf({"("}, os) /\ NumOf({"("}, os) \in Nat
      /\ e \in 1 .. Len(s) /\ e \in Nat
  <2>1. /\ Pending(s, r, os, q, vs) /\ Len(vs) = h + 1
        /\ vs[Len(vs)] = MeaningOf(s, r, q[n] + 1, e) /\ Closed(s, q[n] + 1, e)
        /\ Depth(s, e) = NumOf({"("}, os) /\ e \in 1 .. Len(s)
    BY DEF Complete
  <2>2. /\ os \in Seq(OnStack) /\ n \in Nat /\ vs \in Seq(Meant) /\ q \in [Nat -> Nat]
        /\ h \in Nat /\ NumOf({"("}, os) \in Nat
    BY <2>1, StackTypes
  <2>3. e \in Nat
    BY <2>1 DEF Plain
  <2> HIDE DEF n, h
  <2> QED
    BY <2>1, <2>2, <2>3
<1>2. p \in 1 .. Len(s) /\ p - 1 = e /\ s[p] = x /\ p \in Nat /\ p \in 0 .. Len(s)
  BY <1>1 DEF Plain
<1>3. x \in OnStack /\ x # "(" /\ x # ")"
  BY KindsOfTokens DEF OnStack
<1>4. /\ os2 \in Seq(OnStack) /\ Len(os2) = n + 1 /\ os2[n + 1] = x
      /\ \A j \in 1 .. n : os2[j] = os[j]
      /\ NumOf(Operators, os2) = h + 1
      /\ NumOf({"("}, os2) = NumOf({"("}, os) + 0
  <2>1. /\ NumOf(Operators, os2) = h + 1
        /\ NumOf({"("}, os2) = NumOf({"("}, os) + 0
    BY <1>1, <1>3, NumOfAppend
  <2> QED
    BY <1>1, <1>3, <2>1
<1>5. q2[n + 1] = p /\ q2[n] = q[n] /\ (n + 1) - 1 = n /\ q[n] \in Nat
  <2> HIDE DEF n, p
  <2> QED
    BY <1>1
<1>6. n + 1 > 1 /\ os2[n] \in Operators => precedence(os2[n]) < precedence(x)
  <2>1. CASE n = 0
    BY <2>1
  <2>2. CASE n > 0
    <3>1. os # << >> /\ os2[n] = os[n]
      BY <1>1, <1>4, <2>2
    <3> QED
      BY <3>1
  <2> QED
    BY <1>1, <2>1, <2>2
<1> HIDE DEF p, n, os2, q2, h
<1>7. Prefix(os2, n + 1) = os2
  <2>1. Len(os2) \in 0 .. Len(os2) /\ Len(os2) = n + 1
    BY <1>1, <1>4
  <2> QED
    BY <1>4, <2>1, PrefixFacts
<1>8. PendingAt(s, r, os2, q2, vs, n + 1)
  <2>1. AtLeast(s, q[n] + 1, e, precedence(x))
    BY DEF n
  <2>2. h + 1 \in 1 .. Len(vs)
    BY <1>1
  <2> QED
    BY <1>1, <1>2, <1>3, <1>4, <1>5, <1>6, <1>7, <2>1, <2>2 DEF PendingAt
<1>9. Pending(s, r, os2, q2, vs)
  BY <1>1, <1>2, <1>3, <1>8, PendingPush DEF os2, q2, n
<1>10. Depth(s, p) = Depth(s, e)
  <2>1. Depth(s, p) = Depth(s, p - 1) + (IF s[p] = "(" THEN 1 ELSE IF s[p] = ")" THEN -1 ELSE 0)
    BY <1>2, DepthSteps
  <2> QED
    BY <1>1, <1>2, <1>3, <2>1
<1>11. Waiting(s, r, os2, q2, vs, p)
  BY <1>1, <1>2, <1>4, <1>5, <1>9, <1>10 DEF Waiting
<1> QED
  BY <1>11 DEF os2, q2, n, p

\* A closing parenthesis.
LEMMA PassClose ==
  ASSUME NEW s, Plain(s), NEW r, NEW os \in Seq(OnStack), NEW q, NEW vs, NEW e,
         Complete(s, r, Append(os, "("), q, vs, e), e < Len(s), s[e + 1] = ")"
  PROVE  /\ Complete(s, r, os, q, vs, e + 1)
         /\ Outer(s, q[Len(os)] + 1, e + 1) = {}
<1> DEFINE c == e + 1
           n == Len(os)
           os2 == Append(os, "(")
           a == q[n] + 1
           h == NumOf(Operators, os)
           g == NumOf({"("}, os)
<1>1. "(" \in OnStack /\ "(" \notin Operators
  BY KindsOfTokens DEF OnStack
<1>2. /\ n \in Nat /\ os2 \in Seq(OnStack) /\ Len(os2) = n + 1 /\ os2[n + 1] = "("
      /\ n + 1 \in 1 .. Len(os2) /\ (n + 1) - 1 = n
      /\ NumOf(Operators, os2) = h + 0 /\ NumOf({"("}, os2) = g + 1
  <2>1. NumOf(Operators, os2) = h + 0 /\ NumOf({"("}, os2) = g + 1
    BY <1>1, NumOfAppend
  <2>2. n \in Nat /\ os2 \in Seq(OnStack) /\ Len(os2) = n + 1 /\ os2[n + 1] = "("
    BY <1>1
  <2> QED
    BY <2>1, <2>2
<1>3. /\ h \in Nat /\ g \in Nat
  BY NumOfType
<1>4. Pending(s, r, os, q, vs) /\ q \in [Nat -> Nat] /\ q[n] \in Nat /\ Pending(s, r, os2, q, vs)
  <2>1. Pending(s, r, os2, q, vs)
    BY DEF Complete
  <2>2. Pending(s, r, os, q, vs)
    BY <1>1, <2>1, PendingPop
  <2> QED
    BY <2>1, <2>2, StackTypes
<1> HIDE DEF os2, n, h, g
<1>5. q[n + 1] = a /\ s[a] = "("
  <2>1. PendingAt(s, r, os2, q, vs, n + 1)
    BY <1>2, <1>4 DEF Pending
  <2> QED
    BY <1>2, <2>1 DEF PendingAt
<1>6. /\ e \in 1 .. Len(s) /\ Closed(s, a + 1, e) /\ Len(vs) = h + 1
      /\ vs[Len(vs)] = MeaningOf(s, r, a + 1, e)
      /\ Depth(s, e) = g + 1
  <2>1. Complete(s, r, os2, q, vs, e)
    BY DEF os2
  <2>2. /\ e \in 1 .. Len(s) /\ Closed(s, q[n + 1] + 1, e) /\ Len(vs) = NumOf(Operators, os2) + 1
        /\ vs[Len(vs)] = MeaningOf(s, r, q[n + 1] + 1, e)
        /\ Depth(s, e) = NumOf({"("}, os2)
    BY <1>2, <2>1 DEF Complete
  <2> QED
    BY <1>2, <1>3, <1>5, <2>2
<1>7. a \in Nat /\ a > 0 /\ e \in Nat /\ Len(s) \in Nat
  <2>1. Len(s) \in Nat
    BY DEF Plain
  <2>2. a \in Nat /\ a > 0
    <3>1. q[n] \in Nat
      BY <1>4
    <3> QED
      BY <3>1
  <2>3. e \in 1 .. Len(s)
    BY <1>6
  <2> QED
    BY <2>1, <2>2, <2>3
<1>8. c \in 1 .. Len(s) /\ c - 1 = e /\ s[c] = ")"
  BY <1>6, <1>7
<1> HIDE DEF a
<1>9. /\ Closed(s, a, c) /\ Outer(s, a, c) = {}
      /\ MeaningOf(s, r, a, c) = MeaningOf(s, r, a + 1, e)
  BY <1>5, <1>6, <1>7, ParenthesesMean
<1> HIDE DEF c
<1>10. Depth(s, c) = g
  <2>1. Depth(s, c) = Depth(s, c - 1) + (IF s[c] = "(" THEN 1 ELSE IF s[c] = ")" THEN -1 ELSE 0)
    BY <1>8, DepthSteps
  <2> QED
    BY <1>3, <1>6, <1>8, <2>1
<1>11. Complete(s, r, os, q, vs, c)
  BY <1>4, <1>6, <1>8, <1>9, <1>10 DEF Complete, AtLeast, a, n, h, g
<1> QED
  BY <1>9, <1>11 DEF a, c, n

\* What evalWhere does for an operator, with meanings for values.
Combined(vs, y) ==
  Append(SubSeq(vs, 1, Len(vs) - 2), Combine(y, vs[Len(vs) - 1], vs[Len(vs)]))

LEMMA CombinedShape ==
  ASSUME NEW vs \in Seq(Meant), Len(vs) >= 2, NEW y \in Operators
  PROVE  /\ Combined(vs, y) \in Seq(Meant) /\ Len(Combined(vs, y)) = Len(vs) - 1
         /\ \A k \in 1 .. Len(vs) - 2 : Combined(vs, y)[k] = vs[k]
         /\ Combined(vs, y)[Len(vs) - 1] = Combine(y, vs[Len(vs) - 1], vs[Len(vs)])
<1> DEFINE n == Len(vs)
           m == n - 2
           below == SubSeq(vs, 1, m)
           w == Combine(y, vs[n - 1], vs[n])
<1>1. n \in Nat /\ m \in Nat /\ m + 1 = n - 1 /\ \A k \in 1 .. m : vs[k] \in Meant
  OBVIOUS
<1>2. w \in Meant
  <2>1. vs[n - 1] \in Meant /\ vs[n] \in Meant
    OBVIOUS
  <2> QED
    BY <2>1, CombineType
<1> HIDE DEF m
<1>3. below \in Seq(Meant) /\ Len(below) = m /\ \A k \in 1 .. m : below[k] = vs[k]
  <2>1. 1 \in Int /\ m \in Int
    BY <1>1
  <2>2. /\ below \in Seq(Meant)
        /\ Len(below) = (IF 1 <= m THEN m - 1 + 1 ELSE 0)
        /\ \A k \in 1 .. m - 1 + 1 : below[k] = vs[1 + k - 1]
    BY <1>1, <2>1, SubSeqProperties
  <2>3. m - 1 + 1 = m /\ \A k \in 1 .. m : 1 + k - 1 = k
    BY <1>1
  <2> QED
    BY <1>1, <2>2, <2>3
<1> HIDE DEF below, w
<1>4. /\ Append(below, w) \in Seq(Meant) /\ Len(Append(below, w)) = m + 1
      /\ \A k \in 1 .. m : Append(below, w)[k] = below[k]
      /\ Append(below, w)[m + 1] = w
  BY <1>1, <1>2, <1>3
<1>5. Combined(vs, y) = Append(below, w)
  BY DEF Combined, below, w, m
<1> HIDE DEF n
<1>6. /\ Combined(vs, y) \in Seq(Meant) /\ Len(Combined(vs, y)) = n - 1
      /\ \A k \in 1 .. m : Combined(vs, y)[k] = vs[k]
      /\ Combined(vs, y)[n - 1] = w
  BY <1>1, <1>3, <1>4, <1>5
<1> QED
  BY <1>6 DEF n, m, w

(***************************************************************************)
(* Computing the operator on top of the stack joins its operands.          *)
(***************************************************************************)
LEMMA PopOne ==
  ASSUME NEW s, Plain(s), NEW r, NEW os \in Seq(OnStack), NEW y \in Operators, NEW q, NEW vs, NEW e,
         Complete(s, r, Append(os, y), q, vs, e)
  PROVE  /\ Len(vs) >= 2
         /\ Complete(s, r, os, q, Combined(vs, y), e)
         /\ AtLeast(s, q[Len(os)] + 1, e, precedence(y))
<1> DEFINE n == Len(os)
           os2 == Append(os, y)
           a == q[n] + 1
           p == q[n + 1]
           h == NumOf(Operators, os)
           vs2 == Combined(vs, y)
           w == precedence(y)
<1>1. y \in OnStack /\ y # "("
  BY KindsOfTokens DEF OnStack
<1>2. /\ n \in Nat /\ os2 \in Seq(OnStack) /\ Len(os2) = n + 1 /\ os2[n + 1] = y
      /\ n + 1 \in 1 .. Len(os2) /\ (n + 1) - 1 = n /\ \A j \in 1 .. n : os2[j] = os[j]
      /\ NumOf(Operators, os2) = h + 1 /\ NumOf({"("}, os2) = NumOf({"("}, os) + 0
  <2>1. NumOf(Operators, os2) = h + 1 /\ NumOf({"("}, os2) = NumOf({"("}, os) + 0
    BY <1>1, NumOfAppend
  <2>2. n \in Nat /\ os2 \in Seq(OnStack) /\ Len(os2) = n + 1 /\ os2[n + 1] = y /\ \A j \in 1 .. n : os2[j] = os[j]
    BY <1>1
  <2> QED
    BY <2>1, <2>2
<1>3. h \in Nat /\ NumOf({"("}, os) \in Nat
  BY NumOfType
<1>4. /\ Pending(s, r, os, q, vs) /\ q \in [Nat -> Nat] /\ q[n] \in Nat /\ p \in Nat
      /\ Pending(s, r, os2, q, vs) /\ vs \in Seq(Meant)
  <2>1. Pending(s, r, os2, q, vs)
    BY DEF Complete
  <2>2. Pending(s, r, os, q, vs)
    BY <1>1, <2>1, PendingPop
  <2>3. q \in [Nat -> Nat] /\ q[n] \in Nat /\ vs \in Seq(Meant)
    BY <2>2, StackTypes
  <2>4. n + 1 \in Nat
    BY <1>2
  <2> HIDE DEF n
  <2> QED
    BY <2>1, <2>2, <2>3, <2>4
<1> HIDE DEF os2, h, n
<1>5. Prefix(os2, n + 1) = os2
  <2>1. Len(os2) \in 0 .. Len(os2) /\ Len(os2) = n + 1
    BY <1>2
  <2> QED
    BY <1>2, <2>1, PrefixFacts
<1>6. /\ p \in 1 .. Len(s) /\ s[p] = y
      /\ Closed(s, a, p - 1) /\ AtLeast(s, a, p - 1, w)
      /\ n + 1 > 1 /\ os2[n] \in Operators => precedence(os2[n]) < w
      /\ vs[h + 1] = MeaningOf(s, r, a, p - 1)
  <2>1. PendingAt(s, r, os2, q, vs, n + 1)
    BY <1>2, <1>4 DEF Pending
  <2> QED
    BY <1>2, <1>5, <2>1 DEF PendingAt
<1>7. /\ e \in 1 .. Len(s) /\ Closed(s, p + 1, e) /\ AtLeast(s, p + 1, e, w + 1)
      /\ Len(vs) = h + 2 /\ vs[h + 2] = MeaningOf(s, r, p + 1, e)
      /\ Depth(s, e) = NumOf({"("}, os)
  <2>1. Complete(s, r, os2, q, vs, e)
    BY DEF os2
  <2>2. /\ e \in 1 .. Len(s) /\ Closed(s, p + 1, e) /\ Len(vs) = NumOf(Operators, os2) + 1
        /\ vs[Len(vs)] = MeaningOf(s, r, p + 1, e)
        /\ Depth(s, e) = NumOf({"("}, os2)
        /\ os2 # << >> /\ os2[n + 1] = y => AtLeast(s, p + 1, e, w + 1)
    BY <1>2, <2>1 DEF Complete
  <2>3. os2 # << >>
    BY <1>2
  <2>4. Len(vs) = h + 2 /\ Depth(s, e) = NumOf({"("}, os)
    BY <1>2, <1>3, <2>2
  <2> QED
    BY <1>2, <2>2, <2>3, <2>4
<1>8. a \in Nat /\ e \in Nat /\ p > 0
  <2>1. Len(s) \in Nat
    BY DEF Plain
  <2>2. e \in 1 .. Len(s) /\ p \in 1 .. Len(s)
    BY <1>6, <1>7
  <2>3. a \in Nat
    <3>1. q[n] \in Nat
      BY <1>4
    <3> QED
      BY <3>1
  <2> HIDE DEF p
  <2> QED
    BY <2>1, <2>2, <2>3
<1> HIDE DEF a, p
<1>9. /\ Closed(s, a, e) /\ AtLeast(s, a, e, w)
      /\ MeaningOf(s, r, a, e) = Combine(y, MeaningOf(s, r, a, p - 1), MeaningOf(s, r, p + 1, e))
  <2>1. p \in Nat /\ s[p] = y /\ s[p] \in Operators
    BY <1>4, <1>6
  <2>2. /\ Closed(s, a, p - 1) /\ AtLeast(s, a, p - 1, precedence(s[p]))
        /\ Closed(s, p + 1, e) /\ AtLeast(s, p + 1, e, precedence(s[p]) + 1)
    BY <1>6, <1>7, <2>1
  <2>3. /\ Closed(s, a, e) /\ AtLeast(s, a, e, precedence(s[p]))
        /\ MeaningOf(s, r, a, e) = Combine(s[p], MeaningOf(s, r, a, p - 1), MeaningOf(s, r, p + 1, e))
    BY <1>8, <2>1, <2>2, JoinedPartsMean
  <2> QED
    BY <2>1, <2>3
<1>10. /\ vs2 \in Seq(Meant) /\ Len(vs2) = h + 1 /\ vs2[h + 1] = MeaningOf(s, r, a, e)
       /\ \A k \in 1 .. h : vs2[k] = vs[k]
  <2>1. Len(vs) >= 2 /\ Len(vs) - 1 = h + 1 /\ Len(vs) - 2 = h
    BY <1>3, <1>7
  <2>2. /\ vs2 \in Seq(Meant) /\ Len(vs2) = Len(vs) - 1
        /\ \A k \in 1 .. Len(vs) - 2 : vs2[k] = vs[k]
        /\ vs2[Len(vs) - 1] = Combine(y, vs[Len(vs) - 1], vs[Len(vs)])
    BY <1>4, <2>1, CombinedShape
  <2> HIDE DEF vs2
  <2> QED
    BY <1>6, <1>7, <1>9, <2>1, <2>2
<1> HIDE DEF vs2
<1>11. Pending(s, r, os, q, vs2)
  <2>1. NumOf(Operators, os) <= Len(vs2) /\ \A k \in 1 .. NumOf(Operators, os) : vs2[k] = vs[k]
    BY <1>3, <1>10 DEF h
  <2> QED
    BY <1>4, <1>10, <2>1, PendingValues
<1>12. ASSUME NEW x \in Operators, os # << >>, os[n] = x
       PROVE  AtLeast(s, a, e, precedence(x) + 1)
  <2>1. n > 0 /\ os2[n] = x
    BY <1>2, <1>12 DEF n
  <2>2. precedence(x) < w /\ precedence(x) \in Nat /\ w \in Nat
    BY <1>2, <1>6, <2>1, LevelIs
  <2>3. \A k \in Outer(s, a, e) : precedence(s[k]) \in Nat /\ w <= precedence(s[k])
    <3>1. \A k \in Outer(s, a, e) : s[k] \in Operators
      BY DEF Outer
    <3> QED
      BY <1>9, <3>1, LevelIs DEF AtLeast
  <2> HIDE DEF w
  <2> QED
    BY <2>2, <2>3 DEF AtLeast
<1>13. Complete(s, r, os, q, vs2, e)
  BY <1>7, <1>9, <1>10, <1>11, <1>12 DEF Complete, a, n, h
<1>14. Len(vs) >= 2
  BY <1>3, <1>7
<1> QED
  BY <1>9, <1>13, <1>14 DEF a, n, vs2

-----------------------------------------------------------------------------
(* What the postfix computes *)

\* What a token does to a stack of meanings.
Does(r, v, x, v2) ==
  \/ x \in Operands /\ v2 = Append(v, r[x])
  \/ x \in Operators /\ Len(v) >= 2 /\ v2 = Combined(v, x)

\* R[k] is the stack behind the first k tokens of p.
Runs(r, p, R) ==
  /\ R \in [Nat -> Seq(Meant)] /\ R[0] = << >>
  /\ \A k \in 1 .. Len(p) : Does(r, R[k - 1], p[k], R[k])

Computes(r, p, vs) == \E R : Runs(r, p, R) /\ R[Len(p)] = vs

LEMMA ComputesNext ==
  ASSUME NEW r, NEW p \in Seq(InPostfix), NEW x \in InPostfix, NEW vs, NEW vs2 \in Seq(Meant),
         Computes(r, p, vs), Does(r, vs, x, vs2)
  PROVE  Computes(r, Append(p, x), vs2)
<1>1. PICK R : Runs(r, p, R) /\ R[Len(p)] = vs
  BY DEF Computes
<1> DEFINE n == Len(p)
           p2 == Append(p, x)
           R2 == [R EXCEPT ![n + 1] = vs2]
<1>2. /\ n \in Nat /\ Len(p2) = n + 1 /\ p2[n + 1] = x /\ \A k \in 1 .. n : p2[k] = p[k]
  OBVIOUS
<1>3. R \in [Nat -> Seq(Meant)] /\ R[0] = << >>
  BY <1>1 DEF Runs
<1>4. /\ R2 \in [Nat -> Seq(Meant)] /\ R2[n + 1] = vs2
      /\ \A k \in 0 .. n : R2[k] = R[k]
  <2> HIDE DEF n
  <2> QED
    BY <1>2, <1>3
<1>5. ASSUME NEW k \in 1 .. n + 1
      PROVE  Does(r, R2[k - 1], p2[k], R2[k])
  <2>1. CASE k \in 1 .. n
    <3>1. k - 1 \in 0 .. n /\ k \in 0 .. n
      BY <1>2, <2>1
    <3>2. R2[k - 1] = R[k - 1] /\ R2[k] = R[k] /\ p2[k] = p[k]
      BY <1>2, <1>4, <2>1, <3>1
    <3> QED
      BY <1>1, <2>1, <3>2 DEF Runs
  <2>2. CASE k = n + 1
    <3>1. k - 1 = n /\ n \in 0 .. n
      BY <1>2, <2>2
    <3>2. R2[k - 1] = vs /\ R2[k] = vs2 /\ p2[k] = x
      BY <1>1, <1>2, <1>4, <2>2, <3>1
    <3> QED
      BY <3>2
  <2> QED
    BY <1>2, <2>1, <2>2
<1> HIDE DEF p2, R2, n
<1>6. R2[0] = << >>
  <2>1. 0 \in 0 .. n
    BY <1>2
  <2> QED
    BY <1>3, <1>4, <2>1
<1>7. Runs(r, p2, R2) /\ R2[Len(p2)] = vs2
  BY <1>2, <1>4, <1>5, <1>6 DEF Runs
<1>8. Computes(r, p2, vs2)
  BY <1>7 DEF Computes
<1> QED
  BY <1>8 DEF p2

LEMMA PoppedNext ==
  ASSUME NEW X, NEW s \in Seq(X), NEW n \in Nat, n < Len(s)
  PROVE  /\ s[Len(s) - n] \in X
         /\ Popped(s, n + 1) = Append(Popped(s, n), s[Len(s) - n])
         /\ Remaining(s, n) = Append(Remaining(s, n + 1), s[Len(s) - n])
         /\ Remaining(s, n + 1) \in Seq(X) /\ Popped(s, n) \in Seq(X)
         /\ Len(Remaining(s, n + 1)) = Len(s) - n - 1
<1> DEFINE l == Len(s)
           x == s[l - n]
           m == n + 1
<1>1. l \in Nat /\ n \in 0 .. l /\ m \in 0 .. l /\ l - n \in 1 .. l /\ x \in X /\ m \in Nat
  <2>1. l \in Nat /\ n \in 0 .. l /\ m \in 0 .. l /\ l - n \in 1 .. l
    OBVIOUS
  <2> QED
    BY <2>1
<1>2. /\ Popped(s, n) \in Seq(X) /\ Len(Popped(s, n)) = n
      /\ Remaining(s, n) \in Seq(X) /\ Len(Remaining(s, n)) = l - n
      /\ \A k \in 1 .. n : Popped(s, n)[k] = s[l + 1 - k]
      /\ \A k \in 1 .. l - n : Remaining(s, n)[k] = s[k]
  BY <1>1, NumOfPopped
<1> HIDE DEF m
<1>3. /\ Popped(s, m) \in Seq(X) /\ Len(Popped(s, m)) = m
      /\ Remaining(s, m) \in Seq(X) /\ Len(Remaining(s, m)) = l - m
      /\ \A k \in 1 .. m : Popped(s, m)[k] = s[l + 1 - k]
      /\ \A k \in 1 .. l - m : Remaining(s, m)[k] = s[k]
  BY <1>1, NumOfPopped
<1> DEFINE A == Append(Popped(s, n), x)
           B == Append(Remaining(s, m), x)
<1> HIDE DEF x, l
<1>4. /\ A \in Seq(X) /\ Len(A) = n + 1 /\ A[n + 1] = x
      /\ \A k \in 1 .. n : A[k] = Popped(s, n)[k]
  BY <1>1, <1>2
<1>5. /\ B \in Seq(X) /\ Len(B) = l - m + 1 /\ B[l - m + 1] = x
      /\ \A k \in 1 .. l - m : B[k] = Remaining(s, m)[k]
  <2> DEFINE d == l - m
  <2>1. d \in Nat /\ Remaining(s, m) \in Seq(X) /\ Len(Remaining(s, m)) = d
    BY <1>1, <1>3
  <2> HIDE DEF d
  <2>2. /\ B \in Seq(X) /\ Len(B) = d + 1 /\ B[d + 1] = x
        /\ \A k \in 1 .. d : B[k] = Remaining(s, m)[k]
    BY <1>1, <2>1
  <2> QED
    BY <2>2 DEF d
<1> HIDE DEF A, B
<1>6. m = n + 1 /\ l - m + 1 = l - n /\ l + 1 - m = l - n
  BY <1>1 DEF m
<1>7. \A k \in 1 .. m : Popped(s, m)[k] = A[k]
  <2>1. ASSUME NEW k \in 1 .. n
        PROVE  Popped(s, m)[k] = A[k]
    <3>1. k \in 1 .. m
      BY <1>1, <1>6
    <3>2. Popped(s, m)[k] = s[l + 1 - k] /\ Popped(s, n)[k] = s[l + 1 - k]
      BY <1>2, <1>3, <3>1
    <3> QED
      BY <1>4, <3>2
  <2>2. Popped(s, m)[m] = s[l + 1 - m]
    <3>1. m \in 1 .. m
      BY <1>1, <1>6
    <3>2. \A k \in 1 .. m : Popped(s, m)[k] = s[l + 1 - k]
      BY <1>3
    <3> QED
      BY <3>1, <3>2
  <2>3. A[m] = s[l + 1 - m]
    BY <1>4, <1>6 DEF x
  <2>4. \A k \in 1 .. m : k \in 1 .. n \/ k = m
    BY <1>1, <1>6
  <2> QED
    BY <2>1, <2>2, <2>3, <2>4
<1>8. \A k \in 1 .. l - n : Remaining(s, n)[k] = B[k]
  <2>1. \A k \in 1 .. l - m : k \in 1 .. l - n
    BY <1>1, <1>6
  <2>2. \A k \in 1 .. l - m : Remaining(s, n)[k] = B[k]
    BY <1>2, <1>3, <1>5, <2>1
  <2>3. Remaining(s, n)[l - n] = B[l - n]
    BY <1>1, <1>2, <1>5, <1>6 DEF x
  <2>4. \A k \in 1 .. l - n : k \in 1 .. l - m \/ k = l - n
    BY <1>1, <1>6
  <2> QED
    BY <2>2, <2>3, <2>4
<1>9. Popped(s, m) = A
  BY <1>3, <1>4, <1>6, <1>7, SeqEqual
<1>10. Remaining(s, n) = B
  BY <1>2, <1>5, <1>6, <1>8, SeqEqual
<1>11. Len(Remaining(s, m)) = l - n - 1
  BY <1>1, <1>3, <1>6
<1> QED
  BY <1>1, <1>2, <1>3, <1>9, <1>10, <1>11 DEF A, B, x, l, m

\* The first j of the operators have been popped and computed.
PoppedTo(s, r, os, q, e, p, w, j) ==
  \E vs : /\ Complete(s, r, Remaining(os, j), q, vs, e)
          /\ Computes(r, p \o Popped(os, j), vs)
          /\ AtLeast(s, q[Len(os) - j] + 1, e, w)

LEMMA PopAnother ==
  ASSUME NEW s, Plain(s), NEW r, NEW os \in Seq(OnStack), NEW q, NEW e,
         NEW p \in Seq(InPostfix), NEW w \in Nat, NEW j \in Nat, j < Len(os),
         os[Len(os) - j] \in Operators, w <= precedence(os[Len(os) - j]),
         PoppedTo(s, r, os, q, e, p, w, j)
  PROVE  PoppedTo(s, r, os, q, e, p, w, j + 1)
<1> DEFINE y == os[Len(os) - j]
           rest == Remaining(os, j + 1)
           toks == Popped(os, j)
<1>1. PICK vs : /\ Complete(s, r, Remaining(os, j), q, vs, e)
                /\ Computes(r, p \o toks, vs)
  BY DEF PoppedTo
<1>2. /\ y \in Operators /\ Popped(os, j + 1) = Append(toks, y) /\ toks \in Seq(OnStack)
      /\ Remaining(os, j) = Append(rest, y) /\ rest \in Seq(OnStack)
      /\ Len(rest) = Len(os) - (j + 1)
  <2>1. /\ Popped(os, j + 1) = Append(toks, y) /\ toks \in Seq(OnStack)
        /\ Remaining(os, j) = Append(rest, y) /\ rest \in Seq(OnStack)
        /\ Len(rest) = Len(os) - j - 1
    BY PoppedNext
  <2>2. Len(os) \in Nat
    OBVIOUS
  <2> HIDE DEF rest, toks
  <2> QED
    BY <2>1, <2>2
<1> HIDE DEF y, rest, toks
<1>3. Complete(s, r, Append(rest, y), q, vs, e)
  BY <1>1, <1>2
<1>4. /\ Len(vs) >= 2 /\ Complete(s, r, rest, q, Combined(vs, y), e)
      /\ AtLeast(s, q[Len(rest)] + 1, e, precedence(y))
  BY <1>2, <1>3, PopOne
<1>5. AtLeast(s, q[Len(os) - (j + 1)] + 1, e, w)
  <2> DEFINE a == q[Len(rest)] + 1
  <2>1. \A k \in Outer(s, a, e) : s[k] \in Operators
    BY DEF Outer
  <2>2. \A k \in Outer(s, a, e) : precedence(s[k]) \in Nat
    BY <2>1, LevelIs
  <2>3. w <= precedence(y) /\ precedence(y) \in Nat /\ w \in Nat
    BY <1>2, LevelIs DEF y
  <2>4. AtLeast(s, a, e, precedence(y))
    BY <1>4
  <2> HIDE DEF a
  <2>5. AtLeast(s, a, e, w)
    BY <2>2, <2>3, <2>4 DEF AtLeast
  <2> QED
    BY <1>2, <2>5 DEF a
<1>6. Combined(vs, y) \in Seq(Meant)
  BY <1>4, StackTypes DEF Complete
<1>7. p \o toks \in Seq(InPostfix) /\ y \in InPostfix
  <2>1. toks \in Seq(InPostfix)
    BY <1>2, SeqMonotonic DEF OnStack, InPostfix
  <2> QED
    BY <1>2, <2>1, ConcatProperties DEF InPostfix
<1>8. Computes(r, Append(p \o toks, y), Combined(vs, y))
  <2>1. Does(r, vs, y, Combined(vs, y))
    BY <1>2, <1>4 DEF Does
  <2> QED
    BY <1>1, <1>6, <1>7, <2>1, ComputesNext
<1>9. Append(p \o toks, y) = p \o Append(toks, y)
  <2>1. toks \in Seq(InPostfix)
    BY <1>2, SeqMonotonic DEF OnStack, InPostfix
  <2>2. <<y>> \in Seq(InPostfix)
    BY <1>7
  <2>3. Append(p \o toks, y) = (p \o toks) \o <<y>> /\ Append(toks, y) = toks \o <<y>>
    BY <1>7, <2>1, AppendIsConcat
  <2>4. (p \o toks) \o <<y>> = p \o (toks \o <<y>>)
    BY <2>1, <2>2, ConcatAssociative
  <2> QED
    BY <2>3, <2>4
<1>10. Computes(r, p \o Popped(os, j + 1), Combined(vs, y))
  BY <1>2, <1>8, <1>9
<1> QED
  BY <1>4, <1>5, <1>10 DEF PoppedTo, rest

(***************************************************************************)
(* Popping the m topmost elements, all of them operators that bind at      *)
(* least as strong as w, leaves a complete operand in which nothing binds  *)
(* weaker than w.                                                          *)
(***************************************************************************)
LEMMA PopMany ==
  ASSUME NEW s, Plain(s), NEW r, NEW os \in Seq(OnStack), NEW q, NEW vs, NEW e,
         NEW p \in Seq(InPostfix), NEW w \in Nat, NEW m \in 0 .. Len(os),
         \A k \in Len(os) + 1 - m .. Len(os) : os[k] # "(" /\ w <= precedence(os[k]),
         Complete(s, r, os, q, vs, e), Computes(r, p, vs),
         AtLeast(s, q[Len(os)] + 1, e, w)
  PROVE  PoppedTo(s, r, os, q, e, p, w, m)
<1> DEFINE Bad == {j \in 0 .. m : ~PoppedTo(s, r, os, q, e, p, w, j)}
           l == Len(os)
<1>1. l \in Nat /\ m \in Nat /\ Bad \subseteq Nat
  OBVIOUS
<1>2. PoppedTo(s, r, os, q, e, p, w, 0)
  <2>1. Remaining(os, 0) = os /\ p \o Popped(os, 0) = p
    <3> DEFINE z == 0
    <3>1. z \in 0 .. l /\ l - z = l /\ z = 0
      BY <1>1
    <3> HIDE DEF z
    <3>2. /\ Popped(os, z) \in Seq(OnStack) /\ Len(Popped(os, z)) = z
          /\ Remaining(os, z) \in Seq(OnStack) /\ Len(Remaining(os, z)) = l - z
          /\ \A k \in 1 .. l - z : Remaining(os, z)[k] = os[k]
      BY <3>1, NumOfPopped
    <3>3. Popped(os, 0) = << >>
      BY <3>1, <3>2, EmptySeq
    <3>4. Remaining(os, 0) = os
      <4> DEFINE t == Remaining(os, 0)
      <4>1. t \in Seq(OnStack) /\ Len(t) = Len(os) /\ \A k \in 1 .. Len(os) : t[k] = os[k]
        BY <1>1, <3>1, <3>2
      <4> HIDE DEF t
      <4>2. t = os
        BY <4>1, SeqEqual
      <4> QED
        BY <4>2 DEF t
    <3>5. p \o << >> = p
      BY ConcatEmptySeq
    <3> QED
      BY <3>3, <3>4, <3>5, Zenon
  <2>2. l - 0 = l
    BY <1>1
  <2> QED
    BY <2>1, <2>2 DEF PoppedTo
<1>3. ASSUME Bad # {}
      PROVE  FALSE
  <2>1. PICK b \in Bad : \A c \in Bad : b <= c
    BY <1>1, <1>3, LeastNumber
  <2>2. b \in 1 .. m /\ ~PoppedTo(s, r, os, q, e, p, w, b)
    BY <1>1, <1>2, <2>1
  <2> DEFINE j == b - 1
  <2>3. j \in 0 .. m /\ j \in Nat /\ j < l /\ j + 1 = b /\ ~(b <= j) /\ l - j \in l + 1 - m .. l
        /\ l - j \in 1 .. l
    BY <1>1, <2>2
  <2> HIDE DEF j
  <2>4. PoppedTo(s, r, os, q, e, p, w, j)
    BY <2>1, <2>3
  <2>5. os[l - j] \in Operators /\ w <= precedence(os[l - j])
    <3>1. os[l - j] \in OnStack
      BY <2>3
    <3> QED
      BY <2>3, <3>1 DEF OnStack
  <2>6. PoppedTo(s, r, os, q, e, p, w, j + 1)
    BY <2>3, <2>4, <2>5, PopAnother
  <2> QED
    BY <2>2, <2>3, <2>6
<1> QED
  BY <1>1, <1>3

\* Before the first token.
LEMMA NothingRead ==
  ASSUME NEW s, Plain(s), NEW r
  PROVE  /\ Waiting(s, r, << >>, [k \in Nat |-> 0], << >>, 0)
         /\ Computes(r, << >>, << >>)
<1> DEFINE q == [k \in Nat |-> 0]
           R == [k \in Nat |-> << >>]
<1>1. /\ NumOf(Operators, << >>) = 0 /\ NumOf({"("}, << >>) = 0 /\ Len(<< >>) = 0
      /\ << >> \in Seq(OnStack) /\ << >> \in Seq(Meant)
  BY NumOfEmpty
<1>2. Depth(s, 0) = 0 /\ 0 \in 0 .. Len(s)
  <2>1. Len(s) \in Nat
    BY DEF Plain
  <2> QED
    BY <2>1, DepthSteps
<1>3. Waiting(s, r, << >>, q, << >>, 0)
  BY <1>1, <1>2 DEF Waiting, Pending
<1>4. Runs(r, << >>, R) /\ R[Len(<< >>)] = << >>
  BY <1>1 DEF Runs
<1> QED
  BY <1>3, <1>4 DEF Computes

-----------------------------------------------------------------------------
(* The conversion, token by token *)

\* The first e tokens of s have been converted: p computes what they say so far.
Parsed(s, r, os, p, e) ==
  \E q, vs :
    /\ Computes(r, p, vs)
    /\ \/ Waiting(s, r, os, q, vs, e) /\ Expecting(Prefix(s, e))
       \/ /\ Complete(s, r, os, q, vs, e) /\ ~Expecting(Prefix(s, e))
          /\ Outer(s, q[Len(os)] + 1, e) = {}

LEMMA ParsedOperand ==
  ASSUME NEW s, Plain(s), NEW r \in Rows, NEW os, NEW p \in Seq(InPostfix),
         NEW e \in Nat, e < Len(s), s[e + 1] \in Operands, Parsed(s, r, os, p, e)
  PROVE  Parsed(s, r, os, Append(p, s[e + 1]), e + 1)
<1> DEFINE x == s[e + 1]
           c == e + 1
<1>1. c \in 1 .. Len(s) /\ c - 1 = e
  BY DEF Plain
<1> HIDE DEF c
<1>2. /\ Expecting(Prefix(s, e)) /\ ~Expecting(Prefix(s, c))
      /\ s[c] \in Operands /\ s[c] = x
  <2>1. s[c] \in Operands /\ s[c] = x
    BY DEF c
  <2>2. /\ Expecting(Prefix(s, c)) <=> s[c] \in Operators \union {"("}
        /\ ~Expecting(Prefix(s, e)) => s[c] \in Operators \/ s[c] = ")"
    BY <1>1, PlainTokens
  <2> QED
    BY <2>1, <2>2, KindsOfTokens
<1>3. PICK q, vs : Computes(r, p, vs) /\ Waiting(s, r, os, q, vs, e)
  BY <1>2 DEF Parsed
<1>4. /\ Complete(s, r, os, q, Append(vs, r[x]), c)
      /\ Outer(s, q[Len(os)] + 1, c) = {}
  BY <1>3, PassOperand DEF c
<1>5. Computes(r, Append(p, x), Append(vs, r[x]))
  <2>1. x \in Operands /\ x \in InPostfix
    BY DEF InPostfix
  <2>2. Append(vs, r[x]) \in Seq(Meant)
    BY <1>4, StackTypes DEF Complete
  <2>3. Does(r, vs, x, Append(vs, r[x]))
    BY <2>1 DEF Does
  <2> QED
    BY <1>3, <2>1, <2>2, <2>3, ComputesNext
<1>6. Parsed(s, r, os, Append(p, x), c)
  BY <1>2, <1>4, <1>5 DEF Parsed
<1> QED
  BY <1>6 DEF c

LEMMA ParsedOpen ==
  ASSUME NEW s, Plain(s), NEW r, NEW os, NEW p \in Seq(InPostfix),
         NEW e \in Nat, e < Len(s), s[e + 1] = "(", Parsed(s, r, os, p, e)
  PROVE  Parsed(s, r, Append(os, "("), p, e + 1)
<1> DEFINE c == e + 1
<1>1. c \in 1 .. Len(s) /\ c - 1 = e
  BY DEF Plain
<1> HIDE DEF c
<1>2. Expecting(Prefix(s, e)) /\ Expecting(Prefix(s, c))
  <2>1. s[c] = "("
    BY DEF c
  <2>2. /\ Expecting(Prefix(s, c)) <=> s[c] \in Operators \union {"("}
        /\ ~Expecting(Prefix(s, e)) => s[c] \in Operators \/ s[c] = ")"
    BY <1>1, PlainTokens
  <2> QED
    BY <2>1, <2>2, KindsOfTokens
<1>3. PICK q, vs : Computes(r, p, vs) /\ Waiting(s, r, os, q, vs, e)
  BY <1>2 DEF Parsed
<1>4. Waiting(s, r, Append(os, "("), [q EXCEPT ![Len(os) + 1] = e + 1], vs, c)
  BY <1>3, PassOpen DEF c
<1>5. Parsed(s, r, Append(os, "("), p, c)
  BY <1>2, <1>3, <1>4 DEF Parsed
<1> QED
  BY <1>5 DEF c

\* n operators are above the opening parenthesis.
LEMMA ParsedClose ==
  ASSUME NEW s, Plain(s), NEW r, NEW os \in Seq(OnStack), NEW p \in Seq(InPostfix),
         NEW e \in Nat, e < Len(s), s[e + 1] = ")", Parsed(s, r, os, p, e),
         NEW n \in 0 .. Len(os),
         \A k \in Len(os) + 1 - n .. Len(os) : os[k] # "(",
         n < Len(os) => os[Len(os) - n] = "("
  PROVE  n < Len(os) /\ Parsed(s, r, Remaining(os, n + 1), p \o Popped(os, n), e + 1)
<1> DEFINE c == e + 1
           l == Len(os)
<1>1. c \in 1 .. Len(s) /\ c - 1 = e /\ l \in Nat /\ n \in Nat
  BY DEF Plain
<1> HIDE DEF c
<1>2. ~Expecting(Prefix(s, e)) /\ ~Expecting(Prefix(s, c)) /\ Depth(s, e) > 0
  <2>1. s[c] = ")" /\ s[c] \notin Operators /\ s[c] \notin Operands /\ s[c] # "("
    BY KindsOfTokens DEF c
  <2>2. /\ Expecting(Prefix(s, c)) <=> s[c] \in Operators \union {"("}
        /\ Expecting(Prefix(s, e)) => s[c] \in Operands \union {"("}
        /\ ~Expecting(Prefix(s, e)) => s[c] \in Operators \/ (s[c] = ")" /\ Depth(s, e) > 0)
    BY <1>1, PlainTokens
  <2> QED
    BY <2>1, <2>2
<1>3. PICK q, vs : /\ Computes(r, p, vs) /\ Complete(s, r, os, q, vs, e)
                   /\ Outer(s, q[l] + 1, e) = {}
  BY <1>2 DEF Parsed
<1>4. n < l
  <2>1. NumOf({"("}, os) # 0
    BY <1>2, <1>3 DEF Complete
  <2>2. \E k \in 1 .. l : os[k] = "("
    BY <2>1, NumOfType
  <2>3. n = l => \A k \in 1 .. l : os[k] # "("
    BY <1>1
  <2> QED
    BY <1>1, <2>2, <2>3
<1>5. PoppedTo(s, r, os, q, e, p, 0, n)
  <2>1. AtLeast(s, q[l] + 1, e, 0)
    BY <1>3 DEF AtLeast
  <2>2. ASSUME NEW k \in l + 1 - n .. l
        PROVE  os[k] # "(" /\ 0 <= precedence(os[k])
    <3>1. k \in 1 .. l /\ os[k] # "("
      BY <1>1
    <3>2. os[k] \in Operators
      BY <3>1 DEF OnStack
    <3> QED
      BY <3>1, <3>2, LevelIs
  <2> QED
    BY <1>3, <2>1, <2>2, PopMany
<1>6. PICK vs2 : /\ Complete(s, r, Remaining(os, n), q, vs2, e)
                 /\ Computes(r, p \o Popped(os, n), vs2)
  BY <1>5 DEF PoppedTo
<1> DEFINE rest == Remaining(os, n + 1)
<1>7. rest \in Seq(OnStack) /\ Remaining(os, n) = Append(rest, "(")
  BY <1>1, <1>4, PoppedNext
<1> HIDE DEF rest
<1>8. Complete(s, r, rest, q, vs2, c) /\ Outer(s, q[Len(rest)] + 1, c) = {}
  BY <1>6, <1>7, PassClose DEF c
<1>9. Parsed(s, r, rest, p \o Popped(os, n), c)
  BY <1>2, <1>6, <1>8 DEF Parsed
<1> QED
  BY <1>4, <1>9 DEF c, rest

\* n operators bind at least as strong as x.
LEMMA ParsedOperator ==
  ASSUME NEW s, Plain(s), NEW r, NEW os \in Seq(OnStack), NEW p \in Seq(InPostfix),
         NEW e \in Nat, e < Len(s), NEW x \in Operators, s[e + 1] = x, Parsed(s, r, os, p, e),
         NEW n \in 0 .. Len(os),
         \A k \in Len(os) + 1 - n .. Len(os) : os[k] # "(" /\ precedence(x) <= precedence(os[k]),
         n < Len(os) => os[Len(os) - n] = "("
                        \/ ~(precedence(x) <= precedence(os[Len(os) - n]))
  PROVE  Parsed(s, r, Append(Remaining(os, n), x), p \o Popped(os, n), e + 1)
<1> DEFINE c == e + 1
           l == Len(os)
           w == precedence(x)
           rest == Remaining(os, n)
<1>1. c \in 1 .. Len(s) /\ c - 1 = e /\ l \in Nat /\ n \in Nat /\ w \in Nat
  BY LevelIs DEF Plain
<1> HIDE DEF c
<1>2. ~Expecting(Prefix(s, e)) /\ Expecting(Prefix(s, c))
  <2>1. s[c] \in Operators
    BY DEF c
  <2>2. /\ Expecting(Prefix(s, c)) <=> s[c] \in Operators \union {"("}
        /\ Expecting(Prefix(s, e)) => s[c] \in Operands \union {"("}
    BY <1>1, PlainTokens
  <2> QED
    BY <2>1, <2>2, KindsOfTokens
<1>3. PICK q, vs : /\ Computes(r, p, vs) /\ Complete(s, r, os, q, vs, e)
                   /\ Outer(s, q[l] + 1, e) = {}
  BY <1>2 DEF Parsed
<1>4. PoppedTo(s, r, os, q, e, p, w, n)
  <2>1. AtLeast(s, q[l] + 1, e, w)
    BY <1>3 DEF AtLeast
  <2>2. \A k \in l + 1 - n .. l : os[k] # "(" /\ w <= precedence(os[k])
    OBVIOUS
  <2> HIDE DEF w
  <2> QED
    BY <1>1, <1>3, <2>1, <2>2, PopMany
<1>5. PICK vs2 : /\ Complete(s, r, rest, q, vs2, e)
                 /\ Computes(r, p \o Popped(os, n), vs2)
                 /\ AtLeast(s, q[l - n] + 1, e, w)
  BY <1>4 DEF PoppedTo
<1>6. /\ rest \in Seq(OnStack) /\ Len(rest) = l - n
      /\ \A k \in 1 .. l - n : rest[k] = os[k]
  BY NumOfPopped
<1> HIDE DEF rest
<1>7. rest # << >> /\ rest[Len(rest)] \in Operators => precedence(rest[Len(rest)]) < w
  <2> SUFFICES ASSUME rest # << >>, rest[Len(rest)] \in Operators
               PROVE  precedence(rest[Len(rest)]) < w
    OBVIOUS
  <2>1. n < l /\ l - n \in 1 .. l - n
    BY <1>1, <1>6
  <2>2. rest[Len(rest)] = os[l - n] /\ os[l - n] \in Operators
    BY <1>6, <2>1
  <2>3. os[l - n] # "(" /\ precedence(os[l - n]) \in Nat
    BY <2>2, KindsOfTokens, LevelIs
  <2>4. ~(w <= precedence(os[l - n]))
    BY <2>1, <2>3
  <2> HIDE DEF w
  <2> QED
    BY <1>1, <2>2, <2>3, <2>4
<1>8. AtLeast(s, q[Len(rest)] + 1, e, w)
  BY <1>5, <1>6
<1>9. Waiting(s, r, Append(rest, x), [q EXCEPT ![Len(rest) + 1] = e + 1], vs2, c)
  BY <1>5, <1>7, <1>8, PassOperator DEF c
<1>10. Parsed(s, r, Append(rest, x), p \o Popped(os, n), c)
  BY <1>2, <1>5, <1>9 DEF Parsed
<1> QED
  BY <1>10 DEF c, rest

\* What is left on the stack joins everything.
LEMMA ParsedEnd ==
  ASSUME NEW s, Plain(s), NEW r, NEW os \in Seq(OnStack), NEW p \in Seq(InPostfix),
         Parsed(s, r, os, p, Len(s)), ~Expecting(s), Depth(s, Len(s)) = 0
  PROVE  Computes(r, p \o Popped(os, Len(os)), << MeaningOf(s, r, 1, Len(s)) >>)
<1> DEFINE e == Len(s)
           l == Len(os)
<1>1. e \in Nat /\ l \in Nat /\ Prefix(s, e) = s /\ l \in 0 .. l
  <2>1. s \in Seq(Tokens) /\ e \in Nat /\ e \in 0 .. Len(s) /\ l \in Nat
    BY DEF Plain
  <2> QED
    BY <2>1, PrefixFacts
<1>2. PICK q, vs : /\ Computes(r, p, vs) /\ Complete(s, r, os, q, vs, e)
                   /\ Outer(s, q[l] + 1, e) = {}
  BY <1>1 DEF Parsed
<1>3. \A k \in 1 .. l : os[k] # "("
  <2>1. NumOf({"("}, os) = 0
    BY <1>2 DEF Complete
  <2>2. \A k \in 1 .. Len(os) : os[k] \notin {"("}
    BY <2>1, NumOfType
  <2> QED
    BY <2>2
<1>4. PoppedTo(s, r, os, q, e, p, 0, l)
  <2>1. AtLeast(s, q[l] + 1, e, 0)
    BY <1>2 DEF AtLeast
  <2>2. ASSUME NEW k \in l + 1 - l .. l
        PROVE  os[k] # "(" /\ 0 <= precedence(os[k])
    <3>1. k \in 1 .. l /\ os[k] # "("
      BY <1>1, <1>3
    <3>2. os[k] \in Operators
      BY <3>1 DEF OnStack
    <3> QED
      BY <3>1, <3>2, LevelIs
  <2> HIDE DEF e
  <2> QED
    BY <1>1, <1>2, <2>1, <2>2, PopMany
<1>5. PICK vs2 : /\ Complete(s, r, Remaining(os, l), q, vs2, e)
                 /\ Computes(r, p \o Popped(os, l), vs2)
  BY <1>4 DEF PoppedTo
<1>6. Remaining(os, l) = << >>
  <2>1. Remaining(os, l) \in Seq(OnStack) /\ Len(Remaining(os, l)) = l - l
    BY <1>1, NumOfPopped
  <2> QED
    BY <1>1, <2>1, EmptySeq
<1>7. /\ vs2 \in Seq(Meant) /\ q[0] = 0 /\ Len(vs2) = 1
      /\ vs2[Len(vs2)] = MeaningOf(s, r, q[0] + 1, e)
  <2>1. /\ Pending(s, r, << >>, q, vs2) /\ Len(vs2) = NumOf(Operators, << >>) + 1
        /\ vs2[Len(vs2)] = MeaningOf(s, r, q[Len(<< >>)] + 1, e)
    BY <1>5, <1>6 DEF Complete
  <2>2. Len(<< >>) = 0 /\ NumOf(Operators, << >>) = 0
    BY NumOfEmpty
  <2>3. vs2 \in Seq(Meant) /\ q[0] = 0
    BY <2>1 DEF Pending
  <2> QED
    BY <2>1, <2>2, <2>3
<1>8. q[0] + 1 = 1
  BY <1>7
<1>9. vs2 = << MeaningOf(s, r, 1, e) >>
  BY <1>7, <1>8
<1> QED
  BY <1>5, <1>9

-----------------------------------------------------------------------------
(* Every step keeps the meaning *)

\* A clause that the array holds and that has no sign.
Usual == Fits /\ ~HasSign

ParseInv ==
  pc = "convert" /\ Usual => \A r \in Rows : Parsed(clause, r, opStack, postfix, i - 1)

\* The values of evalWhere are the meanings, where there is one.
Agrees(st, v) ==
  Len(st) = Len(v) /\ \A k \in 1 .. Len(v) : v[k].kind = "none" \/ st[k] = v[k]

MeanInv ==
  pc = "evaluate" /\ Usual =>
    \E R : /\ Runs(row, postfix, R) /\ R[Len(postfix)] = << Meaning >>
           /\ Agrees(stk, R[i - 1])

MeaningInv == ParseInv /\ MeanInv /\ SelectsByMeaning

LEMMA UsualIsPlain ==
  ASSUME TextInv, Usual
  PROVE  /\ Plain(clause) /\ whereTokens = clause
         /\ pc # "collect" => ~Expecting(clause) /\ Depth(clause, Len(clause)) = 0
<1>1. /\ clause \in Seq(Tokens) /\ Len(clause) \in Nat /\ DOMAIN clause = 1 .. Len(clause)
      /\ \A k \in 1 .. Len(clause) : clause[k] \in NextTokens(Prefix(clause, k - 1))
      /\ \A k \in 0 .. Len(clause) : Balanced(Prefix(clause, k))
      /\ whereTokens = clause
  BY DEF TextInv, Usual
<1>2. Plain(clause)
  BY <1>1 DEF Plain, Usual, HasSign
<1>3. Depth(clause, Len(clause)) \in Nat /\ Depth(clause, Len(clause)) = Unclosed(clause)
  <2>1. Len(clause) \in 0 .. Len(clause)
    BY <1>1
  <2>2. Prefix(clause, Len(clause)) = clause
    BY <1>1, <2>1, PrefixFacts
  <2> QED
    BY <1>2, <2>1, <2>2, DepthSteps DEF Depth
<1>4. ASSUME pc # "collect"
      PROVE  ~Expecting(clause) /\ Depth(clause, Len(clause)) = 0
  <2>1. Unclosed(clause) + (IF Expecting(clause) THEN 1 ELSE 0) = 0
    BY <1>4 DEF TextInv, Missing
  <2> QED
    BY <1>3, <2>1
<1> QED
  BY <1>1, <1>2, <1>4

LEMMA EndOfTextMeans ==
  ASSUME CountInv, MeaningInv, EndOfText
  PROVE  MeaningInv'
<1>1. /\ pc = "collect" /\ pc' = "convert"
      /\ UNCHANGED <<clause, whereTokens, opStack, postfix, stk, i, row, result>>
  BY DEF EndOfText
<1>2. opStack = << >> /\ postfix = << >> /\ i = 1
  <2>1. /\ opStack \in Seq(OnStack) /\ postfix \in Seq(InPostfix) /\ i = 1
        /\ Len(postfix) + Len(opStack) <= i - 1
    BY <1>1 DEF CountInv, ConvertInv, OnStack, InPostfix
  <2>2. Len(opStack) = 0 /\ Len(postfix) = 0
    BY <2>1
  <2> QED
    BY <2>1, <2>2, EmptySeq
<1>3. ASSUME Usual
      PROVE  \A r \in Rows : Parsed(clause, r, opStack, postfix, i - 1)
  <2>1. Plain(clause)
    BY <1>3, UsualIsPlain DEF CountInv
  <2>2. i - 1 = 0
    BY <1>2
  <2>3. Expecting(Prefix(clause, 0))
    BY SubSeqEmpty DEF Prefix, Expecting
  <2>4. ASSUME NEW r \in Rows
        PROVE  Parsed(clause, r, << >>, << >>, 0)
    BY <2>1, <2>3, NothingRead DEF Parsed
  <2> QED
    BY <1>2, <2>2, <2>4
<1>4. Usual' <=> Usual
  BY <1>1 DEF Usual, Fits, HasSign
<1>5. ParseInv'
  BY <1>1, <1>3, <1>4 DEF ParseInv
<1> QED
  BY <1>1, <1>5 DEF MeaningInv, MeanInv, SelectsByMeaning, ClauseMeans

\* The bounds within which the conversion stays.
LEMMA ConvertBounds ==
  ASSUME CountInv, Usual, pc = "convert"
  PROVE  /\ opStack \in Seq(OnStack) /\ postfix \in Seq(InPostfix)
         /\ i \in 1 .. Len(clause) + 1 /\ Len(clause) \in Nat
         /\ Len(opStack) \in Nat /\ Len(postfix) \in Nat /\ MAX_POSTFIX \in Nat
         /\ Len(postfix) + Len(opStack) <= i - 1 /\ Len(clause) <= MAX_POSTFIX
         /\ \A s \in Seq(OnStack) : s \in Seq(InPostfix)
<1>1. whereTokens = clause /\ clause \in Seq(Tokens)
  BY UsualIsPlain DEF CountInv, TextInv
<1>2. /\ opStack \in Seq(OnStack) /\ postfix \in Seq(InPostfix)
      /\ i \in 1 .. Len(clause) + 1 /\ Len(postfix) + Len(opStack) <= i - 1
  BY <1>1 DEF CountInv, ConvertInv, OnStack, InPostfix
<1>3. \A s \in Seq(OnStack) : s \in Seq(InPostfix)
  <2>1. OnStack \subseteq InPostfix
    BY DEF OnStack, InPostfix
  <2> QED
    BY <2>1, SeqMonotonic
<1> QED
  BY <1>1, <1>2, <1>3, WhereAssumption DEF Usual, Fits

LEMMA ConvertMeans ==
  ASSUME CountInv, MeaningInv, Convert
  PROVE  MeaningInv'
<1>1. /\ pc = "convert" /\ pc' = pc /\ i <= Len(whereTokens) /\ i' = i + 1
      /\ UNCHANGED <<clause, whereTokens, stk, row, result>>
      /\ ShuntOperand \/ ShuntOpen \/ ShuntClose \/ ShuntOperator
  BY DEF Convert
<1>2. Usual' <=> Usual
  BY <1>1 DEF Usual, Fits, HasSign
<1>3. ASSUME Usual, NEW r \in Rows
      PROVE  Parsed(clause, r, opStack', postfix', i)
  <2> DEFINE e == i - 1
             l == Len(opStack)
             x == clause[i]
  <2>1. /\ opStack \in Seq(OnStack) /\ postfix \in Seq(InPostfix)
        /\ i \in 1 .. Len(clause) + 1 /\ Len(clause) \in Nat
        /\ l \in Nat /\ Len(postfix) \in Nat /\ MAX_POSTFIX \in Nat
        /\ Len(postfix) + l <= i - 1 /\ Len(clause) <= MAX_POSTFIX
        /\ \A s \in Seq(OnStack) : s \in Seq(InPostfix)
    BY <1>1, <1>3, ConvertBounds
  <2>2. Plain(clause) /\ whereTokens = clause
    BY <1>3, UsualIsPlain DEF CountInv
  <2>3. e \in Nat /\ e < Len(clause) /\ e + 1 = i /\ Len(postfix) + l < MAX_POSTFIX
    BY <1>1, <2>1, <2>2
  <2>4. Parsed(clause, r, opStack, postfix, e)
    BY <1>1, <1>3 DEF MeaningInv, ParseInv
  <2>5. ASSUME NEW toks \in Seq(InPostfix), Len(toks) <= l + 1, pushOut(toks)
        PROVE  postfix' = postfix \o toks
    <3>1. Len(postfix) + Len(toks) <= MAX_POSTFIX
      BY <2>1, <2>3, <2>5
    <3> QED
      BY <2>1, <2>5, <3>1, PushOutFits
  <2> HIDE DEF e
  <2>6. CASE ShuntOperand
    <3>1. x \in Operands /\ x \in InPostfix /\ pushOut(<<x>>) /\ opStack' = opStack
      BY <2>2, <2>6 DEF ShuntOperand, InPostfix
    <3>2. <<x>> \in Seq(InPostfix) /\ Len(<<x>>) = 1
      BY <3>1
    <3>3. postfix' = postfix \o <<x>>
      <4>1. Len(<<x>>) <= l + 1
        BY <2>1, <3>2
      <4> QED
        BY <2>5, <3>1, <3>2, <4>1
    <3>4. postfix' = Append(postfix, x)
      BY <2>1, <3>1, <3>3, AppendIsConcat
    <3>5. Parsed(clause, r, opStack, Append(postfix, clause[e + 1]), e + 1)
      BY <1>3, <2>1, <2>2, <2>3, <2>4, <3>1, ParsedOperand
    <3> QED
      BY <2>3, <3>1, <3>4, <3>5
  <2>7. CASE ShuntOpen
    <3>1. x = "(" /\ opStack' = Append(opStack, "(") /\ postfix' = postfix
      BY <2>2, <2>7 DEF ShuntOpen
    <3>2. Parsed(clause, r, Append(opStack, "("), postfix, e + 1)
      BY <2>1, <2>2, <2>3, <2>4, <3>1, ParsedOpen
    <3> QED
      BY <2>3, <3>1, <3>2
  <2>8. CASE ShuntClose
    <3> DEFINE Inside(op) == op # "("
               n == PopCount(opStack, Inside)
               toks == Popped(opStack, n)
    <3>1. /\ x = ")" /\ pushOut(toks)
          /\ opStack' = IF n < l THEN Remaining(opStack, n + 1) ELSE << >>
      BY <2>2, <2>8 DEF ShuntClose
    <3>2. /\ n \in 0 .. l /\ (n < l => opStack[l - n] = "(")
          /\ \A k \in l + 1 - n .. l : opStack[k] # "("
      BY <2>1, PopsInside
    <3> HIDE DEF n
    <3>3. toks \in Seq(InPostfix) /\ Len(toks) <= l + 1
      <4>1. toks \in Seq(OnStack) /\ Len(toks) = n
        BY <2>1, <3>2, NumOfPopped
      <4> QED
        BY <2>1, <3>2, <4>1
    <3>4. postfix' = postfix \o toks
      BY <2>5, <3>1, <3>3
    <3>5. /\ n < l
          /\ Parsed(clause, r, Remaining(opStack, n + 1), postfix \o toks, e + 1)
      <4>1. clause[e + 1] = ")"
        BY <2>3, <3>1
      <4> QED
        BY <2>1, <2>2, <2>3, <2>4, <3>2, <4>1, ParsedClose
    <3> QED
      BY <2>3, <3>1, <3>4, <3>5
  <2>9. CASE ShuntOperator
    <3> DEFINE Binds(op) == op # "(" /\ precedence(x) <= precedence(op)
               n == PopCount(opStack, Binds)
               toks == Popped(opStack, n)
    <3>1. x \in Operators /\ pushOut(toks) /\ opStack' = Append(Remaining(opStack, n), x)
      BY <2>2, <2>9 DEF ShuntOperator
    <3>2. n = Max({m \in 0 .. l : \A k \in l + 1 - m .. l :
                     opStack[k] # "(" /\ precedence(x) <= precedence(opStack[k])})
      BY DEF PopCount
    <3> HIDE DEF n
    <3>3. /\ n \in 0 .. l
          /\ \A k \in l + 1 - n .. l :
               opStack[k] # "(" /\ precedence(x) <= precedence(opStack[k])
          /\ n < l => opStack[l - n] = "("
                      \/ ~(precedence(x) <= precedence(opStack[l - n]))
      BY <2>1, <3>2, PopsBinding
    <3>4. toks \in Seq(InPostfix) /\ Len(toks) <= l + 1
      <4>1. toks \in Seq(OnStack) /\ Len(toks) = n
        BY <2>1, <3>3, NumOfPopped
      <4> QED
        BY <2>1, <3>3, <4>1
    <3>5. postfix' = postfix \o toks
      BY <2>5, <3>1, <3>4
    <3>6. Parsed(clause, r, Append(Remaining(opStack, n), x), postfix \o toks, e + 1)
      <4>1. clause[e + 1] = x
        BY <2>3
      <4> HIDE DEF x
      <4> QED
        BY <2>1, <2>2, <2>3, <2>4, <3>1, <3>3, <4>1, ParsedOperator
    <3> QED
      BY <2>3, <3>1, <3>5, <3>6
  <2> QED
    BY <1>1, <2>6, <2>7, <2>8, <2>9
<1>4. Usual => i' - 1 = i
  <2>1. Usual => i \in 1 .. Len(clause) + 1 /\ Len(clause) \in Nat
    BY <1>1, ConvertBounds
  <2> QED
    BY <1>1, <2>1
<1>5. ParseInv'
  BY <1>1, <1>2, <1>3, <1>4 DEF ParseInv
<1> QED
  BY <1>1, <1>5 DEF MeaningInv, MeanInv, SelectsByMeaning, ClauseMeans

LEMMA ConvertedMeans ==
  ASSUME CountInv, MeaningInv, Converted
  PROVE  MeaningInv'
<1> DEFINE l == Len(opStack)
           toks == Popped(opStack, l)
<1>1. /\ pc = "convert" /\ pc' = "evaluate" /\ i > Len(whereTokens) /\ i' = 1
      /\ UNCHANGED <<clause, whereTokens, stk, result>>
      /\ pushOut(toks) /\ row' \in Rows
  BY DEF Converted
<1>2. Usual' <=> Usual
  BY <1>1 DEF Usual, Fits, HasSign
<1>3. ASSUME Usual
      PROVE  \E R : /\ Runs(row', postfix', R) /\ R[Len(postfix')] = << Meaning' >>
                    /\ Agrees(stk', R[i' - 1])
  <2>1. /\ opStack \in Seq(OnStack) /\ postfix \in Seq(InPostfix)
        /\ i \in 1 .. Len(clause) + 1 /\ Len(clause) \in Nat
        /\ l \in Nat /\ Len(postfix) \in Nat /\ MAX_POSTFIX \in Nat
        /\ Len(postfix) + l <= i - 1 /\ Len(clause) <= MAX_POSTFIX
        /\ \A s \in Seq(OnStack) : s \in Seq(InPostfix)
    BY <1>1, <1>3, ConvertBounds
  <2>2. /\ Plain(clause) /\ whereTokens = clause /\ ~Expecting(clause)
        /\ Depth(clause, Len(clause)) = 0
    BY <1>1, <1>3, UsualIsPlain DEF CountInv
  <2>3. i - 1 = Len(clause)
    BY <1>1, <2>1, <2>2
  <2>4. toks \in Seq(InPostfix) /\ Len(toks) = l
    <3>1. l \in 0 .. Len(opStack)
      BY <2>1
    <3>2. toks \in Seq(OnStack) /\ Len(toks) = l
      BY <2>1, <3>1, NumOfPopped
    <3> QED
      BY <2>1, <3>2
  <2>5. postfix' = postfix \o toks
    <3>1. Len(postfix) + Len(toks) <= MAX_POSTFIX
      BY <2>1, <2>3, <2>4
    <3> QED
      BY <1>1, <2>1, <2>4, <3>1, PushOutFits
  <2>6. Parsed(clause, row', opStack, postfix, Len(clause))
    BY <1>1, <1>3, <2>3 DEF MeaningInv, ParseInv
  <2>7. Computes(row', postfix', << MeaningOf(clause, row', 1, Len(clause)) >>)
    BY <2>1, <2>2, <2>5, <2>6, ParsedEnd
  <2>8. Meaning' = MeaningOf(clause, row', 1, Len(clause))
    BY <1>1 DEF Meaning, MeaningOf
  <2>9. PICK R : Runs(row', postfix', R) /\ R[Len(postfix')] = << Meaning' >>
    BY <2>7, <2>8 DEF Computes
  <2>10. Agrees(stk', R[i' - 1])
    <3>1. i' - 1 = 0 /\ stk' = << >>
      BY <1>1 DEF CountInv, ConvertInv
    <3>2. R[0] = << >>
      BY <2>9 DEF Runs
    <3> QED
      BY <3>1, <3>2 DEF Agrees
  <2> QED
    BY <2>9, <2>10
<1>4. MeanInv'
  BY <1>2, <1>3 DEF MeanInv
<1> QED
  BY <1>1, <1>4 DEF MeaningInv, ParseInv, SelectsByMeaning, ClauseMeans

(***************************************************************************)
(* applyOp computes what the operator means, where it means anything.      *)
(***************************************************************************)
LEMMA ApplyIsCombine ==
  ASSUME NEW op \in Operators, NEW L \in Values, NEW R \in Values,
         NEW l \in Meant, NEW r \in Meant,
         l.kind = "none" \/ L = l, r.kind = "none" \/ R = r
  PROVE  Combine(op, l, r).kind = "none" \/ applyOp(op, L, R) = Combine(op, l, r)
<1>1. NoMeaning.kind = "none"
  BY DEF NoMeaning
<1>2. CASE op = "and"
  <2>1. CASE Condition(l) /\ Condition(r)
    <3>1. L = l /\ R = r /\ Truth(L) = Holds(l) /\ Truth(R) = Holds(r)
      BY <2>1 DEF Condition, Truth, Holds
    <3>2. Combine(op, l, r) = Bool(Holds(l) /\ Holds(r))
      BY <1>2, <2>1 DEF Combine, Comparing, Logical
    <3>3. applyOp(op, L, R) = Bool(Truth(L) /\ Truth(R))
      BY <1>2 DEF applyOp, Comparing
    <3> QED
      BY <3>1, <3>2, <3>3
  <2>2. CASE ~(Condition(l) /\ Condition(r))
    <3>1. Combine(op, l, r) = NoMeaning
      BY <1>2, <2>2 DEF Combine, Comparing, Logical
    <3> QED
      BY <1>1, <3>1
  <2> QED
    BY <2>1, <2>2
<1>3. CASE op = "or"
  <2>1. CASE Condition(l) /\ Condition(r)
    <3>1. L = l /\ R = r /\ Truth(L) = Holds(l) /\ Truth(R) = Holds(r)
      BY <2>1 DEF Condition, Truth, Holds
    <3>2. Combine(op, l, r) = Bool(Holds(l) \/ Holds(r))
      BY <1>3, <2>1 DEF Combine, Comparing, Logical
    <3>3. applyOp(op, L, R) = Bool(Truth(L) \/ Truth(R))
      BY <1>3 DEF applyOp, Comparing
    <3> QED
      BY <3>1, <3>2, <3>3
  <2>2. CASE ~(Condition(l) /\ Condition(r))
    <3>1. Combine(op, l, r) = NoMeaning
      BY <1>3, <2>2 DEF Combine, Comparing, Logical
    <3> QED
      BY <1>1, <3>1
  <2> QED
    BY <2>1, <2>2
<1>4. CASE op \in Comparing
  <2>1. op # "and" /\ op # "or"
    BY <1>4 DEF Comparing
  <2>2. CASE l.kind = r.kind /\ l.kind \in {"num", "str"}
    <3>1. L = l /\ R = r
      BY <2>2
    <3>2. Combine(op, l, r) = Bool(Compare(op, l.v, r.v))
      BY <1>4, <2>1, <2>2 DEF Combine
    <3>3. applyOp(op, l, r) = IF "str" \in {l.kind, r.kind}
                              THEN Bool(Compare(op, AsText(l), AsText(r)))
                              ELSE Bool(Compare(op, AsNum(l), AsNum(r)))
      BY <1>4, <2>1 DEF applyOp
    <3>4. CASE l.kind = "str"
      <4>1. "str" \in {l.kind, r.kind} /\ AsText(l) = l.v /\ AsText(r) = r.v
        BY <2>2, <3>4 DEF AsText
      <4> QED
        BY <3>1, <3>2, <3>3, <4>1
    <3>5. CASE l.kind = "num"
      <4>1. "str" \notin {l.kind, r.kind} /\ AsNum(l) = l.v /\ AsNum(r) = r.v
        BY <2>2, <3>5 DEF AsNum
      <4> QED
        BY <3>1, <3>2, <3>3, <4>1
    <3> QED
      BY <2>2, <3>4, <3>5
  <2>3. CASE ~(l.kind = r.kind /\ l.kind \in {"num", "str"})
    <3>1. Combine(op, l, r) = NoMeaning
      BY <1>4, <2>1, <2>3 DEF Combine
    <3> QED
      BY <1>1, <3>1
  <2> QED
    BY <2>2, <2>3
<1>5. CASE op \notin Logical \union Comparing
  <2>1. op # "and" /\ op # "or" /\ op \notin Comparing
    BY <1>5 DEF Logical
  <2>2. CASE l.kind = "num" /\ r.kind = "num"
    <3>1. L = l /\ R = r
      BY <2>2
    <3>2. Combine(op, l, r) = Num(Compute(op, l.v, r.v))
      BY <1>5, <2>1, <2>2 DEF Combine
    <3>3. applyOp(op, l, r) = IF "str" \in {l.kind, r.kind} THEN Bool(FALSE)
                              ELSE Num(Compute(op, AsNum(l), AsNum(r)))
      BY <2>1 DEF applyOp
    <3>4. "str" \notin {l.kind, r.kind} /\ AsNum(l) = l.v /\ AsNum(r) = r.v
      BY <2>2 DEF AsNum
    <3> QED
      BY <3>1, <3>2, <3>3, <3>4
  <2>3. CASE ~(l.kind = "num" /\ r.kind = "num")
    <3>1. Combine(op, l, r) = NoMeaning
      BY <1>5, <2>1, <2>3 DEF Combine
    <3> QED
      BY <1>1, <3>1
  <2> QED
    BY <2>2, <2>3
<1> QED
  BY <1>2, <1>3, <1>4, <1>5 DEF Logical

LEMMA EvaluateMeans ==
  ASSUME CountInv, MeaningInv, Evaluate
  PROVE  MeaningInv'
<1> DEFINE x == postfix[i]
           n == Len(stk)
<1>1. /\ pc = "evaluate" /\ i' = i + 1 /\ UNCHANGED <<clause, whereTokens, postfix, row>>
      /\ \/ x \in Operands /\ stk' = Append(stk, row[x]) /\ pc' = pc
         \/ /\ x \in Operators /\ n >= 2 /\ pc' = pc
            /\ stk' = Append(SubSeq(stk, 1, n - 2), applyOp(x, stk[n - 1], stk[n]))
         \/ x \in Operators /\ n < 2 /\ pc' = "done"
         \/ x = "("
  BY DEF Evaluate, Return
<1>2. /\ postfix \in Seq(InPostfix) /\ i \in 1 .. Len(postfix) /\ Len(postfix) \in Nat
      /\ row \in Rows /\ stk \in Seq(Values) /\ n \in Nat
  <2>1. postfix \in Seq(InPostfix) /\ i \in 1 .. Len(postfix) + 1 /\ row \in Rows /\ stk \in Seq(Values)
    BY <1>1 DEF CountInv, EvaluateInv, InPostfix
  <2>2. i <= Len(postfix)
    BY DEF Evaluate
  <2> QED
    BY <2>1, <2>2
<1>3. Usual' <=> Usual
  BY <1>1 DEF Usual, Fits, HasSign
<1>4. Meaning' = Meaning
  BY <1>1 DEF Meaning
<1>5. CASE ~Usual
  BY <1>1, <1>3, <1>5 DEF MeaningInv, ParseInv, MeanInv, SelectsByMeaning, ClauseMeans, Usual, Fits
<1>6. CASE Usual
  <2>1. PICK R : /\ Runs(row, postfix, R) /\ R[Len(postfix)] = << Meaning >>
                 /\ Agrees(stk, R[i - 1])
    BY <1>1, <1>6 DEF MeaningInv, MeanInv
  <2> DEFINE v == R[i - 1]
             v2 == R[i]
  <2>2. Does(row, v, x, v2) /\ v \in Seq(Meant)
    <3>1. i - 1 \in Nat
      BY <1>2
    <3> QED
      BY <1>2, <2>1, <3>1 DEF Runs
  <2>3. /\ Len(v) = n /\ \A k \in 1 .. n : v[k].kind = "none" \/ stk[k] = v[k]
    BY <2>1 DEF Agrees
  <2> HIDE DEF x, v, v2
  <2>4. pc' = pc /\ Agrees(stk', v2)
    <3>1. CASE x \in Operands
      <4>1. /\ x \notin Operators /\ x # "("
        BY <3>1, KindsOfTokens
      <4>2. /\ stk' = Append(stk, row[x]) /\ pc' = pc /\ v2 = Append(v, row[x])
        BY <1>1, <2>2, <3>1, <4>1 DEF Does
      <4>3. /\ Len(stk') = n + 1 /\ Len(v2) = n + 1
            /\ \A k \in 1 .. n : stk'[k] = stk[k] /\ v2[k] = v[k]
            /\ stk'[n + 1] = row[x] /\ v2[n + 1] = row[x]
        BY <1>2, <2>2, <2>3, <4>2
      <4>4. \A k \in 1 .. n + 1 : k \in 1 .. n \/ k = n + 1
        BY <1>2
      <4> QED
        BY <2>3, <4>2, <4>3, <4>4 DEF Agrees
    <3>2. CASE x \in Operators
      <4>1. x \notin Operands /\ x # "("
        BY <3>2, KindsOfTokens
      <4>2. Len(v) >= 2 /\ v2 = Combined(v, x)
        BY <2>2, <3>2, <4>1 DEF Does
      <4> DEFINE m == n - 2
                 below == SubSeq(stk, 1, m)
                 a == applyOp(x, stk[n - 1], stk[n])
                 b == Combine(x, v[n - 1], v[n])
      <4>3. /\ pc' = pc /\ stk' = Append(below, a)
            /\ m \in Nat /\ m + 1 = n - 1 /\ n - 1 \in 1 .. n /\ n \in 1 .. n
            /\ \A k \in 1 .. m : k \in 1 .. n
        BY <1>1, <1>2, <2>3, <3>2, <4>1, <4>2
      <4>4. /\ Len(v2) = m + 1 /\ v2[m + 1] = b
            /\ \A k \in 1 .. m : v2[k] = v[k]
        <5>1. /\ Len(Combined(v, x)) = Len(v) - 1
              /\ \A k \in 1 .. Len(v) - 2 : Combined(v, x)[k] = v[k]
              /\ Combined(v, x)[Len(v) - 1] = Combine(x, v[Len(v) - 1], v[Len(v)])
          BY <2>2, <3>2, <4>2, CombinedShape
        <5> QED
          BY <2>3, <4>2, <4>3, <5>1
      <4>5. b.kind = "none" \/ a = b
        <5>1. stk[n - 1] \in Values /\ stk[n] \in Values
          BY <1>2, <4>3
        <5>2. v[n - 1] \in Meant /\ v[n] \in Meant
          BY <2>2, <2>3, <4>3
        <5>3. /\ v[n - 1].kind = "none" \/ stk[n - 1] = v[n - 1]
              /\ v[n].kind = "none" \/ stk[n] = v[n]
          BY <2>3, <4>3
        <5> QED
          BY <3>2, <5>1, <5>2, <5>3, ApplyIsCombine
      <4>6. a \in Values
        <5>1. stk[n - 1] \in Values /\ stk[n] \in Values
          BY <1>2, <4>3
        <5> QED
          BY <3>2, <5>1, ApplyType
      <4> HIDE DEF m, a, b
      <4>7. below \in Seq(Values) /\ Len(below) = m /\ \A k \in 1 .. m : below[k] = stk[k]
        <5>1. \A k \in 1 .. m : stk[k] \in Values
          BY <1>2, <4>3
        <5>2. 1 \in Int /\ m \in Int
          BY <4>3
        <5>3. /\ below \in Seq(Values) /\ Len(below) = (IF 1 <= m THEN m - 1 + 1 ELSE 0)
              /\ \A k \in 1 .. m - 1 + 1 : below[k] = stk[1 + k - 1]
          BY <5>1, <5>2, SubSeqProperties
        <5>4. m - 1 + 1 = m /\ \A k \in 1 .. m : 1 + k - 1 = k
          BY <4>3
        <5> QED
          BY <4>3, <5>3, <5>4
      <4> HIDE DEF below
      <4>8. /\ Len(stk') = m + 1 /\ stk'[m + 1] = a
            /\ \A k \in 1 .. m : stk'[k] = stk[k]
        <5>1. /\ Len(Append(below, a)) = m + 1 /\ Append(below, a)[m + 1] = a
              /\ \A k \in 1 .. m : Append(below, a)[k] = below[k]
          BY <4>3, <4>6, <4>7
        <5> QED
          BY <4>3, <4>7, <5>1
      <4>9. \A k \in 1 .. m + 1 : k \in 1 .. m \/ k = m + 1
        BY <4>3
      <4> QED
        BY <2>3, <4>3, <4>4, <4>5, <4>8, <4>9 DEF Agrees
    <3> QED
      BY <2>2, <3>1, <3>2 DEF Does
  <2>5. i' - 1 = i
    BY <1>1, <1>2
  <2>6. MeanInv'
    BY <1>1, <1>4, <2>1, <2>4, <2>5 DEF MeanInv, v2
  <2> QED
    BY <1>1, <2>4, <2>6 DEF MeaningInv, ParseInv, SelectsByMeaning, ClauseMeans
<1> QED
  BY <1>5, <1>6

LEMMA EvaluatedMeans ==
  ASSUME CountInv, MeaningInv, Evaluated
  PROVE  MeaningInv'
<1>1. /\ pc = "evaluate" /\ pc' = "done" /\ i > Len(postfix)
      /\ result' = (stk = << >> \/ Truth(stk[Len(stk)]))
      /\ UNCHANGED <<clause, whereTokens, opStack, postfix, stk, i, row>>
  BY DEF Evaluated, Return
<1>2. i - 1 = Len(postfix)
  <2>1. postfix \in Seq(InPostfix) /\ i \in 1 .. Len(postfix) + 1
    BY <1>1 DEF CountInv, EvaluateInv, InPostfix
  <2> QED
    BY <1>1, <2>1
<1>3. HasSign' <=> HasSign
  BY <1>1 DEF HasSign
<1>4. Meaning' = Meaning
  BY <1>1 DEF Meaning
<1>5. ASSUME Usual, Condition(Meaning)
      PROVE  result' = Holds(Meaning)
  <2>1. PICK R : R[Len(postfix)] = << Meaning >> /\ Agrees(stk, R[i - 1])
    BY <1>1, <1>5 DEF MeaningInv, MeanInv
  <2>2. Agrees(stk, << Meaning >>)
    BY <1>2, <2>1
  <2>3. Len(stk) = 1 /\ (Meaning.kind = "none" \/ stk[1] = Meaning)
    BY <2>2 DEF Agrees
  <2>4. stk[1] = Meaning /\ stk # << >>
    BY <1>5, <2>3 DEF Condition
  <2>5. Truth(Meaning) = Holds(Meaning)
    BY <1>5 DEF Condition, Truth, Holds
  <2>6. stk[Len(stk)] = Meaning
    BY <2>3, <2>4
  <2>7. result' = Truth(stk[Len(stk)])
    <3>1. result' = (stk = << >> \/ Truth(stk[Len(stk)])) /\ stk # << >>
      BY <1>1, <2>4
    <3>2. Truth(stk[Len(stk)]) \in BOOLEAN
      BY DEF Truth
    <3> QED
      BY <3>1, <3>2
  <2>8. Truth(stk[Len(stk)]) = Truth(Meaning)
    BY <2>6, Zenon
  <2> QED
    BY <2>5, <2>7, <2>8, Zenon
<1>6. SelectsByMeaning'
  BY <1>1, <1>3, <1>4, <1>5 DEF SelectsByMeaning, ClauseMeans, Usual, Fits
<1> QED
  BY <1>1, <1>6 DEF MeaningInv, ParseInv, MeanInv

LEMMA NextKeepsMeaning == CountInv /\ MeaningInv /\ [Next]_vars => MeaningInv'
<1> SUFFICES ASSUME CountInv, MeaningInv, [Next]_vars PROVE MeaningInv'
  OBVIOUS
<1>1. ASSUME NEW tok, Collect(tok)
      PROVE  MeaningInv'
  <2>1. pc = "collect" /\ pc' = pc
    BY <1>1 DEF Collect
  <2> QED
    BY <2>1 DEF MeaningInv, ParseInv, MeanInv, SelectsByMeaning, ClauseMeans
<1>2. CASE NextStatement
  <2>1. pc' = "collect"
    BY <1>2 DEF NextStatement
  <2> QED
    BY <2>1 DEF MeaningInv, ParseInv, MeanInv, SelectsByMeaning, ClauseMeans
<1>3. CASE UNCHANGED vars
  BY <1>3 DEF vars, MeaningInv, ParseInv, MeanInv, SelectsByMeaning, ClauseMeans, Usual, Fits,
              HasSign, Meaning
<1> QED
  BY <1>1, <1>2, <1>3, EndOfTextMeans, ConvertMeans, ConvertedMeans, EvaluateMeans, EvaluatedMeans
  DEF Next

(***************************************************************************)
(* The rows that a clause selects are those for which it holds.  While the *)
(* text is converted, the postfix computes the meanings of the parts that  *)
(* are complete, and each operator on the stack has its left operand       *)
(* before it; the values of evalWhere are these meanings.                  *)
(***************************************************************************)
THEOREM ClausesSelectByMeaning == Spec => []SelectsByMeaning
<1>1. Init => MeaningInv
  BY DEF Init, MeaningInv, ParseInv, MeanInv, SelectsByMeaning, ClauseMeans
<1>2. MeaningInv => SelectsByMeaning
  BY DEF MeaningInv
<1> QED
  BY <1>1, <1>2, ClauseCounts, NextKeepsMeaning, PTL DEF Spec
=============================================================================
