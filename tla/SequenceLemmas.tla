--------------------------- MODULE SequenceLemmas ---------------------------
(***************************************************************************)
(* Lemmas about sets of naturals and about sequences without repetition:   *)
(* what is in them after an element was taken out, put in or moved.        *)
(***************************************************************************)
EXTENDS SequencesExt, FiniteSetTheorems, SequenceTheorems, TLAPS

\* A non-empty set of naturals has a least element, and Min is it.
LEMMA MinProps ==
    ASSUME NEW T \in SUBSET Nat, T # {}
    PROVE  Min(T) \in T /\ \A y \in T : Min(T) <= y
<1> DEFINE F == {0..x : x \in T}
<1>1. F \subseteq FiniteSubsetsOf(Nat)
  <2>1. \A x \in T : IsFiniteSet(0..x)
    BY FS_Interval
  <2>2. \A x \in T : 0..x \in SUBSET Nat
    OBVIOUS
  <2>3. \A x \in T : 0..x \in FiniteSubsetsOf(Nat)
    BY <2>1, <2>2 DEF FiniteSubsetsOf
  <2> QED
    BY <2>3
<1>2. F # {}
  OBVIOUS
<1>3. PICK I \in F : \A J \in F : ~(<<J, I>> \in StrictSubsetOrdering(Nat))
  <2> HIDE DEF F
  <2>1. IsWellFoundedOn(StrictSubsetOrdering(Nat), FiniteSubsetsOf(Nat))
    BY FS_StrictSubsetOrderingWellFounded
  <2> QED
    BY <1>1, <1>2, <2>1, WFMin
<1>4. PICK x \in T : I = 0..x
  BY <1>3
<1>5. ASSUME NEW y \in T, y < x PROVE FALSE
  <2> DEFINE p == <<0..y, 0..x>>
  <2>1. 0..y \in SUBSET Nat /\ 0..x \in SUBSET Nat /\ 0..y \subseteq 0..x
    BY <1>5
  <2>2. x \in 0..x /\ x \notin 0..y
    BY <1>5
  <2>3. /\ p \in (SUBSET Nat) \X (SUBSET Nat)
        /\ p[1] = 0..y /\ p[2] = 0..x
    BY <2>1
  <2>4. p \in StrictSubsetOrdering(Nat)
    BY <2>1, <2>2, <2>3 DEF StrictSubsetOrdering
  <2> QED
    BY <1>3, <1>4, <2>4
<1>6. \A y \in T : x <= y
  BY <1>5
<1> QED
  BY <1>6 DEF Min

\* A sequence without repetition loses the one place of an element taken out.
LEMMA RemoveFirstProps ==
    ASSUME NEW S, NEW q \in Seq(S), IsInjective(q), NEW e
    PROVE  /\ RemoveFirst(q, e) \in Seq(S)
           /\ IsInjective(RemoveFirst(q, e))
           /\ ToSet(RemoveFirst(q, e)) = ToSet(q) \ {e}
           /\ Len(RemoveFirst(q, e)) = IF e \in ToSet(q) THEN Len(q) - 1 ELSE Len(q)
<1> DEFINE I == {i \in 1..Len(q) : q[i] = e}
           k == Min(I)
           r == RemoveAt(q, k)
           n == Len(q)
<1>0. n \in Nat /\ DOMAIN q = 1..n /\ \A i \in 1..n : q[i] \in S
  BY LenProperties, ElementOfSeq
<1>1. CASE I = {}
  <2>1. RemoveFirst(q, e) = q
    BY <1>1 DEF RemoveFirst
  <2>2. e \notin ToSet(q)
    BY <1>0, <1>1 DEF ToSet
  <2> QED
    BY <2>1, <2>2
<1>2. CASE I # {}
  <2>1. I \in SUBSET Nat
    BY <1>0
  <2>2. k \in I
    <3> HIDE DEF I
    <3> QED
      BY <1>2, <2>1, MinProps
  <2>3. k \in 1..n /\ q[k] = e
    BY <2>2
  <2>4. RemoveFirst(q, e) = r
    BY <1>2 DEF RemoveFirst, SelectInSeq
  <2> DEFINE a == SubSeq(q, 1, k - 1)
             b == SubSeq(q, k + 1, n)
  <2>5. r = a \o b
    BY DEF RemoveAt
  <2> HIDE DEF k, I, r
  <2>6. /\ a \in Seq(S) /\ Len(a) = k - 1
        /\ \A i \in 1..k - 1 : a[i] = q[i]
    <3>1. k - 1 \in Int /\ 1 \in Int /\ \A i \in 1..k - 1 : q[i] \in S
      BY <1>0, <2>3
    <3>2. /\ a \in Seq(S) /\ Len(a) = (IF 1 <= k - 1 THEN k - 1 - 1 + 1 ELSE 0)
          /\ \A i \in 1..k - 1 - 1 + 1 : a[i] = q[1 + i - 1]
      BY <3>1, SubSeqProperties
    <3> HIDE DEF a, b, n
    <3> QED
      BY <3>2, <2>3, <1>0
  <2>7. /\ b \in Seq(S) /\ Len(b) = n - k
        /\ \A i \in 1..n - k : b[i] = q[k + i]
    <3>1. k + 1 \in Int /\ n \in Int /\ \A i \in k + 1..n : q[i] \in S
      BY <1>0, <2>3
    <3>2. /\ b \in Seq(S) /\ Len(b) = (IF k + 1 <= n THEN n - (k + 1) + 1 ELSE 0)
          /\ \A i \in 1..n - (k + 1) + 1 : b[i] = q[k + 1 + i - 1]
      BY <3>1, SubSeqProperties
    <3> HIDE DEF a, b, n
    <3>3. n - (k + 1) + 1 = n - k /\ (k + 1 <= n \/ n - k = 0)
      BY <2>3, <1>0
    <3>4. ASSUME NEW i \in 1..n - k PROVE b[i] = q[k + i]
      <4>1. k + 1 + i - 1 = k + i /\ i \in 1..n - (k + 1) + 1
        BY <2>3, <1>0, <3>3
      <4> QED
        BY <3>2, <4>1
    <3> QED
      BY <3>2, <3>3, <3>4
  <2> HIDE DEF a, b, n
  <2>8. /\ r \in Seq(S) /\ Len(r) = n - 1 /\ DOMAIN r = 1..n - 1
        /\ \A i \in 1..n - 1 : r[i] = IF i < k THEN q[i] ELSE q[i + 1]
    <3>1. r \in Seq(S) /\ Len(r) = Len(a) + Len(b)
      BY <2>5, <2>6, <2>7, ConcatProperties
    <3>2. \A i \in 1..Len(a) + Len(b) :
             r[i] = IF i <= Len(a) THEN a[i] ELSE b[i - Len(a)]
      BY <2>5, <2>6, <2>7, ConcatProperties
    <3> QED
      BY <1>0, <2>3, <2>6, <2>7, <3>1, <3>2, LenProperties
  <2>9. IsInjective(r)
    <3>1. ASSUME NEW i \in 1..n - 1, NEW j \in 1..n - 1, r[i] = r[j] PROVE i = j
      <4> DEFINE f(x) == IF x < k THEN x ELSE x + 1
      <4>1. f(i) \in 1..n /\ f(j) \in 1..n /\ (f(i) = f(j) => i = j)
        BY <1>0, <2>3
      <4>2. r[i] = q[f(i)] /\ r[j] = q[f(j)]
        BY <2>8
      <4>3. f(i) = f(j)
        <5> HIDE DEF f
        <5> QED
          BY <1>0, <3>1, <4>1, <4>2 DEF IsInjective
      <4> QED
        BY <4>1, <4>3
    <3> QED
      BY <2>8, <3>1 DEF IsInjective
  <2>10. ToSet(r) = ToSet(q) \ {e}
    <3>1. ASSUME NEW i \in 1..n - 1 PROVE r[i] \in ToSet(q) \ {e}
      <4> DEFINE j == IF i < k THEN i ELSE i + 1
      <4>1. j \in 1..n /\ j # k
        BY <1>0, <2>3
      <4>2. r[i] = q[j]
        BY <2>8
      <4> HIDE DEF j
      <4>3. q[j] # q[k]
        BY <1>0, <2>3, <4>1 DEF IsInjective
      <4> QED
        BY <1>0, <2>3, <4>1, <4>2, <4>3 DEF ToSet
    <3>2. ASSUME NEW i \in 1..n, q[i] # e PROVE q[i] \in ToSet(r)
      <4>1. CASE i < k
        BY <1>0, <2>3, <2>8, <4>1 DEF ToSet
      <4>2. CASE i > k
        <5>1. i - 1 \in 1..n - 1 /\ r[i - 1] = q[i]
          BY <1>0, <2>3, <2>8, <4>2
        <5> QED
          BY <2>8, <5>1 DEF ToSet
      <4> QED
        BY <1>0, <2>3, <3>2, <4>1, <4>2
    <3> QED
      BY <1>0, <2>8, <3>1, <3>2 DEF ToSet
  <2>11. e \in ToSet(q)
    BY <1>0, <2>3 DEF ToSet
  <2> QED
    BY <2>4, <2>8, <2>9, <2>10, <2>11 DEF n
<1> QED
  BY <1>1, <1>2

\* An element that is not there can be put at the end.
LEMMA AppendProps ==
    ASSUME NEW S, NEW q \in Seq(S), IsInjective(q), NEW e \in S, e \notin ToSet(q)
    PROVE  /\ Append(q, e) \in Seq(S)
           /\ IsInjective(Append(q, e))
           /\ ToSet(Append(q, e)) = ToSet(q) \cup {e}
<1> DEFINE n == Len(q)
           r == Append(q, e)
<1>1. n \in Nat /\ DOMAIN q = 1..n
  BY LenProperties
<1>2. /\ r \in Seq(S) /\ Len(r) = n + 1
      /\ \A i \in 1..n : r[i] = q[i]
      /\ r[n + 1] = e
  BY AppendProperties
<1>3. DOMAIN r = 1..n + 1
  BY <1>2, LenProperties
<1> HIDE DEF n, r
<1>4. \A i \in 1..n + 1 : i \in 1..n \/ i = n + 1
  BY <1>1
<1>5. n + 1 \in 1..n + 1 /\ 1..n \subseteq 1..n + 1
  BY <1>1
<1>6. \A i \in 1..n : q[i] # e
  BY <1>1 DEF ToSet
<1>7. IsInjective(r)
  <2>1. ASSUME NEW i \in 1..n + 1, NEW j \in 1..n + 1, r[i] = r[j] PROVE i = j
    BY <1>1, <1>2, <1>4, <1>6, <2>1 DEF IsInjective
  <2> QED
    BY <1>3, <2>1 DEF IsInjective
<1>8. ToSet(r) = ToSet(q) \cup {e}
  BY <1>1, <1>2, <1>3, <1>4, <1>5 DEF ToSet
<1> QED
  BY <1>2, <1>7, <1>8 DEF r

\* Two sequences that have no element in common can be joined.
LEMMA ConcatProps ==
    ASSUME NEW S, NEW a \in Seq(S), NEW b \in Seq(S), IsInjective(a), IsInjective(b),
           ToSet(a) \cap ToSet(b) = {}
    PROVE  /\ a \o b \in Seq(S)
           /\ IsInjective(a \o b)
           /\ ToSet(a \o b) = ToSet(a) \cup ToSet(b)
<1> DEFINE r == a \o b
           m == Len(a)
           n == Len(b)
<1>1. m \in Nat /\ n \in Nat /\ DOMAIN a = 1..m /\ DOMAIN b = 1..n
  BY LenProperties
<1>2. /\ r \in Seq(S) /\ Len(r) = m + n
      /\ \A i \in 1..m + n : r[i] = IF i <= m THEN a[i] ELSE b[i - m]
  BY ConcatProperties
<1>3. DOMAIN r = 1..m + n
  BY <1>2, LenProperties
<1> HIDE DEF m, n, r
<1>4. ASSUME NEW i \in 1..m + n
      PROVE  \/ i \in 1..m /\ r[i] = a[i] /\ a[i] \in ToSet(a)
             \/ i > m /\ i - m \in 1..n /\ r[i] = b[i - m] /\ b[i - m] \in ToSet(b)
  <2>1. CASE i <= m
    <3>1. i \in 1..m
      BY <1>1, <2>1
    <3> QED
      BY <1>1, <1>2, <2>1, <3>1 DEF ToSet
  <2>2. CASE i > m
    <3>1. i - m \in 1..n /\ ~(i <= m)
      BY <1>1, <2>2
    <3> QED
      BY <1>1, <1>2, <2>2, <3>1 DEF ToSet
  <2> QED
    BY <1>1, <2>1, <2>2
<1>5. IsInjective(r)
  <2>1. ASSUME NEW i \in 1..m + n, NEW j \in 1..m + n, r[i] = r[j] PROVE i = j
    <3>1. CASE i \in 1..m /\ j \in 1..m
      <4>1. a[i] = a[j]
        BY <1>1, <1>4, <2>1, <3>1
      <4> QED
        BY <1>1, <3>1, <4>1 DEF IsInjective
    <3>2. CASE i > m /\ j > m
      <4>1. b[i - m] = b[j - m] /\ i - m \in 1..n /\ j - m \in 1..n
        BY <1>1, <1>4, <2>1, <3>2
      <4>2. i - m = j - m
        BY <1>1, <4>1 DEF IsInjective
      <4> QED
        BY <1>1, <4>2
    <3>3. CASE ~(i \in 1..m /\ j \in 1..m) /\ ~(i > m /\ j > m)
      BY <1>4, <2>1, <3>3
    <3> QED
      BY <3>1, <3>2, <3>3
  <2> QED
    BY <1>3, <2>1 DEF IsInjective
<1>6. ToSet(r) = ToSet(a) \cup ToSet(b)
  <2>1. ToSet(r) \subseteq ToSet(a) \cup ToSet(b)
    BY <1>3, <1>4 DEF ToSet
  <2>2. ASSUME NEW i \in 1..m PROVE a[i] \in ToSet(r)
    <3>1. i \in 1..m + n /\ i <= m
      BY <1>1
    <3> QED
      BY <1>2, <1>3, <3>1 DEF ToSet
  <2>3. ASSUME NEW i \in 1..n PROVE b[i] \in ToSet(r)
    <3>1. i + m \in 1..m + n /\ ~(i + m <= m) /\ (i + m) - m = i
      BY <1>1
    <3> QED
      BY <1>2, <1>3, <3>1 DEF ToSet
  <2> QED
    BY <1>1, <2>1, <2>2, <2>3 DEF ToSet
<1> QED
  BY <1>2, <1>5, <1>6 DEF r

\* A sequence cut in two.
LEMMA SplitProps ==
    ASSUME NEW S, NEW q \in Seq(S), IsInjective(q), NEW k \in 0..Len(q)
    PROVE  LET a == SubSeq(q, 1, k)
               b == SubSeq(q, k + 1, Len(q))
           IN  /\ a \in Seq(S) /\ IsInjective(a) /\ Len(a) = k
               /\ \A i \in 1..k : a[i] = q[i]
               /\ b \in Seq(S) /\ IsInjective(b) /\ Len(b) = Len(q) - k
               /\ \A i \in 1..Len(q) - k : b[i] = q[k + i]
               /\ ToSet(a) \cap ToSet(b) = {}
               /\ ToSet(a) \cup ToSet(b) = ToSet(q)
<1> DEFINE n == Len(q)
           a == SubSeq(q, 1, k)
           b == SubSeq(q, k + 1, n)
<1>0. n \in Nat /\ DOMAIN q = 1..n /\ \A i \in 1..n : q[i] \in S
  BY LenProperties, ElementOfSeq
<1>1. k \in Nat /\ k <= n
  BY <1>0
<1>2. /\ a \in Seq(S) /\ Len(a) = k
      /\ \A i \in 1..k : a[i] = q[i]
  <2>1. \A i \in 1..k : q[i] \in S
    BY <1>0, <1>1
  <2>2. /\ a \in Seq(S) /\ Len(a) = (IF 1 <= k THEN k - 1 + 1 ELSE 0)
        /\ \A i \in 1..k - 1 + 1 : a[i] = q[1 + i - 1]
    BY <1>1, <2>1, SubSeqProperties
  <2> HIDE DEF a, n
  <2> QED
    BY <1>1, <2>2
<1>3. /\ b \in Seq(S) /\ Len(b) = n - k
      /\ \A i \in 1..n - k : b[i] = q[k + i]
  <2>1. k + 1 \in Int /\ n \in Int /\ \A i \in k + 1..n : q[i] \in S
    BY <1>0, <1>1
  <2>2. /\ b \in Seq(S) /\ Len(b) = (IF k + 1 <= n THEN n - (k + 1) + 1 ELSE 0)
        /\ \A i \in 1..n - (k + 1) + 1 : b[i] = q[k + 1 + i - 1]
    BY <2>1, SubSeqProperties
  <2> HIDE DEF b, n
  <2>3. n - (k + 1) + 1 = n - k /\ (k + 1 <= n \/ n - k = 0)
    BY <1>0, <1>1
  <2>4. ASSUME NEW i \in 1..n - k PROVE b[i] = q[k + i]
    <3>1. k + 1 + i - 1 = k + i /\ i \in 1..n - (k + 1) + 1
      BY <1>0, <1>1, <2>3
    <3> QED
      BY <2>2, <3>1
  <2> QED
    BY <2>2, <2>3, <2>4
<1>4. DOMAIN a = 1..k /\ DOMAIN b = 1..n - k
  BY <1>2, <1>3, LenProperties
<1> HIDE DEF a, b, n
<1>5. ASSUME NEW i \in 1..n, NEW j \in 1..n, q[i] = q[j] PROVE i = j
  BY <1>0, <1>5 DEF IsInjective
<1>6. \A i \in 1..k : i \in 1..n
  BY <1>0, <1>1
<1>7. \A i \in 1..n - k : k + i \in 1..n /\ k + i > k
  BY <1>0, <1>1
<1>8. IsInjective(a)
  BY <1>2, <1>4, <1>5, <1>6 DEF IsInjective
<1>9. IsInjective(b)
  <2>1. ASSUME NEW i \in 1..n - k, NEW j \in 1..n - k, b[i] = b[j] PROVE i = j
    <3>1. k + i = k + j
      BY <1>3, <1>5, <1>7, <2>1
    <3> QED
      BY <1>1, <3>1
  <2> QED
    BY <1>4, <2>1 DEF IsInjective
<1>10. ToSet(a) \cap ToSet(b) = {}
  <2>1. ASSUME NEW i \in 1..k, NEW j \in 1..n - k PROVE a[i] # b[j]
    <3>1. i # k + j
      BY <1>1
    <3>2. i \in 1..n /\ k + j \in 1..n
      BY <1>6, <1>7
    <3>3. q[i] # q[k + j]
      BY <1>5, <3>1, <3>2
    <3> QED
      BY <1>2, <1>3, <3>3
  <2> QED
    BY <1>4, <2>1 DEF ToSet
<1>11. ToSet(a) \cup ToSet(b) = ToSet(q)
  <2>1. ToSet(a) \subseteq ToSet(q) /\ ToSet(b) \subseteq ToSet(q)
    <3>1. \A i \in 1..k : a[i] \in ToSet(q)
      BY <1>0, <1>2, <1>6 DEF ToSet
    <3>2. \A i \in 1..n - k : b[i] \in ToSet(q)
      BY <1>0, <1>3, <1>7 DEF ToSet
    <3> QED
      BY <1>4, <3>1, <3>2 DEF ToSet
  <2>2. ASSUME NEW i \in 1..n PROVE q[i] \in ToSet(a) \cup ToSet(b)
    <3>1. CASE i <= k
      <4>1. i \in 1..k
        BY <1>1, <3>1
      <4> QED
        BY <1>2, <1>4, <4>1 DEF ToSet
    <3>2. CASE i > k
      <4>1. i - k \in 1..n - k /\ k + (i - k) = i
        BY <1>0, <1>1, <3>2
      <4> QED
        BY <1>3, <1>4, <4>1 DEF ToSet
    <3> QED
      BY <1>1, <3>1, <3>2
  <2> QED
    BY <1>0, <2>1, <2>2 DEF ToSet
<1> QED
  BY <1>2, <1>3, <1>8, <1>9, <1>10, <1>11 DEF a, b, n

\* A sequence of one element.
LEMMA OneProps ==
    ASSUME NEW S, NEW e \in S
    PROVE  /\ <<e>> \in Seq(S) /\ IsInjective(<<e>>) /\ ToSet(<<e>>) = {e}
           /\ Len(<<e>>) = 1 /\ <<e>>[1] = e /\ DOMAIN <<e>> = {1}
BY DEF IsInjective, ToSet

\* A new element can be put anywhere.
LEMMA InsertAtProps ==
    ASSUME NEW S, NEW q \in Seq(S), IsInjective(q), NEW k \in 0..Len(q),
           NEW e \in S, e \notin ToSet(q)
    PROVE  /\ InsertAt(q, k + 1, e) \in Seq(S)
           /\ IsInjective(InsertAt(q, k + 1, e))
           /\ ToSet(InsertAt(q, k + 1, e)) = ToSet(q) \cup {e}
<1> DEFINE a == SubSeq(q, 1, k)
           b == SubSeq(q, k + 1, Len(q))
           z == <<e>>
           c == a \o z
<1>1. /\ a \in Seq(S) /\ IsInjective(a) /\ b \in Seq(S) /\ IsInjective(b)
      /\ ToSet(a) \cap ToSet(b) = {} /\ ToSet(a) \cup ToSet(b) = ToSet(q)
  BY SplitProps
<1>2. z \in Seq(S) /\ IsInjective(z) /\ ToSet(z) = {e}
  BY OneProps
<1>3. InsertAt(q, k + 1, e) = c \o b
  <2>1. (k + 1) - 1 = k
    BY LenProperties
  <2> QED
    BY <2>1 DEF InsertAt
<1> HIDE DEF a, b, z
<1>4. c \in Seq(S) /\ IsInjective(c) /\ ToSet(c) = ToSet(a) \cup {e}
  BY <1>1, <1>2, ConcatProps
<1> HIDE DEF c
<1>5. c \o b \in Seq(S) /\ IsInjective(c \o b) /\ ToSet(c \o b) = ToSet(c) \cup ToSet(b)
  BY <1>1, <1>4, ConcatProps
<1> QED
  BY <1>1, <1>3, <1>4, <1>5

\* Its elements can be moved round by one place.
LEMMA RotateProps ==
    ASSUME NEW S, NEW q \in Seq(S), IsInjective(q), q # <<>>,
           NEW r \in {<<Last(q)>> \o Front(q), Tail(q) \o <<Head(q)>>}
    PROVE  /\ r \in Seq(S) /\ IsInjective(r) /\ ToSet(r) = ToSet(q)
<1> DEFINE n == Len(q)
<1>1. n \in Nat \ {0} /\ DOMAIN q = 1..n /\ \A i \in 1..n : q[i] \in S
  BY LenProperties, ElementOfSeq, EmptySeq
<1>2. 1 \in 0..n /\ 1 \in 1..n /\ n - 1 \in 0..n /\ n \in 1..n
  <2> HIDE DEF n
  <2> QED
    BY <1>1
<1>3. CASE r = <<Last(q)>> \o Front(q)
  <2> DEFINE a == SubSeq(q, 1, n - 1)
             b == SubSeq(q, (n - 1) + 1, n)
             z == <<q[n]>>
  <2>2. /\ a \in Seq(S) /\ IsInjective(a) /\ b \in Seq(S) /\ Len(b) = n - (n - 1)
        /\ \A i \in 1..n - (n - 1) : b[i] = q[(n - 1) + i]
        /\ ToSet(a) \cap ToSet(b) = {} /\ ToSet(a) \cup ToSet(b) = ToSet(q)
    BY <1>2, SplitProps
  <2>3. r = z \o a
    BY <1>3 DEF Last, Front
  <2>4. z \in Seq(S) /\ IsInjective(z) /\ ToSet(z) = {q[n]}
    BY <1>1, <1>2, OneProps
  <2>5. ToSet(b) = {q[n]}
    <3> HIDE DEF a, b, n
    <3>1. n - (n - 1) = 1 /\ (n - 1) + 1 = n
      BY <1>1
    <3>2. DOMAIN b = 1..1 /\ b[1] = q[n]
      BY <2>2, <3>1, LenProperties
    <3> QED
      BY <3>2 DEF ToSet
  <2> HIDE DEF a, b, z
  <2>6. r \in Seq(S) /\ IsInjective(r) /\ ToSet(r) = ToSet(z) \cup ToSet(a)
    BY <2>2, <2>3, <2>4, <2>5, ConcatProps
  <2> QED
    BY <2>2, <2>4, <2>5, <2>6
<1>4. CASE r = Tail(q) \o <<Head(q)>>
  <2> DEFINE a == SubSeq(q, 1, 1)
             b == SubSeq(q, 1 + 1, n)
             z == <<q[1]>>
  <2>2. /\ a \in Seq(S) /\ Len(a) = 1 /\ \A i \in 1..1 : a[i] = q[i]
        /\ b \in Seq(S) /\ IsInjective(b)
        /\ ToSet(a) \cap ToSet(b) = {} /\ ToSet(a) \cup ToSet(b) = ToSet(q)
    BY <1>2, SplitProps
  <2>3. r = b \o z
    BY <1>4, TailIsSubSeq DEF n
  <2>4. z \in Seq(S) /\ IsInjective(z) /\ ToSet(z) = {q[1]}
    BY <1>1, <1>2, OneProps
  <2>5. ToSet(a) = {q[1]}
    <3> HIDE DEF a, b, n
    <3>1. DOMAIN a = 1..1 /\ a[1] = q[1]
      BY <2>2, LenProperties
    <3> QED
      BY <3>1 DEF ToSet
  <2> HIDE DEF a, b, z
  <2>6. r \in Seq(S) /\ IsInjective(r) /\ ToSet(r) = ToSet(b) \cup ToSet(z)
    BY <2>2, <2>3, <2>4, <2>5, ConcatProps
  <2> QED
    BY <2>2, <2>4, <2>5, <2>6
<1> QED
  BY <1>3, <1>4

\* It has as many places then.
LEMMA RotateLen ==
    ASSUME NEW S, NEW q \in Seq(S), q # <<>>,
           NEW r \in {<<Last(q)>> \o Front(q), Tail(q) \o <<Head(q)>>}
    PROVE  r \in Seq(S) /\ Len(r) = Len(q)
<1> DEFINE n == Len(q)
           a == Front(q)
           b == Tail(q)
<1>1. n \in Nat \ {0} /\ \A i \in 1..n : q[i] \in S
  BY LenProperties, ElementOfSeq, EmptySeq
<1>2. b \in Seq(S) /\ Len(b) = n - 1 /\ Head(q) \in S
  BY HeadTailProperties
<1>3. a = SubSeq(q, 1, n - 1) /\ Last(q) = q[n]
  BY DEF Front, Last
<1> HIDE DEF n, a, b
<1>4. n \in 1..n /\ n - 1 \in Int /\ \A i \in 1..n - 1 : i \in 1..n
  BY <1>1
<1>5. a \in Seq(S) /\ Len(a) = n - 1
  <2>1. /\ a \in Seq(S)
        /\ Len(a) = IF 1 <= n - 1 THEN n - 1 - 1 + 1 ELSE 0
    BY <1>1, <1>3, <1>4, SubSeqProperties
  <2> QED
    BY <1>1, <2>1
<1>6. ASSUME NEW e \in S, NEW c \in Seq(S), Len(c) = n - 1
      PROVE  /\ <<e>> \o c \in Seq(S) /\ Len(<<e>> \o c) = n
             /\ c \o <<e>> \in Seq(S) /\ Len(c \o <<e>>) = n
  <2> DEFINE z == <<e>>
  <2>1. z \in Seq(S) /\ Len(z) = 1
    BY OneProps
  <2> HIDE DEF z
  <2>2. /\ z \o c \in Seq(S) /\ Len(z \o c) = Len(z) + Len(c)
        /\ c \o z \in Seq(S) /\ Len(c \o z) = Len(c) + Len(z)
    BY <2>1, ConcatProperties
  <2> QED
    BY <1>1, <1>6, <2>1, <2>2 DEF z
<1>7. Last(q) \in S
  BY <1>1, <1>3, <1>4
<1>8. CASE r = <<Last(q)>> \o a
  BY <1>5, <1>6, <1>7, <1>8 DEF n
<1>9. CASE r = b \o <<Head(q)>>
  BY <1>2, <1>6, <1>9 DEF n
<1> QED
  BY <1>8, <1>9 DEF a, b

=============================================================================
