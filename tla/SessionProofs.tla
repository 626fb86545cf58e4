---------------------------- MODULE SessionProofs ----------------------------
(***************************************************************************)
(* The invariants of Session, its reference counts and kill-window, for    *)
(* every number of sessions, windows and indexes.                          *)
(***************************************************************************)
EXTENDS Session, SequenceLemmas

(***************************************************************************)
(* The operators on one session structure: what the stack filter keeps,    *)
(* that they stay within SesType, and which windows they leave linked.     *)
(***************************************************************************)

\* A non-empty set of indexes has a greatest element, and Max is it.
LEMMA MaxProps ==
    ASSUME NEW T \in SUBSET Idx, T # {}
    PROVE  Max(T) \in T /\ \A y \in T : Max(T) >= y
<1> DEFINE U == {MaxIdx - x : x \in T}
<1>1. \A x \in T : MaxIdx - x \in Nat
  BY IndexAssumption DEF Idx
<1>2. U \in SUBSET Nat /\ U # {}
  BY <1>1
<1>3. Min(U) \in U /\ \A y \in U : Min(U) <= y
  <2> HIDE DEF U
  <2> QED
    BY <1>2, MinProps
<1>4. PICK x \in T : Min(U) = MaxIdx - x
  BY <1>3
<1>5. ASSUME NEW y \in T PROVE x >= y
  <2>1. MaxIdx - y \in U
    OBVIOUS
  <2>2. MaxIdx - x <= MaxIdx - y
    BY <1>3, <1>4, <2>1
  <2> QED
    BY <2>2, IndexAssumption DEF Idx
<1> QED
  BY <1>5 DEF Max

\* Every rank up to the size of a finite set of positive naturals is taken.
LEMMA RankOnto ==
    ASSUME NEW n \in Nat, NEW K \in SUBSET (1..n), NEW j \in 1..Cardinality(K)
    PROVE  \E k \in K : Cardinality({x \in K : x <= k}) = j
<1> DEFINE L(m) == {x \in K : x <= m}
           M    == {m \in 0..n : Cardinality(L(m)) >= j}
<1>1. IsFiniteSet(K) /\ Cardinality(K) \in Nat
  <2>1. IsFiniteSet(1..n)
    BY FS_Interval
  <2>2. IsFiniteSet(K)
    BY <2>1, FS_Subset
  <2> QED
    BY <2>2, FS_CardinalityType
<1>2. \A m \in 0..n : IsFiniteSet(L(m)) /\ Cardinality(L(m)) \in Nat
  <2> TAKE m \in 0..n
  <2>1. L(m) \in SUBSET K
    OBVIOUS
  <2>2. IsFiniteSet(L(m))
    BY <1>1, <2>1, FS_Subset
  <2> QED
    BY <2>2, FS_CardinalityType
<1>3. n \in M
  <2>1. \A x \in K : x <= n
    OBVIOUS
  <2>2. L(n) = K
    BY <2>1
  <2> QED
    BY <2>2, <1>1
<1>4. PICK k \in M : \A m \in M : k <= m
  <2>1. M \in SUBSET Nat
    <3> HIDE DEF L
    <3> QED
      OBVIOUS
  <2> HIDE DEF M
  <2>2. Min(M) \in M /\ \A m \in M : Min(M) <= m
    BY <1>3, <2>1, MinProps
  <2> QED
    BY <2>2
<1>5. k \in 1..n
  <2>1. \A x \in K : ~(x <= 0)
    OBVIOUS
  <2>2. L(0) = {}
    BY <2>1
  <2>3. Cardinality(L(0)) = 0
    BY <2>2, FS_EmptySet
  <2> QED
    BY <2>3, <1>4
<1>5a. k - 1 \in 0..n
  BY <1>5
<1>5b. IsFiniteSet(L(k - 1)) /\ Cardinality(L(k - 1)) \in Nat
  <2> HIDE DEF L
  <2> QED
    BY <1>2, <1>5a
<1>6. Cardinality(L(k - 1)) < j
  <2> SUFFICES ASSUME Cardinality(L(k - 1)) >= j PROVE FALSE
    BY <1>1, <1>5b
  <2> HIDE DEF L
  <2>1. k - 1 \in M
    BY <1>5a
  <2> QED
    BY <2>1, <1>4, <1>5
<1>7. Cardinality(L(k)) >= j
  BY <1>4
<1>8. k \in K
  <2> SUFFICES ASSUME k \notin K PROVE FALSE
    OBVIOUS
  <2>1. \A x \in K : x <= k <=> x <= k - 1
    BY <1>5
  <2>2. L(k) = L(k - 1)
    BY <2>1
  <2>3. Cardinality(L(k)) \in Nat
    BY <1>2, <1>5
  <2> QED
    BY <2>2, <2>3, <1>6, <1>7, <1>1
<1>9. Cardinality(L(k)) = Cardinality(L(k - 1)) + 1
  <2>1. \A x \in K : x <= k <=> x <= k - 1 \/ x = k
    BY <1>5
  <2>2. L(k) = L(k - 1) \cup {k}
    BY <1>8, <2>1
  <2>3. k \notin L(k - 1)
    BY <1>5
  <2> HIDE DEF L
  <2> QED
    BY <2>2, <2>3, <1>5b, FS_AddElement
<1>10. Cardinality(L(k)) = j
  <2> HIDE DEF L
  <2> QED
    BY <1>6, <1>7, <1>9, <1>1, <1>5b
<1> QED
  BY <1>8, <1>10

\* What Keep leaves of a stack is of the stack and in T, and it repeats
\* nothing that the stack does not repeat.
Distinct(q) == \A j, k \in DOMAIN q : q[j] = q[k] => j = k

LEMMA KeepProps ==
    ASSUME NEW q \in Seq(Idx), NEW T
    PROVE  /\ Keep(q, T) \in Seq(Idx)
           /\ \A j \in DOMAIN Keep(q, T) :
                 Keep(q, T)[j] \in T /\ \E k \in DOMAIN q : Keep(q, T)[j] = q[k]
           /\ Distinct(q) => Distinct(Keep(q, T))
<1> DEFINE K    == {k \in 1..Len(q) : q[k] \in T}
           c(j) == CHOOSE k \in K : Cardinality({x \in K : x <= k}) = j
<1>1. Len(q) \in Nat /\ DOMAIN q = 1..Len(q) /\ \A k \in 1..Len(q) : q[k] \in Idx
  BY LenProperties
<1>2. IsFiniteSet(K) /\ Cardinality(K) \in Nat /\ K \in SUBSET (1..Len(q))
  <2>1. IsFiniteSet(1..Len(q)) /\ K \in SUBSET (1..Len(q))
    BY <1>1, FS_Interval
  <2>2. IsFiniteSet(K)
    BY <2>1, FS_Subset
  <2> QED
    BY <2>1, <2>2, FS_CardinalityType
<1>3. \A j \in 1..Cardinality(K) :
         c(j) \in K /\ Cardinality({x \in K : x <= c(j)}) = j
  <2> TAKE j \in 1..Cardinality(K)
  <2>1. \E k \in K : Cardinality({x \in K : x <= k}) = j
    <3> HIDE DEF K
    <3> QED
      BY <1>1, <1>2, RankOnto
  <2> QED
    BY <2>1
<1>4. Keep(q, T) = [j \in 1..Cardinality(K) |-> q[c(j)]]
  BY DEF Keep
<1>5. \A j \in 1..Cardinality(K) : q[c(j)] \in Idx /\ q[c(j)] \in T
  BY <1>1, <1>3
<1> HIDE DEF c, K
<1>6. Keep(q, T) \in Seq(Idx)
  BY <1>2, <1>4, <1>5
<1>7. \A j \in DOMAIN Keep(q, T) :
         Keep(q, T)[j] \in T /\ \E k \in DOMAIN q : Keep(q, T)[j] = q[k]
  BY <1>1, <1>3, <1>4, <1>5 DEF K
<1>8. ASSUME Distinct(q) PROVE Distinct(Keep(q, T))
  <2> SUFFICES ASSUME NEW i \in 1..Cardinality(K), NEW j \in 1..Cardinality(K),
                      q[c(i)] = q[c(j)]
               PROVE  i = j
    BY <1>4 DEF Distinct
  <2>1. c(i) = c(j)
    BY <1>1, <1>3, <1>8 DEF Distinct, K
  <2> QED
    BY <2>1, <1>3
<1> QED
  BY <1>6, <1>7, <1>8

(***************************************************************************)
(* The operators on session structures stay within SesType.                *)
(***************************************************************************)
LEMMA GoType ==
    ASSUME NEW S \in SesType, NEW i \in Idx
    PROVE  /\ Go(S, i) \in SesType
           /\ Go(S, i).wl = S.wl /\ Go(S, i).curw = i
<1> DEFINE K == Keep(S.lastw, Idx \ {i, S.curw})
           q == (IF S.curw = NoIdx THEN <<>> ELSE <<S.curw>>) \o K
<1>1. S.lastw \in Seq(Idx) /\ S.curw \in Idx \cup {NoIdx}
  BY DEF SesType
<1>2. K \in Seq(Idx)
  BY <1>1, KeepProps
<1>3. q \in Seq(Idx)
  <2> DEFINE h == IF S.curw = NoIdx THEN <<>> ELSE <<S.curw>>
  <2>1. h \in Seq(Idx)
    BY <1>1
  <2> HIDE DEF h, K
  <2>2. h \o K \in Seq(Idx)
    BY <1>2, <2>1, ConcatProperties
  <2> QED
    BY <2>2 DEF h
<1>4. Go(S, i) = [S EXCEPT !.curw = i, !.lastw = q, !.alerts = @ \ {i}]
  BY DEF Go
<1> HIDE DEF q
<1> QED
  BY <1>3, <1>4 DEF SesType

LEMMA SelectType ==
    ASSUME NEW S \in SesType, NEW i
    PROVE  SessionSelect(S, i) \in SesType /\ SessionSelect(S, i).wl = S.wl
<1>1. CASE i \in Linked(S) \ {S.curw}
  <2>1. i \in Idx
    BY <1>1 DEF Linked
  <2> QED
    BY <1>1, <2>1, GoType DEF SessionSelect
<1>2. CASE i \notin Linked(S) \ {S.curw}
  BY <1>2 DEF SessionSelect
<1> QED
  BY <1>1, <1>2

LEMMA StepType ==
    ASSUME NEW S \in SesType, NEW T
    PROVE  /\ SessionNext(S, T) \in SesType /\ SessionNext(S, T).wl = S.wl
           /\ SessionPrevious(S, T) \in SesType /\ SessionPrevious(S, T).wl = S.wl
           /\ SessionLast(S) \in SesType /\ SessionLast(S).wl = S.wl
           /\ MoveOff(S) \in SesType /\ MoveOff(S).wl = S.wl
<1>1. \A U : SessionNext(S, U) \in SesType /\ SessionNext(S, U).wl = S.wl
  BY SelectType DEF SessionNext
<1>2. \A U : /\ SessionPrevious(S, U) \in SesType
             /\ SessionPrevious(S, U).wl = S.wl
  BY SelectType DEF SessionPrevious
<1>3. SessionLast(S) \in SesType /\ SessionLast(S).wl = S.wl
  BY SelectType DEF SessionLast
<1> QED
  BY <1>1, <1>2, <1>3 DEF MoveOff

LEMMA UnlinkType ==
    ASSUME NEW S \in SesType, NEW i \in Idx
    PROVE  /\ Unlink(S, i) \in SesType
           /\ Unlink(S, i).wl = [S.wl EXCEPT ![i] = NoWindow]
<1>1. Keep(S.lastw, Idx \ {i}) \in Seq(Idx)
  BY KeepProps DEF SesType
<1> QED
  BY <1>1 DEF Unlink, SesType

LEMMA DetachType ==
    ASSUME NEW S \in SesType, NEW i \in Idx
    PROVE  /\ Detach(S, i) \in SesType
           /\ Detach(S, i).wl = [S.wl EXCEPT ![i] = NoWindow]
<1> DEFINE M == IF S.curw = i THEN MoveOff(S) ELSE S
<1>1. M \in SesType /\ M.wl = S.wl
  BY StepType
<1> HIDE DEF M
<1>2. Unlink(M, i) \in SesType /\ Unlink(M, i).wl = [S.wl EXCEPT ![i] = NoWindow]
  BY <1>1, UnlinkType
<1> QED
  BY <1>2 DEF Detach, M

LEMMA ReplaceType ==
    ASSUME NEW S \in SesType, NEW i \in Idx
    PROVE  /\ Replace(S, i) \in SesType
           /\ Replace(S, i).wl = [S.wl EXCEPT ![i] = NoWindow]
<1> DEFINE U == Unlink(S, i)
<1>1. U \in SesType /\ U.wl = [S.wl EXCEPT ![i] = NoWindow]
  BY UnlinkType
<1>2. Replace(S, i) = [U EXCEPT !.curw = IF @ = i THEN NoIdx ELSE @]
  BY DEF Replace
<1> HIDE DEF U
<1> QED
  BY <1>1, <1>2 DEF SesType

LEMMA PutType ==
    ASSUME NEW S \in SesType, NEW i \in Idx, NEW w \in WindowId \cup {NoWindow}
    PROVE  /\ [S EXCEPT !.wl[i] = w] \in SesType
           /\ [S EXCEPT !.wl[i] = w].wl = [S.wl EXCEPT ![i] = w]
  BY DEF SesType

\* session_group_synchronize1 copies the windows of T, if T has any.
LEMMA SyncedType ==
    ASSUME NEW S \in SesType, NEW T \in SesType
    PROVE  /\ Synced(T, S) \in SesType
           /\ Synced(T, S).wl = IF Linked(T) = {} THEN S.wl ELSE T.wl
<1>1. CASE Linked(T) = {}
  BY <1>1 DEF Synced
<1>2. CASE Linked(T) # {}
  <2> DEFINE gone  == S.curw # NoIdx /\ S.curw \notin Linked(T)
             moved == IF gone THEN MoveOff(S) ELSE S
             cur   == IF moved.curw # NoIdx THEN moved.curw ELSE T.curw
             new   == IF cur \in Linked(T) THEN cur ELSE NoIdx
  <2>1. moved \in SesType
    BY StepType
  <2> HIDE DEF moved
  <2>2. Keep(moved.lastw, Linked(T)) \in Seq(Idx)
    BY <2>1, KeepProps DEF SesType
  <2>3. new \in Idx \cup {NoIdx}
    BY DEF Linked
  <2> HIDE DEF new
  <2>4. Synced(T, S) = [wl     |-> T.wl,
                        curw   |-> new,
                        lastw  |-> Keep(moved.lastw, Linked(T)),
                        alerts |-> T.alerts]
    BY <1>2 DEF Synced, new, moved
  <2> QED
    BY <1>2, <2>2, <2>3, <2>4 DEF SesType
<1> QED
  BY <1>1, <1>2

\* winlink_add uses an index, a free one, or none.
LEMMA AddIndexType ==
    ASSUME NEW S \in SesType, NEW idx \in Idx \cup {NoIdx}
    PROVE  AddIndex(S, idx) \in (Idx \ Linked(S)) \cup {NoIdx}
<1> DEFINE free == Idx \ Linked(S)
           up   == {i \in free : i >= BaseIndex}
<1>1. free \in SUBSET Nat /\ up \in SUBSET Nat
  BY DEF Idx
<1>2. free # {} => Min(free) \in free
  <2> HIDE DEF free
  <2> QED
    BY <1>1, MinProps
<1>3. up # {} => Min(up) \in up
  <2> HIDE DEF up
  <2> QED
    BY <1>1, MinProps
<1> QED
  BY <1>2, <1>3 DEF AddIndex

(***************************************************************************)
(* The stack and the current window.                                       *)
(***************************************************************************)
\* The stack holds linked windows, not the current one, none twice.
StackOK(S) == /\ \A k \in DOMAIN S.lastw : S.lastw[k] \in Linked(S) \ {S.curw}
              /\ Distinct(S.lastw)

Sound(S) == S.curw \in Linked(S) /\ StackOK(S)

\* Selecting a linked window leaves a sound session, even one that had no
\* current window.
LEMMA SelectSound ==
    ASSUME NEW S \in SesType, StackOK(S), NEW i \in Linked(S) \ {S.curw},
           S.curw \in Linked(S) \cup {NoIdx}
    PROVE  Sound(SessionSelect(S, i)) /\ SessionSelect(S, i).curw = i
<1> DEFINE h == IF S.curw = NoIdx THEN <<>> ELSE <<S.curw>>
           K == Keep(S.lastw, Idx \ {i, S.curw})
           G == Go(S, i)
<1>1. i \in Idx /\ S.lastw \in Seq(Idx) /\ SessionSelect(S, i) = G
  BY DEF Linked, SesType, SessionSelect
<1>2. G \in SesType /\ G.wl = S.wl /\ G.curw = i
  BY <1>1, GoType
<1>3. Linked(G) = Linked(S)
  BY <1>2 DEF Linked
<1>4. G.lastw = h \o K
  BY DEF Go, SesType
<1>5. /\ K \in Seq(Idx)
      /\ \A j \in DOMAIN K : K[j] \in Linked(S) \ {i, S.curw}
      /\ Distinct(K)
  <2>1. \A k \in DOMAIN S.lastw : S.lastw[k] \in Linked(S)
    BY DEF StackOK
  <2> QED
    BY <1>1, <2>1, KeepProps DEF StackOK
<1>6. h \in Seq(Idx) /\ (h = <<>> \/ (h = <<S.curw>> /\ S.curw \in Linked(S)))
  BY DEF Linked
<1> HIDE DEF h, K, G
<1>7. /\ Len(h) \in Nat /\ Len(K) \in Nat
      /\ DOMAIN h = 1..Len(h) /\ DOMAIN K = 1..Len(K)
  BY <1>5, <1>6, LenProperties
<1>8. /\ DOMAIN G.lastw = 1..(Len(h) + Len(K))
      /\ \A k \in DOMAIN G.lastw :
            G.lastw[k] = IF k <= Len(h) THEN h[k] ELSE K[k - Len(h)]
  <2>1. /\ h \o K \in Seq(Idx) /\ Len(h \o K) = Len(h) + Len(K)
        /\ \A k \in 1..(Len(h) + Len(K)) :
              (h \o K)[k] = IF k <= Len(h) THEN h[k] ELSE K[k - Len(h)]
    BY <1>5, <1>6, ConcatProperties
  <2>2. DOMAIN (h \o K) = 1..Len(h \o K)
    BY <2>1, LenProperties
  <2> QED
    BY <2>1, <2>2, <1>4
<1>9. CASE h = <<>>
  <2>1. Len(h) = 0
    BY <1>9
  <2>2. \A k \in DOMAIN G.lastw : k \in DOMAIN K /\ G.lastw[k] = K[k]
    BY <2>1, <1>7, <1>8
  <2> QED
    BY <2>2, <1>1, <1>2, <1>3, <1>5 DEF Sound, StackOK, Distinct
<1>10. CASE h = <<S.curw>> /\ S.curw \in Linked(S)
  <2>1. Len(h) = 1 /\ h[1] = S.curw
    BY <1>10
  <2>2. \A k \in DOMAIN G.lastw :
           \/ k = 1 /\ G.lastw[k] = S.curw
           \/ k # 1 /\ k - 1 \in DOMAIN K /\ G.lastw[k] = K[k - 1]
    BY <2>1, <1>7, <1>8
  <2>3. \A k \in DOMAIN G.lastw : G.lastw[k] \in Linked(S) \ {i}
    BY <2>2, <1>5, <1>10
  <2>4. Distinct(G.lastw)
    <3> SUFFICES ASSUME NEW j \in DOMAIN G.lastw, NEW k \in DOMAIN G.lastw,
                        G.lastw[j] = G.lastw[k]
                 PROVE  j = k
      BY DEF Distinct
    <3>1. j \in Int /\ k \in Int
      BY <1>7, <1>8
    <3>2. j = 1 <=> k = 1
      BY <2>2, <1>5
    <3>3. CASE j # 1 /\ k # 1
      <4>1. j - 1 = k - 1
        BY <3>3, <2>2, <1>5 DEF Distinct
      <4> QED
        BY <4>1, <3>1
    <3> QED
      BY <3>2, <3>3
  <2> QED
    BY <2>3, <2>4, <1>1, <1>2, <1>3 DEF Sound, StackOK
<1> QED
  BY <1>6, <1>9, <1>10

LEMMA SelectKeepsSound ==
    ASSUME NEW S \in SesType, Sound(S), NEW i
    PROVE  Sound(SessionSelect(S, i))
<1>1. CASE i \in Linked(S) \ {S.curw}
  BY <1>1, SelectSound DEF Sound
<1>2. CASE i \notin Linked(S) \ {S.curw}
  BY <1>2 DEF SessionSelect
<1> QED
  BY <1>1, <1>2

LEMMA StepKeepsSound ==
    ASSUME NEW S \in SesType, Sound(S), NEW T
    PROVE  /\ Sound(SessionNext(S, T))
           /\ Sound(SessionPrevious(S, T))
           /\ Sound(SessionLast(S))
  BY SelectKeepsSound DEF SessionNext, SessionPrevious, SessionLast

\* A session with another window than the current one can move off that.
LEMMA MoveOffSound ==
    ASSUME NEW S \in SesType, Sound(S), Linked(S) # {S.curw}
    PROVE  Sound(MoveOff(S)) /\ MoveOff(S).curw \in Linked(S) \ {S.curw}
<1>0. Linked(S) \in SUBSET Idx /\ S.curw \in Idx /\ S.curw # NoIdx /\ Linked(S) # {}
  BY DEF Sound, Linked, Idx, NoIdx
<1>1. CASE S.lastw # <<>>
  <2>1. Head(S.lastw) \in Linked(S) \ {S.curw}
    <3>1. S.lastw \in Seq(Idx)
      BY DEF SesType
    <3>2. 1 \in DOMAIN S.lastw /\ Head(S.lastw) = S.lastw[1]
      BY <1>1, <3>1
    <3> QED
      BY <3>2 DEF Sound, StackOK
  <2>2. Sound(SessionLast(S)) /\ SessionLast(S).curw = Head(S.lastw)
    BY <1>1, <2>1, SelectSound DEF SessionLast, Sound
  <2>3. MoveOff(S) = SessionLast(S)
    BY <2>1, <2>2 DEF MoveOff
  <2> QED
    BY <2>1, <2>2, <2>3
<1>2. CASE S.lastw = <<>>
  <2> DEFINE before == {i \in Linked(S) : i < S.curw}
             p      == Max(IF before # {} THEN before ELSE Linked(S))
  <2>1. MoveOff(S) = SessionSelect(S, p)
    BY <1>0, <1>2 DEF MoveOff, SessionLast, SessionPrevious
  <2>2. p \in Linked(S) \ {S.curw}
    <3>1. CASE before # {}
      <4>1. before \in SUBSET Idx
        BY <1>0
      <4>2. Max(before) \in before
        <5> HIDE DEF before
        <5> QED
          BY <4>1, <3>1, MaxProps
      <4>3. \A i \in before : i # S.curw
        BY <1>0 DEF Idx
      <4> QED
        BY <3>1, <4>2, <4>3
    <3>2. CASE before = {}
      <4>1. Max(Linked(S)) \in Linked(S) /\ \A y \in Linked(S) : Max(Linked(S)) >= y
        BY <1>0, MaxProps
      <4>2. PICK x \in Linked(S) : x # S.curw
        BY <1>0
      <4>3. x > S.curw
        BY <3>2, <4>2, <1>0 DEF Idx
      <4>4. Max(Linked(S)) # S.curw
        BY <4>1, <4>3, <1>0 DEF Idx
      <4> QED
        BY <3>2, <4>1, <4>4
    <3> QED
      BY <3>1, <3>2
  <2> HIDE DEF p
  <2> QED
    BY <2>1, <2>2, SelectSound DEF Sound
<1> QED
  BY <1>1, <1>2

LEMMA UnlinkSound ==
    ASSUME NEW S \in SesType, StackOK(S), NEW i \in Idx
    PROVE  /\ StackOK(Unlink(S, i))
           /\ Unlink(S, i).curw = S.curw
           /\ Linked(Unlink(S, i)) = Linked(S) \ {i}
<1> DEFINE K == Keep(S.lastw, Idx \ {i})
           U == Unlink(S, i)
<1>1. /\ S.lastw \in Seq(Idx)
      /\ U.lastw = K /\ U.curw = S.curw /\ U.wl = [S.wl EXCEPT ![i] = NoWindow]
  BY DEF Unlink, SesType
<1>2. Linked(U) = Linked(S) \ {i}
  BY <1>1 DEF Linked, SesType
<1>3. /\ \A j \in DOMAIN K : K[j] \in Linked(S) \ {i, S.curw}
      /\ Distinct(K)
  <2>1. \A k \in DOMAIN S.lastw : S.lastw[k] \in Linked(S) \ {S.curw}
    BY DEF StackOK
  <2> QED
    BY <1>1, <2>1, KeepProps DEF StackOK
<1> HIDE DEF K, U
<1> QED
  BY <1>1, <1>2, <1>3 DEF StackOK, U

\* session_detach leaves a sound session if it leaves one with windows.
LEMMA DetachSound ==
    ASSUME NEW S \in SesType, Sound(S), NEW i \in Idx, Linked(S) \ {i} # {}
    PROVE  Sound(Detach(S, i)) /\ Linked(Detach(S, i)) = Linked(S) \ {i}
<1> DEFINE M == IF S.curw = i THEN MoveOff(S) ELSE S
<1>1. M \in SesType /\ M.wl = S.wl
  BY StepType
<1>2. Sound(M) /\ M.curw # i
  BY MoveOffSound
<1>3. Linked(M) = Linked(S)
  BY <1>1 DEF Linked
<1> HIDE DEF M
<1>4. Detach(S, i) = Unlink(M, i)
  BY DEF Detach, M
<1> QED
  BY <1>1, <1>2, <1>3, <1>4, UnlinkSound DEF Sound

LEMMA ReplaceSound ==
    ASSUME NEW S \in SesType, Sound(S), NEW i \in Idx
    PROVE  /\ StackOK(Replace(S, i))
           /\ Linked(Replace(S, i)) = Linked(S) \ {i}
           /\ Replace(S, i).curw = IF S.curw = i THEN NoIdx ELSE S.curw
<1> DEFINE U == Unlink(S, i)
           R == Replace(S, i)
<1>1. U \in SesType /\ StackOK(U) /\ U.curw = S.curw /\ Linked(U) = Linked(S) \ {i}
  BY UnlinkSound, UnlinkType DEF Sound
<1>2. R = [U EXCEPT !.curw = IF @ = i THEN NoIdx ELSE @]
  BY DEF Replace
<1> HIDE DEF U
<1>3. /\ R.wl = U.wl /\ R.lastw = U.lastw
      /\ R.curw = IF S.curw = i THEN NoIdx ELSE S.curw
  BY <1>1, <1>2 DEF SesType
<1> HIDE DEF R
<1>4. Linked(R) = Linked(U) /\ NoIdx \notin Linked(U)
  BY <1>3 DEF Linked, Idx, NoIdx
<1> QED
  BY <1>1, <1>3, <1>4 DEF StackOK, R

LEMMA PutSound ==
    ASSUME NEW S \in SesType, StackOK(S), NEW i \in Idx, i # S.curw,
           NEW w \in WindowId
    PROVE  LET T == [S EXCEPT !.wl[i] = w]
           IN  /\ StackOK(T)
               /\ Linked(T) = Linked(S) \cup {i}
               /\ T.curw = S.curw
<1> DEFINE T == [S EXCEPT !.wl[i] = w]
<1>1. T.lastw = S.lastw /\ T.curw = S.curw /\ T.wl = [S.wl EXCEPT ![i] = w]
  BY DEF SesType
<1>2. Linked(T) = Linked(S) \cup {i}
  BY <1>1, WindowAssumption DEF Linked, SesType
<1> HIDE DEF T
<1>3. StackOK(T)
  BY <1>1, <1>2 DEF StackOK
<1> QED
  BY <1>1, <1>2, <1>3 DEF T

\* A sound session made like T stays sound if T lacks none of its windows, or
\* the current one only.
LEMMA SyncedSound ==
    ASSUME NEW S \in SesType, NEW T \in SesType, Sound(S), Linked(T) # {},
           S.curw \notin Linked(T) => Linked(S) \ {S.curw} \subseteq Linked(T)
                                    /\ Linked(S) # {S.curw}
    PROVE  Sound(Synced(T, S)) /\ ~SyncNull(T, S)
<1> DEFINE M == IF S.curw \notin Linked(T) THEN MoveOff(S) ELSE S
           K == Keep(M.lastw, Linked(T))
           R == Synced(T, S)
<1>1. S.curw \in Idx /\ S.curw # NoIdx
  BY DEF Sound, Linked, Idx, NoIdx
<1>2. M \in SesType /\ Sound(M) /\ M.curw \in Linked(T)
  BY MoveOffSound, StepType
<1>3. M.curw # NoIdx
  BY <1>2 DEF Sound, Linked, Idx, NoIdx
<1>4. R = [wl |-> T.wl, curw |-> M.curw, lastw |-> K, alerts |-> T.alerts]
  BY <1>1, <1>2, <1>3 DEF Synced
<1>5. Linked(R) = Linked(T)
  BY <1>4 DEF Linked
<1> HIDE DEF M
<1>6. M.lastw \in Seq(Idx)
  BY <1>2 DEF SesType
<1>7. (\A j \in DOMAIN K : K[j] \in Linked(T) \ {M.curw}) /\ Distinct(K)
  BY <1>2, <1>6, KeepProps DEF Sound, StackOK
<1> HIDE DEF K, R
<1>8. Sound(R)
  BY <1>2, <1>4, <1>5, <1>7 DEF Sound, StackOK
<1> QED
  BY <1>1, <1>8 DEF R, SyncNull

\* The new session of new-session -t.
LEMMA SyncedNew ==
    ASSUME NEW T \in SesType, Sound(T)
    PROVE  Sound(Synced(T, EmptySession)) /\ ~SyncNull(T, EmptySession)
<1> DEFINE K == Keep(<<>>, Linked(T))
           R == Synced(T, EmptySession)
<1>1. T.curw \in Linked(T) /\ T.curw # NoIdx
  BY DEF Sound, Linked, Idx, NoIdx
<1>2. R = [wl |-> T.wl, curw |-> T.curw, lastw |-> K, alerts |-> T.alerts]
  BY <1>1 DEF Synced, EmptySession
<1>3. Linked(R) = Linked(T)
  BY <1>2 DEF Linked
<1>4. \A j \in DOMAIN K : FALSE
  <2> DEFINE e == <<>>
  <2>1. e \in Seq(Idx) /\ DOMAIN e = {}
    OBVIOUS
  <2> HIDE DEF e
  <2>2. \A j \in DOMAIN Keep(e, Linked(T)) : \E k \in DOMAIN e : TRUE
    BY <2>1, KeepProps
  <2> QED
    BY <2>1, <2>2 DEF e
<1> HIDE DEF K, R
<1>5. Sound(R)
  BY <1>1, <1>2, <1>3, <1>4 DEF Sound, StackOK, Distinct
<1> QED
  BY <1>1, <1>5 DEF R, SyncNull

(***************************************************************************)
(* The inductive invariant.  What concerns current windows holds as long   *)
(* as window_create does not fail.                                         *)
(***************************************************************************)
StateOK ==
    /\ sessions \subseteq SessionId
    /\ ses \in [SessionId -> SesType]
    /\ groups \subseteq SUBSET SessionId
    /\ refs \in [WindowId -> Int]
    /\ died \in {"no", "null_pointer", "bad_index"}

AllSound == \A s \in sessions : Sound(ses[s])

Core ==
    /\ StateOK
    /\ GroupWellFormed
    /\ ~ForkMayFail => GroupShare /\ AllSound /\ NoNullDeref

IInv == Core /\ todo \in TodoType /\ TodoSound

(***************************************************************************)
(* Groups.                                                                 *)
(***************************************************************************)
LEMMA GroupIs ==
    ASSUME GroupWellFormed, NEW g \in groups, NEW s \in g
    PROVE  Group(s) = g
<1>1. {h \in groups : s \in h} = {g}
  BY DEF GroupWellFormed
<1> QED
  BY <1>1 DEF Group

LEMMA MatesProps ==
    ASSUME StateOK, GroupWellFormed, NEW s
    PROVE  /\ Mates(s) \subseteq sessions \ {s}
           /\ IsFiniteSet(Mates(s)) /\ Cardinality(Mates(s)) \in Nat
           /\ \A m \in Mates(s) : \E g \in groups : s \in g /\ m \in g
<1>1. Mates(s) \subseteq sessions \ {s}
  BY DEF Mates, Group, GroupWellFormed
<1>2. IsFiniteSet(Mates(s))
  <2>1. Mates(s) \in SUBSET SessionId
    BY <1>1 DEF StateOK
  <2> QED
    BY <2>1, SessionAssumption, FS_Subset
<1> QED
  BY <1>1, <1>2, FS_CardinalityType DEF Mates, Group

\* Membership of one group goes both ways, and through third members.
LEMMA MatesSymmetric ==
    ASSUME GroupWellFormed, NEW s, NEW t, NEW u
    PROVE  /\ t \in Mates(s) => s \in Mates(t) /\ Group(s) = Group(t)
           /\ t \in Mates(s) /\ u \in Mates(t) => u \in Group(s)
<1>1. ASSUME t \in Mates(s) PROVE s \in Mates(t) /\ Group(s) = Group(t)
  <2>1. PICK g \in groups : s \in g /\ t \in g /\ t # s
    BY <1>1 DEF Mates, Group
  <2>2. Group(s) = g /\ Group(t) = g
    BY <2>1, GroupIs
  <2> QED
    BY <2>1, <2>2 DEF Mates
<1> QED
  BY <1>1 DEF Mates

(***************************************************************************)
(* Reference counts are integers.                                          *)
(***************************************************************************)
LEMMA CountTypes ==
    ASSUME NEW S \in SesType, NEW w
    PROVE  IsFiniteSet(LinksTo(S, w)) /\ Cardinality(LinksTo(S, w)) \in Nat
<1>1. IsFiniteSet(Idx)
  BY FS_Interval, IndexAssumption DEF Idx
<1>2. LinksTo(S, w) \in SUBSET Idx
  BY DEF LinksTo
<1> QED
  BY <1>1, <1>2, FS_Subset, FS_CardinalityType

LEMMA SyncRefsType ==
    ASSUME StateOK, GroupWellFormed, NEW s, NEW T \in SesType,
           NEW r \in [WindowId -> Int]
    PROVE  SyncRefs(r, s, T) \in [WindowId -> Int]
<1>1. Cardinality(Mates(s)) \in Nat
  BY MatesProps
<1>2. \A w : LinkCount(Mates(s), w) \in Nat
  <2> TAKE w
  <2> DEFINE P == {x \in Mates(s) \X Idx : ses[x[1]].wl[x[2]] = w}
  <2>1. IsFiniteSet(Idx)
    BY FS_Interval, IndexAssumption DEF Idx
  <2>2. IsFiniteSet(Mates(s) \X Idx)
    BY <2>1, MatesProps, FS_Product
  <2>3. P \in SUBSET (Mates(s) \X Idx)
    OBVIOUS
  <2>4. IsFiniteSet(P)
    BY <2>2, <2>3, FS_Subset
  <2>5. Cardinality(P) \in Nat
    BY <2>4, FS_CardinalityType
  <2> QED
    BY <2>5 DEF LinkCount
<1>3. \A w : Cardinality(LinksTo(T, w)) \in Nat
  BY CountTypes
<1>4. \A a, b \in Nat : a * b \in Int
  OBVIOUS
<1>5. \A w \in WindowId :
         r[w] + Cardinality(Mates(s)) * Cardinality(LinksTo(T, w))
              - LinkCount(Mates(s), w) \in Int
  <2> TAKE w \in WindowId
  <2>1. Cardinality(Mates(s)) * Cardinality(LinksTo(T, w)) \in Int
    BY <1>1, <1>3, <1>4
  <2>2. LinkCount(Mates(s), w) \in Int /\ r[w] \in Int
    BY <1>2
  <2> HIDE DEF LinkCount
  <2> QED
    BY <2>1, <2>2
<1> QED
  BY <1>5 DEF SyncRefs

LEMMA CountChange ==
    ASSUME NEW r \in [WindowId -> Int], NEW w
    PROVE  Incr(r, w) \in [WindowId -> Int] /\ Decr(r, w) \in [WindowId -> Int]
<1>1. CASE w \in WindowId
  <2>1. r[w] + 1 \in Int /\ r[w] - 1 \in Int
    BY <1>1
  <2> QED
    BY <2>1 DEF Incr, Decr
<1>2. CASE w \notin WindowId
  <2>1. \A x : [r EXCEPT ![w] = x] = r
    BY <1>2
  <2> QED
    BY <2>1 DEF Incr, Decr
<1> QED
  BY <1>1, <1>2

(***************************************************************************)
(* The two ways a handler leaves a session: changed, with its group made   *)
(* like it, or destroyed.                                                  *)
(***************************************************************************)
\* T has windows, and lacks at most one that session s has.
Fits(s, T) ==
    /\ Linked(T) # {}
    /\ \/ Linked(ses[s]) \subseteq Linked(T)
       \/ \E i \in Idx : Linked(T) = Linked(ses[s]) \ {i}

\* What a group's member becomes when session s is made T.
LEMMA MateSynced ==
    ASSUME StateOK, GroupWellFormed, GroupShare, AllSound,
           NEW s \in sessions, NEW T \in SesType, Fits(s, T),
           NEW m \in Mates(s)
    PROVE  Sound(Synced(T, ses[m])) /\ ~SyncNull(T, ses[m])
<1>1. m \in sessions /\ ses[m] \in SesType /\ Sound(ses[m])
  BY MatesProps DEF AllSound, StateOK
<1>2. ses[m].wl = ses[s].wl
  <2>1. PICK g \in groups : s \in g /\ m \in g
    BY MatesProps
  <2> QED
    BY <2>1 DEF GroupShare
<1>3. Linked(ses[m]) = Linked(ses[s])
  BY <1>2 DEF Linked
<1> DEFINE c == ses[m].curw
<1>4. c \in Linked(ses[s])
  BY <1>1, <1>3 DEF Sound
<1>5. c \notin Linked(T) => /\ Linked(ses[m]) \ {c} \subseteq Linked(T)
                            /\ Linked(ses[m]) # {c}
  BY <1>3, <1>4 DEF Fits
<1> QED
  BY <1>1, <1>5, SyncedSound DEF Fits

LEMMA PublishStep ==
    ASSUME Core, NEW s \in sessions,
           NEW T \in SesType, NEW S \in SesType, S.wl = T.wl, Fits(s, T),
           ~ForkMayFail => Sound(S),
           NEW r \in [WindowId -> Int],
           Publish(s, T, S, r)
    PROVE  Core' /\ sessions' = sessions /\ ses'[s] = S
<1> USE DEF Core
<1>1. /\ sessions' = sessions /\ groups' = groups
      /\ \A t \in SessionId : ses'[t] = CASE t = s -> S
                                         [] t \in Mates(s) -> Synced(T, ses[t])
                                         [] OTHER -> ses[t]
      /\ s \in SessionId
  BY DEF Publish, StateOK
<1>1a. ses'[s] = S
  <2>1. s \notin Mates(s)
    BY DEF Mates
  <2> QED
    BY <1>1, <2>1
<1>2. StateOK'
  <2>1. \A t \in SessionId : ses'[t] \in SesType
    BY <1>1, SyncedType DEF StateOK
  <2>2. ses' \in [SessionId -> SesType]
    BY <2>1 DEF Publish
  <2>3. refs' \in [WindowId -> Int]
    BY SyncRefsType DEF Publish
  <2>4. died' \in {"no", "null_pointer"}
    BY DEF Publish
  <2> QED
    BY <1>1, <2>2, <2>3, <2>4 DEF StateOK
<1>3. GroupWellFormed'
  BY <1>1 DEF GroupWellFormed
<1>4. ASSUME ~ForkMayFail PROVE (GroupShare /\ AllSound /\ NoNullDeref)'
  <2>1. \A m \in Mates(s) : Sound(Synced(T, ses[m])) /\ ~SyncNull(T, ses[m])
    BY <1>4, MateSynced
  <2>2. GroupShare'
    <3> SUFFICES ASSUME NEW g \in groups, NEW t \in g, NEW u \in g
                 PROVE  ses'[t].wl = ses'[u].wl
      BY <1>1 DEF GroupShare
    <3>0. g \subseteq SessionId
      BY DEF StateOK
    <3>1. CASE s \in g
      <4>1. Group(s) = g
        BY <3>1, GroupIs
      <4>2. \A x \in g : ses'[x].wl = T.wl
        <5> TAKE x \in g
        <5>1. CASE x = s
          BY <5>1, <1>1a
        <5>2. CASE x # s
          <6>1. x \in Mates(s) /\ x \in SessionId /\ ses[x] \in SesType
            BY <4>1, <5>2, <3>0 DEF Mates, StateOK
          <6>2. ses'[x] = Synced(T, ses[x])
            BY <6>1, <5>2, <1>1
          <6> QED
            BY <6>1, <6>2, SyncedType DEF Fits
        <5> QED
          BY <5>1, <5>2
      <4> QED
        BY <4>2
    <3>2. CASE s \notin g
      <4>1. \A x \in g : x # s /\ x \notin Mates(s)
        <5> TAKE x \in g
        <5>1. ASSUME x \in Mates(s) PROVE FALSE
          <6>1. s \in Mates(x) /\ Group(x) = g
            BY <5>1, MatesSymmetric, GroupIs
          <6> QED
            BY <6>1, <3>2 DEF Mates
        <5> QED
          BY <5>1, <3>2
      <4>2. ses'[t] = ses[t] /\ ses'[u] = ses[u]
        BY <4>1, <1>1, <3>0
      <4> QED
        BY <4>2, <1>4 DEF GroupShare
    <3> QED
      BY <3>1, <3>2
  <2>3. AllSound'
    <3> SUFFICES ASSUME NEW t \in sessions PROVE Sound(ses'[t])
      BY <1>1 DEF AllSound, Sound, StackOK, Linked
    <3>1. t \in SessionId
      BY DEF StateOK
    <3> QED
      BY <3>1, <1>1, <1>4, <2>1 DEF AllSound
  <2>4. NoNullDeref'
    BY <2>1 DEF Publish, NoNullDeref
  <2> QED
    BY <2>2, <2>3, <2>4
<1> QED
  BY <1>1, <1>1a, <1>2, <1>3, <1>4

LEMMA DestroyStep ==
    ASSUME Core, NEW s \in sessions, NEW r \in [WindowId -> Int], Destroy(s, r)
    PROVE  /\ Core'
           /\ sessions' = sessions \ {s}
           /\ \A t \in SessionId \ {s} : ses'[t] = ses[t]
<1> USE DEF Core
<1>1. /\ sessions' = sessions \ {s} /\ groups' = GroupRemove(s)
      /\ ses' = [ses EXCEPT ![s] = EmptySession]
      /\ refs' = r /\ died' = died
  BY DEF Destroy
<1>2. EmptySession \in SesType
  BY DEF EmptySession, SesType
<1>3. \A g \in groups' : \E h \in groups : g = h \ {s} /\ Cardinality(g) > 1
  BY <1>1 DEF GroupRemove
<1>4. StateOK'
  <2>1. groups' \subseteq SUBSET SessionId
    <3>1. \A h \in groups : h \ {s} \in SUBSET SessionId
      BY DEF StateOK
    <3> QED
      BY <1>3, <3>1
  <2> QED
    BY <1>1, <1>2, <2>1 DEF StateOK
<1>5. GroupWellFormed'
  <2> SUFFICES ASSUME NEW g \in groups'
               PROVE  /\ g \subseteq sessions' /\ Cardinality(g) > 1
                      /\ \A h \in groups' : g # h => g \cap h = {}
    BY DEF GroupWellFormed
  <2>1. PICK k \in groups : g = k \ {s} /\ Cardinality(g) > 1
    BY <1>3
  <2>2. k \subseteq sessions
    BY DEF GroupWellFormed
  <2>3. ASSUME NEW h \in groups', g # h PROVE g \cap h = {}
    <3>1. PICK l \in groups : h = l \ {s}
      BY <1>3
    <3>2. k \cap l = {}
      BY <2>1, <2>3, <3>1 DEF GroupWellFormed
    <3> QED
      BY <2>1, <3>1, <3>2
  <2> QED
    BY <1>1, <2>1, <2>2, <2>3
<1>6. \A t \in SessionId \ {s} : ses'[t] = ses[t]
  BY <1>1 DEF StateOK
<1>7. ASSUME ~ForkMayFail PROVE (GroupShare /\ AllSound /\ NoNullDeref)'
  <2>1. GroupShare'
    <3> SUFFICES ASSUME NEW g \in groups', NEW t \in g, NEW u \in g
                 PROVE  ses'[t].wl = ses'[u].wl
      BY DEF GroupShare
    <3>1. PICK h \in groups : g = h \ {s}
      BY <1>3
    <3>2. t \in SessionId \ {s} /\ u \in SessionId \ {s}
      BY <3>1 DEF StateOK
    <3> QED
      BY <3>1, <3>2, <1>6, <1>7 DEF GroupShare
  <2>2. AllSound'
    <3> SUFFICES ASSUME NEW t \in sessions \ {s} PROVE Sound(ses'[t])
      BY <1>1 DEF AllSound, Sound, StackOK, Linked
    <3> QED
      BY <1>6, <1>7 DEF AllSound, StateOK
  <2> QED
    BY <2>1, <2>2, <1>1, <1>7 DEF NoNullDeref
<1> QED
  BY <1>1, <1>4, <1>5, <1>6, <1>7

(***************************************************************************)
(* The steps handlers are made of.                                         *)
(***************************************************************************)
\* session_detach.
LEMMA DetachStep ==
    ASSUME Core, NEW s \in sessions, NEW i \in Linked(ses[s]), DetachWindow(s, i)
    PROVE  /\ Core'
           /\ IF Linked(ses[s]) = {i}
              THEN sessions' = sessions \ {s}
              ELSE /\ sessions' = sessions
                   /\ Linked(ses'[s]) = Linked(ses[s]) \ {i}
<1> DEFINE T == Detach(ses[s], i)
           r == Decr(refs, ses[s].wl[i])
<1>1. s \in SessionId /\ ses[s] \in SesType /\ i \in Idx /\ refs \in [WindowId -> Int]
  BY DEF Core, StateOK, Linked
<1>2. T \in SesType /\ T.wl = [ses[s].wl EXCEPT ![i] = NoWindow]
  BY <1>1, DetachType
<1>3. Linked(T) = Linked(ses[s]) \ {i}
  BY <1>1, <1>2 DEF Linked, SesType
<1>4. r \in [WindowId -> Int]
  BY <1>1, CountChange
<1>5. ~ForkMayFail /\ Linked(T) # {} => Sound(T)
  BY <1>1, <1>3, DetachSound DEF Core, AllSound
<1>6. DetachWindow(s, i) <=> IF Linked(T) = {} THEN Destroy(s, r)
                                              ELSE Publish(s, T, T, r)
  BY DEF DetachWindow
<1> HIDE DEF T, r
<1>7. CASE Linked(T) = {}
  <2>1. Core' /\ sessions' = sessions \ {s}
    BY <1>4, <1>6, <1>7, DestroyStep
  <2> QED
    BY <1>3, <1>7, <2>1
<1>8. CASE Linked(T) # {}
  <2>1. Fits(s, T)
    BY <1>1, <1>3, <1>8 DEF Fits
  <2>2. Core' /\ sessions' = sessions /\ ses'[s] = T
    BY <1>2, <1>4, <1>5, <1>6, <1>8, <2>1, PublishStep
  <2> QED
    BY <1>3, <1>8, <2>2
<1> QED
  BY <1>7, <1>8

\* Changes that leave the windows where they are.
LEMMA SameLinksStep ==
    ASSUME Core, ses' \in [SessionId -> SesType],
           \A t \in SessionId : ses'[t].wl = ses[t].wl,
           ~ForkMayFail => \A t \in sessions : Sound(ses'[t]),
           UNCHANGED <<sessions, groups, refs, died>>
    PROVE  Core'
<1> USE DEF Core
<1>1. StateOK' /\ GroupWellFormed'
  BY DEF StateOK, GroupWellFormed
<1>2. ASSUME ~ForkMayFail PROVE (GroupShare /\ AllSound /\ NoNullDeref)'
  <2>1. GroupShare'
    <3> SUFFICES ASSUME NEW g \in groups, NEW t \in g, NEW u \in g
                 PROVE  ses'[t].wl = ses'[u].wl
      BY DEF GroupShare
    <3>1. t \in SessionId /\ u \in SessionId
      BY DEF StateOK
    <3>2. ses[t].wl = ses[u].wl
      BY <1>2 DEF GroupShare
    <3> QED
      BY <3>1, <3>2
  <2>2. AllSound'
    BY <1>2 DEF AllSound, Sound, StackOK, Linked
  <2> QED
    BY <2>1, <2>2, <1>2 DEF NoNullDeref
<1> QED
  BY <1>1, <1>2

LEMMA MoveToStep ==
    ASSUME Core, NEW s \in SessionId, NEW S \in SesType, S.wl = ses[s].wl,
           Sound(ses[s]) => Sound(S),
           MoveTo(s, S)
    PROVE  Core'
<1>1. s \in sessions /\ ses' = [ses EXCEPT ![s] = S]
  BY DEF MoveTo
<1>2. ses \in [SessionId -> SesType] /\ sessions \subseteq SessionId
  BY DEF Core, StateOK
<1>3. ses'[s] = S /\ \A t \in SessionId \ {s} : ses'[t] = ses[t]
  BY <1>1, <1>2
<1>4. ~ForkMayFail => \A t \in sessions : Sound(ses'[t])
  BY <1>1, <1>2, <1>3 DEF Core, AllSound
<1>5. ses' \in [SessionId -> SesType] /\ \A t \in SessionId : ses'[t].wl = ses[t].wl
  BY <1>1, <1>2, <1>3
<1> QED
  BY <1>4, <1>5, SameLinksStep DEF MoveTo

LEMMA AlertStep ==
    ASSUME Core, NEW w \in WindowId, Alert(w)
    PROVE  Core'
<1>0. ses \in [SessionId -> SesType] /\ sessions \subseteq SessionId
  BY DEF Core, StateOK
<1>1. ASSUME NEW t \in SessionId
      PROVE  /\ ses'[t] \in SesType /\ ses'[t].wl = ses[t].wl
             /\ ses'[t].curw = ses[t].curw /\ ses'[t].lastw = ses[t].lastw
  <2> DEFINE L == LinksTo(ses[t], w)
             A == ses[t].alerts \cup ({Min(L)} \ {ses[t].curw})
  <2>1. L # {} => Min(L) \in Idx
    <3>1. L \in SUBSET Nat /\ L \subseteq Idx
      BY DEF LinksTo, Idx
    <3> HIDE DEF L
    <3> QED
      BY <3>1, MinProps
  <2>2. ses'[t] = IF L = {} THEN ses[t] ELSE [ses[t] EXCEPT !.alerts = A]
    BY DEF Alert
  <2>3. ses[t] \in SesType
    BY <1>0
  <2>4. L # {} => A \in SUBSET Idx
    BY <2>1, <2>3 DEF SesType
  <2> HIDE DEF A, L
  <2> QED
    BY <2>2, <2>3, <2>4 DEF SesType
<1>2. ses' \in [SessionId -> SesType]
  BY <1>1 DEF Alert
<1>3. ~ForkMayFail => \A t \in sessions : Sound(ses'[t])
  BY <1>0, <1>1 DEF Core, AllSound, Sound, StackOK, Linked
<1> QED
  BY <1>1, <1>2, <1>3, SameLinksStep DEF Alert

\* A new window w, or one more link to w, at index i of session s, whose old
\* window there has been removed by hand if there was one: the common part of
\* new-window, break-pane and server_link_window.  S is the session then.
LEMMA LinkStep ==
    ASSUME Core, NEW s \in sessions, NEW D \in SesType, NEW i \in Idx,
           NEW w \in WindowId, NEW sel \in BOOLEAN,
           D.wl = ses[s].wl \/ D.wl = [ses[s].wl EXCEPT ![i] = NoWindow],
           i \notin Linked(D),
           ~ForkMayFail => /\ StackOK(D)
                           /\ D.curw \in Linked(D) \/ (D.curw = NoIdx /\ sel),
           NEW T, T = [D EXCEPT !.wl[i] = w],
           NEW S, S = IF sel THEN SessionSelect(T, i) ELSE T,
           NEW r \in [WindowId -> Int], Publish(s, T, S, r)
    PROVE  Core' /\ sessions' = sessions /\ ses'[s].wl = [D.wl EXCEPT ![i] = w]
<1>1. s \in SessionId /\ ses[s] \in SesType
  BY DEF Core, StateOK
<1>2. T \in SesType /\ T.wl = [D.wl EXCEPT ![i] = w] /\ T.curw = D.curw
  BY PutType DEF SesType
<1>3. Linked(T) = Linked(D) \cup {i}
  BY <1>2, WindowAssumption DEF Linked, SesType
<1>4. Linked(ses[s]) \subseteq Linked(T)
  <2>1. Linked(ses[s]) \subseteq Linked(D) \cup {i}
    BY <1>1 DEF Linked, SesType
  <2> QED
    BY <2>1, <1>3
<1>5. Fits(s, T)
  BY <1>3, <1>4 DEF Fits
<1>6. S \in SesType /\ S.wl = T.wl
  BY <1>2, SelectType
<1>7. ASSUME ~ForkMayFail PROVE Sound(S)
  <2>1. i # D.curw
    BY <1>7 DEF Idx, NoIdx
  <2>2. StackOK(T)
    BY <1>7, <2>1, PutSound
  <2>3. sel => Sound(SessionSelect(T, i))
    BY <1>2, <1>3, <1>7, <2>1, <2>2, SelectSound
  <2>4. ~sel => Sound(T)
    BY <1>2, <1>3, <1>7, <2>2 DEF Sound
  <2> QED
    BY <2>3, <2>4
<1>8. Core' /\ sessions' = sessions /\ ses'[s] = S
  <2>1. T \in SesType
    BY <1>2
  <2> QED
    BY <2>1, <1>5, <1>6, <1>7, PublishStep
<1> QED
  BY <1>2, <1>6, <1>8

(***************************************************************************)
(* The commands on sessions.                                               *)
(***************************************************************************)
\* A new session S in no group.
LEMMA NewSessionStep ==
    ASSUME Core, NEW s \in SessionId, NEW w \in WindowId, NewSession(s, w)
    PROVE  Core' /\ sessions' = sessions \cup {s}
<1> DEFINE i == AddIndex(EmptySession, NoIdx)
           S == [EmptySession EXCEPT !.wl[i] = w]
           U == SessionSelect(S, i)
<1>0. EmptySession \in SesType /\ Linked(EmptySession) = {}
  BY DEF EmptySession, SesType, Linked
<1>1. i \in Idx
  <2> DEFINE up == {j \in Idx : j >= BaseIndex}
  <2>1. up \in SUBSET Nat /\ BaseIndex \in up
    BY IndexAssumption DEF Idx
  <2>2. Min(up) \in up
    <3> HIDE DEF up
    <3> QED
      BY <2>1, MinProps
  <2>3. i = Min(up)
    BY <1>0, <2>1 DEF AddIndex
  <2> QED
    BY <2>2, <2>3
<1> HIDE DEF i
<1>2. StackOK(EmptySession) /\ EmptySession.curw = NoIdx /\ NoIdx \notin Idx
  BY DEF EmptySession, StackOK, Distinct, Idx, NoIdx
<1>3. /\ S \in SesType /\ StackOK(S) /\ Linked(S) = {i} /\ S.curw = NoIdx
  BY <1>0, <1>1, <1>2, PutType, PutSound
<1> HIDE DEF S
<1>4. U \in SesType /\ Sound(U)
  BY <1>1, <1>2, <1>3, SelectSound, SelectType
<1>5. /\ sessions' = sessions \cup {s} /\ s \notin sessions
      /\ ses' = [ses EXCEPT ![s] = U] /\ refs' = Incr(refs, w)
      /\ groups' = groups /\ died' = died
  BY DEF NewSession, U, S, i
<1> HIDE DEF U
<1>6. ses'[s] = U /\ \A t \in SessionId \ {s} : ses'[t] = ses[t]
  BY <1>5 DEF Core, StateOK
<1>7. StateOK'
  <2>1. refs' \in [WindowId -> Int]
    BY <1>5, CountChange DEF Core, StateOK
  <2> QED
    BY <1>4, <1>5, <2>1 DEF Core, StateOK
<1>8. GroupWellFormed'
  BY <1>5 DEF Core, GroupWellFormed
<1>9. ASSUME ~ForkMayFail PROVE (GroupShare /\ AllSound /\ NoNullDeref)'
  <2>1. \A g \in groups : g \subseteq SessionId \ {s}
    BY <1>5 DEF Core, GroupWellFormed, StateOK
  <2>2. GroupShare'
    <3> SUFFICES ASSUME NEW g \in groups, NEW t \in g, NEW u \in g
                 PROVE  ses'[t].wl = ses'[u].wl
      BY <1>5 DEF GroupShare
    <3>1. t \in SessionId \ {s} /\ u \in SessionId \ {s}
      BY <2>1
    <3>2. ses[t].wl = ses[u].wl
      BY <1>9 DEF Core, GroupShare
    <3> QED
      BY <3>1, <3>2, <1>6
  <2>3. AllSound'
    <3> SUFFICES ASSUME NEW t \in sessions \cup {s} PROVE Sound(ses'[t])
      BY <1>5 DEF AllSound, Sound, StackOK, Linked
    <3> QED
      BY <1>4, <1>6, <1>9 DEF Core, AllSound, StateOK
  <2> QED
    BY <2>2, <2>3, <1>5, <1>9 DEF Core, NoNullDeref
<1> QED
  BY <1>5, <1>7, <1>8, <1>9 DEF Core

\* session_group_add keeps the groups apart and adds s to the target's.
LEMMA GroupAddProps ==
    ASSUME StateOK, GroupWellFormed, NEW s \in SessionId, s \notin sessions,
           NEW target \in sessions
    PROVE  LET G == Group(target) \cup {target, s}
           IN  /\ \A g \in GroupAdd(target, s) :
                     g = G \/ (g \in groups /\ g \cap G = {})
               /\ G \subseteq sessions \cup {s}
               /\ Cardinality(G) > 1
<1> DEFINE G == Group(target) \cup {target, s}
<1>1. G \subseteq sessions \cup {s}
  BY DEF Group, GroupWellFormed
<1>2. Cardinality(G) > 1
  <2>1. {target, s} \in SUBSET G /\ target # s
    OBVIOUS
  <2>2. IsFiniteSet(G)
    <3>1. G \in SUBSET SessionId
      BY <1>1 DEF StateOK
    <3> QED
      BY <3>1, SessionAssumption, FS_Subset
  <2>3. Cardinality({target, s}) = 2 /\ IsFiniteSet({target, s})
    <3>1. IsFiniteSet({target}) /\ Cardinality({target}) = 1
      BY FS_Singleton
    <3>2. {target, s} = {target} \cup {s}
      OBVIOUS
    <3> QED
      BY <2>1, <3>1, <3>2, FS_AddElement
  <2>4. Cardinality({target, s}) <= Cardinality(G) /\ Cardinality(G) \in Nat
    BY <2>1, <2>2, FS_Subset, FS_CardinalityType
  <2> QED
    BY <2>3, <2>4
<1>3. ASSUME NEW g \in GroupAdd(target, s)
      PROVE  g = G \/ (g \in groups /\ g \cap G = {})
  <2>1. CASE Group(target) = {}
    <3>1. \A h \in groups : target \notin h /\ s \notin h
      BY <2>1 DEF Group, GroupWellFormed
    <3>2. G = {target, s}
      BY <2>1
    <3> QED
      BY <2>1, <3>1, <3>2 DEF GroupAdd
  <2>2. CASE Group(target) # {}
    <3>1. PICK h \in groups : target \in h
      BY <2>2 DEF Group
    <3>2. Group(target) = h
      BY <3>1, GroupIs
    <3>3. \A k \in groups : k # h => k \cap h = {} /\ s \notin k
      BY DEF GroupWellFormed
    <3>4. g = Group(target) \cup {s} \/ g \in groups \ {h}
      BY <2>2, <3>2 DEF GroupAdd
    <3>5. G = h \cup {s}
      BY <3>1, <3>2
    <3> QED
      BY <3>2, <3>3, <3>4, <3>5
  <2> QED
    BY <2>1, <2>2
<1> QED
  BY <1>1, <1>2, <1>3

LEMMA NewGroupedStep ==
    ASSUME Core, NEW s \in SessionId, NEW target \in SessionId,
           NEW first \in SessionId, NewGroupedSession(s, target, first)
    PROVE  Core' /\ sessions' = sessions \cup {s}
<1> DEFINE S == Synced(ses[first], EmptySession)
           G == Group(target) \cup {target, s}
<1>0. EmptySession \in SesType
  BY DEF EmptySession, SesType
<1>1. /\ s \notin sessions /\ target \in sessions /\ first \in Mates(target) \cup {target}
      /\ sessions' = sessions \cup {s} /\ groups' = GroupAdd(target, s)
      /\ died = "no"
  BY DEF NewGroupedSession, Ready
<1>2. /\ \A g \in groups' : g = G \/ (g \in groups /\ g \cap G = {})
      /\ G \subseteq sessions' /\ Cardinality(G) > 1
  BY <1>1, GroupAddProps DEF Core
<1>3. first \in sessions /\ ses[first] \in SesType /\ first # s
  BY <1>1, MatesProps DEF Core, StateOK
<1>4. S \in SesType
  BY <1>0, <1>3, SyncedType
<1> DEFINE null == Linked(S) = {} \/ SyncNull(ses[first], EmptySession)
<1>5. IF null THEN died' = "null_pointer" /\ UNCHANGED <<ses, refs>>
      ELSE /\ \E root \in Linked(S) : ses' = [ses EXCEPT ![s] = SessionSelect(S, root)]
           /\ refs' = [w \in WindowId |-> refs[w] + Cardinality(LinksTo(S, w))]
           /\ died' = died
  BY DEF NewGroupedSession
<1> HIDE DEF S, G, null
<1>6. GroupWellFormed'
  <2> SUFFICES ASSUME NEW g \in groups'
               PROVE  /\ g \subseteq sessions' /\ Cardinality(g) > 1
                      /\ \A h \in groups' : g # h => g \cap h = {}
    BY DEF GroupWellFormed
  <2>1. g \subseteq sessions' /\ Cardinality(g) > 1
    BY <1>1, <1>2 DEF Core, GroupWellFormed
  <2>2. ASSUME NEW h \in groups', g # h PROVE g \cap h = {}
    BY <1>2, <2>2 DEF Core, GroupWellFormed
  <2> QED
    BY <2>1, <2>2
<1>7. StateOK'
  <2>1. groups' \subseteq SUBSET SessionId
    BY <1>1, <1>6 DEF GroupWellFormed, Core, StateOK
  <2>2. ses \in [SessionId -> SesType] /\ refs \in [WindowId -> Int]
    BY DEF Core, StateOK
  <2>3. ses' \in [SessionId -> SesType]
    <3>1. \A root : SessionSelect(S, root) \in SesType
      BY <1>4, SelectType
    <3> QED
      BY <3>1, <2>2, <1>5
  <2>4. refs' \in [WindowId -> Int]
    <3>1. \A w \in WindowId : refs[w] + Cardinality(LinksTo(S, w)) \in Int
      <4> TAKE w \in WindowId
      <4>1. Cardinality(LinksTo(S, w)) \in Nat
        BY <1>4, CountTypes
      <4> QED
        BY <4>1, <2>2
    <3> QED
      BY <1>5, <2>2, <3>1
  <2>5. died' \in {"no", "null_pointer"}
    BY <1>1, <1>5
  <2> QED
    BY <1>1, <2>1, <2>3, <2>4, <2>5 DEF Core, StateOK
<1>8. ASSUME ~ForkMayFail PROVE (GroupShare /\ AllSound /\ NoNullDeref)'
  <2>1. Sound(ses[first])
    BY <1>3, <1>8 DEF Core, AllSound
  <2>2. Linked(ses[first]) # {}
    BY <2>1 DEF Sound
  <2>3. Sound(S) /\ ~SyncNull(ses[first], EmptySession) /\ S.wl = ses[first].wl
    BY <1>0, <1>3, <2>1, <2>2, SyncedNew, SyncedType DEF S
  <2>4. ~null
    BY <2>3 DEF null, Sound
  <2>5. PICK root \in Linked(S) : ses' = [ses EXCEPT ![s] = SessionSelect(S, root)]
    BY <1>5, <2>4
  <2>6. Sound(SessionSelect(S, root)) /\ SessionSelect(S, root).wl = S.wl
    BY <1>4, <2>3, SelectKeepsSound, SelectType
  <2>7. /\ ses'[s] = SessionSelect(S, root)
        /\ \A t \in SessionId \ {s} : ses'[t] = ses[t]
    BY <2>5 DEF Core, StateOK
  <2>8. \A t \in G : ses'[t].wl = ses[first].wl
    <3> TAKE t \in G
    <3>1. CASE t = s
      BY <3>1, <2>3, <2>6, <2>7
    <3>2. CASE t # s
      <4>1. t \in SessionId /\ t \in Group(target) \cup {target}
        BY <3>2, <1>1, <1>2 DEF G, Core, StateOK
      <4>2. t = first \/ \E g \in groups : t \in g /\ first \in g
        <5>1. CASE Group(target) = {}
          BY <5>1, <4>1, <1>1 DEF Mates
        <5>2. CASE Group(target) # {}
          <6>1. PICK h \in groups : target \in h
            BY <5>2 DEF Group
          <6>2. Group(target) = h
            BY <6>1, GroupIs DEF Core
          <6> QED
            BY <6>1, <6>2, <4>1, <1>1 DEF Mates
        <5> QED
          BY <5>1, <5>2
      <4>3. ses[t].wl = ses[first].wl
        BY <4>2, <1>8 DEF Core, GroupShare
      <4> QED
        BY <3>2, <4>1, <4>3, <2>7
    <3> QED
      BY <3>1, <3>2
  <2>9. GroupShare'
    <3> SUFFICES ASSUME NEW g \in groups', NEW t \in g, NEW u \in g
                 PROVE  ses'[t].wl = ses'[u].wl
      BY DEF GroupShare
    <3>1. CASE g = G
      BY <3>1, <2>8
    <3>2. CASE g \in groups /\ g \cap G = {}
      <4>1. t \in SessionId \ {s} /\ u \in SessionId \ {s}
        BY <3>2 DEF G, Core, StateOK
      <4>2. ses[t].wl = ses[u].wl
        BY <3>2, <1>8 DEF Core, GroupShare
      <4> QED
        BY <4>1, <4>2, <2>7
    <3> QED
      BY <1>2, <3>1, <3>2
  <2>10. AllSound'
    <3> SUFFICES ASSUME NEW t \in sessions \cup {s} PROVE Sound(ses'[t])
      BY <1>1 DEF AllSound, Sound, StackOK, Linked
    <3> QED
      BY <2>6, <2>7, <1>8 DEF Core, AllSound, StateOK
  <2>11. NoNullDeref'
    BY <1>1, <1>5, <2>4 DEF NoNullDeref
  <2> QED
    BY <2>9, <2>10, <2>11
<1> QED
  BY <1>1, <1>6, <1>7, <1>8 DEF Core

LEMMA KillSessionStep ==
    ASSUME Core, NEW s \in SessionId, KillSession(s)
    PROVE  Core' /\ sessions' = sessions \ {s}
<1> DEFINE r == [w \in WindowId |-> refs[w] - Cardinality(LinksTo(ses[s], w))]
<1>1. s \in sessions /\ Destroy(s, r)
  BY DEF KillSession
<1>2. \A w \in WindowId : refs[w] - Cardinality(LinksTo(ses[s], w)) \in Int
  <2> TAKE w \in WindowId
  <2>1. ses[s] \in SesType /\ refs[w] \in Int
    BY DEF Core, StateOK
  <2>2. Cardinality(LinksTo(ses[s], w)) \in Nat
    BY <2>1, CountTypes
  <2> QED
    BY <2>1, <2>2
<1>3. r \in [WindowId -> Int]
  BY <1>2
<1> HIDE DEF r
<1> QED
  BY <1>1, <1>3, DestroyStep

(***************************************************************************)
(* The commands on windows.                                                *)
(***************************************************************************)
\* A session from which the window at idx has been removed by hand, or not, and
\* the index winlink_add then uses.
LEMMA ReplacedProps ==
    ASSUME Core, NEW s \in sessions, NEW idx \in Idx \cup {NoIdx},
           NEW k \in BOOLEAN, k => idx \in Linked(ses[s])
    PROVE  LET K  == IF k THEN Replace(ses[s], idx) ELSE ses[s]
               at == AddIndex(K, idx)
           IN  /\ K \in SesType
               /\ at # NoIdx =>
                     /\ at \in Idx /\ at \notin Linked(K)
                     /\ \/ K.wl = ses[s].wl
                        \/ K.wl = [ses[s].wl EXCEPT ![at] = NoWindow]
               /\ ~ForkMayFail =>
                     /\ StackOK(K)
                     /\ \/ K.curw \in Linked(K)
                        \/ k /\ ses[s].curw = idx /\ K.curw = NoIdx
<1> DEFINE K  == IF k THEN Replace(ses[s], idx) ELSE ses[s]
           at == AddIndex(K, idx)
<1>1. ses[s] \in SesType /\ (~ForkMayFail => Sound(ses[s]))
  BY DEF Core, StateOK, AllSound
<1>2. CASE k
  <2>1. idx \in Idx /\ idx # NoIdx /\ K = Replace(ses[s], idx)
    BY <1>2 DEF Linked, Idx, NoIdx
  <2>2. K \in SesType /\ K.wl = [ses[s].wl EXCEPT ![idx] = NoWindow]
    BY <1>1, <2>1, ReplaceType
  <2> HIDE DEF K
  <2>3. idx \notin Linked(K)
    BY <1>1, <2>1, <2>2 DEF Linked, SesType
  <2>4. at = idx
    BY <2>1, <2>3 DEF AddIndex
  <2>5. ASSUME ~ForkMayFail
        PROVE  /\ StackOK(K)
               /\ K.curw \in Linked(K) \/ (ses[s].curw = idx /\ K.curw = NoIdx)
    BY <1>1, <2>1, <2>5, ReplaceSound DEF Sound
  <2> QED
    BY <1>2, <2>1, <2>2, <2>3, <2>4, <2>5 DEF K
<1>3. CASE ~k
  <2>1. K = ses[s]
    BY <1>3
  <2>2. at \in (Idx \ Linked(K)) \cup {NoIdx}
    BY <1>1, <2>1, AddIndexType
  <2> QED
    BY <1>1, <2>1, <2>2 DEF Sound
<1> QED
  BY <1>2, <1>3

LEMMA CreateStep ==
    ASSUME Core, NEW s \in sessions, NEW w \in WindowId,
           NEW idx \in Idx \cup {NoIdx}, NEW kill \in BOOLEAN, NEW det \in BOOLEAN,
           CreateWindow(s, w, idx, kill, det)
    PROVE  Core' /\ sessions' = sessions
<1> DEFINE S    == ses[s]
           k    == kill /\ idx \in Linked(S)
           K    == IF k THEN Replace(S, idx) ELSE S
           r    == IF k THEN Decr(refs, S.wl[idx]) ELSE refs
           at   == AddIndex(K, idx)
           T    == [K EXCEPT !.wl[at] = w]
           stay == det /\ ~(k /\ S.curw = idx)
           U    == IF stay THEN T ELSE SessionSelect(T, at)
<1>1. /\ K \in SesType
      /\ at # NoIdx => /\ at \in Idx /\ at \notin Linked(K)
                       /\ \/ K.wl = ses[s].wl
                          \/ K.wl = [ses[s].wl EXCEPT ![at] = NoWindow]
      /\ ~ForkMayFail => /\ StackOK(K)
                         /\ \/ K.curw \in Linked(K)
                            \/ k /\ ses[s].curw = idx /\ K.curw = NoIdx
  <2>1. k \in BOOLEAN
    OBVIOUS
  <2> HIDE DEF k
  <2>2. k => idx \in Linked(ses[s])
    BY DEF k
  <2> QED
    BY <2>1, <2>2, ReplacedProps
<1>2. r \in [WindowId -> Int]
  BY CountChange DEF Core, StateOK
<1>3. \/ at # NoIdx /\ Publish(s, T, U, Incr(r, w))
      \/ /\ ForkMayFail
         /\ ses' = [ses EXCEPT ![s] = K] /\ refs' = r
         /\ UNCHANGED <<sessions, groups, died>>
  BY DEF CreateWindow
<1>4. CASE at # NoIdx /\ Publish(s, T, U, Incr(r, w))
  <2> DEFINE sel == ~stay
  <2>1. sel \in BOOLEAN /\ (k /\ ses[s].curw = idx => sel)
    OBVIOUS
  <2>2. U = IF sel THEN SessionSelect(T, at) ELSE T
    OBVIOUS
  <2>3. Incr(r, w) \in [WindowId -> Int]
    BY <1>2, CountChange
  <2> HIDE DEF K, at, U, sel, r, k
  <2>4. ~ForkMayFail => /\ StackOK(K)
                        /\ K.curw \in Linked(K) \/ (K.curw = NoIdx /\ sel)
    BY <1>1, <2>1
  <2> QED
    BY <1>1, <1>4, <2>1, <2>2, <2>3, <2>4, LinkStep
<1>5. CASE /\ ForkMayFail
           /\ ses' = [ses EXCEPT ![s] = K] /\ refs' = r
           /\ UNCHANGED <<sessions, groups, died>>
  <2> HIDE DEF K, r
  <2> QED
    BY <1>1, <1>2, <1>5 DEF Core, StateOK, GroupWellFormed
<1> QED
  BY <1>3, <1>4, <1>5

LEMMA BreakPaneStep ==
    ASSUME Core, NEW s \in SessionId, NEW w \in WindowId, NEW det \in BOOLEAN,
           BreakPane(s, w, det)
    PROVE  Core' /\ sessions' = sessions
<1> DEFINE D   == ses[s]
           at  == AddIndex(D, NoIdx)
           sel == ~det
           T   == [D EXCEPT !.wl[at] = w]
<1>1. s \in sessions /\ at # NoIdx
  BY DEF BreakPane
<1>2. Publish(s, T, IF sel THEN SessionSelect(T, at) ELSE T, Incr(refs, w))
  BY DEF BreakPane
<1>3. D \in SesType /\ Incr(refs, w) \in [WindowId -> Int]
  BY CountChange DEF Core, StateOK
<1>4. at \in Idx \ Linked(D)
  BY <1>1, <1>3, AddIndexType
<1>5. ~ForkMayFail => StackOK(D) /\ D.curw \in Linked(D)
  BY <1>1 DEF Core, AllSound, Sound
<1>6. sel \in BOOLEAN
  OBVIOUS
<1> HIDE DEF at, sel
<1> QED
  BY <1>1, <1>2, <1>3, <1>4, <1>5, <1>6, LinkStep

\* server_link_window.  The winlink it copied stays where it was.
LEMMA LinkWindowStep ==
    ASSUME Core, NEW src \in SessionId, NEW dst \in SessionId, NEW i \in Idx,
           NEW idx \in Idx \cup {NoIdx}, NEW kill \in BOOLEAN, NEW sel \in BOOLEAN,
           LinkWindow(src, i, dst, idx, kill, sel)
    PROVE  /\ Core' /\ sessions' = sessions
           /\ src \in sessions /\ i \in Linked(ses'[src])
<1> DEFINE D   == ses[dst]
           w   == ses[src].wl[i]
           k   == idx \in Linked(D)
           K   == IF k THEN Replace(D, idx) ELSE D
           r   == IF k THEN Decr(refs, D.wl[idx]) ELSE refs
           at  == AddIndex(K, idx)
           T   == [K EXCEPT !.wl[at] = w]
           go  == sel \/ (k /\ D.curw = idx)
<1>1. /\ src \in sessions /\ dst \in sessions /\ i \in Linked(ses[src])
      /\ dst \notin Mates(src)
      /\ k => D.wl[idx] # w
      /\ at # NoIdx
      /\ Publish(dst, T, IF go THEN SessionSelect(T, at) ELSE T, Incr(r, w))
  BY DEF LinkWindow
<1>2. /\ K \in SesType
      /\ at \in Idx /\ at \notin Linked(K)
      /\ K.wl = D.wl \/ K.wl = [D.wl EXCEPT ![at] = NoWindow]
      /\ ~ForkMayFail => /\ StackOK(K)
                         /\ K.curw \in Linked(K) \/ (K.curw = NoIdx /\ go)
  <2>1. k \in BOOLEAN
    OBVIOUS
  <2>2. k => idx \in Linked(ses[dst])
    OBVIOUS
  <2>3. k /\ D.curw = idx => go
    OBVIOUS
  <2> HIDE DEF k, go
  <2> QED
    BY <1>1, <2>1, <2>2, <2>3, ReplacedProps
<1>3. w \in WindowId /\ ses[src] \in SesType
  <2>1. ses[src] \in SesType
    BY DEF Core, StateOK
  <2>2. i \in Linked(ses[src])
    BY <1>1
  <2> HIDE DEF D, w
  <2> QED
    BY <2>1, <2>2 DEF Linked, SesType, w
<1>4. Incr(r, w) \in [WindowId -> Int]
  <2>1. r \in [WindowId -> Int]
    BY CountChange DEF Core, StateOK
  <2> HIDE DEF r
  <2> QED
    BY <2>1, CountChange
<1>5. go \in BOOLEAN
  OBVIOUS
<1>6. K.wl[i] = ses[src].wl[i] \/ src # dst
  <2>1. CASE k
    <3>1. K.wl = [D.wl EXCEPT ![idx] = NoWindow]
      <4>1. idx \in Idx /\ D \in SesType
        BY <2>1 DEF Linked, Core, StateOK
      <4> QED
        BY <2>1, <4>1, ReplaceType
    <3> HIDE DEF K, k
    <3> QED
      BY <1>1, <1>3, <2>1, <3>1 DEF SesType
  <2>2. CASE ~k
    BY <2>2
  <2> QED
    BY <2>1, <2>2
<1> HIDE DEF K, at, go, r, w
<1>7. Core' /\ sessions' = sessions /\ ses'[dst].wl = [K.wl EXCEPT ![at] = w]
  <2> DEFINE U == IF go THEN SessionSelect(T, at) ELSE T
             q == Incr(r, w)
  <2>1. dst \in sessions /\ Publish(dst, T, U, q)
    BY <1>1
  <2>2. U = IF go THEN SessionSelect(T, at) ELSE T
    OBVIOUS
  <2>3. q \in [WindowId -> Int]
    BY <1>4
  <2> HIDE DEF U, q
  <2> QED
    BY <1>2, <1>3, <1>5, <2>1, <2>2, <2>3, LinkStep
<1>8. i \in Linked(ses'[src])
  <2>1. CASE src = dst
    <3>1. ses'[src].wl[i] # NoWindow
      BY <1>2, <1>3, <1>6, <1>7, <2>1, WindowAssumption DEF SesType, w
    <3> QED
      BY <3>1 DEF Linked
  <2>2. CASE src # dst
    <3>1. src \notin Mates(dst)
      BY <1>1, MatesSymmetric DEF Core
    <3>2. ses'[src] = ses[src]
      BY <1>1, <2>2, <3>1 DEF Publish
    <3> QED
      BY <1>1, <3>2 DEF Linked
  <2> QED
    BY <2>1, <2>2
<1> QED
  BY <1>1, <1>7, <1>8

\* Another window at an index in use.
LEMMA ExchangeSound ==
    ASSUME NEW S \in SesType, NEW i \in Linked(S), NEW w \in WindowId
    PROVE  LET T == [S EXCEPT !.wl[i] = w]
           IN  /\ T \in SesType /\ Linked(T) = Linked(S)
               /\ Sound(S) => Sound(T)
<1> DEFINE T == [S EXCEPT !.wl[i] = w]
<1>1. i \in Idx
  BY DEF Linked
<1>2. T \in SesType /\ T.wl = [S.wl EXCEPT ![i] = w]
      /\ T.curw = S.curw /\ T.lastw = S.lastw
  BY <1>1, PutType DEF SesType
<1>3. Linked(T) = Linked(S)
  BY <1>1, <1>2, WindowAssumption DEF Linked, SesType
<1> HIDE DEF T
<1> QED
  BY <1>2, <1>3 DEF Sound, StackOK, T

\* What the two sessions of swap-window become.
LEMMA SwapSessions ==
    ASSUME NEW S \in SesType, NEW i \in Linked(S), NEW w \in WindowId,
           NEW to \in Idx, NEW det \in BOOLEAN,
           NEW T, T = [S EXCEPT !.wl[i] = w],
           NEW A, A = IF det THEN T ELSE SessionSelect(T, to)
    PROVE  A \in SesType /\ Linked(A) = Linked(S) /\ (Sound(S) => Sound(A))
<1>1. T \in SesType /\ Linked(T) = Linked(S) /\ (Sound(S) => Sound(T))
  BY ExchangeSound
<1>2. A \in SesType /\ A.wl = T.wl
  BY <1>1, SelectType
<1>3. Sound(S) => Sound(A)
  BY <1>1, SelectKeepsSound
<1>4. Linked(A) = Linked(S)
  BY <1>1, <1>2 DEF Linked
<1> QED
  BY <1>2, <1>3, <1>4

\* Two sessions, not members of one group, are made A and B, which keep the
\* indexes in use, and their groups are synchronized.
LEMMA SwapGroups ==
    ASSUME Core, NEW src \in sessions, NEW dst \in sessions, dst \notin Mates(src),
           NEW A \in SesType, Linked(A) = Linked(ses[src]),
           NEW B \in SesType, Linked(B) = Linked(ses[dst]), src = dst => A = B,
           ~ForkMayFail => Sound(A) /\ Sound(B),
           ses' = [t \in SessionId |->
                    CASE t = src -> A
                      [] t = dst -> B
                      [] t \in Mates(src) -> Synced(A, ses[t])
                      [] t \in Mates(dst) \ Mates(src) -> Synced(B, ses[t])
                      [] OTHER -> ses[t]],
           refs' \in [WindowId -> Int],
           died' = IF \/ \E m \in Mates(src) : SyncNull(A, ses[m])
                      \/ \E m \in Mates(dst) : SyncNull(B, ses[m])
                   THEN "null_pointer" ELSE "no",
           UNCHANGED <<sessions, groups>>
    PROVE  Core'
<1> USE DEF Core
<1>0. sessions \subseteq SessionId /\ ses \in [SessionId -> SesType]
  BY DEF StateOK
<1>1. /\ ses'[src] = A /\ ses'[dst] = B
      /\ \A t \in SessionId \ {src, dst} :
            /\ t \in Mates(src) => ses'[t] = Synced(A, ses[t])
            /\ t \in Mates(dst) \ Mates(src) => ses'[t] = Synced(B, ses[t])
            /\ t \notin Mates(src) \cup Mates(dst) => ses'[t] = ses[t]
  <2>0. /\ src \notin Mates(src) /\ dst \notin Mates(dst)
        /\ src \notin Mates(dst) /\ dst \notin Mates(src)
    BY MatesSymmetric DEF Mates
  <2>1. ses'[src] = A
    BY <1>0, <2>0
  <2>2. ses'[dst] = B
    BY <1>0, <2>0
  <2>3. ASSUME NEW t \in SessionId \ {src, dst}
        PROVE  /\ t \in Mates(src) => ses'[t] = Synced(A, ses[t])
               /\ t \in Mates(dst) \ Mates(src) => ses'[t] = Synced(B, ses[t])
               /\ t \notin Mates(src) \cup Mates(dst) => ses'[t] = ses[t]
    <3>1. ses'[t] = CASE t \in Mates(src) -> Synced(A, ses[t])
                      [] t \in Mates(dst) \ Mates(src) -> Synced(B, ses[t])
                      [] OTHER -> ses[t]
      BY <2>3
    <3> QED
      BY <3>1
  <2> QED
    BY <2>1, <2>2, <2>3
<1>2. StateOK'
  <2>1. \A t \in SessionId : ses'[t] \in SesType
    <3> TAKE t \in SessionId
    <3>1. ses[t] \in SesType
      BY <1>0
    <3>2. Synced(A, ses[t]) \in SesType /\ Synced(B, ses[t]) \in SesType
      BY <3>1, SyncedType
    <3> QED
      BY <1>1, <3>1, <3>2
  <2>2. ses' \in [SessionId -> SesType]
    BY <2>1
  <2>3. died' \in {"no", "null_pointer"}
    OBVIOUS
  <2> QED
    BY <2>2, <2>3 DEF StateOK
<1>3. GroupWellFormed'
  BY DEF GroupWellFormed
<1>4. ASSUME ~ForkMayFail PROVE (GroupShare /\ AllSound /\ NoNullDeref)'
  <2>0. GroupShare /\ AllSound /\ Sound(A) /\ Sound(B)
    BY <1>4
  <2>1. Fits(src, A) /\ Fits(dst, B)
    BY <2>0 DEF Fits, Sound
  <2>2. \A m \in Mates(src) : Sound(Synced(A, ses[m])) /\ ~SyncNull(A, ses[m])
    BY <2>0, <2>1, MateSynced
  <2>3. \A m \in Mates(dst) : Sound(Synced(B, ses[m])) /\ ~SyncNull(B, ses[m])
    BY <2>0, <2>1, MateSynced
  <2>4. NoNullDeref'
    BY <2>2, <2>3 DEF NoNullDeref
  <2>5. AllSound'
    <3> SUFFICES ASSUME NEW t \in sessions PROVE Sound(ses'[t])
      BY DEF AllSound, Sound, StackOK, Linked
    <3>1. Sound(ses[t])
      BY <2>0 DEF AllSound
    <3>2. CASE t \in {src, dst}
      BY <3>2, <1>1, <2>0
    <3>3. CASE t \notin {src, dst}
      BY <3>3, <3>1, <1>0, <1>1, <2>2, <2>3
    <3> QED
      BY <3>2, <3>3
  <2>6. GroupShare'
    <3> SUFFICES ASSUME NEW g \in groups, NEW t \in g, NEW u \in g
                 PROVE  ses'[t].wl = ses'[u].wl
      BY DEF GroupShare
    <3>0. g \subseteq SessionId
      BY DEF StateOK
    <3>1. CASE src \in g
      <4>1. Group(src) = g
        BY <3>1, GroupIs
      <4>2. \A x \in g : ses'[x].wl = A.wl
        <5> TAKE x \in g
        <5>1. CASE x = src
          BY <5>1, <1>1
        <5>2. CASE x # src
          <6>1. x \in Mates(src) /\ x \in SessionId \ {src, dst}
            BY <4>1, <5>2, <3>0 DEF Mates
          <6>2. ses'[x] = Synced(A, ses[x]) /\ ses[x] \in SesType
            BY <6>1, <1>0, <1>1
          <6> QED
            BY <6>2, <2>1, SyncedType DEF Fits
        <5> QED
          BY <5>1, <5>2
      <4> QED
        BY <4>2
    <3>2. CASE src \notin g /\ dst \in g
      <4>1. Group(dst) = g
        BY <3>2, GroupIs
      <4>2. \A x \in g : x \notin Mates(src)
        <5> SUFFICES ASSUME NEW x \in g, x \in Mates(src) PROVE FALSE
          OBVIOUS
        <5>1. Group(x) = g /\ src \in Mates(x)
          BY MatesSymmetric, GroupIs
        <5> QED
          BY <5>1, <3>2 DEF Mates
      <4>3. \A x \in g : ses'[x].wl = B.wl
        <5> TAKE x \in g
        <5>1. CASE x = dst
          BY <5>1, <1>1
        <5>2. CASE x # dst
          <6>1. x \in Mates(dst) \ Mates(src) /\ x \in SessionId \ {src, dst}
            BY <4>1, <4>2, <5>2, <3>0, <3>2 DEF Mates
          <6>2. ses'[x] = Synced(B, ses[x]) /\ ses[x] \in SesType
            BY <6>1, <1>0, <1>1
          <6> QED
            BY <6>2, <2>1, SyncedType DEF Fits
        <5> QED
          BY <5>1, <5>2
      <4> QED
        BY <4>3
    <3>3. CASE src \notin g /\ dst \notin g
      <4>1. \A x \in g : x \notin Mates(src) \cup Mates(dst)
        <5> SUFFICES ASSUME NEW x \in g, NEW y \in {src, dst}, x \in Mates(y)
                     PROVE  FALSE
          OBVIOUS
        <5>1. Group(x) = g /\ y \in Mates(x)
          BY MatesSymmetric, GroupIs
        <5> QED
          BY <5>1, <3>3 DEF Mates
      <4>2. ses'[t] = ses[t] /\ ses'[u] = ses[u]
        BY <4>1, <1>1, <3>0, <3>3
      <4> QED
        BY <4>2, <2>0 DEF GroupShare
    <3> QED
      BY <3>1, <3>2, <3>3
  <2> QED
    BY <2>4, <2>5, <2>6
<1> QED
  BY <1>2, <1>3, <1>4

\* swap-window makes its sessions such A and B.
LEMMA SwapPair ==
    ASSUME Core, NEW src \in SessionId, NEW dst \in SessionId,
           NEW i \in Idx, NEW j \in Idx, NEW det \in BOOLEAN,
           SwapWindow(src, i, dst, j, det)
    PROVE  \E A, B \in SesType :
              /\ src \in sessions /\ dst \in sessions /\ dst \notin Mates(src)
              /\ Linked(A) = Linked(ses[src]) /\ Linked(B) = Linked(ses[dst])
              /\ ~ForkMayFail => Sound(A) /\ Sound(B)
              /\ src = dst => A = B
              /\ ses' = [t \in SessionId |->
                          CASE t = src -> A
                            [] t = dst -> B
                            [] t \in Mates(src) -> Synced(A, ses[t])
                            [] t \in Mates(dst) \ Mates(src) -> Synced(B, ses[t])
                            [] OTHER -> ses[t]]
              /\ refs' = IF src = dst THEN SyncRefs(refs, src, A)
                         ELSE SyncRefs(SyncRefs(refs, src, A), dst, B)
              /\ died' = IF \/ \E m \in Mates(src) : SyncNull(A, ses[m])
                            \/ \E m \in Mates(dst) : SyncNull(B, ses[m])
                         THEN "null_pointer" ELSE "no"
<1> DEFINE put(S, k, w) == [S EXCEPT !.wl[k] = w]
           to(S, k)     == IF det THEN S ELSE SessionSelect(S, k)
           ws == ses[src].wl[i]
           wd == ses[dst].wl[j]
           A  == IF src = dst
                 THEN to(put(put(ses[src], i, wd), j, ws), j)
                 ELSE to(put(ses[src], i, wd), i)
           B  == IF src = dst THEN A ELSE to(put(ses[dst], j, ws), j)
<1>1. /\ src \in sessions /\ dst \in sessions /\ dst \notin Mates(src)
      /\ i \in Linked(ses[src]) /\ j \in Linked(ses[dst])
      /\ ses' = [t \in SessionId |->
                  CASE t = src -> A
                    [] t = dst -> B
                    [] t \in Mates(src) -> Synced(A, ses[t])
                    [] t \in Mates(dst) \ Mates(src) -> Synced(B, ses[t])
                    [] OTHER -> ses[t]]
      /\ refs' = IF src = dst THEN SyncRefs(refs, src, A)
                 ELSE SyncRefs(SyncRefs(refs, src, A), dst, B)
      /\ died' = IF \/ \E m \in Mates(src) : SyncNull(A, ses[m])
                    \/ \E m \in Mates(dst) : SyncNull(B, ses[m])
                 THEN "null_pointer" ELSE "no"
      /\ UNCHANGED <<sessions, groups, todo>>
  BY DEF SwapWindow
<1>2. /\ ses[src] \in SesType /\ ses[dst] \in SesType
      /\ ~ForkMayFail => Sound(ses[src]) /\ Sound(ses[dst])
      /\ refs \in [WindowId -> Int]
  BY <1>1 DEF Core, StateOK, AllSound
<1>3. ws \in WindowId /\ wd \in WindowId
  <2>1. \A S \in SesType : \A k \in Linked(S) : S.wl[k] \in WindowId
    BY DEF Linked, SesType
  <2> QED
    BY <1>1, <1>2, <2>1
<1> HIDE DEF ws, wd
<1>4. /\ A \in SesType /\ Linked(A) = Linked(ses[src])
      /\ B \in SesType /\ Linked(B) = Linked(ses[dst])
      /\ ~ForkMayFail => Sound(A) /\ Sound(B)
  <2>1. CASE src = dst
    <3> DEFINE M == put(ses[src], i, wd)
    <3>1. /\ M \in SesType /\ Linked(M) = Linked(ses[src])
          /\ Sound(ses[src]) => Sound(M)
      BY <1>1, <1>2, <1>3, ExchangeSound
    <3> HIDE DEF M
    <3>2. j \in Linked(M)
      BY <1>1, <2>1, <3>1
    <3> DEFINE N == put(M, j, ws)
               C == to(N, j)
    <3>3. /\ C \in SesType /\ Linked(C) = Linked(M)
          /\ Sound(M) => Sound(C)
      <4>1. N = [M EXCEPT !.wl[j] = ws]
        OBVIOUS
      <4> HIDE DEF N
      <4>2. C = IF det THEN N ELSE SessionSelect(N, j)
        OBVIOUS
      <4> HIDE DEF C
      <4> QED
        BY <1>3, <3>1, <3>2, <4>1, <4>2, SwapSessions
    <3>4. A = C /\ B = C
      BY <2>1 DEF M
    <3> HIDE DEF A, B, C
    <3> QED
      BY <1>2, <2>1, <3>1, <3>3, <3>4
  <2>2. CASE src # dst
    <3> DEFINE M == put(ses[src], i, wd)
               N == put(ses[dst], j, ws)
               C == to(M, i)
               D == to(N, j)
    <3>1. C \in SesType /\ Linked(C) = Linked(ses[src]) /\ (Sound(ses[src]) => Sound(C))
      <4>1. M = [ses[src] EXCEPT !.wl[i] = wd]
        OBVIOUS
      <4> HIDE DEF M
      <4>2. C = IF det THEN M ELSE SessionSelect(M, i)
        OBVIOUS
      <4> HIDE DEF C
      <4> QED
        BY <1>1, <1>2, <1>3, <4>1, <4>2, SwapSessions
    <3>2. D \in SesType /\ Linked(D) = Linked(ses[dst]) /\ (Sound(ses[dst]) => Sound(D))
      <4>1. N = [ses[dst] EXCEPT !.wl[j] = ws]
        OBVIOUS
      <4> HIDE DEF N
      <4>2. D = IF det THEN N ELSE SessionSelect(N, j)
        OBVIOUS
      <4> HIDE DEF D
      <4> QED
        BY <1>1, <1>2, <1>3, <4>1, <4>2, SwapSessions
    <3>3. A = C /\ B = D
      BY <2>2
    <3> HIDE DEF A, B, C, D
    <3> QED
      BY <1>2, <3>1, <3>2, <3>3
  <2> QED
    BY <2>1, <2>2
<1>5. src = dst => A = B
  OBVIOUS
<1> HIDE DEF A, B
<1> QED
  BY <1>1, <1>4, <1>5

LEMMA SwapStep ==
    ASSUME Core, NEW src \in SessionId, NEW dst \in SessionId,
           NEW i \in Idx, NEW j \in Idx, NEW det \in BOOLEAN,
           SwapWindow(src, i, dst, j, det)
    PROVE  Core' /\ sessions' = sessions
<1>1. PICK A, B \in SesType :
         /\ src \in sessions /\ dst \in sessions /\ dst \notin Mates(src)
         /\ Linked(A) = Linked(ses[src]) /\ Linked(B) = Linked(ses[dst])
         /\ ~ForkMayFail => Sound(A) /\ Sound(B)
         /\ src = dst => A = B
         /\ ses' = [t \in SessionId |->
                     CASE t = src -> A
                       [] t = dst -> B
                       [] t \in Mates(src) -> Synced(A, ses[t])
                       [] t \in Mates(dst) \ Mates(src) -> Synced(B, ses[t])
                       [] OTHER -> ses[t]]
         /\ refs' = IF src = dst THEN SyncRefs(refs, src, A)
                    ELSE SyncRefs(SyncRefs(refs, src, A), dst, B)
         /\ died' = IF \/ \E m \in Mates(src) : SyncNull(A, ses[m])
                       \/ \E m \in Mates(dst) : SyncNull(B, ses[m])
                    THEN "null_pointer" ELSE "no"
  BY SwapPair
<1>2. UNCHANGED <<sessions, groups>>
  BY DEF SwapWindow
<1>3. refs' \in [WindowId -> Int]
  <2>0. refs \in [WindowId -> Int]
    BY DEF Core, StateOK
  <2>1. SyncRefs(refs, src, A) \in [WindowId -> Int]
    BY <2>0, SyncRefsType DEF Core
  <2>2. SyncRefs(SyncRefs(refs, src, A), dst, B) \in [WindowId -> Int]
    BY <2>1, SyncRefsType DEF Core
  <2> QED
    BY <1>1, <2>1, <2>2
<1> QED
  BY <1>1, <1>2, <1>3, SwapGroups

(***************************************************************************)
(* The handlers of several steps.                                          *)
(***************************************************************************)
\* Facts about what is left of a handler.
LEMMA TodoProps ==
    ASSUME todo \in TodoType
    PROVE  /\ todo.op \in {"idle", "kill", "unlink", "link", "shift"}
           /\ todo.op = "kill" => todo.w \in WindowId /\ todo.left \in SUBSET SessionId
                                  /\ todo = Kill(todo.w, todo.left)
           /\ todo.op = "unlink" => todo.s \in SessionId /\ todo.i \in Idx
           /\ todo.op \in {"link", "shift"} =>
                 /\ todo.s \in SessionId /\ todo.idx \in Idx /\ todo.last \in Idx
                 /\ todo.det \in BOOLEAN
                 /\ todo = Shift(todo.op, todo.s, todo.idx, todo.last, todo.det)
           /\ todo.op = "idle" => todo = Idle
  BY DEF TodoType, Idle, Kill, UnlinkAt, Shift

LEMMA IdleSound ==
    ASSUME todo' = Idle
    PROVE  todo' \in TodoType /\ TodoSound'
<1>1. todo' \in TodoType
  BY DEF TodoType
<1>2. todo'.op = "idle"
  BY DEF Idle
<1> QED
  BY <1>1, <1>2 DEF TodoSound

\* new-window -a, the link of a window one further up.
LEMMA ShiftLinkStep ==
    ASSUME IInv, ShiftLink
    PROVE  IInv' /\ sessions' = sessions
<1> DEFINE s  == todo.s
           D  == ses[s]
           at == todo.last
           w  == D.wl[at - 1]
           T  == [D EXCEPT !.wl[at] = w]
           r  == Incr(refs, w)
<1>1. /\ todo.op = "link" /\ at > todo.idx
      /\ Publish(s, T, T, r)
      /\ todo' = [todo EXCEPT !.op = "shift"]
  BY DEF ShiftLink
<1>2. /\ s \in sessions /\ todo.idx..(at - 1) \subseteq Linked(D)
      /\ at \notin Linked(D)
  BY <1>1 DEF IInv, TodoSound
<1>3. /\ todo.idx \in Idx /\ at \in Idx /\ s \in SessionId
      /\ todo' = Shift("shift", s, todo.idx, at, todo.det) /\ todo.det \in BOOLEAN
  <2>1. /\ todo.idx \in Idx /\ at \in Idx /\ s \in SessionId /\ todo.det \in BOOLEAN
        /\ todo = Shift(todo.op, s, todo.idx, at, todo.det)
    BY <1>1, TodoProps DEF IInv
  <2> QED
    BY <1>1, <2>1 DEF Shift
<1>4. at - 1 \in Linked(D) /\ at - 1 \in Idx
  <2>1. at - 1 \in todo.idx..(at - 1) /\ at - 1 \in Idx
    BY <1>1, <1>3, IndexAssumption DEF Idx
  <2> QED
    BY <1>2, <2>1
<1>5. D \in SesType /\ (~ForkMayFail => Sound(D)) /\ refs \in [WindowId -> Int]
  BY <1>2 DEF IInv, Core, StateOK, AllSound
<1> HIDE DEF s, at
<1>6. w \in WindowId
  BY <1>4, <1>5 DEF Linked, SesType
<1> HIDE DEF w
<1>7. r \in [WindowId -> Int]
  BY <1>5, <1>6, CountChange
<1> HIDE DEF D, r
<1>8. Core' /\ sessions' = sessions /\ ses'[s].wl = [D.wl EXCEPT ![at] = w]
  <2> DEFINE sel == FALSE
  <2>1. sel \in BOOLEAN /\ T = IF sel THEN SessionSelect(T, at) ELSE T
    OBVIOUS
  <2> HIDE DEF T, sel
  <2>2. ~ForkMayFail => StackOK(D) /\ D.curw \in Linked(D)
    BY <1>5 DEF Sound
  <2>3. D.wl = ses[s].wl /\ T = [D EXCEPT !.wl[at] = w]
    BY DEF D, T
  <2> QED
    <3>1. Core /\ s \in sessions /\ at \in Idx /\ at \notin Linked(D) /\ Publish(s, T, T, r)
      BY <1>1, <1>2, <1>3 DEF IInv
    <3>2. /\ D.wl = ses[s].wl /\ T = [D EXCEPT !.wl[at] = w]
          /\ T = IF sel THEN SessionSelect(T, at) ELSE T
      BY <2>1, <2>3
    <3> QED
      BY <1>5, <1>6, <1>7, <2>1, <2>2, <3>1, <3>2, LinkStep
<1>9. Linked(ses'[s]) = Linked(D) \cup {at}
  BY <1>3, <1>5, <1>6, <1>8, WindowAssumption DEF Linked, SesType
<1>10. /\ todo'.op = "shift" /\ todo'.s = s /\ todo'.idx = todo.idx /\ todo'.last = at
       /\ todo' \in TodoType
  BY <1>3 DEF Shift, TodoType
<1>11. TodoSound'
  <2>1. todo.idx..(at - 1) \subseteq Linked(ses'[s]) /\ at \in Linked(ses'[s])
    BY <1>2, <1>9 DEF D
  <2>2. todo.idx < at /\ todo.idx <= at
    BY <1>1, <1>3, IndexAssumption DEF Idx, at
  <2> QED
    BY <1>2, <1>8, <1>10, <2>1, <2>2 DEF TodoSound
<1> QED
  BY <1>8, <1>10, <1>11 DEF IInv

\* new-window -a, the removal of the link it was copied from.
LEMMA ShiftUnlinkStep ==
    ASSUME IInv, ShiftUnlink
    PROVE  IInv' /\ sessions' = sessions
<1> DEFINE s  == todo.s
           at == todo.last
<1>1. /\ todo.op = "shift" /\ DetachWindow(s, at - 1)
      /\ todo' = [todo EXCEPT !.op = "link", !.last = @ - 1]
  BY DEF ShiftUnlink
<1>2. /\ s \in sessions /\ todo.idx..(at - 1) \subseteq Linked(ses[s])
      /\ todo.idx < at /\ at \in Linked(ses[s])
  BY <1>1 DEF IInv, TodoSound
<1>3. /\ todo.idx \in Idx /\ at \in Idx /\ s \in SessionId /\ at - 1 \in Idx
      /\ todo' = Shift("link", s, todo.idx, at - 1, todo.det) /\ todo.det \in BOOLEAN
  <2>1. /\ todo.idx \in Idx /\ at \in Idx /\ s \in SessionId /\ todo.det \in BOOLEAN
        /\ todo = Shift(todo.op, s, todo.idx, at, todo.det)
    BY <1>1, TodoProps DEF IInv
  <2>2. at - 1 \in Idx
    BY <1>2, <2>1, IndexAssumption DEF Idx
  <2> QED
    BY <1>1, <2>1, <2>2 DEF Shift
<1> HIDE DEF s, at
<1>4. at - 1 \in Linked(ses[s]) /\ at # at - 1
  BY <1>2, <1>3, IndexAssumption DEF Idx
<1>5. Core' /\ sessions' = sessions /\ Linked(ses'[s]) = Linked(ses[s]) \ {at - 1}
  <2>1. Linked(ses[s]) # {at - 1}
    BY <1>2, <1>4
  <2> QED
    BY <1>1, <1>2, <1>4, <2>1, DetachStep DEF IInv
<1>6. /\ todo'.op = "link" /\ todo'.s = s /\ todo'.idx = todo.idx /\ todo'.last = at - 1
      /\ todo' \in TodoType
  BY <1>3 DEF Shift, TodoType
<1>7. TodoSound'
  <2>1. todo.idx..((at - 1) - 1) \subseteq Linked(ses'[s]) /\ at - 1 \notin Linked(ses'[s])
    <3>1. \A x \in todo.idx..((at - 1) - 1) : x \in todo.idx..(at - 1) /\ x # at - 1
      BY <1>3, IndexAssumption DEF Idx
    <3> QED
      BY <1>2, <1>5, <3>1
  <2>2. todo.idx <= at - 1
    BY <1>2, <1>3, IndexAssumption DEF Idx
  <2> QED
    BY <1>2, <1>5, <1>6, <2>1, <2>2 DEF TodoSound
<1> QED
  BY <1>5, <1>6, <1>7 DEF IInv

\* server_kill_window: a session that ends is not visited again.
LEMMA KillVisitStep ==
    ASSUME IInv, NEW s \in SessionId, KillVisit(s)
    PROVE  IInv'
<1> DEFINE w == todo.w
           i == Min(LinksTo(ses[s], w))
           done == LinksTo(Detach(ses[s], i), w) = {}
<1>1. todo.op = "kill" /\ s \in todo.left
  BY DEF KillVisit
<1>2. /\ w \in WindowId /\ todo.left \in SUBSET SessionId
      /\ todo = Kill(w, todo.left)
  BY <1>1, TodoProps DEF IInv
<1>3. todo.left \subseteq sessions
  BY <1>1 DEF IInv, TodoSound
<1>4. ASSUME NEW left \in SUBSET todo.left,
             todo' = [todo EXCEPT !.left = left],
             left \subseteq sessions', Core'
      PROVE  IInv'
  <2>1. todo' = Kill(w, left)
    BY <1>2, <1>4 DEF Kill
  <2>2. todo' \in TodoType
    BY <1>2, <2>1 DEF TodoType
  <2>3. todo'.op = "kill" /\ todo'.left = left
    BY <2>1 DEF Kill
  <2>4. TodoSound'
    BY <1>4, <2>3 DEF TodoSound
  <2> QED
    BY <1>4, <2>2, <2>4 DEF IInv
<1>5. CASE LinksTo(ses[s], w) = {}
  <2>1. /\ todo' = [todo EXCEPT !.left = todo.left \ {s}]
        /\ UNCHANGED <<sessions, ses, groups, refs, died>>
    BY <1>5 DEF KillVisit
  <2>2. Core'
    BY <2>1 DEF IInv, Core, StateOK, GroupWellFormed, GroupShare, AllSound, Sound,
                StackOK, Linked, NoNullDeref
  <2> QED
    BY <1>3, <1>4, <2>1, <2>2
<1>6. CASE LinksTo(ses[s], w) # {}
  <2>1. /\ DetachWindow(s, i)
        /\ todo' = [todo EXCEPT !.left = IF done THEN todo.left \ {s} ELSE todo.left]
    BY <1>6 DEF KillVisit
  <2>2. s \in sessions /\ ses[s] \in SesType
    BY <1>1, <1>3 DEF IInv, Core, StateOK
  <2>3. i \in LinksTo(ses[s], w)
    <3> DEFINE L == LinksTo(ses[s], w)
    <3>1. L \in SUBSET Nat /\ L # {}
      BY <1>6 DEF LinksTo, Idx
    <3> HIDE DEF L
    <3>2. Min(L) \in L
      BY <3>1, MinProps
    <3> QED
      BY <3>2 DEF L
  <2> HIDE DEF i
  <2>4. i \in Linked(ses[s]) /\ i \in Idx
    BY <1>2, <2>3, WindowAssumption DEF LinksTo, Linked
  <2>5. /\ Core'
        /\ IF Linked(ses[s]) = {i} THEN sessions' = sessions \ {s}
                                   ELSE sessions' = sessions
    BY <2>1, <2>2, <2>4, DetachStep DEF IInv
  <2>6. Linked(ses[s]) = {i} => done
    <3>1. Detach(ses[s], i).wl = [ses[s].wl EXCEPT ![i] = NoWindow]
      BY <2>2, <2>4, DetachType
    <3> DEFINE T == Detach(ses[s], i)
    <3> HIDE DEF T
    <3>2. LinksTo(T, w) \subseteq Linked(ses[s]) \ {i}
      BY <1>2, <2>2, <2>4, <3>1, WindowAssumption DEF LinksTo, Linked, SesType, T
    <3> QED
      BY <3>2 DEF T
  <2> HIDE DEF done
  <2> DEFINE left == IF done THEN todo.left \ {s} ELSE todo.left
  <2>7. left \in SUBSET todo.left /\ left \subseteq sessions'
    BY <1>3, <2>5, <2>6
  <2>8. todo' = [todo EXCEPT !.left = left]
    BY <2>1
  <2> HIDE DEF left
  <2> QED
    BY <1>4, <2>5, <2>7, <2>8
<1> QED
  BY <1>5, <1>6

(***************************************************************************)
(* The invariant.                                                          *)
(***************************************************************************)
LEMMA IInvInit ==
    Init => IInv
<1> SUFFICES ASSUME Init PROVE IInv
  OBVIOUS
<1>1. EmptySession \in SesType
  BY DEF EmptySession, SesType
<1>2. \A s \in SessionId : ses[s] = EmptySession
  BY DEF Init
<1>3. StateOK
  BY <1>1 DEF Init, StateOK
<1>4. GroupWellFormed /\ GroupShare /\ AllSound /\ NoNullDeref
  BY DEF Init, GroupWellFormed, GroupShare, AllSound, NoNullDeref
<1>5. todo \in TodoType /\ todo.op = "idle"
  BY DEF Init, TodoType, Idle
<1> QED
  BY <1>3, <1>4, <1>5 DEF IInv, Core, TodoSound

\* A step of the handler under way.
LEMMA ContinueStep ==
    ASSUME IInv, Continue
    PROVE  IInv'
<1>1. CASE ShiftLink
  BY <1>1, ShiftLinkStep
<1>2. CASE ShiftUnlink
  BY <1>2, ShiftUnlinkStep
<1>3. ASSUME NEW w \in WindowId, ShiftCreate(w)
      PROVE  IInv'
  <2>1. todo.op = "link" /\ todo' = Idle
        /\ CreateWindow(todo.s, w, todo.idx, FALSE, todo.det)
    BY <1>3 DEF ShiftCreate
  <2>2. todo.s \in sessions /\ todo.idx \in Idx /\ todo.det \in BOOLEAN
    BY <2>1, TodoProps DEF IInv, TodoSound
  <2> DEFINE kill == FALSE
  <2>3. kill \in BOOLEAN /\ CreateWindow(todo.s, w, todo.idx, kill, todo.det)
    BY <2>1
  <2> HIDE DEF kill
  <2>4. Core'
    BY <2>2, <2>3, CreateStep DEF IInv
  <2> QED
    BY <2>1, <2>4, IdleSound DEF IInv
<1>4. CASE MoveUnlink
  <2>1. todo.op = "unlink" /\ DetachWindow(todo.s, todo.i) /\ todo' = Idle
    BY <1>4 DEF MoveUnlink
  <2>2. todo.s \in sessions /\ todo.i \in Linked(ses[todo.s])
    BY <2>1 DEF IInv, TodoSound
  <2>3. Core'
    BY <2>1, <2>2, DetachStep DEF IInv
  <2> QED
    BY <2>1, <2>3, IdleSound DEF IInv
<1>5. ASSUME NEW s \in SessionId, KillVisit(s)
      PROVE  IInv'
  BY <1>5, KillVisitStep
<1>6. CASE KillReturn
  <2>1. todo' = Idle /\ UNCHANGED <<sessions, ses, groups, refs, died>>
    BY <1>6 DEF KillReturn
  <2>2. Core'
    BY <2>1 DEF IInv, Core, StateOK, GroupWellFormed, GroupShare, AllSound, Sound,
                StackOK, Linked, NoNullDeref
  <2> QED
    BY <2>1, <2>2, IdleSound DEF IInv
<1> QED
  BY <1>1, <1>2, <1>3, <1>4, <1>5, <1>6 DEF Continue

\* A command that is done in one step.
LEMMA OneStep ==
    ASSUME Ready, Core', UNCHANGED todo
    PROVE  IInv'
<1>1. todo' = Idle
  BY DEF Ready
<1> QED
  BY <1>1, IdleSound DEF IInv

LEMMA SessionCommandStep ==
    ASSUME IInv, SessionCommand
    PROVE  IInv'
<1>1. ASSUME NEW s \in SessionId, NEW w \in WindowId, NewSession(s, w)
      PROVE  IInv'
  <2>1. Ready /\ UNCHANGED todo
    BY <1>1 DEF NewSession
  <2> QED
    BY <1>1, <2>1, NewSessionStep, OneStep DEF IInv
<1>2. ASSUME NEW s \in SessionId, NEW target \in SessionId, NEW first \in SessionId,
             NewGroupedSession(s, target, first)
      PROVE  IInv'
  <2>1. Ready /\ UNCHANGED todo
    BY <1>2 DEF NewGroupedSession
  <2> QED
    BY <1>2, <2>1, NewGroupedStep, OneStep DEF IInv
<1>3. ASSUME NEW s \in SessionId, KillSession(s)
      PROVE  IInv'
  <2>1. Ready /\ UNCHANGED todo
    BY <1>3 DEF KillSession
  <2> QED
    BY <1>3, <2>1, KillSessionStep, OneStep DEF IInv
<1> QED
  BY <1>1, <1>2, <1>3 DEF SessionCommand

LEMMA SelectCommandStep ==
    ASSUME IInv, SelectCommand
    PROVE  IInv'
<1>0. \A s \in SessionId : ses[s] \in SesType
  BY DEF IInv, Core, StateOK
<1>1. ASSUME NEW s \in SessionId, NEW S \in SesType, S.wl = ses[s].wl,
             Sound(ses[s]) => Sound(S), MoveTo(s, S)
      PROVE  IInv'
  <2>1. Ready /\ UNCHANGED todo
    BY <1>1 DEF MoveTo
  <2>2. Core'
    BY <1>1, MoveToStep DEF IInv
  <2> QED
    BY <2>1, <2>2, OneStep
<1>2. ASSUME NEW s \in SessionId, NEW i \in Idx, SelectWindow(s, i)
      PROVE  IInv'
  <2> DEFINE S == SessionSelect(ses[s], i)
  <2>1. S \in SesType /\ S.wl = ses[s].wl /\ (Sound(ses[s]) => Sound(S))
    BY <1>0, SelectType, SelectKeepsSound
  <2>2. MoveTo(s, S)
    BY <1>2 DEF SelectWindow
  <2> HIDE DEF S
  <2> QED
    BY <1>1, <2>1, <2>2
<1>3. ASSUME NEW s \in SessionId, NEW a \in BOOLEAN, NextWindow(s, a)
      PROVE  IInv'
  <2> DEFINE T == IF a THEN ses[s].alerts ELSE Linked(ses[s])
             S == SessionNext(ses[s], T)
  <2>1. S \in SesType /\ S.wl = ses[s].wl /\ (Sound(ses[s]) => Sound(S))
    BY <1>0, StepType, StepKeepsSound
  <2>2. MoveTo(s, S)
    BY <1>3 DEF NextWindow
  <2> HIDE DEF S
  <2> QED
    BY <1>1, <2>1, <2>2
<1>4. ASSUME NEW s \in SessionId, NEW a \in BOOLEAN, PreviousWindow(s, a)
      PROVE  IInv'
  <2> DEFINE T == IF a THEN ses[s].alerts ELSE Linked(ses[s])
             S == SessionPrevious(ses[s], T)
  <2>1. S \in SesType /\ S.wl = ses[s].wl /\ (Sound(ses[s]) => Sound(S))
    BY <1>0, StepType, StepKeepsSound
  <2>2. MoveTo(s, S)
    BY <1>4 DEF PreviousWindow
  <2> HIDE DEF S
  <2> QED
    BY <1>1, <2>1, <2>2
<1>5. ASSUME NEW s \in SessionId, LastWindow(s)
      PROVE  IInv'
  <2> DEFINE S == SessionLast(ses[s])
  <2>1. S \in SesType /\ S.wl = ses[s].wl /\ (Sound(ses[s]) => Sound(S))
    BY <1>0, StepType, StepKeepsSound
  <2>2. MoveTo(s, S)
    BY <1>5 DEF LastWindow
  <2> HIDE DEF S
  <2> QED
    BY <1>1, <2>1, <2>2
<1>6. ASSUME NEW w \in WindowId, Alert(w)
      PROVE  IInv'
  <2>1. Ready /\ UNCHANGED todo
    BY <1>6 DEF Alert
  <2> QED
    BY <1>6, <2>1, AlertStep, OneStep DEF IInv
<1> QED
  BY <1>2, <1>3, <1>4, <1>5, <1>6 DEF SelectCommand

LEMMA WindowCommandStep ==
    ASSUME IInv, WindowCommand
    PROVE  IInv'
<1>1. ASSUME NEW s \in SessionId, NEW w \in WindowId, NEW idx \in Idx \cup {NoIdx},
             NEW kill \in BOOLEAN, NEW det \in BOOLEAN,
             NewWindow(s, w, idx, kill, det)
      PROVE  IInv'
  <2>1. /\ Ready /\ UNCHANGED todo
        /\ s \in sessions /\ CreateWindow(s, w, idx, kill, det)
    BY <1>1 DEF NewWindow
  <2> QED
    BY <2>1, CreateStep, OneStep DEF IInv
<1>2. ASSUME NEW s \in SessionId, NEW i \in Idx, NEW det \in BOOLEAN,
             NewWindowAfter(s, i, det)
      PROVE  IInv'
  <2>1. /\ Ready /\ s \in sessions /\ i \in Linked(ses[s])
        /\ UNCHANGED <<sessions, ses, groups, refs>>
    BY <1>2 DEF NewWindowAfter
  <2>2. Core'
    <3>1. died' = "bad_index" \/ died' = died
      BY <1>2 DEF NewWindowAfter
    <3> QED
      BY <2>1, <3>1 DEF IInv, Core, StateOK, GroupWellFormed, GroupShare, AllSound,
                        Sound, StackOK, Linked, NoNullDeref
  <2>3. CASE i = MaxIdx
    <3>1. UNCHANGED todo
      BY <1>2, <2>3 DEF NewWindowAfter
    <3> QED
      BY <2>1, <2>2, <3>1, OneStep
  <2>4. CASE i # MaxIdx
    <3>1. PICK last \in (i + 1)..(MaxIdx - 1) :
             /\ last \notin Linked(ses[s])
             /\ (i + 1)..(last - 1) \subseteq Linked(ses[s])
             /\ todo' = Shift("link", s, i + 1, last, det)
      BY <1>2, <2>4 DEF NewWindowAfter
    <3>2. i + 1 \in Idx /\ last \in Idx /\ i + 1 <= last
      BY <3>1, IndexAssumption DEF Idx
    <3>3. todo' \in TodoType
      BY <3>1, <3>2 DEF TodoType
    <3>4. /\ todo'.op = "link" /\ todo'.s = s
          /\ todo'.idx = i + 1 /\ todo'.last = last
      BY <3>1 DEF Shift
    <3>5. UNCHANGED <<sessions, ses>>
      BY <2>1
    <3>6. TodoSound'
      BY <2>1, <3>1, <3>2, <3>4, <3>5 DEF TodoSound
    <3> QED
      BY <2>2, <3>3, <3>6 DEF IInv
  <2> QED
    BY <2>3, <2>4
<1>3. ASSUME NEW s \in SessionId, NEW w \in WindowId, NEW det \in BOOLEAN,
             BreakPane(s, w, det)
      PROVE  IInv'
  <2>1. Ready /\ UNCHANGED todo
    BY <1>3 DEF BreakPane
  <2> QED
    BY <1>3, <2>1, BreakPaneStep, OneStep DEF IInv
<1>4. ASSUME NEW src \in SessionId, NEW dst \in SessionId, NEW i \in Idx,
             NEW idx \in Idx \cup {NoIdx}, NEW kill \in BOOLEAN, NEW sel \in BOOLEAN,
             LinkWindow(src, i, dst, idx, kill, sel)
      PROVE  /\ LinkWindowOnly(src, i, dst, idx, kill, sel) => IInv'
             /\ MoveWindow(src, i, dst, idx, kill, sel) => IInv'
  <2>1. Ready
    BY <1>4 DEF LinkWindow
  <2>2. /\ Core' /\ sessions' = sessions
        /\ src \in sessions /\ i \in Linked(ses'[src])
    BY <1>4, LinkWindowStep DEF IInv
  <2>3. ASSUME LinkWindowOnly(src, i, dst, idx, kill, sel)
        PROVE  IInv'
    BY <2>1, <2>2, <2>3, OneStep DEF LinkWindowOnly
  <2>4. ASSUME MoveWindow(src, i, dst, idx, kill, sel)
        PROVE  IInv'
    <3>1. todo' = UnlinkAt(src, i)
      BY <2>4 DEF MoveWindow
    <3>2. todo' \in TodoType
      BY <3>1 DEF TodoType
    <3>3. todo'.op = "unlink" /\ todo'.s = src /\ todo'.i = i
      BY <3>1 DEF UnlinkAt
    <3>4. TodoSound'
      BY <2>2, <3>3 DEF TodoSound
    <3> QED
      BY <2>2, <3>2, <3>4 DEF IInv
  <2> QED
    BY <2>3, <2>4
<1>5. ASSUME NEW src \in SessionId, NEW dst \in SessionId, NEW i \in Idx, NEW j \in Idx,
             NEW det \in BOOLEAN, SwapWindow(src, i, dst, j, det)
      PROVE  IInv'
  <2>1. Ready /\ UNCHANGED todo
    BY <1>5 DEF SwapWindow
  <2> QED
    BY <1>5, <2>1, SwapStep, OneStep DEF IInv
<1>6. ASSUME NEW s \in SessionId, NEW i \in Idx, NEW kill \in BOOLEAN,
             UnlinkWindow(s, i, kill)
      PROVE  IInv'
  <2>1. /\ Ready /\ UNCHANGED todo
        /\ s \in sessions /\ i \in Linked(ses[s]) /\ DetachWindow(s, i)
    BY <1>6 DEF UnlinkWindow
  <2> QED
    BY <2>1, DetachStep, OneStep DEF IInv
<1>7. ASSUME NEW w \in WindowId, KillWindow(w)
      PROVE  IInv'
  <2>1. todo' = Kill(w, sessions) /\ UNCHANGED <<sessions, ses, groups, refs, died>>
    BY <1>7 DEF KillWindow
  <2>2. Core'
    BY <2>1 DEF IInv, Core, StateOK, GroupWellFormed, GroupShare, AllSound, Sound,
                StackOK, Linked, NoNullDeref
  <2>3. sessions \in SUBSET SessionId
    BY DEF IInv, Core, StateOK
  <2>4. todo' \in TodoType
    BY <2>1, <2>3 DEF TodoType
  <2>5. todo'.op = "kill" /\ todo'.left = sessions
    BY <2>1 DEF Kill
  <2>6. TodoSound'
    BY <2>1, <2>5 DEF TodoSound
  <2> QED
    BY <2>2, <2>4, <2>6 DEF IInv
<1>8. ASSUME NEW src \in SessionId, NEW dst \in SessionId, NEW i \in Idx,
             NEW idx \in Idx \cup {NoIdx}, NEW kill \in BOOLEAN, NEW sel \in BOOLEAN,
             LinkWindowOnly(src, i, dst, idx, kill, sel)
      PROVE  IInv'
  BY <1>4, <1>8 DEF LinkWindowOnly
<1>9. ASSUME NEW src \in SessionId, NEW dst \in SessionId, NEW i \in Idx,
             NEW idx \in Idx \cup {NoIdx}, NEW kill \in BOOLEAN, NEW sel \in BOOLEAN,
             MoveWindow(src, i, dst, idx, kill, sel)
      PROVE  IInv'
  BY <1>4, <1>9 DEF MoveWindow
<1> QED
  <2>1. CASE \E s \in SessionId, w \in WindowId, idx \in Idx \cup {NoIdx},
             kill, det \in BOOLEAN : NewWindow(s, w, idx, kill, det)
    BY <1>1, <2>1
  <2>2. CASE \E s \in SessionId, i \in Idx, det \in BOOLEAN : NewWindowAfter(s, i, det)
    BY <1>2, <2>2
  <2>3. CASE \E s \in SessionId, w \in WindowId, det \in BOOLEAN : BreakPane(s, w, det)
    BY <1>3, <2>3
  <2>4. CASE \E src, dst \in SessionId, i \in Idx, idx \in Idx \cup {NoIdx},
             kill, sel \in BOOLEAN : LinkWindowOnly(src, i, dst, idx, kill, sel)
    BY <1>8, <2>4
  <2>5. CASE \E src, dst \in SessionId, i \in Idx, idx \in Idx \cup {NoIdx},
             kill, sel \in BOOLEAN : MoveWindow(src, i, dst, idx, kill, sel)
    BY <1>9, <2>5
  <2>6. CASE \E src, dst \in SessionId, i, j \in Idx, det \in BOOLEAN :
             SwapWindow(src, i, dst, j, det)
    BY <1>5, <2>6
  <2>7. CASE \E s \in SessionId, i \in Idx, kill \in BOOLEAN : UnlinkWindow(s, i, kill)
    BY <1>6, <2>7
  <2>8. CASE \E w \in WindowId : KillWindow(w)
    BY <1>7, <2>8
  <2> QED
    BY <2>1, <2>2, <2>3, <2>4, <2>5, <2>6, <2>7, <2>8 DEF WindowCommand

LEMMA Stutter ==
    ASSUME IInv, UNCHANGED vars
    PROVE  IInv'
<1>1. /\ sessions' = sessions /\ ses' = ses /\ groups' = groups
      /\ refs' = refs /\ todo' = todo /\ died' = died
  BY DEF vars
<1>2. Core'
  BY <1>1 DEF IInv, Core, StateOK, GroupWellFormed, GroupShare, AllSound, Sound,
              StackOK, Linked, NoNullDeref
<1>3. TodoSound' /\ todo' \in TodoType
  BY <1>1 DEF IInv, TodoSound, Linked
<1> QED
  BY <1>2, <1>3 DEF IInv

LEMMA IInvNext ==
    IInv /\ [Next]_vars => IInv'
  BY ContinueStep, SessionCommandStep, SelectCommandStep, WindowCommandStep, Stutter
  DEF Next

(***************************************************************************)
(* The theorems.                                                           *)
(***************************************************************************)
\* The conjunction below is inductive: sessions, groups, and what is left of a
\* handler fit together whatever commands run, in whatever order.
THEOREM Invariance == Spec => []IInv
<1>1. Init => IInv
  BY IInvInit
<1>2. IInv /\ [Next]_vars => IInv'
  BY IInvNext
<1> QED
  BY <1>1, <1>2, PTL DEF Spec

\* The variables keep their types; a count may be any integer.
THEOREM TypeCorrect == Spec => []TypeOK
<1>1. IInv => TypeOK
  BY DEF IInv, Core, StateOK, TypeOK
<1> QED
  BY <1>1, Invariance, PTL

\* The groups session_group_add and session_group_remove leave are disjoint sets
\* of two or more live sessions.
THEOREM GroupsWellFormed == Spec => []GroupWellFormed
<1>1. IInv => GroupWellFormed
  BY DEF IInv, Core
<1> QED
  BY <1>1, Invariance, PTL

\* A half done new-window -a, move-window or kill-window can always be finished:
\* none of its steps takes away what the next one dereferences.
THEOREM HandlersSound == Spec => []TodoSound
<1>1. IInv => TodoSound
  BY DEF IInv
<1> QED
  BY <1>1, Invariance, PTL

\* As long as window_create does not fail, session_group_synchronize1 keeps the
\* sessions of a group alike.
THEOREM GroupsShare == ASSUME ~ForkMayFail PROVE Spec => []GroupShare
<1>1. IInv => GroupShare
  BY DEF IInv, Core
<1> QED
  BY <1>1, Invariance, PTL

\* Under the same assumption a session's current window is one of its windows,
\* through the removal by hand of new-window -k and link-window -k too.
THEOREM CurrentIsLinked == ASSUME ~ForkMayFail PROVE Spec => []CurrentLinked
<1>1. IInv => CurrentLinked
  BY DEF IInv, Core, AllSound, Sound, CurrentLinked
<1> QED
  BY <1>1, Invariance, PTL

\* And winlink_stack_push and winlink_stack_remove keep the stack of last windows
\* free of the current window, of unlinked ones and of repetitions.
THEOREM StackIsSound == ASSUME ~ForkMayFail PROVE Spec => []StackSound
<1>1. IInv => StackSound
  BY DEF IInv, Core, AllSound, Sound, StackOK, Distinct, StackSound
<1> QED
  BY <1>1, Invariance, PTL

\* So session_group_synchronize1 never meets a target without a current window.
THEOREM NeverNull == ASSUME ~ForkMayFail PROVE Spec => []NoNullDeref
<1>1. IInv => NoNullDeref
  BY DEF IInv, Core
<1> QED
  BY <1>1, Invariance, PTL

(***************************************************************************)
(* The end of a session.                                                   *)
(***************************************************************************)
EndsAlone ==
    \A s \in sessions \ sessions' : \A t \in SessionId \ {s} :
       ses'[t] = ses[t] /\ (t \in sessions <=> t \in sessions')

\* Only session_destroy takes a session off the tree, and it takes one.
LEMMA DestroyEnds ==
    ASSUME StateOK, NEW s, NEW r, Destroy(s, r)
    PROVE  EndsAlone
<1>1. sessions' = sessions \ {s} /\ ses' = [ses EXCEPT ![s] = EmptySession]
  BY DEF Destroy
<1>2. \A t \in SessionId \ {s} : ses'[t] = ses[t]
  BY <1>1 DEF StateOK
<1> QED
  BY <1>1, <1>2 DEF EndsAlone

LEMMA StaysEnds ==
    ASSUME sessions \subseteq sessions'
    PROVE  EndsAlone
  BY DEF EndsAlone

LEMMA DetachEnds ==
    ASSUME StateOK, NEW s, NEW i, DetachWindow(s, i)
    PROVE  EndsAlone
<1>1. (\E r : Destroy(s, r)) \/ (\E T, r : Publish(s, T, T, r))
  BY DEF DetachWindow
<1>2. (\E T, r : Publish(s, T, T, r)) => sessions' = sessions
  BY DEF Publish
<1> QED
  BY <1>1, <1>2, DestroyEnds, StaysEnds

LEMMA NextEnds ==
    ASSUME StateOK, [Next]_vars
    PROVE  EndsAlone
<1>1. CASE Continue
  <2>1. CASE ShiftLink \/ (\E w \in WindowId : ShiftCreate(w)) \/ KillReturn
    <3>1. sessions' = sessions
      BY <2>1 DEF ShiftLink, ShiftCreate, CreateWindow, KillReturn, Publish
    <3> QED
      BY <3>1, StaysEnds
  <2>2. CASE ShiftUnlink
    BY <2>2, DetachEnds DEF ShiftUnlink
  <2>3. CASE MoveUnlink
    BY <2>3, DetachEnds DEF MoveUnlink
  <2>4. ASSUME NEW s \in SessionId, KillVisit(s)
        PROVE  EndsAlone
    <3>1. sessions' = sessions \/ \E i : DetachWindow(s, i)
      BY <2>4 DEF KillVisit
    <3> QED
      BY <3>1, DetachEnds, StaysEnds
  <2> QED
    BY <1>1, <2>1, <2>2, <2>3, <2>4 DEF Continue
<1>2. CASE SessionCommand
  <2>1. ASSUME NEW s \in SessionId, KillSession(s)
        PROVE  EndsAlone
    <3>1. \E r : Destroy(s, r)
      BY <2>1 DEF KillSession
    <3> QED
      BY <3>1, DestroyEnds
  <2>2. ASSUME \/ \E s \in SessionId, w \in WindowId : NewSession(s, w)
               \/ \E s, target, first \in SessionId :
                     NewGroupedSession(s, target, first)
        PROVE  EndsAlone
    <3>1. sessions \subseteq sessions'
      BY <2>2 DEF NewSession, NewGroupedSession
    <3> QED
      BY <3>1, StaysEnds
  <2> QED
    BY <1>2, <2>1, <2>2 DEF SessionCommand
<1>3. CASE SelectCommand
  <2>1. sessions' = sessions
    BY <1>3 DEF SelectCommand, SelectWindow, NextWindow, PreviousWindow, LastWindow,
                MoveTo, Alert
  <2> QED
    BY <2>1, StaysEnds
<1>4. CASE WindowCommand
  <2>1. ASSUME NEW s, NEW i, NEW kill, UnlinkWindow(s, i, kill)
        PROVE  EndsAlone
    BY <2>1, DetachEnds DEF UnlinkWindow
  <2>2. ASSUME NEW s, NEW w, NEW idx, NEW kill, NEW det, NewWindow(s, w, idx, kill, det)
        PROVE  sessions' = sessions
    BY <2>2 DEF NewWindow, CreateWindow, Publish
  <2>3. ASSUME NEW s, NEW i, NEW det, NewWindowAfter(s, i, det)
        PROVE  sessions' = sessions
    BY <2>3 DEF NewWindowAfter
  <2>4. ASSUME NEW s, NEW w, NEW det, BreakPane(s, w, det)
        PROVE  sessions' = sessions
    BY <2>4 DEF BreakPane, Publish
  <2>5. ASSUME NEW src, NEW i, NEW dst, NEW idx, NEW kill, NEW sel,
               LinkWindow(src, i, dst, idx, kill, sel)
        PROVE  sessions' = sessions
    BY <2>5 DEF LinkWindow, Publish
  <2>6. ASSUME NEW src, NEW i, NEW dst, NEW j, NEW det, SwapWindow(src, i, dst, j, det)
        PROVE  sessions' = sessions
    BY <2>6 DEF SwapWindow
  <2>7. ASSUME NEW w, KillWindow(w)
        PROVE  sessions' = sessions
    BY <2>7 DEF KillWindow
  <2> QED
    BY <1>4, <2>1, <2>2, <2>3, <2>4, <2>5, <2>6, <2>7, StaysEnds
    DEF WindowCommand, LinkWindowOnly, MoveWindow
<1>5. CASE UNCHANGED vars
  BY <1>5, StaysEnds DEF vars
<1> QED
  BY <1>1, <1>2, <1>3, <1>4, <1>5 DEF Next

\* Either of two grouped sessions may be killed without affecting the other,
\* whatever command ends it and whether or not forks fail.
THEOREM OthersUnaffected == Spec => MateUnaffected
<1>1. IInv /\ [Next]_vars => [EndsAlone]_vars
  BY NextEnds DEF IInv, Core
<1>2. Spec => [][EndsAlone]_vars
  BY <1>1, Invariance, PTL DEF Spec
<1> QED
  BY <1>2 DEF MateUnaffected, EndsAlone

(***************************************************************************)
(* The current windows of a group.                                         *)
(***************************************************************************)
ApartMoves == \A s \in SessionId : \A t \in Mates(s) : ~(Moved(s) /\ Moved(t))

\* session_group_synchronize1 leaves a current window that is still there.
LEMMA SyncedStays ==
    ASSUME NEW S, NEW T, S.curw \in Linked(Synced(T, S))
    PROVE  Synced(T, S).curw = S.curw
<1>1. CASE Linked(T) = {}
  BY <1>1 DEF Synced
<1>2. CASE Linked(T) # {}
  <2>1. Synced(T, S).wl = T.wl
    BY <1>2 DEF Synced
  <2>2. S.curw \in Linked(T) /\ S.curw # NoIdx
    BY <2>1 DEF Linked, Idx, NoIdx
  <2> QED
    BY <1>2, <2>2 DEF Synced
<1> QED
  BY <1>1, <1>2

\* A step that moves one session at most moves no two of a group.
LEMMA OneMoves ==
    ASSUME NEW s, \A t \in SessionId \ {s} : ~Moved(t), StateOK, GroupWellFormed
    PROVE  ApartMoves
<1> SUFFICES ASSUME NEW t \in SessionId, NEW u \in Mates(t), Moved(t), Moved(u)
             PROVE  FALSE
  BY DEF ApartMoves
<1>1. u \in SessionId /\ u # t
  BY MatesProps DEF StateOK
<1> QED
  BY <1>1

LEMMA PublishMoves ==
    ASSUME StateOK, GroupWellFormed, NEW s, NEW T, NEW S, NEW r, Publish(s, T, S, r)
    PROVE  ApartMoves
<1>1. SUFFICES ASSUME NEW t \in SessionId \ {s}, Moved(t) PROVE FALSE
  BY OneMoves
<1>2. ses'[t] = ses[t] \/ ses'[t] = Synced(T, ses[t])
  BY DEF Publish
<1> QED
  BY <1>1, <1>2, SyncedStays DEF Moved

LEMMA DestroyMoves ==
    ASSUME StateOK, GroupWellFormed, NEW s, NEW r, Destroy(s, r)
    PROVE  ApartMoves
<1>1. \A t \in SessionId \ {s} : ses'[t] = ses[t]
  BY DEF Destroy, StateOK
<1>2. \A t \in SessionId \ {s} : ~Moved(t)
  BY <1>1 DEF Moved
<1> QED
  BY <1>2, OneMoves

LEMMA DetachMoves ==
    ASSUME StateOK, GroupWellFormed, NEW s, NEW i, DetachWindow(s, i)
    PROVE  ApartMoves
<1>1. (\E r : Destroy(s, r)) \/ (\E T, r : Publish(s, T, T, r))
  BY DEF DetachWindow
<1> QED
  BY <1>1, DestroyMoves, PublishMoves

\* What does not touch a session, or one only.
LEMMA OthersStay ==
    ASSUME StateOK, GroupWellFormed, NEW s, \A t \in SessionId \ {s} : ses'[t].curw = ses[t].curw
    PROVE  ApartMoves
<1>1. \A t \in SessionId \ {s} : ~Moved(t)
  BY DEF Moved
<1> QED
  BY <1>1, OneMoves

LEMMA CreateMoves ==
    ASSUME StateOK, GroupWellFormed, NEW s, NEW w, NEW idx, NEW kill, NEW det,
           CreateWindow(s, w, idx, kill, det)
    PROVE  ApartMoves
<1>1. \/ \E T, S, r : Publish(s, T, S, r)
      \/ \E K : ses' = [ses EXCEPT ![s] = K]
  BY DEF CreateWindow
<1>2. ASSUME NEW K, ses' = [ses EXCEPT ![s] = K] PROVE ApartMoves
  <2>1. \A t \in SessionId \ {s} : ses'[t] = ses[t]
    BY <1>2 DEF StateOK
  <2> QED
    BY <2>1, OthersStay
<1> QED
  BY <1>1, <1>2, PublishMoves

\* swap-window makes two sessions current at a place of theirs, but of two groups.
LEMMA SwapMoves ==
    ASSUME StateOK, GroupWellFormed, NEW src, NEW i, NEW dst, NEW j, NEW det,
           SwapWindow(src, i, dst, j, det)
    PROVE  ApartMoves
<1>1. dst \notin Mates(src) /\ src \notin Mates(dst)
  BY MatesSymmetric DEF SwapWindow
<1>2. \A t \in SessionId \ {src, dst} :
         ses'[t] = ses[t] \/ \E T : ses'[t] = Synced(T, ses[t])
  <2> DEFINE put(S, k, w) == [S EXCEPT !.wl[k] = w]
             to(S, k)     == IF det THEN S ELSE SessionSelect(S, k)
             ws == ses[src].wl[i]
             wd == ses[dst].wl[j]
             A  == IF src = dst
                   THEN to(put(put(ses[src], i, wd), j, ws), j)
                   ELSE to(put(ses[src], i, wd), i)
             B  == IF src = dst THEN A ELSE to(put(ses[dst], j, ws), j)
  <2>1. ses' = [t \in SessionId |->
                 CASE t = src -> A
                   [] t = dst -> B
                   [] t \in Mates(src) -> Synced(A, ses[t])
                   [] t \in Mates(dst) \ Mates(src) -> Synced(B, ses[t])
                   [] OTHER -> ses[t]]
    BY DEF SwapWindow
  <2> HIDE DEF A, B
  <2> QED
    BY <2>1
<1>3. \A t \in SessionId \ {src, dst} : ~Moved(t)
  BY <1>2, SyncedStays DEF Moved
<1> SUFFICES ASSUME NEW t \in SessionId, NEW u \in Mates(t), Moved(t), Moved(u)
             PROVE  FALSE
  BY DEF ApartMoves
<1>4. u \in SessionId /\ u # t
  BY MatesProps DEF StateOK
<1> QED
  BY <1>1, <1>3, <1>4

LEMMA NextMoves ==
    ASSUME StateOK, GroupWellFormed, [Next]_vars
    PROVE  ApartMoves
<1>0. ASSUME ses' = ses PROVE ApartMoves
  BY <1>0, OthersStay
<1>1. CASE Continue
  <2>1. CASE ShiftLink
    <3>1. \E s, T, r : Publish(s, T, T, r)
      BY <2>1 DEF ShiftLink
    <3> QED
      BY <3>1, PublishMoves
  <2>2. CASE ShiftUnlink \/ MoveUnlink
    BY <2>2, DetachMoves DEF ShiftUnlink, MoveUnlink
  <2>3. ASSUME NEW w \in WindowId, ShiftCreate(w)
        PROVE  ApartMoves
    BY <2>3, CreateMoves DEF ShiftCreate
  <2>4. ASSUME NEW s \in SessionId, KillVisit(s)
        PROVE  ApartMoves
    <3>1. ses' = ses \/ \E i : DetachWindow(s, i)
      BY <2>4 DEF KillVisit
    <3> QED
      BY <1>0, <3>1, DetachMoves
  <2>5. CASE KillReturn
    BY <1>0, <2>5 DEF KillReturn
  <2> QED
    BY <1>1, <2>1, <2>2, <2>3, <2>4, <2>5 DEF Continue
<1>2. CASE SessionCommand
  <2>1. ASSUME NEW s \in SessionId,
               \/ \E w \in WindowId : NewSession(s, w)
               \/ \E target, first \in SessionId : NewGroupedSession(s, target, first)
        PROVE  ApartMoves
    <3>1. ses' = ses \/ \E S : ses' = [ses EXCEPT ![s] = S]
      BY <2>1 DEF NewSession, NewGroupedSession
    <3>2. \A t \in SessionId \ {s} : ses'[t] = ses[t]
      BY <3>1 DEF StateOK
    <3> QED
      BY <3>2, OthersStay
  <2>2. ASSUME NEW s \in SessionId, KillSession(s)
        PROVE  ApartMoves
    BY <2>2, DestroyMoves DEF KillSession
  <2> QED
    BY <1>2, <2>1, <2>2 DEF SessionCommand
<1>3. CASE SelectCommand
  <2>1. ASSUME NEW s \in SessionId, NEW S, MoveTo(s, S)
        PROVE  ApartMoves
    <3>1. ses' = [ses EXCEPT ![s] = S]
      BY <2>1 DEF MoveTo
    <3>2. \A t \in SessionId \ {s} : ses'[t] = ses[t]
      BY <3>1 DEF StateOK
    <3> QED
      BY <3>2, OthersStay
  <2>2. ASSUME NEW w \in WindowId, Alert(w)
        PROVE  ApartMoves
    <3>1. ASSUME NEW t \in SessionId PROVE ses'[t].curw = ses[t].curw
      <4>1. ses'[t] = ses[t] \/ \E a : ses'[t] = [ses[t] EXCEPT !.alerts = a]
        BY <2>2 DEF Alert
      <4>2. \A a : [ses[t] EXCEPT !.alerts = a].curw = ses[t].curw
        BY DEF StateOK, SesType
      <4> QED
        BY <4>1, <4>2
    <3> QED
      BY <3>1, OthersStay
  <2> QED
    BY <1>3, <2>1, <2>2
    DEF SelectCommand, SelectWindow, NextWindow, PreviousWindow, LastWindow
<1>4. CASE WindowCommand
  <2>1. ASSUME NEW s, NEW i, NEW kill, UnlinkWindow(s, i, kill)
        PROVE  ApartMoves
    BY <2>1, DetachMoves DEF UnlinkWindow
  <2>2. ASSUME NEW s, NEW w, NEW idx, NEW kill, NEW det, NewWindow(s, w, idx, kill, det)
        PROVE  ApartMoves
    BY <2>2, CreateMoves DEF NewWindow
  <2>3. ASSUME NEW s, NEW i, NEW det, NewWindowAfter(s, i, det)
        PROVE  ApartMoves
    BY <1>0, <2>3 DEF NewWindowAfter
  <2>4. ASSUME NEW s, NEW w, NEW det, BreakPane(s, w, det)
        PROVE  ApartMoves
    BY <2>4, PublishMoves DEF BreakPane
  <2>5. ASSUME NEW src, NEW i, NEW dst, NEW idx, NEW kill, NEW sel,
               LinkWindow(src, i, dst, idx, kill, sel)
        PROVE  ApartMoves
    BY <2>5, PublishMoves DEF LinkWindow
  <2>6. ASSUME NEW src, NEW i, NEW dst, NEW j, NEW det, SwapWindow(src, i, dst, j, det)
        PROVE  ApartMoves
    BY <2>6, SwapMoves
  <2>7. ASSUME NEW w, KillWindow(w)
        PROVE  ApartMoves
    BY <1>0, <2>7 DEF KillWindow
  <2> QED
    BY <1>4, <2>1, <2>2, <2>3, <2>4, <2>5, <2>6, <2>7
    DEF WindowCommand, LinkWindowOnly, MoveWindow
<1>5. CASE UNCHANGED vars
  BY <1>0, <1>5 DEF vars
<1> QED
  BY <1>1, <1>2, <1>3, <1>4, <1>5 DEF Next

\* The sessions of a group have current windows of their own: no step moves two
\* of them, except off a window that goes, whether or not forks fail.
THEOREM CurrentIsIndependent == Spec => IndependentCurrent
<1>1. IInv /\ [Next]_vars => [ApartMoves]_vars
  BY NextMoves DEF IInv, Core
<1>2. Spec => [][ApartMoves]_vars
  BY <1>1, Invariance, PTL DEF Spec
<1> QED
  BY <1>2 DEF IndependentCurrent, ApartMoves

(***************************************************************************)
(* Falling back to the last window.                                        *)
(***************************************************************************)
\* A session that has lost its current window is where it came from.
Back(s) ==
    /\ ses[s].curw \in Idx
    /\ ses[s].curw \notin Linked(ses'[s])
    /\ ses[s].lastw # <<>>
    => ses'[s].curw = Head(ses[s].lastw)

AllBack == \A s \in sessions \cap sessions' : Back(s)

\* session_last, when the current window goes away.
LEMMA MoveOffLast ==
    ASSUME NEW S \in SesType, Sound(S), S.lastw # <<>>
    PROVE  /\ Head(S.lastw) \in Linked(S) \ {S.curw}
           /\ MoveOff(S).curw = Head(S.lastw)
<1>1. Head(S.lastw) \in Linked(S) \ {S.curw}
  <2>1. S.lastw \in Seq(Idx)
    BY DEF SesType
  <2>2. 1 \in DOMAIN S.lastw /\ Head(S.lastw) = S.lastw[1]
    BY <2>1
  <2> QED
    BY <2>2 DEF Sound, StackOK
<1>2. SessionLast(S).curw = Head(S.lastw)
  BY <1>1, SelectSound DEF SessionLast, Sound
<1>3. MoveOff(S) = SessionLast(S)
  BY <1>1, <1>2 DEF MoveOff
<1> QED
  BY <1>1, <1>2, <1>3

\* session_detach and session_group_synchronize1 go back to the last window.
LEMMA DetachBack ==
    ASSUME NEW S \in SesType, Sound(S), S.lastw # <<>>
    PROVE  Detach(S, S.curw).curw = Head(S.lastw)
<1> DEFINE M == MoveOff(S)
<1>1. M.curw = Head(S.lastw) /\ M \in SesType
  BY MoveOffLast, StepType
<1>2. Detach(S, S.curw) = Unlink(M, S.curw)
  BY DEF Detach
<1> HIDE DEF M
<1>3. Unlink(M, S.curw).curw = M.curw
  BY <1>1 DEF Unlink, SesType
<1> QED
  BY <1>1, <1>2, <1>3

LEMMA SyncedBack ==
    ASSUME NEW S \in SesType, Sound(S), S.lastw # <<>>, NEW T, S.curw \notin Linked(T),
           Head(S.lastw) \in Linked(T)
    PROVE  Synced(T, S).curw = Head(S.lastw)
<1>1. S.curw # NoIdx /\ Head(S.lastw) # NoIdx
  BY DEF Sound, Linked, Idx, NoIdx
<1>2. MoveOff(S).curw = Head(S.lastw)
  BY MoveOffLast
<1> QED
  BY <1>1, <1>2 DEF Synced

\* A session is made T and its group follows.
LEMMA PublishBack ==
    ASSUME StateOK, GroupWellFormed, GroupShare, AllSound, NEW s \in sessions,
           NEW T \in SesType, Fits(s, T), NEW S, S.wl = T.wl,
           ses[s].curw \notin Linked(T) /\ ses[s].lastw # <<>> => S.curw = Head(ses[s].lastw),
           NEW r, Publish(s, T, S, r)
    PROVE  AllBack
<1>1. /\ \A t \in SessionId : ses'[t] = CASE t = s -> S
                                         [] t \in Mates(s) -> Synced(T, ses[t])
                                         [] OTHER -> ses[t]
      /\ sessions \subseteq SessionId /\ s \notin Mates(s)
  BY DEF Publish, StateOK, Mates
<1> SUFFICES ASSUME NEW t \in sessions,
                    ses[t].curw \notin Linked(ses'[t]), ses[t].lastw # <<>>
             PROVE  ses'[t].curw = Head(ses[t].lastw)
  BY DEF AllBack, Back
<1>2. ses[t] \in SesType /\ Sound(ses[t])
  BY DEF StateOK, AllSound
<1>3. CASE t = s
  <2>1. ses'[t] = S /\ Linked(S) = Linked(T)
    BY <1>1, <1>3 DEF Linked
  <2> QED
    BY <1>3, <2>1
<1>4. CASE t \in Mates(s)
  <2>1. ses'[t] = Synced(T, ses[t])
    BY <1>1, <1>4
  <2>2. ses[t].wl = ses[s].wl
    <3>1. PICK g \in groups : s \in g /\ t \in g
      BY <1>4, MatesProps
    <3> QED
      BY <3>1 DEF GroupShare
  <2>3. Linked(ses[t]) = Linked(ses[s])
    BY <2>2 DEF Linked
  <2>4. Linked(ses'[t]) = Linked(T)
    <3>1. ses'[t].wl = T.wl
      BY <1>2, <2>1, SyncedType DEF Fits
    <3> QED
      BY <3>1 DEF Linked
  <2>5. ses[t].curw \in Linked(ses[s]) /\ ses[t].curw \notin Linked(T)
    BY <1>2, <2>3, <2>4 DEF Sound
  <2>6. Linked(T) = Linked(ses[t]) \ {ses[t].curw}
    BY <2>3, <2>5 DEF Fits
  <2>7. Head(ses[t].lastw) \in Linked(T)
    BY <1>2, <2>6, MoveOffLast
  <2> QED
    BY <1>2, <2>1, <2>5, <2>7, SyncedBack
<1>5. CASE t # s /\ t \notin Mates(s)
  <2>1. ses'[t] = ses[t]
    BY <1>1, <1>5
  <2> QED
    BY <1>2, <2>1 DEF Sound
<1> QED
  BY <1>3, <1>4, <1>5

\* A session keeps its windows.
LEMMA KeptBack ==
    ASSUME AllSound,
           \A t \in sessions \cap sessions' : Linked(ses[t]) \subseteq Linked(ses'[t])
    PROVE  AllBack
<1> SUFFICES ASSUME NEW t \in sessions \cap sessions' PROVE Back(t)
  BY DEF AllBack
<1>1. ses[t].curw \in Linked(ses[t])
  BY DEF AllSound, Sound
<1> QED
  BY <1>1 DEF Back

LEMMA DestroyBack ==
    ASSUME StateOK, AllSound, NEW s, NEW r, Destroy(s, r)
    PROVE  AllBack
<1>1. \A t \in sessions \cap sessions' : ses'[t] = ses[t]
  BY DEF Destroy, StateOK
<1> QED
  BY <1>1, KeptBack

LEMMA DetachAllBack ==
    ASSUME StateOK, GroupWellFormed, GroupShare, AllSound,
           NEW s \in sessions, NEW i \in Linked(ses[s]), DetachWindow(s, i)
    PROVE  AllBack
<1> DEFINE T == Detach(ses[s], i)
           r == Decr(refs, ses[s].wl[i])
<1>1. i \in Idx /\ ses[s] \in SesType /\ Sound(ses[s])
  BY DEF Linked, StateOK, AllSound
<1>2. T \in SesType /\ T.wl = [ses[s].wl EXCEPT ![i] = NoWindow]
  BY <1>1, DetachType
<1>3. IF Linked(T) = {} THEN Destroy(s, r) ELSE Publish(s, T, T, r)
  BY DEF DetachWindow
<1>4. ses[s].curw = i /\ ses[s].lastw # <<>> => T.curw = Head(ses[s].lastw)
  BY <1>1, DetachBack
<1> HIDE DEF T, r
<1>5. Linked(T) = Linked(ses[s]) \ {i}
  BY <1>1, <1>2 DEF Linked, SesType
<1>6. CASE Linked(T) = {}
  BY <1>3, <1>6, DestroyBack
<1>7. CASE Linked(T) # {}
  <2>1. Fits(s, T)
    BY <1>1, <1>5, <1>7 DEF Fits
  <2>2. ses[s].curw \notin Linked(T) => ses[s].curw = i
    BY <1>1, <1>5 DEF Sound
  <2> QED
    BY <1>2, <1>3, <1>4, <1>7, <2>1, <2>2, PublishBack
<1> QED
  BY <1>6, <1>7

\* A window is linked at an index that was free, or whose window was removed by hand.
LEMMA LinkBack ==
    ASSUME StateOK, GroupWellFormed, GroupShare, AllSound, NEW s \in sessions,
           NEW D \in SesType, NEW i \in Idx, NEW w \in WindowId, NEW sel \in BOOLEAN,
           D.wl = ses[s].wl \/ D.wl = [ses[s].wl EXCEPT ![i] = NoWindow],
           NEW T, T = [D EXCEPT !.wl[i] = w],
           NEW S, S = IF sel THEN SessionSelect(T, i) ELSE T,
           NEW r, Publish(s, T, S, r)
    PROVE  AllBack
<1>1. ses[s] \in SesType /\ Sound(ses[s])
  BY DEF StateOK, AllSound
<1>2. T \in SesType /\ T.wl = [D.wl EXCEPT ![i] = w]
  BY PutType
<1>3. Linked(ses[s]) \cup {i} \subseteq Linked(T)
  BY <1>1, <1>2, WindowAssumption DEF Linked, SesType
<1>4. S.wl = T.wl
  BY <1>2, SelectType
<1>5. Fits(s, T) /\ ses[s].curw \in Linked(T)
  BY <1>1, <1>3 DEF Fits, Sound
<1> QED
  BY <1>2, <1>4, <1>5, PublishBack

LEMMA CreateBack ==
    ASSUME Core, ~ForkMayFail, NEW s \in sessions, NEW w \in WindowId,
           NEW idx \in Idx \cup {NoIdx}, NEW kill \in BOOLEAN, NEW det \in BOOLEAN,
           CreateWindow(s, w, idx, kill, det)
    PROVE  AllBack
<1> DEFINE S    == ses[s]
           k    == kill /\ idx \in Linked(S)
           K    == IF k THEN Replace(S, idx) ELSE S
           r    == IF k THEN Decr(refs, S.wl[idx]) ELSE refs
           at   == AddIndex(K, idx)
           T    == [K EXCEPT !.wl[at] = w]
           stay == det /\ ~(k /\ S.curw = idx)
           sel  == ~stay
           U    == IF sel THEN SessionSelect(T, at) ELSE T
           q    == Incr(r, w)
<1>1. at # NoIdx /\ Publish(s, T, U, q)
  BY DEF CreateWindow
<1>2. /\ K \in SesType /\ at \in Idx
      /\ K.wl = ses[s].wl \/ K.wl = [ses[s].wl EXCEPT ![at] = NoWindow]
  <2>1. k \in BOOLEAN /\ (k => idx \in Linked(ses[s]))
    OBVIOUS
  <2> HIDE DEF k
  <2> QED
    BY <1>1, <2>1, ReplacedProps
<1>3. sel \in BOOLEAN /\ T = [K EXCEPT !.wl[at] = w]
      /\ U = IF sel THEN SessionSelect(T, at) ELSE T
  OBVIOUS
<1> HIDE DEF K, at, T, sel, U, q
<1> QED
  BY <1>1, <1>2, <1>3, LinkBack DEF Core

LEMMA BreakPaneBack ==
    ASSUME Core, ~ForkMayFail, NEW s \in SessionId, NEW w \in WindowId, NEW det \in BOOLEAN,
           BreakPane(s, w, det)
    PROVE  AllBack
<1> DEFINE D   == ses[s]
           at  == AddIndex(D, NoIdx)
           sel == ~det
           T   == [D EXCEPT !.wl[at] = w]
           U   == IF sel THEN SessionSelect(T, at) ELSE T
           q   == Incr(refs, w)
<1>1. s \in sessions /\ at # NoIdx /\ Publish(s, T, U, q)
  BY DEF BreakPane
<1>2. D \in SesType /\ D.wl = ses[s].wl
  BY DEF Core, StateOK
<1>3. at \in Idx
  <2> HIDE DEF D
  <2>1. at \in (Idx \ Linked(D)) \cup {NoIdx}
    BY <1>2, AddIndexType
  <2> QED
    BY <1>1, <2>1
<1>4. sel \in BOOLEAN /\ T = [D EXCEPT !.wl[at] = w]
      /\ U = IF sel THEN SessionSelect(T, at) ELSE T
  OBVIOUS
<1> HIDE DEF D, at, T, sel, U, q
<1> QED
  BY <1>1, <1>2, <1>3, <1>4, LinkBack DEF Core

LEMMA LinkWindowBack ==
    ASSUME Core, ~ForkMayFail, NEW src \in SessionId, NEW dst \in SessionId, NEW i \in Idx,
           NEW idx \in Idx \cup {NoIdx}, NEW kill \in BOOLEAN, NEW sel \in BOOLEAN,
           LinkWindow(src, i, dst, idx, kill, sel)
    PROVE  AllBack
<1> DEFINE D   == ses[dst]
           w   == ses[src].wl[i]
           k   == idx \in Linked(D)
           K   == IF k THEN Replace(D, idx) ELSE D
           r   == IF k THEN Decr(refs, D.wl[idx]) ELSE refs
           at  == AddIndex(K, idx)
           T   == [K EXCEPT !.wl[at] = w]
           go  == sel \/ (k /\ D.curw = idx)
           U   == IF go THEN SessionSelect(T, at) ELSE T
           q   == Incr(r, w)
<1>1. /\ src \in sessions /\ dst \in sessions /\ i \in Linked(ses[src])
      /\ at # NoIdx
      /\ Publish(dst, T, U, q)
  BY DEF LinkWindow
<1>2. /\ K \in SesType /\ at \in Idx
      /\ K.wl = ses[dst].wl \/ K.wl = [ses[dst].wl EXCEPT ![at] = NoWindow]
  <2>1. k \in BOOLEAN /\ (k => idx \in Linked(ses[dst]))
    OBVIOUS
  <2> HIDE DEF k
  <2> QED
    BY <1>1, <2>1, ReplacedProps
<1>3. w \in WindowId
  <2>1. ses[src] \in SesType
    BY DEF Core, StateOK
  <2>2. i \in Linked(ses[src])
    BY <1>1
  <2> HIDE DEF w
  <2> QED
    BY <2>1, <2>2 DEF Linked, SesType, w
<1>4. go \in BOOLEAN /\ T = [K EXCEPT !.wl[at] = w]
      /\ U = IF go THEN SessionSelect(T, at) ELSE T
  OBVIOUS
<1> HIDE DEF K, at, go, w, T, U, q
<1> QED
  BY <1>1, <1>2, <1>3, <1>4, LinkBack DEF Core

\* swap-window leaves the indexes in use, in both groups.
LEMMA SwapBack ==
    ASSUME Core, ~ForkMayFail, NEW src \in SessionId, NEW dst \in SessionId,
           NEW i \in Idx, NEW j \in Idx, NEW det \in BOOLEAN,
           SwapWindow(src, i, dst, j, det)
    PROVE  AllBack
<1>1. PICK A, B \in SesType :
         /\ src \in sessions /\ dst \in sessions /\ dst \notin Mates(src)
         /\ Linked(A) = Linked(ses[src]) /\ Linked(B) = Linked(ses[dst])
         /\ Sound(A) /\ Sound(B)
         /\ src = dst => A = B
         /\ ses' = [t \in SessionId |->
                     CASE t = src -> A
                       [] t = dst -> B
                       [] t \in Mates(src) -> Synced(A, ses[t])
                       [] t \in Mates(dst) \ Mates(src) -> Synced(B, ses[t])
                       [] OTHER -> ses[t]]
  BY SwapPair
<1>2. ASSUME NEW t \in sessions PROVE Linked(ses[t]) \subseteq Linked(ses'[t])
  <2>0. t \in SessionId /\ ses[t] \in SesType
    BY DEF Core, StateOK
  <2>1. CASE t = src \/ t = dst
    <3>1. src \notin Mates(src) /\ src \notin Mates(dst) /\ dst \notin Mates(dst)
      BY <1>1, MatesSymmetric DEF Core, Mates
    <3>2. t = src => ses'[t] = A
      BY <1>1, <2>0, <3>1
    <3>3. t = dst => ses'[t] = B
      BY <1>1, <2>0, <3>1
    <3> QED
      BY <1>1, <2>1, <3>2, <3>3
  <2>2. ASSUME NEW x \in {src, dst}, NEW X \in {A, B}, Linked(X) = Linked(ses[x]),
               t \in Mates(x), ses'[t] = Synced(X, ses[t])
        PROVE  Linked(ses[t]) \subseteq Linked(ses'[t])
    <3>1. ses[t].wl = ses[x].wl
      <4>1. PICK g \in groups : x \in g /\ t \in g
        BY <2>2, MatesProps DEF Core
      <4> QED
        BY <4>1 DEF Core, GroupShare
    <3>2. Linked(X) # {}
      BY <1>1 DEF Sound
    <3>3. ses'[t].wl = X.wl
      BY <2>0, <2>2, <3>2, SyncedType
    <3> QED
      BY <2>2, <3>1, <3>3 DEF Linked
  <2>3. CASE t \notin {src, dst}
    <3>1. CASE t \in Mates(src)
      <4>1. ses'[t] = Synced(A, ses[t])
        BY <1>1, <2>0, <2>3, <3>1
      <4> QED
        BY <1>1, <2>2, <3>1, <4>1
    <3>2. CASE t \in Mates(dst) \ Mates(src)
      <4>1. ses'[t] = Synced(B, ses[t])
        BY <1>1, <2>0, <2>3, <3>2
      <4> QED
        BY <1>1, <2>2, <3>2, <4>1
    <3>3. CASE t \notin Mates(src) \cup Mates(dst)
      <4>1. ses'[t] = ses[t]
        BY <1>1, <2>0, <2>3, <3>3
      <4> QED
        BY <4>1
    <3> QED
      BY <3>1, <3>2, <3>3
  <2> QED
    BY <2>1, <2>3
<1> QED
  BY <1>2, KeptBack DEF Core

LEMMA NextBack ==
    ASSUME IInv, ~ForkMayFail, [Next]_vars
    PROVE  AllBack
<1> USE DEF IInv
<1>0. StateOK /\ GroupWellFormed /\ GroupShare /\ AllSound
  BY DEF Core
<1>a. ASSUME \A t \in sessions : ses'[t].wl = ses[t].wl PROVE AllBack
  <2>1. \A t \in sessions \cap sessions' : Linked(ses[t]) \subseteq Linked(ses'[t])
    BY <1>a DEF Linked
  <2> QED
    BY <1>0, <2>1, KeptBack
<1>1. CASE Continue
  <2>1. CASE ShiftLink
    <3> DEFINE s   == todo.s
               D   == ses[s]
               at  == todo.last
               w   == D.wl[at - 1]
               T   == [D EXCEPT !.wl[at] = w]
               sel == FALSE
               S   == IF sel THEN SessionSelect(T, at) ELSE T
               r   == Incr(refs, w)
    <3>1. todo.op = "link" /\ at > todo.idx /\ Publish(s, T, S, r)
      BY <2>1 DEF ShiftLink
    <3>2. s \in sessions /\ todo.idx..(at - 1) \subseteq Linked(D)
      BY <3>1 DEF TodoSound
    <3>3. todo.idx \in Idx /\ at \in Idx
      BY <3>1, TodoProps
    <3>4. at - 1 \in Linked(D) /\ at - 1 \in Idx
      <4>1. at - 1 \in todo.idx..(at - 1) /\ at - 1 \in Idx
        BY <3>1, <3>3, IndexAssumption DEF Idx
      <4> QED
        BY <3>2, <4>1
    <3>5. D \in SesType /\ D.wl = ses[s].wl
      BY <1>0, <3>2 DEF StateOK
    <3> HIDE DEF s, at
    <3>6. w \in WindowId
      BY <3>4, <3>5 DEF Linked, SesType
    <3>7. sel \in BOOLEAN /\ T = [D EXCEPT !.wl[at] = w]
          /\ S = IF sel THEN SessionSelect(T, at) ELSE T
      OBVIOUS
    <3> HIDE DEF D, w, T, sel, S, r
    <3> QED
      BY <1>0, <3>1, <3>2, <3>3, <3>5, <3>6, <3>7, LinkBack
  <2>2. CASE ShiftUnlink
    <3>1. todo.op = "shift" /\ DetachWindow(todo.s, todo.last - 1)
      BY <2>2 DEF ShiftUnlink
    <3>2. /\ todo.s \in sessions /\ todo.idx < todo.last
          /\ todo.idx..(todo.last - 1) \subseteq Linked(ses[todo.s])
      BY <3>1 DEF TodoSound
    <3>3. todo.last - 1 \in todo.idx..(todo.last - 1)
      <4>1. todo.idx \in Idx /\ todo.last \in Idx
        BY <3>1, TodoProps
      <4> QED
        BY <3>2, <4>1, IndexAssumption DEF Idx
    <3>4. todo.last - 1 \in Linked(ses[todo.s])
      BY <3>2, <3>3
    <3> QED
      BY <1>0, <3>1, <3>2, <3>4, DetachAllBack
  <2>3. ASSUME NEW w \in WindowId, ShiftCreate(w)
        PROVE  AllBack
    <3> DEFINE kill == FALSE
    <3>1. todo.op = "link" /\ CreateWindow(todo.s, w, todo.idx, kill, todo.det)
      BY <2>3 DEF ShiftCreate
    <3>2. todo.s \in sessions /\ todo.idx \in Idx /\ todo.det \in BOOLEAN /\ kill \in BOOLEAN
      BY <3>1, TodoProps DEF TodoSound
    <3> HIDE DEF kill
    <3> QED
      BY <3>1, <3>2, CreateBack
  <2>4. CASE MoveUnlink
    <3>1. todo.op = "unlink" /\ DetachWindow(todo.s, todo.i)
      BY <2>4 DEF MoveUnlink
    <3>2. todo.s \in sessions /\ todo.i \in Linked(ses[todo.s])
      BY <3>1 DEF TodoSound
    <3> QED
      BY <1>0, <3>1, <3>2, DetachAllBack
  <2>5. ASSUME NEW s \in SessionId, KillVisit(s)
        PROVE  AllBack
    <3> DEFINE L == LinksTo(ses[s], todo.w)
    <3>1. todo.op = "kill" /\ s \in todo.left
      BY <2>5 DEF KillVisit
    <3>2. s \in sessions /\ todo.w \in WindowId
      BY <3>1, TodoProps DEF TodoSound
    <3>3. CASE L = {}
      <4>1. UNCHANGED <<sessions, ses, groups, refs, died>>
        BY <2>5, <3>3 DEF KillVisit
      <4> QED
        BY <1>a, <4>1
    <3>4. CASE L # {}
      <4>1. DetachWindow(s, Min(L))
        BY <2>5, <3>4 DEF KillVisit
      <4>2. L \in SUBSET Nat /\ L \subseteq Linked(ses[s])
        BY <3>2, WindowAssumption DEF LinksTo, Linked, Idx
      <4> HIDE DEF L
      <4>3. Min(L) \in L
        BY <3>4, <4>2, MinProps
      <4> QED
        BY <1>0, <3>2, <4>1, <4>2, <4>3, DetachAllBack
    <3> QED
      BY <3>3, <3>4
  <2>6. CASE KillReturn
    BY <1>a, <2>6 DEF KillReturn
  <2> QED
    BY <1>1, <2>1, <2>2, <2>3, <2>4, <2>5, <2>6 DEF Continue
<1>2. CASE SessionCommand
  <2>1. ASSUME NEW s \in SessionId,
               \/ \E w \in WindowId : NewSession(s, w)
               \/ \E target, first \in SessionId : NewGroupedSession(s, target, first)
        PROVE  AllBack
    <3>1. s \notin sessions /\ (ses' = ses \/ \E S : ses' = [ses EXCEPT ![s] = S])
      BY <2>1 DEF NewSession, NewGroupedSession
    <3>2. \A t \in sessions : ses'[t] = ses[t]
      BY <1>0, <3>1 DEF StateOK
    <3> QED
      BY <1>a, <3>2
  <2>2. ASSUME NEW s \in SessionId, KillSession(s)
        PROVE  AllBack
    BY <1>0, <2>2, DestroyBack DEF KillSession
  <2> QED
    BY <1>2, <2>1, <2>2 DEF SessionCommand
<1>3. CASE SelectCommand
  <2>1. \A s \in SessionId : ses[s] \in SesType
    BY <1>0 DEF StateOK
  <2>2. ASSUME NEW s \in SessionId, NEW S, S.wl = ses[s].wl, MoveTo(s, S)
        PROVE  AllBack
    <3>1. ses' = [ses EXCEPT ![s] = S]
      BY <2>2 DEF MoveTo
    <3>2. \A t \in sessions : ses'[t].wl = ses[t].wl
      BY <1>0, <2>2, <3>1 DEF StateOK
    <3> QED
      BY <1>a, <3>2
  <2>3. ASSUME NEW s \in SessionId
        PROVE  /\ \A i : SelectWindow(s, i) => AllBack
               /\ \A a \in BOOLEAN : NextWindow(s, a) \/ PreviousWindow(s, a) => AllBack
               /\ LastWindow(s) => AllBack
    BY <2>1, <2>2, SelectType, StepType
    DEF SelectWindow, NextWindow, PreviousWindow, LastWindow
  <2>4. ASSUME NEW w \in WindowId, Alert(w)
        PROVE  AllBack
    <3>1. ASSUME NEW t \in sessions PROVE ses'[t].wl = ses[t].wl
      <4>0. t \in SessionId /\ ses[t] \in SesType
        BY <1>0 DEF StateOK
      <4>1. ses'[t] = ses[t] \/ \E a : ses'[t] = [ses[t] EXCEPT !.alerts = a]
        BY <2>4, <4>0 DEF Alert
      <4>2. \A a : [ses[t] EXCEPT !.alerts = a].wl = ses[t].wl
        BY <4>0 DEF SesType
      <4> QED
        BY <4>1, <4>2
    <3> QED
      BY <1>a, <3>1
  <2> QED
    BY <1>3, <2>3, <2>4 DEF SelectCommand
<1>4. CASE WindowCommand
  <2>1. ASSUME NEW s \in SessionId, NEW w \in WindowId, NEW idx \in Idx \cup {NoIdx},
               NEW kill \in BOOLEAN, NEW det \in BOOLEAN, NewWindow(s, w, idx, kill, det)
        PROVE  AllBack
    BY <2>1, CreateBack DEF NewWindow
  <2>2. ASSUME NEW s \in SessionId, NEW i \in Idx, NEW det \in BOOLEAN,
               NewWindowAfter(s, i, det)
        PROVE  AllBack
    BY <1>a, <2>2 DEF NewWindowAfter
  <2>3. ASSUME NEW s \in SessionId, NEW w \in WindowId, NEW det \in BOOLEAN,
               BreakPane(s, w, det)
        PROVE  AllBack
    BY <2>3, BreakPaneBack
  <2>4. ASSUME NEW src \in SessionId, NEW dst \in SessionId, NEW i \in Idx,
               NEW idx \in Idx \cup {NoIdx}, NEW kill \in BOOLEAN, NEW sel \in BOOLEAN,
               LinkWindow(src, i, dst, idx, kill, sel)
        PROVE  AllBack
    BY <2>4, LinkWindowBack
  <2>5. ASSUME NEW src \in SessionId, NEW dst \in SessionId, NEW i \in Idx, NEW j \in Idx,
               NEW det \in BOOLEAN, SwapWindow(src, i, dst, j, det)
        PROVE  AllBack
    BY <2>5, SwapBack
  <2>6. ASSUME NEW s \in SessionId, NEW i \in Idx, NEW kill \in BOOLEAN,
               UnlinkWindow(s, i, kill)
        PROVE  AllBack
    BY <1>0, <2>6, DetachAllBack DEF UnlinkWindow
  <2>7. ASSUME NEW w \in WindowId, KillWindow(w)
        PROVE  AllBack
    BY <1>a, <2>7 DEF KillWindow
  <2>8. ASSUME NEW src \in SessionId, NEW dst \in SessionId, NEW i \in Idx,
               NEW idx \in Idx \cup {NoIdx}, NEW kill \in BOOLEAN, NEW sel \in BOOLEAN,
               LinkWindowOnly(src, i, dst, idx, kill, sel)
        PROVE  AllBack
    BY <2>4, <2>8 DEF LinkWindowOnly
  <2>9. ASSUME NEW src \in SessionId, NEW dst \in SessionId, NEW i \in Idx,
               NEW idx \in Idx \cup {NoIdx}, NEW kill \in BOOLEAN, NEW sel \in BOOLEAN,
               MoveWindow(src, i, dst, idx, kill, sel)
        PROVE  AllBack
    BY <2>4, <2>9 DEF MoveWindow
  <2> QED
    <3>1. CASE \E s \in SessionId, w \in WindowId, idx \in Idx \cup {NoIdx},
               kill, det \in BOOLEAN : NewWindow(s, w, idx, kill, det)
      BY <2>1, <3>1
    <3>2. CASE \E s \in SessionId, i \in Idx, det \in BOOLEAN : NewWindowAfter(s, i, det)
      BY <2>2, <3>2
    <3>3. CASE \E s \in SessionId, w \in WindowId, det \in BOOLEAN : BreakPane(s, w, det)
      BY <2>3, <3>3
    <3>4. CASE \E src, dst \in SessionId, i \in Idx, idx \in Idx \cup {NoIdx},
               kill, sel \in BOOLEAN : LinkWindowOnly(src, i, dst, idx, kill, sel)
      BY <2>8, <3>4
    <3>5. CASE \E src, dst \in SessionId, i \in Idx, idx \in Idx \cup {NoIdx},
               kill, sel \in BOOLEAN : MoveWindow(src, i, dst, idx, kill, sel)
      BY <2>9, <3>5
    <3>6. CASE \E src, dst \in SessionId, i, j \in Idx, det \in BOOLEAN :
               SwapWindow(src, i, dst, j, det)
      BY <2>5, <3>6
    <3>7. CASE \E s \in SessionId, i \in Idx, kill \in BOOLEAN : UnlinkWindow(s, i, kill)
      BY <2>6, <3>7
    <3>8. CASE \E w \in WindowId : KillWindow(w)
      BY <2>7, <3>8
    <3> QED
      BY <1>4, <3>1, <3>2, <3>3, <3>4, <3>5, <3>6, <3>7, <3>8 DEF WindowCommand
<1>5. CASE UNCHANGED vars
  BY <1>a, <1>5 DEF vars
<1> QED
  BY <1>1, <1>2, <1>3, <1>4, <1>5 DEF Next

\* A session whose current window is unlinked, by whatever command in whichever
\* session of its group, goes back to the one before it, as long as
\* window_create does not fail.
THEOREM FallsBackToLast == ASSUME ~ForkMayFail PROVE Spec => FallBackToLast
<1>1. IInv /\ [Next]_vars => [AllBack]_vars
  BY NextBack
<1>2. Spec => [][AllBack]_vars
  BY <1>1, Invariance, PTL DEF Spec
<1> QED
  BY <1>2 DEF FallBackToLast, AllBack, Back

(***************************************************************************)
(* Counting winlinks.                                                      *)
(***************************************************************************)
\* The winlinks of one session to w, and those of the sessions of ss, when the
\* contents of the sessions are f.
Links(S, w) == Cardinality(LinksTo(S, w))
LinkSet(f, ss, w) == {x \in ss \X Idx : f[x[1]].wl[x[2]] = w}
CountIn(f, ss, w) == Cardinality(LinkSet(f, ss, w))
One(a, b) == IF a = b THEN 1 ELSE 0

\* The links of sessions are a finite number.
LEMMA CountFinite ==
    ASSUME NEW f, NEW ss \in SUBSET SessionId, NEW w
    PROVE  IsFiniteSet(LinkSet(f, ss, w)) /\ CountIn(f, ss, w) \in Nat
<1>1. IsFiniteSet(ss) /\ IsFiniteSet(Idx)
  BY SessionAssumption, IndexAssumption, FS_Subset, FS_Interval DEF Idx
<1>2. IsFiniteSet(ss \X Idx)
  BY <1>1, FS_Product
<1>3. LinkSet(f, ss, w) \in SUBSET (ss \X Idx)
  BY DEF LinkSet
<1>4. IsFiniteSet(LinkSet(f, ss, w))
  BY <1>2, <1>3, FS_Subset
<1> QED
  BY <1>4, FS_CardinalityType DEF CountIn

\* Those of sessions apart add up.
LEMMA CountSplit ==
    ASSUME NEW f, NEW a \in SUBSET SessionId, NEW b \in SUBSET SessionId, a \cap b = {}, NEW w
    PROVE  CountIn(f, a \cup b, w) = CountIn(f, a, w) + CountIn(f, b, w)
<1> DEFINE A == LinkSet(f, a, w)
           B == LinkSet(f, b, w)
<1>1. LinkSet(f, a \cup b, w) = A \cup B /\ A \cap B = {}
  BY DEF LinkSet
<1>2. /\ IsFiniteSet(A) /\ IsFiniteSet(B)
      /\ Cardinality(A) \in Nat /\ Cardinality(B) \in Nat
  BY CountFinite DEF CountIn
<1> HIDE DEF A, B
<1>3. Cardinality(A \cup B) = Cardinality(A) + Cardinality(B) - Cardinality(A \cap B)
  BY <1>2, FS_Union
<1>4. Cardinality(A \cap B) = 0
  BY <1>1, FS_EmptySet
<1>5. Cardinality(A \cup B) = Cardinality(A) + Cardinality(B)
  BY <1>2, <1>3, <1>4
<1> QED
  BY <1>1, <1>5 DEF CountIn, A, B

\* Those of sessions with the windows of T are as many times those of T.
LEMMA CountSame ==
    ASSUME NEW f, NEW ss \in SUBSET SessionId, NEW T \in SesType,
           \A s \in ss : f[s].wl = T.wl, NEW w
    PROVE  CountIn(f, ss, w) = Cardinality(ss) * Links(T, w)
<1> DEFINE L == LinksTo(T, w)
<1>1. LinkSet(f, ss, w) = ss \X L
  BY DEF LinksTo, LinkSet
<1>2. IsFiniteSet(ss) /\ IsFiniteSet(L)
  BY CountTypes, SessionAssumption, FS_Subset
<1> HIDE DEF L
<1>3. Cardinality(ss \X L) = Cardinality(ss) * Cardinality(L)
  BY <1>2, FS_Product
<1> QED
  BY <1>1, <1>3 DEF CountIn, Links, L

\* Those of one session.
LEMMA CountOne ==
    ASSUME NEW f, NEW s \in SessionId, f[s] \in SesType, NEW w
    PROVE  CountIn(f, {s}, w) = Links(f[s], w) /\ Links(f[s], w) \in Nat
<1>1. Links(f[s], w) \in Nat
  BY CountTypes DEF Links
<1>2. CountIn(f, {s}, w) = Cardinality({s}) * Links(f[s], w)
  BY CountSame
<1>3. Cardinality({s}) = 1
  BY FS_Singleton
<1> QED
  BY <1>1, <1>2, <1>3

\* Sessions that keep their windows keep their links.
LEMMA CountFrame ==
    ASSUME NEW f, NEW g, NEW ss, \A s \in ss : f[s].wl = g[s].wl, NEW w
    PROVE  CountIn(f, ss, w) = CountIn(g, ss, w)
<1>1. LinkSet(f, ss, w) = LinkSet(g, ss, w)
  BY DEF LinkSet
<1> QED
  BY <1>1 DEF CountIn

\* One index of a session is given another window, or none.
Puts(S, T, i, v) == \A k \in Idx : T.wl[k] = IF k = i THEN v ELSE S.wl[k]

\* That changes the links to the window that was there and to the new one.
LEMMA LinksPut ==
    ASSUME NEW S \in SesType, NEW T \in SesType, NEW i \in Idx, NEW v, Puts(S, T, i, v),
           NEW w
    PROVE  /\ Links(S, w) \in Nat
           /\ Links(T, w) = (Links(S, w) - One(S.wl[i], w)) + One(v, w)
<1> DEFINE L == LinksTo(S, w)
<1>1. IsFiniteSet(L) /\ Cardinality(L) \in Nat
  BY CountTypes
<1>2. LinksTo(T, w) = IF v = w THEN L \cup {i} ELSE L \ {i}
  BY DEF LinksTo, Puts
<1>3. i \in L <=> S.wl[i] = w
  BY DEF LinksTo
<1> HIDE DEF L
<1>4. Cardinality(L \cup {i}) = IF i \in L THEN Cardinality(L) ELSE Cardinality(L) + 1
  BY <1>1, FS_AddElement
<1>5. Cardinality(L \ {i}) = IF i \in L THEN Cardinality(L) - 1 ELSE Cardinality(L)
  BY <1>1, FS_RemoveElement
<1>6. Cardinality(LinksTo(T, w)) = (Cardinality(L) - One(S.wl[i], w)) + One(v, w)
  <2>1. CASE v = w
    BY <1>1, <1>2, <1>3, <1>4, <2>1 DEF One
  <2>2. CASE v # w
    BY <1>1, <1>2, <1>3, <1>5, <2>2 DEF One
  <2> QED
    BY <2>1, <2>2
<1> QED
  BY <1>1, <1>6 DEF Links, L

(***************************************************************************)
(* Reference counts.                                                       *)
(***************************************************************************)
\* Every winlink of a live session is counted.
Counted == \A w \in WindowId : refs[w] = CountIn(ses, sessions, w)

\* The counts r fit, once session s has become T.
Balanced(r, s, T) ==
    /\ r \in [WindowId -> Int]
    /\ \A w \in WindowId :
          r[w] = (CountIn(ses, sessions, w) - Links(ses[s], w)) + Links(T, w)

\* Sums of links are numbers.
LEMMA CountIsNat ==
    ASSUME StateOK, NEW w
    PROVE  /\ CountIn(ses, sessions, w) \in Nat
           /\ \A T \in SesType : Links(T, w) \in Nat
<1>1. sessions \in SUBSET SessionId
  BY DEF StateOK
<1>2. CountIn(ses, sessions, w) \in Nat
  BY <1>1, CountFinite
<1>3. \A T \in SesType : Links(T, w) \in Nat
  BY CountTypes DEF Links
<1> QED
  BY <1>2, <1>3

\* Before a session changes, and when only its current window does.
LEMMA BalancedSame ==
    ASSUME StateOK, Counted, NEW s \in sessions, NEW T, T.wl = ses[s].wl
    PROVE  Balanced(refs, s, T)
<1>1. \A w : Links(T, w) = Links(ses[s], w)
  BY DEF Links, LinksTo
<1>2. ses[s] \in SesType
  BY DEF StateOK
<1>3. ASSUME NEW w \in WindowId
      PROVE  refs[w] = (CountIn(ses, sessions, w) - Links(ses[s], w)) + Links(T, w)
  <2>1. CountIn(ses, sessions, w) \in Nat /\ Links(ses[s], w) \in Nat
    BY <1>2, CountIsNat
  <2> QED
    BY <1>1, <2>1 DEF Counted
<1> QED
  BY <1>3 DEF Balanced, StateOK

\* winlink_set_window at a free index.
LEMMA BalancedLink ==
    ASSUME StateOK, NEW s \in sessions, NEW r, NEW S \in SesType, Balanced(r, s, S),
           NEW i \in Idx, i \notin Linked(S), NEW v \in WindowId,
           NEW T \in SesType, T.wl = [S.wl EXCEPT ![i] = v]
    PROVE  Balanced(Incr(r, v), s, T)
<1>1. S.wl[i] = NoWindow
  BY DEF Linked
<1>2. Incr(r, v) \in [WindowId -> Int]
  BY CountChange DEF Balanced
<1>3. \A w \in WindowId : Incr(r, v)[w] = r[w] + One(v, w) /\ r[w] \in Int
  BY DEF Incr, One, Balanced
<1>4. ASSUME NEW w \in WindowId
      PROVE  Incr(r, v)[w] = (CountIn(ses, sessions, w) - Links(ses[s], w)) + Links(T, w)
  <2>1. Links(S, w) \in Nat /\ Links(T, w) = (Links(S, w) - One(S.wl[i], w)) + One(v, w)
    <3>1. Puts(S, T, i, v)
      BY DEF SesType, Puts
    <3> QED
      BY <3>1, LinksPut
  <2>2. One(S.wl[i], w) = 0 /\ One(v, w) \in Nat
    BY <1>1, WindowAssumption DEF One
  <2>3. ses[s] \in SesType
    BY DEF StateOK
  <2>4. CountIn(ses, sessions, w) \in Nat /\ Links(ses[s], w) \in Nat
    BY <2>3, CountIsNat
  <2>5. r[w] = (CountIn(ses, sessions, w) - Links(ses[s], w)) + Links(S, w)
    BY DEF Balanced
  <2> QED
    BY <1>3, <2>1, <2>2, <2>4, <2>5
<1> QED
  BY <1>2, <1>4 DEF Balanced

\* winlink_remove.
LEMMA BalancedUnlink ==
    ASSUME StateOK, NEW s \in sessions, NEW r, NEW S \in SesType, Balanced(r, s, S),
           NEW i \in Linked(S),
           NEW T \in SesType, T.wl = [S.wl EXCEPT ![i] = NoWindow]
    PROVE  Balanced(Decr(r, S.wl[i]), s, T)
<1> DEFINE v == S.wl[i]
<1>1. v \in WindowId /\ i \in Idx
  BY DEF Linked, SesType
<1>2. Decr(r, v) \in [WindowId -> Int]
  BY CountChange DEF Balanced
<1>3. \A w \in WindowId : Decr(r, v)[w] = r[w] - One(v, w) /\ r[w] \in Int
  BY DEF Decr, One, Balanced
<1>4. ASSUME NEW w \in WindowId
      PROVE  Decr(r, v)[w] = (CountIn(ses, sessions, w) - Links(ses[s], w)) + Links(T, w)
  <2>1. Links(S, w) \in Nat /\ Links(T, w) = (Links(S, w) - One(v, w)) + One(NoWindow, w)
    <3>1. Puts(S, T, i, NoWindow)
      BY DEF SesType, Puts
    <3> QED
      BY <1>1, <3>1, LinksPut
  <2>2. One(NoWindow, w) = 0 /\ One(v, w) \in Nat
    BY WindowAssumption DEF One
  <2>3. ses[s] \in SesType
    BY DEF StateOK
  <2>4. CountIn(ses, sessions, w) \in Nat /\ Links(ses[s], w) \in Nat
    BY <2>3, CountIsNat
  <2>5. r[w] = (CountIn(ses, sessions, w) - Links(ses[s], w)) + Links(S, w)
    BY DEF Balanced
  <2> HIDE DEF v
  <2> QED
    BY <1>3, <2>1, <2>2, <2>4, <2>5
<1> QED
  BY <1>2, <1>4 DEF Balanced

(***************************************************************************)
(* The ways a handler leaves the sessions.                                 *)
(***************************************************************************)
\* The links of the live sessions are those of s, of its mates and of the rest.
LEMMA CountParts ==
    ASSUME StateOK, GroupWellFormed, NEW s \in sessions, NEW f,
           f[s] \in SesType, NEW w
    PROVE  LET R == sessions \ (Mates(s) \cup {s})
           IN  /\ CountIn(f, sessions, w)
                    = (Links(f[s], w) + CountIn(f, Mates(s), w)) + CountIn(f, R, w)
               /\ Links(f[s], w) \in Nat /\ CountIn(f, Mates(s), w) \in Nat
               /\ CountIn(f, R, w) \in Nat
<1> DEFINE M == Mates(s)
           R == sessions \ (M \cup {s})
           N == {s} \cup M
<1>1. M \subseteq sessions \ {s} /\ sessions \in SUBSET SessionId /\ s \in SessionId
  BY MatesProps DEF StateOK
<1> HIDE DEF M
<1>2. /\ M \in SUBSET SessionId /\ R \in SUBSET SessionId /\ {s} \in SUBSET SessionId
      /\ N \in SUBSET SessionId
      /\ {s} \cap M = {} /\ N \cap R = {} /\ sessions = N \cup R
  BY <1>1
<1> HIDE DEF R
<1>3. CountIn(f, N, w) = CountIn(f, {s}, w) + CountIn(f, M, w)
  BY <1>2, CountSplit
<1> HIDE DEF N
<1>4. CountIn(f, sessions, w) = CountIn(f, N, w) + CountIn(f, R, w)
  BY <1>2, CountSplit
<1>5. CountIn(f, {s}, w) = Links(f[s], w) /\ Links(f[s], w) \in Nat
  BY <1>1, CountOne
<1>6. CountIn(f, M, w) \in Nat /\ CountIn(f, R, w) \in Nat
  BY <1>2, CountFinite
<1> QED
  BY <1>3, <1>4, <1>5, <1>6 DEF M, R

\* What session_group_synchronize_from adds and takes away is what it links and unlinks.
LEMMA PublishCounted ==
    ASSUME StateOK, GroupWellFormed, NEW s \in sessions,
           NEW T \in SesType, NEW S \in SesType, S.wl = T.wl,
           NEW r, Balanced(r, s, T), Publish(s, T, S, r)
    PROVE  Counted'
<1> DEFINE M == Mates(s)
           R == sessions \ (M \cup {s})
<1>1. /\ sessions' = sessions
      /\ \A t \in SessionId : ses'[t] = CASE t = s -> S
                                         [] t \in M -> Synced(T, ses[t])
                                         [] OTHER -> ses[t]
      /\ refs' = SyncRefs(r, s, T)
  BY DEF Publish
<1>2. M \subseteq sessions \ {s} /\ sessions \subseteq SessionId /\ Cardinality(M) \in Nat
  BY MatesProps DEF StateOK
<1>3. ses[s] \in SesType /\ s \in SessionId
  BY DEF StateOK
<1>4. SyncRefs(r, s, T)
        = IF Linked(T) = {} THEN r
          ELSE [w \in WindowId |->
                  r[w] + Cardinality(M) * Cardinality(LinksTo(T, w)) - LinkCount(M, w)]
  BY DEF SyncRefs
<1> HIDE DEF M
<1>5. ses'[s] = S /\ \A t \in M : ses'[t] = Synced(T, ses[t])
  BY <1>1, <1>2, <1>3
<1>6. \A t \in R : ses'[t] = ses[t]
  BY <1>1, <1>2
<1>7. SUFFICES ASSUME NEW w \in WindowId
               PROVE  refs'[w] = CountIn(ses', sessions, w)
  BY <1>1 DEF Counted, CountIn, LinkSet
<1> DEFINE all   == CountIn(ses, sessions, w)
           own   == Links(ses[s], w)
           new   == Links(T, w)
           mates == CountIn(ses, M, w)
           rest  == CountIn(ses, R, w)
           after == CountIn(ses', M, w)
<1>8. /\ all = (own + mates) + rest
      /\ own \in Nat /\ mates \in Nat /\ rest \in Nat
  BY <1>3, CountParts DEF M
<1>9. /\ CountIn(ses', sessions, w) = (Links(S, w) + after) + CountIn(ses', R, w)
      /\ after \in Nat
  BY <1>5, CountParts DEF M
<1>10. Links(S, w) = new /\ new \in Nat
  BY CountIsNat DEF Links, LinksTo
<1>11. CountIn(ses', R, w) = rest
  BY <1>6, CountFrame
<1>12. r[w] = (all - own) + new
  BY DEF Balanced
<1>13. CASE Linked(T) = {}
  <2>1. \A t \in M : ses'[t].wl = ses[t].wl
    BY <1>2, <1>5, <1>13, SyncedType DEF StateOK
  <2>2. after = mates
    BY <2>1, CountFrame
  <2>3. refs'[w] = r[w]
    BY <1>1, <1>4, <1>13
  <2> HIDE DEF all, own, new, mates, rest, after
  <2> QED
    BY <1>8, <1>9, <1>10, <1>11, <1>12, <2>2, <2>3
<1>14. CASE Linked(T) # {}
  <2>1. \A t \in M : ses'[t].wl = T.wl
    BY <1>2, <1>5, <1>14, SyncedType DEF StateOK
  <2>2. after = Cardinality(M) * new
    <3>1. M \in SUBSET SessionId
      BY <1>2
    <3> QED
      BY <2>1, <3>1, CountSame
  <2>3. refs'[w] = r[w] + Cardinality(M) * Cardinality(LinksTo(T, w)) - LinkCount(M, w)
    BY <1>1, <1>4, <1>14
  <2>4. LinkCount(M, w) = mates /\ Cardinality(LinksTo(T, w)) = new
    BY DEF LinkCount, CountIn, LinkSet, Links
  <2>5. refs'[w] = r[w] + after - mates
    BY <2>2, <2>3, <2>4
  <2> HIDE DEF all, own, new, mates, rest, after
  <2> QED
    BY <1>8, <1>9, <1>10, <1>11, <1>12, <2>5
<1> QED
  BY <1>13, <1>14

\* A session goes, and its links were given back.
LEMMA DestroyCounted ==
    ASSUME StateOK, NEW s \in sessions, NEW T \in SesType, Linked(T) = {},
           NEW r, Balanced(r, s, T), Destroy(s, r)
    PROVE  Counted'
<1> DEFINE R == sessions \ {s}
<1>1. sessions' = R /\ refs' = r /\ \A t \in R : ses'[t] = ses[t]
  BY DEF Destroy, StateOK
<1>2. SUFFICES ASSUME NEW w \in WindowId
               PROVE  r[w] = CountIn(ses', R, w)
  BY <1>1 DEF Counted, CountIn, LinkSet
<1>3. CountIn(ses', R, w) = CountIn(ses, R, w)
  BY <1>1, CountFrame
<1>4. CountIn(ses, sessions, w) = CountIn(ses, {s}, w) + CountIn(ses, R, w)
  <2>1. {s} \in SUBSET SessionId /\ R \in SUBSET SessionId /\ {s} \cap R = {}
        /\ sessions = {s} \cup R
    BY DEF StateOK
  <2> HIDE DEF R
  <2> QED
    BY <2>1, CountSplit
<1>5. CountIn(ses, {s}, w) = Links(ses[s], w) /\ Links(ses[s], w) \in Nat
  BY CountOne DEF StateOK
<1>6. Links(T, w) = 0
  <2>1. LinksTo(T, w) = {}
    BY WindowAssumption DEF LinksTo, Linked
  <2> QED
    BY <2>1, FS_EmptySet DEF Links
<1>7. r[w] = (CountIn(ses, sessions, w) - Links(ses[s], w)) + Links(T, w)
  BY DEF Balanced
<1>8. CountIn(ses, R, w) \in Nat
  <2>1. R \in SUBSET SessionId
    BY DEF StateOK
  <2> HIDE DEF R
  <2> QED
    BY <2>1, CountFinite
<1> HIDE DEF R
<1> QED
  BY <1>3, <1>4, <1>5, <1>6, <1>7, <1>8

\* session_detach.
LEMMA DetachCounted ==
    ASSUME StateOK, GroupWellFormed, Counted, NEW s \in sessions, NEW i \in Linked(ses[s]),
           DetachWindow(s, i)
    PROVE  Counted'
<1> DEFINE T == Detach(ses[s], i)
           r == Decr(refs, ses[s].wl[i])
<1>1. ses[s] \in SesType /\ i \in Idx
  BY DEF StateOK, Linked
<1>2. T \in SesType /\ T.wl = [ses[s].wl EXCEPT ![i] = NoWindow]
  BY <1>1, DetachType
<1>3. Balanced(r, s, T)
  <2> HIDE DEF T
  <2> QED
    BY <1>1, <1>2, BalancedSame, BalancedUnlink
<1>4. IF Linked(T) = {} THEN Destroy(s, r) ELSE Publish(s, T, T, r)
  BY DEF DetachWindow
<1> HIDE DEF T, r
<1> QED
  BY <1>2, <1>3, <1>4, DestroyCounted, PublishCounted

\* No winlink changes.
LEMMA SameCounted ==
    ASSUME Counted, sessions' = sessions, refs' = refs,
           \A t \in sessions : ses'[t].wl = ses[t].wl
    PROVE  Counted'
<1> SUFFICES ASSUME NEW w \in WindowId PROVE refs[w] = CountIn(ses', sessions, w)
  BY DEF Counted, CountIn, LinkSet
<1>1. CountIn(ses', sessions, w) = CountIn(ses, sessions, w)
  BY CountFrame
<1> QED
  BY <1>1 DEF Counted

\* One session changes, and its group does not follow.
LEMMA OneCounted ==
    ASSUME StateOK, NEW s \in sessions, NEW T \in SesType, NEW r, Balanced(r, s, T),
           sessions' = sessions, ses' = [ses EXCEPT ![s] = T], refs' = r
    PROVE  Counted'
<1> DEFINE R == sessions \ {s}
<1>1. SUFFICES ASSUME NEW w \in WindowId PROVE r[w] = CountIn(ses', sessions, w)
  BY DEF Counted, CountIn, LinkSet
<1>2. /\ {s} \in SUBSET SessionId /\ R \in SUBSET SessionId /\ {s} \cap R = {}
      /\ sessions = {s} \cup R /\ s \in SessionId
  BY DEF StateOK
<1>3. ses'[s] = T /\ \A t \in R : ses'[t] = ses[t]
  BY <1>2 DEF StateOK
<1> HIDE DEF R
<1>4. /\ CountIn(ses, sessions, w) = CountIn(ses, {s}, w) + CountIn(ses, R, w)
      /\ CountIn(ses', sessions, w) = CountIn(ses', {s}, w) + CountIn(ses', R, w)
  BY <1>2, CountSplit
<1>5. CountIn(ses', R, w) = CountIn(ses, R, w) /\ CountIn(ses, R, w) \in Nat
  <2> DEFINE f == ses'
  <2>1. \A t \in R : f[t].wl = ses[t].wl
    BY <1>3
  <2> HIDE DEF f
  <2>2. CountIn(f, R, w) = CountIn(ses, R, w)
    BY <2>1, CountFrame
  <2> QED
    BY <1>2, <2>2, CountFinite DEF f
<1>6. /\ CountIn(ses, {s}, w) = Links(ses[s], w) /\ Links(ses[s], w) \in Nat
  BY <1>2, CountOne DEF StateOK
<1>7. /\ CountIn(ses', {s}, w) = Links(T, w) /\ Links(T, w) \in Nat
  <2>1. ses'[s] \in SesType
    BY <1>3
  <2>2. CountIn(ses', {s}, w) = Links(ses'[s], w) /\ Links(ses'[s], w) \in Nat
    BY <1>2, <2>1, CountOne
  <2> QED
    BY <1>3, <2>2
<1>8. r[w] = (CountIn(ses, sessions, w) - Links(ses[s], w)) + Links(T, w)
  BY DEF Balanced
<1> QED
  BY <1>4, <1>5, <1>6, <1>7, <1>8

(***************************************************************************)
(* The commands.                                                           *)
(***************************************************************************)
\* A new session, with the windows of S.
LEMMA AddedCounted ==
    ASSUME StateOK, Counted, NEW s \in SessionId, s \notin sessions, NEW S \in SesType,
           sessions' = sessions \cup {s}, ses' = [ses EXCEPT ![s] = S],
           \A w \in WindowId : refs'[w] = refs[w] + Links(S, w)
    PROVE  Counted'
<1> DEFINE N == sessions \cup {s}
<1>1. SUFFICES ASSUME NEW w \in WindowId PROVE refs'[w] = CountIn(ses', N, w)
  BY DEF Counted, CountIn, LinkSet
<1>2. ses'[s] = S /\ \A t \in sessions : ses'[t].wl = ses[t].wl
  BY DEF StateOK
<1>3. {s} \in SUBSET SessionId /\ sessions \in SUBSET SessionId /\ sessions \cap {s} = {}
  BY DEF StateOK
<1>4. CountIn(ses', N, w) = CountIn(ses', sessions, w) + CountIn(ses', {s}, w)
  BY <1>3, CountSplit
<1>5. CountIn(ses', sessions, w) = CountIn(ses, sessions, w)
  <2> DEFINE f == ses'
  <2>1. \A t \in sessions : f[t].wl = ses[t].wl
    BY <1>2
  <2> HIDE DEF f
  <2>2. CountIn(f, sessions, w) = CountIn(ses, sessions, w)
    BY <2>1, CountFrame
  <2> QED
    BY <2>2 DEF f
<1>6. CountIn(ses', {s}, w) = Links(S, w)
  <2>1. ses'[s] \in SesType
    BY <1>2
  <2>2. CountIn(ses', {s}, w) = Links(ses'[s], w)
    BY <2>1, CountOne
  <2> QED
    BY <1>2, <2>2
<1> QED
  BY <1>4, <1>5, <1>6 DEF Counted

LEMMA NewSessionCounted ==
    ASSUME StateOK, Counted, NEW s \in SessionId, NEW w \in WindowId, NewSession(s, w)
    PROVE  Counted'
<1> DEFINE i == AddIndex(EmptySession, NoIdx)
           S == [EmptySession EXCEPT !.wl[i] = w]
           U == SessionSelect(S, i)
<1>0. EmptySession \in SesType /\ Linked(EmptySession) = {}
  BY DEF EmptySession, SesType, Linked
<1>1. i \in Idx
  <2> DEFINE up == {j \in Idx : j >= BaseIndex}
  <2>1. up \in SUBSET Nat /\ BaseIndex \in up
    BY IndexAssumption DEF Idx
  <2>2. Min(up) \in up
    <3> HIDE DEF up
    <3> QED
      BY <2>1, MinProps
  <2>3. i = Min(up)
    BY <1>0, <2>1 DEF AddIndex
  <2> QED
    BY <2>2, <2>3
<1>2. /\ sessions' = sessions \cup {s} /\ s \notin sessions
      /\ ses' = [ses EXCEPT ![s] = U] /\ refs' = Incr(refs, w)
  BY DEF NewSession
<1> HIDE DEF i
<1>3. S \in SesType /\ Puts(EmptySession, S, i, w)
  BY <1>0, <1>1, PutType DEF Puts, SesType
<1> HIDE DEF S
<1>4. U \in SesType /\ U.wl = S.wl
  BY <1>3, SelectType
<1> HIDE DEF U
<1>5. ASSUME NEW v \in WindowId PROVE refs'[v] = refs[v] + Links(U, v)
  <2>1. Links(S, v) = (Links(EmptySession, v) - One(EmptySession.wl[i], v)) + One(w, v)
        /\ Links(EmptySession, v) \in Nat
    BY <1>0, <1>1, <1>3, LinksPut
  <2>2. Links(EmptySession, v) = 0
    <3>1. LinksTo(EmptySession, v) = {}
      BY <1>0, WindowAssumption DEF LinksTo, Linked
    <3> QED
      BY <3>1, FS_EmptySet DEF Links
  <2>3. One(EmptySession.wl[i], v) = 0
    BY <1>1, WindowAssumption DEF One, EmptySession
  <2>4. Links(U, v) = Links(S, v)
    BY <1>4 DEF Links, LinksTo
  <2>5. refs'[v] = refs[v] + One(w, v)
    BY <1>2 DEF Incr, One, StateOK
  <2>6. One(w, v) \in Nat
    BY DEF One
  <2> QED
    BY <2>1, <2>2, <2>3, <2>4, <2>5, <2>6
<1> QED
  BY <1>2, <1>4, <1>5, AddedCounted

LEMMA NewGroupedCounted ==
    ASSUME StateOK, GroupWellFormed, Counted, NEW s \in SessionId, NEW target \in SessionId,
           NEW first \in SessionId, NewGroupedSession(s, target, first), died' = "no"
    PROVE  Counted'
<1> DEFINE S == Synced(ses[first], EmptySession)
<1>0. EmptySession \in SesType /\ ses[first] \in SesType
  BY DEF EmptySession, SesType, StateOK
<1>1. S \in SesType
  BY <1>0, SyncedType
<1>2. /\ s \notin sessions /\ sessions' = sessions \cup {s}
      /\ \E root \in Linked(S) : ses' = [ses EXCEPT ![s] = SessionSelect(S, root)]
      /\ refs' = [w \in WindowId |-> refs[w] + Cardinality(LinksTo(S, w))]
  BY DEF NewGroupedSession
<1> HIDE DEF S
<1>3. PICK root \in Linked(S) : ses' = [ses EXCEPT ![s] = SessionSelect(S, root)]
  BY <1>2
<1> DEFINE U == SessionSelect(S, root)
<1>4. U \in SesType /\ U.wl = S.wl /\ ses' = [ses EXCEPT ![s] = U]
  BY <1>1, <1>3, SelectType
<1> HIDE DEF U
<1>5. \A w \in WindowId : refs'[w] = refs[w] + Links(U, w)
  BY <1>2, <1>4 DEF Links, LinksTo
<1> QED
  BY <1>2, <1>4, <1>5, AddedCounted

LEMMA KillSessionCounted ==
    ASSUME StateOK, Counted, NEW s \in SessionId, KillSession(s)
    PROVE  Counted'
<1> DEFINE r == [w \in WindowId |-> refs[w] - Cardinality(LinksTo(ses[s], w))]
<1>1. s \in sessions /\ Destroy(s, r)
  BY DEF KillSession
<1>2. EmptySession \in SesType /\ Linked(EmptySession) = {}
  BY DEF EmptySession, SesType, Linked
<1>3. ASSUME NEW w \in WindowId
      PROVE  /\ r[w] \in Int
             /\ r[w] = (CountIn(ses, sessions, w) - Links(ses[s], w)) + Links(EmptySession, w)
  <2>1. CountIn(ses, sessions, w) \in Nat /\ Links(ses[s], w) \in Nat
    <3>1. ses[s] \in SesType
      BY DEF StateOK
    <3> QED
      BY <3>1, CountIsNat
  <2>2. Links(EmptySession, w) = 0
    <3>1. LinksTo(EmptySession, w) = {}
      BY <1>2, WindowAssumption DEF LinksTo, Linked
    <3> QED
      BY <3>1, FS_EmptySet DEF Links
  <2>3. r[w] = refs[w] - Links(ses[s], w)
    BY DEF Links
  <2>4. refs[w] = CountIn(ses, sessions, w)
    BY DEF Counted
  <2> HIDE DEF r
  <2> QED
    BY <2>1, <2>2, <2>3, <2>4
<1>4. Balanced(r, s, EmptySession)
  <2>1. r \in [WindowId -> Int]
    BY <1>3
  <2> HIDE DEF r
  <2> QED
    BY <1>3, <2>1 DEF Balanced
<1> HIDE DEF r
<1> QED
  BY <1>1, <1>2, <1>4, DestroyCounted

\* select-window and its kin.
LEMMA MoveToCounted ==
    ASSUME StateOK, Counted, NEW s \in SessionId, NEW S, S.wl = ses[s].wl, MoveTo(s, S)
    PROVE  Counted'
<1>1. sessions' = sessions /\ refs' = refs /\ ses' = [ses EXCEPT ![s] = S]
  BY DEF MoveTo
<1>2. \A t \in sessions : ses'[t].wl = ses[t].wl
  BY <1>1 DEF StateOK
<1> QED
  BY <1>1, <1>2, SameCounted

\* server_window_loop.
LEMMA AlertCounted ==
    ASSUME StateOK, Counted, NEW w \in WindowId, Alert(w)
    PROVE  Counted'
<1>1. sessions' = sessions /\ refs' = refs
  BY DEF Alert
<1>2. ASSUME NEW t \in sessions PROVE ses'[t].wl = ses[t].wl
  <2>1. t \in SessionId /\ ses[t] \in SesType
    BY DEF StateOK
  <2>2. \/ ses'[t] = ses[t]
        \/ \E a : ses'[t] = [ses[t] EXCEPT !.alerts = a]
    BY <2>1 DEF Alert
  <2>3. \A a : [ses[t] EXCEPT !.alerts = a].wl = ses[t].wl
    BY <2>1 DEF SesType
  <2> QED
    BY <2>2, <2>3
<1> QED
  BY <1>1, <1>2, SameCounted

\* A window is linked at a free index, and the group follows.
LEMMA LinkCounted ==
    ASSUME StateOK, GroupWellFormed, NEW s \in sessions, NEW D \in SesType,
           NEW r, Balanced(r, s, D), NEW at \in Idx, at \notin Linked(D),
           NEW w \in WindowId, NEW sel \in BOOLEAN,
           NEW T, T = [D EXCEPT !.wl[at] = w],
           NEW S, S = IF sel THEN SessionSelect(T, at) ELSE T,
           Publish(s, T, S, Incr(r, w))
    PROVE  Counted'
<1>1. T \in SesType /\ T.wl = [D.wl EXCEPT ![at] = w]
  BY PutType
<1>2. S \in SesType /\ S.wl = T.wl
  BY <1>1, SelectType
<1>3. Balanced(Incr(r, w), s, T)
  BY <1>1, BalancedLink
<1> QED
  BY <1>1, <1>2, <1>3, PublishCounted

\* A window is removed by hand, or none.
LEMMA ReplacedBalanced ==
    ASSUME StateOK, Counted, NEW s \in sessions, NEW idx, NEW k \in BOOLEAN,
           k => idx \in Linked(ses[s])
    PROVE  Balanced(IF k THEN Decr(refs, ses[s].wl[idx]) ELSE refs, s,
                    IF k THEN Replace(ses[s], idx) ELSE ses[s])
<1>1. ses[s] \in SesType /\ Balanced(refs, s, ses[s])
  BY BalancedSame DEF StateOK
<1>2. ASSUME k PROVE Balanced(Decr(refs, ses[s].wl[idx]), s, Replace(ses[s], idx))
  <2>1. idx \in Linked(ses[s]) /\ idx \in Idx
    BY <1>2 DEF Linked
  <2>2. /\ Replace(ses[s], idx) \in SesType
        /\ Replace(ses[s], idx).wl = [ses[s].wl EXCEPT ![idx] = NoWindow]
    BY <1>1, <2>1, ReplaceType
  <2> QED
    BY <1>1, <2>1, <2>2, BalancedUnlink
<1> QED
  BY <1>1, <1>2

\* new-window from the removal of the old window on.
LEMMA CreateCounted ==
    ASSUME Core, Counted, NEW s \in sessions, NEW w \in WindowId,
           NEW idx \in Idx \cup {NoIdx}, NEW kill \in BOOLEAN, NEW det \in BOOLEAN,
           CreateWindow(s, w, idx, kill, det)
    PROVE  Counted'
<1> DEFINE S    == ses[s]
           k    == kill /\ idx \in Linked(S)
           K    == IF k THEN Replace(S, idx) ELSE S
           r    == IF k THEN Decr(refs, S.wl[idx]) ELSE refs
           at   == AddIndex(K, idx)
           T    == [K EXCEPT !.wl[at] = w]
           stay == det /\ ~(k /\ S.curw = idx)
           sel  == ~stay
           U    == IF sel THEN SessionSelect(T, at) ELSE T
<1>1. /\ Balanced(r, s, K) /\ K \in SesType
      /\ at # NoIdx => at \in Idx /\ at \notin Linked(K)
  <2>1. k \in BOOLEAN
    OBVIOUS
  <2> HIDE DEF k
  <2>2. k => idx \in Linked(ses[s])
    BY DEF k
  <2>3. Balanced(r, s, K)
    BY <2>1, <2>2, ReplacedBalanced DEF Core
  <2>4. K \in SesType /\ (at # NoIdx => at \in Idx /\ at \notin Linked(K))
    BY <2>1, <2>2, ReplacedProps
  <2> QED
    BY <2>3, <2>4
<1>2. sel \in BOOLEAN
  OBVIOUS
<1>3. \/ at # NoIdx /\ Publish(s, T, U, Incr(r, w))
      \/ ses' = [ses EXCEPT ![s] = K] /\ refs' = r /\ sessions' = sessions
  BY DEF CreateWindow
<1>4. T = [K EXCEPT !.wl[at] = w] /\ U = IF sel THEN SessionSelect(T, at) ELSE T
  OBVIOUS
<1> HIDE DEF K, r, at, T, sel, U
<1>5. CASE at # NoIdx /\ Publish(s, T, U, Incr(r, w))
  BY <1>1, <1>2, <1>4, <1>5, LinkCounted DEF Core
<1>6. CASE ses' = [ses EXCEPT ![s] = K] /\ refs' = r /\ sessions' = sessions
  BY <1>1, <1>6, OneCounted DEF Core
<1> QED
  BY <1>3, <1>5, <1>6

LEMMA BreakPaneCounted ==
    ASSUME Core, Counted, NEW s \in SessionId, NEW w \in WindowId, NEW det \in BOOLEAN,
           BreakPane(s, w, det)
    PROVE  Counted'
<1> DEFINE D   == ses[s]
           at  == AddIndex(D, NoIdx)
           sel == ~det
           T   == [D EXCEPT !.wl[at] = w]
           U   == IF sel THEN SessionSelect(T, at) ELSE T
<1>1. s \in sessions /\ at # NoIdx /\ Publish(s, T, U, Incr(refs, w))
  BY DEF BreakPane
<1>2. D \in SesType /\ Balanced(refs, s, D)
  BY <1>1, BalancedSame DEF Core, StateOK
<1>3. at \in Idx /\ at \notin Linked(D)
  <2> HIDE DEF D
  <2>1. at \in (Idx \ Linked(D)) \cup {NoIdx}
    BY <1>2, AddIndexType
  <2> QED
    BY <1>1, <2>1
<1>4. sel \in BOOLEAN /\ T = [D EXCEPT !.wl[at] = w]
      /\ U = IF sel THEN SessionSelect(T, at) ELSE T
  OBVIOUS
<1> HIDE DEF D, at, T, sel, U
<1> QED
  BY <1>1, <1>2, <1>3, <1>4, LinkCounted DEF Core

\* server_link_window.
LEMMA LinkWindowCounted ==
    ASSUME Core, Counted, NEW src \in SessionId, NEW dst \in SessionId, NEW i \in Idx,
           NEW idx \in Idx \cup {NoIdx}, NEW kill \in BOOLEAN, NEW sel \in BOOLEAN,
           LinkWindow(src, i, dst, idx, kill, sel)
    PROVE  Counted'
<1> DEFINE D   == ses[dst]
           w   == ses[src].wl[i]
           k   == idx \in Linked(D)
           K   == IF k THEN Replace(D, idx) ELSE D
           r   == IF k THEN Decr(refs, D.wl[idx]) ELSE refs
           at  == AddIndex(K, idx)
           T   == [K EXCEPT !.wl[at] = w]
           go  == sel \/ (k /\ D.curw = idx)
           U   == IF go THEN SessionSelect(T, at) ELSE T
<1>1. /\ src \in sessions /\ dst \in sessions /\ i \in Linked(ses[src])
      /\ at # NoIdx
      /\ Publish(dst, T, U, Incr(r, w))
  BY DEF LinkWindow
<1>2. Balanced(r, dst, K) /\ K \in SesType /\ at \in Idx /\ at \notin Linked(K)
  <2>1. k \in BOOLEAN /\ (k => idx \in Linked(ses[dst]))
    OBVIOUS
  <2> HIDE DEF k
  <2>3. Balanced(r, dst, K)
    BY <1>1, <2>1, ReplacedBalanced DEF Core
  <2>4. K \in SesType /\ (at # NoIdx => at \in Idx /\ at \notin Linked(K))
    BY <1>1, <2>1, ReplacedProps
  <2> QED
    BY <1>1, <2>3, <2>4
<1>3. w \in WindowId
  <2>1. ses[src] \in SesType
    BY DEF Core, StateOK
  <2>2. i \in Linked(ses[src])
    BY <1>1
  <2> HIDE DEF w
  <2> QED
    BY <2>1, <2>2 DEF Linked, SesType, w
<1>4. go \in BOOLEAN /\ T = [K EXCEPT !.wl[at] = w]
      /\ U = IF go THEN SessionSelect(T, at) ELSE T
  OBVIOUS
<1> HIDE DEF K, at, go, r, w, T, U
<1> QED
  BY <1>1, <1>2, <1>3, <1>4, LinkCounted DEF Core

(***************************************************************************)
(* swap-window.                                                            *)
(***************************************************************************)
\* A session of swap-window: another window at i, and perhaps another current one.
LEMMA ExchangeLinks ==
    ASSUME NEW S \in SesType, NEW i \in Idx, NEW w \in WindowId, NEW to, NEW det \in BOOLEAN,
           NEW T, T = [S EXCEPT !.wl[i] = w],
           NEW A, A = IF det THEN T ELSE SessionSelect(T, to)
    PROVE  A \in SesType /\ Puts(S, A, i, w) /\ T \in SesType /\ Puts(S, T, i, w)
<1>1. T \in SesType /\ T.wl = [S.wl EXCEPT ![i] = w]
  BY PutType
<1>2. A \in SesType /\ A.wl = T.wl
  BY <1>1, SelectType
<1> QED
  BY <1>1, <1>2 DEF Puts, SesType

\* Within one session every window keeps its number of links.
LEMMA SwapWithin ==
    ASSUME NEW S \in SesType, NEW T \in SesType, NEW A \in SesType,
           NEW i \in Idx, NEW j \in Idx, i # j,
           Puts(S, T, i, S.wl[j]), Puts(T, A, j, S.wl[i]), NEW w
    PROVE  Links(A, w) = Links(S, w)
<1>1. T.wl[j] = S.wl[j]
  BY DEF Puts
<1>2. /\ Links(S, w) \in Nat
      /\ Links(T, w) = (Links(S, w) - One(S.wl[i], w)) + One(S.wl[j], w)
  BY LinksPut
<1>3. Links(A, w) = (Links(T, w) - One(T.wl[j], w)) + One(S.wl[i], w)
  BY LinksPut
<1>4. \A a : One(a, w) \in Nat
  BY DEF One
<1> QED
  BY <1>1, <1>2, <1>3, <1>4

\* Between two, what one loses the other gains.
LEMMA SwapBetween ==
    ASSUME NEW S \in SesType, NEW A \in SesType, NEW i \in Idx,
           NEW T \in SesType, NEW B \in SesType, NEW j \in Idx,
           Puts(S, A, i, T.wl[j]), Puts(T, B, j, S.wl[i]), NEW w
    PROVE  Links(A, w) + Links(B, w) = Links(S, w) + Links(T, w)
<1>1. /\ Links(S, w) \in Nat
      /\ Links(A, w) = (Links(S, w) - One(S.wl[i], w)) + One(T.wl[j], w)
  BY LinksPut
<1>2. /\ Links(T, w) \in Nat
      /\ Links(B, w) = (Links(T, w) - One(T.wl[j], w)) + One(S.wl[i], w)
  BY LinksPut
<1>3. One(S.wl[i], w) \in Nat /\ One(T.wl[j], w) \in Nat
  BY DEF One
<1> QED
  BY <1>1, <1>2, <1>3

\* The links of the live sessions, with two groups set apart.
TwoGroups(f, a, b, w) ==
    LET M == Mates(a)
        N == Mates(b)
        R == sessions \ ((M \cup {a}) \cup (N \cup {b}))
    IN  /\ CountIn(f, sessions, w)
             = ((Links(f[a], w) + CountIn(f, M, w))
                + (Links(f[b], w) + CountIn(f, N, w))) + CountIn(f, R, w)
        /\ Links(f[a], w) \in Nat /\ CountIn(f, M, w) \in Nat
        /\ Links(f[b], w) \in Nat /\ CountIn(f, N, w) \in Nat
        /\ CountIn(f, R, w) \in Nat

\* Two sessions that are not in one group have mates apart.
LEMMA CountTwoGroups ==
    ASSUME StateOK, GroupWellFormed, NEW a \in sessions, NEW b \in sessions,
           a # b, b \notin Mates(a), NEW f, f[a] \in SesType, f[b] \in SesType, NEW w
    PROVE  TwoGroups(f, a, b, w)
<1> DEFINE M == Mates(a)
           N == Mates(b)
           P == M \cup {a}
           Q == N \cup {b}
           R == sessions \ (P \cup Q)
           L == P \cup Q
<1>1. /\ M \subseteq sessions \ {a} /\ N \subseteq sessions \ {b}
      /\ a \notin N /\ b \notin M /\ M \cap N = {}
  <2>1. M \cap N = {}
    <3> SUFFICES ASSUME NEW m \in Mates(a), m \in Mates(b) PROVE FALSE
      OBVIOUS
    <3>1. Group(a) = Group(m) /\ Group(b) = Group(m) /\ b \in Mates(m)
      BY MatesSymmetric
    <3> QED
      BY <3>1 DEF Mates
  <2> QED
    BY <2>1, MatesProps, MatesSymmetric
<1>2. sessions \in SUBSET SessionId /\ a \in SessionId /\ b \in SessionId
  BY DEF StateOK
<1> HIDE DEF M, N
<1>3. /\ M \in SUBSET SessionId /\ N \in SUBSET SessionId
      /\ {a} \in SUBSET SessionId /\ {b} \in SUBSET SessionId
      /\ P \in SUBSET SessionId /\ Q \in SUBSET SessionId /\ R \in SUBSET SessionId
      /\ L \in SUBSET SessionId
      /\ M \cap {a} = {} /\ N \cap {b} = {} /\ P \cap Q = {} /\ L \cap R = {}
      /\ sessions = L \cup R
  BY <1>1, <1>2
<1> HIDE DEF R
<1>4. CountIn(f, P, w) = CountIn(f, M, w) + CountIn(f, {a}, w)
  BY <1>3, CountSplit
<1>5. CountIn(f, Q, w) = CountIn(f, N, w) + CountIn(f, {b}, w)
  BY <1>3, CountSplit
<1> HIDE DEF P, Q
<1>6. CountIn(f, L, w) = CountIn(f, P, w) + CountIn(f, Q, w)
  BY <1>3, CountSplit
<1> HIDE DEF L
<1>7. CountIn(f, sessions, w) = CountIn(f, L, w) + CountIn(f, R, w)
  BY <1>3, CountSplit
<1>8. /\ CountIn(f, {a}, w) = Links(f[a], w) /\ Links(f[a], w) \in Nat
      /\ CountIn(f, {b}, w) = Links(f[b], w) /\ Links(f[b], w) \in Nat
  BY <1>2, CountOne
<1>9. CountIn(f, M, w) \in Nat /\ CountIn(f, N, w) \in Nat /\ CountIn(f, R, w) \in Nat
  BY <1>3, CountFinite
<1>10. CountIn(f, sessions, w)
         = ((Links(f[a], w) + CountIn(f, M, w))
            + (Links(f[b], w) + CountIn(f, N, w))) + CountIn(f, R, w)
  BY <1>4, <1>5, <1>6, <1>7, <1>8, <1>9
<1> QED
  BY <1>8, <1>9, <1>10 DEF M, N, R, P, Q, TwoGroups

\* Two sessions of different groups become A and B.
LEMMA SwapGroupsCounted ==
    ASSUME StateOK, GroupWellFormed, Counted, NEW src \in sessions, NEW dst \in sessions,
           src # dst, dst \notin Mates(src),
           NEW A \in SesType, NEW B \in SesType, Linked(A) # {}, Linked(B) # {},
           \A w : Links(A, w) + Links(B, w) = Links(ses[src], w) + Links(ses[dst], w),
           sessions' = sessions,
           ses' = [t \in SessionId |->
                    CASE t = src -> A
                      [] t = dst -> B
                      [] t \in Mates(src) -> Synced(A, ses[t])
                      [] t \in Mates(dst) \ Mates(src) -> Synced(B, ses[t])
                      [] OTHER -> ses[t]],
           refs' = SyncRefs(SyncRefs(refs, src, A), dst, B)
    PROVE  Counted'
<1> DEFINE M == Mates(src)
           N == Mates(dst)
           R == sessions \ ((M \cup {src}) \cup (N \cup {dst}))
           f == ses'
<1>1. /\ M \subseteq sessions \ {src} /\ N \subseteq sessions \ {dst}
      /\ src \notin N /\ dst \notin M /\ M \cap N = {}
      /\ Cardinality(M) \in Nat /\ Cardinality(N) \in Nat
  <2>1. M \cap N = {}
    <3> SUFFICES ASSUME NEW m \in Mates(src), m \in Mates(dst) PROVE FALSE
      OBVIOUS
    <3>1. Group(src) = Group(m) /\ Group(dst) = Group(m) /\ dst \in Mates(m)
      BY MatesSymmetric
    <3> QED
      BY <3>1 DEF Mates
  <2> QED
    BY <2>1, MatesProps, MatesSymmetric
<1>2. sessions \subseteq SessionId /\ ses \in [SessionId -> SesType]
  BY DEF StateOK
<1>3. \A w \in WindowId :
         refs'[w] = (refs[w] + Cardinality(M) * Links(A, w) - CountIn(ses, M, w))
                    + Cardinality(N) * Links(B, w) - CountIn(ses, N, w)
  <2> DEFINE q == SyncRefs(refs, src, A)
  <2>1. \A w \in WindowId : q[w] = refs[w] + Cardinality(M) * Links(A, w) - CountIn(ses, M, w)
    BY DEF SyncRefs, Links, CountIn, LinkSet, LinkCount
  <2> HIDE DEF q
  <2>2. \A w \in WindowId : SyncRefs(q, dst, B)[w]
                               = q[w] + Cardinality(N) * Links(B, w) - CountIn(ses, N, w)
    BY DEF SyncRefs, Links, CountIn, LinkSet, LinkCount
  <2>3. refs' = SyncRefs(q, dst, B)
    BY DEF q
  <2> QED
    BY <2>1, <2>2, <2>3
<1> HIDE DEF M, N
<1>4. f[src] = A /\ f[dst] = B
  <2>1. src \in SessionId /\ src \notin Mates(src) /\ src \notin Mates(dst)
    BY <1>1, <1>2 DEF M, N
  <2>2. dst \in SessionId /\ dst \notin Mates(src) /\ dst \notin Mates(dst)
    BY <1>1, <1>2 DEF M, N
  <2> QED
    BY <2>1, <2>2
<1>5. \A t \in M : f[t] = Synced(A, ses[t])
  BY <1>1, <1>2 DEF M
<1>6. \A t \in N : f[t] = Synced(B, ses[t])
  <2> SUFFICES ASSUME NEW t \in N PROVE f[t] = Synced(B, ses[t])
    OBVIOUS
  <2>1. t \in SessionId /\ t # src /\ t # dst /\ t \notin Mates(src) /\ t \in Mates(dst)
    BY <1>1, <1>2 DEF M, N
  <2> QED
    BY <2>1
<1>7. \A t \in R : f[t] = ses[t]
  <2> SUFFICES ASSUME NEW t \in R PROVE f[t] = ses[t]
    OBVIOUS
  <2>1. t \in SessionId /\ t # src /\ t # dst /\ t \notin Mates(src) /\ t \notin Mates(dst)
    BY <1>2 DEF M, N
  <2> QED
    BY <2>1
<1>8. SUFFICES ASSUME NEW w \in WindowId PROVE refs'[w] = CountIn(f, sessions, w)
  BY DEF Counted, CountIn, LinkSet
<1> HIDE DEF f
<1>9. \A t \in M : f[t].wl = A.wl
  BY <1>1, <1>2, <1>5, SyncedType
<1>10. \A t \in N : f[t].wl = B.wl
  BY <1>1, <1>2, <1>6, SyncedType
<1>11. M \in SUBSET SessionId /\ N \in SUBSET SessionId
  BY <1>1, <1>2
<1>12. CountIn(f, M, w) = Cardinality(M) * Links(A, w)
  BY <1>9, <1>11, CountSame
<1>13. CountIn(f, N, w) = Cardinality(N) * Links(B, w)
  BY <1>10, <1>11, CountSame
<1>14. CountIn(f, R, w) = CountIn(ses, R, w)
  <2>1. \A t \in R : f[t].wl = ses[t].wl
    BY <1>7
  <2> HIDE DEF R
  <2> QED
    BY <2>1, CountFrame
<1>15. /\ CountIn(f, sessions, w)
            = ((Links(A, w) + CountIn(f, M, w)) + (Links(B, w) + CountIn(f, N, w)))
              + CountIn(f, R, w)
       /\ Links(A, w) \in Nat /\ Links(B, w) \in Nat
       /\ CountIn(f, M, w) \in Nat /\ CountIn(f, N, w) \in Nat
  <2>1. TwoGroups(f, src, dst, w)
    BY <1>4, CountTwoGroups
  <2> QED
    BY <1>4, <2>1 DEF TwoGroups, M, N
<1>16. /\ CountIn(ses, sessions, w)
            = ((Links(ses[src], w) + CountIn(ses, M, w))
               + (Links(ses[dst], w) + CountIn(ses, N, w))) + CountIn(ses, R, w)
       /\ Links(ses[src], w) \in Nat /\ Links(ses[dst], w) \in Nat
       /\ CountIn(ses, M, w) \in Nat /\ CountIn(ses, N, w) \in Nat
       /\ CountIn(ses, R, w) \in Nat
  <2>1. ses[src] \in SesType /\ ses[dst] \in SesType
    BY <1>2
  <2>2. TwoGroups(ses, src, dst, w)
    BY <2>1, CountTwoGroups
  <2> QED
    BY <2>2 DEF TwoGroups, M, N
<1>17. refs[w] = CountIn(ses, sessions, w)
  BY DEF Counted
<1>18. Links(A, w) + Links(B, w) = Links(ses[src], w) + Links(ses[dst], w)
  OBVIOUS
<1>19. refs'[w] = (refs[w] + CountIn(f, M, w) - CountIn(ses, M, w))
                   + CountIn(f, N, w) - CountIn(ses, N, w)
  BY <1>3, <1>12, <1>13
<1> HIDE DEF R
<1> QED
  BY <1>14, <1>15, <1>16, <1>17, <1>18, <1>19

LEMMA SwapCounted ==
    ASSUME Core, Counted, NEW src \in SessionId, NEW dst \in SessionId,
           NEW i \in Idx, NEW j \in Idx, NEW det \in BOOLEAN,
           SwapWindow(src, i, dst, j, det)
    PROVE  Counted'
<1> DEFINE put(S, k, w) == [S EXCEPT !.wl[k] = w]
           to(S, k)     == IF det THEN S ELSE SessionSelect(S, k)
           ws == ses[src].wl[i]
           wd == ses[dst].wl[j]
           A  == IF src = dst
                 THEN to(put(put(ses[src], i, wd), j, ws), j)
                 ELSE to(put(ses[src], i, wd), i)
           B  == IF src = dst THEN A ELSE to(put(ses[dst], j, ws), j)
<1>1. /\ src \in sessions /\ dst \in sessions /\ dst \notin Mates(src)
      /\ i \in Linked(ses[src]) /\ j \in Linked(ses[dst]) /\ ws # wd
      /\ ses' = [t \in SessionId |->
                  CASE t = src -> A
                    [] t = dst -> B
                    [] t \in Mates(src) -> Synced(A, ses[t])
                    [] t \in Mates(dst) \ Mates(src) -> Synced(B, ses[t])
                    [] OTHER -> ses[t]]
      /\ refs' = IF src = dst THEN SyncRefs(refs, src, A)
                 ELSE SyncRefs(SyncRefs(refs, src, A), dst, B)
      /\ died' = IF \/ \E m \in Mates(src) : SyncNull(A, ses[m])
                    \/ \E m \in Mates(dst) : SyncNull(B, ses[m])
                 THEN "null_pointer" ELSE "no"
      /\ UNCHANGED <<sessions, groups, todo>>
  BY DEF SwapWindow
<1>2. ses[src] \in SesType /\ ses[dst] \in SesType /\ refs \in [WindowId -> Int]
  BY DEF Core, StateOK
<1>3. ws \in WindowId /\ wd \in WindowId
  <2>1. \A S \in SesType : \A k \in Linked(S) : S.wl[k] \in WindowId
    BY DEF Linked, SesType
  <2> QED
    BY <1>1, <1>2, <2>1
<1>4. CASE src = dst
  <2> HIDE DEF ws, wd
  <2> DEFINE T == put(ses[src], i, wd)
             N == put(T, j, ws)
             C == to(N, j)
  <2>1. T \in SesType /\ Puts(ses[src], T, i, wd)
    <3>1. T.wl = [ses[src].wl EXCEPT ![i] = wd] /\ T \in SesType
      BY <1>2, <1>3, PutType
    <3> QED
      BY <1>2, <3>1 DEF Puts, SesType
  <2> HIDE DEF T
  <2>2. C \in SesType /\ Puts(T, C, j, ws)
    <3>1. N = [T EXCEPT !.wl[j] = ws] /\ C = IF det THEN N ELSE SessionSelect(N, j)
      OBVIOUS
    <3> HIDE DEF N, C
    <3> QED
      BY <1>3, <2>1, <3>1, ExchangeLinks
  <2>3. A = C /\ B = C
    BY <1>4 DEF T
  <2> HIDE DEF A, B, C
  <2>4. i # j
    BY <1>1, <1>4 DEF ws, wd
  <2>5. \A w : Links(C, w) = Links(ses[src], w)
    BY <1>2, <1>4, <2>1, <2>2, <2>4, SwapWithin DEF ws, wd
  <2>6. Balanced(refs, src, C)
    <3> SUFFICES ASSUME NEW w \in WindowId
                 PROVE  refs[w] = (CountIn(ses, sessions, w) - Links(ses[src], w)) + Links(C, w)
      BY <1>2 DEF Balanced
    <3>1. CountIn(ses, sessions, w) \in Nat /\ Links(ses[src], w) \in Nat
      BY <1>2, CountIsNat DEF Core
    <3>2. refs[w] = CountIn(ses, sessions, w) /\ Links(C, w) = Links(ses[src], w)
      BY <2>5 DEF Counted
    <3> QED
      BY <3>1, <3>2
  <2>7. Publish(src, C, C, refs)
    <3>1. ses' = [t \in SessionId |-> CASE t = src -> C
                                        [] t \in Mates(src) -> Synced(C, ses[t])
                                        [] OTHER -> ses[t]]
      <4>1. ASSUME NEW t \in SessionId
            PROVE  ses'[t] = CASE t = src -> C
                               [] t \in Mates(src) -> Synced(C, ses[t])
                               [] OTHER -> ses[t]
        <5>1. src \notin Mates(src)
          BY DEF Mates
        <5>2. CASE t = src
          BY <1>1, <1>4, <2>3, <5>1, <5>2
        <5>3. CASE t # src /\ t \in Mates(src)
          BY <1>1, <1>4, <2>3, <5>3
        <5>4. CASE t # src /\ t \notin Mates(src)
          BY <1>1, <1>4, <2>3, <5>4
        <5> QED
          BY <5>2, <5>3, <5>4
      <4> QED
        BY <1>1, <4>1
    <3> QED
      BY <1>1, <1>4, <2>3, <3>1 DEF Publish
  <2> QED
    BY <1>1, <2>2, <2>6, <2>7, PublishCounted DEF Core
<1>5. CASE src # dst
  <2> DEFINE M == put(ses[src], i, wd)
             N == put(ses[dst], j, ws)
             C == to(M, i)
             D == to(N, j)
  <2>1. C \in SesType /\ Puts(ses[src], C, i, wd)
    <3>1. M = [ses[src] EXCEPT !.wl[i] = wd] /\ C = IF det THEN M ELSE SessionSelect(M, i)
      OBVIOUS
    <3> HIDE DEF M, C, wd
    <3> QED
      BY <1>2, <1>3, <3>1, ExchangeLinks
  <2>2. D \in SesType /\ Puts(ses[dst], D, j, ws)
    <3>1. N = [ses[dst] EXCEPT !.wl[j] = ws] /\ D = IF det THEN N ELSE SessionSelect(N, j)
      OBVIOUS
    <3> HIDE DEF N, D, ws
    <3> QED
      BY <1>2, <1>3, <3>1, ExchangeLinks
  <2>3. A = C /\ B = D
    BY <1>5
  <2> HIDE DEF A, B, C, D
  <2>4. Linked(C) # {} /\ Linked(D) # {}
    <3>1. C.wl[i] = wd /\ D.wl[j] = ws
      BY <2>1, <2>2 DEF Puts
    <3> HIDE DEF ws, wd
    <3> QED
      BY <1>3, <3>1, WindowAssumption DEF Linked
  <2>5. \A w : Links(C, w) + Links(D, w) = Links(ses[src], w) + Links(ses[dst], w)
    BY <1>2, <2>1, <2>2, SwapBetween
  <2>6. refs' = SyncRefs(SyncRefs(refs, src, C), dst, D)
    BY <1>1, <1>5, <2>3
  <2>7. ses' = [t \in SessionId |->
                 CASE t = src -> C
                   [] t = dst -> D
                   [] t \in Mates(src) -> Synced(C, ses[t])
                   [] t \in Mates(dst) \ Mates(src) -> Synced(D, ses[t])
                   [] OTHER -> ses[t]]
    BY <1>1, <2>3
  <2>8. sessions' = sessions
    BY <1>1
  <2> QED
    BY <1>1, <1>5, <2>1, <2>2, <2>4, <2>5, <2>6, <2>7, <2>8, SwapGroupsCounted DEF Core
<1> QED
  BY <1>4, <1>5

(***************************************************************************)
(* The invariant.                                                          *)
(***************************************************************************)
\* A step of the handler under way.
LEMMA ContinueCounted ==
    ASSUME IInv, Counted, Continue
    PROVE  Counted'
<1> USE DEF IInv
<1>1. CASE ShiftLink
  <2> DEFINE s   == todo.s
             D   == ses[s]
             at  == todo.last
             w   == D.wl[at - 1]
             T   == [D EXCEPT !.wl[at] = w]
             sel == FALSE
             S   == IF sel THEN SessionSelect(T, at) ELSE T
  <2>1. todo.op = "link" /\ at > todo.idx /\ Publish(s, T, S, Incr(refs, w))
    BY <1>1 DEF ShiftLink
  <2>2. /\ s \in sessions /\ todo.idx..(at - 1) \subseteq Linked(D)
        /\ at \notin Linked(D)
    BY <2>1 DEF TodoSound
  <2>3. todo.idx \in Idx /\ at \in Idx
    BY <2>1, TodoProps
  <2>4. at - 1 \in Linked(D) /\ at - 1 \in Idx
    <3>1. at - 1 \in todo.idx..(at - 1) /\ at - 1 \in Idx
      BY <2>1, <2>3, IndexAssumption DEF Idx
    <3> QED
      BY <2>2, <3>1
  <2>5. D \in SesType /\ Balanced(refs, s, D)
    BY <2>2, BalancedSame DEF Core, StateOK
  <2> HIDE DEF s, at
  <2>6. w \in WindowId
    BY <2>4, <2>5 DEF Linked, SesType
  <2>7. sel \in BOOLEAN /\ T = [D EXCEPT !.wl[at] = w]
        /\ S = IF sel THEN SessionSelect(T, at) ELSE T
    OBVIOUS
  <2> HIDE DEF D, w, T, sel, S
  <2> QED
    BY <2>1, <2>2, <2>3, <2>5, <2>6, <2>7, LinkCounted DEF Core
<1>2. CASE ShiftUnlink
  <2>1. todo.op = "shift" /\ DetachWindow(todo.s, todo.last - 1)
    BY <1>2 DEF ShiftUnlink
  <2>2. /\ todo.s \in sessions /\ todo.idx < todo.last
        /\ todo.idx..(todo.last - 1) \subseteq Linked(ses[todo.s])
    BY <2>1 DEF TodoSound
  <2>3. todo.last - 1 \in todo.idx..(todo.last - 1)
    <3>1. todo.idx \in Idx /\ todo.last \in Idx
      BY <2>1, TodoProps
    <3> QED
      BY <2>2, <3>1, IndexAssumption DEF Idx
  <2>4. todo.last - 1 \in Linked(ses[todo.s])
    BY <2>2, <2>3
  <2> QED
    BY <2>1, <2>2, <2>4, DetachCounted DEF Core
<1>3. ASSUME NEW w \in WindowId, ShiftCreate(w)
      PROVE  Counted'
  <2> DEFINE kill == FALSE
  <2>1. todo.op = "link" /\ CreateWindow(todo.s, w, todo.idx, kill, todo.det)
    BY <1>3 DEF ShiftCreate
  <2>2. todo.s \in sessions /\ todo.idx \in Idx /\ todo.det \in BOOLEAN /\ kill \in BOOLEAN
    BY <2>1, TodoProps DEF TodoSound
  <2> HIDE DEF kill
  <2> QED
    BY <2>1, <2>2, CreateCounted
<1>4. CASE MoveUnlink
  <2>1. todo.op = "unlink" /\ DetachWindow(todo.s, todo.i)
    BY <1>4 DEF MoveUnlink
  <2>2. todo.s \in sessions /\ todo.i \in Linked(ses[todo.s])
    BY <2>1 DEF TodoSound
  <2> QED
    BY <2>1, <2>2, DetachCounted DEF Core
<1>5. ASSUME NEW s \in SessionId, KillVisit(s)
      PROVE  Counted'
  <2> DEFINE L == LinksTo(ses[s], todo.w)
  <2>1. todo.op = "kill" /\ s \in todo.left
    BY <1>5 DEF KillVisit
  <2>2. s \in sessions /\ todo.w \in WindowId
    BY <2>1, TodoProps DEF TodoSound
  <2>3. CASE L = {}
    <3>1. UNCHANGED <<sessions, ses, groups, refs, died>>
      BY <1>5, <2>3 DEF KillVisit
    <3> QED
      BY <3>1, SameCounted
  <2>4. CASE L # {}
    <3>1. DetachWindow(s, Min(L))
      BY <1>5, <2>4 DEF KillVisit
    <3>2. L \in SUBSET Nat /\ L \subseteq Linked(ses[s])
      BY <2>2, WindowAssumption DEF LinksTo, Linked, Idx
    <3> HIDE DEF L
    <3>3. Min(L) \in L
      BY <2>4, <3>2, MinProps
    <3> QED
      BY <2>2, <3>1, <3>2, <3>3, DetachCounted DEF Core
  <2> QED
    BY <2>3, <2>4
<1>6. CASE KillReturn
  <2>1. UNCHANGED <<sessions, ses, groups, refs, died>>
    BY <1>6 DEF KillReturn
  <2> QED
    BY <2>1, SameCounted
<1> QED
  BY <1>1, <1>2, <1>3, <1>4, <1>5, <1>6 DEF Continue

\* A command.
LEMMA CommandCounted ==
    ASSUME IInv, Counted, SessionCommand \/ SelectCommand \/ WindowCommand, died' = "no"
    PROVE  Counted'
<1> USE DEF IInv
<1>1. CASE SessionCommand
  BY <1>1, NewSessionCounted, NewGroupedCounted, KillSessionCounted
  DEF SessionCommand, Core
<1>2. CASE SelectCommand
  <2>1. \A s \in SessionId : ses[s] \in SesType
    BY DEF Core, StateOK
  <2>2. ASSUME NEW s \in SessionId, NEW i \in Idx, SelectWindow(s, i)
        PROVE  Counted'
    BY <2>1, <2>2, SelectType, MoveToCounted DEF SelectWindow, Core
  <2>3. ASSUME NEW s \in SessionId, NEW a \in BOOLEAN, NextWindow(s, a)
        PROVE  Counted'
    BY <2>1, <2>3, StepType, MoveToCounted DEF NextWindow, Core
  <2>4. ASSUME NEW s \in SessionId, NEW a \in BOOLEAN, PreviousWindow(s, a)
        PROVE  Counted'
    BY <2>1, <2>4, StepType, MoveToCounted DEF PreviousWindow, Core
  <2>5. ASSUME NEW s \in SessionId, LastWindow(s)
        PROVE  Counted'
    BY <2>1, <2>5, StepType, MoveToCounted DEF LastWindow, Core
  <2>6. ASSUME NEW w \in WindowId, Alert(w)
        PROVE  Counted'
    BY <2>6, AlertCounted DEF Core
  <2> QED
    BY <1>2, <2>2, <2>3, <2>4, <2>5, <2>6 DEF SelectCommand
<1>3. CASE WindowCommand
  <2>1. ASSUME NEW s \in SessionId, NEW w \in WindowId, NEW idx \in Idx \cup {NoIdx},
               NEW kill \in BOOLEAN, NEW det \in BOOLEAN, NewWindow(s, w, idx, kill, det)
        PROVE  Counted'
    BY <2>1, CreateCounted DEF NewWindow
  <2>2. ASSUME NEW s \in SessionId, NEW i \in Idx, NEW det \in BOOLEAN,
               NewWindowAfter(s, i, det)
        PROVE  Counted'
    <3>1. sessions' = sessions /\ refs' = refs /\ ses' = ses
      BY <2>2 DEF NewWindowAfter
    <3> QED
      BY <3>1, SameCounted
  <2>3. ASSUME NEW s \in SessionId, NEW w \in WindowId, NEW det \in BOOLEAN,
               BreakPane(s, w, det)
        PROVE  Counted'
    BY <2>3, BreakPaneCounted
  <2>4. ASSUME NEW src \in SessionId, NEW dst \in SessionId, NEW i \in Idx,
               NEW idx \in Idx \cup {NoIdx}, NEW kill \in BOOLEAN, NEW sel \in BOOLEAN,
               LinkWindow(src, i, dst, idx, kill, sel)
        PROVE  Counted'
    BY <2>4, LinkWindowCounted
  <2>5. ASSUME NEW src \in SessionId, NEW dst \in SessionId, NEW i \in Idx, NEW j \in Idx,
               NEW det \in BOOLEAN, SwapWindow(src, i, dst, j, det)
        PROVE  Counted'
    BY <2>5, SwapCounted
  <2>6. ASSUME NEW s \in SessionId, NEW i \in Idx, NEW kill \in BOOLEAN,
               UnlinkWindow(s, i, kill)
        PROVE  Counted'
    BY <2>6, DetachCounted DEF UnlinkWindow, Core
  <2>7. ASSUME NEW w \in WindowId, KillWindow(w)
        PROVE  Counted'
    <3>1. sessions' = sessions /\ refs' = refs /\ ses' = ses
      BY <2>7 DEF KillWindow
    <3> QED
      BY <3>1, SameCounted
  <2>8. ASSUME NEW src \in SessionId, NEW dst \in SessionId, NEW i \in Idx,
               NEW idx \in Idx \cup {NoIdx}, NEW kill \in BOOLEAN, NEW sel \in BOOLEAN,
               LinkWindowOnly(src, i, dst, idx, kill, sel)
        PROVE  Counted'
    BY <2>4, <2>8 DEF LinkWindowOnly
  <2>9. ASSUME NEW src \in SessionId, NEW dst \in SessionId, NEW i \in Idx,
               NEW idx \in Idx \cup {NoIdx}, NEW kill \in BOOLEAN, NEW sel \in BOOLEAN,
               MoveWindow(src, i, dst, idx, kill, sel)
        PROVE  Counted'
    BY <2>4, <2>9 DEF MoveWindow
  <2> QED
    <3>1. CASE \E s \in SessionId, w \in WindowId, idx \in Idx \cup {NoIdx},
               kill, det \in BOOLEAN : NewWindow(s, w, idx, kill, det)
      BY <2>1, <3>1
    <3>2. CASE \E s \in SessionId, i \in Idx, det \in BOOLEAN : NewWindowAfter(s, i, det)
      BY <2>2, <3>2
    <3>3. CASE \E s \in SessionId, w \in WindowId, det \in BOOLEAN : BreakPane(s, w, det)
      BY <2>3, <3>3
    <3>4. CASE \E src, dst \in SessionId, i \in Idx, idx \in Idx \cup {NoIdx},
               kill, sel \in BOOLEAN : LinkWindowOnly(src, i, dst, idx, kill, sel)
      BY <2>8, <3>4
    <3>5. CASE \E src, dst \in SessionId, i \in Idx, idx \in Idx \cup {NoIdx},
               kill, sel \in BOOLEAN : MoveWindow(src, i, dst, idx, kill, sel)
      BY <2>9, <3>5
    <3>6. CASE \E src, dst \in SessionId, i, j \in Idx, det \in BOOLEAN :
               SwapWindow(src, i, dst, j, det)
      BY <2>5, <3>6
    <3>7. CASE \E s \in SessionId, i \in Idx, kill \in BOOLEAN : UnlinkWindow(s, i, kill)
      BY <2>6, <3>7
    <3>8. CASE \E w \in WindowId : KillWindow(w)
      BY <2>7, <3>8
    <3> QED
      BY <1>3, <3>1, <3>2, <3>3, <3>4, <3>5, <3>6, <3>7, <3>8 DEF WindowCommand
<1> QED
  BY <1>1, <1>2, <1>3

\* Nothing runs when the server has died.
LEMMA DiedStays ==
    ASSUME died # "no", [Next]_vars
    PROVE  UNCHANGED vars
<1>1. ~Continue
  BY DEF Continue, ShiftLink, ShiftUnlink, ShiftCreate, MoveUnlink, KillVisit, KillReturn
<1>2. ~SessionCommand
  BY DEF SessionCommand, NewSession, NewGroupedSession, KillSession, Ready
<1>3. ~SelectCommand
  BY DEF SelectCommand, SelectWindow, NextWindow, PreviousWindow, LastWindow, MoveTo,
         Alert, Ready
<1>4. ~WindowCommand
  <2>1. \A s, w, idx, kill, det : ~NewWindow(s, w, idx, kill, det)
    BY DEF NewWindow, Ready
  <2>2. \A s, i, det : ~NewWindowAfter(s, i, det)
    BY DEF NewWindowAfter, Ready
  <2>3. \A s, w, det : ~BreakPane(s, w, det)
    BY DEF BreakPane, Ready
  <2>4. \A src, i, dst, idx, kill, sel : ~LinkWindow(src, i, dst, idx, kill, sel)
    BY DEF LinkWindow, Ready
  <2>5. \A src, i, dst, j, det : ~SwapWindow(src, i, dst, j, det)
    BY SMTT(30) DEF SwapWindow, Ready
  <2>6. \A s, i, kill : ~UnlinkWindow(s, i, kill)
    BY DEF UnlinkWindow, Ready
  <2>7. \A w : ~KillWindow(w)
    BY DEF KillWindow, Ready
  <2> QED
    BY <2>1, <2>2, <2>3, <2>4, <2>5, <2>6, <2>7
    DEF WindowCommand, LinkWindowOnly, MoveWindow
<1> QED
  BY <1>1, <1>2, <1>3, <1>4 DEF Next

LEMMA RefCountNext ==
    ASSUME IInv, RefCount, [Next]_vars
    PROVE  RefCount'
<1>1. /\ RefCount <=> (died = "no" => Counted)
      /\ RefCount' <=> (died' = "no" => Counted')
  BY DEF RefCount, Counted, CountIn, LinkSet, LinkCount
<1>2. CASE UNCHANGED vars
  BY <1>2 DEF vars, RefCount, LinkCount
<1>3. CASE died # "no"
  BY <1>2, <1>3, DiedStays
<1>4. CASE died = "no" /\ Next
  BY <1>1, <1>4, ContinueCounted, CommandCounted DEF Next
<1> QED
  BY <1>2, <1>3, <1>4

\* As long as the server lives every window's reference count is the number of
\* winlinks that point to it, after every command and between the steps of
\* those that take several, and whether or not forks fail.
THEOREM RefCountIsRight == Spec => []RefCount
<1>1. Init => RefCount
  <2> SUFFICES ASSUME Init, NEW w \in WindowId PROVE refs[w] = LinkCount(sessions, w)
    BY DEF RefCount
  <2> DEFINE P == {x \in sessions \X Idx : ses[x[1]].wl[x[2]] = w}
  <2>1. P = {}
    BY DEF Init
  <2>2. Cardinality(P) = 0
    BY <2>1, FS_EmptySet
  <2> QED
    BY <2>2 DEF LinkCount, Init
<1>2. IInv /\ RefCount /\ [Next]_vars => RefCount'
  BY RefCountNext
<1> QED
  BY <1>1, <1>2, Invariance, PTL DEF Spec

(***************************************************************************)
(* The end of kill-window.                                                 *)
(***************************************************************************)
\* The sessions server_kill_window has visited have no link to the window left.
Visited ==
    todo.op = "kill" =>
       \A s \in sessions \ todo.left : LinksTo(ses[s], todo.w) = {}

\* A visit takes a link of one session and its group, who share the window: as
\* long as one of them has it, none of them has been visited.
LEMMA VisitKeeps ==
    ASSUME IInv, ~ForkMayFail, Visited, NEW s \in SessionId, KillVisit(s)
    PROVE  Visited'
<1> USE DEF IInv
<1> DEFINE w == todo.w
           i == Min(LinksTo(ses[s], w))
           T == Detach(ses[s], i)
           r == Decr(refs, ses[s].wl[i])
           done == LinksTo(T, w) = {}
<1>1. /\ todo.op = "kill" /\ s \in todo.left /\ s \in sessions
      /\ w \in WindowId /\ todo = Kill(w, todo.left)
  <2>1. todo.op = "kill" /\ s \in todo.left
    BY DEF KillVisit
  <2> QED
    BY <2>1, TodoProps DEF TodoSound
<1>2. ASSUME NEW left, todo' = [todo EXCEPT !.left = left],
             \A t \in sessions' \ left : LinksTo(ses'[t], w) = {}
      PROVE  Visited'
  <2>1. todo'.left = left /\ todo'.w = w
    BY <1>1, <1>2 DEF Kill
  <2> HIDE DEF w
  <2> QED
    BY <1>2, <2>1 DEF Visited
<1>3. CASE LinksTo(ses[s], w) = {}
  <2>1. todo' = [todo EXCEPT !.left = todo.left \ {s}] /\ sessions' = sessions /\ ses' = ses
    BY <1>3 DEF KillVisit
  <2>2. \A t \in sessions \ (todo.left \ {s}) : LinksTo(ses[t], w) = {}
    BY <1>1, <1>3 DEF Visited
  <2> HIDE DEF w
  <2> QED
    BY <1>2, <2>1, <2>2
<1>4. CASE LinksTo(ses[s], w) # {}
  <2> DEFINE left == IF done THEN todo.left \ {s} ELSE todo.left
  <2>1. DetachWindow(s, i) /\ todo' = [todo EXCEPT !.left = left]
    BY <1>4 DEF KillVisit
  <2>2. ses[s] \in SesType /\ sessions \subseteq SessionId
    BY <1>1 DEF Core, StateOK
  <2>3. i \in LinksTo(ses[s], w)
    <3> DEFINE L == LinksTo(ses[s], w)
    <3>1. L \in SUBSET Nat /\ L # {}
      BY <1>4 DEF LinksTo, Idx
    <3> HIDE DEF L
    <3>2. Min(L) \in L
      BY <3>1, MinProps
    <3> QED
      BY <3>2 DEF L
  <2> HIDE DEF i
  <2>4. i \in Idx /\ T \in SesType
    <3>1. i \in Idx
      BY <2>3 DEF LinksTo
    <3> QED
      BY <2>2, <3>1, DetachType
  <2>5. IF Linked(T) = {} THEN Destroy(s, r) ELSE Publish(s, T, T, r)
    BY <2>1 DEF DetachWindow
  <2> HIDE DEF T, r
  <2>6. Linked(T) = {} => done
    BY <1>1, WindowAssumption DEF Linked, LinksTo
  <2>7. \A t \in sessions' \ left : LinksTo(ses'[t], w) = {}
    <3> HIDE DEF w
    <3>1. CASE Linked(T) = {}
      <4>1. sessions' = sessions \ {s} /\ \A t \in sessions' : ses'[t] = ses[t]
        BY <2>5, <3>1 DEF Destroy, Core, StateOK
      <4>2. \A t \in sessions \ todo.left : LinksTo(ses[t], w) = {}
        BY <1>1 DEF Visited, w
      <4> QED
        BY <2>6, <3>1, <4>1, <4>2
    <3>2. CASE Linked(T) # {}
      <4>1. /\ sessions' = sessions
            /\ \A t \in SessionId : ses'[t] = CASE t = s -> T
                                               [] t \in Mates(s) -> Synced(T, ses[t])
                                               [] OTHER -> ses[t]
            /\ s \notin Mates(s)
        BY <2>5, <3>2 DEF Publish, Mates
      <4> SUFFICES ASSUME NEW t \in sessions, t \notin left PROVE LinksTo(ses'[t], w) = {}
        BY <4>1
      <4>0. ses[t] \in SesType /\ t \in SessionId
        BY <2>2 DEF Core, StateOK
      <4>2. CASE t = s
        <5>1. done /\ ses'[t] = T
          BY <1>1, <4>0, <4>1, <4>2
        <5> QED
          BY <5>1
      <4>3. CASE t \in Mates(s)
        <5>1. ses[t].wl = ses[s].wl
          <6>1. PICK g \in groups : s \in g /\ t \in g
            BY <4>3, MatesProps DEF Core
          <6> QED
            BY <6>1 DEF Core, GroupShare
        <5>2. t \in todo.left
          <6>1. LinksTo(ses[t], w) # {}
            BY <1>4, <5>1 DEF LinksTo, w
          <6> QED
            BY <1>1, <6>1 DEF Visited, w
        <5>3. t # s
          BY <4>1, <4>3
        <5> QED
          BY <5>2, <5>3
      <4>4. CASE t # s /\ t \notin Mates(s)
        <5>1. ses'[t] = ses[t]
          BY <4>0, <4>1, <4>4
        <5>2. t \notin todo.left
          BY <4>4
        <5> QED
          BY <1>1, <5>1, <5>2 DEF Visited, w
      <4> QED
        BY <4>2, <4>3, <4>4
    <3> QED
      BY <3>1, <3>2
  <2> HIDE DEF left, w
  <2> QED
    BY <1>2, <2>1, <2>7
<1> QED
  BY <1>3, <1>4

\* Which step begins and which ends kill-window.
LEMMA KillSteps ==
    ASSUME IInv, [Next]_vars
    PROVE  \/ UNCHANGED vars
           \/ KillReturn
           \/ \E s \in SessionId : KillVisit(s)
           \/ \E w \in WindowId : KillWindow(w)
           \/ todo.op # "kill" /\ todo'.op # "kill"
<1> USE DEF IInv
<1>1. todo = Idle => todo.op # "kill"
  BY DEF Idle
<1>2. CASE Continue
  <2>1. CASE ShiftLink \/ ShiftUnlink
    <3>1. /\ todo.op \in {"link", "shift"}
          /\ \/ todo' = [todo EXCEPT !.op = "shift"]
             \/ todo' = [todo EXCEPT !.op = "link", !.last = @ - 1]
      BY <2>1 DEF ShiftLink, ShiftUnlink
    <3>2. todo = Shift(todo.op, todo.s, todo.idx, todo.last, todo.det)
      BY <3>1, TodoProps
    <3>3. todo'.op # "kill"
      BY <3>1, <3>2 DEF Shift
    <3> QED
      BY <3>1, <3>3
  <2>2. CASE (\E w \in WindowId : ShiftCreate(w)) \/ MoveUnlink
    <3>1. todo.op # "kill" /\ todo' = Idle
      BY <2>2 DEF ShiftCreate, MoveUnlink
    <3> QED
      BY <3>1 DEF Idle
  <2> QED
    BY <1>2, <2>1, <2>2 DEF Continue
<1>3. ASSUME Ready,
             \/ UNCHANGED todo
             \/ \E s, i : todo' = UnlinkAt(s, i)
             \/ \E s, idx, last, det : todo' = Shift("link", s, idx, last, det)
      PROVE  todo.op # "kill" /\ todo'.op # "kill"
  BY <1>1, <1>3 DEF Ready, UnlinkAt, Shift
<1>4. CASE SessionCommand
  <2>1. Ready /\ UNCHANGED todo
    BY <1>4 DEF SessionCommand, NewSession, NewGroupedSession, KillSession
  <2> QED
    BY <1>3, <2>1
<1>5. CASE SelectCommand
  <2>1. Ready /\ UNCHANGED todo
    BY <1>5 DEF SelectCommand, SelectWindow, NextWindow, PreviousWindow, LastWindow, MoveTo,
                Alert
  <2> QED
    BY <1>3, <2>1
<1>6. CASE WindowCommand
  <2>1. ASSUME NEW s, NEW w, NEW idx, NEW kill, NEW det, NewWindow(s, w, idx, kill, det)
        PROVE  Ready /\ UNCHANGED todo
    BY <2>1 DEF NewWindow
  <2>2. ASSUME NEW s, NEW i, NEW det, NewWindowAfter(s, i, det)
        PROVE  Ready /\ (UNCHANGED todo \/ \E idx, last : todo' = Shift("link", s, idx, last, det))
    BY <2>2 DEF NewWindowAfter
  <2>3. ASSUME NEW s, NEW w, NEW det, BreakPane(s, w, det)
        PROVE  Ready /\ UNCHANGED todo
    BY <2>3 DEF BreakPane
  <2>4. ASSUME NEW src, NEW i, NEW dst, NEW idx, NEW kill, NEW sel,
               LinkWindow(src, i, dst, idx, kill, sel)
        PROVE  Ready
    BY <2>4 DEF LinkWindow
  <2>5. ASSUME NEW src, NEW i, NEW dst, NEW j, NEW det, SwapWindow(src, i, dst, j, det)
        PROVE  Ready /\ UNCHANGED todo
    BY <2>5 DEF SwapWindow
  <2>6. ASSUME NEW s, NEW i, NEW kill, UnlinkWindow(s, i, kill)
        PROVE  Ready /\ UNCHANGED todo
    BY <2>6 DEF UnlinkWindow
  <2>7. ASSUME NEW src, NEW i, NEW dst, NEW idx, NEW kill, NEW sel
        PROVE  /\ LinkWindowOnly(src, i, dst, idx, kill, sel) => Ready /\ UNCHANGED todo
               /\ MoveWindow(src, i, dst, idx, kill, sel) => Ready /\ todo' = UnlinkAt(src, i)
    BY <2>4 DEF LinkWindowOnly, MoveWindow
  <2>8. \/ \E w \in WindowId : KillWindow(w)
        \/ /\ Ready
           /\ \/ UNCHANGED todo
              \/ \E s, i : todo' = UnlinkAt(s, i)
              \/ \E s, idx, last, det : todo' = Shift("link", s, idx, last, det)
    BY <1>6, <2>1, <2>2, <2>3, <2>5, <2>6, <2>7 DEF WindowCommand
  <2> QED
    BY <1>3, <2>8
<1> QED
  BY <1>2, <1>4, <1>5, <1>6 DEF Next, Continue

LEMMA VisitedNext ==
    ASSUME IInv, ~ForkMayFail, Visited, [Next]_vars
    PROVE  Visited'
<1>1. CASE UNCHANGED vars
  BY <1>1 DEF vars, Visited, LinksTo
<1>2. CASE KillReturn
  <2>1. todo'.op # "kill"
    BY <1>2 DEF KillReturn, Idle
  <2> QED
    BY <2>1 DEF Visited
<1>3. ASSUME NEW s \in SessionId, KillVisit(s) PROVE Visited'
  BY <1>3, VisitKeeps
<1>4. ASSUME NEW w \in WindowId, KillWindow(w) PROVE Visited'
  <2>1. sessions' = sessions /\ todo'.left = sessions
    BY <1>4 DEF KillWindow, Kill
  <2> QED
    BY <2>1 DEF Visited
<1>5. CASE todo'.op # "kill"
  BY <1>5 DEF Visited
<1> QED
  BY <1>1, <1>2, <1>3, <1>4, <1>5, KillSteps

Freed == todo.op = "kill" /\ todo' = Idle => refs'[todo.w] = 0

LEMMA ReturnFreed ==
    ASSUME IInv, RefCount, Visited, [Next]_vars
    PROVE  Freed
<1> SUFFICES ASSUME todo.op = "kill", todo' = Idle PROVE refs'[todo.w] = 0
  BY DEF Freed
<1>1. todo.w \in WindowId /\ todo = Kill(todo.w, todo.left)
  BY TodoProps DEF IInv
<1>2. todo # Idle
  BY DEF Idle
<1>3. ASSUME NEW s \in SessionId, KillVisit(s) PROVE FALSE
  <2>1. \E left : todo' = [todo EXCEPT !.left = left]
    BY <1>3 DEF KillVisit
  <2>2. todo'.op = "kill"
    BY <1>1, <2>1 DEF Kill
  <2> QED
    BY <2>2 DEF Idle
<1>4. ASSUME NEW w \in WindowId, KillWindow(w) PROVE FALSE
  BY <1>2, <1>4 DEF KillWindow, Ready
<1>5. KillReturn
  BY <1>2, <1>3, <1>4, KillSteps DEF vars
<1>6. died = "no" /\ todo.left = {} /\ refs' = refs
  BY <1>5 DEF KillReturn
<1>7. \A s \in sessions : LinksTo(ses[s], todo.w) = {}
  BY <1>6 DEF Visited
<1> DEFINE P == {x \in sessions \X Idx : ses[x[1]].wl[x[2]] = todo.w}
<1>8. P = {}
  BY <1>7 DEF LinksTo
<1>9. Cardinality(P) = 0
  BY <1>8, FS_EmptySet
<1>10. refs[todo.w] = LinkCount(sessions, todo.w)
  BY <1>1, <1>6 DEF RefCount
<1> QED
  BY <1>6, <1>9, <1>10 DEF LinkCount

\* When server_kill_window returns no session has the window and it was freed,
\* wherever it was linked, as long as window_create does not fail: that can leave
\* the sessions of a group with different windows, and a visit then link the
\* window again where it was unlinked.
THEOREM KillFrees == ASSUME ~ForkMayFail PROVE Spec => KillDone
<1>1. Init => Visited
  BY DEF Init, Visited, Idle
<1>2. IInv /\ Visited /\ [Next]_vars => Visited'
  BY VisitedNext
<1>3. Spec => []Visited
  BY <1>1, <1>2, Invariance, PTL DEF Spec
<1>4. IInv /\ RefCount /\ Visited /\ [Next]_vars => [Freed]_vars
  BY ReturnFreed
<1>5. Spec => [][Freed]_vars
  BY <1>3, <1>4, Invariance, RefCountIsRight, PTL DEF Spec
<1> QED
  BY <1>5 DEF KillDone, Freed

=============================================================================
