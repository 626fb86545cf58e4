---------------------------- MODULE PanesProofs ----------------------------
(***************************************************************************)
(* That every pane is in one window, and that the active and the last pane *)
(* of a window are two of its panes, for any number of windows and panes,  *)
(* unless a command leaves the last pane behind.                           *)
(***************************************************************************)
EXTENDS Panes, SequenceLemmas

\* A window, but for what is hidden, which a command may leave to its new layout.
Shape(W) ==
    /\ W \in WinType
    /\ IsInjective(W.panes)
    /\ W.panes # <<>> => W.active \in ToSet(W.panes)
    /\ W.last # NoPane => W.last \in ToSet(W.panes) \ {W.active}

Own(W) == Shape(W) /\ W.hid \subseteq DOMAIN W.panes

\* The inductive invariant.
IInv ==
    /\ win \in [WindowId -> WinType]
    /\ \A w \in WindowId : Own(win[w])
    /\ \A w \in WindowId, p \in PaneId : p \in In(w) <=> window[p] = w
    /\ window \in [PaneId -> WindowId \cup {NoWindow}]
    /\ dead \subseteq PaneId
    /\ died \in {"no", "null_pointer", "freed_layout"}

(***************************************************************************)
(* The operators on one window.                                            *)
(***************************************************************************)
\* The elements of a sequence, by their places.
LEMMA Places ==
    ASSUME NEW S, NEW q \in Seq(S)
    PROVE  /\ Len(q) \in Nat /\ DOMAIN q = 1..Len(q)
           /\ ToSet(q) \subseteq S
           /\ \A i \in 1..Len(q) : q[i] \in ToSet(q) /\ q[i] \in S
           /\ (q = <<>>) <=> (ToSet(q) = {})
           /\ (q = <<>>) <=> (Len(q) = 0)
<1> DEFINE n == Len(q)
<1>1. n \in Nat /\ DOMAIN q = 1..n /\ \A i \in 1..n : q[i] \in S
  BY LenProperties, ElementOfSeq
<1>2. (q = <<>>) <=> (n = 0)
  BY EmptySeq
<1> HIDE DEF n
<1>3. n # 0 => 1 \in 1..n
  BY <1>1
<1>4. n = 0 => 1..n = {}
  BY <1>1
<1>5. ToSet(q) \subseteq S /\ \A i \in 1..n : q[i] \in ToSet(q)
  BY <1>1 DEF ToSet
<1>6. (n = 0) <=> (ToSet(q) = {})
  BY <1>1, <1>3, <1>4 DEF ToSet
<1> QED
  BY <1>1, <1>2, <1>5, <1>6 DEF n

\* A window that is not there.
LEMMA NoPanesOwn == Own(NoPanes) /\ ToSet(NoPanes.panes) = {} /\ NoPanes.panes = <<>>
<1>1. /\ NoPanes.panes = <<>> /\ NoPanes.last = NoPane /\ NoPanes.hid = {}
      /\ NoPanes = [panes |-> <<>>, active |-> NoPane, last |-> NoPane, hid |-> {}]
  BY DEF NoPanes
<1>2. <<>> \in Seq(PaneId) /\ DOMAIN <<>> = {}
  OBVIOUS
<1>3. ToSet(<<>>) = {} /\ IsInjective(<<>>)
  BY <1>2 DEF ToSet, IsInjective
<1>4. NoPanes \in WinType
  BY <1>1, <1>2 DEF WinType
<1> QED
  BY <1>1, <1>2, <1>3, <1>4 DEF Own, Shape

\* And one with one pane.
LEMMA SingleOwn ==
    ASSUME NEW p \in PaneId
    PROVE  Own(Single(p)) /\ ToSet(Single(p).panes) = {p}
<1> DEFINE q == <<p>>
<1>1. q \in Seq(PaneId) /\ IsInjective(q) /\ ToSet(q) = {p}
  BY OneProps
<1>2. Single(p) = [NoPanes EXCEPT !.panes = q, !.active = p]
  BY DEF Single
<1> HIDE DEF q
<1>3. NoPanes \in WinType /\ NoPanes.last = NoPane /\ NoPanes.hid = {}
  BY NoPanesOwn DEF Own, Shape, NoPanes
<1>4. /\ Single(p) \in WinType /\ Single(p).panes = q /\ Single(p).active = p
      /\ Single(p).last = NoPane /\ Single(p).hid = {}
  BY <1>1, <1>2, <1>3 DEF WinType
<1> QED
  BY <1>1, <1>4 DEF Own, Shape

\* A new layout changes only what is hidden.
LEMMA LaidOutOwn ==
    ASSUME NEW W, Shape(W), NEW L \in LaidOut(W)
    PROVE  Own(L) /\ L.panes = W.panes /\ L.active = W.active /\ L.last = W.last
<1>1. DOMAIN W.panes \subseteq Nat
  BY Places DEF Shape, WinType
<1>2. PICK h \in SUBSET (DOMAIN W.panes) : L = [W EXCEPT !.hid = h]
  BY DEF LaidOut
<1>3. /\ L \in WinType /\ L.panes = W.panes /\ L.active = W.active /\ L.last = W.last
      /\ L.hid = h
  BY <1>1, <1>2 DEF Shape, WinType
<1> QED
  BY <1>3 DEF Own, Shape

\* The place of a pane.
LEMMA AtProps ==
    ASSUME NEW S, NEW q \in Seq(S), NEW p \in ToSet(q)
    PROVE  At(q, p) \in 1..Len(q) /\ q[At(q, p)] = p
<1>1. DOMAIN q = 1..Len(q)
  BY Places
<1>2. \E k \in DOMAIN q : q[k] = p
  BY DEF ToSet
<1> QED
  BY <1>1, <1>2 DEF At

\* The neighbours of a pane are other panes, and one of two panes or more has one.
LEMMA BesideProps ==
    ASSUME NEW q \in Seq(PaneId), IsInjective(q), NEW p \in ToSet(q)
    PROVE  /\ Before(q, p) \in (ToSet(q) \ {p}) \cup {NoPane}
           /\ After(q, p) \in (ToSet(q) \ {p}) \cup {NoPane}
           /\ Len(q) > 1 => Or(Before(q, p), After(q, p)) \in ToSet(q) \ {p}
           /\ Or(Before(q, p), Last(q)) \in ToSet(q)
           /\ Or(After(q, p), Head(q)) \in ToSet(q)
<1> DEFINE n == Len(q)
           k == At(q, p)
<1>1. /\ n \in Nat /\ DOMAIN q = 1..n /\ ToSet(q) \subseteq PaneId
      /\ \A i \in 1..n : q[i] \in ToSet(q)
  BY Places
<1>2. k \in 1..n /\ q[k] = p
  BY AtProps
<1>3. Before(q, p) = IF k = 1 THEN NoPane ELSE q[k - 1]
  BY DEF Before
<1>4. After(q, p) = IF k = n THEN NoPane ELSE q[k + 1]
  BY DEF After
<1>5. Head(q) = q[1] /\ Last(q) = q[n]
  BY <1>1, <1>2 DEF Last
<1> HIDE DEF n, k
<1>6. 1 \in 1..n /\ n \in 1..n
  BY <1>1, <1>2
<1>7. \A i \in 1..n : q[i] # p \/ i = k
  BY <1>1, <1>2 DEF IsInjective
<1>8. k # 1 => k - 1 \in 1..n /\ k - 1 # k
  BY <1>1, <1>2
<1>9. k # n => k + 1 \in 1..n /\ k + 1 # k
  BY <1>1, <1>2
<1>10. Before(q, p) \in (ToSet(q) \ {p}) \cup {NoPane} /\ (Before(q, p) = NoPane => k = 1)
  BY <1>1, <1>3, <1>7, <1>8, NoneAssumption
<1>11. After(q, p) \in (ToSet(q) \ {p}) \cup {NoPane} /\ (After(q, p) = NoPane => k = n)
  BY <1>1, <1>4, <1>7, <1>9, NoneAssumption
<1>12. n > 1 => Or(Before(q, p), After(q, p)) \in ToSet(q) \ {p}
  BY <1>1, <1>2, <1>10, <1>11, NoneAssumption DEF Or
<1>13. Or(Before(q, p), Last(q)) \in ToSet(q) /\ Or(After(q, p), Head(q)) \in ToSet(q)
  BY <1>1, <1>5, <1>6, <1>10, <1>11 DEF Or
<1> QED
  BY <1>10, <1>11, <1>12, <1>13 DEF n

\* window_remove_pane leaves a window.
LEMMA RemovePaneShape ==
    ASSUME NEW W, Shape(W), NEW p \in ToSet(W.panes), Len(W.panes) > 1
    PROVE  /\ Shape(RemovePane(W, p))
           /\ ToSet(RemovePane(W, p).panes) = ToSet(W.panes) \ {p}
           /\ Len(RemovePane(W, p).panes) = Len(W.panes) - 1
           /\ p # W.active
                 => /\ RemovePane(W, p).active = W.active
                    /\ RemovePane(W, p).last = IF W.last = p THEN NoPane ELSE W.last
           /\ p = W.active /\ W.last # NoPane => RemovePane(W, p).active = W.last
<1> DEFINE q == RemoveFirst(W.panes, p)
           beside == Or(Before(W.panes, p), After(W.panes, p))
           R == RemovePane(W, p)
<1>1. W \in WinType /\ W.panes \in Seq(PaneId) /\ IsInjective(W.panes)
  BY DEF Shape, WinType
<1>2. /\ q \in Seq(PaneId) /\ IsInjective(q) /\ ToSet(q) = ToSet(W.panes) \ {p}
      /\ Len(q) = Len(W.panes) - 1
  BY <1>1, RemoveFirstProps
<1>3. beside \in ToSet(W.panes) \ {p} /\ ToSet(W.panes) \subseteq PaneId
  BY <1>1, BesideProps, Places
<1>4. R = IF p = W.active
          THEN [W EXCEPT !.panes = q, !.active = Or(W.last, beside), !.last = NoPane]
          ELSE [W EXCEPT !.panes = q, !.last = IF @ = p THEN NoPane ELSE @]
  BY DEF RemovePane
<1> HIDE DEF q, beside, R
<1>5. CASE p = W.active
  <2>1. Or(W.last, beside) \in ToSet(W.panes) \ {p} /\ Or(W.last, beside) \in PaneId
    BY <1>3, <1>5, NoneAssumption DEF Or, Shape
  <2>2. R = [W EXCEPT !.panes = q, !.active = Or(W.last, beside), !.last = NoPane]
    BY <1>4, <1>5
  <2> HIDE DEF Or
  <2>3. /\ R \in WinType /\ R.panes = q /\ R.active = Or(W.last, beside)
        /\ R.last = NoPane
    BY <1>1, <1>2, <2>1, <2>2 DEF WinType
  <2>4. W.last # NoPane => Or(W.last, beside) = W.last
    BY DEF Or
  <2> QED
    BY <1>2, <1>5, <2>1, <2>3, <2>4 DEF Shape, R
<1>6. CASE p # W.active
  <2>1. R = [W EXCEPT !.panes = q, !.last = IF @ = p THEN NoPane ELSE @]
    BY <1>4, <1>6
  <2>2. /\ R \in WinType /\ R.panes = q /\ R.active = W.active
        /\ R.last = IF W.last = p THEN NoPane ELSE W.last
    BY <1>1, <1>2, <2>1 DEF WinType
  <2>3. W.active \in ToSet(W.panes) \ {p}
    BY <1>1, <1>6, Places DEF Shape
  <2> QED
    BY <1>2, <1>6, <2>2, <2>3 DEF Shape, R
<1> QED
  BY <1>5, <1>6

\* So does what takes the last pane with its window.
LEMMA WithoutShape ==
    ASSUME NEW W, Shape(W), NEW p \in ToSet(W.panes)
    PROVE  Shape(Without(W, p)) /\ ToSet(Without(W, p).panes) = ToSet(W.panes) \ {p}
<1>1. W.panes \in Seq(PaneId)
  BY DEF Shape, WinType
<1>2. CASE Len(W.panes) = 1
  <2>1. ToSet(W.panes) = {p}
    <3>1. DOMAIN W.panes = {1}
      BY <1>1, <1>2, Places
    <3> QED
      BY <3>1 DEF ToSet
  <2> QED
    BY <1>2, <2>1, NoPanesOwn DEF Without, Own
<1>3. CASE Len(W.panes) # 1
  <2>1. Len(W.panes) > 1
    <3> DEFINE n == Len(W.panes)
    <3>1. n \in Nat /\ n # 0
      BY <1>1, Places
    <3>2. n # 1
      BY <1>3
    <3> HIDE DEF n
    <3>3. n > 1
      BY <3>1, <3>2
    <3> QED
      BY <3>3 DEF n
  <2> QED
    BY <1>3, <2>1, RemovePaneShape DEF Without
<1> QED
  BY <1>2, <1>3

\* From a pane of the window one arrives at a pane of the window.
LEMMA ShownProps ==
    ASSUME NEW W, W \in WinType, NEW p \in ToSet(W.panes)
    PROVE  Shown(W, p) \in ToSet(W.panes)
<1> DEFINE q == W.panes
           n == Len(q)
           k == At(q, p)
           Back(d) == ((k + n - 1 - d) % n) + 1
           ds == {d \in 0..n - 1 : Back(d) \notin W.hid}
<1>1. q \in Seq(PaneId)
  BY DEF WinType
<1>2. n \in Nat /\ \A i \in 1..n : q[i] \in ToSet(q)
  BY <1>1, Places
<1>3. k \in 1..n
  BY <1>1, AtProps
<1>4. Shown(W, p) = IF ds = {} THEN p ELSE q[Back(Min(ds))]
  BY DEF Shown
<1>5. ASSUME ds # {} PROVE Min(ds) \in 0..n - 1
  <2>1. ds \in SUBSET Nat
    BY <1>2
  <2>2. Min(ds) \in ds
    <3> HIDE DEF ds
    <3> QED
      BY <1>5, <2>1, MinProps
  <2> QED
    BY <2>2
<1> HIDE DEF n, k, ds, q
<1>6. ASSUME NEW d \in 0..n - 1 PROVE Back(d) \in 1..n
  <2>1. k + n - 1 - d \in Nat /\ n > 0
    BY <1>2, <1>3
  <2>2. ASSUME NEW m \in Nat PROVE m % n \in 0..n - 1
    BY <1>2, <2>1
  <2>3. (k + n - 1 - d) % n \in 0..n - 1
    BY <2>1, <2>2
  <2> QED
    BY <1>2, <2>1, <2>3
<1> HIDE DEF Back
<1> QED
  BY <1>2, <1>4, <1>5, <1>6 DEF q

\* From a visible pane one need not look for another.
LEMMA VisibleShown ==
    ASSUME NEW W, W \in WinType, NEW p \in ToSet(W.panes), Visible(W, p)
    PROVE  Shown(W, p) = p
<1> DEFINE q == W.panes
           n == Len(q)
           k == At(q, p)
           Back(d) == ((k + n - 1 - d) % n) + 1
           ds == {d \in 0..n - 1 : Back(d) \notin W.hid}
<1>1. q \in Seq(PaneId)
  BY DEF WinType
<1>2. n \in Nat /\ k \in 1..n /\ q[k] = p
  BY <1>1, Places, AtProps
<1>3. Shown(W, p) = IF ds = {} THEN p ELSE q[Back(Min(ds))]
  BY DEF Shown
<1>4. k \notin W.hid
  BY DEF Visible
<1> HIDE DEF n, k, q
<1>5. Back(0) = k
  <2>1. (k + n - 1) % n = k - 1
    BY <1>2
  <2>2. k + n - 1 - 0 = k + n - 1
    BY <1>2
  <2> QED
    BY <1>2, <2>1, <2>2
<1> HIDE DEF Back
<1>6. 0 \in ds /\ ds \in SUBSET Nat
  BY <1>2, <1>4, <1>5
<1>7. Min(ds) = 0
  <2> HIDE DEF ds
  <2>1. Min(ds) \in ds /\ Min(ds) <= 0
    BY <1>6, MinProps
  <2>2. Min(ds) \in Nat
    BY <1>6, <2>1
  <2> QED
    BY <2>1, <2>2
<1> QED
  BY <1>2, <1>3, <1>5, <1>6, <1>7

\* window_set_active_pane: what was active becomes the last pane.
LEMMA SetActiveProps ==
    ASSUME NEW W, W \in WinType, NEW p \in ToSet(W.panes), p # W.active
    PROVE  /\ SetActive(W, p) \in WinType
           /\ SetActive(W, p).panes = W.panes /\ SetActive(W, p).hid = W.hid
           /\ SetActive(W, p).active \in ToSet(W.panes)
           /\ SetActive(W, p).last = W.active
           /\ ~Behind /\ MayActivate(W, p) => SetActive(W, p).active # W.active
<1> DEFINE a == Shown(W, p)
<1>1. a \in ToSet(W.panes) /\ ToSet(W.panes) \subseteq PaneId
  BY ShownProps, Places DEF WinType
<1>2. SetActive(W, p) = [W EXCEPT !.last = W.active, !.active = a]
  BY DEF SetActive
<1>3. ~Behind /\ MayActivate(W, p) => a # W.active
  BY DEF MayActivate
<1> HIDE DEF a
<1> QED
  BY <1>1, <1>2, <1>3 DEF WinType

\* So a window stays one.
LEMMA SetActiveOwn ==
    ASSUME ~Behind, NEW W, Own(W), NEW p \in ToSet(W.panes), MayActivate(W, p)
    PROVE  Own(SetActive(W, p)) /\ SetActive(W, p).panes = W.panes
<1>1. CASE p = W.active
  BY <1>1 DEF SetActive
<1>2. CASE p # W.active
  <2>1. W \in WinType /\ W.panes # <<>>
    BY Places DEF Own, Shape, WinType
  <2>2. /\ SetActive(W, p) \in WinType
        /\ SetActive(W, p).panes = W.panes /\ SetActive(W, p).hid = W.hid
        /\ SetActive(W, p).active \in ToSet(W.panes)
        /\ SetActive(W, p).last = W.active
        /\ SetActive(W, p).active # W.active
    BY <1>2, <2>1, SetActiveProps
  <2> QED
    BY <2>1, <2>2 DEF Own, Shape
<1> QED
  BY <1>1, <1>2

\* A sequence with two elements is longer than one.
LEMMA LongProps ==
    ASSUME NEW S, NEW q \in Seq(S), NEW a \in ToSet(q), NEW b \in ToSet(q), a # b
    PROVE  Len(q) > 1
<1> DEFINE n == Len(q)
<1>1. n \in Nat /\ DOMAIN q = 1..n
  BY Places
<1>2. PICK i \in DOMAIN q, j \in DOMAIN q : q[i] = a /\ q[j] = b
  BY DEF ToSet
<1>3. i # j
  BY <1>2
<1> HIDE DEF n
<1>4. n > 1
  BY <1>1, <1>3
<1> QED
  BY <1>4 DEF n

\* kill-pane -a leaves one pane: the turn of a pane finds the window without those before it.
LEMMA OnlyShape ==
    ASSUME NEW W, Shape(W), NEW p \in ToSet(W.panes)
    PROVE  Shape(Only(W, p)) /\ ToSet(Only(W, p).panes) = {p}
<1> DEFINE q == W.panes
           N == Len(q)
           Turn(X, n) == IF q[n] = p THEN X ELSE RemovePane(X, q[n])
           Is(g, m) == g = [n \in 0..m |-> IF n = 0 THEN W ELSE IF q[n] = p THEN g[n - 1]
                                           ELSE RemovePane(g[n - 1], q[n])]
           left == CHOOSE g : Is(g, N)
           Rest(n) == {q[i] : i \in n + 1..N} \cup {p}
<1>1. q \in Seq(PaneId) /\ IsInjective(q)
  BY DEF Shape, WinType
<1>2. /\ N \in Nat /\ DOMAIN q = 1..N /\ ToSet(q) \subseteq PaneId
      /\ \A i \in 1..N : q[i] \in ToSet(q)
  BY <1>1, Places
<1>3. Only(W, p) = left[N]
  BY DEF Only
<1>4. \A m \in 0..N : \E g : Is(g, m)
  <2> DEFINE T == {m \in 0..N : ~\E g : Is(g, m)}
  <2>1. SUFFICES ASSUME T # {} PROVE FALSE
    OBVIOUS
  <2>2. PICK m \in T : \A i \in T : m <= i
    <3>1. T \in SUBSET Nat
      BY <1>2
    <3> HIDE DEF T
    <3> QED
      BY <2>1, <3>1, MinProps
  <2>3. m \in Nat /\ m <= N
    BY <1>2
  <2>4. CASE m = 0
    <3> DEFINE g == [n \in 0..0 |-> W]
    <3>1. Is(g, 0)
      OBVIOUS
    <3> QED
      BY <2>4, <3>1
  <2>5. CASE m # 0
    <3>1. m - 1 \in 0..N /\ m - 1 \notin T
      <4>1. m - 1 \in 0..N /\ ~(m <= m - 1)
        BY <1>2, <2>3, <2>5
      <4> HIDE DEF T
      <4> QED
        BY <2>2, <4>1
    <3>2. PICK g : Is(g, m - 1)
      BY <3>1
    <3> DEFINE h == [n \in 0..m |-> IF n = m THEN Turn(g[m - 1], m) ELSE g[n]]
    <3>3. \A n \in 0..m : n # m => n \in 0..m - 1 /\ (n # 0 => n - 1 \in 0..m - 1 /\ n - 1 # m)
      BY <2>3, <2>5
    <3>4. m - 1 \in 0..m /\ m - 1 # m /\ m \in 0..m
      BY <2>3, <2>5
    <3>5. ASSUME NEW n \in 0..m
          PROVE  h[n] = IF n = 0 THEN W ELSE IF q[n] = p THEN h[n - 1]
                                             ELSE RemovePane(h[n - 1], q[n])
      <4>1. CASE n = m
        BY <2>5, <3>4, <4>1
      <4>2. CASE n # m
        <5>1. h[n] = g[n] /\ n \in 0..m - 1
          BY <3>3, <4>2
        <5>2. n # 0 => h[n - 1] = g[n - 1]
          <6>1. n # 0 => n - 1 \in 0..m /\ n - 1 # m
            BY <2>3
          <6> QED
            BY <6>1
        <5>3. g[n] = IF n = 0 THEN W ELSE IF q[n] = p THEN g[n - 1]
                                          ELSE RemovePane(g[n - 1], q[n])
          BY <3>2, <5>1
        <5> QED
          BY <5>1, <5>2, <5>3
      <4> QED
        BY <4>1, <4>2
    <3>6. Is(h, m)
      BY <3>5
    <3> QED
      BY <3>6
  <2> QED
    BY <2>4, <2>5
<1>5. Is(left, N)
  <2>1. \E g : Is(g, N)
    BY <1>2, <1>4
  <2> QED
    BY <2>1
<1>6. /\ left[0] = W
      /\ \A n \in 1..N : left[n] = Turn(left[n - 1], n)
  <2> HIDE DEF left, N, q
  <2>1. 0 \in 0..N /\ \A n \in 1..N : n \in 0..N /\ n # 0
    BY <1>2
  <2> QED
    BY <1>5, <2>1
<1> HIDE DEF left
<1>7. Rest(0) = ToSet(q) /\ Rest(N) = {p}
  <2>1. 0 + 1..N = 1..N /\ N + 1..N = {}
    BY <1>2
  <2>2. ToSet(q) = {q[i] : i \in 1..N}
    BY <1>2 DEF ToSet
  <2> HIDE DEF N, q
  <2> QED
    BY <2>1, <2>2 DEF q
<1>8. ASSUME NEW n \in 1..N, Shape(left[n - 1]), ToSet(left[n - 1].panes) = Rest(n - 1)
      PROVE  Shape(left[n]) /\ ToSet(left[n].panes) = Rest(n)
  <2> DEFINE X == left[n - 1]
  <2>1. q[n] \in Rest(n - 1) /\ p \in Rest(n - 1)
    BY <1>2
  <2>2. Rest(n - 1) = Rest(n) \cup {q[n]}
    <3>1. (n - 1) + 1..N = (n + 1..N) \cup {n}
      BY <1>2
    <3> HIDE DEF N, q
    <3> QED
      BY <3>1
  <2>3. q[n] # p => q[n] \notin Rest(n)
    <3>1. \A i \in n + 1..N : i \in 1..N /\ i # n
      BY <1>2
    <3>2. \A i \in n + 1..N : q[i] # q[n]
      BY <1>1, <1>2, <3>1 DEF IsInjective
    <3> QED
      BY <3>2
  <2>4. CASE q[n] = p
    <3>1. left[n] = X /\ Rest(n - 1) = Rest(n)
      BY <1>6, <2>2, <2>4
    <3> QED
      BY <1>8, <3>1
  <2>5. CASE q[n] # p
    <3>1. left[n] = RemovePane(X, q[n])
      BY <1>6, <2>5
    <3> HIDE DEF left, Rest, N, q, X
    <3>2. Len(X.panes) > 1
      BY <1>8, <2>1, <2>5, LongProps DEF Shape, WinType, X
    <3>3. Shape(RemovePane(X, q[n])) /\ ToSet(RemovePane(X, q[n]).panes) = ToSet(X.panes) \ {q[n]}
      BY <1>8, <2>1, <3>2, RemovePaneShape DEF X
    <3>4. ToSet(X.panes) \ {q[n]} = Rest(n)
      BY <1>8, <2>2, <2>3, <2>5 DEF X
    <3> QED
      BY <3>1, <3>3, <3>4
  <2> QED
    BY <2>4, <2>5
<1> HIDE DEF Rest, N, q
<1>9. \A n \in 0..N : Shape(left[n]) /\ ToSet(left[n].panes) = Rest(n)
  <2> DEFINE T == {n \in 0..N : ~(Shape(left[n]) /\ ToSet(left[n].panes) = Rest(n))}
  <2>1. SUFFICES ASSUME T # {} PROVE FALSE
    OBVIOUS
  <2>2. PICK m \in T : \A i \in T : m <= i
    <3>1. T \in SUBSET Nat
      BY <1>2
    <3> HIDE DEF T
    <3> QED
      BY <2>1, <3>1, MinProps
  <2>3. m \in 1..N
    <3>1. 0 \notin T
      BY <1>6, <1>7 DEF q
    <3>2. m \in 0..N /\ m # 0
      BY <3>1
    <3> QED
      BY <1>2, <3>2
  <2>4. m - 1 \in 0..N /\ m - 1 \notin T
    <3>1. m - 1 \in 0..N /\ ~(m <= m - 1)
      BY <1>2, <2>3
    <3> HIDE DEF T
    <3> QED
      BY <2>2, <3>1
  <2> QED
    BY <1>8, <2>3, <2>4
<1> QED
  BY <1>2, <1>3, <1>7, <1>9

\* The pane that comes for x when p and q are exchanged.
For(x, p, q) == IF x = p THEN q ELSE IF x = q THEN p ELSE x

\* swap-pane puts each of two panes in the place of the other.
LEMMA ExchangedProps ==
    ASSUME NEW W, Own(W), NEW p \in PaneId, NEW q \in PaneId, p # q
    PROVE  /\ Exchanged(W, p, q) \in WinType /\ IsInjective(Exchanged(W, p, q).panes)
           /\ Exchanged(W, p, q).active = W.active /\ Exchanged(W, p, q).last = W.last
           /\ Exchanged(W, p, q).hid = W.hid
           /\ DOMAIN Exchanged(W, p, q).panes = DOMAIN W.panes
           /\ ToSet(Exchanged(W, p, q).panes) = {For(x, p, q) : x \in ToSet(W.panes)}
<1> DEFINE X == Exchanged(W, p, q)
           of(x) == For(x, p, q)
           n == Len(W.panes)
           r == [k \in 1..n |-> of(W.panes[k])]
<1>1. W \in WinType /\ W.panes \in Seq(PaneId) /\ IsInjective(W.panes)
  BY DEF Own, Shape, WinType
<1>2. n \in Nat /\ DOMAIN W.panes = 1..n /\ \A k \in 1..n : W.panes[k] \in PaneId
  BY <1>1, Places
<1>3. X = [W EXCEPT !.panes = r]
  BY <1>2 DEF Exchanged, For
<1>4. \A x \in PaneId : of(x) \in PaneId
  BY DEF For
<1>5. \A x \in PaneId, y \in PaneId : of(x) = of(y) => x = y
  BY DEF For
<1> HIDE DEF of, n
<1>6. r \in Seq(PaneId)
  <2>1. r \in [1..n -> PaneId]
    BY <1>2, <1>4
  <2> HIDE DEF r
  <2> QED
    BY <1>2, <2>1, SeqDef
<1>7. DOMAIN r = 1..n /\ \A k \in 1..n : r[k] = of(W.panes[k])
  OBVIOUS
<1> HIDE DEF r, X
<1>8. /\ X \in WinType /\ X.panes = r
      /\ X.active = W.active /\ X.last = W.last /\ X.hid = W.hid
  BY <1>1, <1>3, <1>6 DEF WinType
<1>9. IsInjective(r)
  BY <1>1, <1>2, <1>5, <1>7 DEF IsInjective
<1>10. ToSet(r) = {of(x) : x \in ToSet(W.panes)}
  BY <1>2, <1>7 DEF ToSet
<1> QED
  BY <1>2, <1>7, <1>8, <1>9, <1>10 DEF X, of

\* Two panes of one window: the window has the same panes.
LEMMA ExchangedOwn ==
    ASSUME NEW W, Own(W), NEW p \in ToSet(W.panes), NEW q \in ToSet(W.panes), p # q
    PROVE  /\ Own(Exchanged(W, p, q))
           /\ ToSet(Exchanged(W, p, q).panes) = ToSet(W.panes)
           /\ Len(Exchanged(W, p, q).panes) = Len(W.panes)
           /\ Exchanged(W, p, q).active = W.active
<1> DEFINE X == Exchanged(W, p, q)
           of(x) == For(x, p, q)
<1>1. W.panes \in Seq(PaneId) /\ ToSet(W.panes) \subseteq PaneId
  BY Places DEF Own, Shape, WinType
<1>2. /\ X \in WinType /\ IsInjective(X.panes)
      /\ X.active = W.active /\ X.last = W.last /\ X.hid = W.hid
      /\ DOMAIN X.panes = DOMAIN W.panes
      /\ ToSet(X.panes) = {of(x) : x \in ToSet(W.panes)}
  BY <1>1, ExchangedProps
<1>3. \A x \in ToSet(W.panes) : of(x) \in ToSet(W.panes) /\ of(of(x)) = x
  BY DEF For
<1> HIDE DEF of, X
<1>4. ToSet(X.panes) = ToSet(W.panes)
  BY <1>2, <1>3
<1>5. W.panes # <<>>
  BY <1>1, Places
<1>6. Len(X.panes) = Len(W.panes)
  <2> DEFINE m == Len(X.panes)
             n == Len(W.panes)
  <2>1. m \in Nat /\ n \in Nat /\ 1..m = 1..n
    BY <1>1, <1>2, Places DEF WinType
  <2> HIDE DEF m, n
  <2>2. m = n
    <3>1. m \in 1..m \/ m = 0
      BY <2>1
    <3>2. n \in 1..n \/ n = 0
      BY <2>1
    <3>3. m <= n /\ n <= m
      BY <2>1, <3>1, <3>2
    <3> QED
      BY <2>1, <3>3
  <2> QED
    BY <2>2 DEF m, n
<1> QED
  BY <1>2, <1>4, <1>5, <1>6 DEF Own, Shape, X

\* Between two windows: q comes for p, and the last pane is never p.
LEMMA SwapOverOwn ==
    ASSUME ~Behind, NEW W, Own(W), NEW p \in ToSet(W.panes),
           NEW q \in PaneId \ ToSet(W.panes), NEW det \in BOOLEAN,
           ~det \/ W.active = p => MayActivate(Exchanged(W, p, q), q)
    PROVE  /\ Own(SwapOver(W, p, q, det))
           /\ ToSet(SwapOver(W, p, q, det).panes) = (ToSet(W.panes) \ {p}) \cup {q}
<1> DEFINE A == Exchanged(W, p, q)
           of(x) == For(x, p, q)
           B == IF ~det \/ A.active = p THEN SetActive(A, q) ELSE A
           C == SwapOver(W, p, q, det)
<1>1. /\ W.panes \in Seq(PaneId) /\ ToSet(W.panes) \subseteq PaneId /\ W.panes # <<>>
      /\ p \in PaneId /\ p # q
  BY Places DEF Own, Shape, WinType
<1>2. /\ A \in WinType /\ IsInjective(A.panes)
      /\ A.active = W.active /\ A.last = W.last /\ A.hid = W.hid
      /\ DOMAIN A.panes = DOMAIN W.panes
      /\ ToSet(A.panes) = {of(x) : x \in ToSet(W.panes)}
  <2>1. q \in PaneId /\ q # p
    BY <1>1
  <2> HIDE DEF A, B, C, of
  <2>2. p \in PaneId
    BY <1>1
  <2> QED
    BY <2>1, <2>2, ExchangedProps DEF A, of
<1>3. ToSet(A.panes) = (ToSet(W.panes) \ {p}) \cup {q}
  <2>1. \A x \in ToSet(W.panes) : of(x) = IF x = p THEN q ELSE x
    BY DEF For
  <2> HIDE DEF of
  <2> QED
    BY <1>2, <2>1
<1>4. C = [B EXCEPT !.last = IF @ = p THEN NoPane ELSE @]
  BY DEF SwapOver
<1> HIDE DEF A, C
<1>5. W.active \in ToSet(W.panes) /\ (W.last # NoPane => W.last \in ToSet(W.panes) \ {W.active})
  BY <1>1 DEF Own, Shape
<1>6. NoPane \notin ToSet(A.panes) /\ NoPane # p
  BY <1>1, <1>3, NoneAssumption
<1>7. A.panes # <<>>
  BY <1>2, <1>3, Places DEF WinType
<1>8. CASE ~det \/ W.active = p
  <2>1. q # A.active /\ q \in ToSet(A.panes) /\ MayActivate(A, q)
    BY <1>2, <1>3, <1>5, <1>8 DEF A
  <2>2. /\ SetActive(A, q) \in WinType
        /\ SetActive(A, q).panes = A.panes /\ SetActive(A, q).hid = A.hid
        /\ SetActive(A, q).active \in ToSet(A.panes)
        /\ SetActive(A, q).last = A.active
        /\ SetActive(A, q).active # A.active
    BY <1>2, <2>1, SetActiveProps
  <2>3. B = SetActive(A, q)
    BY <1>2, <1>8
  <2> HIDE DEF B
  <2>4. /\ C \in WinType /\ C.panes = A.panes /\ C.hid = A.hid
        /\ C.active = B.active
        /\ C.last = IF B.last = p THEN NoPane ELSE B.last
    BY <1>4, <2>2, <2>3 DEF WinType
  <2>5. C.last # NoPane => C.last \in ToSet(C.panes) \ {C.active}
    BY <1>2, <1>3, <1>5, <2>2, <2>3, <2>4
  <2> QED
    BY <1>2, <1>3, <2>2, <2>3, <2>4, <2>5 DEF Own, Shape, C
<1>9. CASE ~(~det \/ W.active = p)
  <2>1. B = A
    BY <1>2, <1>9
  <2>2. /\ C \in WinType /\ C.panes = A.panes /\ C.hid = A.hid
        /\ C.active = W.active
        /\ C.last = IF W.last = p THEN NoPane ELSE W.last
    BY <1>2, <1>4, <2>1 DEF WinType
  <2>3. /\ C.active \in ToSet(C.panes)
        /\ C.last # NoPane => C.last \in ToSet(C.panes) \ {C.active}
    BY <1>3, <1>5, <1>9, <2>2
  <2> QED
    BY <1>2, <1>3, <2>2, <2>3 DEF Own, Shape, C
<1> QED
  BY <1>8, <1>9

\* rotate-window.
LEMMA RotatedOwn ==
    ASSUME NEW W, Own(W), W.panes # <<>>,
           NEW r \in {<<Last(W.panes)>> \o Front(W.panes), Tail(W.panes) \o <<Head(W.panes)>>}
    PROVE  /\ Own([W EXCEPT !.panes = r])
           /\ [W EXCEPT !.panes = r].panes = r /\ [W EXCEPT !.panes = r].active = W.active
           /\ r \in Seq(PaneId) /\ IsInjective(r) /\ ToSet(r) = ToSet(W.panes)
           /\ Len(r) = Len(W.panes)
<1>1. W.panes \in Seq(PaneId) /\ IsInjective(W.panes)
  BY DEF Own, Shape, WinType
<1>2. r \in Seq(PaneId) /\ IsInjective(r) /\ ToSet(r) = ToSet(W.panes)
  BY <1>1, RotateProps
<1>3. DOMAIN r = DOMAIN W.panes /\ Len(r) = Len(W.panes)
  BY <1>1, RotateLen, LenProperties
<1> DEFINE R == [W EXCEPT !.panes = r]
<1>4. /\ R \in WinType /\ R.panes = r /\ R.active = W.active /\ R.last = W.last
      /\ R.hid = W.hid
  BY <1>2 DEF Own, Shape, WinType
<1> HIDE DEF R
<1> QED
  BY <1>2, <1>3, <1>4 DEF Own, Shape, R

\* A pane is put after another one.
LEMMA InsertedShape ==
    ASSUME NEW W, Shape(W), NEW q \in ToSet(W.panes), NEW p \in PaneId \ ToSet(W.panes)
    PROVE  /\ Shape([W EXCEPT !.panes = InsertAt(@, At(@, q) + 1, p)])
           /\ ToSet([W EXCEPT !.panes = InsertAt(@, At(@, q) + 1, p)].panes)
                 = ToSet(W.panes) \cup {p}
<1> DEFINE k == At(W.panes, q)
           r == InsertAt(W.panes, k + 1, p)
           T == [W EXCEPT !.panes = InsertAt(@, At(@, q) + 1, p)]
<1>1. W \in WinType /\ W.panes \in Seq(PaneId) /\ IsInjective(W.panes)
  BY DEF Shape, WinType
<1>2. W.panes # <<>>
  BY <1>1, Places
<1>3. k \in 0..Len(W.panes)
  <2> DEFINE n == Len(W.panes)
  <2>1. n \in Nat /\ k \in 1..n
    BY <1>1, Places, AtProps
  <2> HIDE DEF n, k
  <2>2. k \in 0..n
    BY <2>1
  <2> QED
    BY <2>2 DEF n
<1>4. T = [W EXCEPT !.panes = r]
  BY <1>1 DEF WinType
<1> HIDE DEF k, T
<1>5. r \in Seq(PaneId) /\ IsInjective(r) /\ ToSet(r) = ToSet(W.panes) \cup {p}
  BY <1>1, <1>3, InsertAtProps
<1> HIDE DEF r
<1>6. T \in WinType /\ T.panes = r /\ T.active = W.active /\ T.last = W.last
  BY <1>1, <1>4, <1>5 DEF WinType
<1> QED
  BY <1>2, <1>5, <1>6 DEF Shape, T

\* A new pane is made active, unless with -d.
LEMMA ActivatedOwn ==
    ASSUME ~Behind, NEW L, Own(L), NEW p \in ToSet(L.panes), NEW det \in BOOLEAN,
           det \/ MayActivate(L, p)
    PROVE  /\ Own(IF det THEN L ELSE SetActive(L, p))
           /\ (IF det THEN L ELSE SetActive(L, p)).panes = L.panes
<1>1. CASE det
  BY <1>1
<1>2. CASE ~det
  BY <1>2, SetActiveOwn
<1> QED
  BY <1>1, <1>2

\* respawn-window leaves one pane; the last pane must not be one it has ended.
LEMMA RespawnedOwn ==
    ASSUME NEW W, Own(W), W.panes # <<>>, Respawned(W).last = NoPane
    PROVE  Own(Respawned(W)) /\ ToSet(Respawned(W).panes) = {Head(W.panes)}
<1> DEFINE h == Head(W.panes)
           q == <<h>>
           X == [W EXCEPT !.panes = <<Head(@)>>, !.hid = {}]
           R == Respawned(W)
<1>1. /\ W \in WinType /\ W.panes \in Seq(PaneId) /\ h \in PaneId
  BY HeadTailProperties DEF Own, Shape, WinType
<1>2. q \in Seq(PaneId) /\ IsInjective(q) /\ ToSet(q) = {h}
  BY <1>1, OneProps
<1>3. R = SetActive(X, h)
  BY DEF Respawned
<1>4. X = [W EXCEPT !.panes = q, !.hid = {}]
  OBVIOUS
<1> HIDE DEF h, q, X, R
<1>5. /\ X \in WinType /\ X.panes = q /\ X.hid = {} /\ X.active = W.active
      /\ X.last = W.last
  BY <1>1, <1>2, <1>4 DEF WinType
<1>6. CASE h = X.active
  <2>1. R = X
    BY <1>3, <1>6 DEF SetActive
  <2> QED
    BY <1>2, <1>5, <1>6, <2>1 DEF Own, Shape, R, h
<1>7. CASE h # X.active
  <2>1. /\ SetActive(X, h) \in WinType
        /\ SetActive(X, h).panes = X.panes /\ SetActive(X, h).hid = X.hid
        /\ SetActive(X, h).active \in ToSet(X.panes)
    BY <1>2, <1>5, <1>7, SetActiveProps
  <2> QED
    BY <1>2, <1>3, <1>5, <2>1 DEF Own, Shape, R, h
<1> QED
  BY <1>6, <1>7

\* What join-pane takes a pane from; the last pane must not be the one that has gone.
LEMMA JoinedShape ==
    ASSUME NEW W, Own(W), NEW p \in ToSet(W.panes),
           \/ Joined(W, p).last \notin {p, Joined(W, p).active}
           \/ Joined(W, p).last = NoPane
    PROVE  Shape(Joined(W, p)) /\ ToSet(Joined(W, p).panes) = ToSet(W.panes) \ {p}
<1> DEFINE q == RemoveFirst(W.panes, p)
           beside == Or(Before(W.panes, p), After(W.panes, p))
           J == Joined(W, p)
<1>1. W \in WinType /\ W.panes \in Seq(PaneId) /\ IsInjective(W.panes)
  BY DEF Own, Shape, WinType
<1>2. /\ q \in Seq(PaneId) /\ IsInjective(q) /\ ToSet(q) = ToSet(W.panes) \ {p}
      /\ Len(q) = Len(W.panes) - 1
  BY <1>1, RemoveFirstProps
<1>3. J = IF q = <<>> THEN NoPanes
          ELSE [W EXCEPT !.panes = q, !.active = IF @ = p THEN beside ELSE @]
  BY DEF Joined
<1>4. W.panes # <<>> /\ ToSet(W.panes) \subseteq PaneId
  BY <1>1, Places
<1>5. CASE q = <<>>
  <2>1. J = NoPanes /\ ToSet(q) = {}
    BY <1>2, <1>3, <1>5, Places
  <2> QED
    BY <1>2, <2>1, NoPanesOwn DEF Own, J
<1>6. CASE q # <<>>
  <2>1. Len(W.panes) > 1
    <3> DEFINE n == Len(W.panes)
               m == Len(q)
    <3>1. n \in Nat /\ m \in Nat /\ m # 0 /\ m = n - 1
      BY <1>1, <1>2, <1>6, Places
    <3> HIDE DEF n, m
    <3>2. n > 1
      BY <3>1
    <3> QED
      BY <3>2 DEF n
  <2>2. beside \in ToSet(W.panes) \ {p}
    BY <1>1, <2>1, BesideProps
  <2> HIDE DEF q, beside, J
  <2>3. /\ J \in WinType /\ J.panes = q /\ J.last = W.last
        /\ J.active = IF W.active = p THEN beside ELSE W.active
    BY <1>1, <1>2, <1>3, <1>4, <1>6, <2>2 DEF WinType
  <2>4. J.active \in ToSet(q)
    BY <1>2, <1>4, <2>2, <2>3 DEF Own, Shape
  <2>5. J.last # NoPane => J.last \in ToSet(q) \ {J.active}
    BY <1>2, <2>3 DEF Own, Shape, J
  <2> QED
    BY <1>2, <2>3, <2>4, <2>5 DEF Shape, J
<1> QED
  BY <1>5, <1>6

\* A new size moves from a hidden active pane to one that is not the last.
LEMMA ResizedOwn ==
    ASSUME NEW L, Own(L), L.panes # <<>>,
           L.last = NoPane \/ Shown(L, L.active) # L.last
    PROVE  /\ Own([L EXCEPT !.active = Shown(L, L.active)])
           /\ [L EXCEPT !.active = Shown(L, L.active)].panes = L.panes
<1> DEFINE a == Shown(L, L.active)
           R == [L EXCEPT !.active = a]
<1>1. L \in WinType /\ L.active \in ToSet(L.panes)
  BY DEF Own, Shape
<1>2. a \in ToSet(L.panes) /\ a \in PaneId
  BY <1>1, ShownProps, Places DEF WinType
<1>3. L.last = NoPane \/ a # L.last
  OBVIOUS
<1> HIDE DEF a
<1>4. /\ R \in WinType /\ R.panes = L.panes /\ R.active = a /\ R.last = L.last
      /\ R.hid = L.hid
  BY <1>1, <1>2 DEF WinType
<1> HIDE DEF R
<1>5. Own(R) /\ R.panes = L.panes
  BY <1>2, <1>3, <1>4 DEF Own, Shape
<1> QED
  BY <1>5 DEF R, a

(***************************************************************************)
(* What becomes active when the active pane goes.                          *)
(***************************************************************************)
\* A window that has lost panes, W before and V after.
FallsBack(W, V) ==
    LET left == ToSet(V.panes)
    IN  left \subseteq ToSet(W.panes) /\ V.panes # <<>> /\ Len(V.panes) < Len(W.panes)
        => /\ W.active \in left
              => /\ V.active = W.active
                 /\ V.last = IF W.last \in left THEN W.last ELSE NoPane
           /\ W.active \notin left /\ W.last \in left => V.active = W.last

\* Nothing is asked of a window that has as many panes as before.
LEMMA KeepsLen ==
    ASSUME NEW S, NEW W, NEW V, W.panes \in Seq(S), Len(V.panes) = Len(W.panes)
    PROVE  FallsBack(W, V)
<1> DEFINE n == Len(W.panes)
           m == Len(V.panes)
<1>1. n \in Nat /\ m = n
  BY Places
<1> HIDE DEF n, m
<1>2. ~(m < n)
  BY <1>1
<1> QED
  BY <1>2 DEF FallsBack, n, m

\* Nor of one with a pane it did not have.
LEMMA GetsOne ==
    ASSUME NEW W, NEW V, NEW p \in ToSet(V.panes), p \notin ToSet(W.panes)
    PROVE  FallsBack(W, V)
BY DEF FallsBack

\* One pane is left: it is the active one, and there is no other to be the last.
LEMMA OneLeft ==
    ASSUME NEW W, Own(W), NEW V, Own(V), NEW h, ToSet(V.panes) = {h}
    PROVE  FallsBack(W, V)
<1>1. V.panes # <<>> => V.active = h /\ V.last = NoPane
  BY DEF Own, Shape
<1>2. h \in PaneId
  BY Places DEF Own, Shape, WinType
<1>3. W.active = h => W.last # h
  BY <1>2, NoneAssumption DEF Own, Shape
<1> QED
  BY <1>1, <1>2, <1>3 DEF FallsBack

\* window_remove_pane falls back to the last pane.
LEMMA RemovedFallsBack ==
    ASSUME NEW W, Shape(W), NEW p \in ToSet(W.panes), Len(W.panes) > 1,
           NEW V \in LaidOut(RemovePane(W, p))
    PROVE  FallsBack(W, V)
<1> DEFINE R == RemovePane(W, p)
<1>1. /\ Shape(R) /\ ToSet(R.panes) = ToSet(W.panes) \ {p}
      /\ p # W.active => R.active = W.active /\ R.last = IF W.last = p THEN NoPane ELSE W.last
      /\ p = W.active /\ W.last # NoPane => R.active = W.last
  BY RemovePaneShape
<1> HIDE DEF R
<1>2. V.panes = R.panes /\ V.active = R.active /\ V.last = R.last
  BY <1>1, LaidOutOwn DEF R
<1>3. /\ W.active \in ToSet(W.panes) /\ NoPane \notin ToSet(W.panes)
      /\ W.last \in ToSet(W.panes) \cup {NoPane}
  BY Places, NoneAssumption DEF Shape, WinType
<1> DEFINE left == ToSet(V.panes)
<1>4. left = ToSet(W.panes) \ {p}
  BY <1>1, <1>2
<1> HIDE DEF left
<1>5. W.active \in left
         => V.active = W.active /\ V.last = IF W.last \in left THEN W.last ELSE NoPane
  BY <1>1, <1>2, <1>3, <1>4
<1>6. W.active \notin left /\ W.last \in left => V.active = W.last
  BY <1>1, <1>2, <1>3, <1>4
<1> QED
  BY <1>5, <1>6 DEF FallsBack, left

\* Nor is anything asked of a window that is gone.
LEMMA WithoutFallsBack ==
    ASSUME NEW W, Shape(W), NEW p \in ToSet(W.panes), NEW V \in LaidOut(Without(W, p))
    PROVE  FallsBack(W, V)
<1>1. CASE Len(W.panes) = 1
  <2>1. V.panes = <<>>
    BY <1>1, NoPanesOwn, LaidOutOwn DEF Without, Own
  <2> QED
    BY <2>1 DEF FallsBack
<1>2. CASE Len(W.panes) # 1
  <2>1. Len(W.panes) > 1
    <3> DEFINE n == Len(W.panes)
    <3>1. n \in Nat /\ n # 0 /\ n # 1
      BY <1>2, Places DEF Shape, WinType
    <3> HIDE DEF n
    <3>2. n > 1
      BY <3>1
    <3> QED
      BY <3>2 DEF n
  <2> QED
    BY <1>2, <2>1, RemovedFallsBack DEF Without
<1> QED
  BY <1>1, <1>2

(***************************************************************************)
(* The windows and the panes together.                                     *)
(***************************************************************************)
\* What IInv says of a window and of its panes.
LEMMA WindowFacts ==
    ASSUME IInv, NEW w \in WindowId
    PROVE  /\ Own(win[w]) /\ Shape(win[w]) /\ win[w] \in WinType
           /\ win[w].panes \in Seq(PaneId) /\ In(w) \subseteq PaneId
           /\ ToSet(win[w].panes) = In(w)
           /\ \A p \in PaneId : p \in In(w) <=> window[p] = w
           /\ w \in Live <=> win[w].panes # <<>>
           /\ w \notin Live => In(w) = {}
           /\ w # NoWindow
<1>1. Own(win[w]) /\ win[w] \in WinType /\ \A p \in PaneId : p \in In(w) <=> window[p] = w
  BY DEF IInv
<1>2. win[w].panes \in Seq(PaneId) /\ Shape(win[w])
  BY <1>1 DEF WinType, Own
<1>3. In(w) = ToSet(win[w].panes)
  BY DEF In
<1>4. w \in Live <=> win[w].panes # <<>>
  BY DEF Live
<1> QED
  BY <1>1, <1>2, <1>3, <1>4, Places, NoneAssumption

\* What FallBackToLastPane says of a window in a step.
Back(w) ==
    \/ FallsBack(win[w], win'[w])
    \/ \E p \in In(w) : window'[p] \in Live \ {w}

\* A step that changes one window.
LEMMA OneBack ==
    ASSUME IInv, NEW w \in WindowId, NEW L, win' = [win EXCEPT ![w] = L],
           FallsBack(win[w], L)
    PROVE  \A v \in WindowId : Back(v)
<1>1. win'[w] = L /\ \A v \in WindowId \ {w} : win'[v] = win[v]
  BY DEF IInv
<1>2. ASSUME NEW v \in WindowId \ {w} PROVE FallsBack(win[v], win'[v])
  BY <1>1, WindowFacts, KeepsLen
<1> QED
  BY <1>1, <1>2 DEF Back

\* Or two.
LEMMA TwoBack ==
    ASSUME IInv, NEW w \in WindowId, NEW v \in WindowId, w # v, NEW K, NEW L,
           win' = [win EXCEPT ![w] = K, ![v] = L], FallsBack(win[v], L),
           FallsBack(win[w], K) \/ \E p \in In(w) : window'[p] \in Live \ {w}
    PROVE  \A u \in WindowId : Back(u)
<1>1. /\ win'[w] = K /\ win'[v] = L
      /\ \A u \in WindowId \ {w, v} : win'[u] = win[u]
  BY DEF IInv
<1>2. ASSUME NEW u \in WindowId \ {w, v} PROVE FallsBack(win[u], win'[u])
  BY <1>1, WindowFacts, KeepsLen
<1> QED
  BY <1>1, <1>2 DEF Back

\* Or none.
LEMMA NoneBack ==
    ASSUME IInv, win' = win
    PROVE  \A v \in WindowId : Back(v)
BY WindowFacts, KeepsLen DEF Back

\* What a step has to do.
Kept == IInv' /\ \A w \in WindowId : Back(w)

\* A step that changes one window, and sends to it the panes it has then.
LEMMA OneWindow ==
    ASSUME IInv, NEW w \in WindowId, NEW L, Own(L),
           win' = [win EXCEPT ![w] = L],
           window' \in [PaneId -> WindowId \cup {NoWindow}],
           \A p \in PaneId : p \in ToSet(L.panes) <=> window'[p] = w,
           \A p \in PaneId, v \in WindowId \ {w} : window'[p] = v <=> window[p] = v,
           dead' \subseteq PaneId,
           died' \in {"no", "null_pointer", "freed_layout"},
           FallsBack(win[w], L)
    PROVE  Kept
<1>1. L \in WinType
  BY DEF Own, Shape
<1>2. win' \in [WindowId -> WinType] /\ win'[w] = L /\ \A v \in WindowId \ {w} : win'[v] = win[v]
  BY <1>1 DEF IInv
<1>3. \A v \in WindowId : Own(win'[v])
  BY <1>2 DEF IInv
<1>4. ASSUME NEW v \in WindowId, NEW p \in PaneId
      PROVE  p \in ToSet(win'[v].panes) <=> window'[p] = v
  <2>1. CASE v = w
    BY <1>2, <2>1
  <2>2. CASE v # w
    BY <1>2, <2>2 DEF IInv, In
  <2> QED
    BY <2>1, <2>2
<1>5. IInv'
  BY <1>2, <1>3, <1>4 DEF IInv, In
<1> QED
  BY <1>5, OneBack DEF Kept

\* A step that changes two windows.
LEMMA TwoWindows ==
    ASSUME IInv, NEW w \in WindowId, NEW v \in WindowId, w # v,
           NEW K, Own(K), NEW L, Own(L),
           win' = [win EXCEPT ![w] = K, ![v] = L],
           window' \in [PaneId -> WindowId \cup {NoWindow}],
           \A p \in PaneId : p \in ToSet(K.panes) <=> window'[p] = w,
           \A p \in PaneId : p \in ToSet(L.panes) <=> window'[p] = v,
           \A p \in PaneId, u \in WindowId \ {w, v} : window'[p] = u <=> window[p] = u,
           dead' \subseteq PaneId,
           died' \in {"no", "null_pointer", "freed_layout"},
           FallsBack(win[v], L),
           FallsBack(win[w], K) \/ \E p \in In(w) : window'[p] \in Live \ {w}
    PROVE  Kept
<1>1. K \in WinType /\ L \in WinType
  BY DEF Own, Shape
<1>2. /\ win' \in [WindowId -> WinType] /\ win'[w] = K /\ win'[v] = L
      /\ \A u \in WindowId \ {w, v} : win'[u] = win[u]
  BY <1>1 DEF IInv
<1>3. \A u \in WindowId : Own(win'[u])
  BY <1>2 DEF IInv
<1>4. ASSUME NEW u \in WindowId, NEW p \in PaneId
      PROVE  p \in ToSet(win'[u].panes) <=> window'[p] = u
  <2>1. CASE u \in {w, v}
    BY <1>2, <2>1
  <2>2. CASE u \notin {w, v}
    BY <1>2, <2>2 DEF IInv, In
  <2> QED
    BY <2>1, <2>2
<1>5. IInv'
  BY <1>2, <1>3, <1>4 DEF IInv, In
<1> QED
  BY <1>5, TwoBack DEF Kept

\* A window that keeps its panes.
LEMMA SamePanes ==
    ASSUME IInv, NEW w \in WindowId, NEW L, Own(L), ToSet(L.panes) = In(w),
           Len(L.panes) = Len(win[w].panes),
           win' = [win EXCEPT ![w] = L], UNCHANGED <<window, dead, died>>
    PROVE  Kept
<1>1. /\ window' = window /\ dead' = dead /\ died' = died
      /\ window \in [PaneId -> WindowId \cup {NoWindow}] /\ dead \subseteq PaneId
      /\ died \in {"no", "null_pointer", "freed_layout"}
  BY DEF IInv
<1>2. \A p \in PaneId : p \in ToSet(L.panes) <=> window'[p] = w
  BY <1>1, WindowFacts
<1>3. FallsBack(win[w], L)
  BY WindowFacts, KeepsLen
<1> QED
  BY <1>1, <1>2, <1>3, OneWindow

\* A window that loses panes, and they are gone.
LEMMA LosesPanes ==
    ASSUME IInv, NEW w \in WindowId, NEW ps, ps \subseteq In(w),
           NEW L, Own(L), ToSet(L.panes) = In(w) \ ps,
           FallsBack(win[w], L),
           win' = [win EXCEPT ![w] = L], window' = Freed(window, ps),
           dead' \subseteq dead, UNCHANGED died
    PROVE  Kept
<1>1. /\ window \in [PaneId -> WindowId \cup {NoWindow}] /\ dead \subseteq PaneId
      /\ died \in {"no", "null_pointer", "freed_layout"}
  BY DEF IInv
<1>2. /\ window' \in [PaneId -> WindowId \cup {NoWindow}]
      /\ \A p \in PaneId : window'[p] = IF p \in ps THEN NoWindow ELSE window[p]
  BY <1>1 DEF Freed
<1>3. \A p \in PaneId : p \in In(w) <=> window[p] = w
  BY WindowFacts
<1>4. \A p \in PaneId : p \in ToSet(L.panes) <=> window'[p] = w
  BY <1>2, <1>3, WindowFacts
<1>5. \A p \in PaneId, v \in WindowId \ {w} : window'[p] = v <=> window[p] = v
  BY <1>2, <1>3, NoneAssumption
<1> QED
  BY <1>1, <1>2, <1>4, <1>5, OneWindow

\* A free pane comes to a window.
LEMMA GetsPane ==
    ASSUME IInv, NEW w \in WindowId, NEW p \in Free,
           NEW L, Own(L), ToSet(L.panes) = In(w) \cup {p},
           win' = [win EXCEPT ![w] = L], window' = [window EXCEPT ![p] = w],
           UNCHANGED <<dead, died>>
    PROVE  Kept
<1>1. /\ window \in [PaneId -> WindowId \cup {NoWindow}] /\ dead' \subseteq PaneId
      /\ died' \in {"no", "null_pointer", "freed_layout"}
  BY DEF IInv
<1>2. p \in PaneId /\ window[p] = NoWindow
  BY DEF Free
<1>3. /\ window' \in [PaneId -> WindowId \cup {NoWindow}]
      /\ \A x \in PaneId : window'[x] = IF x = p THEN w ELSE window[x]
  BY <1>1, <1>2
<1>4. \A x \in PaneId : x \in ToSet(L.panes) <=> window'[x] = w
  BY <1>3, WindowFacts
<1>5. \A x \in PaneId, v \in WindowId \ {w} : window'[x] = v <=> window[x] = v
  BY <1>2, <1>3, NoneAssumption
<1>6. FallsBack(win[w], L)
  <2>1. p \in ToSet(L.panes) /\ p \notin In(w)
    BY <1>2, WindowFacts, NoneAssumption
  <2> QED
    BY <2>1, GetsOne DEF In
<1> QED
  BY <1>1, <1>3, <1>4, <1>5, <1>6, OneWindow

\* A pane goes from one window to another.
LEMMA PaneMoves ==
    ASSUME IInv, NEW w \in WindowId, NEW v \in WindowId, w # v, NEW p \in In(w),
           NEW K, Own(K), ToSet(K.panes) = In(w) \ {p},
           NEW L, Own(L), ToSet(L.panes) = In(v) \cup {p},
           v \in Live \/ FallsBack(win[w], K),
           win' = [win EXCEPT ![w] = K, ![v] = L], window' = [window EXCEPT ![p] = v],
           UNCHANGED <<dead, died>>
    PROVE  Kept
<1>1. /\ window \in [PaneId -> WindowId \cup {NoWindow}] /\ dead' \subseteq PaneId
      /\ died' \in {"no", "null_pointer", "freed_layout"}
  BY DEF IInv
<1>2. p \in PaneId /\ window[p] = w
  BY WindowFacts
<1>3. /\ window' \in [PaneId -> WindowId \cup {NoWindow}]
      /\ \A x \in PaneId : window'[x] = IF x = p THEN v ELSE window[x]
  BY <1>1, <1>2
<1>4. \A x \in PaneId : (x \in In(w) <=> window[x] = w) /\ (x \in In(v) <=> window[x] = v)
  BY WindowFacts
<1>5. \A x \in PaneId : x \in ToSet(K.panes) <=> window'[x] = w
  BY <1>3, <1>4
<1>6. \A x \in PaneId : x \in ToSet(L.panes) <=> window'[x] = v
  BY <1>3, <1>4
<1>7. \A x \in PaneId, u \in WindowId \ {w, v} : window'[x] = u <=> window[x] = u
  BY <1>2, <1>3
<1>8. FallsBack(win[v], L)
  <2>1. p \in ToSet(L.panes) /\ p \notin In(v)
    BY <1>2, <1>4
  <2> QED
    BY <2>1, GetsOne DEF In
<1>9. FallsBack(win[w], K) \/ \E x \in In(w) : window'[x] \in Live \ {w}
  BY <1>2, <1>3
<1> QED
  BY <1>1, <1>3, <1>5, <1>6, <1>7, <1>8, <1>9, TwoWindows

(***************************************************************************)
(* The actions.                                                            *)
(***************************************************************************)
\* new-window.
LEMMA NewWindowInv ==
    ASSUME IInv, NEW w \in WindowId, NEW p \in PaneId, NewWindow(w, p)
    PROVE  Kept
<1>1. /\ w \notin Live /\ p \in Free
      /\ win' = [win EXCEPT ![w] = Single(p)] /\ window' = [window EXCEPT ![p] = w]
      /\ UNCHANGED <<dead, died>>
  BY DEF NewWindow
<1>2. In(w) = {}
  BY <1>1, WindowFacts
<1>3. Own(Single(p)) /\ ToSet(Single(p).panes) = In(w) \cup {p}
  BY <1>2, SingleOwn
<1> QED
  BY <1>1, <1>3, GetsPane

\* split-window.
LEMMA SplitWindowInv ==
    ASSUME ~Behind, IInv, NEW w \in WindowId, NEW p \in PaneId, NEW det \in BOOLEAN,
           SplitWindow(w, p, det)
    PROVE  Kept
<1> DEFINE W == win[w]
           N == [W EXCEPT !.panes = InsertAt(@, At(@, W.active) + 1, p)]
<1>1. /\ w \in Live /\ p \in Free
      /\ window' = [window EXCEPT ![p] = w] /\ UNCHANGED <<dead, died>>
  BY DEF SplitWindow
<1>2. PICK L \in LaidOut(N) :
          /\ det \/ MayActivate(L, p)
          /\ win' = [win EXCEPT ![w] = IF det THEN L ELSE SetActive(L, p)]
  BY DEF SplitWindow
<1>3. /\ Shape(W) /\ W.active \in ToSet(W.panes) /\ ToSet(W.panes) = In(w)
      /\ p \in PaneId \ ToSet(W.panes)
  BY <1>1, WindowFacts DEF Shape, Free
<1>4. Shape(N) /\ ToSet(N.panes) = In(w) \cup {p}
  BY <1>3, InsertedShape
<1> HIDE DEF N
<1>5. Own(L) /\ ToSet(L.panes) = In(w) \cup {p}
  BY <1>4, LaidOutOwn
<1> DEFINE M == IF det THEN L ELSE SetActive(L, p)
<1>6. Own(M) /\ M.panes = L.panes
  BY <1>2, <1>5, ActivatedOwn
<1>7. win' = [win EXCEPT ![w] = M]
  BY <1>2
<1> HIDE DEF M
<1> QED
  BY <1>1, <1>5, <1>6, <1>7, GetsPane

\* kill-window.
LEMMA KillWindowInv ==
    ASSUME IInv, NEW w \in WindowId, KillWindow(w)
    PROVE  Kept
<1>1. /\ win' = [win EXCEPT ![w] = NoPanes] /\ window' = Freed(window, In(w))
      /\ dead' \subseteq dead /\ UNCHANGED died
  BY DEF KillWindow
<1>2. Own(NoPanes) /\ ToSet(NoPanes.panes) = In(w) \ In(w)
  BY NoPanesOwn
<1>3. FallsBack(win[w], NoPanes)
  BY NoPanesOwn DEF FallsBack
<1> QED
  BY <1>1, <1>2, <1>3, LosesPanes

\* kill-pane, and the end of a pane's process.
LEMMA EndsInv ==
    ASSUME IInv, NEW w \in WindowId, NEW p \in In(w),
           NEW L \in LaidOut(Without(win[w], p)), win' = [win EXCEPT ![w] = L],
           window' = Freed(window, {p}), dead' = dead \ {p}, UNCHANGED died
    PROVE  Kept
<1>1. Shape(Without(win[w], p)) /\ ToSet(Without(win[w], p).panes) = In(w) \ {p}
  BY WindowFacts, WithoutShape
<1>2. Own(L) /\ ToSet(L.panes) = In(w) \ {p}
  BY <1>1, LaidOutOwn
<1>3. dead' \subseteq dead
  OBVIOUS
<1>4. FallsBack(win[w], L)
  BY WindowFacts, WithoutFallsBack
<1> QED
  BY <1>2, <1>3, <1>4, LosesPanes

\* kill-pane.
LEMMA KillPaneInv ==
    ASSUME IInv, NEW w \in WindowId, NEW p \in PaneId, KillPane(w, p)
    PROVE  Kept
BY EndsInv DEF KillPane

\* kill-pane -a.
LEMMA KillOthersInv ==
    ASSUME IInv, NEW w \in WindowId, NEW p \in PaneId, KillOthers(w, p)
    PROVE  Kept
<1>1. /\ p \in In(w)
      /\ window' = Freed(window, In(w) \ {p}) /\ dead' \subseteq dead /\ UNCHANGED died
  BY DEF KillOthers
<1>2. PICK L \in LaidOut(Only(win[w], p)) : win' = [win EXCEPT ![w] = L]
  BY DEF KillOthers
<1>3. Shape(Only(win[w], p)) /\ ToSet(Only(win[w], p).panes) = {p}
  <2> DEFINE W == win[w]
  <2>1. Shape(W) /\ p \in ToSet(W.panes)
    BY <1>1, WindowFacts
  <2> HIDE DEF W
  <2>2. Shape(Only(W, p)) /\ ToSet(Only(W, p).panes) = {p}
    BY <2>1, OnlyShape
  <2> QED
    BY <2>2 DEF W
<1>4. Own(L) /\ ToSet(L.panes) = In(w) \ (In(w) \ {p})
  BY <1>1, <1>3, LaidOutOwn
<1>5. FallsBack(win[w], L)
  <2>1. Own(win[w]) /\ Own(L) /\ ToSet(L.panes) = {p}
    BY <1>3, LaidOutOwn, WindowFacts
  <2> QED
    BY <2>1, OneLeft
<1> QED
  BY <1>1, <1>2, <1>4, <1>5, LosesPanes

\* The end of a pane's process.
LEMMA DestroyPaneInv ==
    ASSUME IInv, NEW p \in PaneId, NEW remain \in BOOLEAN, DestroyPane(p, remain)
    PROVE  Kept
<1>1. CASE remain
  <2>1. IInv' /\ win' = win
    BY <1>1 DEF DestroyPane, IInv, In
  <2> QED
    BY <2>1, NoneBack DEF Kept
<1>2. CASE ~remain
  <2>1. window[p] \in WindowId
    BY DEF DestroyPane, IInv
  <2>2. p \in In(window[p])
    BY <2>1 DEF IInv
  <2> DEFINE w == window[p]
  <2>3. PICK L \in LaidOut(Without(win[w], p)) : win' = [win EXCEPT ![w] = L]
    BY <1>2 DEF DestroyPane
  <2>4. window' = Freed(window, {p}) /\ dead' = dead \ {p} /\ UNCHANGED died
    BY <1>2 DEF DestroyPane
  <2> HIDE DEF w
  <2> QED
    BY <2>1, <2>2, <2>3, <2>4, EndsInv DEF w
<1> QED
  BY <1>1, <1>2

\* respawn-window.
LEMMA RespawnWindowInv ==
    ASSUME ~Behind, IInv, NEW w \in WindowId, NEW kill \in BOOLEAN, RespawnWindow(w, kill)
    PROVE  Kept
<1> DEFINE h == Head(win[w].panes)
           R == Respawned(win[w])
<1>1. /\ w \in Live /\ R.last = NoPane
      /\ win' = [win EXCEPT ![w] = Respawned(@)] /\ window' = Freed(window, In(w) \ {h})
      /\ dead' \subseteq dead /\ UNCHANGED died
  BY DEF RespawnWindow
<1>2. Own(R) /\ ToSet(R.panes) = {h}
  BY <1>1, WindowFacts, RespawnedOwn
<1>3. h \in In(w)
  <2> DEFINE q == win[w].panes
             n == Len(q)
  <2>1. q \in Seq(PaneId) /\ q # <<>> /\ In(w) = ToSet(q)
    BY <1>1, WindowFacts
  <2>2. n \in Nat /\ n # 0 /\ \A i \in 1..n : q[i] \in ToSet(q)
    BY <2>1, Places
  <2>3. h = q[1]
    BY <2>1
  <2> HIDE DEF q, n, h
  <2>4. 1 \in 1..n
    BY <2>2
  <2> QED
    BY <2>1, <2>2, <2>3, <2>4
<1>4. win' = [win EXCEPT ![w] = R]
  BY <1>1 DEF IInv
<1> HIDE DEF h, R
<1>5. ToSet(R.panes) = In(w) \ (In(w) \ {h})
  BY <1>2, <1>3
<1>6. FallsBack(win[w], R)
  <2>1. Own(win[w])
    BY WindowFacts
  <2> QED
    BY <1>2, <2>1, OneLeft
<1> QED
  BY <1>1, <1>2, <1>4, <1>5, <1>6, LosesPanes

\* respawn-window whose process cannot be started.
LEMMA RespawnFailsInv ==
    ASSUME IInv, NEW w \in WindowId, NEW kill \in BOOLEAN, NEW remain \in BOOLEAN,
           RespawnFails(w, kill, remain)
    PROVE  Kept
<1>1. IInv' /\ win' = win
  BY DEF RespawnFails, IInv, In
<1> QED
  BY <1>1, NoneBack DEF Kept

\* join-pane.
LEMMA JoinPaneInv ==
    ASSUME ~Behind, IInv, NEW w \in WindowId, NEW v \in WindowId,
           NEW p \in PaneId, NEW q \in PaneId, NEW det \in BOOLEAN,
           JoinPane(w, p, v, q, det)
    PROVE  Kept
<1> DEFINE S == Joined(win[w], p)
           T == [win[v] EXCEPT !.panes = InsertAt(@, At(@, q) + 1, p)]
<1>1. /\ w # v /\ v \in Live /\ p \in In(w) /\ q \in In(v)
      /\ S.last \notin {p, S.active} \/ S.last = NoPane
      /\ window' = [window EXCEPT ![p] = v] /\ UNCHANGED <<dead, died>>
  BY DEF JoinPane
<1>2. PICK K \in LaidOut(S), L \in LaidOut(T) :
          /\ det \/ MayActivate(L, p)
          /\ win' = [win EXCEPT ![w] = K, ![v] = IF det THEN L ELSE SetActive(L, p)]
  BY DEF JoinPane
<1>3. Shape(S) /\ ToSet(S.panes) = In(w) \ {p}
  <2> DEFINE W == win[w]
  <2>1. Own(W) /\ p \in ToSet(W.panes) /\ ToSet(W.panes) = In(w)
    BY <1>1, WindowFacts
  <2>2. Joined(W, p).last \notin {p, Joined(W, p).active} \/ Joined(W, p).last = NoPane
    BY <1>1
  <2> HIDE DEF W
  <2>3. Shape(Joined(W, p)) /\ ToSet(Joined(W, p).panes) = In(w) \ {p}
    BY <2>1, <2>2, JoinedShape
  <2> QED
    BY <2>3 DEF W
<1>4. p \notin In(v)
  BY <1>1, WindowFacts
<1>5. Shape(T) /\ ToSet(T.panes) = In(v) \cup {p}
  <2>1. /\ Shape(win[v]) /\ q \in ToSet(win[v].panes) /\ ToSet(win[v].panes) = In(v)
        /\ p \in PaneId \ ToSet(win[v].panes)
    BY <1>1, <1>4, WindowFacts
  <2> QED
    BY <2>1, InsertedShape
<1> HIDE DEF S, T
<1>6. Own(K) /\ ToSet(K.panes) = In(w) \ {p}
  BY <1>3, LaidOutOwn
<1>7. Own(L) /\ ToSet(L.panes) = In(v) \cup {p}
  BY <1>5, LaidOutOwn
<1> DEFINE M == IF det THEN L ELSE SetActive(L, p)
<1>8. Own(M) /\ M.panes = L.panes
  BY <1>2, <1>7, ActivatedOwn
<1>9. win' = [win EXCEPT ![w] = K, ![v] = M]
  BY <1>2
<1> HIDE DEF M
<1> QED
  BY <1>1, <1>6, <1>7, <1>8, <1>9, PaneMoves

\* swap-pane in one window.
LEMMA SwapHereInv ==
    ASSUME ~Behind, IInv, NEW w \in WindowId, NEW p \in PaneId, NEW q \in PaneId,
           SwapHere(w, p, q)
    PROVE  Kept
<1> DEFINE W == Exchanged(win[w], p, q)
           to == IF Visible(W, q) THEN q ELSE p
<1>1. /\ {p, q} \subseteq In(w) /\ p # q /\ MayActivate(W, to)
      /\ win' = [win EXCEPT ![w] = SetActive(W, to)]
      /\ UNCHANGED <<window, dead, died>>
  BY DEF SwapHere
<1>2. Own(W) /\ ToSet(W.panes) = In(w) /\ Len(W.panes) = Len(win[w].panes)
  BY <1>1, WindowFacts, ExchangedOwn
<1>3. to \in {p, q}
  OBVIOUS
<1> HIDE DEF W, to
<1>4. Own(SetActive(W, to)) /\ SetActive(W, to).panes = W.panes
  BY <1>1, <1>2, <1>3, SetActiveOwn
<1> QED
  BY <1>1, <1>2, <1>4, SamePanes

\* swap-pane -d in one window.
LEMMA SwapHereDetachedInv ==
    ASSUME ~Behind, IInv, NEW w \in WindowId, NEW p \in PaneId, NEW q \in PaneId,
           SwapHereDetached(w, p, q)
    PROVE  Kept
<1> DEFINE W == Exchanged(win[w], p, q)
           A == IF W.active = p THEN SetActive(W, q) ELSE W
           B == IF A.active = q THEN SetActive(A, p) ELSE A
<1>1. /\ {p, q} \subseteq In(w) /\ p # q
      /\ W.active = p => MayActivate(W, q)
      /\ A.active = q => MayActivate(A, p)
      /\ win' = [win EXCEPT ![w] = B]
      /\ UNCHANGED <<window, dead, died>>
  BY DEF SwapHereDetached
<1>2. Own(W) /\ ToSet(W.panes) = In(w) /\ Len(W.panes) = Len(win[w].panes)
  BY <1>1, WindowFacts, ExchangedOwn
<1> HIDE DEF W
<1>3. Own(A) /\ A.panes = W.panes
  BY <1>1, <1>2, SetActiveOwn
<1> HIDE DEF A
<1>4. Own(B) /\ B.panes = W.panes
  BY <1>1, <1>2, <1>3, SetActiveOwn
<1> HIDE DEF B
<1> QED
  BY <1>1, <1>2, <1>3, <1>4, SamePanes

\* One of the windows of a swap-pane.
LEMMA SwapSide ==
    ASSUME ~Behind, IInv, NEW w \in WindowId, NEW p \in In(w), NEW q \in PaneId \ In(w),
           NEW det \in BOOLEAN,
           ~det \/ win[w].active = p => MayActivate(Exchanged(win[w], p, q), q)
    PROVE  /\ Own(SwapOver(win[w], p, q, det))
           /\ ToSet(SwapOver(win[w], p, q, det).panes) = (In(w) \ {p}) \cup {q}
<1> DEFINE W == win[w]
<1>1. /\ Own(W) /\ p \in ToSet(W.panes) /\ ToSet(W.panes) = In(w)
      /\ q \in PaneId \ ToSet(W.panes)
  BY WindowFacts
<1>2. ~det \/ W.active = p => MayActivate(Exchanged(W, p, q), q)
  OBVIOUS
<1> HIDE DEF W
<1>3. /\ Own(SwapOver(W, p, q, det))
      /\ ToSet(SwapOver(W, p, q, det).panes) = (ToSet(W.panes) \ {p}) \cup {q}
  BY <1>1, <1>2, SwapOverOwn
<1> QED
  BY <1>1, <1>3 DEF W

\* swap-pane between two windows.
LEMMA SwapPaneInv ==
    ASSUME ~Behind, IInv, NEW w \in WindowId, NEW v \in WindowId,
           NEW p \in PaneId, NEW q \in PaneId, NEW det \in BOOLEAN,
           SwapPane(w, p, v, q, det)
    PROVE  Kept
<1> DEFINE K == SwapOver(win[w], p, q, det)
           L == SwapOver(win[v], q, p, det)
<1>1. /\ w # v /\ p \in In(w) /\ q \in In(v)
      /\ ~det \/ win[w].active = p => MayActivate(Exchanged(win[w], p, q), q)
      /\ ~det \/ win[v].active = q => MayActivate(Exchanged(win[v], p, q), p)
      /\ win' = [win EXCEPT ![w] = SwapOver(@, p, q, det), ![v] = SwapOver(@, q, p, det)]
      /\ window' = [window EXCEPT ![p] = v, ![q] = w]
      /\ UNCHANGED <<dead, died>>
  BY DEF SwapPane
<1>2. window[p] = w /\ window[q] = v /\ p # q /\ p \notin In(v) /\ q \notin In(w)
  BY <1>1, WindowFacts
<1>3. win' = [win EXCEPT ![w] = K, ![v] = L]
  BY <1>1 DEF IInv
<1>4. Exchanged(win[v], p, q) = Exchanged(win[v], q, p)
  BY <1>2 DEF Exchanged
<1>5. Own(K) /\ ToSet(K.panes) = (In(w) \ {p}) \cup {q}
  BY <1>1, <1>2, SwapSide
<1>6. Own(L) /\ ToSet(L.panes) = (In(v) \ {q}) \cup {p}
  <2>1. ~det \/ win[v].active = q => MayActivate(Exchanged(win[v], q, p), p)
    BY <1>1, <1>4
  <2>2. p \in PaneId \ In(v)
    BY <1>2
  <2> QED
    BY <1>1, <2>1, <2>2, SwapSide
<1> HIDE DEF K, L
<1>7. /\ window \in [PaneId -> WindowId \cup {NoWindow}] /\ dead' \subseteq PaneId
      /\ died' \in {"no", "null_pointer", "freed_layout"}
  BY <1>1 DEF IInv
<1>8. /\ window' \in [PaneId -> WindowId \cup {NoWindow}]
      /\ \A x \in PaneId : window'[x] = IF x = q THEN w ELSE IF x = p THEN v ELSE window[x]
  BY <1>1, <1>7
<1>9. \A x \in PaneId : (x \in In(w) <=> window[x] = w) /\ (x \in In(v) <=> window[x] = v)
  BY WindowFacts
<1>10. \A x \in PaneId : x \in ToSet(K.panes) <=> window'[x] = w
  BY <1>1, <1>2, <1>5, <1>8, <1>9
<1>11. \A x \in PaneId : x \in ToSet(L.panes) <=> window'[x] = v
  BY <1>1, <1>2, <1>6, <1>8, <1>9
<1>12. \A x \in PaneId, u \in WindowId \ {w, v} : window'[x] = u <=> window[x] = u
  BY <1>2, <1>8
<1>13. FallsBack(win[w], K) /\ FallsBack(win[v], L)
  BY <1>2, <1>5, <1>6, GetsOne DEF In
<1> QED
  BY <1>1, <1>3, <1>5, <1>6, <1>7, <1>8, <1>10, <1>11, <1>12, <1>13, TwoWindows

\* break-pane.
LEMMA BreakPaneInv ==
    ASSUME IInv, NEW w \in WindowId, NEW v \in WindowId, NEW p \in PaneId,
           BreakPane(w, p, v)
    PROVE  Kept
<1>1. /\ w \in Live /\ v \notin Live /\ p \in In(w) /\ Len(win[w].panes) > 1
      /\ window' = [window EXCEPT ![p] = v] /\ UNCHANGED <<dead, died>>
  BY DEF BreakPane
<1>2. PICK L \in LaidOut(RemovePane(win[w], p)) :
          win' = [win EXCEPT ![w] = L, ![v] = Single(p)]
  BY DEF BreakPane
<1>3. Shape(RemovePane(win[w], p)) /\ ToSet(RemovePane(win[w], p).panes) = In(w) \ {p}
  BY <1>1, WindowFacts, RemovePaneShape
<1>4. Own(L) /\ ToSet(L.panes) = In(w) \ {p}
  BY <1>3, LaidOutOwn
<1>5. In(v) = {} /\ w # v
  BY <1>1, WindowFacts
<1>6. Own(Single(p)) /\ ToSet(Single(p).panes) = In(v) \cup {p}
  BY <1>5, SingleOwn
<1>7. FallsBack(win[w], L)
  BY <1>1, WindowFacts, RemovedFallsBack
<1> QED
  BY <1>1, <1>2, <1>4, <1>5, <1>6, <1>7, PaneMoves

\* rotate-window.
LEMMA RotateWindowInv ==
    ASSUME ~Behind, IInv, NEW w \in WindowId, NEW down \in BOOLEAN, RotateWindow(w, down)
    PROVE  Kept
<1> DEFINE X == win[w]
           q == X.panes
           r == IF down THEN <<Last(q)>> \o Front(q) ELSE Tail(q) \o <<Head(q)>>
           W == [X EXCEPT !.panes = r]
           next == IF down THEN Or(Before(r, W.active), Last(r))
                           ELSE Or(After(r, W.active), Head(r))
<1>1. /\ w \in Live /\ MayActivate(W, next)
      /\ win' = [win EXCEPT ![w] = SetActive(W, next)]
      /\ UNCHANGED <<window, dead, died>>
  BY DEF RotateWindow
<1>2. Own(X) /\ X.panes # <<>> /\ ToSet(X.panes) = In(w)
  BY <1>1, WindowFacts
<1>3. r \in {<<Last(X.panes)>> \o Front(X.panes), Tail(X.panes) \o <<Head(X.panes)>>}
  OBVIOUS
<1>4. /\ Own(W) /\ W.panes = r /\ W.active = X.active
      /\ r \in Seq(PaneId) /\ IsInjective(r) /\ ToSet(r) = In(w)
      /\ Len(r) = Len(X.panes)
  <2> HIDE DEF r, X
  <2> QED
    BY <1>2, <1>3, RotatedOwn
<1>5. W.active \in ToSet(r)
  <2>1. X.active \in ToSet(X.panes)
    BY <1>2 DEF Own, Shape
  <2> QED
    BY <1>2, <1>4, <2>1
<1> DEFINE a == W.active
<1>6. next = IF down THEN Or(Before(r, a), Last(r)) ELSE Or(After(r, a), Head(r))
  OBVIOUS
<1>7. a \in ToSet(r)
  BY <1>5
<1> HIDE DEF r, a, next, W
<1>8. next \in In(w)
  <2>1. Or(Before(r, a), Last(r)) \in ToSet(r) /\ Or(After(r, a), Head(r)) \in ToSet(r)
    BY <1>4, <1>7, BesideProps
  <2> QED
    BY <1>4, <1>6, <2>1
<1>9. Own(SetActive(W, next)) /\ SetActive(W, next).panes = r
  BY <1>1, <1>4, <1>8, SetActiveOwn
<1> QED
  BY <1>1, <1>4, <1>9, SamePanes

\* select-pane.
LEMMA SelectPaneInv ==
    ASSUME ~Behind, IInv, NEW w \in WindowId, NEW p \in PaneId, SelectPane(w, p)
    PROVE  Kept
<1>1. /\ p \in In(w) /\ win' = [win EXCEPT ![w] = SetActive(win[w], p)]
      /\ UNCHANGED <<window, dead, died>>
  BY DEF SelectPane, IInv
<1> DEFINE W == win[w]
<1>2. Own(W) /\ p \in ToSet(W.panes) /\ ToSet(W.panes) = In(w)
  BY <1>1, WindowFacts
<1>3. MayActivate(W, p)
  <2>1. Visible(W, p) /\ W \in WinType
    BY WindowFacts DEF SelectPane
  <2> HIDE DEF W
  <2>2. Shown(W, p) = p
    BY <1>2, <2>1, VisibleShown
  <2> QED
    BY <2>2 DEF MayActivate
<1> HIDE DEF W
<1>4. Own(SetActive(W, p)) /\ SetActive(W, p).panes = W.panes
  BY <1>2, <1>3, SetActiveOwn
<1> QED
  BY <1>1, <1>2, <1>4, SamePanes DEF W

\* last-pane.
LEMMA LastPaneInv ==
    ASSUME ~Behind, IInv, NEW w \in WindowId, LastPane(w)
    PROVE  Kept
<1> DEFINE W == win[w]
           p == W.last
<1>1. /\ p # NoPane /\ MayActivate(W, p) /\ win' = [win EXCEPT ![w] = SetActive(W, p)]
      /\ UNCHANGED <<window, dead, died>>
  BY DEF LastPane, IInv
<1>2. Own(W) /\ p \in ToSet(W.panes) /\ ToSet(W.panes) = In(w)
  BY <1>1, WindowFacts DEF Own, Shape
<1> HIDE DEF W, p
<1>3. Own(SetActive(W, p)) /\ SetActive(W, p).panes = W.panes
  BY <1>1, <1>2, SetActiveOwn
<1> QED
  BY <1>1, <1>2, <1>3, SamePanes DEF W

\* select-layout.
LEMMA RelayoutInv ==
    ASSUME IInv, NEW w \in WindowId, Relayout(w)
    PROVE  Kept
<1>1. PICK L \in LaidOut(win[w]) : win' = [win EXCEPT ![w] = L]
  BY DEF Relayout
<1>2. Own(L) /\ ToSet(L.panes) = In(w) /\ L.panes = win[w].panes
  BY WindowFacts, LaidOutOwn
<1>3. UNCHANGED <<window, dead, died>>
  BY DEF Relayout
<1> QED
  BY <1>1, <1>2, <1>3, SamePanes

\* A new size.
LEMMA ResizeInv ==
    ASSUME ~Behind, IInv, NEW w \in WindowId, Resize(w)
    PROVE  Kept
<1>1. PICK L \in LaidOut(win[w]) :
          /\ L.last = NoPane \/ Shown(L, L.active) # L.last
          /\ win' = [win EXCEPT ![w] = [L EXCEPT !.active = Shown(L, L.active)]]
  BY DEF Resize
<1>2. w \in Live /\ UNCHANGED <<window, dead, died>>
  BY DEF Resize
<1>3. Own(L) /\ L.panes = win[w].panes /\ ToSet(L.panes) = In(w)
  BY WindowFacts, LaidOutOwn
<1>4. L.panes # <<>>
  BY <1>2, <1>3 DEF Live
<1> DEFINE R == [L EXCEPT !.active = Shown(L, L.active)]
<1>5. Own(R) /\ ToSet(R.panes) = In(w) /\ R.panes = win[w].panes
  BY <1>1, <1>3, <1>4, ResizedOwn
<1> HIDE DEF R
<1>6. win' = [win EXCEPT ![w] = R]
  BY <1>1 DEF R
<1> QED
  BY <1>2, <1>5, <1>6, SamePanes

(***************************************************************************)
(* The theorems.                                                           *)
(***************************************************************************)
\* No window has a pane at the start.
LEMMA InitInv == Init => IInv
<1> SUFFICES ASSUME Init PROVE IInv
  OBVIOUS
<1>1. /\ \A w \in WindowId : win[w] = NoPanes
      /\ win = [w \in WindowId |-> NoPanes] /\ window = [p \in PaneId |-> NoWindow]
      /\ dead = {} /\ died = "no"
  BY DEF Init
<1>2. Own(NoPanes) /\ ToSet(NoPanes.panes) = {} /\ NoPanes \in WinType
  BY NoPanesOwn DEF Own, Shape
<1> HIDE DEF NoPanes
<1>3. \A w \in WindowId, p \in PaneId : p \in In(w) <=> window[p] = w
  BY <1>1, <1>2, NoneAssumption DEF In
<1> QED
  BY <1>1, <1>2, <1>3 DEF IInv

\* Every command keeps the invariant.
LEMMA NextInv ==
    ASSUME ~Behind, IInv, [Next]_vars
    PROVE  Kept
<1>1. CASE UNCHANGED vars
  <2>1. IInv' /\ win' = win
    BY <1>1 DEF vars, IInv, In
  <2> QED
    BY <2>1, NoneBack DEF Kept
<1>2. ASSUME NEW w \in WindowId, NEW p \in PaneId, NewWindow(w, p) PROVE Kept
  BY <1>2, NewWindowInv
<1>3. ASSUME NEW w \in WindowId, NEW p \in PaneId, NEW det \in BOOLEAN,
             SplitWindow(w, p, det)
      PROVE  Kept
  BY <1>3, SplitWindowInv
<1>4. ASSUME NEW w \in WindowId, KillWindow(w) PROVE Kept
  BY <1>4, KillWindowInv
<1>5. ASSUME NEW w \in WindowId, NEW p \in PaneId, KillPane(w, p) PROVE Kept
  BY <1>5, KillPaneInv
<1>6. ASSUME NEW w \in WindowId, NEW p \in PaneId, KillOthers(w, p) PROVE Kept
  BY <1>6, KillOthersInv
<1>7. ASSUME NEW w \in WindowId, NEW kill \in BOOLEAN, RespawnWindow(w, kill) PROVE Kept
  BY <1>7, RespawnWindowInv
<1>8. ASSUME NEW w \in WindowId, NEW kill \in BOOLEAN, NEW remain \in BOOLEAN,
             RespawnFails(w, kill, remain)
      PROVE  Kept
  BY <1>8, RespawnFailsInv
<1>9. ASSUME NEW w \in WindowId, NEW down \in BOOLEAN, RotateWindow(w, down) PROVE Kept
  BY <1>9, RotateWindowInv
<1>10. ASSUME NEW w \in WindowId, NEW p \in PaneId, SelectPane(w, p) PROVE Kept
  BY <1>10, SelectPaneInv
<1>11. ASSUME NEW w \in WindowId, LastPane(w) PROVE Kept
  BY <1>11, LastPaneInv
<1>12. ASSUME NEW w \in WindowId, NEW p \in PaneId, NEW q \in PaneId, SwapHere(w, p, q)
       PROVE  Kept
  BY <1>12, SwapHereInv
<1>13. ASSUME NEW w \in WindowId, NEW p \in PaneId, NEW q \in PaneId,
              SwapHereDetached(w, p, q)
       PROVE  Kept
  BY <1>13, SwapHereDetachedInv
<1>14. ASSUME NEW w \in WindowId, Relayout(w) PROVE Kept
  BY <1>14, RelayoutInv
<1>15. ASSUME NEW w \in WindowId, Resize(w) PROVE Kept
  BY <1>15, ResizeInv
<1>16. ASSUME NEW p \in PaneId, NEW remain \in BOOLEAN, DestroyPane(p, remain) PROVE Kept
  BY <1>16, DestroyPaneInv
<1>17. ASSUME NEW w \in WindowId, NEW v \in WindowId, NEW p \in PaneId, NEW q \in PaneId,
              NEW det \in BOOLEAN, JoinPane(w, p, v, q, det)
       PROVE  Kept
  BY <1>17, JoinPaneInv
<1>18. ASSUME NEW w \in WindowId, NEW v \in WindowId, NEW p \in PaneId, NEW q \in PaneId,
              NEW det \in BOOLEAN, SwapPane(w, p, v, q, det)
       PROVE  Kept
  BY <1>18, SwapPaneInv
<1>19. ASSUME NEW w \in WindowId, NEW v \in WindowId, NEW p \in PaneId, BreakPane(w, p, v)
       PROVE  Kept
  BY <1>19, BreakPaneInv
<1> QED
  BY <1>1, <1>2, <1>3, <1>4, <1>5, <1>6, <1>7, <1>8, <1>9, <1>10, <1>11, <1>12, <1>13,
     <1>14, <1>15, <1>16, <1>17, <1>18, <1>19 DEF Next

\* Unless the last pane is left behind, the panes and the windows agree.
THEOREM Invariance ==
    ASSUME ~Behind
    PROVE  Spec => []IInv
<1>1. Init => IInv
  BY InitInv
<1>2. IInv /\ [Next]_vars => IInv'
  BY NextInv DEF Kept
<1> QED
  BY <1>1, <1>2, PTL DEF Spec

\* A pane is in the list of the window it points to, once, and in no other, and the
\* last pane is another pane of the window: window_remove_pane can always fall back.
THEOREM PanesAreSound ==
    ASSUME ~Behind
    PROVE  Spec => []PanesSound
<1>1. IInv => PanesSound
  <2> SUFFICES ASSUME IInv PROVE PanesSound
    OBVIOUS
  <2>1. TypeOK
    BY DEF IInv, Own, Shape, TypeOK
  <2>2. ASSUME NEW w \in WindowId
        PROVE  /\ IsInjective(win[w].panes)
               /\ \A p \in PaneId : p \in In(w) <=> window[p] = w
               /\ win[w].last # NoPane => win[w].last \in In(w) \ {win[w].active}
    BY DEF IInv, Own, Shape, In
  <2> QED
    BY <2>1, <2>2 DEF PanesSound
<1> QED
  BY <1>1, Invariance, PTL

\* A window's active pane, which every key and redraw dereferences, is one of its panes.
THEOREM ActiveIsOwned ==
    ASSUME ~Behind
    PROVE  Spec => []ActiveOwned
<1>1. IInv => ActiveOwned
  BY DEF IInv, Own, Shape, ActiveOwned, Live, In
<1> QED
  BY <1>1, Invariance, PTL

\* A window whose active pane ends or breaks away goes back to its last pane, and one that
\* loses any other panes keeps its active one, and its last one unless it is among them.
THEOREM FallsBackToLastPane ==
    ASSUME ~Behind
    PROVE  Spec => FallBackToLastPane
<1>1. IInv /\ [Next]_vars
        => [\A w \in Live : LET W == win[w] IN
              /\ ToSet(win'[w].panes) \subseteq In(w) /\ win'[w].panes # <<>>
              /\ \A p \in In(w) : window'[p] \notin Live \ {w}
              /\ Len(win'[w].panes) < Len(W.panes)
              => LET left == ToSet(win'[w].panes)
                 IN  /\ W.active \in left
                        => /\ win'[w].active = W.active
                           /\ win'[w].last = IF W.last \in left THEN W.last ELSE NoPane
                     /\ W.active \notin left /\ W.last \in left
                        => win'[w].active = W.last]_vars
  BY NextInv DEF Kept, Back, FallsBack, Live, In
<1> QED
  BY <1>1, Invariance, PTL DEF Spec, FallBackToLastPane

=============================================================================
