---------------------------- MODULE ScreenProofs ----------------------------
(***************************************************************************)
(* What is written to a screen leaves it whole, and the alternate screen   *)
(* leaves the history alone, for every size, history limit, parameter and  *)
(* sequence of steps; and copy mode stays on the lines that there are.     *)
(***************************************************************************)
EXTENDS CopyMode, SequenceLemmas

(***************************************************************************)
(* Screens whose lines have changed.                                       *)
(***************************************************************************)

SameRest(S, T) ==
    /\ T.hs = S.hs /\ T.lim = S.lim /\ T.hist = S.hist /\ T.sx = S.sx /\ T.sy = S.sy
    /\ T.cx = S.cx /\ T.cy = S.cy /\ T.up = S.up /\ T.lo = S.lo
    /\ T.wrap = S.wrap /\ T.ins = S.ins /\ T.tabs = S.tabs

\* Only lines have changed, and only below the first h.
Redrawn(h, S, T) ==
    /\ T \in ScreenType
    /\ SameRest(S, T)
    /\ Len(T.ln) = Len(S.ln)
    /\ \A i \in 1..Len(S.ln) : i <= h => T.ln[i] = S.ln[i]

LEMMA RedrawnSame ==
    ASSUME NEW S \in ScreenType, NEW h
    PROVE  Redrawn(h, S, S)
BY DEF Redrawn, SameRest

LEMMA RedrawnTwice ==
    ASSUME NEW S, NEW T, NEW U, NEW h, Redrawn(h, S, T), Redrawn(h, T, U)
    PROVE  Redrawn(h, S, U)
BY DEF Redrawn, SameRest

\* The lines of a screen as a function.
LEMMA LinesOf ==
    ASSUME NEW S \in ScreenType
    PROVE  /\ S.ln \in Seq(GridLine) /\ Len(S.ln) \in Nat
           /\ DOMAIN S.ln = 1..Len(S.ln) /\ S.ln \in [1..Len(S.ln) -> GridLine]
<1>1. S.ln \in Seq(GridLine)
  BY DEF ScreenType
<1> QED
  BY <1>1, LenProperties, ElementOfSeq

LEMMA FunctionIsSeq ==
    ASSUME NEW X, NEW n \in Nat, NEW f \in [1..n -> X]
    PROVE  f \in Seq(X) /\ Len(f) = n
<1>1. f \in Seq(X)
  BY SeqDef
<1> QED
  BY <1>1, LenProperties

LEMMA WithLines ==
    ASSUME NEW S \in ScreenType, NEW q \in Seq(GridLine)
    PROVE  /\ [S EXCEPT !.ln = q] \in ScreenType
           /\ [S EXCEPT !.ln = q].ln = q
           /\ SameRest(S, [S EXCEPT !.ln = q])
BY DEF ScreenType, SameRest

LEMMA MapLines ==
    ASSUME NEW S \in ScreenType, NEW h, NEW q \in [1..Len(S.ln) -> GridLine],
           \A i \in 1..Len(S.ln) : i <= h => q[i] = S.ln[i]
    PROVE  Redrawn(h, S, [S EXCEPT !.ln = q])
<1>1. q \in Seq(GridLine) /\ Len(q) = Len(S.ln)
  BY LinesOf, FunctionIsSeq
<1> QED
  BY <1>1, WithLines DEF Redrawn

LEMMA BlankLine == Blank \in GridLine
<1>1. <<>> \in Seq(Cell)
  OBVIOUS
<1> QED
  BY <1>1 DEF Blank, GridLine

Whole(S) == S \in ScreenType /\ GridWhole(S)

LEMMA ClearLinesRedrawn ==
    ASSUME NEW S \in ScreenType, NEW h \in Nat, NEW py \in Int, NEW ny \in Int, h <= py
    PROVE  Redrawn(h, S, ClearLines(S, py, ny))
<1> DEFINE q == [i \in DOMAIN S.ln |-> IF i - 1 \in py..py + ny - 1 THEN Blank ELSE S.ln[i]]
<1>1. q \in [1..Len(S.ln) -> GridLine]
  BY LinesOf, BlankLine
<1>2. \A i \in 1..Len(S.ln) : i <= h => q[i] = S.ln[i]
  BY LinesOf
<1>3. ClearLines(S, py, ny) \in {S, [S EXCEPT !.ln = q]}
  BY DEF ClearLines
<1> HIDE DEF q
<1> QED
  BY <1>1, <1>2, <1>3, MapLines, RedrawnSame

\* Where lines are moved, they come from lines that there are.
LEMMA MoveLinesRedrawn ==
    ASSUME NEW S \in ScreenType, Len(S.ln) = S.hs + S.sy, NEW h \in Nat,
           NEW dy \in Int, NEW py \in Int, NEW ny \in Int, h <= dy, h <= py
    PROVE  Redrawn(h, S, MoveLines(S, dy, py, ny))
<1> DEFINE q == [i \in DOMAIN S.ln |->
                    IF i - 1 \in dy..dy + ny - 1 THEN S.ln[i - dy + py]
                    ELSE IF i - 1 \in py..py + ny - 1 THEN Blank ELSE S.ln[i]]
<1>1. CASE \/ ny <= 0 \/ py = dy
           \/ \E y \in {py, py + ny - 1, dy, dy + ny - 1} : ~CheckY(S, y)
  <2>1. MoveLines(S, dy, py, ny) = S
    BY <1>1 DEF MoveLines
  <2> QED
    BY <2>1, RedrawnSame
<1>2. CASE ~(\/ ny <= 0 \/ py = dy
             \/ \E y \in {py, py + ny - 1, dy, dy + ny - 1} : ~CheckY(S, y))
  <2>1. MoveLines(S, dy, py, ny) = [S EXCEPT !.ln = q]
    BY <1>2 DEF MoveLines
  <2>2. 0 <= py /\ py + ny - 1 < Len(S.ln)
    BY <1>2 DEF CheckY, Lines
  <2>3. \A i \in DOMAIN S.ln : i - 1 \in dy..dy + ny - 1 => i - dy + py \in DOMAIN S.ln
    BY <2>2, LinesOf
  <2>4. q \in [1..Len(S.ln) -> GridLine]
    BY <2>3, LinesOf, BlankLine
  <2>5. \A i \in 1..Len(S.ln) : i <= h => q[i] = S.ln[i]
    BY LinesOf
  <2> HIDE DEF q
  <2> QED
    BY <2>1, <2>4, <2>5, MapLines
<1> QED
  BY <1>1, <1>2

\* The greatest of a non-empty set of numbers up to n.
LEMMA MaxProps ==
    ASSUME NEW n \in Nat, NEW T \in SUBSET (0..n), T # {}
    PROVE  Max(T) \in T /\ \A y \in T : Max(T) >= y
<1> DEFINE U == {n - x : x \in T}
<1>0. \A x \in T : n - x \in Nat
  OBVIOUS
<1>1. U \in SUBSET Nat /\ U # {}
  BY <1>0
<1>2. Min(U) \in U /\ \A y \in U : Min(U) <= y
  <2> HIDE DEF U
  <2> QED
    BY <1>1, MinProps
<1>3. PICK x \in T : Min(U) = n - x
  BY <1>2
<1>4. \A y \in T : x >= y
  <2> SUFFICES ASSUME NEW y \in T PROVE x >= y
    OBVIOUS
  <2>1. n - x <= n - y
    BY <1>2, <1>3
  <2> QED
    BY <2>1
<1> QED
  BY <1>4 DEF Max

LEMMA LineFields ==
    ASSUME NEW l \in GridLine
    PROVE  /\ l.c \in Seq(Cell) /\ Len(l.c) \in Nat /\ DOMAIN l.c = 1..Len(l.c)
           /\ l.c \in [1..Len(l.c) -> Cell] /\ l.wr \in BOOLEAN /\ l.u \in BOOLEAN
<1>1. l.c \in Seq(Cell)
  BY DEF GridLine
<1>2. l.c \in [1..Len(l.c) -> Cell]
  BY <1>1, LenProperties, ElementOfSeq
<1> QED
  BY <1>1, <1>2, LenProperties DEF GridLine

LEMMA WithCells ==
    ASSUME NEW l \in GridLine, NEW c \in Seq(Cell)
    PROVE  [l EXCEPT !.c = c] \in GridLine
BY DEF GridLine

\* One line has changed.
LEMMA OneLine ==
    ASSUME NEW S \in ScreenType, NEW h \in Nat, NEW y \in Int, h <= y, y < Len(S.ln),
           NEW l \in GridLine
    PROVE  Redrawn(h, S, [S EXCEPT !.ln[y + 1] = l])
<1> DEFINE q == [S.ln EXCEPT ![y + 1] = l]
<1>1. q \in [1..Len(S.ln) -> GridLine]
  BY LinesOf
<1>2. \A i \in 1..Len(S.ln) : i <= h => q[i] = S.ln[i]
  BY LinesOf
<1>3. [S EXCEPT !.ln[y + 1] = l] = [S EXCEPT !.ln = q]
  OBVIOUS
<1> HIDE DEF q
<1> QED
  BY <1>1, <1>2, <1>3, MapLines

\* The cells of a line, as many as are asked for.
LEMMA ExpandedProps ==
    ASSUME NEW S \in ScreenType, NEW y \in Nat, y < Len(S.ln), NEW n \in Int
    PROVE  /\ Expanded(S, y, n) \in Seq(Cell)
           /\ Len(Expanded(S, y, n)) \in Nat
           /\ DOMAIN Expanded(S, y, n) = 1..Len(Expanded(S, y, n))
           /\ n <= Len(Expanded(S, y, n))
           /\ \A i \in DOMAIN Expanded(S, y, n) : Expanded(S, y, n)[i] \in Cell
<1> DEFINE c == S.ln[y + 1].c
           m == Greatest(0, n - Len(c))
           d == [i \in 1..m |-> "-"]
<1>1. c \in Seq(Cell) /\ Len(c) \in Nat
  BY LinesOf, LineFields
<1>2. m \in Nat /\ n <= Len(c) + m
  <2> HIDE DEF c
  <2> QED
    BY <1>1 DEF Greatest
<1>3. d \in [1..m -> Cell]
  BY DEF Cell
<1>4. d \in Seq(Cell) /\ Len(d) = m
  BY <1>2, <1>3, FunctionIsSeq
<1>5. Expanded(S, y, n) = c \o d
  BY DEF Expanded
<1>6. c \o d \in Seq(Cell) /\ Len(c \o d) = Len(c) + m
  <2> HIDE DEF c, d, m
  <2> QED
    BY <1>1, <1>4, ConcatProperties
<1> QED
  BY <1>1, <1>2, <1>5, <1>6, LenProperties, ElementOfSeq

LEMMA SetCellsRedrawn ==
    ASSUME NEW S \in ScreenType, Len(S.ln) = S.hs + S.sy, NEW h \in Nat,
           NEW n \in Nat, NEW xs \in SUBSET (0..n), NEW y \in Int, h <= y, NEW f \in Cell
    PROVE  Redrawn(h, S, SetCells(S, xs, y, f))
<1> DEFINE E(i) == Expanded(S, y, i)
           top  == Len(E(Max(xs) + 1))
           c    == [i \in 1..top |-> IF i - 1 \in xs THEN f ELSE E(i)[i]]
<1>1. CASE xs = {} \/ ~CheckY(S, y)
  BY <1>1, RedrawnSame DEF SetCells
<1>2. CASE xs # {} /\ CheckY(S, y)
  <2>1. y \in Nat /\ y < Len(S.ln)
    BY <1>2 DEF CheckY, Lines
  <2>2. Max(xs) + 1 \in Int
    <3>1. Max(xs) \in xs
      BY <1>2, MaxProps
    <3>2. \A x \in xs : x \in Int
      OBVIOUS
    <3>3. Max(xs) \in Int
      BY <3>1, <3>2
    <3> QED
      BY <3>3
  <2>3. top \in Nat
    BY <2>1, <2>2, ExpandedProps
  <2>4. ASSUME NEW i \in 1..top PROVE E(i)[i] \in Cell
    <3>1. i \in Int /\ i <= Len(E(i)) /\ Len(E(i)) \in Nat
      BY <2>1, <2>3, ExpandedProps
    <3>2. i \in DOMAIN E(i)
      BY <2>1, <2>3, <3>1, ExpandedProps
    <3> QED
      BY <2>1, <3>1, <3>2, ExpandedProps
  <2>5. c \in [1..top -> Cell]
    <3> HIDE DEF E, top
    <3> QED
      BY <2>4
  <2>6. c \in Seq(Cell)
    <3> HIDE DEF c, top
    <3> QED
      BY <2>3, <2>5, FunctionIsSeq
  <2>7. S.ln[y + 1] \in GridLine
    BY <2>1, LinesOf
  <2>8. SetCells(S, xs, y, f) = [S EXCEPT !.ln[y + 1].c = c]
    BY <1>2 DEF SetCells
  <2> HIDE DEF c
  <2> DEFINE l == [S.ln[y + 1] EXCEPT !.c = c]
  <2>9. [S EXCEPT !.ln[y + 1].c = c] = [S EXCEPT !.ln[y + 1] = l]
    BY <2>1, LinesOf
  <2>10. l \in GridLine
    BY <2>6, <2>7, WithCells
  <2> HIDE DEF l
  <2>11. Redrawn(h, S, [S EXCEPT !.ln[y + 1] = l])
    BY <2>1, <2>10, OneLine
  <2> QED
    BY <2>8, <2>9, <2>11
<1> QED
  BY <1>1, <1>2

LEMMA ClearCellsLine ==
    ASSUME NEW l \in GridLine, NEW px \in Nat, NEW nx \in Int
    PROVE  ClearCells(l, px, nx) \in GridLine
<1> DEFINE n == Len(l.c)
           c == [i \in DOMAIN l.c |-> IF i - 1 \in px..px + nx - 1 THEN "-" ELSE l.c[i]]
<1>1. n \in Nat /\ l.c \in [1..n -> Cell] /\ DOMAIN l.c = 1..n /\ l.c \in Seq(Cell)
  BY LineFields
<1>2. c \in [1..n -> Cell]
  BY <1>1 DEF Cell
<1>3. c \in Seq(Cell)
  <2> HIDE DEF c
  <2> QED
    BY <1>1, <1>2, FunctionIsSeq
<1>4. px < n => SubSeq(l.c, 1, px) \in Seq(Cell)
  BY <1>1, SubSeqProperties
<1>5. CASE px >= n
  BY <1>5 DEF ClearCells
<1>6. CASE px < n /\ px + nx >= n
  <2>1. ClearCells(l, px, nx) = [l EXCEPT !.c = SubSeq(l.c, 1, px)]
    BY <1>1, <1>6 DEF ClearCells
  <2> QED
    BY <1>4, <1>6, <2>1, WithCells
<1>7. CASE px < n /\ ~(px + nx >= n)
  <2>1. ClearCells(l, px, nx) = [l EXCEPT !.c = c]
    BY <1>1, <1>7 DEF ClearCells
  <2> HIDE DEF c
  <2> QED
    BY <1>3, <2>1, WithCells
<1> QED
  BY <1>1, <1>5, <1>6, <1>7

LEMMA ClearRedrawn ==
    ASSUME NEW S \in ScreenType, NEW h \in Nat, NEW px \in Nat, NEW nx \in Int,
           NEW py \in Int, NEW ny \in Int, h <= py
    PROVE  Redrawn(h, S, Clear(S, px, py, nx, ny))
<1> DEFINE q == [i \in DOMAIN S.ln |->
                    IF i - 1 \in py..py + ny - 1 THEN ClearCells(S.ln[i], px, nx) ELSE S.ln[i]]
<1>1. q \in [1..Len(S.ln) -> GridLine]
  BY LinesOf, ClearCellsLine
<1>2. \A i \in 1..Len(S.ln) : i <= h => q[i] = S.ln[i]
  BY LinesOf
<1>3. Clear(S, px, py, nx, ny) \in {S, ClearLines(S, py, ny), [S EXCEPT !.ln = q]}
  BY DEF Clear
<1> HIDE DEF q
<1> QED
  BY <1>1, <1>2, <1>3, MapLines, RedrawnSame, ClearLinesRedrawn

LEMMA MoveCellsRedrawn ==
    ASSUME NEW S \in ScreenType, Len(S.ln) = S.hs + S.sy, NEW h \in Nat,
           NEW dx \in Nat, NEW px \in Nat, NEW y \in Int, NEW nx \in Nat, h <= y
    PROVE  Redrawn(h, S, MoveCells(S, dx, px, y, nx))
<1> DEFINE E == Expanded(S, y, Greatest(px, dx) + nx)
           c == [i \in DOMAIN E |-> IF i - 1 \in dx..dx + nx - 1 THEN E[i - dx + px]
                                    ELSE IF i - 1 \in px..px + nx - 1 THEN "-" ELSE E[i]]
<1>1. CASE nx = 0 \/ px = dx \/ ~CheckY(S, y)
  BY <1>1, RedrawnSame DEF MoveCells
<1>2. CASE ~(nx = 0 \/ px = dx \/ ~CheckY(S, y))
  <2>1. y \in Nat /\ y < Len(S.ln)
    BY <1>2 DEF CheckY, Lines
  <2>2. Greatest(px, dx) \in Nat /\ px <= Greatest(px, dx)
    BY DEF Greatest
  <2>3. /\ Len(E) \in Nat /\ DOMAIN E = 1..Len(E) /\ px + nx <= Len(E)
        /\ \A i \in DOMAIN E : E[i] \in Cell
    BY <2>1, <2>2, ExpandedProps
  <2> HIDE DEF E
  <2>4. \A i \in DOMAIN E : i - 1 \in dx..dx + nx - 1 => i - dx + px \in DOMAIN E
    BY <2>3
  <2>5. c \in [1..Len(E) -> Cell]
    BY <2>3, <2>4 DEF Cell
  <2>6. c \in Seq(Cell)
    <3> HIDE DEF c
    <3> QED
      BY <2>3, <2>5, FunctionIsSeq
  <2>7. S.ln[y + 1] \in GridLine
    BY <2>1, LinesOf
  <2>8. MoveCells(S, dx, px, y, nx) = [S EXCEPT !.ln[y + 1].c = c]
    BY <1>2 DEF MoveCells, E
  <2> HIDE DEF c
  <2> DEFINE l == [S.ln[y + 1] EXCEPT !.c = c]
  <2>9. [S EXCEPT !.ln[y + 1].c = c] = [S EXCEPT !.ln[y + 1] = l]
    BY <2>1, LinesOf
  <2>10. l \in GridLine
    BY <2>6, <2>7, WithCells
  <2> HIDE DEF l
  <2>11. Redrawn(h, S, [S EXCEPT !.ln[y + 1] = l])
    BY <2>1, <2>10, OneLine
  <2> QED
    BY <2>8, <2>9, <2>11
<1> QED
  BY <1>1, <1>2

(***************************************************************************)
(* Writing to a screen.                                                    *)
(***************************************************************************)

\* Without history lines scroll on the screen only.
KeepsHistory(S, T) == T.hs = S.hs /\ \A i \in 1..S.hs : T.ln[i] = S.ln[i]

\* T is what may become of S: whole, of the same size, and with the same history if
\* none is kept, unless in insert mode.
Drawn(S, T) ==
    /\ Whole(T)
    /\ T.sx = S.sx /\ T.sy = S.sy /\ T.lim = S.lim /\ T.hist = S.hist
    /\ T.wrap = S.wrap /\ T.ins = S.ins
    /\ ~S.hist /\ ~S.ins => KeepsHistory(S, T)
    /\ S.lim = Unlimited => S.hs <= T.hs

LEMMA WholeFields ==
    ASSUME NEW S, Whole(S)
    PROVE  /\ S \in ScreenType /\ S.hs \in Nat /\ S.sx \in Nat \ {0} /\ S.sy \in Nat \ {0}
           /\ S.cx \in Nat /\ S.cy \in Nat /\ S.up \in Nat /\ S.lo \in Nat
           /\ S.cy < S.sy /\ S.up <= S.lo /\ S.lo < S.sy /\ S.tabs \in SUBSET Nat
           /\ S.hist \in BOOLEAN /\ S.ins \in BOOLEAN /\ S.wrap \in BOOLEAN
           /\ S.lim \in (Nat \ {0}) \cup {Unlimited}
           /\ Len(S.ln) = S.hs + S.sy
BY DEF Whole, ScreenType, GridWhole

LEMMA DrawnSame ==
    ASSUME NEW S, Whole(S)
    PROVE  Drawn(S, S)
BY WholeFields DEF Drawn, KeepsHistory

LEMMA DrawnTwice ==
    ASSUME NEW S, NEW T, NEW U, Whole(S), Drawn(S, T), Drawn(T, U)
    PROVE  Drawn(S, U)
<1>1. S.hs \in Nat /\ T.hs \in Nat /\ U.hs \in Nat
  BY WholeFields DEF Drawn
<1> QED
  BY <1>1 DEF Drawn, KeepsHistory

LEMMA RedrawnDrawn ==
    ASSUME NEW S, Whole(S), NEW h \in Nat, NEW T, Redrawn(h, S, T),
           S.hs <= h \/ S.hist \/ S.ins
    PROVE  Drawn(S, T)
<1>1. Whole(T)
  BY DEF Redrawn, SameRest, Whole, GridWhole
<1>2. S.hs \in Nat /\ Len(S.ln) = S.hs + S.sy /\ S.sy \in Nat
  BY WholeFields
<1>3. S.hs <= h => KeepsHistory(S, T)
  <2> SUFFICES ASSUME S.hs <= h, NEW i \in 1..S.hs PROVE T.ln[i] = S.ln[i]
    BY DEF Redrawn, SameRest, KeepsHistory
  <2>1. i \in 1..Len(S.ln) /\ i <= h
    BY <1>2
  <2> QED
    BY <2>1 DEF Redrawn
<1>4. ~S.hist /\ ~S.ins => KeepsHistory(S, T)
  BY <1>3
<1>5. T.hs = S.hs /\ S.hs <= T.hs
  BY <1>2 DEF Redrawn, SameRest
<1> QED
  BY <1>1, <1>4, <1>5 DEF Redrawn, SameRest, Drawn

\* The cursor, the region and the tab stops.
LEMMA SameLinesDrawn ==
    ASSUME NEW S, Whole(S), NEW T \in ScreenType, T.ln = S.ln,
           T.hs = S.hs, T.lim = S.lim, T.hist = S.hist, T.sx = S.sx, T.sy = S.sy,
           T.wrap = S.wrap, T.ins = S.ins, T.cy < S.sy, T.up <= T.lo, T.lo < S.sy
    PROVE  Drawn(S, T)
<1>1. T.cx \in Nat /\ T.cy \in Nat /\ T.up \in Nat /\ T.lo \in Nat
  BY DEF ScreenType
<1>2. Whole(T)
  BY <1>1, WholeFields DEF Whole, GridWhole
<1>3. KeepsHistory(S, T)
  BY DEF KeepsHistory
<1> QED
  BY <1>2, <1>3, WholeFields DEF Drawn

LEMMA CxDrawn ==
    ASSUME NEW S, Whole(S), NEW x \in Nat
    PROVE  Drawn(S, [S EXCEPT !.cx = x])
<1> DEFINE T == [S EXCEPT !.cx = x]
<1>0. S \in ScreenType
  BY WholeFields
<1>1. /\ T \in ScreenType /\ T.ln = S.ln /\ T.hs = S.hs /\ T.lim = S.lim /\ T.hist = S.hist
      /\ T.sx = S.sx /\ T.sy = S.sy /\ T.wrap = S.wrap /\ T.ins = S.ins
      /\ T.cy = S.cy /\ T.up = S.up /\ T.lo = S.lo
  BY <1>0 DEF ScreenType
<1>2. Drawn(S, T)
  <2> HIDE DEF T
  <2> QED
    BY <1>1, WholeFields, SameLinesDrawn
<1> QED
  BY <1>2

LEMMA CyDrawn ==
    ASSUME NEW S, Whole(S), NEW y \in Nat, y < S.sy
    PROVE  Drawn(S, [S EXCEPT !.cy = y])
<1> DEFINE T == [S EXCEPT !.cy = y]
<1>0. S \in ScreenType
  BY WholeFields
<1>1. /\ T \in ScreenType /\ T.ln = S.ln /\ T.hs = S.hs /\ T.lim = S.lim /\ T.hist = S.hist
      /\ T.sx = S.sx /\ T.sy = S.sy /\ T.wrap = S.wrap /\ T.ins = S.ins
      /\ T.cy = y /\ T.up = S.up /\ T.lo = S.lo
  BY <1>0 DEF ScreenType
<1>2. Drawn(S, T)
  <2> HIDE DEF T
  <2> QED
    BY <1>1, WholeFields, SameLinesDrawn
<1> QED
  BY <1>2

LEMMA CursorDrawn ==
    ASSUME NEW S, Whole(S), NEW x \in Nat, NEW y \in Nat, y < S.sy
    PROVE  Drawn(S, [S EXCEPT !.cx = x, !.cy = y])
<1> DEFINE T == [S EXCEPT !.cx = x]
<1>1. Whole(T) /\ T.sy = S.sy /\ Drawn(S, T)
  <2>1. Drawn(S, T)
    BY CxDrawn
  <2> HIDE DEF T
  <2> QED
    BY <2>1 DEF Drawn
<1>2. Drawn(T, [T EXCEPT !.cy = y])
  <2> HIDE DEF T
  <2> QED
    BY <1>1, CyDrawn
<1>3. Drawn(S, [T EXCEPT !.cy = y])
  <2> HIDE DEF T
  <2> QED
    BY <1>1, <1>2, DrawnTwice
<1> QED
  BY <1>3

LEMMA RegionDrawn ==
    ASSUME NEW S, Whole(S), NEW u \in Nat, NEW l \in Nat, u <= l, l < S.sy
    PROVE  Drawn(S, [S EXCEPT !.cx = 0, !.cy = 0, !.up = u, !.lo = l])
<1> DEFINE T == [S EXCEPT !.cx = 0, !.cy = 0]
           U == [T EXCEPT !.up = u, !.lo = l]
<1>0. Drawn(S, T)
  <2>1. 0 \in Nat /\ 0 < S.sy
    BY WholeFields
  <2> QED
    BY <2>1, CursorDrawn
<1> HIDE DEF T
<1>1. Whole(T) /\ T.sy = S.sy /\ Drawn(S, T)
  BY <1>0 DEF Drawn
<1>2. T \in ScreenType
  BY <1>1, WholeFields
<1>3. /\ U \in ScreenType /\ U.ln = T.ln /\ U.hs = T.hs /\ U.lim = T.lim /\ U.hist = T.hist
      /\ U.sx = T.sx /\ U.sy = T.sy /\ U.wrap = T.wrap /\ U.ins = T.ins
      /\ U.cy = T.cy /\ U.up = u /\ U.lo = l
  BY <1>2 DEF ScreenType
<1>4. T.cy < T.sy
  BY <1>1, WholeFields
<1>5. Drawn(T, U)
  <2> HIDE DEF U
  <2> QED
    BY <1>1, <1>3, <1>4, SameLinesDrawn
<1>6. Drawn(S, U)
  <2> HIDE DEF U
  <2> QED
    BY <1>1, <1>5, DrawnTwice
<1> QED
  BY <1>6 DEF T

LEMMA TabsDrawn ==
    ASSUME NEW S, Whole(S), NEW t \in SUBSET Nat
    PROVE  Drawn(S, [S EXCEPT !.tabs = t])
<1> DEFINE T == [S EXCEPT !.tabs = t]
<1>0. S \in ScreenType
  BY WholeFields
<1>1. /\ T \in ScreenType /\ T.ln = S.ln /\ T.hs = S.hs /\ T.lim = S.lim /\ T.hist = S.hist
      /\ T.sx = S.sx /\ T.sy = S.sy /\ T.wrap = S.wrap /\ T.ins = S.ins
      /\ T.cy = S.cy /\ T.up = S.up /\ T.lo = S.lo
  BY <1>0 DEF ScreenType
<1>2. Drawn(S, T)
  <2> HIDE DEF T
  <2> QED
    BY <1>1, WholeFields, SameLinesDrawn
<1> QED
  BY <1>2

\* The lines from y of the screen on.
LEMMA MoveLinesDrawn ==
    ASSUME NEW S, Whole(S), NEW dy \in Int, NEW py \in Int, NEW ny \in Int,
           S.hs <= dy, S.hs <= py
    PROVE  /\ Drawn(S, MoveLines(S, dy, py, ny)) /\ Whole(MoveLines(S, dy, py, ny))
           /\ MoveLines(S, dy, py, ny).hs = S.hs
<1> DEFINE M == MoveLines(S, dy, py, ny)
<1>1. S \in ScreenType /\ Len(S.ln) = S.hs + S.sy /\ S.hs \in Nat
  BY WholeFields
<1>2. Redrawn(S.hs, S, M)
  BY <1>1, MoveLinesRedrawn
<1> HIDE DEF M
<1>3. Drawn(S, M)
  BY <1>1, <1>2, RedrawnDrawn
<1> QED
  BY <1>2, <1>3 DEF Redrawn, SameRest, Drawn, M

LEMMA ClearDrawn ==
    ASSUME NEW S, Whole(S), NEW px \in Nat, NEW nx \in Int, NEW py \in Int, NEW ny \in Int,
           S.hs <= py
    PROVE  Drawn(S, Clear(S, px, py, nx, ny))
BY WholeFields, ClearRedrawn, RedrawnDrawn

\* Columns to write to, up to some column.
Columns(xs, n) == n \in Nat /\ xs \in SUBSET (0..n)

LEMMA SetCellsDrawn ==
    ASSUME NEW S, Whole(S), NEW n, NEW xs, Columns(xs, n), NEW y \in Int,
           S.hs <= y, NEW f \in Cell
    PROVE  /\ Drawn(S, SetCells(S, xs, y, f)) /\ Whole(SetCells(S, xs, y, f))
           /\ SameRest(S, SetCells(S, xs, y, f))
<1> DEFINE T == SetCells(S, xs, y, f)
<1>1. S \in ScreenType /\ Len(S.ln) = S.hs + S.sy /\ S.hs \in Nat
  BY WholeFields
<1>2. Redrawn(S.hs, S, T)
  BY <1>1, SetCellsRedrawn DEF Columns
<1> HIDE DEF T
<1>3. Drawn(S, T)
  BY <1>1, <1>2, RedrawnDrawn
<1>4. Whole(T) /\ SameRest(S, T)
  BY <1>2, <1>3 DEF Redrawn, Drawn
<1> QED
  BY <1>3, <1>4 DEF T

\* In insert mode MoveCells is given a line of the history.
LEMMA MoveCellsDrawn ==
    ASSUME NEW S, Whole(S), NEW dx \in Nat, NEW px \in Nat, NEW y \in Nat, NEW nx \in Nat,
           S.hs <= y \/ S.ins
    PROVE  Drawn(S, MoveCells(S, dx, px, y, nx))
<1> DEFINE h == IF S.ins THEN 0 ELSE S.hs
<1>1. h \in Nat /\ h <= y /\ (S.hs <= h \/ S.hist \/ S.ins)
  BY WholeFields
<1> HIDE DEF h
<1> QED
  BY <1>1, WholeFields, MoveCellsRedrawn, RedrawnDrawn

\* A flag of a line on the screen.
LEMMA FlagDrawn ==
    ASSUME NEW S, Whole(S), NEW y \in Nat, S.hs <= y, y < Len(S.ln), NEW b \in BOOLEAN
    PROVE  /\ Drawn(S, [S EXCEPT !.ln[y + 1].wr = b])
           /\ SameRest(S, [S EXCEPT !.ln[y + 1].wr = b])
           /\ Drawn(S, [S EXCEPT !.ln[y + 1].u = b])
           /\ SameRest(S, [S EXCEPT !.ln[y + 1].u = b])
<1> DEFINE l1 == [S.ln[y + 1] EXCEPT !.wr = b]
           l2 == [S.ln[y + 1] EXCEPT !.u = b]
<1>1. S \in ScreenType /\ Len(S.ln) = S.hs + S.sy /\ S.hs \in Nat
  BY WholeFields
<1>2. y + 1 \in DOMAIN S.ln /\ S.ln[y + 1] \in GridLine
  BY <1>1, LinesOf
<1>3. l1 \in GridLine /\ l2 \in GridLine
  BY <1>2 DEF GridLine
<1>4. /\ [S EXCEPT !.ln[y + 1].wr = b] = [S EXCEPT !.ln[y + 1] = l1]
      /\ [S EXCEPT !.ln[y + 1].u = b] = [S EXCEPT !.ln[y + 1] = l2]
  BY <1>2
<1> HIDE DEF l1, l2
<1>5. /\ Redrawn(S.hs, S, [S EXCEPT !.ln[y + 1] = l1])
      /\ Redrawn(S.hs, S, [S EXCEPT !.ln[y + 1] = l2])
  BY <1>1, <1>3, OneLine
<1>6. /\ Drawn(S, [S EXCEPT !.ln[y + 1] = l1])
      /\ Drawn(S, [S EXCEPT !.ln[y + 1] = l2])
  BY <1>1, <1>5, RedrawnDrawn
<1> QED
  BY <1>4, <1>5, <1>6 DEF Redrawn

LEMMA YProps ==
    ASSUME NEW S, Whole(S), NEW y \in Nat
    PROVE  Y(S, y) \in Nat /\ S.hs <= Y(S, y) /\ (y < S.sy => Y(S, y) < Len(S.ln))
BY WholeFields DEF Y

-----------------------------------------------------------------------------

LEMMA InsertLinesDrawn ==
    ASSUME NEW S, Whole(S), NEW py \in Nat, NEW ny \in Nat, py + ny <= S.sy
    PROVE  Drawn(S, InsertLines(S, py, ny))
<1>1. Y(S, py + ny) \in Nat /\ S.hs <= Y(S, py + ny) /\ Y(S, py) \in Nat /\ S.hs <= Y(S, py)
  BY YProps
<1>2. S.sy - py - ny \in Int
  BY WholeFields
<1> QED
  BY <1>1, <1>2, MoveLinesDrawn DEF InsertLines

LEMMA DeleteLinesRedrawn ==
    ASSUME NEW S, Whole(S), NEW py \in Nat, NEW ny \in Nat, py + ny <= S.sy
    PROVE  Redrawn(S.hs, S, DeleteLines(S, py, ny))
<1> DEFINE dy == Y(S, py)
           sy == Y(S, py + ny)
           cy == Y(S, S.sy - ny)
           n  == S.sy - py - ny
           k  == py + ny - (S.sy - ny)
           M  == MoveLines(S, dy, sy, n)
<1>1. S.sy - ny \in Nat /\ n \in Int /\ k \in Int /\ S.sx \in Int
  BY WholeFields
<1>2. dy \in Int /\ sy \in Int /\ cy \in Int /\ S.hs <= dy /\ S.hs <= sy /\ S.hs <= cy
  <2>1. py \in Nat /\ py + ny \in Nat /\ S.sy - ny \in Nat
    BY <1>1
  <2>2. \A i \in Nat : Y(S, i) \in Int /\ S.hs <= Y(S, i)
    BY YProps
  <2> QED
    BY <2>1, <2>2
<1>3. DeleteLines(S, py, ny) = Clear(M, 0, cy, S.sx, k)
  BY DEF DeleteLines
<1> HIDE DEF dy, sy, cy, n, k
<1>4. S \in ScreenType /\ Len(S.ln) = S.hs + S.sy /\ S.hs \in Nat
  BY WholeFields
<1>5. Redrawn(S.hs, S, M)
  BY <1>1, <1>2, <1>4, MoveLinesRedrawn
<1> HIDE DEF M
<1>6. M \in ScreenType
  BY <1>5 DEF Redrawn
<1>7. Redrawn(S.hs, M, Clear(M, 0, cy, S.sx, k))
  BY <1>1, <1>2, <1>4, <1>6, ClearRedrawn
<1> QED
  BY <1>3, <1>5, <1>7, RedrawnTwice

LEMMA DeleteLinesDrawn ==
    ASSUME NEW S, Whole(S), NEW py \in Nat, NEW ny \in Nat, py + ny <= S.sy
    PROVE  Drawn(S, DeleteLines(S, py, ny))
BY DeleteLinesRedrawn, RedrawnDrawn, WholeFields

LEMMA InsertLinesRegionDrawn ==
    ASSUME NEW S, Whole(S), NEW lo \in Nat, NEW py \in Nat, NEW ny \in Nat, py + ny <= lo + 1
    PROVE  Drawn(S, InsertLinesRegion(S, lo, py, ny))
<1> DEFINE n2 == lo + 1 - py - ny
           dy == Y(S, lo + 1 - n2)
           M  == MoveLines(S, dy, Y(S, py), n2)
<1>1. n2 \in Nat /\ lo + 1 - n2 \in Nat /\ py + n2 \in Nat /\ ny - n2 \in Int /\ S.sx \in Int
  BY WholeFields
<1>2. InsertLinesRegion(S, lo, py, ny) = Clear(M, 0, Y(S, py + n2), S.sx, ny - n2)
  BY DEF InsertLinesRegion, M, dy
<1> HIDE DEF n2
<1>3. /\ dy \in Nat /\ S.hs <= dy
      /\ Y(S, py) \in Nat /\ S.hs <= Y(S, py)
      /\ Y(S, py + n2) \in Nat /\ S.hs <= Y(S, py + n2)
  BY <1>1, YProps
<1> HIDE DEF dy
<1>4. dy \in Int /\ Y(S, py) \in Int /\ n2 \in Int
  BY <1>1, <1>3
<1>5. Whole(M) /\ M.hs = S.hs /\ Drawn(S, M)
  BY <1>3, <1>4, MoveLinesDrawn
<1> HIDE DEF M
<1>6. Drawn(M, Clear(M, 0, Y(S, py + n2), S.sx, ny - n2))
  BY <1>1, <1>3, <1>5, ClearDrawn
<1> QED
  BY <1>2, <1>5, <1>6, DrawnTwice

LEMMA DeleteLinesRegionDrawn ==
    ASSUME NEW S, Whole(S), NEW lo \in Nat, NEW py \in Nat, NEW ny \in Nat, py + ny <= lo + 1
    PROVE  Drawn(S, DeleteLinesRegion(S, lo, py, ny))
<1> DEFINE n2 == lo + 1 - py - ny
           M  == MoveLines(S, Y(S, py), Y(S, py + ny), n2)
<1>1. n2 \in Nat /\ py + n2 \in Nat /\ ny - n2 \in Int /\ S.sx \in Int
  BY WholeFields
<1>2. DeleteLinesRegion(S, lo, py, ny) = Clear(M, 0, Y(S, py + n2), S.sx, ny - n2)
  BY DEF DeleteLinesRegion
<1> HIDE DEF n2
<1>3. /\ Y(S, py + ny) \in Nat /\ S.hs <= Y(S, py + ny)
      /\ Y(S, py) \in Nat /\ S.hs <= Y(S, py)
      /\ Y(S, py + n2) \in Nat /\ S.hs <= Y(S, py + n2)
  BY <1>1, YProps
<1>4. Y(S, py) \in Int /\ Y(S, py + ny) \in Int /\ n2 \in Int
  BY <1>1, <1>3
<1>5. Whole(M) /\ M.hs = S.hs /\ Drawn(S, M)
  BY <1>3, <1>4, MoveLinesDrawn
<1> HIDE DEF M
<1> QED
  BY <1>1, <1>2, <1>3, <1>5, ClearDrawn, DrawnTwice

LEMMA ViewClearDrawn ==
    ASSUME NEW S, Whole(S), NEW px \in Nat, NEW py \in Nat, NEW nx \in Int, NEW ny \in Int
    PROVE  Drawn(S, ViewClear(S, px, py, nx, ny))
<1>1. Y(S, py) \in Int /\ S.hs <= Y(S, py)
  BY YProps
<1> QED
  BY <1>1, ClearDrawn DEF ViewClear

LEMMA InsertCellsDrawn ==
    ASSUME NEW S, Whole(S), NEW px \in Nat, NEW py \in Nat, NEW nx \in Nat, px + nx <= S.sx
    PROVE  Drawn(S, InsertCells(S, px, py, nx))
<1>1. Y(S, py) \in Nat /\ S.hs <= Y(S, py)
  BY YProps
<1>2. S.sx - px - nx \in Nat /\ px + nx \in Nat
  BY WholeFields
<1>3. Drawn(S, Clear(S, px, Y(S, py), 1, 1))
  BY <1>1, ClearDrawn
<1>4. Drawn(S, MoveCells(S, px + nx, px, Y(S, py), S.sx - px - nx))
  BY <1>1, <1>2, MoveCellsDrawn
<1> QED
  BY <1>3, <1>4 DEF InsertCells

LEMMA DeleteCellsDrawn ==
    ASSUME NEW S, Whole(S), NEW px \in Nat, NEW py \in Nat, NEW nx \in Nat, px + nx <= S.sx
    PROVE  Drawn(S, DeleteCells(S, px, py, nx))
<1> DEFINE y == Y(S, py)
           n == S.sx - px - nx
           M == MoveCells(S, px, px + nx, y, n)
           k == Greatest(0, px + nx - (S.sx - nx))
<1>1. y \in Nat /\ S.hs <= y
  BY YProps
<1>2. n \in Nat /\ px + nx \in Nat /\ S.sx - nx \in Nat /\ k \in Int
  BY WholeFields DEF Greatest
<1>3. S \in ScreenType /\ Len(S.ln) = S.hs + S.sy /\ S.hs \in Nat
  BY WholeFields
<1>4. DeleteCells(S, px, py, nx) = Clear(M, S.sx - nx, y, k, 1)
  BY DEF DeleteCells
<1> HIDE DEF n, y, k
<1>5. Redrawn(S.hs, S, M)
  BY <1>1, <1>2, <1>3, MoveCellsRedrawn
<1> HIDE DEF M
<1>6. Drawn(S, M) /\ M.hs = S.hs
  BY <1>3, <1>5, RedrawnDrawn DEF Redrawn, SameRest
<1>7. Whole(M)
  BY <1>6 DEF Drawn
<1>8. Drawn(M, Clear(M, S.sx - nx, y, k, 1))
  BY <1>1, <1>2, <1>6, <1>7, ClearDrawn
<1> QED
  BY <1>4, <1>6, <1>8, DrawnTwice

LEMMA ReinitDrawn ==
    ASSUME NEW S, Whole(S)
    PROVE  Whole(Reinit(S)) /\ Reinit(S).hist = S.hist /\ Reinit(S).sy = S.sy
           /\ (~S.hist => KeepsHistory(S, Reinit(S)))
<1> DEFINE T == [S EXCEPT !.cx = 0, !.cy = 0, !.up = 0, !.lo = S.sy - 1,
                          !.wrap = TRUE, !.ins = FALSE, !.tabs = {}]
<1>0. S \in ScreenType /\ S.sy - 1 \in Nat
  BY WholeFields
<1>1. /\ T \in ScreenType /\ T.ln = S.ln /\ T.hs = S.hs /\ T.hist = S.hist
      /\ T.sy = S.sy /\ T.cx = 0 /\ T.cy = 0 /\ T.up = 0 /\ T.lo = S.sy - 1
  BY <1>0 DEF ScreenType
<1>2. Reinit(S) = ClearLines(T, S.hs, S.sy)
  BY DEF Reinit
<1> HIDE DEF T
<1>3. Whole(T)
  BY <1>1, WholeFields DEF Whole, GridWhole
<1>4. Redrawn(S.hs, T, Reinit(S))
  BY <1>1, <1>2, WholeFields, ClearLinesRedrawn
<1>5. Drawn(T, Reinit(S))
  BY <1>1, <1>3, <1>4, WholeFields, RedrawnDrawn
<1>6. KeepsHistory(S, Reinit(S))
  BY <1>1, <1>4, WholeFields DEF Redrawn, SameRest, KeepsHistory
<1> QED
  BY <1>1, <1>5, <1>6 DEF Drawn

-----------------------------------------------------------------------------

\* The history grows: all that can be said of the lines is how many there are.
LEMMA GrownDrawn ==
    ASSUME NEW S, Whole(S), NEW q \in Seq(GridLine), NEW n \in Nat, Len(q) = n + S.sy,
           S.hist, S.lim = Unlimited => S.hs <= n
    PROVE  Drawn(S, [S EXCEPT !.hs = n, !.ln = q])
<1> DEFINE T == [S EXCEPT !.hs = n, !.ln = q]
<1>0. S \in ScreenType
  BY WholeFields
<1>1. /\ T \in ScreenType /\ T.ln = q /\ T.hs = n /\ T.lim = S.lim /\ T.hist = S.hist
      /\ T.sx = S.sx /\ T.sy = S.sy /\ T.wrap = S.wrap /\ T.ins = S.ins
      /\ T.cx = S.cx /\ T.cy = S.cy /\ T.up = S.up /\ T.lo = S.lo
  BY <1>0 DEF ScreenType
<1>2. Drawn(S, T)
  <2> HIDE DEF T
  <2>1. Whole(T)
    BY <1>1, WholeFields DEF Whole, GridWhole
  <2> QED
    BY <1>1, <2>1 DEF Drawn
<1> QED
  BY <1>2

LEMMA CollectHistoryDrawn ==
    ASSUME NEW S, Whole(S), S.hist
    PROVE  Drawn(S, CollectHistory(S))
<1> DEFINE n == AtLeastOne(S.lim \div 10)
           M == MoveLines(S, 0, n, Lines(S) - n)
           k == Len(M.ln) - n
           q == SubSeq(M.ln, 1, k)
<1>1. CASE S.lim = Unlimited \/ S.hs < S.lim
  BY <1>1, DrawnSame DEF CollectHistory
<1>2. CASE ~(S.lim = Unlimited \/ S.hs < S.lim)
  <2>1. S.lim \in Nat \ {0} /\ S.lim <= S.hs
    BY <1>2, WholeFields
  <2>2. n \in Nat /\ n <= S.hs
    <3>1. S.lim \div 10 \in Nat /\ S.lim \div 10 <= S.lim
      BY <2>1
    <3> QED
      BY <2>1, <3>1, WholeFields DEF AtLeastOne, Greatest
  <2> HIDE DEF n
  <2>3. S \in ScreenType /\ Len(S.ln) = S.hs + S.sy /\ S.hs \in Nat /\ S.sy \in Nat
    BY WholeFields
  <2>4. Lines(S) - n \in Int
    BY <2>2, <2>3 DEF Lines
  <2>5. Redrawn(0, S, M)
    BY <2>2, <2>3, <2>4, MoveLinesRedrawn
  <2>6. CollectHistory(S) = [M EXCEPT !.hs = M.hs - n, !.ln = SubSeq(M.ln, 1, Len(M.ln) - n)]
    BY <1>2 DEF CollectHistory, n
  <2> HIDE DEF M
  <2>7. Drawn(S, M) /\ Whole(M) /\ M.hs = S.hs /\ M.sy = S.sy /\ M.lim = S.lim /\ M.hist
        /\ Len(M.ln) = S.hs + S.sy
    <3>1. 0 \in Nat
      OBVIOUS
    <3>2. Drawn(S, M)
      BY <2>3, <2>5, <3>1, RedrawnDrawn
    <3> QED
      BY <2>3, <2>5, <3>2 DEF Redrawn, SameRest, Drawn
  <2>8. k \in Nat /\ k <= Len(M.ln) /\ M.ln \in Seq(GridLine)
    BY <2>2, <2>3, <2>7, WholeFields, LinesOf
  <2>9. q \in Seq(GridLine) /\ Len(q) = k
    BY <2>8, SubSeqProperties
  <2>10. M.hs - n \in Nat /\ k = (M.hs - n) + M.sy
    BY <2>2, <2>3, <2>7
  <2>11. M.lim # Unlimited
    BY <1>2, <2>7
  <2> HIDE DEF k
  <2>12. Drawn(M, [M EXCEPT !.hs = M.hs - n, !.ln = q])
    <3> HIDE DEF q
    <3> QED
      BY <2>7, <2>9, <2>10, <2>11, GrownDrawn
  <2> QED
    BY <2>6, <2>7, <2>12, DrawnTwice DEF k
<1> QED
  BY <1>1, <1>2

LEMMA LinesConcat ==
    ASSUME NEW p \in Seq(GridLine), NEW q \in Seq(GridLine)
    PROVE  p \o q \in Seq(GridLine) /\ Len(p \o q) = Len(p) + Len(q)
BY ConcatProperties

LEMMA ScrollHistoryDrawn ==
    ASSUME NEW S, Whole(S), S.hist
    PROVE  Drawn(S, ScrollHistory(S))
<1> DEFINE q == Append(S.ln, Blank)
           n == S.hs + 1
<1>1. S.ln \in Seq(GridLine) /\ S.hs \in Nat /\ S.sy \in Nat /\ Len(S.ln) = S.hs + S.sy
  BY WholeFields, LinesOf
<1>2. q \in Seq(GridLine) /\ Len(q) = Len(S.ln) + 1
  BY <1>1, BlankLine, AppendProperties
<1>3. ScrollHistory(S) = [S EXCEPT !.hs = n, !.ln = q]
  BY DEF ScrollHistory
<1> HIDE DEF q
<1>4. n \in Nat /\ S.hs <= n /\ Len(q) = n + S.sy
  BY <1>1, <1>2
<1> HIDE DEF n
<1>5. S.lim = Unlimited => S.hs <= n
  BY <1>4
<1>6. Drawn(S, [S EXCEPT !.hs = n, !.ln = q])
  BY <1>2, <1>4, <1>5, GrownDrawn
<1> QED
  BY <1>3, <1>6

LEMMA ScrollHistoryRegionDrawn ==
    ASSUME NEW S, Whole(S), S.hist, NEW upper \in Nat, NEW lower \in Nat,
           S.hs <= upper, upper <= lower, lower < Len(S.ln)
    PROVE  Drawn(S, ScrollHistoryRegion(S, upper, lower))
<1> DEFINE p  == S.ln
           q1 == SubSeq(p, 1, S.hs)
           q2 == <<p[upper + 1]>>
           q3 == SubSeq(p, S.hs + 1, upper)
           q4 == SubSeq(p, upper + 2, lower + 1)
           q5 == <<Blank>>
           q6 == SubSeq(p, lower + 2, Len(p))
           n  == S.hs + 1
           q  == q1 \o q2 \o q3 \o q4 \o q5 \o q6
<1>1. p \in Seq(GridLine) /\ S.hs \in Nat /\ S.sy \in Nat /\ Len(p) = S.hs + S.sy
  BY WholeFields, LinesOf
<1>2. p[upper + 1] \in GridLine
  BY <1>1, LinesOf, WholeFields
<1>3. ScrollHistoryRegion(S, upper, lower) = [S EXCEPT !.hs = n, !.ln = q]
  BY DEF ScrollHistoryRegion
<1> HIDE DEF p
<1>4. /\ q1 \in Seq(GridLine) /\ Len(q1) = S.hs
      /\ q2 \in Seq(GridLine) /\ Len(q2) = 1
      /\ q3 \in Seq(GridLine) /\ Len(q3) = upper - S.hs
      /\ q4 \in Seq(GridLine) /\ Len(q4) = lower - upper
      /\ q5 \in Seq(GridLine) /\ Len(q5) = 1
      /\ q6 \in Seq(GridLine) /\ Len(q6) = Len(p) - lower - 1
  <2>0. Len(p) \in Nat /\ lower < Len(p)
    BY <1>1 DEF p
  <2>1. q1 \in Seq(GridLine) /\ Len(q1) = S.hs
    BY <1>1, <2>0, SubSeqProperties
  <2>2. q2 \in Seq(GridLine) /\ Len(q2) = 1
    BY <1>2
  <2>3. q3 \in Seq(GridLine) /\ Len(q3) = upper - S.hs
    BY <1>1, <2>0, SubSeqProperties
  <2>4. q4 \in Seq(GridLine) /\ Len(q4) = lower - upper
    BY <1>1, <2>0, SubSeqProperties
  <2>5. q5 \in Seq(GridLine) /\ Len(q5) = 1
    BY BlankLine
  <2>6. q6 \in Seq(GridLine) /\ Len(q6) = Len(p) - lower - 1
    BY <1>1, <2>0, SubSeqProperties
  <2> QED
    BY <2>1, <2>2, <2>3, <2>4, <2>5, <2>6
<1> HIDE DEF q1, q2, q3, q4, q5, q6
<1> DEFINE r2 == q1 \o q2
           r3 == r2 \o q3
           r4 == r3 \o q4
           r5 == r4 \o q5
<1>5. r2 \in Seq(GridLine) /\ Len(r2) = Len(q1) + Len(q2)
  BY <1>4, LinesConcat
<1> HIDE DEF r2
<1>6. r3 \in Seq(GridLine) /\ Len(r3) = Len(r2) + Len(q3)
  BY <1>4, <1>5, LinesConcat
<1> HIDE DEF r3
<1>7. r4 \in Seq(GridLine) /\ Len(r4) = Len(r3) + Len(q4)
  BY <1>4, <1>6, LinesConcat
<1> HIDE DEF r4
<1>8. r5 \in Seq(GridLine) /\ Len(r5) = Len(r4) + Len(q5)
  BY <1>4, <1>7, LinesConcat
<1> HIDE DEF r5
<1>9. q \in Seq(GridLine) /\ Len(q) = Len(p) + 1
  <2>1. r5 \o q6 \in Seq(GridLine) /\ Len(r5 \o q6) = Len(r5) + Len(q6)
    BY <1>4, <1>8, LinesConcat
  <2>2. q = r5 \o q6
    BY DEF r2, r3, r4, r5
  <2>3. Len(p) \in Nat
    BY <1>1
  <2>4. Len(r5) = S.hs + 1 + (upper - S.hs) + (lower - upper) + 1
    BY <1>4, <1>5, <1>6, <1>7, <1>8
  <2>5. S.hs \in Nat /\ Len(q6) = Len(p) - lower - 1
    BY <1>1, <1>4
  <2>6. Len(r5) = lower + 2
    BY <2>4, <2>5
  <2>7. Len(r5) + Len(q6) = Len(p) + 1
    BY <2>3, <2>5, <2>6
  <2> QED
    BY <2>1, <2>2, <2>7
<1> HIDE DEF q
<1>10. n \in Nat /\ S.hs <= n /\ Len(q) = n + S.sy
  BY <1>1, <1>9
<1> HIDE DEF n
<1>11. S.lim = Unlimited => S.hs <= n
  BY <1>10
<1>12. Drawn(S, [S EXCEPT !.hs = n, !.ln = q])
  BY <1>9, <1>10, <1>11, GrownDrawn
<1> QED
  BY <1>3, <1>12

LEMMA ScrollRegionUpDrawn ==
    ASSUME NEW S, Whole(S)
    PROVE  Drawn(S, ScrollRegionUp(S, S.up, S.lo))
<1> DEFINE C == CollectHistory(S)
<1>1. CASE ~S.hist
  <2>1. Y(S, S.up) \in Int /\ S.hs <= Y(S, S.up) /\ S.lo - S.up \in Int
    BY WholeFields, YProps
  <2>2. Y(S, S.up) + 1 \in Int /\ S.hs <= Y(S, S.up) + 1
    BY <2>1, WholeFields
  <2>3. ScrollRegionUp(S, S.up, S.lo) = MoveLines(S, Y(S, S.up), Y(S, S.up) + 1, S.lo - S.up)
    BY <1>1 DEF ScrollRegionUp
  <2> QED
    BY <2>1, <2>2, <2>3, MoveLinesDrawn
<1>2. CASE S.hist
  <2>1. Drawn(S, C)
    BY <1>2, CollectHistoryDrawn
  <2>2. ScrollRegionUp(S, S.up, S.lo) \in
            {ScrollHistory(C), ScrollHistoryRegion(C, Y(C, S.up), Y(C, S.lo))}
    BY <1>2 DEF ScrollRegionUp
  <2> HIDE DEF C
  <2>3. Whole(C) /\ C.hist /\ C.sy = S.sy
    BY <1>2, <2>1 DEF Drawn
  <2>4. Drawn(C, ScrollHistory(C))
    BY <2>3, ScrollHistoryDrawn
  <2>5. /\ Y(C, S.up) \in Nat /\ Y(C, S.lo) \in Nat /\ C.hs <= Y(C, S.up)
        /\ Y(C, S.up) <= Y(C, S.lo) /\ Y(C, S.lo) < Len(C.ln)
    BY <2>3, WholeFields DEF Y
  <2>6. Drawn(C, ScrollHistoryRegion(C, Y(C, S.up), Y(C, S.lo)))
    BY <2>3, <2>5, ScrollHistoryRegionDrawn
  <2> QED
    BY <2>1, <2>2, <2>4, <2>6, DrawnTwice
<1> QED
  BY <1>1, <1>2, WholeFields

LEMMA ViewClearHistoryDrawn ==
    ASSUME NEW S, Whole(S), S.hist
    PROVE  Drawn(S, ViewClearHistory(S))
<1> DEFINE used == {y \in 1..S.sy : Used(S.ln[S.hs + y])}
           last == IF used = {} THEN 0 ELSE Max(used)
           d    == [y \in 1..last |-> Blank]
           q    == S.ln \o d
           n    == S.hs + last
<1>1. S.ln \in Seq(GridLine) /\ S.hs \in Nat /\ S.sy \in Nat /\ Len(S.ln) = S.hs + S.sy
  BY WholeFields, LinesOf
<1>2. last \in Nat
  <2>1. used \in SUBSET (0..S.sy)
    BY <1>1
  <2> HIDE DEF used
  <2>2. used # {} => Max(used) \in used
    BY <1>1, <2>1, MaxProps
  <2>3. \A y \in used : y \in Nat
    BY <2>1
  <2> QED
    BY <2>2, <2>3
<1>3. ViewClearHistory(S) = [S EXCEPT !.hs = n, !.ln = q]
  BY DEF ViewClearHistory
<1> HIDE DEF last
<1>4. d \in Seq(GridLine) /\ Len(d) = last
  BY <1>2, BlankLine, FunctionIsSeq
<1> HIDE DEF d
<1>5. q \in Seq(GridLine) /\ Len(q) = Len(S.ln) + Len(d)
  BY <1>1, <1>4, LinesConcat
<1> HIDE DEF q
<1>6. n \in Nat /\ S.hs <= n /\ Len(q) = n + S.sy
  BY <1>1, <1>2, <1>4, <1>5
<1> HIDE DEF n
<1>7. S.lim = Unlimited => S.hs <= n
  BY <1>6
<1>8. Drawn(S, [S EXCEPT !.hs = n, !.ln = q])
  BY <1>5, <1>6, <1>7, GrownDrawn
<1> QED
  BY <1>3, <1>8

(***************************************************************************)
(* screen-write.c                                                          *)
(***************************************************************************)

LEMMA CursorUpDrawn ==
    ASSUME NEW S, Whole(S), NEW n \in Nat
    PROVE  Drawn(S, CursorUp(S, n))
<1> DEFINE y == S.cy - Least(AtLeastOne(n), IF S.cy < S.up THEN S.cy ELSE S.cy - S.up)
<1>1. y \in Nat /\ y < S.sy
  BY WholeFields DEF Least, AtLeastOne, Greatest
<1>2. CursorUp(S, n) = [S EXCEPT !.cy = y]
  BY DEF CursorUp
<1> HIDE DEF y
<1> QED
  BY <1>1, <1>2, CyDrawn

LEMMA CursorDownDrawn ==
    ASSUME NEW S, Whole(S), NEW n \in Nat
    PROVE  Drawn(S, CursorDown(S, n))
<1> DEFINE y == S.cy + Least(AtLeastOne(n), IF S.cy > S.lo THEN S.sy - 1 - S.cy ELSE S.lo - S.cy)
<1>1. y \in Nat /\ y < S.sy
  BY WholeFields DEF Least, AtLeastOne, Greatest
<1>2. CursorDown(S, n) = [S EXCEPT !.cy = y]
  BY DEF CursorDown
<1> HIDE DEF y
<1> QED
  BY <1>1, <1>2, CyDrawn

LEMMA CursorRightDrawn ==
    ASSUME NEW S, Whole(S), NEW n \in Nat
    PROVE  Drawn(S, CursorRight(S, n))
<1> DEFINE x == S.cx + IF S.cx >= S.sx THEN AtLeastOne(n)
                       ELSE Least(AtLeastOne(n), S.sx - 1 - S.cx)
<1>1. x \in Nat
  BY WholeFields DEF Least, AtLeastOne, Greatest
<1>2. CursorRight(S, n) = [S EXCEPT !.cx = x]
  BY DEF CursorRight
<1> HIDE DEF x
<1> QED
  BY <1>1, <1>2, CxDrawn

LEMMA CursorLeftDrawn ==
    ASSUME NEW S, Whole(S), NEW n \in Nat
    PROVE  Drawn(S, CursorLeft(S, n))
<1> DEFINE x == S.cx - Least(AtLeastOne(n), S.cx)
<1>1. x \in Nat
  BY WholeFields DEF Least, AtLeastOne, Greatest
<1>2. CursorLeft(S, n) = [S EXCEPT !.cx = x]
  BY DEF CursorLeft
<1> HIDE DEF x
<1> QED
  BY <1>1, <1>2, CxDrawn

LEMMA BackspaceDrawn ==
    ASSUME NEW S, Whole(S)
    PROVE  Drawn(S, Backspace(S))
<1>1. CASE S.cx > 0
  <2>1. S.cx - 1 \in Nat
    BY <1>1, WholeFields
  <2>2. Backspace(S) = [S EXCEPT !.cx = S.cx - 1]
    BY <1>1 DEF Backspace
  <2> QED
    BY <2>1, <2>2, CxDrawn
<1>2. CASE ~(S.cx > 0) /\ S.cy > 0
  <2>1. S.sx - 1 \in Nat /\ S.cy - 1 \in Nat /\ S.cy - 1 < S.sy
    BY <1>2, WholeFields
  <2> DEFINE x == S.sx - 1
             y == S.cy - 1
             T == [S EXCEPT !.cx = x, !.cy = y]
  <2>2. Backspace(S) = T \/ Backspace(S) = S
    BY <1>2 DEF Backspace
  <2>3. x \in Nat /\ y \in Nat /\ y < S.sy
    BY <2>1
  <2> HIDE DEF x, y
  <2>4. Drawn(S, T)
    BY <2>3, CursorDrawn
  <2> HIDE DEF T
  <2> QED
    BY <2>2, <2>4, DrawnSame
<1>3. CASE ~(S.cx > 0) /\ ~(S.cy > 0)
  BY <1>3, DrawnSame DEF Backspace
<1> QED
  BY <1>1, <1>2, <1>3

LEMMA CursorMoveDrawn ==
    ASSUME NEW S, Whole(S), NEW px \in Nat, NEW py \in Nat
    PROVE  Drawn(S, CursorMove(S, px, py))
<1> DEFINE x == Least(px, S.sx - 1)
           y == Least(py, S.sy - 1)
<1>1. x \in Nat /\ y \in Nat /\ y < S.sy
  BY WholeFields DEF Least
<1>2. CursorMove(S, px, py) = [S EXCEPT !.cx = x, !.cy = y]
  BY DEF CursorMove
<1> HIDE DEF x, y
<1>3. Drawn(S, [S EXCEPT !.cx = x, !.cy = y])
  BY <1>1, CursorDrawn
<1> QED
  BY <1>2, <1>3

LEMMA FilledLine ==
    ASSUME NEW l \in GridLine, NEW sx \in Nat
    PROVE  Filled(l, sx) \in GridLine
<1> DEFINE n == Greatest(Len(l.c), sx)
           c == [x \in 1..n |-> IF x <= sx THEN "a" ELSE l.c[x]]
<1>1. Len(l.c) \in Nat /\ l.c \in [1..Len(l.c) -> Cell]
  BY LineFields
<1>2. n \in Nat /\ \A x \in 1..n : x <= sx \/ x <= Len(l.c)
  BY <1>1 DEF Greatest
<1>3. c \in [1..n -> Cell]
  BY <1>1, <1>2 DEF Cell
<1>4. c \in Seq(Cell)
  <2> HIDE DEF c, n
  <2> QED
    BY <1>2, <1>3, FunctionIsSeq
<1>5. Filled(l, sx) = [l EXCEPT !.c = c]
  BY DEF Filled
<1> HIDE DEF c
<1> QED
  BY <1>4, <1>5, WithCells

LEMMA AlignmentTestDrawn ==
    ASSUME NEW S, Whole(S)
    PROVE  Drawn(S, AlignmentTest(S))
<1> DEFINE q == [i \in DOMAIN S.ln |-> IF i > S.hs THEN Filled(S.ln[i], S.sx) ELSE S.ln[i]]
           T == [S EXCEPT !.ln = q]
<1>1. S \in ScreenType /\ S.hs \in Nat /\ S.sx \in Nat /\ S.sy \in Nat /\ S.sy - 1 \in Nat
  BY WholeFields
<1>3. q \in [1..Len(S.ln) -> GridLine]
  BY <1>1, LinesOf, FilledLine
<1>4. \A i \in 1..Len(S.ln) : i <= S.hs => q[i] = S.ln[i]
  BY <1>1, LinesOf
<1>5. AlignmentTest(S) = [T EXCEPT !.cx = 0, !.cy = 0, !.up = 0, !.lo = S.sy - 1]
  BY DEF AlignmentTest
<1> HIDE DEF q
<1>6. Redrawn(S.hs, S, T)
  BY <1>1, <1>3, <1>4, MapLines
<1> HIDE DEF T
<1>7. Drawn(S, T)
  BY <1>1, <1>6, RedrawnDrawn
<1>8. Whole(T) /\ T.sy = S.sy
  BY <1>7 DEF Drawn
<1> DEFINE m == S.sy - 1
<1>9. m \in Nat /\ 0 \in Nat /\ 0 <= m /\ m < T.sy
  BY <1>1, <1>8
<1> HIDE DEF m
<1>10. Drawn(T, [T EXCEPT !.cx = 0, !.cy = 0, !.up = 0, !.lo = m])
  BY <1>8, <1>9, RegionDrawn
<1> DEFINE U == [T EXCEPT !.cx = 0, !.cy = 0, !.up = 0, !.lo = m]
<1>11. AlignmentTest(S) = U
  BY <1>5 DEF m
<1> HIDE DEF U
<1>12. Drawn(T, U)
  BY <1>10 DEF U
<1> QED
  BY <1>7, <1>11, <1>12, DrawnTwice

\* A parameter never takes more columns or lines than there are.
LEMMA LeastProps ==
    ASSUME NEW n \in Nat, NEW m \in Nat
    PROVE  /\ Least(AtLeastOne(n), m) \in Nat /\ Least(AtLeastOne(n), m) <= m
           /\ Least(n, m) \in Nat /\ Least(n, m) <= m /\ Least(n, m) <= n
BY DEF Least, AtLeastOne, Greatest

LEMMA CharactersDrawn ==
    ASSUME NEW S, Whole(S), NEW n \in Nat
    PROVE  Drawn(S, InsertCharacter(S, n)) /\ Drawn(S, DeleteCharacter(S, n))
<1>1. CASE S.cx >= S.sx
  BY <1>1, DrawnSame DEF InsertCharacter, DeleteCharacter
<1>2. CASE ~(S.cx >= S.sx)
  <2> DEFINE k == Least(AtLeastOne(n), S.sx - S.cx)
  <2>1. S.sx - S.cx \in Nat
    BY <1>2, WholeFields
  <2>2. k \in Nat /\ k <= S.sx - S.cx
    BY <2>1, LeastProps
  <2>3. /\ InsertCharacter(S, n) = InsertCells(S, S.cx, S.cy, k)
        /\ DeleteCharacter(S, n) = DeleteCells(S, S.cx, S.cy, k)
    BY <1>2 DEF InsertCharacter, DeleteCharacter
  <2> HIDE DEF k
  <2>4. S.cx \in Nat /\ S.cy \in Nat /\ S.cx + k <= S.sx
    BY <2>2, WholeFields
  <2> QED
    BY <2>2, <2>3, <2>4, InsertCellsDrawn, DeleteCellsDrawn
<1> QED
  BY <1>1, <1>2

LEMMA LinesDrawn ==
    ASSUME NEW S, Whole(S), NEW n \in Nat
    PROVE  Drawn(S, InsertLine(S, n)) /\ Drawn(S, DeleteLine(S, n))
<1>0. S.cy \in Nat /\ S.lo \in Nat /\ S.up \in Nat /\ S.sy \in Nat /\ S.cy < S.sy
  BY WholeFields
<1>1. CASE InRegion(S)
  <2> DEFINE k == Least(AtLeastOne(n), S.lo + 1 - S.cy)
  <2>1. S.lo + 1 - S.cy \in Nat
    BY <1>0, <1>1 DEF InRegion
  <2>2. k \in Nat /\ k <= S.lo + 1 - S.cy
    BY <2>1, LeastProps
  <2>3. /\ InsertLine(S, n) = InsertLinesRegion(S, S.lo, S.cy, k)
        /\ DeleteLine(S, n) = DeleteLinesRegion(S, S.lo, S.cy, k)
    BY <1>1 DEF InsertLine, DeleteLine
  <2> HIDE DEF k
  <2>4. S.cy + k <= S.lo + 1
    BY <1>0, <2>2
  <2> QED
    BY <1>0, <2>2, <2>3, <2>4, InsertLinesRegionDrawn, DeleteLinesRegionDrawn
<1>2. CASE ~InRegion(S)
  <2> DEFINE k == Least(AtLeastOne(n), S.sy - S.cy)
  <2>1. S.sy - S.cy \in Nat
    BY <1>0
  <2>2. k \in Nat /\ k <= S.sy - S.cy
    BY <2>1, LeastProps
  <2>3. InsertLine(S, n) = InsertLines(S, S.cy, k) /\ DeleteLine(S, n) = DeleteLines(S, S.cy, k)
    BY <1>2 DEF InsertLine, DeleteLine
  <2> HIDE DEF k
  <2>4. S.cy + k <= S.sy
    BY <1>0, <2>2
  <2> QED
    BY <1>0, <2>2, <2>3, <2>4, InsertLinesDrawn, DeleteLinesDrawn
<1> QED
  BY <1>1, <1>2

LEMMA ClearLineDrawn ==
    ASSUME NEW S, Whole(S)
    PROVE  Drawn(S, ClearLine(S)) /\ Drawn(S, ClearEndOfLine(S)) /\ Drawn(S, ClearStartOfLine(S))
<1>1. S.cx \in Nat /\ S.cy \in Nat /\ S.sx \in Nat /\ S.sx - S.cx \in Int
      /\ Least(S.cx + 1, S.sx) \in Int
  BY WholeFields DEF Least
<1>2. Drawn(S, ClearLine(S))
  BY <1>1, ViewClearDrawn DEF ClearLine
<1>3. Drawn(S, ClearEndOfLine(S))
  BY <1>1, ViewClearDrawn, DrawnSame DEF ClearEndOfLine
<1>4. Drawn(S, ClearStartOfLine(S))
  BY <1>1, ViewClearDrawn DEF ClearStartOfLine
<1> QED
  BY <1>2, <1>3, <1>4

LEMMA ReverseIndexDrawn ==
    ASSUME NEW S, Whole(S)
    PROVE  Drawn(S, ReverseIndex(S))
<1>1. CASE S.cy = S.up
  <2> DEFINE dy == Y(S, S.up) + 1
             py == Y(S, S.up)
             n  == S.lo - S.up
  <2>1. dy \in Int /\ py \in Int /\ n \in Int /\ S.hs <= dy /\ S.hs <= py
    BY WholeFields DEF Y
  <2>2. ReverseIndex(S) = MoveLines(S, dy, py, n)
    BY <1>1 DEF ReverseIndex, ScrollRegionDown
  <2> HIDE DEF dy, py, n
  <2> QED
    BY <2>1, <2>2, MoveLinesDrawn
<1>2. CASE S.cy # S.up /\ S.cy > 0
  <2> DEFINE y == S.cy - 1
  <2>1. y \in Nat /\ y < S.sy
    BY <1>2, WholeFields
  <2>2. ReverseIndex(S) = [S EXCEPT !.cy = y]
    BY <1>2 DEF ReverseIndex
  <2> HIDE DEF y
  <2> QED
    BY <2>1, <2>2, CyDrawn
<1>3. CASE S.cy # S.up /\ ~(S.cy > 0)
  BY <1>3, DrawnSame DEF ReverseIndex
<1> QED
  BY <1>1, <1>2, <1>3

LEMMA ScrollRegionDrawn ==
    ASSUME NEW S, Whole(S), NEW up \in Nat, NEW lo \in Nat
    PROVE  Drawn(S, ScrollRegion(S, up, lo))
<1> DEFINE u == Least(up, S.sy - 1)
           l == Least(lo, S.sy - 1)
           T == [S EXCEPT !.cx = 0, !.cy = 0, !.up = u, !.lo = l]
<1>1. u \in Nat /\ l \in Nat /\ l < S.sy
  BY WholeFields DEF Least
<1>2. ScrollRegion(S, up, lo) = IF u >= l THEN S ELSE T
  BY DEF ScrollRegion
<1> HIDE DEF u, l
<1>3. CASE u >= l
  BY <1>2, <1>3, DrawnSame
<1>4. CASE ~(u >= l)
  <2>1. u <= l
    BY <1>1, <1>4
  <2>2. Drawn(S, T)
    BY <1>1, <2>1, RegionDrawn
  <2> HIDE DEF T
  <2> QED
    BY <1>2, <1>4, <2>2
<1> QED
  BY <1>3, <1>4

\* The cursor stays on the screen because it goes down only above the last line.
LEMMA LinefeedDrawn ==
    ASSUME NEW S, Whole(S), NEW b \in BOOLEAN
    PROVE  Drawn(S, Linefeed(S, b))
<1> DEFINE L == [S EXCEPT !.ln[S.hs + S.cy + 1].wr = b]
<1>1. S.hs + S.cy \in Nat /\ S.hs <= S.hs + S.cy /\ S.hs + S.cy < Len(S.ln)
  BY WholeFields
<1>2. Drawn(S, L) /\ SameRest(S, L)
  BY <1>1, FlagDrawn
<1>3. Linefeed(S, b) = IF S.cy = S.lo THEN ScrollRegionUp(L, S.up, S.lo)
                       ELSE IF S.cy < S.sy - 1 THEN [L EXCEPT !.cy = L.cy + 1] ELSE L
  BY DEF Linefeed
<1> HIDE DEF L
<1>4. Whole(L) /\ L.up = S.up /\ L.lo = S.lo /\ L.cy = S.cy /\ L.sy = S.sy
  BY <1>2 DEF Drawn, SameRest
<1>5. Drawn(L, ScrollRegionUp(L, S.up, S.lo))
  BY <1>4, ScrollRegionUpDrawn
<1>6. ASSUME S.cy < S.sy - 1 PROVE Drawn(L, [L EXCEPT !.cy = L.cy + 1])
  <2> DEFINE y == L.cy + 1
  <2>1. y \in Nat /\ y < L.sy
    BY <1>4, <1>6, WholeFields
  <2> HIDE DEF y
  <2>2. Drawn(L, [L EXCEPT !.cy = y])
    BY <1>4, <2>1, CyDrawn
  <2> QED
    BY <2>2 DEF y
<1> DEFINE D == [L EXCEPT !.cy = L.cy + 1]
<1>7. S.cy < S.sy - 1 => Drawn(L, D)
  BY <1>6
<1> HIDE DEF D
<1>8. Linefeed(S, b) = ScrollRegionUp(L, S.up, S.lo) \/ Linefeed(S, b) = L
      \/ (S.cy < S.sy - 1 /\ Linefeed(S, b) = D)
  BY <1>3 DEF D
<1> QED
  BY <1>2, <1>5, <1>7, <1>8, DrawnTwice

LEMMA ClearScreenDrawn ==
    ASSUME NEW S, Whole(S)
    PROVE  /\ Drawn(S, ClearScreen(S)) /\ Drawn(S, ClearEndOfScreen(S))
           /\ Drawn(S, ClearStartOfScreen(S))
<1>1. /\ 0 \in Nat /\ S.cy \in Nat /\ S.cy + 1 \in Nat /\ S.sx \in Int /\ S.sy \in Int
      /\ S.cy \in Int /\ S.sy - (S.cy + 1) \in Int
  BY WholeFields
<1>2. Drawn(S, ClearScreen(S))
  BY <1>1, ViewClearDrawn, ViewClearHistoryDrawn DEF ClearScreen
<1>3. Drawn(S, ClearEndOfScreen(S))
  <2> DEFINE E == ClearEndOfLine(S)
             n == S.sy - (S.cy + 1)
  <2>1. Drawn(S, E)
    BY ClearLineDrawn
  <2>2. ClearEndOfScreen(S) = IF S.cy = 0 /\ S.hist THEN ViewClearHistory(S)
                              ELSE ViewClear(E, 0, S.cy + 1, S.sx, n)
    BY DEF ClearEndOfScreen
  <2> HIDE DEF E, n
  <2>3. Whole(E)
    BY <2>1 DEF Drawn
  <2>4. Drawn(E, ViewClear(E, 0, S.cy + 1, S.sx, n))
    BY <1>1, <2>3, ViewClearDrawn DEF n
  <2> QED
    BY <2>1, <2>2, <2>4, DrawnTwice, ViewClearHistoryDrawn
<1>4. Drawn(S, ClearStartOfScreen(S))
  <2> DEFINE E == IF S.cy > 0 THEN ViewClear(S, 0, 0, S.sx, S.cy) ELSE S
  <2>1. Drawn(S, E)
    BY <1>1, ViewClearDrawn, DrawnSame
  <2>2. ClearStartOfScreen(S) = ClearStartOfLine(E)
    BY DEF ClearStartOfScreen
  <2> HIDE DEF E
  <2>3. Whole(E)
    BY <2>1 DEF Drawn
  <2> QED
    BY <2>1, <2>2, <2>3, ClearLineDrawn, DrawnTwice
<1> QED
  BY <1>2, <1>3, <1>4

LEMMA PeekCell ==
    ASSUME NEW S, Whole(S), NEW x \in Nat, NEW y \in Int
    PROVE  Peek(S, x, y) \in Cell
<1>1. CASE CheckY(S, y) /\ x < Len(S.ln[y + 1].c)
  <2>1. y \in Nat /\ y < Len(S.ln)
    BY <1>1, WholeFields DEF CheckY, Lines
  <2>2. S.ln[y + 1] \in GridLine
    BY <2>1, LinesOf, WholeFields
  <2>3. Len(S.ln[y + 1].c) \in Nat /\ S.ln[y + 1].c \in [1..Len(S.ln[y + 1].c) -> Cell]
    BY <2>2, LineFields
  <2>4. x + 1 \in 1..Len(S.ln[y + 1].c)
    BY <1>1, <2>3
  <2>5. S.ln[y + 1].c[x + 1] \in Cell
    BY <2>3, <2>4
  <2> QED
    BY <1>1, <2>5 DEF Peek
<1>2. CASE ~(CheckY(S, y) /\ x < Len(S.ln[y + 1].c))
  BY <1>2 DEF Peek, Cell
<1> QED
  BY <1>1, <1>2

\* Cells of the cursor's line are set, then its flag.
LEMMA SetAndFlagDrawn ==
    ASSUME NEW S, Whole(S), NEW n, NEW xs, Columns(xs, n), NEW f \in Cell,
           NEW y \in Nat, S.hs <= y, y < Len(S.ln), NEW b \in BOOLEAN
    PROVE  Drawn(S, [SetCells(S, xs, y, f) EXCEPT !.ln[y + 1].u = b])
<1> DEFINE T == SetCells(S, xs, y, f)
<1>1. Drawn(S, T) /\ Whole(T) /\ SameRest(S, T)
  BY SetCellsDrawn
<1> HIDE DEF T
<1>2. T.hs <= y /\ y < Len(T.ln)
  BY <1>1, WholeFields DEF SameRest
<1> DEFINE U == [T EXCEPT !.ln[y + 1].u = b]
<1>3. Drawn(T, U)
  BY <1>1, <1>2, FlagDrawn
<1>4. Drawn(S, U)
  <2> HIDE DEF U
  <2> QED
    BY <1>1, <1>3, DrawnTwice
<1> QED
  BY <1>4 DEF T

LEMMA CombineDrawn ==
    ASSUME NEW S, Whole(S)
    PROVE  Drawn(S, Combine(S))
<1> DEFINE y == Y(S, S.cy)
           k == Peek(S, S.cx - 1, y)
           f == IF k = "-" THEN "a" ELSE k
           n == S.cx - 1
<1>1. CASE S.cx = 0
  BY <1>1, DrawnSame DEF Combine
<1>2. CASE S.cx # 0
  <2>1. n \in Nat /\ Columns({n}, n)
    BY <1>2, WholeFields DEF Columns
  <2>2. y \in Nat /\ S.hs <= y /\ y < Len(S.ln)
    BY WholeFields, YProps
  <2>3. Combine(S) = [SetCells(S, {n}, y, f) EXCEPT !.ln[y + 1].u = TRUE]
    BY <1>2 DEF Combine
  <2> HIDE DEF y
  <2>4. f \in Cell
    <3>1. k \in Cell
      BY <2>1, <2>2, PeekCell
    <3> HIDE DEF k
    <3> QED
      BY <3>1 DEF Cell
  <2> HIDE DEF n, f
  <2> DEFINE U == [SetCells(S, {n}, y, f) EXCEPT !.ln[y + 1].u = TRUE]
  <2>5. Drawn(S, U)
    BY <2>1, <2>2, <2>4, SetAndFlagDrawn
  <2> QED
    BY <2>3, <2>5
<1> QED
  BY <1>1, <1>2

LEMMA OverwriteDrawn ==
    ASSUME NEW S, Whole(S), NEW width \in Nat
    PROVE  /\ Drawn(S, Overwrite(S, width)) /\ Whole(Overwrite(S, width))
           /\ SameRest(S, Overwrite(S, width))
<1> DEFINE y     == Y(S, S.cy)
           Pad(x) == Peek(S, x, y) = "P"
           below == {x \in 0..S.cx : x = 0 \/ ~Pad(x)}
           start == Max(below)
           back  == IF Pad(S.cx) THEN start..S.cx ELSE {}
           next  == {x \in S.cx + width..S.sx - 1 : \A z \in S.cx + width..x : Pad(z)}
           n     == S.cx + S.sx
<1>1. S.cx \in Nat /\ S.sx \in Nat /\ n \in Nat
  BY WholeFields
<1>2. y \in Nat /\ S.hs <= y
  BY WholeFields, YProps
<1>3. Overwrite(S, width) = SetCells(S, back \cup next, y, "-")
  BY DEF Overwrite
<1> HIDE DEF Pad
<1>4. start \in 0..S.cx
  <2>1. below \in SUBSET (0..S.cx) /\ 0 \in below
    BY <1>1
  <2> HIDE DEF below
  <2>2. below # {}
    BY <2>1
  <2>3. Max(below) \in below
    BY <1>1, <2>1, <2>2, MaxProps
  <2> QED
    BY <2>1, <2>3
<1> HIDE DEF start
<1>5. back \in SUBSET (0..n)
  BY <1>1, <1>4
<1>6. next \in SUBSET (0..n)
  BY <1>1
<1> DEFINE xs == back \cup next
<1>7. Columns(xs, n)
  <2> HIDE DEF back, next, n
  <2> QED
    BY <1>1, <1>5, <1>6 DEF Columns
<1>8. Overwrite(S, width) = SetCells(S, xs, y, "-") /\ "-" \in Cell
  BY <1>3 DEF Cell
<1> HIDE DEF xs, n, y
<1> QED
  BY <1>1, <1>2, <1>7, <1>8, SetCellsDrawn

\* In insert mode any line may be moved; it stays a line.
LEMMA MakeSpaceDrawn ==
    ASSUME NEW S, Whole(S), NEW width \in Nat
    PROVE  Drawn(S, MakeSpace(S, width))
<1>1. CASE S.ins /\ S.cx <= S.sx - width
  <2> DEFINE dx == S.cx + width
             nx == S.sx - S.cx - width
  <2>1. dx \in Nat /\ nx \in Nat /\ S.cx \in Nat /\ S.cy \in Nat
    BY <1>1, WholeFields
  <2>2. MakeSpace(S, width) = MoveCells(S, dx, S.cx, S.cy, nx)
    BY <1>1 DEF MakeSpace
  <2> HIDE DEF dx, nx
  <2> QED
    BY <1>1, <2>1, <2>2, MoveCellsDrawn
<1>2. CASE ~(S.ins /\ S.cx <= S.sx - width)
  BY <1>2, DrawnSame DEF MakeSpace
<1> QED
  BY <1>1, <1>2

LEMMA WrappedDrawn ==
    ASSUME NEW S, Whole(S), NEW width \in Nat
    PROVE  Drawn(S, Wrapped(S, width))
<1> DEFINE L == Linefeed(S, TRUE)
           U == [L EXCEPT !.cx = 0]
<1>1. Drawn(S, L)
  BY LinefeedDrawn
<1>2. Wrapped(S, width) = S \/ Wrapped(S, width) = U
  BY DEF Wrapped
<1> HIDE DEF L
<1>3. Whole(L)
  BY <1>1 DEF Drawn
<1>4. Drawn(L, U)
  BY <1>3, CxDrawn
<1> HIDE DEF U
<1> QED
  BY <1>1, <1>2, <1>4, DrawnSame, DrawnTwice

LEMMA WriteCellDrawn ==
    ASSUME NEW S, Whole(S), NEW width \in 1..2
    PROVE  Drawn(S, WriteCell(S, width))
<1> DEFINE M == MakeSpace(S, width)
           W == Wrapped(M, width)
           O == Overwrite(W, width)
           y == Y(O, O.cy)
           xs == O.cx + 1..O.cx + width - 1
           P == SetCells(O, xs, y, "P")
           f == IF width = 1 THEN "a" ELSE "W"
           C == SetCells(P, {O.cx}, y, f)
           b == C.ln[y + 1].u \/ width > 1
           D == [C EXCEPT !.ln[y + 1].u = b]
           x == C.cx + width
           E == [D EXCEPT !.cx = x]
<1>0. width \in Nat
  OBVIOUS
<1>1. Drawn(S, M)
  BY <1>0, MakeSpaceDrawn
<1>2. WriteCell(S, width) = S \/ WriteCell(S, width) = W
      \/ WriteCell(S, width) = [C EXCEPT !.cx = x, !.ln[y + 1].u = b]
  BY DEF WriteCell
<1> HIDE DEF M
<1>3. Whole(M)
  BY <1>1 DEF Drawn
<1>4. Drawn(M, W)
  BY <1>0, <1>3, WrappedDrawn
<1> HIDE DEF W
<1>5. Whole(W) /\ Drawn(S, W)
  BY <1>1, <1>4, DrawnTwice DEF Drawn
<1>6. Drawn(W, O) /\ Whole(O)
  BY <1>0, <1>5, OverwriteDrawn
<1> HIDE DEF O
<1>7. O.cx \in Nat /\ y \in Nat /\ O.hs <= y /\ y < Len(O.ln)
  BY <1>6, WholeFields, YProps
<1> HIDE DEF y
<1> DEFINE n == O.cx + 2
<1>8. Columns(xs, n) /\ Columns({O.cx}, n)
  BY <1>0, <1>7 DEF Columns
<1> HIDE DEF n, xs
<1>9. f \in Cell /\ "P" \in Cell
  BY DEF Cell
<1> HIDE DEF f
<1>10. Drawn(O, P) /\ Whole(P) /\ SameRest(O, P)
  BY <1>6, <1>7, <1>8, <1>9, SetCellsDrawn
<1> HIDE DEF P
<1>11. P.hs <= y /\ y < Len(P.ln)
  BY <1>6, <1>7, <1>10, WholeFields DEF SameRest
<1>12. Drawn(P, C) /\ Whole(C) /\ SameRest(P, C)
  BY <1>7, <1>8, <1>9, <1>10, <1>11, SetCellsDrawn
<1> HIDE DEF C
<1>13. C.hs <= y /\ y < Len(C.ln)
  BY <1>10, <1>11, <1>12, WholeFields DEF SameRest
<1>14. b \in BOOLEAN
  BY <1>0
<1> HIDE DEF b
<1>15. Drawn(C, D)
  BY <1>7, <1>12, <1>13, <1>14, FlagDrawn
<1>16. [C EXCEPT !.cx = x, !.ln[y + 1].u = b] = E
  <2>1. C \in ScreenType
    BY <1>12, WholeFields
  <2> HIDE DEF x
  <2> QED
    BY <2>1 DEF ScreenType
<1>17. x \in Nat
  BY <1>0, <1>12, WholeFields
<1> HIDE DEF D, x
<1>18. Whole(D)
  BY <1>15 DEF Drawn
<1>19. Drawn(D, E)
  BY <1>17, <1>18, CxDrawn
<1> DEFINE V == WriteCell(S, width)
<1>20. V = S \/ V = W \/ V = E
  BY <1>2, <1>16
<1> HIDE DEF E, V
<1>21. Drawn(S, O)
  BY <1>5, <1>6, DrawnTwice
<1>22. Drawn(S, P)
  BY <1>6, <1>10, <1>21, DrawnTwice
<1>23. Drawn(S, C)
  BY <1>10, <1>12, <1>22, DrawnTwice
<1>24. Drawn(S, D)
  BY <1>12, <1>15, <1>23, DrawnTwice
<1>25. Drawn(S, E)
  BY <1>18, <1>19, <1>24, DrawnTwice
<1>26. Drawn(S, V)
  BY <1>5, <1>20, <1>25, DrawnSame
<1> QED
  BY <1>26 DEF V

LEMMA BackTabDrawn ==
    ASSUME NEW S, Whole(S), NEW n
    PROVE  Drawn(S, BackTab(S, n))
<1> DEFINE stops == {x \in S.tabs : x < S.cx}
           Nth == {x \in stops : Cardinality({z \in stops : z >= x}) = n}
           x == IF Nth = {} THEN 0 ELSE Max(Nth)
<1>1. S.cx \in Nat /\ S.tabs \in SUBSET Nat
  BY WholeFields
<1>2. Nth \in SUBSET (0..S.cx)
  BY <1>1
<1>3. BackTab(S, n) = [S EXCEPT !.cx = x]
  BY DEF BackTab
<1> HIDE DEF Nth
<1>4. x \in Nat
  <2>1. Nth # {} => Max(Nth) \in Nth
    BY <1>1, <1>2, MaxProps
  <2>2. \A i \in Nth : i \in Nat
    BY <1>1, <1>2
  <2> QED
    BY <2>1, <2>2
<1> HIDE DEF x
<1> QED
  BY <1>3, <1>4, CxDrawn

(***************************************************************************)
(* Sizes.                                                                  *)
(***************************************************************************)

\* T is what a user or a reset may make of S.
Kept(S, T) ==
    /\ Whole(T)
    /\ T.hist = S.hist /\ T.lim = S.lim
    /\ ~S.hist /\ ~S.ins => KeepsHistory(S, T)

LEMMA DrawnKept ==
    ASSUME NEW S, NEW T, Drawn(S, T)
    PROVE  Kept(S, T)
BY DEF Drawn, Kept

\* A screen that is given another height, with its lines, history and cursor.
LEMMA HeightWhole ==
    ASSUME NEW T \in ScreenType, Len(T.ln) = T.hs + T.sy, T.cy < T.sy, T.up = 0, T.lo = T.sy - 1
    PROVE  Whole(T)
<1>1. T.hs \in Nat /\ T.sy \in Nat \ {0} /\ T.cy \in Nat /\ T.cx \in Nat
  BY DEF ScreenType
<1> QED
  BY <1>1 DEF Whole, GridWhole

\* What a screen keeps when it is made higher or lower.
SameKind(S, T) ==
    T.sx = S.sx /\ T.hist = S.hist /\ T.lim = S.lim /\ T.wrap = S.wrap /\ T.ins = S.ins

LEMMA ShrinkWhole ==
    ASSUME NEW S, Whole(S), NEW sy \in Nat \ {0}, sy < S.sy
    PROVE  /\ Whole(ResizeY(S, sy)) /\ ResizeY(S, sy).sy = sy
           /\ SameKind(S, ResizeY(S, sy))
           /\ ~S.hist => KeepsHistory(S, ResizeY(S, sy))
<1> DEFINE below == Least(S.sy - 1 - S.cy, S.sy - sy)
           D     == IF below > 0 THEN DeleteLines(S, S.sy - below, below) ELSE S
           need  == S.sy - sy - below
           E     == IF ~S.hist /\ need > 0 /\ S.cy > 0
                    THEN DeleteLines(D, 0, Least(S.cy, need)) ELSE D
           h     == IF S.hist THEN S.hs + need ELSE S.hs
           H     == [E EXCEPT !.hs = h]
           c     == S.cy - need
           q     == SubSeq(E.ln, 1, h + sy)
           T     == [E EXCEPT !.hs = h, !.cy = c, !.ln = q, !.sy = sy, !.up = 0, !.lo = sy - 1]
<1>1. S \in ScreenType /\ S.hs \in Nat /\ S.sy \in Nat /\ S.cy \in Nat /\ S.cy < S.sy
      /\ Len(S.ln) = S.hs + S.sy
  BY WholeFields
<1>2. /\ below \in Nat /\ below <= S.sy - sy /\ need \in Nat /\ need <= S.sy /\ need + sy <= S.sy
      /\ c \in Nat /\ c < sy /\ S.sy - below \in Nat /\ S.sy - below + below = S.sy
  <2> DEFINE a == S.sy
             y == S.cy
  <2>1. a \in Nat /\ y \in Nat /\ y < a /\ sy < a
    BY <1>1
  <2>2. below = Least(a - 1 - y, a - sy)
    OBVIOUS
  <2>3. need = a - sy - below /\ c = y - need
    OBVIOUS
  <2> HIDE DEF a, y, below, need, c
  <2>4. /\ below = a - 1 - y \/ below = a - sy
        /\ below <= a - 1 - y /\ below <= a - sy
    BY <2>1, <2>2 DEF Least
  <2>5. below \in Nat /\ need \in Nat /\ c \in Nat
    BY <2>1, <2>3, <2>4
  <2>6. need <= a /\ c < sy /\ a - below \in Nat /\ a - below + below = a
    BY <2>1, <2>3, <2>4
  <2>7. need + sy <= a
    BY <2>1, <2>3, <2>4
  <2> QED
    BY <2>4, <2>5, <2>6, <2>7 DEF a
<1>3. Redrawn(S.hs, S, D)
  <2> DEFINE py == S.sy - below
  <2>1. py \in Nat /\ py + below <= S.sy
    BY <1>1, <1>2
  <2> HIDE DEF py, below
  <2>2. Redrawn(S.hs, S, DeleteLines(S, py, below))
    BY <1>2, <2>1, DeleteLinesRedrawn
  <2> QED
    BY <1>1, <2>2, RedrawnSame DEF py
<1>4. Shrink(S, sy) = [(IF S.hist THEN [D EXCEPT !.hs = D.hs + need] ELSE E)
                          EXCEPT !.cy = @ - need,
                                 !.ln = SubSeq(@, 1, (IF S.hist THEN [D EXCEPT !.hs = D.hs + need] ELSE E).hs + sy)]
  BY DEF Shrink
<1> HIDE DEF below, D
<1>5. Whole(D) /\ D.sy = S.sy /\ D.hs = S.hs /\ D.cy = S.cy
  <2>1. S.hs \in Nat /\ S.hs <= S.hs
    BY <1>1
  <2>2. Drawn(S, D)
    BY <1>3, <2>1, RedrawnDrawn
  <2> QED
    BY <1>3, <2>2 DEF Redrawn, SameRest, Drawn
<1>6. Redrawn(S.hs, S, E)
  <2> DEFINE k == Least(S.cy, need)
  <2> HIDE DEF need
  <2>1. k \in Nat /\ k <= S.cy
    BY <1>1, <1>2, LeastProps
  <2> HIDE DEF k
  <2>3. 0 \in Nat /\ 0 + k <= D.sy
    BY <1>1, <1>5, <2>1
  <2>2. Redrawn(S.hs, D, DeleteLines(D, 0, k))
    <3>1. Redrawn(D.hs, D, DeleteLines(D, 0, k))
      BY <1>5, <2>1, <2>3, DeleteLinesRedrawn
    <3> QED
      BY <1>5, <3>1
  <2> QED
    BY <1>3, <2>2, RedrawnTwice DEF k
<1>7. E \in ScreenType /\ E.hs = S.hs /\ E.cy = S.cy /\ SameKind(S, E)
      /\ Len(E.ln) = S.hs + S.sy /\ \A i \in 1..S.hs : E.ln[i] = S.ln[i]
  <2> HIDE DEF E
  <2> QED
    BY <1>1, <1>6 DEF Redrawn, SameRest, SameKind
<1>8. Shrink(S, sy) = [E EXCEPT !.hs = h, !.cy = c, !.ln = q]
  <2>1. CASE S.hist
    <3>1. E = D
      BY <2>1
    <3> HIDE DEF E
    <3>2. Shrink(S, sy) = [[E EXCEPT !.hs = h] EXCEPT !.cy = E.cy - need,
                                  !.ln = SubSeq(E.ln, 1, h + sy)]
      BY <1>4, <1>5, <1>7, <2>1, <3>1 DEF ScreenType
    <3>3. c = E.cy - need
      BY <1>7
    <3> HIDE DEF h, c, need
    <3> QED
      BY <3>2, <3>3
  <2>2. CASE ~S.hist
    <3> HIDE DEF E
    <3>1. Shrink(S, sy) = [E EXCEPT !.cy = E.cy - need, !.ln = SubSeq(E.ln, 1, E.hs + sy)]
      BY <1>4, <2>2
    <3>2. h = E.hs /\ c = E.cy - need
      BY <1>7, <2>2
    <3>3. Shrink(S, sy) = [E EXCEPT !.cy = c, !.ln = q]
      BY <3>1, <3>2
    <3> HIDE DEF h, c, q
    <3>4. [E EXCEPT !.cy = c, !.ln = q] = [E EXCEPT !.hs = h, !.cy = c, !.ln = q]
      BY <1>7, <3>2 DEF ScreenType
    <3> QED
      BY <3>3, <3>4
  <2> QED
    BY <2>1, <2>2
<1> HIDE DEF E
<1>9. h \in Nat /\ h + sy \in Nat /\ h + sy <= Len(E.ln) /\ S.hs <= h
  <2>1. h \in Nat /\ S.hs <= h /\ h <= S.hs + need
    <3> HIDE DEF need
    <3>1. S.hs \in Nat /\ need \in Nat
      BY <1>1, <1>2
    <3>2. h = S.hs + need \/ h = S.hs
      OBVIOUS
    <3> HIDE DEF h
    <3> QED
      BY <3>1, <3>2
  <2> HIDE DEF h, need
  <2> DEFINE a == S.sy
             g == S.hs
  <2>2. /\ a \in Nat /\ g \in Nat /\ need \in Nat /\ need + sy <= a /\ Len(E.ln) = g + a
        /\ g <= h /\ h <= g + need
    BY <1>1, <1>2, <1>7, <2>1
  <2> HIDE DEF a, g
  <2>3. h + sy \in Nat /\ h + sy <= Len(E.ln)
    BY <2>1, <2>2
  <2> QED
    BY <2>1, <2>3
<1>10. q \in Seq(GridLine) /\ Len(q) = h + sy /\ \A i \in 1..h + sy : q[i] = E.ln[i]
  <2>1. E.ln \in Seq(GridLine)
    BY <1>7, LinesOf
  <2> HIDE DEF h
  <2> QED
    BY <1>9, <2>1, SubSeqProperties
<1>11. ResizeY(S, sy) = [[E EXCEPT !.hs = h, !.cy = c, !.ln = q]
                            EXCEPT !.sy = sy, !.up = 0, !.lo = sy - 1]
  BY <1>8 DEF ResizeY
<1> HIDE DEF q, c, need
<1>12. ResizeY(S, sy) = T
  <2> HIDE DEF h
  <2> QED
    BY <1>11
<1>13. Whole(T) /\ T.ln = q /\ T.hs = h /\ T.sy = sy /\ SameKind(E, T)
  <2>0. E \in ScreenType /\ sy - 1 \in Nat
    BY <1>7
  <2>1. /\ T \in ScreenType /\ T.ln = q /\ T.hs = h /\ T.sy = sy /\ T.cy = c
        /\ T.up = 0 /\ T.lo = sy - 1 /\ SameKind(E, T)
    <3> HIDE DEF h
    <3> QED
      BY <1>2, <1>9, <1>10, <2>0 DEF ScreenType, SameKind
  <2> HIDE DEF h, T
  <2> QED
    BY <1>2, <1>10, <2>1, HeightWhole
<1> HIDE DEF T
<1>14. ~S.hist => KeepsHistory(S, T)
  BY <1>7, <1>9, <1>10, <1>13 DEF KeepsHistory
<1> QED
  BY <1>7, <1>12, <1>13, <1>14 DEF SameKind

LEMMA GrowWhole ==
    ASSUME NEW S, Whole(S), NEW sy \in Nat \ {0}, sy > S.sy
    PROVE  /\ Whole(ResizeY(S, sy)) /\ ResizeY(S, sy).sy = sy
           /\ SameKind(S, ResizeY(S, sy))
           /\ Len(S.ln) <= Len(ResizeY(S, sy).ln)
           /\ \A i \in 1..Len(S.ln) : ResizeY(S, sy).ln[i] = S.ln[i]
           /\ ~S.hist => KeepsHistory(S, ResizeY(S, sy))
<1> DEFINE back == IF S.hist THEN Least(S.hs, sy - S.sy) ELSE 0
           k == sy - S.sy - back
           d == [i \in 1..k |-> Blank]
           q == S.ln \o d
           h == S.hs - back
           c == S.cy + back
           T == [S EXCEPT !.hs = h, !.cy = c, !.ln = q, !.sy = sy, !.up = 0, !.lo = sy - 1]
<1>1. S \in ScreenType /\ S.hs \in Nat /\ S.sy \in Nat /\ S.cy \in Nat /\ S.cy < S.sy
      /\ Len(S.ln) = S.hs + S.sy /\ S.ln \in Seq(GridLine) /\ Len(S.ln) \in Nat
  BY WholeFields, LinesOf
<1>2. k \in Nat /\ h \in Nat /\ c \in Nat /\ c < sy /\ S.hs + S.sy + k = h + sy
      /\ (~S.hist => h = S.hs)
  <2> DEFINE a == S.sy
             y == S.cy
             g == S.hs
  <2>1. a \in Nat /\ y \in Nat /\ y < a /\ sy > a /\ g \in Nat
    BY <1>1
  <2>2. back = 0 \/ back = Least(g, sy - a)
    OBVIOUS
  <2>3. k = sy - a - back /\ h = g - back /\ c = y + back /\ (~S.hist => back = 0)
    OBVIOUS
  <2> HIDE DEF a, y, g, back, k, h, c
  <2>4. back \in Nat /\ back <= g /\ back <= sy - a
    BY <2>1, <2>2 DEF Least
  <2>5. k \in Nat /\ h \in Nat /\ c \in Nat /\ c < sy /\ g + a + k = h + sy
    BY <2>1, <2>3, <2>4
  <2>6. ~S.hist => h = g
    BY <2>1, <2>3
  <2> QED
    BY <2>5, <2>6 DEF a, g
<1>3. ResizeY(S, sy) = T
  <2>1. ~(sy < S.sy)
    BY <1>1
  <2>2. ResizeY(S, sy) = [Grow(S, sy) EXCEPT !.sy = sy, !.up = 0, !.lo = sy - 1]
    BY <2>1 DEF ResizeY
  <2>3. Grow(S, sy) = [S EXCEPT !.hs = h, !.cy = c, !.ln = q]
    BY DEF Grow
  <2> HIDE DEF h, c, q
  <2> QED
    BY <2>2, <2>3
<1> HIDE DEF k, h, c
<1>4. d \in Seq(GridLine) /\ Len(d) = k
  BY <1>2, BlankLine, FunctionIsSeq
<1> HIDE DEF d
<1>5. q \in Seq(GridLine) /\ Len(q) = Len(S.ln) + k
      /\ \A i \in 1..Len(S.ln) : q[i] = S.ln[i]
  <2> DEFINE p == S.ln
  <2>1. p \in Seq(GridLine) /\ Len(p) \in Nat
    BY <1>1
  <2>2. q = p \o d
    OBVIOUS
  <2> HIDE DEF p, q
  <2>3. q \in Seq(GridLine) /\ Len(q) = Len(p) + k
    BY <1>4, <2>1, <2>2, ConcatProperties
  <2>4. ASSUME NEW i \in 1..Len(p) PROVE q[i] = p[i]
    <3>1. i \in 1..Len(p) + Len(d) /\ i <= Len(p)
      BY <1>2, <1>4, <2>1
    <3> QED
      BY <1>4, <2>1, <2>2, <3>1, ConcatProperties
  <2> QED
    BY <2>3, <2>4 DEF p
<1> HIDE DEF q
<1>6. Whole(T) /\ T.ln = q /\ T.hs = h /\ T.sy = sy /\ SameKind(S, T)
  <2>0. S \in ScreenType /\ sy - 1 \in Nat
    BY <1>1
  <2>1. /\ T \in ScreenType /\ T.ln = q /\ T.hs = h /\ T.sy = sy /\ T.cy = c
        /\ T.up = 0 /\ T.lo = sy - 1 /\ SameKind(S, T)
    BY <1>2, <1>5, <2>0 DEF ScreenType, SameKind
  <2>2. Len(q) = h + sy
    BY <1>1, <1>2, <1>5
  <2> HIDE DEF T
  <2> QED
    BY <1>2, <2>1, <2>2, HeightWhole
<1> HIDE DEF T
<1>7. ~S.hist => KeepsHistory(S, T)
  BY <1>1, <1>2, <1>5, <1>6 DEF KeepsHistory
<1>8. Len(S.ln) <= Len(T.ln)
  BY <1>1, <1>2, <1>5, <1>6
<1> QED
  BY <1>3, <1>5, <1>6, <1>7, <1>8

LEMMA ResizedKept ==
    ASSUME NEW S, Whole(S), NEW sx \in Nat \ {0}, NEW sy \in Nat \ {0}
    PROVE  /\ Kept(S, Resized(S, sx, sy))
           /\ Resized(S, sx, sy).sx = sx /\ Resized(S, sx, sy).sy = sy
           /\ Resized(S, sx, sy).wrap = S.wrap /\ Resized(S, sx, sy).ins = S.ins
           /\ ~S.hist => KeepsHistory(S, Resized(S, sx, sy))
<1> DEFINE x == IF S.cx >= sx THEN sx - 1 ELSE S.cx
           W == [S EXCEPT !.cx = x, !.sx = sx, !.tabs = {}]
           X == IF sx = S.sx THEN S ELSE W
           T == Resized(S, sx, sy)
<1>1. S \in ScreenType /\ S.sx \in Nat \ {0} /\ x \in Nat /\ S.hs \in Nat
  BY WholeFields
<1>2. [ResizeX(S, sx) EXCEPT !.tabs = {}] = W
  BY DEF ResizeX
<1>3. T = IF sy = S.sy THEN X ELSE ResizeY(X, sy)
  BY <1>2 DEF Resized
<1> HIDE DEF x
<1>4. /\ W \in ScreenType /\ W.ln = S.ln /\ W.hs = S.hs /\ W.sy = S.sy /\ W.cy = S.cy
      /\ W.cx = x /\ W.up = S.up /\ W.lo = S.lo /\ W.sx = sx
      /\ W.hist = S.hist /\ W.lim = S.lim /\ W.wrap = S.wrap /\ W.ins = S.ins
  BY <1>1 DEF ScreenType
<1> HIDE DEF W, T
<1>5. Whole(W)
  BY <1>1, <1>4, WholeFields DEF Whole, GridWhole
<1>6. /\ Whole(X) /\ X.ln = S.ln /\ X.hs = S.hs /\ X.sy = S.sy /\ X.sx = sx
      /\ X.hist = S.hist /\ X.lim = S.lim /\ X.wrap = S.wrap /\ X.ins = S.ins
  BY <1>4, <1>5
<1> HIDE DEF X
<1>7. CASE sy = S.sy
  BY <1>3, <1>6, <1>7 DEF Kept, KeepsHistory, T
<1>8. CASE sy # S.sy
  <2> DEFINE R == ResizeY(X, sy)
  <2>1. sy < X.sy \/ sy > X.sy
    BY <1>6, <1>8, WholeFields
  <2>2. Whole(R) /\ R.sy = sy /\ SameKind(X, R) /\ (~X.hist => KeepsHistory(X, R))
    BY <1>6, <2>1, ShrinkWhole, GrowWhole
  <2>3. T = R
    BY <1>3, <1>8
  <2> HIDE DEF R
  <2> QED
    BY <1>6, <2>2, <2>3 DEF Kept, KeepsHistory, SameKind, T
<1> QED
  BY <1>7, <1>8

LEMMA KeptTwice ==
    ASSUME NEW S, NEW T, NEW U, Whole(S), Kept(S, T), T.ins => S.ins, Kept(T, U)
    PROVE  Kept(S, U)
<1>1. Whole(T) /\ T.hist = S.hist /\ S.hs \in Nat /\ T.hs \in Nat
  BY WholeFields DEF Kept
<1>2. Whole(U) /\ U.hist = S.hist /\ U.lim = S.lim
  BY DEF Kept
<1>3. ASSUME ~S.hist, ~S.ins PROVE KeepsHistory(S, U)
  <2>1. KeepsHistory(S, T) /\ KeepsHistory(T, U)
    BY <1>1, <1>3 DEF Kept
  <2> QED
    BY <2>1 DEF KeepsHistory
<1> QED
  BY <1>2, <1>3 DEF Kept

(***************************************************************************)
(* The steps of the program in the pane.                                   *)
(***************************************************************************)

\* IRM.
LEMMA InsKept ==
    ASSUME NEW S, Whole(S), NEW b \in BOOLEAN
    PROVE  /\ Kept(S, [S EXCEPT !.ins = b]) /\ Whole([S EXCEPT !.ins = b])
           /\ [S EXCEPT !.ins = b].ins = b /\ [S EXCEPT !.ins = b].sy = S.sy
<1> DEFINE T == [S EXCEPT !.ins = b]
<1>0. S \in ScreenType
  BY WholeFields
<1>1. /\ T \in ScreenType /\ T.ln = S.ln /\ T.hs = S.hs /\ T.lim = S.lim /\ T.hist = S.hist
      /\ T.sy = S.sy /\ T.cx = S.cx /\ T.cy = S.cy /\ T.up = S.up /\ T.lo = S.lo /\ T.ins = b
  BY <1>0 DEF ScreenType
<1> HIDE DEF T
<1>2. Whole(T) /\ KeepsHistory(S, T)
  BY <1>1, WholeFields DEF Whole, GridWhole, KeepsHistory
<1> QED
  BY <1>1, <1>2 DEF Kept, T

\* RIS, all but the screen that is left alternate.
LEMMA ResetKept ==
    ASSUME NEW S, Whole(S)
    PROVE  LET R == ScrollRegion([S EXCEPT !.tabs = {}], 0, S.sy - 1)
               C == ClearScreen([R EXCEPT !.ins = FALSE])
           IN  Kept(S, CursorMove(C, 0, 0)) /\ CursorMove(C, 0, 0).sy = S.sy
<1> DEFINE T == [S EXCEPT !.tabs = {}]
           m == S.sy - 1
           R == ScrollRegion(T, 0, m)
           I == [R EXCEPT !.ins = FALSE]
           C == ClearScreen(I)
           M == CursorMove(C, 0, 0)
<1>0. 0 \in Nat /\ m \in Nat /\ {} \in SUBSET Nat /\ FALSE \in BOOLEAN
  BY WholeFields
<1>1. Drawn(S, T)
  BY <1>0, TabsDrawn
<1> HIDE DEF T, m
<1>2. Whole(T)
  BY <1>1 DEF Drawn
<1>3. Drawn(T, R)
  BY <1>0, <1>2, ScrollRegionDrawn
<1> HIDE DEF R
<1>4. Drawn(S, R) /\ Whole(R)
  BY <1>1, <1>3, DrawnTwice DEF Drawn
<1>5. Kept(R, I) /\ Whole(I) /\ I.ins = FALSE /\ I.sy = R.sy
  BY <1>0, <1>4, InsKept
<1> HIDE DEF I
<1>6. Drawn(I, C)
  BY <1>5, ClearScreenDrawn
<1> HIDE DEF C
<1>7. Whole(C)
  BY <1>6 DEF Drawn
<1>8. Drawn(C, M)
  BY <1>0, <1>7, CursorMoveDrawn
<1> HIDE DEF M
<1>9. Drawn(I, M)
  BY <1>5, <1>6, <1>8, DrawnTwice
<1>10. Kept(S, I)
  <2>1. Kept(S, R) /\ R.ins = S.ins
    BY <1>4, DrawnKept DEF Drawn
  <2> QED
    BY <1>5, <2>1, KeptTwice
<1>11. Kept(S, M)
  BY <1>5, <1>9, <1>10, DrawnKept, KeptTwice
<1>12. M.sy = S.sy
  BY <1>4, <1>5, <1>9 DEF Drawn
<1> QED
  BY <1>11, <1>12 DEF M, C, I, R, m, T

SavedType == [ln : Seq(GridLine), sy : Nat \ {0}, cx : Nat, cy : Nat]

\* The screen is whole, what is saved is a screen of lines, and while the alternate
\* screen is used nothing goes to the history.
SavedWhole == saved = NoGrid \/ (saved \in SavedType /\ Len(saved.ln) = saved.sy)

\* The heights that a screen can have.
Height == {S.sy : S \in Start} \cup Heights

IInv ==
    /\ Whole(base) /\ base.sy \in Height
    /\ SavedWhole
    /\ old \in Nat \X Nat
    /\ Alternate => ~base.hist

\* A step that keeps the screen and what is saved.
Keeps == /\ Kept(base, base') /\ base'.sy \in {base.sy} \cup Heights
         /\ saved' = saved /\ old' \in Nat \X Nat

LEMMA WritesKeeps ==
    ASSUME IInv, NEW S, Drawn(base, S), Writes(S)
    PROVE  Keeps
BY DrawnKept DEF IInv, Keeps, Writes, Drawn

LEMMA PutCharacterKeeps ==
    ASSUME IInv, PutCharacter
    PROVE  Keeps
<1>1. PICK width \in 0..2 :
          Writes(IF width = 0 THEN Combine(base) ELSE WriteCell(base, width))
  BY DEF PutCharacter
<1>2. Whole(base)
  BY DEF IInv
<1>3. CASE width = 0
  BY <1>1, <1>2, <1>3, CombineDrawn, WritesKeeps
<1>4. CASE width # 0
  <2>1. width \in 1..2
    BY <1>4
  <2> QED
    BY <1>1, <1>2, <1>4, <2>1, WriteCellDrawn, WritesKeeps
<1> QED
  BY <1>3, <1>4

LEMMA TabDrawn ==
    ASSUME NEW S, Whole(S), S.cx < S.sx - 1
    PROVE  LET stops == {x \in S.cx + 1..S.sx - 1 : x \in S.tabs \/ x = S.sx - 1}
           IN  Drawn(S, [S EXCEPT !.cx = Min(stops)])
<1> DEFINE stops == {x \in S.cx + 1..S.sx - 1 : x \in S.tabs \/ x = S.sx - 1}
           x0 == Min(stops)
<1>1. S.cx \in Nat /\ S.sx \in Nat
  BY WholeFields
<1>2. stops \in SUBSET Nat /\ S.sx - 1 \in stops
  BY <1>1
<1> HIDE DEF stops
<1>3. stops # {}
  BY <1>2
<1>4. x0 \in Nat
  BY <1>2, <1>3, MinProps
<1> HIDE DEF x0
<1>5. Drawn(S, [S EXCEPT !.cx = x0])
  BY <1>4, CxDrawn
<1> QED
  BY <1>5 DEF x0, stops

LEMMA C0Keeps ==
    ASSUME IInv, C0
    PROVE  Keeps
<1>1. Whole(base) /\ 0 \in Nat /\ FALSE \in BOOLEAN
  BY DEF IInv
<1>2. CASE Writes(Backspace(base))
  BY <1>1, <1>2, BackspaceDrawn, WritesKeeps
<1>3. CASE Tab
  <2> DEFINE stops == {x \in base.cx + 1..base.sx - 1 : x \in base.tabs \/ x = base.sx - 1}
             T == [base EXCEPT !.cx = Min(stops)]
  <2>1. base.cx < base.sx - 1 /\ Writes(T)
    BY <1>3 DEF Tab
  <2>2. Drawn(base, T)
    BY <1>1, <2>1, TabDrawn
  <2> HIDE DEF T
  <2> QED
    BY <2>1, <2>2, WritesKeeps
<1>4. CASE Writes(Linefeed(base, FALSE))
  BY <1>1, <1>4, LinefeedDrawn, WritesKeeps
<1>5. CASE Writes([base EXCEPT !.cx = 0])
  <2> DEFINE T == [base EXCEPT !.cx = 0]
  <2>1. Drawn(base, T) /\ Writes(T)
    BY <1>1, <1>5, CxDrawn
  <2> HIDE DEF T
  <2> QED
    BY <2>1, WritesKeeps
<1> QED
  BY <1>2, <1>3, <1>4, <1>5 DEF C0

LEMMA ESCKeeps ==
    ASSUME IInv, ESC
    PROVE  Keeps
<1>1. Whole(base) /\ 0 \in Nat /\ FALSE \in BOOLEAN /\ old \in Nat \X Nat
  BY DEF IInv
<1>2. CASE RIS
  <2>1. Kept(base, base') /\ base'.sy = base.sy
    BY <1>1, <1>2, ResetKept DEF RIS
  <2> QED
    BY <1>2, <2>1 DEF RIS, Keeps
<1>3. CASE Writes(Linefeed([base EXCEPT !.cx = 0], FALSE))
  <2> DEFINE T == [base EXCEPT !.cx = 0]
             L == Linefeed(T, FALSE)
  <2>1. Drawn(base, T) /\ Writes(L)
    BY <1>1, <1>3, CxDrawn
  <2> HIDE DEF T
  <2>2. Drawn(T, L)
    BY <1>1, <2>1, LinefeedDrawn DEF Drawn
  <2>3. Drawn(base, L)
    BY <1>1, <2>1, <2>2, DrawnTwice
  <2> HIDE DEF L
  <2> QED
    BY <2>1, <2>3, WritesKeeps
<1>4. CASE base.cx < base.sx /\ Writes([base EXCEPT !.tabs = base.tabs \cup {base.cx}])
  <2> DEFINE t == base.tabs \cup {base.cx}
             T == [base EXCEPT !.tabs = t]
  <2>1. t \in SUBSET Nat
    BY <1>1, WholeFields
  <2>2. Writes(T)
    BY <1>4
  <2> HIDE DEF t
  <2>3. Drawn(base, T)
    BY <1>1, <2>1, TabsDrawn
  <2> HIDE DEF T
  <2> QED
    BY <2>2, <2>3, WritesKeeps
<1>5. CASE Writes(ReverseIndex(base))
  BY <1>1, <1>5, ReverseIndexDrawn, WritesKeeps
<1>6. CASE SaveCursor
  <2>1. base' = base /\ saved' = saved /\ old' \in Nat \X Nat
    BY <1>1, <1>6, WholeFields DEF SaveCursor
  <2> QED
    BY <1>1, <2>1, DrawnSame, DrawnKept DEF Keeps
<1>7. CASE Writes(CursorMove(base, old[1], old[2]))
  <2>1. old[1] \in Nat /\ old[2] \in Nat
    BY <1>1
  <2> QED
    BY <1>1, <1>7, <2>1, CursorMoveDrawn, WritesKeeps
<1>8. CASE Writes(AlignmentTest(base))
  BY <1>1, <1>8, AlignmentTestDrawn, WritesKeeps
<1> QED
  BY <1>2, <1>3, <1>4, <1>5, <1>6, <1>7, <1>8 DEF ESC

LEMMA RepeatedKeeps ==
    ASSUME IInv, Repeated
    PROVE  Keeps
<1>1. Whole(base)
  BY DEF IInv
<1>2. PICK n \in Counts :
          \/ Writes(BackTab(base, n)) \/ Writes(CursorLeft(base, n))
          \/ Writes(CursorDown(base, n)) \/ Writes(CursorRight(base, n))
          \/ Writes(CursorUp(base, n)) \/ Writes(DeleteCharacter(base, n))
          \/ Writes(DeleteLine(base, n)) \/ Writes(InsertCharacter(base, n))
          \/ Writes(InsertLine(base, n))
  BY DEF Repeated
<1>3. n \in Nat
  BY CountAssumption
<1>4. /\ Drawn(base, BackTab(base, n)) /\ Drawn(base, CursorLeft(base, n))
      /\ Drawn(base, CursorDown(base, n)) /\ Drawn(base, CursorRight(base, n))
      /\ Drawn(base, CursorUp(base, n))
  BY <1>1, <1>3, BackTabDrawn, CursorLeftDrawn, CursorDownDrawn, CursorRightDrawn, CursorUpDrawn
<1>5. /\ Drawn(base, DeleteCharacter(base, n)) /\ Drawn(base, InsertCharacter(base, n))
      /\ Drawn(base, DeleteLine(base, n)) /\ Drawn(base, InsertLine(base, n))
  BY <1>1, <1>3, CharactersDrawn, LinesDrawn
<1> QED
  BY <1>2, <1>4, <1>5, WritesKeeps

LEMMA CursorToKeeps ==
    ASSUME IInv, CursorTo
    PROVE  Keeps
<1>1. Whole(base)
  BY DEF IInv
<1>2. PICK x \in Within(base.sx) \cup {base.cx + 1}, y \in Within(base.sy) \cup {base.cy + 1} :
          Writes(CursorMove(base, x - 1, y - 1))
  BY DEF CursorTo
<1>3. ASSUME NEW m \in Nat \ {0}, NEW z \in Within(m) PROVE z - 1 \in Nat
  BY <1>3, CountAssumption DEF Within, Least
<1>4. x - 1 \in Nat /\ y - 1 \in Nat
  BY <1>1, <1>3, WholeFields
<1> QED
  BY <1>1, <1>2, <1>4, CursorMoveDrawn, WritesKeeps

LEMMA SetRegionKeeps ==
    ASSUME IInv, SetRegion
    PROVE  Keeps
<1>1. Whole(base)
  BY DEF IInv
<1>2. PICK n \in Counts, m \in Counts \cup {base.sy} : Writes(ScrollRegion(base, n - 1, m - 1))
  BY DEF SetRegion
<1>3. n - 1 \in Nat /\ m - 1 \in Nat
  BY <1>1, CountAssumption, WholeFields
<1> QED
  BY <1>1, <1>2, <1>3, ScrollRegionDrawn, WritesKeeps

LEMMA EraseKeeps ==
    ASSUME IInv, Erase
    PROVE  Keeps
<1>1. Whole(base)
  BY DEF IInv
<1>2. /\ Drawn(base, ClearEndOfScreen(base)) /\ Drawn(base, ClearStartOfScreen(base))
      /\ Drawn(base, ClearScreen(base))
  BY <1>1, ClearScreenDrawn
<1>3. /\ Drawn(base, ClearEndOfLine(base)) /\ Drawn(base, ClearStartOfLine(base))
      /\ Drawn(base, ClearLine(base))
  BY <1>1, ClearLineDrawn
<1>4. PICK S : Drawn(base, S) /\ Writes(S)
  BY <1>2, <1>3 DEF Erase
<1> QED
  BY <1>4, WritesKeeps

LEMMA ModesKeeps ==
    ASSUME IInv, Modes
    PROVE  Keeps
<1>1. Whole(base) /\ 0 \in Nat /\ old \in Nat \X Nat
  BY DEF IInv
<1>2. CASE \E on \in BOOLEAN : Writes([base EXCEPT !.ins = on])
  <2>1. PICK on \in BOOLEAN : Writes([base EXCEPT !.ins = on])
    BY <1>2
  <2> DEFINE T == [base EXCEPT !.ins = on]
  <2>2. Kept(base, T) /\ T.sy = base.sy /\ Writes(T)
    BY <1>1, <2>1, InsKept
  <2> HIDE DEF T
  <2> QED
    BY <1>1, <2>2 DEF Writes, Keeps
<1>3. CASE Writes(ClearScreen(CursorMove(base, 0, 0)))
  <2> DEFINE M == CursorMove(base, 0, 0)
  <2>1. Drawn(base, M) /\ Writes(ClearScreen(M))
    BY <1>1, <1>3, CursorMoveDrawn
  <2> HIDE DEF M
  <2>2. Drawn(M, ClearScreen(M))
    BY <2>1, ClearScreenDrawn DEF Drawn
  <2> QED
    BY <1>1, <2>1, <2>2, DrawnTwice, WritesKeeps
<1>4. ASSUME NEW t \in SUBSET Nat, Writes([base EXCEPT !.tabs = t]) PROVE Keeps
  <2> DEFINE T == [base EXCEPT !.tabs = t]
  <2>1. Drawn(base, T) /\ Writes(T)
    BY <1>1, <1>4, TabsDrawn
  <2> HIDE DEF T
  <2> QED
    BY <2>1, WritesKeeps
<1> DEFINE t1 == base.tabs \ {base.cx}
           t2 == {}
<1>5. t1 \in SUBSET Nat /\ t2 \in SUBSET Nat
  BY <1>1, WholeFields
<1>6. \/ \E on \in BOOLEAN : Writes([base EXCEPT !.ins = on])
      \/ Writes(ClearScreen(CursorMove(base, 0, 0)))
      \/ Writes([base EXCEPT !.tabs = t1]) \/ Writes([base EXCEPT !.tabs = t2])
  BY Zenon DEF Modes
<1> HIDE DEF t1, t2
<1>7. CASE Writes([base EXCEPT !.tabs = t1]) \/ Writes([base EXCEPT !.tabs = t2])
  BY <1>4, <1>5, <1>7
<1> QED
  BY <1>2, <1>3, <1>6, <1>7

(***************************************************************************)
(* The alternate screen.                                                   *)
(***************************************************************************)

LEMMA SubSeqSame ==
    ASSUME NEW X, NEW p \in Seq(X), NEW q \in Seq(X), NEW n \in Nat, n <= Len(p), n <= Len(q),
           \A i \in 1..n : p[i] = q[i]
    PROVE  SubSeq(p, 1, n) = SubSeq(q, 1, n)
<1> DEFINE a == SubSeq(p, 1, n)
           b == SubSeq(q, 1, n)
<1>1. a \in Seq(X) /\ Len(a) = n /\ \A i \in 1..n : a[i] = p[i]
  BY SubSeqProperties
<1>2. b \in Seq(X) /\ Len(b) = n /\ \A i \in 1..n : b[i] = q[i]
  BY SubSeqProperties
<1> HIDE DEF a, b
<1>3. a = b
  BY <1>1, <1>2, SeqEqual
<1> QED
  BY <1>3 DEF a, b

LEMMA SameHistory ==
    ASSUME NEW S, NEW T, Whole(S), Whole(T), KeepsHistory(S, T)
    PROVE  History(T) = History(S)
<1>1. S.ln \in Seq(GridLine) /\ T.ln \in Seq(GridLine) /\ S.hs \in Nat /\ T.hs = S.hs
      /\ S.hs <= Len(S.ln) /\ S.hs <= Len(T.ln)
  BY WholeFields, LinesOf DEF KeepsHistory
<1>2. SubSeq(T.ln, 1, S.hs) = SubSeq(S.ln, 1, S.hs)
  BY <1>1, SubSeqSame DEF KeepsHistory
<1> QED
  BY <1>1, <1>2 DEF History

LEMMA ViewLines ==
    ASSUME NEW S, Whole(S)
    PROVE  View(S) \in Seq(GridLine) /\ Len(View(S)) = S.sy
<1> DEFINE a == S.hs + 1
           z == Len(S.ln)
<1>1. S.ln \in Seq(GridLine) /\ S.hs \in Nat /\ S.sy \in Nat /\ Len(S.ln) = S.hs + S.sy
  BY WholeFields, LinesOf
<1>2. a \in 1..z + 1 /\ z \in 0..Len(S.ln) /\ z - a + 1 = S.sy /\ a <= z + 1 /\ a \in Nat
  BY <1>1
<1>3. View(S) = SubSeq(S.ln, a, z)
  BY DEF View
<1>4. \A i \in a..z : S.ln[i] \in GridLine
  BY <1>1
<1>5. z \in Int /\ a \in Int
  BY <1>2
<1> HIDE DEF a, z
<1>6. SubSeq(S.ln, a, z) \in Seq(GridLine)
      /\ Len(SubSeq(S.ln, a, z)) = IF a <= z THEN z - a + 1 ELSE 0
  BY <1>4, <1>5, SubSeqProperties
<1>7. S.sy # 0 /\ (a <= z <=> S.sy # 0)
  BY <1>1, <1>2, WholeFields
<1> QED
  BY <1>2, <1>3, <1>6, <1>7

LEMMA AlternateOnKeeps ==
    ASSUME IInv, AlternateOn
    PROVE  IInv'
<1> DEFINE V == ViewClear(base, 0, 0, base.sx, base.sy)
<1>1. Whole(base) /\ old \in Nat \X Nat /\ base.sy \in Height
  BY DEF IInv
<1>2. /\ saved' = [ln |-> View(base), sy |-> base.sy, cx |-> base.cx, cy |-> base.cy]
      /\ base' = [V EXCEPT !.hist = FALSE] /\ old' = old
  BY DEF AlternateOn
<1>3. saved' \in SavedType /\ Len(saved'.ln) = saved'.sy
  BY <1>1, <1>2, ViewLines, WholeFields DEF SavedType
<1>4. Drawn(base, V)
  <2>1. 0 \in Nat /\ base.sx \in Int /\ base.sy \in Int
    BY <1>1, WholeFields
  <2> QED
    BY <1>1, <2>1, ViewClearDrawn
<1> HIDE DEF V
<1>5. V \in ScreenType /\ Whole(V) /\ V.sy = base.sy
  BY <1>4, WholeFields DEF Drawn
<1>6. /\ base' \in ScreenType /\ base'.ln = V.ln /\ base'.hs = V.hs /\ base'.sy = V.sy
      /\ base'.cx = V.cx /\ base'.cy = V.cy /\ base'.up = V.up /\ base'.lo = V.lo
      /\ base'.hist = FALSE
  BY <1>2, <1>5 DEF ScreenType
<1>7. Whole(base')
  BY <1>5, <1>6 DEF Whole, GridWhole
<1> QED
  BY <1>1, <1>2, <1>3, <1>5, <1>6, <1>7 DEF IInv, Height, SavedWhole, Alternate

LEMMA DuplicatedLines ==
    ASSUME NEW S, Whole(S), NEW p \in Seq(GridLine)
    PROVE  /\ Redrawn(S.hs, S, Duplicated(S, p))
           /\ \A i \in 1..Len(S.ln) :
                  Duplicated(S, p).ln[i] = IF i > S.hs /\ i - S.hs <= Len(p)
                                           THEN p[i - S.hs] ELSE S.ln[i]
<1> DEFINE q == [i \in DOMAIN S.ln |->
                    IF i > S.hs /\ i - S.hs <= Len(p) THEN p[i - S.hs] ELSE S.ln[i]]
<1>1. S \in ScreenType /\ S.hs \in Nat
  BY WholeFields
<1>2. Len(p) \in Nat /\ \A i \in 1..Len(p) : p[i] \in GridLine
  BY LenProperties, ElementOfSeq
<1>3. DOMAIN S.ln = 1..Len(S.ln) /\ Len(S.ln) \in Nat /\ \A i \in 1..Len(S.ln) : S.ln[i] \in GridLine
  BY <1>1, LinesOf
<1>4. q \in [1..Len(S.ln) -> GridLine]
  BY <1>1, <1>2, <1>3
<1>5. \A i \in 1..Len(S.ln) : i <= S.hs => q[i] = S.ln[i]
  BY <1>1, <1>3
<1>6. Duplicated(S, p) = [S EXCEPT !.ln = q]
  BY DEF Duplicated
<1>7. \A i \in 1..Len(S.ln) :
          q[i] = IF i > S.hs /\ i - S.hs <= Len(p) THEN p[i - S.hs] ELSE S.ln[i]
  BY <1>3
<1> HIDE DEF q
<1>8. Redrawn(S.hs, S, [S EXCEPT !.ln = q])
  BY <1>1, <1>4, <1>5, MapLines
<1>9. Duplicated(S, p).ln = q
  BY <1>1, <1>6 DEF ScreenType
<1> QED
  BY <1>6, <1>7, <1>8, <1>9

\* What is on the screen when the alternate screen has ended.
LEMMA AlternateOffKeeps ==
    ASSUME IInv, AlternateOff
    PROVE  /\ IInv'
           /\ LET n == Least(base.hs + Len(saved.ln), Len(base'.ln))
              IN  SubSeq(base'.ln, 1, n) = SubSeq(History(base) \o saved.ln, 1, n)
<1> DEFINE S == IF base.sy > saved.sy THEN Resized(base, base.sx, saved.sy) ELSE base
           p == saved.ln
           D == Duplicated(S, p)
           x == Least(saved.cx, D.sx - 1)
           y == Least(saved.cy, D.sy - 1)
           C == [D EXCEPT !.cx = x, !.cy = y, !.hist = TRUE]
           T == Resized(C, base.sx, base.sy)
           h == base.hs
           k == saved.sy
           m == base.sy
<1>1. /\ Whole(base) /\ base.sy \in Height /\ old \in Nat \X Nat /\ base.hist = FALSE
      /\ saved \in SavedType /\ Len(saved.ln) = saved.sy
  BY WholeFields DEF IInv, SavedWhole, AlternateOff, Alternate
<1>2. /\ p \in Seq(GridLine) /\ k \in Nat \ {0} /\ saved.cx \in Nat /\ saved.cy \in Nat /\ Len(p) = k
      /\ h \in Nat /\ m \in Nat \ {0} /\ base.sx \in Nat \ {0} /\ base.ln \in Seq(GridLine)
      /\ Len(base.ln) = h + m
  BY <1>1, WholeFields, LinesOf DEF SavedType
<1>3. base' = T /\ saved' = NoGrid /\ old' = old
  BY DEF AlternateOff
<1>4. /\ Whole(S) /\ S.hs = h /\ S.sx = base.sx /\ (IF m > k THEN S.sy = k ELSE S.sy = m)
      /\ \A i \in 1..h : S.ln[i] = base.ln[i]
  <2>1. CASE m > k
    <3> DEFINE R == Resized(base, base.sx, k)
    <3>1. Whole(R) /\ R.sx = base.sx /\ R.sy = k /\ KeepsHistory(base, R)
      <4>1. base.sx \in Nat \ {0} /\ k \in Nat \ {0} /\ ~base.hist
        BY <1>1, <1>2
      <4> HIDE DEF k
      <4>2. Kept(base, R) /\ R.sx = base.sx /\ R.sy = k /\ KeepsHistory(base, R)
        BY <1>1, <4>1, ResizedKept
      <4> QED
        BY <4>2 DEF Kept
    <3>2. S = R
      BY <2>1
    <3> HIDE DEF R, S, m, k
    <3> QED
      BY <2>1, <3>1, <3>2 DEF KeepsHistory
  <2>2. CASE ~(m > k)
    BY <1>1, <2>2
  <2> QED
    BY <2>1, <2>2
<1> HIDE DEF S
<1>5. Redrawn(h, S, D)
  BY <1>2, <1>4, DuplicatedLines
<1>6. \A i \in 1..Len(S.ln) : D.ln[i] = IF i > h /\ i - h <= k THEN p[i - h] ELSE S.ln[i]
  BY <1>2, <1>4, DuplicatedLines
<1> HIDE DEF D
<1>7. Whole(D) /\ D.sx = S.sx /\ D.sy = S.sy /\ D.hs = h /\ Len(D.ln) = Len(S.ln)
  <2>1. Drawn(S, D)
    BY <1>2, <1>4, <1>5, RedrawnDrawn, WholeFields
  <2> QED
    BY <1>4, <1>5, <2>1 DEF Redrawn, SameRest, Drawn
<1>8. x \in Nat /\ y \in Nat /\ y < D.sy
  <2>1. D.sx - 1 \in Nat /\ D.sy - 1 \in Nat
    BY <1>7, WholeFields
  <2>2. x \in Nat /\ y \in Nat /\ y <= D.sy - 1
    BY <1>2, <2>1, LeastProps
  <2> HIDE DEF x, y
  <2> QED
    BY <1>7, <2>2, WholeFields
<1> HIDE DEF x, y
<1>9. Whole(C) /\ C.ln = D.ln /\ C.hs = h /\ C.sy = S.sy /\ C.sx = base.sx
  <2>0. D \in ScreenType /\ D.hs = h
    BY <1>7, WholeFields
  <2>1. /\ C \in ScreenType /\ C.ln = D.ln /\ C.hs = D.hs /\ C.sy = D.sy /\ C.sx = D.sx
        /\ C.cx = x /\ C.cy = y /\ C.up = D.up /\ C.lo = D.lo
    BY <1>8, <2>0 DEF ScreenType
  <2> HIDE DEF C
  <2>2. Whole(C)
    BY <1>7, <1>8, <2>1, WholeFields DEF Whole, GridWhole
  <2> QED
    BY <1>4, <1>7, <2>1, <2>2
<1> HIDE DEF C
<1>10. Whole(T) /\ T.sy = m
  <2>1. base.sx \in Nat \ {0} /\ m \in Nat \ {0}
    BY <1>2
  <2> HIDE DEF m
  <2>2. Kept(C, Resized(C, base.sx, m)) /\ Resized(C, base.sx, m).sy = m
    BY <1>9, <2>1, ResizedKept
  <2> QED
    BY <2>2 DEF Kept, m
<1>11. /\ Len(D.ln) <= Len(T.ln) /\ \A i \in 1..Len(D.ln) : T.ln[i] = D.ln[i]
       /\ m <= k => Len(T.ln) = Len(D.ln)
  <2>1. T = IF m = C.sy THEN C ELSE ResizeY(C, m)
    BY <1>9 DEF Resized
  <2>2. CASE m = C.sy
    <3>1. T = C
      BY <2>1, <2>2
    <3>2. Len(C.ln) \in Nat
      BY <1>9, WholeFields
    <3> HIDE DEF T
    <3> QED
      BY <1>9, <3>1, <3>2
  <2>3. CASE m # C.sy
    <3>1. m > k /\ C.sy = k
      BY <1>4, <1>9, <2>3
    <3>2. m > C.sy
      BY <3>1
    <3>3. T = ResizeY(C, m)
      BY <2>1, <2>3
    <3> HIDE DEF T, m
    <3>4. Len(C.ln) <= Len(T.ln) /\ \A i \in 1..Len(C.ln) : T.ln[i] = C.ln[i]
      BY <1>2, <1>9, <3>2, <3>3, GrowWhole
    <3>5. ~(m <= k)
      BY <1>2, <3>1
    <3> QED
      BY <1>9, <3>4, <3>5
  <2> QED
    BY <2>2, <2>3
<1> HIDE DEF T
<1>12. IInv'
  BY <1>1, <1>3, <1>10 DEF IInv, Height, SavedWhole, Alternate
<1> DEFINE n == Least(h + k, Len(T.ln))
           H == History(base)
           q == H \o p
<1>13. T.ln \in Seq(GridLine) /\ Len(T.ln) \in Nat
  BY <1>10, WholeFields, LinesOf
<1>14. n \in Nat /\ n <= h + k /\ n <= Len(T.ln)
  <2> DEFINE g == h + k
             l == Len(T.ln)
  <2>1. g \in Nat /\ l \in Nat
    BY <1>2, <1>13
  <2> HIDE DEF g, l
  <2>2. Least(g, l) \in Nat /\ Least(g, l) <= g /\ Least(g, l) <= l
    BY <2>1, LeastProps
  <2> QED
    BY <2>2 DEF g, l
<1>15. H \in Seq(GridLine) /\ Len(H) = h /\ \A i \in 1..h : H[i] = base.ln[i]
  <2>1. H = SubSeq(base.ln, 1, h)
    BY DEF History
  <2>2. h <= Len(base.ln)
    BY <1>2
  <2> HIDE DEF H
  <2> QED
    BY <1>2, <2>1, <2>2, SubSeqProperties
<1> HIDE DEF H
<1>16. q \in Seq(GridLine) /\ Len(q) = h + k
       /\ \A i \in 1..h + k : q[i] = IF i <= h THEN H[i] ELSE p[i - h]
  <2>1. p \in Seq(GridLine) /\ Len(p) = k /\ h \in Nat /\ k \in Nat
    BY <1>2
  <2>2. H \in Seq(GridLine) /\ Len(H) = h
    BY <1>15
  <2> HIDE DEF p, h, k
  <2> QED
    BY <2>1, <2>2, ConcatProperties
<1>17. n <= Len(D.ln)
  <2>1. Len(D.ln) = h + S.sy
    BY <1>7, WholeFields
  <2>2. CASE m > k
    BY <1>4, <1>14, <2>1, <2>2
  <2>3. CASE ~(m > k)
    BY <1>2, <1>11, <1>14, <2>3
  <2> QED
    BY <2>2, <2>3
<1> HIDE DEF n, q, p, h, k, m
<1>18. \A i \in 1..n : T.ln[i] = q[i]
  <2> SUFFICES ASSUME NEW i \in 1..n PROVE T.ln[i] = q[i]
    OBVIOUS
  <2>0. Len(D.ln) \in Nat /\ Len(S.ln) = Len(D.ln)
    BY <1>7, WholeFields
  <2>1. i \in 1..Len(D.ln) /\ i \in 1..Len(S.ln) /\ i \in 1..h + k
    BY <1>2, <1>14, <1>17, <2>0
  <2>2. T.ln[i] = IF i > h /\ i - h <= k THEN p[i - h] ELSE S.ln[i]
    BY <1>6, <1>11, <2>1
  <2>3. CASE i <= h
    <3>1. i \in 1..h /\ ~(i > h)
      BY <1>2, <2>1, <2>3
    <3> QED
      BY <1>4, <1>15, <1>16, <2>1, <2>2, <3>1
  <2>4. CASE ~(i <= h)
    <3>1. i > h /\ i - h <= k
      BY <1>2, <2>1, <2>4
    <3> QED
      BY <1>16, <2>1, <2>2, <2>4, <3>1
  <2> QED
    BY <2>3, <2>4
<1>19. SubSeq(T.ln, 1, n) = SubSeq(q, 1, n)
  BY <1>13, <1>14, <1>16, <1>18, SubSeqSame
<1>20. n = Least(base.hs + Len(saved.ln), Len(base'.ln)) /\ q = History(base) \o saved.ln
       /\ T = base'
  BY <1>1, <1>3 DEF n, q, p, h, k, H
<1> QED
  BY <1>12, <1>19, <1>20

(***************************************************************************)
(* Every step of the specification.                                        *)
(***************************************************************************)

\* The steps of the users are harmless to a screen, in copy mode or not.
LEMMA ResizeKeeps ==
    ASSUME IInv, Resize
    PROVE  Keeps
<1>1. PICK sx \in Widths, sy \in Heights : Writes(Resized(base, sx, sy))
  BY DEF Resize
<1>2. sx \in Nat \ {0} /\ sy \in Nat \ {0} /\ Whole(base) /\ old \in Nat \X Nat
  BY SizeAssumption DEF IInv
<1>3. Kept(base, Resized(base, sx, sy)) /\ Resized(base, sx, sy).sy = sy
  BY <1>2, ResizedKept
<1> QED
  BY <1>1, <1>2, <1>3 DEF Writes, Keeps

LEMMA ClearHistoryKeeps ==
    ASSUME IInv, ClearHistory
    PROVE  IInv' /\ base'.hs = 0 /\ saved' = saved
<1> DEFINE M == MoveLines(base, 0, base.hs, base.sy)
           q == SubSeq(M.ln, 1, base.sy)
           T == [M EXCEPT !.hs = 0, !.ln = q]
<1>1. Whole(base) /\ base \in ScreenType /\ base.hs \in Nat /\ base.sy \in Nat
      /\ Len(base.ln) = base.hs + base.sy /\ 0 \in Nat
  BY WholeFields DEF IInv
<1>2. Redrawn(0, base, M)
  BY <1>1, MoveLinesRedrawn
<1>3. base' = T /\ saved' = saved /\ old' = old
  BY DEF ClearHistory, Writes
<1> HIDE DEF M
<1>4. /\ M \in ScreenType /\ SameRest(base, M) /\ Len(M.ln) = base.hs + base.sy
      /\ M.ln \in Seq(GridLine)
  BY <1>1, <1>2, LinesOf DEF Redrawn
<1>5. q \in Seq(GridLine) /\ Len(q) = base.sy
  BY <1>1, <1>4, SubSeqProperties
<1> HIDE DEF q
<1>6. /\ T \in ScreenType /\ T.ln = q /\ T.hs = 0 /\ T.sy = base.sy /\ T.cy = base.cy
      /\ T.cx = base.cx /\ T.up = base.up /\ T.lo = base.lo /\ T.hist = base.hist
  BY <1>4, <1>5 DEF ScreenType, SameRest
<1> HIDE DEF T
<1>7. Whole(T)
  BY <1>1, <1>5, <1>6, WholeFields DEF Whole, GridWhole
<1> QED
  BY <1>3, <1>6, <1>7 DEF IInv, Height, SavedWhole, Alternate

LEMMA RespawnKeeps ==
    ASSUME IInv, Respawn
    PROVE  IInv' /\ saved' = saved /\ (~base.hist => KeepsHistory(base, base'))
<1>1. Whole(base)
  BY DEF IInv
<1>2. base' = Reinit(base) /\ saved' = saved /\ old' = old
  BY DEF Respawn, Writes
<1>3. Whole(base') /\ base'.hist = base.hist /\ base'.sy = base.sy /\ (~base.hist => KeepsHistory(base, base'))
  BY <1>1, <1>2, ReinitDrawn
<1> QED
  BY <1>2, <1>3 DEF IInv, Height, SavedWhole, Alternate

LEMMA KeepsIInv ==
    ASSUME IInv, Keeps
    PROVE  IInv'
BY DEF IInv, Height, Keeps, Kept, SavedWhole, Alternate

LEMMA OutputKeeps ==
    ASSUME IInv, Output
    PROVE  Keeps \/ AlternateOn \/ AlternateOff
<1>1. Repeated \/ CursorTo \/ SetRegion \/ Erase \/ Modes => Keeps
  BY RepeatedKeeps, CursorToKeeps, SetRegionKeeps, EraseKeeps, ModesKeeps
<1> QED
  BY <1>1, PutCharacterKeeps, C0Keeps, ESCKeeps DEF Output, CSI

\* Keys, the mouse and what is printed change neither the pane's screen nor what
\* is saved.
LEMMA KeysKeepScreens ==
    ASSUME CopyKeys
    PROVE  UNCHANGED screens
<1>1. ASSUME NEW c, Stay(c) PROVE UNCHANGED screens
  BY <1>1 DEF Stay
<1>2. ASSUME NEW c, Enter(c) PROVE UNCHANGED screens
  BY <1>2 DEF Enter
<1>3. ASSUME NEW c, NEW v, NEW n, Added(c, v, n) PROVE UNCHANGED screens
  BY <1>3 DEF Added
<1>4. CASE CopyModeCmd
  BY <1>2, <1>4 DEF CopyModeCmd
<1>5. CASE MouseEnters
  BY <1>2, <1>5 DEF MouseEnters
<1>6. CASE PrintToView
  BY <1>3, <1>6 DEF PrintToView
<1>7. CASE SourceFileErrors
  BY <1>3, <1>7 DEF SourceFileErrors
<1>8. CASE Key
  BY <1>1, <1>8 DEF Key
<1>9. CASE Cancel
  BY <1>9 DEF Cancel, Leave
<1>10. CASE CopyAndLeave
  BY <1>10 DEF CopyAndLeave
<1>11. CASE NumberPrefix
  BY <1>1, <1>11 DEF NumberPrefix
<1>12. CASE Ask
  BY <1>1, <1>12 DEF Ask
<1>13. CASE JumpKey
  BY <1>1, <1>13 DEF JumpKey
<1>14. CASE KeyInput
  BY <1>1, <1>14 DEF KeyInput
<1>15. CASE Mouse
  BY <1>1, <1>15 DEF Mouse
<1>16. CASE MouseLeaves
  BY <1>16 DEF MouseLeaves
<1> QED
  BY <1>4, <1>5, <1>6, <1>7, <1>8, <1>9, <1>10, <1>11, <1>12, <1>13, <1>14, <1>15, <1>16
     DEF CopyKeys

LEMMA UnchangedIInv ==
    ASSUME IInv, UNCHANGED screens
    PROVE  IInv'
BY DEF IInv, Height, screens, SavedWhole, Alternate

LEMMA InitIInv == Init => IInv
<1> SUFFICES ASSUME Init PROVE IInv
  OBVIOUS
<1>1. base \in Start /\ saved = NoGrid /\ old = <<0, 0>>
  BY DEF Init, PaneInit
<1>2. Whole(base) /\ base.sy \in Height
  BY <1>1, StartAssumption DEF Whole, Height
<1> QED
  BY <1>1, <1>2 DEF IInv, SavedWhole, Alternate

\* What the property says of one step.
KeepsAlternate ==
    /\ Alternate /\ Alternate' /\ ~base.ins /\ reading /\ base'.hs # 0
           => History(base') = History(base)
    /\ Alternate /\ ~Alternate'
           => LET n == Least(base.hs + Len(saved.ln), Len(base'.ln))
              IN  SubSeq(base'.ln, 1, n) = SubSeq(History(base) \o saved.ln, 1, n)

LEMMA KeepsKeepsAlternate ==
    ASSUME IInv, Keeps
    PROVE  KeepsAlternate
<1>1. saved' = saved /\ Whole(base) /\ Whole(base')
  BY DEF IInv, Keeps, Kept
<1>2. Alternate /\ ~base.ins => KeepsHistory(base, base')
  BY DEF IInv, Keeps, Kept
<1> QED
  BY <1>1, <1>2, SameHistory DEF KeepsAlternate, Alternate

\* One step, whoever takes it.
LEMMA NextStep ==
    ASSUME IInv, [Next]_vars
    PROVE  IInv' /\ KeepsAlternate
<1>1. CASE PaneOutput
  <2>1. Keeps \/ AlternateOn \/ AlternateOff
    BY <1>1, OutputKeeps DEF PaneOutput
  <2>2. CASE Keeps
    BY <2>2, KeepsIInv, KeepsKeepsAlternate
  <2>3. CASE AlternateOn
    <3>1. ~Alternate
      BY <2>3 DEF AlternateOn
    <3> QED
      BY <2>3, <3>1, AlternateOnKeeps DEF KeepsAlternate
  <2>4. CASE AlternateOff
    <3>1. ~Alternate'
      BY <2>4 DEF AlternateOff, Alternate
    <3> QED
      BY <2>4, <3>1, AlternateOffKeeps DEF KeepsAlternate
  <2> QED
    BY <2>1, <2>2, <2>3, <2>4
<1>2. CASE ResizePane
  <2>1. Keeps
    BY <1>2, ResizeKeeps DEF ResizePane
  <2> QED
    BY <2>1, KeepsIInv, KeepsKeepsAlternate
<1>3. CASE ClearPaneHistory
  <2>1. IInv' /\ base'.hs = 0 /\ saved' = saved
    BY <1>3, ClearHistoryKeeps DEF ClearPaneHistory
  <2> QED
    BY <2>1 DEF KeepsAlternate, Alternate
<1>4. CASE RespawnPane
  <2>1. IInv' /\ saved' = saved /\ (~base.hist => KeepsHistory(base, base'))
    BY <1>4, RespawnKeeps DEF RespawnPane
  <2>2. Alternate => History(base') = History(base)
    BY <2>1, SameHistory DEF IInv
  <2> QED
    BY <2>1, <2>2 DEF KeepsAlternate, Alternate
<1>5. ASSUME UNCHANGED screens PROVE IInv' /\ KeepsAlternate
  <2>1. base' = base /\ saved' = saved
    BY <1>5 DEF screens
  <2> QED
    BY <1>5, <2>1, UnchangedIInv DEF KeepsAlternate, Alternate
<1>6. CASE CopyKeys
  BY <1>5, <1>6, KeysKeepScreens
<1>7. CASE UNCHANGED vars
  BY <1>5, <1>7 DEF vars, pvars, screens
<1> QED
  BY <1>1, <1>2, <1>3, <1>4, <1>6, <1>7 DEF Next

LEMMA InvariantHolds == Spec => []IInv
<1>1. IInv /\ [Next]_vars => IInv'
  BY NextStep
<1> QED
  BY <1>1, InitIInv, PTL DEF Spec

\* The grid of a pane has the lines its size and history say, and the cursor and the
\* scroll region are on the screen, for every size, history limit and parameter and
\* every order of output, resizes and resets: grid.c and screen-write.c index
\* gd->linedata with them.
THEOREM ScreenIsWhole == Spec => []ScreenSound
<1>1. IInv => ScreenSound
  BY DEF IInv, Whole, ScreenSound
<1> QED
  BY <1>1, InvariantHolds, PTL

\* What is written to the alternate screen leaves the history alone, and when it ends
\* the saved lines are on the screen again (window_pane_alternate_on and _off): each
\* insert, delete, scroll and resize of it stays below the history.
THEOREM HistoryKept == Spec => AlternateKeepsHistory
<1>1. IInv /\ [Next]_vars => KeepsAlternate
  BY NextStep
<1>2. IInv /\ [Next]_vars => [KeepsAlternate]_vars
  BY <1>1
<1> QED
  BY <1>2, InvariantHolds, PTL DEF Spec, AlternateKeepsHistory, KeepsAlternate

(***************************************************************************)
(* Copy mode stays on the lines that there are.                            *)
(***************************************************************************)

\* n steps of a loop, the one from i steps being from X[i] to X[i + 1].
LEMMA IterateThrough ==
    ASSUME NEW X, NEW Step, NEW c \in X[0], NEW n \in Nat,
           \A i \in Nat : \A x \in X[i] : Step[x] \in X[i + 1]
    PROVE  Iterate(Step, c, n) \in X[n]
<1> DEFINE Is(g, m) == g = [i \in 0..m |-> IF i = 0 THEN c ELSE Step[g[i - 1]]]
           f == CHOOSE g : Is(g, n)
           Bad == {m \in Nat : ~\E g : Is(g, m)}
<1>1. ASSUME NEW m \in Nat, \A i \in Nat : i < m => i \notin Bad
      PROVE  m \notin Bad
  <2>1. CASE m = 0
    <3> DEFINE g == [i \in 0..0 |-> c]
    <3>1. Is(g, 0)
      OBVIOUS
    <3> QED
      BY <2>1, <3>1
  <2>2. CASE m # 0
    <3>1. m - 1 \in Nat /\ m - 1 < m
      BY <2>2
    <3>2. m - 1 \notin Bad
      BY <1>1, <3>1
    <3>3. PICK g : Is(g, m - 1)
      BY <3>1, <3>2
    <3> DEFINE h == [i \in 0..m |-> IF i = m THEN Step[g[m - 1]] ELSE g[i]]
    <3>4. \A i \in 0..m : i # m => i \in 0..m - 1 /\ (i # 0 => i - 1 \in 0..m /\ i - 1 # m)
      BY <2>2
    <3>5. m - 1 \in 0..m - 1 /\ m - 1 \in 0..m /\ m - 1 # m
      BY <3>1
    <3>6. ASSUME NEW i \in 0..m PROVE h[i] = IF i = 0 THEN c ELSE Step[h[i - 1]]
      <4>1. CASE i = m
        <5>1. h[i] = Step[g[m - 1]] /\ h[m - 1] = g[m - 1]
          BY <3>5, <4>1
        <5> QED
          BY <2>2, <4>1, <5>1
      <4>2. CASE i # m
        <5>1. h[i] = g[i] /\ (i # 0 => h[i - 1] = g[i - 1])
          BY <3>4, <4>2
        <5>2. g[i] = IF i = 0 THEN c ELSE Step[g[i - 1]]
          BY <3>3, <3>4, <4>2
        <5> QED
          BY <5>1, <5>2
      <4> QED
        BY <4>1, <4>2
    <3>7. Is(h, m)
      <4>1. DOMAIN h = 0..m /\ h = [i \in 0..m |-> h[i]]
        OBVIOUS
      <4> HIDE DEF h
      <4> QED
        BY <3>6, <4>1
    <3> QED
      BY <3>7
  <2> QED
    BY <2>1, <2>2
<1>2. Bad = {}
  <2> SUFFICES ASSUME Bad # {} PROVE FALSE
    OBVIOUS
  <2>1. Bad \in SUBSET Nat
    OBVIOUS
  <2> HIDE DEF Bad
  <2>2. PICK m \in Bad : \A y \in Bad : m <= y
    BY <2>1, MinProps
  <2>3. m \in Nat
    BY <2>1
  <2>4. ASSUME NEW i \in Nat, i < m PROVE i \notin Bad
    BY <2>2, <2>3, <2>4
  <2> QED
    BY <1>1, <2>2, <2>3, <2>4
<1>3. \E g : Is(g, n)
  BY <1>2
<1>4. Is(f, n)
  BY <1>3
<1>5. \A i \in 0..n : f[i] = IF i = 0 THEN c ELSE Step[f[i - 1]]
  <2> HIDE DEF f
  <2> QED
    BY <1>4
<1>6. Iterate(Step, c, n) = f[n]
  BY DEF Iterate
<1> HIDE DEF f, Is
<1> DEFINE Out == {i \in 0..n : f[i] \notin X[i]}
<1>7. Out = {}
  <2> SUFFICES ASSUME Out # {} PROVE FALSE
    OBVIOUS
  <2>1. Out \in SUBSET Nat
    OBVIOUS
  <2>2. PICK i \in Out : \A y \in Out : i <= y
    <3> HIDE DEF Out
    <3> QED
      BY <2>1, MinProps
  <2>3. i \in 0..n /\ f[i] \notin X[i]
    OBVIOUS
  <2>4. i # 0
    BY <1>5, <2>3
  <2>5. i - 1 \in 0..n /\ i - 1 \in Nat /\ ~(i <= i - 1) /\ i - 1 + 1 = i
    BY <2>3, <2>4
  <2>6. f[i - 1] \in X[i - 1]
    BY <2>2, <2>5
  <2>7. Step[f[i - 1]] \in X[i]
    BY <2>5, <2>6
  <2>8. f[i] = Step[f[i - 1]]
    BY <1>5, <2>3, <2>4
  <2> QED
    BY <2>3, <2>7, <2>8
<1>8. n \in 0..n
  OBVIOUS
<1> QED
  BY <1>6, <1>7, <1>8

\* n steps of a loop stay where one step does.
LEMMA IterateIn ==
    ASSUME NEW X, NEW Step, NEW c \in X, NEW n \in Nat, \A x \in X : Step[x] \in X
    PROVE  Iterate(Step, c, n) \in X
<1> DEFINE Xs == [i \in Nat |-> X]
<1>1. Xs[n] = X /\ Xs[0] = X /\ \A i \in Nat : Xs[i] = X /\ Xs[i + 1] = X
  OBVIOUS
<1> HIDE DEF Xs
<1>2. Iterate(Step, c, n) \in Xs[n]
  BY <1>1, IterateThrough
<1> QED
  BY <1>1, <1>2

\* The cursor, the offset and the mark are on lines of the screen S.
OnLines(S, c) ==
    /\ c \in CopyType /\ c.cx >= 0 /\ c.lastcx >= 0
    /\ c.cy \in 0..S.sy - 1
    /\ c.oy \in 0..S.hs
    /\ c.sel # NoSel => c.sel.y \in 0..Lines(S) - 1
    /\ c.hung => S.ln[Lines(S)].wr

\* Where the selection shown starts.
MarkX(S, c) ==
    LET top == S.hs - c.oy
    IN  IF c.rect \/ ~(c.sel.y < top \/ c.sel.y > top + S.sy - 1) THEN c.sel.x
        ELSE IF c.sel.y < top THEN 0 ELSE S.sx - 1

MarkY(S, c) ==
    LET top == S.hs - c.oy
    IN  IF c.sel.y < top THEN 0
        ELSE IF c.sel.y > top + S.sy - 1 THEN S.sy - 1 ELSE c.sel.y - top

Good(S, c) ==
    /\ OnLines(S, c)
    /\ c.sel # NoSel /\ ~c.rect
           => c.shown = [sx |-> MarkX(S, c), sy |-> MarkY(S, c), ex |-> c.shown.ex, ey |-> c.cy]

\* Equal but for what is shown, the keys typed and the button.
SamePlace(c, d) ==
    /\ d.cx = c.cx /\ d.cy = c.cy /\ d.oy = c.oy /\ d.sel = c.sel /\ d.rect = c.rect
    /\ d.lastcx = c.lastcx /\ d.lastsx = c.lastsx /\ d.hung = c.hung

LEMMA SameGood ==
    ASSUME NEW S, NEW c, Good(S, c), NEW d \in CopyType, d.cx >= 0, d.lastcx >= 0,
           d.cy = c.cy, d.oy = c.oy, d.sel = c.sel, d.rect = c.rect, d.shown = c.shown,
           d.hung => c.hung
    PROVE  Good(S, d)
BY DEF Good, OnLines, MarkX, MarkY

LEMMA LineOf ==
    ASSUME Whole(B), NEW y \in Int
    PROVE  Line(y) \in GridLine
<1>1. CASE CheckY(B, y)
  <2>1. y + 1 \in 1..Len(B.ln)
    BY <1>1, WholeFields DEF CheckY, Lines
  <2> QED
    BY <1>1, <2>1, LinesOf, WholeFields DEF Line
<1>2. CASE ~CheckY(B, y)
  BY <1>2, BlankLine DEF Line
<1> QED
  BY <1>1, <1>2

LEMMA LengthNat ==
    ASSUME Whole(B), NEW y \in Int
    PROVE  Length(y) \in Nat
<1> DEFINE n == Least(Len(Line(y).c), B.sx)
           T == {0} \cup {x \in 1..n : Line(y).c[x] \in {"a", "W"}}
<1>1. n \in Nat
  <2>1. Len(Line(y).c) \in Nat /\ B.sx \in Nat
    BY LineOf, LineFields, WholeFields
  <2> QED
    BY <2>1, LeastProps
<1>2. Length(y) = Max(T)
  BY DEF Length
<1> HIDE DEF n
<1>3. T \in SUBSET (0..n) /\ T # {}
  BY <1>1
<1>4. \A x \in T : x \in Nat
  BY <1>1
<1> HIDE DEF T
<1>5. Max(T) \in T
  BY <1>1, <1>3, MaxProps
<1> QED
  BY <1>2, <1>4, <1>5

LEMMA PyIn ==
    ASSUME Whole(B), NEW c, OnLines(B, c)
    PROVE  Py(c) \in 0..Lines(B) - 1 /\ Py(c) \in Int
<1>1. B.hs \in Nat /\ B.sy \in Nat \ {0} /\ c.cy \in 0..B.sy - 1 /\ c.oy \in 0..B.hs
  BY WholeFields DEF OnLines
<1> QED
  BY <1>1 DEF Py, Lines

LEMMA UpdateGood ==
    ASSUME Whole(B), NEW c, OnLines(B, c)
    PROVE  Good(B, UpdateSelection(c)) /\ SamePlace(c, UpdateSelection(c))
<1> DEFINE e == [sx |-> MarkX(B, c), sy |-> MarkY(B, c), ex |-> c.cx, ey |-> c.cy]
           d == [c EXCEPT !.shown = e]
<1>1. c \in CopyType
  BY DEF OnLines
<1>2. CASE c.sel = NoSel
  BY <1>2 DEF UpdateSelection, Good, SamePlace
<1>3. CASE c.sel # NoSel
  <2>1. c.sel \in [x : Int, y : Int] /\ c.sel.x \in Int /\ c.sel.y \in Int
    BY <1>1, <1>3 DEF CopyType
  <2>2. UpdateSelection(c) = d
    BY <1>3 DEF UpdateSelection, MarkX, MarkY
  <2>3. B.sx \in Nat /\ B.sy \in Nat /\ B.hs \in Nat /\ c.oy \in Int /\ c.cx \in Int /\ c.cy \in Int
    BY <1>1, WholeFields DEF CopyType
  <2>4. MarkX(B, c) \in Int /\ MarkY(B, c) \in Int
    BY <2>1, <2>3 DEF MarkX, MarkY
  <2>5. e \in [sx : Int, sy : Int, ex : Int, ey : Int]
    BY <2>3, <2>4
  <2>6. e.sx = MarkX(B, c) /\ e.sy = MarkY(B, c) /\ e.ey = c.cy
        /\ e = [sx |-> MarkX(B, c), sy |-> MarkY(B, c), ex |-> e.ex, ey |-> c.cy]
    OBVIOUS
  <2> HIDE DEF e
  <2>7. d \in CopyType /\ d.shown = e /\ SamePlace(c, d)
    BY <1>1, <2>5 DEF CopyType, SamePlace
  <2> HIDE DEF d
  <2>8. MarkX(B, d) = MarkX(B, c) /\ MarkY(B, d) = MarkY(B, c)
    BY <2>7 DEF SamePlace, MarkX, MarkY
  <2>9. OnLines(B, d)
    BY <2>7 DEF OnLines, SamePlace
  <2>10. Good(B, d)
    BY <2>6, <2>7, <2>8, <2>9 DEF Good, SamePlace
  <2> QED
    BY <2>2, <2>7, <2>10
<1> QED
  BY <1>2, <1>3

LEMMA CursorAtGood ==
    ASSUME Whole(B), NEW c, OnLines(B, c), NEW x \in Nat, NEW y \in 0..B.sy - 1
    PROVE  /\ Good(B, CursorAt(c, x, y))
           /\ CursorAt(c, x, y).cx = x /\ CursorAt(c, x, y).cy = y
           /\ CursorAt(c, x, y).oy = c.oy /\ CursorAt(c, x, y).hung = c.hung
<1> DEFINE d == [c EXCEPT !.cx = x, !.cy = y]
<1>1. CursorAt(c, x, y) = UpdateSelection(d)
  BY DEF CursorAt
<1>2. c \in CopyType /\ x \in Int /\ y \in Int
  BY WholeFields DEF OnLines
<1>3. d \in CopyType /\ d.cx = x /\ d.cy = y /\ d.oy = c.oy /\ d.sel = c.sel /\ d.hung = c.hung
      /\ d.lastcx = c.lastcx
  BY <1>2 DEF CopyType
<1> HIDE DEF d
<1>4. OnLines(B, d)
  BY <1>3 DEF OnLines
<1> QED
  BY <1>1, <1>3, <1>4, UpdateGood DEF SamePlace

LEMMA StartSelectionGood ==
    ASSUME Whole(B), NEW c, OnLines(B, c)
    PROVE  /\ Good(B, StartSelection(c)) /\ StartSelection(c).cy = c.cy
           /\ StartSelection(c).hung = c.hung
<1> DEFINE y == Py(c)
           m == [x |-> c.cx, y |-> y]
           d == [c EXCEPT !.sel = m]
<1>1. StartSelection(c) = UpdateSelection(d)
  BY DEF StartSelection
<1>2. y \in Int /\ y \in 0..Lines(B) - 1
  BY PyIn
<1> HIDE DEF y
<1>3. m \in [x : Int, y : Int] /\ m.y = y
  BY <1>2 DEF OnLines, CopyType
<1> HIDE DEF m
<1>4. d \in CopyType /\ d.cx = c.cx /\ d.cy = c.cy /\ d.oy = c.oy /\ d.sel = m /\ d.hung = c.hung
      /\ d.lastcx = c.lastcx
  BY <1>3 DEF OnLines, CopyType
<1> HIDE DEF d
<1>5. OnLines(B, d)
  BY <1>2, <1>3, <1>4 DEF OnLines
<1> QED
  BY <1>1, <1>4, <1>5, UpdateGood DEF SamePlace

\* The cursor may stand past the end of its line, as far as it was or at the end.
LEMMA LeastIn ==
    ASSUME NEW a \in Nat, NEW b \in Nat
    PROVE  Least(a, b) \in Nat
BY DEF Least

LEMMA ClearSelectionGood ==
    ASSUME Whole(B), NEW c, OnLines(B, c)
    PROVE  Good(B, ClearSelection(c))
<1> DEFINE d == [c EXCEPT !.sel = NoSel, !.shown = NoSel]
           x == Least(d.cx, Length(Py(d)))
           e == [d EXCEPT !.cx = x]
<1>1. ClearSelection(c) = e
  BY DEF ClearSelection
<1>2. d \in CopyType /\ d.cx = c.cx /\ d.cy = c.cy /\ d.oy = c.oy /\ d.sel = NoSel
      /\ d.hung = c.hung /\ d.lastcx = c.lastcx
  BY DEF OnLines, CopyType
<1> HIDE DEF d
<1>3. OnLines(B, d)
  BY <1>2 DEF OnLines
<1>4. x \in Nat
  <2>1. d.cx \in Nat /\ Length(Py(d)) \in Nat
    BY <1>3, PyIn, LengthNat DEF OnLines, CopyType
  <2> QED
    BY <2>1, LeastIn
<1> HIDE DEF x
<1>5. e \in CopyType /\ e.cx = x /\ e.cy = c.cy /\ e.oy = c.oy /\ e.sel = NoSel
      /\ e.hung = c.hung /\ e.lastcx = c.lastcx
  BY <1>2, <1>4 DEF CopyType
<1> HIDE DEF e
<1> QED
  BY <1>1, <1>4, <1>5 DEF Good, OnLines

LEMMA RectangleToggleGood ==
    ASSUME Whole(B), NEW c, OnLines(B, c)
    PROVE  Good(B, RectangleToggle(c))
<1> DEFINE b == ~c.rect
           d == [c EXCEPT !.rect = b]
           x == Least(d.cx, Length(Py(d)))
           e == [d EXCEPT !.cx = x]
<1>1. RectangleToggle(c) = UpdateSelection(e)
  BY DEF RectangleToggle
<1>2. b \in BOOLEAN
  OBVIOUS
<1> HIDE DEF b
<1>3. d \in CopyType /\ d.cx = c.cx /\ d.cy = c.cy /\ d.oy = c.oy /\ d.sel = c.sel
      /\ d.hung = c.hung /\ d.lastcx = c.lastcx
  BY <1>2 DEF OnLines, CopyType
<1> HIDE DEF d
<1>4. OnLines(B, d)
  BY <1>3 DEF OnLines
<1>5. x \in Nat
  <2>1. d.cx \in Nat /\ Length(Py(d)) \in Nat
    BY <1>4, PyIn, LengthNat DEF OnLines, CopyType
  <2> QED
    BY <2>1, LeastIn
<1> HIDE DEF x
<1>6. e \in CopyType /\ e.cx = x /\ e.cy = c.cy /\ e.oy = c.oy /\ e.sel = c.sel
      /\ e.hung = c.hung /\ e.lastcx = c.lastcx
  BY <1>3, <1>5 DEF CopyType
<1> HIDE DEF e
<1>7. OnLines(B, e)
  BY <1>5, <1>6 DEF OnLines
<1> QED
  BY <1>1, <1>7, UpdateGood

\* Another offset.
LEMMA OffsetGood ==
    ASSUME Whole(B), NEW c, OnLines(B, c), NEW z \in 0..B.hs
    PROVE  /\ Good(B, UpdateSelection([c EXCEPT !.oy = z]))
           /\ SamePlace([c EXCEPT !.oy = z], UpdateSelection([c EXCEPT !.oy = z]))
           /\ UpdateSelection([c EXCEPT !.oy = z]).oy = z
           /\ UpdateSelection([c EXCEPT !.oy = z]).cy = c.cy
<1> DEFINE d == [c EXCEPT !.oy = z]
<1>1. z \in Int
  BY WholeFields
<1>2. d \in CopyType /\ d.cx = c.cx /\ d.cy = c.cy /\ d.oy = z /\ d.sel = c.sel /\ d.hung = c.hung
      /\ d.lastcx = c.lastcx
  BY <1>1 DEF OnLines, CopyType
<1> HIDE DEF d
<1>3. OnLines(B, d)
  BY <1>2 DEF OnLines
<1>4. /\ Good(B, UpdateSelection(d)) /\ SamePlace(d, UpdateSelection(d))
      /\ UpdateSelection(d).oy = z /\ UpdateSelection(d).cy = c.cy
  BY <1>2, <1>3, UpdateGood DEF SamePlace
<1> QED
  BY <1>4 DEF d

LEMMA ScrollUpGood ==
    ASSUME Whole(B), NEW c, Good(B, c), NEW n \in Nat
    PROVE  /\ Good(B, ScrollUp(c, n)) /\ ScrollUp(c, n).cy = c.cy
           /\ ScrollUp(c, n).oy = c.oy - Least(c.oy, n)
<1> DEFINE z == c.oy - Least(c.oy, n)
<1>1. OnLines(B, c)
  BY DEF Good
<1>2. B.hs \in Nat /\ c.oy \in 0..B.hs
  BY <1>1, WholeFields DEF OnLines
<1>3. z \in 0..B.hs /\ (c.oy = 0 => z = c.oy)
  BY <1>2 DEF Least
<1>4. ScrollUp(c, n) = IF c.oy = 0 THEN c ELSE UpdateSelection([c EXCEPT !.oy = z])
  BY DEF ScrollUp
<1> HIDE DEF z
<1>5. /\ Good(B, UpdateSelection([c EXCEPT !.oy = z]))
      /\ UpdateSelection([c EXCEPT !.oy = z]).oy = z
      /\ UpdateSelection([c EXCEPT !.oy = z]).cy = c.cy
  BY <1>1, <1>3, OffsetGood
<1>6. Good(B, ScrollUp(c, n)) /\ ScrollUp(c, n).cy = c.cy /\ ScrollUp(c, n).oy = z
  BY <1>3, <1>4, <1>5
<1> QED
  BY <1>6 DEF z

LEMMA ScrollDownGood ==
    ASSUME Whole(B), NEW c, Good(B, c), NEW n \in Nat
    PROVE  Good(B, ScrollDown(c, n)) /\ ScrollDown(c, n).cy = c.cy
<1> DEFINE z == c.oy + (IF c.oy > B.hs - n THEN B.hs - c.oy ELSE n)
<1>1. OnLines(B, c)
  BY DEF Good
<1>2. B.hs \in Nat /\ c.oy \in 0..B.hs
  BY <1>1, WholeFields DEF OnLines
<1>3. z \in 0..B.hs
  BY <1>2
<1>4. ScrollDown(c, n) = IF n > B.hs \/ c.oy = B.hs THEN c
                         ELSE UpdateSelection([c EXCEPT !.oy = z])
  BY DEF ScrollDown
<1> HIDE DEF z
<1>5. /\ Good(B, UpdateSelection([c EXCEPT !.oy = z]))
      /\ UpdateSelection([c EXCEPT !.oy = z]).cy = c.cy
  BY <1>1, <1>3, OffsetGood
<1> QED
  BY <1>4, <1>5

LEMMA RememberGood ==
    ASSUME Whole(B), NEW c, Good(B, c)
    PROVE  Good(B, Remember(c)) /\ Remember(c).cy = c.cy /\ Remember(c).oy = c.oy
<1> DEFINE n == Length(Py(c))
           k == [c EXCEPT !.lastcx = c.cx, !.lastsx = n]
           d == IF n = 0 THEN c ELSE k
           e == [d EXCEPT !.cx = d.lastcx]
<1>1. OnLines(B, c) /\ c \in CopyType
  BY DEF Good, OnLines
<1>2. n \in Int /\ c.cx \in Int /\ c.cx >= 0 /\ c.lastcx \in Int /\ c.lastcx >= 0
  <2>1. n \in Nat
    BY <1>1, PyIn, LengthNat
  <2> QED
    BY <1>1, <2>1 DEF OnLines, CopyType
<1>3. Remember(c) = e
  BY DEF Remember
<1> HIDE DEF n
<1>4. /\ k \in CopyType /\ k.cy = c.cy /\ k.oy = c.oy /\ k.sel = c.sel /\ k.rect = c.rect
      /\ k.shown = c.shown /\ k.hung = c.hung /\ k.lastcx = c.cx
  <2>1. k \in CopyType
    BY <1>1, <1>2 DEF CopyType
  <2>2. /\ k.cy = c.cy /\ k.oy = c.oy /\ k.sel = c.sel /\ k.rect = c.rect
        /\ k.shown = c.shown /\ k.hung = c.hung /\ k.lastcx = c.cx
    BY <1>1 DEF CopyType
  <2> QED
    BY <2>1, <2>2
<1> HIDE DEF k
<1>5. /\ d \in CopyType /\ d.cy = c.cy /\ d.oy = c.oy /\ d.sel = c.sel /\ d.rect = c.rect
      /\ d.shown = c.shown /\ d.hung = c.hung /\ d.lastcx \in Int /\ d.lastcx >= 0
  BY <1>1, <1>2, <1>4
<1> HIDE DEF d
<1>6. /\ e \in CopyType /\ e.cy = c.cy /\ e.oy = c.oy /\ e.sel = c.sel /\ e.rect = c.rect
      /\ e.shown = c.shown /\ e.hung = c.hung /\ e.cx >= 0 /\ e.lastcx >= 0
  BY <1>5 DEF CopyType
<1> HIDE DEF e
<1>7. e.hung => c.hung
  BY <1>6
<1>8. Good(B, e)
  BY <1>6, <1>7, SameGood
<1> QED
  BY <1>3, <1>6, <1>8

LEMMA FittedGood ==
    ASSUME Whole(B), NEW c, Good(B, c)
    PROVE  Good(B, Fitted(c)) /\ Fitted(c).cy = c.cy /\ Fitted(c).oy = c.oy
<1> DEFINE px == Length(Py(c))
<1>1. OnLines(B, c) /\ c.cy \in 0..B.sy - 1
  BY DEF Good, OnLines
<1>2. px \in Nat
  BY <1>1, PyIn, LengthNat
<1>3. Fitted(c) = c \/ Fitted(c) = CursorAt(c, px, c.cy)
  BY DEF Fitted
<1> HIDE DEF px
<1>4. /\ Good(B, CursorAt(c, px, c.cy)) /\ CursorAt(c, px, c.cy).cy = c.cy
      /\ CursorAt(c, px, c.cy).oy = c.oy
  BY <1>1, <1>2, CursorAtGood
<1> QED
  BY <1>3, <1>4

LEMMA UpGood ==
    ASSUME Whole(B), NEW c, Good(B, c), NEW scroll \in BOOLEAN
    PROVE  Good(B, Up(c, scroll))
<1> DEFINE d == Remember(c)
           x == d.cx
           y == d.cy - 1
           e == IF scroll \/ d.cy = 0 THEN ScrollDown(d, 1) ELSE CursorAt(d, x, y)
<1>1. Up(c, scroll) = Fitted(e)
  BY DEF Up
<1>2. Good(B, d)
  BY RememberGood
<1> HIDE DEF d
<1>3. OnLines(B, d) /\ d.cy \in 0..B.sy - 1 /\ x \in Nat
  BY <1>2 DEF Good, OnLines, CopyType
<1>4. d.cy # 0 => y \in 0..B.sy - 1
  BY <1>3, WholeFields
<1> HIDE DEF x, y
<1>5. Good(B, ScrollDown(d, 1))
  <2>1. 1 \in Nat
    OBVIOUS
  <2> QED
    BY <1>2, <2>1, ScrollDownGood
<1>6. d.cy # 0 => Good(B, CursorAt(d, x, y))
  BY <1>3, <1>4, CursorAtGood
<1>7. Good(B, e)
  BY <1>5, <1>6
<1> HIDE DEF e
<1> QED
  BY <1>1, <1>7, FittedGood

\* Down goes one line down, unless there is none.
LEMMA DownGood ==
    ASSUME Whole(B), NEW c, Good(B, c), NEW scroll \in BOOLEAN
    PROVE  /\ Good(B, Down(c, scroll))
           /\ ~scroll => Py(Down(c, scroll)) = IF Py(c) < Lines(B) - 1 THEN Py(c) + 1 ELSE Py(c)
<1> DEFINE d == Remember(c)
           x == d.cx
           y == d.cy + 1
           U == ScrollUp(d, 1)
           C == CursorAt(d, x, y)
           e == IF scroll \/ d.cy = B.sy - 1 THEN U ELSE C
<1>1. Down(c, scroll) = Fitted(e)
  BY DEF Down
<1>2. Good(B, d) /\ d.cy = c.cy /\ d.oy = c.oy
  BY RememberGood
<1> HIDE DEF d
<1>3. OnLines(B, d) /\ d.cy \in 0..B.sy - 1 /\ d.oy \in 0..B.hs /\ x \in Nat
  BY <1>2 DEF Good, OnLines, CopyType
<1>4. d.cy # B.sy - 1 => y \in 0..B.sy - 1
  <2>1. B.sy \in Nat
    BY WholeFields
  <2>2. \A k \in 0..B.sy - 1 : k # B.sy - 1 => k + 1 \in 0..B.sy - 1
    BY <2>1
  <2> QED
    BY <1>3, <2>2
<1> HIDE DEF x, y
<1>5. Good(B, U) /\ U.cy = d.cy /\ U.oy = d.oy - Least(d.oy, 1)
  <2>1. 1 \in Nat
    OBVIOUS
  <2> QED
    BY <1>2, <2>1, ScrollUpGood
<1>6. d.cy # B.sy - 1 => Good(B, C) /\ C.cy = y /\ C.oy = d.oy
  BY <1>3, <1>4, CursorAtGood
<1> HIDE DEF U, C
<1>7. Good(B, e)
  BY <1>5, <1>6
<1>8. ~scroll => IF d.cy = B.sy - 1 THEN e = U ELSE e = C
  OBVIOUS
<1> HIDE DEF e
<1>9. ~scroll => B.hs + e.cy - e.oy = IF B.hs + c.cy - c.oy < B.hs + B.sy - 1
                                      THEN B.hs + c.cy - c.oy + 1 ELSE B.hs + c.cy - c.oy
  <2>1. B.hs \in Nat /\ B.sy \in Nat \ {0} /\ c.cy \in 0..B.sy - 1 /\ c.oy \in 0..B.hs
    BY <1>2, <1>3, WholeFields
  <2>2. CASE d.cy = B.sy - 1
    <3>1. ~scroll => e.cy = c.cy /\ e.oy = c.oy - Least(c.oy, 1)
      BY <1>2, <1>5, <1>8, <2>2
    <3> QED
      BY <1>2, <2>1, <2>2, <3>1 DEF Least
  <2>3. CASE d.cy # B.sy - 1
    <3>1. ~scroll => e.cy = c.cy + 1 /\ e.oy = c.oy
      BY <1>2, <1>6, <1>8, <2>3 DEF y
    <3> QED
      BY <1>2, <2>1, <2>3, <3>1
  <2> QED
    BY <2>2, <2>3
<1>10. Good(B, Fitted(e)) /\ Fitted(e).cy = e.cy /\ Fitted(e).oy = e.oy
  BY <1>7, FittedGood
<1> DEFINE F == Fitted(e)
<1> HIDE DEF F
<1>11. Good(B, F) /\ F.cy = e.cy /\ F.oy = e.oy
  BY <1>10 DEF F
<1>12. /\ Py(F) = B.hs + e.cy - e.oy /\ Py(c) = B.hs + c.cy - c.oy
       /\ Lines(B) = B.hs + B.sy
  BY <1>11 DEF Py, Lines
<1>13. B.hs \in Nat /\ B.sy \in Nat
  BY WholeFields
<1>14. ~scroll => Py(F) = IF Py(c) < Lines(B) - 1 THEN Py(c) + 1 ELSE Py(c)
  BY <1>9, <1>12, <1>13
<1>15. Down(c, scroll) = F
  BY <1>1 DEF F
<1> QED
  BY <1>11, <1>14, <1>15

Goods(S) == {d \in CopyType : Good(S, d)}

LEMMA GoodIn ==
    ASSUME NEW S, NEW d
    PROVE  d \in Goods(S) <=> Good(S, d)
BY DEF Goods, Good, OnLines

LEMMA LinesNat ==
    ASSUME Whole(B)
    PROVE  Lines(B) \in Nat
BY WholeFields DEF Lines

LEMMA LineStartGood ==
    ASSUME Whole(B), NEW c, Good(B, c)
    PROVE  Good(B, StartOfLine(c))
<1> DEFINE Climb == [d \in CopyType |->
                        IF Py(d) > 0 /\ Line(Py(d) - 1).wr THEN Up(d, FALSE) ELSE d]
           e == IF c.cx = 0 THEN Iterate(Climb, c, Lines(B)) ELSE c
<1>1. StartOfLine(c) = CursorAt(e, 0, e.cy)
  BY DEF StartOfLine
<1>2. ASSUME NEW d \in Goods(B) PROVE Climb[d] \in Goods(B)
  <2>1. d \in CopyType /\ Good(B, d)
    BY DEF Goods
  <2>2. Good(B, Up(d, FALSE))
    BY <2>1, UpGood
  <2>3. Climb[d] = Up(d, FALSE) \/ Climb[d] = d
    BY <2>1
  <2> QED
    BY <2>1, <2>2, <2>3, GoodIn
<1> HIDE DEF Climb
<1>3. c \in Goods(B) /\ Lines(B) \in Nat
  BY GoodIn, LinesNat
<1>4. Iterate(Climb, c, Lines(B)) \in Goods(B)
  BY <1>2, <1>3, IterateIn
<1>5. Good(B, e)
  BY <1>4, GoodIn
<1> HIDE DEF e
<1>6. OnLines(B, e) /\ e.cy \in 0..B.sy - 1 /\ 0 \in Nat
  BY <1>5 DEF Good, OnLines
<1> QED
  BY <1>1, <1>6, CursorAtGood

\* Going down wrapped lines ends at the last line, or where the line is not wrapped.
LEMMA DescendTo ==
    ASSUME Whole(B), NEW c, Good(B, c),
           NEW Descend, Descend = [d \in CopyType |-> IF Line(Py(d)).wr THEN Down(d, FALSE) ELSE d]
    PROVE  LET e == Iterate(Descend, c, Lines(B))
           IN  Good(B, e) /\ (Line(Py(e)).wr => B.ln[Lines(B)].wr)
<1> DEFINE n == Lines(B)
           X == [i \in Nat |-> {d \in Goods(B) : Line(Py(d)).wr => Py(d) >= i \/ Py(d) = n - 1}]
           e == Iterate(Descend, c, n)
<1>1. n \in Nat
  BY LinesNat
<1>2. ASSUME NEW d, Good(B, d) PROVE Py(d) \in 0..n - 1 /\ Py(d) \in Int /\ d \in CopyType
  <2>1. OnLines(B, d)
    BY <1>2 DEF Good
  <2> QED
    BY <2>1, PyIn DEF OnLines
<1>3. c \in X[0]
  BY <1>1, <1>2, GoodIn
<1>4. ASSUME NEW i \in Nat, NEW d, Good(B, d), Line(Py(d)).wr => Py(d) >= i \/ Py(d) = n - 1
       PROVE  d \in X[i]
  BY <1>4, GoodIn
<1>5. ASSUME NEW i \in Nat, NEW d \in X[i] PROVE Descend[d] \in X[i + 1]
  <2>1. i + 1 \in Nat
    OBVIOUS
  <2>2. Good(B, d) /\ d \in CopyType /\ (Line(Py(d)).wr => Py(d) >= i \/ Py(d) = n - 1)
    BY GoodIn, <1>2
  <2> DEFINE D == Down(d, FALSE)
  <2>3. Good(B, D) /\ Py(D) = IF Py(d) < n - 1 THEN Py(d) + 1 ELSE Py(d)
    BY <2>2, DownGood
  <2> HIDE DEF D
  <2>4. CASE Line(Py(d)).wr
    <3>1. Descend[d] = D
      BY <2>2, <2>4 DEF D
    <3>2. Py(d) \in 0..n - 1 /\ Py(D) \in 0..n - 1
      BY <1>2, <2>2, <2>3
    <3> HIDE DEF n
    <3>3. Py(D) >= i + 1 \/ Py(D) = n - 1
      BY <1>1, <2>2, <2>3, <2>4, <3>2
    <3> HIDE DEF X
    <3>4. D \in X[i + 1]
      BY <1>4, <2>1, <2>3, <3>3
    <3> QED
      BY <3>1, <3>4
  <2>5. CASE ~Line(Py(d)).wr
    <3>1. Descend[d] = d
      BY <2>2, <2>5
    <3> HIDE DEF X
    <3>2. d \in X[i + 1]
      BY <1>4, <2>1, <2>2, <2>5
    <3> QED
      BY <3>1, <3>2
  <2> QED
    BY <2>4, <2>5
<1>6. e \in X[n]
  <2> HIDE DEF X, n
  <2> QED
    BY <1>1, <1>3, <1>5, IterateThrough
<1>7. Good(B, e) /\ (Line(Py(e)).wr => Py(e) >= n \/ Py(e) = n - 1)
  BY <1>1, <1>6, GoodIn
<1> HIDE DEF e
<1>8. Py(e) \in 0..n - 1
  BY <1>2, <1>7
<1>9. Line(Py(e)).wr => Py(e) = n - 1 /\ Py(e) + 1 = n
  <2> HIDE DEF n
  <2> QED
    BY <1>1, <1>7, <1>8
<1>10. CheckY(B, Py(e))
  BY <1>1, <1>8 DEF CheckY
<1>11. Line(Py(e)) = B.ln[Py(e) + 1]
  BY <1>10 DEF Line
<1>12. Good(B, e) /\ (Line(Py(e)).wr => B.ln[Lines(B)].wr)
  BY <1>7, <1>9, <1>11
<1> QED
  BY <1>12 DEF e

LEMMA LineEndGood ==
    ASSUME Whole(B), NEW c, Good(B, c)
    PROVE  Good(B, EndOfLine(c))
<1> DEFINE px == Length(Py(c))
           x == IF c.sel # NoSel /\ c.rect THEN B.sx ELSE px
           Descend == [d \in CopyType |-> IF Line(Py(d)).wr THEN Down(d, FALSE) ELSE d]
           e == Iterate(Descend, c, Lines(B))
           q == Length(Py(e))
           f == CursorAt(e, q, e.cy)
           h == f.hung \/ Line(Py(e)).wr
           g == [f EXCEPT !.hung = h]
<1>1. EndOfLine(c) \in {CursorAt(c, px, c.cy), CursorAt(c, x, c.cy), g}
  BY DEF EndOfLine
<1>2. Good(B, e) /\ (Line(Py(e)).wr => B.ln[Lines(B)].wr)
  BY DescendTo
<1> HIDE DEF e
<1>3. OnLines(B, c) /\ OnLines(B, e) /\ c.cy \in 0..B.sy - 1 /\ e.cy \in 0..B.sy - 1
  BY <1>2 DEF Good, OnLines
<1>4. px \in Nat /\ q \in Nat
  BY <1>3, PyIn, LengthNat
<1>5. x \in Nat
  BY <1>4, WholeFields
<1>6. h \in BOOLEAN
  <2>1. Line(Py(e)) \in GridLine
    BY <1>3, PyIn, LineOf
  <2>2. e.hung \in BOOLEAN /\ f.hung = e.hung
    BY <1>3, <1>4, CursorAtGood DEF OnLines, CopyType
  <2> QED
    BY <2>1, <2>2
<1> HIDE DEF px, x, q
<1>7. Good(B, CursorAt(c, px, c.cy)) /\ Good(B, CursorAt(c, x, c.cy))
  BY <1>3, <1>4, <1>5, CursorAtGood
<1>8. Good(B, f)
  BY <1>3, <1>4, CursorAtGood
<1> HIDE DEF f
<1>9. h => B.ln[Lines(B)].wr
  <2>1. f.hung => B.ln[Lines(B)].wr
    BY <1>8 DEF Good, OnLines
  <2> QED
    BY <1>2, <2>1
<1> HIDE DEF h
<1>10. f \in CopyType
  BY <1>8 DEF Good, OnLines
<1>11. g \in CopyType /\ g.hung = h
  BY <1>6, <1>10 DEF CopyType
<1>12. /\ g.cx = f.cx /\ g.lastcx = f.lastcx /\ g.cy = f.cy /\ g.oy = f.oy /\ g.sel = f.sel
       /\ g.rect = f.rect /\ g.shown = f.shown
  BY <1>10 DEF CopyType
<1> HIDE DEF g
<1>13. Good(B, g)
  BY <1>8, <1>9, <1>11, <1>12 DEF Good, OnLines, MarkX, MarkY
<1> QED
  BY <1>1, <1>7, <1>13

LEMMA LeftGood ==
    ASSUME Whole(B), NEW c, Good(B, c)
    PROVE  Good(B, Left(c))
<1> DEFINE x == c.cx - 1
           y == c.cy
<1>1. Good(B, EndOfLine(Up(c, FALSE)))
  BY UpGood, LineEndGood
<1>2. OnLines(B, c) /\ y \in 0..B.sy - 1
  BY DEF Good, OnLines
<1>3. c.cx # 0 => x \in Nat
  BY <1>2 DEF OnLines, CopyType
<1>4. Left(c) = IF c.cx = 0 THEN EndOfLine(Up(c, FALSE)) ELSE CursorAt(c, x, y)
  BY DEF Left
<1> HIDE DEF x, y
<1>5. c.cx # 0 => Good(B, CursorAt(c, x, y))
  BY <1>2, <1>3, CursorAtGood
<1> QED
  BY <1>1, <1>4, <1>5

LEMMA RightGood ==
    ASSUME Whole(B), NEW c, Good(B, c)
    PROVE  Good(B, Right(c))
<1> DEFINE x == c.cx + 1
           y == c.cy
<1>1. Good(B, Down(StartOfLine(c), FALSE))
  BY LineStartGood, DownGood
<1>2. OnLines(B, c) /\ y \in 0..B.sy - 1
  BY DEF Good, OnLines
<1>3. x \in Nat
  BY <1>2 DEF OnLines, CopyType
<1>4. Right(c) = Down(StartOfLine(c), FALSE) \/ Right(c) = CursorAt(c, x, y)
  BY DEF Right
<1> HIDE DEF x, y
<1>5. Good(B, CursorAt(c, x, y))
  BY <1>2, <1>3, CursorAtGood
<1> QED
  BY <1>1, <1>4, <1>5

LEMMA IndentationGood ==
    ASSUME Whole(B), NEW c, Good(B, c)
    PROVE  Good(B, BackToIndentation(c))
<1> DEFINE n == Length(Py(c))
           T == {n} \cup {x \in 0..n : Peek(B, x, Py(c)) \in {"a", "W"}}
           m == Min(T)
           y == c.cy
<1>1. OnLines(B, c) /\ y \in 0..B.sy - 1
  BY DEF Good, OnLines
<1>2. n \in Nat
  BY <1>1, PyIn, LengthNat
<1>3. BackToIndentation(c) = CursorAt(c, m, y)
  BY DEF BackToIndentation
<1>4. m \in Nat
  <2> HIDE DEF n
  <2>1. T \in SUBSET Nat /\ T # {}
    BY <1>2
  <2> HIDE DEF T
  <2> QED
    BY <2>1, MinProps
<1> HIDE DEF m, y
<1> QED
  BY <1>1, <1>3, <1>4, CursorAtGood

\* A place in a word: a good one of the cursor, and a column.
GoodWords(S) == {w \in WordType : Good(S, w.c) /\ w.x >= 0}

LEMMA WordFields ==
    /\ \A w \in WordType : /\ w = [c |-> w.c, x |-> w.x, skip |-> w.skip, done |-> w.done]
                           /\ w.c \in CopyType /\ w.x \in Int
                           /\ w.skip \in BOOLEAN /\ w.done \in BOOLEAN
    /\ \A k \in CopyType, z \in Int, s, t \in BOOLEAN :
           [c |-> k, x |-> z, skip |-> s, done |-> t] \in WordType
BY DEF WordType

LEMMA WordAt ==
    ASSUME NEW w \in WordType, NEW x \in Int
    PROVE  [w EXCEPT !.x = x] \in WordType /\ [w EXCEPT !.x = x].c = w.c /\ [w EXCEPT !.x = x].x = x
<1>1. [w EXCEPT !.x = x] = [c |-> w.c, x |-> x, skip |-> w.skip, done |-> w.done]
  BY WordFields
<1>2. [c |-> w.c, x |-> x, skip |-> w.skip, done |-> w.done] \in WordType
  BY WordFields
<1> QED
  BY <1>1, <1>2

LEMMA WordSkip ==
    ASSUME NEW w \in WordType, NEW b \in BOOLEAN
    PROVE  [w EXCEPT !.skip = b] \in WordType /\ [w EXCEPT !.skip = b].c = w.c /\ [w EXCEPT !.skip = b].x = w.x
<1>1. [w EXCEPT !.skip = b] = [c |-> w.c, x |-> w.x, skip |-> b, done |-> w.done]
  BY WordFields
<1>2. [c |-> w.c, x |-> w.x, skip |-> b, done |-> w.done] \in WordType
  BY WordFields
<1> QED
  BY <1>1, <1>2

LEMMA WordDone ==
    ASSUME NEW w \in WordType, NEW b \in BOOLEAN
    PROVE  [w EXCEPT !.done = b] \in WordType /\ [w EXCEPT !.done = b].c = w.c /\ [w EXCEPT !.done = b].x = w.x
<1>1. [w EXCEPT !.done = b] = [c |-> w.c, x |-> w.x, skip |-> w.skip, done |-> b]
  BY WordFields
<1>2. [c |-> w.c, x |-> w.x, skip |-> w.skip, done |-> b] \in WordType
  BY WordFields
<1> QED
  BY <1>1, <1>2

LEMMA WordDoneAt ==
    ASSUME NEW w \in WordType, NEW x \in Int, NEW b \in BOOLEAN
    PROVE  /\ [w EXCEPT !.x = x, !.done = b] \in WordType
           /\ [w EXCEPT !.x = x, !.done = b].c = w.c /\ [w EXCEPT !.x = x, !.done = b].x = x
<1> DEFINE u == [w EXCEPT !.x = x]
           v == [u EXCEPT !.done = b]
<1>1. [w EXCEPT !.x = x, !.done = b] = v
  OBVIOUS
<1>2. u = [c |-> w.c, x |-> x, skip |-> w.skip, done |-> w.done]
  BY WordFields
<1> HIDE DEF u
<1>3. v = [c |-> w.c, x |-> x, skip |-> w.skip, done |-> b]
  BY <1>2
<1>4. [c |-> w.c, x |-> x, skip |-> w.skip, done |-> b] \in WordType
  BY WordFields
<1> HIDE DEF v
<1>5. v \in WordType /\ v.c = w.c /\ v.x = x
  BY <1>3, <1>4
<1> QED
  BY <1>1, <1>5

LEMMA WordDoneThere ==
    ASSUME NEW w \in WordType, NEW d \in CopyType, NEW b \in BOOLEAN
    PROVE  /\ [w EXCEPT !.done = b, !.c = d] \in WordType
           /\ [w EXCEPT !.done = b, !.c = d].c = d /\ [w EXCEPT !.done = b, !.c = d].x = w.x
<1> DEFINE u == [w EXCEPT !.done = b]
           v == [u EXCEPT !.c = d]
<1>1. [w EXCEPT !.done = b, !.c = d] = v
  OBVIOUS
<1>2. u = [c |-> w.c, x |-> w.x, skip |-> w.skip, done |-> b]
  BY WordFields
<1> HIDE DEF u
<1>3. v = [c |-> d, x |-> w.x, skip |-> w.skip, done |-> b]
  BY <1>2
<1>4. [c |-> d, x |-> w.x, skip |-> w.skip, done |-> b] \in WordType
  BY WordFields
<1> HIDE DEF v
<1>5. v \in WordType /\ v.c = d /\ v.x = w.x
  BY <1>3, <1>4
<1> QED
  BY <1>1, <1>5

LEMMA WordMoved ==
    ASSUME NEW w \in WordType, NEW d \in CopyType, NEW x \in Int
    PROVE  /\ [w EXCEPT !.c = d, !.x = x] \in WordType
           /\ [w EXCEPT !.c = d, !.x = x].c = d /\ [w EXCEPT !.c = d, !.x = x].x = x
<1> DEFINE u == [w EXCEPT !.c = d]
           v == [u EXCEPT !.x = x]
<1>1. [w EXCEPT !.c = d, !.x = x] = v
  OBVIOUS
<1>2. u = [c |-> d, x |-> w.x, skip |-> w.skip, done |-> w.done]
  BY WordFields
<1> HIDE DEF u
<1>3. v = [c |-> d, x |-> x, skip |-> w.skip, done |-> w.done]
  BY <1>2
<1>4. [c |-> d, x |-> x, skip |-> w.skip, done |-> w.done] \in WordType
  BY WordFields
<1> HIDE DEF v
<1>5. v \in WordType /\ v.c = d /\ v.x = x
  BY <1>3, <1>4
<1> QED
  BY <1>1, <1>5

LEMMA WordStepGood ==
    ASSUME Whole(B), NEW w \in GoodWords(B), NEW first \in BOOLEAN
    PROVE  WordStep(w, first) \in GoodWords(B)
<1> DEFINE d == Down(w.c, FALSE)
           x == w.x + 1
           y == w.c.cy
           k == CursorAt(w.c, w.x, y)
           b == ~w.skip
           w1 == [w EXCEPT !.done = TRUE]
           w2 == [w EXCEPT !.c = d, !.x = 0]
           w3 == [w EXCEPT !.x = x]
           w4 == [w EXCEPT !.skip = b]
           w5 == [w EXCEPT !.done = TRUE, !.c = k]
<1>1. w \in WordType /\ Good(B, w.c) /\ w.x \in Nat
  BY DEF GoodWords, WordType
<1>2. OnLines(B, w.c) /\ y \in 0..B.sy - 1
  BY <1>1 DEF Good, OnLines
<1>3. x \in Nat /\ b \in BOOLEAN
  BY <1>1
<1>4. Good(B, d)
  BY <1>1, DownGood
<1>5. Good(B, k)
  <2> HIDE DEF y
  <2> QED
    BY <1>1, <1>2, CursorAtGood
<1>6. WordStep(w, first) \in {w, w1, w2, w3, w4, w5}
  BY DEF WordStep
<1> HIDE DEF d, x, y, k, b
<1>7. d \in CopyType /\ k \in CopyType
  BY <1>4, <1>5 DEF Good, OnLines
<1>8. w.c \in CopyType /\ w.x \in Int /\ TRUE \in BOOLEAN
  BY <1>1 DEF WordType
<1>9. w1 \in WordType /\ w1.c = w.c /\ w1.x = w.x
  BY <1>1, <1>8, WordDone, Zenon
<1>10. x \in Int /\ 0 \in Int
  BY <1>3
<1>11. w2 \in WordType /\ w2.c = d /\ w2.x = 0
  <2>1. w2 \in WordType
    BY <1>1, <1>7, <1>10, WordMoved, Zenon
  <2>2. w = [c |-> w.c, x |-> w.x, skip |-> w.skip, done |-> w.done]
    BY <1>1 DEF WordType
  <2>3. w2.c = d /\ w2.x = 0
    BY <2>2
  <2> QED
    BY <2>1, <2>3
<1>12. w3 \in WordType /\ w3.c = w.c /\ w3.x = x
  BY <1>1, <1>10, WordAt, Zenon
<1>13. w4 \in WordType /\ w4.c = w.c /\ w4.x = w.x
  BY <1>1, <1>3, WordSkip, Zenon
<1>14. w5 \in WordType /\ w5.c = k /\ w5.x = w.x
  BY <1>1, <1>7, <1>8, WordDoneThere, Zenon
<1> HIDE DEF w1, w2, w3, w4, w5
<1>15. {w, w1, w2, w3, w4, w5} \subseteq GoodWords(B)
  BY <1>1, <1>3, <1>4, <1>5, <1>9, <1>11, <1>12, <1>13, <1>14 DEF GoodWords
<1> QED
  BY <1>6, <1>15

LEMMA NextWordGood ==
    ASSUME Whole(B), NEW c, Good(B, c), NEW first \in BOOLEAN
    PROVE  Good(B, NextWord(c, first))
<1> DEFINE Step == [w \in WordType |-> WordStep(w, first)]
           w0 == [c |-> c, x |-> c.cx, skip |-> first, done |-> FALSE]
           n == Lines(B) * (B.sx + 3) + 2
<1>1. NextWord(c, first) = Iterate(Step, w0, n).c
  BY DEF NextWord
<1>2. n \in Nat
  <2> DEFINE k == Lines(B)
             m == B.sx + 3
  <2>1. k \in Nat /\ m \in Nat
    BY LinesNat, WholeFields
  <2> HIDE DEF k, m
  <2>2. k * m \in Nat
    BY <2>1
  <2>3. n = k * m + 2
    BY DEF k, m
  <2> HIDE DEF n
  <2> QED
    BY <2>2, <2>3
<1>3. w0 \in GoodWords(B)
  BY DEF GoodWords, WordType, Good, OnLines, CopyType
<1>4. ASSUME NEW w \in GoodWords(B) PROVE Step[w] \in GoodWords(B)
  <2>1. Step[w] = WordStep(w, first)
    BY DEF GoodWords
  <2> QED
    BY <2>1, WordStepGood
<1> HIDE DEF Step, w0, n
<1>5. Iterate(Step, w0, n) \in GoodWords(B)
  BY <1>2, <1>3, <1>4, IterateIn
<1> QED
  BY <1>1, <1>5 DEF GoodWords

LEMMA WordBackGood ==
    ASSUME Whole(B), NEW w \in GoodWords(B)
    PROVE  WordBack(w) \in GoodWords(B)
<1> DEFINE y == Py(w.c)
           xs == {x \in 0..w.x - 1 : ~InSet(x, y)}
           m == Max(xs)
           d == Up(w.c, FALSE)
           n == Length(Py(d))
           w1 == [w EXCEPT !.x = m, !.done = TRUE]
           w2 == [w EXCEPT !.x = 0, !.done = TRUE]
           w3 == [w EXCEPT !.c = d, !.x = n]
<1>1. w \in WordType /\ Good(B, w.c) /\ w.x \in Nat
  BY DEF GoodWords, WordType
<1>2. Good(B, d) /\ d \in CopyType
  BY <1>1, UpGood DEF Good, OnLines
<1>3. n \in Nat
  <2> HIDE DEF d
  <2>1. OnLines(B, d)
    BY <1>2 DEF Good
  <2> QED
    BY <2>1, PyIn, LengthNat
<1>4. xs # {} => m \in Nat
  <2> HIDE DEF y
  <2> SUFFICES ASSUME xs # {} PROVE m \in Nat
    OBVIOUS
  <2> DEFINE u == w.x - 1
  <2>1. u \in Nat
    BY <1>1
  <2>2. xs \subseteq 0..u
    OBVIOUS
  <2> HIDE DEF u, xs
  <2>3. m \in 0..u
    BY <2>1, <2>2, MaxProps
  <2> QED
    BY <2>1, <2>3
<1>5. WordBack(w) \in {w, w2, w3} \/ (xs # {} /\ WordBack(w) = w1)
  BY DEF WordBack
<1> HIDE DEF d, n, m, xs, y
<1>6. w.c \in CopyType /\ n \in Int /\ 0 \in Int /\ TRUE \in BOOLEAN /\ (xs # {} => m \in Int)
  BY <1>1, <1>3, <1>4 DEF WordType
<1>7. xs # {} => w1 \in WordType /\ w1.c = w.c /\ w1.x = m
  BY <1>1, <1>6, WordDoneAt, Zenon
<1>8. w2 \in WordType /\ w2.c = w.c /\ w2.x = 0
  BY <1>1, <1>6, WordDoneAt, Zenon
<1>9. w3 \in WordType /\ w3.c = d /\ w3.x = n
  <2>1. w3 \in WordType
    BY <1>1, <1>2, <1>6, WordMoved, Zenon
  <2>2. w = [c |-> w.c, x |-> w.x, skip |-> w.skip, done |-> w.done]
    BY <1>1 DEF WordType
  <2>3. w3.c = d /\ w3.x = n
    BY <2>2
  <2> QED
    BY <2>1, <2>3
<1> HIDE DEF w1, w2, w3
<1>10. {w, w2, w3} \subseteq GoodWords(B) /\ (xs # {} => w1 \in GoodWords(B))
  BY <1>1, <1>2, <1>3, <1>4, <1>7, <1>8, <1>9 DEF GoodWords
<1> QED
  BY <1>5, <1>10

LEMMA PreviousWordGood ==
    ASSUME Whole(B), NEW c, Good(B, c)
    PROVE  Good(B, PreviousWord(c))
<1> DEFINE Step == [w \in WordType |-> WordBack(w)]
           w0 == [c |-> c, x |-> c.cx, skip |-> FALSE, done |-> FALSE]
           n == Lines(B) + 1
           e == Iterate(Step, w0, n)
           word == {x \in 0..e.x : \A z \in x..e.x - 1 : ~InSet(z, Py(e.c))}
           m == Min(word)
           k == e.c
           y == k.cy
<1>1. PreviousWord(c) = CursorAt(k, m, y)
  BY DEF PreviousWord
<1>2. n \in Nat
  BY LinesNat
<1>3. w0 \in GoodWords(B)
  BY DEF GoodWords, WordType, Good, OnLines, CopyType
<1>4. ASSUME NEW w \in GoodWords(B) PROVE Step[w] \in GoodWords(B)
  <2>1. Step[w] = WordBack(w)
    BY DEF GoodWords
  <2> QED
    BY <2>1, WordBackGood
<1>5. e \in GoodWords(B)
  <2> HIDE DEF Step, w0, n
  <2> QED
    BY <1>2, <1>3, <1>4, IterateIn
<1> HIDE DEF e
<1>6. Good(B, k) /\ e.x \in Nat
  BY <1>5 DEF GoodWords, WordType
<1>7. OnLines(B, k) /\ y \in 0..B.sy - 1
  BY <1>6 DEF Good, OnLines
<1>8. m \in Nat
  <2>1. word \in SUBSET Nat /\ e.x \in word
    BY <1>6
  <2> HIDE DEF word
  <2> QED
    BY <2>1, MinProps
<1> HIDE DEF m, y, k
<1> QED
  BY <1>1, <1>7, <1>8, CursorAtGood

\* The line found is shown a quarter of the screen from its end, or with the end.
LEMMA ScrollToGood ==
    ASSUME Whole(B), B.sy >= 4, NEW c, Good(B, c), NEW px \in Nat, NEW py \in 0..Lines(B) - 1
    PROVE  Good(B, ScrollTo(c, px, py))
<1> DEFINE gap == B.sy \div 4
           offset == IF py < B.sy THEN 0
                     ELSE IF py > B.hs + B.sy - gap THEN B.hs ELSE py + gap - B.sy
           y == py - offset
           z == B.hs - offset
           d == [c EXCEPT !.cx = px, !.cy = y, !.oy = z]
<1>1. ScrollTo(c, px, py) = UpdateSelection(d)
  BY DEF ScrollTo
<1>2. B.hs \in Nat /\ B.sy \in Nat /\ py \in 0..B.hs + B.sy - 1
  BY WholeFields DEF Lines
<1>3. gap \in Int /\ gap >= 1 /\ gap <= B.sy
  BY <1>2
<1> HIDE DEF gap
<1>4. y \in 0..B.sy - 1 /\ z \in 0..B.hs /\ y \in Int /\ z \in Int
  BY <1>2, <1>3
<1> HIDE DEF y, z
<1>5. OnLines(B, c) /\ c \in CopyType
  BY DEF Good, OnLines
<1>6. d \in CopyType
  <2>1. px \in Int
    OBVIOUS
  <2> QED
    BY <1>4, <1>5, <2>1 DEF CopyType
<1>7. d.cx = px /\ d.cy = y /\ d.oy = z /\ d.sel = c.sel /\ d.hung = c.hung /\ d.lastcx = c.lastcx
  BY <1>5 DEF CopyType
<1> HIDE DEF d
<1>8. OnLines(B, d)
  BY <1>4, <1>5, <1>6, <1>7 DEF OnLines
<1> QED
  BY <1>1, <1>8, UpdateGood

LEMMA PageUpGood ==
    ASSUME Whole(B), NEW c, Good(B, c), NEW n \in Nat
    PROVE  Good(B, PageUp(c, n))
<1> DEFINE z == Least(c.oy + n, B.hs)
<1>1. OnLines(B, c) /\ c.oy \in Nat /\ B.hs \in Nat
  BY WholeFields DEF Good, OnLines
<1>2. z \in 0..B.hs
  BY <1>1 DEF Least
<1>3. PageUp(c, n) = UpdateSelection([c EXCEPT !.oy = z])
  BY DEF PageUp
<1> HIDE DEF z
<1> QED
  BY <1>1, <1>2, <1>3, OffsetGood

LEMMA PageDownGood ==
    ASSUME Whole(B), NEW c, Good(B, c), NEW n \in Nat
    PROVE  Good(B, PageDown(c, n))
<1> DEFINE z == Greatest(c.oy - n, 0)
<1>1. OnLines(B, c) /\ c.oy \in 0..B.hs /\ B.hs \in Nat
  BY WholeFields DEF Good, OnLines
<1>2. z \in 0..B.hs
  BY <1>1 DEF Greatest
<1>3. PageDown(c, n) = UpdateSelection([c EXCEPT !.oy = z])
  BY DEF PageDown
<1> HIDE DEF z
<1> QED
  BY <1>1, <1>2, <1>3, OffsetGood

LEMMA JumpsGood ==
    ASSUME Whole(B), NEW c, Good(B, c), NEW type, NEW d \in Jumps(c, type)
    PROVE  Good(B, d)
<1> DEFINE xs == IF type = "jumpforward" THEN JumpAhead(c)
                 ELSE IF type = "jumpback" THEN JumpBack(c) ELSE {}
           y == c.cy
<1>1. OnLines(B, c) /\ y \in 0..B.sy - 1 /\ c.cx \in Nat
  BY DEF Good, OnLines, CopyType
<1>2. Length(Py(c)) \in Nat
  BY <1>1, PyIn, LengthNat
<1>3. JumpAhead(c) \subseteq Nat /\ JumpBack(c) \subseteq Nat
  BY <1>1, <1>2 DEF JumpAhead, JumpBack, Greatest
<1>4. xs \subseteq Nat
  BY <1>3
<1>5. d = c \/ \E x \in xs : d = CursorAt(c, x, y)
  BY DEF Jumps
<1> HIDE DEF xs, y
<1>6. \A x \in xs : Good(B, CursorAt(c, x, y))
  BY <1>1, <1>4, CursorAtGood
<1> QED
  BY <1>5, <1>6

LEMMA SearchesGood ==
    ASSUME Whole(B), B.sy >= 4, NEW c, Good(B, c), NEW type, NEW d \in Searches(c, type)
    PROVE  Good(B, d)
<1> DEFINE up == IF c.cx = 0 /\ Py(c) = 0 THEN {} ELSE (0..B.sx - 1) \X (0..Lines(B) - 1)
           down == (0..B.sx - 2) \X (0..Lines(B) - 2)
           ps == IF type = "searchup" THEN up ELSE IF type = "searchdown" THEN down ELSE {}
<1>1. d = c \/ \E p \in ps : d = ScrollTo(c, p[1], p[2])
  BY DEF Searches
<1>2. B.sx \in Nat /\ Lines(B) \in Nat
  BY WholeFields, LinesNat
<1>3. \A p \in ps : p[1] \in Nat /\ p[2] \in 0..Lines(B) - 1
  BY <1>2
<1> HIDE DEF ps
<1>4. \A p \in ps : Good(B, ScrollTo(c, p[1], p[2]))
  BY <1>3, ScrollToGood
<1> QED
  BY <1>1, <1>4

\* A key done n times.
LEMMA TimesGood ==
    ASSUME NEW c, Good(B, c), NEW n \in Nat, NEW Step, \A d \in Goods(B) : Step[d] \in Goods(B)
    PROVE  Good(B, Iterate(Step, c, n))
BY GoodIn, IterateIn

LEMMA KeysGood ==
    ASSUME Whole(B), NEW c, Good(B, c), NEW n \in Nat
    PROVE  /\ Good(B, Lefts(c, n))
           /\ Good(B, Rights(c, n))
           /\ Good(B, Ups(c, n))
           /\ Good(B, Downs(c, n))
           /\ Good(B, ScrollUps(c, n))
           /\ Good(B, ScrollDowns(c, n))
           /\ Good(B, NextWords(c, n))
           /\ Good(B, NextWordEnds(c, n))
           /\ Good(B, PreviousWords(c, n))
<1>0. ASSUME NEW d \in Goods(B) PROVE Good(B, d) /\ d \in CopyType
  BY DEF Goods
<1>1. Good(B, Lefts(c, n))
  <2> DEFINE Step == [d \in CopyType |-> Left(d)]
  <2>1. ASSUME NEW d \in Goods(B) PROVE Step[d] \in Goods(B)
    <3>1. Good(B, Left(d)) /\ Step[d] = Left(d)
      BY <1>0, LeftGood
    <3> QED
      BY <3>1, GoodIn
  <2> HIDE DEF Step
  <2>2. Good(B, Iterate(Step, c, n))
    BY <2>1, TimesGood
  <2> QED
    BY <2>2 DEF Lefts, Step
<1>2. Good(B, Rights(c, n))
  <2> DEFINE Step == [d \in CopyType |-> Right(d)]
  <2>1. ASSUME NEW d \in Goods(B) PROVE Step[d] \in Goods(B)
    <3>1. Good(B, Right(d)) /\ Step[d] = Right(d)
      BY <1>0, RightGood
    <3> QED
      BY <3>1, GoodIn
  <2> HIDE DEF Step
  <2>2. Good(B, Iterate(Step, c, n))
    BY <2>1, TimesGood
  <2> QED
    BY <2>2 DEF Rights, Step
<1>3. Good(B, Ups(c, n))
  <2> DEFINE Step == [d \in CopyType |-> Up(d, FALSE)]
  <2>1. ASSUME NEW d \in Goods(B) PROVE Step[d] \in Goods(B)
    <3>1. Good(B, Up(d, FALSE)) /\ Step[d] = Up(d, FALSE)
      BY <1>0, UpGood
    <3> QED
      BY <3>1, GoodIn
  <2> HIDE DEF Step
  <2>2. Good(B, Iterate(Step, c, n))
    BY <2>1, TimesGood
  <2> QED
    BY <2>2 DEF Ups, Step
<1>4. Good(B, Downs(c, n))
  <2> DEFINE Step == [d \in CopyType |-> Down(d, FALSE)]
  <2>1. ASSUME NEW d \in Goods(B) PROVE Step[d] \in Goods(B)
    <3>1. Good(B, Down(d, FALSE)) /\ Step[d] = Down(d, FALSE)
      BY <1>0, DownGood
    <3> QED
      BY <3>1, GoodIn
  <2> HIDE DEF Step
  <2>2. Good(B, Iterate(Step, c, n))
    BY <2>1, TimesGood
  <2> QED
    BY <2>2 DEF Downs, Step
<1>5. Good(B, ScrollUps(c, n))
  <2> DEFINE Step == [d \in CopyType |-> Up(d, TRUE)]
  <2>1. ASSUME NEW d \in Goods(B) PROVE Step[d] \in Goods(B)
    <3>1. Good(B, Up(d, TRUE)) /\ Step[d] = Up(d, TRUE)
      BY <1>0, UpGood
    <3> QED
      BY <3>1, GoodIn
  <2> HIDE DEF Step
  <2>2. Good(B, Iterate(Step, c, n))
    BY <2>1, TimesGood
  <2> QED
    BY <2>2 DEF ScrollUps, Step
<1>6. Good(B, ScrollDowns(c, n))
  <2> DEFINE Step == [d \in CopyType |-> Down(d, TRUE)]
  <2>1. ASSUME NEW d \in Goods(B) PROVE Step[d] \in Goods(B)
    <3>1. Good(B, Down(d, TRUE)) /\ Step[d] = Down(d, TRUE)
      BY <1>0, DownGood
    <3> QED
      BY <3>1, GoodIn
  <2> HIDE DEF Step
  <2>2. Good(B, Iterate(Step, c, n))
    BY <2>1, TimesGood
  <2> QED
    BY <2>2 DEF ScrollDowns, Step
<1>7. Good(B, NextWords(c, n))
  <2> DEFINE Step == [d \in CopyType |-> NextWord(d, FALSE)]
  <2>1. ASSUME NEW d \in Goods(B) PROVE Step[d] \in Goods(B)
    <3>1. Good(B, NextWord(d, FALSE)) /\ Step[d] = NextWord(d, FALSE)
      BY <1>0, NextWordGood
    <3> QED
      BY <3>1, GoodIn
  <2> HIDE DEF Step
  <2>2. Good(B, Iterate(Step, c, n))
    BY <2>1, TimesGood
  <2> QED
    BY <2>2 DEF NextWords, Step
<1>8. Good(B, NextWordEnds(c, n))
  <2> DEFINE Step == [d \in CopyType |-> NextWord(d, TRUE)]
  <2>1. ASSUME NEW d \in Goods(B) PROVE Step[d] \in Goods(B)
    <3>1. Good(B, NextWord(d, TRUE)) /\ Step[d] = NextWord(d, TRUE)
      BY <1>0, NextWordGood
    <3> QED
      BY <3>1, GoodIn
  <2> HIDE DEF Step
  <2>2. Good(B, Iterate(Step, c, n))
    BY <2>1, TimesGood
  <2> QED
    BY <2>2 DEF NextWordEnds, Step
<1>9. Good(B, PreviousWords(c, n))
  <2> DEFINE Step == [d \in CopyType |-> PreviousWord(d)]
  <2>1. ASSUME NEW d \in Goods(B) PROVE Step[d] \in Goods(B)
    <3>1. Good(B, PreviousWord(d)) /\ Step[d] = PreviousWord(d)
      BY <1>0, PreviousWordGood
    <3> QED
      BY <3>1, GoodIn
  <2> HIDE DEF Step
  <2>2. Good(B, Iterate(Step, c, n))
    BY <2>1, TimesGood
  <2> QED
    BY <2>2 DEF PreviousWords, Step
<1> QED
  BY <1>1, <1>2, <1>3, <1>4, <1>5, <1>6, <1>7, <1>8, <1>9

LEMMA MovedGood ==
    ASSUME Whole(B), NEW c, Good(B, c), NEW np \in Nat \ {0}, NEW d \in Moved(c, np)
    PROVE  Good(B, d)
<1> DEFINE n1 == np * Page
           n2 == np * (B.sy \div 2)
<1>1. n1 \in Nat /\ n2 \in Nat
  <2>1. B.sy \in Nat
    BY WholeFields
  <2>2. Page \in Nat /\ B.sy \div 2 \in Nat
    BY <2>1 DEF Page
  <2> HIDE DEF Page
  <2> DEFINE half == B.sy \div 2
  <2> HIDE DEF half
  <2>3. np * half \in Nat /\ np * Page \in Nat
    BY <2>2 DEF half
  <2> QED
    BY <2>3 DEF half
<1>2. \/ d \in {Lefts(c, np), Rights(c, np), Ups(c, np), Downs(c, np), ScrollUps(c, np),
               ScrollDowns(c, np), NextWords(c, np), NextWordEnds(c, np), PreviousWords(c, np)}
      \/ d \in {PageUp(c, n1), PageDown(c, n1), PageUp(c, n2), PageDown(c, n2)}
  BY DEF Moved
<1> HIDE DEF n1, n2
<1>3. Good(B, PageUp(c, n1)) /\ Good(B, PageDown(c, n1))
      /\ Good(B, PageUp(c, n2)) /\ Good(B, PageDown(c, n2))
  BY <1>1, PageUpGood, PageDownGood
<1>4. np \in Nat
  OBVIOUS
<1> QED
  BY <1>2, <1>3, <1>4, KeysGood

LEMMA PlacedGood ==
    ASSUME Whole(B), NEW c, Good(B, c), NEW d \in Placed(c)
    PROVE  Good(B, d)
<1> DEFINE middle == (B.sy - 1) \div 2
           last == B.sy - 1
           top == [c EXCEPT !.oy = B.hs]
           end == [c EXCEPT !.oy = 0]
<1>1. middle \in 0..B.sy - 1 /\ last \in 0..B.sy - 1 /\ 0 \in 0..B.sy - 1 /\ 0 \in Nat
      /\ B.hs \in Nat
  <2>1. last \in Nat /\ B.hs \in Nat
    BY WholeFields
  <2> HIDE DEF last
  <2>2. last \div 2 \in 0..last
    BY <2>1
  <2>3. middle = last \div 2
    BY DEF last
  <2> HIDE DEF middle
  <2>4. B.sy - 1 = last
    BY DEF last
  <2> QED
    BY <2>1, <2>2, <2>3, <2>4
<1>2. OnLines(B, c) /\ c \in CopyType
  BY DEF Good, OnLines
<1>3. d \in {CursorAt(c, 0, 0), CursorAt(c, 0, middle), CursorAt(c, 0, last),
             CursorAt(top, 0, 0), CursorAt(end, 0, last), StartSelection(c), ClearSelection(c),
             StartOfLine(c), BackToIndentation(c), EndOfLine(c), RectangleToggle(c)}
  BY DEF Placed
<1>4. OnLines(B, top)
  <2>1. top \in CopyType /\ top.cx = c.cx /\ top.lastcx = c.lastcx /\ top.cy = c.cy
        /\ top.oy = B.hs /\ top.sel = c.sel /\ top.hung = c.hung
    BY <1>1, <1>2 DEF CopyType
  <2> HIDE DEF top
  <2> QED
    BY <1>1, <1>2, <2>1 DEF OnLines
<1>5. OnLines(B, end)
  <2>1. end \in CopyType /\ end.cx = c.cx /\ end.lastcx = c.lastcx /\ end.cy = c.cy
        /\ end.oy = 0 /\ end.sel = c.sel /\ end.hung = c.hung
    BY <1>2 DEF CopyType
  <2> HIDE DEF end
  <2> QED
    BY <1>1, <1>2, <2>1 DEF OnLines
<1> HIDE DEF middle, last, top, end
<1>6. /\ Good(B, CursorAt(c, 0, 0)) /\ Good(B, CursorAt(c, 0, middle)) /\ Good(B, CursorAt(c, 0, last))
      /\ Good(B, CursorAt(top, 0, 0)) /\ Good(B, CursorAt(end, 0, last))
  BY <1>1, <1>2, <1>4, <1>5, CursorAtGood
<1>7. /\ Good(B, StartSelection(c)) /\ Good(B, ClearSelection(c)) /\ Good(B, StartOfLine(c))
      /\ Good(B, BackToIndentation(c)) /\ Good(B, EndOfLine(c)) /\ Good(B, RectangleToggle(c))
  BY <1>2, StartSelectionGood, ClearSelectionGood, LineStartGood, IndentationGood, LineEndGood,
     RectangleToggleGood
<1> QED
  BY <1>3, <1>6, <1>7

LEMMA SelectToEndGood ==
    ASSUME Whole(B), NEW c, Good(B, c), NEW np \in Nat \ {0}
    PROVE  Good(B, SelectToEnd(c, np))
<1> DEFINE n == np - 1
<1>1. n \in Nat
  OBVIOUS
<1>2. SelectToEnd(c, np) = EndOfLine(Downs(StartSelection(c), n))
  BY DEF SelectToEnd
<1> HIDE DEF n
<1>3. Good(B, StartSelection(c))
  BY StartSelectionGood DEF Good
<1>4. Good(B, Downs(StartSelection(c), n))
  BY <1>1, <1>3, KeysGood
<1> QED
  BY <1>2, <1>4, LineEndGood

LEMMA AgainGood ==
    ASSUME Whole(B), B.sy >= 4, NEW c, Good(B, c), NEW d \in Again(c)
    PROVE  Good(B, d)
BY JumpsGood, SearchesGood DEF Again

LEMMA DragGood ==
    ASSUME Whole(B), NEW c, OnLines(B, c), NEW x \in Nat, NEW y \in 0..B.sy - 1
    PROVE  Good(B, Drag(c, x, y))
<1> DEFINE d == [c EXCEPT !.cx = x, !.cy = y, !.drag = TRUE]
<1>1. Drag(c, x, y) = StartSelection(d)
  BY DEF Drag
<1>2. c \in CopyType /\ x \in Int /\ y \in Int
  BY WholeFields DEF OnLines
<1>3. d \in CopyType
  BY <1>2 DEF CopyType
<1>4. d.cx = x /\ d.lastcx = c.lastcx /\ d.cy = y /\ d.oy = c.oy /\ d.sel = c.sel /\ d.hung = c.hung
  BY <1>2 DEF CopyType
<1> HIDE DEF d
<1>5. OnLines(B, d)
  BY <1>3, <1>4 DEF OnLines
<1> QED
  BY <1>1, <1>5, StartSelectionGood

\* The keys typed are no part of the place.
LEMMA TypedGood ==
    ASSUME NEW S, NEW c, Good(S, c), NEW i \in Inputs, NEW n \in Nat, NEW j \in Inputs
    PROVE  /\ Good(S, [c EXCEPT !.num = n, !.input = i])
           /\ Good(S, [c EXCEPT !.input = i, !.num = n])
           /\ Good(S, [c EXCEPT !.input = i])
           /\ Good(S, [c EXCEPT !.jump = j, !.input = i])
           /\ Good(S, [c EXCEPT !.search = j, !.input = i, !.num = n])
<1>1. c \in CopyType /\ c.cx >= 0 /\ c.lastcx >= 0
  BY DEF Good, OnLines
<1>2. ASSUME NEW d \in CopyType, d.cx = c.cx, d.lastcx = c.lastcx, d.cy = c.cy, d.oy = c.oy,
             d.sel = c.sel, d.rect = c.rect, d.shown = c.shown, d.hung = c.hung
      PROVE  Good(S, d)
  BY <1>1, <1>2, SameGood
<1>3. Good(S, [c EXCEPT !.num = n, !.input = i])
  <2> DEFINE d == [c EXCEPT !.num = n, !.input = i]
  <2>1. d \in CopyType
    BY <1>1 DEF CopyType
  <2>2. /\ d.cx = c.cx /\ d.lastcx = c.lastcx /\ d.cy = c.cy /\ d.oy = c.oy /\ d.sel = c.sel
        /\ d.rect = c.rect /\ d.shown = c.shown /\ d.hung = c.hung
    BY <1>1 DEF CopyType
  <2> HIDE DEF d
  <2>3. Good(S, d)
    BY <1>2, <2>1, <2>2
  <2> QED
    BY <2>3 DEF d
<1>4. Good(S, [c EXCEPT !.input = i, !.num = n])
  <2> DEFINE d == [c EXCEPT !.input = i, !.num = n]
  <2>1. d \in CopyType
    BY <1>1 DEF CopyType
  <2>2. /\ d.cx = c.cx /\ d.lastcx = c.lastcx /\ d.cy = c.cy /\ d.oy = c.oy /\ d.sel = c.sel
        /\ d.rect = c.rect /\ d.shown = c.shown /\ d.hung = c.hung
    BY <1>1 DEF CopyType
  <2> HIDE DEF d
  <2>3. Good(S, d)
    BY <1>2, <2>1, <2>2
  <2> QED
    BY <2>3 DEF d
<1>5. Good(S, [c EXCEPT !.input = i])
  <2> DEFINE d == [c EXCEPT !.input = i]
  <2>1. d \in CopyType
    BY <1>1 DEF CopyType
  <2>2. /\ d.cx = c.cx /\ d.lastcx = c.lastcx /\ d.cy = c.cy /\ d.oy = c.oy /\ d.sel = c.sel
        /\ d.rect = c.rect /\ d.shown = c.shown /\ d.hung = c.hung
    BY <1>1 DEF CopyType
  <2> HIDE DEF d
  <2>3. Good(S, d)
    BY <1>2, <2>1, <2>2
  <2> QED
    BY <2>3 DEF d
<1>6. Good(S, [c EXCEPT !.jump = j, !.input = i])
  <2> DEFINE d == [c EXCEPT !.jump = j, !.input = i]
  <2>1. d \in CopyType
    BY <1>1 DEF CopyType
  <2>2. /\ d.cx = c.cx /\ d.lastcx = c.lastcx /\ d.cy = c.cy /\ d.oy = c.oy /\ d.sel = c.sel
        /\ d.rect = c.rect /\ d.shown = c.shown /\ d.hung = c.hung
    BY <1>1 DEF CopyType
  <2> HIDE DEF d
  <2>3. Good(S, d)
    BY <1>2, <2>1, <2>2
  <2> QED
    BY <2>3 DEF d
<1>7. Good(S, [c EXCEPT !.search = j, !.input = i, !.num = n])
  <2> DEFINE d == [c EXCEPT !.search = j, !.input = i, !.num = n]
  <2>1. d \in CopyType
    BY <1>1 DEF CopyType
  <2>2. /\ d.cx = c.cx /\ d.lastcx = c.lastcx /\ d.cy = c.cy /\ d.oy = c.oy /\ d.sel = c.sel
        /\ d.rect = c.rect /\ d.shown = c.shown /\ d.hung = c.hung
    BY <1>1 DEF CopyType
  <2> HIDE DEF d
  <2>3. Good(S, d)
    BY <1>2, <2>1, <2>2
  <2> QED
    BY <2>3 DEF d
<1> QED
  BY <1>3, <1>4, <1>5, <1>6, <1>7

(***************************************************************************)
(* The steps in copy mode.                                                 *)
(***************************************************************************)

\* The mode's own screen is whole and keeps its history; without the mode there is
\* none; in it the pane is not read, and cursor, offset and mark are on lines.
CInv ==
    /\ view = NoView \/ (Whole(view) /\ view.lim = Unlimited /\ view.sy \in Height)
    /\ ~Copying => view = NoView
    /\ Copying => ~reading /\ Good(B, copy)

LEMMA NotNone ==
    /\ \A S \in ScreenType : S # NoView
    /\ \A c \in CopyType : c # NoCopy
<1>1. ASSUME NEW S \in ScreenType PROVE S # NoView
  <2>1. "ln" \in DOMAIN S
    BY DEF ScreenType
  <2>2. DOMAIN NoView = {"none"}
    BY DEF NoView
  <2> QED
    BY <2>1, <2>2
<1>2. ASSUME NEW c \in CopyType PROVE c # NoCopy
  <2>1. "oy" \in DOMAIN c
    BY DEF CopyType
  <2>2. DOMAIN NoCopy = {"none"}
    BY DEF NoCopy
  <2> QED
    BY <2>1, <2>2
<1> QED
  BY <1>1, <1>2

LEMMA BackingWhole ==
    ASSUME IInv, CInv
    PROVE  Whole(B) /\ B.sy \in Height
BY DEF IInv, CInv, B, Backing

LEMMA StayKeeps ==
    ASSUME CInv, Copying, NEW c, Good(B, c), Stay(c)
    PROVE  CInv'
<1>1. copy' = c /\ base' = base /\ view' = view /\ reading' = reading
  BY DEF Stay, screens
<1>2. B' = B
  BY <1>1 DEF B, Backing
<1>3. c # NoCopy
  BY NotNone DEF Good, OnLines
<1>4. Copying'
  BY <1>1, <1>3 DEF Copying
<1>5. ~reading'
  BY <1>1 DEF CInv
<1>6. Good(B', copy')
  BY <1>1, <1>2
<1>7. view' = NoView \/ (Whole(view') /\ view'.lim = Unlimited /\ view'.sy \in Height)
  BY <1>1 DEF CInv
<1> QED
  BY <1>4, <1>5, <1>6, <1>7 DEF CInv, Height

LEMMA LeaveKeeps ==
    ASSUME copy' = NoCopy, view' = NoView
    PROVE  CInv'
BY DEF CInv, Copying

LEMMA FreshGood ==
    ASSUME NEW S, Whole(S), NEW x \in Nat, NEW y \in 0..S.sy - 1
    PROVE  Good(S, Fresh(x, y)) /\ ~Fresh(x, y).hung
<1>1. x \in Int /\ y \in Int /\ S.hs \in Nat
  BY WholeFields
<1>2. Fresh(x, y) \in CopyType
  BY <1>1 DEF Fresh, CopyType, Inputs
<1>3. /\ Fresh(x, y).cx = x /\ Fresh(x, y).cy = y /\ Fresh(x, y).oy = 0
      /\ Fresh(x, y).lastcx = 0 /\ Fresh(x, y).sel = NoSel /\ ~Fresh(x, y).hung
  BY DEF Fresh
<1> QED
  BY <1>1, <1>2, <1>3 DEF Good, OnLines

LEMMA EnterKeeps ==
    ASSUME CInv, ~Copying, NEW c, Good(B, c), Enter(c)
    PROVE  CInv'
<1>1. copy' = c /\ base' = base /\ view' = view /\ ~reading' /\ view = NoView
  BY DEF Enter, screens, CInv
<1>2. B' = B
  BY <1>1 DEF B, Backing
<1>3. c # NoCopy
  BY NotNone DEF Good, OnLines
<1> QED
  BY <1>1, <1>2, <1>3 DEF CInv, Copying

\* Lines are added to the view below what is shown: the offset grows with the history.
LEMMA AddedKeeps ==
    ASSUME NEW c, NEW v, NEW n \in Nat, Whole(v), v.lim = Unlimited, v.sy \in Height,
           Good(v, c), ~c.hung, Copying => ~reading, Added(c, v, n)
    PROVE  CInv'
<1> DEFINE v0 == [v EXCEPT !.cx = 0]
           E == IF c.written THEN Linefeed(v0, FALSE) ELSE v
           Step == [S \in ScreenType |-> WriteCell(S, 1)]
           W == Iterate(Step, E, n)
           o == c.oy + W.hs - v.hs
           X == {S \in ScreenType : Drawn(v, S)}
           d == [c EXCEPT !.written = TRUE, !.oy = o]
<1>1. view' = W /\ copy' = d /\ reading' = (Copying /\ reading)
  BY DEF Added
<1>2. Drawn(v, E)
  <2>1. Drawn(v, v0)
    <3>1. 0 \in Nat
      OBVIOUS
    <3> QED
      BY <3>1, CxDrawn
  <2> HIDE DEF v0
  <2>2. Whole(v0) /\ FALSE \in BOOLEAN
    BY <2>1 DEF Drawn
  <2>3. Drawn(v0, Linefeed(v0, FALSE))
    BY <2>2, LinefeedDrawn
  <2>4. Drawn(v, Linefeed(v0, FALSE))
    BY <2>1, <2>3, DrawnTwice
  <2> QED
    BY <2>4, DrawnSame
<1> HIDE DEF E
<1>3. E \in X
  BY <1>2 DEF Drawn, Whole
<1>4. ASSUME NEW S \in X PROVE Step[S] \in X
  <2>1. Whole(S) /\ Drawn(v, S) /\ S \in ScreenType
    BY DEF Drawn
  <2>2. 1 \in 1..2
    OBVIOUS
  <2>3. Drawn(S, WriteCell(S, 1))
    BY <2>1, <2>2, WriteCellDrawn
  <2>4. Drawn(v, WriteCell(S, 1)) /\ WriteCell(S, 1) \in ScreenType
    BY <2>1, <2>3, DrawnTwice DEF Drawn, Whole
  <2> QED
    BY <2>1, <2>4
<1> HIDE DEF Step
<1>5. W \in X
  <2> HIDE DEF X
  <2> QED
    BY <1>3, <1>4, IterateIn
<1> HIDE DEF W
<1>6. Drawn(v, W) /\ Whole(W) /\ W.lim = Unlimited /\ W.sy = v.sy /\ W.sx = v.sx /\ v.hs <= W.hs
  BY <1>5 DEF Drawn
<1>7. v.hs \in Nat /\ W.hs \in Nat /\ v.sy \in Nat
  BY <1>6, WholeFields
<1>8. OnLines(v, c) /\ c \in CopyType /\ c.oy \in 0..v.hs /\ c.cy \in 0..v.sy - 1
      /\ c.cx >= 0 /\ c.lastcx >= 0
  BY DEF Good, OnLines
<1>9. o \in 0..W.hs /\ o \in Int /\ W.hs - o = v.hs - c.oy
  BY <1>6, <1>7, <1>8
<1> HIDE DEF o
<1>10. d \in CopyType
  BY <1>8, <1>9 DEF CopyType
<1>11. /\ d.cx = c.cx /\ d.lastcx = c.lastcx /\ d.cy = c.cy /\ d.oy = o /\ d.sel = c.sel
       /\ d.rect = c.rect /\ d.shown = c.shown /\ d.hung = c.hung
  BY <1>8 DEF CopyType
<1> HIDE DEF d
<1>12. d.sel # NoSel => d.sel.y \in 0..Lines(W) - 1
  <2>1. c.sel # NoSel => c.sel.y \in 0..Lines(v) - 1
    BY <1>8 DEF OnLines
  <2> DEFINE lv == Lines(v)
             lw == Lines(W)
  <2>2. lv \in Int /\ lw \in Int /\ lv <= lw
    BY <1>6, <1>7 DEF Lines
  <2> HIDE DEF lv, lw
  <2>3. \A y \in 0..lv - 1 : y \in 0..lw - 1
    BY <2>2
  <2>4. c.sel # NoSel => c.sel.y \in 0..lv - 1
    BY <2>1 DEF lv
  <2>5. c.sel # NoSel => c.sel.y \in 0..lw - 1
    BY <2>3, <2>4
  <2> QED
    BY <1>11, <2>5 DEF lw
<1>13. OnLines(W, d)
  BY <1>6, <1>8, <1>9, <1>10, <1>11, <1>12 DEF OnLines
<1>14. MarkX(W, d) = MarkX(v, c) /\ MarkY(W, d) = MarkY(v, c)
  BY <1>6, <1>9, <1>11 DEF MarkX, MarkY
<1>15. Good(W, d)
  BY <1>11, <1>13, <1>14 DEF Good
<1>16. W # NoView /\ d # NoCopy
  BY <1>6, <1>10, NotNone, WholeFields
<1>17. Copying' /\ ~reading' /\ B' = W
  BY <1>1, <1>16 DEF Copying, B, Backing
<1>18. view'.sy \in Height
  BY <1>1, <1>6
<1> QED
  BY <1>1, <1>6, <1>15, <1>17, <1>18 DEF CInv, Height

LEMMA NewViewWhole ==
    ASSUME Whole(base), base.sy \in Height
    PROVE  /\ Whole(NewView) /\ NewView.lim = Unlimited /\ NewView.sy \in Height
           /\ Good(NewView, Fresh(0, 0)) /\ ~Fresh(0, 0).hung
<1> DEFINE ln == [y \in 1..base.sy |-> Blank]
           N == NewScreen(base.sx, base.sy, Unlimited)
           v == [N EXCEPT !.wrap = FALSE]
<1>1. NewView = v
  BY DEF NewView
<1>2. base.sx \in Nat \ {0} /\ base.sy \in Nat \ {0} /\ base.sy - 1 \in Nat
  BY WholeFields
<1>3. ln \in Seq(GridLine) /\ Len(ln) = base.sy
  BY <1>2, BlankLine, FunctionIsSeq
<1> HIDE DEF ln
<1>4. N \in ScreenType /\ N.sy = base.sy /\ N.lim = Unlimited /\ N.hs = 0 /\ N.ln = ln
      /\ N.cy = 0 /\ N.cx = 0 /\ N.up = 0 /\ N.lo = base.sy - 1
  BY <1>2, <1>3 DEF NewScreen, ScreenType, ln
<1> HIDE DEF N
<1>5. v \in ScreenType /\ v.sy = base.sy /\ v.lim = Unlimited /\ v.hs = 0 /\ v.ln = ln
      /\ v.cy = 0 /\ v.cx = 0 /\ v.up = 0 /\ v.lo = base.sy - 1
  BY <1>4 DEF ScreenType
<1> HIDE DEF v
<1>6. Whole(v)
  BY <1>2, <1>3, <1>5 DEF Whole, GridWhole
<1>7. 0 \in Nat /\ 0 \in 0..v.sy - 1
  BY <1>2, <1>5
<1>8. Good(v, Fresh(0, 0)) /\ ~Fresh(0, 0).hung
  BY <1>6, <1>7, FreshGood
<1> QED
  BY <1>1, <1>5, <1>6, <1>8

LEMMA ResizedCopyGood ==
    ASSUME NEW S, NEW v, NEW W, W = (IF v = NoView THEN S ELSE v), Whole(W),
           copy \in CopyType, copy.cx >= 0, copy.lastcx >= 0, copy.cy >= 0, copy.oy >= 0, ~copy.hung
    PROVE  Good(W, ResizedCopy(S, v))
<1> DEFINE cy == Least(copy.cy, W.sy - 1)
           cx == Least(copy.cx, W.sx)
           oy == Least(copy.oy, W.hs)
           d == [copy EXCEPT !.cy = cy, !.cx = cx, !.oy = oy, !.sel = NoSel, !.shown = NoSel]
           py == W.hs + d.cy - d.oy
           l == W.ln[py + 1]
           m == Least(Len(l.c), W.sx)
           T == {0} \cup {x \in 1..m : l.c[x] \in {"a", "W"}}
           n == IF ~CheckY(W, py) THEN 0 ELSE Max(T)
           x2 == Least(d.cx, n)
           e == [d EXCEPT !.cx = x2]
<1>1. ResizedCopy(S, v) = e
  BY DEF ResizedCopy
<1>2. copy.cx \in Nat /\ copy.cy \in Nat /\ copy.oy \in Nat
  BY DEF CopyType
<1>3. W.hs \in Nat /\ W.sx \in Nat /\ W.sy \in Nat \ {0}
  BY WholeFields
<1>4. cy \in 0..W.sy - 1 /\ cx \in Nat /\ oy \in 0..W.hs
  BY <1>2, <1>3 DEF Least
<1>5. cy \in Int /\ cx \in Int /\ oy \in Int
  BY <1>3, <1>4
<1> HIDE DEF cy, cx, oy
<1>6. d \in CopyType
  BY <1>5 DEF CopyType
<1>7. d.cx = cx /\ d.cy = cy /\ d.oy = oy /\ d.sel = NoSel /\ d.hung = copy.hung
      /\ d.lastcx = copy.lastcx
  BY DEF CopyType
<1> HIDE DEF d
<1>8. py \in Int
  BY <1>3, <1>5, <1>7
<1>9. CheckY(W, py) => m \in Nat
  <2> SUFFICES ASSUME CheckY(W, py) PROVE m \in Nat
    OBVIOUS
  <2>1. py + 1 \in 1..Len(W.ln)
    BY <1>3, <1>8, WholeFields DEF CheckY, Lines
  <2>2. l \in GridLine
    BY <2>1, LinesOf, WholeFields
  <2>3. Len(l.c) \in Nat
    BY <2>2, LineFields
  <2> QED
    BY <1>3, <2>3, LeastIn
<1> HIDE DEF py, l, m
<1>10. CheckY(W, py) => Max(T) \in Nat
  <2> SUFFICES ASSUME CheckY(W, py) PROVE Max(T) \in Nat
    OBVIOUS
  <2>1. m \in Nat
    BY <1>9
  <2>2. T \in SUBSET (0..m) /\ T # {}
    BY <2>1
  <2> HIDE DEF T
  <2>3. Max(T) \in T
    BY <2>1, <2>2, MaxProps
  <2>4. \A x \in 0..m : x \in Nat
    OBVIOUS
  <2> DEFINE M == Max(T)
  <2> HIDE DEF M
  <2>5. M \in Nat
    BY <2>2, <2>3, <2>4 DEF M
  <2> QED
    BY <2>5 DEF M
<1>11. n \in Nat
  BY <1>10
<1> HIDE DEF n
<1>12. x2 \in Nat
  BY <1>4, <1>7, <1>11, LeastIn
<1> HIDE DEF x2
<1>13. e \in CopyType
  <2>1. x2 \in Int
    BY <1>12
  <2> QED
    BY <1>6, <2>1 DEF CopyType
<1>14. e.cx = x2 /\ e.cy = cy /\ e.oy = oy /\ e.sel = NoSel /\ e.hung = copy.hung
       /\ e.lastcx = copy.lastcx
  BY <1>6, <1>7 DEF CopyType
<1> HIDE DEF e
<1> QED
  BY <1>1, <1>4, <1>12, <1>13, <1>14 DEF Good, OnLines

LEMMA ResizePaneKeeps ==
    ASSUME IInv, CInv, ~Hung, ResizePane
    PROVE  CInv'
<1>1. PICK sx \in Widths, sy \in Heights : Writes(Resized(base, sx, sy))
  BY DEF ResizePane, Resize
<1>2. sx \in Nat \ {0} /\ sy \in Nat \ {0} /\ Whole(base) /\ sy \in Height
  BY <1>1, SizeAssumption DEF IInv, Height
<1>3. Whole(base') /\ base'.sx = sx /\ base'.sy = sy
  BY <1>1, <1>2, ResizedKept DEF Writes, Kept
<1>4. /\ view' = IF view = NoView THEN view ELSE Resized(view, base'.sx, base'.sy)
      /\ copy' = IF Copying THEN ResizedCopy(base', view') ELSE copy
      /\ reading' = reading
  BY DEF ResizePane
<1>5. view # NoView => Kept(view, Resized(view, sx, sy)) /\ Resized(view, sx, sy).sy = sy
  BY <1>2, ResizedKept DEF CInv
<1>6. view' = NoView \/ (Whole(view') /\ view'.lim = Unlimited /\ view'.sy \in Height)
  BY <1>2, <1>3, <1>4, <1>5 DEF CInv, Kept
<1>7. CASE ~Copying
  BY <1>4, <1>7 DEF CInv, Copying
<1>8. CASE Copying
  <2>1. Good(B, copy) /\ OnLines(B, copy) /\ copy \in CopyType /\ ~copy.hung /\ ~reading
    BY <1>8 DEF CInv, Good, OnLines, Hung
  <2>2. copy.cx >= 0 /\ copy.lastcx >= 0 /\ copy.cy >= 0 /\ copy.oy >= 0
    BY <2>1, BackingWhole, WholeFields DEF OnLines, CopyType
  <2> DEFINE W == IF view' = NoView THEN base' ELSE view'
  <2>3. Whole(W)
    BY <1>3, <1>6
  <2>4. B' = W
    BY DEF B, Backing
  <2> HIDE DEF W
  <2>5. Good(W, ResizedCopy(base', view'))
    BY <2>1, <2>2, <2>3, ResizedCopyGood DEF W
  <2>6. copy' = ResizedCopy(base', view')
    BY <1>4, <1>8
  <2>7. copy' # NoCopy
    BY <2>5, <2>6, NotNone DEF Good, OnLines
  <2>8. Good(B', copy') /\ Copying' /\ ~reading'
    BY <1>4, <2>1, <2>4, <2>5, <2>6, <2>7 DEF Copying
  <2> QED
    BY <1>6, <2>8 DEF CInv, Height
<1> QED
  BY <1>7, <1>8

LEMMA UnchangedCInv ==
    ASSUME CInv, UNCHANGED cvars, Copying => base' = base
    PROVE  CInv'
<1>1. copy' = copy /\ view' = view /\ reading' = reading
  BY DEF cvars
<1>2. Copying => B' = B
  BY <1>1 DEF B, Backing
<1> QED
  BY <1>1, <1>2 DEF CInv, Copying, Height

\* The keys of the mode, one after the other.
LEMMA KeyKeeps ==
    ASSUME IInv, CInv, \A h \in Height : h >= 4, Key
    PROVE  CInv'
<1>1. Whole(B) /\ B.sy >= 4
  BY BackingWhole
<1>2. Copying /\ Good(B, copy)
  BY DEF Key, Ready, CInv
<1>3. Times \in Nat \ {0}
  BY <1>2 DEF Good, OnLines, CopyType, Times, AtLeastOne, Greatest
<1>4. PICK d \in Moved(copy, Times) \cup Placed(copy) \cup Again(copy)
                \cup {SelectToEnd(StartOfLine(copy), Times)}
                \cup {e \in {SelectToEnd(copy, Times)} : e.hung} :
           Stay([d EXCEPT !.num = 0, !.input = "off"])
  BY DEF Key
<1>5. Good(B, StartOfLine(copy))
  BY <1>1, <1>2, LineStartGood
<1>6. Good(B, d)
  BY <1>1, <1>2, <1>3, <1>4, <1>5, MovedGood, PlacedGood, AgainGood, SelectToEndGood
<1>7. Good(B, [d EXCEPT !.num = 0, !.input = "off"])
  BY <1>6, TypedGood DEF Inputs
<1> QED
  BY <1>2, <1>4, <1>7, StayKeeps

LEMMA NumberKeeps ==
    ASSUME CInv, NumberPrefix \/ Ask
    PROVE  CInv'
<1>1. Copying /\ Good(B, copy)
  BY DEF NumberPrefix, Ask, Ready, CInv
<1>2. CASE NumberPrefix
  <2>1. PICK n \in Repeats : Stay([copy EXCEPT !.input = "prefix", !.num = n])
    BY <1>2 DEF NumberPrefix
  <2>2. n \in Nat /\ "prefix" \in Inputs
    BY RepeatAssumption DEF Inputs
  <2>3. Good(B, [copy EXCEPT !.input = "prefix", !.num = n])
    BY <1>1, <2>2, TypedGood
  <2> QED
    BY <1>1, <2>1, <2>3, StayKeeps
<1>3. CASE Ask
  <2>1. PICK i \in Inputs : Stay([copy EXCEPT !.input = i])
    BY <1>3 DEF Ask
  <2>2. Good(B, [copy EXCEPT !.input = i])
    <3>1. 0 \in Nat
      OBVIOUS
    <3> QED
      BY <1>1, <3>1, TypedGood
  <2> QED
    BY <1>1, <2>1, <2>2, StayKeeps
<1> QED
  BY <1>2, <1>3

LEMMA JumpKeyKeeps ==
    ASSUME IInv, CInv, JumpKey
    PROVE  CInv'
<1>1. Copying /\ Good(B, copy) /\ Whole(B)
  BY BackingWhole DEF JumpKey, CInv
<1>2. PICK d \in Jumps(copy, copy.input) : Stay([d EXCEPT !.jump = copy.input, !.input = "off"])
  BY DEF JumpKey
<1>3. copy.input \in Inputs /\ "off" \in Inputs /\ 0 \in Nat
  BY <1>1 DEF Good, OnLines, CopyType, Inputs
<1>4. Good(B, d)
  BY <1>1, JumpsGood
<1>5. Good(B, [d EXCEPT !.jump = copy.input, !.input = "off"])
  BY <1>3, <1>4, TypedGood
<1> QED
  BY <1>1, <1>2, <1>5, StayKeeps

LEMMA KeyInputKeeps ==
    ASSUME IInv, CInv, \A h \in Height : h >= 4, KeyInput
    PROVE  CInv'
<1>1. Copying /\ Good(B, copy) /\ Whole(B) /\ B.sy >= 4 /\ OnLines(B, copy)
  BY BackingWhole DEF KeyInput, CInv, Good
<1>2. "off" \in Inputs /\ 0 \in Nat /\ copy.input \in Inputs
  BY <1>1 DEF OnLines, CopyType, Inputs
<1>3. CASE Stay([copy EXCEPT !.input = "off", !.num = 0])
  <2>1. Good(B, [copy EXCEPT !.input = "off", !.num = 0])
    BY <1>1, <1>2, TypedGood
  <2> QED
    BY <1>1, <1>3, <2>1, StayKeeps
<1>4. ASSUME NEW y \in 0..B.hs,
             Stay([UpdateSelection([copy EXCEPT !.oy = y]) EXCEPT !.input = "off", !.num = 0])
      PROVE  CInv'
  <2> DEFINE d == UpdateSelection([copy EXCEPT !.oy = y])
  <2>1. Good(B, d)
    BY <1>1, OffsetGood
  <2> HIDE DEF d
  <2>2. Good(B, [d EXCEPT !.input = "off", !.num = 0])
    BY <1>2, <2>1, TypedGood
  <2>3. Stay([d EXCEPT !.input = "off", !.num = 0])
    BY <1>4 DEF d
  <2> QED
    BY <1>1, <2>2, <2>3, StayKeeps
<1>5. ASSUME NEW d \in Searches(copy, copy.input),
             Stay([d EXCEPT !.search = copy.input, !.input = "off", !.num = 0])
      PROVE  CInv'
  <2>1. Good(B, d)
    BY <1>1, SearchesGood
  <2>2. Good(B, [d EXCEPT !.search = copy.input, !.input = "off", !.num = 0])
    BY <1>2, <2>1, TypedGood
  <2> QED
    BY <1>1, <1>5, <2>2, StayKeeps
<1> QED
  BY <1>3, <1>4, <1>5 DEF KeyInput

LEMMA MouseKeeps ==
    ASSUME IInv, CInv, Mouse
    PROVE  CInv'
<1>1. Copying /\ Good(B, copy) /\ Whole(B) /\ OnLines(B, copy)
  BY BackingWhole DEF Mouse, CInv, Good
<1>2. PICK x \in 0..B.sx - 1, y \in 0..B.sy - 1 :
          \/ Stay(Ups(copy, 5)) \/ Stay(Downs(copy, 5))
          \/ Stay(Drag(copy, x, y)) \/ Stay(CursorAt(copy, x, y))
  BY DEF Mouse
<1>3. x \in Nat /\ 5 \in Nat
  BY <1>1, WholeFields
<1>4. /\ Good(B, Ups(copy, 5)) /\ Good(B, Downs(copy, 5))
      /\ Good(B, Drag(copy, x, y)) /\ Good(B, CursorAt(copy, x, y))
  BY <1>1, <1>3, KeysGood, DragGood, CursorAtGood
<1> QED
  BY <1>1, <1>2, <1>4, StayKeeps

LEMMA EntersKeeps ==
    ASSUME IInv, CInv, CopyModeCmd \/ MouseEnters
    PROVE  CInv'
<1> DEFINE c == Fresh(base.cx, base.cy)
<1>1. ~Copying
  BY DEF CopyModeCmd, MouseEnters
<1>2. B = base /\ Whole(B)
  BY <1>1, BackingWhole DEF CInv, B, Backing
<1>3. base.cx \in Nat /\ base.cy \in 0..base.sy - 1 /\ base.sx \in Nat /\ base.sy \in Nat
  BY <1>2, WholeFields
<1>4. Good(B, c) /\ OnLines(B, c)
  BY <1>2, <1>3, FreshGood DEF Good
<1> HIDE DEF c
<1>5. CASE CopyModeCmd
  <2>1. Page \in Nat
    BY <1>2, <1>3 DEF Page
  <2>2. Good(B, PageUp(c, Page))
    BY <1>2, <1>4, <2>1, PageUpGood
  <2>3. Enter(c) \/ Enter(PageUp(c, Page))
    BY <1>5 DEF CopyModeCmd, c
  <2> QED
    BY <1>1, <1>4, <2>2, <2>3, EnterKeeps
<1>6. CASE MouseEnters
  <2>1. PICK x \in 0..base.sx - 1, y \in 0..base.sy - 1 :
            Enter(c) \/ Enter(Drag(c, x, y)) \/ Enter(Ups(c, 5))
    BY <1>6 DEF MouseEnters, c
  <2>2. x \in Nat /\ y \in 0..B.sy - 1 /\ 5 \in Nat
    BY <1>2, <1>3
  <2>3. Good(B, Drag(c, x, y)) /\ Good(B, Ups(c, 5))
    BY <1>2, <1>4, <2>2, DragGood, KeysGood
  <2> QED
    BY <1>1, <1>4, <2>1, <2>3, EnterKeeps
<1> QED
  BY <1>5, <1>6

LEMMA PrintedKeeps ==
    ASSUME IInv, CInv, ~Hung, ~Meddle, PrintToView \/ SourceFileErrors
    PROVE  CInv'
<1>1. /\ Whole(NewView) /\ NewView.lim = Unlimited /\ NewView.sy \in Height
      /\ Good(NewView, Fresh(0, 0)) /\ ~Fresh(0, 0).hung
  BY NewViewWhole DEF IInv
<1>2. ASSUME NEW n \in Counts, ~Copying, Added(Fresh(0, 0), NewView, n) PROVE CInv'
  <2>1. n \in Nat
    BY CountAssumption
  <2> QED
    BY <1>1, <1>2, <2>1, AddedKeeps
<1>3. ASSUME NEW n \in Counts, Copying, view # NoView, Added(copy, view, n) PROVE CInv'
  <2>1. n \in Nat
    BY CountAssumption
  <2>2. B = view
    BY <1>3 DEF B, Backing
  <2>3. Good(view, copy) /\ ~copy.hung /\ ~reading
    BY <1>3, <2>2 DEF CInv, Hung
  <2>4. Whole(view) /\ view.lim = Unlimited /\ view.sy \in Height
    BY <1>3 DEF CInv
  <2> QED
    BY <1>3, <2>1, <2>3, <2>4, AddedKeeps
<1> QED
  BY <1>2, <1>3 DEF PrintToView, SourceFileErrors

\* One step of the copy mode or of anything else, when nobody clears the history or
\* starts another process while it is on.
LEMMA CopyStep ==
    ASSUME IInv, CInv, ~Meddle, \A h \in Height : h >= 4, [Next]_vars
    PROVE  CInv'
<1>1. CASE UNCHANGED vars
  BY <1>1, UnchangedCInv DEF vars, cvars, pvars
<1>2. CASE ~Hung /\ PaneOutput
  BY <1>2, UnchangedCInv DEF PaneOutput, CInv
<1>3. CASE ~Hung /\ ResizePane
  BY <1>3, ResizePaneKeeps
<1>4. CASE ~Hung /\ ClearPaneHistory
  BY <1>4, UnchangedCInv DEF ClearPaneHistory
<1>5. CASE ~Hung /\ RespawnPane
  <2>1. ~Copying /\ copy' = copy /\ view' = view
    BY <1>5 DEF RespawnPane
  <2> QED
    BY <2>1 DEF CInv, Copying
<1>6. CASE ~Hung /\ CopyKeys
  <2>1. CASE CopyModeCmd \/ MouseEnters
    BY <2>1, EntersKeeps
  <2>2. CASE PrintToView \/ SourceFileErrors
    BY <1>6, <2>2, PrintedKeeps
  <2>3. CASE Key
    BY <2>3, KeyKeeps
  <2>4. CASE Cancel \/ CopyAndLeave \/ MouseLeaves
    BY <2>4, LeaveKeeps DEF Cancel, Leave, CopyAndLeave, MouseLeaves
  <2>5. CASE NumberPrefix \/ Ask
    BY <2>5, NumberKeeps
  <2>6. CASE JumpKey
    BY <2>6, JumpKeyKeeps
  <2>7. CASE KeyInput
    BY <2>7, KeyInputKeeps
  <2>8. CASE Mouse
    BY <2>8, MouseKeeps
  <2> QED
    BY <1>6, <2>1, <2>2, <2>3, <2>4, <2>5, <2>6, <2>7, <2>8 DEF CopyKeys
<1> QED
  BY <1>1, <1>2, <1>3, <1>4, <1>5, <1>6 DEF Next

LEMMA CopyInvariant ==
    ASSUME IInv, CInv
    PROVE  CopySound
<1>1. Whole(B)
  BY BackingWhole
<1>2. ViewWhole
  BY DEF CInv, ViewWhole, Whole
<1>3. ASSUME Copying PROVE OnLines(B, copy) /\ copy \in CopyType /\ Good(B, copy)
  BY <1>3 DEF CInv, Good, OnLines
<1>4. LineUnderCursor
  <2>1. \A y \in 0..Lines(B) - 1 : CheckY(B, y)
    BY <1>1, LinesNat DEF CheckY
  <2> QED
    BY <1>3, <2>1 DEF LineUnderCursor, OnLines
<1>5. SelectionShown
  <2> SUFFICES ASSUME Copying, copy.sel # NoSel, ~copy.rect
               PROVE  copy.shown = [UpdateSelection(copy).shown EXCEPT !.ex = copy.shown.ex]
    BY DEF SelectionShown
  <2> DEFINE e == [sx |-> MarkX(B, copy), sy |-> MarkY(B, copy), ex |-> copy.cx, ey |-> copy.cy]
  <2>1. UpdateSelection(copy) = [copy EXCEPT !.shown = e]
    BY DEF UpdateSelection, MarkX, MarkY
  <2>2. UpdateSelection(copy).shown = e
    <3> HIDE DEF e
    <3> QED
      BY <1>3, <2>1 DEF CopyType
  <2>3. copy.shown = [sx |-> MarkX(B, copy), sy |-> MarkY(B, copy), ex |-> copy.shown.ex, ey |-> copy.cy]
    BY <1>3 DEF Good
  <2>4. [e EXCEPT !.ex = copy.shown.ex]
          = [sx |-> MarkX(B, copy), sy |-> MarkY(B, copy), ex |-> copy.shown.ex, ey |-> copy.cy]
    OBVIOUS
  <2> HIDE DEF e
  <2> QED
    BY <2>2, <2>3, <2>4
<1>6. HangsOnlyAtTheEnd
  <2> SUFFICES ASSUME Hung PROVE Line(Lines(B) - 1).wr
    BY DEF HangsOnlyAtTheEnd
  <2>1. B.ln[Lines(B)].wr
    BY <1>3 DEF Hung, OnLines
  <2>2. Lines(B) \in Nat /\ CheckY(B, Lines(B) - 1) /\ Lines(B) - 1 + 1 = Lines(B)
    BY <1>1, WholeFields DEF CheckY, Lines
  <2> QED
    BY <2>1, <2>2 DEF Line
<1> QED
  BY <1>2, <1>4, <1>5, <1>6 DEF CopySound

\* window_copy_key and the mouse index the backing screen's lines with the cursor, the
\* offset and the mark: they are on lines in every order of keys, wheel, prompts,
\* output and resizes, unless the history is cleared or another process is started in
\* the mode, or the screen has less than four lines (window_copy_scroll_to).
THEOREM CopyIsSound ==
    ASSUME ~Meddle, \A h \in Height : h >= 4
    PROVE  Spec => []CopySound
<1>1. Init => CInv
  BY DEF Init, CInv, Copying
<1>2. IInv /\ CInv /\ [Next]_vars => CInv'
  BY CopyStep
<1>3. IInv /\ CInv => CopySound
  BY CopyInvariant
<1> QED
  BY <1>1, <1>2, <1>3, InvariantHolds, PTL DEF Spec

=============================================================================
