------------------------------- MODULE Screen -------------------------------
(***************************************************************************)
(* A screen and its grid (grid.c, grid-view.c, screen.c) and what is       *)
(* written to it (screen-write.c), as operators on one record.             *)
(*                                                                         *)
(* The lines of a grid are numbered from 0 at the top of the history; line *)
(* y is ln[y + 1], and the visible lines start at line hs.  A cell is      *)
(* what later writes can tell apart: "-" the default cell, "a" a character *)
(* of one column, "W" one of two, "P" the padding after it.  Colours and   *)
(* attributes, titles and the modes that only change what keys and the     *)
(* mouse send are left out.  What is also sent to the terminals            *)
(* (tty_write) is left out; ClientKeys has when it is.                     *)
(*                                                                         *)
(* An operator with an underscore in its name is a variant with a bug of   *)
(* the definition after it, used to see that a property notices the bug.   *)
(***************************************************************************)
EXTENDS Integers, FiniteSets, SequencesExt

Cell == {"-", "a", "W", "P"}

\* struct grid_line: the cells it has, whether the screen wrapped at its end, and
\* whether it has UTF-8 data (utf8size # 0).
Blank == [c |-> <<>>, wr |-> FALSE, u |-> FALSE]

\* screen_init, grid_create: an empty screen; its history is on.
NewScreen(sx, sy, limit) ==
    [ln |-> [y \in 1..sy |-> Blank], hs |-> 0, lim |-> limit, hist |-> TRUE,
     sx |-> sx, sy |-> sy, cx |-> 0, cy |-> 0, up |-> 0, lo |-> sy - 1,
     wrap |-> TRUE, ins |-> FALSE, tabs |-> {}]

Least(a, b)    == IF a < b THEN a ELSE b
Greatest(a, b) == IF a > b THEN a ELSE b
AtLeastOne(n)  == Greatest(n, 1)

-----------------------------------------------------------------------------
(* grid.c *)

Lines(S)     == S.hs + S.sy
CheckY(S, y) == y >= 0 /\ y < Lines(S)

\* Lines a..b - 1 become blank; a count that underflows names no line.
ClearLines(S, py, ny) ==
    IF ny <= 0 \/ ~CheckY(S, py) \/ ~CheckY(S, py + ny - 1) THEN S
    ELSE [S EXCEPT !.ln = [i \in DOMAIN @ |->
              IF i - 1 \in py..py + ny - 1 THEN Blank ELSE @[i]]]

MoveLines(S, dy, py, ny) ==
    IF \/ ny <= 0 \/ py = dy
       \/ \E y \in {py, py + ny - 1, dy, dy + ny - 1} : ~CheckY(S, y) THEN S
    ELSE [S EXCEPT !.ln = [i \in DOMAIN @ |->
              IF i - 1 \in dy..dy + ny - 1 THEN @[i - dy + py]
              ELSE IF i - 1 \in py..py + ny - 1 THEN Blank ELSE @[i]]]

\* A limit of UINT_MAX, which no history reaches.
Unlimited == -1

\* At the limit the oldest tenth of the history goes.  The lines it leaves at the
\* end are no part of the grid any more.
CollectHistory(S) ==
    IF S.lim = Unlimited \/ S.hs < S.lim THEN S
    ELSE LET n == AtLeastOne(S.lim \div 10)
             M == MoveLines(S, 0, n, Lines(S) - n)
         IN  [M EXCEPT !.hs = @ - n, !.ln = SubSeq(@, 1, Len(@) - n)]

ScrollHistory(S) == [S EXCEPT !.hs = @ + 1, !.ln = Append(@, Blank)]

\* The region's first line becomes the last of the history.
ScrollHistoryRegion(S, upper, lower) ==
    LET q == S.ln
    IN  [S EXCEPT !.hs = @ + 1, !.ln =
            SubSeq(q, 1, S.hs) \o <<q[upper + 1]>> \o SubSeq(q, S.hs + 1, upper)
            \o SubSeq(q, upper + 2, lower + 1) \o <<Blank>>
            \o SubSeq(q, lower + 2, Len(q))]

\* The cells of line y up to column n, default cells where it has none.
Expanded(S, y, n) ==
    LET c == S.ln[y + 1].c
    IN  c \o [i \in 1..Greatest(0, n - Len(c)) |-> "-"]

Peek(S, x, y) ==
    IF CheckY(S, y) /\ x < Len(S.ln[y + 1].c) THEN S.ln[y + 1].c[x + 1] ELSE "-"

\* Column x of line y := f, for the x of a set; the line grows as far as needed.
SetCells(S, xs, y, f) ==
    IF xs = {} \/ ~CheckY(S, y) THEN S
    ELSE [S EXCEPT !.ln[y + 1].c = [i \in 1..Len(Expanded(S, y, Max(xs) + 1)) |->
              IF i - 1 \in xs THEN f ELSE Expanded(S, y, i)[i]]]

\* nx cells of a line become default ones; at its end they are cut off instead.
ClearCells(l, px, nx) ==
    LET len == Len(l.c)
    IN  IF px >= len THEN l
        ELSE IF px + nx >= len THEN [l EXCEPT !.c = SubSeq(@, 1, px)]
        ELSE [l EXCEPT !.c = [i \in DOMAIN @ |-> IF i - 1 \in px..px + nx - 1 THEN "-" ELSE @[i]]]

Clear(S, px, py, nx, ny) ==
    IF nx = 0 \/ ny = 0 THEN S
    ELSE IF px = 0 /\ nx = S.sx THEN ClearLines(S, py, ny)
    ELSE IF ny < 0 \/ ~CheckY(S, py) \/ ~CheckY(S, py + ny - 1) THEN S
    ELSE [S EXCEPT !.ln = [i \in DOMAIN @ |->
              IF i - 1 \in py..py + ny - 1 THEN ClearCells(@[i], px, nx) ELSE @[i]]]

\* The source is wiped where the destination does not cover it.
MoveCells(S, dx, px, y, nx) ==
    IF nx = 0 \/ px = dx \/ ~CheckY(S, y) THEN S
    ELSE LET c == Expanded(S, y, Greatest(px, dx) + nx)
         IN  [S EXCEPT !.ln[y + 1].c = [i \in DOMAIN c |->
                 IF i - 1 \in dx..dx + nx - 1 THEN c[i - dx + px]
                 ELSE IF i - 1 \in px..px + nx - 1 THEN "-" ELSE c[i]]]

-----------------------------------------------------------------------------
(* grid-view.c: lines are counted from the top of the visible screen. *)

Y(S, y)    == S.hs + y
Used(l)    == l.c # <<>> \/ l.u
History(S) == SubSeq(S.ln, 1, S.hs)
View(S)    == SubSeq(S.ln, S.hs + 1, Len(S.ln))

\* Down to the last used line the screen goes to the history, whatever its limit.
ViewClearHistory(S) ==
    LET used == {y \in 1..S.sy : Used(S.ln[S.hs + y])}
        last == IF used = {} THEN 0 ELSE Max(used)
    IN  [S EXCEPT !.hs = @ + last, !.ln = @ \o [y \in 1..last |-> Blank]]

ViewClear(S, px, py, nx, ny) == Clear(S, px, Y(S, py), nx, ny)

ScrollRegionUp(S, up, lo) ==
    LET C == CollectHistory(S)
    IN  IF ~S.hist THEN MoveLines(S, Y(S, up), Y(S, up) + 1, lo - up)
        ELSE IF up = 0 /\ lo = S.sy - 1 THEN ScrollHistory(C)
        ELSE ScrollHistoryRegion(C, Y(C, up), Y(C, lo))

ScrollRegionDown(S, up, lo) == MoveLines(S, Y(S, up) + 1, Y(S, up), lo - up)

InsertLines(S, py, ny) == MoveLines(S, Y(S, py + ny), Y(S, py), S.sy - py - ny)

InsertLinesRegion(S, lo, py, ny) ==
    LET n2 == lo + 1 - py - ny
        M  == MoveLines(S, Y(S, lo + 1 - n2), Y(S, py), n2)
    IN  Clear(M, 0, Y(S, py + n2), S.sx, ny - n2)

DeleteLines(S, py, ny) ==
    LET M == MoveLines(S, Y(S, py), Y(S, py + ny), S.sy - py - ny)
    IN  Clear(M, 0, Y(S, S.sy - ny), S.sx, py + ny - (S.sy - ny))

DeleteLinesRegion(S, lo, py, ny) ==
    LET n2 == lo + 1 - py - ny
        M  == MoveLines(S, Y(S, py), Y(S, py + ny), n2)
    IN  Clear(M, 0, Y(S, py + n2), S.sx, ny - n2)

InsertCells(S, px, py, nx) ==
    IF px = S.sx - 1 THEN Clear(S, px, Y(S, py), 1, 1)
    ELSE MoveCells(S, px + nx, px, Y(S, py), S.sx - px - nx)

DeleteCells(S, px, py, nx) ==
    LET M == MoveCells(S, px, px + nx, Y(S, py), S.sx - px - nx)
    IN  Clear(M, S.sx - nx, Y(S, py), Greatest(0, px + nx - (S.sx - nx)), 1)

-----------------------------------------------------------------------------
(* screen.c *)

\* The visible lines are cleared; the history and its flag stay.
Reinit(S) ==
    ClearLines([S EXCEPT !.cx = 0, !.cy = 0, !.up = 0, !.lo = S.sy - 1,
                         !.wrap = TRUE, !.ins = FALSE, !.tabs = {}],
               S.hs, S.sy)

ResizeX(S, sx) == [S EXCEPT !.cx = IF @ >= sx THEN sx - 1 ELSE @, !.sx = sx]

\* Lines below the cursor go first, then lines from the top: into the history if
\* there is one.
Shrink(S, sy) ==
    LET below == Least(S.sy - 1 - S.cy, S.sy - sy)
        D     == IF below > 0 THEN DeleteLines(S, S.sy - below, below) ELSE S
        need  == S.sy - sy - below
        H     == IF S.hist THEN [D EXCEPT !.hs = @ + need]
                 ELSE IF need > 0 /\ S.cy > 0
                      THEN DeleteLines(D, 0, Least(S.cy, need)) ELSE D
    IN  [H EXCEPT !.cy = @ - need, !.ln = SubSeq(@, 1, H.hs + sy)]

\* As many lines as there are come back from the history, then blank ones.
Grow(S, sy) ==
    LET back == IF S.hist THEN Least(S.hs, sy - S.sy) ELSE 0
    IN  [S EXCEPT !.hs = @ - back, !.cy = @ + back,
                  !.ln = @ \o [i \in 1..sy - S.sy - back |-> Blank]]

ResizeY(S, sy) ==
    LET T == IF sy < S.sy THEN Shrink(S, sy) ELSE Grow(S, sy)
    IN  [T EXCEPT !.sy = sy, !.up = 0, !.lo = sy - 1]

\* screen_resize.
Resized(S, sx, sy) ==
    LET X == IF sx = S.sx THEN S ELSE [ResizeX(S, sx) EXCEPT !.tabs = {}]
    IN  IF sy = S.sy THEN X ELSE ResizeY(X, sy)

-----------------------------------------------------------------------------
(* screen-write.c *)

CursorUp(S, n) ==
    [S EXCEPT !.cy = @ - Least(AtLeastOne(n), IF @ < S.up THEN @ ELSE @ - S.up)]

CursorDown(S, n) ==
    [S EXCEPT !.cy = @ + Least(AtLeastOne(n),
                               IF @ > S.lo THEN S.sy - 1 - @ ELSE S.lo - @)]

\* At a pending wrap (cx = sx) the room to the right underflows and is no limit.
CursorRight(S, n) ==
    [S EXCEPT !.cx = @ + IF @ >= S.sx THEN AtLeastOne(n)
                         ELSE Least(AtLeastOne(n), S.sx - 1 - @)]

CursorLeft(S, n) == [S EXCEPT !.cx = @ - Least(AtLeastOne(n), @)]

\* At column 0, back to the end of a line that was wrapped.
Backspace(S) ==
    IF S.cx > 0 THEN [S EXCEPT !.cx = @ - 1]
    ELSE IF S.cy > 0 /\ S.ln[S.hs + S.cy].wr
         THEN [S EXCEPT !.cx = S.sx - 1, !.cy = @ - 1] ELSE S

CursorMove(S, px, py) ==
    [S EXCEPT !.cx = Least(px, S.sx - 1), !.cy = Least(py, S.sy - 1)]

Filled(l, sx) ==
    [l EXCEPT !.c = [x \in 1..Greatest(Len(@), sx) |-> IF x <= sx THEN "a" ELSE @[x]]]

AlignmentTest(S) ==
    [S EXCEPT !.ln = [i \in DOMAIN @ |-> IF i > S.hs THEN Filled(@[i], S.sx) ELSE @[i]],
              !.cx = 0, !.cy = 0, !.up = 0, !.lo = S.sy - 1]

InsertCharacter(S, n) ==
    IF S.cx >= S.sx THEN S
    ELSE InsertCells(S, S.cx, S.cy, Least(AtLeastOne(n), S.sx - S.cx))

DeleteCharacter(S, n) ==
    IF S.cx >= S.sx THEN S
    ELSE DeleteCells(S, S.cx, S.cy, Least(AtLeastOne(n), S.sx - S.cx))

InRegion(S) == S.cy \in S.up..S.lo

InsertLine(S, n) ==
    IF InRegion(S)
    THEN InsertLinesRegion(S, S.lo, S.cy, Least(AtLeastOne(n), S.lo + 1 - S.cy))
    ELSE InsertLines(S, S.cy, Least(AtLeastOne(n), S.sy - S.cy))

DeleteLine(S, n) ==
    IF InRegion(S)
    THEN DeleteLinesRegion(S, S.lo, S.cy, Least(AtLeastOne(n), S.lo + 1 - S.cy))
    ELSE DeleteLines(S, S.cy, Least(AtLeastOne(n), S.sy - S.cy))

ClearLine(S) == ViewClear(S, 0, S.cy, S.sx, 1)
ClearEndOfLine(S) ==
    IF S.cx < S.sx THEN ViewClear(S, S.cx, S.cy, S.sx - S.cx, 1) ELSE S
ClearStartOfLine(S) == ViewClear(S, 0, S.cy, Least(S.cx + 1, S.sx), 1)

ReverseIndex(S) ==
    IF S.cy = S.up THEN ScrollRegionDown(S, S.up, S.lo)
    ELSE IF S.cy > 0 THEN [S EXCEPT !.cy = @ - 1] ELSE S

ScrollRegion(S, up, lo) ==
    LET u == Least(up, S.sy - 1)
        l == Least(lo, S.sy - 1)
    IN  IF u >= l THEN S ELSE [S EXCEPT !.cx = 0, !.cy = 0, !.up = u, !.lo = l]

Linefeed_Scrolls(S, wrapped) ==
    LET L == [S EXCEPT !.ln[S.hs + S.cy + 1].wr = wrapped]
    IN  IF S.cy = S.lo THEN ScrollRegionUp(L, S.up, S.lo)
        ELSE [L EXCEPT !.cy = @ + 1]

\* Below the region the last line stays: wrapped, with no line after it.
Linefeed(S, wrapped) ==
    LET L == [S EXCEPT !.ln[S.hs + S.cy + 1].wr = wrapped]
    IN  IF S.cy = S.lo THEN ScrollRegionUp(L, S.up, S.lo)
        ELSE IF S.cy < S.sy - 1 THEN [L EXCEPT !.cy = @ + 1] ELSE L

\* On the first line, wherever in it, all of the screen goes to the history.
ClearEndOfScreen(S) ==
    IF S.cy = 0 /\ S.hist THEN ViewClearHistory(S)
    ELSE ViewClear(ClearEndOfLine(S), 0, S.cy + 1, S.sx, S.sy - (S.cy + 1))

ClearStartOfScreen(S) ==
    ClearStartOfLine(IF S.cy > 0 THEN ViewClear(S, 0, 0, S.sx, S.cy) ELSE S)

ClearScreen(S) ==
    IF S.hist THEN ViewClearHistory(S) ELSE ViewClear(S, 0, 0, S.sx, S.sy)

\* screen_write_combine: a character without width is put onto the one before.
Combine(S) ==
    IF S.cx = 0 THEN S
    ELSE LET k == Peek(S, S.cx - 1, Y(S, S.cy))
         IN  [SetCells(S, {S.cx - 1}, Y(S, S.cy), IF k = "-" THEN "a" ELSE k)
                  EXCEPT !.ln[Y(S, S.cy) + 1].u = TRUE]

\* screen_write_overwrite: what is left of wide characters that lose a column.
Overwrite(S, width) ==
    LET y     == Y(S, S.cy)
        Pad(x) == Peek(S, x, y) = "P"
        start == Max({x \in 0..S.cx : x = 0 \/ ~Pad(x)})
        back  == IF Pad(S.cx) THEN start..S.cx ELSE {}
        next  == {x \in S.cx + width..S.sx - 1 : \A z \in S.cx + width..x : Pad(z)}
    IN  SetCells(S, back \cup next, y, "-")

\* In insert mode the line moved is number cy of the whole grid, not of the
\* visible screen.
MakeSpace(S, width) ==
    IF S.ins /\ S.cx <= S.sx - width
    THEN MoveCells(S, S.cx + width, S.cx, S.cy, S.sx - S.cx - width) ELSE S

Wrapped(S, width) ==
    IF S.wrap /\ S.cx > S.sx - width
    THEN [Linefeed(S, TRUE) EXCEPT !.cx = 0] ELSE S

\* screen_write_cell, with a character of one or two columns.
WriteCell(S, width) ==
    LET W == Wrapped(MakeSpace(S, width), width)
        O == Overwrite(W, width)
        P == SetCells(O, O.cx + 1..O.cx + width - 1, Y(O, O.cy), "P")
        C == SetCells(P, {O.cx}, Y(O, O.cy), IF width = 1 THEN "a" ELSE "W")
    IN  IF ~S.wrap /\ width > 1 /\ S.cx # S.sx /\ S.cx > S.sx - width THEN S
        ELSE IF W.wrap /\ W.cx > W.sx - width THEN W
        ELSE [C EXCEPT !.cx = @ + width,
                       !.ln[Y(O, O.cy) + 1].u = @ \/ width > 1]

-----------------------------------------------------------------------------
(* What a screen is, whatever was written to it *)

GridLine == [c : Seq(Cell), wr : BOOLEAN, u : BOOLEAN]

ScreenType ==
    [ln : Seq(GridLine), hs : Nat, lim : (Nat \ {0}) \cup {Unlimited}, hist : BOOLEAN,
     sx : Nat \ {0}, sy : Nat \ {0}, cx : Nat, cy : Nat, up : Nat, lo : Nat,
     wrap : BOOLEAN, ins : BOOLEAN, tabs : SUBSET Nat]

\* The grid has the lines its size and history say, and the cursor and the scroll
\* region are on the screen: grid.c indexes linedata with them unchecked.
GridWhole(S) == /\ S.hs >= 0 /\ Len(S.ln) = S.hs + S.sy
                /\ S.cy \in 0..S.sy - 1 /\ S.cx >= 0
                /\ 0 <= S.up /\ S.up <= S.lo /\ S.lo < S.sy

=============================================================================
