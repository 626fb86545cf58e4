----------------------------- MODULE LayoutTree -----------------------------
(***************************************************************************)
(* The tree of layout cells of a window: layout.c, layout-set.c.           *)
(*                                                                         *)
(* A cell is a window pane, a row of cells from left to right ("lr") or a  *)
(* column from top to bottom ("tb"); one line or column is left free       *)
(* between two cells for the border.  A size is a function of the          *)
(* direction, so that what the code writes twice is written once.  Offsets *)
(* are not kept: layout_fix_offsets computes them from the sizes, and what *)
(* sets them otherwise sets the same.                                      *)
(***************************************************************************)
EXTENDS Integers, SequencesExt

CONSTANT NoPane     \* the window pane of a cell that has none

PaneMinimum == 2
Dir         == {"lr", "tb"}
Across(d)   == IF d = "lr" THEN "tb" ELSE "lr"

Size(d, along, across) == [e \in Dir |-> IF e = d THEN along ELSE across]
Leaf(size, p)    == [type |-> "pane", size |-> size, wp |-> p, cells |-> <<>>]
Node(d, size, q) == [type |-> d, size |-> size, wp |-> NoPane, cells |-> q]

Least(S)        == CHOOSE x \in S : \A y \in S : x <= y
Greatest(S)     == CHOOSE x \in S : \A y \in S : x >= y
Bounded(x, l, u) == Greatest({l, Least({x, u})})

RECURSIVE Total(_)
Total(q) == IF q = <<>> THEN 0 ELSE Head(q) + Total(Tail(q))

(***************************************************************************)
(* Walking the tree.  A cell is named by the path of indexes that leads to *)
(* it.                                                                     *)
(***************************************************************************)
RECURSIVE Paths(_), CellAt(_, _), With(_, _, _), PathOf(_, _), Panes(_), BottomRight(_)
Paths(c) ==
    {<<>>} \cup UNION {{<<i>> \o q : q \in Paths(c.cells[i])} : i \in DOMAIN c.cells}

CellAt(c, path) ==
    IF path = <<>> THEN c ELSE CellAt(c.cells[Head(path)], Tail(path))

With(c, path, new) ==
    IF path = <<>> THEN new
    ELSE [c EXCEPT !.cells[Head(path)] = With(@, Tail(path), new)]

Leaves(t)    == {path \in Paths(t) : CellAt(t, path).type = "pane"}
Panes(c)     == IF c.type = "pane" THEN {c.wp}
                ELSE UNION {Panes(c.cells[i]) : i \in DOMAIN c.cells}

PathOf(c, p) ==
    IF c.type = "pane" THEN <<>>
    ELSE LET i == CHOOSE i \in DOMAIN c.cells : p \in Panes(c.cells[i])
         IN  <<i>> \o PathOf(c.cells[i], p)

\* layout_find_bottomright.
BottomRight(c) ==
    IF c.type = "pane" THEN <<>>
    ELSE <<Len(c.cells)>> \o BottomRight(Last(c.cells))

RECURSIVE Offset(_, _)
\* layout_fix_offsets: where the cell at path lies, from the sizes before it.
Offset(c, path) ==
    IF path = <<>> THEN Size("lr", 0, 0)
    ELSE LET i == Head(path)
         IN  [Offset(c.cells[i], Tail(path)) EXCEPT
                ![c.type] = @ + Total([j \in 1..(i - 1) |-> c.cells[j].size[c.type] + 1])]

\* layout_fix_panes: a pane that reaches over the edge of the window is cropped
\* to it, if a line or a column of it (two lines) is left.
Cropped(off, size, edge, least) ==
    IF off < edge /\ off + size >= edge /\ edge - off >= least
    THEN edge - off ELSE size

Placed(t, window, p) ==
    LET path == PathOf(t, p)
        off  == Offset(t, path)
        size == CellAt(t, path).size
    IN  [off  |-> off,
         size |-> [d \in Dir |-> Cropped(off[d], size[d], window[d],
                                         IF d = "lr" THEN 1 ELSE 2)]]

(***************************************************************************)
(* Changing sizes.                                                         *)
(***************************************************************************)
RECURSIVE Room(_, _)
\* layout_resize_check: how much can be taken from a cell.
Room(c, d) ==
    CASE c.type = "pane" -> Greatest({0, c.size[d] - PaneMinimum})
      [] c.type = d      -> Total([i \in DOMAIN c.cells |-> Room(c.cells[i], d)])
      [] OTHER           -> Least({Room(c.cells[i], d) : i \in DOMAIN c.cells})

RECURSIVE Adjust(_, _, _), Adjust_Even(_, _, _), Spread(_, _, _, _)
Adjust_Even(c, d, k) ==
    LET n == Len(c.cells)
        r == [c EXCEPT !.size[d] = @ + k]
    IN  IF c.type = "pane" THEN r
        ELSE [r EXCEPT !.cells = [i \in DOMAIN c.cells |-> Adjust_Even(c.cells[i], d,
                IF c.type # d THEN k ELSE (k \div n) + (IF i <= k % n THEN 1 ELSE 0))]]

\* layout_resize_adjust: the cells that lie across all change, those along share
\* the change one by one, from the first on.
Adjust(c, d, k) ==
    LET r == [c EXCEPT !.size[d] = @ + k]
    IN  CASE c.type = "pane" -> r
          [] c.type = d      -> [r EXCEPT !.cells = Spread(@, d, 1, k)]
          [] OTHER           -> [r EXCEPT !.cells =
                                  [i \in DOMAIN c.cells |-> Adjust(c.cells[i], d, k)]]

\* Its loop.  It has no end when more is to go than there is room: no cell is
\* left then.
Spread(q, d, i, k) ==
    LET next == (i % Len(q)) + 1
    IN  CASE k = 0 -> q
          [] k > 0 -> Spread([q EXCEPT ![i] = Adjust(@, d, 1)], d, next, k - 1)
          [] k < 0 /\ \A j \in DOMAIN q : Room(q[j], d) = 0 -> <<>>
          [] OTHER -> IF Room(q[i], d) > 0
                      THEN Spread([q EXCEPT ![i] = Adjust(@, d, -1)], d, next, k + 1)
                      ELSE Spread(q, d, next, k)

\* layout_resize: by how much the root changes in one direction.
Change(t, from, to, d) ==
    LET room == Room(t, d)
    IN  IF room = 0 THEN Greatest({0, to[d] - t.size[d]})
        ELSE Greatest({to[d] - from[d], -room})

Resized(t, from, to) ==
    LET u == Adjust(t, "lr", Change(t, from, to, "lr"))
    IN  Adjust(u, "tb", Change(u, from, to, "tb"))

RECURSIVE Grow(_, _, _, _), Shrink(_, _, _, _)
\* layout_resize_pane_grow until no more is needed: from the next cell with room
\* towards the tail, then towards the head.
Grow(q, i, d, needed) ==
    LET roomy  == {j \in DOMAIN q \ {i} : Room(q[j], d) > 0}
        behind == {j \in roomy : j > i}
        j      == IF behind # {} THEN Least(behind) ELSE Greatest(roomy)
        k      == Least({Room(q[j], d), needed})
    IN  IF needed = 0 \/ roomy = {} THEN q
        ELSE Grow([q EXCEPT ![i] = Adjust(@, d, k), ![j] = Adjust(@, d, -k)],
                  i, d, needed - k)

\* layout_resize_pane_shrink: from this cell towards the head, onto the next.
Shrink(q, i, d, needed) ==
    LET roomy == {j \in 1..i : Room(q[j], d) > 0}
        j     == Greatest(roomy)
        k     == Least({Room(q[j], d), needed})
    IN  IF needed = 0 \/ roomy = {} THEN q
        ELSE Shrink([q EXCEPT ![i + 1] = Adjust(@, d, k), ![j] = Adjust(@, d, -k)],
                    i, d, needed - k)

(***************************************************************************)
(* Splitting and destroying a cell.                                        *)
(***************************************************************************)
CanSplit(t, path, d) == CellAt(t, path).size[d] >= 2 * PaneMinimum + 1

\* layout_split_pane: the cell at path is divided and p put into the new half;
\* hint is the size of that, -1 for half.
Split(t, path, d, hint, p) ==
    LET old  == CellAt(t, path)
        s    == old.size[d]
        far  == Bounded(IF hint < 0 THEN (s + 1) \div 2 - 1 ELSE hint, PaneMinimum, s - 2)
        part == [old EXCEPT !.size[d] = s - 1 - far]
        new  == Leaf([old.size EXCEPT ![d] = far], p)
        up   == Front(path)
    IN  IF path # <<>> /\ CellAt(t, up).type = d
        THEN With(With(t, path, part), up,
                  LET P == CellAt(With(t, path, part), up)
                  IN  [P EXCEPT !.cells = InsertAt(@, Last(path) + 1, new)])
        ELSE With(t, path, Node(d, old.size, <<part, new>>))

Destroy_Next(t, path) ==
    LET up == Front(path)
        i  == Last(path)
        P  == CellAt(t, up)
        j  == IF i = Len(P.cells) THEN i - 1 ELSE i + 1
        q  == RemoveAt([P.cells EXCEPT ![j] = Adjust(@, P.type, P.cells[i].size[P.type] + 1)], i)
    IN  With(t, up, IF Len(q) = 1 THEN q[1] ELSE [P EXCEPT !.cells = q])

\* layout_destroy_cell, of a cell that has a neighbour: its space goes to the one
\* before it, and a parent with one cell left gives way to that.
Destroy(t, path) ==
    LET up == Front(path)
        i  == Last(path)
        P  == CellAt(t, up)
        j  == IF i = 1 THEN 2 ELSE i - 1
        q  == RemoveAt([P.cells EXCEPT ![j] = Adjust(@, P.type, P.cells[i].size[P.type] + 1)], i)
    IN  With(t, up, IF Len(q) = 1 THEN q[1] ELSE [P EXCEPT !.cells = q])

(***************************************************************************)
(* The layouts that have a name.  ps are the panes in the order of the     *)
(* window's list, W the size of the window.                                *)
(***************************************************************************)
\* What the last cell along d takes up so that the window is full.
Rest(W, d, used) == Greatest({0, W[d] - used})

\* layout_set_even_h, layout_set_even_v.
Even(d, ps, W) ==
    LET n == Len(ps)
        k == Greatest({PaneMinimum, (W[d] - (n - 1)) \div n})
    IN  Node(d, W, [i \in 1..n |-> Leaf(Size(d,
            k + (IF i = n THEN Rest(W, d, n * (k + 1) - 1) ELSE 0), W[Across(d)]), ps[i])])

\* One row of the grid of the other panes, e being its direction.
Line(e, ps, W, k, across) ==
    LET n == Len(ps)
    IN  Node(e, Size(e, W[e], across), [i \in 1..n |-> Leaf(Size(e,
            k + (IF i = n THEN Rest(W, e, n * (k + 1) - 1) ELSE 0), across), ps[i])])

\* The panes in rows of n, of which only the last may be shorter.
Rows(ps, n) ==
    [j \in 1..((Len(ps) + n - 1) \div n) |->
        SubSeq(ps, (j - 1) * n + 1, Least({j * n, Len(ps)}))]

\* A grid's last row takes what is left of the window.
Stretched(q, d, k) == [q EXCEPT ![Len(q)] = Adjust(@, d, k)]

\* The sizes layout_set_main_h (d is "tb") and layout_set_main_v ("lr") choose: n
\* panes besides the large one lie in as few lines as their minimum allows, each
\* of so many panes of size k, a line taking h; the large pane and its border take
\* m.  main and other are the options' values.
MainSizes(d, n, W, main, other) ==
    LET e      == Across(d)
        most   == Greatest({1, (W[e] + 1) \div (PaneMinimum + 1)})
        lines  == 1 + (n - 1) \div most
        each   == 1 + (n - 1) \div lines
        asked  == IF other > 0 /\ W["lr"] - (other + 1) > main + 1
                  THEN W["lr"] - (other + 1) ELSE main + 1
        large  == Greatest({asked, PaneMinimum + 1})
        total  == lines * (PaneMinimum + 1) - 1
        fits   == large + total <= W[d]
        m      == CASE fits -> large
                    [] total + PaneMinimum + 1 > W[d] -> PaneMinimum + 2
                    [] OTHER -> W[d] - total
    IN  [lines |-> lines, each |-> each, m |-> m,
         k |-> (W[e] - (n - 1)) \div each,
         h |-> IF fits THEN (W[d] - m - (lines - 1)) \div lines ELSE PaneMinimum]

\* layout_set_main_h and layout_set_main_v.  A line is a cell of its own only if
\* no line has more.
Main(d, ps, W, main, other) ==
    LET e      == Across(d)
        z      == MainSizes(d, Len(ps) - 1, W, main, other)
        used   == z.m + z.lines * z.h + z.lines - 1
        row(q) == IF z.each = 1 THEN Leaf(Size(d, z.h, W[e]), q[1])
                  ELSE Line(e, q, W, z.k, z.h)
        rows   == Rows(Tail(ps), z.each)
    IN  Node(d, Size(d, used, W[e]),
             <<Leaf(Size(d, z.m - 1, W[e]), Head(ps))>>
             \o Stretched([j \in DOMAIN rows |-> row(rows[j])], d, Rest(W, d, used)))

\* layout_set_tiled: as many rows as columns or one more.  The root has the size
\* of the grid, its rows that of the window.
Tiled(ps, W) ==
    LET n     == Len(ps)
        lines == Least({r \in 1..n : r * r >= n})
        each  == IF lines * (lines - 1) >= n THEN lines - 1 ELSE lines
        k     == Greatest({PaneMinimum, (W["lr"] - (each - 1)) \div each})
        h     == Greatest({PaneMinimum, (W["tb"] - (lines - 1)) \div lines})
        row(q) == IF Len(q) = 1 THEN Leaf(Size("lr", W["lr"], h), q[1])
                  ELSE Line("lr", q, W, k, h)
        rows  == Rows(ps, each)
    IN  Node("tb", Size("lr", (k + 1) * each - 1, (h + 1) * lines - 1),
             Stretched([j \in DOMAIN rows |-> row(rows[j])], "tb",
                       Rest(W, "tb", lines * h + lines - 1)))

=============================================================================
