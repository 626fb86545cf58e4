------------------------------- MODULE Layout -------------------------------
(***************************************************************************)
(* The layout of one window: how the tree of cells, the list of panes, the *)
(* place each pane has on the screen and the window's size change together *)
(* (layout*.c, the commands that call them), and what of it is drawn as a  *)
(* border (screen-redraw.c).                                               *)
(*                                                                         *)
(* A pane has a cell, and a place that follows its cell whenever           *)
(* layout_fix_panes is called: after a split whose process could not be    *)
(* started it is not, and the new cell stays without a pane.               *)
(*                                                                         *)
(* The active pane, which window_add_pane inserts behind, is the pane that  *)
(* is split or the first one (Panes has all cases).                        *)
(* swap-pane and rotate-window exchange the panes of two cells together    *)
(* with their places in the list, which only renames them here.            *)
(***************************************************************************)
EXTENDS LayoutTree, FiniteSets

CONSTANTS
    PaneId,
    Windows,    \* the sizes the window may have
    Hints,      \* sizes given to split-window, -1 for none
    Steps,      \* adjustments given to resize-pane
    Mains,      \* <<main-pane-height or -width, other-pane-height or -width>>
    Dumps,      \* layouts list-windows has shown of some window
    MaxCells,   \* the cells the tree may have after a split
    Tight       \* are layouts chosen in windows that are too small for them?

ASSUME PaneAssumption   == IsFiniteSet(PaneId) /\ NoPane \notin PaneId /\ Tight \in BOOLEAN
\* With more panes than columns the unsigned sizes of layout-set.c would wrap, as
\* with an other-pane-width wider than the window.
ASSUME WindowAssumption ==
    /\ \A W \in Windows : \A d \in Dir : W[d] \in Nat /\ W[d] >= Cardinality(PaneId)
    /\ \A m \in Mains : \A W \in Windows : m[1] \in Nat /\ m[2] \in 0..(W["lr"] - 1)

VARIABLES
    window,     \* its size
    panes,      \* its list of panes
    root,       \* its layout_root
    place,      \* xoff, yoff, sx, sy of its panes
    died        \* "null_cell": a neighbour was asked for that is not there

vars == <<window, panes, root, place, died>>

\* layout_fix_panes.
Fix(ps, t, W) == place' = [p \in ToSet(ps) |-> Placed(t, W, p)]

Set(ps, t, W) ==
    /\ panes' = ps /\ root' = t /\ window' = W
    /\ UNCHANGED died

\* layout_init.
Single(p, W) == Leaf(W, p)

Spawn_Before(p, d, hint, x, at) ==
    LET path == PathOf(root, p)
        ps   == InsertAt(panes, at + 1, x)
        t    == Split(root, path, d, hint, x)
    IN  /\ CanSplit(root, path, d)
        /\ Set(ps, t, window)
        /\ place' = [q \in ToSet(ps) |-> IF q \in ToSet(panes) THEN place[q]
                                         ELSE Placed(t, window, q)]

\* split-window and join-pane: x gets half of the cell of p.
Spawn(p, d, hint, x, at) ==
    LET path == PathOf(root, p)
        ps   == InsertAt(panes, at + 1, x)
        t    == Split(root, path, d, hint, x)
    IN  /\ CanSplit(root, path, d)
        /\ Set(ps, t, window)
        /\ Fix(ps, t, window)

SplitWindow ==
    \E p \in ToSet(panes), d \in Dir, hint \in Hints, x \in PaneId \ ToSet(panes) :
        /\ Cardinality(Leaves(root)) < MaxCells
        /\ \E at \in {i \in DOMAIN panes : i = 1 \/ panes[i] = p} : Spawn(p, d, hint, x, at)

\* split-window whose process cannot be started: window_remove_pane, but the cell
\* stays, and the panes are where they were.
SplitFails ==
    \E p \in ToSet(panes), d \in Dir, hint \in Hints :
        LET path == PathOf(root, p)
        IN  /\ CanSplit(root, path, d)
            /\ Cardinality(Leaves(root)) < MaxCells
            /\ Set(panes, Split(root, path, d, hint, NoPane), window)
            /\ UNCHANGED place

\* A pane that ends, is killed or leaves for another window: layout_close_pane.
ClosePane ==
    \E p \in ToSet(panes) :
        LET path == PathOf(root, p)
            ps   == Remove(panes, p)
            t    == Destroy(root, path)
        IN  /\ Len(panes) > 1
            /\ IF Len(CellAt(root, Front(path)).cells) = 1
               THEN died' = "null_cell" /\ UNCHANGED <<window, panes, root, place>>
               ELSE Set(ps, t, window) /\ Fix(ps, t, window)

\* layout_resize_pane on the cells of a container: the i-th grows or shrinks, the
\* last one moves the border before it.
ResizeCells(q, i, d, k) == IF k > 0 THEN Grow(q, i, d, k) ELSE Shrink(q, i, d, -k)

\* resize-pane, and a border that is dragged: the container is the nearest one
\* that runs in the direction.
ResizePane ==
    \E p \in ToSet(panes), d \in Dir, k \in Steps :
        LET path == PathOf(root, p)
            ups  == {j \in DOMAIN path : CellAt(root, SubSeq(path, 1, j - 1)).type = d}
            j    == Greatest(ups)
            up   == SubSeq(path, 1, j - 1)
            P    == CellAt(root, up)
            i    == IF path[j] = Len(P.cells) THEN path[j] - 1 ELSE path[j]
            t    == With(root, up, [P EXCEPT !.cells = ResizeCells(@, i, d, k)])
        IN  /\ ups # {}
            /\ IF Len(P.cells) = 1
               THEN died' = "null_cell" /\ UNCHANGED <<window, panes, root, place>>
               ELSE Set(panes, t, window) /\ Fix(panes, t, window)

\* recalculate_sizes: layout_resize and window_resize.
ResizeWindow ==
    \E W \in Windows \ {window} :
        LET t == Resized(root, window, W)
        IN  Set(panes, t, W) /\ Fix(panes, t, W)

\* The cells of a container are as long as each other across, and in one that is
\* not the root they and the borders between them fill it.  (The root may have
\* another size than its cells, see the README.)
Filled(t, path) ==
    LET c == CellAt(t, path)
        across(i) == c.cells[i].size[Across(c.type)]
    IN  c.type # "pane" =>
          /\ Len(c.cells) > 1
          /\ \A i \in DOMAIN c.cells : across(i) = across(1)
          /\ path # <<>> =>
                /\ across(1) = c.size[Across(c.type)]
                /\ Total([i \in DOMAIN c.cells |-> c.cells[i].size[c.type] + 1])
                   = c.size[c.type] + 1

Regular(t) == \A path \in Paths(t) : Filled(t, path)

\* select-layout, next-layout and previous-layout with one of the names.
Named(ps, W) ==
    {Even(d, ps, W) : d \in Dir} \cup {Tiled(ps, W)}
    \cup {Main(d, ps, W, m[1], m[2]) : d \in Dir, m \in Mains}

SelectLayout ==
    /\ Len(panes) > 1
    /\ \E t \in Named(panes, window) :
          /\ Tight \/ Regular(t)
          /\ Set(panes, t, window)
          /\ Fix(panes, t, window)

RECURSIVE Pruned(_, _), Assigned(_, _)
\* layout_parse: cells too many are closed at the bottom right ...
Pruned(t, n) ==
    IF Cardinality(Leaves(t)) <= n THEN t
    ELSE Pruned(Destroy(t, BottomRight(t)), n)

\* ... and layout_assign gives the panes, in order, to those that are left.
Assigned(t, ps) ==
    CASE t.type = "pane" -> [t EXCEPT !.wp = Head(ps)]
      [] OTHER -> [t EXCEPT !.cells = [i \in DOMAIN t.cells |->
            Assigned(t.cells[i], LET n == Total([j \in 1..(i - 1) |-> Cardinality(Leaves(t.cells[j]))])
                                 IN  SubSeq(ps, n + 1, Len(ps)))]]

\* A layout is applied at the size it was made for and then resized.
Restored(t, W) == Resized(t, t.size, W)

\* select-layout with a layout in words.
RestoreLayout ==
    \E dump \in Dumps :
        LET t == Restored(Assigned(Pruned(dump, Len(panes)), panes), window)
        IN  /\ Len(panes) <= Cardinality(Leaves(dump))
            /\ Set(panes, t, window)
            /\ Fix(panes, t, window)

\* respawn-window: layout_free and layout_init.
RespawnWindow ==
    LET t == Single(Head(panes), window)
    IN  /\ Set(<<Head(panes)>>, t, window)
        /\ Fix(<<Head(panes)>>, t, window)

Init ==
    \E p \in PaneId, W \in Windows :
        /\ window = W
        /\ panes  = <<p>>
        /\ root   = Single(p, W)
        /\ place  = [q \in {p} |-> Placed(root, W, q)]
        /\ died   = "no"

Next ==
    /\ died = "no"
    /\ \/ SplitWindow
       \/ SplitFails
       \/ ClosePane
       \/ ResizePane
       \/ ResizeWindow
       \/ SelectLayout
       \/ RestoreLayout
       \/ RespawnWindow

Spec == Init /\ [][Next]_vars

(***************************************************************************)
(* What screen_redraw_screen draws.                                        *)
(***************************************************************************)
\* window_pane_visible: a pane that reaches over the edge is not shown at all.
Visible(p) ==
    LET r == place[p] IN \A d \in Dir : r.off[d] < window[d] /\ r.off[d] + r.size[d] <= window[d]

Inside(p, at) ==
    \A d \in Dir : at[d] \in place[p].off[d]..(place[p].off[d] + place[p].size[d] - 1)

\* Is at inside the frame one line around the pane?
Around(p, at) ==
    \A d \in Dir : at[d] \in (place[p].off[d] - 1)..(place[p].off[d] + place[p].size[d])

\* screen_redraw_cell_border: the first pane that holds the position or has it on
\* its border decides.
OnBorder(shown, at) ==
    LET ps == SelectSeq(shown, LAMBDA p : Around(p, at))
    IN  ps # <<>> /\ ~Inside(ps[1], at)

Beside(at, d, k) == [at EXCEPT ![d] = @ + k]

\* To which sides a border goes on; to the left and the top it also does at the
\* edge of the terminal.
Joins(shown, at) ==
    {<<d, k>> \in Dir \X {-1, 1} :
        (k = -1 /\ at[d] = 0) \/ OnBorder(shown, Beside(at, d, k))}

\* screen_redraw_check_cell: what is drawn at a position.
CheckCell(shown, at) ==
    CASE \A p \in ToSet(shown) : ~Around(p, at) -> "outside"
      [] ~OnBorder(shown, at) -> "inside"
      [] Cardinality(Joins(shown, at)) < 2 -> "outside"
      [] OTHER -> "border"

(***************************************************************************)
(* Properties.                                                             *)
(***************************************************************************)
\* Every pane has one cell, a cell has a pane or belonged to one that was never
\* started; a container has two cells at least, which fill it; and no cell has
\* vanished under a change that was more than there was room for.
LayoutSound == died = "no" =>
    /\ \A p \in ToSet(panes) :
          Cardinality({path \in Leaves(root) : CellAt(root, path).wp = p}) = 1
    /\ \A path \in Paths(root) :
          LET c == CellAt(root, path)
          IN  /\ \A d \in Dir : c.size[d] > 0
              /\ c.type = "pane" => c.wp \in ToSet(panes) \cup {NoPane}
    /\ Regular(root)

\* What is inside a visible pane is never drawn over by a border, and a border
\* between panes is never left out for want of a neighbour.
BordersDrawn == died = "no" =>
    LET shown == SelectSeq(panes, Visible) IN
    \A x \in 0..(window["lr"] - 1), y \in 0..(window["tb"] - 1) :
        LET at     == Size("lr", x, y)
            near   == {p \in ToSet(shown) : Around(p, at)}
            inside == \E p \in near : Inside(p, at)
        IN  CheckCell(shown, at) = CASE inside    -> "inside"
                                     [] near = {} -> "outside"
                                     [] OTHER     -> "border"

\* When a pane is closed its space goes to the cell before it, or to the one after
\* it if it was the first: no pane loses a line, and those in other cells stay
\* where they are, whatever the container that is left alone gives way to.
CloseGrows ==
    [][\A p \in ToSet(panes) \ ToSet(panes') :
          Len(panes') = Len(panes) - 1 /\ Len(panes') > 1 =>
          LET path == PathOf(root, p)
              j    == IF Last(path) = 1 THEN 2 ELSE Last(path) - 1
              near == Panes(CellAt(root, Front(path) \o <<j>>))
          IN  \A q \in ToSet(panes') :
                LET old == PathOf(root, q)
                    new == PathOf(root', q)
                IN  /\ \A d \in Dir : CellAt(root', new).size[d] >= CellAt(root, old).size[d]
                    /\ q \notin near =>
                          /\ CellAt(root', new).size = CellAt(root, old).size
                          /\ Offset(root', new) = Offset(root, old)]_vars

=============================================================================
