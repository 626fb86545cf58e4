----------------------------- MODULE PaneScreen -----------------------------
(***************************************************************************)
(* The screen of a pane: what the program in the pane does to it through   *)
(* its output (the dispatch functions of input.c, window_pane_alternate_on *)
(* and _off), and what the users do to it (resizing, clear-history,        *)
(* respawn-window).  Which bytes make a sequence is in InputParser; here a *)
(* step is one dispatched character or sequence.                           *)
(*                                                                         *)
(* Nothing bounds the output of a program: Depth bounds the steps.         *)
(***************************************************************************)
EXTENDS Screen

CONSTANTS
    Start,          \* the screens to start from, with a history-limit above 0
    Widths,         \* the sizes a user may give the pane
    Heights,
    Counts,         \* the parameters of sequences
    Depth           \* how many steps are taken

ASSUME SizeAssumption  == Widths \subseteq Nat \ {0, 1} /\ Heights \subseteq Nat \ {0}
ASSUME StartAssumption == \A S \in Start : S \in ScreenType /\ GridWhole(S)
ASSUME CountAssumption == Counts \subseteq Nat \ {0} /\ Depth \in Nat

VARIABLES
    base,       \* wp->base
    saved,      \* wp->saved_grid and the saved cursor, or NoGrid
    old,        \* the cursor kept by DECSC: ictx->old_cx, old_cy
    left        \* the steps left

pvars == <<base, saved, old, left>>

NoGrid == [none |-> TRUE]
Alternate == saved # NoGrid

\* The parser's steps: one of the screen's functions, or a few in order.
Writes(S) == base' = S /\ UNCHANGED <<saved, old>>

-----------------------------------------------------------------------------
(* input_print, input_utf8_close *)

PutCharacter == \E width \in 0..2 :
    Writes(IF width = 0 THEN Combine(base) ELSE WriteCell(base, width))

(* input_c0_dispatch *)

\* The next tab stop, or the last column.
Tab ==
    /\ base.cx < base.sx - 1
    /\ Writes([base EXCEPT !.cx =
           Min({x \in @ + 1..base.sx - 1 : x \in base.tabs \/ x = base.sx - 1})])

C0 == \/ Writes(Backspace(base))
      \/ Tab
      \/ Writes(Linefeed(base, FALSE))
      \/ Writes([base EXCEPT !.cx = 0])

(* input_esc_dispatch *)

\* The reset leaves the alternate screen and a region of one line as they are.
RIS ==
    LET R == ScrollRegion([base EXCEPT !.tabs = {}], 0, base.sy - 1)
        C == ClearScreen([R EXCEPT !.ins = FALSE])
    IN  /\ base' = CursorMove(C, 0, 0)
        /\ old' = <<0, 0>>
        /\ UNCHANGED saved

SaveCursor == old' = <<base.cx, base.cy>> /\ UNCHANGED <<base, saved>>

ESC == \/ RIS
       \/ Writes(Linefeed([base EXCEPT !.cx = 0], FALSE))
       \/ base.cx < base.sx /\ Writes([base EXCEPT !.tabs = @ \cup {base.cx}])
       \/ Writes(ReverseIndex(base))
       \/ SaveCursor
       \/ Writes(CursorMove(base, old[1], old[2]))
       \/ Writes(AlignmentTest(base))

(* input_csi_dispatch *)

\* The n-th tab stop before the cursor, or column 0.
BackTab(S, n) ==
    LET stops == {x \in S.tabs : x < S.cx}
        Nth == {x \in stops : Cardinality({z \in stops : z >= x}) = n}
    IN  [S EXCEPT !.cx = IF Nth = {} THEN 0 ELSE Max(Nth)]

\* Beyond the screen every parameter means its last column or line.
Within(n) == {Least(k, n) : k \in Counts}

CursorTo == \E x \in Within(base.sx) \cup {base.cx + 1}, y \in Within(base.sy) \cup {base.cy + 1} :
    Writes(CursorMove(base, x - 1, y - 1))

Repeated == \E n \in Counts :
    \/ Writes(BackTab(base, n))
    \/ Writes(CursorLeft(base, n))
    \/ Writes(CursorDown(base, n))
    \/ Writes(CursorRight(base, n))
    \/ Writes(CursorUp(base, n))
    \/ Writes(DeleteCharacter(base, n))
    \/ Writes(DeleteLine(base, n))
    \/ Writes(InsertCharacter(base, n))
    \/ Writes(InsertLine(base, n))

SetRegion == \E n \in Counts, m \in Counts \cup {base.sy} :
    Writes(ScrollRegion(base, n - 1, m - 1))

Erase == \/ Writes(ClearEndOfScreen(base))
         \/ Writes(ClearStartOfScreen(base))
         \/ Writes(ClearScreen(base))
         \/ Writes(ClearEndOfLine(base))
         \/ Writes(ClearStartOfLine(base))
         \/ Writes(ClearLine(base))

\* IRM, DECCOLM and the tab stops.
Modes == \/ \E on \in BOOLEAN : Writes([base EXCEPT !.ins = on])
         \/ Writes(ClearScreen(CursorMove(base, 0, 0)))
         \/ base.cx < base.sx /\ Writes([base EXCEPT !.tabs = @ \ {base.cx}])
         \/ Writes([base EXCEPT !.tabs = {}])

AlternateOn_History ==
    /\ ~Alternate
    /\ saved' = [ln |-> View(base), sy |-> base.sy, cx |-> base.cx, cy |-> base.cy]
    /\ base' = ViewClear(base, 0, 0, base.sx, base.sy)
    /\ UNCHANGED old

\* window_pane_alternate_on, when the option alternate-screen is set.
AlternateOn ==
    /\ ~Alternate
    /\ saved' = [ln |-> View(base), sy |-> base.sy, cx |-> base.cx, cy |-> base.cy]
    /\ base' = [ViewClear(base, 0, 0, base.sx, base.sy) EXCEPT !.hist = FALSE]
    /\ UNCHANGED old

\* grid_duplicate_lines onto the visible lines.
Duplicated(S, ln) ==
    [S EXCEPT !.ln = [i \in DOMAIN @ |->
        IF i > S.hs /\ i - S.hs <= Len(ln) THEN ln[i - S.hs] ELSE @[i]]]

\* window_pane_alternate_off: a screen that has grown is made as high as the saved
\* one, the lines are copied, and it grows again with its history on.
AlternateOff ==
    /\ Alternate
    /\ LET S == IF base.sy > saved.sy THEN Resized(base, base.sx, saved.sy) ELSE base
           D == Duplicated(S, saved.ln)
           C == [D EXCEPT !.cx = Least(saved.cx, D.sx - 1),
                          !.cy = Least(saved.cy, D.sy - 1), !.hist = TRUE]
       IN  base' = Resized(C, base.sx, base.sy)
    /\ saved' = NoGrid
    /\ UNCHANGED old

CSI == Repeated \/ CursorTo \/ SetRegion \/ Erase \/ Modes \/ AlternateOn \/ AlternateOff

Output == PutCharacter \/ C0 \/ ESC \/ CSI

\* A pane that only its program changes: what InputParser implements.
PaneSpec == base \in Start /\ [][Output]_<<base, saved, old>>

-----------------------------------------------------------------------------
(* The users *)

\* window_pane_resize.
Resize == \E sx \in Widths, sy \in Heights :
    /\ <<sx, sy>> # <<base.sx, base.sy>>
    /\ Writes(Resized(base, sx, sy))

\* cmd_clear_history_exec.
ClearHistory ==
    LET M == MoveLines(base, 0, base.hs, base.sy)
    IN  Writes([M EXCEPT !.hs = 0, !.ln = SubSeq(@, 1, base.sy)])

\* cmd_respawn_window_exec: the screen is made new, the parser, the saved grid and
\* the history flag are not.
Respawn == Writes(Reinit(base))

User == Resize \/ ClearHistory \/ Respawn

PaneInit ==
    /\ base \in Start
    /\ saved = NoGrid
    /\ old = <<0, 0>>
    /\ left = Depth

=============================================================================
