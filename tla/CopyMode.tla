------------------------------ MODULE CopyMode ------------------------------
(***************************************************************************)
(* Copy mode (window-copy.c): a cursor, a scroll offset and a selection on *)
(* the lines of a pane, or on lines that commands have written.  In copy   *)
(* mode the pane is not read; with Meddle the users also give the commands *)
(* that change its screen all the same.                                    *)
(*                                                                         *)
(* What the mode draws is left out.  Where a searched or sought character  *)
(* is, is a choice.  A padding cell counts as a blank.                     *)
(***************************************************************************)
EXTENDS PaneScreen

CONSTANTS
    Repeats,        \* the numbers typed before a key
    Meddle          \* clear-history and respawn-window in copy mode?

ASSUME RepeatAssumption == Repeats \subseteq Nat \ {0} /\ Meddle \in BOOLEAN

VARIABLES
    copy,       \* window_copy_mode_data, or NoCopy
    view,       \* the mode's own screen when it shows the output of commands
    reading,    \* is the pane read?
    pasted      \* what was copied last, and the character cut off its end

cvars == <<copy, view, reading, pasted>>
vars  == <<pvars, cvars>>
screens == <<base, saved, old>>

NoCopy    == [none |-> TRUE]
NoView    == [none |-> TRUE]
Copying   == copy # NoCopy

Inputs == {"off", "prefix", "searchup", "searchdown", "jumpforward", "jumpback",
           "gotoline"}
NoSel  == [none |-> TRUE]
Nothing == [text |-> <<>>, cut |-> "n"]

CopyType ==
    [oy : Int, cx : Int, cy : Int, lastcx : Int, lastsx : Int,
     sel : [x : Int, y : Int] \cup {NoSel},
     shown : [sx : Int, sy : Int, ex : Int, ey : Int] \cup {NoSel},
     rect : BOOLEAN, written : BOOLEAN, input : Inputs, num : Nat, search : Inputs,
     jump : Inputs, drag : BOOLEAN, hung : BOOLEAN]

\* window_copy_init.
Fresh(x, y) ==
    [oy |-> 0, cx |-> x, cy |-> y, lastcx |-> 0, lastsx |-> 0, sel |-> NoSel,
     shown |-> NoSel, rect |-> FALSE, written |-> FALSE, input |-> "off", num |-> 0,
     search |-> "off", jump |-> "off", drag |-> FALSE, hung |-> FALSE]

Backing(v) == IF v = NoView THEN base ELSE v
B == Backing(view)

-----------------------------------------------------------------------------
(* Lines of the backing screen; a line that is not there is blank. *)

Py(c)   == B.hs + c.cy - c.oy
Line(y) == IF CheckY(B, y) THEN B.ln[y + 1] ELSE Blank

\* window_copy_find_length.
Length(y) ==
    Max({0} \cup {x \in 1..Least(Len(Line(y).c), B.sx) : Line(y).c[x] \in {"a", "W"}})

\* window_copy_in_set, for blanks.
InSet(x, y) == Peek(B, x, y) = "-"

\* n steps of a loop.  (With a function, not an operator, one can reason about it.)
Iterate(Step, c, n) ==
    LET f[i \in 0..n] == IF i = 0 THEN c ELSE Step[f[i - 1]] IN f[n]

-----------------------------------------------------------------------------
(* The selection *)

\* Its start, clipped to what the screen shows; its end is the cursor.
UpdateSelection(c) ==
    IF c.sel = NoSel THEN c
    ELSE LET top   == B.hs - c.oy
             above == c.sel.y < top
             below == c.sel.y > top + B.sy - 1
             x == IF c.rect \/ ~(above \/ below) THEN c.sel.x
                  ELSE IF above THEN 0 ELSE B.sx - 1
             y == IF above THEN 0 ELSE IF below THEN B.sy - 1 ELSE c.sel.y - top
         IN  [c EXCEPT !.shown = [sx |-> x, sy |-> y, ex |-> c.cx, ey |-> c.cy]]

StartSelection(c) == UpdateSelection([c EXCEPT !.sel = [x |-> c.cx, y |-> Py(c)]])

CursorAt(c, x, y) == UpdateSelection([c EXCEPT !.cx = x, !.cy = y])

\* Without it the cursor goes back to the end of its line.
ClearSelection(c) ==
    LET d == [c EXCEPT !.sel = NoSel, !.shown = NoSel]
    IN  [d EXCEPT !.cx = Least(@, Length(Py(d)))]

RectangleToggle(c) ==
    LET d == [c EXCEPT !.rect = ~@]
    IN  UpdateSelection([d EXCEPT !.cx = Least(@, Length(Py(d)))])

-----------------------------------------------------------------------------
(* Moving *)

ScrollUp(c, n) ==
    IF c.oy = 0 THEN c ELSE UpdateSelection([c EXCEPT !.oy = @ - Least(@, n)])

ScrollDown(c, n) ==
    IF n > B.hs \/ c.oy = B.hs THEN c
    ELSE UpdateSelection([c EXCEPT !.oy = @ + (IF @ > B.hs - n THEN B.hs - @ ELSE n)])

\* The column kept for the next lines, except on an empty line.
Remember(c) ==
    LET n == Length(Py(c))
        d == IF n = 0 THEN c ELSE [c EXCEPT !.lastcx = c.cx, !.lastsx = n]
    IN  [d EXCEPT !.cx = d.lastcx]

\* To the end of the line if the old line was left at its end, or this is shorter.
Fitted(c) ==
    LET px == Length(Py(c))
    IN  IF /\ c.sel = NoSel \/ ~c.rect
           /\ c.cx > px \/ (c.cx >= c.lastsx /\ c.cx # px)
        THEN CursorAt(c, px, c.cy) ELSE c

Up(c, scroll) ==
    LET d == Remember(c)
    IN  Fitted(IF scroll \/ d.cy = 0 THEN ScrollDown(d, 1)
               ELSE CursorAt(d, d.cx, d.cy - 1))

Down_Past(c, scroll) ==
    LET d == Remember(c)
    IN  Fitted(IF scroll THEN ScrollUp(d, 1) ELSE CursorAt(d, d.cx, d.cy + 1))

Down(c, scroll) ==
    LET d == Remember(c)
    IN  Fitted(IF scroll \/ d.cy = B.sy - 1 THEN ScrollUp(d, 1)
               ELSE CursorAt(d, d.cx, d.cy + 1))

StartOfLine(c) ==
    LET Climb == [d \in CopyType |->
                     IF Py(d) > 0 /\ Line(Py(d) - 1).wr THEN Up(d, FALSE) ELSE d]
        e == IF c.cx = 0 THEN Iterate(Climb, c, Lines(B)) ELSE c
    IN  CursorAt(e, 0, e.cy)

\* At its end, to the end of what the line was wrapped to; for ever, when the last
\* line of all is a wrapped one.
EndOfLine(c) ==
    LET px == Length(Py(c))
        Descend == [d \in CopyType |-> IF Line(Py(d)).wr THEN Down(d, FALSE) ELSE d]
        e == Iterate(Descend, c, Lines(B))
    IN  IF c.cx # px THEN CursorAt(c, px, c.cy)
        ELSE IF ~Line(Py(c)).wr
             THEN CursorAt(c, IF c.sel # NoSel /\ c.rect THEN B.sx ELSE px, c.cy)
             ELSE [CursorAt(e, Length(Py(e)), e.cy) EXCEPT !.hung = @ \/ Line(Py(e)).wr]

Left(c) ==
    IF c.cx = 0 THEN EndOfLine(Up(c, FALSE)) ELSE CursorAt(c, c.cx - 1, c.cy)

Right(c) ==
    LET px == IF c.sel # NoSel /\ c.rect THEN B.sx ELSE Length(Py(c))
    IN  IF c.cx >= px THEN Down(StartOfLine(c), FALSE)
        ELSE CursorAt(c, c.cx + 1, c.cy)

BackToIndentation(c) ==
    LET n == Length(Py(c))
    IN  CursorAt(c, Min({n} \cup {x \in 0..n : Peek(B, x, Py(c)) \in {"a", "W"}}), c.cy)

WordType == [c : CopyType, x : Int, skip : BOOLEAN, done : BOOLEAN]

\* One step of the two loops of next_word (first = FALSE) and next_word_end (TRUE):
\* past what is, or is not, in the set, down at the end of a line, until both have
\* been passed or the last line is.
WordStep(w, first) ==
    LET y == Py(w.c)
        n == Length(y)
    IN  IF w.done THEN w
        ELSE IF w.x > n /\ y = Lines(B) - 1 THEN [w EXCEPT !.done = TRUE]
        ELSE IF w.x > n THEN [w EXCEPT !.c = Down(@, FALSE), !.x = 0]
        ELSE IF InSet(w.x, y) = w.skip THEN [w EXCEPT !.x = @ + 1]
        ELSE IF w.skip = first THEN [w EXCEPT !.skip = ~@]
        ELSE [w EXCEPT !.done = TRUE, !.c = CursorAt(@, w.x, @.cy)]

NextWord(c, first) ==
    LET Step == [w \in WordType |-> WordStep(w, first)]
    IN  Iterate(Step, [c |-> c, x |-> c.cx, skip |-> first, done |-> FALSE],
                Lines(B) * (B.sx + 3) + 2).c

\* One step of the first loop of previous_word: back over what is in the set.
WordBack(w) ==
    LET y == Py(w.c)
        xs == {x \in 0..w.x - 1 : ~InSet(x, y)}
    IN  IF w.done THEN w
        ELSE IF xs # {} THEN [w EXCEPT !.x = Max(xs), !.done = TRUE]
        ELSE IF w.c.cy = 0 /\ (B.hs = 0 \/ w.c.oy >= B.hs - 1)
             THEN [w EXCEPT !.x = 0, !.done = TRUE]
        ELSE LET d == Up(w.c, FALSE) IN [w EXCEPT !.c = d, !.x = Length(Py(d))]

PreviousWord(c) ==
    LET Step == [w \in WordType |-> WordBack(w)]
        e == Iterate(Step, [c |-> c, x |-> c.cx, skip |-> FALSE, done |-> FALSE],
                     Lines(B) + 1)
        word == {x \in 0..e.x : \A z \in x..e.x - 1 : ~InSet(z, Py(e.c))}
    IN  CursorAt(e.c, Min(word), e.c.cy)

\* window_copy_scroll_to.
ScrollTo(c, px, py) ==
    LET gap == B.sy \div 4
        offset == IF py < B.sy THEN 0
                  ELSE IF py > B.hs + B.sy - gap THEN B.hs ELSE py + gap - B.sy
    IN  UpdateSelection([c EXCEPT !.cx = px, !.cy = py - offset, !.oy = B.hs - offset])

PageUp(c, n)   == UpdateSelection([c EXCEPT !.oy = Least(@ + n, B.hs)])
PageDown(c, n) == UpdateSelection([c EXCEPT !.oy = Greatest(@ - n, 0)])
Page == IF B.sy > 2 THEN B.sy - 2 ELSE 1

\* window_copy_cursor_jump and _jump_back: to a cell of one column on the line.
JumpAhead(c) == {x \in c.cx + 1..Length(Py(c)) - 1 : Peek(B, x, Py(c)) \in {"a", "-"}}
JumpBack(c)  == {x \in 0..Greatest(0, c.cx - 1) : Peek(B, x, Py(c)) \in {"a", "-"}}
Jumps(c, type) ==
    {c} \cup {CursorAt(c, x, c.cy) : x \in IF type = "jumpforward" THEN JumpAhead(c)
                                          ELSE IF type = "jumpback" THEN JumpBack(c) ELSE {}}

\* window_copy_search_up and _down: to wherever the string is, if it is anywhere.
\* Downwards neither the last line nor the last column is searched.
Searches(c, type) ==
    LET up == IF c.cx = 0 /\ Py(c) = 0 THEN {} ELSE (0..B.sx - 1) \X (0..Lines(B) - 1)
        down == (0..B.sx - 2) \X (0..Lines(B) - 2)
    IN  {c} \cup {ScrollTo(c, p[1], p[2]) : p \in IF type = "searchup" THEN up
                                                 ELSE IF type = "searchdown" THEN down ELSE {}}

Other(type) == CASE type = "jumpforward" -> "jumpback" [] type = "jumpback" -> "jumpforward"
                 [] type = "searchup" -> "searchdown" [] type = "searchdown" -> "searchup"
                 [] OTHER -> type

\* The keys done n times, and the five lines of the wheel.
Lefts(c, n)         == Iterate([d \in CopyType |-> Left(d)], c, n)
Rights(c, n)        == Iterate([d \in CopyType |-> Right(d)], c, n)
Ups(c, n)           == Iterate([d \in CopyType |-> Up(d, FALSE)], c, n)
Downs(c, n)         == Iterate([d \in CopyType |-> Down(d, FALSE)], c, n)
ScrollUps(c, n)     == Iterate([d \in CopyType |-> Up(d, TRUE)], c, n)
ScrollDowns(c, n)   == Iterate([d \in CopyType |-> Down(d, TRUE)], c, n)
NextWords(c, n)     == Iterate([d \in CopyType |-> NextWord(d, FALSE)], c, n)
NextWordEnds(c, n)  == Iterate([d \in CopyType |-> NextWord(d, TRUE)], c, n)
PreviousWords(c, n) == Iterate([d \in CopyType |-> PreviousWord(d)], c, n)

-----------------------------------------------------------------------------
(* Copying *)

\* window_copy_copy_line: the cells of a line from sx up to ex, and "n" for its end
\* unless it was wrapped and is copied up to there.
CopyLine(y, sx, ex) ==
    LET l == Line(y)
        wrapped == l.wr /\ Len(l.c) <= B.sx
        xx   == IF wrapped THEN Len(l.c) ELSE Length(y)
        last == Least(ex, xx)
        text == SubSeq(l.c, Least(sx, xx) + 1, last)
    IN  IF sx > ex THEN <<>>
        ELSE SelectSeq(text, LAMBDA k : k # "P")
             \o IF wrapped /\ last = xx THEN <<>> ELSE <<"n">>

\* The text from the mark to the cursor, whichever is first; in a rectangle, the
\* same columns of each line.
SelectedText(c, emacs) ==
    LET back == Py(c) < c.sel.y \/ (Py(c) = c.sel.y /\ c.cx < c.sel.x)
        a == IF back THEN <<c.cx, Py(c)>> ELSE <<c.sel.x, c.sel.y>>
        z == IF back THEN <<c.sel.x, c.sel.y>> ELSE <<c.cx, Py(c)>>
        ex == Least(z[1], Length(z[2])) + IF emacs THEN 0 ELSE 1
        left1  == IF c.sel.x < c.cx THEN c.sel.x ELSE c.cx
        right1 == IF c.sel.x >= c.cx THEN c.sel.x + 1
                  ELSE IF emacs THEN c.cx ELSE c.cx + 1
        first == IF c.rect THEN left1 ELSE a[1]
        restS == IF c.rect THEN left1 ELSE 0
        restE == IF c.rect THEN right1 ELSE B.sx
        lastE == IF c.rect THEN right1 ELSE ex
    IN  IF a[2] = z[2] THEN CopyLine(a[2], first, lastE)
        ELSE CopyLine(a[2], first, restE)
             \o FlattenSeq([i \in 1..z[2] - a[2] - 1 |-> CopyLine(a[2] + i, restS, restE)])
             \o CopyLine(z[2], restS, lastE)

\* window_copy_copy_selection: the last character, for a newline, is cut off.
CopySelection(c, emacs) ==
    IF c.sel = NoSel THEN pasted
    ELSE LET t == SelectedText(c, emacs)
         IN  IF t = <<>> THEN pasted
             ELSE [text |-> SubSeq(t, 1, Len(t) - 1), cut |-> t[Len(t)]]

-----------------------------------------------------------------------------
(* Entering and leaving *)

\* window_copy_free: the pane is read again.
Leave ==
    /\ copy' = NoCopy
    /\ view' = NoView
    /\ reading' = TRUE
    /\ UNCHANGED <<screens, pasted>>

Stay(c) == copy' = c /\ UNCHANGED <<screens, view, reading, pasted>>

Enter(c) ==
    /\ copy' = c
    /\ reading' = FALSE
    /\ UNCHANGED <<screens, view, pasted>>

\* cmd_copy_mode_exec.
CopyModeCmd == \E up \in BOOLEAN :
    /\ ~Copying
    /\ LET c == Fresh(base.cx, base.cy)
       IN  Enter(IF up THEN PageUp(c, Page) ELSE c)

\* A button pressed, without the selection's colours.
Drag(c, x, y) == StartSelection([c EXCEPT !.cx = x, !.cy = y, !.drag = TRUE])

\* input_mouse: a click, a release or the wheel turned up, when the program does not
\* want the mouse itself.
MouseEnters == \E x \in 0..base.sx - 1, y \in 0..base.sy - 1 :
    /\ ~Copying
    /\ LET c == Fresh(base.cx, base.cy)
       IN  \E d \in {c, Drag(c, x, y), Ups(c, 5)} : Enter(d)

\* window_copy_vadd: a line of n characters is added to the view.
Added(c, v, n) ==
    LET E == IF c.written THEN Linefeed([v EXCEPT !.cx = 0], FALSE) ELSE v
        W == Iterate([S \in ScreenType |-> WriteCell(S, 1)], E, n)
    IN  /\ view' = W
        /\ copy' = [c EXCEPT !.written = TRUE, !.oy = @ + W.hs - v.hs]
        /\ reading' = (Copying /\ reading)
        /\ UNCHANGED <<screens, pasted>>

NewView == [NewScreen(base.sx, base.sy, Unlimited) EXCEPT !.wrap = FALSE]

\* key_bindings_print: a command's output goes to the view, which replaces any
\* other mode; in copy mode proper it is dropped.
PrintToView == \E n \in Counts :
    IF Copying THEN view # NoView /\ Added(copy, view, n)
    ELSE Added(Fresh(0, 0), NewView, n)

\* cmd_source_file_exec shows the errors of a file that attached a client.  The
\* mode may be there already: its lines are replaced, its position is not.
SourceFileErrors == \E n \in Counts :
    /\ Copying => Meddle
    /\ Added(IF Copying THEN copy ELSE Fresh(0, 0), NewView, n)

-----------------------------------------------------------------------------
(* window_copy_key *)

\* The cursor keys, each done np times.
Moved(c, np) ==
    {Lefts(c, np), Rights(c, np), Ups(c, np), Downs(c, np), ScrollUps(c, np),
     ScrollDowns(c, np), NextWords(c, np), NextWordEnds(c, np), PreviousWords(c, np),
     PageUp(c, np * Page), PageDown(c, np * Page),
     PageUp(c, np * (B.sy \div 2)), PageDown(c, np * (B.sy \div 2))}

\* The others that do not leave the mode.
Placed(c) ==
    {CursorAt(c, 0, 0), CursorAt(c, 0, (B.sy - 1) \div 2), CursorAt(c, 0, B.sy - 1),
     CursorAt([c EXCEPT !.oy = B.hs], 0, 0), CursorAt([c EXCEPT !.oy = 0], 0, B.sy - 1),
     StartSelection(c), ClearSelection(c), StartOfLine(c), BackToIndentation(c),
     EndOfLine(c), RectangleToggle(c)}

\* COPYENDOFLINE; COPYLINE and SELECTLINE after StartOfLine.
SelectToEnd(c, np) == EndOfLine(Downs(StartSelection(c), np - 1))

Again(c) ==
    Jumps(c, c.jump) \cup Jumps(c, Other(c.jump))
    \cup Searches(c, c.search) \cup Searches(c, Other(c.search))

Ready == Copying /\ copy.input \in {"off", "prefix"}
Times == AtLeastOne(copy.num)

Key ==
    /\ Ready
    /\ \E d \in Moved(copy, Times) \cup Placed(copy) \cup Again(copy)
                \cup {SelectToEnd(StartOfLine(copy), Times)}
                \cup {e \in {SelectToEnd(copy, Times)} : e.hung} :
           Stay([d EXCEPT !.num = 0, !.input = "off"])

Cancel == Ready /\ Leave

\* COPYSELECTION, COPYLINE and COPYENDOFLINE.
CopyAndLeave == \E emacs \in BOOLEAN :
    /\ Ready
    /\ \E c \in {copy, SelectToEnd(copy, Times), SelectToEnd(StartOfLine(copy), Times)} :
        /\ ~c.hung
        /\ pasted' = CopySelection(c, emacs)
    /\ copy' = NoCopy
    /\ view' = NoView
    /\ reading' = TRUE
    /\ UNCHANGED screens

\* The digits of a prefix; a prefix is typed at once.
NumberPrefix == Ready /\ \E n \in Repeats : Stay([copy EXCEPT !.input = "prefix", !.num = n])

\* The keys that ask for something more.
Ask == Ready /\ \E i \in Inputs \ {"off", "prefix"} : Stay([copy EXCEPT !.input = i])

\* The key after a jump command; the prefix is kept for the next command too.
JumpKey ==
    /\ Copying /\ copy.input \in {"jumpforward", "jumpback"}
    /\ \E d \in Jumps(copy, copy.input) :
           Stay([d EXCEPT !.jump = copy.input, !.input = "off"])

\* window_copy_key_input: the prompt is cancelled or entered.
KeyInput ==
    /\ Copying /\ copy.input \in {"searchup", "searchdown", "gotoline"}
    /\ \/ Stay([copy EXCEPT !.input = "off", !.num = 0])
       \/ /\ copy.input = "gotoline"
          /\ \E y \in 0..B.hs :
                Stay([UpdateSelection([copy EXCEPT !.oy = y]) EXCEPT !.input = "off", !.num = 0])
       \/ /\ copy.input # "gotoline"
          /\ \E d \in Searches(copy, copy.input) :
                Stay([d EXCEPT !.search = copy.input, !.input = "off", !.num = 0])

\* window_copy_mouse.  The wheel turned down leaves the mode when the cursor did not
\* move on the screen, although the lines may have.
Mouse == \E x \in 0..B.sx - 1, y \in 0..B.sy - 1 :
    /\ Copying
    /\ LET d5 == Downs(copy, 5)
       IN  \/ Stay(Ups(copy, 5))
           \/ d5.cy # copy.cy /\ Stay(d5)
           \/ ~copy.drag /\ Stay(Drag(copy, x, y))
           \/ copy.drag /\ Stay(CursorAt(copy, x, y))

MouseLeaves == \E emacs \in BOOLEAN :
    /\ Copying
    /\ LET d5 == Downs(copy, 5)
       IN  \/ copy.drag /\ pasted' = CopySelection(copy, emacs)
           \/ d5.cy = copy.cy /\ pasted' = CopySelection(d5, emacs)
    /\ copy' = NoCopy
    /\ view' = NoView
    /\ reading' = TRUE
    /\ UNCHANGED screens

-----------------------------------------------------------------------------
(* The pane's own steps *)

\* window_copy_resize, after the pane's screen.
ResizedCopy(S, v) ==
    LET W == IF v = NoView THEN S ELSE v
        d == [copy EXCEPT !.cy = Least(@, W.sy - 1), !.cx = Least(@, W.sx),
                          !.oy = Least(@, W.hs), !.sel = NoSel, !.shown = NoSel]
        py == W.hs + d.cy - d.oy
        n == IF ~CheckY(W, py) THEN 0
             ELSE Max({0} \cup {x \in 1..Least(Len(W.ln[py + 1].c), W.sx) :
                                    W.ln[py + 1].c[x] \in {"a", "W"}})
    IN  [d EXCEPT !.cx = Least(@, n)]

ResizePane ==
    /\ Resize
    /\ view' = IF view = NoView THEN view ELSE Resized(view, base'.sx, base'.sy)
    /\ copy' = IF Copying THEN ResizedCopy(base', view') ELSE copy
    /\ UNCHANGED <<reading, pasted>>

PaneOutput == reading /\ Output /\ UNCHANGED cvars

ClearPaneHistory == (Copying => Meddle) /\ ClearHistory /\ UNCHANGED cvars

\* A new process is read at once, even in copy mode.
RespawnPane ==
    /\ Copying => Meddle
    /\ Respawn
    /\ reading' = TRUE
    /\ UNCHANGED <<copy, view, pasted>>

Hung == Copying /\ copy.hung

Init ==
    /\ PaneInit
    /\ copy = NoCopy
    /\ view = NoView
    /\ reading = TRUE
    /\ pasted = Nothing

CopyKeys ==
    \/ CopyModeCmd \/ MouseEnters \/ PrintToView \/ SourceFileErrors
    \/ Key \/ Cancel \/ CopyAndLeave \/ NumberPrefix \/ Ask \/ JumpKey \/ KeyInput
    \/ Mouse \/ MouseLeaves

\* A server that hangs takes no more steps.
Next ==
    /\ left > 0
    /\ ~Hung
    /\ left' = left - 1
    /\ PaneOutput \/ ResizePane \/ ClearPaneHistory \/ RespawnPane \/ CopyKeys

Spec == Init /\ [][Next]_vars

-----------------------------------------------------------------------------
(* Properties *)

\* The grid has the lines its size and history say, and the cursor and the scroll
\* region are on the screen, whatever sequences, resizes and resets come in
\* whatever order.
ScreenSound == GridWhole(base)

\* While a program has the alternate screen its output leaves the history alone,
\* unless it inserts; and when the alternate screen ends, the saved lines are on
\* the screen again below the history, or as many of them as there is room for
\* (window_pane_alternate_on: "the history is not updated").
AlternateKeepsHistory ==
    [][/\ Alternate /\ Alternate' /\ ~base.ins /\ reading /\ base'.hs # 0
              => History(base') = History(base)
       /\ Alternate /\ ~Alternate'
              => LET n == Least(base.hs + Len(saved.ln), Len(base'.ln))
                 IN  SubSeq(base'.ln, 1, n) = SubSeq(History(base) \o saved.ln, 1, n)
      ]_vars

\* window_copy.c indexes the backing screen's lines with the cursor, the offset and
\* the mark: they exist in every order of keys, wheel, drags, prompts and resizes.
LineUnderCursor == Copying => /\ copy \in CopyType
                              /\ copy.cy \in 0..B.sy - 1
                              /\ copy.oy \in 0..B.hs
                              /\ copy.sel # NoSel => CheckY(B, copy.sel.y)

\* The selection shown starts at the mark, clipped, and ends on the cursor's line: no
\* movement forgets window_copy_update_selection.  (Its last column can be stale:
\* scrolling from an empty line where nothing is left to scroll moves the cursor to
\* the column kept and does not update.)
SelectionShown ==
    Copying /\ copy.sel # NoSel /\ ~copy.rect
        => copy.shown = [UpdateSelection(copy).shown EXCEPT !.ex = copy.shown.ex]

\* cursor_end_of_line goes down wrapped lines for ever only where there is no line
\* to go down to.
HangsOnlyAtTheEnd == Hung => Line(Lines(B) - 1).wr

\* The mode's own screen is a whole one too.
ViewWhole == view # NoView => GridWhole(view)

CopySound == LineUnderCursor /\ SelectionShown /\ HangsOnlyAtTheEnd /\ ViewWhole

\* Two that do not hold, see README.  window_copy_copy_selection: "remove final \n".
FinalNewlineRemoved == pasted.cut = "n"

\* tmux.1, history-limit: "the maximum number of lines held in window history".
HistoryBounded == base.hs <= base.lim

=============================================================================
