---------------------------- MODULE InputParser ----------------------------
(***************************************************************************)
(* The parser of a pane's output (input.c): a machine that reads one byte  *)
(* at a time, collects the parts of a sequence and dispatches it.  What a  *)
(* sequence does to the screen is said with the operators of Screen and    *)
(* PaneScreen, which this module implements: see PaneSpec.                 *)
(*                                                                         *)
(* The sizes of the parser's buffers are parameters.  A program sends      *)
(* bursts of bytes; how they are cut into reads makes no difference, as    *)
(* the parser keeps no more than its context from one byte to the next.    *)
(* Replies and the text sent on to the terminals are kept in out, not      *)
(* delivered.                                                              *)
(*                                                                         *)
(* An operator with an underscore in its name is a variant with a bug.     *)
(***************************************************************************)
EXTENDS Screen

CONSTANTS
    Bursts,         \* the bytes a program may send at a time
    IntermMax,      \* room in interm_buf (3), param_buf (63) and input_buf (255)
    ParamMax,
    InputMax,
    ListMax,        \* nitems(param_list): 24
    IntMax,         \* INT_MAX
    Numbers,        \* the numbers above 0 that fit in a parameter
    Passthrough,    \* the prefix "tmux;" of a string for the terminal itself
    Screens,        \* the screens to start from
    Effects         \* how many dispatches are taken

ASSUME BufferAssumption ==
    /\ {IntermMax, ParamMax, InputMax, ListMax, IntMax, Effects} \subseteq Nat \ {0}
    /\ Bursts \subseteq Seq(0..255) \ {<<>>}

VARIABLES
    base, saved, old,   \* the pane's screen, as in PaneScreen
    st,         \* ictx->state
    buf,        \* interm_buf, param_buf, input_buf and INPUT_DISCARD
    utf8,       \* ictx->utf8data: the bytes it has and is to have
    cell,       \* ictx->cell, and the ones of DECSC and of the alternate screen
    mode,       \* screen->mode, without what base has
    win,        \* the title and cursor colour, the window's name, automatic-rename
    out,        \* what the last byte made the parser pass on
    honest,     \* is all that was executed what was sent?
    sent,       \* the bytes of the sequence so far, beside those it ignores
    sending,    \* the rest of the burst
    left        \* the dispatches left

screen == <<base, saved, old>>
vars   == <<screen, st, buf, utf8, cell, mode, win, out, honest, sent, sending, left>>

P == INSTANCE PaneScreen WITH left <- 0, Start <- Screens, Widths <- {2}, Heights <- {1},
                              Counts <- Numbers \cup {1}, Depth <- 0

-----------------------------------------------------------------------------
(* The tables of transitions: from, to, handler, next state. *)

Anywhere == {<<\h18, \h18, "c0", "ground">>, <<\h1a, \h1a, "c0", "ground">>,
             <<\h1b, \h1b, "", "esc_enter">>}
Control(h) == Anywhere \cup {<<0, \h17, h, "">>, <<\h19, \h19, h, "">>, <<\h1c, \h1f, h, "">>}

Ground == Control("c0") \cup
    {<<\h20, \h7e, "print", "">>, <<\h7f, \h7f, "", "">>, <<\h80, \hc1, "print", "">>,
     <<\hc2, \hdf, "utf8_open", "utf8_one">>, <<\he0, \hef, "utf8_open", "utf8_two">>,
     <<\hf0, \hf4, "utf8_open", "utf8_three">>, <<\hf5, \hff, "print", "">>}

EscEnter == Control("c0") \cup
    {<<\h20, \h2f, "intermediate", "esc_intermediate">>, <<\h30, \h4f, "esc", "ground">>,
     <<\h50, \h50, "", "dcs_enter">>, <<\h51, \h57, "esc", "ground">>,
     <<\h58, \h58, "", "consume_st">>, <<\h59, \h5a, "esc", "ground">>,
     <<\h5b, \h5b, "", "csi_enter">>, <<\h5c, \h5c, "esc", "ground">>,
     <<\h5d, \h5d, "", "osc_string">>, <<\h5e, \h5e, "", "consume_st">>,
     <<\h5f, \h5f, "", "apc_string">>, <<\h60, \h6a, "esc", "ground">>,
     <<\h6b, \h6b, "", "rename_string">>, <<\h6c, \h7e, "esc", "ground">>,
     <<\h7f, \hff, "", "">>}

EscIntermediate == Control("c0") \cup
    {<<\h20, \h2f, "intermediate", "">>, <<\h30, \h7e, "esc", "ground">>, <<\h7f, \hff, "", "">>}

\* The tables for control sequences and for strings differ in what a final byte and
\* a control character do.
Enter(c, interm, param, ignore, h, next) == Control(c) \cup
    {<<\h20, \h2f, "intermediate", interm>>, <<\h30, \h39, "parameter", param>>,
     <<\h3a, \h3a, "", ignore>>, <<\h3b, \h3b, "parameter", param>>,
     <<\h3c, \h3f, "intermediate", param>>, <<\h40, \h7e, h, next>>, <<\h7f, \hff, "", "">>}
Parameter(c, interm, ignore, h, next) == Control(c) \cup
    {<<\h20, \h2f, "intermediate", interm>>, <<\h30, \h39, "parameter", "">>,
     <<\h3a, \h3a, "", ignore>>, <<\h3b, \h3b, "parameter", "">>,
     <<\h3c, \h3f, "", ignore>>, <<\h40, \h7e, h, next>>, <<\h7f, \hff, "", "">>}
Intermediate(c, ignore, h, next) == Control(c) \cup
    {<<\h20, \h2f, "intermediate", "">>, <<\h30, \h3f, "", ignore>>, <<\h40, \h7e, h, next>>,
     <<\h7f, \hff, "", "">>}

CsiEnter == Enter("c0", "csi_intermediate", "csi_parameter", "csi_ignore", "csi", "ground")
CsiParameter == Parameter("c0", "csi_intermediate", "csi_ignore", "csi", "ground")
CsiIntermediate == Intermediate("c0", "csi_ignore", "csi", "ground")
CsiIgnore == Control("c0") \cup
    {<<\h20, \h3f, "", "">>, <<\h40, \h7e, "", "ground">>, <<\h7f, \hff, "", "">>}

DcsEnter == Enter("", "dcs_intermediate", "dcs_parameter", "dcs_ignore", "input", "dcs_handler")
DcsParameter == Parameter("", "dcs_intermediate", "dcs_ignore", "input", "dcs_handler")
DcsIntermediate == Intermediate("", "dcs_ignore", "input", "dcs_handler")
DcsHandler == {<<0, \h1a, "input", "">>, <<\h1b, \h1b, "", "dcs_escape">>, <<\h1c, \hff, "input", "">>}
DcsEscape == {<<0, \h5b, "input", "dcs_handler">>, <<\h5c, \h5c, "dcs", "ground">>,
              <<\h5d, \hff, "input", "dcs_handler">>}

\* dcs_ignore, consume_st.
Ignored == Control("") \cup {<<\h20, \hff, "", "">>}
String_Runs == Control("c0") \cup {<<\h20, \hff, "input", "">>}

\* apc_string, rename_string.
String == Control("") \cup {<<\h20, \hff, "input", "">>}
OscString == Anywhere \cup
    {<<0, 6, "", "">>, <<7, 7, "", "ground">>, <<8, \h17, "", "">>, <<\h19, \h19, "", "">>,
     <<\h1c, \h1f, "", "">>, <<\h20, \hff, "input", "">>}

Utf8More(h, next) ==
    {<<0, \h7f, "", "ground">>, <<\h80, \hbf, h, next>>, <<\hc0, \hff, "", "ground">>}

Table == [ground |-> Ground, esc_enter |-> EscEnter, esc_intermediate |-> EscIntermediate,
          csi_enter |-> CsiEnter, csi_parameter |-> CsiParameter,
          csi_intermediate |-> CsiIntermediate, csi_ignore |-> CsiIgnore,
          dcs_enter |-> DcsEnter, dcs_parameter |-> DcsParameter,
          dcs_intermediate |-> DcsIntermediate, dcs_handler |-> DcsHandler,
          dcs_escape |-> DcsEscape, dcs_ignore |-> Ignored, osc_string |-> OscString,
          apc_string |-> String, rename_string |-> String, consume_st |-> Ignored,
          utf8_three |-> Utf8More("utf8_add", "utf8_two"),
          utf8_two |-> Utf8More("utf8_add", "utf8_one"),
          utf8_one |-> Utf8More("utf8_close", "ground")]

\* The states whose enter hook is input_clear, or calls it.
Clearing == {"esc_enter", "csi_enter", "dcs_enter", "osc_string", "apc_string", "rename_string"}

Rows(ch) == {r \in Table[st] : ch \in r[1]..r[2]}

-----------------------------------------------------------------------------
(* The buffers *)

NoBuf == [interm |-> <<>>, param |-> <<>>, input |-> <<>>, discard |-> FALSE]

Put_Cut(b, f, max, ch) == IF Len(b[f]) = max THEN b ELSE [b EXCEPT ![f] = Append(@, ch)]

Put(b, f, max, ch) ==
    IF Len(b[f]) = max THEN [b EXCEPT !.discard = TRUE] ELSE [b EXCEPT ![f] = Append(@, ch)]

\* input_intermediate, input_parameter, input_input.
Collect(b, h, ch) ==
    CASE h = "intermediate" -> Put(b, "interm", IntermMax, ch)
      [] h = "parameter"    -> Put(b, "param", ParamMax, ch)
      [] h = "input"        -> Put(b, "input", InputMax, ch)
      [] OTHER -> b

Digits == \h30..\h39
Semicolon == \h3b

\* strtonum up to INT_MAX; an empty one counts as not present, -1.
Number(text) ==
    IF text = <<>> THEN -1
    ELSE FoldLeft(LAMBDA n, d : IF n > IntMax THEN n ELSE 10 * n + d - \h30, 0, text)

\* input_split: no list if a number is too large or the list would be full.
Failed == <<-2>>
Split(param) ==
    LET ends == <<0>> \o SetToSortSeq({i \in DOMAIN param : param[i] = Semicolon}, <)
                     \o <<Len(param) + 1>>
        list == [i \in 1..Len(ends) - 1 |-> Number(SubSeq(param, ends[i] + 1, ends[i + 1] - 1))]
    IN  IF param = <<>> THEN <<>>
        ELSE IF Len(list) >= ListMax \/ \E i \in DOMAIN list : list[i] > IntMax THEN Failed
        ELSE list

Get_Raw(list, i, min, default) == IF i > Len(list) THEN default ELSE list[i]

\* input_get, with indexes from 1.
Get(list, i, min, default) ==
    IF i > Len(list) \/ list[i] = -1 THEN default ELSE Greatest(list[i], min)

-----------------------------------------------------------------------------
(* input_csi_dispatch_sgr *)

PlainCell == [attr |-> {}, fg |-> 8, bg |-> 8, fg256 |-> FALSE, bg256 |-> FALSE]

Plain(gc) == [PlainCell EXCEPT !.attr = gc.attr \cap {"charset"}]

AttrOn == {<<1, "bright">>, <<2, "dim">>, <<3, "italics">>, <<4, "underscore">>, <<5, "blink">>,
           <<7, "reverse">>, <<8, "hidden">>}
AttrOff == {<<22, "bright">>, <<22, "dim">>, <<23, "italics">>, <<24, "underscore">>,
            <<25, "blink">>, <<27, "reverse">>}
Named(set, n) == {a[2] : a \in {b \in set : b[1] = n}}

\* One number that is not 38 or 48.
Rendition(gc, n) ==
    LET fg(c) == [gc EXCEPT !.fg = c, !.fg256 = FALSE]
        bg(c) == [gc EXCEPT !.bg = c, !.bg256 = FALSE]
    IN  CASE n \in {0, 10}     -> Plain(gc)
          [] n \in 30..37      -> fg(n - 30)
          [] n = 39            -> fg(8)
          [] n \in 40..47      -> bg(n - 40)
          [] n = 49            -> bg(8)
          [] n \in 90..97      -> fg(n)
          [] n \in 100..107    -> bg(n)
          [] OTHER -> [gc EXCEPT !.attr = (@ \cup Named(AttrOn, n)) \ Named(AttrOff, n)]

\* 38;5;m and 48;5;m: a colour of 256, kept in a byte, or the default without m.
Colour256(gc, n, m) ==
    IF n = 38 THEN [gc EXCEPT !.fg = IF m = -1 THEN 8 ELSE m % 256, !.fg256 = m # -1]
    ELSE [gc EXCEPT !.bg = IF m = -1 THEN 8 ELSE m % 256, !.bg256 = m # -1]

\* Number by number: after 38 or 48 a 5 and the colour; without the 5 two are lost.
SGR(gc, list) ==
    LET step(a, n) ==
            CASE a.stage = 2 -> [gc |-> Colour256(a.gc, a.of, n), of |-> 0, stage |-> 0]
              [] a.stage = 1 -> [a EXCEPT !.stage = IF n = 5 THEN 2 ELSE 0]
              [] n \in {38, 48} -> [a EXCEPT !.of = n, !.stage = 1]
              [] OTHER -> [a EXCEPT !.gc = Rendition(@, Greatest(n, 0))]
        end == FoldLeft(step, [gc |-> gc, of |-> 0, stage |-> 0], list)
    IN  IF list = <<>> THEN Plain(gc)
        ELSE IF end.stage = 2 THEN Colour256(end.gc, end.of, -1) ELSE end.gc

-----------------------------------------------------------------------------
(* Dispatching *)

Mouse == {"mouse_standard", "mouse_button", "mouse_any"}
Set(m, on) == mode' = IF on THEN mode \cup {m} ELSE mode \ {m}

Writes(S) == base' = S /\ UNCHANGED <<saved, old, cell, mode>>
Same == UNCHANGED <<screen, cell, mode>>
Charset(on) ==
    /\ cell' = [cell EXCEPT !.now.attr = IF on THEN @ \cup {"charset"} ELSE @ \ {"charset"}]
    /\ UNCHANGED <<screen, mode>>

\* input_c0_dispatch; a tab moves only before the last column.
C0(ch) ==
    CASE ch = 8 -> Writes(Backspace(base))
      [] ch = 9 /\ base.cx < base.sx - 1 -> P!Tab /\ UNCHANGED <<cell, mode>>
      [] ch \in 10..12 -> Writes(Linefeed(base, FALSE))
      [] ch = 13 -> Writes([base EXCEPT !.cx = 0])
      [] ch = 14 -> Charset(TRUE)
      [] ch = 15 -> Charset(FALSE)
      [] OTHER -> Same

\* The entries of the tables for which characters stand: ch and interm_buf.
None  == <<>>
Paren == <<\h28>>
Hash  == <<\h23>>
Space == <<\h20>>
Query == <<\h3f>>

\* input_esc_dispatch.
Esc(b, ch) ==
    LET c == <<ch, b.interm>>
    IN  CASE b.discard -> Same
          [] c = <<\h63, None>> -> /\ P!RIS
                                   /\ cell' = [cell EXCEPT !.now = PlainCell, !.old = PlainCell]
                                   /\ mode' = mode \ ({"kcursor", "kkeypad"} \cup Mouse)
          [] c = <<\h44, None>> -> Writes(Linefeed(base, FALSE))
          [] c = <<\h45, None>> -> Writes(Linefeed([base EXCEPT !.cx = 0], FALSE))
          [] c = <<\h48, None>> /\ base.cx < base.sx -> Writes([base EXCEPT !.tabs = @ \cup {base.cx}])
          [] c = <<\h4d, None>> -> Writes(ReverseIndex(base))
          [] c = <<\h3d, None>> -> Set("kkeypad", TRUE) /\ UNCHANGED <<screen, cell>>
          [] c = <<\h3e, None>> -> Set("kkeypad", FALSE) /\ UNCHANGED <<screen, cell>>
          [] c = <<\h37, None>> -> /\ P!SaveCursor
                                   /\ cell' = [cell EXCEPT !.old = cell.now]
                                   /\ UNCHANGED mode
          [] c = <<\h38, None>> -> /\ base' = CursorMove(base, old[1], old[2])
                                   /\ cell' = [cell EXCEPT !.now = cell.old]
                                   /\ UNCHANGED <<saved, old, mode>>
          [] c = <<\h38, Hash>> -> Writes(AlignmentTest(base))
          [] c = <<\h42, Paren>> -> Charset(FALSE)
          [] c = <<\h30, Paren>> -> Charset(TRUE)
          [] OTHER -> Same

\* The control sequences that only write to the screen: n is a count from 1, the
\* first parameter from 0 is v.
CsiScreen(c, list) ==
    LET n == Get(list, 1, 1, 1)
        v == Get(list, 1, 0, 0)
    IN  CASE c = <<\h5a, None>> -> P!BackTab(base, n)
          [] c = <<\h44, None>> -> CursorLeft(base, n)
          [] c = <<\h42, None>> -> CursorDown(base, n)
          [] c = <<\h43, None>> -> CursorRight(base, n)
          [] c = <<\h41, None>> -> CursorUp(base, n)
          [] c \in {<<\h48, None>>, <<\h66, None>>} -> CursorMove(base, Get(list, 2, 1, 1) - 1, n - 1)
          [] c = <<\h50, None>> -> DeleteCharacter(base, n)
          [] c = <<\h72, None>> -> ScrollRegion(base, n - 1, Get(list, 2, 1, base.sy) - 1)
          [] c = <<\h4d, None>> -> DeleteLine(base, n)
          [] c = <<\h4a, None>> /\ v = 0 -> ClearEndOfScreen(base)
          [] c = <<\h4a, None>> /\ v = 1 -> ClearStartOfScreen(base)
          [] c = <<\h4a, None>> /\ v = 2 -> ClearScreen(base)
          [] c = <<\h4b, None>> /\ v = 0 -> ClearEndOfLine(base)
          [] c = <<\h4b, None>> /\ v = 1 -> ClearStartOfLine(base)
          [] c = <<\h4b, None>> /\ v = 2 -> ClearLine(base)
          [] c = <<\h47, None>> -> CursorMove(base, n - 1, base.cy)
          [] c = <<\h64, None>> -> CursorMove(base, base.cx, n - 1)
          [] c = <<\h40, None>> -> InsertCharacter(base, n)
          [] c = <<\h4c, None>> -> InsertLine(base, n)
          [] c = <<\h67, None>> /\ v = 0 /\ base.cx < base.sx -> [base EXCEPT !.tabs = @ \ {base.cx}]
          [] c = <<\h67, None>> /\ v = 3 -> [base EXCEPT !.tabs = {}]
          [] OTHER -> base

\* DEC private modes set (on) and reset.
Private(v, on) ==
    LET alone == UNCHANGED <<screen, cell>>
    IN  CASE v = 1    -> Set("kcursor", on) /\ alone
          [] v = 3    -> Writes(ClearScreen(CursorMove(base, 0, 0)))
          [] v = 25   -> Set("cursor", on) /\ alone
          [] v = 1000 \/ (v \in 1001..1003 /\ ~on) ->
                mode' = (mode \ Mouse) \cup (IF on THEN {"mouse_standard"} ELSE {}) /\ alone
          [] v = 1002 -> mode' = (mode \ Mouse) \cup {"mouse_button"} /\ alone
          [] v = 1003 -> mode' = (mode \ Mouse) \cup {"mouse_any"} /\ alone
          [] v = 1005 -> Set("mouse_utf8", on) /\ alone
          [] v = 1049 /\ on /\ saved = P!NoGrid ->
                P!AlternateOn /\ cell' = [cell EXCEPT !.saved = cell.now] /\ UNCHANGED mode
          [] v = 1049 /\ ~on /\ saved # P!NoGrid ->
                P!AlternateOff /\ cell' = [cell EXCEPT !.now = cell.saved] /\ UNCHANGED mode
          [] OTHER -> Same

\* input_csi_dispatch.  A mode is the first parameter, or -1.
Csi(b, ch) ==
    LET list == Split(b.param)
        c == <<ch, b.interm>>
        m == Get(list, 1, 0, -1)
    IN  CASE b.discard \/ list = Failed -> Same
          [] c = <<\h6d, None>> -> /\ cell' = [cell EXCEPT !.now = SGR(@, list)]
                                   /\ UNCHANGED <<screen, mode>>
          [] c \in {<<\h68, None>>, <<\h6c, None>>} /\ m = 4 ->
                Writes([base EXCEPT !.ins = (ch = \h68)])
          [] c \in {<<\h68, Query>>, <<\h6c, Query>>} -> Private(m, ch = \h68)
          [] OTHER -> Writes(CsiScreen(c, list))

\* What is passed on: the reply to DA and DSR to the program, the bytes of a string for
\* the terminal to the terminals.
Answer(fn, b, ch) ==
    LET v == Get(Split(b.param), 1, 0, 0)
    IN  IF fn = "csi" /\ b.interm = None /\ Split(b.param) # Failed
           /\ (<<ch, v>> = <<\h63, 0>> \/ (ch = \h6e /\ v \in {5, 6})) THEN <<ch, v>>
        ELSE IF fn = "dcs" /\ IsPrefix(Passthrough, b.input)
             THEN SubSeq(b.input, Len(Passthrough) + 1, Len(b.input)) ELSE <<>>

\* The number an OSC string starts with, and what comes after it.
OscNumber(text) ==
    LET n == Max({k \in 0..Len(text) : \A i \in 1..k : text[i] \in Digits})
        rest == SubSeq(text, n + 1, Len(text))
    IN  [option |-> IF n = 0 THEN -1 ELSE FoldLeft(LAMBDA a, d : 10 * a + d - \h30, 0, SubSeq(text, 1, n)),
         text |-> IF rest # <<>> /\ rest[1] = Semicolon THEN Tail(rest) ELSE rest]

Text(text) == IF text = <<>> THEN "empty" ELSE "text"

\* input_exit_osc, input_exit_apc, input_exit_rename: whatever ended the string.
ExitState(state, b) ==
    LET o == OscNumber(b.input)
    IN  CASE b.discard -> win
          [] state = "osc_string" /\ o.option \in {0, 2} -> [win EXCEPT !.title = o.text]
          [] state = "osc_string" /\ (o.option = 12 \/ (o.option = 112 /\ o.text = <<>>)) ->
                [win EXCEPT !.colour = Text(o.text)]
          [] state = "apc_string" -> [win EXCEPT !.title = Text(b.input)]
          [] state = "rename_string" -> [win EXCEPT !.name = Text(b.input), !.auto = FALSE]
          [] OTHER -> win

Strings == {"osc_string", "apc_string", "rename_string"}

-----------------------------------------------------------------------------
(* What was sent, read again from the bytes *)

\* The text of a string for the terminal: each ESC only protects the byte after it.
Protected(s) ==
    LET first == Min({i \in 2..Len(s) : s[i] \in \h40..\h7e})
        step(a, ch) == IF ch = \h1b /\ ~a.esc THEN [a EXCEPT !.esc = TRUE]
                       ELSE [text |-> Append(a.text, ch), esc |-> FALSE]
    IN  FoldLeft(step, [text |-> <<>>, esc |-> FALSE], SubSeq(s, first, Len(s) - 2)).text

\* Are the buffers what the bytes s say, for the function fn?
Agree(fn, b, s) ==
    LET args == SubSeq(s, 2, Len(s) - 1)
        param(ch) == ch \in Digits \cup {Semicolon}
        other(ch) == ch \notin Digits \cup {Semicolon}
    IN  CASE fn = "csi" -> b.param = SelectSeq(args, param) /\ b.interm = SelectSeq(args, other)
          [] fn = "esc" -> b.param = <<>> /\ b.interm = SubSeq(s, 1, Len(s) - 1)
          [] fn = "dcs" -> b.input = Protected(s)
          [] OTHER -> b.input = Tail(s) /\ b.param = <<>> /\ b.interm = <<>>

-----------------------------------------------------------------------------
(* A byte *)

\* utf8_open, utf8_append: the bytes there are of a character, and how many it has.
Utf8(h, ch) ==
    CASE h = "utf8_open" -> [have |-> 1, size |-> IF ch < \he0 THEN 2 ELSE IF ch < \hf0 THEN 3 ELSE 4]
      [] h \in {"utf8_add", "utf8_close"} -> [utf8 EXCEPT !.have = @ + 1]
      [] OTHER -> utf8

Handle(h, b, ch) ==
    CASE h = "c0"  -> C0(ch)
      [] h = "esc" -> Esc(b, ch)
      [] h = "csi" -> Csi(b, ch)
      [] h = "print" -> Writes(WriteCell(base, 1))
      [] h = "utf8_close" -> \E width \in 0..2 :
             Writes(IF width = 0 THEN Combine(base) ELSE WriteCell(base, width))
      [] OTHER -> Same

\* input_parse: the handler, the exit and the enter hook.  Without the window's
\* option utf8 the first byte of a character is printed and the state stays.
Parse(ch) == \E r \in Rows(ch) : \E handler \in {r[3]} \cup (IF r[3] = "utf8_open" THEN {"print"} ELSE {}) :
    LET next == IF handler # r[3] THEN "" ELSE r[4]
        b == Collect(buf, handler, ch)
        part == handler \in {"intermediate", "parameter", "input", "esc", "csi", "dcs"}
                \/ (handler = "" /\ next # "" /\ st # "ground")
        fn == IF b.discard THEN "none"
              ELSE IF handler \in {"esc", "csi", "dcs"} THEN handler
              ELSE IF next # "" /\ st \in Strings THEN st ELSE "none"
    IN  /\ Handle(handler, b, ch)
        /\ st' = IF next = "" THEN st ELSE next
        /\ buf' = IF next \in Clearing THEN NoBuf ELSE b
        /\ utf8' = Utf8(handler, ch)
        /\ win' = IF next # "" THEN ExitState(st, b) ELSE win
        /\ out' = Answer(fn, b, ch)
        /\ honest' = (honest /\ (fn # "none" => Agree(fn, b, IF fn = st THEN sent ELSE Append(sent, ch))))
        /\ sent' = IF next \in {"ground", "esc_enter"} THEN <<>>
                   ELSE IF part /\ ~b.discard THEN Append(sent, ch) ELSE sent
        /\ left' = IF handler \in {"", "intermediate", "parameter", "input"} /\ fn = "none"
                   THEN left ELSE left - 1

Read ==
    /\ left > 0
    /\ IF sending # <<>> THEN Parse(Head(sending)) /\ sending' = Tail(sending)
       ELSE \E burst \in Bursts : Parse(Head(burst)) /\ sending' = Tail(burst)

\* input_init, with what window_pane_create makes.
Init ==
    /\ base \in Screens
    /\ saved = P!NoGrid /\ old = <<0, 0>>
    /\ st = "ground" /\ buf = NoBuf /\ utf8 = [have |-> 0, size |-> 0]
    /\ cell = [now |-> PlainCell, old |-> PlainCell, saved |-> PlainCell]
    /\ mode = {"cursor"}
    /\ win = [title |-> "empty", colour |-> "empty", name |-> "text", auto |-> TRUE]
    /\ out = <<>> /\ honest = TRUE /\ sent = <<>> /\ sending = <<>> /\ left = Effects

Next == Read

Spec == Init /\ [][Next]_vars

-----------------------------------------------------------------------------
(* Properties *)

Covers == \A s \in DOMAIN Table, ch \in 0..255 :
              Cardinality({r \in Table[s] : ch \in r[1]..r[2]}) = 1

\* The two fatal errors do not happen: "No transition from state!", as each state has
\* one row for each byte; and "UTF-8 character overflow", as the states count the
\* bytes that utf8_open said there would be.
NeverFatal ==
    /\ Covers
    /\ \A k \in 1..3 : st = <<"utf8_one", "utf8_two", "utf8_three">>[k] => utf8.size = utf8.have + k

\* A sequence that is executed, or a string that is used, is the one that was sent:
\* nothing is left of the one before, and none that did not fit is executed in part,
\* whatever control characters and ignored bytes came in between.
Exact == honest

RowFor(s, ch) == CHOOSE r \in Table[s] : ch \in r[1]..r[2]
After(s, ch) == LET r == RowFor(s, ch) IN IF r[4] = "" THEN s ELSE r[4]

\* An endless sequence can be ended: after ESC \ the parser is in ground, unless that
\* ESC was the one an ESC before it protects in a string for the terminal; then after
\* another ESC \.
Recovers ==
    LET once == FoldLeft(After, st, <<\h1b, \h5c>>)
    IN  /\ once = "ground" \/ st = "dcs_escape"
        /\ FoldLeft(After, once, <<\h1b, \h5c>>) = "ground"

ParserSound == NeverFatal /\ Exact /\ Recovers

\* The text of a string, or of a sequence that is ignored, never reaches the screen,
\* the rendition or the modes; nor does a byte that is collected.
Collecting == Strings \cup {"consume_st", "dcs_enter", "dcs_parameter", "dcs_intermediate",
                            "dcs_ignore", "dcs_handler", "dcs_escape"}
Silent == [][(st \in Collecting) => UNCHANGED <<screen, cell, mode>>]_vars

\* Every byte stream does to the screen only what PaneScreen says an output does.
Refines == P!PaneSpec

=============================================================================
