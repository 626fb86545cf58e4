----------------------------- MODULE ClientKeys -----------------------------
(***************************************************************************)
(* What a key does at an attached client: the prefix and its repeat timer, *)
(* key bindings and the commands they run, prompts, messages and pane      *)
(* numbers, and what of this the client's terminal shows.                  *)
(*                                                                         *)
(* While something is shown the terminal is frozen: panes go on, but their *)
(* output is not written to it (tty_write), and the whole screen is drawn  *)
(* when the freeze ends.  A bound command list runs one command at a step; *)
(* nothing else happens meanwhile, as the server has one thread.           *)
(*                                                                         *)
(* Left out: that the client leaves its session (then keys are dropped),   *)
(* suspension (see ClientProtocol), what is written where, the message     *)
(* log.  server_client_check_backoff is never called, so no terminal is    *)
(* ever in backoff.                                                        *)
(***************************************************************************)
EXTENDS PromptLine, FiniteSets

CONSTANTS
    Key,            \* keys a user presses
    Prefix,         \* those in the option prefix
    Digit,          \* those that choose a pane while numbers are shown
    Table,          \* key_bindings_init: the bindings at first, see Binding
    Rebound,        \* the key that the words "bind" and "unbind" are about
    Answer,         \* the line that confirm-before takes for a yes
    Confirmed,      \* the commands it runs then
    ReadOnlyWords,  \* commands with CMD_READONLY
    Others,         \* commands that come from elsewhere
    Clients,        \* is it read-only, has it a status line, are its keys vi's?
    Pane,           \* the panes of the window
    Bottom,         \* those that reach its last line
    RepeatTime,     \* the option repeat-time
    MaxEvents,      \* bound: events between two turns of server_loop
    NoPrompt

\* Commands a word may stand for.  "window" is any command that has the window
\* drawn; "error" is a command that fails.
Commands == {"message", "error", "prompt", "prompts", "confirm", "panes", "bind",
             "unbind", "unbindall", "window"}

\* A key in the table: with or without the prefix before it.
Bound == Key \X BOOLEAN

ASSUME KeysAssumption ==
    /\ Prefix \subseteq Key /\ Digit \subseteq Key /\ Rebound \in Bound
    /\ DOMAIN Table \subseteq Bound
    /\ \A b \in DOMAIN Table :
          Table[b].repeat \in BOOLEAN /\ Table[b].list \in Seq(Commands)
    /\ Known \subseteq Commands /\ Confirmed \in Seq(Commands)
    /\ ReadOnlyWords \cup Others \subseteq Commands /\ {"error", "confirm"} \cap Others = {}
    /\ Clients \subseteq BOOLEAN \X BOOLEAN \X BOOLEAN
    /\ Bottom \subseteq Pane /\ Bottom # {} /\ "WINDOW" \notin Pane
    /\ RepeatTime \in Nat /\ MaxEvents \in Nat \ {0}

\* A prompt: left counts the prompts of command-prompt -p that are to come, said
\* are the answers to those before, and at is the line that is typed.
PromptType == [kind : {"command", "confirm"}, left : Nat \ {0}, said : Seq(Words), at : LineType]

ASSUME NoneAssumption == NoPrompt \notin PromptType

VARIABLES
    c,          \* the client, see NewClient
    term,       \* what its terminal shows, see Terminal
    window,     \* its window: the panes with PANE_REDRAW, and WINDOW_REDRAW
    history,    \* status_prompt_history
    bindings,   \* key_bindings
    run,        \* the command list that runs
    events      \* events since the last turn

vars == <<c, term, window, history, bindings, run, events>>

\* What the terminal shows: the panes whose content there is old, whether the borders
\* have the colours of the active pane, and the panes with their number on them.
\* Borders are "stale" if this client was told of what changed, and "missed" if not.
Terminal == [old     : SUBSET Pane,
             borders : {"current", "stale", "missed"},
             numbers : SUBSET Pane]

Frozen == {"FREEZE", "NOCURSOR"}
Idle   == [from |-> "nothing", list |-> <<>>, key |-> Rebound, held |-> "table"]
IsIdle == run.from = "nothing"

\* The readonly flag, the option status and the option status-keys stay as they
\* are; by tells who set CLIENT_PREFIX, and fn is prompt_callbackfn, which stays
\* set when the prompt is gone.  data counts what prompts have allocated.
\* A timer that is pending is "own" while what it was set for is there.
NewClient(ro, st, vi) ==
    [readonly |-> ro, status |-> st, vi |-> vi, flags |-> {"REDRAW"}, tty |-> {},
     by |-> "nobody", message |-> FALSE, prompt |-> NoPrompt, fn |-> "none",
     data |-> 0, line |-> "blank", last |-> "old", rtimer |-> "off", mtimer |-> "off", itimer |-> "off"]

Init ==
    /\ \E k \in Clients : c = NewClient(k[1], k[2], k[3])
    /\ term = [old |-> Pane, borders |-> "stale", numbers |-> {}]
    /\ window = {}
    /\ history = <<>>
    /\ bindings = Table
    /\ run = Idle
    /\ events = 0

-----------------------------------------------------------------------------
(* Messages, prompts and pane numbers.  line is what the screen c->status   *)
(* holds and last what the last line of the terminal shows: a message, a    *)
(* prompt or the status as they are now, or "old" content.                  *)

Shows(d, flag)  == [d EXCEPT !.flags = @ \cup {flag}]
Lapsed(timer)   == IF timer = "own" THEN "old" ELSE timer
Age(shown, what) == IF shown = what THEN "old" ELSE shown
Changed(d, what) ==
    [Shows(d, "STATUS") EXCEPT !.line = Age(@, what), !.last = Age(@, what)]

Freeze(d) == [d EXCEPT !.tty = @ \cup Frozen]

\* An error: the whole screen is not drawn.
Thaw_Quiet(d) == [Shows(d, "STATUS") EXCEPT !.tty = @ \ Frozen]

Thaw(d) == [Shows(d, "REDRAW") EXCEPT !.tty = @ \ Frozen]
MessageClear(d) ==
    IF ~d.message THEN d
    ELSE [Thaw(d) EXCEPT !.message = FALSE, !.line = "blank", !.mtimer = Lapsed(@)]

PromptClear(d) ==
    IF d.prompt = NoPrompt THEN d
    ELSE [Thaw(d) EXCEPT !.prompt = NoPrompt, !.line = "blank", !.data = @ - 1]

MessageSet(d) ==
    [Shows(Freeze(MessageClear(PromptClear(d))), "STATUS") EXCEPT
        !.message = TRUE, !.mtimer = "own"]

PromptSet(d, kind, left) ==
    LET p == [kind |-> kind, left |-> left, said |-> <<>>, at |-> EmptyLine(0)]
    IN  [Shows(Freeze(PromptClear(MessageClear(d))), "STATUS") EXCEPT
            !.prompt = p, !.fn = kind, !.data = @ + 1]

\* An error: what the prompt needs is allocated before a prompt is looked for.
CommandPrompt_Leaks(d, left) ==
    IF d.prompt # NoPrompt THEN [d EXCEPT !.data = @ + 1] ELSE PromptSet(d, "command", left)

\* cmd_command_prompt_exec.
CommandPrompt(d, left) == IF d.prompt # NoPrompt THEN d ELSE PromptSet(d, "command", left)

SetIdentify(d) ==
    [Freeze(Shows(d, "REDRAW")) EXCEPT !.flags = @ \cup {"IDENTIFY"}, !.itimer = "own"]

ClearIdentify(d) ==
    IF "IDENTIFY" \notin d.flags THEN d
    ELSE [Thaw(d) EXCEPT !.flags = @ \ {"IDENTIFY"}, !.itimer = Lapsed(@)]

-----------------------------------------------------------------------------
(* The answer to a prompt: run the commands, or close it at once.          *)

\* cmd_command_prompt_callback.
CommandAnswer(d, said) ==
    LET all == d.prompt.said \o said
        p   == [d.prompt EXCEPT !.left = @ - 1, !.said = all,
                                !.at = EmptyLine(d.prompt.at.mode)]
    IN  IF d.prompt.left > 1
          THEN c' = Changed([d EXCEPT !.prompt = p], "prompt") /\ run' = run
        ELSE IF all = <<>> THEN c' = PromptClear(d) /\ run' = run
        ELSE IF ToSet(all) \subseteq Known
          THEN c' = d /\ run' = [Idle EXCEPT !.from = "command", !.list = all]
        ELSE c' = MessageSet(d) /\ run' = run

\* cmd_confirm_before_callback.
ConfirmAnswer(d, said) ==
    IF said = Answer
      THEN c' = d /\ run' = [Idle EXCEPT !.from = "confirm", !.list = Confirmed]
    ELSE c' = PromptClear(d) /\ run' = run

Answered(d, said) ==
    IF d.fn = "command" THEN CommandAnswer(d, said) ELSE ConfirmAnswer(d, said)

\* Bound: the line has room for a word more, or for the paste buffer.
Room(op, l, word) ==
    /\ op = "paste" => Len(l.buf) + Len(Buffer) <= MaxLine
    /\ op = "type"  => Len(l.buf) < MaxLine

\* status_prompt_key.
PromptKey(d) ==
    \E op \in Lookup(d.vi, d.prompt.at.mode), word \in Words :
        LET l == Switched(d.prompt.at, op)
            m == IF op = "type" THEN Inserted(l, <<word>>) ELSE Edit(op, l, history)
            e == [d EXCEPT !.prompt.at = [m EXCEPT !.dirty = FALSE]]
            f == IF m.dirty THEN Changed(e, "prompt") ELSE e
        IN  /\ op # "type" => word = CHOOSE w \in Words : TRUE
            /\ Room(op, l, word)
            /\ history' = IF op = "enter" /\ l.buf # <<>> THEN AddHistory(history, l.buf)
                          ELSE history
            /\ CASE op = "enter"  -> Answered(f, l.buf)
                 [] op = "cancel" -> c' = PromptClear(f) /\ run' = run
                 [] op = "type" /\ f.fn = "confirm" -> Answered(f, m.buf)
                 [] OTHER -> c' = f /\ run' = run

-----------------------------------------------------------------------------
(* Keys *)

Flags(d, on, off) == [d EXCEPT !.flags = (@ \ off) \cup on]

Done(d) == c' = d /\ run' = run

PrefixPressed(d) == [Flags(d, {"PREFIX"}, {}) EXCEPT !.by = "key"]
PrefixUsed(d)    == [Flags(d, {}, {"PREFIX"}) EXCEPT !.by = "nobody"]
RepeatEnded(d)   == [Flags(d, {}, {"REPEAT"}) EXCEPT !.rtimer = Lapsed(@)]
Repeating(d)     ==
    [Flags(d, {"PREFIX", "REPEAT"}, {}) EXCEPT !.by = "repeat", !.rtimer = "own"]

\* key_bindings_dispatch.
Dispatch(d, b) ==
    LET list == bindings[b].list
    IN  IF d.readonly /\ ~(ToSet(list) \subseteq ReadOnlyWords)
          THEN c' = MessageSet(d) /\ run' = run
        ELSE c' = d /\ run' = [from |-> "key", list |-> list, key |-> b, held |-> "table"]

\* A key that is not bound goes to the active pane (window_pane_key), which may
\* draw later.
PlainKey(d, key) ==
    IF key \in Prefix THEN Done(PrefixPressed(d))
    ELSE IF <<key, FALSE>> \in DOMAIN bindings THEN Dispatch(d, <<key, FALSE>>)
    ELSE Done(d)

\* After the prefix such a key is ignored, but while keys repeat it ends the
\* repeat and goes to the pane or is the prefix again.
PrefixedKey(d, key) ==
    LET b == <<key, TRUE>>
        e == PrefixUsed(d)
        ended  == IF key \in Prefix THEN PrefixPressed(RepeatEnded(e)) ELSE RepeatEnded(e)
        repeat == "REPEAT" \in d.flags
    IN  IF b \notin DOMAIN bindings THEN Done(IF repeat THEN ended ELSE e)
        ELSE IF repeat /\ ~bindings[b].repeat THEN Done(ended)
        ELSE Dispatch(IF bindings[b].repeat /\ RepeatTime # 0 THEN Repeating(e) ELSE e, b)

\* Everything in the window is to be drawn: server_redraw_window, or
\* server_redraw_session if the session shows another window.
RedrawWindow(d) ==
    /\ c' = Shows(d, "REDRAW")
    /\ term' = [term EXCEPT !.old = Pane, !.borders = "stale"]
    /\ window' \in {window, window \cup {"WINDOW"}}

\* Another pane is active and its border has another colour.
RedrawBorders(d, flag) ==
    /\ c' = Shows(d, flag)
    /\ term' = [term EXCEPT !.borders = "stale"]
    /\ window' = window

\* server_client_handle_key.
HandleKey(key) ==
    /\ IsIdle
    /\ IF "IDENTIFY" \in c.flags /\ key \in Digit
         THEN /\ IF c.readonly THEN UNCHANGED <<c, term, window>>
                 ELSE RedrawBorders(ClearIdentify(c), "REDRAW")
              /\ UNCHANGED <<history, run>>
       ELSE LET d == IF c.readonly THEN c ELSE ClearIdentify(MessageClear(c))
            IN  /\ IF d.prompt # NoPrompt
                     THEN IF d.readonly THEN Done(d) /\ history' = history ELSE PromptKey(d)
                   ELSE /\ history' = history
                        /\ IF "PREFIX" \in d.flags THEN PrefixedKey(d, key)
                           ELSE PlainKey(d, key)
                /\ UNCHANGED <<term, window>>
    /\ UNCHANGED bindings

\* The mouse may choose a pane or a window or move a border; a prompt takes no
\* notice of it.
HandleMouse ==
    /\ IsIdle
    /\ LET d == IF c.readonly THEN c ELSE ClearIdentify(MessageClear(c))
       IN  \/ c' = d /\ UNCHANGED <<term, window>>
           \/ d.prompt = NoPrompt /\ ~d.readonly /\ RedrawBorders(d, "BORDERS")
           \/ d.prompt = NoPrompt /\ ~d.readonly /\ RedrawWindow(d)
    /\ UNCHANGED <<history, bindings, run>>

-----------------------------------------------------------------------------
(* Commands *)

NoBindings == [b \in {} |-> {}]
NewBinding == [repeat |-> FALSE, list |-> <<"message">>]

\* A binding that is removed while its commands run is kept in
\* dead_key_bindings; unbind-key -a frees it.
Held(to) == IF run.from = "key" /\ run.held = "table" THEN to ELSE run.held

\* An error: a binding is freed when it is removed.
Removed_Frees == IF run.key = Rebound /\ Rebound \in DOMAIN bindings THEN Held("freed") ELSE run.held

\* key_bindings_remove and key_bindings_add: what happens to the list that runs.
Removed == IF run.key = Rebound /\ Rebound \in DOMAIN bindings THEN Held("dead") ELSE run.held

Binds(word) ==
    bindings' =
        CASE word = "bind" -> [b \in DOMAIN bindings \cup {Rebound} |->
                                  IF b = Rebound THEN NewBinding ELSE bindings[b]]
          [] word = "unbind" -> [b \in DOMAIN bindings \ {Rebound} |-> bindings[b]]
          [] word = "unbindall" -> NoBindings
          [] OTHER -> bindings

\* What a command does to the client it is about.
Effect(word, d) ==
    CASE word \in {"message", "error"} -> MessageSet(d)
      [] word = "prompt"  -> CommandPrompt(d, 1)
      [] word = "prompts" -> CommandPrompt(d, 2)
      [] word = "confirm" -> PromptSet(d, "confirm", 1)
      [] word = "panes"   -> SetIdentify(d)
      [] OTHER -> d

Does(word, d) ==
    IF word = "window" THEN RedrawWindow(d)
    ELSE c' = Effect(word, d) /\ UNCHANGED <<term, window>>

\* cmd_list_exec: the next command.
Exec ==
    /\ run.list # <<>> /\ run.held # "freed"
    /\ LET word == Head(run.list) IN
          /\ Does(word, c)
          /\ Binds(word)
          /\ run' = [run EXCEPT
                       !.list = IF word = "error" THEN <<>> ELSE Tail(@),
                       !.held = CASE word \in {"bind", "unbind"} -> Removed
                                  [] word = "unbindall" -> Held("freed")
                                  [] OTHER -> @]
    /\ UNCHANGED history

\* An error: the prompt is always closed.
Finish_Always ==
    /\ ~IsIdle /\ run.list = <<>>
    /\ c' = IF run.from = "key" THEN c ELSE PromptClear(c)
    /\ run' = Idle
    /\ UNCHANGED <<term, window, history, bindings>>

\* The callback that ran the list closes its prompt, but command-prompt leaves
\* alone a prompt that is not its own.
Finish ==
    /\ ~IsIdle /\ run.list = <<>>
    /\ c' = IF run.from = "confirm" \/ (run.from = "command" /\ c.fn = "command")
             THEN PromptClear(c) ELSE c
    /\ run' = Idle
    /\ UNCHANGED <<term, window, history, bindings>>

\* A command given to the client from a shell (-t), or an alert.
FromElsewhere(word) ==
    /\ IsIdle
    /\ Does(word, c)
    /\ Binds(word)
    /\ UNCHANGED <<history, run>>

\* A line typed at another client's prompt.
HistoryGrows ==
    /\ IsIdle
    /\ \E word \in Words : history' = AddHistory(history, <<word>>)
    /\ UNCHANGED <<c, term, window, bindings, run>>

-----------------------------------------------------------------------------
(* Timers, panes and the drawing of the terminal *)

\* An error: the timer takes any prefix.
RepeatTimer_Any ==
    /\ IsIdle /\ c.rtimer # "off"
    /\ c' = [Flags(c, {}, {"PREFIX", "REPEAT"}) EXCEPT !.by = "nobody", !.rtimer = "off"]
    /\ UNCHANGED <<term, window, history, bindings, run>>

\* server_client_repeat_timer.
RepeatTimer ==
    /\ IsIdle /\ c.rtimer # "off"
    /\ LET d == [c EXCEPT !.rtimer = "off"]
       IN  c' = IF "REPEAT" \in c.flags
                THEN [Flags(d, {}, {"PREFIX", "REPEAT"}) EXCEPT !.by = "nobody"] ELSE d
    /\ UNCHANGED <<term, window, history, bindings, run>>

\* status_message_callback.
MessageTimer ==
    /\ IsIdle /\ c.mtimer # "off"
    /\ c' = MessageClear([c EXCEPT !.mtimer = "off"])
    /\ UNCHANGED <<term, window, history, bindings, run>>

\* server_callback_identify.
IdentifyTimer ==
    /\ IsIdle /\ c.itimer # "off"
    /\ c' = ClearIdentify([c EXCEPT !.itimer = "off"])
    /\ UNCHANGED <<term, window, history, bindings, run>>

\* The status line has another content: a window has changed its name, a job has
\* ended, or status-interval is over (server_client_status_timer).
StatusChanges ==
    /\ IsIdle
    /\ c' = Changed(c, "status")
    /\ UNCHANGED <<term, window, history, bindings, run>>

\* A digit typed at another client that shows pane numbers: another pane of the
\* window is active, and only that client is drawn again.
AnotherSelects ==
    /\ IsIdle
    /\ term' = [term EXCEPT !.borders = IF @ = "current" THEN "missed" ELSE @]
    /\ UNCHANGED <<c, window, history, bindings, run>>

\* A pane has new content (tty_write), which is written or skipped, or leaves the
\* pane to be drawn again (tty_redraw_region, window_pane_set_mode).
PaneChanges(p) ==
    /\ IsIdle
    /\ \/ /\ window' = window \cup {p}
          /\ term' = [term EXCEPT !.old = @ \cup {p}]
          /\ c' = c
       \/ /\ window' = window
          /\ IF {p, "WINDOW"} \cap window # {} \/ "FREEZE" \in c.tty
               THEN term' = [term EXCEPT !.old = @ \cup {p}] /\ c' = c
             ELSE /\ term' = term
                  /\ c' \in {c} \cup (IF c.status \/ p \notin Bottom THEN {}
                                      ELSE {[c EXCEPT !.last = "pane"]})
    /\ UNCHANGED <<history, bindings, run>>

Kind(d) == IF d.message THEN "message" ELSE IF d.prompt # NoPrompt THEN "prompt" ELSE "status"

\* Does the last line belong to the status line, a message or a prompt?
HasLine == c.status \/ Kind(c) # "status"

\* status_redraw: is the line made anew?  It is drawn only if it has changed.
Fresh == HasLine /\ c.flags \cap {"REDRAW", "STATUS"} # {}
Line  == IF Fresh THEN Kind(c) ELSE c.line

\* What screen_redraw_screen and screen_redraw_pane draw.
Full       == "REDRAW" \in c.flags
StatusOnly == "STATUS" \in c.flags /\ ~Full /\ ~(Fresh /\ c.line = Line)
PanesDrawn == IF Full THEN Pane ELSE window \cap Pane

\* Where there is no line for it a pane takes the last line.
LastLine ==
    IF (Full \/ StatusOnly) /\ HasLine THEN Line
    ELSE IF Full \/ StatusOnly \/ (PanesDrawn \cap Bottom # {} /\ ~c.status) THEN "pane"
    ELSE c.last

DrawnScreen ==
    [old     |-> term.old \ PanesDrawn,
     borders |-> IF Full \/ "BORDERS" \in c.flags THEN "current" ELSE term.borders,
     numbers |-> IF Full /\ "IDENTIFY" \in c.flags THEN Pane ELSE term.numbers \ PanesDrawn]

\* server_client_loop: draw what has changed (server_client_check_redraw).
Loop ==
    /\ IsIdle
    /\ c' = [c EXCEPT !.flags = @ \ {"REDRAW", "STATUS", "BORDERS"},
                      !.line = Line, !.last = LastLine]
    /\ term' = DrawnScreen
    /\ window' = {}
    /\ UNCHANGED <<history, bindings, run>>

-----------------------------------------------------------------------------

Event ==
    \/ \E key \in Key : HandleKey(key)
    \/ HandleMouse
    \/ \E word \in Others : FromElsewhere(word)
    \/ HistoryGrows
    \/ RepeatTimer \/ MessageTimer \/ IdentifyTimer
    \/ StatusChanges
    \/ AnotherSelects
    \/ \E p \in Pane : PaneChanges(p)

\* event_loop handles the events that are there, then server_client_loop draws.
Next ==
    \/ Event /\ events < MaxEvents /\ events' = events + 1
    \/ (Exec \/ Finish) /\ UNCHANGED events
    \/ Loop /\ events' = 0

Spec == Init /\ [][Next]_vars

-----------------------------------------------------------------------------
(* Properties *)

\* Nothing is left to be drawn.
Settled == c.flags \cap {"REDRAW", "STATUS", "BORDERS"} = {} /\ window = {}

\* The terminal is frozen only while something is shown that ends by itself or
\* by a key; and once the server has drawn what it means to, the terminal shows
\* what it should, but for the panes while it is frozen, and for the borders after
\* another client's choice of a pane by its number (AnotherSelects).  (A pane may
\* lie over a message or a prompt if there is no status line, see README.)
TerminalSound ==
    /\ "FREEZE" \in c.tty <=> "NOCURSOR" \in c.tty
    /\ "FREEZE" \in c.tty => c.message \/ c.prompt # NoPrompt \/ "IDENTIFY" \in c.flags
    /\ c.message => c.mtimer = "own"
    /\ "IDENTIFY" \in c.flags => c.itimer = "own"
    /\ Settled /\ IsIdle =>
          /\ term.old = {} \/ "FREEZE" \in c.tty
          /\ term.borders # "stale"
          /\ term.numbers # {} => "IDENTIFY" \in c.flags
          /\ \/ HasLine /\ c.last = Kind(c)
             \/ ~c.status /\ c.last = "pane"

\* A prompt has its data as long as it is there and no longer, and never together
\* with a message; its cursor is in its line, and the history is one.
PromptSound ==
    /\ c.data = IF c.prompt = NoPrompt THEN 0 ELSE 1
    /\ ~(c.message /\ c.prompt # NoPrompt)
    /\ c.prompt # NoPrompt => LineSound(c.prompt.at, history) /\ c.fn = c.prompt.kind
    /\ HistorySound(history)

\* The repeat timer never takes away a prefix key that was pressed, however late
\* it comes.
PrefixKept ==
    [][(c.rtimer # "off" /\ c'.rtimer = "off" /\ c.by = "key") => "PREFIX" \in c'.flags]_vars

\* confirm-before typed at a command prompt asks: the prompt it makes is not taken
\* for the one that was answered.
ConfirmAsks ==
    [][(run.from = "command" /\ IsIdle' /\ c.prompt # NoPrompt /\ c.prompt.kind = "confirm")
          => c'.prompt = c.prompt]_vars

\* The commands of a key are there until all of them have run, though they bind the
\* key anew or unbind it (dead_key_bindings).  No key has unbind-key -a in the
\* runs: that frees them, see README.
RunningLive == run.held # "freed"

=============================================================================
