----------------------------- MODULE PromptLine -----------------------------
(***************************************************************************)
(* The line typed at a prompt (status_prompt_key) and the history shared   *)
(* by all prompts.  A line is a sequence of words and one key types one    *)
(* word: the editing keys treat a word as the code treats a character.     *)
(***************************************************************************)
EXTENDS Naturals, Sequences, SequencesExt

CONSTANTS
    Words,          \* what may be typed
    Known,          \* the words that are names of commands
    Buffer,         \* the words in the top paste buffer
    PromptHistory,  \* PROMPT_HISTORY
    MaxLine         \* bound: words in a line

ASSUME PromptAssumption ==
    /\ Known \subseteq Words
    /\ Buffer \in Seq(Words)
    /\ PromptHistory \in Nat \ {0} /\ MaxLine \in Nat

LineType == [buf : Seq(Words), idx : Nat, hidx : Nat, mode : {0, 1}, dirty : BOOLEAN]

\* status_prompt_set and status_prompt_update: an empty line.  dirty tells that
\* the key has set CLIENT_STATUS.
EmptyLine(mode) == [buf |-> <<>>, idx |-> 0, hidx |-> 0, mode |-> mode, dirty |-> FALSE]

Dirty(l) == [l EXCEPT !.dirty = TRUE]
Go(l, i) == [Dirty(l) EXCEPT !.idx = i]
Have(l, b, i) == [Go(l, i) EXCEPT !.buf = b]

Edits ==
    {"left", "right", "start", "end", "complete", "backspace", "delete", "deleteline",
     "deleteend", "up", "down", "paste", "transpose", "enter", "cancel", "switch",
     "append", "type"}

\* The two tables of mode-key.c; the vi one has a command mode.
ViInsert  == {"cancel", "backspace", "deleteline", "complete", "switch", "enter",
              "delete", "type"}
ViCommand == Edits \ {"complete", "transpose", "type"}
Emacs     == Edits \ {"switch", "append"}

\* mode_key_lookup: what a key may mean.
Lookup(vi, mode) == IF ~vi THEN Emacs ELSE IF mode = 0 THEN ViInsert ELSE ViCommand

Switched(l, op) == IF op \in {"switch", "append"} THEN [l EXCEPT !.mode = 1 - @] ELSE l

-----------------------------------------------------------------------------
(* The history, the oldest line first.  An index of 0 is the line typed. *)

AddHistory(h, line) ==
    IF h # <<>> /\ Last(h) = line THEN h
    ELSE Append(IF Len(h) = PromptHistory THEN Tail(h) ELSE h, line)

Recall(h, i) == IF i = 0 THEN <<>> ELSE h[Len(h) - i + 1]

Up(l, h) ==
    IF l.hidx = Len(h) THEN l
    ELSE [Have(l, Recall(h, l.hidx + 1), Len(Recall(h, l.hidx + 1))) EXCEPT !.hidx = @ + 1]

Down(l, h) ==
    LET i == IF h = <<>> \/ l.hidx = 0 THEN l.hidx ELSE l.hidx - 1
        b == IF h = <<>> \/ l.hidx = 0 THEN <<>> ELSE Recall(h, i)
    IN  [Have(l, b, Len(b)) EXCEPT !.hidx = i]

-----------------------------------------------------------------------------
(* The editing keys *)

Inserted(l, ws) ==
    Have(l, SubSeq(l.buf, 1, l.idx) \o ws \o SubSeq(l.buf, l.idx + 1, Len(l.buf)),
         l.idx + Len(ws))

\* status_prompt_complete.
Completes(word) == word \in Known

\* The word before the cursor is completed, or the first one.
Complete(l) ==
    LET at == IF l.idx # 0 THEN l.idx ELSE 1
    IN  IF l.buf = <<>> \/ ~Completes(l.buf[at]) THEN l ELSE Go(l, at)

Transpose(l) ==
    LET at == IF l.idx < Len(l.buf) THEN l.idx + 1 ELSE l.idx
    IN  IF at < 2 THEN l
        ELSE Have(l, [l.buf EXCEPT ![at - 1] = l.buf[at], ![at] = l.buf[at - 1]], at)

Edit(op, l, h) ==
    LET size == Len(l.buf) IN
    CASE op = "left"  /\ l.idx > 0 -> Go(l, l.idx - 1)
      [] op \in {"right", "append"} /\ l.idx < size -> Go(l, l.idx + 1)
      [] op = "start" /\ l.idx # 0 -> Go(l, 0)
      [] op = "end"   /\ l.idx # size -> Go(l, size)
      [] op = "complete" -> Complete(l)
      [] op = "backspace" /\ l.idx # 0 -> Have(l, RemoveAt(l.buf, l.idx), l.idx - 1)
      [] op = "delete" /\ l.idx # size -> Have(l, RemoveAt(l.buf, l.idx + 1), l.idx)
      [] op = "deleteline" -> Have(l, <<>>, 0)
      [] op = "deleteend" /\ l.idx < size -> Have(l, SubSeq(l.buf, 1, l.idx), l.idx)
      [] op = "up"    -> Up(l, h)
      [] op = "down"  -> Down(l, h)
      [] op = "paste" -> Inserted(l, Buffer)
      [] op = "transpose" -> Transpose(l)
      [] OTHER -> l

\* The cursor is in the line or behind it, and the history index in the history.
LineSound(l, h) ==
    /\ l.idx \in 0..Len(l.buf)
    /\ l.hidx \in 0..Len(h)

HistorySound(h) ==
    /\ Len(h) <= PromptHistory
    /\ \A i \in 1..Len(h) - 1 : h[i] # h[i + 1]
    /\ <<>> \notin ToSet(h)

=============================================================================
