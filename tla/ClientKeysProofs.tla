-------------------------- MODULE ClientKeysProofs --------------------------
(***************************************************************************)
(* That a frozen terminal is thawed and drawn, that prompts, their lines   *)
(* and their history are sound, and what timers and callbacks leave alone, *)
(* for every table of keys, every history and every number of events       *)
(* between two turns of the loop.                                          *)
(***************************************************************************)
EXTENDS ClientKeys, SequenceTheorems, TLAPS

Timer == {"off", "own", "old"}
Flag  == {"REDRAW", "STATUS", "BORDERS", "IDENTIFY", "PREFIX", "REPEAT"}

ClientType ==
    [readonly : BOOLEAN, status : BOOLEAN, vi : BOOLEAN,
     flags    : SUBSET Flag,
     tty      : {{}, Frozen},
     by       : {"nobody", "key", "repeat"},
     message  : BOOLEAN,
     prompt   : PromptType \cup {NoPrompt},
     fn       : {"none", "command", "confirm"},
     data     : {0, 1},
     line     : {"blank", "old", "message", "prompt", "status"},
     last     : {"old", "message", "prompt", "status", "pane"},
     rtimer   : Timer, mtimer : Timer, itimer : Timer]

\* What is shown freezes the terminal, and ends.
Shown(d) ==
    /\ d.tty = Frozen => d.message \/ d.prompt # NoPrompt \/ "IDENTIFY" \in d.flags
    /\ d.message => d.mtimer = "own"
    /\ "IDENTIFY" \in d.flags => d.itimer = "own"
    /\ ~(d.message /\ d.prompt # NoPrompt)

\* A prompt has its data and its callback.
Asked(d) ==
    /\ d.data = IF d.prompt = NoPrompt THEN 0 ELSE 1
    /\ d.prompt # NoPrompt => d.fn = d.prompt.kind

\* A repeat is a prefix that the timer takes away; a prefix key ends it.
Keyed(d) ==
    /\ d.by = "key" => "PREFIX" \in d.flags /\ "REPEAT" \notin d.flags
    /\ "REPEAT" \in d.flags => "PREFIX" \in d.flags /\ RepeatTime # 0

\* The last line of the terminal is what it should be, or will be drawn; where
\* the line made for it is the right one, status_redraw draws nothing.
LastOK(d) ==
    \/ (d.status \/ Kind(d) # "status") /\ d.last = Kind(d)
    \/ ~d.status /\ d.last = "pane"

Painted(d) ==
    /\ d.line = "message" => d.message
    /\ d.line = "prompt" => d.prompt # NoPrompt
    /\ LastOK(d) \/ {"REDRAW", "STATUS"} \cap d.flags # {}
    /\ LastOK(d) \/ "REDRAW" \in d.flags \/ d.line # Kind(d)
                 \/ ~(d.status \/ Kind(d) # "status")

Sound(d) == d \in ClientType /\ Shown(d) /\ Asked(d) /\ Keyed(d) /\ Painted(d)

\* The history, and the line at the prompt.
HistoryOK(h) == h \in Seq(Seq(Words)) /\ HistorySound(h)
Placed(d, h) == d.prompt # NoPrompt => LineSound(d.prompt.at, h)

\* What is not as it should be on the terminal will be drawn, but for borders this
\* client was told nothing of.
Drawable(d, t, W) ==
    /\ t \in Terminal
    /\ W \subseteq Pane \cup {"WINDOW"}
    /\ t.old \subseteq W \/ d.tty = Frozen \/ "REDRAW" \in d.flags
    /\ t.borders = "stale" => {"REDRAW", "BORDERS"} \cap d.flags # {}
    /\ t.numbers # {} => {"IDENTIFY", "REDRAW"} \cap d.flags # {}
    /\ "WINDOW" \in W => "REDRAW" \in d.flags

IInv ==
    /\ Sound(c)
    /\ HistoryOK(history)
    /\ Placed(c, history)
    /\ Drawable(c, term, window)

\* No key has unbind-key -a among its commands.
Lasting == \A b \in DOMAIN Table : "unbindall" \notin ToSet(Table[b].list)

\* The commands of keys, in the table and in the list that runs.
KeptLists ==
    /\ \A b \in DOMAIN bindings : bindings[b].list \in Seq(Commands \ {"unbindall"})
    /\ run.from = "key" => run.list \in Seq(Commands \ {"unbindall"})
    /\ run.held # "freed"

(***************************************************************************)
(* The operations on a client.                                             *)
(***************************************************************************)
Fit(d, h) == Sound(d) /\ Placed(d, h)

\* What is to be drawn stays so, and a thaw has the screen drawn; the repeat timer
\* is not taken away.
Draws(d, e) ==
    /\ \A f \in {"REDRAW", "BORDERS"} : f \in d.flags => f \in e.flags
    /\ d.tty = Frozen => e.tty = Frozen \/ "REDRAW" \in e.flags
    /\ "IDENTIFY" \in d.flags => {"IDENTIFY", "REDRAW"} \cap e.flags # {}

Runs(d, e) == d.rtimer # "off" => e.rtimer # "off"
Goes(d, e) == Draws(d, e) /\ Runs(d, e)

\* One operation after another.
LEMMA GoesTwice ==
    ASSUME NEW d, NEW e, NEW f, Goes(d, e), Goes(e, f)
    PROVE  Goes(d, f)
BY DEF Goes, Draws, Runs

\* status_message_clear leaves no message, and what it found in order it leaves so.
LEMMA MessageClearFits ==
    ASSUME NEW d, NEW h, Fit(d, h)
    PROVE  /\ Fit(MessageClear(d), h) /\ Goes(d, MessageClear(d))
           /\ ~MessageClear(d).message
           /\ MessageClear(d).prompt = d.prompt
<1> DEFINE e == MessageClear(d)
<1> SUFFICES Fit(e, h) /\ Goes(d, e) /\ ~e.message /\ e.prompt = d.prompt
  OBVIOUS
<1>1. d \in ClientType
  BY DEF Fit, Sound
<1>2. CASE ~d.message
  <2>1. e = d
    BY <1>2 DEF MessageClear
  <2> HIDE DEF e
  <2> QED
    BY <1>2, <2>1 DEF Goes, Draws, Runs
<1>3. CASE d.message
  <2>1. /\ e.readonly = d.readonly /\ e.status = d.status /\ e.vi = d.vi
        /\ e.flags = d.flags \cup {"REDRAW"} /\ e.tty = d.tty \ Frozen /\ e.by = d.by
        /\ e.message = FALSE /\ e.prompt = d.prompt /\ e.fn = d.fn
        /\ e.data = d.data /\ e.line = "blank" /\ e.last = d.last
        /\ e.rtimer = d.rtimer /\ e.mtimer = Lapsed(d.mtimer) /\ e.itimer = d.itimer
    BY <1>1, <1>3 DEF MessageClear, Thaw, Shows, ClientType
  <2>2. e \in ClientType
    <3>1. d.tty \ Frozen = {}
      BY <1>1 DEF ClientType
    <3>2. d.flags \cup {"REDRAW"} \in SUBSET Flag
      BY <1>1 DEF ClientType, Flag
    <3>3. Lapsed(d.mtimer) \in Timer
      BY <1>1 DEF ClientType, Lapsed, Timer
    <3> QED
      BY <1>1, <1>3, <3>1, <3>2, <3>3 DEF MessageClear, Thaw, Shows, ClientType
  <2> HIDE DEF e
  <2>3. Shown(e) /\ Asked(e) /\ Keyed(e)
    BY <1>1, <2>1, <1>3, NoneAssumption DEF Fit, Sound, ClientType, Shown, Asked, Keyed, Frozen
  <2>4. Painted(e)
    BY <1>1, <2>1, <1>3, NoneAssumption DEF Fit, Sound, Shown, Painted, LastOK, Kind, Age
  <2>5. Goes(d, e)
    BY <1>1, <2>1 DEF Goes, Draws, Runs
  <2>6. Placed(e, h)
    BY <1>1, <2>1 DEF Placed, Fit
  <2> QED
    BY <2>1, <2>2, <2>3, <2>4, <2>5, <2>6 DEF Fit, Sound
<1> QED
  BY <1>2, <1>3

\* status_prompt_clear leaves no prompt.
LEMMA PromptClearFits ==
    ASSUME NEW d, NEW h, Fit(d, h)
    PROVE  /\ Fit(PromptClear(d), h) /\ Goes(d, PromptClear(d))
           /\ PromptClear(d).prompt = NoPrompt
           /\ PromptClear(d).message = d.message
<1> DEFINE e == PromptClear(d)
<1> SUFFICES Fit(e, h) /\ Goes(d, e) /\ e.prompt = NoPrompt /\ e.message = d.message
  OBVIOUS
<1>1. d \in ClientType
  BY DEF Fit, Sound
<1>2. CASE ~(d.prompt # NoPrompt)
  <2>1. e = d
    BY <1>2 DEF PromptClear
  <2> HIDE DEF e
  <2> QED
    BY <1>2, <2>1 DEF Goes, Draws, Runs
<1>3. CASE (d.prompt # NoPrompt)
  <2>1. /\ e.readonly = d.readonly /\ e.status = d.status /\ e.vi = d.vi
        /\ e.flags = d.flags \cup {"REDRAW"} /\ e.tty = d.tty \ Frozen /\ e.by = d.by
        /\ e.message = d.message /\ e.prompt = NoPrompt /\ e.fn = d.fn
        /\ e.data = d.data - 1 /\ e.line = "blank" /\ e.last = d.last
        /\ e.rtimer = d.rtimer /\ e.mtimer = d.mtimer /\ e.itimer = d.itimer
    BY <1>1, <1>3 DEF PromptClear, Thaw, Shows, ClientType
  <2>2. e \in ClientType
    <3>1. d.tty \ Frozen = {}
      BY <1>1 DEF ClientType
    <3>2. d.flags \cup {"REDRAW"} \in SUBSET Flag
      BY <1>1 DEF ClientType, Flag
    <3>3. d.data - 1 \in {0, 1}
      BY <1>1, <1>3 DEF ClientType, Fit, Sound, Asked
    <3> QED
      BY <1>1, <1>3, <3>1, <3>2, <3>3 DEF PromptClear, Thaw, Shows, ClientType
  <2> HIDE DEF e
  <2>3. Shown(e) /\ Asked(e) /\ Keyed(e)
    BY <1>1, <2>1, <1>3, NoneAssumption DEF Fit, Sound, ClientType, Shown, Asked, Keyed, Frozen
  <2>4. Painted(e)
    BY <1>1, <2>1, <1>3, NoneAssumption DEF Fit, Sound, Shown, Painted, LastOK, Kind, Age
  <2>5. Goes(d, e)
    BY <1>1, <2>1 DEF Goes, Draws, Runs
  <2>6. Placed(e, h)
    BY <1>1, <2>1 DEF Placed, Fit
  <2> QED
    BY <2>1, <2>2, <2>3, <2>4, <2>5, <2>6 DEF Fit, Sound
<1> QED
  BY <1>2, <1>3

\* server_clear_identify leaves no pane numbers.
LEMMA ClearIdentifyFits ==
    ASSUME NEW d, NEW h, Fit(d, h)
    PROVE  /\ Fit(ClearIdentify(d), h) /\ Goes(d, ClearIdentify(d))
           /\ ClearIdentify(d).prompt = d.prompt
           /\ ClearIdentify(d).message = d.message
           /\ "IDENTIFY" \notin ClearIdentify(d).flags
<1> DEFINE e == ClearIdentify(d)
<1> SUFFICES /\ Fit(e, h) /\ Goes(d, e)
             /\ e.prompt = d.prompt /\ e.message = d.message /\ "IDENTIFY" \notin e.flags
  OBVIOUS
<1>1. d \in ClientType
  BY DEF Fit, Sound
<1>2. CASE ~("IDENTIFY" \in d.flags)
  <2>1. e = d
    BY <1>2 DEF ClearIdentify
  <2> HIDE DEF e
  <2> QED
    BY <1>2, <2>1 DEF Goes, Draws, Runs
<1>3. CASE ("IDENTIFY" \in d.flags)
  <2>1. /\ e.readonly = d.readonly /\ e.status = d.status /\ e.vi = d.vi
        /\ e.flags = (d.flags \cup {"REDRAW"}) \ {"IDENTIFY"}
        /\ e.tty = d.tty \ Frozen /\ e.by = d.by
        /\ e.message = d.message /\ e.prompt = d.prompt /\ e.fn = d.fn
        /\ e.data = d.data /\ e.line = d.line /\ e.last = d.last
        /\ e.rtimer = d.rtimer /\ e.mtimer = d.mtimer /\ e.itimer = Lapsed(d.itimer)
    BY <1>1, <1>3 DEF ClearIdentify, Thaw, Shows, ClientType
  <2>2. e \in ClientType
    <3>1. d.tty \ Frozen = {}
      BY <1>1 DEF ClientType
    <3>2. (d.flags \cup {"REDRAW"}) \ {"IDENTIFY"} \in SUBSET Flag
      BY <1>1 DEF ClientType, Flag
    <3>3. Lapsed(d.itimer) \in Timer
      BY <1>1 DEF ClientType, Lapsed, Timer
    <3> QED
      BY <1>1, <1>3, <3>1, <3>2, <3>3 DEF ClearIdentify, Thaw, Shows, ClientType
  <2> HIDE DEF e
  <2>3. Shown(e) /\ Asked(e) /\ Keyed(e)
    BY <1>1, <2>1, <1>3, NoneAssumption DEF Fit, Sound, ClientType, Shown, Asked, Keyed, Frozen
  <2>4. Painted(e)
    BY <1>1, <2>1, <1>3, NoneAssumption DEF Fit, Sound, Shown, Painted, LastOK, Kind, Age
  <2>5. Goes(d, e)
    BY <1>1, <2>1 DEF Goes, Draws, Runs
  <2>6. Placed(e, h)
    BY <1>1, <2>1 DEF Placed, Fit
  <2> QED
    BY <2>1, <2>2, <2>3, <2>4, <2>5, <2>6 DEF Fit, Sound
<1> QED
  BY <1>2, <1>3

\* server_set_identify freezes the terminal with its timer set.
LEMMA SetIdentifyFits ==
    ASSUME NEW d, NEW h, Fit(d, h)
    PROVE  /\ Fit(SetIdentify(d), h) /\ Goes(d, SetIdentify(d))
<1> DEFINE e == SetIdentify(d)
<1> SUFFICES Fit(e, h) /\ Goes(d, e)
  OBVIOUS
<1>1. d \in ClientType
  BY DEF Fit, Sound
<1>2. /\ e.readonly = d.readonly /\ e.status = d.status /\ e.vi = d.vi
      /\ e.flags = (d.flags \cup {"REDRAW"}) \cup {"IDENTIFY"}
      /\ e.tty = d.tty \cup Frozen /\ e.by = d.by
      /\ e.message = d.message /\ e.prompt = d.prompt /\ e.fn = d.fn
      /\ e.data = d.data /\ e.line = d.line /\ e.last = d.last
      /\ e.rtimer = d.rtimer /\ e.mtimer = d.mtimer /\ e.itimer = "own"
  BY <1>1 DEF SetIdentify, Freeze, Shows, ClientType
<1>3. e \in ClientType
  <2>1. d.tty \cup Frozen = Frozen
    BY <1>1 DEF ClientType
  <2>2. (d.flags \cup {"REDRAW"}) \cup {"IDENTIFY"} \in SUBSET Flag
    BY <1>1 DEF ClientType, Flag
  <2>3. "own" \in Timer
    BY <1>1 DEF ClientType, Timer
  <2> QED
    BY <1>1, <2>1, <2>2, <2>3 DEF SetIdentify, Freeze, Shows, ClientType
<1> HIDE DEF e
<1>4. Shown(e) /\ Asked(e) /\ Keyed(e)
  BY <1>1, <1>2, NoneAssumption DEF Fit, Sound, ClientType, Shown, Asked, Keyed, Frozen
<1>5. Painted(e)
  BY <1>1, <1>2, NoneAssumption DEF Fit, Sound, Shown, Painted, LastOK, Kind, Age
<1>6. Goes(d, e)
  BY <1>1, <1>2 DEF Goes, Draws, Runs
<1>7. Placed(e, h)
  BY <1>1, <1>2 DEF Placed, Fit
<1> QED
  BY <1>2, <1>3, <1>4, <1>5, <1>6, <1>7 DEF Fit, Sound

\* The line under what is redrawn may be made anew.
LEMMA ChangedFits ==
    ASSUME NEW d, NEW h, Fit(d, h), NEW what \in {"prompt", "status"}
    PROVE  /\ Fit(Changed(d, what), h) /\ Goes(d, Changed(d, what))
           /\ Changed(d, what).prompt = d.prompt
           /\ Changed(d, what).message = d.message
           /\ Changed(d, what).fn = d.fn
<1> DEFINE e == Changed(d, what)
<1> SUFFICES Fit(e, h) /\ Goes(d, e) /\ e.prompt = d.prompt /\ e.message = d.message /\ e.fn = d.fn
  OBVIOUS
<1>1. d \in ClientType
  BY DEF Fit, Sound
<1>2. /\ e.readonly = d.readonly /\ e.status = d.status /\ e.vi = d.vi
      /\ e.flags = d.flags \cup {"STATUS"} /\ e.tty = d.tty /\ e.by = d.by
      /\ e.message = d.message /\ e.prompt = d.prompt /\ e.fn = d.fn
      /\ e.data = d.data /\ e.line = Age(d.line, what) /\ e.last = Age(d.last, what)
      /\ e.rtimer = d.rtimer /\ e.mtimer = d.mtimer /\ e.itimer = d.itimer
  BY <1>1 DEF Changed, Shows, ClientType
<1>3. e \in ClientType
  <2>1. d.flags \cup {"STATUS"} \in SUBSET Flag
    BY <1>1 DEF ClientType, Flag
  <2>2. Age(d.line, what) \in {"blank", "old", "message", "prompt", "status"}
    BY <1>1 DEF ClientType, Age
  <2>3. Age(d.last, what) \in {"old", "message", "prompt", "status", "pane"}
    BY <1>1 DEF ClientType, Age
  <2> QED
    BY <1>1, <2>1, <2>2, <2>3 DEF Changed, Shows, ClientType
<1> HIDE DEF e
<1>4. Shown(e) /\ Asked(e) /\ Keyed(e)
  BY <1>1, <1>2, NoneAssumption DEF Fit, Sound, ClientType, Shown, Asked, Keyed, Frozen
<1>5. Painted(e)
  BY <1>1, <1>2, NoneAssumption DEF Fit, Sound, Shown, Painted, LastOK, Kind, Age
<1>6. Goes(d, e)
  BY <1>1, <1>2 DEF Goes, Draws, Runs
<1>7. Placed(e, h)
  BY <1>1, <1>2 DEF Placed, Fit
<1> QED
  BY <1>2, <1>3, <1>4, <1>5, <1>6, <1>7 DEF Fit, Sound

\* A message or a prompt where nothing is shown.
Says(d) == [Shows(Freeze(d), "STATUS") EXCEPT !.message = TRUE, !.mtimer = "own"]
Asks(d, p) ==
    [Shows(Freeze(d), "STATUS") EXCEPT !.prompt = p, !.fn = p.kind, !.data = @ + 1]

\* A message is set where there is no message and no prompt.
LEMMA SaysFits ==
    ASSUME NEW d, NEW h, Fit(d, h), ~d.message, d.prompt = NoPrompt
    PROVE  /\ Fit(Says(d), h) /\ Goes(d, Says(d))
<1> DEFINE e == Says(d)
<1> SUFFICES Fit(e, h) /\ Goes(d, e)
  OBVIOUS
<1>1. d \in ClientType
  BY DEF Fit, Sound
<1>2. /\ e.readonly = d.readonly /\ e.status = d.status /\ e.vi = d.vi
      /\ e.flags = d.flags \cup {"STATUS"} /\ e.tty = d.tty \cup Frozen /\ e.by = d.by
      /\ e.message = TRUE /\ e.prompt = d.prompt /\ e.fn = d.fn
      /\ e.data = d.data /\ e.line = d.line /\ e.last = d.last
      /\ e.rtimer = d.rtimer /\ e.mtimer = "own" /\ e.itimer = d.itimer
  BY <1>1 DEF Says, Freeze, Shows, ClientType
<1>3. e \in ClientType
  <2>1. d.tty \cup Frozen = Frozen
    BY <1>1 DEF ClientType
  <2>2. d.flags \cup {"STATUS"} \in SUBSET Flag
    BY <1>1 DEF ClientType, Flag
  <2>3. "own" \in Timer
    BY <1>1 DEF ClientType, Timer
  <2> QED
    BY <1>1, <2>1, <2>2, <2>3 DEF Says, Freeze, Shows, ClientType
<1> HIDE DEF e
<1>4. Shown(e) /\ Asked(e) /\ Keyed(e)
  BY <1>1, <1>2, NoneAssumption DEF Fit, Sound, ClientType, Shown, Asked, Keyed, Frozen
<1>5. Painted(e)
  BY <1>1, <1>2, NoneAssumption DEF Fit, Sound, Shown, Painted, LastOK, Kind, Age
<1>6. Goes(d, e)
  BY <1>1, <1>2 DEF Goes, Draws, Runs
<1>7. Placed(e, h)
  BY <1>1, <1>2 DEF Placed, Fit
<1> QED
  BY <1>2, <1>3, <1>4, <1>5, <1>6, <1>7 DEF Fit, Sound

\* A prompt is set where there is no message and no prompt.
LEMMA AsksFits ==
    ASSUME NEW d, NEW h, Fit(d, h), ~d.message, d.prompt = NoPrompt,
           NEW p \in PromptType, LineSound(p.at, h)
    PROVE  /\ Fit(Asks(d, p), h) /\ Goes(d, Asks(d, p))
<1> DEFINE e == Asks(d, p)
<1> SUFFICES Fit(e, h) /\ Goes(d, e)
  OBVIOUS
<1>1. d \in ClientType
  BY DEF Fit, Sound
<1>2. /\ e.readonly = d.readonly /\ e.status = d.status /\ e.vi = d.vi
      /\ e.flags = d.flags \cup {"STATUS"} /\ e.tty = d.tty \cup Frozen /\ e.by = d.by
      /\ e.message = d.message /\ e.prompt = p /\ e.fn = p.kind
      /\ e.data = d.data + 1 /\ e.line = d.line /\ e.last = d.last
      /\ e.rtimer = d.rtimer /\ e.mtimer = d.mtimer /\ e.itimer = d.itimer
  BY <1>1 DEF Asks, Freeze, Shows, ClientType
<1>3. e \in ClientType
  <2>1. d.tty \cup Frozen = Frozen
    BY <1>1 DEF ClientType
  <2>2. d.flags \cup {"STATUS"} \in SUBSET Flag
    BY <1>1 DEF ClientType, Flag
  <2>3. d.data + 1 \in {0, 1}
    BY <1>1 DEF ClientType, Fit, Sound, Asked
  <2>4. p.kind \in {"none", "command", "confirm"}
    BY <1>1 DEF ClientType, PromptType
  <2> QED
    BY <1>1, <2>1, <2>2, <2>3, <2>4 DEF Asks, Freeze, Shows, ClientType
<1> HIDE DEF e
<1>4. Shown(e) /\ Asked(e) /\ Keyed(e)
  BY <1>1, <1>2, NoneAssumption DEF Fit, Sound, ClientType, Shown, Asked, Keyed, Frozen
<1>5. Painted(e)
  BY <1>1, <1>2, NoneAssumption DEF Fit, Sound, Shown, Painted, LastOK, Kind, Age
<1>6. Goes(d, e)
  BY <1>1, <1>2 DEF Goes, Draws, Runs
<1>7. Placed(e, h)
  BY <1>1, <1>2 DEF Placed, Fit
<1> QED
  BY <1>2, <1>3, <1>4, <1>5, <1>6, <1>7 DEF Fit, Sound

\* Another line at the same prompt.
LEMMA RepromptFits ==
    ASSUME NEW d, NEW h, Fit(d, h), d.prompt # NoPrompt,
           NEW p \in PromptType, p.kind = d.prompt.kind, LineSound(p.at, h)
    PROVE  /\ Fit([d EXCEPT !.prompt = p], h) /\ Goes(d, [d EXCEPT !.prompt = p])
           /\ [d EXCEPT !.prompt = p].prompt = p
           /\ [d EXCEPT !.prompt = p].fn = d.fn
<1> DEFINE e == [d EXCEPT !.prompt = p]
<1> SUFFICES Fit(e, h) /\ Goes(d, e) /\ e.prompt = p /\ e.fn = d.fn
  OBVIOUS
<1>1. d \in ClientType
  BY DEF Fit, Sound
<1>2. /\ e.readonly = d.readonly /\ e.status = d.status /\ e.vi = d.vi
      /\ e.flags = d.flags /\ e.tty = d.tty /\ e.by = d.by
      /\ e.message = d.message /\ e.prompt = p /\ e.fn = d.fn
      /\ e.data = d.data /\ e.line = d.line /\ e.last = d.last
      /\ e.rtimer = d.rtimer /\ e.mtimer = d.mtimer /\ e.itimer = d.itimer
  BY <1>1 DEF ClientType
<1>3. e \in ClientType
  <2>1. p \in PromptType \cup {NoPrompt}
    BY <1>1 DEF ClientType
  <2> QED
    BY <1>1, <2>1 DEF ClientType
<1> HIDE DEF e
<1>4. Shown(e) /\ Asked(e) /\ Keyed(e)
  BY <1>1, <1>2, NoneAssumption DEF Fit, Sound, ClientType, Shown, Asked, Keyed, Frozen
<1>5. Painted(e)
  BY <1>1, <1>2, NoneAssumption DEF Fit, Sound, Shown, Painted, LastOK, Kind, Age
<1>6. Goes(d, e)
  BY <1>1, <1>2 DEF Goes, Draws, Runs
<1>7. Placed(e, h)
  BY <1>1, <1>2 DEF Placed, Fit
<1> QED
  BY <1>2, <1>3, <1>4, <1>5, <1>6, <1>7 DEF Fit, Sound

\* One more redraw is flagged.
LEMMA ShowsFits ==
    ASSUME NEW d, NEW h, Fit(d, h), NEW f \in {"REDRAW", "STATUS", "BORDERS"}
    PROVE  /\ Fit(Shows(d, f), h) /\ Goes(d, Shows(d, f))
           /\ f \in Shows(d, f).flags
<1> DEFINE e == Shows(d, f)
<1> SUFFICES Fit(e, h) /\ Goes(d, e) /\ f \in e.flags
  OBVIOUS
<1>1. d \in ClientType
  BY DEF Fit, Sound
<1>2. /\ e.readonly = d.readonly /\ e.status = d.status /\ e.vi = d.vi
      /\ e.flags = d.flags \cup {f} /\ e.tty = d.tty /\ e.by = d.by
      /\ e.message = d.message /\ e.prompt = d.prompt /\ e.fn = d.fn
      /\ e.data = d.data /\ e.line = d.line /\ e.last = d.last
      /\ e.rtimer = d.rtimer /\ e.mtimer = d.mtimer /\ e.itimer = d.itimer
  BY <1>1 DEF Shows, ClientType
<1>3. e \in ClientType
  <2>1. d.flags \cup {f} \in SUBSET Flag
    BY <1>1 DEF ClientType, Flag
  <2> QED
    BY <1>1, <2>1 DEF Shows, ClientType
<1> HIDE DEF e
<1>4. Shown(e) /\ Asked(e) /\ Keyed(e)
  BY <1>1, <1>2, NoneAssumption DEF Fit, Sound, ClientType, Shown, Asked, Keyed, Frozen
<1>5. Painted(e)
  BY <1>1, <1>2, NoneAssumption DEF Fit, Sound, Shown, Painted, LastOK, Kind, Age
<1>6. Goes(d, e)
  BY <1>1, <1>2 DEF Goes, Draws, Runs
<1>7. Placed(e, h)
  BY <1>1, <1>2 DEF Placed, Fit
<1> QED
  BY <1>2, <1>3, <1>4, <1>5, <1>6, <1>7 DEF Fit, Sound

\* A pane draws over the last line where there is no status line.
LEMMA PaneLastFits ==
    ASSUME NEW d, NEW h, Fit(d, h), ~d.status
    PROVE  /\ Fit([d EXCEPT !.last = "pane"], h) /\ Goes(d, [d EXCEPT !.last = "pane"])
<1> DEFINE e == [d EXCEPT !.last = "pane"]
<1> SUFFICES Fit(e, h) /\ Goes(d, e)
  OBVIOUS
<1>1. d \in ClientType
  BY DEF Fit, Sound
<1>2. /\ e.readonly = d.readonly /\ e.status = d.status /\ e.vi = d.vi
      /\ e.flags = d.flags /\ e.tty = d.tty /\ e.by = d.by
      /\ e.message = d.message /\ e.prompt = d.prompt /\ e.fn = d.fn
      /\ e.data = d.data /\ e.line = d.line /\ e.last = "pane"
      /\ e.rtimer = d.rtimer /\ e.mtimer = d.mtimer /\ e.itimer = d.itimer
  BY <1>1 DEF ClientType
<1>3. e \in ClientType
  <2> QED
    BY <1>1 DEF ClientType
<1> HIDE DEF e
<1>4. Shown(e) /\ Asked(e) /\ Keyed(e)
  BY <1>1, <1>2, NoneAssumption DEF Fit, Sound, ClientType, Shown, Asked, Keyed, Frozen
<1>5. Painted(e)
  BY <1>1, <1>2, NoneAssumption DEF Fit, Sound, Shown, Painted, LastOK, Kind, Age
<1>6. Goes(d, e)
  BY <1>1, <1>2 DEF Goes, Draws, Runs
<1>7. Placed(e, h)
  BY <1>1, <1>2 DEF Placed, Fit
<1> QED
  BY <1>2, <1>3, <1>4, <1>5, <1>6, <1>7 DEF Fit, Sound

\* The message timer goes off.
LEMMA MessageOffFits ==
    ASSUME NEW d, NEW h, Fit(d, h), ~d.message
    PROVE  /\ Fit([d EXCEPT !.mtimer = "off"], h) /\ Goes(d, [d EXCEPT !.mtimer = "off"])
<1> DEFINE e == [d EXCEPT !.mtimer = "off"]
<1> SUFFICES Fit(e, h) /\ Goes(d, e)
  OBVIOUS
<1>1. d \in ClientType
  BY DEF Fit, Sound
<1>2. /\ e.readonly = d.readonly /\ e.status = d.status /\ e.vi = d.vi
      /\ e.flags = d.flags /\ e.tty = d.tty /\ e.by = d.by
      /\ e.message = d.message /\ e.prompt = d.prompt /\ e.fn = d.fn
      /\ e.data = d.data /\ e.line = d.line /\ e.last = d.last
      /\ e.rtimer = d.rtimer /\ e.mtimer = "off" /\ e.itimer = d.itimer
  BY <1>1 DEF ClientType
<1>3. e \in ClientType
  <2>1. "off" \in Timer
    BY <1>1 DEF ClientType, Timer
  <2> QED
    BY <1>1, <2>1 DEF ClientType
<1> HIDE DEF e
<1>4. Shown(e) /\ Asked(e) /\ Keyed(e)
  BY <1>1, <1>2, NoneAssumption DEF Fit, Sound, ClientType, Shown, Asked, Keyed, Frozen
<1>5. Painted(e)
  BY <1>1, <1>2, NoneAssumption DEF Fit, Sound, Shown, Painted, LastOK, Kind, Age
<1>6. Goes(d, e)
  BY <1>1, <1>2 DEF Goes, Draws, Runs
<1>7. Placed(e, h)
  BY <1>1, <1>2 DEF Placed, Fit
<1> QED
  BY <1>2, <1>3, <1>4, <1>5, <1>6, <1>7 DEF Fit, Sound

\* The timer of the pane numbers goes off.
LEMMA IdentifyOffFits ==
    ASSUME NEW d, NEW h, Fit(d, h), "IDENTIFY" \notin d.flags
    PROVE  /\ Fit([d EXCEPT !.itimer = "off"], h) /\ Goes(d, [d EXCEPT !.itimer = "off"])
<1> DEFINE e == [d EXCEPT !.itimer = "off"]
<1> SUFFICES Fit(e, h) /\ Goes(d, e)
  OBVIOUS
<1>1. d \in ClientType
  BY DEF Fit, Sound
<1>2. /\ e.readonly = d.readonly /\ e.status = d.status /\ e.vi = d.vi
      /\ e.flags = d.flags /\ e.tty = d.tty /\ e.by = d.by
      /\ e.message = d.message /\ e.prompt = d.prompt /\ e.fn = d.fn
      /\ e.data = d.data /\ e.line = d.line /\ e.last = d.last
      /\ e.rtimer = d.rtimer /\ e.mtimer = d.mtimer /\ e.itimer = "off"
  BY <1>1 DEF ClientType
<1>3. e \in ClientType
  <2>1. "off" \in Timer
    BY <1>1 DEF ClientType, Timer
  <2> QED
    BY <1>1, <2>1 DEF ClientType
<1> HIDE DEF e
<1>4. Shown(e) /\ Asked(e) /\ Keyed(e)
  BY <1>1, <1>2, NoneAssumption DEF Fit, Sound, ClientType, Shown, Asked, Keyed, Frozen
<1>5. Painted(e)
  BY <1>1, <1>2, NoneAssumption DEF Fit, Sound, Shown, Painted, LastOK, Kind, Age
<1>6. Goes(d, e)
  BY <1>1, <1>2 DEF Goes, Draws, Runs
<1>7. Placed(e, h)
  BY <1>1, <1>2 DEF Placed, Fit
<1> QED
  BY <1>2, <1>3, <1>4, <1>5, <1>6, <1>7 DEF Fit, Sound

\* The prefix, the repeat and its timer.
LEMMA TurnedFits ==
    ASSUME NEW d, NEW h, Fit(d, h),
           NEW F \in SUBSET Flag,
           \A f \in {"REDRAW", "STATUS", "BORDERS", "IDENTIFY"} : f \in F <=> f \in d.flags,
           NEW b \in {"nobody", "key", "repeat"}, NEW t \in Timer,
           b = "key" => "PREFIX" \in F /\ "REPEAT" \notin F,
           "REPEAT" \in F => "PREFIX" \in F /\ RepeatTime # 0
    PROVE  LET e == [d EXCEPT !.flags = F, !.by = b, !.rtimer = t] IN
           /\ Fit(e, h) /\ Draws(d, e)
           /\ (d.rtimer # "off" => t # "off") => Runs(d, e)
<1> DEFINE e == [d EXCEPT !.flags = F, !.by = b, !.rtimer = t]
<1> SUFFICES Fit(e, h) /\ Draws(d, e) /\ ((d.rtimer # "off" => t # "off") => Runs(d, e))
  OBVIOUS
<1>1. d \in ClientType
  BY DEF Fit, Sound
<1>2. /\ e.readonly = d.readonly /\ e.status = d.status /\ e.vi = d.vi
      /\ e.flags = F /\ e.tty = d.tty /\ e.by = b
      /\ e.message = d.message /\ e.prompt = d.prompt /\ e.fn = d.fn
      /\ e.data = d.data /\ e.line = d.line /\ e.last = d.last
      /\ e.rtimer = t /\ e.mtimer = d.mtimer /\ e.itimer = d.itimer
  BY <1>1 DEF ClientType
<1>3. e \in ClientType
  <2> QED
    BY <1>1 DEF ClientType
<1> HIDE DEF e
<1>4. Shown(e) /\ Asked(e) /\ Keyed(e)
  BY <1>1, <1>2, NoneAssumption DEF Fit, Sound, ClientType, Shown, Asked, Keyed, Frozen
<1>5. Painted(e)
  BY <1>1, <1>2, NoneAssumption DEF Fit, Sound, Shown, Painted, LastOK, Kind, Age
<1>6. Draws(d, e) /\ ((d.rtimer # "off" => t # "off") => Runs(d, e))
  BY <1>1, <1>2 DEF Draws, Runs
<1>7. Placed(e, h)
  BY <1>1, <1>2 DEF Placed, Fit
<1> QED
  BY <1>2, <1>3, <1>4, <1>5, <1>6, <1>7 DEF Fit, Sound

(***************************************************************************)
(* What the commands and the keys do to the client.                        *)
(***************************************************************************)
\* status_message_set, which clears the prompt and the message first.
LEMMA MessageSetFits ==
    ASSUME NEW d, NEW h, Fit(d, h)
    PROVE  Fit(MessageSet(d), h) /\ Goes(d, MessageSet(d))
<1> DEFINE b == PromptClear(d)
           m == MessageClear(b)
<1>1. Fit(b, h) /\ Goes(d, b) /\ b.prompt = NoPrompt
  BY PromptClearFits
<1> HIDE DEF b
<1>2. Fit(m, h) /\ Goes(b, m) /\ ~m.message /\ m.prompt = NoPrompt
  BY <1>1, MessageClearFits
<1>3. MessageSet(d) = Says(m)
  BY DEF MessageSet, Says, b
<1> HIDE DEF m
<1>4. Fit(Says(m), h) /\ Goes(m, Says(m))
  BY <1>2, SaysFits
<1> QED
  BY <1>1, <1>2, <1>3, <1>4, GoesTwice

\* status_prompt_set, which clears the message and the prompt first.
LEMMA PromptSetFits ==
    ASSUME NEW d, NEW h, Fit(d, h), HistoryOK(h),
           NEW kind \in {"command", "confirm"}, NEW left \in Nat \ {0}
    PROVE  Fit(PromptSet(d, kind, left), h) /\ Goes(d, PromptSet(d, kind, left))
<1> DEFINE b == MessageClear(d)
           m == PromptClear(b)
           p == [kind |-> kind, left |-> left, said |-> <<>>, at |-> EmptyLine(0)]
<1>1. Fit(b, h) /\ Goes(d, b) /\ ~b.message
  BY MessageClearFits
<1> HIDE DEF b
<1>2. Fit(m, h) /\ Goes(b, m) /\ m.message = b.message /\ m.prompt = NoPrompt
  BY <1>1, PromptClearFits
<1>3. PromptSet(d, kind, left) = Asks(m, p)
  BY DEF PromptSet, Asks, b
<1>4. p \in PromptType /\ LineSound(p.at, h)
  BY DEF PromptType, LineType, EmptyLine, LineSound, HistoryOK
<1> HIDE DEF m, p
<1>5. Fit(Asks(m, p), h) /\ Goes(m, Asks(m, p))
  BY <1>1, <1>2, <1>4, AsksFits
<1> QED
  BY <1>1, <1>2, <1>3, <1>5, GoesTwice

\* No operation.
LEMMA GoesNowhere == \A d : Goes(d, d)
BY DEF Goes, Draws, Runs

\* What a command does to the client that runs it.
LEMMA EffectFits ==
    ASSUME NEW d, NEW h, Fit(d, h), HistoryOK(h), NEW word
    PROVE  Fit(Effect(word, d), h) /\ Goes(d, Effect(word, d))
<1>1. Fit(MessageSet(d), h) /\ Goes(d, MessageSet(d))
  BY MessageSetFits
<1>2. ASSUME NEW left \in {1, 2}
      PROVE  Fit(CommandPrompt(d, left), h) /\ Goes(d, CommandPrompt(d, left))
  BY PromptSetFits, GoesNowhere DEF CommandPrompt
<1>3. Fit(PromptSet(d, "confirm", 1), h) /\ Goes(d, PromptSet(d, "confirm", 1))
  BY PromptSetFits
<1>4. Fit(SetIdentify(d), h) /\ Goes(d, SetIdentify(d))
  BY SetIdentifyFits
<1> QED
  BY <1>1, <1>2, <1>3, <1>4, GoesNowhere DEF Effect

\* The prefix key, the key after it, the end of a repeat and its timer.
LEMMA PrefixPressedFits ==
    ASSUME NEW d, NEW h, Fit(d, h), "REPEAT" \notin d.flags
    PROVE  Fit(PrefixPressed(d), h) /\ Goes(d, PrefixPressed(d))
<1> DEFINE F == d.flags \cup {"PREFIX"}
           e == [d EXCEPT !.flags = F, !.by = "key", !.rtimer = d.rtimer]
<1>1. d \in ClientType
  BY DEF Fit, Sound
<1>2. F \in SUBSET Flag /\ d.rtimer \in Timer
  BY <1>1 DEF ClientType, Flag
<1>3. PrefixPressed(d) = e
  BY <1>1 DEF PrefixPressed, Flags, ClientType
<1>4. /\ \A f \in {"REDRAW", "STATUS", "BORDERS", "IDENTIFY"} : f \in F <=> f \in d.flags
      /\ "PREFIX" \in F /\ "REPEAT" \notin F
  OBVIOUS
<1>5. Fit(e, h) /\ Goes(d, e)
  <2> HIDE DEF F
  <2> QED
    BY <1>2, <1>4, TurnedFits DEF Goes
<1> QED
  BY <1>3, <1>5

\* The key after the prefix key.
LEMMA PrefixUsedFits ==
    ASSUME NEW d, NEW h, Fit(d, h), "REPEAT" \notin d.flags
    PROVE  Fit(PrefixUsed(d), h) /\ Goes(d, PrefixUsed(d))
<1> DEFINE F == d.flags \ {"PREFIX"}
           e == [d EXCEPT !.flags = F, !.by = "nobody", !.rtimer = d.rtimer]
<1>1. d \in ClientType
  BY DEF Fit, Sound
<1>2. F \in SUBSET Flag /\ d.rtimer \in Timer
  BY <1>1 DEF ClientType, Flag
<1>3. PrefixUsed(d) = e
  BY <1>1 DEF PrefixUsed, Flags, ClientType
<1>4. /\ \A f \in {"REDRAW", "STATUS", "BORDERS", "IDENTIFY"} : f \in F <=> f \in d.flags
      /\ "REPEAT" \notin F
  OBVIOUS
<1>5. Fit(e, h) /\ Goes(d, e)
  <2> HIDE DEF F
  <2> QED
    BY <1>2, <1>4, TurnedFits DEF Goes
<1> QED
  BY <1>3, <1>5

\* A key that does not repeat ends the repeat.
LEMMA RepeatEndedFits ==
    ASSUME NEW d, NEW h, Fit(d, h)
    PROVE  LET e == RepeatEnded(PrefixUsed(d)) IN
           /\ Fit(e, h) /\ Goes(d, e) /\ "REPEAT" \notin e.flags
<1> DEFINE F == d.flags \ {"PREFIX", "REPEAT"}
           e == [d EXCEPT !.flags = F, !.by = "nobody", !.rtimer = Lapsed(d.rtimer)]
<1>1. d \in ClientType
  BY DEF Fit, Sound
<1>2. F \in SUBSET Flag /\ Lapsed(d.rtimer) \in Timer
  BY <1>1 DEF ClientType, Flag, Lapsed, Timer
<1>3. RepeatEnded(PrefixUsed(d)) = e
  <2>1. (((d.flags \ {"PREFIX"}) \cup {}) \ {"REPEAT"}) \cup {} = F
    OBVIOUS
  <2> QED
    BY <1>1, <2>1 DEF PrefixUsed, RepeatEnded, Flags, ClientType
<1>4. Fit(e, h) /\ Goes(d, e)
  BY <1>2, TurnedFits DEF Goes, Lapsed
<1>5. "REPEAT" \notin e.flags
  BY <1>1 DEF ClientType
<1> QED
  BY <1>3, <1>4, <1>5

\* A key that repeats starts the timer anew.
LEMMA RepeatingFits ==
    ASSUME NEW d, NEW h, Fit(d, h), RepeatTime # 0
    PROVE  Fit(Repeating(PrefixUsed(d)), h) /\ Goes(d, Repeating(PrefixUsed(d)))
<1> DEFINE F == d.flags \cup {"PREFIX", "REPEAT"}
           e == [d EXCEPT !.flags = F, !.by = "repeat", !.rtimer = "own"]
<1>1. d \in ClientType
  BY DEF Fit, Sound
<1>2. F \in SUBSET Flag
  BY <1>1 DEF ClientType, Flag
<1>3. Repeating(PrefixUsed(d)) = e
  <2>1. (((d.flags \ {"PREFIX"}) \cup {}) \ {}) \cup {"PREFIX", "REPEAT"} = F
    OBVIOUS
  <2> QED
    BY <1>1, <2>1 DEF PrefixUsed, Repeating, Flags, ClientType
<1>4. Fit(e, h) /\ Goes(d, e)
  BY <1>2, TurnedFits DEF Goes, Timer
<1> QED
  BY <1>3, <1>4

(***************************************************************************)
(* The line at a prompt, and the history.                                  *)
(***************************************************************************)
\* What LineSound says of a line, spelt out for the provers.
LEMMA LineFacts ==
    ASSUME NEW l \in LineType, NEW h, h \in Seq(Seq(Words)), LineSound(l, h)
    PROVE  /\ l.buf \in Seq(Words) /\ Len(l.buf) \in Nat /\ Len(h) \in Nat
           /\ l.idx \in Nat /\ l.idx <= Len(l.buf)
           /\ l.hidx \in Nat /\ l.hidx <= Len(h)
BY DEF LineType, LineSound

\* Another buffer with its cursor in it.
LEMMA HaveKeeps ==
    ASSUME NEW l \in LineType, NEW h, h \in Seq(Seq(Words)), LineSound(l, h),
           NEW b \in Seq(Words), NEW i \in 0..Len(b)
    PROVE  Have(l, b, i) \in LineType /\ LineSound(Have(l, b, i), h)
<1> DEFINE m == Have(l, b, i)
<1>1. i \in Nat
  OBVIOUS
<1>2. m \in LineType
  BY <1>1 DEF Have, Go, Dirty, LineType
<1>3. m.buf = b /\ m.idx = i /\ m.hidx = l.hidx
  BY DEF Have, Go, Dirty, LineType
<1> HIDE DEF m
<1>4. LineSound(m, h)
  BY <1>3 DEF LineSound
<1> QED
  BY <1>2, <1>4 DEF m

\* Another place for the cursor.
LEMMA GoKeeps ==
    ASSUME NEW l \in LineType, NEW h, h \in Seq(Seq(Words)), LineSound(l, h),
           NEW i \in 0..Len(l.buf)
    PROVE  Go(l, i) \in LineType /\ LineSound(Go(l, i), h)
<1> DEFINE m == Go(l, i)
<1>1. i \in Nat
  BY LineFacts
<1>2. m \in LineType
  BY <1>1 DEF Go, Dirty, LineType
<1>3. m.buf = l.buf /\ m.idx = i /\ m.hidx = l.hidx
  BY DEF Go, Dirty, LineType
<1> HIDE DEF m
<1>4. LineSound(m, h)
  BY <1>3 DEF LineSound
<1> QED
  BY <1>2, <1>4 DEF m

\* mode_key_lookup changes the mode alone.
LEMMA SwitchedKeeps ==
    ASSUME NEW l \in LineType, NEW h, LineSound(l, h), NEW op
    PROVE  /\ Switched(l, op) \in LineType /\ LineSound(Switched(l, op), h)
           /\ Switched(l, op).buf = l.buf
BY DEF Switched, LineType, LineSound

\* Words are inserted at the cursor, which goes past them.
LEMMA InsertedKeeps ==
    ASSUME NEW l \in LineType, NEW h, h \in Seq(Seq(Words)), LineSound(l, h),
           NEW ws \in Seq(Words)
    PROVE  Inserted(l, ws) \in LineType /\ LineSound(Inserted(l, ws), h)
<1> DEFINE a == SubSeq(l.buf, 1, l.idx)
           z == SubSeq(l.buf, l.idx + 1, Len(l.buf))
           b == a \o ws \o z
<1>1. l.buf \in Seq(Words) /\ l.idx \in 0..Len(l.buf)
  BY DEF LineType, LineSound
<1>2. a \in Seq(Words) /\ Len(a) = l.idx /\ z \in Seq(Words)
  BY <1>1
<1>3. b \in Seq(Words) /\ l.idx + Len(ws) \in 0..Len(b)
  <2> HIDE DEF a, z
  <2>1. a \o ws \in Seq(Words) /\ Len(a \o ws) = l.idx + Len(ws)
    BY <1>2, ConcatProperties
  <2>2. (a \o ws) \o z \in Seq(Words) /\ Len((a \o ws) \o z) = l.idx + Len(ws) + Len(z)
    BY <1>2, <2>1, ConcatProperties
  <2>3. a \o ws \o z = (a \o ws) \o z /\ Len(ws) \in Nat /\ Len(z) \in Nat /\ l.idx \in Nat
    BY <1>1, <1>2
  <2> QED
    BY <2>2, <2>3
<1> HIDE DEF b
<1>4. Inserted(l, ws) = Have(l, b, l.idx + Len(ws))
  BY DEF Inserted, b
<1> QED
  BY <1>3, <1>4, HaveKeeps

\* A word is removed, and the cursor is put in what is left.
LEMMA RemovedKeeps ==
    ASSUME NEW l \in LineType, NEW h, h \in Seq(Seq(Words)), LineSound(l, h),
           NEW k \in 1..Len(l.buf), NEW i \in 0..Len(l.buf) - 1
    PROVE  /\ Have(l, RemoveAt(l.buf, k), i) \in LineType
           /\ LineSound(Have(l, RemoveAt(l.buf, k), i), h)
<1> DEFINE a == SubSeq(l.buf, 1, k - 1)
           z == SubSeq(l.buf, k + 1, Len(l.buf))
<1>1. l.buf \in Seq(Words)
  BY DEF LineType
<1>2. a \in Seq(Words) /\ Len(a) = k - 1 /\ z \in Seq(Words) /\ Len(z) = Len(l.buf) - k
  BY <1>1
<1>3. RemoveAt(l.buf, k) = a \o z
  BY DEF RemoveAt
<1> HIDE DEF a, z
<1>4. a \o z \in Seq(Words) /\ Len(a \o z) = Len(l.buf) - 1
  BY <1>1, <1>2
<1> QED
  BY <1>3, <1>4, HaveKeeps

\* A line of the history, or the empty one.
LEMMA RecallSeq ==
    ASSUME NEW h \in Seq(Seq(Words)), NEW i \in 0..Len(h)
    PROVE  Recall(h, i) \in Seq(Words)
<1>1. CASE i = 0
  BY <1>1 DEF Recall
<1>2. CASE i # 0
  BY <1>2 DEF Recall
<1> QED
  BY <1>1, <1>2

\* status_prompt_up_history stays within the history.
LEMMA UpKeeps ==
    ASSUME NEW l \in LineType, NEW h, h \in Seq(Seq(Words)), LineSound(l, h)
    PROVE  Up(l, h) \in LineType /\ LineSound(Up(l, h), h)
<1>1. CASE l.hidx = Len(h)
  BY <1>1 DEF Up
<1>2. CASE l.hidx # Len(h)
  <2> DEFINE b == Recall(h, l.hidx + 1)
             m == Have(l, b, Len(b))
  <2>1. l.hidx \in 0..Len(h) /\ l.hidx + 1 \in 0..Len(h)
    BY <1>2 DEF LineSound
  <2>2. b \in Seq(Words)
    BY <2>1, RecallSeq
  <2>3. Up(l, h) = [m EXCEPT !.hidx = @ + 1]
    BY <1>2 DEF Up
  <2>4. m \in LineType /\ LineSound(m, h) /\ m.hidx = l.hidx
    <3> HIDE DEF b
    <3>1. m.hidx = l.hidx
      BY DEF Have, Go, Dirty, LineType
    <3> QED
      BY <2>2, <3>1, HaveKeeps
  <2> HIDE DEF m
  <2>5. [m EXCEPT !.hidx = @ + 1] \in LineType
    <3>1. m.hidx + 1 \in Nat
      BY <2>4, LineFacts
    <3> QED
      BY <2>4, <3>1 DEF LineType
  <2>6. LineSound([m EXCEPT !.hidx = @ + 1], h)
    BY <2>1, <2>4 DEF LineType, LineSound
  <2> QED
    BY <2>3, <2>5, <2>6
<1> QED
  BY <1>1, <1>2

\* status_prompt_down_history stays within the history.
LEMMA DownKeeps ==
    ASSUME NEW l \in LineType, NEW h, h \in Seq(Seq(Words)), LineSound(l, h)
    PROVE  Down(l, h) \in LineType /\ LineSound(Down(l, h), h)
<1> DEFINE i == IF h = <<>> \/ l.hidx = 0 THEN l.hidx ELSE l.hidx - 1
           b == IF h = <<>> \/ l.hidx = 0 THEN <<>> ELSE Recall(h, i)
           m == Have(l, b, Len(b))
<1>1. i \in 0..Len(h)
  BY DEF LineSound, LineType
<1> HIDE DEF i
<1>2. b \in Seq(Words)
  BY <1>1, RecallSeq
<1>3. Down(l, h) = [m EXCEPT !.hidx = i]
  BY DEF Down, i
<1> HIDE DEF b
<1>4. m \in LineType /\ LineSound(m, h)
  BY <1>2, HaveKeeps
<1> HIDE DEF m
<1>5. [m EXCEPT !.hidx = i] \in LineType
  <2>1. i \in Nat
    BY <1>1, LineFacts
  <2> QED
    BY <1>4, <2>1 DEF LineType
<1>6. LineSound([m EXCEPT !.hidx = i], h)
  BY <1>1, <1>4 DEF LineType, LineSound
<1> QED
  BY <1>3, <1>5, <1>6

\* Two words change places.
LEMMA TransposeKeeps ==
    ASSUME NEW l \in LineType, NEW h, h \in Seq(Seq(Words)), LineSound(l, h)
    PROVE  Transpose(l) \in LineType /\ LineSound(Transpose(l), h)
<1> DEFINE at == IF l.idx < Len(l.buf) THEN l.idx + 1 ELSE l.idx
           b  == [l.buf EXCEPT ![at - 1] = l.buf[at], ![at] = l.buf[at - 1]]
<1>1. l.buf \in Seq(Words) /\ l.idx \in 0..Len(l.buf)
  BY DEF LineType, LineSound
<1>2. CASE at < 2
  BY <1>2 DEF Transpose
<1>3. CASE ~(at < 2)
  <2>1. at \in 2..Len(l.buf)
    BY <1>1, <1>3
  <2>2. Transpose(l) = Have(l, b, at)
    BY <1>3 DEF Transpose
  <2> HIDE DEF at
  <2>3. b \in Seq(Words) /\ Len(b) = Len(l.buf)
    BY <1>1, <2>1
  <2> HIDE DEF b
  <2> QED
    BY <2>1, <2>2, <2>3, HaveKeeps
<1> QED
  BY <1>2, <1>3

\* The word at the cursor is completed.
LEMMA CompleteKeeps ==
    ASSUME NEW l \in LineType, NEW h, h \in Seq(Seq(Words)), LineSound(l, h)
    PROVE  Complete(l) \in LineType /\ LineSound(Complete(l), h)
<1> DEFINE at == IF l.idx # 0 THEN l.idx ELSE 1
<1>1. CASE l.buf = <<>> \/ ~Completes(l.buf[at])
  BY <1>1 DEF Complete
<1>2. CASE ~(l.buf = <<>> \/ ~Completes(l.buf[at]))
  <2>1. Complete(l) = Go(l, at)
    BY <1>2 DEF Complete
  <2>2. at \in 0..Len(l.buf)
    BY <1>2 DEF LineType, LineSound
  <2> QED
    BY <2>1, <2>2, GoKeeps
<1> QED
  BY <1>1, <1>2

\* status_prompt_key leaves the cursor in the line, and the history index in the
\* history, whatever the line.
LEMMA EditKeeps ==
    ASSUME NEW l \in LineType, NEW h, h \in Seq(Seq(Words)), LineSound(l, h), NEW op
    PROVE  Edit(op, l, h) \in LineType /\ LineSound(Edit(op, l, h), h)
<1> DEFINE Good(m) == m \in LineType /\ LineSound(m, h)
           size == Len(l.buf)
<1>1. l.buf \in Seq(Words) /\ size \in Nat /\ l.idx \in 0..size
  BY DEF LineType, LineSound
<1>2. /\ l.idx > 0 => Good(Go(l, l.idx - 1))
      /\ l.idx < size => Good(Go(l, l.idx + 1))
      /\ Good(Go(l, 0)) /\ Good(Go(l, size))
  BY <1>1, GoKeeps
<1>3. /\ l.idx # 0 => Good(Have(l, RemoveAt(l.buf, l.idx), l.idx - 1))
      /\ l.idx # size => Good(Have(l, RemoveAt(l.buf, l.idx + 1), l.idx))
  <2>1. ASSUME l.idx # 0 PROVE Good(Have(l, RemoveAt(l.buf, l.idx), l.idx - 1))
    <3>1. l.idx \in 1..Len(l.buf) /\ l.idx - 1 \in 0..Len(l.buf) - 1
      BY <1>1, <2>1
    <3> QED
      BY <3>1, RemovedKeeps
  <2>2. ASSUME l.idx # size PROVE Good(Have(l, RemoveAt(l.buf, l.idx + 1), l.idx))
    <3>1. l.idx + 1 \in 1..Len(l.buf) /\ l.idx \in 0..Len(l.buf) - 1
      BY <1>1, <2>2
    <3> QED
      BY <3>1, RemovedKeeps
  <2> QED
    BY <2>1, <2>2
<1>4. Good(Have(l, <<>>, 0)) /\ Good(Have(l, SubSeq(l.buf, 1, l.idx), l.idx))
  <2>1. SubSeq(l.buf, 1, l.idx) \in Seq(Words) /\ Len(SubSeq(l.buf, 1, l.idx)) = l.idx
    BY <1>1
  <2>2. <<>> \in Seq(Words) /\ 0 \in 0..Len(<<>>)
    OBVIOUS
  <2>3. Good(Have(l, <<>>, 0))
    BY <2>2, HaveKeeps
  <2>4. l.idx \in 0..Len(SubSeq(l.buf, 1, l.idx))
    BY <1>1, <2>1
  <2>5. Good(Have(l, SubSeq(l.buf, 1, l.idx), l.idx))
    BY <2>1, <2>4, HaveKeeps
  <2> QED
    BY <2>3, <2>5
<1>5. /\ Good(Complete(l)) /\ Good(Up(l, h)) /\ Good(Down(l, h))
      /\ Good(Inserted(l, Buffer)) /\ Good(Transpose(l)) /\ Good(l)
  BY CompleteKeeps, UpKeeps, DownKeeps, InsertedKeeps, TransposeKeeps, PromptAssumption
<1> HIDE DEF Good
<1>6. Good(Edit(op, l, h))
  BY <1>2, <1>3, <1>4, <1>5 DEF Edit
<1> QED
  BY <1>6 DEF Good

\* A line is added once, and the oldest goes when the history is full.
LEMMA HistoryKeeps ==
    ASSUME NEW h, HistoryOK(h), NEW line \in Seq(Words), line # <<>>
    PROVE  HistoryOK(AddHistory(h, line)) /\ Len(h) <= Len(AddHistory(h, line))
<1>1. /\ h \in Seq(Seq(Words)) /\ Len(h) \in Nat /\ Len(h) <= PromptHistory
      /\ \A i \in 1..Len(h) - 1 : h[i] # h[i + 1]
      /\ \A i \in 1..Len(h) : h[i] # <<>> /\ h[i] \in Seq(Words)
      /\ PromptHistory \in Nat \ {0}
  BY PromptAssumption DEF HistoryOK, HistorySound, ToSet
<1>2. CASE h # <<>> /\ Last(h) = line
  BY <1>1, <1>2 DEF AddHistory
<1>3. CASE ~(h # <<>> /\ Last(h) = line)
  <2> DEFINE t == IF Len(h) = PromptHistory THEN Tail(h) ELSE h
             k == IF Len(h) = PromptHistory THEN 1 ELSE 0
             r == Append(t, line)
  <2>1. /\ t \in Seq(Seq(Words)) /\ Len(t) = Len(h) - k
        /\ \A i \in 1..Len(t) : t[i] = h[i + k]
    BY <1>1
  <2>2. k \in {0, 1} /\ (k = 0 => Len(h) < PromptHistory)
    BY <1>1
  <2> HIDE DEF t, k
  <2>3. /\ r \in Seq(Seq(Words)) /\ Len(r) = Len(t) + 1
        /\ \A i \in 1..Len(t) : r[i] = t[i]
        /\ r[Len(t) + 1] = line
    BY <2>1
  <2>4. AddHistory(h, line) = r
    BY <1>3 DEF AddHistory, t
  <2> HIDE DEF r
  <2>5. Len(r) <= PromptHistory /\ Len(h) <= Len(r)
    BY <1>1, <2>1, <2>2, <2>3
  <2>6. ASSUME NEW i \in 1..Len(r) - 1 PROVE r[i] # r[i + 1]
    <3>0. Len(t) \in Nat /\ i \in Nat /\ k \in Nat
      BY <2>1, <2>2, <2>3
    <3>1. i \in 1..Len(t) /\ r[i] = h[i + k] /\ i + k \in 1..Len(h)
      <4>1. i \in 1..Len(t)
        BY <2>3, <3>0
      <4>2. r[i] = t[i] /\ t[i] = h[i + k]
        BY <2>1, <2>3, <4>1
      <4>3. i + k \in 1..Len(h)
        BY <1>1, <2>1, <3>0, <4>1
      <4> QED
        BY <4>1, <4>2, <4>3
    <3>2. CASE i = Len(t)
      <4>1. h # <<>> /\ Last(h) = r[i]
        BY <1>1, <2>1, <2>2, <3>1, <3>2 DEF Last
      <4> QED
        BY <1>3, <2>3, <3>2, <4>1
    <3>3. CASE i # Len(t)
      <4>1. i + 1 \in 1..Len(t) /\ (i + 1) + k = (i + k) + 1
        BY <3>0, <3>1, <3>3
      <4>2. r[i + 1] = t[i + 1] /\ t[i + 1] = h[(i + 1) + k]
        BY <2>1, <2>3, <4>1
      <4>3. i + k \in 1..Len(h) - 1
        BY <1>1, <2>1, <3>0, <4>1
      <4> QED
        BY <1>1, <3>1, <4>1, <4>2, <4>3
    <3> QED
      BY <3>2, <3>3
  <2>7. ASSUME NEW i \in 1..Len(r) PROVE r[i] # <<>>
    <3>1. CASE i \in 1..Len(t)
      <4>1. r[i] = t[i] /\ t[i] = h[i + k]
        BY <2>1, <2>3, <3>1
      <4>2. i + k \in 1..Len(h)
        BY <1>1, <2>1, <2>2, <3>1
      <4> QED
        BY <1>1, <4>1, <4>2
    <3>2. CASE i = Len(t) + 1
      BY <2>3, <3>2
    <3> QED
      BY <2>1, <2>3, <3>1, <3>2
  <2> QED
    BY <2>3, <2>4, <2>5, <2>6, <2>7 DEF HistoryOK, HistorySound, ToSet
<1> QED
  BY <1>2, <1>3

\* A history that grows leaves the lines at prompts sound.
LEMMA GrowsFits ==
    ASSUME NEW d, NEW h, Fit(d, h), HistoryOK(h), NEW g, HistoryOK(g), Len(h) <= Len(g)
    PROVE  Fit(d, g)
<1>1. Len(h) \in Nat /\ Len(g) \in Nat
  BY DEF HistoryOK
<1> QED
  BY <1>1 DEF Fit, Placed, LineSound

(***************************************************************************)
(* The answer to a prompt.                                                 *)
(***************************************************************************)
\* Does the client become one that fits the history h, from d?
Becomes(d, h) == Fit(c', h) /\ Goes(d, c')

\* A prompt has a line and the callback of its kind.
LEMMA PromptFacts ==
    ASSUME NEW d, NEW h, Fit(d, h), d.prompt # NoPrompt
    PROVE  /\ d.prompt \in PromptType /\ d.prompt.at \in LineType
           /\ LineSound(d.prompt.at, h) /\ d.fn = d.prompt.kind
BY DEF Fit, Sound, ClientType, PromptType, Placed, Asked

\* The callback of the prompt has been called with an answer.
LEMMA AnsweredFits ==
    ASSUME NEW d, NEW h, Fit(d, h), HistoryOK(h), d.prompt # NoPrompt,
           NEW said \in Seq(Words), Answered(d, said)
    PROVE  Becomes(d, h)
<1>1. ASSUME c' = PromptClear(d) PROVE Becomes(d, h)
  BY <1>1, PromptClearFits DEF Becomes
<1>2. ASSUME c' = MessageSet(d) PROVE Becomes(d, h)
  BY <1>2, MessageSetFits DEF Becomes
<1>3. ASSUME c' = d PROVE Becomes(d, h)
  BY <1>3, GoesNowhere DEF Becomes
<1>4. CASE ConfirmAnswer(d, said)
  BY <1>1, <1>3, <1>4 DEF ConfirmAnswer
<1>5. CASE CommandAnswer(d, said)
  <2> DEFINE all == d.prompt.said \o said
             p == [d.prompt EXCEPT !.left = @ - 1, !.said = all,
                                   !.at = EmptyLine(d.prompt.at.mode)]
             e == [d EXCEPT !.prompt = p]
  <2>1. CASE d.prompt.left > 1
    <3>1. c' = Changed(e, "prompt")
      BY <1>5, <2>1 DEF CommandAnswer
    <3>2. d.prompt \in PromptType /\ d.prompt.at \in LineType
      BY PromptFacts
    <3>3. d.prompt.left - 1 \in Nat \ {0} /\ all \in Seq(Words)
      BY <2>1, <3>2, ConcatProperties DEF PromptType
    <3>4. /\ EmptyLine(d.prompt.at.mode) \in LineType
          /\ LineSound(EmptyLine(d.prompt.at.mode), h)
      BY <3>2 DEF EmptyLine, LineType, LineSound, HistoryOK
    <3>5. p \in PromptType /\ p.kind = d.prompt.kind /\ LineSound(p.at, h)
      <4> HIDE DEF all
      <4> QED
        BY <3>2, <3>3, <3>4 DEF PromptType
    <3> HIDE DEF p
    <3>6. Fit(e, h) /\ Goes(d, e)
      BY <3>5, RepromptFits
    <3> HIDE DEF e
    <3>7. Fit(Changed(e, "prompt"), h) /\ Goes(e, Changed(e, "prompt"))
      BY <3>6, ChangedFits
    <3> QED
      BY <3>1, <3>6, <3>7, GoesTwice DEF Becomes
  <2>2. CASE ~(d.prompt.left > 1)
    BY <1>1, <1>2, <1>3, <1>5, <2>2 DEF CommandAnswer
  <2> QED
    BY <2>1, <2>2
<1> QED
  BY <1>4, <1>5 DEF Answered

\* status_prompt_key, whose answer may be added to the history.
LEMMA PromptKeyFits ==
    ASSUME NEW d, Fit(d, history), HistoryOK(history), d.prompt # NoPrompt, PromptKey(d)
    PROVE  HistoryOK(history') /\ Becomes(d, history')
<1>1. PICK op \in Lookup(d.vi, d.prompt.at.mode), word \in Words :
        LET l == Switched(d.prompt.at, op)
            m == IF op = "type" THEN Inserted(l, <<word>>) ELSE Edit(op, l, history)
            e == [d EXCEPT !.prompt.at = [m EXCEPT !.dirty = FALSE]]
            f == IF m.dirty THEN Changed(e, "prompt") ELSE e
        IN  /\ op # "type" => word = CHOOSE w \in Words : TRUE
            /\ Room(op, l, word)
            /\ history' = IF op = "enter" /\ l.buf # <<>> THEN AddHistory(history, l.buf)
                          ELSE history
            /\ CASE op = "enter"  -> Answered(f, l.buf)
                 [] op = "cancel" -> c' = PromptClear(f) /\ run' = run
                 [] op = "type" /\ f.fn = "confirm" -> Answered(f, m.buf)
                 [] OTHER -> c' = f /\ run' = run
  BY DEF PromptKey
<1> DEFINE l == Switched(d.prompt.at, op)
           m == IF op = "type" THEN Inserted(l, <<word>>) ELSE Edit(op, l, history)
           q == [m EXCEPT !.dirty = FALSE]
           p == [d.prompt EXCEPT !.at = q]
           e == [d EXCEPT !.prompt = p]
           f == IF m.dirty THEN Changed(e, "prompt") ELSE e
<1>2. /\ history \in Seq(Seq(Words))
      /\ d \in ClientType /\ d.prompt \in PromptType /\ d.prompt.at \in LineType
      /\ LineSound(d.prompt.at, history)
  BY PromptFacts DEF HistoryOK, Fit, Sound
<1>3. l \in LineType /\ LineSound(l, history)
  BY <1>2, SwitchedKeeps
<1>4. e = [d EXCEPT !.prompt.at = q]
  BY <1>2 DEF ClientType, PromptType
<1>5. /\ history' = IF op = "enter" /\ l.buf # <<>> THEN AddHistory(history, l.buf)
                    ELSE history
      /\ \/ op = "enter" /\ Answered(f, l.buf)
         \/ c' = PromptClear(f)
         \/ Answered(f, m.buf)
         \/ c' = f
  <2> HIDE DEF l, m
  <2> QED
    BY <1>1, <1>4 DEF l, m
<1> HIDE DEF l
<1>6. m \in LineType /\ LineSound(m, history)
  <2>1. <<word>> \in Seq(Words)
    OBVIOUS
  <2>2. Inserted(l, <<word>>) \in LineType /\ LineSound(Inserted(l, <<word>>), history)
    BY <1>2, <1>3, <2>1, InsertedKeeps
  <2>3. Edit(op, l, history) \in LineType /\ LineSound(Edit(op, l, history), history)
    BY <1>2, <1>3, EditKeeps
  <2> QED
    BY <2>2, <2>3
<1> HIDE DEF m
<1>7. q \in LineType /\ LineSound(q, history)
  BY <1>6 DEF LineType, LineSound
<1> HIDE DEF q
<1>8. p \in PromptType /\ p.kind = d.prompt.kind /\ p.at = q
  BY <1>2, <1>7 DEF PromptType
<1> HIDE DEF p
<1>9. Fit(e, history) /\ Goes(d, e) /\ e.prompt = p
  BY <1>7, <1>8, RepromptFits
<1> HIDE DEF e
<1>10. Fit(f, history) /\ Goes(d, f) /\ f.prompt = p
  <2>1. /\ Fit(Changed(e, "prompt"), history) /\ Goes(e, Changed(e, "prompt"))
        /\ Changed(e, "prompt").prompt = e.prompt
    BY <1>9, ChangedFits
  <2> QED
    BY <1>9, <2>1, GoesTwice
<1> HIDE DEF f
<1>11. l.buf \in Seq(Words) /\ m.buf \in Seq(Words) /\ p # NoPrompt
  BY <1>3, <1>6, <1>8, NoneAssumption DEF LineType
<1>12. HistoryOK(history') /\ Len(history) <= Len(history')
  <2>1. HistoryOK(history) /\ Len(history) <= Len(history)
    BY <1>2
  <2> QED
    BY <1>5, <1>11, <2>1, HistoryKeeps
<1>13. Fit(f, history')
  BY <1>10, <1>12, GrowsFits
<1>14. Becomes(f, history')
  BY <1>5, <1>10, <1>11, <1>12, <1>13, AnsweredFits, PromptClearFits, GoesNowhere DEF Becomes
<1> QED
  BY <1>10, <1>12, <1>14, GoesTwice DEF Becomes

(***************************************************************************)
(* Keys.                                                                   *)
(***************************************************************************)
\* key_bindings_dispatch: a read-only client may get a message instead.
LEMMA DispatchFits ==
    ASSUME NEW d, NEW h, Fit(d, h), NEW b, Dispatch(d, b)
    PROVE  Becomes(d, h)
BY MessageSetFits, GoesNowhere DEF Dispatch, Becomes

\* A key without the prefix.
LEMMA PlainKeyFits ==
    ASSUME NEW d, NEW h, Fit(d, h), NEW key, "PREFIX" \notin d.flags, PlainKey(d, key)
    PROVE  Becomes(d, h)
<1>1. "REPEAT" \notin d.flags
  BY DEF Fit, Sound, Keyed
<1> QED
  BY <1>1, PrefixPressedFits, DispatchFits, GoesNowhere DEF PlainKey, Done, Becomes

\* A key after the prefix, or within the repeat time.
LEMMA PrefixedKeyFits ==
    ASSUME NEW d, NEW h, Fit(d, h), NEW key, PrefixedKey(d, key)
    PROVE  Becomes(d, h)
<1> DEFINE b == <<key, TRUE>>
           e == PrefixUsed(d)
           r == RepeatEnded(e)
           ended == IF key \in Prefix THEN PrefixPressed(r) ELSE r
           repeat == "REPEAT" \in d.flags
<1>1. Fit(ended, h) /\ Goes(d, ended)
  <2>1. Fit(r, h) /\ Goes(d, r) /\ "REPEAT" \notin r.flags
    BY RepeatEndedFits
  <2> HIDE DEF r
  <2>2. Fit(PrefixPressed(r), h) /\ Goes(r, PrefixPressed(r))
    BY <2>1, PrefixPressedFits
  <2> QED
    BY <2>1, <2>2, GoesTwice
<1>2. ~repeat => Fit(e, h) /\ Goes(d, e)
  BY PrefixUsedFits
<1>3. RepeatTime # 0 => Fit(Repeating(e), h) /\ Goes(d, Repeating(e))
  BY RepeatingFits
<1>4. repeat => RepeatTime # 0
  BY DEF Fit, Sound, Keyed
<1>5. \/ c' = ended
      \/ ~repeat /\ c' = e
      \/ ~repeat /\ Dispatch(e, b)
      \/ RepeatTime # 0 /\ Dispatch(Repeating(e), b)
  <2> HIDE DEF ended, e
  <2> QED
    BY <1>4 DEF PrefixedKey, Done, ended, e
<1> HIDE DEF ended, e
<1>6. CASE c' = ended \/ (~repeat /\ c' = e)
  BY <1>1, <1>2, <1>6 DEF Becomes
<1>7. CASE ~repeat /\ Dispatch(e, b)
  <2>1. Becomes(e, h)
    BY <1>2, <1>7, DispatchFits
  <2> QED
    BY <1>2, <1>7, <2>1, GoesTwice DEF Becomes
<1>8. CASE RepeatTime # 0 /\ Dispatch(Repeating(e), b)
  <2>1. Becomes(Repeating(e), h)
    BY <1>3, <1>8, DispatchFits
  <2> QED
    BY <1>3, <1>8, <2>1, GoesTwice DEF Becomes
<1> QED
  BY <1>5, <1>6, <1>7, <1>8

(***************************************************************************)
(* The drawing of the terminal.                                            *)
(***************************************************************************)
Keeps == IInv' /\ Runs(c, c')

\* An operation on the client alone.
LEMMA Kept ==
    ASSUME IInv, HistoryOK(history'), Becomes(c, history'), UNCHANGED <<term, window>>
    PROVE  Keeps
<1>1. Drawable(c', term, window)
  BY DEF IInv, Becomes, Goes, Draws, Drawable
<1> QED
  BY <1>1 DEF Keeps, IInv, Becomes, Fit, Goes

\* server_redraw_session: the panes will be drawn.
LEMMA RedrawWindowInv ==
    ASSUME IInv, NEW d, Fit(d, history), Goes(c, d), RedrawWindow(d), history' = history
    PROVE  Keeps
<1>1. c' = Shows(d, "REDRAW") /\ Fit(c', history) /\ "REDRAW" \in c'.flags
  BY ShowsFits DEF RedrawWindow
<1>2. Runs(c, c')
  BY <1>1, ShowsFits, GoesTwice DEF Goes
<1>3. /\ term' \in Terminal /\ term'.numbers = term.numbers
      /\ window' \subseteq Pane \cup {"WINDOW"}
  BY DEF RedrawWindow, IInv, Drawable, Terminal
<1>4. Drawable(c', term', window')
  BY <1>1, <1>3 DEF Drawable
<1> QED
  BY <1>1, <1>2, <1>4 DEF Keeps, IInv, Fit, RedrawWindow

\* server_redraw_window_borders.
LEMMA RedrawBordersInv ==
    ASSUME IInv, NEW d, Fit(d, history), Goes(c, d), history' = history,
           NEW f \in {"REDRAW", "BORDERS"}, RedrawBorders(d, f)
    PROVE  Keeps
<1>1. /\ c' = Shows(d, f) /\ Fit(c', history) /\ Goes(d, c') /\ f \in c'.flags
      /\ term' = [term EXCEPT !.borders = "stale"] /\ window' = window
  BY ShowsFits DEF RedrawBorders
<1>2. Goes(c, c')
  BY <1>1, GoesTwice
<1>3. /\ term' \in Terminal
      /\ term'.old = term.old /\ term'.numbers = term.numbers
  BY <1>1 DEF IInv, Drawable, Terminal
<1>4. Drawable(c', term', window')
  BY <1>1, <1>2, <1>3 DEF IInv, Drawable, Goes, Draws
<1> QED
  BY <1>1, <1>2, <1>4 DEF Keeps, IInv, Fit, Goes

\* A command, with what it flags on the window.
LEMMA DoesInv ==
    ASSUME IInv, NEW word, Does(word, c), history' = history
    PROVE  Keeps
<1>1. Fit(c, history) /\ HistoryOK(history) /\ Goes(c, c)
  BY GoesNowhere DEF IInv, Fit
<1>2. CASE word = "window"
  BY <1>1, <1>2, RedrawWindowInv DEF Does
<1>3. CASE word # "window"
  BY <1>1, <1>3, EffectFits, Kept DEF Does, Becomes
<1> QED
  BY <1>2, <1>3

\* A key clears the message and the pane numbers, unless the client is read-only.
LEMMA CleanFits ==
    ASSUME IInv
    PROVE  LET d == IF c.readonly THEN c ELSE ClearIdentify(MessageClear(c))
           IN  Fit(d, history) /\ Goes(c, d)
<1> DEFINE m == MessageClear(c)
<1>1. Fit(c, history) /\ Goes(c, c)
  BY GoesNowhere DEF IInv, Fit
<1>2. Fit(m, history) /\ Goes(c, m)
  BY <1>1, MessageClearFits
<1> HIDE DEF m
<1>3. Fit(ClearIdentify(m), history) /\ Goes(m, ClearIdentify(m))
  BY <1>2, ClearIdentifyFits
<1> QED
  BY <1>1, <1>2, <1>3, GoesTwice DEF m

\* server_client_handle_key for a key.
LEMMA HandleKeyInv ==
    ASSUME IInv, NEW key, HandleKey(key)
    PROVE  Keeps
<1> DEFINE d == IF c.readonly THEN c ELSE ClearIdentify(MessageClear(c))
<1>1. HistoryOK(history) /\ Fit(c, history) /\ Goes(c, c)
  BY GoesNowhere DEF IInv, Fit
<1>2. Fit(d, history) /\ Goes(c, d)
  BY CleanFits
<1>3. CASE "IDENTIFY" \in c.flags /\ key \in Digit
  <2>1. history' = history
    BY <1>3 DEF HandleKey
  <2>2. CASE c.readonly
    BY <1>1, <1>3, <2>1, <2>2, Kept DEF HandleKey, Becomes
  <2>3. CASE ~c.readonly
    <3>1. RedrawBorders(ClearIdentify(c), "REDRAW")
      BY <1>3, <2>3 DEF HandleKey
    <3>2. Fit(ClearIdentify(c), history) /\ Goes(c, ClearIdentify(c))
      BY <1>1, ClearIdentifyFits
    <3> QED
      BY <2>1, <3>1, <3>2, RedrawBordersInv
  <2> QED
    BY <2>2, <2>3
<1>4. CASE ~("IDENTIFY" \in c.flags /\ key \in Digit)
  <2>1. /\ IF d.prompt # NoPrompt
             THEN IF d.readonly THEN Done(d) /\ history' = history ELSE PromptKey(d)
           ELSE /\ history' = history
                /\ IF "PREFIX" \in d.flags THEN PrefixedKey(d, key) ELSE PlainKey(d, key)
        /\ UNCHANGED <<term, window>>
    BY <1>4 DEF HandleKey
  <2> HIDE DEF d
  <2>2. HistoryOK(history') /\ Becomes(d, history')
    <3>1. CASE d.prompt # NoPrompt /\ d.readonly
      BY <1>1, <1>2, <2>1, <3>1, GoesNowhere DEF Done, Becomes
    <3>2. CASE d.prompt # NoPrompt /\ ~d.readonly
      BY <1>1, <1>2, <2>1, <3>2, PromptKeyFits
    <3>3. CASE d.prompt = NoPrompt /\ "PREFIX" \in d.flags
      BY <1>1, <1>2, <2>1, <3>3, PrefixedKeyFits
    <3>4. CASE d.prompt = NoPrompt /\ "PREFIX" \notin d.flags
      BY <1>1, <1>2, <2>1, <3>4, PlainKeyFits
    <3> QED
      BY <3>1, <3>2, <3>3, <3>4
  <2>3. Becomes(c, history')
    BY <1>2, <2>2, GoesTwice DEF Becomes
  <2> QED
    BY <2>1, <2>2, <2>3, Kept
<1> QED
  BY <1>3, <1>4

\* server_client_handle_key for a mouse event.
LEMMA HandleMouseInv ==
    ASSUME IInv, HandleMouse
    PROVE  Keeps
<1> DEFINE d == IF c.readonly THEN c ELSE ClearIdentify(MessageClear(c))
<1>1. HistoryOK(history) /\ history' = history
  BY DEF IInv, HandleMouse
<1>2. Fit(d, history) /\ Goes(c, d)
  BY CleanFits
<1>3. \/ c' = d /\ UNCHANGED <<term, window>>
      \/ RedrawBorders(d, "BORDERS")
      \/ RedrawWindow(d)
  BY DEF HandleMouse
<1> HIDE DEF d
<1> QED
  BY <1>1, <1>2, <1>3, Kept, RedrawBordersInv, RedrawWindowInv DEF Becomes

\* The timers of the message and of the pane numbers.
LEMMA TimersInv ==
    ASSUME IInv, MessageTimer \/ IdentifyTimer
    PROVE  Keeps
<1>1. /\ HistoryOK(history) /\ Fit(c, history) /\ c \in ClientType
      /\ history' = history /\ UNCHANGED <<term, window>>
  BY DEF IInv, Fit, Sound, MessageTimer, IdentifyTimer
<1>2. CASE MessageTimer
  <2> DEFINE m == MessageClear(c)
             e == [m EXCEPT !.mtimer = "off"]
  <2>1. c' = e
    BY <1>1, <1>2 DEF MessageTimer, MessageClear, Thaw, Shows, Lapsed, ClientType
  <2>2. Fit(m, history) /\ Goes(c, m) /\ ~m.message
    BY <1>1, MessageClearFits
  <2> HIDE DEF m
  <2>3. Fit(e, history) /\ Goes(m, e)
    BY <2>2, MessageOffFits
  <2> QED
    BY <1>1, <2>1, <2>2, <2>3, Kept, GoesTwice DEF Becomes
<1>3. CASE IdentifyTimer
  <2> DEFINE m == ClearIdentify(c)
             e == [m EXCEPT !.itimer = "off"]
  <2>1. c' = e
    BY <1>1, <1>3 DEF IdentifyTimer, ClearIdentify, Thaw, Shows, Lapsed, ClientType
  <2>2. Fit(m, history) /\ Goes(c, m) /\ "IDENTIFY" \notin m.flags
    BY <1>1, ClearIdentifyFits
  <2> HIDE DEF m
  <2>3. Fit(e, history) /\ Goes(m, e)
    BY <2>2, IdentifyOffFits
  <2> QED
    BY <1>1, <2>1, <2>2, <2>3, Kept, GoesTwice DEF Becomes
<1> QED
  BY <1>2, <1>3

\* A late timer takes a repeat, and no prefix key.
LEMMA RepeatTimerInv ==
    ASSUME IInv, RepeatTimer
    PROVE  IInv' /\ (c.by = "key" => "PREFIX" \in c'.flags)
<1>1. /\ HistoryOK(history) /\ Fit(c, history) /\ c \in ClientType
      /\ history' = history /\ UNCHANGED <<term, window>>
  BY DEF IInv, Fit, Sound, RepeatTimer
<1> DEFINE F == IF "REPEAT" \in c.flags THEN c.flags \ {"PREFIX", "REPEAT"} ELSE c.flags
           b == IF "REPEAT" \in c.flags THEN "nobody" ELSE c.by
           e == [c EXCEPT !.flags = F, !.by = b, !.rtimer = "off"]
<1>2. c' = e
  <2>1. (c.flags \ {"PREFIX", "REPEAT"}) \cup {} = c.flags \ {"PREFIX", "REPEAT"}
    OBVIOUS
  <2> QED
    BY <1>1, <2>1 DEF RepeatTimer, Flags, ClientType
<1>3. /\ F \in SUBSET Flag /\ b \in {"nobody", "key", "repeat"} /\ "off" \in Timer
      /\ \A f \in {"REDRAW", "STATUS", "BORDERS", "IDENTIFY"} : f \in F <=> f \in c.flags
      /\ b = "key" => "PREFIX" \in F /\ "REPEAT" \notin F
      /\ "REPEAT" \in F => "PREFIX" \in F /\ RepeatTime # 0
      /\ c.by = "key" => "PREFIX" \in F
  BY <1>1 DEF ClientType, Flag, Timer, Fit, Sound, Keyed
<1>4. e.flags = F
  BY <1>1 DEF ClientType
<1> HIDE DEF F, b
<1>5. Fit(e, history) /\ Draws(c, e)
  BY <1>1, <1>3, TurnedFits
<1> HIDE DEF e
<1>6. Drawable(c', term', window')
  BY <1>1, <1>2, <1>5 DEF IInv, Draws, Drawable
<1> QED
  BY <1>1, <1>2, <1>3, <1>4, <1>5, <1>6 DEF IInv, Fit

\* The status line is made anew by its timer.
LEMMA StatusChangesInv ==
    ASSUME IInv, StatusChanges
    PROVE  Keeps
<1>1. Fit(c, history) /\ HistoryOK(history)
  BY DEF IInv, Fit
<1> QED
  BY <1>1, ChangedFits, Kept DEF StatusChanges, Becomes

\* Another client has made another pane active: nothing was to be drawn for it.
LEMMA AnotherSelectsInv ==
    ASSUME IInv, AnotherSelects
    PROVE  Keeps
<1>1. Goes(c, c) /\ UNCHANGED <<c, window, history>>
  BY GoesNowhere DEF AnotherSelects, IInv, Fit
<1>2. /\ term' \in Terminal /\ term'.old = term.old /\ term'.numbers = term.numbers
      /\ term'.borders = "stale" => term.borders = "stale"
  BY DEF AnotherSelects, IInv, Drawable, Terminal
<1>3. Drawable(c', term', window')
  BY <1>1, <1>2 DEF IInv, Drawable
<1> QED
  BY <1>1, <1>3 DEF Keeps, IInv, Goes, Runs

\* A pane writes to the terminal, or cannot while it is frozen.
LEMMA PaneChangesInv ==
    ASSUME IInv, NEW p \in Pane, PaneChanges(p)
    PROVE  Keeps
<1>1. /\ Fit(c, history) /\ HistoryOK(history) /\ history' = history /\ Goes(c, c)
      /\ c \in ClientType
  BY GoesNowhere DEF IInv, Fit, PaneChanges, Sound
<1>2. CASE c' = c /\ term' = [term EXCEPT !.old = @ \cup {p}]
           /\ \/ window' = window \cup {p}
              \/ window' = window /\ ({p, "WINDOW"} \cap window # {} \/ "FREEZE" \in c.tty)
  <2>1. /\ term' \in Terminal /\ term'.old = term.old \cup {p}
        /\ term'.borders = term.borders /\ term'.numbers = term.numbers
    BY <1>2 DEF IInv, Drawable, Terminal
  <2>2. "FREEZE" \in c.tty => c.tty = Frozen
    BY <1>1 DEF ClientType
  <2>3. p # "WINDOW"
    BY KeysAssumption
  <2>4. Drawable(c', term', window')
    BY <1>2, <2>1, <2>2, <2>3 DEF IInv, Drawable
  <2> QED
    BY <1>1, <1>2, <2>4 DEF Keeps, IInv, Fit, Goes
<1>3. CASE /\ UNCHANGED <<term, window>>
           /\ c' \in {c} \cup (IF c.status \/ p \notin Bottom THEN {}
                              ELSE {[c EXCEPT !.last = "pane"]})
  <2>1. Becomes(c, history')
    BY <1>1, <1>3, PaneLastFits DEF Becomes
  <2> QED
    BY <1>1, <1>3, <2>1, Kept
<1> QED
  BY <1>2, <1>3 DEF PaneChanges

\* Another client adds a line to the history.
LEMMA HistoryGrowsInv ==
    ASSUME IInv, HistoryGrows
    PROVE  Keeps
<1>1. Fit(c, history) /\ HistoryOK(history) /\ Goes(c, c)
  BY GoesNowhere DEF IInv, Fit
<1>2. PICK word \in Words : history' = AddHistory(history, <<word>>)
  BY DEF HistoryGrows
<1>3. HistoryOK(history') /\ Len(history) <= Len(history')
  <2>1. <<word>> \in Seq(Words) /\ <<word>> # <<>>
    OBVIOUS
  <2> QED
    BY <1>1, <1>2, <2>1, HistoryKeeps
<1>4. Fit(c, history')
  BY <1>1, <1>3, GrowsFits
<1> QED
  BY <1>1, <1>3, <1>4, Kept DEF HistoryGrows, Becomes

\* The last command of a list has run.
LEMMA FinishInv ==
    ASSUME IInv, Finish
    PROVE  Keeps
<1>1. Fit(c, history) /\ HistoryOK(history) /\ Goes(c, c)
  BY GoesNowhere DEF IInv, Fit
<1> QED
  BY <1>1, PromptClearFits, Kept DEF Finish, Becomes

\* server_client_loop leaves nothing undrawn but the panes of a frozen terminal.
LEMMA LoopInv ==
    ASSUME IInv, Loop
    PROVE  Keeps
<1>1. /\ Fit(c, history) /\ HistoryOK(history) /\ history' = history
      /\ c \in ClientType /\ Painted(c)
  BY DEF IInv, Fit, Sound, Loop
<1>2. /\ c'.flags = c.flags \ {"REDRAW", "STATUS", "BORDERS"}
      /\ c'.line = Line /\ c'.last = LastLine
      /\ c'.readonly = c.readonly /\ c'.status = c.status /\ c'.vi = c.vi
      /\ c'.tty = c.tty /\ c'.by = c.by /\ c'.message = c.message
      /\ c'.prompt = c.prompt /\ c'.fn = c.fn /\ c'.data = c.data
      /\ c'.rtimer = c.rtimer /\ c'.mtimer = c.mtimer /\ c'.itimer = c.itimer
  BY <1>1 DEF Loop, ClientType
<1>3. Kind(c) \in {"message", "prompt", "status"} /\ Kind(c') = Kind(c)
  BY <1>2 DEF Kind
<1>4. Line = c.line \/ (Line = Kind(c) /\ HasLine)
  BY DEF Line, Fresh
<1>5. c' \in ClientType
  <2>1. Line \in {"blank", "old", "message", "prompt", "status"}
    BY <1>1, <1>3, <1>4 DEF ClientType
  <2>2. LastLine \in {"old", "message", "prompt", "status", "pane"}
    BY <1>1, <1>3 DEF LastLine, Line, Fresh, Full, StatusOnly, ClientType
  <2>3. c.flags \ {"REDRAW", "STATUS", "BORDERS"} \in SUBSET Flag
    BY <1>1 DEF ClientType, Flag
  <2> QED
    BY <1>1, <2>1, <2>2, <2>3 DEF Loop, ClientType
<1>6. Shown(c') /\ Asked(c') /\ Keyed(c') /\ Placed(c', history)
  BY <1>1, <1>2 DEF Fit, Sound, Shown, Asked, Keyed, Placed
<1>7. LastOK(c')
  <2>1. CASE Full
    BY <1>2, <1>3, <2>1 DEF LastOK, LastLine, Line, Fresh, HasLine, Full
  <2>2. CASE ~Full /\ StatusOnly
    BY <1>2, <1>3, <2>2 DEF LastOK, LastLine, Line, Fresh, HasLine, Full, StatusOnly
  <2>3. CASE ~Full /\ ~StatusOnly
    <3>1. LastOK(c)
      BY <1>1, <2>3 DEF Painted, StatusOnly, Full, Fresh, Line, HasLine
    <3>2. LastLine = c.last \/ (LastLine = "pane" /\ ~c.status)
      BY <2>3 DEF LastLine
    <3> QED
      BY <1>2, <1>3, <3>1, <3>2 DEF LastOK
  <2> QED
    BY <2>1, <2>2, <2>3
<1>8. Painted(c')
  <2>1. (c'.line = "message" => c'.message) /\ (c'.line = "prompt" => c'.prompt # NoPrompt)
    BY <1>1, <1>2, <1>3, <1>4 DEF Painted, Kind
  <2> QED
    BY <1>7, <2>1 DEF Painted
<1>9. Drawable(c', term', window')
  <2>1. term \in Terminal /\ window \subseteq Pane \cup {"WINDOW"}
    BY DEF IInv, Drawable
  <2> DEFINE o == IF Full \/ "BORDERS" \in c.flags THEN "current" ELSE term.borders
             n == IF Full /\ "IDENTIFY" \in c.flags THEN Pane ELSE term.numbers \ PanesDrawn
  <2>2. o \in {"current", "stale", "missed"} /\ n \in SUBSET Pane
    BY <2>1 DEF Terminal
  <2>3. term' = [old |-> term.old \ PanesDrawn, borders |-> o, numbers |-> n] /\ window' = {}
    BY DEF Loop, DrawnScreen
  <2> HIDE DEF o, n
  <2>4. /\ term' \in Terminal
        /\ term'.old = term.old \ PanesDrawn /\ term'.borders = o /\ term'.numbers = n
    BY <2>1, <2>2, <2>3 DEF Terminal
  <2>5. term.old \subseteq Pane /\ term.numbers \subseteq Pane
    BY <2>1 DEF Terminal
  <2>6. Full => PanesDrawn = Pane
    BY DEF PanesDrawn
  <2>7. ~Full => PanesDrawn = window \cap Pane
    BY DEF PanesDrawn
  <2>8. term'.old \subseteq {} \/ c'.tty = Frozen
    BY <1>2, <2>4, <2>5, <2>6, <2>7 DEF IInv, Drawable, Full
  <2>9. term'.borders # "stale"
    BY <2>4 DEF IInv, Drawable, Full, o
  <2>10. n # {} => "IDENTIFY" \in c'.flags
    <3>1. CASE Full /\ "IDENTIFY" \notin c.flags
      BY <2>5, <2>6, <3>1 DEF n
    <3>2. CASE ~Full /\ "IDENTIFY" \notin c.flags
      BY <3>2 DEF n, IInv, Drawable, Full
    <3>3. CASE "IDENTIFY" \in c.flags
      BY <1>2, <3>3
    <3> QED
      BY <3>1, <3>2, <3>3
  <2> QED
    BY <2>3, <2>4, <2>8, <2>9, <2>10 DEF Drawable
<1> QED
  BY <1>1, <1>2, <1>5, <1>6, <1>8, <1>9 DEF Keeps, IInv, Sound, Runs

(***************************************************************************)
(* Every step.                                                             *)
(***************************************************************************)
\* A client that has just attached.
LEMMA InitInv == Init => IInv
<1> SUFFICES ASSUME Init PROVE IInv
  OBVIOUS
<1>1. PICK k \in Clients : c = NewClient(k[1], k[2], k[3])
  BY DEF Init
<1>2. k \in BOOLEAN \X BOOLEAN \X BOOLEAN
  BY KeysAssumption
<1>3. {"REDRAW"} \in SUBSET Flag /\ "off" \in Timer
  BY DEF Flag, Timer
<1>4. c \in ClientType
  BY <1>1, <1>2, <1>3 DEF NewClient, ClientType
<1>5. /\ c.flags = {"REDRAW"} /\ c.tty = {} /\ c.message = FALSE /\ c.prompt = NoPrompt
      /\ c.data = 0 /\ c.line = "blank" /\ c.by = "nobody"
  BY <1>1 DEF NewClient
<1>6. Sound(c) /\ Placed(c, history)
  BY <1>4, <1>5 DEF Sound, Shown, Asked, Keyed, Painted, LastOK, Kind, Placed, Frozen
<1>7. HistoryOK(history)
  BY PromptAssumption DEF Init, HistoryOK, HistorySound, ToSet
<1>8. Drawable(c, term, window)
  BY <1>5 DEF Init, Drawable, Terminal
<1> QED
  BY <1>6, <1>7, <1>8 DEF IInv

\* Every event; none but the repeat timer takes the repeat timer away.
LEMMA NextInv ==
    ASSUME IInv, [Next]_vars
    PROVE  /\ IInv'
           /\ Runs(c, c') \/ (c.by = "key" => "PREFIX" \in c'.flags)
<1>1. Keeps => IInv' /\ Runs(c, c')
  BY DEF Keeps
<1>2. CASE UNCHANGED vars
  BY <1>2 DEF vars, IInv, Sound, ClientType, Shown, Asked, Keyed, Painted, LastOK, Kind, HistoryOK,
              Placed, Drawable, Runs
<1>3. ASSUME NEW key \in Key, HandleKey(key) PROVE Keeps
  BY <1>3, HandleKeyInv
<1>4. CASE HandleMouse
  BY <1>1, <1>4, HandleMouseInv
<1>5. ASSUME NEW word \in Others, FromElsewhere(word) PROVE Keeps
  BY <1>5, DoesInv DEF FromElsewhere
<1>6. CASE HistoryGrows
  BY <1>1, <1>6, HistoryGrowsInv
<1>7. CASE RepeatTimer
  BY <1>7, RepeatTimerInv
<1>8. CASE MessageTimer \/ IdentifyTimer
  BY <1>1, <1>8, TimersInv
<1>9. CASE StatusChanges
  BY <1>1, <1>9, StatusChangesInv
<1>10. ASSUME NEW p \in Pane, PaneChanges(p) PROVE Keeps
  BY <1>10, PaneChangesInv
<1>11. CASE Exec
  BY <1>1, <1>11, DoesInv DEF Exec
<1>12. CASE Finish
  BY <1>1, <1>12, FinishInv
<1>13. CASE Loop
  BY <1>1, <1>13, LoopInv
<1>14. CASE AnotherSelects
  BY <1>1, <1>14, AnotherSelectsInv
<1> QED
  BY <1>1, <1>2, <1>3, <1>4, <1>5, <1>6, <1>7, <1>8, <1>9, <1>10, <1>11, <1>12, <1>13, <1>14
     DEF Next, Event

\* The client, its terminal, the prompt and the history fit together after every
\* event, whatever the keys are bound to.
THEOREM Invariance == Spec => []IInv
<1>1. IInv /\ [Next]_vars => IInv'
  BY NextInv
<1> QED
  BY <1>1, InitInv, PTL DEF Spec

\* A frozen terminal is thawed, and when server_client_loop has drawn what is to be
\* drawn the terminal shows what it should.
THEOREM TerminalIsSound == Spec => []TerminalSound
<1>1. IInv => TerminalSound
  <2> SUFFICES ASSUME IInv PROVE TerminalSound
    OBVIOUS
  <2>1. c \in ClientType /\ Shown(c) /\ Painted(c) /\ Drawable(c, term, window)
    BY DEF IInv, Sound
  <2>2. /\ "FREEZE" \in c.tty <=> "NOCURSOR" \in c.tty
        /\ "FREEZE" \in c.tty <=> c.tty = Frozen
    BY <2>1 DEF ClientType, Frozen
  <2>3. ASSUME Settled
        PROVE  /\ term.old = {} \/ "FREEZE" \in c.tty
               /\ term.borders # "stale"
               /\ term.numbers # {} => "IDENTIFY" \in c.flags
    BY <2>1, <2>2, <2>3 DEF Settled, Drawable
  <2>4. ASSUME Settled
        PROVE  \/ HasLine /\ c.last = Kind(c)
               \/ ~c.status /\ c.last = "pane"
    BY <2>1, <2>4 DEF Settled, Painted, LastOK, HasLine
  <2> QED
    BY <2>1, <2>2, <2>3, <2>4 DEF TerminalSound, Shown
<1> QED
  BY <1>1, Invariance, PTL

\* What a prompt allocates is freed with it, its callback is its own, its cursor is
\* in its line, and the history has no line twice in succession and no empty one.
THEOREM PromptIsSound == Spec => []PromptSound
<1>1. IInv => PromptSound
  BY DEF IInv, Sound, Shown, Asked, Placed, HistoryOK, PromptSound
<1> QED
  BY <1>1, Invariance, PTL

\* server_client_repeat_timer never takes away a prefix key that was pressed.
THEOREM PrefixIsKept == Spec => PrefixKept
<1>1. IInv /\ [Next]_vars
        => [(c.rtimer # "off" /\ c'.rtimer = "off" /\ c.by = "key")
               => "PREFIX" \in c'.flags]_vars
  BY NextInv DEF Runs
<1> QED
  BY <1>1, Invariance, PTL DEF Spec, PrefixKept

\* When the commands of a command prompt have run, a confirm-before they have made
\* is left to be answered.
THEOREM ConfirmIsAsked == Spec => ConfirmAsks
<1>1. IInv /\ [Next]_vars
        => [(run.from = "command" /\ IsIdle' /\ c.prompt # NoPrompt
                /\ c.prompt.kind = "confirm") => c'.prompt = c.prompt]_vars
  <2> SUFFICES ASSUME IInv, Next, run.from = "command", IsIdle', c.prompt # NoPrompt,
                      c.prompt.kind = "confirm"
               PROVE  c'.prompt = c.prompt
    OBVIOUS
  <2>1. ~IsIdle
    BY DEF IsIdle
  <2>2. ~Event /\ ~Loop
    BY <2>1 DEF Event, HandleKey, HandleMouse, FromElsewhere, HistoryGrows, RepeatTimer,
                MessageTimer, IdentifyTimer, StatusChanges, PaneChanges, AnotherSelects,
                Loop
  <2>3. CASE Finish
    BY <2>3 DEF Finish, IInv, Sound, Asked
  <2>4. CASE Exec
    BY <2>1, <2>4 DEF Exec, IsIdle
  <2> QED
    BY <2>2, <2>3, <2>4 DEF Next
<1> QED
  BY <1>1, Invariance, PTL DEF Spec, ConfirmAsks

(***************************************************************************)
(* The commands of a key are kept while they run.                          *)
(***************************************************************************)
\* The commands an answer runs are not those of a key.
LEMMA AnsweredRuns ==
    ASSUME NEW d, NEW said, Answered(d, said)
    PROVE  run' = run \/ (run'.from # "key" /\ run'.held = "table")
BY DEF Answered, CommandAnswer, ConfirmAnswer, Idle

\* The commands a key runs are those of the table.
LEMMA KeyRuns ==
    ASSUME NEW key, HandleKey(key)
    PROVE  \/ run' = run
           \/ run'.from # "key" /\ run'.held = "table"
           \/ \E b \in DOMAIN bindings : run'.list = bindings[b].list /\ run'.held = "table"
<1> DEFINE d == IF c.readonly THEN c ELSE ClearIdentify(MessageClear(c))
<1>1. \/ run' = run
      \/ Done(d) \/ PromptKey(d) \/ PrefixedKey(d, key) \/ PlainKey(d, key)
  BY DEF HandleKey
<1> HIDE DEF d
<1>2. ASSUME NEW e, NEW b \in DOMAIN bindings, Dispatch(e, b)
      PROVE  run' = run \/ (run'.list = bindings[b].list /\ run'.held = "table")
  BY <1>2 DEF Dispatch
<1>3. CASE PromptKey(d)
  <2>1. run' = run \/ \E e, said : Answered(e, said)
    BY <1>3 DEF PromptKey
  <2> QED
    BY <2>1, AnsweredRuns
<1>4. CASE PrefixedKey(d, key)
  <2>1. run' = run \/ \E e : <<key, TRUE>> \in DOMAIN bindings /\ Dispatch(e, <<key, TRUE>>)
    BY <1>4 DEF PrefixedKey, Done
  <2> QED
    BY <1>2, <2>1
<1>5. CASE PlainKey(d, key)
  BY <1>2, <1>5 DEF PlainKey, Done
<1> QED
  BY <1>1, <1>3, <1>4, <1>5 DEF Done

\* The list that runs is a record of its four fields.
RunIs == DOMAIN run = {"from", "list", "key", "held"}

\* A key keeps the fields of run.
LEMMA KeyRunIs ==
    ASSUME RunIs, NEW key, HandleKey(key)
    PROVE  RunIs'
<1> DEFINE d == IF c.readonly THEN c ELSE ClearIdentify(MessageClear(c))
<1>1. \/ run' = run
      \/ Done(d) \/ PromptKey(d) \/ PrefixedKey(d, key) \/ PlainKey(d, key)
  BY DEF HandleKey
<1> HIDE DEF d
<1>2. ASSUME NEW e, NEW b, Dispatch(e, b) PROVE RunIs'
  BY <1>2 DEF Dispatch, RunIs
<1>3. ASSUME NEW e, NEW said, Answered(e, said) PROVE RunIs'
  BY <1>3 DEF Answered, CommandAnswer, ConfirmAnswer, Idle, RunIs
<1>4. CASE PromptKey(d)
  <2>1. run' = run \/ \E e, said : Answered(e, said)
    BY <1>4 DEF PromptKey
  <2> QED
    BY <1>3, <2>1 DEF RunIs
<1>5. CASE PrefixedKey(d, key) \/ PlainKey(d, key)
  <2>1. run' = run \/ \E e, b : Dispatch(e, b)
    BY <1>5 DEF PrefixedKey, PlainKey, Done
  <2> QED
    BY <1>2, <2>1 DEF RunIs
<1> QED
  BY <1>1, <1>4, <1>5 DEF Done, RunIs

\* The table the server starts with.
LEMMA KeptInit ==
    ASSUME Lasting, Init
    PROVE  KeptLists /\ RunIs
<1>1. ASSUME NEW b \in DOMAIN Table
      PROVE  Table[b].list \in Seq(Commands \ {"unbindall"})
  <2>1. Table[b].list \in Seq(Commands) /\ "unbindall" \notin ToSet(Table[b].list)
    BY KeysAssumption DEF Lasting
  <2> QED
    BY <2>1 DEF ToSet
<1> QED
  BY <1>1 DEF Init, KeptLists, Idle, RunIs

\* bind-key gives a key commands that do not unbind all.
LEMMA BindsKeeps ==
    ASSUME KeptLists, NEW word, Binds(word)
    PROVE  \A b \in DOMAIN bindings' : bindings'[b].list \in Seq(Commands \ {"unbindall"})
<1>1. <<"message">> \in Seq(Commands \ {"unbindall"})
  BY DEF Commands
<1>2. CASE word = "bind"
  <2>1. bindings' = [b \in DOMAIN bindings \cup {Rebound} |->
                       IF b = Rebound THEN NewBinding ELSE bindings[b]]
    BY <1>2 DEF Binds
  <2>2. NewBinding.list = <<"message">>
    BY DEF NewBinding
  <2> QED
    BY <1>1, <2>1, <2>2 DEF KeptLists
<1>3. CASE word # "bind"
  BY <1>3 DEF Binds, NoBindings, KeptLists
<1> QED
  BY <1>2, <1>3

\* Every event keeps the lists of keys, in the table and out of it.
LEMMA KeptNext ==
    ASSUME KeptLists, RunIs, [Next]_vars
    PROVE  KeptLists' /\ RunIs'
<1> DEFINE Lists == Seq(Commands \ {"unbindall"})
<1>1. CASE UNCHANGED <<bindings, run>>
  BY <1>1 DEF KeptLists, RunIs
<1>2. ASSUME NEW key \in Key, HandleKey(key) PROVE KeptLists' /\ RunIs'
  <2>1. bindings' = bindings
    BY <1>2 DEF HandleKey
  <2>2. RunIs'
    BY <1>2, KeyRunIs
  <2> QED
    BY <1>2, <2>1, <2>2, KeyRuns DEF KeptLists
<1>3. ASSUME NEW word \in Others, FromElsewhere(word) PROVE KeptLists' /\ RunIs'
  <2>1. run' = run /\ Binds(word)
    BY <1>3 DEF FromElsewhere
  <2> QED
    BY <2>1, BindsKeeps DEF KeptLists, RunIs
<1>4. CASE Exec
  <2> DEFINE word == Head(run.list)
             l == IF word = "error" THEN <<>> ELSE Tail(run.list)
             h == CASE word \in {"bind", "unbind"} -> Removed
                    [] word = "unbindall" -> Held("freed")
                    [] OTHER -> run.held
  <2>1. run.list # <<>> /\ Binds(word) /\ run' = [run EXCEPT !.list = l, !.held = h]
    BY <1>4 DEF Exec
  <2>2. /\ run'.from = run.from /\ run'.list = l /\ run'.held = h /\ run'.key = run.key
        /\ RunIs'
    <3> HIDE DEF l, h
    <3> QED
      BY <2>1 DEF RunIs
  <2>3. run.from = "key" => word # "unbindall" /\ l \in Lists
    BY <2>1, HeadTailProperties DEF KeptLists
  <2>4. h # "freed"
    <3>1. Removed # "freed"
      BY DEF Removed, Held, KeptLists
    <3>2. word = "unbindall" => Held("freed") # "freed"
      BY <2>3 DEF Held, KeptLists
    <3> QED
      BY <3>1, <3>2 DEF KeptLists
  <2> HIDE DEF l, h, word
  <2> QED
    BY <2>1, <2>2, <2>3, <2>4, BindsKeeps DEF KeptLists
<1>5. CASE Finish
  BY <1>5 DEF Finish, KeptLists, Idle, RunIs
<1> QED
  BY <1>1, <1>2, <1>3, <1>4, <1>5
     DEF Next, Event, vars, HandleMouse, HistoryGrows, RepeatTimer, MessageTimer,
         IdentifyTimer, StatusChanges, PaneChanges, AnotherSelects, Loop

\* As long as no key has unbind-key -a among its commands, the commands that run are
\* not freed: dead_key_bindings keeps them when the key is bound anew or unbound.
THEOREM RunningLives == ASSUME Lasting PROVE Spec => []RunningLive
<1>1. Init => KeptLists /\ RunIs
  BY KeptInit
<1>2. (KeptLists /\ RunIs) /\ [Next]_vars => (KeptLists /\ RunIs)'
  BY KeptNext
<1>3. KeptLists => RunningLive
  BY DEF KeptLists, RunningLive
<1> QED
  BY <1>1, <1>2, <1>3, PTL DEF Spec

=============================================================================
