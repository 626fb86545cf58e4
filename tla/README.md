# tmux in TLA+

A specification of the tmux server and its clients: TLA+ modules, the
configurations TLC checks, and theorems that TLAPS proves.  Source files are
named relative to `src/`.

* `PROJECT.json` maps every definition to the lines it models, and lists the
  parts of the program, the runs, the hazards, the findings and the theorems.
* Runs: `tlc -config Session_three.cfg MCSession.tla`; proofs:
  `tlapm SessionProofs.tla`.

## The system

One server process holds all sessions, windows and panes; client processes give
it their terminals over a Unix socket and ask it to run commands.  The server is
single-threaded: an event loop (`server_loop`) calls one handler at a time, and
after each turn sends pending exits, redraws, and frees what is dead.  There are
no locks, so what is hard is not data races but *pointers that outlive what they
point to*, *handlers that change several structures in turn*, *loops over
containers that their body changes*, and *messages that cross*.

| component | state | operations | talks to | hard behaviour | what makes it correct |
|---|---|---|---|---|---|
| sessions and winlinks (`session.c`, `window.c`) | tree of winlinks, current one, stack of last ones, alert flags | new, attach, detach, select, next, previous, last | window commands, clients | current and last pointers when a winlink goes | current window linked; stack sound; falls back to the last |
| session groups (`session.c`) | sets of sessions | add, remove, synchronize | every command that changes a winlink tree | each change is copied to all members, each with its own current window; failure in between | a group shares its windows, and nothing else; counts stay right |
| windows (`window.c`) | reference count, panes | create, link, free | sessions | freed when the count is 0, under loops that unlink it | count = number of winlinks |
| window commands (`cmd-*-window.c`, `server-fn.c`) | - | new, link, move, swap, unlink, kill, select, break | all of the above | several link/unlink steps per command; sessions end meanwhile; fork fails | each step leaves what the next needs |
| clients in the server (`server-client.c`) | session, last session, flags, streams | attach, switch, suspend, lock, lose, exit | sessions, protocol | uncounted pointers to sessions; deferred freeing | session pointer live or null |
| attachment (`resize.c`, `server-fn.c`) | `SESSION_UNATTACHED`, socket mode | recalculate, collect | clients, options | a cached flag, a loop that removes from its tree | only sessions without clients are collected |
| client process (`client.c`) | attached or not, exit reason | dispatch, signals | server | signals, suspension and messages cross | never an unexpected message; terminal returned |
| server process (`server.c`) | clients, dead lists | accept, shutdown, reap, clean | all | shutdown races with commands | ends when told to; dead memory freed |
| choice modes (`window-choose.c`, `cmd-choose-*.c`) | held session and client | open, choose, close | sessions, clients | what they hold may be destroyed | held memory is not freed |
| panes (`window.c`, `cmd-*-pane.c`) | list, active, last, mode, process | split, join, swap, kill, respawn | layout, windows | last pointer; dead pid; failing fork | active and last are panes of the window |
| layout (`layout*.c`) | tree of cells | split, close, resize | panes | rounding, minima | children fill their parent |
| grid, screen, input (`grid.c`, `screen*.c`, `input.c`) | lines, history, cursor, parser state | write, scroll, resize, parse | panes, terminals | limits and boundaries; sequences cut, nested or endless | grid keeps its shape; strings are silent; parser returns to ground |
| terminals (`tty*.c`) | attributes, cursor, key tree | write, read keys | clients | partial keys and a timer | what the terminal shows is what the screen holds |
| copy mode (`window-copy.c`) | cursor, offset, selection | movement, search, copy | grid | offsets against a changing history | inside the grid |
| status line and prompt (`status.c`) | message or prompt, timers | set, clear, key | clients | a callback opens the next prompt | one prompt, freed once |
| key bindings (`key-bindings.c`) | table, prefix and repeat state | bind, lookup, dispatch | clients | unbound while running; repeat timer | a running command list is not freed |
| jobs (`job.c`) | pid, fd | run, output, exit | status, `run-shell` | two ends in either order | freed once, callback once |
| options, environment, paste buffers, commands | tables | get, set, parse | all | inheritance, limits | lookups find the nearest value |
| `compat/`, `osdep-*`, `log.c`, `xmalloc.c` | - | - | - | library and system layer | not modelled, except imsg as a queue |

## Modules

| module | models |
|---|---|
| `Session` | sessions, winlinks, groups, reference counts, all window commands |
| `MCSession` | bounds and symmetry for TLC |
| `SequenceLemmas` | what the operators on sequences do, for the proofs |
| `SessionProofs` | what TLAPS proves about `Session` |
| `SessionClients`, `MCSessionClients` | clients on sessions, the end of sessions, collecting, freeing |
| `SessionClientsProofs` | what TLAPS proves about `SessionClients` |
| `ClientProtocol` | client process, messages, server start and shutdown |
| `ClientProtocolProofs` | what TLAPS proves about `ClientProtocol` |
| `Panes`, `MCPanes` | the panes of windows, the active and the last one, the commands on them |
| `PanesProofs` | what TLAPS proves about `Panes` |
| `LayoutTree` | the tree of layout cells and what is done to it, as operators |
| `Layout`, `MCLayout` | the layout of one window with its panes, its size and its borders |
| `Screen` | a screen and its grid, as operators on one record |
| `PaneScreen` | what a program's output and the users may do to the screen of a pane: the abstract specification of the parser |
| `InputParser`, `MCInputParser` | the parser byte by byte; implements `PaneScreen` |
| `CopyMode`, `MCCopyMode` | copy mode above a pane that `PaneScreen` changes |
| `ScreenProofs` | what TLAPS proves about `Screen`, `PaneScreen` and `CopyMode` |
| `PromptLine` | the line typed at a prompt and the prompts' history, as operators |
| `ClientKeys`, `MCClientKeys` | keys, bindings, prompts, messages, pane numbers and the drawing of a client's terminal |
| `ClientKeysProofs` | what TLAPS proves about `ClientKeys` |
| `Jobs` | background commands, their processes, output and clients |
| `JobsProofs` | what TLAPS proves about `Jobs` |

How they compose: `SessionProofs` extends `Session`;
every other module of proofs extends the one it is about, and those on sequences
`SequenceLemmas`.
`CopyMode` extends `PaneScreen` extends `Screen`; `InputParser` extends `Screen`
and instantiates `PaneScreen`; `Layout` extends `LayoutTree`; `ClientKeys` extends
`PromptLine`.  The others meet in what they choose: `Panes` chooses which panes
are hidden, `Layout` computes it; `SessionClients` chooses when a client is lost,
`ClientProtocol` has the messages that lead to it, and `Jobs` what it leaves.

An operator whose name has an underscore (`Go_KeepsNew`) is the definition that
follows it with a plausible bug.  No specification uses these; they show that a
property notices the bug.

### Session

The variables are the session tree (`sessions`), the session structures (`ses`,
a record of winlink tree `wl`, current index `curw`, stack `lastw` and flagged
indexes `alerts`), the groups, the reference counts, `todo` and `died`.  Winlinks
are identified by their index: within one session an index has at most one
winlink.  Names of sessions and windows, sizes and options other than
`base-index` are left out.

A handler that changes one tree and its group is one action.  A handler that
does so several times is a first action and a continuation in `todo`; as the
server is one thread, nothing else is enabled until `todo` is idle again.
`KillWindow`/`KillVisit`/`KillReturn` are `server_kill_window` and its two loops,
`NewWindowAfter`/`ShiftLink`/`ShiftUnlink`/`ShiftCreate` are `new-window -a`, and
`MoveWindow`/`MoveUnlink` are `move-window`.  Intermediate states are states of
the model, so that invariants see them.

`Publish(s, T, S, r)` is the pattern most commands have: change the session to
`T`, `session_group_synchronize_from`, then `session_select`, giving `S`.
`Synced` is `session_group_synchronize1`.  A null dereference or a `fatalx` is a
value of `died`, after which nothing happens.

Choices that stand for something left out: the first member of a group in
`new-session -t` (the order of the list is not kept), the root of a winlink tree,
and the order in which `server_kill_window` visits sessions (`rename-session`
changes it).  `ForkMayFail` says whether `window_create` may fail.

### SessionClients

Clients, the sessions they and their `last_session` point to, the options
`detach-on-destroy` and `destroy-unattached`, the flag `SESSION_UNATTACHED`, the
trees of live and of dead sessions with the names they are keyed by, the list of
dead clients, and what a choose-window mode holds.  `lost` has the sessions that are
in neither tree: `RB_INSERT` does not enter a session into `dead_sessions` while
one of its name is there (`Entered`).  In `server_check_unattached` such a session
also keeps its old links, from which the loop goes on in the tree of the live ones,
balanced anew; which sessions it still meets is left open (`CheckUnattached`).
`new-session` and `rename-session` give names that no live session has; a session
that is given no name is called by its number, which is taken to be nobody's name
(`session.c:125` does not look).  The
order of `activity` stands for `activity_time`.  An address can be used again
once it has been freed, and `last_session` may still be that address.  Windows
are left out: a session ends by `kill-session`, by closing its last window, or by
being collected.  `Forgotten` is what becomes of the name and the options of a
session that has been freed.  The bits of the socket are there as the variable `socket`; they
follow a cached value and are wrong after `kill-session` and with suspended
clients until a client is lost (`server.c:309`), so that nothing is said of them.

`Together` tells whether clients are suspended while a session has
`destroy-unattached`.  It is FALSE in the run, because `PointersAlive` and
`UnattachedHasNoClient` do not hold otherwise, see below.

### ClientProtocol

Each client process, the two directions of its connection and the server's flags
for it.  The server's output queue (`out`) is lost when it closes the connection;
what is in the socket (`down`) is not.  A client reads a batch into its buffer and
dispatches message by message; `client_dispatch_wait` reads once more first
(`ReadAgain`).  `Coalesce` says whether `MSG_READY` may be read together with
what follows it, `ListFails` whether a command after the one that attaches may
fail.  Whether a terminal can be opened, and when users raise signals, detach,
suspend, lock or shut down, are choices.

### Panes

A window is a record of its panes in order, its active and its last pane, and the
places of the list that are *hidden*, because the window is too small for the
layout; each pane has the window it points to.  One action per command; those
that change the layout or the size of a window choose anew what is hidden
(`LaidOut`), which is more than a layout can do.  Exchanging and rotating panes
leaves the places as they are.  `window_set_active_pane` given a hidden pane goes
on to a visible one (`Shown`).

The program leaves a window's last pane behind, freed or in another window or
equal to the active one, in these cases: `join-pane` takes it away, or makes it
active in the place of the one taken; `respawn-window` frees it;
`window_set_active_pane` or `recalculate_sizes` moves on from a hidden pane and
arrives at it.  With `Behind` FALSE exactly these cases do not occur (the
conjuncts that name `Behind`, and `MayActivate`), so that the run shows that
there are no others.  `Small` says whether windows hide panes.  Once an active
pane is not one of its window's nothing happens any more: the program goes on
with freed memory.

Of `window_create` and `split-window` only success is an action: when the process
cannot be started the window or the pane is removed again and the lists are as
they were.  Which sessions a window is linked to is left to `Session`, so that
`KillWindow` is at once the end of a window.

### LayoutTree and Layout

A cell is a record of type, size, pane and child cells, and is named by the path of
indexes that leads to it.  A size is a function of the direction, which halves
what `layout.c` writes for rows and again for columns.  `LayoutTree` has resizing
a cell and all in it (`Adjust`), splitting, closing, the five named layouts and
the sizes that a layout given as a string must have; offsets are computed
(`Offset`) as `layout_fix_offsets` does.

`Layout` has the window's size, its list of panes, the tree and the *place* of each
pane, which follows its cell only when `layout_fix_panes` is called.  Its actions
are `split-window` (with success and failure), `kill-pane`, `break-pane` and
`join-pane` as the arrival or departure of a pane, `resize-pane`, `select-layout`
by name or string, and a new size of the window.  `died` is `null_cell` when a
neighbour is asked for that is not there.

`screen_redraw_check_cell`, which decides cell by cell of the terminal what is
border, is modelled as `CheckCell` with the search for the first pane that
claims the position, and compared with what the layout says (`BordersDrawn`).

### Screen, PaneScreen and InputParser

The lines of the grid are a sequence with the history first, a cell is one of four
values: default, one column wide, two wide, or padding.  `Screen` has the functions
of `grid.c`, `grid-view.c`, `screen.c` and `screen-write.c` with the same order of
steps and the same early returns; a count that underflows in the code names no
line.  `PaneScreen` has one action per dispatched function, for the two screens of
a pane (`base` and `saved`), beside resizing, `clear-history` and
`respawn-window`.

`InputParser` has the whole table of states of `input.c` as rows *from, to, handler,
next state*, so that a step is one byte: look up the row, run the handler, leave
the old state and enter the new one.  The sizes of the buffers are constants.
`sent` is a history variable: the bytes of the sequence so far; `honest` says
whether all that was executed was what `sent` says (`Agree`).  `Refines` is
`P!PaneSpec`: every byte stream does to the screen only what `PaneScreen` allows
an output to do, so that what `CopyMode` is checked with is what a program can
cause.  The mapping is the identity on `base`, `saved` and `old`.

### CopyMode

`window_copy_mode_data` is the record `copy`: offset, cursor, the column kept, the
mark, what is shown of the selection, the prefix number, the search and the jump.
The backing screen is the pane's own, or `view` when the mode shows the output of
commands.  Each key is an action; where a searched character is found is a choice.
The pane is not read in copy mode, but resizing changes it, and with `Meddle`
(FALSE in the run) so do `clear-history` and `respawn-window`.  `hung` is set when
`window_copy_cursor_end_of_line` never ends.

### PromptLine and ClientKeys

A client's record has its flags, the terminal's flags, a message, a prompt, and
three timers.  A timer is `own` while what it was set for is there and `old` after
that, so that a late one can be told from one in time.  One action is one event:
a key, the mouse, a command from elsewhere, a timer, output of a pane.  A bound
command list then runs command by command (`Exec`, `Finish`), nothing else being
enabled until it is done, and `Loop` is `server_client_loop`: what `status_redraw`
and `screen_redraw_screen` make of the flags (`Fresh`, `Line`, `Full`,
`StatusOnly`, `LastLine`, `DrawnScreen`).  `term` tells which parts of what the
terminal shows are up to date: each pane, each pane's number, the borders and the
last line.  A pane has a flag of its own (`PANE_REDRAW`), the window one for all;
`Bottom` has the panes that reach the last line of the terminal, which lie over a
message or a prompt of a client without a status line.  Borders are `stale` when
something has flagged them and `missed` when the active pane is another one and
nothing has: another client of the window has chosen a pane by its number
(`AnotherSelects`), which redraws that client only.

A word is a command name or anything else one may type; the editing keys treat a
word as the code treats a character.  `MCClientKeys` checks the operators of
`PromptLine` over longer lines than the run has as `ASSUME`s (`EditSound`,
`EditInverse`).

`server_client_check_backoff` is never called and nothing sets `TTY_BACKOFF`,
`CLIENT_BACKOFF` or `CLIENT_REDRAWWINDOW`: this part of the code is dead and not
modelled.

### Jobs

A job is the server's record (`job`), its process is `child`.  `job_died` and
`job_callback` may come in either order; the second runs the callback and frees.
A client has the two trees of results of its status line, whether it waits for a
command's answer, and its count of references.  A fork may fail (`failed`).  What
a callback does to a client that is lost or has left its session may be the end of
the server (`died`): freed memory or a null session.

## Runs

Symmetry is used only for safety; the runs with a liveness property have none.
`SessionClients` and `ClientKeys` are checked for deadlock: users can always do
something there.  Nothing happens in `Session`, `Panes`, `Layout` and `Jobs` once
the server has died, nothing in `ClientProtocol` once every client has left and
the server is gone, and nothing in `CopyMode` and `InputParser` once the steps are
used up, so their configurations have `CHECK_DEADLOCK FALSE`.

| run | instance | shows |
|---|---|---|
| `Session_three` | 3 sessions, 2 windows, indexes 0 and 1, one alert | groups of three, and a group beside a single session: reference counts, sharing, independence, current windows, stacks, kill-window everywhere |
| `Session_two` | 2 sessions, 1 window, indexes 0..3, with fairness | stacks, the fallback to the last window; every kill-window ends |
| `Session_shift` | 2 sessions, 1 window, indexes 0..3, forks fail | `new-window -a` moves windows: every intermediate state |
| `Clients_all` | 2 clients, 2 sessions, 2 names, two kinds of options, suspension and locking, with fairness | session pointers, memory held by choose-window, collecting, nobody left behind; what is in `dead_sessions` is freed |
| `Protocol_one` | 1 client, every command, suspension, start and shutdown, with fairness | what a client says when it leaves is true, the terminal is quiet while suspended; exits and detaches end |
| `Panes_all` | 2 windows, 4 panes, windows too small at times | every pane in one window; active and last are two panes of the window; what is active and last when any pane goes |
| `Panes_behind` | 2 windows, 4 panes, all cases | a finding, see below |
| `Copy_mode` | screens 2 or 4 wide and 4 or 5 high with history, 3 steps | the grid keeps its shape; cursor, offset and mark are in it; the alternate screen keeps the history |
| `Input_parser` | 15 bytes and 17 bursts, 2 dispatches, small buffers | no fatal error, sequences executed as sent, strings silent, recovery from any state; the refinement |
| `Layout_all` | 3 panes, 2 window sizes, every operation | the tree is well formed, sizes add up, borders are drawn where panes are not, closing gives the space to a neighbour |
| `Keys_all` | 1 client of two kinds, 2 panes, 4 keys, 2 events a turn | a frozen terminal is thawed and drawn, one prompt and its data, the commands of a key stay, late timers take nothing, confirm-before asks |
| `Jobs_all` | 1 client, 2 jobs, 3 references, with fairness | references and jobs agree, no result before its end, every job that has ended is freed |

The bounds.  Two sessions are the least for a group, three the least for a group
whose third member differs or for a session beside a group; two windows suffice
for every property on links, since each is about one window and what replaces
it; where only positions matter there is one window, linked at several indexes.  Two indexes allow a current window and a last one, linked to one window or
to two.  With three and more, falling back to the last window differs from going to the
previous one.  With four `new-window -a` has a window to shift (it never uses
the largest index); that a shift of any number of windows leaves each of its
steps what it needs is proved (`HandlersSound`).
`MaxStack` and `MaxAlerts` bound what is explored: states
with more entries on a stack or more flagged windows are checked and not
continued.
Two clients are the least for one to lose a session by what another does;
`MCSessionClients` gives sessions `destroy-unattached` or `detach-on-destroy` off, as
what they do to a client differs most then.  Two sessions and two names are the
least for one to end while a dead one of its name is still there; for
`server_check_unattached` to collect two at once it takes three sessions, and that
what holds of one session holds then too is proved (`CheckProps`).
One client is enough for the protocol, as clients meet only in the server: what the
others do is that there is a server with a session already, that sessions end, and
that the server is told to shut down.
`MaxQueue` bounds what users add to the queues of one client, not what the
programs answer.
Commands on panes touch two windows at most.  With four panes a window can have
an active pane, a last one and one on either side, and a pane be in the other
window at the same time.
`Layout_all` has the three panes needed for a container inside another;
`MaxCells` bounds the cells, which failed splits leave behind; its window
is large enough for three panes, or too small for some of their arrangements.
`Depth` and `Effects` bound the steps of programs and users, as nothing in the
code does: three steps are enough for one that prepares a state, one that makes it
stale and one that uses it, from screens that have history, a wrapped line, wide
characters and a scroll region already.  The buffers of the parser are cut to 1, 4
and 1 bytes and 3 parameters, so that each is overrun by a sequence of a few bytes.
Two panes, one at the bottom and one not, are the least for one to be drawn while
the other is not.
`MaxEvents`: two events between two turns of the loop are the least for one to undo
what another has flagged.  `MaxLine` (words in a prompt) and `PromptHistory` are 1
in the run and longer in the `ASSUME`s.
`MaxReferences` bounds how often a result is asked for anew while jobs are slow;
with three a reference left by a failed fork meets two jobs.

Fairness.  `Session!FairSpec` has weak fairness of `Continue`: a handler that has
begun runs to its end, since nothing interrupts it.  `SessionClients!FairSpec`:
the loop goes round after every event, so dead structures are looked at again and
exits are sent.  `ClientProtocol!FairSpec`: both event loops serve a descriptor
that stays readable or writable and a signal that is pending.  `Jobs!FairSpec`:
`server_loop` takes the end of a process, output and its end when they are there.
Nobody has to type, a stopped client may stay so, and the process of a job need
neither write nor end.

### Where the program departs from what is said of it

`Panes_behind` is expected to fail, and its trace is the scenario: `respawn-window`
frees the panes but one and leaves the window's last pane; `last-pane` then makes
the freed pane active (`ActiveOwned`).

Two more departures are in the models in every run, as values of their state that
the properties except by name:

* `dead_sessions` is keyed by name, and a session that ends while a dead one of its
  name is there is not entered and never freed (`session.c:163`; the set `lost` of
  `SessionClients`, which no action makes smaller).  The comment `server.c:264` says
  "Free dead, unreferenced clients and sessions."  The first need not be held by a
  mode: it is enough that `server_clean_dead` has not run between the two.
  `DeadFreed` says what is so: the sessions that are in `dead_sessions` are freed.
  With `dead \cup lost` in the place of `dead` it fails.
* A digit typed while pane numbers are shown makes another pane active and redraws
  the client that typed it (`server-client.c:299`); the others on the window keep
  the borders of the old active pane until something else makes them draw (borders
  that are `missed` in `ClientKeys`).  `TerminalSound` says that nothing else is left
  undrawn; with `missed` excluded too it fails when another client has chosen a
  pane and the loop has gone round.

The rest was met while modelling and has no run of its own.  Some of it the
models do, and the passing runs are about what holds beside it: `ForkMayFail`,
`OptionType`, `Together`, `Coalesce`, `Behind`, `Small`, `Tight`, `Meddle` and the
bindings of `MCClientKeys` say in each configuration which of it can occur.  Some
is left out of them, and is here so that nobody takes it for checked: the global
`destroy-unattached`, sessions named by numbers, another `repeat-time`, and what a
callback does with a client that is gone (in `Jobs` only that the server may die).

Sessions and clients:

* `new-window -k` on the only window of a session, when its process cannot be
  started: the old window is gone, and the session has no window and no current
  one (`cmd-new-window.c:87`); tmux.1:533 says each session has one or more.
* With `destroy-unattached` a session is collected under a locked or suspended
  client, as `recalculate_sizes` does not count it, and nobody tells the client
  (`resize.c:59`): `PointersAlive` fails with `Together` TRUE.
* With the global `destroy-unattached` on a dead session can be destroyed again
  (`server-fn.c:421`): the loop goes on in `dead_sessions`.
* A session that is given no name is called by its number even if another session
  has that name, and is then not entered into the tree of sessions (`session.c:125`).
* `MSG_READY` read together with the message after it is fatal to the client, as
  the dispatch function was chosen before (`client.c:421`, `Coalesce`).
* A command that is under way when the server is told to shut down may make a
  session that nobody destroys; the server stays up (`server.c:346`).
* `kill-session` followed by another command in one list dereferences the null
  session of the client in `status_message_set`.
* After a failed `new-window -k` in a group, the group is not alike, and
  kill-window can leave a link: each removal is copied to the group and brings
  the window back in a session already visited (`cmd-new-window.c:115`).  So
  `KillDone` is checked without failing forks.
* `new-window -a` after the window at index `INT_MAX` overflows and ends the
  server: `fatalx("bad index")` (`cmd-new-window.c:54`, value `bad_index` of
  `died`).
* With `detach-on-destroy` off a client goes to the session with the *least*
  `activity_time` (`server-fn.c:377`); tmux.1:1824 says the most recently active.
* When the last window of a session goes, `detach-on-destroy` is looked up in
  options that have been freed, so that the global value counts
  (`server-fn.c:390`).
* `attach-session` from a key binding does not collect the session the client
  leaves, `switch-client` does (`cmd-attach-session.c:108`).
* Of several sessions to collect only the first is, as `session_destroy` moves
  the loop into `dead_sessions` (`server-fn.c:421`), unless it cannot be entered
  there.
* `switch-client -l` may go to a session the client was never on, when it has the
  address of its last one (`session.c:52`).
* A hidden pane that is made active (by `last-pane`, `rotate-window`, a swap)
  gives way to a visible one, which may be the one just recorded as the last.
  When that pane ends the window falls back to it (`window.c:347`, `window.c:390`).
* `respawn-window` whose process cannot be started has freed the layout already:
  `layout_close_pane` follows a null cell, or with `remain-on-exit` the window
  keeps a freed layout (`cmd-respawn-window.c:86`).
* `swap-pane -d` of two panes of one window looks at the active pane twice
  (`cmd-swap-pane.c:127-130`): when the target is active the source becomes
  active in its place; when the source is active it stays so, and the target
  becomes the last pane.  tmux.1:1435 says `-d` does not change the active pane.
* `join-pane` of the active pane goes to the pane before it, not to the last one.
* A client that is refused, or gets the shell, may find the connection closed at
  its second read and die of `imsg_read failed` with the answer in its buffer
  (`client.c:372`).

Layout and screens:

* `main-horizontal` and `main-vertical` leave a row with one cell when the window
  is too small for all panes; `kill-pane` or `resize-pane` then dereferences a null
  cell (`layout.c:347`); `tiled` has the check they lack.  With more panes than
  columns, or `other-pane-width` wider than the window, unsigned sizes wrap
  (`WindowAssumption`).
* A split whose process cannot be started leaves its cell in the tree without a
  pane (`cmd-split-window.c:147`).
* `tiled` and `main-*` may leave a root whose size is not that of its rows; the
  layout `list-windows` shows then gives other sizes when it is selected again
  (tmux.1:959).
* Clearing the screen moves lines to the history without looking at
  `history-limit` (`HistoryBounded` of `CopyMode` does not hold); with a limit of
  0 the count of history lines wraps (`grid.c:163`), which `StartAssumption`
  excludes.
* In a pane of less than four lines `window_copy_scroll_to` leaves no gap and puts
  the cursor below the last line (`window-copy.c:844`); the run has panes of four
  and five.
* Insert mode moves lines counted from the top of the history, and so changes the
  history even on the alternate screen (`AlternateKeepsHistory` excludes it).
* A selection that ends at the end of a wrapped line loses its last character
  (`FinalNewlineRemoved` does not hold); the end-of-line key hangs the server when
  the last line is a wrapped one (`HangsOnlyAtTheEnd`); searching down finds nothing in
  the last line.
* `clear-history` and `respawn-window` in copy mode leave an offset beyond the
  history (`Meddle`).
* A sequence with exactly 24 parameters is ignored; the number of an OSC string
  overflows; strings cut short by CAN, SUB or ESC take effect; a UTF-8 character cut
  short swallows the byte that follows; `respawn-window` does not reset the parser.

Keys, prompts and jobs:

* `unbind-key -a` frees the command list that runs: after
  `bind x unbind-key -a \; display-message` the next command is read from freed
  memory, and `RunningLive` fails (`cmd-unbind-key.c:63`; tmux.1:496).
* `command-prompt -t` of a read-only client puts up a prompt nobody can answer: its
  keys are swallowed and its terminal stays frozen.
* Without a status line a message or a prompt lies over the last line of a pane,
  and the end of the pane numbers, or a pane that is drawn again, overwrites it.
* A `command-prompt` in the commands of a command prompt is closed at once;
  `confirm-before` in those of a `confirm-before` too.
* `repeat-time` set to 0 during a repeat leaves `CLIENT_REPEAT` set: the old timer
  then takes a prefix that was pressed anew (`RepeatTime` is constant here).
* `if-shell` runs its commands with a client that may be lost or have no session,
  through a context copied from a stack frame that is gone (`cmd-if-shell.c:91`,
  value `freed` of `died`); `run-shell` looks first.
* When a job cannot be forked its reference stays counted: a lost client is never
  freed, and a command in a shell waits for ever.
* The output of an old job is taken for the result of the one started anew; slow
  jobs pile up at each `status-interval`; a process that leaves another behind with
  its output never ends as a job.

## Proofs

`SessionProofs` proves, for all sets of sessions and
windows and every largest index, from `SessionAssumption` (finitely many
sessions), `WindowAssumption`, `IndexAssumption` and `ForkAssumption`:

| theorem | says |
|---|---|
| `TypeCorrect` | `TypeOK` |
| `GroupsWellFormed` | groups are disjoint, of two or more live sessions |
| `HandlersSound` | what is left of a handler can be done |
| `OthersUnaffected` | the end of a session changes no other |
| `CurrentIsIndependent` | no step moves two current windows of a group, except off a window that goes |
| `RefCountIsRight` | a window's count is the number of its winlinks |
| `GroupsShare` | without failing forks, a group shares its windows |
| `CurrentIsLinked` | ... every current window is linked |
| `StackIsSound` | ... every stack is sound |
| `NeverNull` | ... no null current window is dereferenced |
| `FallsBackToLast` | ... who loses the current window goes back to the last one |
| `KillFrees` | ... `server_kill_window` leaves no link, and frees the window |

None of the properties is inductive alone.  `CurrentLinked` of a member needs
that the target of a synchronization has windows and lacks at most the one just
removed, which needs that the group was alike before (`GroupShare`); that needs
groups to be disjoint sets of live sessions (`GroupWellFormed`); a step of a
continuation needs that what it is about is still there (`TodoSound`).  The
inductive invariant `IInv` is their conjunction with the types, where everything
about current windows and alike groups is under `~ForkMayFail`: a failed
`new-window -k` breaks it.

The first part of `SessionProofs` has what the operators do to one session: `Keep`
on duplicate-free stacks, `MoveOff` (which ends on another linked window if there
is one), `Detach` and `Synced` (which give sound sessions).  Then there is one lemma
per way to change the state (`Publish`, `Destroy`, a session's own change) and
then one step per action; the action properties have again one lemma per way and
one per action (`ApartMoves`, `Back`).

A window's count is a sum over sessions.  The proof writes it as one cardinality,
of the set of pairs of a session and an index that link the window
(`SessionProofs!CountIn`), so that the library's facts on finite sets apply.
`CountSplit` takes a session out of that sum, and `Balanced(r, s, T)` says that
the counts `r` fit once `s` has become `T`: each operation that changes one
winlink tree balances its own change, a synchronization one member after the
other.  None of this needs groups to be alike, so that `RefCountIsRight` holds with
failing forks as well.  `KillFrees` does: `Visited` (the sessions that
`server_kill_window` has been to do not have the window) is inductive only
because a visit takes the window from a whole group at once.  TLC shows that
`KillDone` is false otherwise, see above.

`SessionClientsProofs` proves about `SessionClients`, for every set of sessions and
clients:

| theorem | says |
|---|---|
| `TypeCorrect` | `TypeOK` |
| `HeldIsThere` | what a choice mode holds is not freed |
| `PointersAreAlive` | without `Together`, `PointersAlive` |
| `UnattachedIsFree` | ... `UnattachedHasNoClient` |
| `NobodyLeftBehind` | ... `NoClientLeftBehind` |

The first two follow from `Base`: a session that ends is in one of the trees or in
neither, and no tree has two of one name (`DestroyProps`); and the order of
sessions is without repetition, so that leaving out what has ended, which `Forget`
does by recursion, leaves no second mention (`ForgetProps`).  The
others fail with `Together` (the finding on `destroy-unattached` above).
Without it no session has `destroy-unattached` while a client is suspended
(`DestroysAlone`): then a session that is collected has no client
at all (`UnattachedHasNoClient`), so that no session pointer is left at it
(`ClientSessionAlive`).  These are inductive together and not one by one.

`PanesProofs` proves about `Panes`, for every set of windows and panes, with windows
too small or not, and without `Behind`:

| theorem | says |
|---|---|
| `PanesAreSound` | `PanesSound` |
| `ActiveIsOwned` | `ActiveOwned` |
| `FallsBackToLastPane` | `FallBackToLastPane` |

`FallBackToLastPane` is about any pane that goes: the active one, the last one, or a
third, which must change neither.  With `Behind` all three theorems are false.  `Shape` is what one window must be (no pane
twice, the active and the last one two panes of it), and `IInv` that all are and
that lists and pointers agree.  The lemmas give what removing, inserting and
exchanging does to a `Shape`; `OneWindow`, and the one for two windows, bring that
to the whole state.  `kill-pane -a` removes panes in a loop, modelled as the
recursive function in `Only`; what it gives is shown place by place of the list,
by looking at the first one where it would be wrong.  What taking out, putting in
and rotating do to a sequence without repetition is stated once, in
`SequenceLemmas`.

`JobsProofs` proves `JobsAgree` (`JobSound`) for every finite set of job records
and every set of clients and lines, from `JobAssumption`.  `JobSound` is not
inductive: that a job ends with its *whole* output needs that output marked as
ended had been read to its end (`OutputRead`); that a line's result reaches it
needs that the job of a status line has a line (`StatusLines`); and that a client
without jobs may be freed needs what a lost client is left with (in `Agrees`,
which is `JobSound` for one client, said so that one step can be followed).  A step
that starts and ends no job of a client keeps it agreeing (`Same`, `Untouched`);
`JobRunSound` and `FinishSound` are the two that do, and each action's lemma rests
on one of these.

`ClientProtocolProofs` proves about `ClientProtocol`, from
`CommandAssumption`, for every set of clients, every number of signals and queues
of any length:

| theorem | says |
|---|---|
| `TypeCorrect` | `TypeOK` |
| `SuspendIsSound` | `SuspendSound` |
| `ReasonIsTrue` | `ReasonTrue`, if `~Coalesce` |

For `SuspendSound` the types are strengthened by `Order` (the command is the first
message from a client; until it is read the client has no session and no flag; a
bad client has no session) and by `Woken`, where a pending `SIGCONT` counts only if
the client is attached, since `client_signal` answers no other.  `ReasonTrue` is
about what is said at the end, and its invariant about the whole way to it
(`Told`).  The messages to a client are taken as one sequence, `Stream`, wherever
they are: reading and writing the socket do not change it.  Before `MSG_READY` it
holds nothing that is for attached clients (`Sorted`), after it no second one and
no answer to another command (`Reads`); while the command is unread it holds at
most `MSG_SHUTDOWN` (`Asked`); `MSG_EXITED` is in it only with the terminal closed
(`Left`); and a connection closed on a client of another version has `MSG_VERSION`
in it (`Answered`).  Where `~Coalesce` is needed is `Waiting`: `MSG_READY` is the
last message of a batch, so that the dispatch function chosen before it is not used
after it.  Both proofs look at the client of a step alone: all others are as they
were (`OneClient`, `OneTold`), and a step falls under one lemma about what it does
to the `Stream` (`LeaveTold`, `TakeTold`, `WriteTold`, `DropTold`, `QuietTold`).

`ClientKeysProofs` proves about `ClientKeys`, from `KeysAssumption`,
`PromptAssumption` and `NoneAssumption` (the value for *no prompt* is not a prompt),
for every table of keys, lines and a history of any length, and any number of
events between two turns of the loop:

| theorem | says |
|---|---|
| `TerminalIsSound` | `TerminalSound` |
| `PromptIsSound` | `PromptSound` |
| `PrefixIsKept` | `PrefixKept` |
| `ConfirmIsAsked` | `ConfirmAsks` |
| `RunningLives` | `RunningLive`, if no key has `unbind-key -a` among its commands (`Lasting`) |

`TerminalSound` speaks of the moments when nothing is left to draw; in between,
`IInv` says that what is not up to date will be drawn.  For each pane, the numbers,
and the borders that are `stale`, that is a flag each (`Drawable`); nothing is
proved of borders that are `missed`, which nothing flags.  For the last line it is more
(`Painted`): `status_redraw` draws nothing when the line it makes is the one it made
before, so a last line that is wrong needs either `CLIENT_REDRAW` or that the line
made before was another.  The invariant alone does not say that a flag set
for one reason survives what clears it for another: `Goes` does, of every operation
on a client (what was to be drawn still is, and whatever thaws the terminal sets
`CLIENT_REDRAW`), and operations one after the other compose (`GoesTwice`).  `Goes`
also has that none of them takes the repeat timer away, so that `PrefixKept` is
left to the timer itself, where `Keyed` makes it true: a prefix that a key has set is
not a repeat.  There is a lemma for each operation, and for each event the ones of
the operations it calls.  The line at the prompt is apart: `EditKeeps` for every
editing key and line, `HistoryKeeps` for every history, full ones included, and
`GrowsFits` for a history that other clients add to while a line of it is shown.
`RunningLives` needs `Lasting`: without it the commands that run are freed, see above.

`ScreenProofs` proves about a pane's screen under `CopyMode`, for every size,
parameter and number of steps, with `Meddle` or without, from `StartAssumption`
(the pane starts with a whole screen, its history limit not 0), `SizeAssumption`
(at least two columns and a line) and `CountAssumption`:

| theorem | says |
|---|---|
| `ScreenIsWhole` | `ScreenSound` |
| `HistoryKept` | `AlternateKeepsHistory` |
| `CopyIsSound` | `CopySound`, if not `Meddle` and no screen has less than four lines |

The first two rest on one lemma per function of the screen.  `Drawn(S, T)` says that `T` is
what a write may make of `S`: a whole screen of the same size whose history is that
of `S` unless `S` collects history or inserts.  Most functions only
change lines (`Redrawn`), so that what they leave alone need not be said again.
Writes one after the other compose, and what a step of the parser does is one of
these writes.  The invariant (`IInv`) is more than `ScreenSound`: the saved
lines are as many as the saved height, since `window_pane_alternate_off` copies
them onto a screen it has made as high; the saved cursor and the position kept by
DECSC are positions; and the alternate screen has no history flag (`Alternate =>
~base.hist`).  Without the last one nothing keeps the history: it is a flag of the
grid that `window_pane_alternate_on` clears, that a resize, a reset, `clear-history`
and `respawn-window` must leave as it is, and that every scroll looks at again.

`CopyIsSound` holds for every `Repeats`, also from `RepeatAssumption`.  Its two
hypotheses are the two places where the code leaves the lines that there are (see
"Where the program departs" above), and the run `Copy_mode` satisfies both.  The invariant has
two parts.  `Good(B, c)` is kept by each function of `window-copy.c`, whatever moved
the cursor before: the cursor is on the screen, the offset in the history, the mark
on a line, and what is shown of the selection is what
`window_copy_update_selection` would show but for its last column.  `CInv` says which
screen that is: the pane is not read while the mode is on, so that its lines stay;
the mode's own screen is whole and unlimited, so that lines added to it move the
offset by as many lines as its history grew and the mark keeps its line; a resize
clears the mark and cuts the rest.  `HangsOnlyAtTheEnd` needs how far a loop has
come: after *i* steps of `window_copy_cursor_end_of_line` the cursor is on a line that
is not wrapped, or on the *i*-th at least, or on the last (`DescendTo`).  The loops
are functions of the number of steps, and `IterateThrough` is the induction over it,
from the least number of steps that would be wrong.

Only model-checked: liveness (`KillEnds`, `DeadFreed`, `LeavingEnds`, `JobsEnd`),
which is outside the prover's reach; copy mode with `Meddle`, where `CopySound` does
not hold, and what it copies; the parser, whose handlers are induction over lists of bytes; and
`Layout`, since trees are recursive and `LayoutTree` has recursive operators.

## Not modelled

* Names of windows, and in `Session` those of sessions, which are addresses: what
  depends on the order of names there is a choice (`server_kill_window`).  In
  `SessionClients` names are numbers, and every session is given one.
* `exit-unattached`, and which client a window's size comes from.
* What is written to a terminal: `tty.c` is there as ready, started, stopped, closed
  or frozen, and as *up to date or not*.  Its caches of the cursor and the
  attributes, terminfo, and the timer of a partial key are left out.
* Formats, styles, titles, colours and attributes.
* Pipes of panes, the clock, the lists of the choice modes, `send-keys`, paste
  buffers as a stack, the inheritance of options, the environment, automatic names.
* The parsing of commands and the lookup of what they are about.
* Message contents, descriptors, partial reads and writes of messages.
* Two servers started at the same time for one socket path (`server.c:85`).
* `compat/`, `osdep-*`, `log.c`, `xmalloc.c`.

## Plan

1. Proofs: of `InputParser`, the sequence executed and the strings (`Agree`), which
   do not depend on the grid.
2. `ServerStart` (two servers, the lock timer), the key tree with its timer, the
   terminal's cursor cache, `Paste` and `Options`.
3. An abstract specification of a group, *one list of windows and a current
   window per session*, implemented by `Session` through a refinement mapping,
   and one of the protocol, *a client is attached, then gone*.
