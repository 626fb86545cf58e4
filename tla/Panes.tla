------------------------------- MODULE Panes -------------------------------
(***************************************************************************)
(* The panes of windows: the list of a window's panes, its active and its  *)
(* last pane, and the commands that make, move, swap and end panes         *)
(* (window.c, cmd-*-pane.c, cmd-rotate-window.c, cmd-respawn-window.c,     *)
(* server_destroy_pane).                                                   *)
(*                                                                         *)
(* A window points to its active and to its last pane, a pane to its       *)
(* window; nothing else says where a pane is.  Each command updates the    *)
(* pointers on its own.  Some leave the last pane behind: with Behind the  *)
(* users give these too.                                                   *)
(*                                                                         *)
(* Of the layout only this is kept: which places of a window are hidden    *)
(* because the window is too small for them.  What a new layout or a new   *)
(* size hides is a choice; with Small FALSE it hides nothing.              *)
(*                                                                         *)
(* An operator with an underscore in its name is a variant with a bug of   *)
(* the definition after it, used to see that a property notices the bug.   *)
(***************************************************************************)
EXTENDS Naturals, FiniteSets, SequencesExt

CONSTANTS
    WindowId,
    PaneId,
    NoPane,
    NoWindow,
    Behind,     \* is a window's last pane left behind: gone, or made active?
    Small       \* may windows be too small to show all of their panes?

ASSUME NoneAssumption   == NoPane \notin PaneId /\ NoWindow \notin WindowId
ASSUME OptionAssumption == Behind \in BOOLEAN /\ Small \in BOOLEAN

VARIABLES
    win,        \* the windows: panes in order, active and last pane, and
                \* the hidden places
    window,     \* the window each pane points to
    dead,       \* panes whose process is gone (fd = -1)
    died        \* "no", or what has ended the server

vars == <<win, window, dead, died>>

WinType == [panes  : Seq(PaneId),
            active : PaneId \cup {NoPane},
            last   : PaneId \cup {NoPane},
            hid    : SUBSET Nat]

NoPanes == [panes |-> <<>>, active |-> NoPane, last |-> NoPane, hid |-> {}]
Single(p) == [NoPanes EXCEPT !.panes = <<p>>, !.active = p]

Live    == {w \in WindowId : win[w].panes # <<>>}
In(w)   == ToSet(win[w].panes)
Free    == {p \in PaneId : window[p] = NoWindow}

At(q, p)   == CHOOSE k \in DOMAIN q : q[k] = p
\* TAILQ_PREV and TAILQ_NEXT, and NoPane at the ends.
Before(q, p) == IF At(q, p) = 1 THEN NoPane ELSE q[At(q, p) - 1]
After(q, p) == IF At(q, p) = Len(q) THEN NoPane ELSE q[At(q, p) + 1]
Or(p, q)   == IF p # NoPane THEN p ELSE q

\* window_pane_visible.
Visible(W, p) == At(W.panes, p) \notin W.hid

\* From p backwards, and round, to a visible pane; p itself if there is none, or
\* if p is not a pane of the window (whatever its memory says).
Shown(W, p) ==
    LET n == Len(W.panes)
        Back(d) == ((At(W.panes, p) + n - 1 - d) % n) + 1
        ds == {d \in 0..n - 1 : Back(d) \notin W.hid}
    IN  IF p \notin ToSet(W.panes) \/ ds = {} THEN p ELSE W.panes[Back(Min(ds))]

\* window_set_active_pane.
SetActive(W, p) ==
    IF p = W.active THEN W
    ELSE [W EXCEPT !.last = W.active, !.active = Shown(W, p)]

\* Is p not one whose hiding would bring back the pane that has become the last?
MayActivate(W, p) == Behind \/ p = W.active \/ Shown(W, p) # W.active

\* A window with its panes laid out anew.
LaidOut(W) == {[W EXCEPT !.hid = h] :
                  h \in IF Small THEN SUBSET (DOMAIN W.panes) ELSE {{}}}

RemovePane_KeepsLast(W, p) ==
    LET q == RemoveFirst(W.panes, p)
        beside == Or(Before(W.panes, p), After(W.panes, p))
    IN  IF p = W.active
        THEN [W EXCEPT !.panes = q, !.active = Or(W.last, beside), !.last = NoPane]
        ELSE [W EXCEPT !.panes = q]
RemovePane_Beside(W, p) ==
    LET q == RemoveFirst(W.panes, p)
        beside == Or(Before(W.panes, p), After(W.panes, p))
    IN  IF p = W.active
        THEN [W EXCEPT !.panes = q, !.active = beside, !.last = NoPane]
        ELSE [W EXCEPT !.panes = q, !.last = IF @ = p THEN NoPane ELSE @]
RemovePane_Third(W, p) ==
    LET q == RemoveFirst(W.panes, p)
        beside == Or(Before(W.panes, p), After(W.panes, p))
    IN  IF p # W.last
        THEN [W EXCEPT !.panes = q, !.active = Or(W.last, beside), !.last = NoPane]
        ELSE [W EXCEPT !.panes = q, !.last = NoPane]

\* window_remove_pane: the last pane becomes active in the place of the active
\* one, or, if there is none, the pane before or after it.
RemovePane(W, p) ==
    LET q == RemoveFirst(W.panes, p)
        beside == Or(Before(W.panes, p), After(W.panes, p))
    IN  IF p = W.active
        THEN [W EXCEPT !.panes = q, !.active = Or(W.last, beside), !.last = NoPane]
        ELSE [W EXCEPT !.panes = q, !.last = IF @ = p THEN NoPane ELSE @]

\* The window without p; window_destroy if it was the last pane.
Without(W, p) == IF Len(W.panes) = 1 THEN NoPanes ELSE RemovePane(W, p)

\* A pane that is not there any more, a window that was freed.
Freed(f, ps) == [p \in PaneId |-> IF p \in ps THEN NoWindow ELSE f[p]]

\* The server runs, and no window has been left with an active pane that is not
\* its own: what happens from there on depends on freed memory.
Ready == died = "no" /\ \A w \in Live : win[w].active \in In(w)

(***************************************************************************)
(* Making and ending panes.                                                *)
(***************************************************************************)
\* window_create.
NewWindow(w, p) ==
    /\ Ready
    /\ w \notin Live /\ p \in Free
    /\ win'    = [win EXCEPT ![w] = Single(p)]
    /\ window' = [window EXCEPT ![p] = w]
    /\ UNCHANGED <<dead, died>>

\* split-window: the pane is inserted after the active one, whichever is split.
\* If its process cannot be started it is removed again: nothing changes here.
SplitWindow(w, p, det) ==
    LET W == win[w]
        N == [W EXCEPT !.panes = InsertAt(@, At(@, W.active) + 1, p)]
    IN  /\ Ready
        /\ w \in Live /\ p \in Free
        /\ \E L \in LaidOut(N) :
              /\ det \/ MayActivate(L, p)
              /\ win' = [win EXCEPT ![w] = IF det THEN L ELSE SetActive(L, p)]
        /\ window' = [window EXCEPT ![p] = w]
        /\ UNCHANGED <<dead, died>>

\* kill-window, and server_kill_window of a window without panes.
KillWindow(w) ==
    /\ Ready
    /\ w \in Live
    /\ win'    = [win EXCEPT ![w] = NoPanes]
    /\ window' = Freed(window, In(w))
    /\ dead'   = dead \ In(w)
    /\ UNCHANGED died

\* kill-pane.
KillPane(w, p) ==
    /\ Ready
    /\ w \in Live /\ p \in In(w)
    /\ \E L \in LaidOut(Without(win[w], p)) : win' = [win EXCEPT ![w] = L]
    /\ window' = Freed(window, {p})
    /\ dead'   = dead \ {p}
    /\ UNCHANGED died

\* The window without the panes but p; left[n] is after the first n have been
\* looked at.  (A fold would do; this can be reasoned about.)
Only(W, p) ==
    LET left[n \in 0..Len(W.panes)] ==
            IF n = 0 THEN W
            ELSE IF W.panes[n] = p THEN left[n - 1]
            ELSE RemovePane(left[n - 1], W.panes[n])
    IN  left[Len(W.panes)]

\* kill-pane -a: the other panes one by one, from the first.
KillOthers(w, p) ==
    LET others == In(w) \ {p}
    IN  /\ Ready
        /\ w \in Live /\ p \in In(w) /\ Len(win[w].panes) > 1
        /\ \E L \in LaidOut(Only(win[w], p)) : win' = [win EXCEPT ![w] = L]
        /\ window' = Freed(window, others)
        /\ dead'   = dead \ others
        /\ UNCHANGED died

\* server_destroy_pane: the pane's terminal is closed or its process ends; with
\* remain-on-exit the pane stays.
DestroyPane(p, remain) ==
    LET w == window[p]
    IN  /\ Ready
        /\ w # NoWindow
        /\ IF remain
           THEN dead' = dead \cup {p} /\ UNCHANGED <<win, window>>
           ELSE /\ \E L \in LaidOut(Without(win[w], p)) : win' = [win EXCEPT ![w] = L]
                /\ window' = Freed(window, {p})
                /\ dead'   = dead \ {p}
        /\ UNCHANGED died

\* What respawn-window makes of a window: only its first pane is left, in a new
\* layout.
Respawned(W) ==
    SetActive([W EXCEPT !.panes = <<Head(@)>>, !.hid = {}], Head(W.panes))

\* respawn-window: without -k every process must be gone.  The last pane is not
\* looked at.
RespawnWindow(w, kill) ==
    LET gone == In(w) \ {Head(win[w].panes)}
    IN  /\ Ready
        /\ w \in Live
        /\ kill \/ In(w) \subseteq dead
        /\ Behind \/ Respawned(win[w]).last = NoPane
        /\ win'    = [win EXCEPT ![w] = Respawned(@)]
        /\ window' = Freed(window, gone)
        /\ dead'   = dead \ In(w)
        /\ UNCHANGED died

\* respawn-window whose process cannot be started: the layout has been freed, and
\* server_destroy_pane closes the layout cell the pane no longer has; or, with
\* remain-on-exit, leaves the window without layout.
RespawnFails(w, kill, remain) ==
    /\ Ready
    /\ w \in Live
    /\ kill \/ In(w) \subseteq dead
    /\ died' = IF remain THEN "freed_layout" ELSE "null_pointer"
    /\ UNCHANGED <<win, window, dead>>

(***************************************************************************)
(* Moving and selecting panes.                                             *)
(***************************************************************************)
\* The window join-pane takes p from: the pane before or after it becomes active
\* in its place, and the last pane is not looked at.
Joined(W, p) ==
    LET q == RemoveFirst(W.panes, p)
        beside == Or(Before(W.panes, p), After(W.panes, p))
    IN  IF q = <<>> THEN NoPanes
        ELSE [W EXCEPT !.panes = q, !.active = IF @ = p THEN beside ELSE @]

\* join-pane: p of w is put after q of another window.
JoinPane(w, p, v, q, det) ==
    LET S == Joined(win[w], p)
        T == [win[v] EXCEPT !.panes = InsertAt(@, At(@, q) + 1, p)]
    IN  /\ Ready
        /\ w \in Live /\ v \in Live \ {w} /\ p \in In(w) /\ q \in In(v)
        /\ Behind \/ S.last \notin {p, S.active} \/ S.last = NoPane
        /\ \E K \in LaidOut(S), L \in LaidOut(T) :
              /\ det \/ MayActivate(L, p)
              /\ win' = [win EXCEPT ![w] = K, ![v] = IF det THEN L ELSE SetActive(L, p)]
        /\ window' = [window EXCEPT ![p] = v]
        /\ UNCHANGED <<dead, died>>

\* The panes of W with p and q exchanged, whichever of them it has.
Exchanged(W, p, q) ==
    [W EXCEPT !.panes = [k \in DOMAIN @ |-> CASE @[k] = p -> q
                                              [] @[k] = q -> p
                                              [] OTHER -> @[k]]]

\* swap-pane in one window: source p, target q.
SwapHere(w, p, q) ==
    LET W == Exchanged(win[w], p, q)
        to == IF Visible(W, q) THEN q ELSE p
    IN  /\ Ready
        /\ w \in Live /\ {p, q} \subseteq In(w) /\ p # q
        /\ MayActivate(W, to)
        /\ win' = [win EXCEPT ![w] = SetActive(W, to)]
        /\ UNCHANGED <<window, dead, died>>

\* With -d both windows' active panes are looked at in turn, and here both are
\* the same.
SwapHereDetached(w, p, q) ==
    LET W == Exchanged(win[w], p, q)
        A == IF W.active = p THEN SetActive(W, q) ELSE W
    IN  /\ Ready
        /\ w \in Live /\ {p, q} \subseteq In(w) /\ p # q
        /\ W.active = p => MayActivate(W, q)
        /\ A.active = q => MayActivate(A, p)
        /\ win' = [win EXCEPT ![w] = IF A.active = q THEN SetActive(A, p) ELSE A]
        /\ UNCHANGED <<window, dead, died>>

SwapOver_KeepsLast(W, p, q, det) ==
    LET A == Exchanged(W, p, q)
    IN  IF ~det \/ A.active = p THEN SetActive(A, q) ELSE A

\* The window that loses p and gets q.
SwapOver(W, p, q, det) ==
    LET A == Exchanged(W, p, q)
        B == IF ~det \/ A.active = p THEN SetActive(A, q) ELSE A
    IN  [B EXCEPT !.last = IF @ = p THEN NoPane ELSE @]

\* swap-pane between two windows: source p of w, target q of v.
SwapPane(w, p, v, q, det) ==
    /\ Ready
    /\ w \in Live /\ v \in Live \ {w} /\ p \in In(w) /\ q \in In(v)
    /\ ~det \/ win[w].active = p => MayActivate(Exchanged(win[w], p, q), q)
    /\ ~det \/ win[v].active = q => MayActivate(Exchanged(win[v], p, q), p)
    /\ win'    = [win EXCEPT ![w] = SwapOver(@, p, q, det),
                             ![v] = SwapOver(@, q, p, det)]
    /\ window' = [window EXCEPT ![p] = v, ![q] = w]
    /\ UNCHANGED <<dead, died>>

\* break-pane: p becomes the only pane of a new window v.
BreakPane(w, p, v) ==
    /\ Ready
    /\ w \in Live /\ p \in In(w) /\ Len(win[w].panes) > 1 /\ v \notin Live
    /\ \E L \in LaidOut(RemovePane(win[w], p)) :
          win' = [win EXCEPT ![w] = L, ![v] = Single(p)]
    /\ window' = [window EXCEPT ![p] = v]
    /\ UNCHANGED <<dead, died>>

\* rotate-window: the panes move on by one place, and the active place stays.
RotateWindow(w, down) ==
    LET q == win[w].panes
        r == IF down THEN <<Last(q)>> \o Front(q) ELSE Tail(q) \o <<Head(q)>>
        W == [win[w] EXCEPT !.panes = r]
        next == IF down THEN Or(Before(r, W.active), Last(r))
                        ELSE Or(After(r, W.active), Head(r))
    IN  /\ Ready
        /\ w \in Live
        /\ MayActivate(W, next)
        /\ win' = [win EXCEPT ![w] = SetActive(W, next)]
        /\ UNCHANGED <<window, dead, died>>

\* select-pane, a digit in display-panes, a mouse click.
SelectPane(w, p) ==
    /\ Ready
    /\ w \in Live /\ p \in In(w) /\ Visible(win[w], p)
    /\ win' = [win EXCEPT ![w] = SetActive(@, p)]
    /\ UNCHANGED <<window, dead, died>>

\* last-pane.
LastPane(w) ==
    /\ Ready
    /\ w \in Live /\ win[w].last # NoPane
    /\ MayActivate(win[w], win[w].last)
    /\ win' = [win EXCEPT ![w] = SetActive(@, win[w].last)]
    /\ UNCHANGED <<window, dead, died>>

\* select-layout, resize-pane, a border moved with the mouse.
Relayout(w) ==
    /\ Ready
    /\ w \in Live
    /\ \E L \in LaidOut(win[w]) : win' = [win EXCEPT ![w] = L]
    /\ UNCHANGED <<window, dead, died>>

\* recalculate_sizes changes the size of a window and moves from a hidden active
\* pane to a visible one.  The last pane is not looked at.
Resize(w) ==
    /\ Ready
    /\ w \in Live
    /\ \E L \in LaidOut(win[w]) :
          LET shown == Shown(L, L.active)
          IN  /\ Behind \/ L.last = NoPane \/ shown # L.last
              /\ win' = [win EXCEPT ![w] = [L EXCEPT !.active = shown]]
    /\ UNCHANGED <<window, dead, died>>

(***************************************************************************)
(* The specification.                                                      *)
(***************************************************************************)
Init ==
    /\ win    = [w \in WindowId |-> NoPanes]
    /\ window = [p \in PaneId |-> NoWindow]
    /\ dead   = {}
    /\ died   = "no"

Next ==
    \/ \E w \in WindowId :
          \/ \E p \in PaneId : NewWindow(w, p)
          \/ \E p \in PaneId, det \in BOOLEAN : SplitWindow(w, p, det)
          \/ KillWindow(w)
          \/ \E p \in PaneId : KillPane(w, p)
          \/ \E p \in PaneId : KillOthers(w, p)
          \/ \E kill \in BOOLEAN : RespawnWindow(w, kill)
          \/ \E kill, remain \in BOOLEAN : RespawnFails(w, kill, remain)
          \/ \E down \in BOOLEAN : RotateWindow(w, down)
          \/ \E p \in PaneId : SelectPane(w, p)
          \/ LastPane(w)
          \/ \E p, q \in PaneId : SwapHere(w, p, q)
          \/ \E p, q \in PaneId : SwapHereDetached(w, p, q)
          \/ Relayout(w)
          \/ Resize(w)
    \/ \E p \in PaneId, remain \in BOOLEAN : DestroyPane(p, remain)
    \/ \E w, v \in WindowId, p, q \in PaneId, det \in BOOLEAN :
          \/ JoinPane(w, p, v, q, det)
          \/ SwapPane(w, p, v, q, det)
    \/ \E w, v \in WindowId, p \in PaneId : BreakPane(w, p, v)

Spec == Init /\ [][Next]_vars

(***************************************************************************)
(* Properties.                                                             *)
(***************************************************************************)
TypeOK ==
    /\ \A w \in WindowId :
          win[w] \in WinType /\ win[w].hid \subseteq DOMAIN win[w].panes
    /\ window \in [PaneId -> WindowId \cup {NoWindow}]
    /\ dead \subseteq PaneId
    /\ died \in {"no", "null_pointer", "freed_layout"}

\* A window's active pane, which every key, redraw and split dereferences, is one
\* of its panes.
ActiveOwned == \A w \in Live : win[w].active \in In(w)

\* A pane is in the list of the window it points to, once, and in no other: so
\* that server_destroy_pane, which follows the pointer, takes it out of the list
\* it is in.  The last pane, if there is one, is another pane of the window: so
\* that it can take the active one's place.
PanesSound ==
    /\ TypeOK
    /\ \A w \in WindowId :
          /\ IsInjective(win[w].panes)
          /\ \A p \in PaneId : p \in In(w) <=> window[p] = w
          /\ win[w].last # NoPane => win[w].last \in In(w) \ {win[w].active}

\* A window whose active pane ends or breaks away goes back to its last pane.  A
\* window that loses any other panes keeps its active one, and its last one if it
\* still has it; else there is no last pane, whatever is killed or breaks away.
\* (join-pane to another window does not go back, swap-pane puts a pane there.)
FallBackToLastPane ==
    [][\A w \in Live : LET W == win[w] IN
          /\ ToSet(win'[w].panes) \subseteq In(w) /\ win'[w].panes # <<>>
          /\ \A p \in In(w) : window'[p] \notin Live \ {w}
          /\ Len(win'[w].panes) < Len(W.panes)
          => LET left == ToSet(win'[w].panes)
             IN  /\ W.active \in left
                    => /\ win'[w].active = W.active
                       /\ win'[w].last = IF W.last \in left THEN W.last ELSE NoPane
                 /\ W.active \notin left /\ W.last \in left
                    => win'[w].active = W.last]_vars

=============================================================================
