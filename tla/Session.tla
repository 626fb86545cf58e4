------------------------------- MODULE Session -------------------------------
(***************************************************************************)
(* Sessions, the windows linked to them, session groups and the windows'   *)
(* reference counts: session.c, the winlink functions of window.c, the     *)
(* link/unlink/kill functions of server-fn.c and the commands that use     *)
(* them.                                                                   *)
(*                                                                         *)
(* A session has a tree of winlinks (index -> window), a current winlink   *)
(* and a stack of the previously current ones.  Sessions of one group      *)
(* share their windows: every handler that changes the tree of one copies  *)
(* it to the others.  A window lives as long as a winlink points to it.    *)
(*                                                                         *)
(* The server is one thread.  A handler that changes several trees in turn *)
(* (kill-window, move-window, new-window -a) is a first step and a         *)
(* continuation in "todo": until it is done nothing else can run.          *)
(*                                                                         *)
(* An operator with an underscore in its name is a variant with a bug of   *)
(* the definition after it, used to see that a property notices the bug.   *)
(***************************************************************************)
EXTENDS Integers, Sequences, FiniteSets, FiniteSetsExt

CONSTANTS
    SessionId,      \* addresses of session structures
    WindowId,       \* addresses of window structures
    NoWindow,       \* a null window pointer
    MaxIdx,         \* the largest window index: INT_MAX in the code
    BaseIndex,      \* the option base-index
    ForkMayFail     \* may window_create fail (fork, openpty)?

Idx   == 0..MaxIdx
NoIdx == -1         \* no index given, no current window, no free index

ASSUME SessionAssumption == IsFiniteSet(SessionId)
ASSUME WindowAssumption  == NoWindow \notin WindowId
ASSUME IndexAssumption   == MaxIdx \in Nat /\ BaseIndex \in Idx
ASSUME ForkAssumption    == ForkMayFail \in BOOLEAN

VARIABLES
    sessions,       \* the sessions on the global tree
    ses,            \* the contents of each session structure
    groups,         \* the session groups, as sets of sessions
    refs,           \* the windows' reference counts; a window with 0 is freed
    todo,           \* what is left of the handler under way
    died            \* "no", or what killed the server

vars == <<sessions, ses, groups, refs, todo, died>>

(***************************************************************************)
(* Session structures.                                                     *)
(***************************************************************************)
SesType == [wl     : [Idx -> WindowId \cup {NoWindow}],
            curw   : Idx \cup {NoIdx},
            lastw  : Seq(Idx),
            alerts : SUBSET Idx]

EmptySession == [wl     |-> [i \in Idx |-> NoWindow],
                 curw   |-> NoIdx,
                 lastw  |-> <<>>,
                 alerts |-> {}]

Linked(S)     == {i \in Idx : S.wl[i] # NoWindow}
LinksTo(S, w) == {i \in Idx : S.wl[i] = w}

\* The index winlink_add uses: the one given if it is free, or the first free
\* one from base-index on, round the end; NoIdx if there is none.
AddIndex(S, idx) ==
    LET free == Idx \ Linked(S)
        up   == {i \in free : i >= BaseIndex}
    IN  CASE idx # NoIdx -> IF idx \in free THEN idx ELSE NoIdx
          [] idx = NoIdx /\ up # {} -> Min(up)
          [] idx = NoIdx /\ up = {} -> IF free = {} THEN NoIdx ELSE Min(free)

\* The elements of a stack that are in T, in their order.  (SelectSeq would do;
\* it is recursive, and this definition can be reasoned about.)
Keep(q, T) ==
    LET K == {k \in 1..Len(q) : q[k] \in T}
    IN  [j \in 1..Cardinality(K) |->
            q[CHOOSE k \in K : Cardinality({x \in K : x <= k}) = j]]

Go_PushesNull(S, i) ==
    [S EXCEPT !.curw = i, !.lastw = <<S.curw>> \o Keep(@, Idx \ {i, S.curw})]
Go_KeepsNew(S, i) ==
    [S EXCEPT !.curw  = i,
              !.lastw = (IF S.curw = NoIdx THEN <<>> ELSE <<S.curw>>)
                            \o Keep(@, Idx \ {S.curw})]

\* The common tail of session_select, _next, _previous and _last.
Go(S, i) ==
    [S EXCEPT !.curw   = i,
              !.lastw  = (IF S.curw = NoIdx THEN <<>> ELSE <<S.curw>>)
                            \o Keep(@, Idx \ {i, S.curw}),
              !.alerts = @ \ {i}]

SessionSelect(S, i) == IF i \in Linked(S) \ {S.curw} THEN Go(S, i) ELSE S

\* T is the set of indexes to move among: all windows or, with -a, those with
\* an alert.
SessionNext(S, T) ==
    LET after == {i \in T : i > S.curw}
    IN  IF S.curw = NoIdx \/ T = {}
        THEN S
        ELSE SessionSelect(S, Min(IF after # {} THEN after ELSE T))

SessionPrevious(S, T) ==
    LET before == {i \in T : i < S.curw}
    IN  IF S.curw = NoIdx \/ T = {}
        THEN S
        ELSE SessionSelect(S, Max(IF before # {} THEN before ELSE T))

SessionLast(S) == IF S.lastw = <<>> THEN S ELSE SessionSelect(S, Head(S.lastw))

MoveOff_Previous(S) == SessionPrevious(S, Linked(S))

\* Leave the current window, because it goes away.
MoveOff(S) ==
    CASE SessionLast(S) # S -> SessionLast(S)
      [] OTHER -> SessionPrevious(S, Linked(S))

\* Remove a winlink from the stack and the tree, and nothing else.
Unlink(S, i) == [S EXCEPT !.wl[i]  = NoWindow,
                          !.lastw  = Keep(@, Idx \ {i}),
                          !.alerts = @ \ {i}]

Detach_Stays(S, i) == Unlink(S, i)

\* session_detach, before it synchronizes the group.
Detach(S, i) == Unlink(IF S.curw = i THEN MoveOff(S) ELSE S, i)

\* The removal "by hand" of new-window -k and link-window -k: the current
\* window is not moved off but forgotten.
Replace(S, i) == [Unlink(S, i) EXCEPT !.curw = IF @ = i THEN NoIdx ELSE @]

Synced_Current(T, S) == [T EXCEPT !.lastw = Keep(S.lastw, Linked(T))]

\* session_group_synchronize1: what S becomes when it is made like T.
Synced(T, S) ==
    LET gone  == S.curw # NoIdx /\ S.curw \notin Linked(T)
        moved == IF gone THEN MoveOff(S) ELSE S
        cur   == IF moved.curw # NoIdx THEN moved.curw ELSE T.curw
    IN  IF Linked(T) = {}
        THEN S
        ELSE [wl     |-> T.wl,
              curw   |-> IF cur \in Linked(T) THEN cur ELSE NoIdx,
              lastw  |-> Keep(moved.lastw, Linked(T)),
              alerts |-> T.alerts]

\* It dereferences the target's current winlink when S has none.
SyncNull(T, S) == Linked(T) # {} /\ S.curw = NoIdx /\ T.curw = NoIdx

(***************************************************************************)
(* Groups, synchronization and reference counts.                           *)
(***************************************************************************)
Group(s) == UNION {g \in groups : s \in g}
Mates(s) == Group(s) \ {s}

GroupRemove_One(s) == {h \ {s} : h \in groups}

\* session_group_remove: a group of one is no group.
GroupRemove(s) == {g \in {h \ {s} : h \in groups} : Cardinality(g) > 1}

GroupAdd(target, s) ==
    IF Group(target) = {}
    THEN groups \cup {{target, s}}
    ELSE (groups \ {Group(target)}) \cup {Group(target) \cup {s}}

LinkCount(ss, w) == Cardinality({x \in ss \X Idx : ses[x[1]].wl[x[2]] = w})

Decr_None(r, w) == r

Incr(r, w) == [r EXCEPT ![w] = @ + 1]       \* winlink_set_window
Decr(r, w) == [r EXCEPT ![w] = @ - 1]       \* winlink_remove

\* Each mate links all windows of T before it frees its old winlinks.
SyncRefs(r, s, T) ==
    IF Linked(T) = {} THEN r
    ELSE [w \in WindowId |->
            r[w] + Cardinality(Mates(s)) * Cardinality(LinksTo(T, w))
                 - LinkCount(Mates(s), w)]

Publish_Early(s, T, S, r) ==
    /\ ses'  = [t \in SessionId |-> CASE t = s -> S
                                      [] t \in Mates(s) -> Synced(ses[s], ses[t])
                                      [] OTHER -> ses[t]]
    /\ refs' = r
    /\ UNCHANGED <<sessions, groups, died>>

\* Session s becomes T and its group is synchronized from it; then s alone
\* becomes S.  r is what the counts are before the synchronization.
Publish(s, T, S, r) ==
    /\ ses'  = [t \in SessionId |-> CASE t = s -> S
                                      [] t \in Mates(s) -> Synced(T, ses[t])
                                      [] OTHER -> ses[t]]
    /\ refs' = SyncRefs(r, s, T)
    /\ died' = IF \E m \in Mates(s) : SyncNull(T, ses[m])
               THEN "null_pointer" ELSE "no"
    /\ UNCHANGED <<sessions, groups>>

Destroy_Group(s, r) ==
    LET gone == Group(s) \cup {s}
    IN  /\ sessions' = sessions \ gone
        /\ groups'   = groups \ {gone}
        /\ ses'      = [t \in SessionId |->
                          IF t \in gone THEN EmptySession ELSE ses[t]]
        /\ refs'     = r
        /\ UNCHANGED died

\* session_destroy.
Destroy(s, r) ==
    /\ sessions' = sessions \ {s}
    /\ groups'   = GroupRemove(s)
    /\ ses'      = [ses EXCEPT ![s] = EmptySession]
    /\ refs'     = r
    /\ UNCHANGED died

\* session_detach: the group is synchronized, or the session is destroyed with
\* its last window.
DetachWindow(s, i) ==
    LET T == Detach(ses[s], i)
        r == Decr(refs, ses[s].wl[i])
    IN  IF Linked(T) = {} THEN Destroy(s, r) ELSE Publish(s, T, T, r)

(***************************************************************************)
(* What is left of a handler.                                              *)
(***************************************************************************)
Idle            == [op |-> "idle"]
Kill(w, left)   == [op |-> "kill", w |-> w, left |-> left]
UnlinkAt(s, i)  == [op |-> "unlink", s |-> s, i |-> i]
\* new-window -a: [idx, last) moves up one; "link" or "unlink" comes next.
Shift(op, s, idx, last, det) ==
    [op |-> op, s |-> s, idx |-> idx, last |-> last, det |-> det]

TodoType ==
    {Idle}
    \cup {Kill(w, left) : w \in WindowId, left \in SUBSET SessionId}
    \cup {UnlinkAt(s, i) : s \in SessionId, i \in Idx}
    \cup {Shift(op, s, idx, last, det) : op \in {"link", "shift"},
            s \in SessionId, idx \in Idx, last \in Idx, det \in BOOLEAN}

Ready == todo = Idle /\ died = "no"

(***************************************************************************)
(* Sessions.                                                               *)
(***************************************************************************)
\* new-session without -t.  When the fork fails the session is destroyed at
\* once, which leaves everything here as it was.
NewSession(s, w) ==
    /\ Ready
    /\ s \notin sessions /\ refs[w] = 0
    /\ sessions' = sessions \cup {s}
    /\ LET i == AddIndex(EmptySession, NoIdx)
           S == [EmptySession EXCEPT !.wl[i] = w]
       IN  ses' = [ses EXCEPT ![s] = SessionSelect(S, i)]
    /\ refs' = Incr(refs, w)
    /\ UNCHANGED <<groups, todo, died>>

\* new-session -t: the new session is made like the first session of the group
\* (the group's order is not kept here: any member may be the first), and the
\* root of the window tree, which may be any window, is selected.
NewGroupedSession(s, target, first) ==
    /\ Ready
    /\ s \notin sessions /\ target \in sessions
    /\ first \in Mates(target) \cup {target}
    /\ sessions' = sessions \cup {s}
    /\ groups'   = GroupAdd(target, s)
    /\ LET S == Synced(ses[first], EmptySession)
       IN  IF Linked(S) = {} \/ SyncNull(ses[first], EmptySession)
           THEN died' = "null_pointer" /\ UNCHANGED <<ses, refs>>
           ELSE /\ \E root \in Linked(S) :
                     ses' = [ses EXCEPT ![s] = SessionSelect(S, root)]
                /\ refs' = [w \in WindowId |->
                              refs[w] + Cardinality(LinksTo(S, w))]
                /\ UNCHANGED died
    /\ UNCHANGED todo

\* kill-session.
KillSession(s) ==
    /\ Ready
    /\ s \in sessions
    /\ Destroy(s, [w \in WindowId |->
                     refs[w] - Cardinality(LinksTo(ses[s], w))])
    /\ UNCHANGED todo

(***************************************************************************)
(* The current window: select-window, next-window, previous-window (with   *)
(* -a or without) and last-window.                                         *)
(***************************************************************************)
MoveTo(s, S) ==
    /\ Ready
    /\ s \in sessions
    /\ ses' = [ses EXCEPT ![s] = S]
    /\ UNCHANGED <<sessions, groups, refs, todo, died>>

SelectWindow(s, i)   == MoveTo(s, SessionSelect(ses[s], i))
NextWindow(s, a)     == MoveTo(s, SessionNext(ses[s],
                            IF a THEN ses[s].alerts ELSE Linked(ses[s])))
PreviousWindow(s, a) == MoveTo(s, SessionPrevious(ses[s],
                            IF a THEN ses[s].alerts ELSE Linked(ses[s])))
LastWindow(s)        == MoveTo(s, SessionLast(ses[s]))

\* server_window_loop: a bell, activity, silence or a match in w flags its first
\* winlink in every session where that is not the current one.
Alert(w) ==
    /\ Ready
    /\ ses' = [t \in SessionId |->
                IF LinksTo(ses[t], w) = {} THEN ses[t]
                ELSE [ses[t] EXCEPT !.alerts =
                        @ \cup ({Min(LinksTo(ses[t], w))} \ {ses[t].curw})]]
    /\ UNCHANGED <<sessions, groups, refs, todo, died>>

(***************************************************************************)
(* new-window.                                                             *)
(***************************************************************************)
\* From the removal of the old window (-k) on: session_new at idx, then
\* session_select unless -d was given and the current window was not removed.
CreateWindow(s, w, idx, kill, det) ==
    LET S    == ses[s]
        k    == kill /\ idx \in Linked(S)
        K    == IF k THEN Replace(S, idx) ELSE S
        r    == IF k THEN Decr(refs, S.wl[idx]) ELSE refs
        at   == AddIndex(K, idx)
        T    == [K EXCEPT !.wl[at] = w]
        stay == det /\ ~(k /\ S.curw = idx)
    IN  \/ /\ at # NoIdx /\ r[w] = 0
           /\ Publish(s, T, IF stay THEN T ELSE SessionSelect(T, at), Incr(r, w))
        \/ /\ ForkMayFail
           /\ ses' = [ses EXCEPT ![s] = K] /\ refs' = r
           /\ UNCHANGED <<sessions, groups, died>>

NewWindow(s, w, idx, kill, det) ==
    /\ Ready
    /\ s \in sessions
    /\ CreateWindow(s, w, idx, kill, det)
    /\ UNCHANGED todo

\* new-window -a: find the first free index after i ("no free window indexes"
\* if that is not below INT_MAX), then shift.  The increment of the largest
\* index overflows, and winlink_find_by_index kills the server.
NewWindowAfter(s, i, det) ==
    /\ Ready
    /\ s \in sessions /\ i \in Linked(ses[s])
    /\ IF i = MaxIdx
       THEN died' = "bad_index" /\ UNCHANGED todo
       ELSE \E last \in (i + 1)..(MaxIdx - 1) :
              /\ last \notin Linked(ses[s])
              /\ (i + 1)..(last - 1) \subseteq Linked(ses[s])
              /\ todo' = Shift("link", s, i + 1, last, det)
              /\ UNCHANGED died
    /\ UNCHANGED <<sessions, ses, groups, refs>>

ShiftLink ==
    /\ died = "no" /\ todo.op = "link" /\ todo.last > todo.idx
    /\ LET S == ses[todo.s]
           w == S.wl[todo.last - 1]
           T == [S EXCEPT !.wl[todo.last] = w]
       IN  Publish(todo.s, T, T, Incr(refs, w))
    /\ todo' = [todo EXCEPT !.op = "shift"]

ShiftUnlink_Same ==
    /\ died = "no" /\ todo.op = "shift"
    /\ DetachWindow(todo.s, todo.last - 1)
    /\ todo' = [todo EXCEPT !.op = "link"]

ShiftUnlink ==
    /\ died = "no" /\ todo.op = "shift"
    /\ DetachWindow(todo.s, todo.last - 1)
    /\ todo' = [todo EXCEPT !.op = "link", !.last = @ - 1]

ShiftCreate(w) ==
    /\ died = "no" /\ todo.op = "link" /\ todo.last = todo.idx
    /\ CreateWindow(todo.s, w, todo.idx, FALSE, todo.det)
    /\ todo' = Idle

(***************************************************************************)
(* Linking, moving, swapping, unlinking and killing windows.               *)
(***************************************************************************)
\* break-pane: the pane's new window is attached at the first free index, and
\* selected unless -d.
BreakPane(s, w, det) ==
    /\ Ready
    /\ s \in sessions /\ refs[w] = 0
    /\ LET at == AddIndex(ses[s], NoIdx)
           T  == [ses[s] EXCEPT !.wl[at] = w]
       IN  /\ at # NoIdx
           /\ Publish(s, T, IF det THEN T ELSE SessionSelect(T, at), Incr(refs, w))
    /\ UNCHANGED todo

\* server_link_window: winlink i of src is linked into dst at idx.  It refuses
\* another session of src's group, an index that has the same window, and,
\* without -k, an index in use.
LinkWindow(src, i, dst, idx, kill, sel) ==
    LET D  == ses[dst]
        w  == ses[src].wl[i]
        k  == idx \in Linked(D)
        K  == IF k THEN Replace(D, idx) ELSE D
        r  == IF k THEN Decr(refs, D.wl[idx]) ELSE refs
        at == AddIndex(K, idx)
        T  == [K EXCEPT !.wl[at] = w]
    IN  /\ Ready
        /\ {src, dst} \subseteq sessions /\ i \in Linked(ses[src])
        /\ dst \notin Mates(src)
        /\ k => kill /\ D.wl[idx] # w
        /\ at # NoIdx
        /\ Publish(dst, T,
                   IF sel \/ (k /\ D.curw = idx) THEN SessionSelect(T, at) ELSE T,
                   Incr(r, w))

LinkWindowOnly(src, i, dst, idx, kill, sel) ==
    LinkWindow(src, i, dst, idx, kill, sel) /\ UNCHANGED todo

\* move-window: link, then unlink the winlink it came from.
MoveWindow(src, i, dst, idx, kill, sel) ==
    LinkWindow(src, i, dst, idx, kill, sel) /\ todo' = UnlinkAt(src, i)

MoveUnlink ==
    /\ died = "no" /\ todo.op = "unlink"
    /\ DetachWindow(todo.s, todo.i)
    /\ todo' = Idle

\* swap-window: the two winlinks exchange their window pointers (no count
\* changes), both become current unless -d, and both groups are synchronized.
SwapWindow(src, i, dst, j, det) ==
    LET put(S, k, w) == [S EXCEPT !.wl[k] = w]
        to(S, k)     == IF det THEN S ELSE SessionSelect(S, k)
        ws == ses[src].wl[i]
        wd == ses[dst].wl[j]
        A  == IF src = dst
              THEN to(put(put(ses[src], i, wd), j, ws), j)
              ELSE to(put(ses[src], i, wd), i)
        B  == IF src = dst THEN A ELSE to(put(ses[dst], j, ws), j)
    IN  /\ Ready
        /\ {src, dst} \subseteq sessions /\ dst \notin Mates(src)
        /\ i \in Linked(ses[src]) /\ j \in Linked(ses[dst]) /\ ws # wd
        /\ ses' = [t \in SessionId |->
                    CASE t = src -> A
                      [] t = dst -> B
                      [] t \in Mates(src) -> Synced(A, ses[t])
                      [] t \in Mates(dst) \ Mates(src) -> Synced(B, ses[t])
                      [] OTHER -> ses[t]]
        /\ refs' = IF src = dst THEN SyncRefs(refs, src, A)
                   ELSE SyncRefs(SyncRefs(refs, src, A), dst, B)
        /\ died' = IF \/ \E m \in Mates(src) : SyncNull(A, ses[m])
                      \/ \E m \in Mates(dst) : SyncNull(B, ses[m])
                   THEN "null_pointer" ELSE "no"
        /\ UNCHANGED <<sessions, groups, todo>>

\* unlink-window: without -k a window linked only here is left alone; a group
\* counts as one place.
UnlinkWindow(s, i, kill) ==
    /\ Ready
    /\ s \in sessions /\ i \in Linked(ses[s])
    /\ kill \/ refs[ses[s].wl[i]] # Cardinality(Group(s) \cup {s})
    /\ DetachWindow(s, i)
    /\ UNCHANGED todo

\* server_kill_window, for kill-window and for a window whose last pane is gone:
\* visit every session and unlink w until it has no link left.  The order is
\* that of the names, which rename-session may change: any order here.
KillWindow(w) ==
    /\ Ready
    /\ refs[w] > 0
    /\ todo' = Kill(w, sessions)
    /\ UNCHANGED <<sessions, ses, groups, refs, died>>

KillVisit_Once(s) ==
    /\ died = "no" /\ todo.op = "kill" /\ s \in todo.left
    /\ IF LinksTo(ses[s], todo.w) = {}
       THEN UNCHANGED <<sessions, ses, groups, refs, died>>
       ELSE DetachWindow(s, Min(LinksTo(ses[s], todo.w)))
    /\ todo' = [todo EXCEPT !.left = @ \ {s}]
KillVisit_Again(s) ==
    /\ died = "no" /\ todo.op = "kill" /\ s \in todo.left
    /\ LinksTo(ses[s], todo.w) # {}
    /\ DetachWindow(s, Min(LinksTo(ses[s], todo.w)))
    /\ UNCHANGED todo

KillVisit(s) ==
    /\ died = "no" /\ todo.op = "kill" /\ s \in todo.left
    /\ IF LinksTo(ses[s], todo.w) = {}
       THEN /\ todo' = [todo EXCEPT !.left = @ \ {s}]
            /\ UNCHANGED <<sessions, ses, groups, refs, died>>
       ELSE LET i    == Min(LinksTo(ses[s], todo.w))
                done == LinksTo(Detach(ses[s], i), todo.w) = {}
            IN  /\ DetachWindow(s, i)
                /\ todo' = [todo EXCEPT !.left = IF done THEN @ \ {s} ELSE @]

KillReturn ==
    /\ died = "no" /\ todo.op = "kill" /\ todo.left = {}
    /\ todo' = Idle
    /\ UNCHANGED <<sessions, ses, groups, refs, died>>

(***************************************************************************)
(* The specification.                                                      *)
(***************************************************************************)
Init ==
    /\ sessions = {}
    /\ ses      = [s \in SessionId |-> EmptySession]
    /\ groups   = {}
    /\ refs     = [w \in WindowId |-> 0]
    /\ todo     = Idle
    /\ died     = "no"

Continue ==
    \/ ShiftLink
    \/ ShiftUnlink
    \/ \E w \in WindowId : ShiftCreate(w)
    \/ MoveUnlink
    \/ \E s \in SessionId : KillVisit(s)
    \/ KillReturn

SessionCommand ==
    \/ \E s \in SessionId, w \in WindowId : NewSession(s, w)
    \/ \E s, target, first \in SessionId : NewGroupedSession(s, target, first)
    \/ \E s \in SessionId : KillSession(s)

SelectCommand ==
    \/ \E s \in SessionId, i \in Idx : SelectWindow(s, i)
    \/ \E s \in SessionId, a \in BOOLEAN : NextWindow(s, a)
    \/ \E s \in SessionId, a \in BOOLEAN : PreviousWindow(s, a)
    \/ \E s \in SessionId : LastWindow(s)
    \/ \E w \in WindowId : Alert(w)

WindowCommand ==
    \/ \E s \in SessionId, w \in WindowId, idx \in Idx \cup {NoIdx},
          kill, det \in BOOLEAN : NewWindow(s, w, idx, kill, det)
    \/ \E s \in SessionId, i \in Idx, det \in BOOLEAN : NewWindowAfter(s, i, det)
    \/ \E s \in SessionId, w \in WindowId, det \in BOOLEAN : BreakPane(s, w, det)
    \/ \E src, dst \in SessionId, i \in Idx, idx \in Idx \cup {NoIdx},
          kill, sel \in BOOLEAN : LinkWindowOnly(src, i, dst, idx, kill, sel)
    \/ \E src, dst \in SessionId, i \in Idx, idx \in Idx \cup {NoIdx},
          kill, sel \in BOOLEAN : MoveWindow(src, i, dst, idx, kill, sel)
    \/ \E src, dst \in SessionId, i, j \in Idx, det \in BOOLEAN :
          SwapWindow(src, i, dst, j, det)
    \/ \E s \in SessionId, i \in Idx, kill \in BOOLEAN : UnlinkWindow(s, i, kill)
    \/ \E w \in WindowId : KillWindow(w)

Next == Continue \/ SessionCommand \/ SelectCommand \/ WindowCommand

Spec == Init /\ [][Next]_vars

\* A handler that has begun is finished: nothing else runs in the meantime.
\* Users need not give any command.
FairSpec == Spec /\ WF_vars(Continue)

(***************************************************************************)
(* Properties.                                                             *)
(***************************************************************************)
TypeOK ==
    /\ sessions \subseteq SessionId
    /\ ses \in [SessionId -> SesType]
    /\ groups \subseteq SUBSET SessionId
    /\ refs \in [WindowId -> Int]
    /\ todo \in TodoType
    /\ died \in {"no", "null_pointer", "bad_index"}

\* A window's reference count (winlink_set_window, winlink_remove) is the number
\* of winlinks that point to it, so it is freed with its last link and no
\* sooner, whatever is linked, swapped and synchronized.
RefCount == died = "no" =>
    \A w \in WindowId : refs[w] = LinkCount(sessions, w)

\* The session groups are disjoint sets of two or more live sessions
\* (session_group_add, session_group_remove).
GroupWellFormed ==
    \A g \in groups :
        /\ g \subseteq sessions /\ Cardinality(g) > 1
        /\ \A h \in groups : g # h => g \cap h = {}

\* Sessions of a group have the same windows at the same indexes whenever no
\* handler is half done (session_group_synchronize1).
GroupShare ==
    \A g \in groups : \A s, t \in g : ses[s].wl = ses[t].wl

\* A live session has windows, and its current window is one of them: what
\* every dereference of s->curw relies on.
CurrentLinked == died = "no" =>
    \A s \in sessions : ses[s].curw \in Linked(ses[s])

\* The stack of last windows holds no window twice, none that is unlinked and
\* never the current one, so last-window goes where it says.
StackSound == died = "no" => \A s \in sessions :
    LET q == ses[s].lastw
    IN  /\ \A k \in DOMAIN q : q[k] \in Linked(ses[s]) \ {ses[s].curw}
        /\ \A j, k \in DOMAIN q : q[j] = q[k] => j = k

\* What a half done handler still has to do can be done: its session lives;
\* new-window -a finds each window it has still to move, and the index before
\* it free; the sessions server_kill_window has yet to visit are not freed.
TodoSound ==
    CASE todo.op \in {"link", "shift"} ->
            LET linked == Linked(ses[todo.s])
            IN  /\ todo.s \in sessions
                /\ todo.idx <= todo.last
                /\ todo.idx..(todo.last - 1) \subseteq linked
                /\ todo.op = "link" => todo.last \notin linked
                /\ todo.op = "shift" => todo.idx < todo.last /\ todo.last \in linked
      [] todo.op = "unlink" ->
            todo.s \in sessions /\ todo.i \in Linked(ses[todo.s])
      [] todo.op = "kill" -> todo.left \subseteq sessions
      [] todo.op = "idle" -> TRUE

\* No synchronization or new-session -t meets a null current window.
NoNullDeref == died # "null_pointer"

\* When server_kill_window returns the window has been freed.
KillDone == [][todo.op = "kill" /\ todo' = Idle => refs'[todo.w] = 0]_vars

\* A session that ends leaves the others, its group's included, as they were:
\* "either session may be killed without affecting the other".
MateUnaffected ==
    [][\A s \in sessions \ sessions' : \A t \in SessionId \ {s} :
          ses'[t] = ses[t] /\ (t \in sessions <=> t \in sessions')]_vars

\* A session that keeps its current window's index changes its current window
\* only by its own command: no step moves two sessions of a group.
Moved(s) == /\ s \in sessions \cap sessions'
            /\ ses'[s].curw # ses[s].curw
            /\ ses[s].curw \in Linked(ses'[s])

IndependentCurrent ==
    [][\A s \in SessionId : \A t \in Mates(s) : ~(Moved(s) /\ Moved(t))]_vars

\* A session whose current window is unlinked goes back to the one before it,
\* in every session that had it current.
FallBackToLast ==
    [][\A s \in sessions \cap sessions' :
          /\ ses[s].curw \in Idx
          /\ ses[s].curw \notin Linked(ses'[s])
          /\ ses[s].lastw # <<>>
          => ses'[s].curw = Head(ses[s].lastw)]_vars

\* Every kill-window comes to an end, though sessions end under its loop and a
\* window may be linked twice to one of them; or the server dies in it, which
\* needs a fork that failed before (NoNullDeref).
KillEnds == (todo.op = "kill") ~> (todo.op = "idle" \/ died = "null_pointer")

=============================================================================
