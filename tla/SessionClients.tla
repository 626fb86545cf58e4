--------------------------- MODULE SessionClients ---------------------------
(***************************************************************************)
(* Clients and the sessions they are attached to: attaching, switching,    *)
(* suspending and losing clients, the end of a session, the options        *)
(* detach-on-destroy and destroy-unattached, and the deferred freeing of   *)
(* dead sessions and clients (server-fn.c, server-client.c, server.c,      *)
(* resize.c and the session commands).                                     *)
(*                                                                         *)
(* A client points to its session and to its last session.  Nothing counts *)
(* these pointers: a handler that ends a session must find every client    *)
(* that is on it.  An address may be used again once its session is freed, *)
(* and session_alive takes the new session there for the old one.          *)
(*                                                                         *)
(* The tree of the live sessions and that of the dead ones are keyed by    *)
(* name: a session is not entered into the tree of the dead ones if one of *)
(* its name is still there.  It is then in neither.                        *)
(*                                                                         *)
(* An operator with an underscore in its name is a variant with a bug of   *)
(* the definition after it, used to see that a property notices the bug.   *)
(***************************************************************************)
EXTENDS Naturals, FiniteSets, SequencesExt

CONSTANTS
    SessionId,      \* addresses of sessions
    Name,           \* names of sessions, as numbers in their order
    ClientId,
    Together,       \* bound: are clients suspended while a session has
                    \* destroy-unattached?
    OptionType,     \* the values the two options take in sessions
    GlobalDetach    \* the global detach-on-destroy

NoSession == 0
NoName    == 0

ASSUME SessionAssumption == NoSession \notin SessionId
ASSUME NameAssumption    == Name \subseteq Nat \ {NoName}
ASSUME ClientAssumption  == IsFiniteSet(ClientId)
ASSUME OptionAssumption  ==
    /\ Together \in BOOLEAN
    /\ OptionType \subseteq [destroy : BOOLEAN, detach : BOOLEAN]
    /\ GlobalDetach \in BOOLEAN

VARIABLES
    sessions,   \* the live sessions
    dead,       \* sessions destroyed and not freed yet: dead_sessions
    lost,       \* sessions destroyed that could not be entered there
    name,       \* the sessions' names
    opts,       \* the sessions' values of the two options
    unattached, \* sessions with the flag SESSION_UNATTACHED
    activity,   \* the live sessions by activity_time, oldest first
    clients,    \* the client structures
    held,       \* <<session, client>> held by a choose-window mode
    socket      \* are the socket's execute bits on?

vars == <<sessions, dead, lost, name, opts, unattached, activity, clients,
          held, socket>>

Pointer == SessionId \cup {NoSession}

ClientType ==
    [state    : {"free", "live", "dead"},
     session  : Pointer,
     last     : Pointer,        \* last_session
     susp     : BOOLEAN,        \* CLIENT_SUSPENDED
     exit     : BOOLEAN]        \* CLIENT_EXIT

NewClient == [state |-> "live", session |-> NoSession, last |-> NoSession,
              susp |-> FALSE, exit |-> FALSE]

\* A client once lost; what it pointed to is not looked at any more.
Dead == [NewClient EXCEPT !.state = "dead"]

Live(c) == clients[c].state = "live"

\* Live clients with session s, in the clients cl.
On(cl, s) == {c \in ClientId : cl[c].state = "live" /\ cl[c].session = s}

Touch(q, s) == Append(RemoveFirst(q, s), s)      \* session_update_activity

Recalculate_Sticks(ss, cl) ==
    {s \in SessionId : s \in unattached \/ (s \in ss /\ On(cl, s) = {})}

\* recalculate_sizes: a live session is unattached if no client that is not
\* suspended is on it.
Recalculate(ss, cl) ==
    {s \in SessionId : IF s \in ss
                       THEN \A c \in On(cl, s) : cl[c].susp
                       ELSE s \in unattached}

\* server_update_socket.
Attached == sessions' \ unattached' # {}

ServerNextSession_Same(s) == Head(activity)

\* server_next_session: of the sessions but s, the one with the least
\* activity_time.
ServerNextSession(s) ==
    LET q == RemoveFirst(activity, s)
    IN  IF q = <<>> THEN NoSession ELSE Head(q)

(***************************************************************************)
(* The end of a session.                                                   *)
(***************************************************************************)
\* Those of V that RB_INSERT enters into dead_sessions: no session there has
\* their name.
Entered(V) == {s \in V : \A d \in dead : name[d] # name[s]}

\* session_destroy, of every session of V.
Destroy(V) ==
    /\ sessions' = sessions \ V
    /\ dead'     = dead \cup Entered(V)
    /\ lost'     = lost \cup (V \ Entered(V))
    /\ UNCHANGED name

\* server_destroy_session with the value "detach" of detach-on-destroy, ss being
\* the sessions then: clients of s are told to exit, or moved to another session.
DestroySession(s, detach, ss) ==
    LET new == IF detach THEN NoSession ELSE ServerNextSession(s)
        leave(c) == IF new = NoSession
                    THEN [c EXCEPT !.session = NoSession, !.exit = TRUE]
                    ELSE [c EXCEPT !.session = new, !.last = NoSession]
        moved == [c \in ClientId |-> IF c \in On(clients, s)
                                     THEN leave(clients[c]) ELSE clients[c]]
        q == RemoveFirst(activity, s)
    IN  /\ clients'  = moved
        /\ activity' = IF new # NoSession /\ On(clients, s) # {}
                       THEN Touch(q, new) ELSE q
        /\ unattached' = Recalculate(ss, moved)

\* kill-session: the clients first, then the session.
KillSession(s) ==
    /\ s \in sessions
    /\ DestroySession(s, opts[s].detach, sessions)
    /\ Destroy({s})
    /\ UNCHANGED <<opts, held, socket>>

CloseLastWindow_Quiet(s) ==
    /\ s \in sessions
    /\ Destroy({s})
    /\ activity' = RemoveFirst(activity, s)
    /\ UNCHANGED <<opts, unattached, clients, held, socket>>

\* The last window of s is closed or unlinked: session_detach has destroyed s
\* and freed its options before server_destroy_session looks the option up, so
\* it finds the global value.
CloseLastWindow(s) ==
    /\ s \in sessions
    /\ Destroy({s})
    /\ DestroySession(s, GlobalDetach, sessions \ {s})
    /\ UNCHANGED <<opts, held, socket>>

\* server_check_unattached, after recalculate_sizes made U of the clients.  The
\* loop destroys the first session it should, that of the least name.  If it is
\* entered into the tree of the dead ones the loop goes on there: it finds dead
\* sessions, whose freed options have the global values, so that nothing comes
\* of it while the global destroy-unattached is off, as here.  If it is not, the
\* loop goes on from the place the session had in the tree of the live ones.
\* Which others it meets from there, as that tree is balanced anew, is left open.
CheckUnattached(U) ==
    LET victims  == {s \in sessions \cap U : opts[s].destroy}
        First(s) == \A r \in victims : name[s] <= name[r]
    IN  /\ unattached' = U
        /\ \E V \in SUBSET victims :
              /\ victims # {} => \E s \in V : First(s)
              /\ \A s \in Entered(V) : Entered(V) = {s} /\ (First(s) => V = {s})
              /\ Destroy(V)

Forget_None(q) == q

\* The order without the sessions that have ended; left[n] is what is left of the
\* first n.  (SelectSeq would do; this can be reasoned about.)
Forget(q) ==
    LET left[n \in 0..Len(q)] ==
            IF n = 0 THEN <<>>
            ELSE IF q[n] \in sessions' THEN Append(left[n - 1], q[n])
            ELSE left[n - 1]
    IN  left[Len(q)]

(***************************************************************************)
(* Commands.                                                               *)
(***************************************************************************)
Connect(c) ==
    /\ clients[c].state = "free"
    /\ clients' = [clients EXCEPT ![c] = NewClient]
    /\ UNCHANGED <<sessions, dead, lost, name, opts, unattached, activity,
                   held, socket>>

\* The client of a command: one that attaches itself or one that types keys.
MayCommand(c) == Live(c) /\ ~clients[c].susp /\ ~clients[c].exit

Remember(cl) == IF cl.session = NoSession THEN cl
                ELSE [cl EXCEPT !.last = cl.session]

Taken_Never(n) == FALSE

\* session_find: is n the name of a live session?
Taken(n) == \E s \in sessions : name[s] = n

\* new-session; detached or not.  (Without a name the session is called by its
\* number, which is taken to be nobody's name here.)
NewSession(c, s, n, o, detached) ==
    LET cl == IF detached THEN clients
              ELSE [clients EXCEPT ![c] = [Remember(@) EXCEPT !.session = s]]
    IN  /\ MayCommand(c)
        /\ s \notin sessions \cup dead \cup lost
        /\ ~Taken(n)
        /\ o.destroy => Together \/ \A d \in ClientId : ~clients[d].susp
        /\ sessions'   = sessions \cup {s}
        /\ name'       = [name EXCEPT ![s] = n]
        /\ opts'       = [opts EXCEPT ![s] = o]
        /\ activity'   = Touch(activity, s)
        /\ clients'    = cl
        /\ unattached' = Recalculate(sessions \cup {s}, cl)
        /\ socket'     = Attached
        /\ UNCHANGED <<dead, lost, held>>

\* new-session whose process cannot be started: session_create has entered the
\* session already and destroys it again.
NewSessionFails(c, s, n) ==
    LET entered == \A d \in dead : name[d] # n
    IN  /\ MayCommand(c)
        /\ s \notin sessions \cup dead \cup lost
        /\ ~Taken(n)
        /\ dead' = IF entered THEN dead \cup {s} ELSE dead
        /\ lost' = IF entered THEN lost ELSE lost \cup {s}
        /\ name' = [name EXCEPT ![s] = n]
        /\ UNCHANGED <<sessions, opts, unattached, activity, clients, held,
                       socket>>

\* rename-session: the session is taken out of the tree and entered again.
RenameSession(s, n) ==
    /\ s \in sessions /\ ~Taken(n)
    /\ name' = [name EXCEPT ![s] = n]
    /\ UNCHANGED <<sessions, dead, lost, opts, unattached, activity, clients,
                   held, socket>>

\* attach-session; it leaves last_session alone.
AttachSession(c, s) ==
    LET cl == [clients EXCEPT ![c].session = s]
    IN  /\ MayCommand(c)
        /\ s \in sessions
        /\ clients'    = cl
        /\ activity'   = Touch(activity, s)
        /\ unattached' = Recalculate(sessions, cl)
        /\ UNCHANGED <<sessions, dead, lost, name, opts, held>>
        /\ socket'     = Attached

\* switch-client to s, from any client and for any client with a session.
SwitchTo(c, s) ==
    LET cl == [clients EXCEPT ![c] = [Remember(@) EXCEPT !.session = s]]
    IN  /\ Live(c) /\ clients[c].session # NoSession
        /\ clients' = cl
        /\ CheckUnattached(Recalculate(sessions, cl))
        /\ activity' = Forget(Touch(activity, s))
        /\ UNCHANGED <<opts, held, socket>>

SwitchClient(c, s) == s \in sessions /\ SwitchTo(c, s)

\* switch-client -l: session_alive compares addresses.
SwitchLast(c) == clients[c].last \in sessions /\ SwitchTo(c, clients[c].last)

\* A key: server_client_handle_key.
Key(c) ==
    /\ MayCommand(c) /\ clients[c].session \in sessions
    /\ activity' = Touch(activity, clients[c].session)
    /\ UNCHANGED <<sessions, dead, lost, name, opts, unattached, clients,
                   held, socket>>

\* suspend-client; lock-client and the lock timers, which recalculate the sizes
\* afterwards.
Suspend(c, lock) ==
    LET cl == [clients EXCEPT ![c].susp = TRUE]
    IN  /\ Together \/ \A s \in sessions : ~opts[s].destroy
        /\ MayCommand(c) /\ clients[c].session # NoSession
        /\ clients'    = cl
        /\ unattached' = IF lock THEN Recalculate(sessions, cl) ELSE unattached
        /\ UNCHANGED <<sessions, dead, lost, name, opts, activity, held, socket>>

\* MSG_WAKEUP and MSG_UNLOCK.
Wakeup(c) ==
    LET cl == [clients EXCEPT ![c].susp = FALSE]
    IN  /\ Live(c) /\ clients[c].susp
        /\ clients'    = cl
        /\ activity'   = IF clients[c].session \in sessions
                         THEN Touch(activity, clients[c].session) ELSE activity
        /\ unattached' = Recalculate(sessions, cl)
        /\ UNCHANGED <<sessions, dead, lost, name, opts, held, socket>>

(***************************************************************************)
(* Clients that leave, and the server's loop.                              *)
(***************************************************************************)
\* MSG_EXITING: the client leaves, after a detach or on its own account.
Exiting(c) ==
    /\ Live(c) /\ clients[c].session # NoSession
    /\ clients' = [clients EXCEPT ![c].session = NoSession]
    /\ UNCHANGED <<sessions, dead, lost, name, opts, unattached, activity,
                   held, socket>>

\* server_client_check_exit: MSG_EXIT is sent.
CheckExit(c) ==
    /\ Live(c) /\ clients[c].exit
    /\ clients' = [clients EXCEPT ![c].exit = FALSE]
    /\ UNCHANGED <<sessions, dead, lost, name, opts, unattached, activity,
                   held, socket>>

\* server_client_lost: the connection is closed, at any time.
ClientLost(c) ==
    LET cl == [clients EXCEPT ![c] = Dead]
    IN  /\ Live(c)
        /\ clients' = cl
        /\ CheckUnattached(Recalculate(sessions, cl))
        /\ activity' = Forget(activity)
        /\ socket'   = Attached
        /\ UNCHANGED <<opts, held>>

\* choose-window: the mode's data points to the session and to the client, and
\* counts as a reference to both until the mode is left.
ChooseWindow(c, s) ==
    /\ MayCommand(c) /\ s \in sessions /\ held = {}
    /\ held' = {<<s, c>>}
    /\ UNCHANGED <<sessions, dead, lost, name, opts, unattached, activity,
                   clients, socket>>

LeaveChoose ==
    /\ held # {}
    /\ held' = {}
    /\ UNCHANGED <<sessions, dead, lost, name, opts, unattached, activity,
                   clients, socket>>

\* A session that is not there has no name, and its options are these.
Default == [destroy |-> FALSE, detach |-> TRUE]
There(d) == sessions \cup d \cup lost
Forgotten(d) ==
    /\ opts' = [s \in SessionId |-> IF s \in There(d) THEN opts[s] ELSE Default]
    /\ name' = [s \in SessionId |-> IF s \in There(d) THEN name[s] ELSE NoName]

\* An error: dead sessions stay.
CleanDead_Clients ==
    /\ dead'    = dead
    /\ clients' = [c \in ClientId |-> IF clients[c].state = "dead" /\ held = {}
                    THEN [NewClient EXCEPT !.state = "free"] ELSE clients[c]]
    /\ Forgotten(dead)
    /\ UNCHANGED <<sessions, lost, unattached, activity, held, socket>>

\* server_clean_dead, at the end of every turn of server_loop; it looks at the
\* sessions of dead_sessions only.
CleanDead ==
    /\ dead'    = {s \in dead : \E c \in ClientId : <<s, c>> \in held}
    /\ clients' = [c \in ClientId |->
                    IF /\ clients[c].state = "dead"
                       /\ \A s \in SessionId : <<s, c>> \notin held
                    THEN [NewClient EXCEPT !.state = "free"] ELSE clients[c]]
    /\ Forgotten(dead')
    /\ UNCHANGED <<sessions, lost, unattached, activity, held, socket>>

(***************************************************************************)
(* The specification.                                                      *)
(***************************************************************************)
Init ==
    /\ sessions   = {}
    /\ dead       = {}
    /\ lost       = {}
    /\ name       = [s \in SessionId |-> NoName]
    /\ opts       = [s \in SessionId |-> Default]
    /\ unattached = {}
    /\ activity   = <<>>
    /\ clients    = [c \in ClientId |-> [NewClient EXCEPT !.state = "free"]]
    /\ held       = {}
    /\ socket     = FALSE

Next ==
    \/ \E c \in ClientId :
          \/ Connect(c)
          \/ SwitchLast(c)
          \/ Key(c)
          \/ \E lock \in BOOLEAN : Suspend(c, lock)
          \/ Wakeup(c)
          \/ Exiting(c)
          \/ CheckExit(c)
          \/ ClientLost(c)
    \/ \E c \in ClientId, s \in SessionId :
          \/ \E n \in Name, o \in OptionType, detached \in BOOLEAN :
                NewSession(c, s, n, o, detached)
          \/ AttachSession(c, s)
          \/ SwitchClient(c, s)
          \/ ChooseWindow(c, s)
    \/ \E s \in SessionId : KillSession(s) \/ CloseLastWindow(s)
    \/ \E s \in SessionId, n \in Name :
          \/ RenameSession(s, n)
          \/ \E c \in ClientId : NewSessionFails(c, s, n)
    \/ LeaveChoose
    \/ CleanDead

Spec == Init /\ [][Next]_vars

\* server_loop goes round after every event: it sends the exits and frees.
FairSpec == /\ Spec
            /\ WF_vars(CleanDead)
            /\ \A c \in ClientId : WF_vars(CheckExit(c))

(***************************************************************************)
(* Properties.                                                             *)
(***************************************************************************)
\* No two sessions of a tree have the same name.
Keyed(tree) == \A s, t \in tree : name[s] = name[t] => s = t

TypeOK ==
    /\ sessions \subseteq SessionId /\ dead \subseteq SessionId \ sessions
    /\ lost \subseteq SessionId \ (sessions \cup dead)
    /\ name \in [SessionId -> Name \cup {NoName}]
    /\ Keyed(sessions) /\ Keyed(dead)
    /\ opts \in [SessionId -> [destroy : BOOLEAN, detach : BOOLEAN]]
    /\ unattached \subseteq SessionId
    /\ activity \in Seq(SessionId) /\ ToSet(activity) = sessions
    /\ clients \in [ClientId -> ClientType]
    /\ held \subseteq SessionId \X ClientId
    /\ socket \in BOOLEAN

\* A client's session pointer (used without a check at every key, redraw and
\* wakeup) is null or points to a live session, whatever ends sessions.
ClientSessionAlive ==
    \A c \in ClientId : Live(c) => clients[c].session \in sessions \cup {NoSession}

\* A session with the flag SESSION_UNATTACHED has no client but suspended ones, and
\* none at all if it has destroy-unattached (Together is FALSE), so that what
\* server_check_unattached collects is nobody's.
UnattachedHasNoClient ==
    \A s \in sessions \cap unattached, c \in ClientId :
        (c \in On(clients, s)) => clients[c].susp /\ ~opts[s].destroy

\* What a choose-window mode points to has not been freed, though the session
\* may have been destroyed and the client lost in the meantime.
HeldNotFreed ==
    \A x \in held : x[1] \in sessions \cup dead \cup lost /\ clients[x[2]].state # "free"

\* No session or client is used after it was freed, by a client's session pointer
\* or by a mode.
PointersAlive == ClientSessionAlive /\ HeldNotFreed

\* When a session ends each of its clients is moved to a live session or told
\* to exit.
NoClientLeftBehind ==
    [][\A s \in sessions \ sessions' : \A c \in On(clients, s) :
          \/ clients'[c].state = "dead"
          \/ clients'[c].session \in sessions' \ {s}
          \/ clients'[c].exit]_vars

\* Does a mode point to s?
Referenced(s) == \E c \in ClientId : <<s, c>> \in held

\* The sessions of dead_sessions do not pile up: each is freed unless a mode still
\* points to it, whatever sessions of its name have come and gone since.  (One that
\* ended while another of its name was there is in lost instead and stays there:
\* server_clean_dead does not meet it.)
DeadFreed ==
    \A s \in SessionId : (s \in dead) ~> (s \notin dead \/ Referenced(s))

=============================================================================
