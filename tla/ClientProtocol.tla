--------------------------- MODULE ClientProtocol ---------------------------
(***************************************************************************)
(* The client process and the server's side of its connection: client.c,   *)
(* the message handling of server-client.c, and the start and the shutdown *)
(* of server.c.                                                            *)
(*                                                                         *)
(* Messages travel in order over a stream socket.  The server queues what  *)
(* it writes ("out") and writes the queue to the socket ("down") when it   *)
(* can; when it closes the connection the queue is lost, what is in the    *)
(* socket is not.  A client reads all that has arrived into its buffer     *)
(* ("ibuf") and dispatches it message by message; signals are handled      *)
(* between two such turns.                                                 *)
(*                                                                         *)
(* An operator with an underscore in its name is a variant with a bug of   *)
(* the definition after it, used to see that a property notices the bug.   *)
(***************************************************************************)
EXTENDS Naturals, Sequences, FiniteSets

CONSTANTS
    ClientId,
    Commands,       \* what clients may be started for: a subset of FirstMsg
    Suspends,       \* may clients be suspended and locked?
    Coalesce,       \* may MSG_READY be read together with what follows it?
    ListFails,      \* may a later command of a list that attaches fail?
    MaxQueue        \* bound: what is on its way to and from one client when
                    \* a user adds to it

\* attach: a command that attaches; new: one that makes a session and is done;
\* other: any other command; shell: MSG_SHELL; old: another protocol version.
FirstMsg  == {"attach", "new", "other", "shell", "old"}
ServerMsg == {"READY", "EXIT", "EXITED", "SHUTDOWN", "VERSION", "SHELL",
              "DETACH", "SUSPEND", "LOCK"}
ClientMsg == FirstMsg \cup {"EXITING", "WAKEUP", "UNLOCK", "RESIZE"}
\* Why a client leaves: a message, a signal, or what it says itself.
Reason    == ServerMsg \cup {"none", "lost server", "imsg_read failed", "unexpected message",
                             "TERM", "killed"}
\* TERM stands for HUP as well once attached; before that HUP does nothing.
Signal    == {"TERM", "CONT", "WINCH"}

ASSUME ClientAssumption  == IsFiniteSet(ClientId)
ASSUME CommandAssumption == Commands \subseteq FirstMsg
ASSUME OptionAssumption  == 
    Suspends \in BOOLEAN /\ Coalesce \in BOOLEAN /\ ListFails \in BOOLEAN
ASSUME QueueAssumption   == MaxQueue \in Nat

VARIABLES
    \* the client processes
    proc,       \* off, run, stopped (by SIGTSTP), locking (in system()), gone
    first,      \* what each client asks for
    attached,   \* client_attached
    ibuf,       \* messages read and not dispatched yet
    mode,       \* the dispatch function at work: none, wait or attached; or
                \* again, when client_dispatch_wait is about to read once more
    pending,    \* signals raised and not handled
    reason,     \* why a client is gone
    \* the connections
    up,         \* client to server
    down,       \* server to client, in the socket
    open,       \* does the server have its end of the connection open?
    \* the server
    server,     \* off, up or exited
    shutdown,   \* server_shutdown
    session,    \* is there any session?
    conn,       \* the client structures: none, live or lost
    ses,        \* c->session # NULL
    bad, susp, exit,    \* CLIENT_BAD, CLIENT_SUSPENDED, CLIENT_EXIT
    out,        \* the queue of messages to write
    tty         \* none, ready (identified), started, stopped or closed

clientVars == <<proc, first, attached, ibuf, mode, pending, reason>>
serverVars == <<server, shutdown, session, conn, ses, bad, susp, exit, out, tty>>
vars == <<clientVars, up, down, open, serverVars>>

Set(f, c, v) == [f EXCEPT ![c] = v]
Ids(q) == {q[k] : k \in 1..Len(q)}

\* The bound on what users add: messages and signals under way.
Room(c) == Len(out[c]) + Len(down[c]) + Len(ibuf[c]) + Len(up[c])
             + Cardinality(pending[c])
             + (IF proc[c] = "locking" THEN 1 ELSE 0) < MaxQueue

(***************************************************************************)
(* The client.                                                             *)
(***************************************************************************)
\* client_connect and client_main: the client connects, starting the server if
\* there is none, identifies its terminal and sends its command.
Connect(c, msg) ==
    /\ proc[c] = "off" /\ server # "exited"
    /\ proc'  = Set(proc, c, "run")
    /\ first' = Set(first, c, msg)
    /\ up'    = Set(up, c, <<msg>>)
    /\ open'  = Set(open, c, TRUE)
    /\ IF server = "off"
       THEN /\ server' = "up"
            /\ conn'   = Set(conn, c, "live")
            /\ tty'    = Set(tty, c, "ready")
       ELSE UNCHANGED <<server, conn, tty>>
    /\ UNCHANGED <<attached, ibuf, mode, pending, reason, down, shutdown,
                   session, ses, bad, susp, exit, out>>

\* The client's process ends.
Leave(c, why) ==
    /\ proc'    = Set(proc, c, "gone")
    /\ reason'  = Set(reason, c, why)
    /\ ibuf'    = Set(ibuf, c, <<>>)
    /\ mode'    = Set(mode, c, "none")
    /\ pending' = Set(pending, c, {})

\* imsg_read: add the next n messages to the buffer.
Read(c) ==
    \E n \in 1..Len(down[c]) :
        LET buf == ibuf[c] \o SubSeq(down[c], 1, n)
        IN  /\ ~Coalesce => "READY" \notin Ids(SubSeq(buf, 1, Len(buf) - 1))
            /\ ibuf' = Set(ibuf, c, buf)
            /\ down' = Set(down, c, SubSeq(down[c], n + 1, Len(down[c])))

\* client_callback.
ClientRead(c) ==
    /\ proc[c] = "run" /\ mode[c] = "none" /\ down[c] # <<>>
    /\ Read(c)
    /\ mode' = Set(mode, c, IF attached[c] THEN "attached" ELSE "again")
    /\ UNCHANGED <<proc, first, attached, pending, reason, up, open, serverVars>>

\* client_dispatch_wait reads again before it looks at the buffer; it dies of a
\* connection found closed, whatever the buffer holds.
ReadAgain(c) ==
    /\ proc[c] = "run" /\ mode[c] = "again"
    /\ \/ /\ down[c] = <<>> /\ ~open[c]
          /\ Leave(c, "imsg_read failed")
          /\ UNCHANGED down
       \/ /\ down[c] # <<>>
          /\ Read(c)
          /\ mode' = Set(mode, c, "wait")
          /\ UNCHANGED <<proc, pending, reason>>
       \/ /\ \/ down[c] = <<>> /\ open[c]
             \/ ~Coalesce /\ "READY" \in Ids(ibuf[c])
          /\ mode' = Set(mode, c, "wait")
          /\ UNCHANGED <<proc, pending, reason, ibuf, down>>
    /\ UNCHANGED <<first, attached, up, open, serverVars>>

\* The server has closed the connection: "lost server".
ClientEOF(c) ==
    /\ proc[c] = "run" /\ mode[c] = "none" /\ down[c] = <<>> /\ ~open[c]
    /\ Leave(c, "lost server")
    /\ UNCHANGED <<first, attached, up, down, open, serverVars>>

NextMsg_Stays(c) ==
    /\ ibuf' = Set(ibuf, c, Tail(ibuf[c]))
    /\ UNCHANGED mode

\* The rest of the buffer is dispatched next, or the turn is over.
NextMsg(c) ==
    /\ ibuf' = Set(ibuf, c, Tail(ibuf[c]))
    /\ mode' = Set(mode, c, IF Len(ibuf[c]) = 1 THEN "none" ELSE mode[c])

Reply(c, msg) == up' = Set(up, c, Append(up[c], msg))

\* client_dispatch_wait: before MSG_READY.
DispatchWait(c) ==
    /\ proc[c] = "run" /\ mode[c] = "wait"
    /\ LET msg == Head(ibuf[c])
           expected == {"EXIT", "SHUTDOWN", "VERSION", "SHELL"}
       IN  \/ /\ msg = "READY"
              /\ attached' = Set(attached, c, TRUE)
              /\ NextMsg(c)
              /\ UNCHANGED <<proc, pending, reason>>
           \/ /\ msg # "READY"
              /\ Leave(c, IF msg \in expected THEN msg ELSE "unexpected message")
              /\ UNCHANGED attached
    /\ UNCHANGED <<first, up, down, open, serverVars>>

\* client_dispatch_attached: after MSG_READY.
DispatchAttached(c) ==
    /\ proc[c] = "run" /\ mode[c] = "attached"
    /\ LET msg == Head(ibuf[c])
       IN  \/ /\ msg \in {"DETACH", "EXIT", "SHUTDOWN"}
              /\ Reply(c, "EXITING")
              /\ NextMsg(c)
              /\ UNCHANGED <<proc, pending, reason>>
           \/ /\ msg = "SUSPEND"
              /\ proc' = Set(proc, c, "stopped")
              /\ NextMsg(c)
              /\ UNCHANGED <<pending, reason, up>>
           \/ /\ msg = "LOCK"
              /\ proc' = Set(proc, c, "locking")
              /\ NextMsg(c)
              /\ UNCHANGED <<pending, reason, up>>
           \/ /\ msg \in {"EXITED", "READY", "VERSION", "SHELL"}
              /\ Leave(c, IF msg = "EXITED" THEN msg ELSE "unexpected message")
              /\ UNCHANGED up
    /\ UNCHANGED <<first, attached, down, open, serverVars>>

LockDone_Silent(c) ==
    /\ proc[c] = "locking"
    /\ proc' = Set(proc, c, "run")
    /\ UNCHANGED <<first, attached, ibuf, mode, pending, reason, up, down, open,
                   serverVars>>

\* system() returns.
LockDone(c) ==
    /\ proc[c] = "locking"
    /\ proc' = Set(proc, c, "run")
    /\ Reply(c, "UNLOCK")
    /\ UNCHANGED <<first, attached, ibuf, mode, pending, reason, down, open,
                   serverVars>>

\* A signal is sent to the client.  SIGCONT lets a stopped process go on.
Raise(c, sig) ==
    /\ proc[c] \in {"run", "stopped", "locking"} /\ Room(c)
    /\ pending' = Set(pending, c, pending[c] \cup {sig})
    /\ proc'    = IF proc[c] = "stopped" /\ sig = "CONT"
                  THEN Set(proc, c, "run") ELSE proc
    /\ UNCHANGED <<first, attached, ibuf, mode, reason, up, down, open, serverVars>>

\* client_signal.
Handle(c, sig) ==
    /\ proc[c] = "run" /\ mode[c] = "none" /\ sig \in pending[c]
    /\ IF attached[c]
       THEN /\ Reply(c, CASE sig = "TERM"  -> "EXITING"
                          [] sig = "CONT"  -> "WAKEUP"
                          [] sig = "WINCH" -> "RESIZE")
            /\ pending' = Set(pending, c, pending[c] \ {sig})
            /\ UNCHANGED <<proc, reason, ibuf, mode>>
       ELSE /\ UNCHANGED up
            /\ IF sig = "TERM"
               THEN Leave(c, "TERM")
               ELSE /\ pending' = Set(pending, c, pending[c] \ {sig})
                    /\ UNCHANGED <<proc, reason, ibuf, mode>>
    /\ UNCHANGED <<first, attached, down, open, serverVars>>

\* The client is killed.
Killed(c) ==
    /\ proc[c] \in {"run", "stopped", "locking"}
    /\ Leave(c, "killed")
    /\ UNCHANGED <<first, attached, up, down, open, serverVars>>

(***************************************************************************)
(* The server: connections and messages.                                   *)
(***************************************************************************)
Live(c) == server = "up" /\ conn[c] = "live"

\* server_write_client: nothing is written to a bad client.
Write(q, c, msg) == IF bad[c] THEN q ELSE [q EXCEPT ![c] = Append(@, msg)]

\* tty_start_tty and tty_stop_tty.
TtyStart(t) == IF t \in {"ready", "stopped"} THEN "started" ELSE t
TtyStop(t)  == IF t = "started" THEN "stopped" ELSE t

\* server_accept_callback: closed at once when the server is shutting down.
Accept(c) ==
    /\ server = "up" /\ open[c] /\ conn[c] = "none"
    /\ IF shutdown
       THEN /\ conn' = Set(conn, c, "lost")
            /\ open' = Set(open, c, FALSE)
            /\ UNCHANGED tty
       ELSE /\ conn' = Set(conn, c, "live")
            /\ tty'  = Set(tty, c, "ready")
            /\ UNCHANGED open
    /\ UNCHANGED <<clientVars, up, down, server, shutdown, session, ses, bad,
                   susp, exit, out>>

\* server_client_lost: the queue is discarded, the terminal closed, the
\* connection closed.
Lost(cs) ==
    LET upd(f, v) == [c \in ClientId |-> IF c \in cs THEN v ELSE f[c]]
    IN  /\ conn' = upd(conn, "lost")
        /\ open' = upd(open, FALSE)
        /\ out'  = upd(out, <<>>)
        /\ tty'  = upd(tty, "closed")

\* server_client_msg_dispatch, one message.
ReadCommand(c, msg) ==
    \/ /\ msg = "attach"                    \* the terminal can be opened
       /\ tty'     = Set(tty, c, "started")
       /\ out'     = Write(out, c, "READY")
       /\ ses'     = Set(ses, c, TRUE)
       /\ session' = TRUE
       /\ \/ UNCHANGED exit
          \/ ListFails /\ exit' = Set(exit, c, TRUE)
       /\ UNCHANGED bad
    \/ /\ msg = "attach"                    \* or cannot, which closes it
       /\ tty'  = Set(tty, c, "closed")
       /\ exit' = Set(exit, c, TRUE)
       /\ UNCHANGED <<out, ses, session, bad>>
    \/ /\ msg \in {"new", "other"}
       /\ session' = (session \/ msg = "new")
       /\ exit' = Set(exit, c, TRUE)
       /\ UNCHANGED <<tty, out, ses, bad>>
    \/ /\ msg \in {"shell", "old"}
       /\ out' = Write(out, c, IF msg = "old" THEN "VERSION" ELSE "SHELL")
       /\ bad' = Set(bad, c, TRUE)
       /\ UNCHANGED <<tty, exit, ses, session>>

\* An error: the terminal is not closed.
ReadExiting_Open(c) ==
    /\ ses' = Set(ses, c, FALSE)
    /\ out' = Write(out, c, "EXITED")
    /\ UNCHANGED <<session, exit, bad, susp, tty>>

\* MSG_EXITING: the terminal is closed before the client is told to go.
ReadExiting(c) ==
    /\ ses' = Set(ses, c, FALSE)
    /\ tty' = Set(tty, c, "closed")
    /\ out' = Write(out, c, "EXITED")
    /\ UNCHANGED <<session, exit, bad, susp>>

\* MSG_WAKEUP and MSG_UNLOCK.
ReadWakeup(c) ==
    /\ susp' = Set(susp, c, FALSE)
    /\ tty'  = IF susp[c] THEN Set(tty, c, TtyStart(tty[c])) ELSE tty
    /\ UNCHANGED <<session, exit, bad, ses, out>>

ServerRead(c) ==
    /\ Live(c) /\ ~bad[c] /\ up[c] # <<>>
    /\ up' = Set(up, c, Tail(up[c]))
    /\ LET msg == Head(up[c])
       IN  \/ ReadCommand(c, msg) /\ UNCHANGED susp
           \/ msg = "EXITING" /\ ReadExiting(c)
           \/ msg \in {"WAKEUP", "UNLOCK"} /\ ReadWakeup(c)
           \/ /\ msg = "RESIZE"
              /\ UNCHANGED <<session, exit, bad, ses, out, susp, tty>>
    /\ UNCHANGED <<clientVars, down, open, server, shutdown, conn>>

\* The connection is found closed when it is read.
ServerEOF(c) ==
    /\ Live(c) /\ ~bad[c] /\ up[c] = <<>> /\ proc[c] = "gone"
    /\ Lost({c})
    /\ UNCHANGED <<clientVars, up, down, server, shutdown, session, ses, bad,
                   susp, exit>>

\* server_client_callback, EV_WRITE: the queue goes to the socket, and a bad
\* client is then dropped; writing to a closed connection drops any.
Flush(c) ==
    /\ Live(c) /\ out[c] # <<>>
    /\ down' = IF proc[c] = "gone" THEN down ELSE Set(down, c, down[c] \o out[c])
    /\ IF proc[c] = "gone" \/ bad[c]
       THEN Lost({c})
       ELSE out' = Set(out, c, <<>>) /\ UNCHANGED <<conn, open, tty>>
    /\ UNCHANGED <<clientVars, up, server, shutdown, session, ses, bad, susp, exit>>

CheckExit_Silent(c) ==
    /\ Live(c) /\ exit[c]
    /\ exit' = Set(exit, c, FALSE)
    /\ UNCHANGED <<clientVars, up, down, open, server, shutdown, session, conn,
                   ses, bad, susp, out, tty>>

\* server_client_check_exit, once the command's output has been read.
CheckExit(c) ==
    /\ Live(c) /\ exit[c]
    /\ exit' = Set(exit, c, FALSE)
    /\ out'  = Write(out, c, "EXIT")
    /\ UNCHANGED <<clientVars, up, down, open, server, shutdown, session, conn,
                   ses, bad, susp, tty>>

(***************************************************************************)
(* The server: commands of other clients and key bindings, timers.         *)
(***************************************************************************)
MayWrite(c) == Live(c) /\ ses[c] /\ Room(c)

\* detach-client.
Detach(c) ==
    /\ MayWrite(c)
    /\ out' = Write(out, c, "DETACH")
    /\ UNCHANGED <<clientVars, up, down, open, server, shutdown, session, conn,
                   ses, bad, susp, exit, tty>>

\* suspend-client; lock-client and the lock timers, which leave a client alone
\* that is suspended already.
Suspend(c, msg) ==
    /\ Suspends /\ MayWrite(c)
    /\ msg = "LOCK" => ~susp[c]
    /\ tty'  = Set(tty, c, TtyStop(tty[c]))
    /\ susp' = Set(susp, c, TRUE)
    /\ out'  = Write(out, c, msg)
    /\ UNCHANGED <<clientVars, up, down, open, server, shutdown, session, conn,
                   ses, bad, exit>>

\* The last session ends: its clients are to exit (server_destroy_session).
EndSessions ==
    /\ server = "up" /\ session
    /\ session' = FALSE
    /\ ses'  = [c \in ClientId |-> FALSE]
    /\ exit' = [c \in ClientId |-> exit[c] \/ (Live(c) /\ ses[c])]
    /\ UNCHANGED <<clientVars, up, down, open, server, shutdown, conn, bad,
                   susp, out, tty>>

\* SIGTERM or kill-server: server_send_shutdown.
SendShutdown ==
    /\ server = "up" /\ (shutdown => \A c \in ClientId : Room(c))
    /\ shutdown' = TRUE
    /\ session'  = FALSE
    /\ ses'      = [c \in ClientId |-> FALSE]
    /\ LET cs == {c \in ClientId : conn[c] = "live" /\ (bad[c] \/ susp[c])}
       IN  /\ conn' = [c \in ClientId |-> IF c \in cs THEN "lost" ELSE conn[c]]
           /\ open' = [c \in ClientId |-> IF c \in cs THEN FALSE ELSE open[c]]
           /\ tty'  = [c \in ClientId |-> IF c \in cs THEN "closed" ELSE tty[c]]
           /\ out'  = [c \in ClientId |->
                        CASE c \in cs -> <<>>
                          [] c \notin cs /\ conn[c] = "live" ->
                                Append(out[c], "SHUTDOWN")
                          [] OTHER -> out[c]]
    /\ UNCHANGED <<clientVars, up, down, server, bad, susp, exit>>

\* server_should_shutdown: no session and no client.  Connections that wait to
\* be accepted are closed with the socket.
ServerExit ==
    /\ server = "up" /\ ~session /\ \A c \in ClientId : conn[c] # "live"
    /\ server' = "exited"
    /\ open'   = [c \in ClientId |-> FALSE]
    /\ UNCHANGED <<clientVars, up, down, shutdown, session, conn, ses, bad,
                   susp, exit, out, tty>>

(***************************************************************************)
(* The specification.                                                      *)
(***************************************************************************)
\* There may be a server, with a session that a client that has left has made.
Init ==
    LET all(v) == [c \in ClientId |-> v]
    IN  /\ proc = all("off") /\ first = all("other") /\ attached = all(FALSE)
        /\ ibuf = all(<<>>) /\ mode = all("none") /\ pending = all({})
        /\ reason = all("none")
        /\ up = all(<<>>) /\ down = all(<<>>) /\ open = all(FALSE)
        /\ server \in {"off", "up"} /\ shutdown = FALSE /\ session = (server = "up")
        /\ conn = all("none") /\ ses = all(FALSE) /\ bad = all(FALSE)
        /\ susp = all(FALSE) /\ exit = all(FALSE) /\ out = all(<<>>)
        /\ tty = all("none")

ClientStep(c) ==
    \/ ClientRead(c)
    \/ ReadAgain(c)
    \/ ClientEOF(c)
    \/ DispatchWait(c)
    \/ DispatchAttached(c)

ServerStep(c) ==
    \/ Accept(c)
    \/ ServerRead(c)
    \/ ServerEOF(c)
    \/ Flush(c)
    \/ CheckExit(c)

Next ==
    \/ \E c \in ClientId :
          \/ \E msg \in Commands : Connect(c, msg)
          \/ ClientStep(c)
          \/ \E sig \in Signal : Handle(c, sig)
          \/ LockDone(c)
          \/ \E sig \in Signal : Raise(c, sig)
          \/ Killed(c)
          \/ ServerStep(c)
          \/ Detach(c)
          \/ \E msg \in {"SUSPEND", "LOCK"} : Suspend(c, msg)
    \/ EndSessions
    \/ SendShutdown
    \/ ServerExit

Spec == Init /\ [][Next]_vars

\* Both event loops go on: a message in the socket is read, a message in the
\* queue written, a closed connection noticed, a flag looked at.  Users do
\* nothing they need not do, a stopped client may stay so.
FairSpec ==
    /\ Spec
    /\ \A c \in ClientId :
          /\ WF_vars(ClientStep(c))
          /\ \A sig \in Signal : WF_vars(Handle(c, sig))
          /\ WF_vars(Accept(c))
          /\ WF_vars(ServerRead(c))
          /\ WF_vars(ServerEOF(c))
          /\ WF_vars(Flush(c))
          /\ WF_vars(CheckExit(c))
    /\ WF_vars(ServerExit)

(***************************************************************************)
(* Properties.                                                             *)
(***************************************************************************)
TypeOK ==
    /\ proc \in [ClientId -> {"off", "run", "stopped", "locking", "gone"}]
    /\ first \in [ClientId -> FirstMsg]
    /\ attached \in [ClientId -> BOOLEAN]
    /\ ibuf \in [ClientId -> Seq(ServerMsg)]
    /\ mode \in [ClientId -> {"none", "again", "wait", "attached"}]
    /\ \A c \in ClientId : mode[c] # "none" <=> ibuf[c] # <<>>
    /\ pending \in [ClientId -> SUBSET Signal]
    /\ reason \in [ClientId -> Reason]
    /\ up \in [ClientId -> Seq(ClientMsg)]
    /\ down \in [ClientId -> Seq(ServerMsg)]
    /\ open \in [ClientId -> BOOLEAN]
    /\ server \in {"off", "up", "exited"}
    /\ shutdown \in BOOLEAN /\ session \in BOOLEAN
    /\ conn \in [ClientId -> {"none", "live", "lost"}]
    /\ ses \in [ClientId -> BOOLEAN]
    /\ bad \in [ClientId -> BOOLEAN]
    /\ susp \in [ClientId -> BOOLEAN]
    /\ exit \in [ClientId -> BOOLEAN]
    /\ out \in [ClientId -> Seq(ServerMsg)]
    /\ tty \in [ClientId -> {"none", "ready", "started", "stopped", "closed"}]

\* Everything on its way to the client.
InFlight(c) == Ids(ibuf[c]) \cup Ids(down[c]) \cup Ids(out[c])

\* Neither dispatch function of the client meets a message it does not expect.
NoUnexpected == \A c \in ClientId : reason[c] # "unexpected message"

\* A client that has left in good order has its terminal back: the server has
\* closed it before it wrote MSG_EXITED.
TerminalReturned ==
    \A c \in ClientId :
        attached[c] /\ reason[c] \in {"EXITED", "EXIT", "SHUTDOWN"}
        => tty[c] = "closed"

\* The server does not draw on the terminal of a client it has suspended, and a
\* client it holds suspended will be heard of again: the message that stops it is
\* on its way, or it is stopped, or the message that wakes it is on its way back,
\* or it is leaving.
SuspendSound ==
    \A c \in ClientId : susp[c] =>
        /\ tty[c] # "started"
        /\ \/ ~Live(c)
           \/ InFlight(c) \cap {"SUSPEND", "LOCK"} # {}
           \/ proc[c] \in {"stopped", "locking", "gone"}
           \/ "CONT" \in pending[c]
           \/ Ids(up[c]) \cap {"WAKEUP", "UNLOCK", "EXITING"} # {}
           \/ tty[c] = "closed"

\* A client of another version is told so before it is dropped, unless the
\* server is going down, and unless the client's second read finds the
\* connection closed with the answer unread ("imsg_read failed", ReadAgain).
VersionTold ==
    \A c \in ClientId : first[c] = "old" /\ reason[c] = "lost server"
                       => shutdown \/ server = "exited"

\* What a client says when it leaves is true.
ReasonTrue == NoUnexpected /\ TerminalReturned /\ VersionTold

\* A client that the user has stopped, or that waits for the lock command, may
\* stay so.
Waits(c) == proc[c] \in {"stopped", "locking"}

\* A client that is to exit is rid of its connection in the end: CLIENT_EXIT is
\* cleared when MSG_EXIT is queued and nothing sends it again.
ExitEnds == \A c \in ClientId : exit[c] ~> (conn[c] = "lost" \/ Waits(c))

\* A client that is to be detached leaves: MSG_DETACH, MSG_EXITING, MSG_EXITED
\* and the closed connection follow each other whatever crosses them.
DetachEnds ==
    \A c \in ClientId : ("DETACH" \in Ids(out[c])) ~> (proc[c] = "gone" \/ Waits(c))

\* Whatever a client leaves for, it leaves in the end.
LeavingEnds == ExitEnds /\ DetachEnds

=============================================================================
