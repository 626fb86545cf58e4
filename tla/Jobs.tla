-------------------------------- MODULE Jobs --------------------------------
(***************************************************************************)
(* Commands run in the background (job.c): those of #() in the status      *)
(* line, if-shell and run-shell.  A job has ended when its process has and *)
(* its output has; the two come in either order, and the process may leave *)
(* others behind that keep the output open.  A job counts as a reference   *)
(* to the client it is for, and so keeps the memory of a lost client.      *)
(*                                                                         *)
(* server_child_signal takes all processes that have ended; here each is a *)
(* step, which is as if the later one had ended later.  job_free may send  *)
(* SIGTERM to a process that has just been waited for, see README.         *)
(***************************************************************************)
EXTENDS Naturals, FiniteSets

CONSTANTS
    JobId,          \* addresses of jobs
    ClientId,
    Line,           \* commands in #()
    Leftovers,      \* may a process leave others with its output?
    MaxReferences,  \* bound: references to a client
    NoJob

\* kind is what callbackfn and freefn do; pid and fd are set to -1 when the
\* process and the output have ended.  seen is the output read so far.
JobType == [kind : {"status", "if", "run"}, line : Line \cup {NoJob}, on : ClientId,
            pid : BOOLEAN, fd : BOOLEAN, seen : BOOLEAN]

ASSUME JobAssumption ==
    /\ NoJob \notin JobId \cup JobType /\ IsFiniteSet(JobId)
    /\ Leftovers \in BOOLEAN /\ MaxReferences \in Nat

VARIABLES
    job,        \* all_jobs: the server's side of each job
    child,      \* its process: has it ended, has it written, is its output open?
    client,     \* clients: the parts that jobs are about
    failed,     \* clients for which a fork has failed
    died        \* what the server died of, or "no"

vars == <<job, child, client, failed, died>>

NewJob(kind, line, c) ==
    [kind |-> kind, line |-> line, on |-> c, pid |-> TRUE, fd |-> TRUE, seen |-> FALSE]

NewChild == [is |-> "running", ok |-> FALSE, wrote |-> FALSE, open |-> TRUE]

\* attached: it has keys and a status line, and a session as long as it stays;
\* else it is a command given in a shell.  new and old are the trees of results:
\* the lines in them, and if there is a result.  waits: a command has returned 1,
\* so that the client is not told to exit.
NewClient(attached) ==
    [state |-> "live", attached |-> attached, session |-> attached, waits |-> FALSE,
     exit |-> FALSE, references |-> 0, new |-> <<>>, old |-> <<>>]

Init ==
    /\ job    = [j \in JobId |-> NoJob]
    /\ child  = [j \in JobId |-> [NewChild EXCEPT !.is = "gone", !.open = FALSE]]
    /\ client = [c \in ClientId |-> [NewClient(FALSE) EXCEPT !.state = "free"]]
    /\ failed = {}
    /\ died   = "no"

Live(c) == died = "no" /\ client[c].state = "live"
On(c)   == {j \in JobId : job[j] # NoJob /\ job[j].on = c}

-----------------------------------------------------------------------------
(* Starting a job: the callers count the reference whether or not it works. *)

\* job_run, for a client that becomes cl.
JobRun(kind, line, c, cl) ==
    /\ cl.references < MaxReferences
    /\ client' = [client EXCEPT ![c] = [cl EXCEPT !.references = @ + 1]]
    /\ \/ \E j \in JobId :
             /\ job[j] = NoJob /\ ~child[j].open
             /\ job'   = [job EXCEPT ![j] = NewJob(kind, line, c)]
             /\ child' = [child EXCEPT ![j] = NewChild]
             /\ UNCHANGED failed
       \/ failed' = failed \cup {c} /\ UNCHANGED <<job, child>>
    /\ UNCHANGED died

\* status_find_job, for a line that is not in the tree yet.
FindJob(c, line) ==
    /\ Live(c) /\ client[c].session
    /\ line \notin DOMAIN client[c].new
    /\ JobRun("status", line, c,
              [client[c] EXCEPT !.new = [l \in DOMAIN @ \cup {line} |->
                                            IF l = line THEN "none" ELSE @[l]]])

\* status_update_jobs, after status-interval.
UpdateJobs(c) ==
    /\ Live(c) /\ client[c].session
    /\ client' = [client EXCEPT ![c].old = client[c].new, ![c].new = <<>>]
    /\ UNCHANGED <<job, child, failed, died>>

\* cmd_if_shell_exec and cmd_run_shell_exec, from a key or from a shell.
ShellCommand(c, kind) ==
    /\ Live(c) /\ ~client[c].waits /\ ~client[c].exit
    /\ client[c].attached => client[c].session
    /\ JobRun(kind, NoJob, c, [client[c] EXCEPT !.waits = ~client[c].attached])

-----------------------------------------------------------------------------
(* The end of a job *)

\* status_job_callback: the result goes to the line, whichever of its jobs it
\* comes from, unless there is one.
StatusResult(cl, line, out) ==
    IF cl.state = "live" /\ line \in DOMAIN cl.new /\ cl.new[line] = "none"
    THEN [cl EXCEPT !.new[line] = out] ELSE cl

\* What the callback may make the server die of: cmd_if_shell_callback has its
\* commands run for a client that is lost, whose session or stream may be freed
\* memory; either callback writes to a client that has no session any more.
Deaths(kind, ok, cl) ==
    CASE kind = "if" /\ ok /\ cl.state = "dead" -> {"no", "freed"}
      [] kind = "run" \/ (kind = "if" /\ ok) -> IF cl.state = "live" /\ cl.attached /\ ~cl.session
            THEN {"no", "null session"} ELSE {"no"}
      [] OTHER -> {"no"}

\* status_job_free, cmd_if_shell_free and cmd_run_shell_free.
Freed(cl, kind) ==
    LET d == [cl EXCEPT !.references = @ - 1]
    IN  IF kind # "status" /\ ~cl.attached THEN [d EXCEPT !.exit = TRUE, !.waits = FALSE] ELSE d

\* The callback, then job_free.
Finish(j) ==
    LET e   == job[j]
        cl  == client[e.on]
        out == IF ~child[j].open /\ e.seen = child[j].wrote THEN "whole" ELSE "part"
    IN  /\ client' = [client EXCEPT ![e.on] =
              Freed(IF e.kind = "status" THEN StatusResult(cl, e.line, out) ELSE cl, e.kind)]
        /\ died' \in Deaths(e.kind, child[j].ok, cl)
        /\ job' = [job EXCEPT ![j] = NoJob]

\* waitpid returns a process that has ended once.
Waited(j) == child' = [child EXCEPT ![j].is = "gone"]

\* An error: the process that has ended is not remembered.
JobDied_Forgets(j) ==
    /\ died = "no" /\ job[j] # NoJob
    /\ child[j].is = "ended"
    /\ Waited(j)
    /\ IF job[j].fd THEN UNCHANGED <<job, client, died>> ELSE Finish(j)
    /\ UNCHANGED failed

\* An error: the job ends with its process.
JobDied_Early(j) ==
    /\ died = "no" /\ job[j] # NoJob
    /\ child[j].is = "ended"
    /\ Waited(j)
    /\ Finish(j)
    /\ UNCHANGED failed

\* job_died, from server_child_exited.
JobDied(j) ==
    /\ died = "no" /\ job[j] # NoJob
    /\ child[j].is = "ended"
    /\ Waited(j)
    /\ IF job[j].fd
         THEN job' = [job EXCEPT ![j].pid = FALSE] /\ UNCHANGED <<client, died>>
       ELSE Finish(j)
    /\ UNCHANGED failed

\* The event's buffer takes what has been written.
Read(j) ==
    /\ died = "no" /\ job[j] # NoJob
    /\ job[j].fd /\ child[j].wrote /\ ~job[j].seen
    /\ job' = [job EXCEPT ![j].seen = TRUE]
    /\ UNCHANGED <<child, client, failed, died>>

\* job_callback: the output has ended.
JobCallback(j) ==
    /\ died = "no" /\ job[j] # NoJob
    /\ job[j].fd /\ ~child[j].open /\ job[j].seen = child[j].wrote
    /\ IF job[j].pid
         THEN job' = [job EXCEPT ![j].fd = FALSE] /\ UNCHANGED <<client, died>>
       ELSE Finish(j)
    /\ UNCHANGED <<child, failed>>

-----------------------------------------------------------------------------
(* Processes *)

Write(j) ==
    /\ child[j].open /\ ~child[j].wrote
    /\ child' = [child EXCEPT ![j].wrote = TRUE]
    /\ UNCHANGED <<job, client, failed, died>>

\* It closes its output, or what it has left behind does.
CloseOutput(j) ==
    /\ child[j].open
    /\ child' = [child EXCEPT ![j].open = FALSE]
    /\ UNCHANGED <<job, client, failed, died>>

Exit(j, ok, open) ==
    /\ child[j].is = "running"
    /\ open => child[j].open /\ Leftovers
    /\ child' = [child EXCEPT ![j].is = "ended", ![j].ok = ok, ![j].open = open]
    /\ UNCHANGED <<job, client, failed, died>>

-----------------------------------------------------------------------------
(* Clients *)

Connect(c, attached) ==
    /\ died = "no" /\ client[c].state = "free"
    /\ client' = [client EXCEPT ![c] = NewClient(attached)]
    /\ UNCHANGED <<job, child, failed, died>>

\* MSG_EXITING, or the end of its session.
LeaveSession(c) ==
    /\ Live(c) /\ client[c].session
    /\ client' = [client EXCEPT ![c].session = FALSE]
    /\ UNCHANGED <<job, child, failed, died>>

\* server_client_check_exit: MSG_EXIT is sent.
CheckExit(c) ==
    /\ Live(c) /\ client[c].exit
    /\ client' = [client EXCEPT ![c].exit = FALSE]
    /\ UNCHANGED <<job, child, failed, died>>

\* server_client_lost.
ClientLost(c) ==
    /\ Live(c)
    /\ client' = [client EXCEPT ![c].state = "dead", ![c].session = FALSE,
                                ![c].waits = FALSE, ![c].exit = FALSE,
                                ![c].new = <<>>, ![c].old = <<>>]
    /\ UNCHANGED <<job, child, failed, died>>

\* server_clean_dead.
CleanDead ==
    /\ died = "no"
    /\ LET gone == {c \in ClientId : client[c].state = "dead" /\ client[c].references = 0}
       IN  /\ client' = [c \in ClientId |-> IF c \in gone
                            THEN [NewClient(FALSE) EXCEPT !.state = "free"] ELSE client[c]]
           /\ failed' = failed \ gone
    /\ UNCHANGED <<job, child, died>>

-----------------------------------------------------------------------------

Next ==
    \/ \E c \in ClientId :
          \/ \E line \in Line : FindJob(c, line)
          \/ UpdateJobs(c)
          \/ \E kind \in {"if", "run"} : ShellCommand(c, kind)
          \/ \E attached \in BOOLEAN : Connect(c, attached)
          \/ LeaveSession(c) \/ CheckExit(c) \/ ClientLost(c)
    \/ \E j \in JobId :
          \/ JobDied(j) \/ Read(j) \/ JobCallback(j)
          \/ Write(j) \/ CloseOutput(j)
          \/ \E ok, open \in BOOLEAN : Exit(j, ok, open)
    \/ CleanDead

Spec == Init /\ [][Next]_vars

\* server_loop waits for events and takes each that is there: the end of a
\* process (SIGCHLD), output and its end.
FairSpec ==
    /\ Spec
    /\ \A j \in JobId : WF_vars(JobDied(j)) /\ WF_vars(Read(j)) /\ WF_vars(JobCallback(j))

-----------------------------------------------------------------------------
(* Properties *)

\* A client that jobs are for is not freed, and its references are its jobs (more,
\* if a fork has failed); a line that waits for its result has a job that will
\* bring one, however old; a client that waits in a shell has its job or has been
\* told; and a result is the whole output.
JobSound ==
    \A c \in ClientId :
        /\ On(c) # {} => client[c].state # "free"
        /\ client[c].references >= Cardinality(On(c))
        /\ c \notin failed =>
              /\ client[c].references = Cardinality(On(c))
              /\ \A line \in DOMAIN client[c].new :
                    client[c].new[line] = "none" =>
                        \E j \in On(c) : job[j].kind = "status" /\ job[j].line = line
              /\ client[c].waits => \E j \in On(c) : job[j].kind # "status"
        /\ \A line \in DOMAIN client[c].new : client[c].new[line] # "part"

\* The process of a job and its output have ended, in whichever order.
Ended(j) == job[j] # NoJob /\ child[j].is # "running" /\ ~child[j].open

\* A job that has ended is freed in the end, and with it what it keeps.
JobsEnd == \A j \in JobId : Ended(j) ~> (job[j] = NoJob \/ died # "no")

=============================================================================
