----------------------------- MODULE JobsProofs -----------------------------
(***************************************************************************)
(* That references, results and waiting clients agree with the jobs there  *)
(* are, for every number of jobs and clients.                              *)
(***************************************************************************)
EXTENDS Jobs, FiniteSetTheorems, TLAPS

\* The lines of a status line whose jobs have been asked for, and their results.
Tree == UNION {[lines -> {"none", "whole"}] : lines \in SUBSET Line}

ClientType ==
    [state : {"free", "live", "dead"}, attached : BOOLEAN, session : BOOLEAN,
     waits : BOOLEAN, exit : BOOLEAN, references : Nat, new : Tree, old : Tree]

ChildType ==
    [is : {"running", "ended", "gone"}, ok : BOOLEAN, wrote : BOOLEAN, open : BOOLEAN]

StateOK ==
    /\ job \in [JobId -> JobType \cup {NoJob}]
    /\ child \in [JobId -> ChildType]
    /\ client \in [ClientId -> ClientType]
    /\ failed \subseteq ClientId

\* Once a job's output has been read to its end there is no more.
OutputRead ==
    \A j \in JobId : job[j] # NoJob /\ ~job[j].fd
                        => ~child[j].open /\ job[j].seen = child[j].wrote

StatusLines == \A j \in JobId : job[j] # NoJob /\ job[j].kind = "status" => job[j].line \in Line

\* What a job will bring to its client.
HasJob(c, line) == \E j \in On(c) : job[j].kind = "status" /\ job[j].line = line
HasCommand(c)   == \E j \in On(c) : job[j].kind # "status"

\* One client and its jobs.
Agrees(c) ==
    /\ client[c].state # "live" => client[c].new = <<>> /\ ~client[c].waits
    /\ client[c].waits => ~client[c].attached
    /\ On(c) # {} => client[c].state # "free"
    /\ client[c].references >= Cardinality(On(c))
    /\ c \notin failed =>
          /\ client[c].references = Cardinality(On(c))
          /\ \A line \in DOMAIN client[c].new :
                client[c].new[line] = "none" => HasJob(c, line)
          /\ client[c].waits => HasCommand(c)

IInv == StateOK /\ OutputRead /\ StatusLines /\ \A c \in ClientId : Agrees(c)

-----------------------------------------------------------------------------

\* The tree that status_free_jobs leaves is one.
LEMMA EmptyTree == <<>> \in Tree /\ DOMAIN <<>> = {}
<1>1. <<>> \in [{} -> {"none", "whole"}]
  OBVIOUS
<1> QED
  BY <1>1 DEF Tree

\* A client has finitely many jobs.
LEMMA OnFinite ==
    ASSUME NEW c
    PROVE  IsFiniteSet(On(c)) /\ Cardinality(On(c)) \in Nat
BY JobAssumption, FS_Subset, FS_CardinalityType DEF On

\* What is proved inductive says that jobs and clients agree.
LEMMA InvIsSound == IInv => JobSound
<1> SUFFICES ASSUME IInv, NEW c \in ClientId
             PROVE  /\ Agrees(c)
                    /\ \A line \in DOMAIN client[c].new : client[c].new[line] # "part"
  BY DEF JobSound, IInv, Agrees, HasJob, HasCommand
<1>1. client[c].new \in Tree
  BY DEF IInv, StateOK, ClientType
<1>2. \A line \in DOMAIN client[c].new : client[c].new[line] \in {"none", "whole"}
  BY <1>1 DEF Tree
<1> QED
  BY <1>2 DEF IInv

\* It holds when the server starts: no jobs, no clients.
LEMMA InitSound == Init => IInv
<1> SUFFICES ASSUME Init PROVE IInv
  OBVIOUS
<1>1. StateOK
  BY EmptyTree DEF Init, StateOK, NewChild, NewClient, ChildType, ClientType
<1>2. OutputRead /\ StatusLines
  BY DEF Init, OutputRead, StatusLines
<1>3. ASSUME NEW c \in ClientId PROVE Agrees(c)
  <2>1. On(c) = {} /\ Cardinality(On(c)) = 0
    BY FS_EmptySet DEF Init, On
  <2> QED
    BY <2>1, EmptyTree DEF Init, Agrees, NewClient
<1> QED
  BY <1>1, <1>2, <1>3 DEF IInv

-----------------------------------------------------------------------------
(* Steps that leave a client its jobs. *)

\* Same(c): the step starts and ends no job of c, and takes no result away.
Same(c) ==
    /\ On(c)' = On(c)
    /\ \A j \in On(c) : job'[j].kind = job[j].kind /\ job'[j].line = job[j].line
    /\ client'[c].references = client[c].references
    /\ client'[c].attached = client[c].attached
    /\ client'[c].waits => client[c].waits
    /\ client'[c].state = "free" => client[c].state = "free"
    /\ client'[c].state # "live" => client'[c].new = <<>> /\ ~client'[c].waits
    /\ \A line \in DOMAIN client'[c].new :
          client'[c].new[line] = "none" =>
              line \in DOMAIN client[c].new /\ client[c].new[line] = "none"
    /\ c \in failed => c \in failed'

\* A step that keeps a client's jobs and takes no job's result back keeps it agreeing.
LEMMA SameAgrees ==
    ASSUME NEW c \in ClientId, Agrees(c), Same(c)
    PROVE  Agrees(c)'
<1>1. \A line : HasJob(c, line) => HasJob(c, line)'
  BY DEF Same, HasJob
<1>2. HasCommand(c) => HasCommand(c)'
  BY DEF Same, HasCommand
<1>3. Cardinality(On(c))' = Cardinality(On(c))
  BY DEF Same
<1> QED
  BY <1>1, <1>2, <1>3 DEF Same, Agrees

\* So does a step that leaves the client and its jobs alone.
LEMMA Untouched ==
    ASSUME NEW c \in ClientId, Agrees(c), client'[c] = client[c],
           On(c)' = On(c), c \in failed => c \in failed',
           \A j \in On(c) : job'[j].kind = job[j].kind /\ job'[j].line = job[j].line
    PROVE  Agrees(c)'
<1>1. Same(c)
  BY DEF Same, Agrees
<1> QED
  BY <1>1, SameAgrees

\* No job starts or ends.
LEMMA JobsStay ==
    ASSUME IInv, UNCHANGED <<job, failed>>, NEW c \in ClientId,
           client'[c] \in ClientType,
           client'[c].references = client[c].references,
           client'[c].attached = client[c].attached,
           client'[c].waits => client[c].waits,
           client'[c].state = "free" => client[c].state = "free",
           client'[c].state # "live" => client'[c].new = <<>> /\ ~client'[c].waits,
           client'[c].new \in {client[c].new, <<>>}
    PROVE  Agrees(c)'
<1>1. Same(c)
  BY EmptyTree DEF Same, On
<1> QED
  BY <1>1, SameAgrees DEF IInv

-----------------------------------------------------------------------------
(* The processes, and the server's reading of their output. *)

\* Steps of processes change neither jobs nor clients.
LEMMA ClientsKept ==
    ASSUME IInv, UNCHANGED <<job, client, failed>>, StateOK', OutputRead'
    PROVE  IInv'
<1>1. ASSUME NEW c \in ClientId PROVE Agrees(c)'
  BY Untouched DEF IInv, On
<1>2. StatusLines'
  BY DEF IInv, StatusLines
<1> QED
  BY <1>1, <1>2 DEF IInv

\* A process writes.
LEMMA WriteSound ==
    ASSUME IInv, NEW j \in JobId, Write(j)
    PROVE  IInv'
<1>1. StateOK'
  BY DEF IInv, StateOK, Write, ChildType
<1>2. OutputRead'
  BY DEF IInv, StateOK, OutputRead, Write, ChildType
<1> QED
  BY <1>1, <1>2, ClientsKept DEF Write

\* It, or what it has left behind, closes its output.
LEMMA CloseOutputSound ==
    ASSUME IInv, NEW j \in JobId, CloseOutput(j)
    PROVE  IInv'
<1>1. StateOK'
  BY DEF IInv, StateOK, CloseOutput, ChildType
<1>2. OutputRead'
  BY DEF IInv, StateOK, OutputRead, CloseOutput, ChildType
<1> QED
  BY <1>1, <1>2, ClientsKept DEF CloseOutput

\* It ends, perhaps before its output does.
LEMMA ExitSound ==
    ASSUME IInv, NEW j \in JobId, NEW ok \in BOOLEAN, NEW open \in BOOLEAN, Exit(j, ok, open)
    PROVE  IInv'
<1>1. StateOK'
  <2> DEFINE new == [child[j] EXCEPT !.is = "ended", !.ok = ok, !.open = open]
  <2>1. child[j] \in ChildType
    BY DEF IInv, StateOK
  <2>2. new \in ChildType
    BY <2>1 DEF ChildType
  <2>3. child' = [child EXCEPT ![j] = new] /\ UNCHANGED <<job, client, failed>>
    BY DEF Exit
  <2> HIDE DEF new
  <2> QED
    BY <2>2, <2>3 DEF IInv, StateOK
<1>2. OutputRead'
  BY DEF IInv, StateOK, OutputRead, Exit, ChildType
<1> QED
  BY <1>1, <1>2, ClientsKept DEF Exit

\* The jobs are the same, but for pid, fd and seen.
LEMMA RecordsKept ==
    ASSUME IInv, NEW j \in JobId, job[j] # NoJob, UNCHANGED <<client, failed>>,
           job' \in [JobId -> JobType \cup {NoJob}],
           \A i \in JobId \ {j} : job'[i] = job[i],
           job'[j] # NoJob, job'[j].on = job[j].on,
           job'[j].kind = job[j].kind, job'[j].line = job[j].line,
           child' \in [JobId -> ChildType], OutputRead'
    PROVE  IInv'
<1>1. StateOK'
  BY DEF IInv, StateOK
<1>2. ASSUME NEW c \in ClientId PROVE Agrees(c)'
  <2>1. On(c)' = On(c)
    BY DEF On
  <2>2. \A i \in On(c) : job'[i].kind = job[i].kind /\ job'[i].line = job[i].line
    BY DEF On
  <2> QED
    BY <2>1, <2>2, Untouched DEF IInv
<1>3. StatusLines'
  BY DEF IInv, StatusLines
<1> QED
  BY <1>1, <1>2, <1>3 DEF IInv

\* The buffer of a job takes output (bufferevent).
LEMMA ReadSound ==
    ASSUME IInv, NEW j \in JobId, Read(j)
    PROVE  IInv'
<1>1. job[j] \in JobType
  BY DEF IInv, StateOK, Read
<1>2. job'[j] = [job[j] EXCEPT !.seen = TRUE] /\ job'[j] \in JobType
  BY <1>1 DEF IInv, StateOK, Read, JobType
<1>3. OutputRead'
  BY <1>1, <1>2 DEF IInv, StateOK, OutputRead, Read, JobType
<1>4. job'[j].on = job[j].on /\ job'[j].kind = job[j].kind /\ job'[j].line = job[j].line
  BY <1>1, <1>2 DEF JobType
<1>5. job' \in [JobId -> JobType \cup {NoJob}] /\ \A i \in JobId \ {j} : job'[i] = job[i]
  BY <1>2 DEF IInv, StateOK, Read
<1>6. job'[j] # NoJob
  BY <1>2, JobAssumption
<1>7. child' \in [JobId -> ChildType]
  BY DEF Read, IInv, StateOK
<1> QED
  BY <1>3, <1>4, <1>5, <1>6, <1>7, RecordsKept DEF Read

-----------------------------------------------------------------------------
(* Clients come, change and go. *)

\* A step of one client, which need only be shown to agree with its own jobs.
LEMMA OneClient ==
    ASSUME IInv, NEW c \in ClientId, UNCHANGED <<job, child, failed>>,
           client' \in [ClientId -> ClientType],
           \A d \in ClientId \ {c} : client'[d] = client[d], Agrees(c)'
    PROVE  IInv'
<1>1. StateOK' /\ OutputRead' /\ StatusLines'
  BY DEF IInv, StateOK, OutputRead, StatusLines
<1>2. ASSUME NEW d \in ClientId \ {c} PROVE Agrees(d)'
  BY Untouched DEF IInv, On
<1> QED
  BY <1>1, <1>2 DEF IInv

\* A client as server_client_create makes it, and as its slot is left.
LEMMA NewClientType ==
    ASSUME NEW attached \in BOOLEAN
    PROVE  /\ NewClient(attached) \in ClientType
           /\ [NewClient(FALSE) EXCEPT !.state = "free"] \in ClientType
BY EmptyTree DEF NewClient, ClientType

\* server_client_create: the slot was free, so no job is for it.
LEMMA ConnectSound ==
    ASSUME IInv, NEW c \in ClientId, NEW attached \in BOOLEAN, Connect(c, attached)
    PROVE  IInv'
<1>1. client'[c] = NewClient(attached)
  BY DEF Connect, IInv, StateOK
<1>2. On(c) = {} /\ On(c)' = {}
  BY DEF IInv, Agrees, Connect, On
<1>3. Cardinality(On(c)') = 0
  BY <1>2, FS_EmptySet
<1>4. Agrees(c)'
  BY <1>1, <1>2, <1>3, EmptyTree DEF Agrees, NewClient
<1>5. client' \in [ClientId -> ClientType]
  BY NewClientType DEF Connect, IInv, StateOK
<1> QED
  BY <1>4, <1>5, OneClient DEF Connect, IInv, StateOK

\* status_update_jobs: the new tree becomes the old one, and nothing waits in it.
LEMMA UpdateJobsSound ==
    ASSUME IInv, NEW c \in ClientId, UpdateJobs(c)
    PROVE  IInv'
<1> DEFINE cl == client[c]
<1>1. cl \in ClientType
  BY DEF IInv, StateOK
<1>2. client'[c] = [cl EXCEPT !.old = cl.new, !.new = <<>>]
  BY DEF UpdateJobs, IInv, StateOK
<1>3. client'[c] \in ClientType
  BY <1>1, <1>2, EmptyTree DEF ClientType
<1>4. /\ client'[c].references = cl.references /\ client'[c].attached = cl.attached
      /\ client'[c].waits => cl.waits
      /\ client'[c].state # "free"
      /\ client'[c].state # "live" => client'[c].new = <<>> /\ ~client'[c].waits
      /\ client'[c].new \in {cl.new, <<>>}
  <2>1. client'[c].references = cl.references /\ client'[c].attached = cl.attached
    BY <1>1, <1>2 DEF ClientType
  <2>2. client'[c].waits = cl.waits /\ client'[c].state = cl.state
    BY <1>1, <1>2 DEF ClientType
  <2>3. client'[c].new = <<>>
    BY <1>1, <1>2 DEF ClientType
  <2> QED
    BY <2>1, <2>2, <2>3 DEF UpdateJobs, Live
<1>5. UNCHANGED <<job, child, failed>>
  BY DEF UpdateJobs
<1>6. Agrees(c)'
  BY <1>3, <1>4, <1>5, JobsStay
<1>7. /\ client' \in [ClientId -> ClientType]
      /\ \A d \in ClientId \ {c} : client'[d] = client[d]
  BY <1>2, <1>3 DEF UpdateJobs, IInv, StateOK
<1> QED
  BY <1>5, <1>6, <1>7, OneClient

\* The session goes, its jobs stay.
LEMMA LeaveSessionSound ==
    ASSUME IInv, NEW c \in ClientId, LeaveSession(c)
    PROVE  IInv'
<1> DEFINE cl == client[c]
<1>1. cl \in ClientType
  BY DEF IInv, StateOK
<1>2. client'[c] = [cl EXCEPT !.session = FALSE]
  BY DEF LeaveSession, IInv, StateOK
<1>3. client'[c] \in ClientType
  BY <1>1, <1>2 DEF ClientType
<1>4. /\ client'[c].references = cl.references /\ client'[c].attached = cl.attached
      /\ client'[c].waits => cl.waits
      /\ client'[c].state # "free"
      /\ client'[c].state # "live" => client'[c].new = <<>> /\ ~client'[c].waits
      /\ client'[c].new \in {cl.new, <<>>}
  BY <1>1, <1>2 DEF LeaveSession, Live, ClientType
<1>5. UNCHANGED <<job, child, failed>>
  BY DEF LeaveSession
<1>6. Agrees(c)'
  BY <1>3, <1>4, <1>5, JobsStay
<1>7. /\ client' \in [ClientId -> ClientType]
      /\ \A d \in ClientId \ {c} : client'[d] = client[d]
  BY <1>2, <1>3 DEF LeaveSession, IInv, StateOK
<1> QED
  BY <1>5, <1>6, <1>7, OneClient

\* server_client_check_exit.
LEMMA CheckExitSound ==
    ASSUME IInv, NEW c \in ClientId, CheckExit(c)
    PROVE  IInv'
<1> DEFINE cl == client[c]
<1>1. cl \in ClientType
  BY DEF IInv, StateOK
<1>2. client'[c] = [cl EXCEPT !.exit = FALSE]
  BY DEF CheckExit, IInv, StateOK
<1>3. client'[c] \in ClientType
  BY <1>1, <1>2 DEF ClientType
<1>4. /\ client'[c].references = cl.references /\ client'[c].attached = cl.attached
      /\ client'[c].waits => cl.waits
      /\ client'[c].state # "free"
      /\ client'[c].state # "live" => client'[c].new = <<>> /\ ~client'[c].waits
      /\ client'[c].new \in {cl.new, <<>>}
  BY <1>1, <1>2 DEF CheckExit, Live, ClientType
<1>5. UNCHANGED <<job, child, failed>>
  BY DEF CheckExit
<1>6. Agrees(c)'
  BY <1>3, <1>4, <1>5, JobsStay
<1>7. /\ client' \in [ClientId -> ClientType]
      /\ \A d \in ClientId \ {c} : client'[d] = client[d]
  BY <1>2, <1>3 DEF CheckExit, IInv, StateOK
<1> QED
  BY <1>5, <1>6, <1>7, OneClient

\* server_client_lost: the trees go, the jobs and their references stay.
LEMMA ClientLostSound ==
    ASSUME IInv, NEW c \in ClientId, ClientLost(c)
    PROVE  IInv'
<1> DEFINE cl == client[c]
<1>1. cl \in ClientType
  BY DEF IInv, StateOK
<1>2. client'[c] = [cl EXCEPT !.state = "dead", !.session = FALSE, !.waits = FALSE,
                              !.exit = FALSE, !.new = <<>>, !.old = <<>>]
  BY DEF ClientLost, IInv, StateOK
<1>3. client'[c] \in ClientType
  BY <1>1, <1>2, EmptyTree DEF ClientType
<1>4. /\ client'[c].references = cl.references /\ client'[c].attached = cl.attached
      /\ client'[c].waits => cl.waits
      /\ client'[c].state # "free"
      /\ client'[c].state # "live" => client'[c].new = <<>> /\ ~client'[c].waits
      /\ client'[c].new \in {cl.new, <<>>}
  <2>1. client'[c].references = cl.references /\ client'[c].attached = cl.attached
    BY <1>1, <1>2 DEF ClientType
  <2>2. client'[c].waits = FALSE /\ client'[c].state = "dead"
    BY <1>1, <1>2 DEF ClientType
  <2>3. client'[c].new = <<>>
    BY <1>1, <1>2 DEF ClientType
  <2> QED
    BY <2>1, <2>2, <2>3 DEF ClientLost, Live
<1>5. UNCHANGED <<job, child, failed>>
  BY DEF ClientLost
<1>6. Agrees(c)'
  BY <1>3, <1>4, <1>5, JobsStay
<1>7. /\ client' \in [ClientId -> ClientType]
      /\ \A d \in ClientId \ {c} : client'[d] = client[d]
  BY <1>2, <1>3 DEF ClientLost, IInv, StateOK
<1> QED
  BY <1>5, <1>6, <1>7, OneClient

\* The memory of a lost client is freed: it has no reference, hence no job.
LEMMA CleanDeadSound ==
    ASSUME IInv, CleanDead
    PROVE  IInv'
<1> DEFINE gone == {c \in ClientId : client[c].state = "dead" /\ client[c].references = 0}
<1>1. client' \in [ClientId -> ClientType]
  BY NewClientType DEF CleanDead, IInv, StateOK
<1>2. StateOK' /\ OutputRead' /\ StatusLines'
  BY <1>1 DEF CleanDead, IInv, StateOK, OutputRead, StatusLines
<1>3. ASSUME NEW c \in ClientId \ gone PROVE Agrees(c)'
  <2>1. client'[c] = client[c] /\ (c \in failed => c \in failed')
    BY DEF CleanDead, IInv, StateOK
  <2> QED
    BY <2>1, Untouched DEF CleanDead, IInv, On
<1>4. ASSUME NEW c \in gone PROVE Agrees(c)'
  <2>1. Cardinality(On(c)) = 0
    BY OnFinite DEF IInv, Agrees
  <2>2. On(c) = {} /\ On(c)' = {}
    BY <2>1, OnFinite, FS_EmptySet DEF CleanDead, On
  <2>3. client'[c] = [NewClient(FALSE) EXCEPT !.state = "free"]
    BY DEF CleanDead, IInv, StateOK
  <2>4. Cardinality(On(c)') = 0
    BY <2>2, FS_EmptySet
  <2> QED
    BY <2>2, <2>3, <2>4, EmptyTree DEF Agrees, NewClient
<1> QED
  BY <1>2, <1>3, <1>4 DEF IInv

-----------------------------------------------------------------------------
(* Jobs start. *)

\* A client that JobRun is called for, with what the caller has changed.
Caller(c, cl, kind, line) ==
    /\ kind \in {"status", "if", "run"} /\ line \in Line \cup {NoJob}
    /\ kind = "status" => line \in Line
    /\ cl \in ClientType /\ client[c].state = "live" /\ cl.state = "live"
    /\ cl.references = client[c].references
    /\ cl.attached = client[c].attached
    /\ cl.waits => client[c].waits \/ (kind # "status" /\ ~cl.attached)
    /\ \A x \in DOMAIN cl.new : cl.new[x] = "none" =>
          \/ x = line /\ kind = "status"
          \/ x \in DOMAIN client[c].new /\ client[c].new[x] = "none"

\* job_run: the reference is counted with the job, or the client is in failed.
LEMMA JobRunSound ==
    ASSUME IInv, NEW c \in ClientId, NEW kind, NEW line, NEW cl,
           Caller(c, cl, kind, line), JobRun(kind, line, c, cl)
    PROVE  IInv'
<1> DEFINE called == [cl EXCEPT !.references = @ + 1]
<1>1. /\ called \in ClientType /\ called.state = "live"
      /\ called.references = client[c].references + 1 /\ client[c].references \in Nat
      /\ called.new = cl.new /\ called.waits = cl.waits /\ called.attached = cl.attached
  BY DEF Caller, ClientType
<1>2. /\ client'[c] = called
      /\ client' \in [ClientId -> ClientType]
      /\ \A d \in ClientId \ {c} : client'[d] = client[d]
  BY <1>1 DEF JobRun, IInv, StateOK
<1>3. Cardinality(On(c)) \in Nat /\ client[c].references >= Cardinality(On(c))
  BY OnFinite DEF IInv, Agrees
<1>4. CASE failed' = failed \cup {c} /\ UNCHANGED <<job, child>>
  <2>1. StateOK' /\ OutputRead' /\ StatusLines'
    BY <1>2, <1>4 DEF IInv, StateOK, OutputRead, StatusLines
  <2>2. ASSUME NEW d \in ClientId \ {c} PROVE Agrees(d)'
    BY <1>2, <1>4, Untouched DEF IInv, On
  <2>3. Agrees(c)'
    <3>1. On(c)' = On(c) /\ Cardinality(On(c))' = Cardinality(On(c))
      BY <1>4 DEF On
    <3>2. c \in failed'
      BY <1>4
    <3>3. called.waits => ~called.attached
      BY <1>1 DEF Caller, IInv, Agrees
    <3>4. called.references >= Cardinality(On(c))
      BY <1>1, <1>3
    <3> QED
      BY <1>1, <1>2, <3>1, <3>2, <3>3, <3>4 DEF Agrees
  <2> QED
    BY <2>1, <2>2, <2>3 DEF IInv
<1>5. ASSUME NEW j \in JobId, job[j] = NoJob, ~child[j].open, UNCHANGED failed,
             job' = [job EXCEPT ![j] = NewJob(kind, line, c)],
             child' = [child EXCEPT ![j] = NewChild]
      PROVE  IInv'
  <2>1. NewJob(kind, line, c) \in JobType /\ NewJob(kind, line, c) # NoJob
    <3>1. NewJob(kind, line, c) \in JobType
      BY DEF Caller, NewJob, JobType
    <3> QED
      BY <3>1, JobAssumption
  <2>2. StateOK'
    BY <1>2, <1>5, <2>1 DEF IInv, StateOK, NewChild, ChildType
  <2>3. OutputRead'
    BY <1>5 DEF IInv, StateOK, OutputRead, NewJob
  <2>4. On(c)' = On(c) \cup {j} /\ j \notin On(c)
    BY <1>5, <2>1 DEF On, IInv, StateOK, NewJob
  <2>5. Cardinality(On(c)') = Cardinality(On(c)) + 1
    BY <2>4, OnFinite, FS_AddElement
  <2>6. ASSUME NEW d \in ClientId \ {c} PROVE Agrees(d)'
    <3>1. On(d)' = On(d) /\ j \notin On(d)
      BY <1>5, <2>1 DEF On, IInv, StateOK, NewJob
    <3>2. \A i \in On(d) : job'[i] = job[i]
      BY <1>5, <3>1 DEF On, IInv, StateOK
    <3> QED
      BY <1>2, <1>5, <3>1, <3>2, Untouched DEF IInv
  <2>7. /\ job'[j].kind = kind /\ job'[j].line = line
        /\ \A i \in On(c) : job'[i] = job[i]
    BY <1>5, <2>4 DEF On, IInv, StateOK, NewJob
  <2>8. ASSUME c \notin failed', NEW x \in DOMAIN called.new, called.new[x] = "none"
        PROVE  HasJob(c, x)'
    <3>1. CASE x = line /\ kind = "status"
      BY <2>4, <2>7, <3>1 DEF HasJob
    <3>2. CASE x \in DOMAIN client[c].new /\ client[c].new[x] = "none"
      <4>1. HasJob(c, x)
        BY <1>5, <2>8, <3>2 DEF IInv, Agrees
      <4> QED
        BY <2>4, <2>7, <4>1 DEF HasJob
    <3> QED
      BY <1>1, <2>8, <3>1, <3>2 DEF Caller
  <2>9. ASSUME c \notin failed', called.waits
        PROVE  HasCommand(c)'
    <3>1. CASE kind # "status"
      BY <2>4, <2>7, <3>1 DEF HasCommand
    <3>2. CASE client[c].waits
      <4>1. HasCommand(c)
        BY <1>5, <2>9, <3>2 DEF IInv, Agrees
      <4> QED
        BY <2>4, <2>7, <4>1 DEF HasCommand
    <3> QED
      BY <1>1, <2>9, <3>1, <3>2 DEF Caller
  <2>10. called.waits => ~called.attached
    BY <1>1 DEF Caller, IInv, Agrees
  <2>11. /\ called.references >= Cardinality(On(c)')
         /\ c \notin failed' => called.references = Cardinality(On(c)')
    BY <1>1, <1>3, <1>5, <2>5 DEF IInv, Agrees
  <2>12. Agrees(c)'
    BY <1>1, <1>2, <2>8, <2>9, <2>10, <2>11 DEF Agrees
  <2>13. \A i \in JobId \ {j} : job'[i] = job[i]
    BY <1>5 DEF IInv, StateOK
  <2>14. StatusLines'
    BY <2>7, <2>13 DEF IInv, StatusLines, Caller
  <2> QED
    BY <2>2, <2>3, <2>6, <2>12, <2>14 DEF IInv
<1> QED
  BY <1>4, <1>5 DEF JobRun

\* status_find_job: the line that waits is the one whose job is run.
LEMMA FindJobSound ==
    ASSUME IInv, NEW c \in ClientId, NEW line \in Line, FindJob(c, line)
    PROVE  IInv'
<1> DEFINE cl   == client[c]
           more == [l \in DOMAIN cl.new \cup {line} |-> IF l = line THEN "none" ELSE cl.new[l]]
           d    == [cl EXCEPT !.new = more]
<1>1. cl \in ClientType /\ cl.new \in Tree
  BY DEF IInv, StateOK, ClientType
<1>2. PICK lines \in SUBSET Line : cl.new \in [lines -> {"none", "whole"}]
  BY <1>1 DEF Tree
<1>3. more \in [lines \cup {line} -> {"none", "whole"}] /\ lines \cup {line} \in SUBSET Line
  BY <1>2
<1>4. more \in Tree
  BY <1>3 DEF Tree
<1>5. d \in ClientType /\ d.new = more /\ d.waits = cl.waits /\ d.attached = cl.attached
      /\ d.references = cl.references /\ d.state = cl.state
  BY <1>1, <1>4 DEF ClientType
<1>6. \A x \in DOMAIN more : more[x] = "none" =>
          x = line \/ (x \in DOMAIN cl.new /\ cl.new[x] = "none")
  BY <1>2
<1>7. Caller(c, d, "status", line)
  BY <1>5, <1>6 DEF Caller, FindJob, Live
<1> QED
  BY <1>7, JobRunSound DEF FindJob

\* cmd_if_shell_exec and cmd_run_shell_exec: the command that waits is the one run.
LEMMA ShellCommandSound ==
    ASSUME IInv, NEW c \in ClientId, NEW kind \in {"if", "run"}, ShellCommand(c, kind)
    PROVE  IInv'
<1> DEFINE cl == client[c]
           d  == [cl EXCEPT !.waits = ~cl.attached]
<1>1. cl \in ClientType
  BY DEF IInv, StateOK
<1>2. d \in ClientType /\ d.new = cl.new /\ d.waits = ~cl.attached /\ d.attached = cl.attached
      /\ d.references = cl.references /\ d.state = cl.state
  BY <1>1 DEF ClientType
<1>3. Caller(c, d, kind, NoJob)
  BY <1>2 DEF Caller, ShellCommand, Live
<1> QED
  BY <1>3, JobRunSound DEF ShellCommand

-----------------------------------------------------------------------------
(* Jobs end. *)

\* What StatusResult and Freed make of a client.
LEMMA StatusResultProps ==
    ASSUME NEW cl \in ClientType, NEW line \in Line, NEW d, d = StatusResult(cl, line, "whole")
    PROVE  /\ d \in ClientType
           /\ d.state = cl.state /\ d.references = cl.references
           /\ d.attached = cl.attached /\ d.waits = cl.waits
           /\ cl.new = <<>> => d.new = <<>>
           /\ \A x \in DOMAIN d.new : d.new[x] = "none" =>
                 x \in DOMAIN cl.new /\ cl.new[x] = "none"
                 /\ (cl.state = "live" => x # line)
<1>1. CASE ~(cl.state = "live" /\ line \in DOMAIN cl.new /\ cl.new[line] = "none")
  <2>1. d = cl
    BY <1>1 DEF StatusResult
  <2> QED
    BY <1>1, <2>1
<1>2. CASE cl.state = "live" /\ line \in DOMAIN cl.new /\ cl.new[line] = "none"
  <2> DEFINE new == [cl.new EXCEPT ![line] = "whole"]
  <2>1. d = [cl EXCEPT !.new = new]
    BY <1>2 DEF StatusResult
  <2>2. PICK lines \in SUBSET Line : cl.new \in [lines -> {"none", "whole"}]
    BY DEF ClientType, Tree
  <2>3. new \in [lines -> {"none", "whole"}] /\ new[line] = "whole"
        /\ \A x \in lines \ {line} : new[x] = cl.new[x]
    BY <1>2, <2>2
  <2>4. new \in Tree
    BY <2>3 DEF Tree
  <2>5. d \in ClientType /\ d.new = new /\ d.state = cl.state
        /\ d.references = cl.references /\ d.attached = cl.attached /\ d.waits = cl.waits
    BY <2>1, <2>4 DEF ClientType
  <2>6. cl.new # <<>>
    BY <1>2, EmptyTree
  <2> QED
    BY <2>2, <2>3, <2>5, <2>6
<1> QED
  BY <1>1, <1>2

\* What Freed makes of a client: job_free gives its reference back.
LEMMA FreedProps ==
    ASSUME NEW cl \in ClientType, NEW kind, cl.references >= 1, NEW d, d = Freed(cl, kind)
    PROVE  /\ d \in ClientType
           /\ d.state = cl.state /\ d.references = cl.references - 1
           /\ d.attached = cl.attached /\ d.new = cl.new
           /\ d.waits => cl.waits /\ (kind = "status" \/ cl.attached)
<1>1. [cl EXCEPT !.references = @ - 1] \in ClientType
  BY DEF ClientType
<1> QED
  BY <1>1 DEF Freed, ClientType

\* A job ends when its output has been read to the end, and its client agrees with
\* the jobs that are left.
LEMMA FinishSound ==
    ASSUME IInv, NEW j \in JobId, job[j] # NoJob, Finish(j),
           ~child[j].open, job[j].seen = child[j].wrote,
           child' \in [JobId -> ChildType],
           \A i \in JobId : child'[i].open = child[i].open /\ child'[i].wrote = child[i].wrote,
           UNCHANGED failed
    PROVE  IInv'
<1> DEFINE e == job[j]
<1>0. e \in JobType /\ e.on \in ClientId /\ e.kind \in {"status", "if", "run"}
  BY DEF IInv, StateOK, JobType
<1>1. PICK c \in ClientId : c = e.on
  BY <1>0
<1> DEFINE cl == client[c]
           f  == IF e.kind = "status" THEN StatusResult(cl, e.line, "whole") ELSE cl
           d  == Freed(f, e.kind)
<1>2. cl \in ClientType /\ Agrees(c)
  BY DEF IInv, StateOK
<1>3. client' = [client EXCEPT ![c] = d] /\ job' = [job EXCEPT ![j] = NoJob]
  BY <1>1 DEF Finish
<1>4. j \in On(c) /\ cl.state # "free"
  BY <1>1, <1>2 DEF On, Agrees
<1>5. On(c)' = On(c) \ {j}
  BY <1>3, <1>4 DEF On, IInv, StateOK
<1>6. /\ Cardinality(On(c)) \in Nat /\ Cardinality(On(c)') \in Nat
      /\ Cardinality(On(c)') = Cardinality(On(c)) - 1
  <2>1. IsFiniteSet(On(c)) /\ Cardinality(On(c)) \in Nat
    BY OnFinite
  <2>2. Cardinality(On(c) \ {j}) = Cardinality(On(c)) - 1
    BY <1>4, <2>1, FS_RemoveElement
  <2>3. Cardinality(On(c) \ {j}) \in Nat
    BY <2>1, FS_Subset, FS_CardinalityType
  <2> QED
    BY <1>5, <2>1, <2>2, <2>3
<1>7. cl.references >= 1 /\ cl.references \in Nat /\ cl.references >= Cardinality(On(c))
  BY <1>2, <1>6 DEF Agrees, ClientType
<1>8. /\ f \in ClientType
      /\ f.state = cl.state /\ f.references = cl.references
      /\ f.attached = cl.attached /\ f.waits = cl.waits
      /\ cl.new = <<>> => f.new = <<>>
      /\ \A x \in DOMAIN f.new : f.new[x] = "none" =>
            x \in DOMAIN cl.new /\ cl.new[x] = "none"
            /\ (cl.state = "live" /\ e.kind = "status" => x # e.line)
  <2>1. CASE e.kind # "status"
    BY <1>2, <2>1
  <2>2. CASE e.kind = "status" /\ e.line \in Line
    BY <1>2, <2>2, StatusResultProps
  <2>3. CASE e.kind = "status" /\ e.line \notin Line
    BY <2>3 DEF IInv, StatusLines
  <2> QED
    BY <2>1, <2>2, <2>3
<1>9. /\ d \in ClientType
      /\ d.state = cl.state /\ d.references = cl.references - 1
      /\ d.attached = cl.attached /\ d.new = f.new
      /\ d.waits => cl.waits /\ (e.kind = "status" \/ cl.attached)
  BY <1>7, <1>8, FreedProps
<1>10. client'[c] = d
  BY <1>0, <1>3 DEF IInv, StateOK
<1>11. \A i \in On(c)' : job'[i] = job[i] /\ i \in On(c) /\ i # j
  BY <1>3, <1>5 DEF On, IInv, StateOK
<1>12. \A i \in On(c) : i # j => i \in On(c)'
  BY <1>5
<1>13. ASSUME c \notin failed', NEW x \in DOMAIN d.new, d.new[x] = "none"
       PROVE  HasJob(c, x)'
  <2>1. x \in DOMAIN cl.new /\ cl.new[x] = "none"
    BY <1>8, <1>9, <1>13
  <2>2. PICK i \in On(c) : job[i].kind = "status" /\ job[i].line = x
    BY <1>2, <1>13, <2>1 DEF Agrees, HasJob
  <2>3. cl.state = "live"
    BY <1>2, <2>1, EmptyTree DEF Agrees
  <2>4. i # j
    BY <1>8, <1>9, <1>13, <2>2, <2>3
  <2> QED
    BY <1>11, <1>12, <2>2, <2>4 DEF HasJob
<1>14. ASSUME c \notin failed', d.waits
       PROVE  HasCommand(c)'
  <2>1. cl.waits /\ e.kind = "status"
    BY <1>2, <1>9, <1>14 DEF Agrees
  <2>2. PICK i \in On(c) : job[i].kind # "status"
    BY <1>2, <1>14, <2>1 DEF Agrees, HasCommand
  <2> QED
    BY <1>11, <1>12, <2>1, <2>2 DEF HasCommand
<1>15. /\ d.references >= Cardinality(On(c)')
       /\ c \notin failed' => d.references = Cardinality(On(c)')
  BY <1>2, <1>6, <1>7, <1>9 DEF Agrees
<1>16. /\ d.state # "live" => d.new = <<>> /\ ~d.waits
       /\ d.waits => ~d.attached
       /\ d.state # "free"
  BY <1>2, <1>4, <1>8, <1>9 DEF Agrees
<1>17. Agrees(c)'
  BY <1>10, <1>13, <1>14, <1>15, <1>16 DEF Agrees
<1>18. \A i \in JobId : job'[i] = IF i = j THEN NoJob ELSE job[i]
  BY <1>3 DEF IInv, StateOK
<1>19. ASSUME NEW b \in ClientId \ {c} PROVE Agrees(b)'
  <2>1. client'[b] = client[b]
    BY <1>3 DEF IInv, StateOK
  <2>2. On(b)' = On(b) /\ \A i \in On(b) : job'[i] = job[i]
    BY <1>1, <1>18 DEF On
  <2> QED
    BY <2>1, <2>2, Untouched DEF IInv
<1>20. StateOK'
  <2>1. job' \in [JobId -> JobType \cup {NoJob}]
    BY <1>3 DEF IInv, StateOK
  <2>2. client' \in [ClientId -> ClientType]
    BY <1>3, <1>9 DEF IInv, StateOK
  <2> QED
    BY <2>1, <2>2 DEF IInv, StateOK
<1>21. OutputRead' /\ StatusLines'
  BY <1>18 DEF IInv, OutputRead, StatusLines
<1> QED
  BY <1>17, <1>19, <1>20, <1>21 DEF IInv

\* job_died: the process ends first, or the output had.
LEMMA JobDiedSound ==
    ASSUME IInv, NEW j \in JobId, JobDied(j)
    PROVE  IInv'
<1>1. /\ child' \in [JobId -> ChildType]
      /\ \A i \in JobId : child'[i].open = child[i].open /\ child'[i].wrote = child[i].wrote
  BY DEF JobDied, Waited, IInv, StateOK, ChildType
<1>2. CASE job[j].fd
  <2>1. job[j] \in JobType
    BY DEF IInv, StateOK, JobDied
  <2>2. /\ job'[j] = [job[j] EXCEPT !.pid = FALSE] /\ job'[j] \in JobType
    <3>1. [job[j] EXCEPT !.pid = FALSE] \in JobType
      BY <2>1 DEF JobType
    <3>2. job' = [job EXCEPT ![j].pid = FALSE]
      BY <1>2 DEF JobDied
    <3>3. DOMAIN job = JobId
      BY DEF IInv, StateOK
    <3> QED
      BY <3>1, <3>2, <3>3
  <2>3. OutputRead'
    BY <1>1, <1>2, <2>1, <2>2 DEF IInv, StateOK, OutputRead, JobDied, JobType
  <2>4. job'[j].on = job[j].on /\ job'[j].kind = job[j].kind /\ job'[j].line = job[j].line
    BY <2>1, <2>2 DEF JobType
  <2>5. job' \in [JobId -> JobType \cup {NoJob}] /\ \A i \in JobId \ {j} : job'[i] = job[i]
    BY <1>2, <2>2 DEF IInv, StateOK, JobDied
  <2>6. job'[j] # NoJob
    BY <2>2, JobAssumption
  <2> QED
    BY <1>1, <1>2, <2>3, <2>4, <2>5, <2>6, RecordsKept DEF JobDied
<1>3. CASE ~job[j].fd
  BY <1>1, <1>3, FinishSound DEF JobDied, IInv, OutputRead
<1> QED
  BY <1>2, <1>3

\* job_callback: the output ends first, or the process had.
LEMMA JobCallbackSound ==
    ASSUME IInv, NEW j \in JobId, JobCallback(j)
    PROVE  IInv'
<1>1. /\ child' \in [JobId -> ChildType]
      /\ \A i \in JobId : child'[i].open = child[i].open /\ child'[i].wrote = child[i].wrote
  BY DEF JobCallback, IInv, StateOK
<1>2. CASE job[j].pid
  <2>1. job[j] \in JobType
    BY DEF IInv, StateOK, JobCallback
  <2>2. job'[j] = [job[j] EXCEPT !.fd = FALSE]
    BY <1>2 DEF IInv, StateOK, JobCallback
  <2>3. job'[j] \in JobType
    BY <2>1, <2>2 DEF JobType
  <2>4. /\ job'[j].on = job[j].on /\ job'[j].kind = job[j].kind
        /\ job'[j].line = job[j].line /\ job'[j].seen = job[j].seen
    BY <2>1, <2>2 DEF JobType
  <2>5. job' \in [JobId -> JobType \cup {NoJob}] /\ \A i \in JobId \ {j} : job'[i] = job[i]
    BY <1>2, <2>3 DEF IInv, StateOK, JobCallback
  <2>6. job'[j] # NoJob
    BY <2>3, JobAssumption
  <2>7. OutputRead'
    BY <2>4, <2>5 DEF IInv, OutputRead, JobCallback
  <2> QED
    BY <1>1, <1>2, <2>4, <2>5, <2>6, <2>7, RecordsKept DEF JobCallback
<1>3. CASE ~job[j].pid
  BY <1>1, <1>3, FinishSound DEF JobCallback
<1> QED
  BY <1>2, <1>3

-----------------------------------------------------------------------------

\* Every step keeps the inductive invariant.
LEMMA StepSound == IInv /\ [Next]_vars => IInv'
<1> SUFFICES ASSUME IInv, [Next]_vars PROVE IInv'
  OBVIOUS
<1>1. ASSUME NEW c \in ClientId, NEW line \in Line, FindJob(c, line) PROVE IInv'
  BY <1>1, FindJobSound
<1>2. ASSUME NEW c \in ClientId, UpdateJobs(c) PROVE IInv'
  BY <1>2, UpdateJobsSound
<1>3. ASSUME NEW c \in ClientId, NEW kind \in {"if", "run"}, ShellCommand(c, kind) PROVE IInv'
  BY <1>3, ShellCommandSound
<1>4. ASSUME NEW c \in ClientId, NEW attached \in BOOLEAN, Connect(c, attached) PROVE IInv'
  BY <1>4, ConnectSound
<1>5. ASSUME NEW c \in ClientId, LeaveSession(c) \/ CheckExit(c) \/ ClientLost(c) PROVE IInv'
  BY <1>5, LeaveSessionSound, CheckExitSound, ClientLostSound
<1>6. ASSUME NEW j \in JobId, JobDied(j) \/ Read(j) \/ JobCallback(j) PROVE IInv'
  BY <1>6, JobDiedSound, ReadSound, JobCallbackSound
<1>7. ASSUME NEW j \in JobId, Write(j) \/ CloseOutput(j) PROVE IInv'
  BY <1>7, WriteSound, CloseOutputSound
<1>8. ASSUME NEW j \in JobId, NEW ok \in BOOLEAN, NEW open \in BOOLEAN, Exit(j, ok, open)
      PROVE  IInv'
  BY <1>8, ExitSound
<1>9. CASE CleanDead
  BY <1>9, CleanDeadSound
<1>10. CASE UNCHANGED vars
  <2>1. StateOK' /\ OutputRead' /\ StatusLines'
    BY <1>10 DEF vars, IInv, StateOK, OutputRead, StatusLines
  <2> QED
    BY <1>10, <2>1, ClientsKept DEF vars, IInv
<1> QED
  BY <1>1, <1>2, <1>3, <1>4, <1>5, <1>6, <1>7, <1>8, <1>9, <1>10 DEF Next

\* Jobs and clients have their types, output marked as ended has been read to its end,
\* and each client agrees with its jobs, after every step of job_run, job_died,
\* job_callback, status_job_callback and the clients' comings and goings.
THEOREM JobsInvariance == Spec => []IInv
BY InitSound, StepSound, PTL DEF Spec

\* However many jobs and clients there are: a client that jobs are for is not freed,
\* its references are its jobs, what waits has a job that will bring it, and no
\* result is shown before its output has ended (job_died, job_callback, job_free).
THEOREM JobsAgree == Spec => []JobSound
<1>1. IInv => JobSound
  BY InvIsSound
<1> QED
  BY <1>1, JobsInvariance, PTL

=============================================================================
