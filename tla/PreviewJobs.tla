------------------------------ MODULE PreviewJobs ------------------------------
(***************************************************************************)
(* The preview jobs of the external API                                    *)
(* (src-tauri/src/infra/preview_job_service.rs): a job opens an invisible  *)
(* window, listens once for the event with which the window hands over its *)
(* HTML, and gives up after a while; on Windows a PNG is then captured     *)
(* through a callback. Whatever becomes of the job, its window stays: the  *)
(* program prevents the close the task asks for (src-tauri/src/lib.rs),    *)
(* and tells the window, which does not listen. The client reads what is   *)
(* stored: get and artifact change nothing, and find nothing where a job   *)
(* had to make room.                                                       *)
(***************************************************************************)
EXTENDS Integers, FiniteSets

CONSTANTS
  Ids,        \* numbers of jobs, from 1, in the order of next_id
  Capacity,   \* MAX_PREVIEW_JOBS
  MaxActive,  \* MAX_ACTIVE_PREVIEW_JOBS; not more than Capacity
  OnWindows   \* whether the build captures PNG

ASSUME JobsAssumption ==
  /\ Ids \subseteq Nat \ {0}
  /\ Capacity \in Nat \ {0} /\ MaxActive \in Nat

VARIABLES
  nextId,    \* the last id given, also to a job that was refused
  jobs,      \* what is stored for every id
  task,      \* how far the task of the job is
  listening, \* jobs the once-listener of which is installed
  windows,   \* jobs the window of which was opened, and so is open
  handed     \* windows that have sent their event

jobsVars == <<nextId, jobs, task, listening, windows, handed>>

Statuses == {"none", "queued", "running", "completed", "failed"}

NoJob == [status |-> "none", format |-> "html", artifact |-> FALSE]

IsActive(job) == job.status \in {"queued", "running"}

IsFinished(job) == job.status \in {"completed", "failed"}

Stored == {i \in Ids : jobs[i].status # "none"}

Active == {i \in Ids : IsActive(jobs[i])}

JobsInit ==
  /\ nextId = 0
  /\ jobs = [i \in Ids |-> NoJob]
  /\ task = [i \in Ids |-> "none"]
  /\ listening = {}
  /\ windows = {}
  /\ handed = {}

\* update_job: a job that was removed meanwhile stays away.
Updated(i, status, artifact) ==
  IF jobs[i].status = "none" THEN jobs
  ELSE [jobs EXCEPT ![i].status = status, ![i].artifact = artifact]

\* create: the id is used up even when the job is refused, finished jobs make
\* room, in the order the map happens to have.
Create(format) ==
  LET id == nextId + 1
  IN  /\ id \in Ids
      /\ nextId' = id
      /\ IF Cardinality(Active) >= MaxActive THEN UNCHANGED <<jobs, task>>
         ELSE /\ \E removed \in SUBSET {i \in Ids : IsFinished(jobs[i])} :
                   /\ Cardinality(removed)
                        = IF Cardinality(Stored) < Capacity THEN 0
                          ELSE Cardinality(Stored) - Capacity + 1
                   /\ jobs' = [i \in Ids |->
                        IF i = id THEN [status |-> "queued", format |-> format,
                                        artifact |-> FALSE]
                        ELSE IF i \in removed THEN NoJob ELSE jobs[i]]
              /\ task' = [task EXCEPT ![id] = "spawned"]
      /\ UNCHANGED <<listening, windows, handed>>

EndedWithArtifact(i, status, artifact) ==
  /\ jobs' = IF artifact THEN Updated(i, status, artifact) ELSE jobs
  /\ task' = [task EXCEPT ![i] = "ended"]
  /\ UNCHANGED nextId

Ended(i, status, artifact) ==
  /\ jobs' = Updated(i, status, artifact)
  /\ task' = [task EXCEPT ![i] = "ended"]
  /\ UNCHANGED nextId

\* The task starts; PNG is refused outside of Windows at once.
Run(i) ==
  /\ task[i] = "spawned"
  /\ jobs' = Updated(i, "running", FALSE)
  /\ task' = [task EXCEPT ![i] = IF jobs[i].format = "png" /\ ~OnWindows
                                 THEN "refused" ELSE "hydrating"]
  /\ UNCHANGED <<nextId, listening, windows, handed>>

Refuse(i) ==
  /\ task[i] = "refused"
  /\ Ended(i, "failed", FALSE)
  /\ UNCHANGED <<listening, windows, handed>>

\* hydrate_preview: the listener, then the window, which may not open.
OpenWindow(i) ==
  /\ task[i] = "hydrating"
  /\ \/ /\ listening' = listening \cup {i}
        /\ windows' = windows \cup {i}
        /\ task' = [task EXCEPT ![i] = "waiting"]
        /\ UNCHANGED <<nextId, jobs>>
     \/ /\ Ended(i, "failed", FALSE)
        /\ UNCHANGED <<listening, windows>>
  /\ UNCHANGED handed

\* The window sends its event: rendered, or an error, or one nobody can
\* read. The listener hears it once, if it is still there; the window sends it
\* after the end of its job as well.
HandOver(i) ==
  /\ i \in windows \ handed
  /\ handed' = handed \cup {i}
  /\ listening' = listening \ {i}
  /\ task' = IF task[i] = "waiting" /\ i \in listening
             THEN [task EXCEPT ![i] = "received"] ELSE task
  /\ UNCHANGED <<nextId, jobs, windows>>

TimeOutListening(i) ==
  /\ task[i] = "waiting"
  /\ task' = [task EXCEPT ![i] = "late"]
  /\ UNCHANGED <<nextId, jobs, windows, handed, listening>>

\* The wait of 15 seconds is over, though the event may still arrive.
TimeOut(i) ==
  /\ task[i] = "waiting"
  /\ task' = [task EXCEPT ![i] = "late"]
  /\ listening' = listening \ {i}
  /\ UNCHANGED <<nextId, jobs, windows, handed>>

\* close() only asks: CloseRequested is prevented for the labels of these windows.
CloseLate(i) ==
  /\ task[i] = "late"
  /\ Ended(i, "failed", FALSE)
  /\ UNCHANGED <<listening, windows, handed>>

\* The event was received: an error ends the job, HTML is wrapped, and for a
\* PNG the capture begins. The artifact may be larger than is allowed.
Receive(i) ==
  /\ task[i] = "received"
  /\ \/ \E status \in {"completed", "failed"} :
           (status = "completed" => jobs[i].format = "html")
             /\ Ended(i, status, status = "completed")
     \/ /\ jobs[i].format = "png"
        /\ task' = [task EXCEPT ![i] = "capturing"]
        /\ UNCHANGED <<nextId, jobs>>
  /\ UNCHANGED <<listening, windows, handed>>

\* capture_webview2: the callback, its failure, or 10 seconds.
Capture(i) ==
  /\ task[i] = "capturing"
  /\ \E status \in {"completed", "failed"} : Ended(i, status, status = "completed")
  /\ UNCHANGED <<listening, windows, handed>>

Work(i) ==
  \/ Run(i) \/ Refuse(i) \/ OpenWindow(i) \/ TimeOut(i) \/ CloseLate(i)
  \/ Receive(i) \/ Capture(i)

JobsNext ==
  \/ \E format \in {"html", "png"} : Create(format)
  \/ \E i \in Ids : HandOver(i) \/ Work(i)

\* The runtime drives every task, and its timers ring.
JobsFairness == \A i \in Ids : WF_jobsVars(Work(i))

JobsSpec == JobsInit /\ [][JobsNext]_jobsVars /\ JobsFairness

-----------------------------------------------------------------------------
(* Properties. *)

JobsTypeOK ==
  /\ nextId \in Nat
  /\ jobs \in [Ids -> [status : Statuses, format : {"html", "png"}, artifact : BOOLEAN]]
  /\ listening \cup windows \cup handed \subseteq Ids

\* The windows a job still waits for or captures.
InUse == {i \in windows : task[i] # "ended"}

\* The limits hold whatever is created: at most Capacity jobs are stored, at
\* most MaxActive are active, and no more have a listener or a window in use;
\* a job takes its listener away on every way to its end, a completed one has
\* its artifact and no other has. The windows of ended jobs have no limit.
JobsStayWithinLimits ==
  /\ Cardinality(Stored) <= Capacity
  /\ Cardinality(Active) <= MaxActive
  /\ Cardinality(InUse \cup listening) <= MaxActive
  /\ \A i \in Ids : task[i] = "ended" => i \notin listening
  /\ \A i \in Ids : jobs[i].artifact <=> jobs[i].status = "completed"

\* Every job that was accepted ends, so that its slot is free again and a
\* client that asks comes to know how; and then nobody listens. (There is a
\* last job.)
JobsEnd == <>[](Active \cup listening = {})

=============================================================================
