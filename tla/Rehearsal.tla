----------------------------- MODULE Rehearsal -----------------------------
(***************************************************************************)
(* Rehearsals: the worker that builds, upgrades, destroys and rebuilds a   *)
(* staging environment (the rehearsal branch of processJob), the handlers  *)
(* that stop a rehearsal or clean up an environment, and the docker        *)
(* projects and compose files both work on (internal/staging/docker.go).   *)
(* The way of a job to the worker is that of JobQueue, here in one step.   *)
(***************************************************************************)
EXTENDS Naturals, Sequences

CONSTANTS
  Jobs,        \* the rehearsals clients may submit
  Sites,
  Snapshots,   \* of the restic repository; a docker project is named after one
  Requests,    \* the pairs of site and snapshot a client may ask for
  Handlers,    \* requests to stop or clean up that may be open at a time
  NoJob, NoFile,
  MaxFaults,   \* bound: docker and database calls that fail
  MaxCrashes   \* bound: crashes of the server process

ASSUME NoneAssumption == NoJob \notin Jobs
ASSUME RequestAssumption == Requests \subseteq [site: Sites, snap: Snapshots]
ASSUME BoundAssumption == MaxFaults \in Nat /\ MaxCrashes \in Nat

VARIABLES
  ask,       \* what each job asks for
  rows,      \* the jobs table: status, and the environment its Result describes
  clock,     \* rows created so far: the source of created_at
  pending,   \* jobs on their way to the worker
  up,        \* projects with a running container, by snapshot
  files,     \* compose files on disk, each with its restore directory
  made,      \* environments created so far: os.CreateTemp never repeats a name
  worker,
  handler

(* Observations: none of them steers an action, except for the bounds. *)
VARIABLES
  adrift,    \* environments no row will refer to
  faults, crashes

system == <<ask, rows, clock, pending, up, files, made, worker, handler>>
vars == <<system, adrift, faults, crashes>>

Statuses == {"absent", "queued", "running", "completed", "failed", "cancelled"}

File == [job: Jobs, id: Nat]
AnyFile == File \cup {NoFile}
ASSUME FileAssumption == NoFile \notin File

Row == [status: Statuses, env: AnyFile, created: Nat]
NoRow == [status |-> "absent", env |-> NoFile, created |-> 0]

\* The snapshot a file was made from, and so the project of its containers.
Project(f) == ask[f.job].snap
Site(j) == ask[j].site

\* The rehearsal branch of processJob.  "report": a status write; "try":
\* readiness, inventory and upgrade commands that may end the job; "up",
\* "import", "copy": CreateWithOptions; "destroy": the rollback's Destroy;
\* "verdict": health check and page comparison; "finish": setResult.
Program ==
  <<"report", "up", "import", "copy", "report", "try", "report",
    "destroy", "up", "import", "copy", "report", "try", "verdict", "report",
    "finish">>

\* stage "remove": cleanup has stopped the containers and is to remove the
\* files, then either to go on (ok) or to fail the job.
Worker == [job: Jobs \cup {NoJob}, pc: Nat \ {0}, env: AnyFile,
           stage: {"step", "remove", "failing"}, ok: BOOLEAN]

Idle == [job |-> NoJob, pc |-> 1, env |-> NoFile, stage |-> "step", ok |-> TRUE]

\* own: the environment of the job to stop, as read at the start; target: the
\* one being cleaned up; todo: jobs of ListJobsBySiteWithType, as read.
Phases == {"idle", "down", "remove", "look", "list", "next", "cancel", "final"}
Listed == [job: Jobs, row: Row]
Handler == [phase: Phases, kind: {"stop", "cleanup"}, job: Jobs \cup {NoJob},
            force: BOOLEAN, own: AnyFile, target: AnyFile, todo: SUBSET Listed]

Opened(kind, j, force, own, target, phase) ==
  [phase |-> phase, kind |-> kind, job |-> j, force |-> force, own |-> own,
   target |-> target, todo |-> {}]

Free == Opened("stop", NoJob, FALSE, NoFile, NoFile, "idle")

Fault == faults < MaxFaults /\ faults' = faults + 1

----------------------------------------------------------------------------
(* docker. *)

\* "docker compose down" needs the compose file; "docker rm -f", which only a
\* forced cleanup goes on to, does not.
DownWorks(f, force) == f \in files \/ force

Down(f, force) ==
  /\ DownWorks(f, force)
  /\ up' = up \ {Project(f)}
  /\ UNCHANGED faults

\* Without its file it always fails, and with it a command may; the containers
\* may be gone all the same.
DownFails(f, force) ==
  /\ IF DownWorks(f, force) THEN Fault ELSE UNCHANGED faults
  /\ up' \in IF DownWorks(f, force) THEN {up, up \ {Project(f)}} ELSE {up}

\* IsRunning: docker compose ps, then docker ps; if both fail it says no.
SaysRunning(f) == Project(f) \in up /\ UNCHANGED faults
SaysStopped(f) ==
  IF Project(f) \in up THEN Fault ELSE UNCHANGED faults

----------------------------------------------------------------------------
(* The jobs table and the way to the worker. *)

\* enqueueJob.
Submit(j) ==
  /\ rows[j].created = 0
  /\ rows' = [rows EXCEPT ![j].status = "queued", ![j].created = clock + 1]
  /\ clock' = clock + 1
  /\ pending' = pending \cup {j}
  /\ UNCHANGED <<ask, up, files, made, worker, handler, adrift, faults,
                 crashes>>

\* POST and DELETE /jobs/{id}.
CancelJob(j) ==
  /\ rows[j].status # "absent"
  /\ rows' = [rows EXCEPT ![j].status = "cancelled"]
  /\ UNCHANGED <<ask, clock, pending, up, files, made, worker, handler, adrift,
                 faults, crashes>>

DeleteJob(j) ==
  /\ rows[j].status # "absent"
  /\ rows' = [rows EXCEPT ![j].status = "absent", ![j].env = NoFile]
  /\ adrift' = adrift \cup ({rows[j].env} \ {NoFile})
  /\ UNCHANGED <<ask, clock, pending, up, files, made, worker, handler, faults,
                 crashes>>

\* UpdateJobStatus: an UPDATE, without a row to change after a deletion.
Updated(j, status, env) ==
  IF rows[j].status = "absent"
    THEN rows
    ELSE [rows EXCEPT ![j].status = status, ![j].env = env]

\* setStatus, setError and setResult ignore the error of UpdateJobStatus.
Write(status, env) ==
  \/ rows' = Updated(worker.job, status, env) /\ UNCHANGED faults
  \/ UNCHANGED rows /\ Fault

----------------------------------------------------------------------------
(* The worker. *)

At(ops) == worker.job # NoJob /\ worker.stage = "step" /\ Program[worker.pc] \in ops

Advance == worker' = [worker EXCEPT !.pc = @ + 1]
Fail == worker' = [worker EXCEPT !.stage = "failing"]

\* cleanup(false) of the worker's environment: containers, then files.  Its
\* failure is ignored when a creation or the verdict failed (ok = FALSE), and
\* fails the job at the rollback.
CleanUp(ok) ==
  \/ /\ Down(worker.env, FALSE)
     /\ worker' = [worker EXCEPT !.stage = "remove", !.ok = ok]
  \/ DownFails(worker.env, FALSE) /\ Fail

Dequeue(j) ==
  /\ worker.job = NoJob
  /\ j \in pending
  /\ worker' = [Idle EXCEPT !.job = j]
  /\ pending' = pending \ {j}
  /\ UNCHANGED <<ask, rows, clock, up, files, made, handler, adrift, faults,
                 crashes>>

Report ==
  /\ At({"report"})
  /\ Write("running", NoFile)
  /\ Advance
  /\ UNCHANGED <<ask, clock, pending, up, files, made, handler, adrift, crashes>>

\* The files of a new environment, then docker compose up; a failed one may
\* have started containers, and is cleaned up at the next step.
ComposeUp ==
  /\ At({"up"})
  /\ LET f == [job |-> worker.job, id |-> made + 1]
     IN  /\ made' = made + 1
         /\ files' = files \cup {f}
         /\ up' = up \cup {Project(f)}
         /\ worker' = [worker EXCEPT !.pc = @ + 1, !.env = f]
  /\ UNCHANGED <<ask, rows, clock, pending, handler, adrift, faults, crashes>>

\* Database and user; files, URLs and ports.
SetUp ==
  /\ At({"import", "copy"})
  /\ Advance
  /\ UNCHANGED <<ask, rows, clock, pending, up, files, made, handler, adrift,
                 faults, crashes>>

SetUpFails ==
  /\ At({"import", "copy"})
  /\ CleanUp(FALSE)
  /\ UNCHANGED <<ask, rows, clock, pending, files, made, handler, adrift,
                 crashes>>

Try ==
  /\ At({"try"})
  /\ Advance
  /\ UNCHANGED <<ask, rows, clock, pending, up, files, made, handler, adrift,
                 faults, crashes>>

\* An early return: no files yet, or the environment is left as it is.
TryFails ==
  /\ At({"up", "try"})
  /\ Fail
  /\ UNCHANGED <<ask, rows, clock, pending, up, files, made, handler, adrift,
                 faults, crashes>>

\* Mutant: the rollback goes on when it could not destroy the environment.
DestroyRegardless ==
  /\ At({"destroy"})
  /\ \/ CleanUp(TRUE)
     \/ DownFails(worker.env, FALSE) /\ Advance
  /\ UNCHANGED <<ask, rows, clock, pending, files, made, handler, adrift,
                 crashes>>

Destroy ==
  /\ At({"destroy"})
  /\ CleanUp(TRUE)
  /\ UNCHANGED <<ask, rows, clock, pending, files, made, handler, adrift,
                 crashes>>

\* The second half of cleanup: restore directory and compose file.
RemoveFiles ==
  /\ worker.job # NoJob /\ worker.stage = "remove"
  /\ files' = files \ {worker.env}
  /\ worker' = IF worker.ok
                 THEN [worker EXCEPT !.stage = "step", !.pc = @ + 1]
                 ELSE [worker EXCEPT !.stage = "failing"]
  /\ UNCHANGED <<ask, rows, clock, pending, up, made, handler, adrift, faults,
                 crashes>>

VerdictPasses ==
  /\ At({"verdict"})
  /\ Advance
  /\ UNCHANGED <<ask, rows, clock, pending, up, files, made, handler, adrift,
                 faults, crashes>>

VerdictFails ==
  /\ At({"verdict"})
  /\ CleanUp(FALSE)
  /\ UNCHANGED <<ask, rows, clock, pending, files, made, handler, adrift,
                 crashes>>

\* The worker lets go of its environment: known by its row, or adrift.
LetGo ==
  /\ adrift' = adrift \cup ({worker.env} \ {NoFile, rows'[worker.job].env})
  /\ worker' = Idle

\* setError: nothing refers to an environment that is still there.
SetError ==
  /\ worker.job # NoJob /\ worker.stage = "failing"
  /\ Write("failed", NoFile)
  /\ LetGo
  /\ UNCHANGED <<ask, clock, pending, up, files, made, handler, crashes>>

\* setResult, with compose file, project and restore directory.
Finish ==
  /\ At({"finish"})
  /\ Write("completed", worker.env)
  /\ LetGo
  /\ UNCHANGED <<ask, clock, pending, up, files, made, handler, crashes>>

----------------------------------------------------------------------------
(* handleRehearsalStop and handleStagingCleanup. *)

In(h, phase) == handler[h].phase = phase
Move(h, phase) == handler' = [handler EXCEPT ![h].phase = phase]
Answer(h) == handler' = [handler EXCEPT ![h] = Free]

\* The environment under way is that of the job to stop, not of its history.
IsOwn(h) == handler[h].todo = {}

\* POST /rehearsal/{id}/stop: GetJob.
StopRequest(h, j, force) ==
  /\ In(h, "idle")
  /\ rows[j].status # "absent"
  /\ LET env == rows[j].env
     IN  handler' = [handler EXCEPT
           ![h] = Opened("stop", j, force, env, env,
                         IF env = NoFile THEN "list" ELSE "down")]
  /\ UNCHANGED <<ask, rows, clock, pending, up, files, made, worker, adrift,
                 faults, crashes>>

\* POST /staging/cleanup: file and project as an earlier answer named them.
CleanupRequest(h, f) ==
  /\ In(h, "idle")
  /\ handler' = [handler EXCEPT
       ![h] = Opened("cleanup", NoJob, FALSE, NoFile, f, "down")]
  /\ UNCHANGED <<ask, rows, clock, pending, up, files, made, worker, adrift,
                 faults, crashes>>

HandlerDown(h) ==
  /\ In(h, "down")
  /\ Down(handler[h].target, handler[h].force)
  /\ Move(h, "remove")
  /\ UNCHANGED <<ask, rows, clock, pending, files, made, worker, adrift,
                 crashes>>

\* An error: 500 for the job to stop and for a cleanup, logged for its history.
GiveUp(h) == IF IsOwn(h) THEN Answer(h) ELSE Move(h, "cancel")

\* Mutants: the error of the job to stop is only logged; the files go anyway.
HandlerDownLogged(h) ==
  /\ In(h, "down")
  /\ DownFails(handler[h].target, handler[h].force)
  /\ IF handler[h].kind = "stop" /\ IsOwn(h) THEN Move(h, "list") ELSE GiveUp(h)
  /\ UNCHANGED <<ask, rows, clock, pending, files, made, worker, adrift,
                 crashes>>

HandlerDownOrNot(h) ==
  /\ In(h, "down")
  /\ DownFails(handler[h].target, handler[h].force)
  /\ Move(h, "remove")
  /\ UNCHANGED <<ask, rows, clock, pending, files, made, worker, adrift,
                 crashes>>

HandlerDownFails(h) ==
  /\ In(h, "down")
  /\ DownFails(handler[h].target, handler[h].force)
  /\ GiveUp(h)
  /\ UNCHANGED <<ask, rows, clock, pending, files, made, worker, adrift,
                 crashes>>

HandlerRemove(h) ==
  /\ In(h, "remove")
  /\ files' = files \ {handler[h].target}
  /\ IF handler[h].kind = "cleanup" THEN Answer(h) ELSE Move(h, "look")
  /\ UNCHANGED <<ask, rows, clock, pending, up, made, worker, adrift, faults,
                 crashes>>

HandlerLook(h) ==
  /\ In(h, "look")
  /\ \/ SaysRunning(handler[h].target) /\ GiveUp(h)
     \/ /\ SaysStopped(handler[h].target)
        /\ Move(h, IF IsOwn(h) THEN "list" ELSE "cancel")
  /\ UNCHANGED <<ask, rows, clock, pending, up, files, made, worker, adrift,
                 crashes>>

\* ListJobsBySiteWithType; its LIMIT of 50 is above the number of jobs.
History(j) ==
  {k \in Jobs \ {j} : rows[k].status # "absent" /\ Site(k) = Site(j)}

HandlerList(h) ==
  /\ In(h, "list")
  /\ handler' = [handler EXCEPT
       ![h].todo = {[job |-> k, row |-> rows[k]] : k \in History(handler[h].job)},
       ![h].phase = "next"]
  /\ UNCHANGED <<ask, rows, clock, pending, up, files, made, worker, adrift,
                 faults, crashes>>

HandlerListFails(h) ==
  /\ In(h, "list")
  /\ Fault
  /\ Move(h, "final")
  /\ UNCHANGED <<ask, rows, clock, pending, up, files, made, worker, adrift,
                 crashes>>

\* ORDER BY created_at DESC.
Newest(past, todo) ==
  past \in todo /\ \A other \in todo : past.row.created >= other.row.created

HandlerNext(h) ==
  /\ In(h, "next")
  /\ \/ handler[h].todo = {} /\ Move(h, "final")
     \/ \E past \in handler[h].todo :
          /\ Newest(past, handler[h].todo)
          /\ handler' = [handler EXCEPT
               ![h].phase = IF past.row.env = NoFile THEN "cancel" ELSE "down",
               ![h].target = past.row.env]
  /\ UNCHANGED <<ask, rows, clock, pending, up, files, made, worker, adrift,
                 faults, crashes>>

\* CancelJob of a job of the history, by the status that was listed.
HandlerCancel(h) ==
  /\ In(h, "cancel")
  /\ \E past \in handler[h].todo :
       /\ Newest(past, handler[h].todo)
       /\ rows' = IF past.row.status = "cancelled" \/ rows[past.job].status = "absent"
                    THEN rows
                    ELSE [rows EXCEPT ![past.job].status = "cancelled"]
       /\ handler' = [handler EXCEPT ![h].phase = "next", ![h].todo = @ \ {past}]
  /\ UNCHANGED <<ask, clock, pending, up, files, made, worker, adrift, faults,
                 crashes>>

\* The final UpdateJobStatus clears Result, whatever it holds by now.
HandlerFinal(h) ==
  /\ In(h, "final")
  /\ LET j == handler[h].job
     IN  /\ rows' = Updated(j, "cancelled", NoFile)
         /\ adrift' = adrift \cup ({rows[j].env} \ {NoFile, handler[h].own})
  /\ Answer(h)
  /\ UNCHANGED <<ask, clock, pending, up, files, made, worker, faults, crashes>>

HandlerFinalFails(h) ==
  /\ In(h, "final")
  /\ Fault
  /\ Answer(h)
  /\ UNCHANGED <<ask, rows, clock, pending, up, files, made, worker, adrift,
                 crashes>>

----------------------------------------------------------------------------
\* The process dies and comes up again; containers and files stay.
Crash ==
  /\ crashes < MaxCrashes
  /\ crashes' = crashes + 1
  /\ worker' = Idle
  /\ handler' = [h \in Handlers |-> Free]
  /\ pending' = {j \in Jobs : rows[j].status = "queued"}
  /\ adrift' = adrift \cup ({worker.env} \ {NoFile})
  /\ UNCHANGED <<ask, rows, clock, up, files, made, faults>>

Init ==
  /\ ask \in [Jobs -> Requests]
  /\ rows = [j \in Jobs |-> NoRow]
  /\ clock = 0
  /\ pending = {}
  /\ up = {}
  /\ files = {}
  /\ made = 0
  /\ worker = Idle
  /\ handler = [h \in Handlers |-> Free]
  /\ adrift = {}
  /\ faults = 0
  /\ crashes = 0

Client(j) == Submit(j) \/ CancelJob(j) \/ DeleteJob(j)

ProcessJob ==
  \/ Report \/ ComposeUp \/ SetUp \/ SetUpFails \/ Try \/ TryFails
  \/ Destroy \/ RemoveFiles \/ VerdictPasses \/ VerdictFails
  \/ SetError \/ Finish

\* The environments a client may have been told of.
Known == {rows[j].env : j \in Jobs} \ {NoFile}

Request(h) ==
  \/ \E j \in Jobs, force \in BOOLEAN : StopRequest(h, j, force)
  \/ \E f \in Known : CleanupRequest(h, f)

Handle(h) ==
  \/ HandlerDown(h) \/ HandlerDownFails(h) \/ HandlerRemove(h)
  \/ HandlerLook(h) \/ HandlerList(h) \/ HandlerListFails(h)
  \/ HandlerNext(h) \/ HandlerCancel(h) \/ HandlerFinal(h)
  \/ HandlerFinalFails(h)

Next ==
  \/ \E j \in Jobs : Client(j) \/ Dequeue(j)
  \/ ProcessJob
  \/ \E h \in Handlers : Request(h) \/ Handle(h)
  \/ Crash

Spec == Init /\ [][Next]_vars

----------------------------------------------------------------------------
(* Properties. *)

TypeOK ==
  /\ ask \in [Jobs -> Requests]
  /\ rows \in [Jobs -> Row]
  /\ clock \in Nat
  /\ pending \subseteq Jobs
  /\ up \subseteq Snapshots
  /\ files \subseteq File
  /\ made \in Nat
  /\ worker \in Worker /\ worker.pc <= Len(Program)
  /\ handler \in [Handlers -> Handler]
  /\ adrift \subseteq File
  /\ faults \in Nat
  /\ crashes \in Nat

\* A staging project that runs can always be taken down without force: one of
\* the compose files it was started from is still on disk, whatever stops,
\* cleanups and rehearsals of the same snapshot do to the project they share.
RunningIsReachable ==
  \A s \in up : \E f \in files : Project(f) = s

\* The step that answers the stop with success.
Succeeds(h) ==
  /\ In(h, "final") /\ handler'[h].phase = "idle"
  /\ faults' = faults /\ crashes' = crashes

\* A stop that is answered with success has removed the environment that the
\* row described, never only said so.
StopMeansGone ==
  [][\A h \in Handlers : Succeeds(h) => handler[h].own \notin files']_vars

\* The environments on disk are known: a row describes them, the worker has
\* them in hand, or they are those of a failed or interrupted rehearsal, of
\* one whose result could not be written, of a deleted row, or of a row that
\* was finished while its stop was under way.
Accounted ==
  \A f \in files : rows[f.job].env = f \/ worker.env = f \/ f \in adrift
=============================================================================
