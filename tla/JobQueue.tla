------------------------------ MODULE JobQueue ------------------------------
(***************************************************************************)
(* The background job system of the API server: the jobs table, the HTTP   *)
(* handlers that create, cancel and delete jobs, the bounded channel, the  *)
(* one worker goroutine that runs processJob, and what a crash and the     *)
(* restart of the server make of them (internal/apiserver/jobs.go,         *)
(* internal/db/models.go).                                                 *)
(***************************************************************************)
EXTENDS JobPrograms, FiniteSets

CONSTANTS
  Jobs,        \* the jobs clients may submit; auth.GenerateID never repeats
  NoJob,       \* the worker has no job in hand
  Requests,    \* the requests clients may send
  QueueSize,   \* jobQueueSize, the capacity of the channel
  MaxCrashes,  \* bound: crashes of the server process
  MaxFaults    \* bound: database calls that fail while they serve one job

ASSUME JobAssumption == NoJob \notin Jobs
ASSUME RequestAssumption == Requests \subseteq AllRequests
ASSUME BoundAssumption ==
  /\ QueueSize \in Nat \ {0}
  /\ MaxCrashes \in Nat
  /\ MaxFaults \in Nat

VARIABLES
  server,   \* "down", "recovering" (in startWorker) or "serving" HTTP
  rows,     \* the jobs table: status, what Result holds, created_at
  clock,    \* rows created so far: the source of created_at
  chan,     \* s.jobQueue
  todo,     \* rows ListQueuedJobs returned and recoverQueuedJobs has yet to send
  worker,   \* the worker goroutine: the job in hand and where it is in it
  hung,     \* the command the worker waits for will not return
  client,   \* what the client of each job knows
  request   \* the request each client sends

(* Observations: none of them steers an action. *)
VARIABLES
  outcome,  \* job.Status in memory when processJob returned
  fx,       \* effects on the world of the executions of a job
  stuck,    \* those of them that the executions tried in vain to remove
  starts,   \* how often processJob began a job
  faults,   \* failed database calls on behalf of a job
  crashes,
  stranded, \* queued rows this server process has let go of
  ahead     \* jobs that were in the channel when a job's row was created

system == <<server, rows, clock, chan, todo, worker, hung, client, request>>
observed == <<outcome, fx, stuck, starts, faults, crashes, stranded, ahead>>
vars == <<system, observed>>

Statuses == {"absent", "queued", "running", "completed", "failed", "cancelled"}
Terminal == {"completed", "failed", "cancelled"}

Row == [status: Statuses, result: {"request", "empty", "report"}, created: Nat]
Tuple == [job: Jobs, req: AllRequests]

\* stage "step": about to do step pc; "failing": an early return before its
\* setError; "returning": only the deferred calls and leftovers remain.
Worker == [job: Jobs \cup {NoJob}, req: AllRequests, pc: Nat \ {0},
           stage: {"step", "failing", "returning"}, undo: SUBSET Effects]

NoRow == [status |-> "absent", result |-> "empty", created |-> 0]
NoRequest == [type |-> "backup", detect |-> FALSE, db |-> FALSE, files |-> FALSE]
Idle == [job |-> NoJob, req |-> NoRequest, pc |-> 1, stage |-> "step", undo |-> {}]

JobsOf(c) == {c[i].job : i \in 1..Len(c)}
Distinct(c) == \A a, b \in 1..Len(c) : c[a].job = c[b].job => a = b

InChannel == JobsOf(chan)
Posting == {j \in Jobs : client[j] = "posting"}

\* A send to the buffered channel does not block.
ChannelHasRoom == Len(chan) < QueueSize

----------------------------------------------------------------------------
(* The jobs table. *)

\* UpdateJobStatus overwrites Result, and its error is ignored everywhere: the
\* row changes, or the call fails and the job goes on regardless.  An UPDATE of
\* a deleted row changes nothing.
UpdateJobStatus(j, status, result) ==
  \/ /\ rows' = IF rows[j].status = "absent"
                  THEN rows
                  ELSE [rows EXCEPT ![j].status = status, ![j].result = result]
     /\ UNCHANGED faults
  \/ /\ faults[j] < MaxFaults
     /\ faults' = [faults EXCEPT ![j] = @ + 1]
     /\ UNCHANGED rows

\* Mutant: the request is not persisted with the row.
NewRowBare(t) == [status |-> "queued", result |-> "empty", created |-> t]

\* The row CreateJob inserts: its Result column keeps the request's JSON.
NewRow(t) == [status |-> "queued", result |-> "request", created |-> t]

\* Mutants: a restart also resumes the rows left running; it resumes nothing.
ListUnfinished == {j \in Jobs : rows[j].status \in {"queued", "running"}}
ListNothing == {}

ListQueuedJobs == {j \in Jobs : rows[j].status = "queued"}

----------------------------------------------------------------------------
(* HTTP handlers. *)

\* enqueueJob, first half: the row, with the request as its Result.
CreateJob(j) ==
  /\ server = "serving" /\ client[j] = "new"
  /\ rows' = [rows EXCEPT ![j] = NewRow(clock + 1)]
  /\ clock' = clock + 1
  /\ client' = [client EXCEPT ![j] = "posting"]
  /\ ahead' = [ahead EXCEPT ![j] = InChannel]
  /\ UNCHANGED <<server, chan, todo, worker, hung, request, outcome, fx, stuck,
                 starts, faults, crashes, stranded>>

\* CreateJob failed: 503 and no row.
CreateJobFails(j) ==
  /\ server = "serving" /\ client[j] = "new"
  /\ faults[j] < MaxFaults
  /\ faults' = [faults EXCEPT ![j] = @ + 1]
  /\ client' = [client EXCEPT ![j] = "refused"]
  /\ UNCHANGED <<server, rows, clock, chan, todo, worker, hung, request,
                 outcome, fx, stuck, starts, crashes, stranded, ahead>>

\* enqueueJob, second half: the select that does not block.
SendJob(j) ==
  /\ client[j] = "posting"
  /\ ChannelHasRoom
  /\ chan' = Append(chan, [job |-> j, req |-> request[j]])
  /\ client' = [client EXCEPT ![j] = "accepted"]
  /\ UNCHANGED <<server, rows, clock, todo, worker, hung, request, observed>>

\* The select's default: the client gets an error, the row stays as it is.
QueueFull(j) ==
  /\ client[j] = "posting"
  /\ ~ChannelHasRoom
  /\ client' = [client EXCEPT ![j] = "refused"]
  /\ stranded' = stranded \cup {j}
  /\ UNCHANGED <<server, rows, clock, chan, todo, worker, hung, request,
                 outcome, fx, stuck, starts, faults, crashes, ahead>>

\* POST /jobs/{id}: an unconditional UPDATE, whatever the row's status.
CancelJob(j) ==
  /\ server = "serving"
  /\ rows' = IF rows[j].status = "absent"
               THEN rows
               ELSE [rows EXCEPT ![j].status = "cancelled"]
  /\ UNCHANGED <<server, clock, chan, todo, worker, hung, client, request,
                 observed>>

\* DELETE /jobs/{id}.
DeleteJob(j) ==
  /\ server = "serving"
  /\ rows' = [rows EXCEPT ![j] = NoRow]
  /\ UNCHANGED <<server, clock, chan, todo, worker, hung, client, request,
                 observed>>

----------------------------------------------------------------------------
(* The worker goroutine: workerLoop and processJob. *)

Current == Programs[worker.req][worker.pc]

\* The worker is at a step of one of the kinds in ops, ...
Doing(ops) == worker.job # NoJob /\ worker.stage = "step" /\ Current.op \in ops

\* ... and what it waits for, if anything, returns.
At(ops) == ~hung /\ Doing(ops)

Advance == worker' = [worker EXCEPT !.pc = @ + 1]

\* Mutant: go s.workerLoop() comes after recoverQueuedJobs.
WorkerUpLate == server = "serving"

\* startWorker spawns the worker before it recovers anything.
WorkerUp == server # "down"

Dequeue ==
  /\ WorkerUp
  /\ worker.job = NoJob
  /\ chan # <<>>
  /\ worker' = [Idle EXCEPT !.job = Head(chan).job, !.req = Head(chan).req]
  /\ chan' = Tail(chan)
  /\ UNCHANGED <<server, rows, clock, todo, hung, client, request, observed>>

\* setStatus("running", ...).  The first one begins the job.
WriteRunning ==
  /\ At({"write"})
  /\ UpdateJobStatus(worker.job, "running", "empty")
  /\ starts' = IF worker.pc = 1
                 THEN [starts EXCEPT ![worker.job] = @ + 1]
                 ELSE starts
  /\ Advance
  /\ UNCHANGED <<server, clock, chan, todo, hung, client, request, outcome, fx,
                 stuck, crashes, stranded, ahead>>

\* The per-file callback of SyncDir: setStatus("running", ...) again.
ReportFile ==
  /\ At({"sync"})
  /\ UpdateJobStatus(worker.job, "running", "empty")
  /\ UNCHANGED <<server, clock, chan, todo, worker, hung, client, request,
                 outcome, fx, stuck, starts, crashes, stranded, ahead>>

WorkSucceeds ==
  /\ At({"work", "sync"})
  /\ fx' = [fx EXCEPT ![worker.job] = @ \cup Current.adds]
  /\ Advance
  /\ UNCHANGED <<server, rows, clock, chan, todo, hung, client, request,
                 outcome, stuck, starts, faults, crashes, stranded, ahead>>

\* A removal may fail, over a lost connection for one: its error is dropped.
Remove(j, what, left) ==
  \E kept \in SUBSET (fx[j] \cap what) :
    /\ fx' = [fx EXCEPT ![j] = (@ \ (what \ kept)) \cup left]
    /\ stuck' = [stuck EXCEPT ![j] = @ \cup kept]

WorkFails ==
  /\ At({"work", "sync"})
  /\ \E left \in {{}, Current.partial} : Remove(worker.job, Current.undo, left)
  /\ worker' = [worker EXCEPT !.stage = "failing"]
  /\ UNCHANGED <<server, rows, clock, chan, todo, hung, client, request,
                 outcome, starts, faults, crashes, stranded, ahead>>

SetError ==
  /\ worker.job # NoJob /\ worker.stage = "failing"
  /\ UpdateJobStatus(worker.job, "failed", "empty")
  /\ outcome' = [outcome EXCEPT ![worker.job] = "failed"]
  /\ worker' = [worker EXCEPT !.stage = "returning"]
  /\ UNCHANGED <<server, clock, chan, todo, hung, client, request, fx, stuck,
                 starts, crashes, stranded, ahead>>

\* isCancelled is false: another status, no row, or GetJob failed.
CheckPasses ==
  /\ At({"check"})
  /\ \/ rows[worker.job].status # "cancelled" /\ UNCHANGED faults
     \/ /\ faults[worker.job] < MaxFaults
        /\ faults' = [faults EXCEPT ![worker.job] = @ + 1]
  /\ Advance
  /\ UNCHANGED <<server, rows, clock, chan, todo, hung, client, request,
                 outcome, fx, stuck, starts, crashes, stranded, ahead>>

\* isCancelled is true: the status is written before anything is cleaned up.
CheckCancels ==
  /\ At({"check"})
  /\ rows[worker.job].status = "cancelled"
  /\ UpdateJobStatus(worker.job, "cancelled", "empty")
  /\ outcome' = [outcome EXCEPT ![worker.job] = "cancelled"]
  /\ worker' = [worker EXCEPT !.stage = "returning", !.undo = Current.undo]
  /\ UNCHANGED <<server, clock, chan, todo, hung, client, request, fx, stuck,
                 starts, crashes, stranded, ahead>>

SetResult ==
  /\ At({"done"})
  /\ UpdateJobStatus(worker.job, "completed", "report")
  /\ outcome' = [outcome EXCEPT ![worker.job] = "completed"]
  /\ worker' = [worker EXCEPT !.stage = "returning"]
  /\ UNCHANGED <<server, clock, chan, todo, hung, client, request, fx, stuck,
                 starts, crashes, stranded, ahead>>

\* Mutant: the remote files stay.
DeferredLocal == {"restoredir"}

\* What defer removes on every return: RemoveRemoteFile of the files under
\* /tmp, cleanupRemoveAll of the restore directory.
Deferred == {"remote", "restoredir"}

\* processJob returns: the rest of an observed cancel, then the deferred calls.
Return ==
  /\ worker.job # NoJob /\ worker.stage = "returning" /\ ~hung
  /\ Remove(worker.job, worker.undo \cup Deferred, {})
  /\ stranded' = IF rows[worker.job].status = "queued"
                   THEN stranded \cup {worker.job}
                   ELSE stranded
  /\ worker' = Idle
  /\ UNCHANGED <<server, rows, clock, chan, todo, hung, client, request,
                 outcome, starts, faults, crashes, ahead>>

\* SSH commands, transfers, restic and the deferred removals have no timeout:
\* one that does not return keeps the worker until the process ends.
Hang ==
  /\ \/ At({"work", "sync"})
     \/ worker.job # NoJob /\ worker.stage = "returning" /\ ~hung
  /\ hung' = TRUE
  /\ UNCHANGED <<server, rows, clock, chan, todo, worker, client, request,
                 observed>>

----------------------------------------------------------------------------
(* Crash and restart. *)

\* What the command under way may have done when the process dies.
CutShort == IF Doing({"work", "sync"}) THEN {{}, Current.partial} ELSE {{}}

\* The process dies: the channel, the worker and every open request with it.
Crash ==
  /\ server # "down"
  /\ crashes < MaxCrashes
  /\ crashes' = crashes + 1
  /\ server' = "down"
  /\ chan' = <<>>
  /\ todo' = {}
  /\ worker' = Idle /\ hung' = FALSE
  /\ client' = [j \in Jobs |-> IF client[j] = "posting" THEN "lost" ELSE client[j]]
  /\ outcome' = [j \in Jobs |-> IF j = worker.job THEN "interrupted" ELSE outcome[j]]
  /\ \E left \in CutShort :
       fx' = [j \in Jobs |-> IF j = worker.job THEN fx[j] \cup left ELSE fx[j]]
  /\ stranded' = {}
  /\ UNCHANGED <<rows, clock, request, stuck, starts, faults, ahead>>

\* startWorker: the worker goroutine first, then ListQueuedJobs.
StartWorker ==
  /\ server = "down"
  /\ server' = "recovering"
  /\ todo' = ListQueuedJobs
  /\ UNCHANGED <<rows, clock, chan, worker, hung, client, request, observed>>

\* ListQueuedJobs failed: logged, and the server comes up without recovery.
RecoveryFails ==
  /\ server = "down"
  /\ MaxFaults > 0
  /\ server' = "recovering"
  /\ stranded' = {j \in Jobs : rows[j].status = "queued"}
  /\ UNCHANGED <<rows, clock, chan, todo, worker, hung, client, request,
                 outcome, fx, stuck, starts, faults, crashes, ahead>>

\* Mutant: as the other listings of jobs are sorted, created_at DESC.
NewestFirst(j) == \A k \in todo : rows[j].created >= rows[k].created

\* The oldest first (ORDER BY created_at ASC).
NextRecovered(j) == \A k \in todo : rows[j].created <= rows[k].created

\* The request a row carries through a restart.
RecoveredRequest(j) ==
  IF rows[j].result = "request" THEN request[j] ELSE Stripped(request[j])

\* Mutants: rows are listed again after each send; a full channel drops the job.
RecoverJobRelisting(j) ==
  /\ server = "recovering"
  /\ j \in todo /\ NextRecovered(j)
  /\ ChannelHasRoom
  /\ chan' = Append(chan, [job |-> j, req |-> RecoveredRequest(j)])
  /\ todo' = ListQueuedJobs
  /\ UNCHANGED <<server, rows, clock, worker, hung, client, request, observed>>

RecoverJobDropping(j) ==
  /\ server = "recovering"
  /\ j \in todo /\ NextRecovered(j)
  /\ chan' = IF ChannelHasRoom
               THEN Append(chan, [job |-> j, req |-> RecoveredRequest(j)])
               ELSE chan
  /\ todo' = todo \ {j}
  /\ UNCHANGED <<server, rows, clock, worker, hung, client, request, observed>>

\* recoverQueuedJobs: the send blocks while the channel is full.
RecoverJob(j) ==
  /\ server = "recovering"
  /\ j \in todo /\ NextRecovered(j)
  /\ ChannelHasRoom
  /\ chan' = Append(chan, [job |-> j, req |-> RecoveredRequest(j)])
  /\ todo' = todo \ {j}
  /\ UNCHANGED <<server, rows, clock, worker, hung, client, request, observed>>

\* recoverQueuedJobs has returned: ListenAndServe.
Serve ==
  /\ server = "recovering" /\ todo = {}
  /\ server' = "serving"
  /\ UNCHANGED <<rows, clock, chan, todo, worker, hung, client, request,
                 observed>>

----------------------------------------------------------------------------
Init ==
  /\ server = "down"
  /\ rows = [j \in Jobs |-> NoRow]
  /\ clock = 0
  /\ chan = <<>>
  /\ todo = {}
  /\ worker = Idle /\ hung = FALSE
  /\ client = [j \in Jobs |-> "new"]
  /\ request \in [Jobs -> Requests]
  /\ outcome = [j \in Jobs |-> "none"]
  /\ fx = [j \in Jobs |-> {}] /\ stuck = [j \in Jobs |-> {}]
  /\ starts = [j \in Jobs |-> 0]
  /\ faults = [j \in Jobs |-> 0]
  /\ crashes = 0
  /\ stranded = {}
  /\ ahead = [j \in Jobs |-> {}]

Submit(j) == CreateJob(j) \/ CreateJobFails(j)
Enqueue(j) == SendJob(j) \/ QueueFull(j)
Manage(j) == CancelJob(j) \/ DeleteJob(j)

\* The steps of processJob that get it further.
ProcessJob ==
  \/ WriteRunning \/ WorkSucceeds \/ WorkFails \/ SetError
  \/ CheckPasses \/ CheckCancels \/ SetResult \/ Return

Restart == StartWorker \/ RecoveryFails
Recover == \E j \in Jobs : RecoverJob(j)

Next ==
  \/ \E j \in Jobs : Submit(j) \/ Enqueue(j) \/ Manage(j)
  \/ Dequeue \/ ProcessJob \/ ReportFile \/ Hang
  \/ Crash \/ Restart \/ Recover \/ Serve

Spec == Init /\ [][Next]_vars

\* A handler that has created its row goes on to the select; the worker takes
\* the next job; the command of a step returns or hangs, and a sync copies
\* finitely many files; the process supervisor restarts the server.  Nothing
\* ends a command that hangs.
Fairness ==
  /\ \A j \in Jobs : WF_vars(Enqueue(j))
  /\ WF_vars(Dequeue)
  /\ WF_vars(ProcessJob)
  /\ WF_vars(Restart)
  /\ WF_vars(Recover)
  /\ WF_vars(Serve)

LiveSpec == Spec /\ Fairness

----------------------------------------------------------------------------
(* Properties. *)

TypeOK ==
  /\ server \in {"down", "recovering", "serving"}
  /\ rows \in [Jobs -> Row]
  /\ clock \in Nat
  /\ chan \in Seq(Tuple) /\ Len(chan) <= QueueSize
  /\ todo \subseteq Jobs
  /\ worker \in Worker /\ hung \in BOOLEAN
  /\ client \in [Jobs -> {"new", "posting", "accepted", "refused", "lost"}]
  /\ request \in [Jobs -> AllRequests]
  /\ outcome \in [Jobs -> {"none", "interrupted"} \cup Terminal]
  /\ fx \in [Jobs -> SUBSET Effects] /\ stuck \in [Jobs -> SUBSET Effects]
  /\ starts \in [Jobs -> Nat]
  /\ faults \in [Jobs -> Nat]
  /\ crashes \in Nat
  /\ stranded \subseteq Jobs
  /\ ahead \in [Jobs -> SUBSET Jobs]

\* A job is in one place at a time: once in the channel at most, and then
\* neither with its handler, nor still to be recovered, nor with the worker.
\* Two copies of a tuple would run a backup or a restore twice.
NoDuplicateDelivery ==
  /\ Distinct(chan)
  /\ InChannel \cap (Posting \cup todo \cup {worker.job}) = {}
  /\ Posting \cap (todo \cup {worker.job}) = {}
  /\ worker.job \notin todo

\* processJob begins a job at most once, whatever crashes and restarts happen
\* in between, but for one more time per status write the database lost.
AtMostOnce == \A j \in Jobs : starts[j] <= 1 + faults[j]

\* While the server is up, a queued row has a job on its way to the worker.
\* The rows the server has let go of are those of a full channel, of a failed
\* listing, and of jobs that ran to the end with every status write lost.
QueuedIsReachable ==
  server # "down" =>
    \A j \in Jobs : rows[j].status = "queued" =>
      j \in InChannel \cup Posting \cup todo \cup {worker.job} \cup stranded

\* A job is never overtaken by one whose row was created when it was already
\* in the channel: neither in the channel, nor by a restart in between.
NoOvertaking ==
  \A i \in 1..Len(chan) :
    LET first == ahead[chan[i].job]
    IN  /\ first \cap todo = {}
        /\ \A k \in (i + 1)..Len(chan) : chan[k].job \notin first

\* A job that observed its cancel has left no snapshot, no record and no file
\* of the production site changed (what it may have done is the database), and
\* its directory with the dump only if the removal failed.
HonouredCancelIsClean ==
  \A j \in Jobs : outcome[j] = "cancelled" /\ starts[j] = 1 =>
    /\ fx[j] \cap {"snapshot", "record", "filesTouched"} = {}
    /\ "workdir" \in fx[j] => worker.job = j \/ "workdir" \in stuck[j]

\* Whatever way processJob returns, by a result, an error or an observed
\* cancel, it has tried to remove every credential and dump file from the
\* managed site, and every restore directory.  Only a crash, or a removal that
\* fails, may leave one.
ReturnLeavesNoTemp ==
  \A j \in Jobs : outcome[j] \in Terminal /\ worker.job # j /\ starts[j] = 1 =>
    fx[j] \cap {"remote", "restoredir"} \subseteq stuck[j]

\* A row that reports a completed restore has applied everything the client
\* asked for, also when the job went through a restart.
CompletedRestoreIsWhole ==
  \A j \in Jobs :
    rows[j].status = "completed" /\ request[j].type = "restore" =>
      /\ request[j].db => "dbDone" \in fx[j]
      /\ request[j].files => "filesDone" \in fx[j]

\* The files of a site are restored only after the database the client asked for
\* with them: a failed import, a cancel or a crash leaves the old files with
\* whatever database there is, and no restart turns the order around.
FilesAfterDatabase ==
  \A j \in Jobs :
    "filesTouched" \in fx[j] /\ request[j].db => "dbDone" \in fx[j]

\* Liveness.  The server comes up, however many rows wait to be recovered:
\* recovery sends into a channel that the worker drains, unless it hangs in a
\* recovered job and the channel has filled up behind it.
EventuallyServing ==
  server # "serving" ~> server = "serving" \/ (hung /\ ~ChannelHasRoom)

\* A job whose client was told "queued" is begun, unless it is cancelled,
\* deleted or let go of by a failed recovery, or the job before it hangs.
AcceptedIsBegun ==
  \A j \in Jobs :
    client[j] = "accepted" /\ rows[j].status = "queued" ~>
      starts[j] > 0 \/ rows[j].status # "queued" \/ j \in stranded \/ hung

\* What api/docs/openapi.yaml says of POST /jobs/{id}, "Cancels a queued or
\* running job": once cancelled, a job stays cancelled.
CancelIsFinal ==
  [][\A j \in Jobs : rows[j].status = "cancelled" =>
       rows'[j].status \in {"cancelled", "absent"}]_vars

----------------------------------------------------------------------------
(* Refinement of the abstract executor. *)

Begun(j) == worker.job = j /\ worker.pc > 1

\* The job is somewhere between its handler and the end of processJob.
OnItsWay(j) == j \in InChannel \cup Posting \cup todo \cup {worker.job}

Standing(j) ==
  IF Begun(j) THEN "executing"
  ELSE IF OnItsWay(j) \/ rows[j].status = "queued" THEN "waiting"
  ELSE IF client[j] = "new" THEN "unknown"
  ELSE "ended"

ledger == [j \in Jobs |-> Standing(j)]

Ledger == INSTANCE JobLedger WITH state <- ledger, Faulty <- MaxFaults > 0

Implements == Ledger!Spec
=============================================================================
