--------------------------- MODULE JobQueueProofs ---------------------------
(***************************************************************************)
(* The job queue for any number of jobs, any capacity, any number of       *)
(* crashes and any number of lost status writes.                           *)
(*                                                                         *)
(* Invariants, each proved with the help of those before it:               *)
(*   TypeInv    types, and the worker inside the program of its job        *)
(*   Placement  where a job may be: NoDuplicateDelivery is not inductive   *)
(*              without knowing that a server that is down holds no job    *)
(*              and that a job nobody has submitted is nowhere             *)
(*   Freshness  what waits has not been begun, but for the status writes   *)
(*              the database lost: the reason for AtMostOnce               *)
(*   QueuedIsReachable                                                     *)
(*   Ordering   jobs ahead of a row in the channel are older, and no       *)
(*              handler sends while recovery does: the reason for          *)
(*              NoOvertaking                                               *)
(*   Accounts   a job past its first step has been begun, and the lost     *)
(*              calls are bounded: the one case of the refinement that     *)
(*              needs more than where jobs are is a returning job whose    *)
(*              row is still queued                                        *)
(*   Handover   the worker runs the request the client sent, also after a  *)
(*              restart, and a completed row is nobody's work any more     *)
(*   AllEffects the effects of a job begun once are those of the steps its *)
(*              worker has passed                                          *)
(* The last two, with what the programs of JobPrograms do before a check   *)
(* and before their end, say what a job leaves behind: the files of one    *)
(* that returned, the result of an observed cancel, a completed restore.   *)
(***************************************************************************)
EXTENDS JobQueue, SequenceTheorems, TLAPS

----------------------------------------------------------------------------
(* The programs of JobPrograms: each is a sequence of steps that begins    *)
(* with a status write and ends in its "done" step, so the worker never    *)
(* runs off the end of one and does nothing for a job before it has said   *)
(* so.                                                                     *)

Closing(p) == p \in Seq(Steps) /\ p # <<>> /\ p[Len(p)] = Done
Opening(p) == p \in Seq(Steps) /\ p # <<>> /\ p[1] = Write
Complete(p) == Opening(p) /\ Closing(p)

LEMMA StepTypes ==
  /\ Write \in Steps /\ Done \in Steps
  /\ \A e, l, u \in SUBSET Effects : Work(e, l, u) \in Steps /\ Sync(e, l, u) \in Steps
  /\ \A u \in SUBSET Effects : Check(u) \in Steps /\ Try(u) \in Steps
  /\ WD \in SUBSET Effects
BY DEF Write, Done, Work, Sync, Check, Try, Steps, Ops, WD, Effects

LEMMA ConcatSteps ==
  ASSUME NEW p \in Seq(Steps), NEW q \in Seq(Steps)
  PROVE  p \o q \in Seq(Steps)
BY ConcatProperties

LEMMA ConcatOpening ==
  ASSUME NEW p, Opening(p), NEW q \in Seq(Steps)
  PROVE  Opening(p \o q)
<1> p \in Seq(Steps) /\ p # <<>> /\ p[1] = Write
  BY DEF Opening
<1>1. Len(p) \in Nat \ {0} /\ Len(q) \in Nat
  BY EmptySeq
<1>2. /\ p \o q \in Seq(Steps)
      /\ Len(p \o q) = Len(p) + Len(q)
      /\ (p \o q)[1] = p[1]
  BY <1>1, ConcatProperties
<1> QED
  BY <1>1, <1>2 DEF Opening

LEMMA ConcatComplete ==
  ASSUME NEW p, Opening(p), NEW q, Closing(q)
  PROVE  Complete(p \o q)
<1> p \in Seq(Steps) /\ q \in Seq(Steps) /\ q # <<>> /\ q[Len(q)] = Done
  BY DEF Opening, Closing
<1>1. Len(q) \in Nat \ {0} /\ Len(p) \in Nat
  BY EmptySeq
<1>2. /\ p \o q \in Seq(Steps)
      /\ Len(p \o q) = Len(p) + Len(q)
      /\ (p \o q)[Len(p) + Len(q)] = q[Len(q)]
  BY <1>1, ConcatProperties
<1>3. Opening(p \o q)
  BY ConcatOpening
<1> QED
  BY <1>1, <1>2, <1>3 DEF Complete, Closing

LEMMA DetectRootSteps ==
  ASSUME NEW q \in AllRequests, NEW undo \in SUBSET Effects
  PROVE  DetectRoot(q, undo) \in Seq(Steps)
<1>1. Write \in Steps /\ Try(undo) \in Steps
  BY StepTypes
<1> QED
  BY <1>1 DEF DetectRoot

LEMMA LoadSiteOpens == Opening(LoadSite)
<1>1. Write \in Steps /\ Try({}) \in Steps
  BY StepTypes
<1> QED
  BY <1>1 DEF LoadSite, Opening

LEMMA BackupComplete ==
  ASSUME NEW q \in AllRequests
  PROVE  Complete(BackupProgram(q))
<1>1. /\ Write \in Steps /\ Done \in Steps
      /\ Try(WD) \in Steps /\ Check(WD) \in Steps
      /\ Work(WD, WD, {}) \in Steps
      /\ Work({"remote"}, {"remote"}, WD) \in Steps
      /\ Sync({}, {}, WD) \in Steps
      /\ Work({"snapshot"}, {"snapshot"}, WD) \in Steps
      /\ Work({"record"}, {}, {}) \in Steps
  BY StepTypes DEF Effects
<1>2. BackupPrepare(q) \in Seq(Steps)
  <2>1. <<Write, Work(WD, WD, {}), Try(WD)>> \in Seq(Steps)
    BY <1>1
  <2>2. <<Write, Write, Try(WD)>> \in Seq(Steps)
    BY <1>1
  <2>3. DetectRoot(q, WD) \in Seq(Steps)
    BY DetectRootSteps, StepTypes
  <2> QED
    BY <2>1, <2>2, <2>3, ConcatSteps DEF BackupPrepare
<1>3. BackupCollect \in Seq(Steps)
  BY <1>1 DEF BackupCollect
<1>4. Closing(BackupStore)
  BY <1>1 DEF BackupStore, Closing
<1>5. Opening(LoadSite \o BackupPrepare(q) \o BackupCollect)
  BY <1>2, <1>3, LoadSiteOpens, ConcatOpening
<1> QED
  BY <1>4, <1>5, ConcatComplete DEF BackupProgram

LEMMA RestoreComplete ==
  ASSUME NEW q \in AllRequests
  PROVE  Complete(RestoreProgram(q))
<1>1. /\ Write \in Steps /\ Done \in Steps
      /\ Try({}) \in Steps /\ Check({}) \in Steps
      /\ Work({"restoredir"}, {}, {}) \in Steps
      /\ Work({"remote"}, {"remote"}, {}) \in Steps
      /\ Work({"dbTouched", "dbDone"}, {"dbTouched"}, {}) \in Steps
      /\ Sync({"filesTouched", "filesDone"}, {"filesTouched"}, {}) \in Steps
  BY StepTypes DEF Effects
<1>2. RestoreFetch(q) \in Seq(Steps)
  <2>1. <<Try({}), Write, Try({}), Work({"restoredir"}, {}, {}), Check({}),
          Write, Try({}), Check({})>> \in Seq(Steps)
    BY <1>1
  <2>2. DetectRoot(q, {}) \in Seq(Steps)
    BY DetectRootSteps
  <2> QED
    BY <2>1, <2>2, ConcatSteps DEF RestoreFetch
<1>3. RestoreDatabase(q) \in Seq(Steps)
  BY <1>1 DEF RestoreDatabase
<1>4. RestoreFiles(q) \in Seq(Steps)
  BY <1>1 DEF RestoreFiles
<1>5. Closing(<<Done>>)
  BY <1>1 DEF Closing
<1>6. <<Check({})>> \in Seq(Steps)
  BY <1>1
<1>7. Opening(LoadSite \o RestoreFetch(q) \o RestoreDatabase(q) \o <<Check({})>> \o
              RestoreFiles(q))
  BY <1>2, <1>3, <1>4, <1>6, LoadSiteOpens, ConcatOpening
<1> QED
  BY <1>5, <1>7, ConcatComplete DEF RestoreProgram

LEMMA UpgradeComplete ==
  ASSUME NEW q \in AllRequests
  PROVE  Complete(UpgradeProgram(q))
<1>1. Write \in Steps /\ Done \in Steps /\ Work({"upgraded"}, {"upgraded"}, {}) \in Steps
  BY StepTypes DEF Effects
<1>2. Closing(<<Write, Work({"upgraded"}, {"upgraded"}, {}), Done>>)
  BY <1>1 DEF Closing
<1>3. Opening(LoadSite \o DetectRoot(q, {}))
  BY LoadSiteOpens, DetectRootSteps, ConcatOpening
<1> QED
  BY <1>2, <1>3, ConcatComplete DEF UpgradeProgram

LEMMA RehearsalComplete == Complete(RehearsalProgram)
<1>1. /\ Write \in Steps /\ Done \in Steps /\ Try({}) \in Steps
      /\ Work({"env"}, {"env"}, {}) \in Steps
      /\ Work({"env"}, {"env"}, {"env"}) \in Steps
      /\ Work({}, {"env"}, {"env"}) \in Steps
  BY StepTypes DEF Effects
<1>2. RehearsalUpgrade \in Seq(Steps)
  BY <1>1 DEF RehearsalUpgrade
<1>3. RehearsalReview \in Seq(Steps)
  BY <1>1 DEF RehearsalReview
<1>4. RehearsalRollback \in Seq(Steps)
  BY <1>1 DEF RehearsalRollback
<1>5. Closing(RehearsalVerdict)
  BY <1>1 DEF RehearsalVerdict, Closing
<1>6. Opening(LoadSite \o RehearsalUpgrade \o RehearsalReview \o RehearsalRollback)
  BY <1>2, <1>3, <1>4, LoadSiteOpens, ConcatOpening
<1> QED
  BY <1>5, <1>6, ConcatComplete DEF RehearsalProgram

\* Whatever its type, a job begins by writing "running", so no work precedes
\* that, and unless it returns early it ends in setResult.
THEOREM ProgramsComplete == \A q \in AllRequests : Complete(Programs[q])
<1> SUFFICES ASSUME NEW q \in AllRequests PROVE Complete(Program(q))
  BY DEF Programs
<1>1. q.type \in {"backup", "restore", "upgrade", "rehearsal"}
  BY DEF AllRequests, JobTypes
<1>2. CASE q.type = "backup"
  BY <1>2, BackupComplete DEF Program
<1>3. CASE q.type = "restore"
  BY <1>3, RestoreComplete DEF Program
<1>4. CASE q.type = "upgrade"
  BY <1>4, UpgradeComplete DEF Program
<1>5. CASE q.type = "rehearsal"
  BY <1>5, RehearsalComplete DEF Program
<1> QED
  BY <1>1, <1>2, <1>3, <1>4, <1>5

----------------------------------------------------------------------------
(* The invariants. *)

\* The worker is always at a step of its program.
InProgram == worker.pc \in 1..Len(Programs[worker.req])

TypeInv == TypeOK /\ InProgram

\* A server that is down has lost channel, worker and open requests.
DownIsEmpty ==
  server = "down" => /\ chan = <<>> /\ todo = {}
                     /\ worker = Idle /\ Posting = {}

\* A job that nobody has submitted has no row and is nowhere.
NewIsNowhere ==
  \A j \in Jobs : client[j] = "new" =>
    /\ rows[j].status = "absent" /\ starts[j] = 0
    /\ j \notin InChannel \cup todo \cup {worker.job}

Placement == NoDuplicateDelivery /\ DownIsEmpty /\ NewIsNowhere

\* The job waits to be begun by the worker.
Awaits(j) == \/ j \in InChannel \cup Posting \cup todo
             \/ worker.job = j /\ worker.pc = 1

\* A job that waits, or whose row says so, has been begun only by executions
\* each of which lost a status write.
Fresh ==
  \A j \in Jobs : rows[j].status = "queued" \/ Awaits(j) => starts[j] <= faults[j]

Freshness == Fresh /\ AtMostOnce

----------------------------------------------------------------------------
(* The channel. *)

LEMMA AppendToChannel ==
  ASSUME NEW c \in Seq(Tuple), NEW t \in Tuple
  PROVE  /\ Append(c, t) \in Seq(Tuple)
         /\ Len(Append(c, t)) = Len(c) + 1
         /\ JobsOf(Append(c, t)) = JobsOf(c) \cup {t.job}
         /\ Distinct(c) /\ t.job \notin JobsOf(c) => Distinct(Append(c, t))
<1>1. /\ Append(c, t) \in Seq(Tuple)
      /\ Len(Append(c, t)) = Len(c) + 1
      /\ \A i \in 1..Len(c) : Append(c, t)[i] = c[i]
      /\ Append(c, t)[Len(c) + 1] = t
      /\ Len(c) \in Nat
  BY AppendProperties, LenProperties
<1>2. 1..Len(Append(c, t)) = (1..Len(c)) \cup {Len(c) + 1}
  BY <1>1
<1>3. JobsOf(Append(c, t)) = JobsOf(c) \cup {t.job}
  BY <1>1, <1>2 DEF JobsOf
<1>4. ASSUME Distinct(c), t.job \notin JobsOf(c)
      PROVE  Distinct(Append(c, t))
  BY <1>1, <1>2, <1>4 DEF Distinct, JobsOf
<1> QED
  BY <1>1, <1>3, <1>4

LEMMA TakeFromChannel ==
  ASSUME NEW c \in Seq(Tuple), c # <<>>
  PROVE  /\ Head(c) \in Tuple /\ Tail(c) \in Seq(Tuple)
         /\ Len(Tail(c)) = Len(c) - 1
         /\ JobsOf(c) = JobsOf(Tail(c)) \cup {Head(c).job}
         /\ Distinct(c) => Distinct(Tail(c)) /\ Head(c).job \notin JobsOf(Tail(c))
<1>1. /\ Head(c) \in Tuple /\ Tail(c) \in Seq(Tuple)
      /\ Head(c) = c[1]
      /\ Len(c) \in Nat \ {0}
      /\ Len(Tail(c)) = Len(c) - 1
      /\ \A i \in 1..Len(Tail(c)) : Tail(c)[i] = c[i + 1]
  BY HeadTailProperties, EmptySeq, LenProperties
<1>2. \A i \in 1..Len(c) : i = 1 \/ (i - 1 \in 1..Len(Tail(c)) /\ Tail(c)[i - 1] = c[i])
  BY <1>1
<1>3. JobsOf(c) \subseteq JobsOf(Tail(c)) \cup {Head(c).job}
  BY <1>1, <1>2 DEF JobsOf
<1>4. JobsOf(Tail(c)) \cup {Head(c).job} \subseteq JobsOf(c)
  BY <1>1 DEF JobsOf
<1>5. ASSUME Distinct(c)
      PROVE  Distinct(Tail(c)) /\ Head(c).job \notin JobsOf(Tail(c))
  BY <1>1, <1>5 DEF Distinct, JobsOf
<1> QED
  BY <1>1, <1>3, <1>4, <1>5

LEMMA ChannelJobs ==
  ASSUME NEW c \in Seq(Tuple)
  PROVE  JobsOf(c) \subseteq Jobs
<1>1. \A i \in 1..Len(c) : c[i] \in Tuple
  BY ElementOfSeq
<1> QED
  BY <1>1 DEF JobsOf, Tuple

LEMMA EmptyChannel == JobsOf(<<>>) = {} /\ Distinct(<<>>) /\ <<>> \in Seq(Tuple)
BY DEF JobsOf, Distinct

----------------------------------------------------------------------------
(* Types. *)

LEMMA RequestTypes ==
  /\ NoRequest \in AllRequests
  /\ Idle \in Worker
  /\ \A q \in AllRequests : Stripped(q) \in AllRequests
<1>1. NoRequest \in AllRequests
  BY DEF NoRequest, AllRequests, JobTypes
<1>2. Idle \in Worker
  BY <1>1 DEF Idle, Worker
<1>3. \A q \in AllRequests : Stripped(q) \in AllRequests
  BY DEF AllRequests, Stripped
<1> QED
  BY <1>1, <1>2, <1>3

\* The current step is one, and the last of a program is the only way out.
LEMMA CurrentStep ==
  ASSUME TypeInv
  PROVE  /\ Current \in Steps
         /\ Current.op # "done" => worker.pc + 1 \in 1..Len(Programs[worker.req])
<1> DEFINE p == Programs[worker.req]
<1>1. worker.req \in AllRequests /\ worker.pc \in 1..Len(p)
  BY DEF TypeInv, TypeOK, Worker, InProgram
<1>2. p \in Seq(Steps) /\ p[Len(p)] = Done /\ Len(p) \in Nat
  BY <1>1, ProgramsComplete, LenProperties DEF Complete, Closing
<1>3. p[worker.pc] \in Steps
  BY <1>1, <1>2, ElementOfSeq
<1>4. p[worker.pc].op # "done" => worker.pc # Len(p)
  BY <1>2 DEF Done
<1> QED
  BY <1>1, <1>2, <1>3, <1>4 DEF Current

LEMMA AdvanceTypes ==
  ASSUME TypeInv, Current.op # "done", Advance
  PROVE  worker' \in Worker /\ InProgram'
<1>1. worker \in Worker /\ worker.pc \in Nat
  BY DEF TypeInv, TypeOK, Worker
<1>2. worker' = [worker EXCEPT !.pc = worker.pc + 1]
  BY DEF Advance
<1>3. worker' \in Worker /\ worker'.pc = worker.pc + 1 /\ worker'.req = worker.req
  BY <1>1, <1>2 DEF Worker
<1>4. worker.pc + 1 \in 1..Len(Programs[worker.req])
  BY CurrentStep
<1> QED
  BY <1>3, <1>4 DEF InProgram

LEMMA FirstStep ==
  \A q \in AllRequests : 1 \in 1..Len(Programs[q]) /\ Programs[q][1] = Write
BY ProgramsComplete, EmptySeq DEF Complete, Opening

LEMMA UpdateTypes ==
  ASSUME TypeOK, NEW j \in Jobs, NEW status \in Statuses,
         NEW result \in {"request", "empty", "report"},
         UpdateJobStatus(j, status, result)
  PROVE  rows' \in [Jobs -> Row] /\ faults' \in [Jobs -> Nat]
<1>1. rows \in [Jobs -> Row] /\ faults \in [Jobs -> Nat]
  BY DEF TypeOK
<1>2. [rows EXCEPT ![j].status = status, ![j].result = result] \in [Jobs -> Row]
  <2>1. [rows[j] EXCEPT !.status = status, !.result = result] \in Row
    BY <1>1 DEF Row
  <2>2. [rows EXCEPT ![j].status = status, ![j].result = result]
          = [rows EXCEPT ![j] = [rows[j] EXCEPT !.status = status, !.result = result]]
    BY <1>1 DEF Row
  <2> QED
    BY <1>1, <2>1, <2>2
<1>3. rows' \in [Jobs -> Row]
  BY <1>1, <1>2 DEF UpdateJobStatus
<1>4. faults' \in [Jobs -> Nat]
  BY <1>1 DEF UpdateJobStatus
<1> QED
  BY <1>3, <1>4

LEMMA RemoveTypes ==
  ASSUME TypeOK, NEW j \in Jobs, NEW what, NEW left \in SUBSET Effects, Remove(j, what, left)
  PROVE  fx' \in [Jobs -> SUBSET Effects] /\ stuck' \in [Jobs -> SUBSET Effects]
<1>1. PICK kept \in SUBSET (fx[j] \cap what) :
        /\ fx' = [fx EXCEPT ![j] = (@ \ (what \ kept)) \cup left]
        /\ stuck' = [stuck EXCEPT ![j] = @ \cup kept]
  BY DEF Remove
<1>2. fx[j] \subseteq Effects /\ kept \subseteq Effects
  BY DEF TypeOK
<1> QED
  BY <1>1, <1>2 DEF TypeOK

LEMMA TypeInit == Init => TypeInv
<1> SUFFICES ASSUME Init PROVE TypeInv
  OBVIOUS
<1>1. rows \in [Jobs -> Row]
  BY DEF Init, NoRow, Row, Statuses
<1>2. worker \in Worker /\ worker.req = NoRequest /\ worker.pc = 1
  BY RequestTypes DEF Init, Idle
<1>3. InProgram
  BY <1>2, RequestTypes, FirstStep DEF InProgram
<1>4. chan \in Seq(Tuple) /\ Len(chan) <= QueueSize
  BY EmptyChannel, BoundAssumption DEF Init
<1>5. request \in [Jobs -> AllRequests]
  BY RequestAssumption DEF Init
<1> QED
  BY <1>1, <1>2, <1>3, <1>4, <1>5 DEF Init, TypeInv, TypeOK

LEMMA TypeStep == TypeInv /\ [Next]_vars => TypeInv'
<1> SUFFICES ASSUME TypeInv, [Next]_vars PROVE TypeInv'
  OBVIOUS
<1> USE DEF TypeInv
<1> TypeOK /\ InProgram
  OBVIOUS
<1>1. ASSUME NEW j \in Jobs, CreateJob(j) PROVE TypeInv'
  <2>1. NewRow(clock + 1) \in Row
    BY DEF TypeOK, NewRow, Row, Statuses
  <2>2. InChannel \subseteq Jobs
    BY ChannelJobs DEF InChannel, TypeOK
  <2> QED
    BY <1>1, <2>1, <2>2 DEF CreateJob, TypeOK, InProgram
<1>2. ASSUME NEW j \in Jobs, CreateJobFails(j) PROVE TypeInv'
  BY <1>2 DEF CreateJobFails, TypeOK, InProgram
<1>3. ASSUME NEW j \in Jobs, SendJob(j) PROVE TypeInv'
  <2>1. [job |-> j, req |-> request[j]] \in Tuple
    BY DEF TypeOK, Tuple
  <2>2. chan' \in Seq(Tuple) /\ Len(chan') <= QueueSize
    BY <1>3, <2>1, AppendToChannel, BoundAssumption DEF SendJob, ChannelHasRoom, TypeOK
  <2> QED
    BY <1>3, <2>2 DEF SendJob, TypeOK, InProgram, observed
<1>4. ASSUME NEW j \in Jobs, QueueFull(j) PROVE TypeInv'
  BY <1>4 DEF QueueFull, TypeOK, InProgram
<1>5. ASSUME NEW j \in Jobs, CancelJob(j) PROVE TypeInv'
  <2>1. [rows EXCEPT ![j].status = "cancelled"] \in [Jobs -> Row]
    BY DEF TypeOK, Row, Statuses
  <2> QED
    BY <1>5, <2>1 DEF CancelJob, TypeOK, InProgram, observed
<1>6. ASSUME NEW j \in Jobs, DeleteJob(j) PROVE TypeInv'
  <2>1. NoRow \in Row
    BY DEF NoRow, Row, Statuses
  <2> QED
    BY <1>6, <2>1 DEF DeleteJob, TypeOK, InProgram, observed
<1>7. CASE Dequeue
  <2>1. Head(chan) \in Tuple /\ Tail(chan) \in Seq(Tuple) /\ Len(Tail(chan)) = Len(chan) - 1
    BY <1>7, TakeFromChannel DEF Dequeue, TypeOK
  <2>2. worker' \in Worker /\ worker'.pc = 1 /\ worker'.req \in AllRequests
    BY <1>7, <2>1, RequestTypes DEF Dequeue, Tuple, Worker, Idle
  <2>3. Len(Tail(chan)) <= QueueSize
    BY <2>1, LenProperties, BoundAssumption DEF TypeOK
  <2> QED
    BY <1>7, <2>1, <2>2, <2>3, FirstStep DEF Dequeue, TypeOK, InProgram, observed
<1>8. CASE WriteRunning
  <2>1. worker.job \in Jobs /\ Current.op # "done" /\ worker.pc \in Nat
    BY <1>8 DEF WriteRunning, At, Doing, TypeOK, Worker
  <2>2. rows' \in [Jobs -> Row] /\ faults' \in [Jobs -> Nat]
    BY <1>8, <2>1, UpdateTypes DEF WriteRunning, Statuses
  <2>3. worker' \in Worker /\ InProgram'
    BY <1>8, <2>1, AdvanceTypes DEF WriteRunning
  <2>4. starts' \in [Jobs -> Nat]
    BY <1>8, <2>1 DEF WriteRunning, TypeOK
  <2> QED
    BY <1>8, <2>2, <2>3, <2>4 DEF WriteRunning, TypeOK
<1>9. CASE ReportFile
  <2>1. worker.job \in Jobs
    BY <1>9 DEF ReportFile, At, Doing, TypeOK, Worker
  <2>2. rows' \in [Jobs -> Row] /\ faults' \in [Jobs -> Nat]
    BY <1>9, <2>1, UpdateTypes DEF ReportFile, Statuses
  <2> QED
    BY <1>9, <2>2 DEF ReportFile, TypeOK, InProgram
<1>10. CASE WorkSucceeds
  <2>1. worker.job \in Jobs /\ Current.op # "done" /\ worker.pc \in Nat
    BY <1>10 DEF WorkSucceeds, At, Doing, TypeOK, Worker
  <2>2. Current.adds \in SUBSET Effects
    BY CurrentStep DEF Steps
  <2>3. worker' \in Worker /\ InProgram'
    BY <1>10, <2>1, AdvanceTypes DEF WorkSucceeds
  <2>4. fx' \in [Jobs -> SUBSET Effects]
    BY <1>10, <2>1, <2>2 DEF WorkSucceeds, TypeOK
  <2> QED
    BY <1>10, <2>3, <2>4 DEF WorkSucceeds, TypeOK
<1>11. CASE WorkFails
  <2>1. worker.job \in Jobs
    BY <1>11 DEF WorkFails, Remove, At, Doing, TypeOK, Worker
  <2>2. Current.partial \in SUBSET Effects
    BY CurrentStep DEF Steps
  <2>3. worker' \in Worker /\ InProgram'
    BY <1>11 DEF WorkFails, TypeOK, Worker, InProgram
  <2>4. fx' \in [Jobs -> SUBSET Effects] /\ stuck' \in [Jobs -> SUBSET Effects]
    BY <1>11, <2>1, <2>2, RemoveTypes DEF WorkFails
  <2> QED
    BY <1>11, <2>3, <2>4 DEF WorkFails, TypeOK
<1>12. CASE SetError
  <2>1. worker.job \in Jobs
    BY <1>12 DEF SetError, TypeOK, Worker
  <2>2. rows' \in [Jobs -> Row] /\ faults' \in [Jobs -> Nat]
    BY <1>12, <2>1, UpdateTypes DEF SetError, Statuses
  <2>3. worker' \in Worker /\ InProgram'
    BY <1>12 DEF SetError, TypeOK, Worker, InProgram
  <2> QED
    BY <1>12, <2>2, <2>3 DEF SetError, TypeOK, Terminal
<1>13. CASE CheckPasses
  <2>1. worker.job \in Jobs /\ Current.op # "done" /\ worker.pc \in Nat
    BY <1>13 DEF CheckPasses, At, Doing, TypeOK, Worker
  <2>2. worker' \in Worker /\ InProgram'
    BY <1>13, <2>1, AdvanceTypes DEF CheckPasses
  <2>3. faults' \in [Jobs -> Nat]
    BY <1>13 DEF CheckPasses, TypeOK
  <2> QED
    BY <1>13, <2>2, <2>3 DEF CheckPasses, TypeOK
<1>14. CASE CheckCancels
  <2>1. worker.job \in Jobs
    BY <1>14 DEF CheckCancels, At, Doing, TypeOK, Worker
  <2>2. rows' \in [Jobs -> Row] /\ faults' \in [Jobs -> Nat]
    BY <1>14, <2>1, UpdateTypes DEF CheckCancels, Statuses
  <2>3. Current.undo \in SUBSET Effects
    BY CurrentStep DEF Steps
  <2>4. worker' \in Worker /\ InProgram'
    BY <1>14, <2>3 DEF CheckCancels, TypeOK, Worker, InProgram
  <2> QED
    BY <1>14, <2>2, <2>4 DEF CheckCancels, TypeOK, Terminal
<1>15. CASE SetResult
  <2>1. worker.job \in Jobs
    BY <1>15 DEF SetResult, At, Doing, TypeOK, Worker
  <2>2. rows' \in [Jobs -> Row] /\ faults' \in [Jobs -> Nat]
    BY <1>15, <2>1, UpdateTypes DEF SetResult, Statuses
  <2>3. worker' \in Worker /\ InProgram'
    BY <1>15 DEF SetResult, TypeOK, Worker, InProgram
  <2> QED
    BY <1>15, <2>2, <2>3 DEF SetResult, TypeOK, Terminal
<1>16. CASE Return
  <2>1. worker.job \in Jobs
    BY <1>16 DEF Return, Remove, TypeOK, Worker
  <2>2. fx' \in [Jobs -> SUBSET Effects] /\ stuck' \in [Jobs -> SUBSET Effects]
    BY <1>16, <2>1, RemoveTypes DEF Return
  <2>3. worker' \in Worker /\ worker'.pc = 1 /\ worker'.req \in AllRequests
    BY <1>16, RequestTypes DEF Return, Remove, Idle
  <2> QED
    BY <1>16, <2>1, <2>2, <2>3, FirstStep DEF Return, TypeOK, InProgram
<1>17. CASE Crash
  <2>1. worker' \in Worker /\ worker'.pc = 1 /\ worker'.req \in AllRequests
    BY <1>17, RequestTypes DEF Crash, Idle
  <2>2. chan' \in Seq(Tuple) /\ Len(chan') <= QueueSize
    BY <1>17, EmptyChannel, BoundAssumption DEF Crash
  <2>3. fx' \in [Jobs -> SUBSET Effects]
    <3>1. CutShort \subseteq SUBSET Effects
      BY CurrentStep DEF CutShort, Steps
    <3> QED
      BY <1>17, <3>1 DEF Crash, TypeOK
  <2>4. /\ client' \in [Jobs -> {"new", "posting", "accepted", "refused", "lost"}]
        /\ outcome' \in [Jobs -> {"none", "interrupted"} \cup Terminal]
    BY <1>17 DEF Crash, TypeOK
  <2>5. hung' \in BOOLEAN
    BY <1>17 DEF Crash
  <2>6. crashes' \in Nat
    <3>1. crashes' = crashes + 1
      BY <1>17 DEF Crash
    <3>2. crashes \in Nat
      BY DEF TypeOK
    <3> QED
      BY <3>1, <3>2
  <2>7. TypeOK'
    BY <1>17, <2>1, <2>2, <2>3, <2>4, <2>5, <2>6 DEF Crash, TypeOK
  <2>8. InProgram'
    BY <2>1, FirstStep DEF InProgram
  <2> QED
    BY <2>7, <2>8
<1>18. CASE StartWorker
  BY <1>18 DEF StartWorker, ListQueuedJobs, TypeOK, InProgram, observed
<1>19. CASE RecoveryFails
  BY <1>19 DEF RecoveryFails, TypeOK, InProgram
<1>20. ASSUME NEW j \in Jobs, RecoverJob(j) PROVE TypeInv'
  <2>1. [job |-> j, req |-> RecoveredRequest(j)] \in Tuple
    BY RequestTypes DEF RecoveredRequest, TypeOK, Tuple
  <2>2. chan' \in Seq(Tuple) /\ Len(chan') <= QueueSize
    BY <1>20, <2>1, AppendToChannel, BoundAssumption DEF RecoverJob, ChannelHasRoom, TypeOK
  <2> QED
    BY <1>20, <2>2 DEF RecoverJob, TypeOK, InProgram, observed
<1>21. CASE Serve
  BY <1>21 DEF Serve, TypeOK, InProgram, observed
<1>22. CASE Hang \/ UNCHANGED vars
  BY <1>22 DEF Hang, vars, system, observed, TypeOK, InProgram
<1> QED
  BY <1>1, <1>2, <1>3, <1>4, <1>5, <1>6, <1>7, <1>8, <1>9, <1>10, <1>11, <1>12,
     <1>13, <1>14, <1>15, <1>16, <1>17, <1>18, <1>19, <1>20, <1>21, <1>22
  DEF Next, Submit, Enqueue, Manage, ProcessJob, Restart, Recover

\* The channel, the worker, the table and the observations keep their types,
\* and the worker never leaves the program of its job.
THEOREM TypeCorrect == Spec => []TypeInv
BY TypeInit, TypeStep, PTL DEF Spec

THEOREM TypeSafe == Spec => []TypeOK
BY TypeCorrect, PTL DEF TypeInv

----------------------------------------------------------------------------
(* Placement. *)

LEMMA PlacementInit == Init => Placement
<1> SUFFICES ASSUME Init PROVE Placement
  OBVIOUS
<1>1. InChannel = {} /\ Distinct(chan) /\ Posting = {} /\ worker.job = NoJob
  BY EmptyChannel DEF Init, InChannel, Posting, Idle
<1>2. NoDuplicateDelivery /\ DownIsEmpty
  BY <1>1 DEF Init, NoDuplicateDelivery, DownIsEmpty
<1>3. \A j \in Jobs : rows[j].status = "absent" /\ starts[j] = 0
  BY DEF Init, NoRow
<1>4. NewIsNowhere
  BY <1>1, <1>3, JobAssumption DEF Init, NewIsNowhere
<1> QED
  BY <1>2, <1>4 DEF Placement

\* What keeps the six places of a job as they are keeps the placement, if it
\* writes neither the row nor the start of a job nobody has submitted.
LEMMA PlacementKept ==
  ASSUME TypeInv, Placement,
         UNCHANGED <<server, chan, todo, client>>, worker'.job = worker.job,
         server # "down",
         \A j \in Jobs : rows[j].status = "absent" => rows'[j].status = "absent",
         \A j \in Jobs : starts'[j] = starts[j] \/ j = worker.job
  PROVE  Placement'
BY DEF Placement, NoDuplicateDelivery, DownIsEmpty, NewIsNowhere, InChannel, Posting

\* A job in the worker's hands means a server that is up.
LEMMA BusyIsUp ==
  ASSUME Placement, worker.job # NoJob
  PROVE  server # "down"
BY DEF Placement, DownIsEmpty, Idle

\* The row of a deleted job stays deleted.
LEMMA UpdateKeepsAbsent ==
  ASSUME TypeInv, NEW j \in Jobs, NEW status, NEW result,
         UpdateJobStatus(j, status, result)
  PROVE  \A k \in Jobs : rows[k].status = "absent" => rows'[k].status = "absent"
BY DEF UpdateJobStatus, TypeInv, TypeOK

LEMMA PlacementStep == TypeInv /\ Placement /\ [Next]_vars => Placement'
<1> SUFFICES ASSUME TypeInv, Placement, [Next]_vars PROVE Placement'
  OBVIOUS
<1>0. /\ chan \in Seq(Tuple) /\ rows \in [Jobs -> Row]
      /\ client \in [Jobs -> {"new", "posting", "accepted", "refused", "lost"}]
      /\ request \in [Jobs -> AllRequests]
      /\ starts \in [Jobs -> Nat]
      /\ todo \subseteq Jobs /\ worker \in Worker /\ NoJob \notin Jobs
      /\ InChannel \subseteq Jobs
  BY ChannelJobs, JobAssumption DEF TypeInv, TypeOK, InChannel
<1>1. ASSUME NEW j \in Jobs, CreateJob(j) PROVE Placement'
  <2>1. /\ client[j] = "new" /\ server = "serving"
        /\ j \notin InChannel \cup todo \cup {worker.job}
        /\ UNCHANGED <<server, chan, todo, worker, starts>>
    BY <1>1 DEF CreateJob, Placement, NewIsNowhere
  <2>2. Posting' = Posting \cup {j} /\ InChannel' = InChannel
    BY <1>0, <1>1, <2>1 DEF CreateJob, Posting, InChannel
  <2>3. \A k \in Jobs : client'[k] = "new" =>
          client[k] = "new" /\ rows'[k] = rows[k]
    BY <1>0, <1>1 DEF CreateJob
  <2> QED
    BY <2>1, <2>2, <2>3
    DEF Placement, NoDuplicateDelivery, DownIsEmpty, NewIsNowhere
<1>2. ASSUME NEW j \in Jobs, CreateJobFails(j) PROVE Placement'
  <2>1. /\ UNCHANGED <<server, rows, chan, todo, worker, starts>> /\ server = "serving"
        /\ Posting' = Posting /\ InChannel' = InChannel
        /\ \A k \in Jobs : client'[k] = "new" => client[k] = "new"
    BY <1>0, <1>2 DEF CreateJobFails, Posting, InChannel
  <2> QED
    BY <2>1 DEF Placement, NoDuplicateDelivery, DownIsEmpty, NewIsNowhere
<1>3. ASSUME NEW j \in Jobs, SendJob(j) PROVE Placement'
  <2>1. [job |-> j, req |-> request[j]] \in Tuple
    BY <1>0 DEF Tuple
  <2>2. j \in Posting /\ j \notin InChannel \cup todo \cup {worker.job}
    BY <1>3 DEF SendJob, Posting, Placement, NoDuplicateDelivery
  <2>3. InChannel' = InChannel \cup {j} /\ Distinct(chan')
    BY <1>0, <1>3, <2>1, <2>2, AppendToChannel
    DEF SendJob, InChannel, Placement, NoDuplicateDelivery
  <2>4. /\ Posting' = Posting \ {j}
        /\ UNCHANGED <<server, rows, todo, worker, starts>>
        /\ \A k \in Jobs : client'[k] = "new" => client[k] = "new" /\ k # j
    BY <1>0, <1>3 DEF SendJob, Posting, observed
  <2>5. server # "down"
    BY <2>2 DEF Placement, DownIsEmpty
  <2> QED
    BY <2>2, <2>3, <2>4, <2>5
    DEF Placement, NoDuplicateDelivery, DownIsEmpty, NewIsNowhere
<1>4. ASSUME NEW j \in Jobs, QueueFull(j) PROVE Placement'
  <2>1. /\ UNCHANGED <<server, rows, chan, todo, worker, starts>>
        /\ Posting' = Posting \ {j} /\ InChannel' = InChannel /\ j \in Posting
        /\ \A k \in Jobs : client'[k] = "new" => client[k] = "new"
    BY <1>0, <1>4 DEF QueueFull, Posting, InChannel
  <2>2. server # "down"
    BY <2>1 DEF Placement, DownIsEmpty
  <2> QED
    BY <2>1, <2>2 DEF Placement, NoDuplicateDelivery, DownIsEmpty, NewIsNowhere
<1>5. ASSUME NEW j \in Jobs, CancelJob(j) \/ DeleteJob(j) PROVE Placement'
  <2>1. \A k \in Jobs : rows[k].status = "absent" => rows'[k].status = "absent"
    <3>1. CASE CancelJob(j)
      BY <1>0, <3>1 DEF CancelJob
    <3>2. CASE DeleteJob(j)
      BY <1>0, <3>2 DEF DeleteJob, NoRow
    <3> QED
      BY <1>5, <3>1, <3>2
  <2> QED
    BY <1>5, <2>1, PlacementKept DEF CancelJob, DeleteJob, observed
<1>6. CASE Dequeue
  <2>1. /\ Tail(chan) \in Seq(Tuple) /\ Head(chan) \in Tuple
        /\ JobsOf(chan) = JobsOf(Tail(chan)) \cup {Head(chan).job}
        /\ Distinct(Tail(chan)) /\ Head(chan).job \notin JobsOf(Tail(chan))
    BY <1>0, <1>6, TakeFromChannel DEF Dequeue, Placement, NoDuplicateDelivery
  <2>2. /\ worker'.job = Head(chan).job
        /\ InChannel = InChannel' \cup {worker'.job} /\ worker'.job \notin InChannel'
        /\ Distinct(chan') /\ Posting' = Posting /\ server # "down"
        /\ UNCHANGED <<server, rows, todo, client, starts>>
    BY <1>6, <2>1 DEF Dequeue, Idle, InChannel, Posting, WorkerUp, observed
  <2> QED
    BY <2>2 DEF Placement, NoDuplicateDelivery, DownIsEmpty, NewIsNowhere
<1>7. ASSUME worker.job # NoJob, UNCHANGED <<server, chan, todo, client>>,
             worker'.job = worker.job, UNCHANGED rows \/
             \E status, result : UpdateJobStatus(worker.job, status, result),
             \A k \in Jobs : starts'[k] = starts[k] \/ k = worker.job
      PROVE  Placement'
  <2>1. worker.job \in Jobs
    BY <1>0, <1>7 DEF Worker
  <2>2. \A k \in Jobs : rows[k].status = "absent" => rows'[k].status = "absent"
    <3>1. CASE UNCHANGED rows
      BY <3>1
    <3>2. CASE \E status, result : UpdateJobStatus(worker.job, status, result)
      <4>1. PICK status, result : UpdateJobStatus(worker.job, status, result)
        BY <3>2
      <4> QED
        BY <2>1, <4>1, UpdateKeepsAbsent
    <3> QED
      BY <1>7, <3>1, <3>2
  <2> QED
    BY <1>7, <2>2, BusyIsUp, PlacementKept
<1>8. CASE WriteRunning
  <2>1. \A k \in Jobs : starts'[k] = starts[k] \/ k = worker.job
    BY <1>0, <1>8 DEF WriteRunning
  <2> QED
    BY <1>0, <1>7, <1>8, <2>1 DEF WriteRunning, At, Doing, Advance, Worker
<1>9. CASE ReportFile \/ WorkSucceeds \/ WorkFails \/ SetError \/ CheckPasses
           \/ CheckCancels \/ SetResult
  BY <1>0, <1>7, <1>9
  DEF ReportFile, WorkSucceeds, WorkFails, Remove, SetError, CheckPasses, CheckCancels,
      SetResult, At, Doing, Advance, Worker
<1>10. CASE Return
  <2>1. /\ worker'.job = NoJob /\ InChannel' = InChannel /\ Posting' = Posting
        /\ UNCHANGED <<server, rows, chan, todo, client, starts>>
        /\ server # "down"
    BY <1>10, BusyIsUp DEF Return, Remove, Idle, InChannel, Posting
  <2>2. NoJob \notin InChannel \cup Posting \cup todo
    BY <1>0 DEF Posting
  <2> QED
    BY <1>0, <2>1, <2>2 DEF Placement, NoDuplicateDelivery, DownIsEmpty, NewIsNowhere
<1>11. CASE Crash
  <2>1. /\ chan' = <<>> /\ todo' = {} /\ worker' = Idle /\ worker'.job = NoJob
        /\ Posting' = {} /\ InChannel' = {} /\ Distinct(chan')
        /\ UNCHANGED <<rows, starts>>
        /\ \A k \in Jobs : client'[k] = "new" => client[k] = "new"
    BY <1>0, <1>11, EmptyChannel DEF Crash, Posting, InChannel, Idle
  <2> QED
    BY <1>0, <2>1 DEF Placement, NoDuplicateDelivery, DownIsEmpty, NewIsNowhere
<1>12. CASE StartWorker
  <2>1. /\ UNCHANGED <<chan, worker, client, rows, starts>> /\ worker.job = NoJob
        /\ InChannel' = {} /\ Posting' = {} /\ Distinct(chan')
        /\ server' = "recovering"
        /\ todo' = {k \in Jobs : rows[k].status = "queued"}
    BY <1>12, EmptyChannel
    DEF StartWorker, Placement, DownIsEmpty, InChannel, Posting, Idle,
        ListQueuedJobs, observed
  <2> QED
    BY <1>0, <2>1 DEF Placement, NoDuplicateDelivery, DownIsEmpty, NewIsNowhere
<1>13. CASE RecoveryFails \/ Serve
  BY <1>13 DEF RecoveryFails, Serve, observed, Placement, NoDuplicateDelivery,
               DownIsEmpty, NewIsNowhere, InChannel, Posting
<1>14. ASSUME NEW j \in Jobs, RecoverJob(j) PROVE Placement'
  <2>1. [job |-> j, req |-> RecoveredRequest(j)] \in Tuple
    BY <1>0, RequestTypes DEF RecoveredRequest, Tuple
  <2>2. j \in todo /\ j \notin InChannel \cup Posting \cup {worker.job}
    BY <1>14 DEF RecoverJob, Placement, NoDuplicateDelivery
  <2>3. InChannel' = InChannel \cup {j} /\ Distinct(chan')
    BY <1>0, <1>14, <2>1, <2>2, AppendToChannel
    DEF RecoverJob, InChannel, Placement, NoDuplicateDelivery
  <2>4. /\ todo' = todo \ {j} /\ server = "recovering" /\ Posting' = Posting
        /\ UNCHANGED <<server, rows, worker, client, starts>>
    BY <1>14 DEF RecoverJob, Posting, observed
  <2> QED
    BY <2>2, <2>3, <2>4 DEF Placement, NoDuplicateDelivery, DownIsEmpty, NewIsNowhere
<1>15. CASE Hang \/ UNCHANGED vars
  BY <1>15 DEF Hang, vars, system, observed, Placement, NoDuplicateDelivery,
               DownIsEmpty, NewIsNowhere, InChannel, Posting
<1> QED
  BY <1>1, <1>2, <1>3, <1>4, <1>5, <1>6, <1>8, <1>9, <1>10, <1>11, <1>12, <1>13,
     <1>14, <1>15
  DEF Next, Submit, Enqueue, Manage, ProcessJob, Restart, Recover

THEOREM PlacementCorrect == Spec => []Placement
BY TypeCorrect, PlacementInit, PlacementStep, PTL DEF Spec

\* A job is in one place at a time, so no recovery, send or dequeue can run a
\* backup or a restore a second time.
THEOREM DeliveredOnce == Spec => []NoDuplicateDelivery
BY PlacementCorrect, PTL DEF Placement

----------------------------------------------------------------------------
(* Freshness. *)

LEMMA FreshInit == Init => Freshness
<1> SUFFICES ASSUME Init PROVE Freshness
  OBVIOUS
<1>1. \A j \in Jobs : starts[j] = 0 /\ faults[j] = 0
  BY DEF Init
<1> QED
  BY <1>1 DEF Freshness, Fresh, AtMostOnce

\* A step that begins nothing and lets nothing wait that did not wait before.
LEMMA FreshKept ==
  ASSUME TypeInv, Freshness, starts' = starts, faults' \in [Jobs -> Nat],
         \A j \in Jobs : faults[j] <= faults'[j],
         \A j \in Jobs : rows'[j].status = "queued" => rows[j].status = "queued",
         \A j \in Jobs : Awaits(j)' => Awaits(j) \/ rows[j].status = "queued"
  PROVE  Freshness'
<1>1. \A j \in Jobs : starts[j] \in Nat /\ faults[j] \in Nat /\ faults'[j] \in Nat
  BY DEF TypeInv, TypeOK
<1>2. \A j \in Jobs : (rows'[j].status = "queued" \/ Awaits(j)') => starts'[j] <= faults'[j]
  BY <1>1 DEF Freshness, Fresh
<1>3. \A j \in Jobs : starts'[j] <= 1 + faults'[j]
  BY <1>1 DEF Freshness, AtMostOnce
<1> QED
  BY <1>2, <1>3 DEF Freshness, Fresh, AtMostOnce

\* A status write of the worker: what it does not lose takes the row out of
\* "queued".
LEMMA UpdateFresh ==
  ASSUME TypeInv, NEW j \in Jobs, NEW status \in Statuses \ {"queued"}, NEW result,
         UpdateJobStatus(j, status, result)
  PROVE  /\ \A k \in Jobs : rows'[k].status = "queued" => rows[k].status = "queued"
         /\ \A k \in Jobs : faults[k] <= faults'[k]
         /\ faults' \in [Jobs -> Nat]
         /\ rows'[j].status # "queued" \/ faults'[j] = faults[j] + 1
<1>1. rows \in [Jobs -> Row] /\ faults \in [Jobs -> Nat]
  BY DEF TypeInv, TypeOK
<1>2. CASE rows' = rows /\ faults' = [faults EXCEPT ![j] = @ + 1]
  BY <1>1, <1>2
<1>3. CASE /\ UNCHANGED faults
           /\ rows' = IF rows[j].status = "absent"
                        THEN rows
                        ELSE [rows EXCEPT ![j].status = status, ![j].result = result]
  <2>1. rows'[j].status # "queued" /\ \A k \in Jobs \ {j} : rows'[k] = rows[k]
    BY <1>1, <1>3 DEF Row
  <2> QED
    BY <1>1, <1>3, <2>1
<1> QED
  BY <1>2, <1>3 DEF UpdateJobStatus

\* Cancelling and deleting take rows out of "queued".
LEMMA ManageQueuesNothing ==
  ASSUME rows \in [Jobs -> Row], NEW j \in Jobs, CancelJob(j) \/ DeleteJob(j)
  PROVE  \A k \in Jobs : rows'[k].status = "queued" => rows[k].status = "queued"
<1>1. CASE CancelJob(j)
  <2>1. CASE rows[j].status = "absent"
    BY <1>1, <2>1 DEF CancelJob
  <2>2. CASE rows' = [rows EXCEPT ![j].status = "cancelled"]
    <3>1. rows'[j].status = "cancelled" /\ \A k \in Jobs \ {j} : rows'[k] = rows[k]
      BY <2>2 DEF Row
    <3> QED
      BY <3>1
  <2> QED
    BY <1>1, <2>1, <2>2 DEF CancelJob
<1>2. CASE DeleteJob(j)
  BY <1>2 DEF DeleteJob, NoRow
<1> QED
  BY <1>1, <1>2

LEMMA FreshStep == TypeInv /\ Placement /\ Freshness /\ [Next]_vars => Freshness'
<1> SUFFICES ASSUME TypeInv, Placement, Freshness, [Next]_vars PROVE Freshness'
  OBVIOUS
<1>0. /\ chan \in Seq(Tuple) /\ rows \in [Jobs -> Row]
      /\ client \in [Jobs -> {"new", "posting", "accepted", "refused", "lost"}]
      /\ request \in [Jobs -> AllRequests]
      /\ starts \in [Jobs -> Nat] /\ faults \in [Jobs -> Nat]
      /\ todo \subseteq Jobs /\ worker \in Worker /\ NoJob \notin Jobs
      /\ \A j \in Jobs : faults[j] <= faults[j]
  BY JobAssumption DEF TypeInv, TypeOK
<1>1. ASSUME NEW j \in Jobs, CreateJob(j) PROVE Freshness'
  <2>1. starts[j] = 0 /\ UNCHANGED <<chan, todo, worker, starts, faults>>
    BY <1>1 DEF CreateJob, Placement, NewIsNowhere
  <2>2. \A k \in Jobs \ {j} : rows'[k] = rows[k] /\ client'[k] = client[k]
    BY <1>0, <1>1 DEF CreateJob
  <2>3. \A k \in Jobs \ {j} : Awaits(k)' => Awaits(k)
    BY <2>1, <2>2 DEF Awaits, InChannel, Posting
  <2>4. Fresh'
    <3>1. starts'[j] <= faults'[j]
      BY <1>0, <2>1
    <3>2. ASSUME NEW k \in Jobs \ {j}, rows'[k].status = "queued" \/ Awaits(k)'
          PROVE  starts'[k] <= faults'[k]
      BY <2>1, <2>2, <2>3, <3>2 DEF Freshness, Fresh
    <3>3. \A k \in Jobs : k = j \/ k \in Jobs \ {j}
      OBVIOUS
    <3> QED
      BY <3>1, <3>2, <3>3 DEF Fresh
  <2>5. AtMostOnce'
    BY <2>1 DEF Freshness, AtMostOnce
  <2> QED
    BY <2>4, <2>5 DEF Freshness
<1>2. ASSUME NEW j \in Jobs, CreateJobFails(j) PROVE Freshness'
  <2>1. faults' \in [Jobs -> Nat] /\ \A k \in Jobs : faults[k] <= faults'[k]
    BY <1>0, <1>2 DEF CreateJobFails
  <2>2. \A k \in Jobs : Awaits(k)' => Awaits(k)
    BY <1>0, <1>2 DEF CreateJobFails, Awaits, InChannel, Posting
  <2> QED
    BY <1>2, <2>1, <2>2, FreshKept DEF CreateJobFails
<1>3. ASSUME NEW j \in Jobs, SendJob(j) PROVE Freshness'
  <2>1. [job |-> j, req |-> request[j]] \in Tuple
    BY <1>0 DEF Tuple
  <2>2. InChannel' = InChannel \cup {j} /\ j \in Posting
    BY <1>0, <1>3, <2>1, AppendToChannel DEF SendJob, InChannel, Posting
  <2>3. \A k \in Jobs : Awaits(k)' => Awaits(k)
    BY <1>0, <1>3, <2>2 DEF SendJob, Awaits, Posting
  <2> QED
    BY <1>0, <1>3, <2>3, FreshKept DEF SendJob, observed
<1>4. ASSUME NEW j \in Jobs, QueueFull(j) PROVE Freshness'
  <2>1. \A k \in Jobs : Awaits(k)' => Awaits(k)
    BY <1>0, <1>4 DEF QueueFull, Awaits, InChannel, Posting
  <2> QED
    BY <1>0, <1>4, <2>1, FreshKept DEF QueueFull
<1>5. ASSUME NEW j \in Jobs, CancelJob(j) \/ DeleteJob(j) PROVE Freshness'
  <2>1. \A k \in Jobs : rows'[k].status = "queued" => rows[k].status = "queued"
    BY <1>0, <1>5, ManageQueuesNothing
  <2>2. UNCHANGED <<chan, todo, worker, client, starts, faults>>
    BY <1>5 DEF CancelJob, DeleteJob, observed
  <2>3. \A k \in Jobs : Awaits(k)' => Awaits(k)
    BY <2>2 DEF Awaits, InChannel, Posting
  <2> QED
    BY <1>0, <2>1, <2>2, <2>3, FreshKept
<1>6. CASE Dequeue
  <2>1. JobsOf(chan) = JobsOf(Tail(chan)) \cup {Head(chan).job}
    BY <1>0, <1>6, TakeFromChannel DEF Dequeue
  <2>2. /\ worker'.job = Head(chan).job /\ chan' = Tail(chan)
        /\ UNCHANGED <<rows, todo, client, starts, faults>>
    BY <1>6 DEF Dequeue, Idle, observed
  <2>3. \A k \in Jobs : Awaits(k)' => Awaits(k)
    BY <2>1, <2>2 DEF Awaits, InChannel, Posting
  <2> QED
    BY <1>0, <2>2, <2>3, FreshKept
<1>7. CASE WriteRunning
  <2>0. PICK j \in Jobs : j = worker.job
    BY <1>0, <1>7 DEF WriteRunning, At, Doing, Worker
  <2>1. /\ j = worker.job /\ worker.pc \in Nat \ {0}
        /\ worker'.job = j /\ worker'.pc = worker.pc + 1
        /\ UpdateJobStatus(j, "running", "empty")
        /\ UNCHANGED <<chan, todo, client>>
    BY <1>0, <1>7, <2>0 DEF WriteRunning, At, Doing, Advance, Worker
  <2>2. /\ \A k \in Jobs : rows'[k].status = "queued" => rows[k].status = "queued"
        /\ \A k \in Jobs : faults[k] <= faults'[k]
        /\ faults' \in [Jobs -> Nat]
        /\ rows'[j].status # "queued" \/ faults'[j] = faults[j] + 1
    BY <2>1, UpdateFresh DEF Statuses
  <2>3. \A k \in Jobs : Awaits(k)' => Awaits(k) /\ k # j
    BY <2>1 DEF Awaits, InChannel, Posting, Placement, NoDuplicateDelivery
  <2>4. CASE worker.pc # 1
    BY <1>7, <2>2, <2>3, <2>4, FreshKept DEF WriteRunning
  <2>5. CASE worker.pc = 1
    <3>1. starts[j] <= faults[j]
      BY <2>1, <2>5 DEF Freshness, Fresh, Awaits
    <3>2. starts'[j] = starts[j] + 1 /\ \A k \in Jobs \ {j} : starts'[k] = starts[k]
      BY <1>0, <1>7, <2>1, <2>5 DEF WriteRunning
    <3>3. AtMostOnce'
      <4>1. starts[j] \in Nat /\ faults[j] \in Nat /\ faults'[j] \in Nat /\ faults[j] <= faults'[j]
        BY <1>0, <2>1, <2>2
      <4>2. starts'[j] <= 1 + faults'[j]
        BY <3>1, <3>2, <4>1
      <4>3. ASSUME NEW k \in Jobs \ {j} PROVE starts'[k] <= 1 + faults'[k]
        <5>1. starts[k] <= 1 + faults[k] /\ faults[k] <= faults'[k] /\ starts'[k] = starts[k]
          BY <2>2, <3>2 DEF Freshness, AtMostOnce
        <5>2. starts[k] \in Nat /\ faults[k] \in Nat /\ faults'[k] \in Nat
          BY <1>0, <2>2
        <5> QED
          BY <5>1, <5>2
      <4> QED
        BY <4>2, <4>3 DEF AtMostOnce
    <3>4. Fresh'
      <4>1. ASSUME rows'[j].status = "queued" PROVE starts'[j] <= faults'[j]
        BY <1>0, <2>1, <2>2, <3>1, <3>2, <4>1
      <4>2. ASSUME NEW k \in Jobs \ {j}, rows'[k].status = "queued" \/ Awaits(k)'
            PROVE  starts'[k] <= faults'[k]
        <5>1. starts[k] <= faults[k] /\ faults[k] <= faults'[k] /\ starts'[k] = starts[k]
          BY <2>2, <2>3, <3>2, <4>2 DEF Freshness, Fresh
        <5>2. starts[k] \in Nat /\ faults[k] \in Nat /\ faults'[k] \in Nat
          BY <1>0, <2>2
        <5> QED
          BY <5>1, <5>2
      <4>3. ~Awaits(j)'
        BY <2>1, <2>3
      <4>4. \A k \in Jobs : k = j \/ k \in Jobs \ {j}
        OBVIOUS
      <4> QED
        BY <4>1, <4>2, <4>3, <4>4 DEF Fresh
    <3> QED
      BY <3>3, <3>4 DEF Freshness
  <2> QED
    BY <2>4, <2>5
<1>8. ASSUME worker.job # NoJob,
             \E status \in Statuses \ {"queued"} : \E result :
               UpdateJobStatus(worker.job, status, result),
             UNCHANGED <<chan, todo, client, starts>>,
             worker'.job = worker.job, worker'.pc = worker.pc
      PROVE  Freshness'
  <2>1. worker.job \in Jobs
    BY <1>0, <1>8 DEF Worker
  <2>1a. PICK status \in Statuses \ {"queued"} :
           \E result : UpdateJobStatus(worker.job, status, result)
    BY <1>8
  <2>2. PICK result : UpdateJobStatus(worker.job, status, result)
    BY <2>1a
  <2>3. /\ \A k \in Jobs : rows'[k].status = "queued" => rows[k].status = "queued"
        /\ \A k \in Jobs : faults[k] <= faults'[k]
        /\ faults' \in [Jobs -> Nat]
    BY <2>1, <2>2, UpdateFresh
  <2>4. \A k \in Jobs : Awaits(k)' => Awaits(k)
    BY <1>8 DEF Awaits, InChannel, Posting
  <2> QED
    BY <1>8, <2>3, <2>4, FreshKept
<1>9. CASE ReportFile \/ SetError \/ CheckCancels \/ SetResult
  <2>1. {"running", "failed", "cancelled", "completed"} \subseteq Statuses \ {"queued"}
    BY DEF Statuses
  <2>2. CASE ReportFile
    BY <1>8, <2>1, <2>2 DEF ReportFile, At, Doing
  <2>3. CASE SetError
    BY <1>0, <1>8, <2>1, <2>3 DEF SetError, Worker
  <2>4. CASE CheckCancels
    BY <1>0, <1>8, <2>1, <2>4 DEF CheckCancels, At, Doing, Worker
  <2>5. CASE SetResult
    BY <1>0, <1>8, <2>1, <2>5 DEF SetResult, At, Doing, Worker
  <2> QED
    BY <1>9, <2>2, <2>3, <2>4, <2>5
<1>10. CASE WorkSucceeds \/ WorkFails \/ CheckPasses
  <2>1. /\ UNCHANGED <<rows, chan, todo, client, starts>>
        /\ worker'.job = worker.job
        /\ worker'.pc = worker.pc \/ worker'.pc = worker.pc + 1
        /\ worker.pc \in Nat \ {0}
    BY <1>0, <1>10 DEF WorkSucceeds, WorkFails, Remove, CheckPasses, Advance, Worker
  <2>2. faults' \in [Jobs -> Nat] /\ \A k \in Jobs : faults[k] <= faults'[k]
    BY <1>0, <1>10 DEF WorkSucceeds, WorkFails, Remove, CheckPasses
  <2>3. \A k \in Jobs : Awaits(k)' => Awaits(k)
    BY <2>1 DEF Awaits, InChannel, Posting
  <2> QED
    BY <2>1, <2>2, <2>3, FreshKept
<1>11. CASE Return
  <2>1. UNCHANGED <<rows, chan, todo, client, starts, faults>> /\ worker'.job = NoJob
    BY <1>11 DEF Return, Remove, Idle
  <2>2. \A k \in Jobs : Awaits(k)' => Awaits(k)
    BY <1>0, <2>1 DEF Awaits, InChannel, Posting
  <2> QED
    BY <1>0, <2>1, <2>2, FreshKept
<1>12. CASE Crash
  <2>1. \A k \in Jobs : ~Awaits(k)'
    BY <1>0, <1>12, EmptyChannel DEF Crash, Awaits, InChannel, Posting, Idle
  <2> QED
    BY <1>0, <1>12, <2>1, FreshKept DEF Crash
<1>13. CASE StartWorker
  <2>1. \A k \in Jobs : Awaits(k)' => Awaits(k) \/ rows[k].status = "queued"
    BY <1>13 DEF StartWorker, ListQueuedJobs, Awaits, InChannel, Posting
  <2> QED
    BY <1>0, <1>13, <2>1, FreshKept DEF StartWorker, observed
<1>14. CASE RecoveryFails \/ Serve
  <2>1. \A k \in Jobs : Awaits(k)' => Awaits(k)
    BY <1>14 DEF RecoveryFails, Serve, Awaits, InChannel, Posting
  <2> QED
    BY <1>0, <1>14, <2>1, FreshKept DEF RecoveryFails, Serve, observed
<1>15. ASSUME NEW j \in Jobs, RecoverJob(j) PROVE Freshness'
  <2>1. [job |-> j, req |-> RecoveredRequest(j)] \in Tuple
    BY <1>0, RequestTypes DEF RecoveredRequest, Tuple
  <2>2. InChannel' = InChannel \cup {j} /\ j \in todo
    BY <1>0, <1>15, <2>1, AppendToChannel DEF RecoverJob, InChannel
  <2>3. \A k \in Jobs : Awaits(k)' => Awaits(k)
    BY <1>15, <2>2 DEF RecoverJob, Awaits, Posting
  <2> QED
    BY <1>0, <1>15, <2>3, FreshKept DEF RecoverJob, observed
<1>16. CASE Hang \/ UNCHANGED vars
  <2>1. \A k \in Jobs : Awaits(k)' => Awaits(k)
    BY <1>16 DEF Hang, vars, system, Awaits, InChannel, Posting
  <2> QED
    BY <1>0, <1>16, <2>1, FreshKept DEF Hang, vars, system, observed
<1> QED
  BY <1>1, <1>2, <1>3, <1>4, <1>5, <1>6, <1>7, <1>9, <1>10, <1>11, <1>12, <1>13,
     <1>14, <1>15, <1>16
  DEF Next, Submit, Enqueue, Manage, ProcessJob, Restart, Recover

THEOREM FreshnessCorrect == Spec => []Freshness
BY TypeCorrect, PlacementCorrect, FreshInit, FreshStep, PTL DEF Spec

\* processJob begins a job at most once, but for one more time per status write
\* the database lost.
THEOREM BegunOnce == Spec => []AtMostOnce
BY FreshnessCorrect, PTL DEF Freshness

----------------------------------------------------------------------------
(* Queued rows are on their way. *)

\* Where a job is on its way, or known to be let go of.
Known(j) == j \in InChannel \cup Posting \cup todo \cup {worker.job} \cup stranded

LEMMA ReachableInit == Init => QueuedIsReachable
BY DEF Init, QueuedIsReachable

\* A step that queues no row and loses track of no job.
LEMMA ReachableKept ==
  ASSUME QueuedIsReachable, server # "down",
         \A j \in Jobs : rows'[j].status = "queued" => rows[j].status = "queued",
         \A j \in Jobs : rows[j].status = "queued" /\ Known(j) => Known(j)'
  PROVE  QueuedIsReachable'
BY DEF QueuedIsReachable, Known

LEMMA ReachableStep ==
  TypeInv /\ Placement /\ QueuedIsReachable /\ [Next]_vars => QueuedIsReachable'
<1> SUFFICES ASSUME TypeInv, Placement, QueuedIsReachable, [Next]_vars
             PROVE  QueuedIsReachable'
  OBVIOUS
<1>0. /\ chan \in Seq(Tuple) /\ rows \in [Jobs -> Row]
      /\ client \in [Jobs -> {"new", "posting", "accepted", "refused", "lost"}]
      /\ request \in [Jobs -> AllRequests]
      /\ todo \subseteq Jobs /\ worker \in Worker /\ NoJob \notin Jobs
  BY JobAssumption DEF TypeInv, TypeOK
<1>1. ASSUME NEW j \in Jobs, CreateJob(j) PROVE QueuedIsReachable'
  <2>1. /\ server = "serving" /\ UNCHANGED <<server, chan, todo, worker, stranded>>
        /\ Posting' = Posting \cup {j}
        /\ \A k \in Jobs \ {j} : rows'[k] = rows[k]
    BY <1>0, <1>1 DEF CreateJob, Posting
  <2> QED
    BY <2>1 DEF QueuedIsReachable, InChannel
<1>2. ASSUME NEW j \in Jobs, CreateJobFails(j) PROVE QueuedIsReachable'
  <2>1. /\ server = "serving" /\ UNCHANGED <<rows, chan, todo, worker, stranded>>
        /\ Posting' = Posting
    BY <1>0, <1>2 DEF CreateJobFails, Posting
  <2> QED
    BY <2>1, ReachableKept DEF Known, InChannel
<1>3. ASSUME NEW j \in Jobs, SendJob(j) PROVE QueuedIsReachable'
  <2>1. [job |-> j, req |-> request[j]] \in Tuple
    BY <1>0 DEF Tuple
  <2>2. /\ InChannel' = InChannel \cup {j} /\ Posting' = Posting \ {j} /\ j \in Posting
        /\ UNCHANGED <<rows, todo, worker, stranded>>
    BY <1>0, <1>3, <2>1, AppendToChannel DEF SendJob, InChannel, Posting, observed
  <2>3. server # "down"
    BY <2>2 DEF Placement, DownIsEmpty
  <2> QED
    BY <2>2, <2>3, ReachableKept DEF Known
<1>4. ASSUME NEW j \in Jobs, QueueFull(j) PROVE QueuedIsReachable'
  <2>1. /\ stranded' = stranded \cup {j} /\ Posting' = Posting \ {j} /\ j \in Posting
        /\ UNCHANGED <<rows, chan, todo, worker>>
    BY <1>0, <1>4 DEF QueueFull, Posting
  <2>2. server # "down"
    BY <2>1 DEF Placement, DownIsEmpty
  <2> QED
    BY <2>1, <2>2, ReachableKept DEF Known, InChannel
<1>5. ASSUME NEW j \in Jobs, CancelJob(j) \/ DeleteJob(j) PROVE QueuedIsReachable'
  <2>1. \A k \in Jobs : rows'[k].status = "queued" => rows[k].status = "queued"
    BY <1>0, <1>5, ManageQueuesNothing
  <2>2. UNCHANGED <<chan, todo, worker, client, stranded>> /\ server = "serving"
    BY <1>5 DEF CancelJob, DeleteJob, observed
  <2> QED
    BY <2>1, <2>2, ReachableKept DEF Known, InChannel, Posting
<1>6. CASE Dequeue
  <2>1. JobsOf(chan) = JobsOf(Tail(chan)) \cup {Head(chan).job}
    BY <1>0, <1>6, TakeFromChannel DEF Dequeue
  <2>2. /\ worker'.job = Head(chan).job /\ chan' = Tail(chan) /\ server # "down"
        /\ worker.job = NoJob
        /\ UNCHANGED <<rows, todo, client, stranded>>
    BY <1>6 DEF Dequeue, Idle, WorkerUp, observed
  <2>3. \A k \in Jobs : Known(k) => Known(k)'
    BY <1>0, <2>1, <2>2 DEF Known, InChannel, Posting
  <2> QED
    BY <2>2, <2>3, ReachableKept
<1>7. ASSUME worker.job # NoJob, UNCHANGED <<chan, todo, client, stranded>>,
             worker'.job = worker.job, UNCHANGED rows \/
             \E status \in Statuses \ {"queued"} : \E result :
               UpdateJobStatus(worker.job, status, result)
      PROVE  QueuedIsReachable'
  <2>1. worker.job \in Jobs
    BY <1>0, <1>7 DEF Worker
  <2>2. \A k \in Jobs : rows'[k].status = "queued" => rows[k].status = "queued"
    <3>1. CASE UNCHANGED rows
      BY <3>1
    <3>2. CASE \E status \in Statuses \ {"queued"} : \E result :
                 UpdateJobStatus(worker.job, status, result)
      <4>0. PICK status \in Statuses \ {"queued"} :
              \E result : UpdateJobStatus(worker.job, status, result)
        BY <3>2
      <4>1. PICK result : UpdateJobStatus(worker.job, status, result)
        BY <4>0
      <4> QED
        BY <2>1, <4>1, UpdateFresh
    <3> QED
      BY <1>7, <3>1, <3>2
  <2> QED
    BY <1>7, <2>2, BusyIsUp, ReachableKept DEF Known, InChannel, Posting
<1>8. {"running", "failed", "cancelled", "completed"} \subseteq Statuses \ {"queued"}
  BY DEF Statuses
<1>9. CASE WriteRunning \/ ReportFile
  BY <1>0, <1>7, <1>8, <1>9 DEF WriteRunning, ReportFile, At, Doing, Advance, Worker
<1>10. CASE SetError \/ CheckCancels \/ SetResult
  BY <1>0, <1>7, <1>8, <1>10 DEF SetError, CheckCancels, SetResult, At, Doing, Worker
<1>11. CASE WorkSucceeds \/ WorkFails \/ CheckPasses
  BY <1>0, <1>7, <1>11 DEF WorkSucceeds, WorkFails, Remove, CheckPasses, At, Doing, Advance, Worker
<1>12. CASE Return
  <2>1. /\ UNCHANGED <<rows, chan, todo, client>> /\ server # "down"
        /\ stranded' = IF rows[worker.job].status = "queued"
                         THEN stranded \cup {worker.job}
                         ELSE stranded
    BY <1>12, BusyIsUp DEF Return, Remove
  <2>2. \A k \in Jobs : rows[k].status = "queued" /\ Known(k) => Known(k)'
    BY <2>1 DEF Known, InChannel, Posting
  <2> QED
    BY <2>1, <2>2, ReachableKept
<1>13. CASE Crash
  BY <1>13 DEF Crash, QueuedIsReachable
<1>14. CASE StartWorker
  BY <1>14 DEF StartWorker, ListQueuedJobs, QueuedIsReachable, observed
<1>15. CASE RecoveryFails
  BY <1>15 DEF RecoveryFails, QueuedIsReachable
<1>16. ASSUME NEW j \in Jobs, RecoverJob(j) PROVE QueuedIsReachable'
  <2>1. [job |-> j, req |-> RecoveredRequest(j)] \in Tuple
    BY <1>0, RequestTypes DEF RecoveredRequest, Tuple
  <2>2. /\ InChannel' = InChannel \cup {j} /\ todo' = todo \ {j}
        /\ UNCHANGED <<rows, worker, client, stranded>> /\ server # "down"
    BY <1>0, <1>16, <2>1, AppendToChannel DEF RecoverJob, InChannel, observed
  <2> QED
    BY <2>2, ReachableKept DEF Known, Posting
<1>17. CASE Serve \/ Hang \/ UNCHANGED vars
  BY <1>17 DEF Serve, Hang, vars, system, observed, QueuedIsReachable, InChannel, Posting
<1> QED
  BY <1>1, <1>2, <1>3, <1>4, <1>5, <1>6, <1>9, <1>10, <1>11, <1>12, <1>13, <1>14,
     <1>15, <1>16, <1>17
  DEF Next, Submit, Enqueue, Manage, ProcessJob, Restart, Recover

\* While the server is up, no queued row is forgotten: it is on its way to the
\* worker unless the server is known to have let go of it.
THEOREM NoRowForgotten == Spec => []QueuedIsReachable
BY TypeCorrect, PlacementCorrect, ReachableInit, ReachableStep, PTL DEF Spec

----------------------------------------------------------------------------
(* The order of jobs. *)

\* A row that exists has a creation time, and the clock never falls behind it.
Dated(r, now) == r.created <= now /\ (r.created = 0 <=> r.status = "absent")
Timed == \A j \in Jobs : Dated(rows[j], clock)

\* The jobs ahead of a row were in the channel, past their handlers, when the
\* row was created: as long as both rows exist, theirs is the older one.
AheadIsOlder ==
  \A j \in Jobs : \A k \in ahead[j] :
    /\ client[k] \notin {"new", "posting"}
    /\ rows[j].created # 0 /\ rows[k].created # 0 => rows[k].created < rows[j].created

\* HTTP is served only after the recovery, which lists rows that exist.
RecoveryFirst ==
  /\ server # "recovering" => todo = {}
  /\ server # "serving" => Posting = {}
  /\ \A j \in todo : rows[j].status # "absent"

Ordering == Timed /\ AheadIsOlder /\ RecoveryFirst /\ NoOvertaking

\* The two conjuncts of NoOvertaking, of any channel c.
Apart(c, waiting, first) == \A j \in JobsOf(c) : first[j] \cap waiting = {}
Orderly(c, first) ==
  \A i \in 1..Len(c) : \A k \in (i + 1)..Len(c) : c[k].job \notin first[c[i].job]

LEMMA NoOvertakingParts ==
  NoOvertaking <=> Apart(chan, todo, ahead) /\ Orderly(chan, ahead)
BY DEF NoOvertaking, Apart, Orderly, JobsOf

LEMMA AppendOrderly ==
  ASSUME NEW c \in Seq(Tuple), NEW t \in Tuple, NEW first, Orderly(c, first),
         \A j \in JobsOf(c) : t.job \notin first[j]
  PROVE  Orderly(Append(c, t), first)
<1>1. /\ Len(Append(c, t)) = Len(c) + 1 /\ Len(c) \in Nat
      /\ \A i \in 1..Len(c) : Append(c, t)[i] = c[i]
      /\ Append(c, t)[Len(c) + 1] = t
  BY AppendProperties, LenProperties
<1> SUFFICES ASSUME NEW i \in 1..(Len(c) + 1), NEW k \in (i + 1)..(Len(c) + 1)
             PROVE  Append(c, t)[k].job \notin first[Append(c, t)[i].job]
  BY <1>1 DEF Orderly
<1>2. i \in 1..Len(c) /\ Append(c, t)[i] = c[i] /\ c[i].job \in JobsOf(c)
  BY <1>1 DEF JobsOf
<1>3. CASE k = Len(c) + 1
  BY <1>1, <1>2, <1>3
<1>4. CASE k # Len(c) + 1
  <2>1. k \in (i + 1)..Len(c) /\ k \in 1..Len(c)
    BY <1>1, <1>2, <1>4
  <2> QED
    BY <1>1, <1>2, <2>1 DEF Orderly
<1> QED
  BY <1>3, <1>4

LEMMA TailOrderly ==
  ASSUME NEW c \in Seq(Tuple), c # <<>>, NEW first, Orderly(c, first)
  PROVE  Orderly(Tail(c), first)
<1>1. /\ Len(c) \in Nat \ {0} /\ Len(Tail(c)) = Len(c) - 1
      /\ \A i \in 1..Len(Tail(c)) : Tail(c)[i] = c[i + 1]
  BY HeadTailProperties, EmptySeq, LenProperties
<1> SUFFICES ASSUME NEW i \in 1..(Len(c) - 1), NEW k \in (i + 1)..(Len(c) - 1)
             PROVE  Tail(c)[k].job \notin first[Tail(c)[i].job]
  BY <1>1 DEF Orderly
<1>2. i + 1 \in 1..Len(c) /\ k + 1 \in ((i + 1) + 1)..Len(c) /\ k \in 1..(Len(c) - 1)
  BY <1>1
<1> QED
  BY <1>1, <1>2 DEF Orderly

LEMMA OrderingInit == Init => Ordering
<1> SUFFICES ASSUME Init PROVE Ordering
  OBVIOUS
<1>1. \A j \in Jobs : rows[j] = NoRow /\ ahead[j] = {} /\ client[j] = "new"
  BY DEF Init
<1>2. Timed
  BY <1>1 DEF Init, Timed, Dated, NoRow
<1>3. AheadIsOlder /\ RecoveryFirst
  BY <1>1 DEF Init, AheadIsOlder, RecoveryFirst, Posting
<1>4. NoOvertaking
  BY <1>1, EmptyChannel DEF Init, NoOvertaking
<1> QED
  BY <1>2, <1>3, <1>4 DEF Ordering

\* The row r is as old as s, and exists if s does.
SameAge(r, s) == r.created = s.created /\ (r.status = "absent" <=> s.status = "absent")

\* A step that creates no row keeps the ages.
LEMMA AgesKept ==
  ASSUME TypeInv, Ordering, clock' = clock, ahead' = ahead,
         \A j \in Jobs : rows'[j] = NoRow \/ SameAge(rows'[j], rows[j]),
         \A j \in Jobs : client[j] \notin {"new", "posting"} =>
                        client'[j] \notin {"new", "posting"}
  PROVE  Timed' /\ AheadIsOlder'
<1>1. clock \in Nat /\ ahead \in [Jobs -> SUBSET Jobs]
  BY DEF TypeInv, TypeOK
<1>2. Dated(NoRow, clock)
  BY <1>1 DEF Dated, NoRow
<1>3. Timed'
  BY <1>2 DEF Ordering, Timed, Dated, SameAge
<1>4. ASSUME NEW j \in Jobs, NEW k \in ahead[j]
      PROVE  /\ client'[k] \notin {"new", "posting"}
             /\ rows'[j].created # 0 /\ rows'[k].created # 0 =>
                  rows'[k].created < rows'[j].created
  BY <1>1 DEF Ordering, AheadIsOlder, SameAge, NoRow
<1> QED
  BY <1>3, <1>4 DEF AheadIsOlder

\* UPDATE changes neither created_at nor whether a row exists.
LEMMA UpdateKeepsAge ==
  ASSUME TypeInv, NEW j \in Jobs, NEW status \in Statuses \ {"absent"}, NEW result,
         UpdateJobStatus(j, status, result)
  PROVE  \A k \in Jobs : SameAge(rows'[k], rows[k])
<1>1. rows \in [Jobs -> Row]
  BY DEF TypeInv, TypeOK
<1>2. CASE UNCHANGED rows
  BY <1>2 DEF SameAge
<1>3. CASE rows[j].status # "absent" /\
           rows' = [rows EXCEPT ![j].status = status, ![j].result = result]
  <2>1. rows'[j].created = rows[j].created /\ rows'[j].status = status
    BY <1>1, <1>3 DEF Row
  <2>2. \A k \in Jobs \ {j} : rows'[k] = rows[k]
    BY <1>1, <1>3
  <2> QED
    BY <1>3, <2>1, <2>2 DEF SameAge
<1> QED
  BY <1>2, <1>3 DEF UpdateJobStatus

\* What leaves channel, recovery and clients alone keeps the order, if it
\* writes rows only as UPDATE does.
LEMMA OrderingKept ==
  ASSUME TypeInv, Ordering, UNCHANGED <<server, chan, todo, client, clock, ahead>>,
         \A j \in Jobs : SameAge(rows'[j], rows[j])
  PROVE  Ordering'
<1>1. Timed' /\ AheadIsOlder'
  BY AgesKept
<1>2. todo \subseteq Jobs
  BY DEF TypeInv, TypeOK
<1>3. RecoveryFirst' /\ NoOvertaking'
  BY <1>2 DEF Ordering, RecoveryFirst, NoOvertaking, Posting, SameAge
<1> QED
  BY <1>1, <1>3 DEF Ordering

LEMMA OrderingStep == TypeInv /\ Placement /\ Ordering /\ [Next]_vars => Ordering'
<1> SUFFICES ASSUME TypeInv, Placement, Ordering, [Next]_vars PROVE Ordering'
  OBVIOUS
<1>0. /\ chan \in Seq(Tuple) /\ rows \in [Jobs -> Row] /\ clock \in Nat
      /\ client \in [Jobs -> {"new", "posting", "accepted", "refused", "lost"}]
      /\ request \in [Jobs -> AllRequests] /\ ahead \in [Jobs -> SUBSET Jobs]
      /\ todo \subseteq Jobs /\ worker \in Worker /\ InChannel \subseteq Jobs
  BY ChannelJobs DEF TypeInv, TypeOK, InChannel
<1>p. Apart(chan, todo, ahead) /\ Orderly(chan, ahead)
  BY NoOvertakingParts DEF Ordering
<1>1. ASSUME NEW j \in Jobs, CreateJob(j) PROVE Ordering'
  <2>1. /\ server = "serving" /\ client[j] = "new" /\ j \notin InChannel
        /\ clock' = clock + 1 /\ UNCHANGED <<server, chan, todo>> /\ todo = {}
    BY <1>1 DEF CreateJob, Placement, NewIsNowhere, Ordering, RecoveryFirst
  <2>2. /\ rows'[j] = NewRow(clock + 1) /\ client'[j] = "posting" /\ ahead'[j] = InChannel
        /\ \A k \in Jobs \ {j} : /\ rows'[k] = rows[k] /\ client'[k] = client[k]
                                 /\ ahead'[k] = ahead[k]
    BY <1>0, <1>1 DEF CreateJob
  <2>3. Timed'
    <3>1. Dated(rows'[j], clock')
      BY <1>0, <2>1, <2>2 DEF NewRow, Dated
    <3>2. ASSUME NEW k \in Jobs \ {j} PROVE Dated(rows'[k], clock')
      <4>1. Dated(rows[k], clock) /\ rows[k].created \in Nat /\ rows'[k] = rows[k]
        BY <1>0, <2>2 DEF Ordering, Timed, Row
      <4> QED
        BY <1>0, <2>1, <4>1 DEF Dated
    <3> QED
      BY <3>1, <3>2 DEF Timed
  <2>4. AheadIsOlder'
    <3>1. ASSUME NEW k \in InChannel
          PROVE  /\ client'[k] \notin {"new", "posting"}
                 /\ rows'[k].created < clock + 1
      <4>1. k \in Jobs \ {j} /\ rows'[k] = rows[k] /\ client'[k] = client[k]
        BY <1>0, <2>1, <2>2
      <4>2. client[k] \notin {"new", "posting"}
        BY <4>1 DEF Placement, NewIsNowhere, NoDuplicateDelivery, Posting
      <4>3. rows[k].created \in Nat /\ rows[k].created <= clock
        BY <1>0, <4>1 DEF Ordering, Timed, Dated, Row
      <4> QED
        BY <1>0, <4>1, <4>2, <4>3
    <3>2. ASSUME NEW i \in Jobs \ {j}, NEW k \in ahead[i]
          PROVE  /\ client'[k] \notin {"new", "posting"}
                 /\ rows'[i].created # 0 /\ rows'[k].created # 0 =>
                      rows'[k].created < rows'[i].created
      <4>1. k \in Jobs \ {j}
        BY <1>0, <2>1 DEF Ordering, AheadIsOlder
      <4> QED
        BY <2>2, <4>1 DEF Ordering, AheadIsOlder
    <3> QED
      BY <2>2, <3>1, <3>2 DEF AheadIsOlder, NewRow
  <2>5. RecoveryFirst'
    BY <2>1 DEF RecoveryFirst
  <2>6. NoOvertaking'
    <3>1. \A i \in 1..Len(chan) : ahead'[chan[i].job] = ahead[chan[i].job]
      BY <1>0, <2>1, <2>2 DEF InChannel, JobsOf
    <3> QED
      BY <2>1, <3>1 DEF Ordering, NoOvertaking
  <2> QED
    BY <2>3, <2>4, <2>5, <2>6 DEF Ordering
<1>2. ASSUME NEW j \in Jobs, CreateJobFails(j) \/ QueueFull(j) PROVE Ordering'
  <2>1. /\ UNCHANGED <<server, rows, chan, todo, clock, ahead>>
        /\ client' = [client EXCEPT ![j] = "refused"]
    BY <1>2 DEF CreateJobFails, QueueFull
  <2>2. Timed' /\ AheadIsOlder'
    BY <1>0, <2>1, AgesKept DEF SameAge
  <2>3. RecoveryFirst' /\ NoOvertaking'
    BY <1>0, <2>1 DEF Ordering, RecoveryFirst, NoOvertaking, Posting
  <2> QED
    BY <2>2, <2>3 DEF Ordering
<1>3. ASSUME NEW j \in Jobs, SendJob(j) PROVE Ordering'
  <2>1. /\ UNCHANGED <<server, rows, todo, clock, ahead>> /\ client[j] = "posting"
        /\ chan' = Append(chan, [job |-> j, req |-> request[j]])
        /\ client' = [client EXCEPT ![j] = "accepted"]
    BY <1>3 DEF SendJob, observed
  <2>2. server = "serving" /\ todo = {}
    BY <2>1 DEF Ordering, RecoveryFirst, Posting
  <2>3. Timed' /\ AheadIsOlder'
    BY <1>0, <2>1, AgesKept DEF SameAge
  <2>4. RecoveryFirst'
    BY <2>1, <2>2 DEF RecoveryFirst
  <2>5. \A i \in JobsOf(chan) : j \notin ahead[i]
    BY <1>0, <2>1 DEF Ordering, AheadIsOlder, InChannel
  <2>6. [job |-> j, req |-> request[j]] \in Tuple
    BY <1>0 DEF Tuple
  <2>7. Orderly(chan', ahead')
    BY <1>0, <1>p, <2>1, <2>5, <2>6, AppendOrderly
  <2>8. Apart(chan', todo', ahead')
    BY <2>1, <2>2 DEF Apart
  <2> QED
    BY <2>3, <2>4, <2>7, <2>8, NoOvertakingParts DEF Ordering, NoOvertaking, Apart, Orderly, JobsOf
<1>4. ASSUME NEW j \in Jobs, CancelJob(j) PROVE Ordering'
  <2>1. \A k \in Jobs : SameAge(rows'[k], rows[k])
    <3>1. CASE rows[j].status = "absent"
      BY <1>4, <3>1 DEF CancelJob, SameAge
    <3>2. CASE rows[j].status # "absent" /\ rows' = [rows EXCEPT ![j].status = "cancelled"]
      <4>1. rows'[j].created = rows[j].created /\ rows'[j].status = "cancelled"
        BY <1>0, <3>2 DEF Row
      <4>2. \A k \in Jobs \ {j} : rows'[k] = rows[k]
        BY <1>0, <3>2
      <4> QED
        BY <3>2, <4>1, <4>2 DEF SameAge
    <3> QED
      BY <1>4, <3>1, <3>2 DEF CancelJob
  <2> QED
    BY <1>4, <2>1, OrderingKept DEF CancelJob, observed
<1>5. ASSUME NEW j \in Jobs, DeleteJob(j) PROVE Ordering'
  <2>1. /\ rows'[j] = NoRow /\ \A k \in Jobs \ {j} : rows'[k] = rows[k]
        /\ UNCHANGED <<server, chan, todo, client, clock, ahead>> /\ todo = {}
    BY <1>0, <1>5 DEF DeleteJob, observed, Ordering, RecoveryFirst
  <2>2. Timed' /\ AheadIsOlder'
    BY <2>1, AgesKept DEF SameAge
  <2>3. RecoveryFirst' /\ NoOvertaking'
    BY <2>1 DEF Ordering, RecoveryFirst, NoOvertaking, Posting
  <2> QED
    BY <2>2, <2>3 DEF Ordering
<1>6. CASE Dequeue
  <2>1. /\ chan # <<>> /\ chan' = Tail(chan)
        /\ UNCHANGED <<server, rows, todo, clock, client, ahead>>
    BY <1>6 DEF Dequeue, observed
  <2>2. Timed' /\ AheadIsOlder' /\ RecoveryFirst'
    BY <2>1 DEF Ordering, Timed, AheadIsOlder, RecoveryFirst, Posting
  <2>3. JobsOf(Tail(chan)) \subseteq JobsOf(chan)
    BY <1>0, <2>1, TakeFromChannel
  <2>4. Apart(chan', todo', ahead')
    BY <1>p, <2>1, <2>3 DEF Apart
  <2>5. Orderly(chan', ahead')
    BY <1>0, <1>p, <2>1, TailOrderly
  <2> QED
    BY <2>2, <2>4, <2>5 DEF Ordering, NoOvertaking, Apart, Orderly, JobsOf
<1>7. {"running", "failed", "cancelled", "completed"} \subseteq Statuses \ {"absent"}
  BY DEF Statuses
<1>8. ASSUME NEW status \in Statuses \ {"absent"}, NEW result, worker.job # NoJob,
             UpdateJobStatus(worker.job, status, result),
             UNCHANGED <<server, chan, todo, client, clock, ahead>>
      PROVE  Ordering'
  <2>1. worker.job \in Jobs
    BY <1>0, <1>8 DEF Worker
  <2>2. \A k \in Jobs : SameAge(rows'[k], rows[k])
    BY <1>8, <2>1, UpdateKeepsAge
  <2> QED
    BY <1>8, <2>2, OrderingKept
<1>9. CASE WriteRunning \/ ReportFile
  BY <1>7, <1>8, <1>9 DEF WriteRunning, ReportFile, At, Doing
<1>10. CASE SetError \/ CheckCancels \/ SetResult
  BY <1>7, <1>8, <1>10 DEF SetError, CheckCancels, SetResult, At, Doing
<1>11. CASE WorkSucceeds \/ WorkFails \/ CheckPasses \/ Return
  BY <1>11, OrderingKept DEF SameAge, WorkSucceeds, WorkFails, Remove, CheckPasses, Return
<1>12. CASE Crash
  <2>1. /\ chan' = <<>> /\ todo' = {} /\ UNCHANGED <<rows, clock, ahead>>
        /\ \A j \in Jobs : client'[j] = IF client[j] = "posting" THEN "lost" ELSE client[j]
    BY <1>12 DEF Crash
  <2>2. Timed' /\ AheadIsOlder'
    BY <1>0, <2>1, AgesKept DEF SameAge
  <2>3. Posting' = {}
    BY <2>1 DEF Posting
  <2>4. RecoveryFirst' /\ NoOvertaking'
    BY <2>1, <2>3, EmptyChannel DEF RecoveryFirst, NoOvertaking
  <2> QED
    BY <2>2, <2>4 DEF Ordering
<1>13. CASE StartWorker
  <2>1. /\ chan = <<>> /\ Posting = {} /\ server' = "recovering"
        /\ UNCHANGED <<rows, clock, chan, client, ahead>>
        /\ \A j \in todo' : rows[j].status # "absent"
    BY <1>13 DEF StartWorker, ListQueuedJobs, Placement, DownIsEmpty, observed
  <2>2. Timed' /\ AheadIsOlder'
    BY <2>1 DEF Ordering, Timed, AheadIsOlder
  <2>3. RecoveryFirst' /\ NoOvertaking'
    BY <2>1, EmptyChannel DEF RecoveryFirst, NoOvertaking, Posting
  <2> QED
    BY <2>2, <2>3 DEF Ordering
<1>14. CASE RecoveryFails
  <2>1. /\ server = "down" /\ server' = "recovering"
        /\ UNCHANGED <<rows, clock, chan, todo, client, ahead>>
    BY <1>14 DEF RecoveryFails
  <2> QED
    BY <2>1 DEF Ordering, Timed, AheadIsOlder, RecoveryFirst, NoOvertaking, Posting
<1>15. ASSUME NEW j \in Jobs, RecoverJob(j) PROVE Ordering'
  <2>1. /\ j \in todo /\ server = "recovering" /\ todo' = todo \ {j}
        /\ chan' = Append(chan, [job |-> j, req |-> RecoveredRequest(j)])
        /\ \A k \in todo : rows[j].created <= rows[k].created
        /\ UNCHANGED <<server, rows, clock, client, ahead>>
    BY <1>15 DEF RecoverJob, NextRecovered, observed
  <2>2. Timed' /\ AheadIsOlder' /\ RecoveryFirst'
    BY <2>1 DEF Ordering, Timed, AheadIsOlder, RecoveryFirst, Posting
  <2>3. [job |-> j, req |-> RecoveredRequest(j)] \in Tuple
    BY <1>0, RequestTypes DEF RecoveredRequest, Tuple
  <2>4. JobsOf(chan') = JobsOf(chan) \cup {j}
    BY <1>0, <2>1, <2>3, AppendToChannel
  <2>5. \A i \in JobsOf(chan) : j \notin ahead[i]
    BY <1>p, <2>1 DEF Apart
  <2>6. Orderly(chan', ahead')
    BY <1>0, <1>p, <2>1, <2>3, <2>5, AppendOrderly
  <2>7. ahead[j] \cap todo = {}
    <3>1. SUFFICES ASSUME NEW k \in ahead[j], k \in todo PROVE FALSE
      OBVIOUS
    <3>2. rows[j].created # 0 /\ rows[k].created # 0
      BY <1>0, <2>1, <3>1 DEF Ordering, RecoveryFirst, Timed, Dated
    <3>3. rows[k].created < rows[j].created
      BY <3>1, <3>2 DEF Ordering, AheadIsOlder
    <3>4. rows[j].created \in Nat /\ rows[k].created \in Nat
      BY <1>0, <3>1 DEF Row
    <3> QED
      BY <2>1, <3>1, <3>3, <3>4
  <2>8. Apart(chan', todo', ahead')
    BY <1>p, <2>1, <2>4, <2>7 DEF Apart
  <2> QED
    BY <2>2, <2>6, <2>8 DEF Ordering, NoOvertaking, Apart, Orderly, JobsOf
<1>16. CASE Serve \/ Hang \/ UNCHANGED vars
  BY <1>16 DEF Serve, Hang, vars, system, observed, Ordering, Timed, AheadIsOlder,
               RecoveryFirst, NoOvertaking, Posting
<1> QED
  BY <1>1, <1>2, <1>3, <1>4, <1>5, <1>6, <1>9, <1>10, <1>11, <1>12, <1>13, <1>14,
     <1>15, <1>16
  DEF Next, Submit, Enqueue, Manage, ProcessJob, Restart, Recover

THEOREM OrderingCorrect == Spec => []Ordering
BY TypeCorrect, PlacementCorrect, OrderingInit, OrderingStep, PTL DEF Spec

\* No job is overtaken, neither in the channel nor by a restart, by one whose
\* row was created when it was already in the channel.
THEOREM NeverOvertaken == Spec => []NoOvertaking
BY OrderingCorrect, PTL DEF Ordering

----------------------------------------------------------------------------
(* The ledger: every step of handlers, worker, crash and recovery is one   *)
(* step of JobLedger, or none.                                             *)

\* Lost calls are bounded, and a job past its first step has been begun.
Accounts ==
  /\ \A j \in Jobs : faults[j] <= MaxFaults
  /\ worker.pc > 1 => worker.job \in Jobs /\ starts[worker.job] > 0

LEMMA AccountsInit == Init => Accounts
BY BoundAssumption DEF Init, Accounts, Idle

\* The worker's first step is a status write.
LEMMA FirstIsWrite == ASSUME TypeInv, worker.pc = 1 PROVE Current.op = "write"
BY FirstStep DEF TypeInv, TypeOK, Worker, Current, Write

LEMMA AccountsStep == TypeInv /\ Accounts /\ [Next]_vars => Accounts'
<1> SUFFICES ASSUME TypeInv, Accounts, [Next]_vars PROVE Accounts'
  OBVIOUS
<1>0. /\ starts \in [Jobs -> Nat] /\ faults \in [Jobs -> Nat]
      /\ worker \in Worker /\ MaxFaults \in Nat
  BY BoundAssumption DEF TypeInv, TypeOK
<1>1. \A j \in Jobs : faults'[j] <= MaxFaults
  <2>1. ASSUME UNCHANGED faults \/
               \E j \in Jobs : faults[j] < MaxFaults /\ faults' = [faults EXCEPT ![j] = @ + 1]
        PROVE  \A j \in Jobs : faults'[j] <= MaxFaults
    BY <1>0, <2>1 DEF Accounts
  <2>2. ASSUME NEW status, NEW result, UpdateJobStatus(worker.job, status, result),
               worker.job \in Jobs
        PROVE  \A j \in Jobs : faults'[j] <= MaxFaults
    BY <2>1, <2>2 DEF UpdateJobStatus
  <2>3. CASE WriteRunning \/ ReportFile \/ SetError \/ CheckCancels \/ SetResult
    BY <1>0, <2>2, <2>3
    DEF WriteRunning, ReportFile, SetError, CheckCancels, SetResult, At, Doing, Worker
  <2>4. CASE CheckPasses
    BY <1>0, <2>1, <2>4 DEF CheckPasses, At, Doing, Worker
  <2>5. CASE \E j \in Jobs : CreateJobFails(j)
    BY <2>1, <2>5 DEF CreateJobFails
  <2>6. CASE \E j \in Jobs : CreateJob(j) \/ Enqueue(j) \/ Manage(j)
    BY <2>1, <2>6 DEF CreateJob, Enqueue, SendJob, QueueFull, Manage, CancelJob,
                      DeleteJob, observed
  <2>7. CASE Dequeue \/ WorkSucceeds \/ WorkFails \/ Return \/ Crash \/ Restart
             \/ Recover \/ Serve \/ Hang \/ UNCHANGED vars
    BY <2>1, <2>7 DEF Dequeue, WorkSucceeds, WorkFails, Remove, Return, Crash, Restart,
       StartWorker, RecoveryFails, Recover, RecoverJob, Serve, Hang, vars, observed
  <2> QED
    BY <2>3, <2>4, <2>5, <2>6, <2>7 DEF Next, Submit, ProcessJob
<1>2. worker'.pc > 1 => worker'.job \in Jobs /\ starts'[worker'.job] > 0
  <2>1. ASSUME worker' = worker \/ (worker'.pc = worker.pc /\ worker'.job = worker.job),
               starts' = starts
        PROVE  worker'.pc > 1 => worker'.job \in Jobs /\ starts'[worker'.job] > 0
    BY <2>1 DEF Accounts
  <2>2. ASSUME worker'.pc = 1
        PROVE  worker'.pc > 1 => worker'.job \in Jobs /\ starts'[worker'.job] > 0
    BY <2>2
  <2>3. CASE WriteRunning
    <3>1. PICK j \in Jobs : j = worker.job /\ worker'.job = j
      BY <1>0, <2>3 DEF WriteRunning, At, Doing, Advance, Worker
    <3>2. CASE worker.pc = 1
      BY <1>0, <2>3, <3>1, <3>2 DEF WriteRunning
    <3>3. CASE worker.pc # 1
      <4>1. worker.pc > 1
        BY <1>0, <3>3 DEF Worker
      <4> QED
        BY <2>3, <3>1, <3>3, <4>1 DEF WriteRunning, Accounts
    <3> QED
      BY <3>2, <3>3
  <2>4. CASE WorkSucceeds \/ CheckPasses
    <3>1. worker.pc > 1
      BY <1>0, <2>4, FirstIsWrite DEF WorkSucceeds, CheckPasses, At, Doing, Worker
    <3> QED
      BY <1>0, <2>4, <3>1 DEF WorkSucceeds, CheckPasses, Advance, Accounts, Worker
  <2>5. CASE WorkFails \/ SetError \/ CheckCancels \/ SetResult \/ ReportFile
    <3>1. worker'.pc = worker.pc /\ worker'.job = worker.job
      BY <1>0, <2>5 DEF WorkFails, Remove, SetError, CheckCancels, SetResult, ReportFile, Worker
    <3>2. starts' = starts
      BY <2>5 DEF WorkFails, Remove, SetError, CheckCancels, SetResult, ReportFile
    <3> QED
      BY <2>1, <3>1, <3>2
  <2>6. CASE Dequeue \/ Return \/ Crash
    <3>1. CASE Dequeue
      BY <2>2, <3>1 DEF Dequeue, Idle
    <3>2. CASE Return \/ Crash
      <4>1. worker' = Idle
        BY <3>2 DEF Return, Remove, Crash
      <4> QED
        BY <2>2, <4>1 DEF Idle
    <3> QED
      BY <2>6, <3>1, <3>2
  <2>7. CASE \E j \in Jobs : Submit(j) \/ Enqueue(j) \/ Manage(j)
    BY <2>1, <2>7 DEF Submit, CreateJob, CreateJobFails, Enqueue, SendJob, QueueFull,
                      Manage, CancelJob, DeleteJob, observed
  <2>8. CASE Restart \/ Recover \/ Serve \/ Hang \/ UNCHANGED vars
    BY <2>1, <2>8 DEF Restart, StartWorker, RecoveryFails, Recover, RecoverJob, Serve,
                      Hang, vars, system, observed
  <2> QED
    BY <2>3, <2>4, <2>5, <2>6, <2>7, <2>8 DEF Next, ProcessJob
<1> QED
  BY <1>1, <1>2 DEF Accounts

THEOREM AccountsCorrect == Spec => []Accounts
BY TypeCorrect, AccountsInit, AccountsStep, PTL DEF Spec

----------------------------------------------------------------------------
(* Steps of the ledger. *)

\* A step that changes the standing of no job, and one that moves one job.
LEMMA LedgerKept ==
  ASSUME \A j \in Jobs : Standing(j)' = Standing(j)
  PROVE  UNCHANGED ledger
BY DEF ledger

LEMMA LedgerMoves ==
  ASSUME NEW j \in Jobs, NEW from, NEW to,
         Standing(j) = from, Standing(j)' = to,
         \A k \in Jobs \ {j} : Standing(k)' = Standing(k)
  PROVE  Ledger!Move(j, from, to)
BY DEF ledger, Ledger!Move

\* The worker executes one job at a time.
LEMMA OneExecutes ==
  ASSUME ~(worker.pc > 1)
  PROVE  Ledger!Executing = {}
BY DEF Ledger!Executing, ledger, Standing, Begun

\* A row that stays or becomes "queued" for a begun job means a lost write.
LEMMA ForgetMeansFault ==
  ASSUME TypeInv, Freshness, Accounts, NEW j \in Jobs,
         Begun(j), rows[j].status = "queued"
  PROVE  MaxFaults > 0
<1>1. starts[j] > 0 /\ starts[j] <= faults[j] /\ faults[j] <= MaxFaults
  BY DEF Accounts, Begun, Freshness, Fresh
<1>2. starts[j] \in Nat /\ faults[j] \in Nat /\ MaxFaults \in Nat
  BY BoundAssumption DEF TypeInv, TypeOK
<1> QED
  BY <1>1, <1>2

LEMMA LedgerInitial == Init => Ledger!LedgerInit
<1> SUFFICES ASSUME Init, NEW j \in Jobs PROVE Standing(j) = "unknown"
  BY DEF Ledger!LedgerInit, ledger
<1>1. ~Begun(j)
  BY DEF Init, Idle, Begun
<1>2. ~OnItsWay(j)
  BY EmptyChannel, JobAssumption DEF Init, Idle, OnItsWay, InChannel, Posting
<1>3. rows[j].status = "absent" /\ client[j] = "new"
  BY DEF Init, NoRow
<1> QED
  BY <1>1, <1>2, <1>3 DEF Standing

LEMMA LedgerStep ==
  TypeInv /\ Placement /\ Freshness /\ Accounts /\ [Next]_vars
    => [Ledger!LedgerNext]_ledger
<1> SUFFICES ASSUME TypeInv, Placement, Freshness, Accounts, [Next]_vars
             PROVE  Ledger!LedgerNext \/ UNCHANGED ledger
  OBVIOUS
<1>0. /\ chan \in Seq(Tuple) /\ rows \in [Jobs -> Row]
      /\ client \in [Jobs -> {"new", "posting", "accepted", "refused", "lost"}]
      /\ request \in [Jobs -> AllRequests]
      /\ todo \subseteq Jobs /\ worker \in Worker /\ NoJob \notin Jobs
      /\ worker.pc \in Nat \ {0}
  BY JobAssumption DEF TypeInv, TypeOK, Worker
<1>1. ASSUME NEW j \in Jobs, CreateJob(j) PROVE Ledger!Submit(j)
  <2>1. /\ client[j] = "new" /\ rows[j].status = "absent" /\ server = "serving"
        /\ j \notin InChannel \cup todo \cup {worker.job} /\ j \notin Posting
        /\ UNCHANGED <<chan, todo, worker>>
    BY <1>1 DEF CreateJob, Placement, NewIsNowhere, Posting
  <2>2. /\ Posting' = Posting \cup {j} /\ InChannel' = InChannel
        /\ \A k \in Jobs \ {j} : rows'[k] = rows[k] /\ client'[k] = client[k]
    BY <1>0, <1>1, <2>1 DEF CreateJob, Posting, InChannel
  <2>3. Standing(j) = "unknown" /\ Standing(j)' = "waiting"
    BY <2>1, <2>2 DEF Standing, Begun, OnItsWay
  <2>4. \A k \in Jobs \ {j} : Standing(k)' = Standing(k)
    BY <2>1, <2>2 DEF Standing, Begun, OnItsWay
  <2> QED
    BY <2>3, <2>4, LedgerMoves DEF Ledger!Submit
<1>2. ASSUME NEW j \in Jobs, CreateJobFails(j) PROVE Ledger!Refuse(j)
  <2>1. /\ client[j] = "new" /\ rows[j].status = "absent"
        /\ j \notin InChannel \cup todo \cup {worker.job} /\ j \notin Posting
        /\ UNCHANGED <<rows, chan, todo, worker>>
    BY <1>2 DEF CreateJobFails, Placement, NewIsNowhere, Posting
  <2>2. /\ Posting' = Posting /\ InChannel' = InChannel /\ client'[j] = "refused"
        /\ \A k \in Jobs \ {j} : client'[k] = client[k]
    BY <1>0, <1>2, <2>1 DEF CreateJobFails, Posting, InChannel
  <2>3. Standing(j) = "unknown" /\ Standing(j)' = "ended"
    BY <2>1, <2>2 DEF Standing, Begun, OnItsWay
  <2>4. \A k \in Jobs \ {j} : Standing(k)' = Standing(k)
    BY <2>1, <2>2 DEF Standing, Begun, OnItsWay
  <2> QED
    BY <2>3, <2>4, LedgerMoves DEF Ledger!Refuse
<1>3. ASSUME NEW j \in Jobs, SendJob(j) PROVE UNCHANGED ledger
  <2>1. [job |-> j, req |-> request[j]] \in Tuple
    BY <1>0 DEF Tuple
  <2>2. /\ InChannel' = InChannel \cup {j} /\ Posting' = Posting \ {j} /\ j \in Posting
        /\ UNCHANGED <<rows, todo, worker>>
        /\ \A k \in Jobs \ {j} : client'[k] = client[k]
    BY <1>0, <1>3, <2>1, AppendToChannel DEF SendJob, InChannel, Posting, observed
  <2>3. \A k \in Jobs : Standing(k)' = Standing(k)
    BY <2>2 DEF Standing, Begun, OnItsWay
  <2> QED
    BY <2>3, LedgerKept
<1>4. ASSUME NEW j \in Jobs, QueueFull(j)
      PROVE  Ledger!Withdraw(j) \/ UNCHANGED ledger
  <2>1. /\ client[j] = "posting" /\ j \in Posting /\ j \notin InChannel \cup todo \cup {worker.job}
        /\ UNCHANGED <<rows, chan, todo, worker>>
    BY <1>4 DEF QueueFull, Placement, NoDuplicateDelivery, Posting
  <2>2. /\ Posting' = Posting \ {j} /\ InChannel' = InChannel /\ client'[j] = "refused"
        /\ \A k \in Jobs \ {j} : client'[k] = client[k]
    BY <1>0, <1>4, <2>1 DEF QueueFull, Posting, InChannel
  <2>3. \A k \in Jobs \ {j} : Standing(k)' = Standing(k)
    BY <2>1, <2>2 DEF Standing, Begun, OnItsWay
  <2>4. Standing(j) = "waiting"
    BY <2>1 DEF Standing, Begun, OnItsWay
  <2>5. CASE rows[j].status = "queued"
    <3>1. Standing(j)' = "waiting"
      BY <2>1, <2>2, <2>5 DEF Standing, Begun, OnItsWay
    <3>2. \A k \in Jobs : Standing(k)' = Standing(k)
      BY <2>3, <2>4, <3>1
    <3> QED
      BY <3>2, LedgerKept
  <2>6. CASE rows[j].status # "queued"
    <3>1. Standing(j)' = "ended"
      BY <2>1, <2>2, <2>6 DEF Standing, Begun, OnItsWay
    <3> QED
      BY <2>3, <2>4, <3>1, LedgerMoves DEF Ledger!Withdraw
  <2> QED
    BY <2>5, <2>6
<1>5. ASSUME NEW j \in Jobs, CancelJob(j) \/ DeleteJob(j)
      PROVE  Ledger!Withdraw(j) \/ UNCHANGED ledger
  <2>1. /\ UNCHANGED <<chan, todo, worker, client>>
        /\ Posting' = Posting /\ InChannel' = InChannel
    BY <1>5 DEF CancelJob, DeleteJob, Posting, InChannel
  <2>2. /\ \A k \in Jobs : rows'[k].status = "queued" => rows[k].status = "queued"
        /\ \A k \in Jobs \ {j} : rows'[k] = rows[k]
    BY <1>0, <1>5, ManageQueuesNothing DEF CancelJob, DeleteJob
  <2>3. \A k \in Jobs \ {j} : Standing(k)' = Standing(k)
    BY <2>1, <2>2 DEF Standing, Begun, OnItsWay
  <2>4. CASE Standing(j)' = Standing(j)
    BY <2>3, <2>4, LedgerKept
  <2>5. CASE Standing(j)' # Standing(j)
    <3>1. rows[j].status = "queued" /\ rows'[j].status # "queued" /\ ~OnItsWay(j)
      BY <2>1, <2>2, <2>5 DEF Standing, Begun, OnItsWay
    <3>2. client[j] # "new"
      BY <3>1 DEF Placement, NewIsNowhere
    <3>3. Standing(j) = "waiting" /\ Standing(j)' = "ended"
      BY <2>1, <3>1, <3>2 DEF Standing, Begun, OnItsWay
    <3> QED
      BY <2>3, <3>3, LedgerMoves DEF Ledger!Withdraw
  <2> QED
    BY <2>4, <2>5
<1>6. CASE Dequeue
  <2>1. JobsOf(chan) = JobsOf(Tail(chan)) \cup {Head(chan).job}
    BY <1>0, <1>6, TakeFromChannel DEF Dequeue
  <2>2. /\ worker'.job = Head(chan).job /\ chan' = Tail(chan) /\ worker'.pc = 1
        /\ worker.job = NoJob
        /\ UNCHANGED <<rows, todo, client>>
    BY <1>6 DEF Dequeue, Idle, observed
  <2>3. \A k \in Jobs : OnItsWay(k)' = OnItsWay(k) /\ ~Begun(k) /\ ~Begun(k)'
    BY <1>0, <2>1, <2>2 DEF OnItsWay, InChannel, Posting, Begun
  <2>4. \A k \in Jobs : Standing(k)' = Standing(k)
    BY <2>2, <2>3 DEF Standing
  <2> QED
    BY <2>4, LedgerKept
<1>7. ASSUME worker.job # NoJob, UNCHANGED <<chan, todo, client>>,
             worker'.job = worker.job, worker'.pc = worker.pc,
             \A k \in Jobs \ {worker.job} : rows'[k] = rows[k]
      PROVE  UNCHANGED ledger
  <2>1. \A k \in Jobs : Standing(k)' = Standing(k)
    BY <1>7 DEF Standing, Begun, OnItsWay, InChannel, Posting
  <2> QED
    BY <2>1, LedgerKept
<1>8. ASSUME worker.job # NoJob, UNCHANGED <<chan, todo, client>>,
             worker'.job = worker.job, worker'.pc = worker.pc + 1,
             \A k \in Jobs \ {worker.job} : rows'[k] = rows[k]
      PROVE  (\E j \in Jobs : Ledger!Begin(j)) \/ UNCHANGED ledger
  <2>1. PICK j \in Jobs : j = worker.job
    BY <1>0, <1>8 DEF Worker
  <2>2. \A k \in Jobs \ {j} : Standing(k)' = Standing(k)
    BY <1>8, <2>1 DEF Standing, Begun, OnItsWay, InChannel, Posting
  <2>3. Standing(j)' = "executing"
    BY <1>0, <1>8, <2>1 DEF Standing, Begun
  <2>4. CASE worker.pc = 1
    <3>1. Standing(j) = "waiting"
      BY <2>1, <2>4 DEF Standing, Begun, OnItsWay
    <3>2. Ledger!Executing = {}
      BY <2>4, OneExecutes
    <3> QED
      BY <2>2, <2>3, <3>1, <3>2, LedgerMoves DEF Ledger!Begin
  <2>5. CASE worker.pc # 1
    <3>1. Standing(j) = "executing"
      BY <1>0, <2>1, <2>5 DEF Standing, Begun
    <3>2. \A k \in Jobs : Standing(k)' = Standing(k)
      BY <2>2, <2>3, <3>1
    <3> QED
      BY <3>2, LedgerKept
  <2> QED
    BY <2>4, <2>5
<1>9. ASSUME NEW status, NEW result, UpdateJobStatus(worker.job, status, result)
      PROVE  \A k \in Jobs \ {worker.job} : rows'[k] = rows[k]
  BY <1>0, <1>9 DEF UpdateJobStatus
<1>10. CASE WriteRunning
  BY <1>0, <1>8, <1>9, <1>10 DEF WriteRunning, At, Doing, Advance, Worker, Ledger!LedgerNext
<1>11. CASE WorkSucceeds \/ CheckPasses
  BY <1>0, <1>8, <1>11 DEF WorkSucceeds, CheckPasses, At, Doing, Advance, Worker, Ledger!LedgerNext
<1>12. CASE ReportFile \/ SetError \/ CheckCancels \/ SetResult
  BY <1>0, <1>7, <1>9, <1>12 DEF ReportFile, SetError, CheckCancels, SetResult, At, Doing, Worker
<1>13. CASE WorkFails
  BY <1>0, <1>7, <1>13 DEF WorkFails, Remove, At, Doing, Worker
<1>14. CASE Return
  <2>1. PICK j \in Jobs : j = worker.job
    BY <1>0, <1>14 DEF Return, Remove, Worker
  <2>2. /\ UNCHANGED <<rows, chan, todo, client>> /\ worker'.job = NoJob
        /\ Posting' = Posting /\ InChannel' = InChannel
    BY <1>14 DEF Return, Remove, Idle, Posting, InChannel
  <2>3. \A k \in Jobs \ {j} : Standing(k)' = Standing(k)
    BY <1>0, <2>1, <2>2 DEF Standing, Begun, OnItsWay
  <2>4. /\ j \notin InChannel \cup Posting \cup todo /\ client[j] # "new"
        /\ ~Begun(j)' /\ ~OnItsWay(j)'
    BY <1>0, <2>1, <2>2
    DEF Placement, NoDuplicateDelivery, NewIsNowhere, Begun, OnItsWay
  <2>5. Standing(j)' = IF rows[j].status = "queued" THEN "waiting" ELSE "ended"
    BY <2>2, <2>4 DEF Standing
  <2>6. CASE Begun(j)
    <3>1. Standing(j) = "executing"
      BY <2>6 DEF Standing
    <3>2. CASE rows[j].status = "queued"
      BY <2>3, <2>5, <2>6, <3>1, <3>2, ForgetMeansFault, LedgerMoves
      DEF Ledger!Forget, Ledger!LedgerNext
    <3>3. CASE rows[j].status # "queued"
      BY <2>3, <2>5, <3>1, <3>3, LedgerMoves DEF Ledger!End, Ledger!LedgerNext
    <3> QED
      BY <3>2, <3>3
  <2>7. CASE ~Begun(j)
    <3>1. Standing(j) = "waiting"
      BY <2>1, <2>7 DEF Standing, OnItsWay
    <3>2. CASE rows[j].status = "queued"
      <4>1. \A k \in Jobs : Standing(k)' = Standing(k)
        BY <2>3, <2>5, <3>1, <3>2
      <4> QED
        BY <4>1, LedgerKept
    <3>3. CASE rows[j].status # "queued"
      BY <2>3, <2>5, <3>1, <3>3, LedgerMoves DEF Ledger!Withdraw, Ledger!LedgerNext
    <3> QED
      BY <3>2, <3>3
  <2> QED
    BY <2>6, <2>7
<1>15. CASE Crash
  <2> DEFINE dropped == {j \in Jobs : Standing(j) = "waiting" /\ rows[j].status # "queued"}
             again == {j \in Jobs : Begun(j) /\ rows[j].status = "queued"}
  <2>1. /\ UNCHANGED rows
        /\ \A j \in Jobs : ~Begun(j)' /\ ~OnItsWay(j)'
        /\ \A j \in Jobs : client'[j] = "new" <=> client[j] = "new"
    BY <1>0, <1>15, EmptyChannel DEF Crash, Begun, OnItsWay, InChannel, Posting, Idle
  <2>2. \A j \in Jobs : client[j] = "new" => ~OnItsWay(j) /\ rows[j].status = "absent" /\ ~Begun(j)
    BY DEF Placement, NewIsNowhere, OnItsWay, Begun, Posting
  <2>3. Ledger!Executing = {j \in Jobs : Begun(j)}
    BY DEF Ledger!Executing, ledger, Standing
  <2>4. ASSUME NEW j \in Jobs
        PROVE  Standing(j)' = IF j \in again THEN "waiting"
                              ELSE IF j \in dropped \cup Ledger!Executing THEN "ended"
                              ELSE Standing(j)
    BY <2>1, <2>2, <2>3 DEF Standing
  <2>5. /\ dropped \in SUBSET {j \in Jobs : ledger[j] = "waiting"}
        /\ again \in SUBSET Ledger!Executing
        /\ again # {} => MaxFaults > 0
    BY <2>3, ForgetMeansFault DEF ledger
  <2>6. ledger' = [j \in Jobs |-> IF j \in again THEN "waiting"
                                  ELSE IF j \in dropped \cup Ledger!Executing THEN "ended"
                                  ELSE ledger[j]]
    BY <2>4 DEF ledger
  <2> QED
    BY <2>5, <2>6 DEF Ledger!LedgerNext, Ledger!Crash
<1>16. CASE StartWorker
  <2>1. /\ UNCHANGED <<rows, chan, worker, client>>
        /\ todo = {} /\ todo' = {j \in Jobs : rows[j].status = "queued"}
    BY <1>16 DEF StartWorker, ListQueuedJobs, Placement, DownIsEmpty, observed
  <2>2. \A k \in Jobs : Standing(k)' = Standing(k)
    BY <2>1 DEF Standing, Begun, OnItsWay, InChannel, Posting
  <2> QED
    BY <2>2, LedgerKept
<1>17. ASSUME NEW j \in Jobs, RecoverJob(j) PROVE UNCHANGED ledger
  <2>1. [job |-> j, req |-> RecoveredRequest(j)] \in Tuple
    BY <1>0, RequestTypes DEF RecoveredRequest, Tuple
  <2>2. /\ InChannel' = InChannel \cup {j} /\ j \in todo /\ todo' = todo \ {j}
        /\ UNCHANGED <<rows, worker, client>> /\ Posting' = Posting
    BY <1>0, <1>17, <2>1, AppendToChannel DEF RecoverJob, InChannel, Posting, observed
  <2>3. \A k \in Jobs : Standing(k)' = Standing(k)
    BY <2>2 DEF Standing, Begun, OnItsWay
  <2> QED
    BY <2>3, LedgerKept
<1>18. CASE RecoveryFails \/ Serve \/ Hang \/ UNCHANGED vars
  <2>1. UNCHANGED <<rows, chan, todo, worker, client>>
    BY <1>18 DEF RecoveryFails, Serve, Hang, vars, system, observed
  <2>2. \A k \in Jobs : Standing(k)' = Standing(k)
    BY <2>1 DEF Standing, Begun, OnItsWay, InChannel, Posting
  <2> QED
    BY <2>2, LedgerKept
<1> QED
  BY <1>1, <1>2, <1>3, <1>4, <1>5, <1>6, <1>10, <1>11, <1>12, <1>13, <1>14, <1>15,
     <1>16, <1>17, <1>18
  DEF Next, Submit, Enqueue, Manage, ProcessJob, Restart, Recover, Ledger!LedgerNext

\* Jobs are executed one at a time, none is executed twice unless the database
\* loses writes, and a job that has ended never comes back: the job system
\* implements the executor of JobLedger.
THEOREM LedgerImplemented == Spec => Implements
BY LedgerInitial, LedgerStep, TypeCorrect, PlacementCorrect, FreshnessCorrect,
   AccountsCorrect, PTL DEF Spec, Implements, Ledger!Spec

----------------------------------------------------------------------------
(* What the programs do to the world. *)

Lasting == {"snapshot", "record", "filesTouched"}
Imported == {"dbDone", "filesDone"}

PassingSteps == {s \in Steps : s.adds \cap Lasting = {}}
UncheckedSteps == {s \in Steps : s.op # "check"}
UndoneSteps == {s \in Steps : s.op # "done"}

\* Nothing lasting comes before a cancellation check.
ChecksFirst(p) ==
  \A n \in 1..Len(p) : p[n].op = "check" =>
    \A i \in 1..(n - 1) : p[i].adds \cap Lasting = {}

\* What the success of a step adds: only work adds anything.
Gain(s) == IF s.op \in {"work", "sync"} THEN s.adds ELSE {}

Yields(p, e) == \E i \in 1..Len(p) : e \in Gain(p[i])

\* The program is not done before a step has had effect e.
YieldsFirst(p, e) ==
  \A n \in 1..Len(p) : p[n].op = "done" => \E i \in 1..(n - 1) : e \in Gain(p[i])

LEMMA PassingChecksFirst ==
  ASSUME NEW p \in Seq(PassingSteps)
  PROVE  p \in Seq(Steps) /\ ChecksFirst(p)
<1>1. Len(p) \in Nat /\ \A i \in 1..Len(p) : p[i] \in PassingSteps
  BY ElementOfSeq, LenProperties
<1>2. ASSUME NEW n \in 1..Len(p), NEW i \in 1..(n - 1)
      PROVE  p[i].adds \cap Lasting = {}
  <2>1. i \in 1..Len(p)
    BY <1>1
  <2> QED
    BY <1>1, <2>1 DEF PassingSteps
<1>3. p \in Seq(Steps)
  BY <1>1, IsASeq, SeqDef DEF PassingSteps
<1> QED
  BY <1>2, <1>3 DEF ChecksFirst

LEMMA ConcatChecksFirst ==
  ASSUME NEW p \in Seq(Steps), ChecksFirst(p), NEW q \in Seq(UncheckedSteps)
  PROVE  ChecksFirst(p \o q)
<1>1. Len(p) \in Nat /\ Len(q) \in Nat /\ \A i \in 1..Len(q) : q[i] \in UncheckedSteps
  BY ElementOfSeq, LenProperties
<1>2. p \in Seq(Steps \cup UncheckedSteps) /\ q \in Seq(Steps \cup UncheckedSteps)
  BY SeqDef DEF UncheckedSteps
<1>3. /\ Len(p \o q) = Len(p) + Len(q)
      /\ \A i \in 1..(Len(p) + Len(q)) :
           (p \o q)[i] = IF i <= Len(p) THEN p[i] ELSE q[i - Len(p)]
  BY <1>2, ConcatProperties
<1> SUFFICES ASSUME NEW n \in 1..(Len(p) + Len(q)), (p \o q)[n].op = "check",
                    NEW i \in 1..(n - 1)
             PROVE  (p \o q)[i].adds \cap Lasting = {}
  BY <1>3 DEF ChecksFirst
<1>4. n <= Len(p)
  <2>1. SUFFICES ASSUME ~(n <= Len(p)) PROVE FALSE
    OBVIOUS
  <2>2. n - Len(p) \in 1..Len(q) /\ (p \o q)[n] = q[n - Len(p)]
    BY <1>1, <1>3, <2>1
  <2> QED
    BY <1>1, <2>2 DEF UncheckedSteps
<1>5. n \in 1..Len(p) /\ i \in 1..Len(p) /\ (p \o q)[n] = p[n] /\ (p \o q)[i] = p[i]
  BY <1>1, <1>3, <1>4
<1> QED
  BY <1>5 DEF ChecksFirst

LEMMA ConcatYields ==
  ASSUME NEW p \in Seq(Steps), NEW q \in Seq(Steps), NEW e
  PROVE  Yields(p, e) \/ Yields(q, e) => Yields(p \o q, e)
<1>1. Len(p) \in Nat /\ Len(q) \in Nat
  BY LenProperties
<1>2. /\ Len(p \o q) = Len(p) + Len(q)
      /\ \A i \in 1..(Len(p) + Len(q)) :
           (p \o q)[i] = IF i <= Len(p) THEN p[i] ELSE q[i - Len(p)]
  BY ConcatProperties
<1>3. ASSUME NEW i \in 1..Len(p), e \in Gain(p[i]) PROVE Yields(p \o q, e)
  <2>1. i \in 1..(Len(p) + Len(q)) /\ (p \o q)[i] = p[i]
    BY <1>1, <1>2
  <2> QED
    BY <1>2, <1>3, <2>1 DEF Yields
<1>4. ASSUME NEW i \in 1..Len(q), e \in Gain(q[i]) PROVE Yields(p \o q, e)
  <2>1. i + Len(p) \in 1..(Len(p) + Len(q)) /\ (p \o q)[i + Len(p)] = q[i]
    BY <1>1, <1>2
  <2> QED
    BY <1>2, <1>4, <2>1 DEF Yields
<1> QED
  BY <1>3, <1>4 DEF Yields

LEMMA EndYieldsFirst ==
  ASSUME NEW p \in Seq(UndoneSteps), NEW e, Yields(p, e)
  PROVE  YieldsFirst(p \o <<Done>>, e)
<1>1. Len(p) \in Nat /\ \A i \in 1..Len(p) : p[i] \in UndoneSteps
  BY ElementOfSeq, LenProperties
<1>2. p \in Seq(Steps) /\ <<Done>> \in Seq(Steps) /\ Len(<<Done>>) = 1
  BY SeqDef, StepTypes DEF UndoneSteps
<1>3. /\ Len(p \o <<Done>>) = Len(p) + 1
      /\ \A i \in 1..Len(p) : (p \o <<Done>>)[i] = p[i]
  BY <1>1, <1>2, ConcatProperties
<1> SUFFICES ASSUME NEW n \in 1..(Len(p) + 1), (p \o <<Done>>)[n].op = "done"
             PROVE  \E i \in 1..(n - 1) : e \in Gain((p \o <<Done>>)[i])
  BY <1>3 DEF YieldsFirst
<1>4. n = Len(p) + 1
  <2>1. SUFFICES ASSUME n # Len(p) + 1 PROVE FALSE
    OBVIOUS
  <2>2. n \in 1..Len(p)
    BY <1>1, <2>1
  <2> QED
    BY <1>1, <1>3, <2>2 DEF UndoneSteps
<1>5. PICK i \in 1..Len(p) : e \in Gain(p[i])
  BY DEF Yields
<1>6. i \in 1..(n - 1)
  BY <1>1, <1>4
<1> QED
  BY <1>3, <1>5, <1>6
LEMMA PassingTypes ==
  /\ Write \in PassingSteps
  /\ \A e, l, u \in SUBSET Effects : e \cap Lasting = {} =>
       Work(e, l, u) \in PassingSteps /\ Sync(e, l, u) \in PassingSteps
  /\ \A u \in SUBSET Effects : Check(u) \in PassingSteps /\ Try(u) \in PassingSteps
  /\ Done \in PassingSteps
BY StepTypes DEF PassingSteps, Write, Work, Sync, Check, Try, Done

LEMMA UndoneTypes ==
  /\ Write \in UndoneSteps
  /\ \A e, l, u \in SUBSET Effects : Work(e, l, u) \in UndoneSteps /\ Sync(e, l, u) \in UndoneSteps
  /\ \A u \in SUBSET Effects : Check(u) \in UndoneSteps /\ Try(u) \in UndoneSteps
BY StepTypes DEF UndoneSteps, Write, Work, Sync, Check, Try

LEMMA UncheckedTypes ==
  /\ Write \in UncheckedSteps /\ Done \in UncheckedSteps
  /\ \A e, l, u \in SUBSET Effects :
       Work(e, l, u) \in UncheckedSteps /\ Sync(e, l, u) \in UncheckedSteps
  /\ \A u \in SUBSET Effects : Try(u) \in UncheckedSteps
BY StepTypes DEF UncheckedSteps, Write, Work, Sync, Try, Done

LEMMA BackupChecksFirst ==
  ASSUME NEW q \in AllRequests
  PROVE  ChecksFirst(BackupProgram(q))
<1>1. /\ Write \in PassingSteps /\ Try({}) \in PassingSteps /\ Try(WD) \in PassingSteps
      /\ Check(WD) \in PassingSteps /\ Work(WD, WD, {}) \in PassingSteps
      /\ Work({"remote"}, {"remote"}, WD) \in PassingSteps
      /\ Sync({}, {}, WD) \in PassingSteps
  BY PassingTypes DEF Lasting, WD, Effects
<1>2. LoadSite \in Seq(PassingSteps)
  BY <1>1 DEF LoadSite
<1>3. BackupPrepare(q) \in Seq(PassingSteps)
  <2>1. <<Write, Work(WD, WD, {}), Try(WD)>> \in Seq(PassingSteps)
    BY <1>1
  <2>2. <<Write, Write, Try(WD)>> \in Seq(PassingSteps)
    BY <1>1
  <2>3. DetectRoot(q, WD) \in Seq(PassingSteps)
    BY <1>1 DEF DetectRoot
  <2> QED
    BY <2>1, <2>2, <2>3, ConcatProperties DEF BackupPrepare
<1>4. BackupCollect \in Seq(PassingSteps)
  BY <1>1 DEF BackupCollect
<1>5. LoadSite \o BackupPrepare(q) \o BackupCollect \in Seq(PassingSteps)
  BY <1>2, <1>3, <1>4, ConcatProperties
<1>6. BackupStore \in Seq(UncheckedSteps)
  <2>1. /\ Write \in UncheckedSteps /\ Done \in UncheckedSteps /\ Try(WD) \in UncheckedSteps
        /\ Work({"snapshot"}, {"snapshot"}, WD) \in UncheckedSteps
        /\ Work({"record"}, {}, {}) \in UncheckedSteps
    BY UncheckedTypes DEF WD, Effects
  <2> QED
    BY <2>1 DEF BackupStore
<1> QED
  BY <1>5, <1>6, PassingChecksFirst, ConcatChecksFirst DEF BackupProgram

LEMMA RestoreChecksFirst ==
  ASSUME NEW q \in AllRequests
  PROVE  ChecksFirst(RestoreProgram(q))
<1>1. /\ Write \in PassingSteps /\ Try({}) \in PassingSteps /\ Check({}) \in PassingSteps
      /\ Work({"restoredir"}, {}, {}) \in PassingSteps
      /\ Work({"remote"}, {"remote"}, {}) \in PassingSteps
      /\ Work({"dbTouched", "dbDone"}, {"dbTouched"}, {}) \in PassingSteps
  BY PassingTypes DEF Lasting, Effects
<1>2. LoadSite \in Seq(PassingSteps)
  BY <1>1 DEF LoadSite
<1>3. RestoreFetch(q) \in Seq(PassingSteps)
  <2>1. <<Try({}), Write, Try({}), Work({"restoredir"}, {}, {}), Check({}),
          Write, Try({}), Check({})>> \in Seq(PassingSteps)
    BY <1>1
  <2>2. DetectRoot(q, {}) \in Seq(PassingSteps)
    BY <1>1 DEF DetectRoot
  <2> QED
    BY <2>1, <2>2, ConcatProperties DEF RestoreFetch
<1>4. RestoreDatabase(q) \in Seq(PassingSteps) /\ <<Check({})>> \in Seq(PassingSteps)
  BY <1>1 DEF RestoreDatabase
<1>5. LoadSite \o RestoreFetch(q) \o RestoreDatabase(q) \o <<Check({})>> \in Seq(PassingSteps)
  BY <1>2, <1>3, <1>4, ConcatProperties
<1>6. /\ RestoreFiles(q) \in Seq(UncheckedSteps)
      /\ <<Done>> \in Seq(UncheckedSteps)
  <2>1. /\ Write \in UncheckedSteps /\ Done \in UncheckedSteps
        /\ Sync({"filesTouched", "filesDone"}, {"filesTouched"}, {}) \in UncheckedSteps
    BY UncheckedTypes DEF Effects
  <2> QED
    BY <2>1 DEF RestoreFiles
<1>7. /\ ChecksFirst(LoadSite \o RestoreFetch(q) \o RestoreDatabase(q) \o <<Check({})>> \o
                     RestoreFiles(q))
      /\ LoadSite \o RestoreFetch(q) \o RestoreDatabase(q) \o <<Check({})>> \o
           RestoreFiles(q) \in Seq(Steps)
  <2>1. RestoreFiles(q) \in Seq(Steps)
    BY <1>6, SeqMonotonic DEF UncheckedSteps
  <2> QED
    BY <1>5, <1>6, <2>1, PassingChecksFirst, ConcatChecksFirst, ConcatSteps
<1> QED
  BY <1>6, <1>7, ConcatChecksFirst DEF RestoreProgram

LEMMA UpgradeChecksFirst ==
  ASSUME NEW q \in AllRequests
  PROVE  ChecksFirst(UpgradeProgram(q))
<1>1. /\ Write \in PassingSteps /\ Try({}) \in PassingSteps /\ Done \in PassingSteps
      /\ Work({"upgraded"}, {"upgraded"}, {}) \in PassingSteps
  BY PassingTypes DEF Lasting, Effects
<1>2. /\ LoadSite \in Seq(PassingSteps) /\ DetectRoot(q, {}) \in Seq(PassingSteps)
      /\ <<Write, Work({"upgraded"}, {"upgraded"}, {}), Done>> \in Seq(PassingSteps)
  BY <1>1 DEF LoadSite, DetectRoot
<1>3. UpgradeProgram(q) \in Seq(PassingSteps)
  BY <1>2, ConcatProperties DEF UpgradeProgram
<1> QED
  BY <1>3, PassingChecksFirst

LEMMA RehearsalChecksFirst == ChecksFirst(RehearsalProgram)
<1>1. /\ Write \in PassingSteps /\ Try({}) \in PassingSteps /\ Done \in PassingSteps
      /\ Work({"env"}, {"env"}, {}) \in PassingSteps
      /\ Work({"env"}, {"env"}, {"env"}) \in PassingSteps
      /\ Work({}, {"env"}, {"env"}) \in PassingSteps
  BY PassingTypes DEF Lasting, Effects
<1>2. LoadSite \in Seq(PassingSteps) /\ RehearsalUpgrade \in Seq(PassingSteps)
  BY <1>1 DEF LoadSite, RehearsalUpgrade
<1>3. RehearsalReview \in Seq(PassingSteps) /\ RehearsalRollback \in Seq(PassingSteps)
  BY <1>1 DEF RehearsalReview, RehearsalRollback
<1>4. RehearsalVerdict \in Seq(PassingSteps)
  BY <1>1 DEF RehearsalVerdict
<1>5. RehearsalProgram \in Seq(PassingSteps)
  BY <1>2, <1>3, <1>4, ConcatProperties DEF RehearsalProgram
<1> QED
  BY <1>5, PassingChecksFirst

\* No program checks for a cancellation after it has taken a snapshot, written
\* a record or touched the production files: an honoured cancel comes before.
THEOREM CancelComesFirst == \A q \in AllRequests : ChecksFirst(Programs[q])
<1> SUFFICES ASSUME NEW q \in AllRequests PROVE ChecksFirst(Program(q))
  BY DEF Programs
<1>1. q.type \in {"backup", "restore", "upgrade", "rehearsal"}
  BY DEF AllRequests, JobTypes
<1>2. CASE q.type = "backup"
  BY <1>2, BackupChecksFirst DEF Program
<1>3. CASE q.type = "restore"
  BY <1>3, RestoreChecksFirst DEF Program
<1>4. CASE q.type = "upgrade"
  BY <1>4, UpgradeChecksFirst DEF Program
<1>5. CASE q.type = "rehearsal"
  BY <1>5, RehearsalChecksFirst DEF Program
<1> QED
  BY <1>1, <1>2, <1>3, <1>4, <1>5

\* Every check of the program removes the directory, or no step makes one.
ClearsWork(p) ==
  \/ \A n \in 1..Len(p) : p[n].op = "check" => "workdir" \in p[n].undo
  \/ \A n \in 1..Len(p) : "workdir" \notin p[n].adds

ClearingSteps == {s \in Steps : s.op = "check" => "workdir" \in s.undo}
WorklessSteps == {s \in Steps : "workdir" \notin s.adds}

LEMMA ClearingTypes ==
  /\ Write \in ClearingSteps /\ Done \in ClearingSteps /\ Check(WD) \in ClearingSteps
  /\ \A e, l, u \in SUBSET Effects :
       Work(e, l, u) \in ClearingSteps /\ Sync(e, l, u) \in ClearingSteps
  /\ \A u \in SUBSET Effects : Try(u) \in ClearingSteps
BY StepTypes DEF ClearingSteps, Write, Work, Sync, Check, Try, Done, WD

LEMMA WorklessTypes ==
  /\ Write \in WorklessSteps /\ Done \in WorklessSteps
  /\ \A e, l, u \in SUBSET Effects : "workdir" \notin e =>
       Work(e, l, u) \in WorklessSteps /\ Sync(e, l, u) \in WorklessSteps
  /\ \A u \in SUBSET Effects : Check(u) \in WorklessSteps /\ Try(u) \in WorklessSteps
BY StepTypes DEF WorklessSteps, Write, Work, Sync, Check, Try, Done

LEMMA BackupClears ==
  ASSUME NEW q \in AllRequests
  PROVE  ClearsWork(BackupProgram(q))
<1>1. /\ Write \in ClearingSteps /\ Try({}) \in ClearingSteps /\ Try(WD) \in ClearingSteps
      /\ Check(WD) \in ClearingSteps /\ Work(WD, WD, {}) \in ClearingSteps
      /\ Work({"remote"}, {"remote"}, WD) \in ClearingSteps
      /\ Sync({}, {}, WD) \in ClearingSteps
      /\ Work({"snapshot"}, {"snapshot"}, WD) \in ClearingSteps
      /\ Work({"record"}, {}, {}) \in ClearingSteps /\ Done \in ClearingSteps
  BY ClearingTypes DEF WD, Effects
<1>2. LoadSite \in Seq(ClearingSteps)
  BY <1>1 DEF LoadSite
<1>3. BackupPrepare(q) \in Seq(ClearingSteps)
  <2>1. <<Write, Work(WD, WD, {}), Try(WD)>> \in Seq(ClearingSteps)
    BY <1>1
  <2>2. <<Write, Write, Try(WD)>> \in Seq(ClearingSteps)
    BY <1>1
  <2>3. DetectRoot(q, WD) \in Seq(ClearingSteps)
    BY <1>1 DEF DetectRoot
  <2> QED
    BY <2>1, <2>2, <2>3, ConcatProperties DEF BackupPrepare
<1>4. BackupCollect \in Seq(ClearingSteps) /\ BackupStore \in Seq(ClearingSteps)
  BY <1>1 DEF BackupCollect, BackupStore
<1>5. BackupProgram(q) \in Seq(ClearingSteps)
  BY <1>2, <1>3, <1>4, ConcatProperties DEF BackupProgram
<1> QED
  BY <1>5, ElementOfSeq DEF ClearsWork, ClearingSteps

LEMMA OthersMakeNoWork ==
  ASSUME NEW q \in AllRequests
  PROVE  /\ ClearsWork(RestoreProgram(q)) /\ ClearsWork(UpgradeProgram(q))
         /\ ClearsWork(RehearsalProgram)
<1>1. /\ Write \in WorklessSteps /\ Done \in WorklessSteps
      /\ Try({}) \in WorklessSteps /\ Check({}) \in WorklessSteps
      /\ Work({"restoredir"}, {}, {}) \in WorklessSteps
      /\ Work({"remote"}, {"remote"}, {}) \in WorklessSteps
      /\ Work({"dbTouched", "dbDone"}, {"dbTouched"}, {}) \in WorklessSteps
      /\ Sync({"filesTouched", "filesDone"}, {"filesTouched"}, {}) \in WorklessSteps
      /\ Work({"upgraded"}, {"upgraded"}, {}) \in WorklessSteps
      /\ Work({"env"}, {"env"}, {}) \in WorklessSteps
      /\ Work({"env"}, {"env"}, {"env"}) \in WorklessSteps
      /\ Work({}, {"env"}, {"env"}) \in WorklessSteps
  BY WorklessTypes DEF Effects
<1>2. LoadSite \in Seq(WorklessSteps) /\ DetectRoot(q, {}) \in Seq(WorklessSteps)
  BY <1>1 DEF LoadSite, DetectRoot
<1>3. RestoreProgram(q) \in Seq(WorklessSteps)
  <2>1. <<Try({}), Write, Try({}), Work({"restoredir"}, {}, {}), Check({}),
          Write, Try({}), Check({})>> \in Seq(WorklessSteps)
    BY <1>1
  <2>2. RestoreFetch(q) \in Seq(WorklessSteps)
    BY <1>2, <2>1, ConcatProperties DEF RestoreFetch
  <2>3. RestoreDatabase(q) \in Seq(WorklessSteps) /\ <<Check({})>> \in Seq(WorklessSteps)
    BY <1>1 DEF RestoreDatabase
  <2>4. RestoreFiles(q) \in Seq(WorklessSteps) /\ <<Done>> \in Seq(WorklessSteps)
    BY <1>1 DEF RestoreFiles
  <2> QED
    BY <1>2, <2>2, <2>3, <2>4, ConcatProperties DEF RestoreProgram
<1>4. UpgradeProgram(q) \in Seq(WorklessSteps)
  <2>1. <<Write, Work({"upgraded"}, {"upgraded"}, {}), Done>> \in Seq(WorklessSteps)
    BY <1>1
  <2> QED
    BY <1>2, <2>1, ConcatProperties DEF UpgradeProgram
<1>5. RehearsalProgram \in Seq(WorklessSteps)
  <2>1. RehearsalUpgrade \in Seq(WorklessSteps) /\ RehearsalReview \in Seq(WorklessSteps)
    BY <1>1 DEF RehearsalUpgrade, RehearsalReview
  <2>2. RehearsalRollback \in Seq(WorklessSteps) /\ RehearsalVerdict \in Seq(WorklessSteps)
    BY <1>1 DEF RehearsalRollback, RehearsalVerdict
  <2> QED
    BY <1>2, <2>1, <2>2, ConcatProperties DEF RehearsalProgram
<1> QED
  BY <1>3, <1>4, <1>5, ElementOfSeq DEF ClearsWork, WorklessSteps

LEMMA WorkIsCleared == \A q \in AllRequests : ClearsWork(Programs[q])
<1> SUFFICES ASSUME NEW q \in AllRequests PROVE ClearsWork(Program(q))
  BY DEF Programs
<1>1. q.type \in {"backup", "restore", "upgrade", "rehearsal"}
  BY DEF AllRequests, JobTypes
<1> QED
  BY <1>1, BackupClears, OthersMakeNoWork DEF Program

\* A restore reaches its result only past the import of everything asked for.
LEMMA RestoreYields ==
  ASSUME NEW q \in AllRequests, q.type = "restore"
  PROVE  /\ q.db => YieldsFirst(Programs[q], "dbDone")
         /\ q.files => YieldsFirst(Programs[q], "filesDone")
<1> DEFINE before == LoadSite \o RestoreFetch(q)
           imported == before \o RestoreDatabase(q)
           checked == imported \o <<Check({})>>
           whole == checked \o RestoreFiles(q)
<1>1. /\ Write \in UndoneSteps /\ Try({}) \in UndoneSteps /\ Check({}) \in UndoneSteps
      /\ Work({"restoredir"}, {}, {}) \in UndoneSteps
      /\ Work({"remote"}, {"remote"}, {}) \in UndoneSteps
      /\ Work({"dbTouched", "dbDone"}, {"dbTouched"}, {}) \in UndoneSteps
      /\ Sync({"filesTouched", "filesDone"}, {"filesTouched"}, {}) \in UndoneSteps
  BY UndoneTypes DEF Effects
<1>2. before \in Seq(UndoneSteps)
  <2>1. LoadSite \in Seq(UndoneSteps)
    BY <1>1 DEF LoadSite
  <2>2. <<Try({}), Write, Try({}), Work({"restoredir"}, {}, {}), Check({}),
          Write, Try({}), Check({})>> \in Seq(UndoneSteps)
    BY <1>1
  <2>3. DetectRoot(q, {}) \in Seq(UndoneSteps)
    BY <1>1 DEF DetectRoot
  <2> QED
    BY <2>1, <2>2, <2>3, ConcatProperties DEF RestoreFetch
<1>3. /\ RestoreDatabase(q) \in Seq(UndoneSteps) /\ RestoreFiles(q) \in Seq(UndoneSteps)
      /\ <<Check({})>> \in Seq(UndoneSteps)
  BY <1>1 DEF RestoreDatabase, RestoreFiles
<1>4. /\ imported \in Seq(UndoneSteps) /\ checked \in Seq(UndoneSteps)
      /\ whole \in Seq(UndoneSteps)
  BY <1>2, <1>3, ConcatProperties
<1>5. Seq(UndoneSteps) \subseteq Seq(Steps)
  BY SeqMonotonic DEF UndoneSteps
<1>6. Programs[q] = whole \o <<Done>>
  BY DEF Programs, Program, RestoreProgram
<1>7. ASSUME q.db PROVE Yields(whole, "dbDone")
  <2>1. RestoreDatabase(q)[4] = Work({"dbTouched", "dbDone"}, {"dbTouched"}, {})
        /\ Len(RestoreDatabase(q)) = 4
    BY <1>7 DEF RestoreDatabase
  <2>2. Yields(RestoreDatabase(q), "dbDone")
    BY <2>1 DEF Yields, Gain, Work
  <2>3. Yields(imported, "dbDone")
    BY <1>2, <1>3, <1>5, <2>2, ConcatYields
  <2>4. Yields(checked, "dbDone")
    BY <1>3, <1>4, <1>5, <2>3, ConcatYields
  <2> QED
    BY <1>3, <1>4, <1>5, <2>4, ConcatYields
<1>8. ASSUME q.files PROVE Yields(whole, "filesDone")
  <2>1. RestoreFiles(q)[2] = Sync({"filesTouched", "filesDone"}, {"filesTouched"}, {})
        /\ Len(RestoreFiles(q)) = 2
    BY <1>8 DEF RestoreFiles
  <2>2. Yields(RestoreFiles(q), "filesDone")
    BY <2>1 DEF Yields, Gain, Sync
  <2> QED
    BY <1>3, <1>4, <1>5, <2>2, ConcatYields
<1> QED
  BY <1>4, <1>6, <1>7, <1>8, EndYieldsFirst
----------------------------------------------------------------------------
(* Handover. *)

\* Handler, recovery and channel carry the request the client sent: a row that
\* is queued, or was when it was listed, still holds it.
Carried ==
  /\ \A i \in 1..Len(chan) : chan[i].req = request[chan[i].job]
  /\ worker.job # NoJob => worker.req = request[worker.job]
  /\ \A j \in Jobs : rows[j].status = "queued" \/ j \in todo => rows[j].result = "request"

Waits(j) == j \in InChannel \cup Posting \cup todo

\* A completed row is the work of nobody, but for the deferred calls.
Finished ==
  \A j \in Jobs : rows[j].status = "completed" =>
    /\ ~Waits(j)
    /\ worker.job = j => worker.stage = "returning" /\ worker.undo = {}

Staged ==
  /\ worker.stage # "step" => worker.pc > 1
  /\ worker.stage # "returning" => worker.undo = {}

Handover == Carried /\ Finished /\ Staged

LEMMA HandoverInit == Init => Handover
<1> SUFFICES ASSUME Init PROVE Handover
  OBVIOUS
<1>1. \A j \in Jobs : rows[j].status = "absent"
  BY DEF Init, NoRow
<1> QED
  BY <1>1 DEF Init, Handover, Carried, Finished, Staged, Idle

\* A step that neither touches the channel nor hands over a job.
LEMMA HandoverKept ==
  ASSUME TypeInv, Handover, UNCHANGED <<chan, todo, worker, request>>,
         \A j \in Posting' : j \in Posting \/ rows'[j].status # "completed",
         \A j \in Jobs : /\ rows'[j].status = "queued" => rows'[j].result = "request"
                         /\ j \in todo => rows'[j].result = rows[j].result
                         /\ rows'[j].status = "completed" => rows[j].status = "completed"
  PROVE  Handover'
<1>1. Carried'
  <2>1. \A i \in 1..Len(chan') : chan'[i].req = request'[chan'[i].job]
    BY DEF Handover, Carried
  <2>2. worker'.job # NoJob => worker'.req = request'[worker'.job]
    BY DEF Handover, Carried
  <2>3. \A j \in Jobs : rows'[j].status = "queued" \/ j \in todo' => rows'[j].result = "request"
    BY DEF Handover, Carried
  <2> QED
    BY <2>1, <2>2, <2>3 DEF Carried
<1>2. Finished'
  <2>1. ASSUME NEW j \in Jobs, rows'[j].status = "completed"
        PROVE  /\ ~Waits(j)'
               /\ worker'.job = j => worker'.stage = "returning" /\ worker'.undo = {}
    <3>1. /\ ~Waits(j)
          /\ worker.job = j => worker.stage = "returning" /\ worker.undo = {}
      BY <2>1 DEF Handover, Finished
    <3> QED
      BY <2>1, <3>1 DEF Waits, InChannel
  <2> QED
    BY <2>1 DEF Finished
<1>3. Staged'
  BY DEF Handover, Staged
<1> QED
  BY <1>1, <1>2, <1>3 DEF Handover

\* A step of processJob: at most the row of the job in hand changes.
LEMMA HandoverByWorker ==
  ASSUME TypeInv, Placement, Handover, NEW j \in Jobs, worker.job = j,
         UNCHANGED <<chan, todo, client, request>>,
         worker'.job = j, worker'.req = worker.req, Staged',
         \A k \in Jobs \ {j} : rows'[k] = rows[k],
         rows'[j] = rows[j] \/ rows'[j].status # "queued",
         rows'[j].status = "completed" => worker'.stage = "returning" /\ worker'.undo = {}
  PROVE  Handover'
<1>1. j \notin InChannel \cup Posting \cup todo
  BY DEF Placement, NoDuplicateDelivery
<1>2. Carried'
  BY <1>1 DEF Handover, Carried
<1>3. Finished'
  <2>1. ASSUME NEW k \in Jobs, rows'[k].status = "completed"
        PROVE  /\ ~Waits(k)'
               /\ worker'.job = k => worker'.stage = "returning" /\ worker'.undo = {}
    <3>1. CASE k = j
      BY <1>1, <2>1, <3>1 DEF Waits, InChannel, Posting
    <3>2. CASE k # j
      BY <2>1, <3>2 DEF Handover, Finished, Waits, InChannel, Posting
    <3> QED
      BY <3>1, <3>2
  <2> QED
    BY <2>1 DEF Finished
<1> QED
  BY <1>2, <1>3 DEF Handover

\* What a status write makes of the rows.
LEMMA UpdateRows ==
  ASSUME TypeInv, NEW j \in Jobs, NEW status \in Statuses, NEW result,
         UpdateJobStatus(j, status, result)
  PROVE  /\ \A k \in Jobs \ {j} : rows'[k] = rows[k]
         /\ rows'[j] = rows[j] \/ rows'[j].status = status
<1>1. rows \in [Jobs -> Row]
  BY DEF TypeInv, TypeOK
<1>2. CASE UNCHANGED rows
  BY <1>2
<1>3. CASE rows' = [rows EXCEPT ![j].status = status, ![j].result = result]
  BY <1>1, <1>3 DEF Row
<1> QED
  BY <1>2, <1>3 DEF UpdateJobStatus

LEMMA HandoverStep ==
  TypeInv /\ Placement /\ Ordering /\ Handover /\ [Next]_vars => Handover'
<1> SUFFICES ASSUME TypeInv, Placement, Ordering, Handover, [Next]_vars PROVE Handover'
  OBVIOUS
<1>0. /\ chan \in Seq(Tuple) /\ rows \in [Jobs -> Row]
      /\ client \in [Jobs -> {"new", "posting", "accepted", "refused", "lost"}]
      /\ request \in [Jobs -> AllRequests]
      /\ todo \subseteq Jobs /\ worker \in Worker /\ NoJob \notin Jobs
      /\ worker.pc \in Nat \ {0}
  BY JobAssumption DEF TypeInv, TypeOK, Worker
<1>1. ASSUME NEW j \in Jobs, CreateJob(j) PROVE Handover'
  <2>1. /\ j \notin todo /\ rows'[j] = NewRow(clock + 1)
        /\ \A k \in Jobs \ {j} : rows'[k] = rows[k]
        /\ Posting' = Posting \cup {j}
        /\ UNCHANGED <<chan, todo, worker, request>>
    BY <1>0, <1>1 DEF CreateJob, Placement, NewIsNowhere, Posting
  <2>2. rows'[j].status = "queued" /\ rows'[j].result = "request"
    BY <2>1 DEF NewRow
  <2> QED
    BY <2>1, <2>2, HandoverKept DEF Handover, Carried
<1>2. ASSUME NEW j \in Jobs, CreateJobFails(j) \/ QueueFull(j) PROVE Handover'
  <2>1. /\ UNCHANGED <<rows, chan, todo, worker, request>> /\ Posting' \subseteq Posting
    BY <1>0, <1>2 DEF CreateJobFails, QueueFull, Posting
  <2> QED
    BY <2>1, HandoverKept DEF Handover, Carried
<1>3. ASSUME NEW j \in Jobs, NEW req, Append(chan, [job |-> j, req |-> req]) = chan',
             req = request[j], Waits(j), request' = request, rows' = rows,
             worker' = worker, req \in AllRequests,
             todo' \subseteq todo, Posting' \subseteq Posting
      PROVE  Handover'
  <2>1. [job |-> j, req |-> req] \in Tuple
    BY <1>3 DEF Tuple
  <2>2. /\ Len(chan') = Len(chan) + 1 /\ Len(chan) \in Nat
        /\ \A i \in 1..Len(chan) : chan'[i] = chan[i]
        /\ chan'[Len(chan) + 1] = [job |-> j, req |-> req]
    BY <1>0, <1>3, <2>1, AppendProperties, LenProperties
  <2>3. InChannel' = InChannel \cup {j}
    BY <1>0, <1>3, <2>1, AppendToChannel DEF InChannel
  <2>4. Carried'
    <3>1. ASSUME NEW i \in 1..Len(chan') PROVE chan'[i].req = request[chan'[i].job]
      <4>1. CASE i = Len(chan) + 1
        BY <1>3, <2>2, <4>1
      <4>2. CASE i # Len(chan) + 1
        <5>1. i \in 1..Len(chan)
          BY <2>2, <4>2
        <5> QED
          BY <2>2, <5>1 DEF Handover, Carried
      <4> QED
        BY <4>1, <4>2
    <3> QED
      BY <1>3, <3>1 DEF Handover, Carried
  <2>5. Finished' /\ Staged'
    BY <1>3, <2>3 DEF Handover, Finished, Waits, Staged
  <2> QED
    BY <2>4, <2>5 DEF Handover
<1>4. ASSUME NEW j \in Jobs, SendJob(j) PROVE Handover'
  <2>1. Posting' \subseteq Posting /\ Waits(j)
    BY <1>0, <1>4 DEF SendJob, Posting, Waits
  <2> QED
    BY <1>0, <1>3, <1>4, <2>1 DEF SendJob, observed
<1>5. ASSUME NEW j \in Jobs, CancelJob(j) PROVE Handover'
  <2>1. /\ UNCHANGED <<chan, todo, worker, request, client>>
        /\ rows' = rows \/ rows' = [rows EXCEPT ![j].status = "cancelled"]
    BY <1>5 DEF CancelJob, observed
  <2>2. \A k \in Jobs : rows'[k] = rows[k] \/
          (rows'[k].status = "cancelled" /\ rows'[k].result = rows[k].result)
    BY <1>0, <2>1 DEF Row
  <2> QED
    BY <2>1, <2>2, HandoverKept DEF Handover, Carried, Posting
<1>6. ASSUME NEW j \in Jobs, DeleteJob(j) PROVE Handover'
  <2>1. /\ UNCHANGED <<chan, todo, worker, request, client>> /\ todo = {}
        /\ rows'[j] = NoRow /\ \A k \in Jobs \ {j} : rows'[k] = rows[k]
    BY <1>0, <1>6 DEF DeleteJob, observed, Ordering, RecoveryFirst
  <2> QED
    BY <2>1, HandoverKept DEF Handover, Carried, Posting, NoRow
<1>7. CASE Dequeue
  <2>1. /\ chan # <<>> /\ chan' = Tail(chan) /\ UNCHANGED <<rows, todo, client, request>>
        /\ worker' = [Idle EXCEPT !.job = Head(chan).job, !.req = Head(chan).req]
    BY <1>7 DEF Dequeue, observed
  <2>2. /\ Head(chan) = chan[1] /\ Len(chan) \in Nat \ {0}
        /\ Len(Tail(chan)) = Len(chan) - 1
        /\ \A i \in 1..Len(Tail(chan)) : Tail(chan)[i] = chan[i + 1]
    BY <1>0, <2>1, HeadTailProperties, EmptySeq, LenProperties
  <2>3. /\ worker'.job = Head(chan).job /\ worker'.req = Head(chan).req
        /\ worker'.stage = "step" /\ worker'.undo = {}
    BY <2>1 DEF Idle
  <2>4. JobsOf(chan) = JobsOf(Tail(chan)) \cup {Head(chan).job}
    BY <1>0, <2>1, TakeFromChannel
  <2>5. Carried'
    <3>1. \A i \in 1..Len(chan') : i + 1 \in 1..Len(chan) /\ chan'[i] = chan[i + 1]
      BY <2>1, <2>2
    <3>2. 1 \in 1..Len(chan)
      BY <2>2
    <3> QED
      BY <2>1, <2>2, <2>3, <3>1, <3>2 DEF Handover, Carried
  <2>6. Finished'
    BY <2>1, <2>3, <2>4 DEF Handover, Finished, Waits, InChannel, Posting
  <2>7. Staged'
    BY <2>3 DEF Staged
  <2> QED
    BY <2>5, <2>6, <2>7 DEF Handover
<1>8. ASSUME worker.job # NoJob PROVE worker.job \in Jobs
  BY <1>0, <1>8 DEF Worker
<1>9. CASE WriteRunning
  <2>1. /\ worker.job \in Jobs /\ UpdateJobStatus(worker.job, "running", "empty")
        /\ UNCHANGED <<chan, todo, client, request>>
        /\ worker' = [worker EXCEPT !.pc = @ + 1] /\ worker.stage = "step"
    BY <1>8, <1>9 DEF WriteRunning, At, Doing, Advance
  <2>2. /\ worker'.job = worker.job /\ worker'.req = worker.req /\ worker'.stage = "step"
        /\ worker'.undo = worker.undo /\ worker'.pc = worker.pc + 1
    BY <1>0, <2>1 DEF Worker
  <2>3. Staged' /\ rows[worker.job].status # "completed"
    BY <2>1, <2>2 DEF Handover, Staged, Finished
  <2>4. /\ \A k \in Jobs \ {worker.job} : rows'[k] = rows[k]
        /\ rows'[worker.job] = rows[worker.job] \/ rows'[worker.job].status = "running"
    BY <2>1, UpdateRows DEF Statuses
  <2> QED
    BY <2>1, <2>2, <2>3, <2>4, HandoverByWorker
<1>10. CASE ReportFile
  <2>1. /\ worker.job \in Jobs /\ UpdateJobStatus(worker.job, "running", "empty")
        /\ UNCHANGED <<chan, todo, client, request, worker>> /\ worker.stage = "step"
    BY <1>8, <1>10 DEF ReportFile, At, Doing
  <2>2. Staged' /\ rows[worker.job].status # "completed"
    BY <2>1 DEF Handover, Staged, Finished
  <2>3. /\ \A k \in Jobs \ {worker.job} : rows'[k] = rows[k]
        /\ rows'[worker.job] = rows[worker.job] \/ rows'[worker.job].status = "running"
    BY <2>1, UpdateRows DEF Statuses
  <2> QED
    BY <2>1, <2>2, <2>3, HandoverByWorker
<1>11. CASE WorkSucceeds \/ CheckPasses
  <2>1. /\ worker.job \in Jobs /\ UNCHANGED <<rows, chan, todo, client, request>>
        /\ worker' = [worker EXCEPT !.pc = @ + 1] /\ worker.stage = "step"
    BY <1>8, <1>11 DEF WorkSucceeds, CheckPasses, At, Doing, Advance
  <2>2. /\ worker'.job = worker.job /\ worker'.req = worker.req /\ worker'.stage = "step"
        /\ worker'.undo = worker.undo /\ worker'.pc = worker.pc + 1
    BY <1>0, <2>1 DEF Worker
  <2>3. Staged' /\ rows[worker.job].status # "completed"
    BY <2>1, <2>2 DEF Handover, Staged, Finished
  <2> QED
    BY <2>1, <2>2, <2>3, HandoverByWorker
<1>12. CASE WorkFails
  <2>1. /\ worker.job \in Jobs /\ UNCHANGED <<rows, chan, todo, client, request>>
        /\ worker' = [worker EXCEPT !.stage = "failing"] /\ worker.stage = "step"
        /\ Current.op # "write"
    BY <1>8, <1>12 DEF WorkFails, Remove, At, Doing
  <2>2. /\ worker'.job = worker.job /\ worker'.req = worker.req /\ worker'.stage = "failing"
        /\ worker'.undo = worker.undo /\ worker'.pc = worker.pc
    BY <1>0, <2>1 DEF Worker
  <2>3. worker.pc > 1
    BY <1>0, <2>1, FirstIsWrite
  <2>4. Staged' /\ rows[worker.job].status # "completed"
    BY <2>1, <2>2, <2>3 DEF Handover, Staged, Finished
  <2> QED
    BY <2>1, <2>2, <2>4, HandoverByWorker
<1>13. CASE SetError
  <2>1. /\ worker.job \in Jobs /\ UpdateJobStatus(worker.job, "failed", "empty")
        /\ UNCHANGED <<chan, todo, client, request>>
        /\ worker' = [worker EXCEPT !.stage = "returning"] /\ worker.stage = "failing"
    BY <1>8, <1>13 DEF SetError
  <2>2. /\ worker'.job = worker.job /\ worker'.req = worker.req /\ worker'.stage = "returning"
        /\ worker'.undo = worker.undo /\ worker'.pc = worker.pc
    BY <1>0, <2>1 DEF Worker
  <2>3. Staged' /\ rows[worker.job].status # "completed"
    BY <2>1, <2>2 DEF Handover, Staged, Finished
  <2>4. /\ \A k \in Jobs \ {worker.job} : rows'[k] = rows[k]
        /\ rows'[worker.job] = rows[worker.job] \/ rows'[worker.job].status = "failed"
    BY <2>1, UpdateRows DEF Statuses
  <2> QED
    BY <2>1, <2>2, <2>3, <2>4, HandoverByWorker
<1>14. CASE CheckCancels
  <2>1. /\ worker.job \in Jobs /\ UpdateJobStatus(worker.job, "cancelled", "empty")
        /\ UNCHANGED <<chan, todo, client, request>>
        /\ worker' = [worker EXCEPT !.stage = "returning", !.undo = Current.undo]
        /\ worker.stage = "step" /\ Current.op # "write"
    BY <1>8, <1>14 DEF CheckCancels, At, Doing
  <2>2. /\ worker'.job = worker.job /\ worker'.req = worker.req /\ worker'.stage = "returning"
        /\ worker'.pc = worker.pc
    BY <1>0, <2>1 DEF Worker
  <2>3. Staged' /\ rows[worker.job].status # "completed"
    BY <1>0, <2>1, <2>2, FirstIsWrite DEF Handover, Staged, Finished
  <2>4. /\ \A k \in Jobs \ {worker.job} : rows'[k] = rows[k]
        /\ rows'[worker.job] = rows[worker.job] \/ rows'[worker.job].status = "cancelled"
    BY <2>1, UpdateRows DEF Statuses
  <2> QED
    BY <2>1, <2>2, <2>3, <2>4, HandoverByWorker
<1>15. CASE SetResult
  <2>1. /\ worker.job \in Jobs /\ UpdateJobStatus(worker.job, "completed", "report")
        /\ UNCHANGED <<chan, todo, client, request>>
        /\ worker' = [worker EXCEPT !.stage = "returning"]
        /\ worker.stage = "step" /\ Current.op # "write"
    BY <1>8, <1>15 DEF SetResult, At, Doing
  <2>2. /\ worker'.job = worker.job /\ worker'.req = worker.req /\ worker'.stage = "returning"
        /\ worker'.undo = worker.undo /\ worker'.pc = worker.pc
    BY <1>0, <2>1 DEF Worker
  <2>3. Staged' /\ worker'.undo = {}
    BY <1>0, <2>1, <2>2, FirstIsWrite DEF Handover, Staged
  <2>4. /\ \A k \in Jobs \ {worker.job} : rows'[k] = rows[k]
        /\ rows'[worker.job] = rows[worker.job] \/ rows'[worker.job].status = "completed"
    BY <2>1, UpdateRows DEF Statuses
  <2> QED
    BY <2>1, <2>2, <2>3, <2>4, HandoverByWorker
<1>16. CASE Return
  <2>1. UNCHANGED <<rows, chan, todo, client, request>> /\ worker' = Idle
    BY <1>16 DEF Return, Remove
  <2>2. worker'.job = NoJob /\ worker'.stage = "step" /\ worker'.undo = {}
    BY <2>1 DEF Idle
  <2> QED
    BY <1>0, <2>1, <2>2
    DEF Handover, Carried, Finished, Waits, InChannel, Posting, Staged
<1>17. CASE Crash
  <2>1. /\ chan' = <<>> /\ todo' = {} /\ worker' = Idle /\ UNCHANGED <<rows, request>>
        /\ Posting' = {} /\ InChannel' = {}
    BY <1>17, EmptyChannel DEF Crash, Posting, InChannel
  <2>2. worker'.job = NoJob /\ worker'.stage = "step" /\ worker'.undo = {}
    BY <2>1 DEF Idle
  <2>3. Carried'
    BY <2>1, <2>2 DEF Handover, Carried
  <2> QED
    BY <1>0, <2>1, <2>2, <2>3 DEF Handover, Finished, Waits, Staged
<1>18. CASE StartWorker
  <2>1. /\ UNCHANGED <<rows, chan, worker, client, request>>
        /\ todo' = {j \in Jobs : rows[j].status = "queued"}
    BY <1>18 DEF StartWorker, ListQueuedJobs, observed
  <2> QED
    BY <2>1 DEF Handover, Carried, Finished, Waits, InChannel, Posting, Staged
<1>19. ASSUME NEW j \in Jobs, RecoverJob(j) PROVE Handover'
  <2>1. /\ j \in todo /\ todo' \subseteq todo
        /\ UNCHANGED <<rows, worker, client, request>>
        /\ chan' = Append(chan, [job |-> j, req |-> RecoveredRequest(j)])
    BY <1>19 DEF RecoverJob, observed
  <2>2. RecoveredRequest(j) = request[j]
    BY <2>1 DEF Handover, Carried, RecoveredRequest
  <2> QED
    BY <1>0, <1>3, <2>1, <2>2 DEF Waits, Posting
<1>20. CASE RecoveryFails \/ Serve \/ Hang \/ UNCHANGED vars
  <2>1. UNCHANGED <<rows, chan, todo, worker, client, request>>
    BY <1>20 DEF RecoveryFails, Serve, Hang, vars, system, observed
  <2> QED
    BY <2>1, HandoverKept DEF Handover, Carried, Posting
<1> QED
  BY <1>1, <1>2, <1>4, <1>5, <1>6, <1>7, <1>9, <1>10, <1>11, <1>12, <1>13, <1>14,
     <1>15, <1>16, <1>17, <1>18, <1>19, <1>20
  DEF Next, Submit, Enqueue, Manage, ProcessJob, Restart, Recover

THEOREM HandoverCorrect == Spec => []Handover
BY TypeCorrect, PlacementCorrect, OrderingCorrect, HandoverInit, HandoverStep, PTL DEF Spec
----------------------------------------------------------------------------
(* Effects. *)

\* What the steps the worker has passed add.
Acquired == UNION {Gain(Programs[worker.req][i]) : i \in 1..(worker.pc - 1)}

\* A job never begun has done nothing.
Untouched(j) == starts[j] = 0 => fx[j] = {} /\ outcome[j] \in {"none", "interrupted"}

\* The first execution of a job has had the effects of the steps it passed, and
\* has no outcome before it returns.
FirstRun(j) ==
  Begun(j) /\ starts[j] = 1 =>
    /\ worker.stage = "step" => fx[j] \subseteq Acquired
    /\ worker.stage # "returning" => outcome[j] \in {"none", "interrupted"}

\* An import a worker has passed is not undone.
ImportStays(j) ==
  worker.job = j /\ worker.stage = "step" => Acquired \cap Imported \subseteq fx[j]

\* ReturnLeavesNoTemp, also for a job that is about to be begun again.
TempGone(j) ==
  outcome[j] \in Terminal /\ starts[j] = 1 /\ ~Begun(j) =>
    fx[j] \cap Deferred \subseteq stuck[j]

CancelClean(j) ==
  outcome[j] = "cancelled" /\ starts[j] = 1 => fx[j] \cap Lasting = {}

\* The directory of a cancelled backup is gone, or its removal is under way or
\* has failed.
WorkCleared(j) ==
  outcome[j] = "cancelled" /\ starts[j] = 1 /\ "workdir" \in fx[j] =>
    \/ "workdir" \in stuck[j]
    \/ Begun(j) /\ worker.stage = "returning" /\ "workdir" \in worker.undo

Whole(j) ==
  /\ request[j].db => "dbDone" \in fx[j]
  /\ request[j].files => "filesDone" \in fx[j]

RestoreWhole(j) == rows[j].status = "completed" /\ request[j].type = "restore" => Whole(j)

EffectsOf(j) ==
  /\ Untouched(j) /\ FirstRun(j) /\ ImportStays(j)
  /\ TempGone(j) /\ CancelClean(j) /\ WorkCleared(j) /\ RestoreWhole(j)

AllEffects == \A j \in Jobs : EffectsOf(j)

LEMMA EffectsInit == Init => AllEffects
<1> SUFFICES ASSUME Init, NEW j \in Jobs PROVE EffectsOf(j)
  BY DEF AllEffects
<1>1. /\ starts[j] = 0 /\ fx[j] = {} /\ outcome[j] = "none"
      /\ rows[j].status = "absent" /\ worker.job = NoJob
  BY DEF Init, NoRow, Idle
<1>2. Untouched(j) /\ FirstRun(j) /\ ImportStays(j)
  BY <1>1, JobAssumption DEF Untouched, FirstRun, ImportStays
<1>3. TempGone(j) /\ CancelClean(j) /\ WorkCleared(j) /\ RestoreWhole(j)
  BY <1>1 DEF TempGone, CancelClean, WorkCleared, RestoreWhole, Terminal
<1> QED
  BY <1>2, <1>3 DEF EffectsOf

\* What a job has done stays as it is while the worker has another in hand, or
\* has just taken or just left it.
LEMMA OtherJob ==
  ASSUME NEW j \in Jobs, EffectsOf(j), worker'.job # j \/ worker'.pc = 1,
         ~Begun(j), request' = request,
         fx'[j] = fx[j], stuck'[j] = stuck[j], starts'[j] = starts[j],
         outcome'[j] = outcome[j],
         rows'[j].status = "completed" => rows[j].status = "completed"
  PROVE  EffectsOf(j)'
<1>1. Untouched(j)' /\ FirstRun(j)'
  BY DEF EffectsOf, Untouched, FirstRun, Begun
<1>2. ImportStays(j)'
  <2>1. worker'.pc = 1 => Acquired' = {}
    BY DEF Acquired
  <2> QED
    BY <2>1 DEF ImportStays
<1>3. TempGone(j)' /\ CancelClean(j)' /\ WorkCleared(j)' /\ RestoreWhole(j)'
  BY DEF EffectsOf, TempGone, CancelClean, WorkCleared, RestoreWhole, Whole
<1> QED
  BY <1>1, <1>2, <1>3 DEF EffectsOf

\* A step of handlers, crashes or recovery that does nothing to the world.
LEMMA EffectsKept ==
  ASSUME AllEffects, UNCHANGED <<worker, request, outcome, fx, stuck, starts>>,
         \A j \in Jobs : rows'[j].status = "completed" => rows[j].status = "completed"
  PROVE  AllEffects'
<1> SUFFICES ASSUME NEW j \in Jobs PROVE EffectsOf(j)'
  BY DEF AllEffects
<1>1. EffectsOf(j) /\ Acquired' = Acquired /\ Begun(j)' = Begun(j)
  BY DEF AllEffects, Acquired, Begun
<1>2. Untouched(j)' /\ FirstRun(j)' /\ ImportStays(j)'
  BY <1>1 DEF EffectsOf, Untouched, FirstRun, ImportStays
<1>3. TempGone(j)' /\ CancelClean(j)' /\ WorkCleared(j)' /\ RestoreWhole(j)'
  BY <1>1 DEF EffectsOf, TempGone, CancelClean, WorkCleared, RestoreWhole, Whole
<1> QED
  BY <1>2, <1>3 DEF EffectsOf

\* A step of processJob concerns the job in hand alone.
LEMMA EffectsByWorker ==
  ASSUME AllEffects, TypeInv, NEW j \in Jobs, worker.job = j, worker'.job = j,
         EffectsOf(j)', request' = request,
         \A k \in Jobs \ {j} : /\ fx'[k] = fx[k] /\ stuck'[k] = stuck[k]
                               /\ starts'[k] = starts[k]
                               /\ outcome'[k] = outcome[k] /\ rows'[k] = rows[k]
  PROVE  AllEffects'
<1> SUFFICES ASSUME NEW k \in Jobs, k # j PROVE EffectsOf(k)'
  BY DEF AllEffects
<1>1. EffectsOf(k) /\ ~Begun(k)
  BY DEF AllEffects, Begun
<1> QED
  BY <1>1, OtherJob

\* Passing a step adds its effects to what has been acquired.
LEMMA AcquiredGrows ==
  ASSUME TypeInv, worker'.req = worker.req, worker'.pc = worker.pc + 1
  PROVE  Acquired' = Acquired \cup Gain(Current)
<1>1. worker.pc \in Nat \ {0}
  BY DEF TypeInv, TypeOK, Worker
<1>2. 1..(worker'.pc - 1) = (1..(worker.pc - 1)) \cup {worker.pc}
  BY <1>1
<1> QED
  BY <1>2 DEF Acquired, Current

\* What CheckCancels and SetResult rely on.
LEMMA CheckedBefore ==
  ASSUME TypeInv, Current.op = "check"
  PROVE  Acquired \cap Lasting = {}
<1>1. worker.req \in AllRequests /\ worker.pc \in 1..Len(Programs[worker.req])
  BY DEF TypeInv, TypeOK, Worker, InProgram
<1>2. \A i \in 1..(worker.pc - 1) : Programs[worker.req][i].adds \cap Lasting = {}
  BY <1>1, CancelComesFirst DEF ChecksFirst, Current
<1> QED
  BY <1>2 DEF Acquired, Gain

LEMMA ClearedThere ==
  ASSUME TypeInv, Current.op = "check", "workdir" \in Acquired
  PROVE  "workdir" \in Current.undo
<1>1. worker.req \in AllRequests /\ worker.pc \in 1..Len(Programs[worker.req])
      /\ Len(Programs[worker.req]) \in Nat
  BY ProgramsComplete, LenProperties DEF TypeInv, TypeOK, Worker, InProgram, Complete, Closing
<1>2. PICK i \in 1..(worker.pc - 1) : "workdir" \in Programs[worker.req][i].adds
  BY DEF Acquired, Gain
<1>3. i \in 1..Len(Programs[worker.req])
  BY <1>1, <1>2
<1> QED
  BY <1>1, <1>2, <1>3, WorkIsCleared DEF ClearsWork, Current

LEMMA YieldedBefore ==
  ASSUME TypeInv, Current.op = "done", worker.req.type = "restore"
  PROVE  /\ worker.req.db => "dbDone" \in Acquired
         /\ worker.req.files => "filesDone" \in Acquired
<1>1. worker.req \in AllRequests /\ worker.pc \in 1..Len(Programs[worker.req])
  BY DEF TypeInv, TypeOK, Worker, InProgram
<1>2. ASSUME NEW e, YieldsFirst(Programs[worker.req], e) PROVE e \in Acquired
  BY <1>1, <1>2 DEF YieldsFirst, Acquired, Current
<1> QED
  BY <1>1, <1>2, RestoreYields

\* The worker past its first step has begun its job, and has not completed it
\* before it returns.
LEMMA InHand ==
  ASSUME TypeInv, Accounts, Handover, AllEffects, NEW j \in Jobs, worker.job = j,
         worker.stage # "step" \/ Current.op # "write"
  PROVE  /\ worker.pc > 1 /\ Begun(j) /\ starts[j] # 0
         /\ rows[j].status = "completed" => worker.stage = "returning" /\ worker.undo = {}
         /\ EffectsOf(j)
<1>1. worker.pc \in Nat \ {0} /\ starts[j] \in Nat
  BY DEF TypeInv, TypeOK, Worker
<1>2. worker.pc > 1
  BY <1>1, FirstIsWrite DEF Handover, Staged
<1> QED
  BY <1>1, <1>2 DEF Begun, Accounts, Handover, Finished, AllEffects

LEMMA EffectsStep ==
  TypeInv /\ Placement /\ Accounts /\ Handover /\ AllEffects /\ [Next]_vars => AllEffects'
<1> SUFFICES ASSUME TypeInv, Placement, Accounts, Handover, AllEffects, [Next]_vars
             PROVE  AllEffects'
  OBVIOUS
<1>0. /\ rows \in [Jobs -> Row] /\ request \in [Jobs -> AllRequests]
      /\ starts \in [Jobs -> Nat] /\ fx \in [Jobs -> SUBSET Effects]
      /\ stuck \in [Jobs -> SUBSET Effects]
      /\ outcome \in [Jobs -> {"none", "interrupted"} \cup Terminal]
      /\ worker \in Worker /\ NoJob \notin Jobs /\ worker.pc \in Nat \ {0}
  BY JobAssumption DEF TypeInv, TypeOK, Worker
<1>1. ASSUME worker.job # NoJob PROVE worker.job \in Jobs
  BY <1>0, <1>1 DEF Worker
<1>2. ASSUME NEW j \in Jobs, CreateJob(j) PROVE AllEffects'
  <2>1. \A k \in Jobs : rows'[k].status = "completed" => rows[k].status = "completed"
    BY <1>0, <1>2 DEF CreateJob, NewRow
  <2> QED
    BY <1>2, <2>1, EffectsKept DEF CreateJob
<1>3. ASSUME NEW j \in Jobs, CreateJobFails(j) \/ SendJob(j) \/ QueueFull(j)
      PROVE  AllEffects'
  BY <1>3, EffectsKept DEF CreateJobFails, SendJob, QueueFull, observed
<1>4. ASSUME NEW j \in Jobs, CancelJob(j) \/ DeleteJob(j) PROVE AllEffects'
  <2>1. rows' = rows \/ rows' = [rows EXCEPT ![j].status = "cancelled"]
        \/ rows' = [rows EXCEPT ![j] = NoRow]
    BY <1>4 DEF CancelJob, DeleteJob
  <2>2. \A k \in Jobs : rows'[k].status = "completed" => rows[k].status = "completed"
    BY <1>0, <2>1 DEF Row, NoRow
  <2> QED
    BY <1>4, <2>2, EffectsKept DEF CancelJob, DeleteJob, observed
<1>5. CASE Restart \/ Recover \/ Serve \/ Hang \/ UNCHANGED vars
  BY <1>5, EffectsKept
  DEF Restart, StartWorker, RecoveryFails, Recover, RecoverJob, Serve, Hang, vars, system,
      observed
<1>6. CASE Dequeue
  <2>1. /\ UNCHANGED <<rows, request, outcome, fx, stuck, starts>> /\ worker.job = NoJob
        /\ worker'.pc = 1
    BY <1>6 DEF Dequeue, Idle, observed
  <2> SUFFICES ASSUME NEW j \in Jobs PROVE EffectsOf(j)'
    BY DEF AllEffects
  <2>2. EffectsOf(j) /\ ~Begun(j)
    BY <1>0, <2>1 DEF AllEffects, Begun
  <2> QED
    BY <2>1, <2>2, OtherJob
<1>7. CASE ReportFile
  <2>1. /\ worker.job \in Jobs /\ UpdateJobStatus(worker.job, "running", "empty")
        /\ UNCHANGED <<worker, request, outcome, fx, stuck, starts>>
    BY <1>1, <1>7 DEF ReportFile, At, Doing
  <2>2. \A k \in Jobs : rows'[k].status = "completed" => rows[k].status = "completed"
    BY <2>1, UpdateRows DEF Statuses
  <2> QED
    BY <2>1, <2>2, EffectsKept
<1>8. CASE WriteRunning
  <2>1. PICK j \in Jobs : worker.job = j
    BY <1>1, <1>8 DEF WriteRunning, At, Doing
  <2>2. /\ worker' = [worker EXCEPT !.pc = @ + 1] /\ UNCHANGED <<request, outcome, fx, stuck>>
        /\ UpdateJobStatus(j, "running", "empty")
        /\ starts' = IF worker.pc = 1 THEN [starts EXCEPT ![j] = @ + 1] ELSE starts
        /\ worker.stage = "step" /\ Current.op = "write"
    BY <1>8, <2>1 DEF WriteRunning, At, Doing, Advance
  <2>3. /\ worker'.job = j /\ worker'.req = worker.req /\ worker'.stage = "step"
        /\ worker'.pc = worker.pc + 1 /\ Begun(j)'
    BY <1>0, <2>1, <2>2 DEF Worker, Begun
  <2>4. Acquired' = Acquired
    BY <2>2, <2>3, AcquiredGrows DEF Gain
  <2>5. /\ \A k \in Jobs \ {j} : rows'[k] = rows[k] /\ starts'[k] = starts[k]
        /\ rows'[j].status = "completed" => rows[j].status = "completed"
    BY <1>0, <2>2, UpdateRows DEF Statuses
  <2>6. EffectsOf(j) /\ fx'[j] = fx[j] /\ outcome'[j] = outcome[j]
    BY <2>2 DEF AllEffects
  <2>7. ImportStays(j)' /\ RestoreWhole(j)' /\ TempGone(j)'
    BY <2>1, <2>2, <2>3, <2>4, <2>5, <2>6
    DEF EffectsOf, ImportStays, RestoreWhole, Whole, TempGone
  <2>8. Untouched(j)' /\ FirstRun(j)' /\ CancelClean(j)' /\ WorkCleared(j)'
    <3>1. CASE worker.pc = 1
      <4>1. starts'[j] = starts[j] + 1 /\ starts[j] \in Nat
        BY <1>0, <2>2, <3>1
      <4>2. CASE starts[j] = 0
        BY <2>6, <4>1, <4>2
        DEF EffectsOf, Untouched, FirstRun, CancelClean, WorkCleared
      <4>3. CASE starts[j] # 0
        BY <4>1, <4>3 DEF Untouched, FirstRun, CancelClean, WorkCleared
      <4> QED
        BY <4>2, <4>3
    <3>2. CASE worker.pc # 1
      <4>1. Begun(j) /\ starts'[j] = starts[j]
        BY <1>0, <2>1, <2>2, <3>2 DEF Begun
      <4> QED
        BY <2>2, <2>3, <2>4, <2>6, <4>1
        DEF EffectsOf, Untouched, FirstRun, CancelClean, WorkCleared
    <3> QED
      BY <3>1, <3>2
  <2>9. EffectsOf(j)'
    BY <2>7, <2>8 DEF EffectsOf
  <2> QED
    BY <2>1, <2>2, <2>3, <2>5, <2>9, EffectsByWorker
<1>9. CASE WorkSucceeds
  <2>1. PICK j \in Jobs : worker.job = j
    BY <1>1, <1>9 DEF WorkSucceeds, At, Doing
  <2>2. /\ worker' = [worker EXCEPT !.pc = @ + 1]
        /\ UNCHANGED <<rows, request, outcome, stuck, starts>>
        /\ fx' = [fx EXCEPT ![j] = @ \cup Current.adds]
        /\ worker.stage = "step" /\ Current.op \in {"work", "sync"}
    BY <1>9, <2>1 DEF WorkSucceeds, At, Doing, Advance
  <2>3. /\ worker'.job = j /\ worker'.req = worker.req /\ worker'.stage = "step"
        /\ worker'.pc = worker.pc + 1 /\ Begun(j)'
    BY <1>0, <2>1, <2>2 DEF Worker, Begun
  <2>4. /\ Acquired' = Acquired \cup Current.adds
        /\ fx'[j] = fx[j] \cup Current.adds /\ \A k \in Jobs \ {j} : fx'[k] = fx[k]
    BY <1>0, <2>2, <2>3, AcquiredGrows DEF Gain
  <2>5. /\ Begun(j) /\ starts[j] # 0 /\ EffectsOf(j) /\ rows[j].status # "completed"
    BY <2>1, <2>2, InHand
  <2>6. Untouched(j)' /\ FirstRun(j)' /\ ImportStays(j)'
    BY <2>1, <2>2, <2>3, <2>4, <2>5 DEF EffectsOf, Untouched, FirstRun, ImportStays
  <2>7. TempGone(j)' /\ CancelClean(j)' /\ WorkCleared(j)' /\ RestoreWhole(j)'
    BY <2>2, <2>3, <2>5
    DEF EffectsOf, FirstRun, TempGone, CancelClean, WorkCleared, RestoreWhole
  <2>8. EffectsOf(j)'
    BY <2>6, <2>7 DEF EffectsOf
  <2> QED
    BY <2>1, <2>2, <2>3, <2>4, <2>8, EffectsByWorker
<1>10. CASE WorkFails
  <2>1. PICK j \in Jobs : worker.job = j
    BY <1>1, <1>10 DEF WorkFails, Remove, At, Doing
  <2>2. /\ worker' = [worker EXCEPT !.stage = "failing"]
        /\ UNCHANGED <<rows, request, outcome, starts>>
        /\ \E left : Remove(j, Current.undo, left)
        /\ worker.stage = "step" /\ Current.op # "write"
    BY <1>10, <2>1 DEF WorkFails, At, Doing
  <2>3. worker'.job = j /\ worker'.stage = "failing" /\ worker'.pc = worker.pc
    BY <1>0, <2>1, <2>2 DEF Worker
  <2>4. \A k \in Jobs \ {j} : fx'[k] = fx[k] /\ stuck'[k] = stuck[k]
    BY <1>0, <2>2 DEF Remove
  <2>5. Begun(j) /\ Begun(j)' /\ starts[j] # 0 /\ EffectsOf(j) /\ rows[j].status # "completed"
    BY <2>1, <2>2, <2>3, InHand DEF Begun
  <2>6. Untouched(j)' /\ FirstRun(j)' /\ ImportStays(j)'
    BY <2>2, <2>3, <2>5 DEF EffectsOf, Untouched, FirstRun, ImportStays
  <2>7. TempGone(j)' /\ CancelClean(j)' /\ WorkCleared(j)' /\ RestoreWhole(j)'
    BY <2>2, <2>5 DEF EffectsOf, FirstRun, TempGone, CancelClean, WorkCleared, RestoreWhole
  <2>8. EffectsOf(j)'
    BY <2>6, <2>7 DEF EffectsOf
  <2> QED
    BY <2>1, <2>2, <2>3, <2>4, <2>8, EffectsByWorker
<1>11. CASE CheckPasses
  <2>1. PICK j \in Jobs : worker.job = j
    BY <1>1, <1>11 DEF CheckPasses, At, Doing
  <2>2. /\ worker' = [worker EXCEPT !.pc = @ + 1]
        /\ UNCHANGED <<rows, request, outcome, starts, fx, stuck>>
        /\ worker.stage = "step" /\ Current.op = "check"
    BY <1>11, <2>1 DEF CheckPasses, At, Doing, Advance
  <2>3. /\ worker'.job = j /\ worker'.req = worker.req /\ worker'.stage = "step"
        /\ worker'.pc = worker.pc + 1 /\ Begun(j)'
    BY <1>0, <2>1, <2>2 DEF Worker, Begun
  <2>4. Acquired' = Acquired
    BY <2>2, <2>3, AcquiredGrows DEF Gain
  <2>5. Begun(j) /\ EffectsOf(j)
    BY <2>1, <2>2, InHand
  <2>6. Untouched(j)' /\ FirstRun(j)' /\ ImportStays(j)'
    BY <2>1, <2>2, <2>3, <2>4, <2>5 DEF EffectsOf, Untouched, FirstRun, ImportStays
  <2>7. TempGone(j)' /\ CancelClean(j)' /\ WorkCleared(j)' /\ RestoreWhole(j)'
    BY <2>2, <2>3, <2>5
    DEF EffectsOf, FirstRun, TempGone, CancelClean, WorkCleared, RestoreWhole, Whole
  <2>8. EffectsOf(j)'
    BY <2>6, <2>7 DEF EffectsOf
  <2> QED
    BY <2>1, <2>2, <2>3, <2>8, EffectsByWorker
<1>12. CASE SetError \/ CheckCancels \/ SetResult
  <2>1. PICK j \in Jobs : worker.job = j
    BY <1>1, <1>12 DEF SetError, CheckCancels, SetResult, At, Doing
  <2>2. PICK status \in {"failed", "cancelled", "completed"} :
          /\ \E result : UpdateJobStatus(j, status, result)
          /\ outcome' = [outcome EXCEPT ![j] = status]
          /\ worker' = [worker EXCEPT !.stage = "returning"] \/
             worker' = [worker EXCEPT !.stage = "returning", !.undo = Current.undo]
          /\ UNCHANGED <<request, fx, stuck, starts>>
          /\ worker.stage # "returning"
          /\ worker.stage # "step" \/ Current.op # "write"
          /\ status = "cancelled" => /\ worker.stage = "step" /\ Current.op = "check"
                                     /\ worker' = [worker EXCEPT !.stage = "returning",
                                                                 !.undo = Current.undo]
          /\ status = "completed" => worker.stage = "step" /\ Current.op = "done"
    BY <1>12, <2>1 DEF SetError, CheckCancels, SetResult, At, Doing
  <2>3. worker'.job = j /\ worker'.stage = "returning" /\ worker'.pc = worker.pc
    BY <1>0, <2>1, <2>2 DEF Worker
  <2>4. /\ \A k \in Jobs \ {j} : rows'[k] = rows[k]
        /\ rows'[j] = rows[j] \/ rows'[j].status = status
    <3>1. PICK result : UpdateJobStatus(j, status, result)
      BY <2>2
    <3> QED
      BY <3>1, UpdateRows DEF Statuses
  <2>5. Begun(j) /\ Begun(j)' /\ starts[j] # 0 /\ EffectsOf(j) /\ rows[j].status # "completed"
    BY <2>1, <2>2, <2>3, InHand DEF Begun
  <2>6. outcome'[j] = status /\ \A k \in Jobs \ {j} : outcome'[k] = outcome[k]
    BY <1>0, <2>2
  <2>7. Untouched(j)' /\ FirstRun(j)' /\ ImportStays(j)' /\ TempGone(j)'
    BY <2>2, <2>3, <2>5 DEF Untouched, FirstRun, ImportStays, TempGone
  <2>8. CancelClean(j)' /\ WorkCleared(j)'
    <3>1. CancelClean(j)'
      BY <2>2, <2>5, <2>6, CheckedBefore DEF EffectsOf, FirstRun, CancelClean
    <3>2. SUFFICES ASSUME status = "cancelled", starts[j] = 1, "workdir" \in fx[j]
                   PROVE  "workdir" \in worker'.undo
      BY <2>2, <2>3, <2>5, <2>6, <3>1 DEF WorkCleared
    <3>3. "workdir" \in Current.undo
      BY <2>2, <2>5, <3>2, ClearedThere DEF EffectsOf, FirstRun
    <3> QED
      BY <1>0, <2>2, <3>2, <3>3 DEF Worker
  <2>9. RestoreWhole(j)'
    <3>1. SUFFICES ASSUME rows'[j].status = "completed", request[j].type = "restore"
                   PROVE  Whole(j)
      BY <2>2 DEF RestoreWhole, Whole
    <3>2. status = "completed" /\ worker.req = request[j]
      BY <1>0, <2>1, <2>4, <2>5, <3>1 DEF Handover, Carried
    <3>3. /\ request[j].db => "dbDone" \in Acquired
          /\ request[j].files => "filesDone" \in Acquired
      BY <2>2, <3>1, <3>2, YieldedBefore
    <3>4. Acquired \cap Imported \subseteq fx[j]
      BY <2>1, <2>2, <2>5, <3>2 DEF EffectsOf, ImportStays
    <3> QED
      BY <3>3, <3>4 DEF Whole, Imported
  <2>10. EffectsOf(j)'
    BY <2>7, <2>8, <2>9 DEF EffectsOf
  <2> QED
    BY <2>1, <2>2, <2>3, <2>4, <2>6, <2>10, EffectsByWorker
<1>13. CASE Return
  <2>1. PICK j \in Jobs : worker.job = j
    BY <1>1, <1>13 DEF Return, Remove
  <2>2. /\ Remove(j, worker.undo \cup Deferred, {})
        /\ worker'.job = NoJob /\ worker'.pc = 1 /\ worker.stage = "returning"
        /\ UNCHANGED <<rows, request, outcome, starts>>
    BY <1>13, <2>1 DEF Return, Idle
  <2>3. /\ \A e \in fx'[j] \cap (worker.undo \cup Deferred) : e \in stuck'[j]
        /\ fx'[j] \subseteq fx[j] /\ fx[j] \ (worker.undo \cup Deferred) \subseteq fx'[j]
        /\ stuck[j] \subseteq stuck'[j]
        /\ \A k \in Jobs \ {j} : fx'[k] = fx[k] /\ stuck'[k] = stuck[k]
    <3>1. PICK kept \in SUBSET (fx[j] \cap (worker.undo \cup Deferred)) :
            /\ fx' = [fx EXCEPT ![j] = (@ \ ((worker.undo \cup Deferred) \ kept)) \cup {}]
            /\ stuck' = [stuck EXCEPT ![j] = @ \cup kept]
      BY <2>2 DEF Remove
    <3>2. /\ fx'[j] = fx[j] \ ((worker.undo \cup Deferred) \ kept)
          /\ stuck'[j] = stuck[j] \cup kept
          /\ \A k \in Jobs \ {j} : fx'[k] = fx[k] /\ stuck'[k] = stuck[k]
      BY <1>0, <3>1
    <3> QED
      BY <3>2
  <2>4. /\ starts[j] # 0 /\ EffectsOf(j)
        /\ rows[j].status = "completed" => worker.undo = {}
    BY <2>1, <2>2, InHand
  <2>5. Untouched(j)' /\ FirstRun(j)' /\ ImportStays(j)'
    BY <1>0, <2>2, <2>4 DEF Untouched, FirstRun, ImportStays, Begun
  <2>6. TempGone(j)' /\ CancelClean(j)' /\ WorkCleared(j)'
    <3>1. TempGone(j)' /\ CancelClean(j)'
      BY <2>2, <2>3, <2>4 DEF EffectsOf, TempGone, CancelClean
    <3>2. WorkCleared(j)'
      BY <2>2, <2>3, <2>4 DEF EffectsOf, WorkCleared
    <3> QED
      BY <3>1, <3>2
  <2>7. RestoreWhole(j)'
    BY <2>2, <2>3, <2>4 DEF EffectsOf, RestoreWhole, Whole, Deferred
  <2>8. ASSUME NEW k \in Jobs \ {j} PROVE EffectsOf(k)'
    <3>1. EffectsOf(k) /\ ~Begun(k)
      BY <2>1 DEF AllEffects, Begun
    <3> QED
      BY <2>2, <2>3, <3>1, OtherJob
  <2> QED
    BY <2>5, <2>6, <2>7, <2>8 DEF AllEffects, EffectsOf
<1>14. CASE Crash
  <2>1. /\ worker'.job = NoJob /\ worker'.pc = 1 /\ UNCHANGED <<rows, request, stuck, starts>>
        /\ \A k \in Jobs : outcome'[k] = IF k = worker.job THEN "interrupted" ELSE outcome[k]
    BY <1>14 DEF Crash, Idle
  <2>2. PICK left \in CutShort :
          \A k \in Jobs : fx'[k] = IF k = worker.job THEN fx[k] \cup left ELSE fx[k]
    BY <1>14 DEF Crash
  <2> SUFFICES ASSUME NEW k \in Jobs PROVE EffectsOf(k)'
    BY DEF AllEffects
  <2>3. EffectsOf(k)
    BY DEF AllEffects
  <2>4. CASE k # worker.job
    <3>1. ~Begun(k)
      BY <2>4 DEF Begun
    <3> QED
      BY <2>1, <2>2, <2>3, <2>4, <3>1, OtherJob
  <2>5. CASE k = worker.job
    <3>1. outcome'[k] = "interrupted" /\ fx'[k] = fx[k] \cup left /\ ~Begun(k)'
      BY <1>0, <2>1, <2>2, <2>5 DEF Begun
    <3>2. Untouched(k)'
      <4>1. SUFFICES ASSUME starts[k] = 0 PROVE fx'[k] = {}
        BY <2>1, <3>1 DEF Untouched
      <4>2. ~(worker.pc > 1)
        BY <2>5, <4>1 DEF Accounts
      <4>3. worker.pc = 1
        BY <1>0, <4>2
      <4>4. left = {}
        BY <2>2, <4>3, FirstIsWrite DEF CutShort, At, Doing
      <4> QED
        BY <2>3, <3>1, <4>1, <4>4 DEF EffectsOf, Untouched
    <3>3. FirstRun(k)' /\ ImportStays(k)' /\ TempGone(k)' /\ CancelClean(k)' /\ WorkCleared(k)'
      BY <1>0, <2>1, <3>1
      DEF FirstRun, ImportStays, TempGone, CancelClean, WorkCleared, Terminal
    <3>4. RestoreWhole(k)'
      BY <2>1, <2>3, <3>1 DEF EffectsOf, RestoreWhole, Whole
    <3> QED
      BY <3>2, <3>3, <3>4 DEF EffectsOf
  <2> QED
    BY <2>4, <2>5
<1> QED
  BY <1>2, <1>3, <1>4, <1>5, <1>6, <1>7, <1>8, <1>9, <1>10, <1>11, <1>12, <1>13, <1>14
  DEF Next, Submit, Enqueue, Manage, ProcessJob

THEOREM EffectsCorrect == Spec => []AllEffects
BY TypeCorrect, PlacementCorrect, AccountsCorrect, HandoverCorrect, EffectsInit,
   EffectsStep, PTL DEF Spec

\* However processJob returns, by a result, an error or an observed cancel, the
\* job it began once has left a credential, a dump or a restore directory behind
\* only where a removal it tried has failed.
THEOREM TempNeverLeft == Spec => []ReturnLeavesNoTemp
<1>1. AllEffects => ReturnLeavesNoTemp
  BY DEF AllEffects, EffectsOf, TempGone, Begun, Deferred, ReturnLeavesNoTemp
<1> QED
  BY <1>1, EffectsCorrect, PTL

\* A job that observed its cancel has left no snapshot, no record and no changed
\* production file, and no directory but one it could not remove.
THEOREM CancelNeverStains == Spec => []HonouredCancelIsClean
<1>1. AllEffects => HonouredCancelIsClean
  BY DEF AllEffects, EffectsOf, CancelClean, WorkCleared, Lasting, Begun,
         HonouredCancelIsClean
<1> QED
  BY <1>1, EffectsCorrect, PTL

\* A row that reports a completed restore has applied all the client asked for,
\* through any crash, restart or lost write.
THEOREM RestoreNeverPartial == Spec => []CompletedRestoreIsWhole
<1>1. AllEffects => CompletedRestoreIsWhole
  BY DEF AllEffects, EffectsOf, RestoreWhole, Whole, CompletedRestoreIsWhole
<1> QED
  BY <1>1, EffectsCorrect, PTL
----------------------------------------------------------------------------
(* The order of a restore. *)

\* Steps that leave a finished import alone, and those that leave the files, too.
SparingSteps == {s \in Steps : "dbDone" \notin s.undo}
FilelessSteps == {s \in SparingSteps : "filesTouched" \notin s.adds \cup s.partial}

\* No step undoes an import; with a database to import, none touches the files
\* before the import is done.
DatabaseFirst(p, db) ==
  \A n \in 1..Len(p) :
    /\ "dbDone" \notin p[n].undo
    /\ db /\ "filesTouched" \in p[n].adds \cup p[n].partial =>
         \E i \in 1..(n - 1) : "dbDone" \in Gain(p[i])

LEMMA FilelessTypes ==
  /\ Write \in FilelessSteps /\ Done \in FilelessSteps
  /\ \A e, l, u \in SUBSET Effects : "filesTouched" \notin e \cup l /\ "dbDone" \notin u =>
       Work(e, l, u) \in FilelessSteps /\ Sync(e, l, u) \in FilelessSteps
  /\ \A u \in SUBSET Effects : "dbDone" \notin u =>
       Check(u) \in FilelessSteps /\ Try(u) \in FilelessSteps
BY StepTypes DEF FilelessSteps, SparingSteps, Write, Work, Sync, Check, Try, Done

LEMMA FilelessFirst ==
  ASSUME NEW p \in Seq(FilelessSteps), NEW db
  PROVE  DatabaseFirst(p, db)
BY ElementOfSeq DEF DatabaseFirst, FilelessSteps, SparingSteps

LEMMA ConcatFirst ==
  ASSUME NEW p \in Seq(FilelessSteps), NEW q \in Seq(SparingSteps), NEW db,
         db => Yields(p, "dbDone")
  PROVE  DatabaseFirst(p \o q, db)
<1>1. /\ Len(p) \in Nat /\ \A i \in 1..Len(p) : p[i] \in FilelessSteps
      /\ Len(q) \in Nat /\ \A i \in 1..Len(q) : q[i] \in SparingSteps
  BY ElementOfSeq, LenProperties
<1>2. p \in Seq(SparingSteps)
  BY SeqMonotonic DEF FilelessSteps
<1>3. /\ Len(p \o q) = Len(p) + Len(q)
      /\ \A i \in 1..(Len(p) + Len(q)) :
           (p \o q)[i] = IF i <= Len(p) THEN p[i] ELSE q[i - Len(p)]
  BY <1>2, ConcatProperties
<1> SUFFICES ASSUME NEW n \in 1..(Len(p) + Len(q))
             PROVE  /\ "dbDone" \notin (p \o q)[n].undo
                    /\ db /\ "filesTouched" \in (p \o q)[n].adds \cup (p \o q)[n].partial =>
                         \E i \in 1..(n - 1) : "dbDone" \in Gain((p \o q)[i])
  BY <1>3 DEF DatabaseFirst
<1>4. CASE n <= Len(p)
  <2>1. n \in 1..Len(p) /\ (p \o q)[n] = p[n]
    BY <1>1, <1>3, <1>4
  <2> QED
    BY <1>1, <2>1 DEF FilelessSteps, SparingSteps
<1>5. CASE ~(n <= Len(p))
  <2>1. n - Len(p) \in 1..Len(q) /\ (p \o q)[n] = q[n - Len(p)]
    BY <1>1, <1>3, <1>5
  <2>2. "dbDone" \notin (p \o q)[n].undo
    BY <1>1, <2>1 DEF SparingSteps
  <2>3. ASSUME db PROVE \E i \in 1..(n - 1) : "dbDone" \in Gain((p \o q)[i])
    <3>1. PICK i \in 1..Len(p) : "dbDone" \in Gain(p[i])
      BY <2>3 DEF Yields
    <3>2. i \in 1..(n - 1) /\ (p \o q)[i] = p[i]
      BY <1>1, <1>3, <1>5
    <3> QED
      BY <3>1, <3>2
  <2> QED
    BY <2>2, <2>3
<1> QED
  BY <1>4, <1>5

LEMMA RestoreFirst ==
  ASSUME NEW q \in AllRequests
  PROVE  DatabaseFirst(RestoreProgram(q), q.db)
<1> DEFINE before == LoadSite \o RestoreFetch(q)
           imported == before \o RestoreDatabase(q)
           checked == imported \o <<Check({})>>
           rest == RestoreFiles(q) \o <<Done>>
<1>1. /\ Write \in FilelessSteps /\ Try({}) \in FilelessSteps
      /\ Check({}) \in FilelessSteps /\ Done \in FilelessSteps
      /\ Work({"restoredir"}, {}, {}) \in FilelessSteps
      /\ Work({"remote"}, {"remote"}, {}) \in FilelessSteps
      /\ Work({"dbTouched", "dbDone"}, {"dbTouched"}, {}) \in FilelessSteps
  BY FilelessTypes DEF Effects
<1>2. before \in Seq(FilelessSteps)
  <2>1. LoadSite \in Seq(FilelessSteps)
    BY <1>1 DEF LoadSite
  <2>2. <<Try({}), Write, Try({}), Work({"restoredir"}, {}, {}), Check({}),
          Write, Try({}), Check({})>> \in Seq(FilelessSteps)
    BY <1>1
  <2>3. DetectRoot(q, {}) \in Seq(FilelessSteps)
    BY <1>1 DEF DetectRoot
  <2> QED
    BY <2>1, <2>2, <2>3, ConcatProperties DEF RestoreFetch
<1>3. RestoreDatabase(q) \in Seq(FilelessSteps) /\ <<Check({})>> \in Seq(FilelessSteps)
  BY <1>1 DEF RestoreDatabase
<1>4. imported \in Seq(FilelessSteps) /\ checked \in Seq(FilelessSteps)
  BY <1>2, <1>3, ConcatProperties
<1>5. RestoreFiles(q) \in Seq(SparingSteps) /\ rest \in Seq(SparingSteps)
  <2>1. /\ Write \in SparingSteps /\ Done \in SparingSteps
        /\ Sync({"filesTouched", "filesDone"}, {"filesTouched"}, {}) \in SparingSteps
    BY <1>1, StepTypes DEF FilelessSteps, SparingSteps, Sync, Effects
  <2>2. RestoreFiles(q) \in Seq(SparingSteps) /\ <<Done>> \in Seq(SparingSteps)
    BY <2>1 DEF RestoreFiles
  <2> QED
    BY <2>2, ConcatProperties
<1>6. Seq(FilelessSteps) \subseteq Seq(Steps) /\ Seq(FilelessSteps) \subseteq Seq(SparingSteps)
  BY SeqMonotonic DEF FilelessSteps, SparingSteps
<1>7. ASSUME q.db PROVE Yields(checked, "dbDone")
  <2>1. RestoreDatabase(q)[4] = Work({"dbTouched", "dbDone"}, {"dbTouched"}, {})
        /\ Len(RestoreDatabase(q)) = 4
    BY <1>7 DEF RestoreDatabase
  <2>2. Yields(RestoreDatabase(q), "dbDone")
    BY <2>1 DEF Yields, Gain, Work
  <2>3. Yields(imported, "dbDone")
    BY <1>2, <1>3, <1>6, <2>2, ConcatYields
  <2> QED
    BY <1>3, <1>4, <1>6, <2>3, ConcatYields
<1>8. RestoreProgram(q) = checked \o rest
  <2>1. RestoreProgram(q) = (checked \o RestoreFiles(q)) \o <<Done>>
    BY DEF RestoreProgram
  <2>2. /\ checked \in Seq(SparingSteps) /\ RestoreFiles(q) \in Seq(SparingSteps)
        /\ <<Done>> \in Seq(SparingSteps)
    <3>1. Done \in SparingSteps
      BY <1>1 DEF FilelessSteps
    <3>2. <<Done>> \in Seq(SparingSteps)
      BY <3>1
    <3> HIDE DEF checked
    <3> QED
      BY <1>4, <1>5, <1>6, <3>2
  <2>3. (checked \o RestoreFiles(q)) \o <<Done>> = checked \o rest
    <3> HIDE DEF checked
    <3> QED
      BY <2>2, ConcatAssociative
  <2> QED
    BY <2>1, <2>3
<1> QED
  BY <1>4, <1>5, <1>7, <1>8, ConcatFirst

LEMMA OthersFileless ==
  ASSUME NEW q \in AllRequests
  PROVE  /\ BackupProgram(q) \in Seq(FilelessSteps) /\ UpgradeProgram(q) \in Seq(FilelessSteps)
         /\ RehearsalProgram \in Seq(FilelessSteps)
<1>1. /\ Write \in FilelessSteps /\ Done \in FilelessSteps
      /\ Try({}) \in FilelessSteps /\ Try(WD) \in FilelessSteps /\ Check(WD) \in FilelessSteps
      /\ Work(WD, WD, {}) \in FilelessSteps /\ Sync({}, {}, WD) \in FilelessSteps
      /\ Work({"remote"}, {"remote"}, WD) \in FilelessSteps
      /\ Work({"snapshot"}, {"snapshot"}, WD) \in FilelessSteps
      /\ Work({"record"}, {}, {}) \in FilelessSteps
      /\ Work({"upgraded"}, {"upgraded"}, {}) \in FilelessSteps
      /\ Work({"env"}, {"env"}, {}) \in FilelessSteps
      /\ Work({"env"}, {"env"}, {"env"}) \in FilelessSteps
      /\ Work({}, {"env"}, {"env"}) \in FilelessSteps
  BY FilelessTypes DEF WD, Effects
<1>2. /\ LoadSite \in Seq(FilelessSteps) /\ DetectRoot(q, {}) \in Seq(FilelessSteps)
      /\ DetectRoot(q, WD) \in Seq(FilelessSteps)
  BY <1>1 DEF LoadSite, DetectRoot
<1>3. BackupProgram(q) \in Seq(FilelessSteps)
  <2>1. /\ <<Write, Work(WD, WD, {}), Try(WD)>> \in Seq(FilelessSteps)
        /\ <<Write, Write, Try(WD)>> \in Seq(FilelessSteps)
    BY <1>1
  <2>2. BackupPrepare(q) \in Seq(FilelessSteps)
    BY <1>2, <2>1, ConcatProperties DEF BackupPrepare
  <2>3. BackupCollect \in Seq(FilelessSteps) /\ BackupStore \in Seq(FilelessSteps)
    BY <1>1 DEF BackupCollect, BackupStore
  <2> QED
    BY <1>2, <2>2, <2>3, ConcatProperties DEF BackupProgram
<1>4. UpgradeProgram(q) \in Seq(FilelessSteps)
  <2>1. <<Write, Work({"upgraded"}, {"upgraded"}, {}), Done>> \in Seq(FilelessSteps)
    BY <1>1
  <2> QED
    BY <1>2, <2>1, ConcatProperties DEF UpgradeProgram
<1>5. RehearsalProgram \in Seq(FilelessSteps)
  <2>1. RehearsalUpgrade \in Seq(FilelessSteps) /\ RehearsalReview \in Seq(FilelessSteps)
    BY <1>1 DEF RehearsalUpgrade, RehearsalReview
  <2>2. RehearsalRollback \in Seq(FilelessSteps) /\ RehearsalVerdict \in Seq(FilelessSteps)
    BY <1>1 DEF RehearsalRollback, RehearsalVerdict
  <2> QED
    BY <1>2, <2>1, <2>2, ConcatProperties DEF RehearsalProgram
<1> QED
  BY <1>3, <1>4, <1>5

LEMMA DatabaseComesFirst == \A q \in AllRequests : DatabaseFirst(Programs[q], q.db)
<1> SUFFICES ASSUME NEW q \in AllRequests PROVE DatabaseFirst(Program(q), q.db)
  BY DEF Programs
<1>1. q.type \in {"backup", "restore", "upgrade", "rehearsal"}
  BY DEF AllRequests, JobTypes
<1> QED
  BY <1>1, RestoreFirst, OthersFileless, FilelessFirst DEF Program

\* FilesAfterDatabase, and no cancel is about to undo an import.
Ordered == FilesAfterDatabase /\ "dbDone" \notin worker.undo

\* What the step under way may do to the files, and what it undoes.
LEMMA StepOrdered ==
  ASSUME TypeInv, Handover, AllEffects, NEW j \in Jobs, worker.job = j, worker.stage = "step"
  PROVE  /\ "dbDone" \notin Current.undo
         /\ request[j].db /\ "filesTouched" \in Current.adds \cup Current.partial =>
              "dbDone" \in fx[j]
<1>1. worker.req \in AllRequests /\ worker.pc \in 1..Len(Programs[worker.req])
  BY DEF TypeInv, TypeOK, Worker, InProgram
<1>2. worker.req = request[j]
  BY JobAssumption DEF Handover, Carried
<1>3. Acquired \cap Imported \subseteq fx[j]
  BY DEF AllEffects, EffectsOf, ImportStays
<1> QED
  BY <1>1, <1>2, <1>3, DatabaseComesFirst DEF DatabaseFirst, Current, Acquired, Imported

LEMMA OrderedStep ==
  TypeInv /\ Handover /\ AllEffects /\ Ordered /\ [Next]_vars => Ordered'
<1> SUFFICES ASSUME TypeInv, Handover, AllEffects, Ordered, [Next]_vars PROVE Ordered'
  OBVIOUS
<1>0. /\ fx \in [Jobs -> SUBSET Effects] /\ worker \in Worker /\ NoJob \notin Jobs
      /\ \A j \in Jobs : "filesTouched" \in fx[j] /\ request[j].db => "dbDone" \in fx[j]
  BY JobAssumption DEF TypeInv, TypeOK, Ordered, FilesAfterDatabase
<1>1. ASSUME worker.job # NoJob PROVE worker.job \in Jobs
  BY <1>0, <1>1 DEF Worker
<1>2. ASSUME UNCHANGED <<fx, request>>, worker'.undo \in {{}, worker.undo} PROVE Ordered'
  BY <1>2 DEF Ordered, FilesAfterDatabase
<1>3. CASE \E j \in Jobs : Submit(j) \/ Enqueue(j) \/ Manage(j)
  BY <1>2, <1>3
  DEF Submit, CreateJob, CreateJobFails, Enqueue, SendJob, QueueFull, Manage, CancelJob,
      DeleteJob, observed
<1>4. CASE Restart \/ Recover \/ Serve \/ Hang \/ UNCHANGED vars
  BY <1>2, <1>4
  DEF Restart, StartWorker, RecoveryFails, Recover, RecoverJob, Serve, Hang, vars, system,
      observed
<1>5. CASE Dequeue
  BY <1>2, <1>5 DEF Dequeue, Idle, observed
<1>6. CASE WriteRunning \/ ReportFile \/ CheckPasses \/ SetError \/ SetResult
  <2>1. UNCHANGED <<fx, request>> /\ worker'.undo = worker.undo
    BY <1>0, <1>6
    DEF WriteRunning, ReportFile, CheckPasses, SetError, SetResult, Advance, Worker
  <2> QED
    BY <1>2, <2>1
<1>7. CASE WorkSucceeds
  <2>1. PICK j \in Jobs : worker.job = j
    BY <1>1, <1>7 DEF WorkSucceeds, At, Doing
  <2>2. /\ worker.stage = "step" /\ worker'.undo = worker.undo /\ request' = request
        /\ fx'[j] = fx[j] \cup Current.adds /\ \A k \in Jobs \ {j} : fx'[k] = fx[k]
    BY <1>0, <1>7, <2>1 DEF WorkSucceeds, At, Doing, Advance, Worker
  <2> QED
    BY <1>0, <2>1, <2>2, StepOrdered DEF Ordered, FilesAfterDatabase
<1>8. CASE WorkFails
  <2>1. PICK j \in Jobs : worker.job = j
    BY <1>1, <1>8 DEF WorkFails, At, Doing
  <2>2. /\ worker.stage = "step" /\ worker'.undo = worker.undo /\ request' = request
        /\ fx'[j] \subseteq fx[j] \cup Current.partial /\ fx[j] \ Current.undo \subseteq fx'[j]
        /\ \A k \in Jobs \ {j} : fx'[k] = fx[k]
    BY <1>0, <1>8, <2>1 DEF WorkFails, Remove, At, Doing, Worker
  <2> QED
    BY <1>0, <2>1, <2>2, StepOrdered DEF Ordered, FilesAfterDatabase
<1>9. CASE CheckCancels
  <2>1. PICK j \in Jobs : worker.job = j
    BY <1>1, <1>9 DEF CheckCancels, At, Doing
  <2>2. worker.stage = "step" /\ worker'.undo = Current.undo /\ UNCHANGED <<fx, request>>
    BY <1>0, <1>9 DEF CheckCancels, At, Doing, Worker
  <2> QED
    BY <2>1, <2>2, StepOrdered DEF Ordered, FilesAfterDatabase
<1>10. CASE Return
  <2>1. PICK j \in Jobs : worker.job = j
    BY <1>1, <1>10 DEF Return
  <2>2. /\ worker'.undo = {} /\ request' = request
        /\ fx'[j] \subseteq fx[j] /\ fx[j] \ (worker.undo \cup Deferred) \subseteq fx'[j]
        /\ \A k \in Jobs \ {j} : fx'[k] = fx[k]
    BY <1>0, <1>10, <2>1 DEF Return, Remove, Idle
  <2> QED
    BY <1>0, <2>1, <2>2 DEF Ordered, FilesAfterDatabase, Deferred
<1>11. CASE Crash
  <2>1. PICK left \in CutShort :
          \A k \in Jobs : fx'[k] = IF k = worker.job THEN fx[k] \cup left ELSE fx[k]
    BY <1>11 DEF Crash
  <2>2. worker'.undo = {} /\ request' = request
    BY <1>11 DEF Crash, Idle
  <2>3. ASSUME NEW k \in Jobs, "filesTouched" \in fx'[k], request[k].db
        PROVE  "dbDone" \in fx'[k]
    <3>1. CASE "filesTouched" \in fx[k]
      BY <1>0, <2>1, <2>3, <3>1
    <3>2. CASE "filesTouched" \notin fx[k]
      <4>1. k = worker.job /\ "filesTouched" \in left
        BY <2>1, <2>3, <3>2
      <4>2. worker.stage = "step" /\ left = Current.partial
        BY <4>1 DEF CutShort, Doing
      <4> QED
        BY <2>1, <2>3, <4>1, <4>2, StepOrdered
    <3> QED
      BY <3>1, <3>2
  <2> QED
    BY <2>2, <2>3 DEF Ordered, FilesAfterDatabase
<1> QED
  BY <1>3, <1>4, <1>5, <1>6, <1>7, <1>8, <1>9, <1>10, <1>11 DEF Next, ProcessJob

\* No file of a site is touched before the database that was asked for with them
\* is imported, through any cancel, failure, crash or restart.
THEOREM DatabaseBeforeFiles == Spec => []FilesAfterDatabase
<1>1. Init => Ordered
  BY DEF Init, Ordered, FilesAfterDatabase, Idle
<1>2. Ordered => FilesAfterDatabase
  BY DEF Ordered
<1> QED
  BY <1>1, <1>2, OrderedStep, TypeCorrect, HandoverCorrect, EffectsCorrect, PTL DEF Spec
=============================================================================
