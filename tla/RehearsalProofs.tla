-------------------------- MODULE RehearsalProofs --------------------------
(***************************************************************************)
(* The safety of rehearsals and their stops for any number of jobs, sites, *)
(* snapshots, concurrent requests, failed calls and crashes.               *)
(***************************************************************************)
EXTENDS Rehearsal, TLAPS

\* An environment is removed in the middle of the program.
RemovesMidway ==
  worker.stage = "remove" =>
    Program[worker.pc] \in {"import", "copy", "destroy", "verdict"}

\* A request that is open is a stop of some job, or a cleanup, which has no
\* history and ends with the removal of the files.
Serving ==
  \A h \in Handlers :
    /\ handler[h].kind = "stop" /\ handler[h].phase # "idle" => handler[h].job \in Jobs
    /\ handler[h].kind = "cleanup" =>
         /\ handler[h].phase \in {"down", "remove"}
         /\ handler[h].todo = {} /\ handler[h].own = NoFile

TypeInv == TypeOK /\ RemovesMidway /\ Serving

----------------------------------------------------------------------------
(* Types. *)

LEMMA FinishIsLast ==
  /\ Len(Program) \in Nat /\ 1 <= Len(Program)
  /\ \A i \in 1..Len(Program) : Program[i] # "finish" => i + 1 \in 1..Len(Program)
<1>1. Len(Program) = 16
  BY DEF Program
<1>2. Program[16] = "finish"
  BY DEF Program
<1> QED
  BY <1>1, <1>2

LEMMA Going ==
  ASSUME TypeOK, NEW ops, At(ops), "finish" \notin ops
  PROVE  [worker EXCEPT !.pc = @ + 1] \in Worker /\ worker.pc + 1 <= Len(Program)
BY FinishIsLast DEF TypeOK, At, Worker

LEMMA IdleTypes ==
  Idle \in Worker /\ Idle.pc <= Len(Program) /\ Free \in Handler
BY FinishIsLast DEF Idle, Worker, Free, Opened, Handler, Phases, AnyFile

LEMMA DownTypes ==
  ASSUME TypeOK, NEW f, NEW force, Down(f, force) \/ DownFails(f, force)
  PROVE  up' \subseteq Snapshots /\ faults' \in Nat
BY DEF TypeOK, Down, DownFails, Fault

LEMMA CleanUpTypes ==
  ASSUME TypeOK, NEW ok \in BOOLEAN, CleanUp(ok)
  PROVE  /\ up' \subseteq Snapshots /\ faults' \in Nat
         /\ worker' \in Worker /\ worker'.pc = worker.pc
<1>1. up' \subseteq Snapshots /\ faults' \in Nat
  BY DownTypes DEF CleanUp
<1>2. worker' \in Worker /\ worker'.pc = worker.pc
  BY DEF CleanUp, Fail, TypeOK, Worker
<1> QED
  BY <1>1, <1>2

LEMMA RowTypes ==
  ASSUME TypeOK, NEW j \in Jobs, NEW status \in Statuses, NEW env \in AnyFile
  PROVE  Updated(j, status, env) \in [Jobs -> Row]
BY DEF TypeOK, Updated, Row

\* A status of the code's set, an environment of a known row.
LEMMA CancelTypes ==
  ASSUME TypeOK, NEW j \in Jobs
  PROVE  [rows EXCEPT ![j].status = "cancelled"] \in [Jobs -> Row]
BY DEF TypeOK, Row, Statuses

LEMMA MoveTypes ==
  ASSUME TypeOK, NEW h \in Handlers, NEW phase \in Phases,
         Move(h, phase) \/ Answer(h)
  PROVE  handler' \in [Handlers -> Handler]
BY IdleTypes DEF TypeOK, Move, Answer, Handler

\* A status write makes the table what it was meant to be, or leaves it.
LEMMA WriteTypes ==
  ASSUME TypeOK, NEW status \in Statuses, NEW env \in AnyFile, Write(status, env),
         worker.job # NoJob
  PROVE  rows' \in [Jobs -> Row] /\ faults' \in Nat
<1>1. worker.job \in Jobs
  BY DEF TypeOK, Worker
<1> QED
  BY <1>1, RowTypes DEF Write, Fault, TypeOK

LEMMA InitTypes == Init => TypeOK
<1> SUFFICES ASSUME Init PROVE TypeOK
  OBVIOUS
<1>1. rows \in [Jobs -> Row]
  BY DEF Init, NoRow, Row, Statuses, AnyFile
<1> QED
  BY <1>1, IdleTypes DEF Init, TypeOK

LEMMA ClientTypes ==
  ASSUME TypeOK, NEW j \in Jobs, Client(j) \/ Dequeue(j)
  PROVE  TypeOK'
<1>1. CASE Submit(j)
  BY <1>1 DEF Submit, TypeOK, Row, Statuses
<1>2. CASE CancelJob(j)
  BY <1>2, CancelTypes DEF CancelJob, TypeOK
<1>3. CASE DeleteJob(j)
  <2>1. rows[j].env \in AnyFile
    BY DEF TypeOK, Row
  <2>2. adrift' \subseteq File
    BY <1>3, <2>1 DEF DeleteJob, TypeOK, AnyFile
  <2>3. rows' \in [Jobs -> Row]
    BY <1>3 DEF DeleteJob, TypeOK, Row, Statuses, AnyFile
  <2> QED
    BY <1>3, <2>2, <2>3 DEF DeleteJob, TypeOK
<1>4. CASE Dequeue(j)
  <2>0. worker' = [job |-> j, pc |-> 1, env |-> NoFile, stage |-> "step", ok |-> TRUE]
    BY <1>4 DEF Dequeue, Idle
  <2>1. worker' \in Worker /\ worker'.pc = 1
    BY <2>0 DEF Worker, AnyFile
  <2> QED
    BY <1>4, <2>1, FinishIsLast DEF Dequeue, TypeOK
<1> QED
  BY <1>1, <1>2, <1>3, <1>4 DEF Client

LEMMA WorkerTypes ==
  ASSUME TypeInv, ProcessJob
  PROVE  TypeOK'
<1> USE DEF TypeInv
<1>0. /\ worker.job # NoJob => worker.job \in Jobs
      /\ worker.env \in AnyFile
  BY DEF TypeOK, Worker
<1>1. CASE Report
  <2>1. rows' \in [Jobs -> Row] /\ faults' \in Nat
    BY <1>1, WriteTypes DEF Report, At, Statuses, AnyFile
  <2>2. worker' \in Worker /\ worker'.pc <= Len(Program)
    BY <1>1, Going DEF Report, Advance, Worker, TypeOK
  <2> QED
    BY <1>1, <2>1, <2>2 DEF Report, TypeOK
<1>2. CASE ComposeUp
  <2> DEFINE f == [job |-> worker.job, id |-> made + 1]
  <2>1. f \in File /\ Project(f) \in Snapshots /\ worker.job \in Jobs
    BY <1>0, <1>2, RequestAssumption DEF ComposeUp, At, File, TypeOK, Project
  <2>2. worker' \in Worker /\ worker'.pc <= Len(Program)
    BY <1>2, <2>1, Going DEF ComposeUp, Worker, TypeOK, AnyFile
  <2> QED
    BY <1>2, <2>1, <2>2 DEF ComposeUp, TypeOK
<1>3. CASE SetUp \/ Try \/ VerdictPasses
  <2>1. worker' \in Worker /\ worker'.pc <= Len(Program)
    BY <1>3, Going DEF SetUp, Try, VerdictPasses, Advance, Worker, TypeOK
  <2> QED
    BY <1>3, <2>1 DEF SetUp, Try, VerdictPasses, TypeOK
<1>4. CASE SetUpFails \/ VerdictFails \/ Destroy
  <2>1. /\ up' \subseteq Snapshots /\ faults' \in Nat
        /\ worker' \in Worker /\ worker'.pc = worker.pc
    BY <1>4, CleanUpTypes DEF SetUpFails, VerdictFails, Destroy
  <2> QED
    BY <1>4, <2>1 DEF SetUpFails, VerdictFails, Destroy, TypeOK
<1>5. CASE TryFails
  BY <1>5 DEF TryFails, Fail, TypeOK, Worker
<1>6. CASE RemoveFiles
  <2>1. worker.pc + 1 <= Len(Program)
    BY <1>6, FinishIsLast DEF RemoveFiles, RemovesMidway, TypeOK, Worker
  <2>2. \/ worker' = [worker EXCEPT !.stage = "step", !.pc = @ + 1]
        \/ worker' = [worker EXCEPT !.stage = "failing"]
    BY <1>6 DEF RemoveFiles
  <2>3. worker' \in Worker /\ worker'.pc <= Len(Program)
    <3>1. CASE worker' = [worker EXCEPT !.stage = "step", !.pc = @ + 1]
      <4>1. worker \in Worker /\ worker.pc + 1 \in Nat \ {0}
        BY DEF TypeOK, Worker
      <4>2. PICK n \in Nat \ {0} :
              n = worker.pc + 1 /\ worker' = [worker EXCEPT !.stage = "step", !.pc = n]
        BY <3>1, <4>1
      <4>3. worker' \in Worker /\ worker'.pc = n
        BY <4>1, <4>2 DEF Worker
      <4> QED
        BY <2>1, <4>2, <4>3
    <3>2. CASE worker' = [worker EXCEPT !.stage = "failing"]
      BY <3>2 DEF TypeOK, Worker
    <3> QED
      BY <2>2, <3>1, <3>2
  <2> QED
    BY <1>6, <2>3 DEF RemoveFiles, TypeOK
<1>7. CASE SetError
  <2>1. rows' \in [Jobs -> Row] /\ faults' \in Nat
    BY <1>7, WriteTypes DEF SetError, Statuses, AnyFile
  <2>2. adrift' \subseteq File
    BY <1>0, <1>7 DEF SetError, LetGo, TypeOK, AnyFile
  <2> QED
    BY <1>7, <2>1, <2>2, IdleTypes DEF SetError, LetGo, TypeOK
<1>8. CASE Finish
  <2>1. rows' \in [Jobs -> Row] /\ faults' \in Nat
    BY <1>0, <1>8, WriteTypes DEF Finish, At, Statuses
  <2>2. adrift' \subseteq File
    BY <1>0, <1>8 DEF Finish, LetGo, TypeOK, AnyFile
  <2> QED
    BY <1>8, <2>1, <2>2, IdleTypes DEF Finish, LetGo, TypeOK
<1> QED
  BY <1>1, <1>2, <1>3, <1>4, <1>5, <1>6, <1>7, <1>8 DEF ProcessJob

LEMMA RequestTypes ==
  ASSUME TypeOK, NEW h \in Handlers, Request(h)
  PROVE  TypeOK'
<1>0. \A j \in Jobs : rows[j].env \in AnyFile
  BY DEF TypeOK, Row
<1>1. CASE \E j \in Jobs, force \in BOOLEAN : StopRequest(h, j, force)
  <2>1. PICK j \in Jobs, force \in BOOLEAN : StopRequest(h, j, force)
    BY <1>1
  <2>2. handler' \in [Handlers -> Handler]
    BY <1>0, <2>1, IdleTypes DEF StopRequest, TypeOK, Handler, Phases, Opened
  <2> QED
    BY <2>1, <2>2 DEF StopRequest, TypeOK
<1>2. CASE \E f \in Known : CleanupRequest(h, f)
  <2>1. PICK f \in AnyFile : CleanupRequest(h, f)
    BY <1>0, <1>2 DEF Known
  <2>2. Opened("cleanup", NoJob, FALSE, NoFile, f, "down") \in Handler
    BY DEF Opened, Handler, Phases, AnyFile
  <2>3. handler' \in [Handlers -> Handler]
    BY <2>1, <2>2 DEF CleanupRequest, TypeOK
  <2> QED
    BY <2>1, <2>3 DEF CleanupRequest, TypeOK
<1> QED
  BY <1>1, <1>2 DEF Request

LEMMA HandlerTypes ==
  ASSUME TypeInv, NEW h \in Handlers, Handle(h)
  PROVE  TypeOK'
<1> USE DEF TypeInv
<1>0. \A phase \in Phases : Move(h, phase) \/ Answer(h) =>
        handler' \in [Handlers -> Handler]
  BY MoveTypes
<1>1. CASE HandlerDown(h) \/ HandlerDownFails(h)
  <2>1. up' \subseteq Snapshots /\ faults' \in Nat
    BY <1>1, DownTypes DEF HandlerDown, HandlerDownFails
  <2>2. handler' \in [Handlers -> Handler]
    BY <1>0, <1>1 DEF HandlerDown, HandlerDownFails, GiveUp, Phases
  <2> QED
    BY <1>1, <2>1, <2>2 DEF HandlerDown, HandlerDownFails, TypeOK
<1>2. CASE HandlerRemove(h)
  <2>1. handler' \in [Handlers -> Handler]
    BY <1>0, <1>2 DEF HandlerRemove, Phases
  <2> QED
    BY <1>2, <2>1 DEF HandlerRemove, TypeOK
<1>3. CASE HandlerLook(h)
  <2>1. handler' \in [Handlers -> Handler]
    BY <1>0, <1>3 DEF HandlerLook, GiveUp, Phases
  <2>2. faults' \in Nat
    BY <1>3 DEF HandlerLook, SaysRunning, SaysStopped, Fault, TypeOK
  <2> QED
    BY <1>3, <2>1, <2>2 DEF HandlerLook, TypeOK
<1>4. CASE HandlerList(h)
  <2>1. {[job |-> k, row |-> rows[k]] : k \in History(handler[h].job)} \in SUBSET Listed
    BY DEF History, Listed, TypeOK
  <2>2. PICK todo \in SUBSET Listed :
          handler' = [handler EXCEPT ![h].todo = todo, ![h].phase = "next"]
    BY <1>4, <2>1 DEF HandlerList
  <2>3. handler' \in [Handlers -> Handler]
    <3>1. handler' = [handler EXCEPT ![h] = [@ EXCEPT !.todo = todo, !.phase = "next"]]
      BY <2>2
    <3>2. [handler[h] EXCEPT !.todo = todo, !.phase = "next"] \in Handler
      BY DEF TypeOK, Handler, Phases
    <3> QED
      BY <3>1, <3>2 DEF TypeOK
  <2> QED
    BY <1>4, <2>3 DEF HandlerList, TypeOK
<1>5. CASE HandlerListFails(h) \/ HandlerFinalFails(h)
  <2>1. handler' \in [Handlers -> Handler]
    BY <1>0, <1>5 DEF HandlerListFails, HandlerFinalFails, Phases
  <2> QED
    BY <1>5, <2>1 DEF HandlerListFails, HandlerFinalFails, Fault, TypeOK
<1>6. CASE HandlerNext(h)
  <2>1. CASE Move(h, "final")
    BY <1>0, <1>6, <2>1 DEF HandlerNext, Phases, TypeOK
  <2>2. CASE ~Move(h, "final")
    <3>1. PICK past \in handler[h].todo :
            handler' = [handler EXCEPT
              ![h].phase = IF past.row.env = NoFile THEN "cancel" ELSE "down",
              ![h].target = past.row.env]
      BY <1>6, <2>2 DEF HandlerNext
    <3>2. past.row.env \in AnyFile
      BY DEF TypeOK, Handler, Listed, Row
    <3>3. PICK phase \in Phases, env \in AnyFile :
            handler' = [handler EXCEPT ![h].phase = phase, ![h].target = env]
      BY <3>1, <3>2 DEF Phases
    <3>4. handler' \in [Handlers -> Handler]
      <4>1. handler' = [handler EXCEPT ![h] = [@ EXCEPT !.phase = phase, !.target = env]]
        BY <3>3
      <4>2. [handler[h] EXCEPT !.phase = phase, !.target = env] \in Handler
        BY DEF TypeOK, Handler
      <4> QED
        BY <4>1, <4>2 DEF TypeOK
    <3> QED
      BY <1>6, <3>4 DEF HandlerNext, TypeOK
  <2> QED
    BY <2>1, <2>2
<1>7. CASE HandlerCancel(h)
  <2>1. PICK past \in handler[h].todo :
          /\ rows' \in {rows, [rows EXCEPT ![past.job].status = "cancelled"]}
          /\ handler' = [handler EXCEPT ![h].phase = "next", ![h].todo = @ \ {past}]
    BY <1>7 DEF HandlerCancel
  <2>2. past.job \in Jobs
    BY DEF TypeOK, Handler, Listed
  <2>3. rows' \in [Jobs -> Row]
    BY <2>1, <2>2, CancelTypes DEF TypeOK
  <2>4. handler' \in [Handlers -> Handler]
    BY <2>1 DEF TypeOK, Handler, Phases
  <2> QED
    BY <1>7, <2>3, <2>4 DEF HandlerCancel, TypeOK
<1>8. CASE HandlerFinal(h)
  <2>0. handler[h].job \in Jobs
    BY <1>8 DEF HandlerFinal, In, Serving, TypeOK, Handler
  <2>1. rows' \in [Jobs -> Row]
    BY <1>8, <2>0, RowTypes DEF HandlerFinal, Statuses, AnyFile
  <2>2. rows[handler[h].job].env \in AnyFile
    BY <2>0 DEF TypeOK, Row
  <2>3. adrift' \subseteq File
    BY <1>8, <2>2 DEF HandlerFinal, TypeOK, AnyFile
  <2>4. handler' \in [Handlers -> Handler]
    BY <1>0, <1>8 DEF HandlerFinal, Phases
  <2> QED
    BY <1>8, <2>1, <2>3, <2>4 DEF HandlerFinal, TypeOK
<1> QED
  BY <1>1, <1>2, <1>3, <1>4, <1>5, <1>6, <1>7, <1>8 DEF Handle

LEMMA WorkerRemoves ==
  ASSUME TypeOK, RemovesMidway, ProcessJob
  PROVE  RemovesMidway'
<1>1. CASE SetUpFails \/ VerdictFails \/ Destroy
  BY <1>1 DEF SetUpFails, VerdictFails, Destroy, CleanUp, Fail, At, RemovesMidway,
              TypeOK, Worker
<1>2. CASE RemoveFiles
  BY <1>2 DEF RemoveFiles, RemovesMidway, TypeOK, Worker
<1>3. CASE SetError \/ Finish
  BY <1>3 DEF SetError, Finish, LetGo, Idle, RemovesMidway
<1>4. CASE Report \/ ComposeUp \/ SetUp \/ Try \/ TryFails \/ VerdictPasses
  BY <1>4 DEF Report, ComposeUp, SetUp, Try, TryFails, VerdictPasses, Advance, Fail,
              At, RemovesMidway, TypeOK, Worker
<1> QED
  BY <1>1, <1>2, <1>3, <1>4 DEF ProcessJob

----------------------------------------------------------------------------
(* What a step makes of the request it serves, field by field. *)

Others(h) == \A g \in Handlers \ {h} : handler'[g] = handler[g]

Keeps(h) ==
  /\ handler'[h].kind = handler[h].kind /\ handler'[h].job = handler[h].job
  /\ handler'[h].own = handler[h].own

Same(h) ==
  /\ Keeps(h)
  /\ handler'[h].target = handler[h].target /\ handler'[h].todo = handler[h].todo

LEMMA MoveShape ==
  ASSUME TypeOK, NEW h \in Handlers, NEW phase, Move(h, phase)
  PROVE  Others(h) /\ Same(h) /\ handler'[h].phase = phase
BY DEF TypeOK, Handler, Move, Others, Same, Keeps

LEMMA AnswerShape ==
  ASSUME TypeOK, NEW h \in Handlers, Answer(h)
  PROVE  Others(h) /\ handler'[h] = Free
BY DEF TypeOK, Handler, Answer, Others

LEMMA RequestShape ==
  ASSUME TypeOK, NEW h \in Handlers, Request(h)
  PROVE  /\ Others(h) /\ handler'[h].todo = {}
         /\ \/ \E j \in Jobs :
                 /\ handler'[h].kind = "stop" /\ handler'[h].job = j
                 /\ handler'[h].own = rows[j].env /\ handler'[h].target = rows[j].env
                 /\ handler'[h].phase = IF rows[j].env = NoFile THEN "list" ELSE "down"
            \/ \E j \in Jobs :
                 /\ handler'[h].kind = "cleanup" /\ handler'[h].own = NoFile
                 /\ handler'[h].target = rows[j].env /\ rows[j].env # NoFile
                 /\ handler'[h].phase = "down"
<1>1. CASE \E j \in Jobs, force \in BOOLEAN : StopRequest(h, j, force)
  <2>1. PICK j \in Jobs, force \in BOOLEAN : StopRequest(h, j, force)
    BY <1>1
  <2>2. handler' = [handler EXCEPT ![h] =
          [phase |-> IF rows[j].env = NoFile THEN "list" ELSE "down", kind |-> "stop",
           job |-> j, force |-> force, own |-> rows[j].env, target |-> rows[j].env,
           todo |-> {}]]
    BY <2>1 DEF StopRequest, Opened
  <2> QED
    BY <2>2 DEF TypeOK, Others
<1>2. CASE \E f \in Known : CleanupRequest(h, f)
  <2>1. PICK j \in Jobs : rows[j].env # NoFile /\ CleanupRequest(h, rows[j].env)
    BY <1>2 DEF Known
  <2>2. handler' = [handler EXCEPT ![h] =
          [phase |-> "down", kind |-> "cleanup", job |-> NoJob, force |-> FALSE,
           own |-> NoFile, target |-> rows[j].env, todo |-> {}]]
    BY <2>1 DEF CleanupRequest, Opened
  <2> QED
    BY <2>1, <2>2 DEF TypeOK, Others
<1> QED
  BY <1>1, <1>2 DEF Request

LEMMA ListShape ==
  ASSUME TypeOK, NEW h \in Handlers, HandlerList(h)
  PROVE  /\ Others(h) /\ Keeps(h) /\ handler'[h].phase = "next"
         /\ handler'[h].target = handler[h].target
         /\ handler'[h].todo =
              {[job |-> k, row |-> rows[k]] : k \in History(handler[h].job)}
<1>1. PICK todo :
        /\ todo = {[job |-> k, row |-> rows[k]] : k \in History(handler[h].job)}
        /\ handler' = [handler EXCEPT ![h].todo = todo, ![h].phase = "next"]
  BY DEF HandlerList
<1> QED
  BY <1>1 DEF TypeOK, Handler, Others, Keeps

LEMMA NextShape ==
  ASSUME TypeOK, NEW h \in Handlers, HandlerNext(h)
  PROVE  /\ Others(h) /\ Keeps(h)
         /\ handler'[h].todo = handler[h].todo
         /\ \/ /\ handler[h].todo = {} /\ handler'[h].phase = "final"
               /\ handler'[h].target = handler[h].target
            \/ \E past \in handler[h].todo :
                 /\ handler'[h].target = past.row.env
                 /\ handler'[h].phase = IF past.row.env = NoFile THEN "cancel" ELSE "down"
<1>1. CASE handler[h].todo = {} /\ Move(h, "final")
  BY <1>1, MoveShape DEF Same
<1>2. CASE \E past \in handler[h].todo :
             handler' = [handler EXCEPT
               ![h].phase = IF past.row.env = NoFile THEN "cancel" ELSE "down",
               ![h].target = past.row.env]
  <2>0. PICK past \in handler[h].todo :
          handler' = [handler EXCEPT
            ![h].phase = IF past.row.env = NoFile THEN "cancel" ELSE "down",
            ![h].target = past.row.env]
    BY <1>2
  <2>1. PICK phase, env :
          /\ phase = IF past.row.env = NoFile THEN "cancel" ELSE "down"
          /\ env = past.row.env
          /\ handler' = [handler EXCEPT ![h].phase = phase, ![h].target = env]
    BY <2>0
  <2> QED
    BY <2>1 DEF TypeOK, Handler, Others, Keeps
<1> QED
  BY <1>1, <1>2 DEF HandlerNext

LEMMA CancelShape ==
  ASSUME TypeOK, NEW h \in Handlers, HandlerCancel(h)
  PROVE  /\ Others(h) /\ Keeps(h) /\ handler'[h].phase = "next"
         /\ handler'[h].target = handler[h].target
         /\ \E past \in handler[h].todo :
              /\ handler'[h].todo = handler[h].todo \ {past}
              /\ rows' \in {rows, [rows EXCEPT ![past.job].status = "cancelled"]}
<1>1. PICK past \in handler[h].todo :
        /\ rows' \in {rows, [rows EXCEPT ![past.job].status = "cancelled"]}
        /\ handler' = [handler EXCEPT ![h].phase = "next", ![h].todo = @ \ {past}]
  BY DEF HandlerCancel
<1>2. PICK todo :
        /\ todo = handler[h].todo \ {past}
        /\ handler' = [handler EXCEPT ![h].phase = "next", ![h].todo = todo]
  BY <1>1
<1>3. /\ Others(h) /\ Keeps(h) /\ handler'[h].phase = "next"
      /\ handler'[h].target = handler[h].target /\ handler'[h].todo = todo
  BY <1>2 DEF TypeOK, Handler, Others, Keeps
<1> QED
  BY <1>1, <1>2, <1>3

----------------------------------------------------------------------------
(* Requests are served one way. *)

LEMMA RequestServes ==
  ASSUME TypeOK, Serving, NEW h \in Handlers, Request(h)
  PROVE  Serving'
BY RequestShape DEF Others, Serving

LEMMA HandlerServes ==
  ASSUME TypeOK, Serving, NEW h \in Handlers, Handle(h)
  PROVE  Serving'
<1>0. handler[h].phase # "idle" =>
        handler[h].kind = "stop" \/ handler[h].kind = "cleanup"
  BY DEF TypeOK, Handler
<1>1. ASSUME NEW phase \in Phases \ {"idle"}, Move(h, phase), ~In(h, "idle"),
             handler[h].kind = "cleanup" => phase = "remove"
      PROVE  Serving'
  BY <1>1, MoveShape DEF Others, Same, Keeps, Serving, In
<1>2. CASE Answer(h)
  BY <1>2, AnswerShape DEF Others, Free, Opened, Serving
<1>3. CASE HandlerDown(h)
  BY <1>1, <1>3 DEF HandlerDown, In, Phases
<1>4. CASE HandlerDownFails(h) \/ HandlerLook(h) \/ HandlerListFails(h)
  BY <1>1, <1>2, <1>4 DEF HandlerDownFails, HandlerLook, HandlerListFails, GiveUp, IsOwn,
                          In, Phases, Serving
<1>5. CASE HandlerRemove(h)
  BY <1>1, <1>2, <1>5 DEF HandlerRemove, In, Phases
<1>6. CASE HandlerList(h)
  <2>1. handler[h].kind = "stop" /\ handler[h].job \in Jobs
    BY <1>0, <1>6 DEF HandlerList, In, Serving
  <2> QED
    BY <1>6, <2>1, ListShape DEF Others, Keeps, Serving
<1>7. CASE HandlerNext(h)
  BY <1>7, NextShape DEF HandlerNext, In, Others, Keeps, Serving
<1>8. CASE HandlerCancel(h)
  <2>1. handler[h].kind = "stop" /\ handler[h].job \in Jobs
    BY <1>0, <1>8 DEF HandlerCancel, In, Serving
  <2> QED
    BY <1>8, <2>1, CancelShape DEF Others, Keeps, Serving
<1>9. CASE HandlerFinal(h) \/ HandlerFinalFails(h)
  BY <1>2, <1>9 DEF HandlerFinal, HandlerFinalFails
<1> QED
  BY <1>3, <1>4, <1>5, <1>6, <1>7, <1>8, <1>9 DEF Handle

THEOREM TypesHold == Spec => []TypeInv
<1>1. Init => TypeInv
  BY InitTypes DEF Init, TypeInv, RemovesMidway, Serving, Idle, Free, Opened
<1>2. TypeInv /\ [Next]_vars => TypeInv'
  <2> SUFFICES ASSUME TypeInv, [Next]_vars PROVE TypeInv'
    OBVIOUS
  <2> USE DEF TypeInv
  <2>1. CASE \E j \in Jobs : Client(j) \/ Dequeue(j)
    <3>1. TypeOK'
      BY <2>1, ClientTypes
    <3>2. handler' = handler
      BY <2>1 DEF Client, Submit, CancelJob, DeleteJob, Dequeue
    <3>3. worker' = worker \/ worker'.stage = "step"
      BY <2>1 DEF Client, Submit, CancelJob, DeleteJob, Dequeue, Idle
    <3> QED
      BY <3>1, <3>2, <3>3 DEF RemovesMidway, Serving
  <2>2. CASE ProcessJob
    <3>1. handler' = handler
      BY <2>2 DEF ProcessJob, Report, ComposeUp, SetUp, SetUpFails, Try, TryFails, Destroy,
                  RemoveFiles, VerdictPasses, VerdictFails, SetError, Finish
    <3> QED
      BY <2>2, <3>1, WorkerTypes, WorkerRemoves DEF Serving
  <2>3. CASE \E h \in Handlers : Request(h)
    <3>1. worker' = worker
      BY <2>3 DEF Request, StopRequest, CleanupRequest
    <3> QED
      BY <2>3, <3>1, RequestTypes, RequestServes DEF RemovesMidway
  <2>4. CASE \E h \in Handlers : Handle(h)
    <3>1. worker' = worker
      BY <2>4 DEF Handle, HandlerDown, HandlerDownFails, HandlerRemove, HandlerLook,
                  HandlerList, HandlerListFails, HandlerNext, HandlerCancel, HandlerFinal,
                  HandlerFinalFails
    <3> QED
      BY <2>4, <3>1, HandlerTypes, HandlerServes DEF RemovesMidway
  <2>5. CASE Crash
    <3>1. worker' \in Worker /\ worker'.pc <= Len(Program) /\ worker'.stage = "step"
      BY <2>5, IdleTypes DEF Crash, Idle
    <3>2. handler' \in [Handlers -> Handler]
      BY <2>5, IdleTypes DEF Crash
    <3>3. adrift' \subseteq File
      BY <2>5 DEF Crash, TypeOK, Worker, AnyFile
    <3>4. TypeOK'
      BY <2>5, <3>1, <3>2, <3>3 DEF Crash, TypeOK
    <3>5. Serving'
      BY <2>5 DEF Crash, Serving, Free, Opened
    <3> QED
      BY <3>1, <3>4, <3>5 DEF RemovesMidway
  <2>6. CASE UNCHANGED vars
    BY <2>6 DEF vars, system, TypeOK, RemovesMidway, Serving
  <2> QED
    BY <2>1, <2>2, <2>3, <2>4, <2>5, <2>6 DEF Next
<1> QED
  BY <1>1, <1>2, PTL DEF Spec

\* Every variable keeps its type, and the worker its place in the program.
THEOREM RehearsalTyped == Spec => []TypeOK
BY TypesHold, PTL DEF TypeInv

----------------------------------------------------------------------------
(* Environments belong to the job they were made for. *)

\* e is no environment, or one that was made for job j.
Old(e, j) == e # NoFile => e.job = j /\ e.id <= made

Keeping(h) ==
  /\ Old(handler[h].own, handler[h].job)
  /\ handler[h].target # NoFile => handler[h].target.id <= made
  /\ \A past \in handler[h].todo : Old(past.row.env, past.job)

Owned ==
  /\ \A f \in files : f.id <= made
  /\ \A j \in Jobs : Old(rows[j].env, j)
  /\ Old(worker.env, worker.job)
  /\ \A h \in Handlers : Keeping(h)

\* A step that makes no environment and gives none to a row.
Calm ==
  /\ ask' = ask /\ made' = made /\ files' \subseteq files
  /\ \A j \in Jobs : rows'[j].env \in {rows[j].env, NoFile}
  /\ \/ worker'.env = worker.env /\ worker'.job = worker.job
     \/ worker'.env = NoFile

LEMMA CalmKeeps ==
  ASSUME TypeOK, Owned, Calm,
         \A h \in Handlers : handler'[h] = handler[h] \/ Keeping(h)'
  PROVE  Owned'
<1>1. \A h \in Handlers : handler'[h] = handler[h] => Keeping(h)'
  BY DEF Owned, Calm, Keeping, Old
<1> QED
  BY <1>1 DEF Owned, Calm, Old

LEMMA ClientCalm ==
  ASSUME TypeOK, NEW j \in Jobs, Client(j) \/ Dequeue(j)
  PROVE  Calm
<1>1. CASE Submit(j) \/ CancelJob(j)
  BY <1>1 DEF TypeOK, Row, Calm, Submit, CancelJob
<1>2. CASE DeleteJob(j)
  BY <1>2 DEF TypeOK, Row, Calm, DeleteJob
<1>3. CASE Dequeue(j)
  BY <1>3 DEF Calm, Dequeue, Idle
<1> QED
  BY <1>1, <1>2, <1>3 DEF Client

LEMMA UpdatedClears ==
  ASSUME TypeOK, NEW j, NEW status, rows' = Updated(j, status, NoFile)
  PROVE  \A k \in Jobs : rows'[k].env \in {rows[k].env, NoFile}
BY DEF TypeOK, Row, Updated

LEMMA WriteClears ==
  ASSUME TypeOK, NEW status, Write(status, NoFile)
  PROVE  \A k \in Jobs : rows'[k].env \in {rows[k].env, NoFile}
BY UpdatedClears DEF Write

LEMMA WorkerCalm ==
  ASSUME TypeOK, ProcessJob, ~ComposeUp, ~Finish
  PROVE  Calm
<1>1. CASE Report \/ SetError
  BY <1>1, WriteClears DEF Report, SetError, LetGo, Advance, Idle, Calm, TypeOK, Worker
<1>2. CASE SetUp \/ Try \/ TryFails \/ VerdictPasses
  BY <1>2 DEF SetUp, Try, TryFails, VerdictPasses, Advance, Fail, Calm, TypeOK, Worker
<1>3. CASE SetUpFails \/ VerdictFails \/ Destroy
  BY <1>3 DEF SetUpFails, VerdictFails, Destroy, CleanUp, Fail, Calm, TypeOK, Worker
<1>4. CASE RemoveFiles
  <2>1. worker'.env = worker.env /\ worker'.job = worker.job
    BY <1>4 DEF RemoveFiles, TypeOK, Worker
  <2> QED
    BY <1>4, <2>1 DEF RemoveFiles, Calm
<1> QED
  BY <1>1, <1>2, <1>3, <1>4 DEF ProcessJob

LEMMA ComposeUpKeeps ==
  ASSUME TypeOK, Owned, ComposeUp
  PROVE  Owned'
<1> DEFINE f == [job |-> worker.job, id |-> made + 1]
<1>1. /\ made' = made + 1 /\ made \in Nat
      /\ files' = files \cup {f} /\ files \subseteq File
      /\ worker'.env = f /\ worker'.job = worker.job
      /\ UNCHANGED <<ask, rows, handler>>
  BY DEF ComposeUp, TypeOK, Worker
<1>2. \A e \in AnyFile : \A j : Old(e, j) => Old(e, j)'
  BY <1>1 DEF Old, AnyFile, File
<1>3. \A g \in files' : g.id <= made'
  BY <1>1 DEF Owned, File
<1>4. \A j \in Jobs : Old(rows[j].env, j)'
  BY <1>1, <1>2 DEF Owned, TypeOK, Row
<1>5. Old(worker.env, worker.job)'
  BY <1>1 DEF Old
<1>6. ASSUME NEW h \in Handlers PROVE Keeping(h)'
  <2>1. /\ handler[h].own \in AnyFile /\ handler[h].target \in AnyFile
        /\ \A past \in handler[h].todo : past.row.env \in AnyFile
    BY DEF TypeOK, Handler, Listed, Row
  <2>2. Keeping(h)
    BY DEF Owned
  <2>3. Old(handler[h].own, handler[h].job)'
    BY <1>1, <1>2, <2>1, <2>2 DEF Keeping
  <2>4. handler[h].target # NoFile => handler[h].target.id <= made'
    BY <1>1, <2>1, <2>2 DEF Keeping, AnyFile, File
  <2>5. \A past \in handler[h].todo : Old(past.row.env, past.job)'
    BY <1>1, <1>2, <2>1, <2>2 DEF Keeping
  <2> QED
    BY <1>1, <2>2, <2>3, <2>4, <2>5 DEF Keeping
<1> QED
  BY <1>3, <1>4, <1>5, <1>6 DEF Owned

LEMMA FinishKeeps ==
  ASSUME TypeOK, Owned, Finish
  PROVE  Owned'
<1>1. /\ UNCHANGED <<ask, made, files, handler>> /\ worker'.env = NoFile
      /\ rows' = Updated(worker.job, "completed", worker.env) \/ rows' = rows
  BY DEF Finish, Write, LetGo, Idle
<1>2. \A j \in Jobs : Old(rows'[j].env, j)
  BY <1>1 DEF Updated, TypeOK, Row, Owned
<1> QED
  BY <1>1, <1>2 DEF Owned, Keeping, Old

LEMMA RequestKeeps ==
  ASSUME TypeOK, Owned, NEW h \in Handlers, Request(h)
  PROVE  Owned'
<1>1. Calm
  BY DEF Request, StopRequest, CleanupRequest, Calm
<1>2. Keeping(h)'
  BY <1>1, RequestShape DEF Calm, Owned, Keeping, Old
<1> QED
  BY <1>1, <1>2, RequestShape, CalmKeeps DEF Others

LEMMA HandlerCalm ==
  ASSUME TypeOK, NEW h \in Handlers, Handle(h)
  PROVE  Calm
<1>1. CASE HandlerCancel(h)
  <2>1. PICK k : rows' \in {rows, [rows EXCEPT ![k].status = "cancelled"]}
    BY <1>1, CancelShape
  <2> QED
    BY <1>1, <2>1 DEF HandlerCancel, Calm, TypeOK, Row
<1>2. CASE HandlerFinal(h)
  BY <1>2, UpdatedClears DEF HandlerFinal, Calm
<1>3. CASE ~HandlerCancel(h) /\ ~HandlerFinal(h)
  BY <1>3 DEF Handle, HandlerDown, HandlerDownFails, HandlerRemove, HandlerLook,
              HandlerList, HandlerListFails, HandlerNext, HandlerFinalFails, Calm
<1> QED
  BY <1>1, <1>2, <1>3

LEMMA HandlerKeeps ==
  ASSUME TypeOK, Serving, Owned, NEW h \in Handlers, Handle(h)
  PROVE  Owned'
<1>1. Calm
  BY HandlerCalm
<1> SUFFICES Others(h) /\ Keeping(h)'
  BY <1>1, CalmKeeps DEF Others
<1>2. ASSUME NEW phase, Move(h, phase) PROVE Others(h) /\ Keeping(h)'
  BY <1>1, <1>2, MoveShape DEF Calm, Owned, Same, Keeps, Keeping, Old
<1>3. CASE Answer(h)
  BY <1>3, AnswerShape DEF Free, Opened, Keeping, Old
<1>4. CASE HandlerList(h)
  <2>1. \A past \in handler'[h].todo : \E k \in Jobs :
          past = [job |-> k, row |-> rows[k]]
    BY <1>4, ListShape DEF History
  <2> QED
    BY <1>1, <1>4, <2>1, ListShape DEF Calm, Keeps, Owned, Keeping, Old
<1>5. CASE HandlerNext(h)
  <2>1. CASE handler'[h].target = handler[h].target
    BY <1>1, <1>5, <2>1, NextShape DEF Calm, Owned, Keeps, Keeping, Old
  <2>2. CASE \E past \in handler[h].todo : handler'[h].target = past.row.env
    BY <1>1, <1>5, <2>2, NextShape DEF Calm, Owned, Keeps, Keeping, Old
  <2> QED
    BY <1>5, <2>1, <2>2, NextShape
<1>6. CASE HandlerCancel(h)
  <2>1. handler'[h].todo \subseteq handler[h].todo
    BY <1>6, CancelShape
  <2>2. Others(h) /\ Keeps(h) /\ handler'[h].target = handler[h].target
    BY <1>6, CancelShape
  <2>3. Keeping(h)
    BY DEF Owned
  <2> QED
    BY <1>1, <2>1, <2>2, <2>3 DEF Calm, Keeps, Keeping, Old
<1>7. CASE ~HandlerList(h) /\ ~HandlerNext(h) /\ ~HandlerCancel(h)
  BY <1>2, <1>3, <1>7 DEF Handle, HandlerDown, HandlerDownFails, GiveUp, HandlerRemove,
       HandlerLook, HandlerListFails, HandlerFinal, HandlerFinalFails
<1> QED
  BY <1>4, <1>5, <1>6, <1>7

\* Every environment a row, the worker or a request refers to was made for
\* its job.
THEOREM OwnedHolds == Spec => []Owned
<1>1. Init => Owned
  BY DEF Init, Owned, NoRow, Idle, Free, Opened, Keeping, Old
<1>2. TypeInv /\ Owned /\ [Next]_vars => Owned'
  <2> SUFFICES ASSUME TypeInv, Owned, [Next]_vars PROVE Owned'
    OBVIOUS
  <2> USE DEF TypeInv
  <2>1. CASE \E j \in Jobs : Client(j) \/ Dequeue(j)
    <3>1. handler' = handler
      BY <2>1 DEF Client, Submit, CancelJob, DeleteJob, Dequeue
    <3> QED
      BY <2>1, <3>1, ClientCalm, CalmKeeps
  <2>2. CASE ProcessJob
    <3>1. handler' = handler
      BY <2>2 DEF ProcessJob, Report, ComposeUp, SetUp, SetUpFails, Try, TryFails, Destroy,
                  RemoveFiles, VerdictPasses, VerdictFails, SetError, Finish
    <3> QED
      BY <2>2, <3>1, WorkerCalm, ComposeUpKeeps, FinishKeeps, CalmKeeps
  <2>3. CASE \E h \in Handlers : Request(h)
    BY <2>3, RequestKeeps
  <2>4. CASE \E h \in Handlers : Handle(h)
    BY <2>4, HandlerKeeps
  <2>5. CASE Crash
    <3>1. /\ Calm
          /\ \A h \in Handlers : handler'[h] = Free
      BY <2>5 DEF Crash, Calm, Idle
    <3>2. \A h \in Handlers : Keeping(h)'
      BY <3>1 DEF Free, Opened, Keeping, Old
    <3> QED
      BY <3>1, <3>2, CalmKeeps
  <2>6. CASE UNCHANGED vars
    BY <2>6, CalmKeeps DEF vars, system, Calm
  <2> QED
    BY <2>1, <2>2, <2>3, <2>4, <2>5, <2>6 DEF Next
<1> QED
  BY <1>1, <1>2, TypesHold, PTL DEF Spec

----------------------------------------------------------------------------
(* What runs can be taken down. *)

\* The files of f are about to be removed, its containers having been stopped.
Doomed(f) ==
  \/ worker.stage = "remove" /\ worker.env = f
  \/ \E h \in Handlers : handler[h].phase = "remove" /\ handler[h].target = f

\* RunningIsReachable is not inductive: the file it promises may be one that
\* is about to go.  Another of the same project must be there, then.
Spared == \A s \in up : \E f \in files : Project(f) = s /\ ~Doomed(f)

LEMMA SparedKept ==
  ASSUME Spared, ask' = ask, up' \subseteq up,
         \A f \in files : ~Doomed(f) => f \in files' /\ ~Doomed(f)'
  PROVE  Spared'
BY DEF Spared, Project

LEMMA DownSpares ==
  ASSUME Spared, ask' = ask, files' = files, NEW t, up' = up \ {Project(t)},
         \A f \in files \ {t} : ~Doomed(f) => ~Doomed(f)'
  PROVE  Spared'
BY DEF Spared, Project

LEMMA CleanUpSpares ==
  ASSUME TypeOK, Spared, NEW ok \in BOOLEAN, CleanUp(ok), worker.stage = "step",
         UNCHANGED <<ask, files, handler>>
  PROVE  Spared'
<1>1. CASE Down(worker.env, FALSE) /\ worker' = [worker EXCEPT !.stage = "remove", !.ok = ok]
  <2>1. worker'.env = worker.env
    BY <1>1 DEF TypeOK, Worker
  <2> QED
    BY <1>1, <2>1, DownSpares DEF Down, Doomed
<1>2. CASE DownFails(worker.env, FALSE) /\ Fail
  <2>1. worker'.stage = "failing" /\ up' \subseteq up
    BY <1>2 DEF DownFails, Fail, TypeOK, Worker
  <2> QED
    BY <2>1, SparedKept DEF Doomed
<1> QED
  BY <1>1, <1>2 DEF CleanUp

LEMMA ComposeUpSpares ==
  ASSUME TypeOK, Owned, Spared, ComposeUp
  PROVE  Spared'
<1> PICK f : f = [job |-> worker.job, id |-> made + 1]
  OBVIOUS
<1>1. /\ made \in Nat /\ worker'.stage = "step"
      /\ files' = files \cup {f} /\ up' = up \cup {Project(f)}
      /\ UNCHANGED <<ask, handler>>
  BY DEF ComposeUp, At, TypeOK, Worker
<1>2. \A g : Doomed(g)' => Doomed(g)
  BY <1>1 DEF Doomed
<1>3. ~Doomed(f)'
  <2>1. f # NoFile
    BY <1>1, FileAssumption DEF ComposeUp, At, File, TypeOK, Worker
  <2>2. \A h \in Handlers : handler[h].target # f
    BY <1>1, <2>1 DEF Owned, Keeping, TypeOK, Handler, AnyFile, File
  <2> QED
    BY <1>1, <2>2 DEF Doomed
<1> QED
  BY <1>1, <1>2, <1>3 DEF Spared, Project

LEMMA WorkerSpares ==
  ASSUME TypeOK, Owned, Spared, ProcessJob
  PROVE  Spared'
<1>1. CASE Report \/ SetUp \/ Try \/ TryFails \/ VerdictPasses \/ SetError \/ Finish
  <2>1. /\ UNCHANGED <<ask, up, files, handler>>
        /\ worker'.stage # "remove"
    <3>1. CASE SetError \/ Finish
      BY <3>1 DEF SetError, Finish, LetGo, Idle
    <3>2. CASE Report \/ SetUp \/ Try \/ TryFails \/ VerdictPasses
      BY <3>2 DEF Report, SetUp, Try, TryFails, VerdictPasses, Advance, Fail, At, TypeOK,
                  Worker
    <3> QED
      BY <1>1, <3>1, <3>2
  <2> QED
    BY <2>1, SparedKept DEF Doomed
<1>2. CASE SetUpFails \/ VerdictFails
  BY <1>2, CleanUpSpares DEF SetUpFails, VerdictFails, At
<1>3. CASE Destroy
  BY <1>3, CleanUpSpares DEF Destroy, At
<1>4. CASE RemoveFiles
  <2>1. worker'.stage # "remove"
    BY <1>4 DEF RemoveFiles, TypeOK, Worker
  <2>2. \A f : Doomed(f)' => Doomed(f)
    BY <1>4, <2>1 DEF RemoveFiles, Doomed
  <2>3. \A f \in files : ~Doomed(f) => f \in files'
    BY <1>4 DEF RemoveFiles, Doomed
  <2> QED
    BY <1>4, <2>2, <2>3, SparedKept DEF RemoveFiles
<1>5. CASE ComposeUp
  BY <1>5, ComposeUpSpares
<1> QED
  BY <1>1, <1>2, <1>3, <1>4, <1>5 DEF ProcessJob

LEMMA HandlerSpares ==
  ASSUME TypeOK, Spared, NEW h \in Handlers, Request(h) \/ Handle(h)
  PROVE  Spared'
<1>0. UNCHANGED <<ask, worker>>
  BY DEF Request, StopRequest, CleanupRequest, Handle, HandlerDown, HandlerDownFails,
         HandlerRemove, HandlerLook, HandlerList, HandlerListFails, HandlerNext,
         HandlerCancel, HandlerFinal, HandlerFinalFails
<1>1. ASSUME Others(h), handler'[h].phase # "remove"
      PROVE  \A f : Doomed(f)' => Doomed(f)
  BY <1>0, <1>1 DEF Others, Doomed
<1>2. ASSUME UNCHANGED files, up' \subseteq up, Others(h), handler'[h].phase # "remove"
      PROVE  Spared'
  BY <1>0, <1>1, <1>2, SparedKept
<1>3. CASE Request(h)
  <2>1. UNCHANGED <<files, up>>
    BY <1>3 DEF Request, StopRequest, CleanupRequest
  <2>2. Others(h) /\ handler'[h].phase # "remove"
    BY <1>3, RequestShape
  <2> QED
    BY <1>2, <2>1, <2>2
<1>4. CASE HandlerDown(h)
  <2> DEFINE t == handler[h].target
  <2>1. /\ files' = files /\ up' = up \ {Project(t)}
        /\ Others(h) /\ handler'[h].target = t
    BY <1>4, MoveShape DEF HandlerDown, Down, Same
  <2>2. \A f \in files \ {t} : ~Doomed(f) => ~Doomed(f)'
    BY <1>0, <2>1 DEF Others, Doomed
  <2> QED
    BY <1>0, <2>1, <2>2, DownSpares
<1>5. CASE HandlerDownFails(h)
  <2>1. files' = files /\ up' \subseteq up
    BY <1>5 DEF HandlerDownFails, DownFails
  <2>2. Others(h) /\ handler'[h].phase # "remove"
    BY <1>5, MoveShape, AnswerShape DEF HandlerDownFails, GiveUp, Free, Opened
  <2> QED
    BY <1>2, <2>1, <2>2
<1>6. CASE HandlerRemove(h)
  <2>1. Others(h) /\ handler'[h].phase # "remove"
    BY <1>6, MoveShape, AnswerShape DEF HandlerRemove, Free, Opened
  <2>2. \A f : Doomed(f)' => Doomed(f)
    BY <1>1, <2>1
  <2>3. up' = up /\ \A f \in files : ~Doomed(f) => f \in files'
    BY <1>6 DEF HandlerRemove, Doomed, In
  <2> QED
    BY <1>0, <2>2, <2>3, SparedKept
<1>7. CASE HandlerLook(h) \/ HandlerListFails(h) \/ HandlerFinal(h) \/ HandlerFinalFails(h)
  <2>1. UNCHANGED <<files, up>>
    BY <1>7 DEF HandlerLook, HandlerListFails, HandlerFinal, HandlerFinalFails
  <2>2. Others(h) /\ handler'[h].phase # "remove"
    BY <1>7, MoveShape, AnswerShape DEF HandlerLook, GiveUp, HandlerListFails,
         HandlerFinal, HandlerFinalFails, Free, Opened
  <2> QED
    BY <1>2, <2>1, <2>2
<1>8. CASE HandlerList(h) \/ HandlerNext(h) \/ HandlerCancel(h)
  <2>1. UNCHANGED <<files, up>>
    BY <1>8 DEF HandlerList, HandlerNext, HandlerCancel
  <2>2. Others(h) /\ handler'[h].phase # "remove"
    BY <1>8, ListShape, NextShape, CancelShape
  <2> QED
    BY <1>2, <2>1, <2>2
<1> QED
  BY <1>3, <1>4, <1>5, <1>6, <1>7, <1>8 DEF Handle

THEOREM SparedHolds == Spec => []Spared
<1>1. Init => Spared
  BY DEF Init, Spared
<1>2. TypeInv /\ Owned /\ Spared /\ [Next]_vars => Spared'
  <2> SUFFICES ASSUME TypeInv, Owned, Spared, [Next]_vars PROVE Spared'
    OBVIOUS
  <2> USE DEF TypeInv
  <2>1. CASE \E j \in Jobs : Client(j) \/ Dequeue(j)
    <3>1. UNCHANGED <<ask, up, files, handler>> /\ (worker' = worker \/ worker'.stage = "step")
      BY <2>1 DEF Client, Submit, CancelJob, DeleteJob, Dequeue, Idle
    <3> QED
      BY <3>1, SparedKept DEF Doomed
  <2>2. CASE ProcessJob
    BY <2>2, WorkerSpares
  <2>3. CASE \E h \in Handlers : Request(h) \/ Handle(h)
    BY <2>3, HandlerSpares
  <2>4. CASE Crash
    <3>1. /\ UNCHANGED <<ask, up, files>> /\ worker'.stage = "step"
          /\ \A h \in Handlers : handler'[h].phase = "idle"
      BY <2>4 DEF Crash, Idle, Free, Opened
    <3> QED
      BY <3>1, SparedKept DEF Doomed
  <2>5. CASE UNCHANGED vars
    BY <2>5, SparedKept DEF vars, system, Doomed
  <2> QED
    BY <2>1, <2>2, <2>3, <2>4, <2>5 DEF Next
<1> QED
  BY <1>1, <1>2, TypesHold, OwnedHolds, PTL DEF Spec

\* A running project always keeps a compose file it can be taken down with.
THEOREM RunningReachable == Spec => []RunningIsReachable
<1>1. Spared => RunningIsReachable
  BY DEF Spared, RunningIsReachable
<1> QED
  BY <1>1, SparedHolds, PTL

----------------------------------------------------------------------------
(* What a successful stop has removed. *)

\* While the environment of the job to stop is on disk, its removal is what
\* the request is at.
OwnGone ==
  \A h \in Handlers :
    handler[h].own \in files =>
      /\ handler[h].phase \in {"down", "remove"}
      /\ handler[h].todo = {} /\ handler[h].target = handler[h].own

\* A compose file that appears has a name that was never used.
LEMMA NewNames ==
  ASSUME TypeOK, [Next]_vars
  PROVE  \A f \in files' : f \in files \/ f.id = made + 1
<1>1. CASE \E j \in Jobs : Client(j) \/ Dequeue(j)
  BY <1>1, ClientCalm DEF Calm
<1>2. CASE ProcessJob
  <2>1. CASE ComposeUp
    BY <2>1 DEF ComposeUp
  <2>2. CASE Finish
    BY <2>2 DEF Finish
  <2> QED
    BY <1>2, <2>1, <2>2, WorkerCalm DEF Calm
<1>3. CASE \E h \in Handlers : Request(h)
  BY <1>3 DEF Request, StopRequest, CleanupRequest
<1>4. CASE \E h \in Handlers : Handle(h)
  BY <1>4, HandlerCalm DEF Calm
<1>5. CASE Crash \/ UNCHANGED vars
  BY <1>5 DEF Crash, vars, system
<1> QED
  BY <1>1, <1>2, <1>3, <1>4, <1>5 DEF Next

LEMMA OwnIsOld ==
  ASSUME TypeOK, TypeOK', Owned, [Next]_vars, NEW h \in Handlers,
         handler[h].own \in files'
  PROVE  handler[h].own \in files
<1>1. handler[h].own \in File
  BY DEF TypeOK
<1> QED
  BY <1>1, NewNames, FileAssumption DEF TypeOK, File, Owned, Keeping, Old

\* A request whose own environment is gone, and that keeps to it, is no concern.
LEMMA OthersKeepGone ==
  ASSUME TypeOK, TypeOK', Owned, OwnGone, [Next]_vars, NEW h \in Handlers, Others(h),
         handler'[h].own \in files' =>
           /\ handler'[h].phase \in {"down", "remove"}
           /\ handler'[h].todo = {} /\ handler'[h].target = handler'[h].own
  PROVE  OwnGone'
<1>1. \A g \in Handlers \ {h} : handler'[g] = handler[g]
  BY DEF Others
<1> QED
  BY <1>1, OwnIsOld DEF OwnGone

LEMMA HandlerKeepsGone ==
  ASSUME TypeOK, TypeOK', Owned, OwnGone, [Next]_vars, NEW h \in Handlers,
         Request(h) \/ Handle(h)
  PROVE  OwnGone'
<1>0. NoFile \notin files'
  BY FileAssumption DEF TypeOK
<1>1. ASSUME Others(h), Keeps(h), handler[h].own \notin files
      PROVE  OwnGone'
  BY <1>1, OthersKeepGone, OwnIsOld DEF Keeps
<1>2. CASE Answer(h)
  BY <1>0, <1>2, AnswerShape, OthersKeepGone DEF Free, Opened
<1>3. CASE Request(h)
  BY <1>0, <1>3, RequestShape, OthersKeepGone
<1>4. CASE HandlerDown(h)
  <2>1. Others(h) /\ Same(h) /\ handler'[h].phase = "remove"
    BY <1>4, MoveShape DEF HandlerDown
  <2> QED
    BY <2>1, OthersKeepGone, OwnIsOld DEF Same, Keeps, OwnGone
<1>5. CASE HandlerDownFails(h) /\ ~Answer(h)
  <2>1. Others(h) /\ Same(h) /\ handler[h].todo # {}
    BY <1>5, MoveShape DEF HandlerDownFails, GiveUp, IsOwn
  <2> QED
    BY <1>1, <2>1 DEF Same, OwnGone
<1>6. CASE HandlerRemove(h) /\ ~Answer(h)
  <2>1. Others(h) /\ Same(h) /\ files' = files \ {handler[h].target}
    BY <1>6, MoveShape DEF HandlerRemove
  <2>2. handler'[h].own \notin files'
    BY <2>1 DEF Same, Keeps, OwnGone
  <2> QED
    BY <2>1, <2>2, OthersKeepGone
<1>7. CASE \/ HandlerLook(h) \/ HandlerListFails(h) \/ HandlerFinal(h)
           \/ HandlerFinalFails(h)
  <2>1. Answer(h) \/ (Others(h) /\ Keeps(h))
    BY <1>7, MoveShape DEF HandlerLook, GiveUp, HandlerListFails, HandlerFinal,
         HandlerFinalFails, Same
  <2>2. handler[h].own \notin files
    BY <1>7 DEF HandlerLook, HandlerListFails, HandlerFinal, HandlerFinalFails, In,
                OwnGone
  <2> QED
    BY <1>1, <1>2, <2>1, <2>2
<1>8. CASE HandlerList(h) \/ HandlerNext(h) \/ HandlerCancel(h)
  <2>1. Others(h) /\ Keeps(h)
    BY <1>8, ListShape, NextShape, CancelShape
  <2>2. handler[h].own \notin files
    BY <1>8 DEF HandlerList, HandlerNext, HandlerCancel, In, OwnGone
  <2> QED
    BY <1>1, <2>1, <2>2
<1> QED
  BY <1>2, <1>3, <1>4, <1>5, <1>6, <1>7, <1>8 DEF Handle

THEOREM OwnGoneHolds == Spec => []OwnGone
<1>1. Init => OwnGone
  BY DEF Init, OwnGone
<1>2. TypeInv /\ TypeInv' /\ Owned /\ OwnGone /\ [Next]_vars => OwnGone'
  <2> SUFFICES ASSUME TypeInv, TypeInv', Owned, OwnGone, [Next]_vars PROVE OwnGone'
    OBVIOUS
  <2> USE DEF TypeInv
  <2>1. CASE UNCHANGED handler
    BY <2>1, OwnIsOld DEF OwnGone
  <2>2. CASE \E h \in Handlers : Request(h) \/ Handle(h)
    BY <2>2, HandlerKeepsGone
  <2>3. CASE Crash
    <3>1. NoFile \notin files'
      BY FileAssumption DEF TypeOK
    <3> QED
      BY <2>3, <3>1 DEF Crash, OwnGone, Free, Opened
  <2>4. \/ UNCHANGED handler \/ Crash
        \/ \E h \in Handlers : Request(h) \/ Handle(h)
    BY DEF Next, Client, Submit, CancelJob, DeleteJob, Dequeue, ProcessJob, Report,
           ComposeUp, SetUp, SetUpFails, Try, TryFails, Destroy, RemoveFiles,
           VerdictPasses, VerdictFails, SetError, Finish, vars, system
  <2> QED
    BY <2>1, <2>2, <2>3, <2>4
<1> QED
  BY <1>1, <1>2, TypesHold, OwnedHolds, PTL DEF Spec

\* A stop answered with success has removed the environment its row described.
THEOREM StopsAreReal == Spec => StopMeansGone
<1>1. TypeInv /\ TypeInv' /\ Owned /\ OwnGone /\ [Next]_vars =>
        [\A h \in Handlers : Succeeds(h) => handler[h].own \notin files']_vars
  BY OwnIsOld DEF TypeInv, OwnGone, Succeeds, In
<1> QED
  BY <1>1, TypesHold, OwnedHolds, OwnGoneHolds, PTL DEF Spec, StopMeansGone

----------------------------------------------------------------------------
(* What accounts for the environments on disk. *)

\* Accounted is not inductive: a status write clears the environment of a row
\* (UpdateJobStatus without a result), and a creation replaces the one in the
\* worker's hand.  The rows of jobs that are still to be finished describe no
\* environment, and a job reaches the worker once.
Delivered ==
  /\ \A j \in Jobs :
       (\/ j \in pending \/ worker.job = j
        \/ rows[j].status = "queued" \/ rows[j].created = 0) => rows[j].env = NoFile
  /\ \A j \in Jobs :
       (j \in pending \/ worker.job = j \/ rows[j].status # "absent") =>
         rows[j].created # 0
  /\ worker.job \notin pending

\* And a creation starts with no environment of its job on disk.
Built ==
  /\ worker.pc = 1 => worker.env = NoFile
  /\ Program[worker.pc] = "up" => worker.env \notin files

LEMMA UpComesFirst ==
  /\ Program[1] = "report"
  /\ \A i \in 1..Len(Program) :
       i + 1 \in 1..Len(Program) /\ Program[i + 1] = "up" =>
         (i = 1 \/ Program[i] = "destroy")
<1>1. Len(Program) = 16
  BY DEF Program
<1>2. /\ Program[1] = "report" /\ Program[3] = "import" /\ Program[4] = "copy"
      /\ Program[5] = "report" /\ Program[6] = "try" /\ Program[7] = "report"
      /\ Program[8] = "destroy"
  BY DEF Program
<1>3. /\ Program[10] = "import" /\ Program[11] = "copy"
      /\ Program[12] = "report" /\ Program[13] = "try" /\ Program[14] = "verdict"
      /\ Program[15] = "report" /\ Program[16] = "finish"
  BY DEF Program
<1> QED
  BY <1>1, <1>2, <1>3

\* A step that gives no row an environment, and no job to the worker.
Steady ==
  /\ pending' = pending /\ worker'.job \in {worker.job, NoJob}
  /\ \A j \in Jobs :
       /\ rows'[j].env \in {rows[j].env, NoFile}
       /\ rows'[j].created = rows[j].created
       /\ rows'[j].status # rows[j].status =>
            rows[j].status # "absent" /\ rows'[j].status # "queued"

LEMMA SteadyDelivers ==
  ASSUME TypeOK, Delivered, Steady
  PROVE  Delivered'
<1>1. NoJob \notin pending /\ NoJob \notin Jobs
  BY NoneAssumption DEF TypeOK
<1> QED
  BY <1>1 DEF Delivered, Steady

LEMMA UpdatedSteady ==
  ASSUME TypeOK, NEW j, NEW status \in Statuses \ {"queued"},
         rows' = Updated(j, status, NoFile)
  PROVE  \A k \in Jobs :
           /\ rows'[k].env \in {rows[k].env, NoFile}
           /\ rows'[k].created = rows[k].created
           /\ rows'[k].status # rows[k].status =>
                rows[k].status # "absent" /\ rows'[k].status # "queued"
BY DEF TypeOK, Row, Updated

LEMMA ClientDelivers ==
  ASSUME TypeOK, Delivered, NEW j \in Jobs, Client(j) \/ Dequeue(j)
  PROVE  Delivered'
<1>1. CASE Submit(j)
  <2>1. /\ rows[j].created = 0 /\ clock \in Nat
        /\ rows'[j].status = "queued" /\ rows'[j].created = clock + 1
        /\ rows'[j].env = rows[j].env
        /\ \A k \in Jobs \ {j} : rows'[k] = rows[k]
        /\ pending' = pending \cup {j} /\ worker' = worker
    BY <1>1 DEF Submit, TypeOK, Row
  <2> QED
    BY <2>1 DEF Delivered
<1>2. CASE CancelJob(j)
  <2>1. Steady
    BY <1>2 DEF CancelJob, TypeOK, Row, Steady
  <2> QED
    BY <2>1, SteadyDelivers
<1>3. CASE DeleteJob(j)
  <2>1. /\ rows[j].status # "absent" /\ rows'[j].status = "absent"
        /\ rows'[j].env = NoFile /\ rows'[j].created = rows[j].created
        /\ \A k \in Jobs \ {j} : rows'[k] = rows[k]
        /\ pending' = pending /\ worker' = worker
    BY <1>3 DEF DeleteJob, TypeOK, Row
  <2>2. Steady
    BY <2>1 DEF Steady
  <2> QED
    BY <2>2, SteadyDelivers
<1>4. CASE Dequeue(j)
  <2>1. /\ j \in pending /\ rows' = rows /\ pending' = pending \ {j}
        /\ worker'.job = j
    BY <1>4 DEF Dequeue, Idle
  <2> QED
    BY <2>1 DEF Delivered
<1> QED
  BY <1>1, <1>2, <1>3, <1>4 DEF Client

LEMMA WorkerDelivers ==
  ASSUME TypeOK, Delivered, ProcessJob
  PROVE  Delivered'
<1>1. pending' = pending /\ worker'.job \in {worker.job, NoJob}
  <2>1. CASE Report \/ ComposeUp \/ SetUp \/ Try \/ TryFails \/ VerdictPasses
    BY <2>1 DEF Report, ComposeUp, SetUp, Try, TryFails, VerdictPasses, Advance, Fail,
                TypeOK, Worker
  <2>2. CASE SetUpFails \/ VerdictFails \/ Destroy
    BY <2>2 DEF SetUpFails, VerdictFails, Destroy, CleanUp, Fail, TypeOK, Worker
  <2>3. CASE RemoveFiles
    <3>1. worker'.job = worker.job
      BY <2>3 DEF RemoveFiles, TypeOK, Worker
    <3> QED
      BY <2>3, <3>1 DEF RemoveFiles
  <2>4. CASE SetError \/ Finish
    BY <2>4 DEF SetError, Finish, LetGo, Idle
  <2> QED
    BY <2>1, <2>2, <2>3, <2>4 DEF ProcessJob
<1>2. CASE Finish /\ rows' # rows
  <2>1. /\ worker.job # NoJob /\ worker.job \in Jobs /\ worker'.job = NoJob
        /\ rows' = Updated(worker.job, "completed", worker.env)
    BY <1>2 DEF Finish, Write, LetGo, At, Idle, TypeOK, Worker
  <2>2. /\ rows'[worker.job].created = rows[worker.job].created
        /\ rows'[worker.job].status # "queued"
        /\ rows'[worker.job].status # "absent" => rows[worker.job].status # "absent"
        /\ \A k \in Jobs \ {worker.job} : rows'[k] = rows[k]
    <3>1. CASE rows[worker.job].status = "absent"
      BY <2>1, <3>1 DEF Updated
    <3>2. CASE rows[worker.job].status # "absent"
      BY <2>1, <3>2 DEF Updated, TypeOK, Row
    <3> QED
      BY <3>1, <3>2
  <2>3. NoJob \notin pending /\ NoJob \notin Jobs
    BY NoneAssumption DEF TypeOK
  <2> QED
    BY <1>1, <2>1, <2>2, <2>3 DEF Delivered
<1>3. CASE (Report \/ SetError) /\ rows' # rows
  <2>1. \E status \in Statuses \ {"queued"} : rows' = Updated(worker.job, status, NoFile)
    BY <1>3 DEF Report, SetError, Write, Statuses
  <2>2. Steady
    BY <1>1, <2>1, UpdatedSteady DEF Steady
  <2> QED
    BY <2>2, SteadyDelivers
<1>4. CASE (~Finish /\ ~Report /\ ~SetError) \/ rows' = rows
  <2>1. rows' = rows
    BY <1>4 DEF ProcessJob, ComposeUp, SetUp, SetUpFails, Try, TryFails, Destroy,
                RemoveFiles, VerdictPasses, VerdictFails
  <2>2. Steady
    BY <1>1, <2>1 DEF Steady
  <2> QED
    BY <2>2, SteadyDelivers
<1> QED
  BY <1>2, <1>3, <1>4

LEMMA HandlerDelivers ==
  ASSUME TypeOK, Delivered, NEW h \in Handlers, Request(h) \/ Handle(h)
  PROVE  Delivered'
<1>1. pending' = pending /\ worker' = worker
  BY DEF Request, StopRequest, CleanupRequest, Handle, HandlerDown, HandlerDownFails,
         HandlerRemove, HandlerLook, HandlerList, HandlerListFails, HandlerNext,
         HandlerCancel, HandlerFinal, HandlerFinalFails
<1>2. CASE HandlerFinal(h)
  <2>1. rows' = Updated(handler[h].job, "cancelled", NoFile)
    BY <1>2 DEF HandlerFinal
  <2>2. Steady
    BY <1>1, <2>1, UpdatedSteady DEF Steady, Statuses
  <2> QED
    BY <2>2, SteadyDelivers
<1>3. CASE HandlerCancel(h)
  <2>1. \/ rows' = rows
        \/ \E k : rows[k].status # "absent" /\ rows' = [rows EXCEPT ![k].status = "cancelled"]
    BY <1>3 DEF HandlerCancel
  <2>2. Steady
    BY <1>1, <2>1 DEF Steady, TypeOK, Row
  <2> QED
    BY <2>2, SteadyDelivers
<1>4. CASE ~HandlerFinal(h) /\ ~HandlerCancel(h)
  <2>1. rows' = rows
    BY <1>4 DEF Request, StopRequest, CleanupRequest, Handle, HandlerDown, HandlerDownFails,
         HandlerRemove, HandlerLook, HandlerList, HandlerListFails, HandlerNext,
         HandlerFinalFails
  <2> QED
    BY <1>1, <2>1, SteadyDelivers DEF Steady
<1> QED
  BY <1>2, <1>3, <1>4

THEOREM DeliveredHolds == Spec => []Delivered
<1>1. Init => Delivered
  BY NoneAssumption DEF Init, Delivered, NoRow, Idle
<1>2. TypeInv /\ Delivered /\ [Next]_vars => Delivered'
  <2> SUFFICES ASSUME TypeInv, Delivered, [Next]_vars PROVE Delivered'
    OBVIOUS
  <2> USE DEF TypeInv
  <2>1. CASE \E j \in Jobs : Client(j) \/ Dequeue(j)
    BY <2>1, ClientDelivers
  <2>2. CASE ProcessJob
    BY <2>2, WorkerDelivers
  <2>3. CASE \E h \in Handlers : Request(h) \/ Handle(h)
    BY <2>3, HandlerDelivers
  <2>4. CASE Crash
    <3>1. /\ rows' = rows /\ worker'.job = NoJob
          /\ pending' = {j \in Jobs : rows[j].status = "queued"}
      BY <2>4 DEF Crash, Idle
    <3> QED
      BY <3>1, NoneAssumption DEF Delivered
  <2>5. CASE UNCHANGED vars
    BY <2>5 DEF vars, system, Delivered
  <2> QED
    BY <2>1, <2>2, <2>3, <2>4, <2>5 DEF Next
<1> QED
  BY <1>1, <1>2, TypesHold, PTL DEF Spec

LEMMA WorkerBuilds ==
  ASSUME TypeInv, TypeOK', Built, ProcessJob
  PROVE  Built'
<1> USE DEF TypeInv
<1>0. /\ NoFile \notin files' /\ worker.pc \in 1..Len(Program)
      /\ worker \in Worker /\ worker.pc \in Nat \ {0}
  BY FileAssumption, FinishIsLast DEF TypeOK, Worker
<1>1. ASSUME worker'.pc = worker.pc + 1, Program[worker.pc] # "finish",
             (worker.pc = 1 \/ Program[worker.pc] = "destroy") => worker'.env \notin files'
      PROVE  Built'
  <2>1. worker'.pc # 1
    BY <1>0, <1>1
  <2>2. worker'.pc \in 1..Len(Program)
    BY <1>0, <1>1, FinishIsLast
  <2> QED
    BY <1>0, <1>1, <2>1, <2>2, UpComesFirst DEF Built
<1>2. ASSUME worker'.pc = worker.pc, worker'.env = worker.env, files' \subseteq files
      PROVE  Built'
  BY <1>2 DEF Built
<1>3. CASE Report
  <2>1. worker'.pc = worker.pc + 1 /\ worker'.env = worker.env /\ Program[worker.pc] = "report"
    BY <1>0, <1>3 DEF Report, Advance, At, Worker
  <2>2. worker.pc = 1 => worker'.env \notin files'
    BY <1>0, <2>1 DEF Built
  <2> QED
    BY <1>1, <2>1, <2>2
<1>4. CASE ComposeUp \/ SetUp \/ Try \/ VerdictPasses
  <2>1. worker'.pc = worker.pc + 1
    BY <1>0, <1>4 DEF ComposeUp, SetUp, Try, VerdictPasses, Advance, Worker
  <2>2. Program[worker.pc] \in {"up", "import", "copy", "try", "verdict"}
    BY <1>4 DEF ComposeUp, SetUp, Try, VerdictPasses, At
  <2> QED
    BY <1>1, <2>1, <2>2, UpComesFirst
<1>5. CASE SetUpFails \/ VerdictFails \/ Destroy \/ TryFails
  <2>1. worker'.pc = worker.pc /\ worker'.env = worker.env /\ files' = files
    BY <1>0, <1>5 DEF SetUpFails, VerdictFails, Destroy, TryFails, CleanUp, Fail, Worker
  <2> QED
    BY <1>2, <2>1
<1>6. CASE RemoveFiles
  <2>1. files' = files \ {worker.env} /\ worker'.env = worker.env
    BY <1>0, <1>6 DEF RemoveFiles, Worker
  <2>2. CASE worker' = [worker EXCEPT !.stage = "failing"]
    <3>1. worker'.pc = worker.pc
      BY <1>0, <2>2 DEF Worker
    <3> QED
      BY <1>2, <2>1, <3>1
  <2>3. CASE worker' = [worker EXCEPT !.stage = "step", !.pc = @ + 1]
    <3>1. worker'.pc = worker.pc + 1
      BY <1>0, <2>3 DEF Worker
    <3>2. Program[worker.pc] # "finish"
      BY <1>6 DEF RemoveFiles, RemovesMidway
    <3> QED
      BY <1>1, <2>1, <3>1, <3>2
  <2> QED
    BY <1>6, <2>2, <2>3 DEF RemoveFiles
<1>7. CASE SetError \/ Finish
  BY <1>0, <1>7 DEF SetError, Finish, LetGo, Idle, Built
<1> QED
  BY <1>3, <1>4, <1>5, <1>6, <1>7 DEF ProcessJob

THEOREM BuiltHolds == Spec => []Built
<1>1. Init => Built
  BY DEF Init, Built, Idle
<1>2. TypeInv /\ TypeInv' /\ Built /\ [Next]_vars => Built'
  <2> SUFFICES ASSUME TypeInv, TypeInv', Built, [Next]_vars PROVE Built'
    OBVIOUS
  <2> USE DEF TypeInv
  <2>1. CASE ProcessJob
    BY <2>1, WorkerBuilds
  <2>2. CASE ~ProcessJob
    <3>1. files' \subseteq files
      BY <2>2 DEF Next, Client, Submit, CancelJob, DeleteJob, Dequeue, Request, StopRequest,
           CleanupRequest, Handle, HandlerDown, HandlerDownFails, HandlerRemove, HandlerLook,
           HandlerList, HandlerListFails, HandlerNext, HandlerCancel, HandlerFinal,
           HandlerFinalFails, Crash, vars, system
    <3>2. CASE \/ Crash
              \/ \E j \in Jobs : Dequeue(j)
      <4>1. worker'.pc = 1 /\ worker'.env = NoFile
        BY <3>2 DEF Crash, Dequeue, Idle
      <4>2. NoFile \notin files'
        BY FileAssumption DEF TypeOK
      <4> QED
        BY <4>1, <4>2 DEF Built
    <3>3. CASE ~Crash /\ ~\E j \in Jobs : Dequeue(j)
      <4>1. worker' = worker
        BY <2>2, <3>3 DEF Next, Client, Submit, CancelJob, DeleteJob, Request, StopRequest,
             CleanupRequest, Handle, HandlerDown, HandlerDownFails, HandlerRemove,
             HandlerLook, HandlerList, HandlerListFails, HandlerNext, HandlerCancel,
             HandlerFinal, HandlerFinalFails, vars, system
      <4> QED
        BY <3>1, <4>1 DEF Built
    <3> QED
      BY <3>2, <3>3
  <2> QED
    BY <2>1, <2>2
<1> QED
  BY <1>1, <1>2, TypesHold, PTL DEF Spec

\* A step that forgets no environment.
LEMMA Remembers ==
  ASSUME Accounted, adrift \subseteq adrift',
         \A f \in files' :
           /\ f \in files
           /\ rows[f.job].env = f => (rows'[f.job].env = f \/ f \in adrift')
           /\ worker.env = f =>
                (rows'[f.job].env = f \/ worker'.env = f \/ f \in adrift')
  PROVE  Accounted'
BY DEF Accounted

\* A row that describes no environment has none to lose.
LEMMA EmptyUpdated ==
  ASSUME TypeOK, NEW j, NEW status, rows' = Updated(j, status, NoFile),
         j \in Jobs => rows[j].env = NoFile
  PROVE  \A k \in Jobs : rows'[k].env = rows[k].env
BY DEF TypeOK, Row, Updated

LEMMA ClientRemembers ==
  ASSUME TypeOK, TypeOK', Owned, Accounted, NEW j \in Jobs, Client(j) \/ Dequeue(j)
  PROVE  Accounted'
<1>0. /\ NoFile \notin files' /\ \A f \in files' : f.job \in Jobs
      /\ worker.job = NoJob => worker.env = NoFile \/ worker.env.job = NoJob
  BY FileAssumption DEF TypeOK, File, Owned, Old
<1>1. CASE Submit(j) \/ CancelJob(j)
  <2>1. /\ files' = files /\ adrift' = adrift /\ worker' = worker
        /\ \A k \in Jobs : rows'[k].env = rows[k].env
    BY <1>1 DEF Submit, CancelJob, TypeOK, Row
  <2> QED
    BY <1>0, <2>1, Remembers
<1>2. CASE DeleteJob(j)
  <2>1. /\ files' = files /\ adrift' = adrift \cup ({rows[j].env} \ {NoFile})
        /\ worker' = worker
        /\ \A k \in Jobs \ {j} : rows'[k] = rows[k]
    BY <1>2 DEF DeleteJob, TypeOK, Row
  <2> QED
    BY <1>0, <2>1, Remembers
<1>3. CASE Dequeue(j)
  <2>1. files' = files /\ adrift' = adrift /\ rows' = rows /\ worker.job = NoJob
    BY <1>3 DEF Dequeue
  <2>2. worker.env \notin files'
    BY <1>0, <2>1, NoneAssumption
  <2> QED
    BY <2>1, <2>2, Remembers
<1> QED
  BY <1>1, <1>2, <1>3 DEF Client

LEMMA WorkerRemembers ==
  ASSUME TypeOK, TypeOK', Owned, Delivered, Built, Accounted, ProcessJob
  PROVE  Accounted'
<1>0. /\ NoFile \notin files' /\ NoFile \notin files
      /\ \A f \in files \cup files' : f.job \in Jobs
      /\ worker \in Worker
  BY FileAssumption DEF TypeOK, File
<1>1. CASE Report
  <2>1. /\ files' = files /\ adrift' = adrift /\ worker'.env = worker.env
        /\ rows' = Updated(worker.job, "running", NoFile) \/ rows' = rows
    BY <1>0, <1>1 DEF Report, Write, Advance, Worker
  <2>2. \A k \in Jobs : rows'[k].env = rows[k].env
    BY <2>1, EmptyUpdated DEF Delivered
  <2> QED
    BY <1>0, <2>1, <2>2, Remembers
<1>2. CASE ComposeUp
  <2> PICK f : f = [job |-> worker.job, id |-> made + 1]
    OBVIOUS
  <2>1. /\ files' = files \cup {f} /\ adrift' = adrift /\ rows' = rows
        /\ worker'.env = f
    BY <1>0, <1>2 DEF ComposeUp, Worker
  <2>2. worker.env \notin files
    BY <1>2 DEF ComposeUp, At, Built
  <2> QED
    BY <2>1, <2>2 DEF Accounted
<1>3. CASE SetUp \/ Try \/ TryFails \/ VerdictPasses \/ SetUpFails \/ VerdictFails \/ Destroy
  <2>1. files' = files /\ adrift' = adrift /\ rows' = rows
    BY <1>3 DEF SetUp, Try, TryFails, VerdictPasses, SetUpFails, VerdictFails, Destroy
  <2>2. worker'.env = worker.env
    BY <1>0, <1>3 DEF SetUp, Try, TryFails, VerdictPasses, SetUpFails, VerdictFails, Destroy,
                      CleanUp, Advance, Fail, Worker
  <2> QED
    BY <2>1, <2>2, Remembers
<1>4. CASE RemoveFiles
  <2>1. files' = files \ {worker.env} /\ adrift' = adrift /\ rows' = rows
    BY <1>4 DEF RemoveFiles
  <2> QED
    BY <2>1, Remembers
<1>5. CASE SetError
  <2>1. /\ files' = files
        /\ adrift' = adrift \cup ({worker.env} \ {NoFile, rows'[worker.job].env})
        /\ rows' = Updated(worker.job, "failed", NoFile) \/ rows' = rows
    BY <1>5 DEF SetError, Write, LetGo
  <2>2. \A k \in Jobs : rows'[k].env = rows[k].env
    BY <2>1, EmptyUpdated DEF Delivered
  <2>3. worker.env # NoFile => worker.env.job = worker.job
    BY DEF Owned, Old
  <2> QED
    BY <1>0, <2>1, <2>2, <2>3, Remembers
<1>6. CASE Finish
  <2>1. /\ files' = files /\ worker.job \in Jobs
        /\ rows' = Updated(worker.job, "completed", worker.env) \/ rows' = rows
        /\ adrift' = adrift \cup ({worker.env} \ {NoFile, rows'[worker.job].env})
    BY <1>0, <1>6 DEF Finish, Write, LetGo, At, Worker
  <2>2. \A k \in Jobs \ {worker.job} : rows'[k] = rows[k]
    BY <2>1 DEF Updated, TypeOK, Row
  <2>3. rows[worker.job].env = NoFile
    BY <2>1 DEF Delivered
  <2>4. worker.env # NoFile => worker.env.job = worker.job
    BY DEF Owned, Old
  <2> QED
    BY <1>0, <2>1, <2>2, <2>3, <2>4, Remembers
<1> QED
  BY <1>1, <1>2, <1>3, <1>4, <1>5, <1>6 DEF ProcessJob

LEMMA HandlerRemembers ==
  ASSUME TypeOK, TypeOK', Serving, OwnGone, Accounted, NEW h \in Handlers,
         Request(h) \/ Handle(h)
  PROVE  Accounted'
<1>0. /\ NoFile \notin files' /\ \A f \in files' : f.job \in Jobs
      /\ worker' = worker /\ files' \subseteq files
  BY FileAssumption DEF TypeOK, File,
         Request, StopRequest, CleanupRequest, Handle, HandlerDown, HandlerDownFails,
         HandlerRemove, HandlerLook, HandlerList, HandlerListFails, HandlerNext,
         HandlerCancel, HandlerFinal, HandlerFinalFails
<1>1. CASE HandlerFinal(h)
  <2> DEFINE j == handler[h].job
  <2>1. /\ handler[h].phase = "final" /\ rows' = Updated(j, "cancelled", NoFile)
        /\ adrift' = adrift \cup ({rows[j].env} \ {NoFile, handler[h].own})
        /\ files' = files
    BY <1>1 DEF HandlerFinal, In
  <2>2. j \in Jobs
    BY <2>1 DEF Serving, TypeOK, Handler
  <2>3. handler[h].own \notin files
    BY <2>1 DEF OwnGone
  <2>4. \A k \in Jobs \ {j} : rows'[k].env = rows[k].env
    BY <2>1, <2>2 DEF Updated, TypeOK, Row
  <2> QED
    BY <1>0, <2>1, <2>2, <2>3, <2>4, Remembers
<1>2. CASE HandlerCancel(h)
  <2>1. PICK k : \/ rows' = rows
                 \/ rows' = [rows EXCEPT ![k].status = "cancelled"]
    BY <1>2, CancelShape
  <2>2. \A i \in Jobs : rows'[i].env = rows[i].env
    <3>1. CASE rows' = rows
      BY <3>1
    <3>2. CASE rows' = [rows EXCEPT ![k].status = "cancelled"]
      BY <3>2 DEF TypeOK, Row
    <3> QED
      BY <2>1, <3>1, <3>2
  <2>3. adrift' = adrift
    BY <1>2 DEF HandlerCancel
  <2> QED
    BY <1>0, <2>2, <2>3, Remembers
<1>3. CASE ~HandlerFinal(h) /\ ~HandlerCancel(h)
  <2>1. rows' = rows /\ adrift' = adrift
    BY <1>3 DEF Request, StopRequest, CleanupRequest, Handle, HandlerDown, HandlerDownFails,
         HandlerRemove, HandlerLook, HandlerList, HandlerListFails, HandlerNext,
         HandlerFinalFails
  <2> QED
    BY <1>0, <2>1, Remembers
<1> QED
  BY <1>1, <1>2, <1>3

\* Whatever clients stop, clean up, cancel and delete, and wherever the server
\* crashes, an environment on disk is one that a row describes, that the
\* worker has in hand, or that is known to have been given up.
THEOREM EnvironmentsAccounted == Spec => []Accounted
<1>1. Init => Accounted
  BY DEF Init, Accounted
<1>2. /\ TypeInv /\ TypeInv' /\ Owned /\ OwnGone /\ Delivered /\ Built /\ Accounted
      /\ [Next]_vars
      => Accounted'
  <2> SUFFICES ASSUME TypeInv, TypeInv', Owned, OwnGone, Delivered, Built, Accounted,
                      [Next]_vars
               PROVE  Accounted'
    OBVIOUS
  <2> USE DEF TypeInv
  <2>1. CASE \E j \in Jobs : Client(j) \/ Dequeue(j)
    BY <2>1, ClientRemembers
  <2>2. CASE ProcessJob
    BY <2>2, WorkerRemembers
  <2>3. CASE \E h \in Handlers : Request(h) \/ Handle(h)
    BY <2>3, HandlerRemembers
  <2>4. CASE Crash
    <3>1. /\ files' = files /\ rows' = rows
          /\ adrift' = adrift \cup ({worker.env} \ {NoFile})
      BY <2>4 DEF Crash
    <3>2. NoFile \notin files'
      BY FileAssumption DEF TypeOK
    <3> QED
      BY <3>1, <3>2, Remembers
  <2>5. CASE UNCHANGED vars
    BY <2>5 DEF vars, system, Accounted
  <2> QED
    BY <2>1, <2>2, <2>3, <2>4, <2>5 DEF Next
<1> QED
  BY <1>1, <1>2, TypesHold, OwnedHolds, OwnGoneHolds, DeliveredHolds, BuiltHolds,
     PTL DEF Spec
=============================================================================
