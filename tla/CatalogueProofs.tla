-------------------------- MODULE CatalogueProofs --------------------------
(***************************************************************************)
(* Records and snapshots stay together for any number of snapshots, sites, *)
(* repositories, concurrent deletions, failed calls and crashes.           *)
(***************************************************************************)
EXTENDS Catalogue, TLAPS

----------------------------------------------------------------------------
(* Types. *)

LEMMA RestTypes == Resting \in Worker /\ Resting.phase = "idle" /\ Free \in Handler
BY HomeAssumption DEF Resting, Worker, NoSettings, Settings, Free, Handler

LEMMA SiteTypes ==
  ASSUME TypeOK, ManageSites
  PROVE  TypeOK'
<1>1. PICK s \in Sites :
        \/ \E set \in Choices : CreateSite(s, set) \/ UpdateSite(s, set)
        \/ DeleteSite(s)
  BY DEF ManageSites
<1>2. CASE \E set \in Choices : CreateSite(s, set)
  BY <1>2, ChoiceAssumption DEF CreateSite, TypeOK, SiteRow
<1>3. CASE \E set \in Choices : UpdateSite(s, set)
  <2>1. BackupsOf(s) \subseteq Snapshots
    BY DEF TypeOK, BackupsOf, Record
  <2>2. moved' \subseteq Snapshots
    BY <1>3, <2>1 DEF UpdateSite, TypeOK
  <2> QED
    BY <1>3, <2>2, ChoiceAssumption DEF UpdateSite, TypeOK, SiteRow
<1>4. CASE DeleteSite(s)
  BY <1>4 DEF DeleteSite, TypeOK, SiteRow, Record
<1> QED
  BY <1>1, <1>2, <1>3, <1>4

LEMMA WorkerRepo ==
  ASSUME TypeOK
  PROVE  RepoOf(worker.set) \in Repos /\ \A s \in Sites : RepoOf(sites[s].set) \in Repos
BY HomeAssumption DEF TypeOK, Worker, SiteRow, Settings, RepoOf

LEMMA JobTypes ==
  ASSUME TypeOK, BackUp
  PROVE  TypeOK'
<1>1. CASE \E s \in Sites : BeginBackup(s)
  <2>1. PICK s \in Sites, snap \in Snapshots \ used :
          /\ used' = used \cup {snap}
          /\ worker' = [phase |-> "store", site |-> s, set |-> sites[s].set, snap |-> snap]
          /\ BeginBackup(s)
    BY <1>1 DEF BeginBackup
  <2>2. worker' \in Worker
    BY <2>1 DEF TypeOK, Worker, SiteRow
  <2> QED
    BY <2>1, <2>2 DEF BeginBackup, TypeOK
<1>2. CASE Store
  <2>1. worker' \in Worker /\ worker'.site = worker.site /\ worker'.snap = worker.snap
    BY <1>2 DEF Store, TypeOK, Worker
  <2>2. stored' \in [Repos -> SUBSET Snapshots]
    BY <1>2 DEF Store, TypeOK
  <2> QED
    BY <1>2, <2>1, <2>2 DEF Store, TypeOK
<1>3. CASE StoreFails
  <2>1. worker.snap \in Snapshots
    BY <1>3 DEF StoreFails, TypeOK
  <2>2. stored' \in [Repos -> SUBSET Snapshots]
    BY <1>3, <2>1 DEF StoreFails, TypeOK
  <2> QED
    BY <1>3, <2>1, <2>2, RestTypes DEF StoreFails, TypeOK, Fault
<1>4. CASE Retain
  <2>1. PICK snaps \in SUBSET stored[RepoOf(worker.set)] :
          stored' = [stored EXCEPT ![RepoOf(worker.set)] = @ \ snaps] /\ gone' = gone \cup snaps
    BY <1>4 DEF Retain, Remove
  <2>2. stored' \in [Repos -> SUBSET Snapshots] /\ gone' \subseteq Snapshots
    BY <2>1, WorkerRepo DEF TypeOK
  <2>3. worker' \in Worker /\ worker'.site = worker.site /\ worker'.snap = worker.snap
    BY <1>4 DEF Retain, TypeOK, Worker
  <2> QED
    BY <1>4, <2>2, <2>3 DEF Retain, TypeOK
<1>5. CASE RecordBackup \/ RecordFails
  <2>1. worker.snap \in Snapshots /\ worker.site \in Sites
    BY <1>5 DEF RecordBackup, RecordFails, TypeOK
  <2> QED
    BY <1>5, <2>1, RestTypes DEF RecordBackup, RecordFails, TypeOK, Fault, Record
<1> QED
  BY <1>1, <1>2, <1>3, <1>4, <1>5 DEF BackUp

\* What a request makes of itself.
Others(h) == \A g \in Handlers \ {h} : handler'[g] = handler[g]

LEMMA AskShape ==
  ASSUME TypeOK, NEW h \in Handlers, Ask(h)
  PROVE  \E kind \in {"backup", "snapshot"}, snap \in Snapshots, repo \in Repos :
           /\ Open(h, kind, snap, repo)
           /\ snap \in stored[repo] \/ \E r \in records : r.snap = snap
           /\ UNCHANGED <<sites, records, stored, used, worker, gone, stray, moved,
                          faults, crashes, updates>>
<1>1. CASE \E record \in records : AskBackup(h, record)
  <2>1. PICK record \in records : AskBackup(h, record)
    BY <1>1
  <2>2. record.snap \in Snapshots /\ record.site \in Sites
    BY DEF TypeOK, Record
  <2> QED
    BY <2>1, <2>2, WorkerRepo DEF AskBackup
<1>2. CASE \E snap \in stored[Home] : AskSnapshot(h, snap)
  BY <1>2, HomeAssumption DEF AskSnapshot, TypeOK
<1> QED
  BY <1>1, <1>2 DEF Ask

LEMMA OpenShape ==
  ASSUME TypeOK, NEW h \in Handlers, NEW kind, NEW snap, NEW repo,
         Open(h, kind, snap, repo)
  PROVE  /\ Others(h)
         /\ handler'[h] = [phase |-> "forget", kind |-> kind, snap |-> snap, repo |-> repo]
BY DEF TypeOK, Open, Others

LEMMA AnswerShape ==
  ASSUME TypeOK, NEW h \in Handlers, Answer(h)
  PROVE  Others(h) /\ handler'[h] = Free /\ handler' \in [Handlers -> Handler]
BY RestTypes DEF TypeOK, Answer, Others

LEMMA ForgetShape ==
  ASSUME TypeOK, NEW h \in Handlers, Forget(h)
  PROVE  /\ Others(h) /\ handler' \in [Handlers -> Handler] /\ handler'[h].phase = "row"
         /\ handler'[h].snap = handler[h].snap /\ handler'[h].repo = handler[h].repo
BY DEF TypeOK, Handler, Forget, Others

LEMMA RequestTypes ==
  ASSUME TypeOK, NEW h \in Handlers, Ask(h) \/ Handle(h), handler[h].snap \in Snapshots \/ Ask(h)
  PROVE  TypeOK'
<1>0. handler[h].repo \in Repos
  BY DEF TypeOK, Handler
<1>1. CASE Ask(h)
  <2>1. PICK kind \in {"backup", "snapshot"}, snap \in Snapshots, repo \in Repos :
          /\ Open(h, kind, snap, repo)
          /\ UNCHANGED <<sites, records, stored, used, worker, gone, stray, moved,
                         faults, crashes, updates>>
    BY <1>1, AskShape
  <2>2. handler' \in [Handlers -> Handler]
    BY <2>1 DEF Open, TypeOK, Handler
  <2> QED
    BY <2>1, <2>2 DEF TypeOK
<1>2. CASE Forget(h)
  <2>1. stored' \in [Repos -> SUBSET Snapshots]
    BY <1>0, <1>2 DEF Forget, Remove, TypeOK
  <2> QED
    BY <1>2, <2>1, ForgetShape DEF Forget, TypeOK
<1>3. CASE ForgetFails(h) /\ ~Ask(h)
  <2>1. stored' \in [Repos -> SUBSET Snapshots] /\ gone' \subseteq Snapshots
    BY <1>0, <1>3 DEF ForgetFails, Remove, TypeOK
  <2> QED
    BY <1>3, <2>1, AnswerShape DEF ForgetFails, TypeOK, Fault
<1>4. CASE (DeleteRow(h) \/ DeleteRowFails(h)) /\ ~Ask(h)
  BY <1>4, AnswerShape DEF DeleteRow, DeleteRowFails, TypeOK, Fault
<1> QED
  BY <1>1, <1>2, <1>3, <1>4 DEF Handle

----------------------------------------------------------------------------
(* Names are given once, and what a request has forgotten stays forgotten. *)

Unseen(snap) ==
  /\ \A r \in Repos : snap \notin stored[r]
  /\ \A record \in records : record.snap # snap
  /\ \A h \in Handlers : In(h, "idle") \/ handler[h].snap # snap

Named ==
  /\ \A h \in Handlers : In(h, "idle") \/ handler[h].snap \in used
  /\ \A record \in records : record.snap \in used
  /\ \A r \in Repos : stored[r] \subseteq used
  /\ worker.phase = "store" => Unseen(worker.snap)

Forgotten == \A h \in Handlers : In(h, "row") => handler[h].snap \notin stored[handler[h].repo]

Inv == TypeOK /\ Named /\ Forgotten

\* A step that stores nothing and records nothing, and begins no job.
LEMMA QuietKeeps ==
  ASSUME Inv, UNCHANGED used, records' \subseteq records,
         \A r \in Repos : stored'[r] \subseteq stored[r],
         worker' = worker \/ worker'.phase # "store",
         \A h \in Handlers : \/ handler'[h] = handler[h] \/ handler'[h].phase = "idle"
                             \/ handler[h].phase # "idle" /\ handler'[h].snap = handler[h].snap,
         \A h \in Handlers : \/ handler'[h] = handler[h]
                             \/ handler'[h].phase = "row" =>
                                  handler'[h].snap \notin stored'[handler'[h].repo]
  PROVE  Named' /\ Forgotten'
<1>1. \A h \in Handlers : handler[h].repo \in Repos
  BY DEF Inv, TypeOK, Handler
<1>2. Forgotten'
  BY <1>1 DEF Inv, Forgotten, In
<1>3. worker' = worker /\ worker.phase = "store" => Unseen(worker.snap)'
  BY DEF Inv, Named, Unseen, In
<1>4. /\ \A h \in Handlers : In(h, "idle")' \/ handler'[h].snap \in used
      /\ \A record \in records' : record.snap \in used
      /\ \A r \in Repos : stored'[r] \subseteq used
  BY DEF Inv, Named, In
<1> QED
  BY <1>2, <1>3, <1>4 DEF Named

LEMMA JobNames ==
  ASSUME Inv, BackUp
  PROVE  Named' /\ Forgotten'
<1> USE DEF Inv
<1>1. CASE \E s \in Sites : BeginBackup(s)
  <2>1. PICK snap \in Snapshots \ used :
          /\ used' = used \cup {snap} /\ worker'.snap = snap
          /\ UNCHANGED <<records, stored, handler>>
    BY <1>1 DEF BeginBackup
  <2>2. Unseen(snap)
    BY <2>1 DEF Named, Unseen
  <2>3. Unseen(worker.snap)'
    BY <2>1, <2>2 DEF Unseen, In
  <2> QED
    BY <2>1, <2>3 DEF Named, Forgotten, In
<1>2. CASE Store \/ StoreFails
  <2>1. /\ worker'.phase # "store" /\ worker.snap \in used /\ Unseen(worker.snap)
        /\ UNCHANGED <<records, used, handler>>
    BY <1>2, RestTypes DEF Store, StoreFails, TypeOK, Worker, Named
  <2>2. \A r \in Repos : stored'[r] \subseteq stored[r] \cup {worker.snap}
    BY <1>2 DEF Store, StoreFails, TypeOK
  <2>3. \A h \in Handlers : handler[h].repo \in Repos
    BY DEF TypeOK, Handler
  <2>4. Forgotten'
    BY <2>1, <2>2, <2>3 DEF Forgotten, Unseen, In
  <2> QED
    BY <2>1, <2>2, <2>4 DEF Named, In
<1>3. CASE Retain
  <2>1. /\ worker'.phase # "store" /\ UNCHANGED <<records, used, handler>>
        /\ \A r \in Repos : stored'[r] \subseteq stored[r]
    BY <1>3 DEF Retain, Remove, TypeOK, Worker
  <2> QED
    BY <2>1, QuietKeeps
<1>4. CASE RecordBackup
  <2>1. /\ worker'.phase # "store" /\ worker.snap \in used
        /\ records' = records \cup {[snap |-> worker.snap, site |-> worker.site]}
        /\ UNCHANGED <<stored, used, handler>>
    BY <1>4, RestTypes DEF RecordBackup, TypeOK
  <2> QED
    BY <2>1 DEF Named, Forgotten, In
<1>5. CASE RecordFails
  BY <1>5, QuietKeeps, RestTypes DEF RecordFails
<1> QED
  BY <1>1, <1>2, <1>3, <1>4, <1>5 DEF BackUp

LEMMA RequestNames ==
  ASSUME Inv, NEW h \in Handlers, Ask(h) \/ Handle(h)
  PROVE  Named' /\ Forgotten'
<1> USE DEF Inv
<1>0. handler[h].repo \in Repos /\ Free.phase = "idle"
  BY DEF TypeOK, Handler, Free
<1>1. CASE Ask(h)
  <2>1. PICK kind \in {"backup", "snapshot"}, snap \in Snapshots, repo \in Repos :
          /\ Open(h, kind, snap, repo)
          /\ snap \in stored[repo] \/ \E r \in records : r.snap = snap
          /\ UNCHANGED <<records, stored, used, worker>>
    BY <1>1, AskShape
  <2>2. Others(h) /\ handler'[h].phase = "forget" /\ handler'[h].snap = snap
    <3>1. /\ Others(h)
          /\ handler'[h] = [phase |-> "forget", kind |-> kind, snap |-> snap, repo |-> repo]
      BY <2>1, OpenShape
    <3> QED
      BY <3>1
  <2>3. snap \in used
    BY <2>1 DEF Named
  <2>4. worker.phase = "store" => Unseen(worker.snap)'
    <3>1. ASSUME worker.phase = "store" PROVE snap # worker.snap
      BY <2>1, <3>1 DEF Named, Unseen
    <3> QED
      BY <2>1, <2>2, <3>1 DEF Others, Named, Unseen, In
  <2> QED
    BY <2>1, <2>2, <2>3, <2>4 DEF Others, Named, Forgotten, In
<1>2. CASE Forget(h)
  <2>1. /\ UNCHANGED <<records, used, worker>>
        /\ \A r \in Repos : stored'[r] \subseteq stored[r]
        /\ handler[h].snap \notin stored'[handler[h].repo]
    BY <1>0, <1>2 DEF Forget, Remove, TypeOK
  <2>2. /\ Others(h) /\ handler[h].phase # "idle" /\ handler'[h].snap = handler[h].snap
        /\ handler'[h].repo = handler[h].repo
    BY <1>2, ForgetShape DEF Forget, In
  <2> QED
    BY <2>1, <2>2, QuietKeeps DEF Others
<1>3. CASE ForgetFails(h) \/ DeleteRow(h) \/ DeleteRowFails(h)
  <2>1. /\ UNCHANGED <<used, worker>> /\ records' \subseteq records
        /\ \A r \in Repos : stored'[r] \subseteq stored[r]
    BY <1>3 DEF ForgetFails, DeleteRow, DeleteRowFails, Remove, TypeOK
  <2>2. Others(h) /\ handler'[h].phase = "idle"
    BY <1>0, <1>3, AnswerShape DEF ForgetFails, DeleteRow, DeleteRowFails
  <2> QED
    BY <2>1, <2>2, QuietKeeps DEF Others
<1> QED
  BY <1>1, <1>2, <1>3 DEF Handle

LEMMA CrashKeeps ==
  ASSUME Inv, Crash
  PROVE  Inv'
<1> USE DEF Inv
<1>1. /\ worker' = Resting /\ handler' = [h \in Handlers |-> Free]
      /\ Free.phase = "idle"
      /\ UNCHANGED <<sites, records, used, moved, faults, updates>>
  BY DEF Crash, Free
<1>2. PICK done \in SUBSET Handlers, complete \in BOOLEAN :
        stored' = [r \in Repos |->
          (stored[r] \cup
            (IF complete /\ worker.phase = "store" /\ RepoOf(worker.set) = r
               THEN {worker.snap} ELSE {}))
          \ {handler[h].snap : h \in {g \in done : handler[g].repo = r}}]
  BY DEF Crash
<1>3. \A r \in Repos : stored'[r] \subseteq used
  BY <1>2 DEF Named, TypeOK
<1>4. stored' \in [Repos -> SUBSET Snapshots]
  BY <1>2, <1>3 DEF TypeOK
<1>5. gone' \subseteq Snapshots
  BY DEF Crash, Named, TypeOK
<1>6. stray' \subseteq Snapshots
  BY DEF Crash, TypeOK
<1>7. TypeOK'
  <2>1. worker' \in Worker /\ worker'.phase = "idle" /\ handler' \in [Handlers -> Handler]
    BY <1>1, RestTypes
  <2>2. crashes' \in Nat
    BY DEF Crash, TypeOK
  <2> QED
    BY <1>1, <1>4, <1>5, <1>6, <2>1, <2>2 DEF TypeOK
<1>8. Named' /\ Forgotten'
  BY <1>1, <1>3, RestTypes DEF Named, Forgotten, In
<1> QED
  BY <1>7, <1>8

THEOREM InvHolds == Spec => []Inv
<1>1. Init => Inv
  <2> SUFFICES ASSUME Init PROVE Inv
    OBVIOUS
  <2>1. NoSettings \in Settings
    BY DEF NoSettings, Settings
  <2>2. TypeOK
    BY <2>1, RestTypes DEF Init, TypeOK, SiteRow
  <2>3. Named /\ Forgotten
    BY RestTypes DEF Init, Named, Forgotten, In, Free
  <2> QED
    BY <2>2, <2>3 DEF Inv
<1>2. Inv /\ [Next]_vars => Inv'
  <2> SUFFICES ASSUME Inv, [Next]_vars PROVE Inv'
    OBVIOUS
  <2> USE DEF Inv
  <2>1. CASE ManageSites
    <3>1. UNCHANGED <<stored, used, worker, handler>> /\ records' \subseteq records
      BY <2>1 DEF ManageSites, CreateSite, UpdateSite, DeleteSite
    <3> QED
      BY <2>1, <3>1, SiteTypes, QuietKeeps
  <2>2. CASE BackUp
    BY <2>2, JobTypes, JobNames
  <2>3. CASE \E h \in Handlers : Ask(h) \/ Handle(h)
    <3>1. PICK h \in Handlers : Ask(h) \/ Handle(h)
      BY <2>3
    <3>2. handler[h].snap \in Snapshots \/ Ask(h)
      BY <3>1 DEF Handle, Forget, ForgetFails, DeleteRow, DeleteRowFails, In, Named, TypeOK
    <3> QED
      BY <3>1, <3>2, RequestTypes, RequestNames
  <2>4. CASE Crash
    BY <2>4, CrashKeeps
  <2>5. CASE UNCHANGED vars
    BY <2>5, QuietKeeps DEF vars, system, TypeOK
  <2> QED
    BY <2>1, <2>2, <2>3, <2>4, <2>5 DEF Next
<1> QED
  BY <1>1, <1>2, PTL DEF Spec

\* Every variable keeps its type, and a job under way its site and snapshot.
THEOREM CatalogueTyped == Spec => []TypeOK
BY InvHolds, PTL DEF Inv

----------------------------------------------------------------------------
(* A record has its snapshot. *)

LEMMA BackedKept ==
  ASSUME RecordsAreBacked, records' \subseteq records, gone \subseteq gone',
         \A record \in records' :
           IsStored(record.snap) \/ Deleting(record.snap) =>
             IsStored(record.snap)' \/ Deleting(record.snap)' \/ record.snap \in gone'
  PROVE  RecordsAreBacked'
BY DEF RecordsAreBacked

\* No request at its last step, no snapshot and no excuse is lost.
LEMMA StillBacked ==
  ASSUME RecordsAreBacked, records' \subseteq records, gone \subseteq gone',
         \A h \in Handlers : In(h, "row") => handler'[h] = handler[h],
         \A r \in Repos : stored[r] \subseteq stored'[r] \cup gone'
  PROVE  RecordsAreBacked'
<1>1. \A snap : Deleting(snap) => Deleting(snap)'
  BY DEF Deleting, In
<1>2. \A snap : IsStored(snap) => IsStored(snap)' \/ snap \in gone'
  BY DEF IsStored
<1> QED
  BY <1>1, <1>2, BackedKept

LEMMA JobBacked ==
  ASSUME Inv, RecordsAreBacked, BackUp
  PROVE  RecordsAreBacked'
<1> USE DEF Inv
<1>1. CASE \E s \in Sites : BeginBackup(s)
  BY <1>1, StillBacked DEF BeginBackup
<1>2. CASE Store \/ StoreFails
  <2>1. \A r \in Repos : stored[r] \subseteq stored'[r]
    BY <1>2 DEF Store, StoreFails, TypeOK
  <2> QED
    BY <1>2, <2>1, StillBacked DEF Store, StoreFails
<1>3. CASE Retain
  <2>1. PICK snaps : /\ stored' = [stored EXCEPT ![RepoOf(worker.set)] = @ \ snaps]
                     /\ gone' = gone \cup snaps
    BY <1>3 DEF Retain, Remove
  <2>2. \A r \in Repos : stored[r] \subseteq stored'[r] \cup gone'
    BY <2>1 DEF TypeOK
  <2> QED
    BY <1>3, <2>1, <2>2, StillBacked DEF Retain
<1>4. CASE RecordBackup
  BY <1>4 DEF RecordBackup, RecordsAreBacked, IsStored, Deleting, In
<1>5. CASE RecordFails
  BY <1>5, StillBacked DEF RecordFails
<1> QED
  BY <1>1, <1>2, <1>3, <1>4, <1>5 DEF BackUp

LEMMA RequestBacked ==
  ASSUME Inv, RecordsAreBacked, NEW h \in Handlers, Ask(h) \/ Handle(h)
  PROVE  RecordsAreBacked'
<1> USE DEF Inv
<1>0. handler[h].repo \in Repos
  BY DEF TypeOK, Handler
<1>1. CASE Ask(h)
  <2>1. /\ UNCHANGED <<records, stored, gone>>
        /\ In(h, "idle")
    BY <1>1 DEF Ask, AskBackup, AskSnapshot
  <2>2. Others(h)
    BY <1>1, AskShape, OpenShape
  <2> QED
    BY <2>1, <2>2, StillBacked DEF Others, In
<1>2. CASE Forget(h)
  <2>1. /\ UNCHANGED <<records, gone>> /\ In(h, "forget")
        /\ \A r \in Repos : stored[r] \ {handler[h].snap} \subseteq stored'[r]
    BY <1>2 DEF Forget, Remove, TypeOK
  <2>2. /\ Others(h) /\ handler'[h].phase = "row" /\ handler'[h].snap = handler[h].snap
    BY <1>2, ForgetShape
  <2>3. PICK name : name = handler[h].snap /\ Deleting(name)'
    BY <2>2 DEF Deleting, In
  <2>4. \A snap : Deleting(snap) => Deleting(snap)'
    BY <2>1, <2>2 DEF Deleting, Others, In
  <2>5. \A snap : IsStored(snap) => IsStored(snap)' \/ snap = name
    BY <2>1, <2>3 DEF IsStored
  <2> QED
    BY <2>1, <2>3, <2>4, <2>5, BackedKept
<1>3. CASE ForgetFails(h)
  <2>1. /\ UNCHANGED records /\ In(h, "forget") /\ gone \subseteq gone'
        /\ \A r \in Repos : stored[r] \subseteq stored'[r] \cup gone'
    BY <1>3 DEF ForgetFails, Remove, TypeOK
  <2>2. Others(h)
    BY <1>3, AnswerShape DEF ForgetFails
  <2> QED
    BY <2>1, <2>2, StillBacked DEF Others, In
<1>4. CASE DeleteRow(h) \/ DeleteRowFails(h)
  <2>1. /\ UNCHANGED stored /\ records' \subseteq records /\ gone \subseteq gone'
        /\ \A record \in records' : record.snap # handler[h].snap \/ record.snap \in gone'
    BY <1>4 DEF DeleteRow, DeleteRowFails
  <2>2. Others(h)
    BY <1>4, AnswerShape DEF DeleteRow, DeleteRowFails
  <2>3. \A snap : Deleting(snap) => Deleting(snap)' \/ snap = handler[h].snap
    BY <2>2 DEF Deleting, Others, In
  <2>4. \A snap : IsStored(snap) => IsStored(snap)'
    BY <2>1 DEF IsStored
  <2> QED
    BY <2>1, <2>3, <2>4, BackedKept
<1> QED
  BY <1>1, <1>2, <1>3, <1>4 DEF Handle

LEMMA CrashBacked ==
  ASSUME Inv, RecordsAreBacked, Crash
  PROVE  RecordsAreBacked'
<1>1. /\ UNCHANGED records
      /\ gone' = gone \cup {handler[h].snap : h \in {g \in Handlers : ~In(g, "idle")}}
  BY DEF Crash
<1>2. \A r \in Repos : stored[r] \subseteq stored'[r] \cup gone'
  <2>1. PICK done \in SUBSET {h \in Handlers : In(h, "forget")}, complete \in BOOLEAN :
          stored' = [r \in Repos |->
            (stored[r] \cup
              (IF complete /\ worker.phase = "store" /\ RepoOf(worker.set) = r
                 THEN {worker.snap} ELSE {}))
            \ {handler[h].snap : h \in {g \in done : handler[g].repo = r}}]
    BY DEF Crash
  <2>2. \A h \in done : handler[h].snap \in gone'
    BY <1>1 DEF In
  <2> QED
    BY <2>1, <2>2
<1>3. \A snap : Deleting(snap) => snap \in gone'
  BY <1>1 DEF Deleting, In
<1>4. \A snap : IsStored(snap) => IsStored(snap)' \/ snap \in gone'
  BY <1>2 DEF IsStored
<1> QED
  BY <1>1, <1>3, <1>4, BackedKept

\* A record has its snapshot, up to the excuses RecordsAreBacked names.
THEOREM Backed == Spec => []RecordsAreBacked
<1>1. Init => RecordsAreBacked
  BY DEF Init, RecordsAreBacked
<1>2. Inv /\ RecordsAreBacked /\ [Next]_vars => RecordsAreBacked'
  <2> SUFFICES ASSUME Inv, RecordsAreBacked, [Next]_vars PROVE RecordsAreBacked'
    OBVIOUS
  <2>1. CASE ManageSites
    <3>1. UNCHANGED <<stored, handler, gone>> /\ records' \subseteq records
      BY <2>1 DEF ManageSites, CreateSite, UpdateSite, DeleteSite
    <3> QED
      BY <3>1, StillBacked
  <2>2. CASE BackUp
    BY <2>2, JobBacked
  <2>3. CASE \E h \in Handlers : Ask(h) \/ Handle(h)
    BY <2>3, RequestBacked
  <2>4. CASE Crash
    BY <2>4, CrashBacked
  <2>5. CASE UNCHANGED vars
    BY <2>5, StillBacked DEF vars, system
  <2> QED
    BY <2>1, <2>2, <2>3, <2>4, <2>5 DEF Next
<1> QED
  BY <1>1, <1>2, InvHolds, PTL DEF Spec

----------------------------------------------------------------------------
(* A snapshot has its record. *)

Accounted(snap) ==
  \/ \E record \in records : record.snap = snap
  \/ worker.phase # "idle" /\ worker.snap = snap
  \/ snap \in stray

\* No step but those of the job stores a snapshot; what a step takes a record
\* or the job from is a stray.
LEMMA AccountedKept ==
  ASSUME SnapshotsAreRecorded,
         \A r \in Repos : stored'[r] \subseteq stored[r],
         \A r \in Repos : \A snap \in stored'[r] : Accounted(snap) => Accounted(snap)'
  PROVE  SnapshotsAreRecorded'
BY DEF SnapshotsAreRecorded, Accounted

LEMMA StillAccounted ==
  ASSUME SnapshotsAreRecorded, UNCHANGED worker, stray \subseteq stray',
         \A record \in records \ records' : record.snap \in stray',
         \A r \in Repos : stored'[r] \subseteq stored[r]
  PROVE  SnapshotsAreRecorded'
<1>1. \A snap : Accounted(snap) => Accounted(snap)'
  BY DEF Accounted
<1> QED
  BY <1>1, AccountedKept

LEMMA JobAccounted ==
  ASSUME Inv, SnapshotsAreRecorded, BackUp
  PROVE  SnapshotsAreRecorded'
<1> USE DEF Inv
<1>1. CASE \E s \in Sites : BeginBackup(s)
  BY <1>1 DEF BeginBackup, SnapshotsAreRecorded
<1>2. CASE Store
  <2>1. /\ worker'.phase # "idle" /\ worker'.snap = worker.snap
        /\ UNCHANGED <<records, stray>>
        /\ \A r \in Repos : stored'[r] \subseteq stored[r] \cup {worker.snap}
    BY <1>2 DEF Store, TypeOK, Worker
  <2> QED
    BY <2>1 DEF SnapshotsAreRecorded
<1>3. CASE StoreFails
  <2>1. /\ stray' = stray \cup {worker.snap} /\ UNCHANGED records
        /\ \A r \in Repos : stored'[r] \subseteq stored[r] \cup {worker.snap}
    BY <1>3 DEF StoreFails, TypeOK
  <2> QED
    BY <2>1 DEF SnapshotsAreRecorded
<1>4. CASE Retain
  <2>1. /\ worker'.phase # "idle" /\ worker'.snap = worker.snap
        /\ UNCHANGED <<records, stray>>
        /\ \A r \in Repos : stored'[r] \subseteq stored[r]
    BY <1>4 DEF Retain, Remove, TypeOK, Worker
  <2> QED
    BY <2>1 DEF SnapshotsAreRecorded
<1>5. CASE RecordBackup
  <2>1. PICK new : /\ new = [snap |-> worker.snap, site |-> worker.site]
                   /\ records' = records \cup {new} /\ UNCHANGED <<stored, stray>>
    BY <1>5 DEF RecordBackup
  <2>2. records \subseteq records' /\ \E record \in records' : record.snap = worker.snap
    <3>1. new.snap = worker.snap
      BY <2>1
    <3> QED
      BY <2>1, <3>1
  <2>3. \A snap : Accounted(snap) => (\E record \in records' : record.snap = snap) \/ snap \in stray
    BY <2>2 DEF Accounted
  <2> QED
    BY <2>1, <2>3 DEF SnapshotsAreRecorded, Accounted
<1>6. CASE RecordFails
  BY <1>6 DEF RecordFails, SnapshotsAreRecorded
<1> QED
  BY <1>1, <1>2, <1>3, <1>4, <1>5, <1>6 DEF BackUp

LEMMA RequestAccounted ==
  ASSUME Inv, SnapshotsAreRecorded, NEW h \in Handlers, Ask(h) \/ Handle(h)
  PROVE  SnapshotsAreRecorded'
<1> USE DEF Inv
<1>1. CASE Ask(h)
  BY <1>1, AskShape, StillAccounted
<1>2. CASE Forget(h) \/ ForgetFails(h)
  <2>1. \A r \in Repos : stored'[r] \subseteq stored[r]
    BY <1>2 DEF Forget, ForgetFails, Remove, TypeOK
  <2> QED
    BY <1>2, <2>1, StillAccounted DEF Forget, ForgetFails
<1>3. CASE DeleteRowFails(h)
  BY <1>3, StillAccounted DEF DeleteRowFails
<1>4. CASE DeleteRow(h)
  <2>1. /\ UNCHANGED <<stored, worker>> /\ stray \subseteq stray'
        /\ records' = {record \in records : record.snap # handler[h].snap}
    BY <1>4 DEF DeleteRow
  <2>2. \A snap : Accounted(snap) => Accounted(snap)' \/ snap = handler[h].snap
    BY <2>1 DEF Accounted
  <2>3. \A r \in Repos : handler[h].snap \in stored[r] => handler[h].snap \in stray'
    BY <1>4 DEF DeleteRow, Forgotten, Elsewhere
  <2> QED
    BY <2>1, <2>3 DEF SnapshotsAreRecorded
<1> QED
  BY <1>1, <1>2, <1>3, <1>4 DEF Handle

\* A snapshot has its record, up to the excuses SnapshotsAreRecorded names.
THEOREM Recorded == Spec => []SnapshotsAreRecorded
<1>1. Init => SnapshotsAreRecorded
  BY DEF Init, SnapshotsAreRecorded
<1>2. Inv /\ SnapshotsAreRecorded /\ [Next]_vars => SnapshotsAreRecorded'
  <2> SUFFICES ASSUME Inv, SnapshotsAreRecorded, [Next]_vars PROVE SnapshotsAreRecorded'
    OBVIOUS
  <2>1. CASE ManageSites
    <3>1. /\ UNCHANGED <<stored, worker>> /\ stray \subseteq stray'
          /\ \A record \in records \ records' : record.snap \in stray'
      BY <2>1 DEF ManageSites, CreateSite, UpdateSite, DeleteSite
    <3> QED
      BY <3>1, StillAccounted
  <2>2. CASE BackUp
    BY <2>2, JobAccounted
  <2>3. CASE \E h \in Handlers : Ask(h) \/ Handle(h)
    BY <2>3, RequestAccounted
  <2>4. CASE Crash
    <3>1. /\ UNCHANGED records /\ stray \subseteq stray'
          /\ worker.phase # "idle" => worker.snap \in stray'
      BY <2>4 DEF Crash
    <3>2. \A r \in Repos : \A snap \in stored'[r] :
            snap \in stored[r] \/ (worker.phase # "idle" /\ snap = worker.snap)
      <4>1. PICK done \in SUBSET Handlers, complete \in BOOLEAN :
              stored' = [r \in Repos |->
                (stored[r] \cup
                  (IF complete /\ worker.phase = "store" /\ RepoOf(worker.set) = r
                     THEN {worker.snap} ELSE {}))
                \ {handler[h].snap : h \in {g \in done : handler[g].repo = r}}]
        BY <2>4 DEF Crash
      <4> QED
        BY <4>1
    <3> QED
      BY <3>1, <3>2 DEF SnapshotsAreRecorded
  <2>5. CASE UNCHANGED vars
    BY <2>5, StillAccounted DEF vars, system
  <2> QED
    BY <2>1, <2>2, <2>3, <2>4, <2>5 DEF Next
<1> QED
  BY <1>1, <1>2, InvHolds, PTL DEF Spec

----------------------------------------------------------------------------
(* Where the snapshots are. *)

OnePlace == \A q, r \in Repos : stored[q] \cap stored[r] # {} => q = r

KnownSites ==
  /\ \A record \in records : sites[record.site].state # "new"
  /\ worker.phase # "idle" => sites[worker.site].state # "new"

\* A snapshot is where its site's settings say, unless they were changed since.
RecordsPlaced ==
  \A record \in records, q \in Repos :
    record.snap \in stored[q] \ moved => RepoOf(sites[record.site].set) = q

JobPlaced ==
  worker.phase # "idle" =>
    /\ \A q \in Repos : worker.snap \in stored[q] => RepoOf(worker.set) = q
    /\ worker.snap \notin moved => RepoOf(worker.set) = RepoOf(sites[worker.site].set)

Sought(h) ==
  \A q \in Repos :
    handler[h].snap \in stored[q] /\ q # handler[h].repo =>
      handler[h].kind = "backup" /\ handler[h].snap \in moved

RequestsPlaced == \A h \in Handlers : ~In(h, "idle") => Sought(h)

Located == OnePlace /\ KnownSites /\ RecordsPlaced /\ JobPlaced /\ RequestsPlaced

\* A step that stores nothing, records nothing and leaves the settings alone.
LEMMA QuietLocated ==
  ASSUME Located, UNCHANGED <<sites, moved>>, records' \subseteq records,
         \A r \in Repos : stored'[r] \subseteq stored[r],
         \/ worker'.phase = "idle"
         \/ /\ worker.phase # "idle" /\ worker'.snap = worker.snap
            /\ worker'.site = worker.site /\ worker'.set = worker.set,
         \A h \in Handlers :
           \/ handler'[h].phase = "idle"
           \/ Sought(h)'
           \/ /\ handler[h].phase # "idle" /\ handler'[h].snap = handler[h].snap
              /\ handler'[h].repo = handler[h].repo /\ handler'[h].kind = handler[h].kind
  PROVE  Located'
<1>1. OnePlace'
  BY DEF Located, OnePlace
<1>2. KnownSites'
  BY DEF Located, KnownSites
<1>3. RecordsPlaced'
  BY DEF Located, RecordsPlaced
<1>4. JobPlaced'
  BY DEF Located, JobPlaced
<1>5. RequestsPlaced'
  BY DEF Located, RequestsPlaced, Sought, In
<1> QED
  BY <1>1, <1>2, <1>3, <1>4, <1>5 DEF Located

LEMMA SitesLocated ==
  ASSUME Inv, Located, ManageSites
  PROVE  Located'
<1> USE DEF Inv
<1>1. PICK s \in Sites :
        \/ \E set \in Choices : CreateSite(s, set) \/ UpdateSite(s, set)
        \/ DeleteSite(s)
  BY DEF ManageSites
<1>2. OnePlace' /\ UNCHANGED <<stored, worker, handler>> /\ records' \subseteq records
  BY <1>1 DEF CreateSite, UpdateSite, DeleteSite, Located, OnePlace
<1>3. moved \subseteq moved'
  BY <1>1 DEF CreateSite, UpdateSite, DeleteSite
<1>4. KnownSites'
  <2>1. \A t \in Sites : sites[t].state # "new" => sites'[t].state # "new"
    BY <1>1 DEF CreateSite, UpdateSite, DeleteSite, TypeOK, SiteRow
  <2> QED
    BY <1>2, <2>1 DEF Located, KnownSites, TypeOK, Record
<1>5. \A t \in Sites :
        \/ RepoOf(sites'[t].set) = RepoOf(sites[t].set)
        \/ sites[t].state = "new"
        \/ BackupsOf(t) \subseteq moved'
  <2>1. CASE \E set \in Choices : CreateSite(s, set)
    BY <2>1 DEF CreateSite, TypeOK
  <2>2. CASE \E set \in Choices : UpdateSite(s, set)
    BY <2>2 DEF UpdateSite, TypeOK, SiteRow
  <2>3. CASE DeleteSite(s)
    BY <2>3 DEF DeleteSite, TypeOK, SiteRow
  <2> QED
    BY <1>1, <2>1, <2>2, <2>3
<1>6. RecordsPlaced'
  <2>1. \A record \in records : record.snap \in BackupsOf(record.site) /\ record.site \in Sites
    BY DEF BackupsOf, TypeOK, Record
  <2> QED
    BY <1>2, <1>3, <1>5, <2>1 DEF Located, RecordsPlaced, KnownSites
<1>7. JobPlaced'
  <2>1. worker.phase # "idle" => worker.snap \in BackupsOf(worker.site) /\ worker.site \in Sites
    BY DEF BackupsOf, TypeOK
  <2> QED
    BY <1>2, <1>3, <1>5, <2>1 DEF Located, JobPlaced, KnownSites
<1>8. RequestsPlaced'
  BY <1>2, <1>3 DEF Located, RequestsPlaced, Sought, In
<1> QED
  BY <1>2, <1>4, <1>6, <1>7, <1>8 DEF Located

LEMMA JobLocated ==
  ASSUME Inv, Located, BackUp
  PROVE  Located'
<1> USE DEF Inv
<1>1. CASE \E s \in Sites : BeginBackup(s)
  <2>1. PICK s \in Sites, snap \in Snapshots \ used :
          /\ There(s)
          /\ worker' = [phase |-> "store", site |-> s, set |-> sites[s].set, snap |-> snap]
          /\ UNCHANGED <<sites, records, stored, handler, moved>>
    BY <1>1 DEF BeginBackup
  <2>2. JobPlaced' /\ KnownSites'
    BY <2>1 DEF JobPlaced, KnownSites, Located, Named, There
  <2> QED
    BY <2>1, <2>2 DEF Located, OnePlace, RecordsPlaced, RequestsPlaced, Sought, In
<1>2. CASE Store \/ StoreFails
  <2>1. /\ Unseen(worker.snap) /\ UNCHANGED <<sites, records, handler, moved>>
        /\ \A r \in Repos : stored'[r] =
             stored[r] \/ (r = RepoOf(worker.set) /\ stored'[r] = stored[r] \cup {worker.snap})
    BY <1>2 DEF Store, StoreFails, Named, TypeOK
  <2>2. \/ worker'.phase = "idle"
        \/ /\ worker.phase # "idle" /\ worker'.snap = worker.snap
           /\ worker'.site = worker.site /\ worker'.set = worker.set
    BY <1>2, RestTypes DEF Store, StoreFails, TypeOK, Worker
  <2>3. OnePlace'
    BY <2>1 DEF Located, OnePlace, Unseen
  <2>4. KnownSites'
    BY <2>1, <2>2 DEF Located, KnownSites
  <2>5. RecordsPlaced'
    BY <2>1 DEF Located, RecordsPlaced, Unseen
  <2>6. JobPlaced'
    BY <2>1, <2>2 DEF Located, JobPlaced, Unseen
  <2>7. RequestsPlaced'
    BY <2>1 DEF Located, RequestsPlaced, Sought, Unseen, In
  <2> QED
    BY <2>3, <2>4, <2>5, <2>6, <2>7 DEF Located
<1>3. CASE Retain \/ RecordFails
  <2>1. /\ UNCHANGED <<sites, records, handler, moved>>
        /\ \A r \in Repos : stored'[r] \subseteq stored[r]
    BY <1>3 DEF Retain, RecordFails, Remove, TypeOK
  <2>2. \/ worker'.phase = "idle"
        \/ /\ worker.phase # "idle" /\ worker'.snap = worker.snap
           /\ worker'.site = worker.site /\ worker'.set = worker.set
    BY <1>3, RestTypes DEF Retain, RecordFails, TypeOK, Worker
  <2> QED
    BY <2>1, <2>2, QuietLocated DEF Located, RequestsPlaced, In
<1>4. CASE RecordBackup
  <2>1. PICK new : /\ new = [snap |-> worker.snap, site |-> worker.site]
                   /\ records' = records \cup {new} /\ worker.phase # "idle"
                   /\ UNCHANGED <<sites, stored, handler, moved>> /\ worker'.phase = "idle"
    BY <1>4, RestTypes DEF RecordBackup
  <2>2. new.snap = worker.snap /\ new.site = worker.site
    BY <2>1
  <2>3. KnownSites'
    BY <2>1, <2>2 DEF Located, KnownSites
  <2>4. RecordsPlaced'
    BY <2>1, <2>2 DEF Located, RecordsPlaced, JobPlaced
  <2> QED
    BY <2>1, <2>3, <2>4 DEF Located, OnePlace, JobPlaced, RequestsPlaced, Sought, In
<1> QED
  BY <1>1, <1>2, <1>3, <1>4 DEF BackUp

\* A deletion looks where the snapshot is, unless its site has moved.
LEMMA AskSought ==
  ASSUME Inv, Located, NEW h \in Handlers, Ask(h)
  PROVE  Sought(h)'
<1> USE DEF Inv
<1>1. CASE \E record \in records : AskBackup(h, record)
  <2>1. PICK record \in records : AskBackup(h, record)
    BY <1>1
  <2>2. handler'[h] = [phase |-> "forget", kind |-> "backup", snap |-> record.snap,
                       repo |-> RepoOf(sites[record.site].set)]
    BY <2>1, OpenShape DEF AskBackup
  <2>3. UNCHANGED <<stored, moved>>
    BY <2>1 DEF AskBackup
  <2> QED
    BY <2>2, <2>3 DEF Sought, Located, RecordsPlaced
<1>2. CASE \E snap \in stored[Home] : AskSnapshot(h, snap)
  <2>1. PICK snap \in stored[Home] : AskSnapshot(h, snap)
    BY <1>2
  <2>2. handler'[h] = [phase |-> "forget", kind |-> "snapshot", snap |-> snap, repo |-> Home]
    BY <2>1, OpenShape DEF AskSnapshot
  <2>3. UNCHANGED <<stored, moved>>
    BY <2>1 DEF AskSnapshot
  <2> QED
    BY <2>2, <2>3, HomeAssumption DEF Sought, Located, OnePlace
<1> QED
  BY <1>1, <1>2 DEF Ask

LEMMA RequestLocated ==
  ASSUME Inv, Located, NEW h \in Handlers, Ask(h) \/ Handle(h)
  PROVE  Located'
<1> USE DEF Inv
<1>0. handler[h].repo \in Repos /\ Free.phase = "idle"
  BY DEF TypeOK, Handler, Free
<1>1. CASE Ask(h)
  <2>1. Others(h) /\ UNCHANGED <<sites, records, stored, worker, moved>>
    BY <1>1, AskShape, OpenShape
  <2>2. Sought(h)'
    BY <1>1, AskSought
  <2> QED
    BY <2>1, <2>2, QuietLocated DEF Others, Located, RequestsPlaced, In
<1>2. CASE Handle(h)
  <2>1. /\ UNCHANGED <<sites, worker, moved>> /\ records' \subseteq records
        /\ \A r \in Repos : stored'[r] \subseteq stored[r]
    BY <1>0, <1>2 DEF Handle, Forget, ForgetFails, DeleteRow, DeleteRowFails, Remove, TypeOK
  <2>2. /\ Others(h)
        /\ \/ handler'[h].phase = "idle"
           \/ /\ handler[h].phase # "idle" /\ handler'[h].snap = handler[h].snap
              /\ handler'[h].repo = handler[h].repo /\ handler'[h].kind = handler[h].kind
    <3>1. CASE Forget(h)
      BY <3>1 DEF Forget, Others, In, TypeOK, Handler
    <3>2. CASE ForgetFails(h) \/ DeleteRow(h) \/ DeleteRowFails(h)
      BY <1>0, <3>2, AnswerShape DEF ForgetFails, DeleteRow, DeleteRowFails
    <3> QED
      BY <1>2, <3>1, <3>2 DEF Handle
  <2> QED
    BY <2>1, <2>2, QuietLocated DEF Others, Located, RequestsPlaced, In
<1> QED
  BY <1>1, <1>2

LEMMA CrashLocated ==
  ASSUME Inv, Located, Crash
  PROVE  Located'
<1> USE DEF Inv
<1>1. /\ worker'.phase = "idle" /\ \A h \in Handlers : handler'[h].phase = "idle"
      /\ UNCHANGED <<sites, records, moved>>
  BY RestTypes DEF Crash, Free
<1>2. PICK done \in SUBSET Handlers, complete \in BOOLEAN :
        stored' = [r \in Repos |->
          (stored[r] \cup
            (IF complete /\ worker.phase = "store" /\ RepoOf(worker.set) = r
               THEN {worker.snap} ELSE {}))
          \ {handler[h].snap : h \in {g \in done : handler[g].repo = r}}]
  BY DEF Crash
<1>3. \A r \in Repos : \A snap \in stored'[r] :
        \/ snap \in stored[r]
        \/ worker.phase = "store" /\ snap = worker.snap /\ r = RepoOf(worker.set)
  BY <1>2
<1>4. OnePlace'
  BY <1>3 DEF Located, OnePlace, Named, Unseen
<1>5. RecordsPlaced'
  BY <1>1, <1>3 DEF Located, RecordsPlaced, Named, Unseen
<1> QED
  BY <1>1, <1>4, <1>5 DEF Located, KnownSites, JobPlaced, RequestsPlaced, In

THEOREM LocatedHolds == Spec => []Located
<1>1. Init => Located
  BY RestTypes DEF Init, Located, OnePlace, KnownSites, RecordsPlaced, JobPlaced,
       RequestsPlaced, In, Free
<1>2. Inv /\ Located /\ [Next]_vars => Located'
  <2> SUFFICES ASSUME Inv, Located, [Next]_vars PROVE Located'
    OBVIOUS
  <2>1. CASE UNCHANGED vars
    BY <2>1, QuietLocated DEF vars, system, Located, RequestsPlaced, In
  <2> QED
    BY <2>1, SitesLocated, JobLocated, RequestLocated, CrashLocated DEF Next
<1> QED
  BY <1>1, <1>2, InvHolds, PTL DEF Spec

----------------------------------------------------------------------------
(* What a successful deletion has done. *)

\* A deletion answered with success has left the snapshot nowhere, unless its
\* site has moved, and no record, unless the failure to delete it was passed over.
THEOREM DeletionsAreReal == Spec => DeletedIsGone
<1>1. Inv /\ Located /\ [Next]_vars =>
        [\A h \in Handlers : Succeeds(h) =>
           /\ \A r \in Repos : handler[h].snap \in stored'[r] =>
                /\ handler[h].kind = "backup" /\ r # handler[h].repo
                /\ handler[h].snap \in moved
           /\ \A r \in records' : r.snap = handler[h].snap =>
                handler[h].kind = "snapshot" /\ r.snap \in gone']_vars
  <2> SUFFICES ASSUME Inv, Located, NEW h \in Handlers, Succeeds(h)
               PROVE  /\ \A r \in Repos : handler[h].snap \in stored'[r] =>
                           /\ handler[h].kind = "backup" /\ r # handler[h].repo
                           /\ handler[h].snap \in moved
                      /\ \A r \in records' : r.snap = handler[h].snap =>
                           handler[h].kind = "snapshot" /\ r.snap \in gone'
    OBVIOUS
  <2>1. In(h, "row") /\ UNCHANGED stored
    BY DEF Succeeds, DeleteRow, DeleteRowFails
  <2>2. Sought(h) /\ handler[h].snap \notin stored[handler[h].repo]
    BY <2>1 DEF Located, RequestsPlaced, Inv, Forgotten, In
  <2>3. \A r \in records' : r.snap = handler[h].snap =>
          handler[h].kind = "snapshot" /\ r.snap \in gone'
    BY DEF Succeeds, DeleteRow, DeleteRowFails
  <2> QED
    BY <2>1, <2>2, <2>3 DEF Sought
<1> QED
  BY <1>1, InvHolds, LocatedHolds, PTL DEF Spec, DeletedIsGone
=============================================================================
