----------------------------- MODULE Catalogue -----------------------------
(***************************************************************************)
(* The backups table and the restic repositories: the end of a backup job  *)
(* (store, retention, record), the deletion of a backup, of a snapshot and *)
(* of a site, and changes of a site's repository.  A record and its        *)
(* snapshot live in two systems that no transaction spans.                 *)
(***************************************************************************)
EXTENDS Naturals

CONSTANTS
  Snapshots,   \* that backup jobs may store
  Sites,
  Repos,
  Home,        \* the repository of the server-wide client, APIServer.Restic
  NoRepo, NoSnapshot, NoSite,
  Choices,     \* the settings clients may give a site
  Handlers,    \* requests that may be open at a time
  MaxFaults,   \* bound: restic and database calls that fail
  MaxCrashes,  \* bound: crashes of the server process
  MaxUpdates   \* bound: changes of a site's settings

\* repo: ResticRepository; key: whether ResticPasswordFile is set; retention:
\* whether RetentionFlags are.
Settings == [repo: Repos \cup {NoRepo}, key: BOOLEAN, retention: BOOLEAN]

ASSUME HomeAssumption == Home \in Repos /\ NoRepo \notin Repos
ASSUME SnapshotAssumption == NoSnapshot \notin Snapshots
ASSUME ChoiceAssumption == Choices \subseteq Settings
ASSUME BoundAssumption ==
  MaxFaults \in Nat /\ MaxCrashes \in Nat /\ MaxUpdates \in Nat

VARIABLES
  sites,     \* the sites table
  records,   \* the backups table
  stored,    \* the snapshots of each repository
  used,      \* snapshot names restic has given or is about to give
  worker,    \* the backup job under way
  handler    \* the open requests to delete a backup or a snapshot

(* Observations: none of them steers an action, except for the bounds. *)
VARIABLES
  gone,      \* snapshots that were removed without their record
  stray,     \* snapshots that were left without a record
  moved,     \* snapshots whose site was given another repository since
  faults, crashes, updates

system == <<sites, records, stored, used, worker, handler>>
vars == <<system, gone, stray, moved, faults, crashes, updates>>

SiteRow == [state: {"new", "there", "deleted"}, set: Settings]
Record == [snap: Snapshots, site: Sites]

Worker == [phase: {"idle", "store", "retain", "record"}, site: Sites \cup {NoSite},
           set: Settings, snap: Snapshots \cup {NoSnapshot}]
NoSettings == [repo |-> NoRepo, key |-> FALSE, retention |-> FALSE]
Resting == [phase |-> "idle", site |-> NoSite, set |-> NoSettings, snap |-> NoSnapshot]

Handler == [phase: {"idle", "forget", "row"}, kind: {"backup", "snapshot"},
            snap: Snapshots \cup {NoSnapshot}, repo: Repos]
Free == [phase |-> "idle", kind |-> "backup", snap |-> NoSnapshot, repo |-> Home]

There(s) == sites[s].state = "there"
Fault == faults < MaxFaults /\ faults' = faults + 1

\* The job and resticClientForSite agree on the repository of a site, ...
RepoOf(set) == IF set.repo = NoRepo THEN Home ELSE set.repo

\* ... but only the job falls back to the server's password file for a
\* repository of the site's own.
HandlerOpens(set) == set.repo = NoRepo \/ set.key

\* The backups of a site, with the one its job is about to store or record.
BackupsOf(s) ==
  {r.snap : r \in {record \in records : record.site = s}}
    \cup IF worker.phase # "idle" /\ worker.site = s THEN {worker.snap} ELSE {}

IsStored(snap) == \E r \in Repos : snap \in stored[r]
Remove(snaps, r) == stored' = [stored EXCEPT ![r] = @ \ snaps]

----------------------------------------------------------------------------
(* The sites table. *)

CreateSite(s, set) ==
  /\ sites[s].state = "new"
  /\ sites' = [sites EXCEPT ![s] = [state |-> "there", set |-> set]]
  /\ UNCHANGED <<records, stored, used, worker, handler, gone, stray, moved,
                 faults, crashes, updates>>

UpdateSite(s, set) ==
  /\ There(s) /\ updates < MaxUpdates
  /\ updates' = updates + 1
  /\ sites' = [sites EXCEPT ![s].set = set]
  /\ moved' = moved \cup IF RepoOf(set) = RepoOf(sites[s].set) THEN {} ELSE BackupsOf(s)
  /\ UNCHANGED <<records, stored, used, worker, handler, gone, stray, faults, crashes>>

\* One transaction: its backups, then the site.  The snapshots stay.
DeleteSite(s) ==
  /\ There(s)
  /\ sites' = [sites EXCEPT ![s].state = "deleted"]
  /\ records' = {r \in records : r.site # s}
  /\ stray' = stray \cup {r.snap : r \in records \ records'}
  /\ UNCHANGED <<stored, used, worker, handler, gone, moved, faults, crashes,
                 updates>>

----------------------------------------------------------------------------
(* The end of a backup job. *)

\* The site is read once, when the job begins.
BeginBackup(s) ==
  /\ worker.phase = "idle"
  /\ There(s)
  /\ \E snap \in Snapshots \ used :
       /\ used' = used \cup {snap}
       /\ worker' = [phase |-> "store", site |-> s, set |-> sites[s].set, snap |-> snap]
  /\ UNCHANGED <<sites, records, stored, handler, gone, stray, moved, faults,
                 crashes, updates>>

Store ==
  /\ worker.phase = "store"
  /\ stored' = [stored EXCEPT ![RepoOf(worker.set)] = @ \cup {worker.snap}]
  /\ worker' = [worker EXCEPT !.phase = IF worker.set.retention THEN "retain" ELSE "record"]
  /\ UNCHANGED <<sites, records, used, handler, gone, stray, moved, faults,
                 crashes, updates>>

\* No client, or an output that ends in no snapshot: one may be there all the
\* same.
StoreFails ==
  /\ worker.phase = "store"
  /\ Fault
  /\ stored' \in {stored, [stored EXCEPT ![RepoOf(worker.set)] = @ \cup {worker.snap}]}
  /\ stray' = stray \cup {worker.snap}
  /\ worker' = Resting
  /\ UNCHANGED <<sites, records, used, handler, gone, moved, crashes, updates>>

\* restic forget --prune with the site's flags.  It is not told the site, so
\* any snapshot of the repository may go but the newest, which every policy
\* keeps.  Its error is ignored.
Retain ==
  /\ worker.phase = "retain"
  /\ \E snaps \in SUBSET (stored[RepoOf(worker.set)] \ {worker.snap}) :
       /\ Remove(snaps, RepoOf(worker.set))
       /\ gone' = gone \cup snaps
  /\ worker' = [worker EXCEPT !.phase = "record"]
  /\ UNCHANGED <<sites, records, used, handler, stray, moved, faults, crashes,
                 updates>>

\* CreateBackup.  The foreign key of the table refuses it when the site has
\* been deleted.
RecordBackup ==
  /\ worker.phase = "record"
  /\ There(worker.site)
  /\ records' = records \cup {[snap |-> worker.snap, site |-> worker.site]}
  /\ gone' = IF IsStored(worker.snap) THEN gone ELSE gone \cup {worker.snap}
  /\ worker' = Resting
  /\ UNCHANGED <<sites, stored, used, handler, stray, moved, faults, crashes,
                 updates>>

RecordFails ==
  /\ worker.phase = "record"
  /\ IF There(worker.site) THEN Fault ELSE UNCHANGED faults
  /\ stray' = stray \cup {worker.snap}
  /\ worker' = Resting
  /\ UNCHANGED <<sites, records, stored, used, handler, gone, moved, crashes,
                 updates>>

----------------------------------------------------------------------------
(* DELETE /backups/{id} and DELETE /snapshots/{id}. *)

In(h, phase) == handler[h].phase = phase
Answer(h) == handler' = [handler EXCEPT ![h] = Free]
Open(h, kind, snap, repo) ==
  handler' = [handler EXCEPT
    ![h] = [phase |-> "forget", kind |-> kind, snap |-> snap, repo |-> repo]]

\* Mutant: every backup is sought in the server-wide repository.
AskBackupAtHome(h, record) ==
  /\ In(h, "idle")
  /\ There(record.site) /\ HandlerOpens(sites[record.site].set)
  /\ Open(h, "backup", record.snap, Home)
  /\ UNCHANGED <<sites, records, stored, used, worker, gone, stray, moved,
                 faults, crashes, updates>>

\* GetBackupByID, GetSite and resticClientForSite.
AskBackup(h, record) ==
  /\ In(h, "idle")
  /\ There(record.site) /\ HandlerOpens(sites[record.site].set)
  /\ Open(h, "backup", record.snap, RepoOf(sites[record.site].set))
  /\ UNCHANGED <<sites, records, stored, used, worker, gone, stray, moved,
                 faults, crashes, updates>>

\* Only the server-wide repository is searched.
AskSnapshot(h, snap) ==
  /\ In(h, "idle")
  /\ Open(h, "snapshot", snap, Home)
  /\ UNCHANGED <<sites, records, stored, used, worker, gone, stray, moved,
                 faults, crashes, updates>>

\* restic forget passes over a name the repository does not have.
Forget(h) ==
  /\ In(h, "forget")
  /\ Remove({handler[h].snap}, handler[h].repo)
  /\ handler' = [handler EXCEPT ![h].phase = "row"]
  /\ UNCHANGED <<sites, records, used, worker, gone, stray, moved, faults,
                 crashes, updates>>

\* Mutant: the record goes even if the snapshot could not be removed.
ForgetFailsUnseen(h) ==
  /\ In(h, "forget")
  /\ Fault
  /\ UNCHANGED <<stored, gone>>
  /\ handler' = [handler EXCEPT ![h].phase = "row"]
  /\ UNCHANGED <<sites, records, used, worker, stray, moved, crashes, updates>>

\* An error answer: the snapshot may have been removed before the prune failed.
ForgetFails(h) ==
  /\ In(h, "forget")
  /\ Fault
  /\ \/ UNCHANGED <<stored, gone>>
     \/ /\ Remove({handler[h].snap}, handler[h].repo)
        /\ gone' = gone \cup {handler[h].snap}
  /\ Answer(h)
  /\ UNCHANGED <<sites, records, used, worker, stray, moved, crashes, updates>>

\* The snapshot was stored in another repository than it was sought in.
Elsewhere(h) == \E r \in Repos \ {handler[h].repo} : handler[h].snap \in stored[r]

\* Mutant: the deletion of a snapshot leaves the records to it.
DeleteRowOfBackup(h) ==
  /\ In(h, "row")
  /\ records' = IF handler[h].kind = "backup"
                  THEN {r \in records : r.snap # handler[h].snap} ELSE records
  /\ stray' = IF Elsewhere(h) THEN stray \cup {handler[h].snap} ELSE stray
  /\ Answer(h)
  /\ UNCHANGED <<sites, stored, used, worker, gone, moved, faults, crashes,
                 updates>>

\* DeleteBackup by its id, or DeleteBackupsBySnapshotID.
DeleteRow(h) ==
  /\ In(h, "row")
  /\ records' = {r \in records : r.snap # handler[h].snap}
  /\ stray' = IF Elsewhere(h) THEN stray \cup {handler[h].snap} ELSE stray
  /\ Answer(h)
  /\ UNCHANGED <<sites, stored, used, worker, gone, moved, faults, crashes,
                 updates>>

\* An error answer for a backup, a line in the log for a snapshot.
DeleteRowFails(h) ==
  /\ In(h, "row")
  /\ Fault
  /\ gone' = gone \cup {handler[h].snap}
  /\ Answer(h)
  /\ UNCHANGED <<sites, records, stored, used, worker, stray, moved, crashes,
                 updates>>

----------------------------------------------------------------------------
\* The process dies, and with it the restic command a job or request runs,
\* which may have done its work or not.
Crash ==
  /\ crashes < MaxCrashes
  /\ crashes' = crashes + 1
  /\ \E done \in SUBSET {h \in Handlers : In(h, "forget")}, complete \in BOOLEAN :
       stored' = [r \in Repos |->
         (stored[r] \cup
           (IF complete /\ worker.phase = "store" /\ RepoOf(worker.set) = r
              THEN {worker.snap} ELSE {}))
         \ {handler[h].snap : h \in {g \in done : handler[g].repo = r}}]
  /\ gone' = gone \cup {handler[h].snap : h \in {g \in Handlers : ~In(g, "idle")}}
  /\ stray' = IF worker.phase = "idle" THEN stray ELSE stray \cup {worker.snap}
  /\ worker' = Resting
  /\ handler' = [h \in Handlers |-> Free]
  /\ UNCHANGED <<sites, records, used, moved, faults, updates>>

Init ==
  /\ sites = [s \in Sites |-> [state |-> "new", set |-> NoSettings]]
  /\ records = {}
  /\ stored = [r \in Repos |-> {}]
  /\ used = {}
  /\ worker = Resting
  /\ handler = [h \in Handlers |-> Free]
  /\ gone = {}
  /\ stray = {}
  /\ moved = {}
  /\ faults = 0
  /\ crashes = 0
  /\ updates = 0

ManageSites ==
  \E s \in Sites :
    \/ \E set \in Choices : CreateSite(s, set) \/ UpdateSite(s, set)
    \/ DeleteSite(s)

BackUp ==
  \/ \E s \in Sites : BeginBackup(s)
  \/ Store \/ StoreFails \/ Retain \/ RecordBackup \/ RecordFails

Ask(h) ==
  \/ \E record \in records : AskBackup(h, record)
  \/ \E snap \in stored[Home] : AskSnapshot(h, snap)

Handle(h) == Forget(h) \/ ForgetFails(h) \/ DeleteRow(h) \/ DeleteRowFails(h)

Next ==
  \/ ManageSites
  \/ BackUp
  \/ \E h \in Handlers : Ask(h) \/ Handle(h)
  \/ Crash

Spec == Init /\ [][Next]_vars

----------------------------------------------------------------------------
(* Properties. *)

TypeOK ==
  /\ sites \in [Sites -> SiteRow]
  /\ records \subseteq Record
  /\ stored \in [Repos -> SUBSET Snapshots]
  /\ used \subseteq Snapshots
  /\ worker \in Worker /\ (worker.phase # "idle" => worker.site \in Sites /\ worker.snap \in used)
  /\ handler \in [Handlers -> Handler]
  /\ gone \subseteq Snapshots
  /\ stray \subseteq Snapshots /\ moved \subseteq Snapshots
  /\ faults \in Nat /\ crashes \in Nat /\ updates \in Nat

Deleting(snap) == \E h \in Handlers : In(h, "row") /\ handler[h].snap = snap

\* A record the restore page offers has its snapshot, unless the record is
\* about to be deleted, or retention, a failure, a crash or a deletion of the
\* snapshot before it was recorded has left it behind (handleBackupByID,
\* handleSnapshotByID, processJob).
RecordsAreBacked ==
  \A r \in records : IsStored(r.snap) \/ Deleting(r.snap) \/ r.snap \in gone

\* A snapshot that takes up space has a record to find it by, unless its job
\* has yet to write it, or a failure, a crash, the deletion of its site or a
\* change of repository has left it behind.
SnapshotsAreRecorded ==
  \A r \in Repos : \A snap \in stored[r] :
    \/ \E record \in records : record.snap = snap
    \/ worker.phase # "idle" /\ worker.snap = snap
    \/ snap \in stray

\* The step that answers a deletion with success.  That the records of a snapshot
\* could not be deleted is only logged (handleSnapshotByID).
Succeeds(h) == DeleteRow(h) \/ (handler[h].kind = "snapshot" /\ DeleteRowFails(h))

\* A deletion that is answered with success has left the snapshot in no
\* repository, whatever jobs and other deletions have done since it began: it
\* sought it where the backup was stored, unless the site was given another
\* repository since then.  It has left no record either, but for the answer to
\* DELETE /snapshots/{id} that passes over the failing deletion of the record.
DeletedIsGone ==
  [][\A h \in Handlers : Succeeds(h) =>
       /\ \A r \in Repos : handler[h].snap \in stored'[r] =>
            /\ handler[h].kind = "backup" /\ r # handler[h].repo
            /\ handler[h].snap \in moved
       /\ \A r \in records' : r.snap = handler[h].snap =>
            handler[h].kind = "snapshot" /\ r.snap \in gone']_vars
=============================================================================
