---------------------------- MODULE JobPrograms ----------------------------
(***************************************************************************)
(* The body of processJob (internal/apiserver/jobs.go) as data.  A job     *)
(* type is a sequence of steps, one per status write, per piece of work    *)
(* that can fail and return early, and per cancellation check, in the      *)
(* order of the source.  JobQueue interprets the sequence one step at a    *)
(* time, so a client, a crash or the restart can come between any two.     *)
(*                                                                         *)
(* What a step does to the world is a set of effects:                      *)
(*   workdir    the timestamped directory of a backup, holding its dump    *)
(*   remote     credential and dump files under /tmp of the managed site   *)
(*   snapshot   a restic snapshot of workdir                               *)
(*   record     the row of the backups table                               *)
(*   restoredir the local temporary directory of a restore                 *)
(*   dbTouched, dbDone        the import into the production database      *)
(*                            has begun, has finished                      *)
(*   filesTouched, filesDone  the same for the production files            *)
(*   upgraded   the upgrade pipeline has changed the site                  *)
(*   env        containers of a staging environment                        *)
(***************************************************************************)
EXTENDS Naturals, Sequences

Effects == {"workdir", "remote", "snapshot", "record", "restoredir",
            "dbTouched", "dbDone", "filesTouched", "filesDone",
            "upgraded", "env"}

JobTypes == {"backup", "restore", "upgrade", "rehearsal"}

\* The part of a request, and of the site it names, that steers control:
\* detect is "site.WPRoot is empty", db and files are apply_db, apply_files.
AllRequests == [type: JobTypes, detect: BOOLEAN, db: BOOLEAN, files: BOOLEAN]

\* What recoverQueuedJobs makes of a row whose Result column holds no JSON:
\* the type comes from its own column, the site's settings from GetSite.
Stripped(q) == [q EXCEPT !.db = FALSE, !.files = FALSE]

----------------------------------------------------------------------------
(* Steps.  adds: effects of success.  undo: what the early return of a     *)
(* failure, or of an observed cancel, removes (cleanupRemoveAll, Destroy). *)
(* partial: what a failure may leave behind all the same.                  *)

Ops == {"write", "work", "sync", "check", "done"}

Steps == [op: Ops, adds: SUBSET Effects, partial: SUBSET Effects,
          undo: SUBSET Effects]

Write == [op |-> "write", adds |-> {}, partial |-> {}, undo |-> {}]

Work(adds, partial, undo) ==
  [op |-> "work", adds |-> adds, partial |-> partial, undo |-> undo]

\* Work that reports each file through setStatus("running", ...) as it goes.
Sync(adds, partial, undo) ==
  [op |-> "sync", adds |-> adds, partial |-> partial, undo |-> undo]

Check(undo) == [op |-> "check", adds |-> {}, partial |-> {}, undo |-> undo]

Done == [op |-> "done", adds |-> {}, partial |-> {}, undo |-> {}]

\* Work that changes nothing outside the process but may end the job.
Try(undo) == Work({}, {}, undo)

----------------------------------------------------------------------------
WD == {"workdir"}

\* setStatus(5), then GetSite, the sandbox network and the SSH client.
LoadSite == <<Write, Try({})>>

\* DetectWPRoot runs only for a site without a configured root.
DetectRoot(q, undo) == IF q.detect THEN <<Write, Try(undo)>> ELSE <<>>

\* A failing MkdirAll of db/ returns without removing its parent; one of wp/
\* removes the whole directory.
BackupPrepare(q) ==
  <<Write, Work(WD, WD, {}), Try(WD)>> \o DetectRoot(q, WD) \o
  <<Write, Write, Try(WD)>>

\* Credential file, mysqldump and download; then the first check, the file
\* sync and the second check.
BackupCollect ==
  <<Write, Work({"remote"}, {"remote"}, WD), Check(WD),
    Write, Sync({}, {}, WD), Check(WD)>>

\* Mutant: one more cancellation check, between the snapshot and its record.
BackupStoreChecked ==
  <<Try(WD), Write, Try(WD), Work({"snapshot"}, {"snapshot"}, WD), Check(WD),
    Work({"record"}, {}, {}), Write, Done>>

\* restic may store the snapshot and still fail (no parseable summary line).
\* A failing CreateBackup returns without any cleanup.
BackupStore ==
  <<Try(WD), Write, Try(WD), Work({"snapshot"}, {"snapshot"}, WD),
    Work({"record"}, {}, {}), Write, Done>>

BackupProgram(q) ==
  LoadSite \o BackupPrepare(q) \o BackupCollect \o BackupStore

RestoreFetch(q) ==
  DetectRoot(q, {}) \o
  <<Try({}), Write, Try({}), Work({"restoredir"}, {}, {}), Check({}),
    Write, Try({}), Check({})>>

\* Finding and parsing may fail before the remote files and the database are
\* touched; the import may fail half way.
RestoreDatabase(q) ==
  IF q.db
    THEN <<Write, Try({}), Work({"remote"}, {"remote"}, {}),
           Work({"dbTouched", "dbDone"}, {"dbTouched"}, {})>>
    ELSE <<>>

RestoreFiles(q) ==
  IF q.files
    THEN <<Write, Sync({"filesTouched", "filesDone"}, {"filesTouched"}, {})>>
    ELSE <<>>

\* Mutant: the files come before the database.
RestoreFilesFirst(q) ==
  LoadSite \o RestoreFetch(q) \o RestoreFiles(q) \o <<Check({})>> \o
  RestoreDatabase(q) \o <<Done>>

RestoreProgram(q) ==
  LoadSite \o RestoreFetch(q) \o RestoreDatabase(q) \o <<Check({})>> \o
  RestoreFiles(q) \o <<Done>>

\* The pipeline itself (internal/upgrade) is one step here.
UpgradeProgram(q) ==
  LoadSite \o DetectRoot(q, {}) \o
  <<Write, Work({"upgraded"}, {"upgraded"}, {}), Done>>

\* Create, wait, inventory and upgrade: from its creation on, every early
\* return leaves the environment running.
RehearsalUpgrade ==
  <<Try({}), Write, Try({}), Write, Work({"env"}, {"env"}, {}),
    Write, Try({}), Write, Try({}), Write, Try({}), Write, Write>>

\* Page comparison (skipped, with its status write, for a site without a
\* health check URL) and security review never end the job; the second
\* inventory may.
RehearsalReview == <<Write, Write, Try({}), Write>>

\* The rollback destroys the environment and creates it again: if it fails,
\* either the old one is still there or none is.
RehearsalRollback ==
  <<Write, Work({"env"}, {"env"}, {"env"}), Write, Try({}), Write, Try({})>>

\* A failed health check or comparison destroys the environment and fails the
\* job; Destroy may itself fail, which is only logged.
RehearsalVerdict == <<Work({}, {"env"}, {"env"}), Write, Done>>

RehearsalProgram ==
  LoadSite \o RehearsalUpgrade \o RehearsalReview \o RehearsalRollback \o
  RehearsalVerdict

Program(q) ==
  CASE q.type = "backup"    -> BackupProgram(q)
    [] q.type = "restore"   -> RestoreProgram(q)
    [] q.type = "upgrade"   -> UpgradeProgram(q)
    [] q.type = "rehearsal" -> RehearsalProgram

Programs == [q \in AllRequests |-> Program(q)]
=============================================================================
