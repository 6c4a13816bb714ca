# Verification of wp-maintenance-automation

TLA+ models of the server in this repository, the TLC configurations that check
them on small instances, and theorems about them that TLAPS proves for every
value of the constants. All paths below are relative to `src/`.

    tlasany M.tla                          parse a module
    tlc -workers 2 -config X.cfg M         check a configuration
    tlapm M.tla                            check the proofs of a module

## 1. The system

One Go process serves the API (`internal/apiserver`). It keeps its durable state
in one SQL database (`internal/db`), runs every long operation in one worker
goroutine, and works on three things it does not own: the managed WordPress site
(over SSH), the restic repository, and the local docker engine. A second process
(`internal/webserver`) serves the pages and proxies to the API. A third
(`cmd/cli`) does a part of the same work from the command line.

| Component | State | Operations | Talks to |
|---|---|---|---|
| Background job system (`apiserver/jobs.go`, `db/models.go`) | `jobs` table, channel of 100 tuples, the worker's local variables | create, cancel, delete a job; dequeue; `processJob`; recover after a restart | everything below |
| Backup catalogue (`apiserver/handlers.go`, `restic/restic.go`) | `backups` table, snapshots in the repository, work directories | list, delete a backup, delete a snapshot, retention, delete a site | database, restic |
| Rehearsals (`apiserver/handlers.go`, `staging/docker.go`) | Result of rehearsal jobs, docker projects, compose files, restore directories | create, destroy, force destroy, stop, cleanup, active | docker, restic, jobs |
| Sandbox (`sandbox/sandbox.go`) | `state.json`, docker project and network, log stream, one site row | start, stop, delete, break, mark restored, stream logs | docker, database |
| Authentication (`auth/auth.go`, `apiserver/apiserver.go`) | `users`, `api_tokens` tables | first setup, login, token check, revoke, profile, password | database |
| Upgrade pipeline (`upgrade/upgrade.go`) | a report | staging rehearsal, preflight, upgrade, health check | SSH, staging |
| Health checks (`healthcheck`, `staging/healthcheck.go`) | attempt counter | retry until healthy, compare pages | HTTP |
| Database (`db/db.go`, `db/crypto.go`) | schema, secret columns | migrations, encryption of legacy secrets | file system |
| SSH client (`ssh/ssh.go`) | one connection | commands (only the PHP probe has a timeout), archive transfer, exclude patterns | site |
| Command line backup and restore (`internal/backup`, `internal/restore`, `cmd/cli`) | manifests on disk | backup, restore, clean up old backups | SSH |
| Security (`internal/security`, `apiserver/security_scan.go`, `cve_cache.go`) | two caches | scan, look up vulnerabilities | HTTP, database |
| Metrics, configuration, web server, web UI | counters, settings, none, page state | display and proxying | API |

What is hard about it:

* **Interleaving.** HTTP handlers, the worker and recovery share the `jobs` table
  and the channel without a transaction around any of their multi-step
  operations. A status is written unconditionally by whoever comes last.
* **Crash and restart.** `docker-compose.yml` lines 17, 53, 82 and 102 restart the containers
  unless stopped. The channel, the worker and open requests are lost; the table
  is not. `recoverQueuedJobs` rebuilds one from the other.
* **Partial failure.** One job touches the local disk, the site, the repository,
  docker and the database; any step may fail, and most early returns have
  a cleanup of their own.
* **Bounded resources.** The channel is bounded: handlers give up when it is
  full, recovery waits.
* **Ignored errors.** Status writes, cleanups, removals on the site and retention ignore
  their errors, and `isRunning` of the sandbox takes an error for a no.
* **Commands that do not return.** SSH commands, transfers and restic have no timeout.

For each component, what makes it correct:

* jobs: nothing runs twice, nothing accepted is lost, order is kept, the server
  comes up; an observed cancel and every early return leave the world clean; a
  recorded backup is whole; a restore applies what it was asked for, database
  first;
* catalogue: a record and its snapshot exist together, up to named exceptions;
* rehearsals: an environment that runs can be found and stopped; a stop that reports
  success is one; environments on disk are known, up to named exceptions;
* sandbox: key, row, state file, cached connection and containers agree when
  nothing is under way; the reader of the start log always gets the final event;
* authentication: no write to the user is lost; what a request proved, or was let
  in with, still counts when it acts; one first administrator;
* start-up: the server comes up on any database, with every secret sealed,
  readable and as it was given;
* reviews: a report tells every flaw or says that it could not ask; a verdict
  follows from the pages; the provider's quota is spared.

## 2. The modules

### Background job system

`JobPrograms` is the body of `processJob` as data: per job type a sequence of
steps in the order of the source. A step is a status write, a piece of work that
may fail and return early, a sync that reports each file with a status write, a
cancellation check, or the final result. Work carries three sets of *effects*
(things left in the world): what success adds, what a failure may leave behind,
what the early return removes. The effects are the ones the properties tell
apart: the backup's work directory, files under `/tmp` of the site, the snapshot,
the record, the restore directory, database and files of production touched and
finished, the upgraded site, the staging environment. Wording, progress
percentages, host names and credentials are left out. The optional parts
(`wp_root` detection, `apply_db`, `apply_files`) are fields of the request.

`JobQueue` interprets these programs. Its variables and the code:

| Variable | Code |
|---|---|
| `server` | the process: not running, inside `startWorker`, inside `ListenAndServe` |
| `rows`, `clock` | the `jobs` table: `status`, what `result` holds, `created_at` |
| `chan` | `s.jobQueue`, `QueueSize` is `jobQueueSize` |
| `todo` | rows that `ListQueuedJobs` returned and recovery has yet to send |
| `worker` | the tuple in `processJob` and how far it is; `undo` is the cleanup of an observed cancel that is still to come |
| `client`, `request` | per job, what its client sent and was told |
| `hung` | whether the command the worker waits for will never return |
| `outcome`, `fx`, `stuck`, `starts`, `faults`, `crashes`, `stranded`, `ahead` | observations (`fx` is what a job has left in the world, `stuck` what it failed to remove); no action reads them, except for the bounds on `faults` and `crashes` |

Actions are steps between which another actor can run. `enqueueJob` is two
(`CreateJob`, then `SendJob` or `QueueFull`), because the worker, another handler
or a crash may come between the INSERT and the select. `processJob` is one action
per status write, per command that may fail, per check: `WriteRunning`,
`ReportFile`, `WorkSucceeds`, `WorkFails`, `SetError`, `CheckPasses`,
`CheckCancels`, `SetResult`, `Return`. `CheckCancels` writes the status first and leaves the
cleanup to `Return`, as the code does, so a crash may come between. Every database
call of the worker may fail, and is then ignored (`UpdateJobStatus`, second
disjunct; `CheckPasses`, where a failing `GetJob` reads as "not cancelled"). Every removal of
a cleanup may fail (`Remove`), and that is ignored, too. `Hang` is a command over SSH, a
transfer or restic that does not return (`ssh.go:211`; only `GetPHPVersion` has a timeout): it keeps
the worker until the process ends. `Crash` may
leave the partial effects of the command under way. `StartWorker` starts the
worker and lists the queued rows, `RecoverJob` sends them oldest first and blocks
on a full channel, `Serve` opens the server.

`JobLedger` is what the job system promises: a job is unknown, waiting, executing
or ended, one executes at a time, and none comes back unless the database loses
writes. `JobQueue!Implements` maps rows, channel, recovery list and worker to it.

`JobQueueMC` holds the requests and the symmetry of the runs.

### Rehearsals and staging environments

`Rehearsal` is the rehearsal branch of `processJob` from the point of view of
docker, and the two handlers that destroy environments. The way of a job to the
worker is `JobQueue`'s and one step here.

| Variable | Code |
|---|---|
| `rows`, `clock` | the `jobs` table: status, the environment that Result describes (compose file, project, restore directory), `created_at` |
| `pending` | rows on their way to the worker |
| `up` | docker projects with running containers. `stagingProjectName` names a project after the snapshot, so rehearsals of one snapshot share it, whichever sites asked for them (`handleRehearsal` takes any snapshot for any site) |
| `files`, `made` | compose files on disk, each with its restore directory. `os.CreateTemp` never repeats a name |
| `worker` | position in `Program`, the `StagingEnv` in hand, and whether `cleanup` is between stopping containers and removing files |
| `handler` | open requests to stop a rehearsal or clean up an environment: what they read at the start, the environment under way, what is left of the history they listed |
| `adrift` | observation: environments to which no row will refer |

`cleanup` is two steps, `docker compose down` (`Down`, `DownFails`) and the
removal of the files (`RemoveFiles`, `HandlerRemove`). `down` needs the compose
file; only a forced cleanup goes on to `docker rm -f`. A command that fails may
have taken the containers down or not. `handleRehearsalStop` is a step per
database and docker call: `StopRequest` (the row as it is then), `HandlerDown`,
`HandlerRemove`, `HandlerLook` (`IsRunning`), `HandlerList`, per job of the history
`HandlerNext`, down, remove, look and `HandlerCancel`, at last `HandlerFinal`. Its errors
end the request for the job to stop and are logged for the history (`GiveUp`). The worker's
status writes may fail and nobody learns of it (`Write`): an environment whose result was not
written is in no row when the worker lets go of it (`LetGo`).
`RehearsalMC` holds requests and symmetry.

### Backup catalogue

`Catalogue` is what happens between the `backups` table and the restic
repositories: the end of a backup job, `handleBackupByID`, `handleSnapshotByID`,
the deletion of a site and changes of its settings. No transaction spans the two.

| Variable | Code |
|---|---|
| `sites` | the `sites` table: per site, its own repository or none, whether it names a password file, whether it has retention flags |
| `records` | the `backups` table: snapshot and site |
| `stored` | the snapshots of each repository; `Home` is the one of the server-wide client |
| `used` | names restic has given: a name comes once |
| `worker` | the backup job under way: the settings it read when it began, the snapshot it stores |
| `handler` | open requests to delete: the snapshot and the repository they resolved at the start |
| `gone`, `stray`, `moved` | observations: snapshots that were removed while their record stays, snapshots that stay without a record, snapshots whose site was given another repository since |

The job is `Store`, `Retain` (only with retention flags, its error ignored) and
`RecordBackup`. A deletion resolves the repository (`AskBackup`, `AskSnapshot`),
runs `restic forget --prune` (`Forget`, `ForgetFails`) and deletes the row
(`DeleteRow`, `DeleteRowFails`). `DELETE /snapshots/{id}` answers 200 even if the records could
not be deleted (`handlers.go:782`), and so `DeletedIsGone` counts that step as a success. A crash
interrupts any of them, with the restic command
done or not.

Assumptions about what is not in `src/`, and about the set-up:

* restic gives each snapshot a new name, `forget` by name passes over one it does
  not have, and `forget` by policy may remove any snapshot of the repository but
  the newest, since `RetentionFlags` names neither host nor site;
* a repository lock that another command holds is a failing command;
* the server-wide client is configured, and its password file opens every
  repository, as on an installation with one password;
* the foreign key from `backups` to `sites` is enforced: the server requires Postgres
  in production, and SQLite, which has the pragma off, is for the tests.

`CatalogueMC` holds the settings clients choose from and the symmetry.

### Live log of the sandbox

`StartLog` is the `logStream` of `sandbox.go`, its writer `Manager.Start` and its
readers `StreamStartLogs`. What a start does to docker is left out: it logs its lines and
ends.

| Variable | Code |
|---|---|
| `stream` | `Manager.stream`, set by a start and cleared by its deferred function |
| `phase` | where each call of `Start` is |
| `lines`, `outcome`, `subs` | the `logStream` of each start: length of its buffer, `closed` and `success`, subscribers |
| `sending` | to whom the last event has yet to be sent, outside the lock |
| `reader` | each request: looking for a stream, about to subscribe, replaying the buffer (of a stream that is open or closed), following |
| `queue` | the channel of a subscriber |
| `shown`, `told` | what its client has been sent |
| `dropped` | observation: subscribers whose channel was full |

Each send to a subscriber is a step, as are the two halves of a request that
finds a stream (`Look`, `Subscribe`), so that a start may log or end between them. `add` is
`AddLine` and the `Send`s, `close` is `Close` and the `Send`s, the deferred
function ends with `Unset`. A failing start ends after its second line or later, since nothing fails
before. A client may leave at any time; its subscription stays. A crash is
not modelled: everything here is in memory and every connection ends with the process.

`LiveLog` is what the comment of `StreamStartLogs` promises to one reader; `StartLog!Promise` maps the
requests to it. `StartLogMC` holds the symmetry.

### Sandbox

`Sandbox` is everything else `Manager` does: what it keeps in its data directory, in
docker, in the `sites` table and in memory. Every request is a goroutine of
its own, and no lock spans any two accesses (`netMu` guards one boolean).

| Variable | Code |
|---|---|
| `disk` | the data directory: `state.json`, the two halves of the SSH key, `docker-compose.yml` with the key in it, the repository |
| `stack` | the docker project: up or not, the key its container accepts, how far `setupWordPress` got, what `Break` destroyed, whether the API container is on its network; or the database alone (`half`) |
| `rows` | the `sites` table: rows `upsertSite` made, their key, and whether they still have the name it looks for |
| `connected` | `Manager.connectedOnce` |
| `op` | the open requests: kind, position, what they loaded, the key and the row in hand |
| `met`, `cut`, `missed`, `events` | observations: which kinds of request were open together, which ended early, what was passed over without an error; `events` is the bound |

A start is `LoadState`, the key (`ReadKey`, `HalfKey`, or `GenerateKey`, `WritePrivate`,
`WritePublic`), `EnsureRepo`, `RenderCompose`, `Up`, `WaitDatabase`, the connection
(`LookConnected`, `LookInVain`, `LookRunning`, `Attach`, `NoteConnected`), `WaitHTTP`, `setupWordPress`
(`AlreadyInstalled`, or `CreateConfig`, `Install`, `Seed`), `upsertSite` (`ListSites`,
then `UpdateRow` or `CreateRow`), `Save` and a status. `Break`, `Stop`, `Delete` and the end of
a restore job share these steps where the code calls the same function. `Fail` ends a
request at any call that may fail; `Refuses` names those that must, such as a command on
a stack that is down; a restore's commands go over the network with the key of the row.
`FailPartWay` is a `compose up` or `down` that fails with the database left running alone
(`sandbox.go:482`). Three failures are passed over. `isRunning` takes any error of
`docker compose ps` for a no, and looks at `wp` only (`sandbox.go:890`): a deletion then leaves the
containers and wipes their compose file, row and state (`Unanswered`, `PassOver`), and a
connection is not made (`LookInVain`). A container that could not be detached stays attached
(`StayAttached`, `sandbox.go:292`), and `down` fails on its network. A `Wipe`
that fails has removed a prefix of the directory in the
order of `ReadDir`. `Crash` is a restart of the API container, which may leave the
network. Clients may rename or delete the row.

Docker is modelled from how the code uses it: `compose up` replaces a running container whose
image changed, `down` fails on a network with a foreign container after it has
removed its own, every command needs the compose file.

The properties name the overlaps, the early ends and the failures passed over that do
break the agreement of these states, by `Met`, `Ended` and `missed`, and hold of every other.

### Accounts

`Accounts` is `handleLogin`, `handleChangePassword`, `handleUsers`, `handleTokens`,
`authMiddleware` and the command line's `reset-password`, a step per database call.

| Variable | Code |
|---|---|
| `user` | the row of the internal user: whether it is there, password, name, `force_pass` |
| `tokens` | the `api_tokens` table: a session ends after 24 hours, a lasting token by revocation only |
| `op` | the open requests: kind, position, token, the passwords and the name they carry, the user as they read it |
| `last`, `met`, `events` | observations: what was written last, which kinds were open together; `events` is the bound |

`UpdateUser` writes every column of the row that was read, as `Database.UpdateUser` does:
with another write in between, the one column that it meant to leave alone is an old
one. `FirstSetup` may be taken by mistake, since any error of `GetAdminUser` counts as
"no admin"; `CreateUser` then meets the unique name. A token may die at any time,
also between `authMiddleware` and the work it let in. The command line shares the
database and nothing else.

### Startup

`Startup` is what happens between a process opening the database and its work:
`ensureEncryptionKey`, the migrations of `db.New` in order, the sealing of
plaintext secrets. The server and the command line do it at once, or one while the
other serves.

| Variable | Code |
|---|---|
| `env`, `keyfile` | whether `DATA_ENCRYPTION_KEY` or `SECRET_KEY` is set; `data/encryption.key`, which `WriteFile` truncates before it fills it |
| `columns` | the columns by which versions of the schema differ |
| `rows` | the `sites` table: each secret, with the key it is sealed with or none, and whether `wp_ssh_key` is NULL (the column is sealed row by row like the others, and its content left out) |
| `proc` | server and command line: how far they are, the key they use, the plaintext fields they have read and have yet to seal |
| `given`, `rekeyed`, `crossed`, `events` | observations: what clients gave, whether the configuration changed, whether a client wrote while the command line ran; `events` is the bound |

A migration is a look (`CheckColumn`) and a statement (`AlterTable`), which fails when the other
process was faster (`AlterFails`). Sealing reads all rows (`ReadSecrets`) and then writes row by row
(`SealRow`) what it read. Initial states are a new database, one of the version before
the SSH key, and one after it, each secret in plain or sealed with the default key of that time.

### Review

`Review` is the part of a rehearsal job that follows its upgrade, and `POST /security/scan`:
`CheckStagingHealth`, `CompareStagingPages`, `security.Scan`, `LookupVulnerabilities` with
its three providers, and the verdict. Both kinds share the table `cve_cache`.

| Variable | Code |
|---|---|
| `clock`, `known` | time in units of `cveCacheTTL`; per component and advisory, when a provider published it |
| `token` | whether `WPSCAN_API_TOKEN` is set |
| `cache` | the table `cve_cache`: per component an answer and its `fetched_at` |
| `review` | per review: position, attempt counter, budget, the components it could discover, those still to ask the provider about, packages the table had no good row for, report so far, `healthFailure` |
| `faults`, `trouble` | bounds: uses of the table that failed; refusals, errors of a provider, components that could not be discovered and restarts |

`lookupOSV` looks all packages up in the table (`CacheHit`, `Uncached`) before it asks for the
first of them (`PackagesDone`); the other providers look up and ask in turn.
An answer of a provider (`Ask`) and its storage (`Store`) are two steps, so that a crash, a
publication or another review can come between. `Compare`, `Affected` and `FixedVersion`
are `compareVersions`, `versionAffected` and `selectFixedVersion`; the properties judge
them by a definition of their own (`Older`, `Inside`). A component may have several advisories. Of a
package the answer has `Cap` of them and says that there are more (`Answers`, `Truncated`;
`osvFindings`). What the review cannot discover it goes on without (`Unread`, `Undiscovered`):
plugins, themes and packages, and in a scan WordPress and PHP. The report of a review is the answer
to a scan or the result of a rehearsal that completes; one whose pages failed ends in
`setError`, which leaves the result empty, and its findings reach nobody (`jobs.go:1031`).

## 3. The runs

| Run | Configuration | Question | Properties |
|---|---|---|---|
| queue | `JobQueue.cfg`: 2 jobs, channel of 1, two crashes, one failed database call per job | are jobs delivered once, in order, is no queued row forgotten, and is the promise of `JobLedger` kept when the database fails? | `NoDuplicateDelivery`, `QueuedIsReachable`, `NoOvertaking`, `AtMostOnce`, `Implements` |
| effects | `JobQueueEffects.cfg`: one job of every type with every option, one crash, one fault | what does a job leave behind, whatever way it ends? | `HonouredCancelIsClean`, `ReturnLeavesNoTemp`, `CompletedRestoreIsWhole`, `FilesAfterDatabase` |
| live | `JobQueueLive.cfg`: 3 jobs, channel of 1, one crash, that has been or may come, fairness | does the server come up and begin what it accepted, unless a command hangs? | `EventuallyServing`, `AcceptedIsBegun` |
| rehearsal | `Rehearsal.cfg`: 2 rehearsals of one snapshot by one site or two, 1 request at a time, one fault, one crash | is an environment that runs or lies on disk ever lost track of, and is a stop that reports success one? | `RunningIsReachable`, `Accounted`, `StopMeansGone` |
| catalogue | `Catalogue.cfg`: 2 snapshots, 2 sites, 2 repositories, 2 requests at a time, one fault, one crash, one change of settings | can a record or a snapshot lose its other half in a way nobody named, and is a deletion that reports success one? | `RecordsAreBacked`, `SnapshotsAreRecorded`, `DeletedIsGone` |
| start_log | `StartLog.cfg`: 2 starts of 3 lines, 1 reader, channels of 4, 2 looks, fairness | does a reader see one start, whole and in order, and is it always answered? | `NothingDropped`, `Implements`, `ReadersAreAnswered` |
| sandbox | `Sandbox.cfg`: 2 requests at a time, 4 events (requests, failures, restarts, edits), 6 as long as requests follow each other, 2 rows, 3 keys | which overlaps, early ends and failures passed over make key, row, state file, connection and containers disagree, and are there others? | `TypeOK`, `OneRow`, `SshWorks`, `RunningIsReachable`, `ConnectionIsReal`, `FlagMeansDamage`, `DamageMeansFlag`, `StateNamesRow`, `DeletedIsGone` |
| accounts | `Accounts.cfg`: 2 requests at a time, 4 events (requests, failures, expiries), 2 passwords, 2 names, 2 tokens | when does a write to the user get lost, and does what a request proved still count when it acts? | `NothingLost`, `LoginKnows`, `ProvenChange`, `ForcedIsOver` |
| startup | `Startup.cfg`: 2 sites, 2 keys to generate, 3 events (crashes, runs of the command line, changes of the configuration, requests), fairness | does the server come up on any database, with every secret sealed, readable and as it was given? | `SecretsReadable`, `SecretsSealed`, `SecretsKept`, `EventuallyServes` |
| review | `Review.cfg`: a rehearsal and a scan, 4 components, 2 attempts, a budget of 1, answers kept for 1 unit of a clock of 2, two advisories of one component, a cap of 1, one fault | does a report tell every flaw it should, does a verdict follow from the pages, is the quota spared? | `FlawsAreTold`, `VerdictIsEarned`, `QuotaKept` |
| cancel | `JobCancel.cfg` | `api/docs/openapi.yaml` says POST /jobs/{id} "Cancels a queued or running job" | `CancelIsFinal`, violated |
| legacy_sites | `StartupSites.cfg` | `db/db_test.go` expects a site of an older version to be read | `SitesReadable`, violated |

The type invariant of each module is proved (section 4); that of `Sandbox` is checked, too.

Bounds. `QueueSize` 1 stands for 100: with two jobs the channel can be full while the
other job is with its handler (which is refused), in recovery (which waits) or with the
worker. A row can go through recovery twice, with any history before it, and one fault per job
is enough to lose the status write that matters; `AtMostOnce` counts them. The live run begins before two
jobs are submitted, or after a crash that left three queued rows, one more than the worker and the channel hold
(`WaitingSpec`). More
jobs than two, and larger channels, are left to the theorems.
Two rehearsals of one snapshot are enough to share a project, to be each other's history if one
site asked for both, to be of two sites if not, and to be stopped while the other is built.
Requests that work on one environment at the same
time are covered by the theorems, which hold for any number of requests, faults and crashes.
In `Catalogue` two snapshots let retention of one job remove the backup of another
while both a deletion of it and a deletion of its successor are open; two sites
share the server-wide repository, and one change moves a site to a repository of
its own.
A start logs 12 lines and a channel holds 64: `StartLog` needs only that a channel
holds more than the lines, which is an assumption of the module, and 3 lines and 4 places are the
tightest case. Two looks stand for 51. Readers share nothing but the list of subscribers, and
the theorems take any number of them.

In `Sandbox`, `Accounts` and `Startup` every property relates two requests and what may cut one
of them off; two slots, and four events to fill them (three, for two processes that
are not requests), reach each overlap the properties name, and six in a row what needs a longer history, such
as a start after half a start after half a deletion. The exceptions are as narrow as we could make them: take
one of the names out, and TLC finds a violation under the same configuration, but for these.
In `LoginKnows` the overlaps of a forced login with a login or a profile update are never needed
on their own. In `Sandbox`, `Overtaken` (in `SshWorks` and `DeletedIsGone`) and the premise `NamesRow` of
`FlagMeansDamage` speak of histories longer than the run: a request that loaded
the state before two others changed it saves it after them. They were found by proofs that
did not go through; without them the runs still pass, and the properties are false. Two values of a password, a name or a key tell what was written
from what was read; a third key is for a deletion between two starts.
In `Review` a budget of 1 for two components makes the first be asked about and the second skipped;
`Attempts` 2 is the least at which one too few can be told; a clock of 2 lets an
answer grow too old once. Faults of the table, of the providers and restarts share one bound of 1: each of them
alone is enough to take every branch, and no property speaks of two. Two advisories of a package are one more
than the `Cap` of 1 that stands for 10; one has a single range without a beginning, as most of WPScan's are,
the other a range per branch. `MaxFlaws` 1 lets one component at a time be flawed: no step of a review
looks at two components. `ReviewMC` assumes that the
advisories of the run are `Consistent`, which the theorem about them asks for (section 4).

Deadlock is checked in the other runs of the job queue: there is always a client step
or a restart. In the live run, when no crash is left to take, a server that recovers may wait for a
worker that hangs, for good. `Rehearsal` does stop: when all rehearsals have been submitted and
deleted, no client has anything left to ask, and its runs say so. So does
`Catalogue`, when the names of the run are used up and everything is deleted, and `StartLog`
when all starts and requests have ended, and the last four models, when their events are used up.

Fairness (`LiveSpec`): a handler goes on from its INSERT to its select, the worker
takes what is in the channel, the command of a step returns or hangs (`Hang`; nothing ends one that hangs but
the end of the process, and both liveness properties name it), a sync copies finitely many files (so
`ReportFile` is not under fairness and does not count as progress), and the
container runtime restarts the process. `StartLog!LiveSpec`: the calls of `Start` return,
and a client that stays connected takes what it is sent. `Startup!LiveSpec`: a server
that is not serving goes on, or is started again (`restart: unless-stopped`). Clients are never assumed to act, and
the crash is never assumed to happen.

The violations. `CancelIsFinal`: the worker's status writes are unconditional
(`jobs.go:402` is the first), and a job is looked at for a cancel only at its checks, so
a cancelled job goes back to running and on to completed. `SitesReadable`:
`migrateSiteSSHKey` (`db.go:269`) adds its column without a value, so that the rows that are
there hold NULL, and `GetSite` and `ListSites` (`models.go:80`, 114) scan it into a string,
which fails; one such row fails the whole list.

The models contain more that a reader of the documents may not expect. The properties
do not speak against it, or name it as an exception:

* on a full channel `enqueueJob` answers with an error and leaves the row queued
  (`jobs.go:74`): the next start runs the job that was refused;
* a rehearsal that runs has no Result yet, so a stop of it finds nothing to destroy
  (`handlers.go:1423`) and answers "rehearsal stopped" while the worker goes on;
* a snapshot deleted before its record is written (`jobs.go:591`) leaves a record
  of a snapshot that is gone;
* for a site with a repository and no password file the job falls back to the
  server's (`jobs.go:540`), and `resticClientForSite` refuses the site (`handlers.go:588`), so that its
  backups cannot be deleted;
* of two starts of the sandbox that overlap, the first to end clears
  `Manager.stream` (`sandbox.go:443`), and a reader that comes then is told "done";
* a start that failed while seeding is never made up for, since an installed site
  counts as a seeded one (`sandbox.go:963`); one that failed before the installation cannot be
  repeated, since `wp config create` refuses the file that is there;
* a restore of one part clears the flag of a broken sandbox (`jobs.go:760`);
* any site may rehearse any snapshot (`handlers.go:1053`), and the docker project is named after the
  snapshot: stopping a rehearsal takes down the containers of another site's rehearsal of it
  (`docker.go:913`);
* a deletion of the sandbox whose `docker compose ps` fails leaves the containers running without
  their compose file, row and state, and succeeds (`sandbox.go:835`, 890);
* `DELETE /snapshots/{id}` answers "snapshot deleted" though its records could not be
  deleted (`handlers.go:782`);
* the security report of a rehearsal whose pages failed is lost with its result (`jobs.go:1031`);
* composer packages and a PHP version that cannot be discovered are not looked up, and the report does not
  say so (`jobs.go:972`; `security_scan.go:128`, 226).

## 4. The theorems

| Theorem | Says |
|---|---|
| `JobQueueProofs!TypeSafe` | `TypeOK` always holds |
| `JobQueueProofs!DeliveredOnce` | `NoDuplicateDelivery` always holds |
| `JobQueueProofs!BegunOnce` | `AtMostOnce` always holds |
| `JobQueueProofs!NoRowForgotten` | `QueuedIsReachable` always holds |
| `JobQueueProofs!NeverOvertaken` | `NoOvertaking` always holds |
| `JobQueueProofs!TempNeverLeft` | `ReturnLeavesNoTemp` always holds |
| `JobQueueProofs!CancelNeverStains` | `HonouredCancelIsClean` always holds |
| `JobQueueProofs!RestoreNeverPartial` | `CompletedRestoreIsWhole` always holds |
| `JobQueueProofs!DatabaseBeforeFiles` | `FilesAfterDatabase` always holds |
| `JobQueueProofs!ProgramsComplete` | every program opens with a status write and closes with the result |
| `JobQueueProofs!LedgerImplemented` | every behaviour of `JobQueue` is one of `JobLedger` |
| `RehearsalProofs!RehearsalTyped` | `Rehearsal!TypeOK` always holds |
| `RehearsalProofs!RunningReachable` | `RunningIsReachable` always holds |
| `RehearsalProofs!EnvironmentsAccounted` | `Accounted` always holds |
| `RehearsalProofs!StopsAreReal` | `StopMeansGone` holds of every step |
| `CatalogueProofs!CatalogueTyped` | `Catalogue!TypeOK` always holds |
| `CatalogueProofs!Backed` | `RecordsAreBacked` always holds |
| `CatalogueProofs!Recorded` | `SnapshotsAreRecorded` always holds |
| `CatalogueProofs!DeletionsAreReal` | `DeletedIsGone` holds of every step |
| `StartLogProofs!StartLogTyped` | `StartLog!TypeOK` always holds |
| `StartLogProofs!NeverDropped` | `NothingDropped` always holds |
| `StartLogProofs!LogPromiseKept` | every behaviour of `StartLog` is one of `LiveLog` |
| `SandboxProofs!TypeCorrect` | `Sandbox!TypeOK` always holds |
| `SandboxProofs!OneRowHolds` | `OneRow` always holds |
| `SandboxProofs!SshHolds` | `SshWorks` always holds |
| `SandboxProofs!ReachHolds` | `RunningIsReachable` always holds |
| `SandboxProofs!ConnectionHolds` | `ConnectionIsReal` always holds |
| `SandboxProofs!FlagTrue` | `FlagMeansDamage` always holds |
| `SandboxProofs!DamageFlagged` | `DamageMeansFlag` always holds |
| `SandboxProofs!StateNamesRowHolds` | `StateNamesRow` always holds |
| `SandboxProofs!DeletionsAreWhole` | `DeletedIsGone` holds of every step |
| `AccountsProofs!AccountsTyped` | `Accounts!TypeOK` always holds |
| `AccountsProofs!RowKept` | `NothingLost` always holds |
| `AccountsProofs!ForcedOnce` | `ForcedIsOver` holds of every step |
| `AccountsProofs!TokensAreEarned` | `LoginKnows` holds of every step |
| `AccountsProofs!ChangesAreProven` | `ProvenChange` holds of every step |
| `StartupProofs!StartupTyped` | `Startup!TypeOK` always holds |
| `StartupProofs!Readable` | `SecretsReadable` always holds |
| `StartupProofs!NoneInPlain` | `SecretsSealed` always holds |
| `StartupProofs!Kept` | `SecretsKept` always holds |
| `ReviewProofs!ReviewTyped` | `Review!TypeOK` always holds |
| `ReviewProofs!VerdictsAreEarned` | `VerdictIsEarned` holds of every step |
| `ReviewProofs!QuotaSpared` | `QuotaKept` holds of every step |
| `ReviewProofs!FlawsTold` | `FlawsAreTold` holds of every step, if the advisories are `Consistent` |

Those of `JobQueue` hold for any number of jobs, any channel size, any number of crashes and
lost writes, and any requests, from the three assumptions at its head; those of
`Rehearsal` for any jobs, sites, snapshots, concurrent requests, faults and
crashes, from the four at its head; those of `Catalogue` for any sites,
repositories, settings and concurrent requests, from the four at its head; those of `StartLog` for any
number of starts, readers, lines and looks, from the three at its head, of which the
one that matters is that a start logs fewer lines than a channel holds. Those of `Accounts` hold for
any number of open requests, passwords, names, tokens and events, those of `Startup` for any sites,
keys and events, those of `Sandbox` for any number of open requests, rows, keys and events, from the
two assumptions at the head of each: constants that stand for different
things differ, and the bounds are numbers. Those of `Review` hold for any reviews, inventories, versions,
advisories, attempts, budgets and lifetimes of an answer, from its four assumptions: a loop has an attempt and a
lookup a request, WordPress components, packages and PHP are told apart, versions are sequences of numbers
and an advisory has finitely many ranges. `FlawsTold` has a hypothesis of its own, `Consistent`, about what
providers publish: no release that an advisory names as fixed lies in one of its ranges. Without it
`selectFixedVersion` may name such a release, and an update to it would not help.

For the job queue, the argument is a chain of inductive invariants, each proved with the ones
before it:

1. `TypeInv` is `TypeOK` and that the worker's `pc` lies in its program. It needs
   `ProgramsComplete`: a step other than the last has a next one, and the last
   step of a program is the result, which does not advance.
2. `Placement` is `NoDuplicateDelivery`, that nothing is in memory while the
   server is down, and that a job no client has submitted is nowhere. The last part is
   what makes `CreateJob` keep the first.
3. `Freshness` bounds `starts` of a job that is still on its way by its faults:
   `AtMostOnce` alone is not inductive, since a queued row of a job that has begun could
   be recovered.
4. `NoRowForgotten` needs only `Placement`'s knowledge of what a crash clears.
5. `Ordering`: the jobs that were in the channel when a row was created are older than it
   (`AheadIsOlder`), so that recovery, which sends oldest first, restores their order; and no
   handler sends while recovery does (`RecoveryFirst`), since HTTP is served only after it: `NoOvertaking`.
6. `Accounts`: a job past its first step has been begun, and the faults are within their bound.
7. The refinement needs 1, 2, 3 and 6: `Freshness` to show that a row can be queued
   again only after a fault, `Placement` to show that one step moves one job.
8. `Handover`: the worker has the request that the client sent, also after a crash between
   (`Carried`), and a completed row waits nowhere (`Finished`).
9. `AllEffects`: what a job that was begun once has left in the world is what the steps behind
   its worker add (`FirstRun`), and an import stays (`ImportStays`), so the properties of effects
   become facts about programs: no check comes after a snapshot, a record or a touched
   file (`CancelComesFirst`), and a restore that was asked for the database or the files
   has a step that imports them before it is done (`RestoreYields`). What a return was to
   remove is left only where its removal failed (`stuck`).
10. `Ordered`: `FilesAfterDatabase` itself, and that no cancel is about to undo an import. A step that touches
   files has the import, if one was asked for, among the steps before it (`DatabaseComesFirst`), and what
   those have done stays over crash and restart.

For rehearsals, six invariants:

1. `TypeInv`: `TypeOK`, that files are removed only where the program creates or
   destroys (so that there is a next step), and that a request is served as the
   stop or the cleanup it began as.
2. `Owned`: every environment a row, the worker or a request refers to was made
   for its job, and its name is not a new one.
3. `Spared`: a running project has a compose file that *nobody is about to
   remove*. `RunningIsReachable` alone is not inductive: between `down` and the
   removal of the file another rehearsal may start the shared project again, and
   what saves it is its own file, which is new (`Owned`).
4. `OwnGone`: as long as the environment of the job to stop is on disk, its removal is
   what the request is at. A new environment never takes an old name, so what is
   gone at `HandlerFinal` stays gone: `StopMeansGone`.
5. `Delivered`: the row of a job that is still to be finished describes no environment, and a
   job comes to the worker once. A status write without a result clears the
   environment of a row, and this is why none is lost by it.
6. `Built`: a creation starts with no environment of its job on disk, so that it never drops
   the one in the worker's hand. With `Delivered` it makes `Accounted` inductive.

For the catalogue, `TypeOK` and three more:

1. `Named`: a name is in one place. While a job stores a snapshot, no
   record, repository or request knows its name, which is what lets a request that
   holds a name trust that no job will store it again.
2. `Forgotten`: between `Forget` and `DeleteRow`, what the request removed stays out
   of the repository it was removed from.
3. `Located`: what a deletion seeks is stored nowhere but where it is sought, unless its site has
   moved. With `Named` and `Forgotten` it gives `DeletedIsGone`;
   `RecordsAreBacked` and `SnapshotsAreRecorded` are inductive beside them.

For the start log, the invariant counts events. `Base(r)` is what a reader took
from the buffer or has shown, `Due(s, r)` is 1 while the last event of its start is yet to be
sent to it, and `Total(s)` is the lines, plus one for the end.

1. `Fits`: what is in a channel and due is at most `Total`, for readers that left, too. With
   `Lines < Capacity` there is room for whatever is due: `NothingDropped`.
2. `InStep`: for a connected reader `Base + channel + Due = Total`, and the channel
   holds exactly the events from `Base + 1` on. An event therefore comes once and in order,
   and the one after the last line is the outcome: `Implements`.

For the sandbox, one common ground and an invariant per property. The ground, `Base`, is `TypeOK`,
that requests open together are in `met` (`Noted`), that each is where its kind can be (`Placed`),
and that the state in memory and on disk names rows there are or were (`Grounded`). The invariants
say what the requests under way owe to the property, unless an exception has come to be. One in
`met` or `cut` never goes away again; one in `missed` stays until the containers are down or the damage is mended.

1. `OneRowInv`: a start that is about to write its row knows of every row with the name.
2. `ReachInv`: a deletion past the containers has left none running, unless it did not see them.
3. `ConnInv`: no request is about to note a connection that is not there, or to cut one that
   is still noted.
4. `RowInv`: whoever holds the state or a row in hand has one that is there.
5. `DamInv`: while nobody flags what it destroyed, nothing is destroyed; a start, a stop, a restore or
   a deletion at its end has mended everything, or `missed` says what it has not.
6. `FlagInv`: where the flag is up and nothing is broken, a request that mended it
   is about to clear the flag of the same site.
7. `KeyInv`: the halves of the key belong together, but for what a deletion cut short has left, and
   compose file and containers have that key. `HoldInv`: so do the rows that the state
   names on disk or in memory, of which there is one. Together: `SshWorks`.
8. `GoneInv`: every row with the name is in the state, or in the hand of a start that is about to save
   it, so that a deletion that reads the state knows all rows: `DeletedIsGone`.

For accounts, one invariant of every open request and one of every two:

1. `Noted`: requests that are open together are in `met`. It turns "another request
   wrote in between" into the name of an overlap.
2. `Sound`: a request is where its kind can be (`Placed`), what it looked for is there
   (`Present`), the column its write leaves alone is as it was read unless the overlap
   was noted (`Current`), and what it proved still holds unless it was (`Proved`).
   `NothingLost` follows from `Current`, `LoginKnows` and `ProvenChange` from `Proved`.
3. `Admitted`: a profile update past `authMiddleware` never meets a user whose
   password has to be set, now or in the row it read. It holds because the demand, once
   lifted, stays so, which is `ForcedIsOver`: the two are proved together.

For start-up, what each process knows and what each secret can be:

1. `Good`: of a process, its key (`Keyed`, `ServerKeyed`, `CliKeyed`), that it has fields to seal
   only where it seals (`Busy`), and that those are of rows no client has written (`Honest`). A process
   that has looked knows every field that is in plain (`Seen`), one past that step leaves
   none (`Passed`), and no other can undo it, since nobody writes in plain: `SecretsSealed`.
2. `Owned`: without a change of configuration every seal is the default, or the key of
   this installation. The server's key is in the file before it seals anything
   (`ServerKeyed`), so that a crash cannot lose a key in use: `SecretsReadable`.
3. `Aged`: what is in plain is from before, so that to seal what was read is to keep
   it: `SecretsKept`.

For reviews, what a review owes to its report, and what the table owes to it:

1. `Judged`: the attempt counter is one more than the pages that did not come, and a rehearsal fails
   if a page was wrong: `VerdictIsEarned`.
2. `Spared`: requests made and budget left add up to at most `Budget`, and nothing is skipped
   while one is left. `Fresh`: a component whose row was good when the review began still has a good row,
   because rows never lie in the future (`AtPast`) and are replaced by younger ones; no such package is left for OSV.
   Together: `QuotaKept`.
3. `Honest`, `Answered`: a row, and an answer under way, that is younger than a flaw tells of it.
   `Covered`: of the components a review has discovered (`seen`) and is done with, each flaw older than `Ttl`
   is told, cut off with a word (`Truncated`) or skipped, or its provider is said to have failed: `FlawsAreTold`.
4. It rests on what `Compare` is: `CompareIsOlder` and `OlderIsTransitive` show that
   `compareVersions` is the lexicographic order of versions padded with zeros, `AffectedIsInside` that
   `versionAffected` agrees with the definition of the properties, and `OldestExists` that a finite
   set of releases has an oldest one, by well-founded induction over the strict subsets, so that
   `TargetHelps`: an update to what `selectFixedVersion` names leaves all ranges.

Every property of a run that passes is stated by a theorem, but for liveness (`EventuallyServing`,
`AcceptedIsBegun`, `ReadersAreAnswered`, `EventuallyServes`), which is beyond the prover and
only model-checked. The violations are counterexamples of TLC. That
the actions can be taken at all is shown by the runs, not by the theorems.

## 5. Plan

| Step | Modules | Abstract specification, properties, proofs |
|---|---|---|
| 1, done | `JobPrograms`, `JobQueue`, `JobLedger` and their proofs | as above |
| 2, done | `Catalogue` and its proofs | as above |
| 3, done | `Rehearsal` and its proofs | as above |
| 4a, done | `LiveLog`, `StartLog` and their proofs | as above |
| 4b, done | `Sandbox` and its proofs | as above |
| 5, done | `Accounts` and its proofs | as above |
| 6, done | `Startup`, `Review` and their proofs | as above |
| 7 | abstract specifications | what the catalogue and the stop of a rehearsal promise to a client, as `JobLedger` and `LiveLog` do for jobs and logs, with their refinements |

## 6. Not modelled

* The SSH client: one client per job, used by one goroutine; its commands are
  steps of the job programs. What is left builds command lines and tar streams.
* The managers of `internal/backup` and `internal/restore`, and the command line but for
  `reset-password`: calls in a row on files nobody else reads.
* The stages inside an upgrade: commands in a row, each of which may end the
  job; the upgrade is one step.
* `internal/healthcheck`: any HTTP status ends its loop, and nothing is decided on its
  counter.
* Metrics, the web server (a stateless proxy that rewrites text), the web UI, configuration: no
  state whose steps could go wrong in the ways above.

Left out inside the models: formatting, validation messages, logging and
progress percentages everywhere; in `Sandbox` the content that is seeded and the URL that
a restore rewrites; in `Accounts` hashing, and the rules for a strong password (one input); in
`Startup` the columns all versions have, the content of `wp_ssh_key` (it is sealed as the others), and
the four staging columns are dropped as one. In
`Review` the inventory is a list, of which a review may discover a part, the probes of `scanner.go` are one outcome, wording
and severities are left out, a package's advisory speaks of that package only, and time
passes between reviews, with a row of exactly the age `cveCacheTTL` good or not.

SQL is taken as atomic per statement, which the engine gives; what
the code does not wrap into one transaction is separate steps. `PROJECT.json`
lists every component with its status and every hazard with the properties that
cover it.
