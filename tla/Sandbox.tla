------------------------------ MODULE Sandbox ------------------------------
(***************************************************************************)
(* The local test site: what Manager keeps in its data directory, the      *)
(* docker stack, the row in the sites table and the connection of the API  *)
(* container to the stack's network.  Requests (start, break, status,      *)
(* stop, delete) and the end of a restore job share all of it, and no lock *)
(* spans any of them.  Every file, docker and database access is a step.   *)
(***************************************************************************)
EXTENDS Naturals

CONSTANTS
  Slots,        \* requests that may be open at a time
  Sites, Keys,  \* site identifiers and SSH key pairs, each generated once
  None,
  MaxEvents,    \* bound: requests, and failures (of commands, file writes and
                \* database calls), restarts and edits of the row, together
  MaxAlone      \* the same, as long as no two requests were open together

ASSUME NoneAssumption == None \notin Sites \cup Keys
ASSUME BoundAssumption == MaxEvents \in Nat /\ MaxAlone \in Nat

VARIABLES
  disk,       \* the data directory
  stack,      \* the docker project
  rows,       \* the sites table
  connected,  \* Manager.connectedOnce
  op          \* the open requests

(* Observations: no action reads them, except for the bounds. *)
VARIABLES
  met,        \* which kinds of request have been open together
  cut,        \* which kinds have ended early: with an error or in a crash
  missed,     \* what was passed over with no error: running containers, by a
              \* deletion; damage, by a restore of one part
  events

vars == <<disk, stack, rows, connected, op, met, cut, missed, events>>

Kinds == {"start", "break", "status", "stop", "delete", "restore"}
Parts == {"files", "database"}

State == [site: Sites \cup {None}, broken: BOOLEAN]
NoState == [site |-> None, broken |-> FALSE]

\* saved: whether state.json exists; compose: the key in the compose file.
Disk == [saved: BOOLEAN, state: State, priv: Keys \cup {None}, pub: Keys \cup {None},
         compose: Keys \cup {None}, repo: BOOLEAN]
Empty == [saved |-> FALSE, state |-> NoState, priv |-> None, pub |-> None,
          compose |-> None, repo |-> FALSE]

\* up: wp and db run; half: db alone does.  key: the key that may log in;
\* content: how far setupWordPress got; damage: what Break has destroyed;
\* attached: the API container is on the network.
Stack == [up: BOOLEAN, half: BOOLEAN, key: Keys \cup {None}, attached: BOOLEAN,
          damage: SUBSET Parts, content: {"none", "config", "installed", "seeded"}]
Down == [up |-> FALSE, half |-> FALSE, key |-> None, attached |-> FALSE, damage |-> {},
         content |-> "none"]

\* named: the row still has the name siteName.
Row == [state: {"new", "there", "deleted"}, named: BOOLEAN, key: Keys \cup {None}]

Phases == {"idle", "load", "key", "priv", "pub", "repo", "render", "up", "wait", "look",
           "attach", "note", "http", "setup", "install", "seed", "list", "row", "save",
           "files", "drop", "running", "forget", "detach", "down", "wipe",
           "apply", "check", "recheck"}

\* had, st: whether and what loadState returned; key: the key generated or
\* read; site: the row under way; parts: what the restore job applies.
Op == [kind: Kinds, phase: Phases, had: BOOLEAN, st: State, key: Keys \cup {None},
       site: Sites \cup {None}, parts: SUBSET Parts]
Idle == [kind |-> "status", phase |-> "idle", had |-> FALSE, st |-> NoState,
         key |-> None, site |-> None, parts |-> {}]

At(p, ph) == op[p].phase = ph
Go(p, ph) == op' = [op EXCEPT ![p].phase = ph]
End(p) == op' = [op EXCEPT ![p] = Idle]

\* docker compose needs the compose file, for ps and down as for up; isRunning
\* asks it for wp.  The network is there for whoever is on it.
IsRunning == disk.compose # None /\ stack.up
Containers == stack.up \/ stack.half
DatabaseRuns == disk.compose # None /\ Containers
Network == Containers \/ stack.attached

Open == {p \in Slots : op[p].phase # "idle"}
Meet(p, k) == met' = met \cup {{k, op[q].kind} : q \in Open \ {p}}
Event == /\ events < IF met = {} THEN MaxAlone ELSE MaxEvents
         /\ events' = events + 1
Alone(p) == Open \subseteq {p}
Unseen == Keys \ ({disk.priv, disk.pub, disk.compose, stack.key}
                    \cup {rows[s].key : s \in Sites} \cup {op[p].key : p \in Slots})

----------------------------------------------------------------------------
(* A request comes in, and reads what it starts from. *)

First(k) == CASE k \in {"start", "break"} -> "load"
              [] k = "status"             -> "look"
              [] k = "stop"               -> "forget"
              [] k = "delete"             -> "load"
              [] k = "restore"            -> "check"

Ask(p, k) ==
  /\ At(p, "idle") /\ Event /\ (Alone(p) \/ events < MaxEvents)
  /\ op' = [op EXCEPT ![p] = [Idle EXCEPT !.kind = k, !.phase = First(k)]]
  /\ Meet(p, k)
  /\ UNCHANGED <<disk, stack, rows, connected, cut, missed>>

\* A restore job has read its site, and the worker runs one job at a time.
AskRestore(p, s, parts) ==
  /\ At(p, "idle") /\ Event /\ (Alone(p) \/ events < MaxEvents)
  /\ rows[s].state = "there"
  /\ \A q \in Open : op[q].kind # "restore"
  /\ op' = [op EXCEPT ![p] = [Idle EXCEPT !.kind = "restore", !.phase = "check", !.site = s,
                                          !.key = rows[s].key, !.parts = parts]]
  /\ Meet(p, "restore")
  /\ UNCHANGED <<disk, stack, rows, connected, cut, missed>>

\* loadState.  Stop comes here after the containers are down, a restore after
\* its work; without a state there is nothing to break, and nothing to save.
LoadState(p) ==
  LET k == op[p].kind
      next == CASE k = "start"  -> "key"
                [] k = "break"  -> IF disk.saved THEN "files" ELSE "idle"
                [] k = "delete" -> "running"
                [] k = "stop"   -> IF disk.saved THEN "save" ELSE "idle"
                [] k = "restore" -> IF disk.saved /\ disk.state.broken THEN "save" ELSE "idle"
  IN /\ At(p, "load") /\ k # "status"
     /\ op' = [op EXCEPT ![p] = IF next = "idle" THEN Idle
                                ELSE [@ EXCEPT !.phase = next, !.had = disk.saved,
                                               !.st = disk.state]]
     /\ UNCHANGED <<disk, stack, rows, connected, met, cut, missed, events>>

----------------------------------------------------------------------------
(* Start. *)

\* ensureSSHKey: a private key on disk is kept, and wants its public half.
ReadKey(p) ==
  /\ At(p, "key") /\ disk.priv # None /\ disk.pub # None
  /\ op' = [op EXCEPT ![p].key = disk.pub, ![p].phase = "repo"]
  /\ UNCHANGED <<disk, stack, rows, connected, met, cut, missed, events>>

HalfKey(p) ==
  /\ At(p, "key") /\ disk.priv # None /\ disk.pub = None
  /\ End(p)
  /\ cut' = cut \cup {"start"}
  /\ UNCHANGED <<disk, stack, rows, connected, met, missed, events>>

GenerateKey(p) ==
  /\ At(p, "key") /\ disk.priv = None
  /\ \E k \in Unseen : op' = [op EXCEPT ![p].key = k, ![p].phase = "priv"]
  /\ UNCHANGED <<disk, stack, rows, connected, met, cut, missed, events>>

WritePrivate(p) ==
  /\ At(p, "priv")
  /\ disk' = [disk EXCEPT !.priv = op[p].key]
  /\ Go(p, "pub")
  /\ UNCHANGED <<stack, rows, connected, met, cut, missed, events>>

WritePublic(p) ==
  /\ At(p, "pub")
  /\ disk' = [disk EXCEPT !.pub = op[p].key]
  /\ Go(p, "repo")
  /\ UNCHANGED <<stack, rows, connected, met, cut, missed, events>>

EnsureRepo(p) ==
  /\ At(p, "repo")
  /\ disk' = [disk EXCEPT !.repo = TRUE]
  /\ Go(p, "render")
  /\ UNCHANGED <<stack, rows, connected, met, cut, missed, events>>

RenderCompose(p) ==
  /\ At(p, "render")
  /\ disk' = [disk EXCEPT !.compose = op[p].key]
  /\ Go(p, "up")
  /\ UNCHANGED <<stack, rows, connected, met, cut, missed, events>>

\* compose up --build.  The key is part of the image, which holds WordPress'
\* files: a running container with another key is replaced.
Up(p) ==
  /\ At(p, "up") /\ disk.compose # None
  /\ stack' = IF stack.up /\ stack.key = disk.compose THEN stack
              ELSE [stack EXCEPT !.up = TRUE, !.half = FALSE, !.key = disk.compose,
                                 !.content = "none", !.damage = @ \ {"files"}]
  /\ Go(p, "wait")
  /\ UNCHANGED <<disk, rows, connected, met, cut, missed, events>>

\* waitDB, and the cache of the connection is dropped.
WaitDatabase(p) ==
  /\ At(p, "wait") /\ DatabaseRuns
  /\ connected' = FALSE
  /\ Go(p, "look")
  /\ UNCHANGED <<disk, stack, rows, met, cut, missed, events>>

\* wpContainerIP and waitHTTP: the API container reaches wp over the network.
WaitHTTP(p) ==
  /\ At(p, "http") /\ IsRunning /\ stack.attached
  /\ Go(p, "setup")
  /\ UNCHANGED <<disk, stack, rows, connected, met, cut, missed, events>>

\* Mutant: a broken site counts as installed.
InstalledThoughBroken(p) ==
  /\ At(p, "setup") /\ IsRunning /\ stack.content \in {"installed", "seeded"}
  /\ Go(p, "list")
  /\ UNCHANGED <<disk, stack, rows, connected, met, cut, missed, events>>

\* setupWordPress: is-installed needs the files and the database.
AlreadyInstalled(p) ==
  /\ At(p, "setup") /\ IsRunning
  /\ stack.content \in {"installed", "seeded"} /\ stack.damage = {}
  /\ Go(p, "list")
  /\ UNCHANGED <<disk, stack, rows, connected, met, cut, missed, events>>

\* Otherwise wp-config.php is made, ...
CreateConfig(p) ==
  /\ At(p, "setup") /\ IsRunning /\ stack.content = "none"
  /\ stack' = [stack EXCEPT !.content = "config"]
  /\ Go(p, "install")
  /\ UNCHANGED <<disk, rows, connected, met, cut, missed, events>>

\* ... and is refused where there is one: on a broken site, and after an
\* attempt that failed between here and the installation.
ConfigExists(p) ==
  /\ At(p, "setup") /\ IsRunning
  /\ stack.content = "config" \/ (stack.content # "none" /\ stack.damage # {})
  /\ End(p)
  /\ cut' = cut \cup {"start"}
  /\ UNCHANGED <<disk, stack, rows, connected, met, missed, events>>

Install(p) ==
  /\ At(p, "install") /\ IsRunning
  /\ stack' = [stack EXCEPT !.content = "installed", !.damage = {}]
  /\ missed' = missed \ {"damage"}
  /\ Go(p, "seed")
  /\ UNCHANGED <<disk, rows, connected, met, cut, events>>

\* Permalinks, posts and uploads.
Seed(p) ==
  /\ At(p, "seed") /\ IsRunning
  /\ stack' = [stack EXCEPT !.content = "seeded"]
  /\ Go(p, "list")
  /\ UNCHANGED <<disk, rows, connected, met, cut, missed, events>>

\* upsertSite looks for the row by its name, ...
Named == {s \in Sites : rows[s].state = "there" /\ rows[s].named}

\* Mutant: the row is looked up by the state's identifier.
ListSitesById(p) ==
  /\ At(p, "list")
  /\ op' = [op EXCEPT ![p].phase = "row", ![p].site = op[p].st.site]
  /\ UNCHANGED <<disk, stack, rows, connected, met, cut, missed, events>>

ListSites(p) ==
  /\ At(p, "list")
  /\ \E s \in IF Named = {} THEN {None} ELSE Named :
       op' = [op EXCEPT ![p].phase = "row", ![p].site = s]
  /\ UNCHANGED <<disk, stack, rows, connected, met, cut, missed, events>>

\* Mutant: a row that is there keeps its key.
UpdateRowKeepsKey(p) ==
  /\ At(p, "row") /\ op[p].kind = "start" /\ op[p].site # None
  /\ Go(p, "save")
  /\ UNCHANGED <<disk, stack, rows, connected, met, cut, missed, events>>

\* ... updates it, which changes nothing when it has gone meanwhile, or makes
\* one.  The private key is read again.
UpdateRow(p) ==
  /\ At(p, "row") /\ op[p].kind = "start" /\ op[p].site # None
  /\ rows' = IF rows[op[p].site].state = "there"
             THEN [rows EXCEPT ![op[p].site].key = disk.priv, ![op[p].site].named = TRUE]
             ELSE rows
  /\ Go(p, "save")
  /\ UNCHANGED <<disk, stack, connected, met, cut, missed, events>>

\* Mutant: two columns are swapped.
CreateRowSwapped(p) ==
  /\ At(p, "row") /\ op[p].kind = "start" /\ op[p].site = None
  /\ \E s \in Sites :
       /\ rows[s].state = "new"
       /\ rows' = [rows EXCEPT ![s] = [state |-> "there", named |-> TRUE, key |-> s]]
       /\ op' = [op EXCEPT ![p].phase = "save", ![p].site = s]
  /\ UNCHANGED <<disk, stack, connected, met, cut, missed, events>>

CreateRow(p) ==
  /\ At(p, "row") /\ op[p].kind = "start" /\ op[p].site = None
  /\ \E s \in Sites :
       /\ rows[s].state = "new"
       /\ rows' = [rows EXCEPT ![s] = [state |-> "there", named |-> TRUE, key |-> disk.priv]]
       /\ op' = [op EXCEPT ![p].phase = "save", ![p].site = s]
  /\ UNCHANGED <<disk, stack, connected, met, cut, missed, events>>

\* saveState writes the whole state as it was loaded, with what the request
\* changes.  Start and Break then answer with Status.
Save(p) ==
  LET k == op[p].kind
      st == CASE k = "start" -> [site |-> op[p].site, broken |-> FALSE]
              [] k = "break" -> [op[p].st EXCEPT !.broken = TRUE]
              [] OTHER       -> [op[p].st EXCEPT !.broken = FALSE]
  IN /\ At(p, "save")
     /\ disk' = [disk EXCEPT !.saved = TRUE, !.state = st]
     /\ IF k \in {"start", "break"}
        THEN /\ op' = [op EXCEPT ![p] = [Idle EXCEPT !.phase = "look"]]
             /\ Meet(p, "status")
        ELSE End(p) /\ UNCHANGED met
     /\ UNCHANGED <<stack, rows, connected, cut, missed, events>>

----------------------------------------------------------------------------
(* Status, and ConnectToNetwork wherever it is called. *)

Connected(p) == CASE op[p].kind = "start"   -> Go(p, "http")
                  [] op[p].kind = "restore" -> Go(p, "apply")
                  [] OTHER                  -> End(p)

LookConnected(p) ==
  /\ At(p, "look")
  /\ connected \/ ~IsRunning
  /\ Connected(p)
  /\ UNCHANGED <<disk, stack, rows, connected, met, cut, missed, events>>

\* docker inspect or docker compose ps fails, and nothing is said of it.
LookInVain(p) ==
  /\ At(p, "look") /\ ~connected /\ IsRunning /\ Event
  /\ Connected(p)
  /\ UNCHANGED <<disk, stack, rows, connected, met, cut, missed>>

LookRunning(p) ==
  /\ At(p, "look") /\ ~connected /\ IsRunning
  /\ Go(p, "attach")
  /\ UNCHANGED <<disk, stack, rows, connected, met, cut, missed, events>>

\* docker network connect; a container that is attached already will do.
Attach(p) ==
  /\ At(p, "attach") /\ Network
  /\ stack' = [stack EXCEPT !.attached = TRUE]
  /\ Go(p, "note")
  /\ UNCHANGED <<disk, rows, connected, met, cut, missed, events>>

NoteConnected(p) ==
  /\ At(p, "note")
  /\ connected' = TRUE
  /\ Connected(p)
  /\ UNCHANGED <<disk, stack, rows, met, cut, missed, events>>

----------------------------------------------------------------------------
(* Break. *)

BreakFiles(p) ==
  /\ At(p, "files") /\ IsRunning
  /\ stack' = [stack EXCEPT !.damage = @ \cup {"files"}]
  /\ Go(p, "drop")
  /\ UNCHANGED <<disk, rows, connected, met, cut, missed, events>>

DropDatabase(p) ==
  /\ At(p, "drop") /\ DatabaseRuns
  /\ stack' = [stack EXCEPT !.damage = @ \cup {"database"}]
  /\ Go(p, "save")
  /\ UNCHANGED <<disk, rows, connected, met, cut, missed, events>>

----------------------------------------------------------------------------
(* Stop and Delete. *)

\* Mutant: a deletion does not look for containers.
RunningIgnored(p) ==
  /\ At(p, "running")
  /\ Go(p, "row")
  /\ UNCHANGED <<disk, stack, rows, connected, met, cut, missed, events>>

\* Delete leaves the containers alone when it does not see wp among them.
PassOver(p) ==
  /\ missed' = IF Containers THEN missed \cup {"containers"} ELSE missed
  /\ Go(p, "row")

Running(p) ==
  /\ At(p, "running")
  /\ IF IsRunning THEN Go(p, "forget") /\ UNCHANGED missed ELSE PassOver(p)
  /\ UNCHANGED <<disk, stack, rows, connected, met, cut, events>>

\* isRunning takes any error of docker compose ps for a no.
Unanswered(p) ==
  /\ At(p, "running") /\ IsRunning /\ Event
  /\ PassOver(p)
  /\ UNCHANGED <<disk, stack, rows, connected, met, cut>>

\* Mutant: the cache outlives the connection.
ForgetNothing(p) ==
  /\ At(p, "forget")
  /\ Go(p, "detach")
  /\ UNCHANGED <<disk, stack, rows, connected, met, cut, missed, events>>

ForgetConnection(p) ==
  /\ At(p, "forget")
  /\ connected' = FALSE
  /\ Go(p, "detach")
  /\ UNCHANGED <<disk, stack, rows, met, cut, missed, events>>

Detach(p) ==
  /\ At(p, "detach")
  /\ stack' = [stack EXCEPT !.attached = FALSE]
  /\ Go(p, "down")
  /\ UNCHANGED <<disk, rows, connected, met, cut, missed, events>>

\* Its error is logged and no more.
StayAttached(p) ==
  /\ At(p, "detach") /\ stack.attached /\ Event
  /\ Go(p, "down")
  /\ UNCHANGED <<disk, stack, rows, connected, met, cut, missed>>

\* compose down -v.  A network with the API container on it cannot be
\* removed: the containers go, and the command fails.
ComposeDown(p) ==
  /\ At(p, "down") /\ disk.compose # None
  /\ stack' = [Down EXCEPT !.attached = stack.attached]
  /\ missed' = {}
  /\ IF stack.attached
     THEN End(p) /\ cut' = cut \cup {op[p].kind}
     ELSE Go(p, IF op[p].kind = "stop" THEN "load" ELSE "row") /\ UNCHANGED cut
  /\ UNCHANGED <<disk, rows, connected, met, events>>

\* Mutant: the row stays.
DeleteNoRow(p) ==
  /\ At(p, "row") /\ op[p].kind = "delete"
  /\ Go(p, "wipe")
  /\ UNCHANGED <<disk, stack, rows, connected, met, cut, missed, events>>

DeleteRow(p) ==
  /\ At(p, "row") /\ op[p].kind = "delete"
  /\ rows' = IF op[p].had /\ op[p].st.site # None
             THEN [rows EXCEPT ![op[p].st.site].state = "deleted"] ELSE rows
  /\ Go(p, "wipe")
  /\ UNCHANGED <<disk, stack, connected, met, cut, missed, events>>

\* The entries of the data directory in the order of ReadDir: the compose
\* file, restic's, the private key, the public key, state.json.
Wiped(n) == [saved   |-> n < 5 /\ disk.saved,
             state   |-> IF n < 5 THEN disk.state ELSE NoState,
             pub     |-> IF n < 4 THEN disk.pub ELSE None,
             priv    |-> IF n < 3 THEN disk.priv ELSE None,
             repo    |-> n < 2 /\ disk.repo,
             compose |-> IF n < 1 THEN disk.compose ELSE None]

\* Mutant: state.json is left.
WipeButState(p) ==
  /\ At(p, "wipe")
  /\ disk' = Wiped(4)
  /\ End(p)
  /\ UNCHANGED <<stack, rows, connected, met, cut, missed, events>>

Wipe(p) ==
  /\ At(p, "wipe")
  /\ disk' = Wiped(5)
  /\ End(p)
  /\ UNCHANGED <<stack, rows, connected, met, cut, missed, events>>

----------------------------------------------------------------------------
(* The restore job, as far as it concerns the sandbox. *)

IsSandboxSite(s) == disk.saved /\ disk.state.site = s

\* Before its work, to join the network, ...
CheckSandbox(p) ==
  /\ At(p, "check")
  /\ Go(p, IF IsSandboxSite(op[p].site) THEN "look" ELSE "apply")
  /\ UNCHANGED <<disk, stack, rows, connected, met, cut, missed, events>>

\* (over the network, with the key of the row, which it reads once)
Apply(p) ==
  /\ At(p, "apply") /\ stack.up /\ stack.attached /\ op[p].key = stack.key
  /\ stack' = [stack EXCEPT !.damage = @ \ op[p].parts]
  /\ missed' = IF stack'.damage = {} THEN missed \ {"damage"} ELSE missed \cup {"damage"}
  /\ Go(p, "recheck")
  /\ UNCHANGED <<disk, rows, connected, met, cut, events>>

\* Mutant: the restore does not clear the flag.
RecheckForgotten(p) ==
  /\ At(p, "recheck")
  /\ End(p)
  /\ UNCHANGED <<disk, stack, rows, connected, met, cut, missed, events>>

\* ... and after it, to clear the flag.
RecheckSandbox(p) ==
  /\ At(p, "recheck")
  /\ IF IsSandboxSite(op[p].site) THEN Go(p, "load") ELSE End(p)
  /\ UNCHANGED <<disk, stack, rows, connected, met, cut, missed, events>>

----------------------------------------------------------------------------
(* Failures, restarts, and clients of the sites table. *)

\* What needs the stack fails without it, and without the right key.
Refuses(p) ==
  \/ ~IsRunning /\ op[p].phase \in {"http", "setup", "install", "seed", "files"}
  \/ ~DatabaseRuns /\ op[p].phase \in {"wait", "drop"}
  \/ disk.compose = None /\ op[p].phase \in {"up", "down"}
  \/ ~Network /\ At(p, "attach")
  \/ ~stack.attached /\ op[p].phase \in {"http", "apply"}
  \/ (~stack.up \/ op[p].key # stack.key) /\ At(p, "apply")

\* Any error ends the request where it is.  A command that fails with its work
\* done is one that succeeds before a next one that fails.
Fail(p) ==
  /\ \/ Refuses(p) /\ UNCHANGED events
     \/ /\ op[p].phase \notin {"idle", "load", "look", "note", "running", "forget",
                               "detach", "check", "recheck"}
        /\ Event
  /\ disk' \in IF At(p, "wipe") THEN {Wiped(n) : n \in 0 .. 4} ELSE {disk}
  /\ End(p)
  /\ cut' = cut \cup {op[p].kind}
  /\ UNCHANGED <<stack, rows, connected, met, missed>>

\* docker compose fails part way: up has started, or down has left, db alone.
FailPartWay(p) ==
  /\ disk.compose # None /\ Event
  /\ \/ At(p, "up") /\ (~stack.up \/ stack.key # disk.compose)
     \/ At(p, "down") /\ stack.up
  /\ stack' = [stack EXCEPT !.up = FALSE, !.half = TRUE, !.key = None, !.content = "none",
                            !.damage = @ \ {"files"}]
  /\ End(p)
  /\ cut' = cut \cup {op[p].kind}
  /\ UNCHANGED <<disk, rows, connected, met, missed>>

\* The API container restarts, or is made anew and is on no network.
Crash ==
  /\ Event
  /\ connected' = FALSE
  /\ stack' \in {stack, [stack EXCEPT !.attached = FALSE]}
  /\ op' = [p \in Slots |-> Idle]
  /\ cut' = cut \cup {op[p].kind : p \in Open}
  /\ UNCHANGED <<disk, rows, met, missed>>

RenameRow(s) ==
  /\ rows[s].state = "there" /\ Event
  /\ rows' = [rows EXCEPT ![s].named = FALSE]
  /\ cut' = cut \cup {"client"}
  /\ UNCHANGED <<disk, stack, connected, op, met, missed>>

RemoveRow(s) ==
  /\ rows[s].state = "there" /\ Event
  /\ rows' = [rows EXCEPT ![s].state = "deleted"]
  /\ cut' = cut \cup {"client"}
  /\ UNCHANGED <<disk, stack, connected, op, met, missed>>

----------------------------------------------------------------------------
Init ==
  /\ disk = Empty /\ stack = Down /\ connected = FALSE
  /\ rows = [s \in Sites |-> [state |-> "new", named |-> FALSE, key |-> None]]
  /\ op = [p \in Slots |-> Idle]
  /\ met = {} /\ cut = {} /\ missed = {}
  /\ events = 0

Provision(p) ==
  \/ ReadKey(p) \/ HalfKey(p) \/ GenerateKey(p) \/ WritePrivate(p) \/ WritePublic(p)
  \/ EnsureRepo(p) \/ RenderCompose(p) \/ Up(p) \/ WaitDatabase(p) \/ WaitHTTP(p)
  \/ AlreadyInstalled(p) \/ CreateConfig(p) \/ ConfigExists(p) \/ Install(p) \/ Seed(p)
  \/ ListSites(p) \/ UpdateRow(p) \/ CreateRow(p)

Connect(p) ==
  LookConnected(p) \/ LookInVain(p) \/ LookRunning(p) \/ Attach(p) \/ NoteConnected(p)
TearDown(p) ==
  \/ Running(p) \/ Unanswered(p) \/ ForgetConnection(p) \/ Detach(p) \/ StayAttached(p)
  \/ ComposeDown(p) \/ DeleteRow(p) \/ Wipe(p)
Drill(p) == BreakFiles(p) \/ DropDatabase(p) \/ CheckSandbox(p) \/ Apply(p) \/ RecheckSandbox(p)

Step(p) == LoadState(p) \/ Provision(p) \/ Save(p) \/ Connect(p) \/ TearDown(p) \/ Drill(p)

Next ==
  \/ \E p \in Slots : \/ \E k \in Kinds \ {"restore"} : Ask(p, k)
                      \/ \E s \in Sites, parts \in SUBSET Parts : AskRestore(p, s, parts)
                      \/ Step(p) \/ Fail(p) \/ FailPartWay(p)
  \/ Crash
  \/ \E s \in Sites : RenameRow(s) \/ RemoveRow(s)

Spec == Init /\ [][Next]_vars

----------------------------------------------------------------------------
(* Properties.  Requests overlap and end early; each property names the      *)
(* overlaps and the early ends that break it, and all others do not.         *)

Met(a, b) == {a, b} \in met
Ended(kinds) == cut \cap kinds # {}

\* Break, Stop and a restore save the whole state as they loaded it: one that
\* was open together with a start may save a site that has gone since, and one
\* that was open together with a deletion brings the site back.
Writers == {"break", "stop", "restore"}
Overtaken == \E k \in Writers : Met("start", k)
Crossed == \E k \in Writers : Met("delete", k)

TypeOK ==
  /\ disk \in Disk /\ stack \in Stack
  /\ rows \in [Sites -> Row]
  /\ connected \in BOOLEAN
  /\ op \in [Slots -> Op]
  /\ met \subseteq SUBSET Kinds /\ cut \subseteq Kinds \cup {"client"}
  /\ missed \subseteq {"containers", "damage"}
  /\ events \in Nat

\* upsertSite looks for the row and then makes one, and the table does not
\* insist on unique names: the sandbox has one row unless two starts overlap.
OneRow == \A s, t \in Named : s = t \/ Met("start", "start")

\* The key of the sandbox's row opens the containers that run, whatever
\* failed or was deleted in between.  ensureSSHKey looks at the private key
\* only: two starts may each write one half of the pair, and so may a deletion
\* that left the public key and a start that got no further than the private.
\* And one of two rows keeps its key when state.json is turned back to it.
SshWorks ==
  \A s \in Sites :
    IsSandboxSite(s) /\ rows[s].state = "there" /\ stack.up
      => \/ rows[s].key = stack.key
         \/ Met("start", "start") \/ Met("start", "delete")
         \/ {"start", "delete"} \subseteq cut
         \/ Overtaken /\ Crossed

\* Containers that run have their compose file, without which neither Stop nor
\* Delete nor Status would find them.  A deletion that does not see them takes
\* it away, as one does that overlaps with a start.
RunningIsReachable ==
  Containers => disk.compose # None \/ Met("start", "delete") \/ "containers" \in missed

\* The cached connection is one: Stop and Delete drop the cache before they
\* detach the API container.  A request that is connecting meanwhile may put
\* it back.
ConnectionIsReal ==
  connected /\ stack.up
    => \/ stack.attached
       \/ \E a \in {"stop", "delete"}, b \in {"start", "status", "restore"} : Met(a, b)

\* state.json names a row of the table.
NamesRow == \E s \in Sites : IsSandboxSite(s) /\ rows[s].state = "there"

\* When nothing is under way, a running sandbox that is said to be broken is:
\* while state.json names no row, no restore can clear the flag.  It is saved
\* apart from the work: by Stop after the containers, by a restore for the
\* site of the state, which is another one once a client has renamed the row.
FlagMeansDamage ==
  Open = {} /\ NamesRow /\ disk.state.broken /\ stack.up
    => \/ stack.damage # {}
       \/ Ended({"start", "restore", "client"})
       \/ Met("break", "restore") \/ Met("break", "start") \/ Met("start", "start")

\* And one that is broken is said to be, so that the drill goes on to its
\* restore.  But a restore of one part clears the flag all the same, and a
\* deletion that does not see the containers takes the flag away.
DamageMeansFlag ==
  Open = {} /\ stack.up /\ stack.damage # {}
    => \/ disk.saved /\ disk.state.broken
       \/ missed # {} \/ Ended({"break"})
       \/ \E k \in {"start", "stop", "delete", "restore"} : Met("break", k)

\* When nothing is under way, state.json names a row of the table.  Whoever
\* loaded the state before a deletion and saves it after brings it back.
StateNamesRow ==
  Open = {} /\ disk.saved
    => \/ NamesRow
       \/ Ended({"delete", "client"})
       \/ Crossed \/ Met("start", "delete")

\* A deletion that succeeds leaves no containers, unless it did not see them,
\* and no row.  It only knows the row of state.json, which a start that fails
\* at its end has not written and a request that had loaded an older state has
\* written over.
DeletedIsGone ==
  [][\A p \in Slots : Wipe(p) =>
       /\ ~Containers \/ Met("start", "delete") \/ "containers" \in missed
       /\ \/ Named = {}
          \/ Ended({"start"}) \/ Met("start", "start") \/ Met("start", "delete")
          \/ Overtaken /\ (Crossed \/ Ended({"delete", "client"}))]_vars
=============================================================================
