------------------------------ MODULE Startup ------------------------------
(***************************************************************************)
(* Opening the database.  The server sees to its encryption key, brings    *)
(* the schema up to date, seals the secrets that older versions stored in  *)
(* plain, and serves.  The command line's reset-password opens the same    *)
(* database, and so does all of this but the key.  Either may end at any   *)
(* step; docker starts the server again.                                   *)
(***************************************************************************)
EXTENDS Naturals, Sequences

CONSTANTS
  Sites,
  Configured,   \* the key of DATA_ENCRYPTION_KEY or SECRET_KEY
  Generated,    \* the keys that may be generated
  None,
  MaxEvents     \* bound: crashes, runs of the command line, changes of the
                \* configuration and requests, together

Legacy == "legacy"
Keys == {Configured, Legacy} \cup Generated

ASSUME KeysAssumption ==
  /\ Configured \notin Generated
  /\ {None, Legacy, "empty"} \cap ({Configured} \cup Generated) = {}
  /\ None \notin {Legacy, "empty"}
ASSUME BoundAssumption == MaxEvents \in Nat

VARIABLES
  env,        \* whether a key is configured
  keyfile,    \* data/encryption.key
  columns,    \* the columns that versions differ in
  rows,       \* the sites table
  proc        \* the server and the command line

(* Observations: no action reads them, except for the bound. *)
VARIABLES
  given,      \* what a client last gave as the secrets of a site
  rekeyed,    \* whether the configuration has changed
  crossed,    \* whether a client wrote while the command line ran
  events

vars == <<env, keyfile, columns, rows, proc, given, rekeyed, crossed, events>>

Procs == {"server", "cli"}
Fields == {"db_password", "restic_password_file"}

\* New's migrations in order; "staging" stands for four columns to be dropped.
Steps == <<"display_name", "icon", "secrets", "wp_ssh_key", "staging",
           "progress_percent", "snapshot_id">>
Columns == {Steps[n] : n \in DOMAIN Steps} \ {"secrets"}
InitSchema == Columns \ {"staging", "snapshot_id"}

\* A secret: which one, and the key it is sealed with.
Secret == [v: {"old", "new"}, seal: {None} \cup Keys]
Row == [there: BOOLEAN, secret: [Fields -> Secret], sshKey: {"null", "sealed"}]

Down == 0
WritingKey == 1
First == 2
Serving == First + Len(Steps)

\* checked: the step has read what it depends on; plain: the fields found in
\* plain, by site.
Proc == [at: Down .. Serving, checked: BOOLEAN, key: {None} \cup Keys,
         plain: [Sites -> SUBSET Fields]]
NoPlain == [s \in Sites |-> {}]
Ended == [at |-> Down, checked |-> FALSE, key |-> None, plain |-> NoPlain]
Running(k) == [Ended EXCEPT !.at = First, !.key = k]

Step(p) == IF proc[p].at \in First .. Serving - 1 THEN Steps[proc[p].at - First + 1] ELSE "none"
Advance(p) == proc' = [proc EXCEPT ![p].at = @ + 1, ![p].checked = FALSE]
Exit(p) == proc' = [proc EXCEPT ![p] = Ended]
Event == events < MaxEvents /\ events' = events + 1

Serves == proc["server"].at = Serving

----------------------------------------------------------------------------
(* ensureEncryptionKey. *)

\* A configured key wins, then the one in the file.
StartServer ==
  /\ proc["server"].at = Down
  /\ env \/ keyfile \in Generated
  /\ proc' = [proc EXCEPT !["server"] = Running(IF env THEN Configured ELSE keyfile)]
  /\ UNCHANGED <<env, keyfile, columns, rows, given, rekeyed, crossed, events>>

\* Otherwise one is generated, which nobody has.  WriteFile truncates first.
Unseen ==
  Generated \ ({keyfile} \cup {proc[p].key : p \in Procs}
                 \cup {rows[s].secret[f].seal : s \in Sites, f \in Fields})

GenerateKey ==
  /\ proc["server"].at = Down
  /\ ~env /\ keyfile \notin Generated
  /\ \E k \in Unseen : proc' = [proc EXCEPT !["server"] = [Running(k) EXCEPT !.at = WritingKey]]
  /\ keyfile' = "empty"
  /\ UNCHANGED <<env, columns, rows, given, rekeyed, crossed, events>>

\* Mutant: the key is used and not kept.
WriteNoKey ==
  /\ proc["server"].at = WritingKey
  /\ Advance("server")
  /\ UNCHANGED <<env, keyfile, columns, rows, given, rekeyed, crossed, events>>

WriteKey ==
  /\ proc["server"].at = WritingKey
  /\ keyfile' = proc["server"].key
  /\ Advance("server")
  /\ UNCHANGED <<env, columns, rows, given, rekeyed, crossed, events>>

\* The command line has the server's configuration or none, and never looks
\* at the file.
StartCli ==
  /\ proc["cli"].at = Down /\ Event
  /\ \E k \in {Legacy} \cup (IF env THEN {Configured} ELSE {}) :
       proc' = [proc EXCEPT !["cli"] = Running(k)]
  /\ UNCHANGED <<env, keyfile, columns, rows, given, rekeyed, crossed>>

----------------------------------------------------------------------------
(* The schema. *)

\* What the step wants is there already.
Fits(c) == IF c = "staging" THEN c \notin columns ELSE c \in columns

\* Mutant: the columns are altered without a look.
CheckNothing(p) ==
  /\ Step(p) \in Columns /\ ~proc[p].checked
  /\ proc' = [proc EXCEPT ![p].checked = TRUE]
  /\ UNCHANGED <<env, keyfile, columns, rows, given, rekeyed, crossed, events>>

CheckColumn(p) ==
  /\ Step(p) \in Columns /\ ~proc[p].checked
  /\ IF Fits(Step(p)) THEN Advance(p) ELSE proc' = [proc EXCEPT ![p].checked = TRUE]
  /\ UNCHANGED <<env, keyfile, columns, rows, given, rekeyed, crossed, events>>

AlterTable(p) ==
  /\ Step(p) \in Columns /\ proc[p].checked /\ ~Fits(Step(p))
  /\ columns' = IF Step(p) = "staging" THEN columns \ {"staging"} ELSE columns \cup {Step(p)}
  /\ Advance(p)
  /\ UNCHANGED <<env, keyfile, rows, given, rekeyed, crossed, events>>

\* The other process was faster, and the statement fails.
AlterFails(p) ==
  /\ Step(p) \in Columns /\ proc[p].checked /\ Fits(Step(p))
  /\ Exit(p)
  /\ UNCHANGED <<env, keyfile, columns, rows, given, rekeyed, crossed, events>>

----------------------------------------------------------------------------
(* The secrets. *)

ReadSecrets(p) ==
  /\ Step(p) = "secrets" /\ ~proc[p].checked
  /\ proc' = [proc EXCEPT ![p].checked = TRUE,
                          ![p].plain = [s \in Sites |-> IF rows[s].there
                             THEN {f \in Fields : rows[s].secret[f].seal = None} ELSE {}]]
  /\ UNCHANGED <<env, keyfile, columns, rows, given, rekeyed, crossed, events>>

\* Mutant: one field of a row that has two.
SealOne(p, s) ==
  /\ Step(p) = "secrets" /\ proc[p].plain[s] # {}
  /\ \E f \in proc[p].plain[s] :
       rows' = [rows EXCEPT ![s].secret[f] = [v |-> "old", seal |-> proc[p].key]]
  /\ proc' = [proc EXCEPT ![p].plain[s] = {}]
  /\ UNCHANGED <<env, keyfile, columns, given, rekeyed, crossed, events>>

\* One statement for the fields of a row.  They get what was read.
SealRow(p, s) ==
  /\ Step(p) = "secrets" /\ proc[p].plain[s] # {}
  /\ rows' = [rows EXCEPT ![s].secret = [f \in Fields |->
                IF f \in proc[p].plain[s] THEN [v |-> "old", seal |-> proc[p].key] ELSE @[f]]]
  /\ proc' = [proc EXCEPT ![p].plain[s] = {}]
  /\ UNCHANGED <<env, keyfile, columns, given, rekeyed, crossed, events>>

SecretsDone(p) ==
  /\ Step(p) = "secrets" /\ proc[p].checked
  /\ \A s \in Sites : proc[p].plain[s] = {}
  /\ Advance(p)
  /\ UNCHANGED <<env, keyfile, columns, rows, given, rekeyed, crossed, events>>

----------------------------------------------------------------------------
(* The server at work, and the ends. *)

\* Mutant: an update leaves out a column.
PutSiteHalf(s) ==
  /\ Serves /\ rows[s].there /\ Event
  /\ rows' = [rows EXCEPT ![s].secret["db_password"] = [v |-> "new", seal |-> proc["server"].key],
                          ![s].sshKey = "sealed"]
  /\ given' = [given EXCEPT ![s] = "new"]
  /\ crossed' = (crossed \/ proc["cli"].at # Down)
  /\ UNCHANGED <<env, keyfile, columns, proc, rekeyed>>

\* CreateSite and UpdateSite seal every secret.
PutSite(s) ==
  /\ Serves /\ Event
  /\ rows' = [rows EXCEPT ![s] = [there |-> TRUE, sshKey |-> "sealed",
                secret |-> [f \in Fields |-> [v |-> "new", seal |-> proc["server"].key]]]]
  /\ given' = [given EXCEPT ![s] = "new"]
  /\ crossed' = (crossed \/ proc["cli"].at # Down)
  /\ UNCHANGED <<env, keyfile, columns, proc, rekeyed>>

CliDone ==
  /\ proc["cli"].at = Serving
  /\ Exit("cli")
  /\ UNCHANGED <<env, keyfile, columns, rows, given, rekeyed, crossed, events>>

Crash(p) ==
  /\ proc[p].at # Down /\ Event
  /\ Exit(p)
  /\ UNCHANGED <<env, keyfile, columns, rows, given, rekeyed, crossed>>

Configure ==
  /\ proc["server"].at = Down /\ Event
  /\ env' = ~env
  /\ rekeyed' = TRUE
  /\ UNCHANGED <<keyfile, columns, rows, proc, given, crossed>>

----------------------------------------------------------------------------
\* A new database, one of the version before the SSH key, or one after it.
\* Secrets are in plain or sealed with the default key of that time.
Init ==
  /\ env \in BOOLEAN /\ keyfile = None
  /\ columns \in {InitSchema, {"staging"}, {"staging", "wp_ssh_key"}}
  /\ \E old \in SUBSET (IF columns = InitSchema THEN {} ELSE Sites),
        secrets \in [Sites -> [Fields -> {None, Legacy}]] :
       rows = [s \in Sites |->
                [there  |-> s \in old,
                 secret |-> [f \in Fields |->
                              [v |-> "old", seal |-> IF s \in old THEN secrets[s][f] ELSE None]],
                 sshKey |-> IF "wp_ssh_key" \in columns THEN "sealed" ELSE "null"]]
  /\ proc = [p \in Procs |-> Ended]
  /\ given = [s \in Sites |-> "old"]
  /\ rekeyed = FALSE /\ crossed = FALSE /\ events = 0

Migrate(p) ==
  \/ CheckColumn(p) \/ AlterTable(p) \/ AlterFails(p)
  \/ ReadSecrets(p) \/ (\E s \in Sites : SealRow(p, s)) \/ SecretsDone(p)

Boot == StartServer \/ GenerateKey \/ WriteKey \/ Migrate("server")

Next ==
  \/ Boot \/ StartCli \/ Migrate("cli") \/ CliDone \/ Configure
  \/ \E p \in Procs : Crash(p)
  \/ \E s \in Sites : PutSite(s)

\* docker compose restarts the server ("restart: unless-stopped").
Spec == Init /\ [][Next]_vars
LiveSpec == Spec /\ WF_vars(Boot)

----------------------------------------------------------------------------
(* Properties. *)

TypeOK ==
  /\ env \in BOOLEAN /\ keyfile \in {None, "empty"} \cup Generated
  /\ columns \subseteq Columns
  /\ rows \in [Sites -> Row]
  /\ proc \in [Procs -> Proc]
  /\ given \in [Sites -> {"old", "new"}]
  /\ rekeyed \in BOOLEAN /\ crossed \in BOOLEAN
  /\ events \in Nat

\* decryptSensitive tries its own key, then the default of older versions.
Opens(secret, key) == secret.seal \in {None, Legacy, key}

\* A server that serves can read every secret, whoever sealed it and whatever
\* was cut short before, unless its configuration has changed.
SecretsReadable ==
  Serves /\ ~rekeyed =>
    \A s \in Sites, f \in Fields : rows[s].there => Opens(rows[s].secret[f], proc["server"].key)

\* By then none is left in plain: migration goes on where a crash cut it off.
SecretsSealed ==
  Serves => \A s \in Sites, f \in Fields : rows[s].there => rows[s].secret[f].seal # None

\* Secrets are those the client gave last.  The migration writes what it read,
\* and only that of the command line may have read it before the client wrote.
SecretsKept ==
  ~crossed =>
    \A s \in Sites, f \in Fields : rows[s].there => rows[s].secret[f].v = given[s]

\* However often a start is cut off, or loses a race for a column, the server
\* ends up serving.
EventuallyServes == <>[]Serves

\* A server that serves can read every site it had.  Violated: wp_ssh_key is
\* added without a value, and a row without one cannot be read.
SitesReadable == Serves => \A s \in Sites : rows[s].there => rows[s].sshKey # "null"
=============================================================================
