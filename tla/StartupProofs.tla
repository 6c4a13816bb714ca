---------------------------- MODULE StartupProofs ----------------------------
(***************************************************************************)
(* Proofs about Startup, for any sites, keys and number of crashes: the    *)
(* invariant says of each process what it may know of the secrets where it *)
(* is, and of each secret who can have sealed it.                          *)
(***************************************************************************)
EXTENDS Startup, TLAPS

----------------------------------------------------------------------------
(* The invariant. *)

\* Where a process seals secrets.
Sealing == First + 2

\* The keys that a server of this configuration can have used.
Own == IF env THEN {Configured} ELSE {keyfile} \cap Generated

Keyed(o) == o.at # Down => o.key \in Keys

\* A server is the only one to write its key, and its configuration stays.
ServerKeyed(o) ==
  /\ o.at = WritingKey => ~env /\ keyfile = "empty" /\ o.key \in Generated
  /\ o.at >= First => o.key \in Own

CliKeyed(o) ==
  ~rekeyed /\ o.at # Down => o.key \in {Legacy} \cup (IF env THEN {Configured} ELSE {})

\* What a process has still to seal, and only where it seals: fields of rows
\* that no client has written, unless the command line ran at that time.
Busy(o) == \A s \in Sites : o.plain[s] # {} => o.at = Sealing /\ o.checked
Honest(o) ==
  \A s \in Sites : o.plain[s] # {} => rows[s].there /\ (~crossed => given[s] = "old")

\* What is in plain has been seen by a process that has looked, and is no more
\* when it goes on.
Seen(o) ==
  o.at = Sealing /\ o.checked =>
    \A s \in Sites, f \in Fields :
      rows[s].there /\ rows[s].secret[f].seal = None => f \in o.plain[s]
Passed(o) ==
  o.at > Sealing =>
    \A s \in Sites, f \in Fields : rows[s].there => rows[s].secret[f].seal # None

Good(p, o) ==
  /\ Keyed(o) /\ Busy(o) /\ Honest(o) /\ Seen(o) /\ Passed(o)
  /\ p = "server" => ServerKeyed(o)
  /\ p = "cli" => CliKeyed(o)

\* A secret in plain is from before; a sealed one, from this configuration.
Aged == \A s \in Sites, f \in Fields : rows[s].secret[f].seal = None => rows[s].secret[f].v = "old"
Owned ==
  ~rekeyed =>
    \A s \in Sites, f \in Fields :
      rows[s].there => rows[s].secret[f].seal \in {None, Legacy} \cup Own

IInv == TypeOK /\ SecretsKept /\ Aged /\ Owned /\ \A p \in Procs : Good(p, proc[p])

----------------------------------------------------------------------------
(* Places. *)

LEMMA Numbers == Down = 0 /\ WritingKey = 1 /\ First = 2 /\ Serving = 9 /\ Sealing = 4
BY DEF Down, WritingKey, First, Serving, Sealing, Steps

\* Where a step is.
LEMMA Places ==
  ASSUME NEW p \in Procs, proc \in [Procs -> Proc]
  PROVE  /\ Step(p) = "secrets" <=> proc[p].at = Sealing
         /\ Step(p) \in Columns => proc[p].at \in (First .. Serving - 1) \ {Sealing}
<1>1. PICK n \in 0 .. 9 : n = proc[p].at
  BY Numbers DEF Proc
<1>2. /\ Step(p) = IF n \in 2 .. 8 THEN Steps[n - 1] ELSE "none"
      /\ \A i \in 1 .. 7 : Steps[i] = "secrets" <=> i = 3
  BY <1>1, Numbers DEF Step, Steps
<1>3. DOMAIN Steps = 1 .. 7
  BY DEF Steps
<1>4. "none" \notin Columns
  BY <1>3 DEF Columns, Steps
<1>5. n \in 2 .. 8 => n - 1 \in 1 .. 7 /\ (n - 1 = 3 <=> n = 4)
  OBVIOUS
<1>6. "secrets" \notin Columns
  BY DEF Columns
<1>7. Step(p) = "secrets" <=> n = 4
  BY <1>2, <1>5
<1>8. QED
  BY <1>1, <1>2, <1>4, <1>6, <1>7, Numbers

\* What Advance makes of a process that was not at its end.
LEMMA Advanced ==
  ASSUME NEW p \in Procs, proc \in [Procs -> Proc], proc[p].at < Serving, Advance(p)
  PROVE  \E o \in Proc : /\ proc' = [proc EXCEPT ![p] = o]
                         /\ o.at = proc[p].at + 1 /\ o.checked = FALSE
                         /\ o.key = proc[p].key /\ o.plain = proc[p].plain
<1>1. PICK b \in 0 .. 9 : b = proc[p].at + 1
  BY Numbers DEF Proc
<1>2. PICK o : o = [proc[p] EXCEPT !.at = b, !.checked = FALSE]
  OBVIOUS
<1>3. o \in Proc
  BY <1>2, Numbers DEF Proc
<1>4. proc' = [proc EXCEPT ![p] = o]
  BY <1>1, <1>2 DEF Advance
<1>5. o.at = b /\ o.checked = FALSE /\ o.key = proc[p].key /\ o.plain = proc[p].plain
  BY <1>2 DEF Proc
<1>6. QED
  BY <1>1, <1>3, <1>4, <1>5

----------------------------------------------------------------------------
(* Steps that change no more than a process and the schema. *)

LEMMA Shifts ==
  ASSUME IInv, NEW p \in Procs, NEW o \in Proc, proc' = [proc EXCEPT ![p] = o],
         UNCHANGED <<env, keyfile, rows, given, rekeyed, crossed>>,
         columns' \subseteq Columns, events' \in Nat, Good(p, o)
  PROVE  IInv'
<1>1. TypeOK'
  BY DEF IInv, TypeOK
<1>2. SecretsKept' /\ Aged' /\ Owned'
  BY DEF IInv, SecretsKept, Aged, Owned, Own
<1>3. ASSUME NEW q \in Procs PROVE Good(q, proc[q])'
  <2>1. PICK r \in Proc : r = proc'[q] /\ Good(q, r)
    BY DEF IInv, TypeOK
  <2>2. Good(q, r)'
    BY <2>1
    DEF Good, Keyed, ServerKeyed, CliKeyed, Busy, Honest, Seen, Passed, Own
  <2>3. QED
    BY <2>1, <2>2
    DEF Good, Keyed, ServerKeyed, CliKeyed, Busy, Honest, Seen, Passed, Own
<1>4. QED
  BY <1>1, <1>2, <1>3 DEF IInv

LEMMA EndedIsGood == \A p \in Procs : Ended \in Proc /\ Good(p, Ended)
<1>1. Ended \in Proc
  BY Numbers DEF Ended, Proc, NoPlain
<1>2. Ended.at = Down /\ \A s \in Sites : Ended.plain[s] = {}
  BY DEF Ended, NoPlain
<1>3. QED
  BY <1>1, <1>2, Numbers
  DEF Good, Keyed, ServerKeyed, CliKeyed, Busy, Honest, Seen, Passed

LEMMA ExitKeeps ==
  ASSUME IInv, NEW p \in Procs, Exit(p),
         UNCHANGED <<env, keyfile, columns, rows, given, rekeyed, crossed>>, events' \in Nat
  PROVE  IInv'
<1>1. PICK o \in Proc : o = Ended /\ Good(p, o)
  BY EndedIsGood
<1>2. columns' \subseteq Columns
  BY DEF IInv, TypeOK
<1>3. QED
  BY <1>1, <1>2, Shifts DEF Exit

\* A process goes on from anywhere but where it seals.
LEMMA AdvanceKeeps ==
  ASSUME IInv, NEW p \in Procs, Advance(p),
         UNCHANGED <<env, keyfile, rows, given, rekeyed, crossed>>,
         columns' \subseteq Columns, events' \in Nat,
         proc[p].at \in First .. Serving - 1,
         proc[p].at = Sealing => proc[p].checked /\ \A s \in Sites : proc[p].plain[s] = {}
  PROVE  IInv'
<1>1. proc \in [Procs -> Proc] /\ proc[p] \in Proc /\ Good(p, proc[p])
  BY DEF IInv, TypeOK
<1>2. PICK a \in 0 .. 9 : a = proc[p].at /\ a < 9 /\ a >= 2
  BY <1>1, Numbers DEF Proc
<1>3. PICK o \in Proc : /\ proc' = [proc EXCEPT ![p] = o]
                        /\ o.at = a + 1 /\ o.checked = FALSE
                        /\ o.key = proc[p].key /\ o.plain = proc[p].plain
  BY <1>1, <1>2, Advanced, Numbers
<1>4. \A s \in Sites : o.plain[s] = {}
  BY <1>1, <1>2, <1>3 DEF Good, Busy
<1>5. a > Sealing \/ a = Sealing \/ a < Sealing
  BY <1>2, Numbers
<1>6. Keyed(o) /\ Busy(o) /\ Honest(o) /\ Seen(o)
  BY <1>1, <1>2, <1>3, <1>4, Numbers DEF Good, Keyed, Busy, Honest, Seen
<1>7. Passed(o)
  <2>1. CASE a > Sealing
    BY <1>1, <1>2, <2>1 DEF Good, Passed
  <2>2. CASE a = Sealing
    BY <1>1, <1>2, <1>3, <1>4, <2>2 DEF Good, Seen, Passed
  <2>3. CASE a < Sealing
    BY <1>2, <1>3, <2>3, Numbers DEF Passed
  <2>4. QED
    BY <1>5, <2>1, <2>2, <2>3
<1>8. (p = "server" => ServerKeyed(o)) /\ (p = "cli" => CliKeyed(o))
  BY <1>1, <1>2, <1>3, Numbers DEF Good, ServerKeyed, CliKeyed
<1>9. QED
  BY <1>3, <1>6, <1>7, <1>8, Shifts DEF Good

LEMMA SchemaKeeps ==
  ASSUME IInv, NEW p \in Procs, CheckColumn(p) \/ AlterTable(p) \/ AlterFails(p)
  PROVE  IInv'
<1>1. /\ proc \in [Procs -> Proc] /\ proc[p] \in Proc /\ Good(p, proc[p])
      /\ Step(p) \in Columns
      /\ UNCHANGED <<env, keyfile, rows, given, rekeyed, crossed>> /\ events' \in Nat
      /\ columns' \subseteq Columns
  BY DEF IInv, TypeOK, CheckColumn, AlterTable, AlterFails
<1>2. proc[p].at \in (First .. Serving - 1) \ {Sealing}
  BY <1>1, Places
<1>3. CASE Advance(p)
  BY <1>1, <1>2, <1>3, AdvanceKeeps
<1>4. CASE AlterFails(p)
  BY <1>1, <1>4, ExitKeeps DEF AlterFails
<1>5. CASE CheckColumn(p) /\ proc' = [proc EXCEPT ![p].checked = TRUE]
  <2>1. PICK o : o = [proc[p] EXCEPT !.checked = TRUE]
    OBVIOUS
  <2>2. /\ o \in Proc /\ o.at = proc[p].at /\ o.key = proc[p].key /\ o.plain = proc[p].plain
    BY <1>1, <2>1 DEF Proc
  <2>3. proc' = [proc EXCEPT ![p] = o]
    BY <1>5, <2>1
  <2>4. Good(p, o)
    BY <1>1, <1>2, <2>2
    DEF Good, Keyed, ServerKeyed, CliKeyed, Busy, Honest, Seen, Passed
  <2>5. QED
    BY <1>1, <2>2, <2>3, <2>4, Shifts
<1>6. QED
  BY <1>3, <1>4, <1>5 DEF CheckColumn, AlterTable, AlterFails

LEMMA ReadSecretsKeeps ==
  ASSUME IInv, NEW p \in Procs, ReadSecrets(p)
  PROVE  IInv'
<1>1. /\ proc \in [Procs -> Proc] /\ proc[p] \in Proc /\ Good(p, proc[p])
      /\ UNCHANGED <<env, keyfile, rows, given, rekeyed, crossed>> /\ events' \in Nat
      /\ columns' \subseteq Columns
  BY DEF IInv, TypeOK, ReadSecrets
<1>2. proc[p].at = Sealing
  BY <1>1, Places DEF ReadSecrets
<1>3. PICK w \in [Sites -> SUBSET Fields] :
        w = [s \in Sites |-> IF rows[s].there
              THEN {f \in Fields : rows[s].secret[f].seal = None} ELSE {}]
  OBVIOUS
<1>4. PICK o : o = [proc[p] EXCEPT !.checked = TRUE, !.plain = w]
  OBVIOUS
<1>5. o \in Proc /\ o.at = Sealing /\ o.key = proc[p].key /\ o.plain = w /\ o.checked = TRUE
  BY <1>1, <1>2, <1>4 DEF Proc
<1>6. proc' = [proc EXCEPT ![p] = o]
  BY <1>3, <1>4 DEF ReadSecrets
<1>7. ASSUME NEW s \in Sites, w[s] # {}
      PROVE  rows[s].there /\ (~crossed => given[s] = "old")
  <2>1. PICK f \in Fields : rows[s].there /\ rows[s].secret[f].seal = None
    BY <1>3, <1>7
  <2>2. rows[s].secret[f].v = "old"
    BY <2>1 DEF IInv, Aged
  <2>3. QED
    BY <2>1, <2>2 DEF IInv, SecretsKept
<1>8. Honest(o) /\ Busy(o) /\ Seen(o)
  BY <1>3, <1>5, <1>7 DEF Honest, Busy, Seen
<1>9. Good(p, o)
  BY <1>1, <1>2, <1>5, <1>8, Numbers DEF Good, Keyed, ServerKeyed, CliKeyed, Passed
<1>10. QED
  BY <1>1, <1>5, <1>6, <1>9, Shifts

LEMMA EndsKeep ==
  ASSUME IInv, NEW p \in Procs, SecretsDone(p) \/ Crash(p) \/ (p = "cli" /\ CliDone)
  PROVE  IInv'
<1>1. /\ UNCHANGED <<env, keyfile, columns, rows, given, rekeyed, crossed>> /\ events' \in Nat
      /\ columns' \subseteq Columns /\ proc \in [Procs -> Proc]
  BY DEF IInv, TypeOK, SecretsDone, Crash, CliDone, Event
<1>2. CASE SecretsDone(p)
  <2>1. proc[p].at = Sealing /\ Sealing \in First .. Serving - 1
    BY <1>1, <1>2, Places, Numbers DEF SecretsDone
  <2>2. QED
    BY <1>1, <1>2, <2>1, AdvanceKeeps DEF SecretsDone
<1>3. CASE Exit(p)
  BY <1>1, <1>3, ExitKeeps
<1>4. QED
  BY <1>2, <1>3 DEF Crash, CliDone

----------------------------------------------------------------------------
(* A process starts. *)

LEMMA RunningIs ==
  ASSUME NEW k \in Keys
  PROVE  /\ Running(k) \in Proc /\ Running(k).at = First /\ Running(k).key = k
         /\ \A s \in Sites : Running(k).plain[s] = {}
<1>1. PICK e \in Proc : e = Ended /\ \A s \in Sites : e.plain[s] = {}
  <2>1. \A s \in Sites : Ended.plain[s] = {}
    BY DEF Ended, NoPlain
  <2>2. Ended \in Proc
    BY Numbers DEF Ended, NoPlain, Proc
  <2>3. QED
    BY <2>1, <2>2
<1>2. PICK o : o = [e EXCEPT !.at = First, !.key = k]
  OBVIOUS
<1>3. o \in Proc /\ o.at = First /\ o.key = k /\ o.plain = e.plain
  <2>1. First \in Down .. Serving
    BY Numbers
  <2>2. QED
    BY <1>2, <2>1 DEF Proc
<1>4. o = Running(k)
  BY <1>1, <1>2 DEF Running
<1>5. QED
  BY <1>1, <1>3, <1>4

LEMMA StartKeeps ==
  ASSUME IInv, StartServer \/ StartCli
  PROVE  IInv'
<1>1. /\ UNCHANGED <<env, keyfile, rows, given, rekeyed, crossed>> /\ events' \in Nat
      /\ columns' \subseteq Columns
  BY DEF IInv, TypeOK, StartServer, StartCli, Event
<1>2. PICK p \in Procs, k \in Keys :
        /\ proc' = [proc EXCEPT ![p] = Running(k)]
        /\ p = "server" => k \in Own
        /\ p = "cli" => k \in {Legacy} \cup (IF env THEN {Configured} ELSE {})
  <2>1. CASE StartServer
    BY <2>1 DEF StartServer, Own, Procs, Keys
  <2>2. CASE StartCli
    BY <2>2 DEF StartCli, Procs, Keys
  <2>3. QED
    BY <2>1, <2>2
<1>3. PICK o \in Proc : /\ o = Running(k) /\ o.at = First /\ o.key = k
                        /\ \A s \in Sites : o.plain[s] = {}
  BY RunningIs
<1>4. Good(p, o)
  BY <1>2, <1>3, Numbers
  DEF Good, Keyed, ServerKeyed, CliKeyed, Busy, Honest, Seen, Passed, Procs
<1>5. QED
  BY <1>1, <1>2, <1>3, <1>4, Shifts

\* The server's key: neither the rows nor the command line depend on the file
\* before it holds a key.
LEMMA KeyKeeps ==
  ASSUME IInv, GenerateKey \/ WriteKey
  PROVE  IInv'
<1>1. /\ UNCHANGED <<env, columns, rows, given, rekeyed, crossed, events>>
      /\ proc \in [Procs -> Proc] /\ "server" \in Procs /\ "cli" \in Procs
      /\ proc["server"] \in Proc /\ Good("server", proc["server"]) /\ Good("cli", proc["cli"])
  BY DEF IInv, TypeOK, GenerateKey, WriteKey, Procs
<1>2. ~env /\ keyfile \notin Generated
  BY <1>1, KeysAssumption, Numbers DEF GenerateKey, WriteKey, Good, ServerKeyed
<1>3. PICK o \in Proc, file \in {"empty"} \cup Generated :
        /\ proc' = [proc EXCEPT !["server"] = o] /\ keyfile' = file
        /\ o.key \in Generated /\ \A s \in Sites : o.plain[s] = {}
        /\ \/ o.at = WritingKey /\ file = "empty"
           \/ o.at = First /\ file = o.key
  <2>1. CASE GenerateKey
    <3>1. PICK k \in Unseen :
            proc' = [proc EXCEPT !["server"] = [Running(k) EXCEPT !.at = WritingKey]]
      BY <2>1 DEF GenerateKey
    <3>2. k \in Generated /\ k \in Keys
      BY <3>1 DEF Unseen, Keys
    <3>3. PICK r \in Proc : r = Running(k) /\ r.key = k /\ \A s \in Sites : r.plain[s] = {}
      BY <3>2, RunningIs
    <3>4. PICK o : o = [r EXCEPT !.at = WritingKey]
      OBVIOUS
    <3>5. o \in Proc /\ o.at = WritingKey /\ o.key = k /\ o.plain = r.plain
      BY <3>3, <3>4, Numbers DEF Proc
    <3>6. proc' = [proc EXCEPT !["server"] = o] /\ keyfile' = "empty"
      BY <2>1, <3>1, <3>3, <3>4 DEF GenerateKey
    <3>7. QED
      BY <3>2, <3>3, <3>5, <3>6
  <2>2. CASE WriteKey
    <3>1. proc["server"].at = WritingKey /\ Advance("server") /\ keyfile' = proc["server"].key
      BY <2>2 DEF WriteKey
    <3>2. proc["server"].key \in Generated
      BY <1>1, <3>1 DEF Good, ServerKeyed
    <3>3. PICK o \in Proc : /\ proc' = [proc EXCEPT !["server"] = o]
                            /\ o.at = proc["server"].at + 1
                            /\ o.key = proc["server"].key /\ o.plain = proc["server"].plain
      <4>1. proc["server"].at < Serving
        BY <3>1, Numbers
      <4>2. QED
        BY <1>1, <3>1, <4>1, Advanced
    <3>4. \A s \in Sites : o.plain[s] = {}
      BY <1>1, <3>1, <3>3, Numbers DEF Good, Busy
    <3>5. o.at = First
      BY <3>1, <3>3, Numbers
    <3>6. QED
      BY <3>1, <3>2, <3>3, <3>4, <3>5
  <2>3. QED
    BY <2>1, <2>2
<1>4. TypeOK'
  BY <1>1, <1>3 DEF IInv, TypeOK
<1>5. SecretsKept' /\ Aged'
  BY <1>1 DEF IInv, SecretsKept, Aged
<1>6. Owned'
  BY <1>1, <1>2 DEF IInv, Owned, Own
<1>7. Good("server", o)'
  BY <1>1, <1>2, <1>3, Numbers
  DEF Good, Keyed, ServerKeyed, Busy, Honest, Seen, Passed, Own, Keys
<1>8. proc'["server"] = o /\ proc'["cli"] = proc["cli"]
  BY <1>1, <1>3
<1>9. Good("cli", proc["cli"])'
  BY <1>1, <1>8
  DEF Good, Keyed, CliKeyed, Busy, Honest, Seen, Passed
<1>10. Good("server", proc["server"])'
  BY <1>7, <1>8
  DEF Good, Keyed, ServerKeyed, Busy, Honest, Seen, Passed, Own
<1>11. QED
  BY <1>4, <1>5, <1>6, <1>9, <1>10 DEF IInv, Procs

LEMMA ConfigureKeeps ==
  ASSUME IInv, Configure
  PROVE  IInv'
<1>1. /\ UNCHANGED <<keyfile, columns, rows, proc, given, crossed>> /\ rekeyed' = TRUE
      /\ env' \in BOOLEAN /\ events' \in Nat /\ proc["server"].at = Down
  BY DEF IInv, TypeOK, Configure, Event
<1>2. TypeOK' /\ SecretsKept' /\ Aged' /\ Owned'
  BY <1>1 DEF IInv, TypeOK, SecretsKept, Aged, Owned
<1>3. ASSUME NEW p \in Procs PROVE Good(p, proc[p])'
  BY <1>1, Numbers
  DEF IInv, Good, Keyed, ServerKeyed, CliKeyed, Busy, Honest, Seen, Passed
<1>4. QED
  BY <1>2, <1>3 DEF IInv

----------------------------------------------------------------------------
(* Rows change. *)

\* What SealRow does to the rows and to its process.
LEMMA Sealed ==
  ASSUME IInv, NEW p \in Procs, NEW s \in Sites, SealRow(p, s)
  PROVE  \E o \in Proc :
           /\ proc' = [proc EXCEPT ![p] = o]
           /\ o.at = Sealing /\ o.checked = proc[p].checked /\ o.key = proc[p].key
           /\ o.plain[s] = {} /\ \A t \in Sites : t # s => o.plain[t] = proc[p].plain[t]
           /\ rows' \in [Sites -> Row]
           /\ \A t \in Sites : rows'[t].there = rows[t].there
           /\ \A t \in Sites, f \in Fields :
                IF t = s /\ f \in proc[p].plain[s]
                THEN rows'[t].secret[f].v = "old" /\ rows'[t].secret[f].seal = proc[p].key
                ELSE rows'[t].secret[f] = rows[t].secret[f]
<1>1. /\ proc \in [Procs -> Proc] /\ proc[p] \in Proc /\ rows \in [Sites -> Row]
      /\ Good(p, proc[p]) /\ Step(p) = "secrets" /\ proc[p].plain[s] # {}
  BY DEF IInv, TypeOK, SealRow
<1>2. proc[p].at = Sealing /\ proc[p].key \in Keys
  BY <1>1, Places, Numbers DEF Good, Keyed
<1>3. PICK w \in [Sites -> SUBSET Fields] : w = [proc[p].plain EXCEPT ![s] = {}]
  BY <1>1 DEF Proc
<1>4. PICK o : o = [proc[p] EXCEPT !.plain = w]
  OBVIOUS
<1>5. /\ o \in Proc /\ o.at = Sealing /\ o.checked = proc[p].checked
      /\ o.key = proc[p].key /\ o.plain = w
  BY <1>1, <1>2, <1>4 DEF Proc
<1>6. proc' = [proc EXCEPT ![p] = o]
  BY <1>1, <1>3, <1>4 DEF SealRow
<1>7. w[s] = {} /\ \A t \in Sites : t # s => w[t] = proc[p].plain[t]
  BY <1>1, <1>3 DEF Proc
<1>8. PICK k \in Keys, x \in [Fields -> Secret] :
        /\ k = proc[p].key
        /\ x = [f \in Fields |-> IF f \in proc[p].plain[s] THEN [v |-> "old", seal |-> k]
                                  ELSE rows[s].secret[f]]
  <2>1. PICK k \in Keys : k = proc[p].key
    BY <1>2
  <2>2. \A f \in Fields : rows[s].secret[f] \in Secret
    BY <1>1 DEF Row
  <2>3. [v |-> "old", seal |-> k] \in Secret
    BY DEF Secret
  <2>4. QED
    BY <2>1, <2>2, <2>3
<1>9. PICK y : y = [rows[s] EXCEPT !.secret = x]
  OBVIOUS
<1>10. y \in Row /\ y.there = rows[s].there /\ y.secret = x
  BY <1>1, <1>9 DEF Row
<1>11. rows' = [rows EXCEPT ![s] = y]
  BY <1>1, <1>8, <1>9 DEF SealRow
<1>12. rows' \in [Sites -> Row] /\ \A t \in Sites : rows'[t].there = rows[t].there
  BY <1>1, <1>10, <1>11
<1>13. ASSUME NEW t \in Sites, NEW f \in Fields
       PROVE  IF t = s /\ f \in proc[p].plain[s]
              THEN rows'[t].secret[f].v = "old" /\ rows'[t].secret[f].seal = proc[p].key
              ELSE rows'[t].secret[f] = rows[t].secret[f]
  <2>1. CASE t = s
    <3>1. rows'[t].secret[f] = x[f]
      BY <1>1, <1>10, <1>11, <2>1
    <3>2. QED
      BY <1>8, <2>1, <3>1
  <2>2. CASE t # s
    BY <1>1, <1>11, <2>2
  <2>3. QED
    BY <2>1, <2>2
<1>14. QED
  BY <1>5, <1>6, <1>7, <1>12, <1>13

LEMMA SealRowKeeps ==
  ASSUME IInv, NEW p \in Procs, NEW s \in Sites, SealRow(p, s)
  PROVE  IInv'
<1>1. /\ UNCHANGED <<env, keyfile, columns, given, rekeyed, crossed, events>>
      /\ proc \in [Procs -> Proc] /\ proc[p] \in Proc /\ Good(p, proc[p])
      /\ proc[p].plain[s] # {}
  BY DEF IInv, TypeOK, SealRow
<1>2. PICK o \in Proc :
        /\ proc' = [proc EXCEPT ![p] = o]
        /\ o.at = Sealing /\ o.checked = proc[p].checked /\ o.key = proc[p].key
        /\ o.plain[s] = {} /\ \A t \in Sites : t # s => o.plain[t] = proc[p].plain[t]
        /\ rows' \in [Sites -> Row]
        /\ \A t \in Sites : rows'[t].there = rows[t].there
        /\ \A t \in Sites, f \in Fields :
             IF t = s /\ f \in proc[p].plain[s]
             THEN rows'[t].secret[f].v = "old" /\ rows'[t].secret[f].seal = proc[p].key
             ELSE rows'[t].secret[f] = rows[t].secret[f]
  BY Sealed
<1>3. /\ proc[p].at = Sealing /\ proc[p].checked /\ proc[p].key \in Keys /\ proc[p].key # None
      /\ rows[s].there /\ (~crossed => given[s] = "old")
  BY <1>1, KeysAssumption, Numbers DEF Good, Keyed, Busy, Honest, Keys
<1>4. ~rekeyed => proc[p].key \in {Legacy} \cup Own
  BY <1>1, <1>3, Numbers DEF Good, ServerKeyed, CliKeyed, Own, Procs
<1>5. TypeOK'
  BY <1>1, <1>2 DEF IInv, TypeOK
<1>6. SecretsKept'
  <2> SUFFICES ASSUME ~crossed, NEW t \in Sites, NEW f \in Fields, rows'[t].there
               PROVE  rows'[t].secret[f].v = given[t]
    BY <1>1 DEF SecretsKept
  <2>1. rows[t].there /\ rows[t].secret[f].v = given[t]
    BY <1>2 DEF IInv, SecretsKept
  <2>2. CASE t = s /\ f \in proc[p].plain[s]
    BY <1>2, <1>3, <2>2
  <2>3. CASE ~(t = s /\ f \in proc[p].plain[s])
    BY <1>2, <2>1, <2>3
  <2>4. QED
    BY <2>2, <2>3
<1>7. Aged'
  BY <1>2 DEF IInv, Aged
<1>8. Owned'
  <2> SUFFICES ASSUME ~rekeyed, NEW t \in Sites, NEW f \in Fields, rows'[t].there
               PROVE  rows'[t].secret[f].seal \in {None, Legacy} \cup Own
    BY <1>1 DEF Owned, Own
  <2>1. rows[t].secret[f].seal \in {None, Legacy} \cup Own
    BY <1>2 DEF IInv, Owned
  <2>2. QED
    BY <1>2, <1>4, <2>1
<1>9. \A t \in Sites, f \in Fields :
        rows'[t].there /\ rows'[t].secret[f].seal = None =>
          rows[t].there /\ rows[t].secret[f].seal = None /\ ~(t = s /\ f \in proc[p].plain[s])
  BY <1>2, <1>3
<1>10. ASSUME NEW q \in Procs PROVE Good(q, proc[q])'
  <2>1. CASE q = p
    <3>1. proc'[q] = o
      BY <1>1, <1>2, <2>1
    <3>2. \A t \in Sites : o.plain[t] # {} => proc[p].plain[t] # {}
      BY <1>2
    <3>3. Keyed(o) /\ Busy(o) /\ (p = "server" => ServerKeyed(o)) /\ (p = "cli" => CliKeyed(o))
      BY <1>1, <1>2, <1>3, Numbers DEF Good, Keyed, Busy, ServerKeyed, CliKeyed
    <3>4. \A t \in Sites : o.plain[t] # {} => rows'[t].there /\ (~crossed => given[t] = "old")
      BY <1>1, <1>2, <3>2 DEF Good, Honest
    <3>5. \A t \in Sites, f \in Fields :
            rows'[t].there /\ rows'[t].secret[f].seal = None => f \in o.plain[t]
      BY <1>1, <1>2, <1>3, <1>9 DEF Good, Seen
    <3>6. QED
      BY <1>1, <1>2, <2>1, <3>1, <3>3, <3>4, <3>5, Numbers
      DEF Good, Keyed, Busy, ServerKeyed, CliKeyed, Honest, Seen, Passed, Own
  <2>2. CASE q # p
    <3>1. proc'[q] = proc[q] /\ Good(q, proc[q])
      BY <1>1, <1>2, <2>2 DEF IInv
    <3>2. Seen(proc[q])' /\ Passed(proc[q])'
      BY <1>9, <3>1 DEF Good, Seen, Passed
    <3>3. Honest(proc[q])'
      BY <1>1, <1>2, <3>1 DEF Good, Honest
    <3>4. QED
      BY <1>1, <3>1, <3>2, <3>3 DEF Good, Keyed, Busy, ServerKeyed, CliKeyed, Own
  <2>3. QED
    BY <2>1, <2>2
<1>11. QED
  BY <1>5, <1>6, <1>7, <1>8, <1>10 DEF IInv

LEMMA PutSiteKeeps ==
  ASSUME IInv, NEW s \in Sites, PutSite(s)
  PROVE  IInv'
<1>1. /\ UNCHANGED <<env, keyfile, columns, proc, rekeyed>> /\ events' \in Nat
      /\ proc \in [Procs -> Proc] /\ "server" \in Procs /\ "cli" \in Procs
      /\ Good("server", proc["server"]) /\ Good("cli", proc["cli"])
      /\ proc["server"].at = Serving
      /\ given' = [given EXCEPT ![s] = "new"] /\ (crossed \/ proc["cli"].at # Down => crossed')
      /\ rows \in [Sites -> Row] /\ crossed' \in BOOLEAN
      /\ given \in [Sites -> {"old", "new"}]
  <2>1. crossed' \in BOOLEAN /\ (crossed \/ proc["cli"].at # Down => crossed')
    <3>1. crossed' = (crossed \/ proc["cli"].at # Down)
      BY DEF PutSite
    <3>2. (crossed \/ proc["cli"].at # Down) \in BOOLEAN
      OBVIOUS
    <3>3. QED
      BY <3>1, <3>2, Zenon
  <2>2. QED
    BY <2>1 DEF IInv, TypeOK, PutSite, Serves, Event, Procs
<1>2. PICK k \in Keys : k = proc["server"].key /\ k # None /\ k \in Own
  BY <1>1, KeysAssumption, Numbers DEF Good, Keyed, ServerKeyed, Keys
<1>3. PICK x \in [Fields -> Secret] :
        \A f \in Fields : x[f] = [v |-> "new", seal |-> k]
  <2>1. [v |-> "new", seal |-> k] \in Secret
    BY DEF Secret
  <2>2. [f \in Fields |-> [v |-> "new", seal |-> k]] \in [Fields -> Secret]
    BY <2>1
  <2>3. QED
    BY <2>2
<1>4. PICK y \in Row : y.there /\ y.secret = x /\ rows' = [rows EXCEPT ![s] = y]
  <2>1. x = [f \in Fields |-> [v |-> "new", seal |-> k]]
    BY <1>3
  <2>2. PICK y : y = [there |-> TRUE, sshKey |-> "sealed", secret |-> x]
    OBVIOUS
  <2>3. y \in Row /\ y.there /\ y.secret = x
    BY <2>2 DEF Row
  <2>4. rows' = [rows EXCEPT ![s] = y]
    BY <1>2, <2>1, <2>2 DEF PutSite
  <2>5. QED
    BY <2>3, <2>4
<1>5. /\ rows'[s].there
      /\ \A f \in Fields : rows'[s].secret[f].v = "new" /\ rows'[s].secret[f].seal = k
      /\ \A t \in Sites : t # s => rows'[t] = rows[t] /\ given'[t] = given[t]
      /\ given'[s] = "new"
  BY <1>1, <1>3, <1>4
<1>6. TypeOK'
  BY <1>1, <1>4 DEF IInv, TypeOK
<1>7. SecretsKept' /\ Aged'
  BY <1>1, <1>2, <1>5 DEF IInv, SecretsKept, Aged
<1>8. Owned'
  BY <1>1, <1>2, <1>5 DEF IInv, Owned, Own
<1>9. Good("server", proc["server"])'
  <2>1. \A t \in Sites : proc["server"].plain[t] = {}
    BY <1>1, Numbers DEF Good, Busy
  <2>2. Passed(proc["server"])'
    BY <1>1, <1>2, <1>5 DEF Good, Passed
  <2>3. QED
    BY <1>1, <2>1, <2>2, Numbers DEF Good, Keyed, ServerKeyed, Busy, Honest, Seen, Own
<1>10. Good("cli", proc["cli"])'
  <2>1. ASSUME NEW t \in Sites, proc["cli"].plain[t] # {} PROVE rows'[t].there /\ crossed'
    BY <1>1, <1>5, <2>1, Numbers DEF Good, Busy, Honest
  <2>2. Seen(proc["cli"])' /\ Passed(proc["cli"])'
    BY <1>1, <1>2, <1>5 DEF Good, Seen, Passed
  <2>3. QED
    BY <1>1, <2>1, <2>2 DEF Good, Keyed, CliKeyed, Busy, Honest
<1>11. QED
  BY <1>6, <1>7, <1>8, <1>9, <1>10 DEF IInv, Procs

----------------------------------------------------------------------------
(* The invariant holds. *)

LEMMA InitHolds == Init => IInv
<1> SUFFICES ASSUME Init PROVE IInv
  OBVIOUS
<1>1. PICK old \in SUBSET Sites, secrets \in [Sites -> [Fields -> {None, Legacy}]] :
        rows = [s \in Sites |->
                 [there  |-> s \in old,
                  secret |-> [f \in Fields |->
                               [v |-> "old", seal |-> IF s \in old THEN secrets[s][f] ELSE None]],
                  sshKey |-> IF "wp_ssh_key" \in columns THEN "sealed" ELSE "null"]]
  BY DEF Init
<1>2. \A s \in Sites, f \in Fields :
        rows[s].secret[f].v = "old" /\ rows[s].secret[f].seal \in {None, Legacy}
  BY <1>1
<1>3. rows \in [Sites -> Row]
  <2> SUFFICES ASSUME NEW s \in Sites PROVE rows[s] \in Row
    BY <1>1
  <2>1. PICK x : x = [f \in Fields |->
                       [v |-> "old", seal |-> IF s \in old THEN secrets[s][f] ELSE None]]
    OBVIOUS
  <2>2. \A f \in Fields : (IF s \in old THEN secrets[s][f] ELSE None) \in {None} \cup Keys
    BY DEF Keys
  <2>3. x \in [Fields -> Secret]
    BY <2>1, <2>2 DEF Secret
  <2>4. PICK key \in {"null", "sealed"} :
          key = IF "wp_ssh_key" \in columns THEN "sealed" ELSE "null"
    OBVIOUS
  <2>5. rows[s] = [there |-> s \in old, secret |-> x, sshKey |-> key]
    BY <1>1, <2>1, <2>4
  <2>6. CASE s \in old
    <3>1. rows[s] = [there |-> TRUE, secret |-> x, sshKey |-> key]
      BY <2>5, <2>6
    <3>2. QED
      BY <2>3, <3>1 DEF Row
  <2>7. CASE s \notin old
    <3>1. (s \in old) = FALSE
      BY <2>7
    <3>2. rows[s] = [there |-> FALSE, secret |-> x, sshKey |-> key]
      BY <2>5, <3>1
    <3>3. QED
      BY <2>3, <3>2 DEF Row
  <2>8. QED
    BY <2>6, <2>7
<1>4. TypeOK
  <2>1. columns \subseteq Columns
    <3>1. DOMAIN Steps = 1 .. 7
      BY DEF Steps
    <3>2. Steps[4] = "wp_ssh_key" /\ Steps[5] = "staging"
      BY DEF Steps
    <3>3. {"staging", "wp_ssh_key"} \subseteq Columns
      BY <3>1, <3>2 DEF Columns
    <3>4. QED
      BY <3>3 DEF Init, InitSchema
  <2>2. proc \in [Procs -> Proc]
    BY EndedIsGood DEF Init
  <2>3. QED
    BY <1>3, <2>1, <2>2 DEF Init, TypeOK
<1>5. SecretsKept /\ Aged /\ Owned
  BY <1>2 DEF Init, SecretsKept, Aged, Owned
<1>6. \A p \in Procs : Good(p, proc[p])
  BY EndedIsGood DEF Init
<1>7. QED
  BY <1>4, <1>5, <1>6 DEF IInv

LEMMA StepKeeps == IInv /\ [Next]_vars => IInv'
<1> SUFFICES ASSUME IInv, [Next]_vars PROVE IInv'
  OBVIOUS
<1>1. ASSUME NEW p \in Procs, Migrate(p) PROVE IInv'
  BY <1>1, SchemaKeeps, ReadSecretsKeeps, SealRowKeeps, EndsKeep DEF Migrate
<1>2. CASE Boot
  BY <1>1, <1>2, StartKeeps, KeyKeeps DEF Boot, Procs
<1>3. CASE StartCli \/ Configure
  BY <1>3, StartKeeps, ConfigureKeeps
<1>4. CASE CliDone
  BY <1>4, EndsKeep DEF Procs
<1>5. ASSUME NEW p \in Procs, Crash(p) PROVE IInv'
  BY <1>5, EndsKeep
<1>6. ASSUME NEW s \in Sites, PutSite(s) PROVE IInv'
  BY <1>6, PutSiteKeeps
<1>7. CASE UNCHANGED vars
  BY <1>7
  DEF vars, IInv, TypeOK, SecretsKept, Aged, Owned, Own,
      Good, Keyed, ServerKeyed, CliKeyed, Busy, Honest, Seen, Passed
<1>8. QED
  BY <1>1, <1>2, <1>3, <1>4, <1>5, <1>6, <1>7 DEF Next, Procs

LEMMA Invariance == Spec => []IInv
BY InitHolds, StepKeeps, PTL DEF Spec

\* Types of the rows, the key file and the processes.
THEOREM StartupTyped == Spec => []TypeOK
<1>1. IInv => TypeOK
  BY DEF IInv
<1>2. QED
  BY <1>1, Invariance, PTL

\* A server that serves can read every secret, unless its configuration has
\* changed (ensureEncryptionKey, decryptSensitive).
THEOREM Readable == Spec => []SecretsReadable
<1>1. IInv => SecretsReadable
  <2> SUFFICES ASSUME IInv, Serves, ~rekeyed, NEW s \in Sites, NEW f \in Fields, rows[s].there
               PROVE  Opens(rows[s].secret[f], proc["server"].key)
    BY DEF SecretsReadable
  <2>1. rows[s].secret[f].seal \in {None, Legacy} \cup Own
    BY DEF IInv, Owned
  <2>2. proc["server"].key \in Own
    BY Numbers DEF IInv, Serves, Good, ServerKeyed, Procs
  <2>3. \A k, m \in Own : k = m
    BY DEF Own
  <2>4. QED
    BY <2>1, <2>2, <2>3 DEF Opens
<1>2. QED
  BY <1>1, Invariance, PTL

\* By the time it serves, no secret is in plain, wherever migrations were cut
\* off (migrateLegacyPlaintextSiteSecrets).
THEOREM NoneInPlain == Spec => []SecretsSealed
<1>1. IInv => SecretsSealed
  BY Numbers DEF IInv, Serves, SecretsSealed, Good, Passed, Procs
<1>2. QED
  BY <1>1, Invariance, PTL

\* Migrations and crashes lose no secret a client gave, unless the command line
\* migrates while a client writes.
THEOREM Kept == Spec => []SecretsKept
<1>1. IInv => SecretsKept
  BY DEF IInv
<1>2. QED
  BY <1>1, Invariance, PTL
=============================================================================
