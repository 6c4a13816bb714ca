--------------------------- MODULE SandboxProofs ---------------------------
(***************************************************************************)
(* Proofs about Sandbox, for any number of open requests, sites, keys and  *)
(* events.  Each property of a state of the sandbox holds because of what  *)
(* the requests that are under way owe to it; each has an invariant of its *)
(* own, which says so, over one common ground.                             *)
(***************************************************************************)
EXTENDS Sandbox, TLAPS

----------------------------------------------------------------------------
(* The common ground. *)

SS == Met("start", "start")
SD == Met("start", "delete")

Live(s) == rows[s].state = "there"
Used(s) == s \in Sites /\ rows[s].state # "new"

\* Request p is of one of these kinds, in one of these phases.
Doing(p, kinds, phases) == op[p].kind \in kinds /\ op[p].phase \in phases

\* A request that will save the state which it has loaded.
Holds(p) == Doing(p, Writers, {"files", "drop", "save"})

\* Requests that are open together have been noted as such.
Noted ==
  \A p, q \in Slots :
    p # q /\ op[p].phase # "idle" /\ op[q].phase # "idle" => Met(op[p].kind, op[q].kind)

\* Which kinds of request go through a phase.
InPlace(o) ==
  /\ o.phase \in {"key", "priv", "pub", "repo", "render", "up", "wait", "http", "setup",
                  "install", "seed", "list"} => o.kind = "start"
  /\ o.phase = "load" => o.kind # "status"
  /\ o.phase = "row" => o.kind \in {"start", "delete"}
  /\ o.phase = "save" => o.kind \in {"start", "break", "stop", "restore"}
  /\ o.phase \in {"look", "attach", "note"} => o.kind \in {"start", "status", "restore"}
  /\ o.phase \in {"files", "drop"} => o.kind = "break"
  /\ o.phase \in {"running", "wipe"} => o.kind = "delete"
  /\ o.phase \in {"forget", "detach", "down"} => o.kind \in {"stop", "delete"}
  /\ o.phase \in {"check", "apply", "recheck"} => o.kind = "restore"
  /\ o.phase = "idle" => o.kind = "status"
Placed == \A p \in Slots : InPlace(op[p])

\* The state file, and the requests that are to write it, name sites that have
\* a row or had one.
DiskGrounded == IF disk.saved THEN Used(disk.state.site) ELSE disk.state = NoState
InHand(p) ==
  /\ Holds(p) => Used(op[p].st.site)
  /\ Doing(p, {"start"}, {"row"}) => op[p].site = None \/ Used(op[p].site)
  /\ Doing(p, {"start"}, {"save"}) => Used(op[p].site)

\* Only a client takes a row's name; containers that do not run are not damaged.
NamesKept == \A s \in Sites : Live(s) => rows[s].named \/ "client" \in cut
Bare == ~Containers => stack.damage = {}

Grounded == DiskGrounded /\ (\A p \in Slots : InHand(p)) /\ NamesKept /\ Bare

Base == TypeOK /\ Noted /\ Placed /\ Grounded

----------------------------------------------------------------------------
(* What a step does to the requests. *)

Others(p) == \A q \in Slots \ {p} : op'[q] = op[q]
Keeps(p) == /\ op'[p].kind = op[p].kind /\ op'[p].had = op[p].had /\ op'[p].st = op[p].st
            /\ op'[p].parts = op[p].parts

\* Request p goes to a phase with a key and a site, or it ends.
Goes(p, ph, k, s) ==
  /\ op' \in [Slots -> Op] /\ Others(p) /\ Keeps(p)
  /\ op'[p].phase = ph /\ op'[p].key = k /\ op'[p].site = s
Quits(p) == op' \in [Slots -> Op] /\ Others(p) /\ op'[p] = Idle

LEMMA GoShape ==
  ASSUME TypeOK, NEW p \in Slots, NEW ph \in Phases, Go(p, ph)
  PROVE  Goes(p, ph, op[p].key, op[p].site)
BY DEF TypeOK, Op, Go, Goes, Others, Keeps

LEMMA EndShape ==
  ASSUME TypeOK, NEW p \in Slots, End(p)
  PROVE  Quits(p)
<1>1. Idle \in Op
  BY DEF Idle, Op, Kinds, Phases, State, NoState
<1> QED
  BY <1>1 DEF TypeOK, End, Quits, Others

----------------------------------------------------------------------------
(* What a step does to the data, field by field. *)

DiskIs(saved, st, priv, pub, compose) ==
  /\ disk' \in Disk
  /\ (disk'.saved <=> saved) /\ disk'.state = st
  /\ disk'.priv = priv /\ disk'.pub = pub /\ disk'.compose = compose
StackIs(up, k, attached, damage) ==
  /\ stack' \in Stack
  /\ stack'.up = up /\ stack'.key = k /\ stack'.attached = attached /\ stack'.damage = damage

\* The row of s becomes this one, and the others stay.
RowIs(s, there, named, k) ==
  /\ rows' \in [Sites -> Row]
  /\ rows'[s].state = there /\ rows'[s].named = named /\ rows'[s].key = k
  /\ \A t \in Sites \ {s} : rows'[t] = rows[t]

LEMMA Typed ==
  ASSUME TypeOK, NEW p \in Slots
  PROVE  /\ op[p].kind \in Kinds /\ op[p].phase \in Phases /\ op[p].st \in State
         /\ op[p].key \in Keys \cup {None} /\ op[p].site \in Sites \cup {None}
         /\ disk.saved \in BOOLEAN /\ disk.state \in State /\ disk.priv \in Keys \cup {None}
         /\ disk.pub \in Keys \cup {None} /\ disk.compose \in Keys \cup {None}
         /\ stack.up \in BOOLEAN /\ stack.half \in BOOLEAN /\ stack.key \in Keys \cup {None}
         /\ stack.damage \subseteq Parts
         /\ \A s \in Sites : rows[s] \in Row
BY DEF TypeOK, Op, Disk, Stack

LEMMA WriteShapes ==
  ASSUME TypeOK, NEW p \in Slots
  PROVE  /\ WritePrivate(p) => /\ Goes(p, "pub", op[p].key, op[p].site)
                               /\ DiskIs(disk.saved, disk.state, op[p].key, disk.pub, disk.compose)
         /\ WritePublic(p) => /\ Goes(p, "repo", op[p].key, op[p].site)
                              /\ DiskIs(disk.saved, disk.state, disk.priv, op[p].key, disk.compose)
         /\ EnsureRepo(p) => /\ Goes(p, "render", op[p].key, op[p].site)
                             /\ DiskIs(disk.saved, disk.state, disk.priv, disk.pub, disk.compose)
         /\ RenderCompose(p) => /\ Goes(p, "up", op[p].key, op[p].site)
                                /\ DiskIs(disk.saved, disk.state, disk.priv, disk.pub, op[p].key)
<1>1. disk \in Disk /\ {"pub", "repo", "render", "up"} \subseteq Phases
  BY DEF TypeOK, Phases
<1>2. op[p].key \in Keys \cup {None}
  BY Typed
<1>3. ASSUME WritePrivate(p)
      PROVE  /\ Goes(p, "pub", op[p].key, op[p].site)
             /\ DiskIs(disk.saved, disk.state, op[p].key, disk.pub, disk.compose)
  BY <1>1, <1>2, <1>3, GoShape DEF WritePrivate, DiskIs, Disk
<1>4. ASSUME WritePublic(p)
      PROVE  /\ Goes(p, "repo", op[p].key, op[p].site)
             /\ DiskIs(disk.saved, disk.state, disk.priv, op[p].key, disk.compose)
  BY <1>1, <1>2, <1>4, GoShape DEF WritePublic, DiskIs, Disk
<1>5. ASSUME EnsureRepo(p)
      PROVE  /\ Goes(p, "render", op[p].key, op[p].site)
             /\ DiskIs(disk.saved, disk.state, disk.priv, disk.pub, disk.compose)
  BY <1>1, <1>2, <1>5, GoShape DEF EnsureRepo, DiskIs, Disk
<1>6. ASSUME RenderCompose(p)
      PROVE  /\ Goes(p, "up", op[p].key, op[p].site)
             /\ DiskIs(disk.saved, disk.state, disk.priv, disk.pub, op[p].key)
  BY <1>1, <1>2, <1>6, GoShape DEF RenderCompose, DiskIs, Disk
<1> QED
  BY <1>3, <1>4, <1>5, <1>6

LEMMA StackShapes ==
  ASSUME TypeOK, NEW p \in Slots
  PROVE  /\ CreateConfig(p) => /\ Goes(p, "install", op[p].key, op[p].site)
                               /\ StackIs(stack.up, stack.key, stack.attached, stack.damage)
         /\ Install(p) => /\ Goes(p, "seed", op[p].key, op[p].site)
                          /\ StackIs(stack.up, stack.key, stack.attached, {})
         /\ Seed(p) => /\ Goes(p, "list", op[p].key, op[p].site)
                       /\ StackIs(stack.up, stack.key, stack.attached, stack.damage)
         /\ Attach(p) => /\ Goes(p, "note", op[p].key, op[p].site)
                         /\ StackIs(stack.up, stack.key, TRUE, stack.damage)
         /\ BreakFiles(p) => /\ Goes(p, "drop", op[p].key, op[p].site)
                             /\ StackIs(stack.up, stack.key, stack.attached,
                                        stack.damage \cup {"files"})
         /\ DropDatabase(p) => /\ Goes(p, "save", op[p].key, op[p].site)
                               /\ StackIs(stack.up, stack.key, stack.attached,
                                          stack.damage \cup {"database"})
         /\ Detach(p) => /\ Goes(p, "down", op[p].key, op[p].site)
                         /\ StackIs(stack.up, stack.key, FALSE, stack.damage)
<1>1. /\ stack \in Stack
      /\ {"install", "seed", "list", "note", "drop", "save", "down"} \subseteq Phases
  BY DEF TypeOK, Phases
<1>2. /\ CreateConfig(p) => /\ Goes(p, "install", op[p].key, op[p].site)
                            /\ StackIs(stack.up, stack.key, stack.attached, stack.damage)
      /\ Install(p) => /\ Goes(p, "seed", op[p].key, op[p].site)
                       /\ StackIs(stack.up, stack.key, stack.attached, {})
      /\ Seed(p) => /\ Goes(p, "list", op[p].key, op[p].site)
                    /\ StackIs(stack.up, stack.key, stack.attached, stack.damage)
  BY <1>1, GoShape DEF CreateConfig, Install, Seed, StackIs, Stack
<1>3. /\ Attach(p) => /\ Goes(p, "note", op[p].key, op[p].site)
                      /\ StackIs(stack.up, stack.key, TRUE, stack.damage)
      /\ Detach(p) => /\ Goes(p, "down", op[p].key, op[p].site)
                      /\ StackIs(stack.up, stack.key, FALSE, stack.damage)
  BY <1>1, GoShape DEF Attach, Detach, StackIs, Stack
<1>4. BreakFiles(p) => /\ Goes(p, "drop", op[p].key, op[p].site)
                       /\ StackIs(stack.up, stack.key, stack.attached, stack.damage \cup {"files"})
  BY <1>1, GoShape DEF BreakFiles, StackIs, Stack, Parts
<1>5. DropDatabase(p) => /\ Goes(p, "save", op[p].key, op[p].site)
                         /\ StackIs(stack.up, stack.key, stack.attached,
                                    stack.damage \cup {"database"})
  BY <1>1, GoShape DEF DropDatabase, StackIs, Stack, Parts
<1> QED
  BY <1>2, <1>3, <1>4, <1>5

LEMMA UpShape ==
  ASSUME TypeOK, NEW p \in Slots, Up(p)
  PROVE  /\ Goes(p, "wait", op[p].key, op[p].site)
         /\ \/ stack.up /\ stack' = stack /\ stack.key = disk.compose
            \/ StackIs(TRUE, disk.compose, stack.attached, stack.damage \ {"files"})
<1>1. stack \in Stack /\ "wait" \in Phases /\ disk.compose \in Keys \cup {None}
  BY Typed DEF TypeOK, Phases
<1>2. Goes(p, "wait", op[p].key, op[p].site)
  BY <1>1, GoShape DEF Up
<1>3. CASE stack.up /\ stack.key = disk.compose
  BY <1>2, <1>3 DEF Up
<1>4. CASE ~(stack.up /\ stack.key = disk.compose)
  BY <1>1, <1>2, <1>4 DEF Up, StackIs, Stack
<1> QED
  BY <1>3, <1>4

LEMMA DownShape ==
  ASSUME TypeOK, NEW p \in Slots, ComposeDown(p)
  PROVE  /\ StackIs(FALSE, None, stack.attached, {}) /\ ~Containers' /\ missed' = {}
         /\ \/ Quits(p) /\ cut' = cut \cup {op[p].kind}
            \/ op[p].kind = "stop" /\ Goes(p, "load", op[p].key, op[p].site) /\ cut' = cut
            \/ op[p].kind # "stop" /\ Goes(p, "row", op[p].key, op[p].site) /\ cut' = cut
<1>1. stack \in Stack /\ {"load", "row"} \subseteq Phases
  BY DEF TypeOK, Phases
<1>2. StackIs(FALSE, None, stack.attached, {})
  BY <1>1 DEF ComposeDown, StackIs, Stack, Down
<1>3. ~Containers'
  BY DEF ComposeDown, Down, Containers
<1> QED
  BY <1>1, <1>2, <1>3, GoShape, EndShape DEF ComposeDown

LEMMA ApplyShape ==
  ASSUME TypeOK, NEW p \in Slots, Apply(p)
  PROVE  /\ Goes(p, "recheck", op[p].key, op[p].site)
         /\ StackIs(stack.up, stack.key, stack.attached, stack.damage \ op[p].parts)
         /\ IF stack'.damage = {} THEN missed' = missed \ {"damage"}
            ELSE missed' = missed \cup {"damage"}
<1>1. stack \in Stack /\ "recheck" \in Phases
  BY DEF TypeOK, Phases
<1> QED
  BY <1>1, GoShape DEF Apply, StackIs, Stack

LEMMA RowShapes ==
  ASSUME TypeOK, NEW p \in Slots
  PROVE  /\ UpdateRow(p) =>
              /\ Goes(p, "save", op[p].key, op[p].site) /\ op[p].site \in Sites
              /\ IF Live(op[p].site) THEN RowIs(op[p].site, "there", TRUE, disk.priv)
                 ELSE rows' = rows
         /\ CreateRow(p) =>
              \E s \in Sites : /\ rows[s].state = "new"
                               /\ Goes(p, "save", op[p].key, s)
                               /\ RowIs(s, "there", TRUE, disk.priv)
         /\ DeleteRow(p) =>
              /\ Goes(p, "wipe", op[p].key, op[p].site)
              /\ IF op[p].had /\ op[p].st.site # None
                 THEN /\ op[p].st.site \in Sites
                      /\ RowIs(op[p].st.site, "deleted", rows[op[p].st.site].named,
                               rows[op[p].st.site].key)
                 ELSE rows' = rows
<1>1. rows \in [Sites -> Row] /\ {"save", "wipe"} \subseteq Phases
  BY DEF TypeOK, Phases
<1>2. /\ op[p].site \in Sites \cup {None} /\ op[p].st.site \in Sites \cup {None}
      /\ disk.priv \in Keys \cup {None}
  BY Typed DEF State
<1>3. ASSUME UpdateRow(p)
      PROVE  /\ Goes(p, "save", op[p].key, op[p].site) /\ op[p].site \in Sites
             /\ IF Live(op[p].site) THEN RowIs(op[p].site, "there", TRUE, disk.priv)
                ELSE rows' = rows
  BY <1>1, <1>2, <1>3, GoShape DEF UpdateRow, Live, RowIs, Row
<1>4. ASSUME CreateRow(p)
      PROVE  \E s \in Sites : /\ rows[s].state = "new"
                              /\ Goes(p, "save", op[p].key, s)
                              /\ RowIs(s, "there", TRUE, disk.priv)
  <2>1. PICK s \in Sites :
          /\ rows[s].state = "new"
          /\ rows' = [rows EXCEPT ![s] = [state |-> "there", named |-> TRUE, key |-> disk.priv]]
          /\ op' = [op EXCEPT ![p].phase = "save", ![p].site = s]
    BY <1>4 DEF CreateRow
  <2>2. RowIs(s, "there", TRUE, disk.priv)
    BY <1>1, <1>2, <2>1 DEF RowIs, Row
  <2>3. Goes(p, "save", op[p].key, s)
    BY <1>1, <2>1 DEF TypeOK, Op, Goes, Others, Keeps
  <2> QED
    BY <2>1, <2>2, <2>3
<1>5. ASSUME DeleteRow(p)
      PROVE  /\ Goes(p, "wipe", op[p].key, op[p].site)
             /\ IF op[p].had /\ op[p].st.site # None
                THEN /\ op[p].st.site \in Sites
                     /\ RowIs(op[p].st.site, "deleted", rows[op[p].st.site].named,
                              rows[op[p].st.site].key)
                ELSE rows' = rows
  BY <1>1, <1>2, <1>5, GoShape DEF DeleteRow, RowIs, Row
<1> QED
  BY <1>3, <1>4, <1>5

\* Wiping takes the files in the order of the directory.
Wipes(n) == DiskIs(n < 5 /\ disk.saved, IF n < 5 THEN disk.state ELSE NoState,
                   IF n < 3 THEN disk.priv ELSE None, IF n < 4 THEN disk.pub ELSE None,
                   IF n < 1 THEN disk.compose ELSE None)

LEMMA WipedShape ==
  ASSUME TypeOK, NEW n \in 0 .. 5, disk' = Wiped(n)
  PROVE  Wipes(n)
BY DEF TypeOK, Wiped, Wipes, DiskIs, Disk, State, NoState

LEMMA WipeShape ==
  ASSUME TypeOK, NEW p \in Slots, Wipe(p)
  PROVE  Quits(p) /\ DiskIs(FALSE, NoState, None, None, None)
<1>1. Quits(p)
  BY EndShape DEF Wipe
<1>2. Wipes(5)
  BY WipedShape DEF Wipe
<1> QED
  BY <1>1, <1>2 DEF Wipes, DiskIs

\* A request that fails in the middle of wiping leaves some of the files.
LEMMA FailShape ==
  ASSUME TypeOK, NEW p \in Slots, Fail(p)
  PROVE  /\ Quits(p) /\ cut' = cut \cup {op[p].kind}
         /\ op[p].phase \notin {"idle", "load", "look", "note", "running", "forget",
                                "detach", "check", "recheck"}
         /\ disk' = disk \/ (op[p].phase = "wipe" /\ \E n \in 0 .. 4 : Wipes(n))
<1>1. Quits(p) /\ cut' = cut \cup {op[p].kind}
  BY EndShape DEF Fail
<1>2. op[p].phase \notin {"idle", "load", "look", "note", "running", "forget",
                          "detach", "check", "recheck"}
  BY DEF Fail, Refuses, At
<1>3. ASSUME At(p, "wipe")
      PROVE  \E n \in 0 .. 4 : Wipes(n)
  <2>1. PICK n \in 0 .. 4 : disk' = Wiped(n)
    BY <1>3 DEF Fail
  <2> QED
    BY <2>1, WipedShape
<1>4. ~At(p, "wipe") => disk' = disk
  BY DEF Fail
<1>5. disk' = disk \/ (op[p].phase = "wipe" /\ \E n \in 0 .. 4 : Wipes(n))
  BY <1>3, <1>4 DEF At
<1> QED
  BY <1>1, <1>2, <1>5

\* One whose docker command fails part way leaves db alone.
Halves(p) ==
  /\ Quits(p) /\ cut' = cut \cup {op[p].kind} /\ op[p].phase \in {"up", "down"}
  /\ disk' = disk /\ rows' = rows /\ connected' = connected /\ met' = met /\ missed' = missed
  /\ disk.compose # None
  /\ StackIs(FALSE, None, stack.attached, stack.damage \ {"files"}) /\ Containers'
  /\ op[p].phase = "down" => stack.up

LEMMA PartWayShape ==
  ASSUME TypeOK, NEW p \in Slots, FailPartWay(p)
  PROVE  Halves(p) /\ events' \in Nat
<1>1. stack \in Stack /\ events \in Nat
  BY DEF TypeOK
<1>2. Quits(p)
  BY EndShape DEF FailPartWay
<1>3. StackIs(FALSE, None, stack.attached, stack.damage \ {"files"})
  BY <1>1 DEF FailPartWay, StackIs, Stack
<1>4. Containers'
  BY <1>1 DEF FailPartWay, Containers, Stack
<1>5. events' \in Nat
  BY <1>1 DEF FailPartWay, Event
<1>6. op[p].phase \in {"up", "down"} /\ (op[p].phase = "down" => stack.up)
  BY DEF FailPartWay, At
<1> QED
  BY <1>2, <1>3, <1>4, <1>5, <1>6 DEF FailPartWay, Halves

\* What a request reads when it loads the state, and how it goes on.
Loads(p) ==
  \/ /\ Quits(p) /\ op[p].phase = "load"
     /\ op[p].kind = "restore" => ~(disk.saved /\ disk.state.broken)
  \/ /\ op' \in [Slots -> Op] /\ Others(p) /\ op[p].phase = "load"
     /\ op'[p].kind = op[p].kind /\ op'[p].had = disk.saved /\ op'[p].st = disk.state
     /\ op'[p].key = op[p].key /\ op'[p].site = op[p].site /\ op'[p].parts = op[p].parts
     /\ \/ op[p].kind = "start" /\ op'[p].phase = "key"
        \/ op[p].kind = "break" /\ op'[p].phase = "files" /\ disk.saved
        \/ op[p].kind = "delete" /\ op'[p].phase = "running"
        \/ op[p].kind = "stop" /\ op'[p].phase = "save" /\ disk.saved
        \/ op[p].kind = "restore" /\ op'[p].phase = "save" /\ disk.saved

LEMMA IdleTyped == Idle \in Op
BY DEF Idle, Op, Kinds, Phases, State, NoState

LEMMA LoadShape ==
  ASSUME TypeOK, NEW p \in Slots, LoadState(p)
  PROVE  Loads(p)
<1>1. /\ disk.saved \in BOOLEAN /\ disk.state \in State /\ op[p].kind \in Kinds \ {"status"}
      /\ op[p].phase = "load"
  BY Typed DEF LoadState, At
<1> DEFINE Next_(ph) == op' = [op EXCEPT ![p] = [@ EXCEPT !.phase = ph, !.had = disk.saved,
                                                          !.st = disk.state]]
           Read(ph) == /\ op' \in [Slots -> Op] /\ Others(p)
                       /\ op'[p].kind = op[p].kind /\ op'[p].had = disk.saved
                       /\ op'[p].st = disk.state /\ op'[p].key = op[p].key
                       /\ op'[p].site = op[p].site /\ op'[p].parts = op[p].parts
                       /\ op'[p].phase = ph
           Left == op' = [op EXCEPT ![p] = Idle]
<1>2. \A ph \in Phases : Next_(ph) => Read(ph)
  <2> TAKE ph \in Phases
  <2> DEFINE r == [op[p] EXCEPT !.phase = ph, !.had = disk.saved, !.st = disk.state]
  <2>1. /\ r \in Op /\ r.kind = op[p].kind /\ r.had = disk.saved /\ r.st = disk.state
        /\ r.key = op[p].key /\ r.site = op[p].site /\ r.parts = op[p].parts /\ r.phase = ph
    BY <1>1 DEF TypeOK, Op
  <2>2. HAVE Next_(ph)
  <2>3. op' = [op EXCEPT ![p] = r]
    BY <2>2
  <2> HIDE DEF r
  <2> QED
    BY <2>1, <2>3 DEF TypeOK, Others
<1>3. Left => Quits(p)
  BY IdleTyped DEF TypeOK, Quits, Others
<1>4. {"key", "files", "running", "save"} \subseteq Phases
  BY DEF Phases
<1> HIDE DEF Read
<1>5. CASE op[p].kind = "start"
  <2>1. Next_("key")
    BY <1>5 DEF LoadState
  <2> QED
    BY <1>2, <1>4, <1>5, <1>1, <2>1 DEF Loads, Read
<1>6. CASE op[p].kind = "break"
  <2>1. IF disk.saved THEN Next_("files") ELSE Left
    BY <1>6 DEF LoadState
  <2> QED
    BY <1>2, <1>3, <1>4, <1>6, <1>1, <2>1 DEF Loads, Read
<1>7. CASE op[p].kind = "delete"
  <2>1. Next_("running")
    BY <1>7 DEF LoadState
  <2> QED
    BY <1>2, <1>4, <1>7, <1>1, <2>1 DEF Loads, Read
<1>8. CASE op[p].kind = "stop"
  <2>1. IF disk.saved THEN Next_("save") ELSE Left
    BY <1>8 DEF LoadState
  <2> QED
    BY <1>2, <1>3, <1>4, <1>8, <1>1, <2>1 DEF Loads, Read
<1>9. CASE op[p].kind = "restore"
  <2>1. IF disk.saved /\ disk.state.broken THEN Next_("save") ELSE Left
    BY <1>9 DEF LoadState
  <2> QED
    BY <1>2, <1>3, <1>4, <1>9, <1>1, <2>1 DEF Loads, Read
<1> QED
  BY <1>1, <1>5, <1>6, <1>7, <1>8, <1>9 DEF Kinds

\* What the other steps of a start read.
LEMMA StartShapes ==
  ASSUME TypeOK, NEW p \in Slots
  PROVE  /\ ReadKey(p) => Goes(p, "repo", disk.pub, op[p].site)
         /\ GenerateKey(p) => \E k \in Keys : Goes(p, "priv", k, op[p].site)
         /\ ListSites(p) => \E s \in Sites \cup {None} :
              /\ Goes(p, "row", op[p].key, s)
              /\ IF Named = {} THEN s = None ELSE s \in Named
<1>1. disk.pub \in Keys \cup {None} /\ {"repo", "priv", "row"} \subseteq Phases
  BY Typed DEF Phases
<1>2. ASSUME NEW ph \in Phases, NEW k \in Keys \cup {None},
             op' = [op EXCEPT ![p].key = k, ![p].phase = ph]
      PROVE  Goes(p, ph, k, op[p].site)
  BY <1>2 DEF TypeOK, Op, Goes, Others, Keeps
<1>3. ASSUME NEW ph \in Phases, NEW s \in Sites \cup {None},
             op' = [op EXCEPT ![p].phase = ph, ![p].site = s]
      PROVE  Goes(p, ph, op[p].key, s)
  BY <1>3 DEF TypeOK, Op, Goes, Others, Keeps
<1>4. ReadKey(p) => Goes(p, "repo", disk.pub, op[p].site)
  BY <1>1, <1>2 DEF ReadKey
<1>5. GenerateKey(p) => \E k \in Keys : Goes(p, "priv", k, op[p].site)
  BY <1>1, <1>2 DEF GenerateKey, Unseen
<1>6. ListSites(p) => \E s \in Sites \cup {None} :
        /\ Goes(p, "row", op[p].key, s)
        /\ IF Named = {} THEN s = None ELSE s \in Named
  <2>1. HAVE ListSites(p)
  <2>2. PICK s \in IF Named = {} THEN {None} ELSE Named :
          op' = [op EXCEPT ![p].phase = "row", ![p].site = s]
    BY <2>1 DEF ListSites
  <2>3. s \in Sites \cup {None}
    BY <2>2 DEF Named
  <2>4. Goes(p, "row", op[p].key, s)
    BY <1>1, <1>3, <2>2, <2>3
  <2> QED
    BY <2>2, <2>3, <2>4
<1> QED
  BY <1>4, <1>5, <1>6

\* Requests that meet are noted, and nothing noted is forgotten.
LEMMA MeetShape ==
  ASSUME TypeOK, NEW p \in Slots, NEW k \in Kinds, Meet(p, k)
  PROVE  /\ met \subseteq met' /\ met' \subseteq SUBSET Kinds
         /\ \A q \in Slots \ {p} : op[q].phase # "idle" => {k, op[q].kind} \in met'
<1>1. \A q \in Slots : op[q].kind \in Kinds
  BY Typed
<1>2. met \subseteq SUBSET Kinds
  BY DEF TypeOK
<1>3. \A q \in Open \ {p} : {k, op[q].kind} \in met'
  BY DEF Meet
<1>4. ASSUME NEW m \in met', m \notin met
      PROVE  m \in SUBSET Kinds
  <2>1. PICK q \in Open \ {p} : m = {k, op[q].kind}
    BY <1>4 DEF Meet
  <2> QED
    BY <1>1, <2>1 DEF Open
<1> QED
  BY <1>2, <1>3, <1>4 DEF Open, Meet

\* What a request saves: the state it has loaded but for the flag, or the row
\* it has made.
Saves(p) ==
  /\ DiskIs(TRUE, disk'.state, disk.priv, disk.pub, disk.compose)
  /\ disk'.state.site = IF op[p].kind = "start" THEN op[p].site ELSE op[p].st.site
  /\ disk'.state.broken <=> op[p].kind = "break"

LEMMA SaveShape ==
  ASSUME TypeOK, NEW p \in Slots, Save(p)
  PROVE  /\ Saves(p)
         /\ \/ op[p].kind \notin {"start", "break"} /\ Quits(p) /\ met' = met
            \/ /\ op[p].kind \in {"start", "break"} /\ Meet(p, "status")
               /\ op' \in [Slots -> Op] /\ Others(p)
               /\ op'[p].kind = "status" /\ op'[p].phase = "look"
<1> DEFINE st == CASE op[p].kind = "start" -> [site |-> op[p].site, broken |-> FALSE]
                   [] op[p].kind = "break" -> [op[p].st EXCEPT !.broken = TRUE]
                   [] OTHER                -> [op[p].st EXCEPT !.broken = FALSE]
<1>1. disk \in Disk /\ op[p].st \in State /\ op[p].site \in Sites \cup {None}
  BY Typed DEF TypeOK
<1>2. /\ st \in State /\ (st.broken <=> op[p].kind = "break")
      /\ st.site = IF op[p].kind = "start" THEN op[p].site ELSE op[p].st.site
  <2>1. CASE op[p].kind = "start"
    BY <1>1, <2>1 DEF State
  <2>2. CASE op[p].kind = "break"
    BY <1>1, <2>2 DEF State
  <2>3. CASE op[p].kind \notin {"start", "break"}
    <3>1. st = [op[p].st EXCEPT !.broken = FALSE]
      BY <2>3
    <3> QED
      BY <1>1, <2>3, <3>1 DEF State
  <2> QED
    BY <2>1, <2>2, <2>3
<1>3. disk' = [disk EXCEPT !.saved = TRUE, !.state = st]
  BY DEF Save
<1> HIDE DEF st
<1>4. Saves(p)
  BY <1>1, <1>2, <1>3 DEF Saves, DiskIs, Disk
<1>5. CASE op[p].kind \in {"start", "break"}
  <2>1. op' = [op EXCEPT ![p] = [Idle EXCEPT !.phase = "look"]] /\ Meet(p, "status")
    BY <1>5 DEF Save
  <2>2. /\ [Idle EXCEPT !.phase = "look"] \in Op
        /\ [Idle EXCEPT !.phase = "look"].kind = "status"
        /\ [Idle EXCEPT !.phase = "look"].phase = "look"
    BY IdleTyped DEF Idle, Op, Phases
  <2> QED
    BY <1>4, <1>5, <2>1, <2>2 DEF TypeOK, Others
<1>6. CASE op[p].kind \notin {"start", "break"}
  BY <1>4, <1>6, EndShape DEF Save
<1> QED
  BY <1>5, <1>6

\* A request that comes in.
Comes(p, k) ==
  /\ op' \in [Slots -> Op] /\ Others(p) /\ op[p].phase = "idle"
  /\ op'[p].kind = k /\ op'[p].phase = First(k)
  /\ Meet(p, k)

LEMMA AskShape ==
  ASSUME TypeOK, NEW p \in Slots, NEW k \in Kinds, Ask(p, k)
  PROVE  Comes(p, k)
<1> DEFINE r == [Idle EXCEPT !.kind = k, !.phase = First(k)]
<1>1. First(k) \in Phases
  BY DEF First, Phases, Kinds
<1>2. r \in Op /\ r.kind = k /\ r.phase = First(k)
  BY <1>1, IdleTyped DEF Op, Idle
<1>3. op' = [op EXCEPT ![p] = r]
  BY DEF Ask
<1> HIDE DEF r
<1> QED
  BY <1>2, <1>3 DEF TypeOK, Others, Comes, Ask, At

LEMMA AskRestoreShape ==
  ASSUME TypeOK, NEW p \in Slots, NEW s \in Sites, NEW parts \in SUBSET Parts,
         AskRestore(p, s, parts)
  PROVE  Comes(p, "restore") /\ op'[p].site = s
<1> DEFINE r == [Idle EXCEPT !.kind = "restore", !.phase = "check", !.site = s,
                             !.key = rows[s].key, !.parts = parts]
<1>1. rows[s].key \in Keys \cup {None}
  BY Typed DEF Row
<1>2. r \in Op /\ r.kind = "restore" /\ r.phase = First("restore") /\ r.site = s
  BY <1>1, IdleTyped DEF Op, Idle, Phases, Kinds, First
<1>3. op' = [op EXCEPT ![p] = r]
  BY DEF AskRestore
<1> HIDE DEF r
<1> QED
  BY <1>2, <1>3 DEF TypeOK, Others, Comes, AskRestore, At

\* A restart ends them all.
LEMMA CrashShape ==
  ASSUME TypeOK, Crash
  PROVE  /\ op' \in [Slots -> Op] /\ \A p \in Slots : op'[p] = Idle
         /\ cut' = cut \cup {op[p].kind : p \in Open}
         /\ \E b \in BOOLEAN : StackIs(stack.up, stack.key, b, stack.damage)
<1>1. stack \in Stack
  BY DEF TypeOK
<1>2. \E b \in BOOLEAN : StackIs(stack.up, stack.key, b, stack.damage)
  BY <1>1 DEF Crash, StackIs, Stack
<1> QED
  BY <1>2, IdleTyped DEF Crash

LEMMA ClientShapes ==
  ASSUME TypeOK, NEW s \in Sites
  PROVE  /\ RenameRow(s) => RowIs(s, rows[s].state, FALSE, rows[s].key)
         /\ RemoveRow(s) => RowIs(s, "deleted", rows[s].named, rows[s].key)
<1>1. ASSUME RenameRow(s)
      PROVE  RowIs(s, rows[s].state, FALSE, rows[s].key)
  BY <1>1 DEF TypeOK, RenameRow, RowIs, Row
<1>2. ASSUME RemoveRow(s)
      PROVE  RowIs(s, "deleted", rows[s].named, rows[s].key)
  BY <1>2 DEF TypeOK, RemoveRow, RowIs, Row
<1> QED
  BY <1>1, <1>2

\* The steps that only lead on.
LEMMA WalkShapes ==
  ASSUME TypeOK, NEW p \in Slots
  PROVE  /\ HalfKey(p) \/ ConfigExists(p) => Quits(p)
         /\ WaitDatabase(p) => Goes(p, "look", op[p].key, op[p].site)
         /\ AlreadyInstalled(p) => Goes(p, "list", op[p].key, op[p].site)
         /\ LookRunning(p) => Goes(p, "attach", op[p].key, op[p].site)
         /\ WaitHTTP(p) => Goes(p, "setup", op[p].key, op[p].site)
         /\ Running(p) => Goes(p, IF IsRunning THEN "forget" ELSE "row", op[p].key, op[p].site)
         /\ Unanswered(p) => Goes(p, "row", op[p].key, op[p].site)
         /\ StayAttached(p) => Goes(p, "down", op[p].key, op[p].site)
         /\ ForgetConnection(p) => Goes(p, "detach", op[p].key, op[p].site)
         /\ CheckSandbox(p) =>
              Goes(p, IF IsSandboxSite(op[p].site) THEN "look" ELSE "apply", op[p].key, op[p].site)
         /\ RecheckSandbox(p) =>
              IF IsSandboxSite(op[p].site) THEN Goes(p, "load", op[p].key, op[p].site) ELSE Quits(p)
         /\ Connected(p) =>
              CASE op[p].kind = "start"   -> Goes(p, "http", op[p].key, op[p].site)
                [] op[p].kind = "restore" -> Goes(p, "apply", op[p].key, op[p].site)
                [] OTHER                  -> Quits(p)
<1>1. {"look", "list", "attach", "forget", "row", "detach", "down", "apply", "load",
       "http", "setup"} \subseteq Phases
  BY DEF Phases
<1>2. /\ HalfKey(p) \/ ConfigExists(p) => Quits(p)
      /\ WaitDatabase(p) => Goes(p, "look", op[p].key, op[p].site)
      /\ AlreadyInstalled(p) => Goes(p, "list", op[p].key, op[p].site)
      /\ LookRunning(p) => Goes(p, "attach", op[p].key, op[p].site)
      /\ ForgetConnection(p) => Goes(p, "detach", op[p].key, op[p].site)
      /\ StayAttached(p) => Goes(p, "down", op[p].key, op[p].site)
      /\ WaitHTTP(p) => Goes(p, "setup", op[p].key, op[p].site)
  BY <1>1, GoShape, EndShape
     DEF HalfKey, ConfigExists, WaitDatabase, AlreadyInstalled, LookRunning, ForgetConnection,
         StayAttached, WaitHTTP
<1>3. Running(p) => Goes(p, IF IsRunning THEN "forget" ELSE "row", op[p].key, op[p].site)
  BY <1>1, GoShape DEF Running, PassOver
<1>7. Unanswered(p) => Goes(p, "row", op[p].key, op[p].site)
  BY <1>1, GoShape DEF Unanswered, PassOver
<1>4. CheckSandbox(p) =>
        Goes(p, IF IsSandboxSite(op[p].site) THEN "look" ELSE "apply", op[p].key, op[p].site)
  BY <1>1, GoShape DEF CheckSandbox
<1>5. RecheckSandbox(p) =>
        IF IsSandboxSite(op[p].site) THEN Goes(p, "load", op[p].key, op[p].site) ELSE Quits(p)
  BY <1>1, GoShape, EndShape DEF RecheckSandbox
<1>6. Connected(p) =>
        CASE op[p].kind = "start"   -> Goes(p, "http", op[p].key, op[p].site)
          [] op[p].kind = "restore" -> Goes(p, "apply", op[p].key, op[p].site)
          [] OTHER                  -> Quits(p)
  BY <1>1, GoShape, EndShape DEF Connected
<1> QED
  BY <1>2, <1>3, <1>4, <1>5, <1>6, <1>7

LEMMA IdleInPlace == InPlace(Idle)
BY DEF InPlace, Idle

LEMMA TypeStep ==
  ASSUME TypeOK, NEW p \in Slots, Step(p)
  PROVE  TypeOK'
<1>1. CASE LoadState(p)
  BY <1>1, LoadShape DEF LoadState, TypeOK, Goes, Quits, DiskIs, StackIs, RowIs, Loads
<1>2. CASE ReadKey(p)
  BY <1>2, StartShapes DEF ReadKey, TypeOK, Goes, Quits, DiskIs, StackIs, RowIs
<1>3. CASE HalfKey(p)
  BY <1>3, WalkShapes DEF HalfKey, TypeOK, Goes, Quits, DiskIs, StackIs, RowIs, Kinds
<1>4. CASE GenerateKey(p)
  BY <1>4, StartShapes DEF GenerateKey, TypeOK, Goes, Quits, DiskIs, StackIs, RowIs
<1>5. CASE WritePrivate(p)
  BY <1>5, WriteShapes DEF WritePrivate, TypeOK, Goes, Quits, DiskIs, StackIs, RowIs
<1>6. CASE WritePublic(p)
  BY <1>6, WriteShapes DEF WritePublic, TypeOK, Goes, Quits, DiskIs, StackIs, RowIs
<1>7. CASE EnsureRepo(p)
  BY <1>7, WriteShapes DEF EnsureRepo, TypeOK, Goes, Quits, DiskIs, StackIs, RowIs
<1>8. CASE RenderCompose(p)
  BY <1>8, WriteShapes DEF RenderCompose, TypeOK, Goes, Quits, DiskIs, StackIs, RowIs
<1>9. CASE Up(p)
  BY <1>9, UpShape DEF Up, TypeOK, Goes, Quits, DiskIs, StackIs, RowIs
<1>10. CASE WaitDatabase(p)
  BY <1>10, WalkShapes DEF WaitDatabase, TypeOK, Goes, Quits, DiskIs, StackIs, RowIs
<1>11. CASE AlreadyInstalled(p)
  BY <1>11, WalkShapes DEF AlreadyInstalled, TypeOK, Goes, Quits, DiskIs, StackIs, RowIs
<1>12. CASE CreateConfig(p)
  BY <1>12, StackShapes DEF CreateConfig, TypeOK, Goes, Quits, DiskIs, StackIs, RowIs
<1>13. CASE ConfigExists(p)
  BY <1>13, WalkShapes DEF ConfigExists, TypeOK, Goes, Quits, DiskIs, StackIs, RowIs, Kinds
<1>14. CASE Install(p)
  BY <1>14, StackShapes DEF Install, TypeOK, Goes, Quits, DiskIs, StackIs, RowIs
<1>15. CASE Seed(p)
  BY <1>15, StackShapes DEF Seed, TypeOK, Goes, Quits, DiskIs, StackIs, RowIs
<1>16. CASE ListSites(p)
  BY <1>16, StartShapes DEF ListSites, TypeOK, Goes, Quits, DiskIs, StackIs, RowIs
<1>17. CASE UpdateRow(p)
  BY <1>17, RowShapes DEF UpdateRow, TypeOK, Goes, Quits, DiskIs, StackIs, RowIs
<1>18. CASE CreateRow(p)
  BY <1>18, RowShapes DEF CreateRow, TypeOK, Goes, Quits, DiskIs, StackIs, RowIs
<1>19. CASE Save(p)
  <2>1. op' \in [Slots -> Op] /\ disk' \in Disk
    BY <1>19, SaveShape DEF Quits, Saves, DiskIs
  <2>2. met' \subseteq SUBSET Kinds
    <3>1. Meet(p, "status") => met' \subseteq SUBSET Kinds
      BY MeetShape DEF Kinds
    <3> QED
      BY <1>19, <3>1, SaveShape DEF TypeOK
  <2> QED
    BY <1>19, <2>1, <2>2 DEF TypeOK, Save
<1>20. CASE LookConnected(p)
  BY <1>20, WalkShapes DEF LookConnected, TypeOK, Goes, Quits, DiskIs, StackIs, RowIs, Connected
<1>21. CASE LookRunning(p)
  BY <1>21, WalkShapes DEF LookRunning, TypeOK, Goes, Quits, DiskIs, StackIs, RowIs
<1>22. CASE Attach(p)
  BY <1>22, StackShapes DEF Attach, TypeOK, Goes, Quits, DiskIs, StackIs, RowIs
<1>23. CASE NoteConnected(p)
  BY <1>23, WalkShapes DEF NoteConnected, TypeOK, Goes, Quits, DiskIs, StackIs, RowIs, Connected
<1>24. CASE Running(p)
  <2>1. op' \in [Slots -> Op]
    BY <1>24, WalkShapes DEF Goes
  <2>2. missed' \subseteq {"containers", "damage"}
    BY <1>24 DEF Running, PassOver, TypeOK
  <2> QED
    BY <1>24, <2>1, <2>2 DEF Running, TypeOK
<1>25. CASE ForgetConnection(p)
  BY <1>25, WalkShapes DEF ForgetConnection, TypeOK, Goes, Quits, DiskIs, StackIs, RowIs
<1>26. CASE Detach(p)
  BY <1>26, StackShapes DEF Detach, TypeOK, Goes, Quits, DiskIs, StackIs, RowIs
<1>27. CASE ComposeDown(p)
  <2>1. /\ StackIs(FALSE, None, stack.attached, {}) /\ op' \in [Slots -> Op]
        /\ missed' = {}
    BY <1>27, DownShape DEF Goes, Quits
  <2>2. op[p].kind \in Kinds /\ cut \subseteq Kinds \cup {"client"}
    BY Typed DEF TypeOK
  <2>3. cut' \subseteq Kinds \cup {"client"}
    BY <1>27, <2>2, DownShape
  <2> QED
    BY <1>27, <2>1, <2>3 DEF TypeOK, ComposeDown, StackIs
<1>28. CASE DeleteRow(p)
  BY <1>28, RowShapes DEF DeleteRow, TypeOK, Goes, Quits, DiskIs, StackIs, RowIs
<1>29. CASE Wipe(p)
  BY <1>29, WipeShape DEF Wipe, TypeOK, Goes, Quits, DiskIs, StackIs, RowIs
<1>30. CASE BreakFiles(p)
  BY <1>30, StackShapes DEF BreakFiles, TypeOK, Goes, Quits, DiskIs, StackIs, RowIs
<1>31. CASE DropDatabase(p)
  BY <1>31, StackShapes DEF DropDatabase, TypeOK, Goes, Quits, DiskIs, StackIs, RowIs
<1>32. CASE CheckSandbox(p)
  BY <1>32, WalkShapes DEF CheckSandbox, TypeOK, Goes, Quits, DiskIs, StackIs, RowIs
<1>33. CASE Apply(p)
  <2>1. op' \in [Slots -> Op] /\ stack' \in Stack
    BY <1>33, ApplyShape DEF Goes, StackIs
  <2>2. missed' \subseteq {"containers", "damage"}
    BY <1>33, ApplyShape DEF TypeOK
  <2> QED
    BY <1>33, <2>1, <2>2 DEF Apply, TypeOK
<1>34. CASE RecheckSandbox(p)
  BY <1>34, WalkShapes DEF RecheckSandbox, TypeOK, Goes, Quits, DiskIs, StackIs, RowIs
<1>41. CASE WaitHTTP(p)
  BY <1>41, WalkShapes DEF WaitHTTP, TypeOK, Goes, Quits, DiskIs, StackIs, RowIs
<1>42. CASE LookInVain(p)
  <2>1. op' \in [Slots -> Op]
    BY <1>42, WalkShapes DEF LookInVain, Connected, Goes, Quits
  <2>2. events' \in Nat
    BY <1>42 DEF LookInVain, Event, TypeOK
  <2>3. missed' \subseteq {"containers", "damage"}
    BY <1>42 DEF LookInVain, TypeOK
  <2> QED
    BY <1>42, <2>1, <2>2, <2>3 DEF LookInVain, TypeOK
<1>43. CASE Unanswered(p)
  <2>1. op' \in [Slots -> Op]
    BY <1>43, WalkShapes DEF Goes
  <2>2. events' \in Nat
    BY <1>43 DEF Unanswered, Event, TypeOK
  <2>3. missed' \subseteq {"containers", "damage"}
    BY <1>43 DEF Unanswered, TypeOK, PassOver
  <2> QED
    BY <1>43, <2>1, <2>2, <2>3 DEF Unanswered, TypeOK
<1>44. CASE StayAttached(p)
  <2>1. op' \in [Slots -> Op]
    BY <1>44, WalkShapes DEF Goes
  <2>2. events' \in Nat
    BY <1>44 DEF StayAttached, Event, TypeOK
  <2>3. missed' \subseteq {"containers", "damage"}
    BY <1>44 DEF StayAttached, TypeOK
  <2> QED
    BY <1>44, <2>1, <2>2, <2>3 DEF StayAttached, TypeOK
<1> QED
  BY <1>1, <1>2, <1>3, <1>4, <1>5, <1>6, <1>7, <1>8, <1>9, <1>10, <1>11, <1>12, <1>13, <1>14,
     <1>15, <1>16, <1>17, <1>18, <1>19, <1>20, <1>21, <1>22, <1>23, <1>24, <1>25, <1>26, <1>27,
     <1>28, <1>29, <1>30, <1>31, <1>32, <1>33, <1>34, <1>41, <1>42, <1>43, <1>44
  DEF Step, Provision, Connect, TearDown, Drill

LEMMA PlacedStep ==
  ASSUME TypeOK, Placed, NEW p \in Slots, Step(p)
  PROVE  Others(p) /\ InPlace(op'[p])
<1>0. InPlace(op[p])
  BY DEF Placed
<1>1. CASE LoadState(p)
  BY <1>1, <1>0, IdleInPlace, LoadShape DEF Loads, Quits, InPlace
<1>2. CASE ReadKey(p)
  BY <1>2, <1>0, IdleInPlace, StartShapes DEF ReadKey, At, Goes, Quits, Keeps, InPlace
<1>3. CASE HalfKey(p)
  BY <1>3, <1>0, IdleInPlace, WalkShapes DEF HalfKey, At, Goes, Quits, Keeps, InPlace
<1>4. CASE GenerateKey(p)
  BY <1>4, <1>0, IdleInPlace, StartShapes DEF GenerateKey, At, Goes, Quits, Keeps, InPlace
<1>5. CASE WritePrivate(p)
  BY <1>5, <1>0, IdleInPlace, WriteShapes DEF WritePrivate, At, Goes, Quits, Keeps, InPlace
<1>6. CASE WritePublic(p)
  BY <1>6, <1>0, IdleInPlace, WriteShapes DEF WritePublic, At, Goes, Quits, Keeps, InPlace
<1>7. CASE EnsureRepo(p)
  BY <1>7, <1>0, IdleInPlace, WriteShapes DEF EnsureRepo, At, Goes, Quits, Keeps, InPlace
<1>8. CASE RenderCompose(p)
  BY <1>8, <1>0, IdleInPlace, WriteShapes DEF RenderCompose, At, Goes, Quits, Keeps, InPlace
<1>9. CASE Up(p)
  BY <1>9, <1>0, IdleInPlace, UpShape DEF Up, At, Goes, Quits, Keeps, InPlace
<1>10. CASE WaitDatabase(p)
  BY <1>10, <1>0, IdleInPlace, WalkShapes DEF WaitDatabase, At, Goes, Quits, Keeps, InPlace
<1>11. CASE AlreadyInstalled(p)
  BY <1>11, <1>0, IdleInPlace, WalkShapes DEF AlreadyInstalled, At, Goes, Quits, Keeps, InPlace
<1>12. CASE CreateConfig(p)
  BY <1>12, <1>0, IdleInPlace, StackShapes DEF CreateConfig, At, Goes, Quits, Keeps, InPlace
<1>13. CASE ConfigExists(p)
  BY <1>13, <1>0, IdleInPlace, WalkShapes DEF ConfigExists, At, Goes, Quits, Keeps, InPlace
<1>14. CASE Install(p)
  BY <1>14, <1>0, IdleInPlace, StackShapes DEF Install, At, Goes, Quits, Keeps, InPlace
<1>15. CASE Seed(p)
  BY <1>15, <1>0, IdleInPlace, StackShapes DEF Seed, At, Goes, Quits, Keeps, InPlace
<1>16. CASE ListSites(p)
  BY <1>16, <1>0, IdleInPlace, StartShapes DEF ListSites, At, Goes, Quits, Keeps, InPlace
<1>17. CASE UpdateRow(p)
  BY <1>17, <1>0, IdleInPlace, RowShapes DEF UpdateRow, At, Goes, Quits, Keeps, InPlace
<1>18. CASE CreateRow(p)
  BY <1>18, <1>0, IdleInPlace, RowShapes DEF CreateRow, At, Goes, Quits, Keeps, InPlace
<1>19. CASE Save(p)
  BY <1>19, <1>0, IdleInPlace, SaveShape DEF Save, At, Goes, Quits, Keeps, InPlace
<1>20. CASE LookConnected(p)
  BY <1>20, <1>0, IdleInPlace, WalkShapes DEF LookConnected, At, Goes, Quits, Keeps, InPlace
<1>21. CASE LookRunning(p)
  BY <1>21, <1>0, IdleInPlace, WalkShapes DEF LookRunning, At, Goes, Quits, Keeps, InPlace
<1>22. CASE Attach(p)
  BY <1>22, <1>0, IdleInPlace, StackShapes DEF Attach, At, Goes, Quits, Keeps, InPlace
<1>23. CASE NoteConnected(p)
  BY <1>23, <1>0, IdleInPlace, WalkShapes DEF NoteConnected, At, Goes, Quits, Keeps, InPlace
<1>24. CASE Running(p)
  BY <1>24, <1>0, IdleInPlace, WalkShapes DEF Running, At, Goes, Quits, Keeps, InPlace
<1>25. CASE ForgetConnection(p)
  BY <1>25, <1>0, IdleInPlace, WalkShapes DEF ForgetConnection, At, Goes, Quits, Keeps, InPlace
<1>26. CASE Detach(p)
  BY <1>26, <1>0, IdleInPlace, StackShapes DEF Detach, At, Goes, Quits, Keeps, InPlace
<1>27. CASE ComposeDown(p)
  BY <1>27, <1>0, IdleInPlace, DownShape DEF ComposeDown, At, Goes, Quits, Keeps, InPlace
<1>28. CASE DeleteRow(p)
  BY <1>28, <1>0, IdleInPlace, RowShapes DEF DeleteRow, At, Goes, Quits, Keeps, InPlace
<1>29. CASE Wipe(p)
  BY <1>29, <1>0, IdleInPlace, WipeShape DEF Wipe, At, Goes, Quits, Keeps, InPlace
<1>30. CASE BreakFiles(p)
  BY <1>30, <1>0, IdleInPlace, StackShapes DEF BreakFiles, At, Goes, Quits, Keeps, InPlace
<1>31. CASE DropDatabase(p)
  BY <1>31, <1>0, IdleInPlace, StackShapes DEF DropDatabase, At, Goes, Quits, Keeps, InPlace
<1>32. CASE CheckSandbox(p)
  BY <1>32, <1>0, IdleInPlace, WalkShapes DEF CheckSandbox, At, Goes, Quits, Keeps, InPlace
<1>33. CASE Apply(p)
  BY <1>33, <1>0, IdleInPlace, ApplyShape DEF Apply, At, Goes, Quits, Keeps, InPlace
<1>34. CASE RecheckSandbox(p)
  BY <1>34, <1>0, IdleInPlace, WalkShapes DEF RecheckSandbox, At, Goes, Quits, Keeps, InPlace
<1>41. CASE WaitHTTP(p)
  BY <1>41, <1>0, IdleInPlace, WalkShapes DEF WaitHTTP, At, Goes, Quits, Keeps, InPlace
<1>42. CASE LookInVain(p)
  BY <1>42, <1>0, IdleInPlace, WalkShapes DEF LookInVain, At, Goes, Quits, Keeps, InPlace
<1>43. CASE Unanswered(p)
  BY <1>43, <1>0, IdleInPlace, WalkShapes DEF Unanswered, At, Goes, Quits, Keeps, InPlace
<1>44. CASE StayAttached(p)
  BY <1>44, <1>0, IdleInPlace, WalkShapes DEF StayAttached, At, Goes, Quits, Keeps, InPlace
<1> QED
  BY <1>1, <1>2, <1>3, <1>4, <1>5, <1>6, <1>7, <1>8, <1>9, <1>10, <1>11, <1>12, <1>13, <1>14,
     <1>15, <1>16, <1>17, <1>18, <1>19, <1>20, <1>21, <1>22, <1>23, <1>24, <1>25, <1>26, <1>27,
     <1>28, <1>29, <1>30, <1>31, <1>32, <1>33, <1>34, <1>41, <1>42, <1>43, <1>44
  DEF Step, Provision, Connect, TearDown, Drill

\* A request of a step stays of its kind, with the key and the site it has, but
\* for a start or a break that ends as a status; the others stay as they are.
LEMMA Moves ==
  ASSUME TypeOK, NEW p \in Slots, Step(p) \/ Fail(p) \/ FailPartWay(p)
  PROVE  /\ Others(p) /\ met \subseteq met' /\ cut \subseteq cut'
         /\ \/ op'[p] = Idle
            \/ /\ op[p].phase # "idle" /\ op'[p].kind = op[p].kind
               /\ op'[p].site = op[p].site \/ ListSites(p) \/ CreateRow(p)
               /\ op'[p].key = op[p].key \/ ReadKey(p) \/ GenerateKey(p)
            \/ op'[p].kind = "status" /\ Meet(p, "status")
<1>1. CASE LoadState(p)
  BY <1>1, LoadShape DEF LoadState, Loads, Quits
<1>2. CASE ReadKey(p)
  BY <1>2, StartShapes DEF ReadKey, At, Goes, Quits, Keeps
<1>3. CASE HalfKey(p)
  BY <1>3, WalkShapes DEF HalfKey, At, Goes, Quits, Keeps
<1>4. CASE GenerateKey(p)
  BY <1>4, StartShapes DEF GenerateKey, At, Goes, Quits, Keeps
<1>5. CASE WritePrivate(p)
  BY <1>5, WriteShapes DEF WritePrivate, At, Goes, Quits, Keeps
<1>6. CASE WritePublic(p)
  BY <1>6, WriteShapes DEF WritePublic, At, Goes, Quits, Keeps
<1>7. CASE EnsureRepo(p)
  BY <1>7, WriteShapes DEF EnsureRepo, At, Goes, Quits, Keeps
<1>8. CASE RenderCompose(p)
  BY <1>8, WriteShapes DEF RenderCompose, At, Goes, Quits, Keeps
<1>9. CASE Up(p)
  BY <1>9, UpShape DEF Up, At, Goes, Quits, Keeps
<1>10. CASE WaitDatabase(p)
  BY <1>10, WalkShapes DEF WaitDatabase, At, Goes, Quits, Keeps
<1>11. CASE AlreadyInstalled(p)
  BY <1>11, WalkShapes DEF AlreadyInstalled, At, Goes, Quits, Keeps
<1>12. CASE CreateConfig(p)
  BY <1>12, StackShapes DEF CreateConfig, At, Goes, Quits, Keeps
<1>13. CASE ConfigExists(p)
  BY <1>13, WalkShapes DEF ConfigExists, At, Goes, Quits, Keeps
<1>14. CASE Install(p)
  BY <1>14, StackShapes DEF Install, At, Goes, Quits, Keeps
<1>15. CASE Seed(p)
  BY <1>15, StackShapes DEF Seed, At, Goes, Quits, Keeps
<1>16. CASE ListSites(p)
  BY <1>16, StartShapes DEF ListSites, At, Goes, Quits, Keeps
<1>17. CASE UpdateRow(p)
  BY <1>17, RowShapes DEF UpdateRow, At, Goes, Quits, Keeps
<1>18. CASE CreateRow(p)
  BY <1>18, RowShapes DEF CreateRow, At, Goes, Quits, Keeps
<1>19. CASE Save(p)
  BY <1>19, SaveShape DEF Save, At, Quits, Meet
<1>20. CASE LookConnected(p)
  BY <1>20, WalkShapes DEF LookConnected, At, Goes, Quits, Keeps, Connected
<1>21. CASE LookRunning(p)
  BY <1>21, WalkShapes DEF LookRunning, At, Goes, Quits, Keeps
<1>22. CASE Attach(p)
  BY <1>22, StackShapes DEF Attach, At, Goes, Quits, Keeps
<1>23. CASE NoteConnected(p)
  BY <1>23, WalkShapes DEF NoteConnected, At, Goes, Quits, Keeps, Connected
<1>24. CASE Running(p)
  BY <1>24, WalkShapes DEF Running, At, Goes, Quits, Keeps
<1>25. CASE ForgetConnection(p)
  BY <1>25, WalkShapes DEF ForgetConnection, At, Goes, Quits, Keeps
<1>26. CASE Detach(p)
  BY <1>26, StackShapes DEF Detach, At, Goes, Quits, Keeps
<1>27. CASE ComposeDown(p)
  BY <1>27, DownShape DEF ComposeDown, At, Goes, Quits, Keeps
<1>28. CASE DeleteRow(p)
  BY <1>28, RowShapes DEF DeleteRow, At, Goes, Quits, Keeps
<1>29. CASE Wipe(p)
  BY <1>29, WipeShape DEF Wipe, At, Goes, Quits, Keeps
<1>30. CASE BreakFiles(p)
  BY <1>30, StackShapes DEF BreakFiles, At, Goes, Quits, Keeps
<1>31. CASE DropDatabase(p)
  BY <1>31, StackShapes DEF DropDatabase, At, Goes, Quits, Keeps
<1>32. CASE CheckSandbox(p)
  BY <1>32, WalkShapes DEF CheckSandbox, At, Goes, Quits, Keeps
<1>33. CASE Apply(p)
  BY <1>33, ApplyShape DEF Apply, At, Goes, Quits, Keeps
<1>34. CASE RecheckSandbox(p)
  BY <1>34, WalkShapes DEF RecheckSandbox, At, Goes, Quits, Keeps
<1>35. CASE Fail(p)
  BY <1>35, FailShape DEF Fail, Quits
<1>41. CASE WaitHTTP(p)
  BY <1>41, WalkShapes DEF WaitHTTP, At, Goes, Quits, Keeps
<1>42. CASE LookInVain(p)
  BY <1>42, WalkShapes DEF LookInVain, At, Goes, Quits, Keeps, Connected
<1>43. CASE Unanswered(p)
  BY <1>43, WalkShapes DEF Unanswered, At, Goes, Quits, Keeps
<1>44. CASE StayAttached(p)
  BY <1>44, WalkShapes DEF StayAttached, At, Goes, Quits, Keeps
<1>36. CASE FailPartWay(p)
  BY <1>36, PartWayShape DEF Halves, Quits
<1> QED
  BY <1>1, <1>2, <1>3, <1>4, <1>5, <1>6, <1>7, <1>8, <1>9, <1>10, <1>11, <1>12, <1>13, <1>14,
     <1>15, <1>16, <1>17, <1>18, <1>19, <1>20, <1>21, <1>22, <1>23, <1>24, <1>25, <1>26, <1>27,
     <1>28, <1>29, <1>30, <1>31, <1>32, <1>33, <1>34, <1>41, <1>42, <1>43, <1>44, <1>35, <1>36
  DEF Step, Provision, Connect, TearDown, Drill

\* Which step leads to a phase, ...
LEMMA Arrivals ==
  ASSUME TypeOK, NEW p \in Slots, Step(p)
  PROVE  /\ op'[p].phase = "key"     => LoadState(p)
         /\ op'[p].phase = "priv"    => GenerateKey(p)
         /\ op'[p].phase = "pub"     => WritePrivate(p)
         /\ op'[p].phase = "repo"    => ReadKey(p) \/ WritePublic(p)
         /\ op'[p].phase = "render"  => EnsureRepo(p)
         /\ op'[p].phase = "up"      => RenderCompose(p)
         /\ op'[p].phase = "wait"    => Up(p)
         /\ op'[p].phase = "note"    => Attach(p)
         /\ op'[p].phase = "seed"    => Install(p)
         /\ op'[p].phase = "list"    => Seed(p) \/ AlreadyInstalled(p)
         /\ op'[p].phase = "setup"   => WaitHTTP(p)
         /\ op'[p].phase = "row"     => \/ ListSites(p) \/ Running(p) \/ Unanswered(p)
                                        \/ ComposeDown(p)
         /\ op'[p].phase = "save"    => \/ LoadState(p) \/ DropDatabase(p)
                                        \/ UpdateRow(p) \/ CreateRow(p)
         /\ op'[p].phase = "files"   => LoadState(p)
         /\ op'[p].phase = "drop"    => BreakFiles(p)
         /\ op'[p].phase = "running" => LoadState(p)
         /\ op'[p].phase = "forget"  => Running(p)
         /\ op'[p].phase = "detach"  => ForgetConnection(p)
         /\ op'[p].phase = "down"    => Detach(p) \/ StayAttached(p)
         /\ op'[p].phase = "wipe"    => DeleteRow(p)
         /\ op'[p].phase = "recheck" => Apply(p)
         /\ op'[p].phase = "load"    => ComposeDown(p) \/ RecheckSandbox(p)
<1>1. CASE LoadState(p)
  BY <1>1, LoadShape DEF Loads, Quits, Idle
<1>2. CASE ReadKey(p)
  BY <1>2, StartShapes DEF Goes, Quits, Idle
<1>3. CASE HalfKey(p)
  BY <1>3, WalkShapes DEF Goes, Quits, Idle
<1>4. CASE GenerateKey(p)
  BY <1>4, StartShapes DEF Goes, Quits, Idle
<1>5. CASE WritePrivate(p)
  BY <1>5, WriteShapes DEF Goes, Quits, Idle
<1>6. CASE WritePublic(p)
  BY <1>6, WriteShapes DEF Goes, Quits, Idle
<1>7. CASE EnsureRepo(p)
  BY <1>7, WriteShapes DEF Goes, Quits, Idle
<1>8. CASE RenderCompose(p)
  BY <1>8, WriteShapes DEF Goes, Quits, Idle
<1>9. CASE Up(p)
  BY <1>9, UpShape DEF Goes, Quits, Idle
<1>10. CASE WaitDatabase(p)
  BY <1>10, WalkShapes DEF Goes, Quits, Idle
<1>11. CASE AlreadyInstalled(p)
  BY <1>11, WalkShapes DEF Goes, Quits, Idle
<1>12. CASE CreateConfig(p)
  BY <1>12, StackShapes DEF Goes, Quits, Idle
<1>13. CASE ConfigExists(p)
  BY <1>13, WalkShapes DEF Goes, Quits, Idle
<1>14. CASE Install(p)
  BY <1>14, StackShapes DEF Goes, Quits, Idle
<1>15. CASE Seed(p)
  BY <1>15, StackShapes DEF Goes, Quits, Idle
<1>16. CASE ListSites(p)
  BY <1>16, StartShapes DEF Goes, Quits, Idle
<1>17. CASE UpdateRow(p)
  BY <1>17, RowShapes DEF Goes, Quits, Idle
<1>18. CASE CreateRow(p)
  BY <1>18, RowShapes DEF Goes, Quits, Idle
<1>19. CASE Save(p)
  BY <1>19, SaveShape DEF Quits, Idle
<1>20. CASE LookConnected(p)
  BY <1>20, WalkShapes DEF LookConnected, Goes, Quits, Idle
<1>21. CASE LookRunning(p)
  BY <1>21, WalkShapes DEF Goes, Quits, Idle
<1>22. CASE Attach(p)
  BY <1>22, StackShapes DEF Goes, Quits, Idle
<1>23. CASE NoteConnected(p)
  BY <1>23, WalkShapes DEF NoteConnected, Goes, Quits, Idle
<1>24. CASE Running(p)
  BY <1>24, WalkShapes DEF Goes, Quits, Idle
<1>25. CASE ForgetConnection(p)
  BY <1>25, WalkShapes DEF Goes, Quits, Idle
<1>26. CASE Detach(p)
  BY <1>26, StackShapes DEF Goes, Quits, Idle
<1>27. CASE ComposeDown(p)
  <2>1. \/ Quits(p)
        \/ Goes(p, "load", op[p].key, op[p].site)
        \/ Goes(p, "row", op[p].key, op[p].site)
    BY <1>27, DownShape
  <2> QED
    BY <1>27, <2>1 DEF Goes, Quits, Idle
<1>28. CASE DeleteRow(p)
  BY <1>28, RowShapes DEF Goes, Quits, Idle
<1>29. CASE Wipe(p)
  BY <1>29, WipeShape DEF Goes, Quits, Idle, DiskIs, StackIs
<1>30. CASE BreakFiles(p)
  BY <1>30, StackShapes DEF Goes, Quits, Idle
<1>31. CASE DropDatabase(p)
  BY <1>31, StackShapes DEF Goes, Quits, Idle
<1>32. CASE CheckSandbox(p)
  BY <1>32, WalkShapes DEF Goes, Quits, Idle
<1>33. CASE Apply(p)
  BY <1>33, ApplyShape DEF Goes, Quits, Idle
<1>34. CASE RecheckSandbox(p)
  BY <1>34, WalkShapes DEF Goes, Quits, Idle
<1>41. CASE WaitHTTP(p)
  BY <1>41, WalkShapes DEF Goes, Quits, Idle
<1>42. CASE LookInVain(p)
  BY <1>42, WalkShapes DEF LookInVain, Goes, Quits, Idle
<1>43. CASE Unanswered(p)
  BY <1>43, WalkShapes DEF Goes, Quits, Idle
<1>44. CASE StayAttached(p)
  BY <1>44, WalkShapes DEF Goes, Quits, Idle
<1> QED
  BY <1>1, <1>2, <1>3, <1>4, <1>5, <1>6, <1>7, <1>8, <1>9, <1>10, <1>11, <1>12, <1>13, <1>14,
     <1>15, <1>16, <1>17, <1>18, <1>19, <1>20, <1>21, <1>22, <1>23, <1>24, <1>25, <1>26, <1>27,
     <1>28, <1>29, <1>30, <1>31, <1>32, <1>33, <1>34, <1>41, <1>42, <1>43, <1>44
  DEF Step, Provision, Connect, TearDown, Drill

\* ... and which one changes what.
LEMMA Changes ==
  ASSUME NEW p \in Slots, Step(p)
  PROVE  /\ \/ rows' = rows
            \/ UpdateRow(p) \/ CreateRow(p) \/ DeleteRow(p)
         /\ \/ disk' = disk
            \/ WritePrivate(p) \/ WritePublic(p) \/ EnsureRepo(p) \/ RenderCompose(p)
            \/ Save(p) \/ Wipe(p)
         /\ \/ stack' = stack
            \/ Up(p) \/ CreateConfig(p) \/ Install(p) \/ Seed(p) \/ Attach(p) \/ BreakFiles(p)
            \/ DropDatabase(p) \/ Detach(p) \/ ComposeDown(p) \/ Apply(p)
         /\ \/ connected' = connected
            \/ WaitDatabase(p) \/ NoteConnected(p) \/ ForgetConnection(p)
         /\ \/ missed' = missed
            \/ Install(p) \/ Running(p) \/ Unanswered(p) \/ ComposeDown(p) \/ Apply(p)
<1>1. CASE LoadState(p)
  BY <1>1 DEF LoadState
<1>2. CASE ReadKey(p)
  BY <1>2 DEF ReadKey
<1>3. CASE HalfKey(p)
  BY <1>3 DEF HalfKey
<1>4. CASE GenerateKey(p)
  BY <1>4 DEF GenerateKey
<1>5. CASE WritePrivate(p)
  BY <1>5 DEF WritePrivate
<1>6. CASE WritePublic(p)
  BY <1>6 DEF WritePublic
<1>7. CASE EnsureRepo(p)
  BY <1>7 DEF EnsureRepo
<1>8. CASE RenderCompose(p)
  BY <1>8 DEF RenderCompose
<1>9. CASE Up(p)
  BY <1>9 DEF Up
<1>10. CASE WaitDatabase(p)
  BY <1>10 DEF WaitDatabase
<1>11. CASE AlreadyInstalled(p)
  BY <1>11 DEF AlreadyInstalled
<1>12. CASE CreateConfig(p)
  BY <1>12 DEF CreateConfig
<1>13. CASE ConfigExists(p)
  BY <1>13 DEF ConfigExists
<1>14. CASE Install(p)
  BY <1>14 DEF Install
<1>15. CASE Seed(p)
  BY <1>15 DEF Seed
<1>16. CASE ListSites(p)
  BY <1>16 DEF ListSites
<1>17. CASE UpdateRow(p)
  BY <1>17 DEF UpdateRow
<1>18. CASE CreateRow(p)
  BY <1>18 DEF CreateRow
<1>19. CASE Save(p)
  BY <1>19 DEF Save
<1>20. CASE LookConnected(p)
  BY <1>20 DEF LookConnected
<1>21. CASE LookRunning(p)
  BY <1>21 DEF LookRunning
<1>22. CASE Attach(p)
  BY <1>22 DEF Attach
<1>23. CASE NoteConnected(p)
  BY <1>23 DEF NoteConnected
<1>24. CASE Running(p)
  BY <1>24 DEF Running
<1>25. CASE ForgetConnection(p)
  BY <1>25 DEF ForgetConnection
<1>26. CASE Detach(p)
  BY <1>26 DEF Detach
<1>27. CASE ComposeDown(p)
  BY <1>27 DEF ComposeDown
<1>28. CASE DeleteRow(p)
  BY <1>28 DEF DeleteRow
<1>29. CASE Wipe(p)
  BY <1>29 DEF Wipe
<1>30. CASE BreakFiles(p)
  BY <1>30 DEF BreakFiles
<1>31. CASE DropDatabase(p)
  BY <1>31 DEF DropDatabase
<1>32. CASE CheckSandbox(p)
  BY <1>32 DEF CheckSandbox
<1>33. CASE Apply(p)
  BY <1>33 DEF Apply
<1>34. CASE RecheckSandbox(p)
  BY <1>34 DEF RecheckSandbox
<1>41. CASE WaitHTTP(p)
  BY <1>41 DEF WaitHTTP
<1>42. CASE LookInVain(p)
  BY <1>42 DEF LookInVain
<1>43. CASE Unanswered(p)
  BY <1>43 DEF Unanswered
<1>44. CASE StayAttached(p)
  BY <1>44 DEF StayAttached
<1> QED
  BY <1>1, <1>2, <1>3, <1>4, <1>5, <1>6, <1>7, <1>8, <1>9, <1>10, <1>11, <1>12, <1>13, <1>14,
     <1>15, <1>16, <1>17, <1>18, <1>19, <1>20, <1>21, <1>22, <1>23, <1>24, <1>25, <1>26, <1>27,
     <1>28, <1>29, <1>30, <1>31, <1>32, <1>33, <1>34, <1>41, <1>42, <1>43, <1>44
  DEF Step, Provision, Connect, TearDown, Drill

\* Only docker compose up starts containers.
LEMMA ContainersGo ==
  ASSUME TypeOK, NEW p \in Slots, Step(p), Containers'
  PROVE  Containers \/ Up(p)
<1>1. CASE stack' = stack
  BY <1>1 DEF Containers
<1>2. CASE CreateConfig(p) \/ Install(p) \/ Seed(p) \/ Attach(p) \/ Detach(p)
  <2>1. stack'.up = stack.up /\ stack'.half = stack.half
    BY <1>2 DEF TypeOK, Stack, CreateConfig, Install, Seed, Attach, Detach
  <2> QED
    BY <2>1 DEF Containers
<1>3. CASE BreakFiles(p) \/ DropDatabase(p) \/ Apply(p)
  <2>1. stack'.up = stack.up /\ stack'.half = stack.half
    BY <1>3 DEF TypeOK, Stack, BreakFiles, DropDatabase, Apply
  <2> QED
    BY <2>1 DEF Containers
<1>4. ~ComposeDown(p)
  BY DownShape
<1> QED
  BY <1>1, <1>2, <1>3, <1>4, Changes

\* Where a step leads from.
LEMMA Departures ==
  ASSUME NEW p \in Slots, Step(p)
  PROVE  /\ op[p].phase # "idle"
         /\ op[p].phase = "load"    => LoadState(p)
         /\ op[p].phase = "key"     => ReadKey(p) \/ HalfKey(p) \/ GenerateKey(p)
         /\ op[p].phase = "priv"    => WritePrivate(p)
         /\ op[p].phase = "pub"     => WritePublic(p)
         /\ op[p].phase = "repo"    => EnsureRepo(p)
         /\ op[p].phase = "render"  => RenderCompose(p)
         /\ op[p].phase = "up"      => Up(p)
         /\ op[p].phase = "wait"    => WaitDatabase(p)
         /\ op[p].phase = "look"    => LookConnected(p) \/ LookInVain(p) \/ LookRunning(p)
         /\ op[p].phase = "attach"  => Attach(p)
         /\ op[p].phase = "note"    => NoteConnected(p)
         /\ op[p].phase = "http"    => WaitHTTP(p)
         /\ op[p].phase = "setup"   => AlreadyInstalled(p) \/ CreateConfig(p) \/ ConfigExists(p)
         /\ op[p].phase = "install" => Install(p)
         /\ op[p].phase = "seed"    => Seed(p)
         /\ op[p].phase = "list"    => ListSites(p)
         /\ op[p].phase = "row"     => UpdateRow(p) \/ CreateRow(p) \/ DeleteRow(p)
         /\ op[p].phase = "save"    => Save(p)
         /\ op[p].phase = "files"   => BreakFiles(p)
         /\ op[p].phase = "drop"    => DropDatabase(p)
         /\ op[p].phase = "wipe"    => Wipe(p)
         /\ op[p].phase = "recheck" => RecheckSandbox(p)
<1>1. CASE LoadState(p)
  BY <1>1 DEF LoadState, At
<1>2. CASE ReadKey(p)
  BY <1>2 DEF ReadKey, At
<1>3. CASE HalfKey(p)
  BY <1>3 DEF HalfKey, At
<1>4. CASE GenerateKey(p)
  BY <1>4 DEF GenerateKey, At
<1>5. CASE WritePrivate(p)
  BY <1>5 DEF WritePrivate, At
<1>6. CASE WritePublic(p)
  BY <1>6 DEF WritePublic, At
<1>7. CASE EnsureRepo(p)
  BY <1>7 DEF EnsureRepo, At
<1>8. CASE RenderCompose(p)
  BY <1>8 DEF RenderCompose, At
<1>9. CASE Up(p)
  BY <1>9 DEF Up, At
<1>10. CASE WaitDatabase(p)
  BY <1>10 DEF WaitDatabase, At
<1>11. CASE AlreadyInstalled(p)
  BY <1>11 DEF AlreadyInstalled, At
<1>12. CASE CreateConfig(p)
  BY <1>12 DEF CreateConfig, At
<1>13. CASE ConfigExists(p)
  BY <1>13 DEF ConfigExists, At
<1>14. CASE Install(p)
  BY <1>14 DEF Install, At
<1>15. CASE Seed(p)
  BY <1>15 DEF Seed, At
<1>16. CASE ListSites(p)
  BY <1>16 DEF ListSites, At
<1>17. CASE UpdateRow(p)
  BY <1>17 DEF UpdateRow, At
<1>18. CASE CreateRow(p)
  BY <1>18 DEF CreateRow, At
<1>19. CASE Save(p)
  BY <1>19 DEF Save, At
<1>20. CASE LookConnected(p)
  BY <1>20 DEF LookConnected, At
<1>21. CASE LookRunning(p)
  BY <1>21 DEF LookRunning, At
<1>22. CASE Attach(p)
  BY <1>22 DEF Attach, At
<1>23. CASE NoteConnected(p)
  BY <1>23 DEF NoteConnected, At
<1>24. CASE Running(p)
  BY <1>24 DEF Running, At
<1>25. CASE ForgetConnection(p)
  BY <1>25 DEF ForgetConnection, At
<1>26. CASE Detach(p)
  BY <1>26 DEF Detach, At
<1>27. CASE ComposeDown(p)
  BY <1>27 DEF ComposeDown, At
<1>28. CASE DeleteRow(p)
  BY <1>28 DEF DeleteRow, At
<1>29. CASE Wipe(p)
  BY <1>29 DEF Wipe, At
<1>30. CASE BreakFiles(p)
  BY <1>30 DEF BreakFiles, At
<1>31. CASE DropDatabase(p)
  BY <1>31 DEF DropDatabase, At
<1>32. CASE CheckSandbox(p)
  BY <1>32 DEF CheckSandbox, At
<1>33. CASE Apply(p)
  BY <1>33 DEF Apply, At
<1>34. CASE RecheckSandbox(p)
  BY <1>34 DEF RecheckSandbox, At
<1>41. CASE WaitHTTP(p)
  BY <1>41 DEF WaitHTTP, At
<1>42. CASE LookInVain(p)
  BY <1>42 DEF LookInVain, At
<1>43. CASE Unanswered(p)
  BY <1>43 DEF Unanswered, At
<1>44. CASE StayAttached(p)
  BY <1>44 DEF StayAttached, At
<1> QED
  BY <1>1, <1>2, <1>3, <1>4, <1>5, <1>6, <1>7, <1>8, <1>9, <1>10, <1>11, <1>12, <1>13, <1>14,
     <1>15, <1>16, <1>17, <1>18, <1>19, <1>20, <1>21, <1>22, <1>23, <1>24, <1>25, <1>26, <1>27,
     <1>28, <1>29, <1>30, <1>31, <1>32, <1>33, <1>34, <1>41, <1>42, <1>43, <1>44
  DEF Step, Provision, Connect, TearDown, Drill

\* A row goes from new to there to deleted, and only a client takes its name.
LEMMA RowsGo ==
  ASSUME TypeOK, NEW p \in Slots, Step(p), NEW s \in Sites
  PROVE  /\ Used(s) => Used(s)'
         /\ Live(s)' => Live(s) \/ (CreateRow(p) /\ op'[p].site = s /\ rows[s].state = "new")
         /\ Live(s)' => rows'[s].named \/ (Live(s) /\ ~rows[s].named)
<1>1. CASE rows' = rows
  BY <1>1 DEF Used, Live
<1>2. CASE UpdateRow(p)
  BY <1>2, RowShapes DEF RowIs, Used, Live
<1>3. CASE CreateRow(p)
  BY <1>3, RowShapes DEF RowIs, Used, Live, Goes
<1>4. CASE DeleteRow(p)
  BY <1>4, RowShapes DEF RowIs, Used, Live
<1> QED
  BY <1>1, <1>2, <1>3, <1>4, Changes

LEMMA DiskGroundedStep ==
  ASSUME Base, NEW p \in Slots, Step(p)
  PROVE  DiskGrounded'
<1>1. TypeOK /\ DiskGrounded /\ InHand(p) /\ InPlace(op[p])
  BY DEF Base, Placed, Grounded
<1>2. \A s \in Sites : Used(s) => Used(s)'
  BY <1>1, RowsGo
<1>3. ASSUME disk'.saved <=> disk.saved, disk'.state = disk.state
      PROVE  DiskGrounded'
  BY <1>1, <1>2, <1>3 DEF DiskGrounded, Used
<1>4. CASE disk' = disk
  BY <1>3, <1>4
<1>5. CASE WritePrivate(p) \/ WritePublic(p) \/ EnsureRepo(p) \/ RenderCompose(p)
  BY <1>1, <1>3, <1>5, WriteShapes DEF DiskIs
<1>6. CASE Save(p)
  <2>1. Saves(p) /\ op[p].phase = "save" /\ rows' = rows
    BY <1>1, <1>6, SaveShape DEF Save, At
  <2>2. Used(disk'.state.site)
    BY <1>1, <2>1 DEF Saves, InHand, Holds, Doing, Writers, InPlace
  <2>3. disk'.saved
    BY <2>1 DEF Saves, DiskIs
  <2> QED
    BY <2>1, <2>2, <2>3 DEF DiskGrounded, Used
<1>7. CASE Wipe(p)
  BY <1>1, <1>7, WipeShape DEF DiskIs, DiskGrounded
<1> QED
  BY <1>4, <1>5, <1>6, <1>7, Changes

LEMMA InHandStep ==
  ASSUME Base, NEW p \in Slots, Step(p), NEW q \in Slots
  PROVE  InHand(q)'
<1>1. /\ TypeOK /\ DiskGrounded /\ InHand(p) /\ InHand(q) /\ InPlace(op[p]) /\ InPlace(op'[p])
      /\ Others(p)
  BY Moves, PlacedStep DEF Base, Placed, Grounded
<1>2. \A s \in Sites : Used(s) => Used(s)'
  BY <1>1, RowsGo
<1>3. CASE q # p
  BY <1>1, <1>2, <1>3 DEF InHand, Holds, Doing, Others, Used
<1>4. CASE q = p /\ op'[p].phase \notin {"files", "drop", "row", "save"}
  BY <1>4 DEF InHand, Holds, Doing
<1>5. CASE LoadState(p)
  <2>1. rows' = rows
    BY <1>5 DEF LoadState
  <2>2. CASE Quits(p)
    BY <1>3, <1>4, <2>2 DEF Quits, Idle
  <2>3. CASE op'[p].phase = "running" \/ op'[p].phase = "key"
    BY <1>3, <1>4, <2>3
  <2>4. CASE op'[p].st = disk.state /\ disk.saved /\ op'[p].kind # "start"
    BY <1>1, <1>3, <2>1, <2>4 DEF InHand, Holds, Doing, DiskGrounded, Used
  <2> QED
    BY <1>1, <1>5, <2>2, <2>3, <2>4, LoadShape DEF Loads
<1>6. CASE BreakFiles(p) \/ DropDatabase(p)
  <2>1. /\ op'[p].st = op[p].st /\ op'[p].kind = "break" /\ op[p].kind = "break"
        /\ op[p].phase \in {"files", "drop"}
    BY <1>1, <1>6, StackShapes DEF Goes, Keeps, BreakFiles, DropDatabase, At, InPlace
  <2> QED
    BY <1>1, <1>2, <1>3, <2>1 DEF InHand, Holds, Doing, Writers, Used
<1>7. CASE ListSites(p)
  <2>1. /\ op'[p].phase = "row" /\ op'[p].kind = "start" /\ rows' = rows
        /\ op'[p].site = None \/ op'[p].site \in Named
    BY <1>1, <1>7, StartShapes DEF Goes, Keeps, ListSites, At, InPlace
  <2> QED
    BY <1>3, <2>1 DEF InHand, Holds, Doing, Used, Named, Writers
<1>8. CASE Running(p) \/ Unanswered(p) \/ ComposeDown(p)
  <2>1. op[p].kind \in {"stop", "delete"}
    BY <1>1, <1>8 DEF Running, Unanswered, ComposeDown, At, InPlace
  <2>2. CASE Running(p) \/ Unanswered(p)
    BY <1>1, <1>3, <2>1, <2>2, WalkShapes DEF Goes, Keeps, InHand, Holds, Doing
  <2>3. CASE ComposeDown(p)
    <3>1. \/ Quits(p)
          \/ Goes(p, "load", op[p].key, op[p].site)
          \/ Goes(p, "row", op[p].key, op[p].site)
      BY <1>1, <2>3, DownShape
    <3> QED
      BY <1>3, <2>1, <3>1 DEF Goes, Keeps, Quits, Idle, InHand, Holds, Doing
  <2> QED
    BY <1>8, <2>2, <2>3
<1>9. CASE UpdateRow(p)
  <2>1. op'[p].phase = "save" /\ op'[p].kind = "start" /\ op'[p].site = op[p].site
    BY <1>1, <1>9, RowShapes DEF Goes, Keeps, UpdateRow
  <2>2. op[p].site \in Sites /\ Used(op[p].site)
    BY <1>1, <1>9 DEF UpdateRow, At, InHand, Doing, Used
  <2> QED
    BY <1>2, <1>3, <2>1, <2>2 DEF InHand, Holds, Doing, Used, Writers
<1>10. CASE CreateRow(p)
  <2>1. /\ op'[p].phase = "save" /\ op'[p].kind = "start" /\ op'[p].site \in Sites
        /\ rows'[op'[p].site].state # "new"
    <3>1. op[p].kind = "start"
      BY <1>10 DEF CreateRow
    <3>2. PICK s \in Sites : Goes(p, "save", op[p].key, s) /\ RowIs(s, "there", TRUE, disk.priv)
      BY <1>1, <1>10, RowShapes
    <3> QED
      BY <3>1, <3>2 DEF Goes, Keeps, RowIs
  <2> QED
    BY <1>3, <2>1 DEF InHand, Holds, Doing, Used, Writers
<1> QED
  BY <1>1, <1>3, <1>4, <1>5, <1>6, <1>7, <1>8, <1>9, <1>10, Arrivals

LEMMA GroundedStep ==
  ASSUME Base, NEW p \in Slots, Step(p)
  PROVE  Grounded'
<1>1. TypeOK /\ NamesKept /\ Bare /\ cut \subseteq cut'
  BY Moves DEF Base, Grounded
<1>2. NamesKept'
  BY <1>1, RowsGo DEF NamesKept, Live
<1>3. Bare'
  <2>1. ASSUME stack'.up = stack.up, stack'.half = stack.half, stack'.damage \subseteq stack.damage
        PROVE  Bare'
    BY <1>1, <2>1 DEF Bare, Containers
  <2>2. CASE stack' = stack
    BY <2>1, <2>2
  <2>3. CASE Up(p)
    BY <1>1, <2>2, <2>3, UpShape DEF Bare, StackIs, Containers
  <2>4. CASE CreateConfig(p) \/ Install(p) \/ Seed(p) \/ Attach(p) \/ Detach(p) \/ Apply(p)
    <3>1. stack'.up = stack.up /\ stack'.half = stack.half
      BY <1>1, <2>4
         DEF TypeOK, Stack, CreateConfig, Install, Seed, Attach, Detach, Apply
    <3>2. stack'.damage \subseteq stack.damage
      BY <1>1, <2>4, StackShapes, ApplyShape DEF StackIs
    <3> QED
      BY <2>1, <3>1, <3>2
  <2>5. CASE BreakFiles(p) \/ DropDatabase(p)
    <3>1. stack'.up = stack.up /\ stack'.half = stack.half
      BY <1>1, <2>5 DEF TypeOK, Stack, BreakFiles, DropDatabase
    <3> QED
      BY <2>5, <3>1
         DEF BreakFiles, DropDatabase, IsRunning, DatabaseRuns, Containers, Bare
  <2>6. CASE ComposeDown(p)
    BY <1>1, <2>6, DownShape DEF Bare, StackIs
  <2> QED
    BY <2>2, <2>3, <2>4, <2>5, <2>6, Changes
<1> QED
  BY <1>1, <1>2, <1>3, DiskGroundedStep, InHandStep DEF Grounded

----------------------------------------------------------------------------
(* The common ground holds. *)

\* A request comes in at its first phase, a restore with a site that has a row.
Enters(p) ==
  /\ op' \in [Slots -> Op] /\ Others(p) /\ op[p].phase = "idle"
  /\ op'[p].kind \in Kinds /\ op'[p].phase = First(op'[p].kind)
  /\ op'[p].kind = "restore" => op'[p].site \in Sites /\ Live(op'[p].site)
  /\ Meet(p, op'[p].kind)
  /\ disk' = disk /\ stack' = stack /\ rows' = rows /\ connected' = connected /\ cut' = cut
  /\ missed' = missed /\ events' \in Nat

LEMMA EnterShape ==
  ASSUME TypeOK, NEW p \in Slots
  PROVE  /\ \A k \in Kinds \ {"restore"} : Ask(p, k) => Enters(p)
         /\ \A s \in Sites, parts \in SUBSET Parts : AskRestore(p, s, parts) => Enters(p)
<1>1. ASSUME NEW k \in Kinds \ {"restore"}, Ask(p, k)
      PROVE  Enters(p)
  <2>1. Comes(p, k)
    BY <1>1, AskShape
  <2>2. events' = events + 1
    BY <1>1 DEF Ask, Event
  <2>3. events' \in Nat
    BY <2>2 DEF TypeOK
  <2> QED
    BY <1>1, <2>1, <2>3 DEF Ask, Enters, Comes
<1>2. ASSUME NEW s \in Sites, NEW parts \in SUBSET Parts, AskRestore(p, s, parts)
      PROVE  Enters(p)
  <2>1. Comes(p, "restore") /\ op'[p].site = s
    BY <1>2, AskRestoreShape
  <2>2. events' = events + 1
    BY <1>2 DEF AskRestore, Event
  <2>3. events' \in Nat
    BY <2>2 DEF TypeOK
  <2> QED
    BY <1>2, <2>1, <2>3 DEF AskRestore, Enters, Comes, Live, Kinds
<1> QED
  BY <1>1, <1>2

LEMMA NextShape ==
  ASSUME TypeOK, Next
  PROVE  \/ \E p \in Slots : Enters(p) \/ Step(p) \/ Fail(p) \/ FailPartWay(p)
         \/ Crash
         \/ \E s \in Sites : RenameRow(s) \/ RemoveRow(s)
BY EnterShape DEF Next

\* What was noted stays so.
LEMMA Grows ==
  ASSUME TypeOK, [Next]_vars
  PROVE  met \subseteq met' /\ cut \subseteq cut'
<1>1. CASE UNCHANGED vars
  BY <1>1 DEF vars
<1>2. ASSUME NEW p \in Slots, Enters(p)
      PROVE  met \subseteq met' /\ cut \subseteq cut'
  BY <1>2, MeetShape DEF Enters
<1>3. ASSUME NEW p \in Slots, Step(p) \/ Fail(p) \/ FailPartWay(p)
      PROVE  met \subseteq met' /\ cut \subseteq cut'
  BY <1>3, Moves
<1>4. CASE Crash
  BY <1>4 DEF Crash
<1>5. ASSUME NEW s \in Sites, RenameRow(s) \/ RemoveRow(s)
      PROVE  met \subseteq met' /\ cut \subseteq cut'
  BY <1>5 DEF RenameRow, RemoveRow
<1> QED
  BY <1>1, <1>2, <1>3, <1>4, <1>5, NextShape

LEMMA TypeNext ==
  ASSUME TypeOK, [Next]_vars
  PROVE  TypeOK'
<1>1. CASE UNCHANGED vars
  BY <1>1 DEF vars, TypeOK
<1>2. ASSUME NEW p \in Slots, Enters(p)
      PROVE  TypeOK'
  <2>1. met' \subseteq SUBSET Kinds
    BY <1>2, MeetShape DEF Enters
  <2> QED
    BY <1>2, <2>1 DEF Enters, TypeOK
<1>3. ASSUME NEW p \in Slots, Fail(p)
      PROVE  TypeOK'
  <2>1. op' \in [Slots -> Op] /\ disk' \in Disk
    BY <1>3, FailShape DEF Quits, Wipes, DiskIs, TypeOK
  <2>2. cut' \subseteq Kinds \cup {"client"} /\ events' \in Nat
    BY <1>3, Typed DEF Fail, TypeOK, Event
  <2> QED
    BY <1>3, <2>1, <2>2 DEF Fail, TypeOK
<1>4. CASE Crash
  <2>1. op' \in [Slots -> Op] /\ stack' \in Stack
    BY <1>4, CrashShape DEF StackIs
  <2>2. cut' \subseteq Kinds \cup {"client"}
    BY <1>4, CrashShape, Typed DEF Open, TypeOK
  <2>3. events' \in Nat
    BY <1>4 DEF Crash, Event, TypeOK
  <2> QED
    BY <1>4, <2>1, <2>2, <2>3 DEF Crash, TypeOK
<1>5. ASSUME NEW s \in Sites, RenameRow(s) \/ RemoveRow(s)
      PROVE  TypeOK'
  <2>1. rows' \in [Sites -> Row]
    BY <1>5, ClientShapes DEF RowIs
  <2> QED
    BY <1>5, <2>1 DEF RenameRow, RemoveRow, Event, TypeOK
<1>6. ASSUME NEW p \in Slots, FailPartWay(p)
      PROVE  TypeOK'
  <2>1. Halves(p) /\ events' \in Nat
    BY <1>6, PartWayShape
  <2>2. op[p].kind \in Kinds
    BY Typed
  <2> QED
    BY <2>1, <2>2 DEF Halves, Quits, StackIs, TypeOK
<1> QED
  BY <1>1, <1>2, <1>3, <1>4, <1>5, <1>6, NextShape, TypeStep

\* A request that others may meet is one that came in or carries on; or it is
\* the status at the end of a start or a break.
LEMMA NotedMove ==
  ASSUME TypeOK, Noted, NEW p \in Slots, Others(p), met \subseteq met',
         \/ op'[p] = Idle
         \/ op[p].phase # "idle" /\ op'[p].kind = op[p].kind
         \/ Meet(p, op'[p].kind) /\ op'[p].kind \in Kinds
  PROVE  Noted'
<1>1. \A q \in Slots \ {p} :
        op[q].phase # "idle" /\ op'[p].phase # "idle" => {op'[p].kind, op[q].kind} \in met'
  <2>1. CASE op'[p] = Idle
    BY <2>1 DEF Idle
  <2>2. CASE op[p].phase # "idle" /\ op'[p].kind = op[p].kind
    BY <2>2 DEF Noted, Met
  <2>3. CASE Meet(p, op'[p].kind) /\ op'[p].kind \in Kinds
    BY <2>3, MeetShape
  <2> QED
    BY <2>1, <2>2, <2>3
<1>2. \A q, r \in Slots \ {p} :
        q # r /\ op[q].phase # "idle" /\ op[r].phase # "idle" => {op[q].kind, op[r].kind} \in met'
  BY DEF Noted, Met
<1>3. \A q \in Slots : {op'[q].kind, op'[p].kind} = {op'[p].kind, op'[q].kind}
  OBVIOUS
<1> QED
  BY <1>1, <1>2, <1>3 DEF Noted, Met, Others

LEMMA NotedNext ==
  ASSUME TypeOK, Noted, [Next]_vars
  PROVE  Noted'
<1>0. met \subseteq met'
  BY Grows
<1>1. CASE op' = op
  BY <1>0, <1>1 DEF Noted, Met
<1>2. ASSUME NEW p \in Slots, Enters(p)
      PROVE  Noted'
  BY <1>0, <1>2, NotedMove DEF Enters
<1>3. ASSUME NEW p \in Slots, Step(p) \/ Fail(p) \/ FailPartWay(p)
      PROVE  Noted'
  BY <1>0, <1>3, NotedMove, Moves DEF Kinds
<1>4. CASE Crash
  BY <1>4, CrashShape DEF Noted, Idle
<1>5. ASSUME NEW s \in Sites, RenameRow(s) \/ RemoveRow(s)
      PROVE  op' = op
  BY <1>5 DEF RenameRow, RemoveRow
<1> QED
  BY <1>1, <1>2, <1>3, <1>4, <1>5, NextShape DEF vars

LEMMA PlacedNext ==
  ASSUME TypeOK, Placed, [Next]_vars
  PROVE  Placed'
<1>1. CASE op' = op
  BY <1>1 DEF Placed
<1>2. ASSUME NEW p \in Slots, Others(p), InPlace(op'[p])
      PROVE  Placed'
  BY <1>2 DEF Placed, Others
<1>3. ASSUME NEW p \in Slots, Enters(p)
      PROVE  Placed'
  <2>1. InPlace(op'[p])
    BY <1>3 DEF Enters, InPlace, First, Kinds
  <2> QED
    BY <1>2, <1>3, <2>1 DEF Enters
<1>4. ASSUME NEW p \in Slots, Step(p)
      PROVE  Placed'
  BY <1>2, <1>4, PlacedStep
<1>5. ASSUME NEW p \in Slots, Fail(p) \/ FailPartWay(p)
      PROVE  Placed'
  BY <1>2, <1>5, FailShape, PartWayShape, IdleInPlace DEF Halves, Quits
<1>6. CASE Crash
  BY <1>6, CrashShape, IdleInPlace DEF Placed
<1>7. ASSUME NEW s \in Sites, RenameRow(s) \/ RemoveRow(s)
      PROVE  op' = op
  BY <1>7 DEF RenameRow, RemoveRow
<1> QED
  BY <1>1, <1>3, <1>4, <1>5, <1>6, <1>7, NextShape DEF vars

LEMMA GroundedNext ==
  ASSUME Base, [Next]_vars
  PROVE  Grounded'
<1>0. /\ TypeOK /\ Grounded /\ DiskGrounded /\ NamesKept /\ Bare /\ cut \subseteq cut'
      /\ \A q \in Slots : InHand(q)
  BY Grows DEF Base, Grounded
<1>1. CASE UNCHANGED vars
  BY <1>0, <1>1 DEF vars, Grounded, DiskGrounded, InHand, NamesKept, Bare, Holds, Doing, Used, Live,
     Containers
<1>2. ASSUME NEW p \in Slots, Others(p), op'[p].phase \notin {"files", "drop", "row", "save"},
             rows' = rows
      PROVE  \A q \in Slots : InHand(q)'
  BY <1>0, <1>2 DEF Others, InHand, Holds, Doing, Used
<1>3. ASSUME disk' = disk, rows' = rows
      PROVE  DiskGrounded' /\ NamesKept'
  BY <1>0, <1>3 DEF DiskGrounded, NamesKept, Used, Live
<1>4. ASSUME NEW p \in Slots, Enters(p)
      PROVE  Grounded'
  <2>1. op'[p].phase \notin {"files", "drop", "row", "save"}
    BY <1>4 DEF Enters, First, Kinds
  <2> QED
    BY <1>0, <1>2, <1>3, <1>4, <2>1 DEF Enters, Grounded, Bare, Containers
<1>5. ASSUME NEW p \in Slots, Fail(p)
      PROVE  Grounded'
  <2>1. (\A q \in Slots : InHand(q)') /\ rows' = rows
    BY <1>0, <1>2, <1>5, FailShape DEF Fail, Quits, Idle
  <2>2. DiskGrounded'
    <3>1. CASE disk' = disk
      BY <1>3, <2>1, <3>1
    <3>2. ASSUME NEW n \in 0 .. 4, Wipes(n)
          PROVE  (disk'.saved <=> disk.saved) /\ disk'.state = disk.state
      BY <3>2 DEF Wipes, DiskIs
    <3> QED
      BY <1>0, <1>5, <2>1, <3>1, <3>2, FailShape DEF DiskGrounded, Used
  <2> QED
    BY <1>0, <1>5, <2>1, <2>2 DEF Fail, Grounded, NamesKept, Live, Bare, Containers
<1>6. CASE Crash
  <2>1. \A q \in Slots : InHand(q)'
    BY <1>0, <1>6, CrashShape DEF InHand, Holds, Doing, Idle
  <2>2. Bare'
    <3>1. stack'.up = stack.up /\ stack'.half = stack.half
      BY <1>0, <1>6 DEF TypeOK, Stack, Crash
    <3> QED
      BY <1>0, <1>6, <3>1, CrashShape DEF Bare, Containers, StackIs
  <2> QED
    BY <1>0, <1>3, <1>6, <2>1, <2>2 DEF Crash, Grounded
<1>7. ASSUME NEW s \in Sites, RenameRow(s) \/ RemoveRow(s)
      PROVE  Grounded'
  <2>1. /\ op' = op /\ disk' = disk /\ stack' = stack /\ "client" \in cut'
        /\ \A t \in Sites : Used(t) => rows'[t].state # "new"
    BY <1>0, <1>7, ClientShapes DEF RenameRow, RemoveRow, RowIs, Used
  <2> QED
    BY <1>0, <2>1 DEF Grounded, DiskGrounded, InHand, Holds, Doing, NamesKept, Used, Live, Bare,
       Containers
<1>8. ASSUME NEW p \in Slots, FailPartWay(p)
      PROVE  Grounded'
  <2>1. Halves(p)
    BY <1>0, <1>8, PartWayShape
  <2>2. \A q \in Slots : InHand(q)'
    BY <1>2, <2>1 DEF Halves, Quits, Idle
  <2> QED
    BY <1>3, <2>1, <2>2 DEF Halves, Grounded, Bare
<1> QED
  BY <1>0, <1>1, <1>4, <1>5, <1>6, <1>7, <1>8, NextShape, GroundedStep

LEMMA BaseInit ==
  ASSUME Init
  PROVE  Base
<1>1. TypeOK
  BY IdleTyped DEF Init, TypeOK, Disk, Empty, State, NoState, Stack, Down, Row
<1>2. Noted /\ Placed
  BY IdleInPlace DEF Init, Noted, Placed, Idle
<1>3. Grounded
  BY DEF Init, Grounded, DiskGrounded, InHand, Holds, Doing, NamesKept, Bare, Live, Empty,
         Down, Idle, Containers
<1> QED
  BY <1>1, <1>2, <1>3 DEF Base

LEMMA BaseNext ==
  ASSUME Base, [Next]_vars
  PROVE  Base'
BY TypeNext, NotedNext, PlacedNext, GroundedNext DEF Base

THEOREM BaseHolds == Spec => []Base
<1>1. Init => Base
  BY BaseInit
<1>2. Base /\ [Next]_vars => Base'
  BY BaseNext
<1> QED
  BY <1>1, <1>2, PTL DEF Spec

\* The files, the row of every site, the connection and the requests are what
\* the program can write, whatever overlaps, fails or restarts.
THEOREM TypeCorrect == Spec => []TypeOK
BY BaseHolds, PTL DEF Base

\* What does not come of a step of a request under way.
LEMMA Elsewhere ==
  ASSUME TypeOK, [Next]_vars, \A p \in Slots : ~Step(p)
  PROVE  /\ \A q \in Slots :
              /\ op'[q].phase \notin {"idle", "load", "look", "forget", "check"} => op'[q] = op[q]
              /\ op'[q].phase = "look" => op'[q] = op[q] \/ op'[q].kind = "status"
              /\ op'[q].phase = "forget" => op'[q] = op[q] \/ op'[q].kind = "stop"
              /\ op'[q] = op[q] \/ op[q].phase = "idle" \/ op[q].kind \in cut'
         /\ rows' = rows \/ "client" \in cut'
         /\ \A s \in Sites : Live(s)' => Live(s) /\ rows'[s].key = rows[s].key
         /\ \/ /\ (stack'.up <=> stack.up) /\ (Containers' <=> Containers)
               /\ stack'.key = stack.key /\ stack'.damage = stack.damage
               /\ \/ stack' = stack /\ connected' = connected
                  \/ connected' = FALSE /\ \A q \in Slots : op'[q] = Idle
            \/ \E p \in Slots : Halves(p)
         /\ missed' = missed
         /\ \/ disk' = disk
            \/ /\ \E n \in 0 .. 4 : Wipes(n)
               /\ \E p \in Slots : op[p].phase = "wipe" /\ op[p].kind \in cut'
<1> DEFINE Still(q) ==
             /\ op'[q].phase \notin {"idle", "load", "look", "forget", "check"} => op'[q] = op[q]
             /\ op'[q].phase = "look" => op'[q] = op[q] \/ op'[q].kind = "status"
             /\ op'[q].phase = "forget" => op'[q] = op[q] \/ op'[q].kind = "stop"
             /\ op'[q] = op[q] \/ op[q].phase = "idle" \/ op[q].kind \in cut'
           Same == /\ rows' = rows /\ stack' = stack /\ connected' = connected
                   /\ missed' = missed
           RowsSame == \A s \in Sites : Live(s)' => Live(s) /\ rows'[s].key = rows[s].key
<1>1. ASSUME NEW p \in Slots, Enters(p)
      PROVE  (\A q \in Slots : Still(q)) /\ Same /\ disk' = disk
  BY <1>1 DEF Enters, Others, First, Kinds
<1>2. ASSUME NEW p \in Slots, Fail(p)
      PROVE  /\ (\A q \in Slots : Still(q)) /\ Same
             /\ \/ disk' = disk
                \/ /\ \E n \in 0 .. 4 : Wipes(n)
                   /\ op[p].phase = "wipe" /\ op[p].kind \in cut'
  <2>1. \A q \in Slots : Still(q)
    BY <1>2, FailShape DEF Quits, Others, Idle
  <2>2. Same
    BY <1>2 DEF Fail
  <2> QED
    BY <1>2, <2>1, <2>2, FailShape
<1>3. CASE Crash
  <2>1. \A q \in Slots : Still(q) /\ op'[q] = Idle
    BY <1>3, CrashShape DEF Open, Idle
  <2>2. rows' = rows /\ disk' = disk /\ connected' = FALSE /\ missed' = missed
    BY <1>3 DEF Crash
  <2>4. Containers' <=> Containers
    BY <1>3 DEF Crash, TypeOK, Stack, Containers
  <2>3. (stack'.up <=> stack.up) /\ stack'.key = stack.key /\ stack'.damage = stack.damage
    BY <1>3, CrashShape DEF StackIs
  <2> HIDE DEF Still
  <2> QED
    BY <2>1, <2>2, <2>3, <2>4 DEF Live, Still
<1>4. ASSUME NEW s \in Sites, RenameRow(s) \/ RemoveRow(s)
      PROVE  /\ op' = op /\ RowsSame /\ "client" \in cut'
             /\ stack' = stack /\ connected' = connected /\ disk' = disk
             /\ missed' = missed
  BY <1>4, ClientShapes DEF RenameRow, RemoveRow, RowIs, Live
<1>5. CASE UNCHANGED vars
  BY <1>5 DEF vars, Live, Containers
<1>6. ASSUME NEW p \in Slots, FailPartWay(p)
      PROVE  Halves(p) /\ \A q \in Slots : Still(q)
  <2>1. Halves(p)
    BY <1>6, PartWayShape
  <2>2. Quits(p) /\ cut' = cut \cup {op[p].kind}
    BY <2>1 DEF Halves
  <2>3. \A q \in Slots : Still(q)
    BY <2>2 DEF Quits, Others, Idle
  <2> QED
    BY <2>1, <2>3
<1>7. CASE \E p \in Slots : FailPartWay(p)
  BY <1>6, <1>7 DEF Halves, Live
<1> QED
  BY <1>1, <1>2, <1>3, <1>4, <1>5, <1>7, NextShape DEF Live, Containers

----------------------------------------------------------------------------
(* One row.  A start that is about to write its row has found it, or found   *)
(* none, and no other start may write one meanwhile.                         *)

OneRowInv ==
  /\ OneRow
  /\ \A p \in Slots : Doing(p, {"start"}, {"row", "save"}) => Named \subseteq {op[p].site} \/ SS

\* Only a start gives a row the name.
LEMMA NamedGo ==
  ASSUME TypeOK, NEW p \in Slots, Step(p)
  PROVE  \/ Named' \subseteq Named
         \/ /\ UpdateRow(p) \/ CreateRow(p)
            /\ op[p].kind = "start" /\ op[p].phase = "row"
            /\ op'[p].kind = "start" /\ op'[p].phase = "save"
            /\ op'[p].site \in Sites /\ Named' \subseteq Named \cup {op'[p].site}
            /\ op[p].site # None => op'[p].site = op[p].site
<1>1. CASE rows' = rows
  BY <1>1 DEF Named
<1>2. CASE UpdateRow(p)
  BY <1>2, RowShapes DEF UpdateRow, At, RowIs, Named, Goes, Keeps
<1>3. CASE CreateRow(p)
  <2>1. op[p].kind = "start" /\ op[p].site = None /\ op[p].phase = "row"
    BY <1>3 DEF CreateRow, At
  <2>2. PICK s \in Sites : Goes(p, "save", op[p].key, s) /\ RowIs(s, "there", TRUE, disk.priv)
    BY <1>3, RowShapes
  <2>3. Named' \subseteq Named \cup {s}
    BY <2>2 DEF RowIs, Named
  <2> QED
    BY <1>3, <2>1, <2>2, <2>3 DEF Goes, Keeps
<1>4. CASE DeleteRow(p)
  BY <1>4, RowShapes DEF RowIs, Named
<1> QED
  BY <1>1, <1>2, <1>3, <1>4, Changes

LEMMA NamedElse ==
  ASSUME TypeOK, [Next]_vars, \A p \in Slots : ~Step(p)
  PROVE  Named' \subseteq Named
<1>1. ASSUME NEW p \in Slots, Enters(p) \/ Fail(p) \/ FailPartWay(p)
      PROVE  rows' = rows
  BY <1>1 DEF Enters, Fail, FailPartWay
<1>2. ASSUME NEW s \in Sites, RenameRow(s) \/ RemoveRow(s)
      PROVE  Named' \subseteq Named
  BY <1>2, ClientShapes DEF RowIs, Named
<1> QED
  BY <1>1, <1>2, NextShape DEF Crash, vars, Named

LEMMA OneRowNext ==
  ASSUME Base, OneRowInv, [Next]_vars
  PROVE  OneRowInv'
<1>0. /\ TypeOK /\ Placed /\ Noted /\ Noted' /\ (SS => SS')
  BY Grows, NotedNext DEF Base, SS, Met
<1>1. CASE SS'
  BY <1>1 DEF OneRowInv, OneRow, SS
<1>2. ASSUME ~SS', NEW p \in Slots, Step(p)
      PROVE  OneRowInv'
  <2>1. Others(p) /\ InPlace(op[p])
    BY <1>0, <1>2, Moves DEF Placed
  <2>2. \A q \in Slots : Doing(q, {"start"}, {"row", "save"}) => Named \subseteq {op[q].site}
    BY <1>0, <1>2 DEF OneRowInv
  <2>3. \A s, t \in Named : s = t
    BY <1>0, <1>2 DEF OneRowInv, OneRow, SS
  <2>4. CASE Named' \subseteq Named
    <3>1. ASSUME NEW q \in Slots, Doing(q, {"start"}, {"row", "save"})'
          PROVE  Named \subseteq {op'[q].site}
      <4>1. CASE q # p
        BY <2>1, <2>2, <3>1, <4>1 DEF Others, Doing
      <4>2. CASE q = p /\ ListSites(p)
        BY <1>0, <2>3, <4>2, StartShapes DEF Goes
      <4>3. CASE q = p /\ (UpdateRow(p) \/ CreateRow(p))
        <5>1. op[p].kind = "start" /\ op[p].phase = "row"
          BY <4>3 DEF UpdateRow, CreateRow, At
        <5>2. op'[p].site = op[p].site \/ op[p].site = None
          BY <1>0, <4>3, RowShapes DEF Goes, CreateRow
        <5> QED
          BY <2>2, <4>3, <5>1, <5>2, NoneAssumption DEF Doing, Named
      <4>4. CASE q = p /\ (LoadState(p) \/ DropDatabase(p) \/ Running(p) \/ Unanswered(p)
                           \/ ComposeDown(p))
        <5>1. op'[p].kind = op[p].kind \/ op'[p].phase = "look" \/ op'[p] = Idle
          BY <1>0, <1>2, <3>1, <4>4, Moves DEF Doing, Idle
        <5>2. LoadState(p) => op'[p].phase = "key" \/ op'[p].kind # "start" \/ op'[p] = Idle
          BY <1>0, LoadShape DEF Loads, Quits
        <5>3. CASE DropDatabase(p) \/ Running(p) \/ Unanswered(p) \/ ComposeDown(p)
          BY <2>1, <3>1, <4>4, <5>1, <5>3
             DEF DropDatabase, Running, Unanswered, ComposeDown, At, InPlace, Doing, Idle
        <5> QED
          BY <3>1, <4>4, <5>2, <5>3 DEF Doing, Idle
      <4> QED
        BY <1>0, <1>2, <3>1, <4>1, <4>2, <4>3, <4>4, Arrivals DEF Doing
    <3> QED
      BY <2>3, <2>4, <3>1 DEF OneRowInv, OneRow
  <2>5. CASE ~(Named' \subseteq Named)
    <3>1. /\ op[p].kind = "start" /\ op[p].phase = "row"
          /\ op'[p].kind = "start" /\ op'[p].phase = "save" /\ op'[p].site \in Sites
          /\ Named' \subseteq Named \cup {op'[p].site}
          /\ op[p].site # None => op'[p].site = op[p].site
      BY <1>0, <1>2, <2>5, NamedGo
    <3>2. Named \subseteq {op[p].site}
      BY <2>2, <3>1 DEF Doing
    <3>3. Named' \subseteq {op'[p].site}
      BY <3>1, <3>2, NoneAssumption DEF Named
    <3>4. \A q \in Slots \ {p} : ~Doing(q, {"start"}, {"row", "save"})'
      BY <1>0, <1>2, <3>1 DEF Doing, Noted, Met, SS
    <3> QED
      BY <3>3, <3>4 DEF OneRowInv, OneRow
  <2> QED
    BY <2>4, <2>5
<1>3. ASSUME ~SS', \A p \in Slots : ~Step(p)
      PROVE  OneRowInv'
  <2>1. Named' \subseteq Named
    BY <1>0, <1>3, NamedElse
  <2>2. \A q \in Slots : Doing(q, {"start"}, {"row", "save"})' => op'[q] = op[q]
    BY <1>0, <1>3, Elsewhere DEF Doing
  <2> QED
    BY <1>0, <1>3, <2>1, <2>2 DEF OneRowInv, OneRow, SS, Doing
<1> QED
  BY <1>1, <1>2, <1>3

LEMMA OneRowInvHolds == Spec => []OneRowInv
<1>1. Init => OneRowInv
  BY DEF Init, OneRowInv, OneRow, Named, Doing, Idle
<1>2. Base /\ OneRowInv /\ [Next]_vars => OneRowInv'
  BY OneRowNext
<1> QED
  BY <1>1, <1>2, BaseHolds, PTL DEF Spec

\* The sandbox has one row, whatever fails, unless two starts overlap.
THEOREM OneRowHolds == Spec => []OneRow
<1>1. OneRowInv => OneRow
  BY DEF OneRowInv
<1> QED
  BY <1>1, OneRowInvHolds, PTL

----------------------------------------------------------------------------
(* The connection.  A request that is about to note the connection has just  *)
(* made it, and one that is about to cut it has dropped the cache.           *)

ConnExc == \E a \in {"stop", "delete"}, b \in {"start", "status", "restore"} : Met(a, b)

ConnInv ==
  \/ ConnExc
  \/ /\ connected => stack.attached
     /\ \A p \in Slots : op[p].phase = "note" => stack.attached
     /\ \A p \in Slots : op[p].phase = "detach" => ~connected

\* Requests that make the connection do not meet those that cut it.
LEMMA Unmet ==
  ASSUME Base, ~ConnExc, NEW p \in Slots, NEW q \in Slots,
         op[p].phase = "note", op[q].phase = "detach"
  PROVE  FALSE
<1>1. op[p].kind \in {"start", "status", "restore"} /\ op[q].kind \in {"stop", "delete"}
  BY DEF Base, Placed, InPlace
<1>2. Met(op[q].kind, op[p].kind)
  BY DEF Base, Noted
<1> QED
  BY <1>1, <1>2 DEF ConnExc

LEMMA ConnNext ==
  ASSUME Base, ConnInv, [Next]_vars
  PROVE  ConnInv'
<1>0. /\ TypeOK /\ Base' /\ (ConnExc => ConnExc')
  BY Grows, BaseNext DEF Base, ConnExc, Met
<1>1. CASE ConnExc'
  BY <1>1 DEF ConnInv
<1>2. ASSUME ~ConnExc', NEW p \in Slots, Step(p)
      PROVE  ConnInv'
  <2>1. /\ Others(p) /\ ~ConnExc
        /\ connected => stack.attached
        /\ \A q \in Slots : op[q].phase = "note" => stack.attached
        /\ \A q \in Slots : op[q].phase = "detach" => ~connected
    BY <1>0, <1>2, Moves DEF ConnInv
  <2>2. /\ Attach(p) => stack'.attached = TRUE
        /\ Detach(p) => stack'.attached = FALSE /\ op[p].phase = "detach" /\ connected' = connected
        /\ ~Attach(p) /\ ~Detach(p) => stack'.attached = stack.attached
    BY <1>0, <1>2, Changes, StackShapes, UpShape, DownShape, ApplyShape DEF StackIs, Detach, At
  <2>3. /\ NoteConnected(p) => connected' = TRUE /\ op[p].phase = "note" /\ stack' = stack
        /\ ForgetConnection(p) => connected' = FALSE
        /\ ~NoteConnected(p) => connected' = FALSE \/ connected' = connected
    BY <1>2, Changes DEF NoteConnected, ForgetConnection, WaitDatabase, At
  <2>4. connected' => stack'.attached
    BY <2>1, <2>2, <2>3
  <2>5. ASSUME NEW q \in Slots, op'[q].phase = "note"
        PROVE  stack'.attached
    <3>1. CASE q = p
      BY <1>0, <1>2, <2>2, <2>5, <3>1, Arrivals
    <3>2. CASE q # p
      <4>1. op[q].phase = "note"
        BY <2>1, <2>5, <3>2 DEF Others
      <4> QED
        BY <2>1, <2>2, <4>1, Unmet
    <3> QED
      BY <3>1, <3>2
  <2>6. ASSUME NEW q \in Slots, op'[q].phase = "detach"
        PROVE  ~connected'
    <3>1. CASE q = p
      BY <1>0, <1>2, <2>3, <2>6, <3>1, Arrivals
    <3>2. CASE q # p
      <4>1. op[q].phase = "detach"
        BY <2>1, <2>6, <3>2 DEF Others
      <4> QED
        BY <2>1, <2>3, <4>1, Unmet
    <3> QED
      BY <3>1, <3>2
  <2> QED
    BY <2>4, <2>5, <2>6 DEF ConnInv
<1>3. ASSUME ~ConnExc', \A p \in Slots : ~Step(p)
      PROVE  ConnInv'
  <2>1. CASE stack'.attached = stack.attached /\ connected' = connected
    <3>1. \A q \in Slots : op'[q].phase \in {"note", "detach"} => op'[q] = op[q]
      BY <1>0, <1>3, Elsewhere
    <3> QED
      BY <1>0, <1>3, <2>1, <3>1 DEF ConnInv
  <2>2. CASE connected' = FALSE /\ \A q \in Slots : op'[q] = Idle
    BY <2>2 DEF ConnInv, Idle
  <2>3. CASE \E p \in Slots : Halves(p)
    BY <2>1, <2>3 DEF Halves, StackIs
  <2> QED
    BY <1>0, <1>3, <2>1, <2>2, <2>3, Elsewhere
<1> QED
  BY <1>1, <1>2, <1>3

\* The cached connection of the API container to the stack's network is one,
\* unless a request that connects overlaps a stop or a deletion.
THEOREM ConnectionHolds == Spec => []ConnectionIsReal
<1>1. Init => ConnInv
  BY DEF Init, ConnInv, Idle
<1>2. Base /\ ConnInv /\ [Next]_vars => ConnInv'
  BY ConnNext
<1>3. ConnInv => ConnectionIsReal
  BY DEF ConnInv, ConnExc, ConnectionIsReal
<1> QED
  BY <1>1, <1>2, <1>3, BaseHolds, PTL DEF Spec

----------------------------------------------------------------------------
(* The compose file.  A deletion that is past the containers has left none   *)
(* that it saw, unless a start runs beside it; and what it did not see is    *)
(* noted as long as no compose down has succeeded.                           *)

ReachInv ==
  /\ \A p \in Slots : Doing(p, {"start"}, {"priv", "pub", "repo", "render"}) => op[p].key # None
  /\ \/ SD \/ "containers" \in missed
     \/ /\ Containers => disk.compose # None
        /\ \A p \in Slots : Doing(p, {"delete"}, {"row", "wipe"}) => ~Containers

\* Containers that were passed over are there until compose down takes them.
LEMMA MissedGo ==
  ASSUME NEW p \in Slots, Step(p), TypeOK, "containers" \in missed, "containers" \notin missed'
  PROVE  ComposeDown(p)
<1>1. ~Install(p)
  BY DEF Install
<1>2. ~Running(p) /\ ~Unanswered(p)
  BY DEF Running, Unanswered, PassOver
<1>3. ~Apply(p)
  BY DEF Apply
<1> QED
  BY <1>1, <1>2, <1>3, Changes

LEMMA KeyInHand ==
  ASSUME Base, ReachInv, [Next]_vars, NEW q \in Slots,
         Doing(q, {"start"}, {"priv", "pub", "repo", "render"})'
  PROVE  op'[q].key # None
<1>0. TypeOK /\ (Doing(q, {"start"}, {"priv", "pub", "repo", "render"}) => op[q].key # None)
  BY DEF Base, ReachInv
<1>1. CASE op'[q] = op[q]
  BY <1>0, <1>1 DEF Doing
<1>2. CASE Step(q)
  <2>1. CASE ReadKey(q)
    BY <1>0, <2>1, StartShapes DEF ReadKey, Goes
  <2>2. CASE GenerateKey(q)
    BY <1>0, <2>2, StartShapes, NoneAssumption DEF Goes
  <2>3. CASE WritePrivate(q) \/ WritePublic(q) \/ EnsureRepo(q)
    <3>1. op'[q].key = op[q].key /\ op'[q].kind = op[q].kind
      BY <1>0, <2>3, WriteShapes DEF Goes, Keeps
    <3>2. op[q].phase \in {"priv", "pub", "repo"}
      BY <2>3 DEF WritePrivate, WritePublic, EnsureRepo, At
    <3> QED
      BY <1>0, <3>1, <3>2 DEF Doing
  <2> QED
    BY <1>0, <1>2, <2>1, <2>2, <2>3, Arrivals DEF Doing
<1>3. ASSUME NEW p \in Slots, p # q, Step(p)
      PROVE  op'[q] = op[q]
  BY <1>0, <1>3, Moves DEF Others
<1>4. CASE \A p \in Slots : ~Step(p)
  BY <1>0, <1>1, <1>4, Elsewhere DEF Doing
<1> QED
  BY <1>1, <1>2, <1>3, <1>4

LEMMA ReachNext ==
  ASSUME Base, ReachInv, [Next]_vars
  PROVE  ReachInv'
<1>0. /\ TypeOK /\ Base' /\ Placed /\ (SD => SD')
  BY Grows, BaseNext DEF Base, SD, Met
<1>1. CASE SD' \/ "containers" \in missed'
  BY <1>1, KeyInHand DEF ReachInv
<1>2. ASSUME NEW p \in Slots, ComposeDown(p)
      PROVE  ReachInv'
  <2>1. ~Containers'
    BY <1>0, <1>2, DownShape
  <2> QED
    BY <2>1, KeyInHand DEF ReachInv
<1>3. ASSUME ~SD', "containers" \notin missed', NEW p \in Slots, Step(p), ~ComposeDown(p)
      PROVE  ReachInv'
  <2>0. "containers" \notin missed
    BY <1>0, <1>3, MissedGo
  <2>1. /\ Others(p) /\ InPlace(op[p])
        /\ Containers => disk.compose # None
        /\ \A q \in Slots : Doing(q, {"delete"}, {"row", "wipe"}) => ~Containers
        /\ Doing(p, {"start"}, {"priv", "pub", "repo", "render"}) => op[p].key # None
    BY <1>0, <1>3, <2>0, Moves DEF ReachInv, Placed
  <2>2. /\ Up(p) => /\ op[p].kind = "start" /\ disk.compose # None
                   /\ disk' = disk /\ op'[p].phase = "wait"
        /\ ~Up(p) /\ Containers' => Containers
    <3>1. Up(p) => /\ op[p].kind = "start" /\ disk.compose # None
                   /\ disk' = disk /\ op'[p].phase = "wait"
      BY <1>0, <2>1, UpShape DEF Up, At, InPlace, Goes
    <3>2. ~Up(p) /\ Containers' => Containers
      BY <1>0, <1>3, ContainersGo
    <3> QED
      BY <3>1, <3>2
  <2>3. disk'.compose = disk.compose \/ disk'.compose # None \/ ~Containers'
    <3>1. CASE disk' = disk
      BY <3>1
    <3>2. CASE WritePrivate(p) \/ WritePublic(p) \/ EnsureRepo(p)
      BY <1>0, <3>2, WriteShapes DEF DiskIs
    <3>3. CASE RenderCompose(p)
      BY <1>0, <2>1, <3>3, WriteShapes DEF DiskIs, RenderCompose, At, InPlace, Doing
    <3>4. CASE Save(p)
      BY <1>0, <3>4, SaveShape DEF Saves, DiskIs
    <3>5. CASE Wipe(p)
      BY <2>1, <3>5 DEF Wipe, At, InPlace, Doing, Containers
    <3> QED
      BY <1>3, <3>1, <3>2, <3>3, <3>4, <3>5, Changes
  <2>4. Containers' => disk'.compose # None
    BY <2>1, <2>2, <2>3
  <2>5. ASSUME NEW q \in Slots, Doing(q, {"delete"}, {"row", "wipe"})'
        PROVE  ~Containers'
    <3>1. CASE Up(p)
      <4>1. op'[p].kind = "start" /\ op'[p].phase = "wait" /\ q # p
        BY <1>0, <2>2, <2>5, <3>1, UpShape DEF Goes, Keeps, Doing
      <4> QED
        BY <1>0, <1>3, <2>5, <4>1 DEF Base, Noted, Met, SD, Doing
    <3>2. CASE ~Up(p) /\ q # p
      BY <2>1, <2>2, <2>5, <3>2 DEF Others, Doing
    <3>3. CASE q = p /\ (Running(p) \/ Unanswered(p))
      <4>1. ~Running(p) \/ ~IsRunning
        BY <1>0, <2>5, <3>3, WalkShapes DEF Goes, Doing
      <4>2. ~Containers
        BY <1>3, <3>3, <4>1 DEF Running, Unanswered, PassOver
      <4> QED
        BY <3>3, <4>2 DEF Running, Unanswered, Containers
    <3>4. CASE q = p /\ ListSites(p)
      BY <1>0, <2>1, <2>5, <3>4, StartShapes DEF ListSites, At, InPlace, Goes, Keeps, Doing
    <3>5. CASE q = p /\ DeleteRow(p)
      BY <2>1, <3>5 DEF DeleteRow, At, Doing, Containers
    <3> QED
      BY <1>0, <1>3, <2>5, <3>1, <3>2, <3>3, <3>4, <3>5, Arrivals DEF Doing
  <2> QED
    BY <2>4, <2>5, KeyInHand DEF ReachInv
<1>4. ASSUME ~SD', "containers" \notin missed', \A p \in Slots : ~Step(p)
      PROVE  ReachInv'
  <2>0. missed' = missed
    BY <1>0, <1>4, Elsewhere
  <2>1. /\ Containers => disk.compose # None
        /\ \A q \in Slots : Doing(q, {"delete"}, {"row", "wipe"}) => ~Containers
    BY <1>0, <1>4, <2>0 DEF ReachInv
  <2>2. ASSUME Containers'
        PROVE  disk.compose # None /\ (Containers \/ \E p \in Slots : Halves(p))
    BY <1>0, <1>4, <2>1, <2>2, Elsewhere DEF Halves
  <2>3. ASSUME NEW q \in Slots, Doing(q, {"delete"}, {"row", "wipe"})', Containers'
        PROVE  FALSE
    <3>1. op'[q] = op[q]
      BY <1>0, <1>4, <2>3, Elsewhere DEF Doing
    <3>2. PICK p \in Slots : Halves(p)
      BY <2>1, <2>2, <2>3, <3>1 DEF Doing
    <3>3. op[p].kind \in {"start", "stop", "delete"} /\ p # q
      BY <1>0, <2>3, <3>1, <3>2 DEF Halves, Placed, InPlace, Doing
    <3>4. op[p].phase = "up" \/ (op[p].phase = "down" /\ stack.up)
      BY <3>2 DEF Halves
    <3>5. op[p].phase # "up"
      BY <1>0, <1>4, <2>3, <3>1, <3>3 DEF Base, Noted, Met, SD, Doing, Placed, InPlace
    <3> QED
      BY <2>1, <2>3, <3>1, <3>4, <3>5 DEF Doing, Containers
  <2>4. Containers' => disk'.compose # None
    <3>1. CASE disk' = disk
      BY <2>2, <3>1
    <3>2. CASE disk' # disk
      <4>1. (\E p \in Slots : op[p].phase = "wipe") /\ ~\E p \in Slots : Halves(p)
        BY <1>0, <1>4, <3>2, Elsewhere DEF Halves
      <4> QED
        BY <1>0, <1>4, <2>1, <2>2, <4>1 DEF Doing, Placed, InPlace
    <3> QED
      BY <3>1, <3>2
  <2> QED
    BY <2>3, <2>4, KeyInHand DEF ReachInv
<1> QED
  BY <1>1, <1>2, <1>3, <1>4

LEMMA ReachInvHolds == Spec => []ReachInv
<1>1. Init => ReachInv
  BY DEF Init, ReachInv, Idle, Doing, Down, Containers
<1>2. Base /\ ReachInv /\ [Next]_vars => ReachInv'
  BY ReachNext
<1> QED
  BY <1>1, <1>2, BaseHolds, PTL DEF Spec

\* Containers that run can be found by Stop, Delete and Status, unless a start
\* and a deletion overlapped, or a deletion passed them over: docker compose
\* did not answer it, or only db was there.
THEOREM ReachHolds == Spec => []RunningIsReachable
<1>1. ReachInv => RunningIsReachable
  BY DEF ReachInv, RunningIsReachable, SD
<1> QED
  BY <1>1, ReachInvHolds, PTL

----------------------------------------------------------------------------
(* The row of state.json.  Whoever is to write the file has in hand a row    *)
(* that is there; a deletion that has taken the row is about to wipe it.     *)

RowExc == Ended({"delete", "client"}) \/ Crossed \/ SD

There(s) == s \in Sites /\ Live(s)

Bound(p) ==
  /\ Holds(p) => There(op[p].st.site)
  /\ Doing(p, {"start"}, {"row"}) => op[p].site = None \/ There(op[p].site)
  /\ Doing(p, {"start"}, {"save"}) => There(op[p].site)

RowInv ==
  \/ RowExc
  \/ /\ disk.saved => There(disk.state.site) \/ \E p \in Slots : op[p].phase = "wipe"
     /\ \A p \in Slots : Bound(p)

LEMMA RowExcStays ==
  ASSUME TypeOK, [Next]_vars, RowExc
  PROVE  RowExc'
BY Grows DEF RowExc, Ended, Crossed, SD, Met

\* A deletion is open together with no start and with no request that saves.
LEMMA DeletesAlone ==
  ASSUME Base, ~RowExc, NEW p \in Slots, NEW q \in Slots, p # q,
         op[p].kind = "delete", op[p].phase # "idle", op[q].phase # "idle"
  PROVE  op[q].kind \notin {"start", "break", "stop", "restore"}
BY DEF Base, Noted, RowExc, Crossed, Writers, SD, Met

\* Only a deletion takes a row.
LEMMA LiveKept ==
  ASSUME TypeOK, NEW p \in Slots, Step(p), ~DeleteRow(p)
  PROVE  \A s \in Sites : Live(s) => Live(s)'
<1>1. CASE rows' = rows
  BY <1>1 DEF Live
<1>2. CASE UpdateRow(p)
  BY <1>2, RowShapes DEF RowIs, Live
<1>3. CASE CreateRow(p)
  BY <1>3, RowShapes DEF RowIs, Live
<1> QED
  BY <1>1, <1>2, <1>3, Changes

LEMMA BoundStep ==
  ASSUME Base, RowInv, ~RowExc, ~RowExc', NEW p \in Slots, Step(p), NEW q \in Slots
  PROVE  Bound(q)'
<1>0. /\ TypeOK /\ Bound(p) /\ Bound(q) /\ InPlace(op[p]) /\ Others(p)
      /\ disk.saved => There(disk.state.site) \/ \E r \in Slots : op[r].phase = "wipe"
  <2>1. TypeOK /\ Others(p) /\ InPlace(op[p])
    BY Moves DEF Base, Placed
  <2>2. \A r \in Slots : Bound(r)
    BY DEF RowInv
  <2>3. disk.saved => There(disk.state.site) \/ \E r \in Slots : op[r].phase = "wipe"
    BY DEF RowInv
  <2> QED
    BY <2>1, <2>2, <2>3
<1>1. CASE DeleteRow(p)
  <2>1. op'[p].phase = "wipe" /\ op'[p].kind = "delete"
    BY <1>0, <1>1, RowShapes DEF DeleteRow, Goes, Keeps
  <2>2. q = p \/ op'[q].phase = "idle" \/ op'[q].kind \notin {"start", "break", "stop", "restore"}
    BY <1>0, <1>1, DeletesAlone DEF DeleteRow, At, Others
  <2> QED
    BY <2>1, <2>2 DEF Bound, Holds, Doing, Writers
<1>2. ASSUME ~DeleteRow(p)
      PROVE  \A s \in Sites : Live(s) => Live(s)'
  BY <1>0, <1>2, LiveKept
<1>3. CASE ~DeleteRow(p) /\ q # p
  BY <1>0, <1>2, <1>3 DEF Bound, There, Holds, Doing, Others
<1>4. CASE q = p /\ op'[p].phase \notin {"files", "drop", "row", "save"}
  BY <1>4 DEF Bound, Holds, Doing
<1>5. CASE q = p /\ LoadState(p)
  <2>1. rows' = rows
    BY <1>5 DEF LoadState
  <2>2. CASE op'[p].phase \in {"files", "save"}
    <3>1. /\ op'[p].kind = op[p].kind /\ op[p].kind \in Writers /\ op[p].phase = "load"
          /\ op'[p].st = disk.state /\ disk.saved
      BY <1>0, <1>5, <2>2, LoadShape DEF Loads, Quits, Idle, Writers
    <3>2. \A r \in Slots : op[r].phase # "wipe"
      BY <1>0, <3>1, DeletesAlone DEF Base, Placed, InPlace, Writers
    <3> QED
      BY <1>0, <1>5, <2>1, <2>2, <3>1, <3>2 DEF Bound, Holds, Doing, There, Live, Writers
  <2>3. CASE op'[p].phase \notin {"files", "save"}
    BY <1>0, <1>4, <1>5, <2>3, LoadShape DEF Loads, Quits, Idle
  <2> QED
    BY <2>2, <2>3
<1>6. CASE q = p /\ (BreakFiles(p) \/ DropDatabase(p))
  <2>1. /\ op'[p].st = op[p].st /\ op'[p].kind = "break" /\ op[p].kind = "break"
        /\ op[p].phase \in {"files", "drop"} /\ ~DeleteRow(p)
    BY <1>0, <1>6, StackShapes DEF Goes, Keeps, BreakFiles, DropDatabase, DeleteRow, At, InPlace
  <2> QED
    BY <1>0, <1>2, <1>6, <2>1 DEF Bound, Holds, Doing, Writers, There
<1>7. CASE q = p /\ ListSites(p)
  <2>1. /\ op'[p].phase = "row" /\ op'[p].kind = "start" /\ rows' = rows
        /\ op'[p].site = None \/ op'[p].site \in Named
    BY <1>0, <1>7, StartShapes DEF Goes, Keeps, ListSites, At, InPlace
  <2> QED
    BY <1>7, <2>1 DEF Bound, Holds, Doing, There, Live, Named, Writers
<1>8. CASE q = p /\ (Running(p) \/ Unanswered(p) \/ ComposeDown(p))
  <2>1. op[p].kind \in {"stop", "delete"} /\ op[p].phase \in {"running", "down"}
    BY <1>0, <1>8 DEF Running, Unanswered, ComposeDown, At, InPlace
  <2>2. op'[p].phase \in {"idle", "load", "forget", "row"} /\ op'[p].kind # "start"
    <3>1. CASE Running(p) \/ Unanswered(p)
      BY <1>0, <2>1, <3>1, WalkShapes DEF Goes, Keeps
    <3>2. CASE ComposeDown(p)
      <4>1. \/ Quits(p)
            \/ Goes(p, "load", op[p].key, op[p].site)
            \/ Goes(p, "row", op[p].key, op[p].site)
        BY <1>0, <3>2, DownShape
      <4> QED
        BY <2>1, <4>1 DEF Goes, Keeps, Quits, Idle
    <3> QED
      BY <1>8, <3>1, <3>2
  <2> QED
    BY <1>8, <2>2 DEF Bound, Holds, Doing
<1>9. CASE q = p /\ UpdateRow(p)
  <2>1. op'[p].phase = "save" /\ op'[p].kind = "start" /\ op'[p].site = op[p].site
    BY <1>0, <1>9, RowShapes DEF Goes, Keeps, UpdateRow
  <2>2. There(op[p].site) /\ ~DeleteRow(p)
    BY <1>0, <1>9 DEF UpdateRow, DeleteRow, At, Bound, Doing
  <2> QED
    BY <1>2, <1>9, <2>1, <2>2 DEF Bound, Holds, Doing, There, Writers
<1>10. CASE q = p /\ CreateRow(p)
  <2>1. op[p].kind = "start"
    BY <1>10 DEF CreateRow
  <2>2. PICK s \in Sites : Goes(p, "save", op[p].key, s) /\ RowIs(s, "there", TRUE, disk.priv)
    BY <1>0, <1>10, RowShapes
  <2> QED
    BY <1>10, <2>1, <2>2 DEF Goes, Keeps, RowIs, Bound, Holds, Doing, There, Live, Writers
<1> QED
  BY <1>0, <1>1, <1>3, <1>4, <1>5, <1>6, <1>7, <1>8, <1>9, <1>10, Arrivals

LEMMA RowNext ==
  ASSUME Base, RowInv, [Next]_vars
  PROVE  RowInv'
<1>0. TypeOK /\ Placed /\ (RowExc => RowExc')
  BY RowExcStays DEF Base
<1>1. CASE RowExc'
  BY <1>1 DEF RowInv
<1>2. ASSUME ~RowExc', NEW p \in Slots, Step(p)
      PROVE  RowInv'
  <2>0. /\ ~RowExc /\ Bound(p) /\ InPlace(op[p]) /\ Others(p)
        /\ disk.saved => There(disk.state.site) \/ \E q \in Slots : op[q].phase = "wipe"
    BY <1>0, <1>2, Moves DEF RowInv, Placed
  <2>1. CASE DeleteRow(p)
    <3>1. op'[p].phase = "wipe"
      BY <1>0, <2>1, RowShapes DEF Goes
    <3> QED
      BY <1>2, <2>0, <3>1, BoundStep DEF RowInv
  <2>2. CASE Save(p)
    <3>1. /\ disk'.state.site = IF op[p].kind = "start" THEN op[p].site ELSE op[p].st.site
          /\ op[p].phase = "save" /\ rows' = rows
      BY <1>0, <2>2, SaveShape DEF Saves, Save, At
    <3>2. There(disk'.state.site)
      BY <2>0, <3>1 DEF InPlace, Bound, Holds, Doing, Writers
    <3> QED
      BY <1>2, <2>0, <3>1, <3>2, BoundStep DEF RowInv, There, Live
  <2>3. CASE Wipe(p)
    BY <1>0, <1>2, <2>0, <2>3, BoundStep, WipeShape DEF RowInv, DiskIs
  <2>4. CASE ~DeleteRow(p) /\ ~Save(p) /\ ~Wipe(p)
    <3>1. (disk'.saved <=> disk.saved) /\ disk'.state = disk.state
      BY <1>0, <1>2, <2>4, Changes, WriteShapes DEF DiskIs
    <3>2. \A s \in Sites : Live(s) => Live(s)'
      BY <1>0, <1>2, <2>4, LiveKept
    <3>3. \A q \in Slots : op[q].phase = "wipe" => op'[q].phase = "wipe"
      BY <1>2, <2>0, <2>4, Departures DEF Others
    <3> QED
      BY <1>2, <2>0, <3>1, <3>2, <3>3, BoundStep DEF RowInv, There
  <2> QED
    BY <2>1, <2>2, <2>3, <2>4
<1>3. ASSUME ~RowExc', \A p \in Slots : ~Step(p)
      PROVE  RowInv'
  <2>1. rows' = rows /\ disk' = disk
    <3>1. \A p \in Slots : op[p].phase = "wipe" => op[p].kind \notin cut'
      BY <1>0, <1>3 DEF RowExc, Ended, Placed, InPlace
    <3> QED
      BY <1>0, <1>3, <3>1, Elsewhere DEF RowExc, Ended
  <2>2. \A q \in Slots : op[q].phase = "wipe" => op'[q] = op[q]
    BY <1>0, <1>3, Elsewhere DEF RowExc, Ended, Placed, InPlace
  <2>3. \A q \in Slots : op'[q].phase \in {"files", "drop", "row", "save"} => op'[q] = op[q]
    BY <1>0, <1>3, Elsewhere
  <2> QED
    BY <1>0, <1>3, <2>1, <2>2, <2>3 DEF RowInv, Bound, Holds, Doing, There, Live
<1> QED
  BY <1>1, <1>2, <1>3

LEMMA RowInvHolds == Spec => []RowInv
<1>1. Init => RowInv
  BY DEF Init, RowInv, Bound, Holds, Doing, Idle, Empty
<1>2. Base /\ RowInv /\ [Next]_vars => RowInv'
  BY RowNext
<1> QED
  BY <1>1, <1>2, BaseHolds, PTL DEF Spec

\* When nothing is under way, state.json names a row of the table, unless a
\* deletion failed or overlapped a request that saves, or a client took the row.
THEOREM StateNamesRowHolds == Spec => []StateNamesRow
<1>1. RowInv => StateNamesRow
  <2>1. ASSUME RowInv, Open = {}, disk.saved, ~RowExc
        PROVE  NamesRow
    BY <2>1 DEF RowInv, Open, There, Live, NamesRow, IsSandboxSite
  <2> QED
    BY <2>1 DEF StateNamesRow, RowExc, SD
<1> QED
  BY <1>1, RowInvHolds, PTL

----------------------------------------------------------------------------
(* Damage means the flag.  A request that is to clear the flag, or to remove *)
(* the file that holds it, has seen to it that nothing is damaged, or what   *)
(* it passed over is noted until there is no damage again.                   *)

DamExc == \/ Ended({"break"})
          \/ \E k \in {"start", "stop", "delete", "restore"} : Met("break", k)

Breaking(p) == Doing(p, {"break"}, {"drop", "save"})
Mended(p) ==
  \/ Doing(p, {"start"}, {"seed", "list", "row", "save"})
  \/ Doing(p, {"stop"}, {"load", "save"})
  \/ Doing(p, {"restore"}, {"recheck", "load", "save"})
  \/ Doing(p, {"delete"}, {"row", "wipe"})

Whole == stack.damage = {}

DamInv ==
  \/ DamExc \/ missed # {}
  \/ /\ Whole \/ (disk.saved /\ disk.state.broken) \/ \E p \in Slots : Breaking(p)
     /\ \A p \in Slots : Mended(p) => Whole

LEMMA DamExcStays ==
  ASSUME TypeOK, [Next]_vars, DamExc
  PROVE  DamExc'
BY Grows DEF DamExc, Ended, Met

\* Only a break damages containers.
LEMMA DamageGo ==
  ASSUME TypeOK, NEW p \in Slots, Step(p)
  PROVE  /\ BreakFiles(p) \/ DropDatabase(p) =>
              /\ disk' = disk /\ stack'.damage # {}
              /\ op[p].phase \in {"files", "drop"} /\ op'[p].phase \in {"drop", "save"}
              /\ op'[p].kind = op[p].kind
         /\ ~BreakFiles(p) /\ ~DropDatabase(p) => stack'.damage \subseteq stack.damage
<1>1. CASE BreakFiles(p)
  BY <1>1, StackShapes DEF StackIs, Goes, Keeps, BreakFiles, At
<1>2. CASE DropDatabase(p)
  BY <1>2, StackShapes DEF StackIs, Goes, Keeps, DropDatabase, At
<1>3. CASE stack' = stack
  BY <1>3, <1>1, <1>2
<1>4. CASE Up(p)
  BY <1>1, <1>2, <1>4, UpShape DEF StackIs
<1>5. CASE CreateConfig(p) \/ Install(p) \/ Seed(p) \/ Attach(p) \/ Detach(p)
  BY <1>1, <1>2, <1>5, StackShapes DEF StackIs
<1>6. CASE ComposeDown(p)
  BY <1>1, <1>2, <1>6, DownShape DEF StackIs
<1>7. CASE Apply(p)
  BY <1>1, <1>2, <1>7, ApplyShape DEF StackIs
<1> QED
  BY <1>1, <1>2, <1>3, <1>4, <1>5, <1>6, <1>7, Changes

LEMMA MendedStep ==
  ASSUME Base, DamInv, ~DamExc, missed = {}, missed' = {},
         NEW p \in Slots, Step(p), NEW q \in Slots, Mended(q)'
  PROVE  Whole'
<1>1. TypeOK /\ Others(p) /\ InPlace(op[p]) /\ InPlace(op'[p]) /\ Bare /\ Noted
  BY Moves, PlacedStep DEF Base, Placed, Grounded
<1>2. \A r \in Slots : Mended(r) => Whole
  BY DEF DamInv
<1>3. CASE q # p
  <2>1. Mended(q)
    BY <1>1, <1>3 DEF Others, Mended, Doing
  <2>2. ~BreakFiles(p) /\ ~DropDatabase(p)
    <3>1. op[q].phase # "idle" /\ op[q].kind \in {"start", "stop", "delete", "restore"}
      BY <2>1 DEF Mended, Doing
    <3>2. ASSUME op[p].kind = "break", op[p].phase # "idle"
          PROVE  FALSE
      BY <1>1, <1>3, <3>1, <3>2 DEF Noted, Met, DamExc
    <3> QED
      BY <1>1, <3>2 DEF BreakFiles, DropDatabase, At, InPlace
  <2> QED
    BY <1>1, <1>2, <2>1, <2>2, DamageGo DEF Whole
<1>4. CASE q = p /\ (Install(p) \/ ComposeDown(p))
  BY <1>1, <1>4, StackShapes, DownShape DEF StackIs, Whole
<1>5. CASE q = p /\ (Seed(p) \/ ListSites(p) \/ UpdateRow(p) \/ CreateRow(p) \/ DeleteRow(p))
  <2>1. Mended(p)
    BY <1>1, <1>5 DEF Seed, ListSites, UpdateRow, CreateRow, DeleteRow, At, InPlace, Mended, Doing
  <2>2. ~BreakFiles(p) /\ ~DropDatabase(p)
    BY <1>5 DEF Seed, ListSites, UpdateRow, CreateRow, DeleteRow, BreakFiles, DropDatabase, At
  <2> QED
    BY <1>1, <1>2, <2>1, <2>2, DamageGo DEF Whole
<1>6. CASE q = p /\ AlreadyInstalled(p)
  BY <1>6 DEF AlreadyInstalled, Whole
<1>7. CASE q = p /\ (Running(p) \/ Unanswered(p))
  <2>1. ~Running(p) \/ ~IsRunning
    BY <1>1, <1>7, WalkShapes DEF Goes, Mended, Doing
  <2>2. ~Containers /\ stack' = stack
    BY <1>7, <2>1 DEF Running, Unanswered, PassOver
  <2> QED
    BY <1>1, <2>2 DEF Bare, Whole
<1>8. CASE q = p /\ LoadState(p)
  <2>1. stack' = stack /\ op[p].phase = "load" /\ Loads(p)
    BY <1>1, <1>8, LoadShape DEF LoadState, At
  <2>2. op[p].kind \in {"stop", "restore"}
    BY <1>8, <2>1 DEF Loads, Quits, Idle, Mended, Doing
  <2> QED
    BY <1>2, <2>1, <2>2 DEF Whole, Mended, Doing
<1>9. CASE q = p /\ DropDatabase(p)
  BY <1>1, <1>9, DamageGo DEF Mended, Doing, DropDatabase, At, InPlace
<1>10. CASE q = p /\ RecheckSandbox(p)
  BY <1>1, <1>2, <1>10 DEF RecheckSandbox, At, InPlace, Mended, Doing, Whole
<1>11. CASE q = p /\ Apply(p)
  BY <1>1, <1>11, ApplyShape DEF Whole
<1> QED
  BY <1>1, <1>3, <1>4, <1>5, <1>6, <1>7, <1>8, <1>9, <1>10, <1>11, Arrivals DEF Mended, Doing

\* What is no longer noted as passed over is there no more.
LEMMA MendsAll ==
  ASSUME TypeOK, NEW p \in Slots, Step(p), missed # {}, missed' = {}
  PROVE  Whole'
<1>1. CASE Install(p) \/ ComposeDown(p)
  BY <1>1, StackShapes, DownShape DEF StackIs, Whole
<1>2. CASE Apply(p)
  BY <1>2, ApplyShape DEF Whole
<1>3. ~Running(p) /\ ~Unanswered(p)
  BY DEF Running, Unanswered, PassOver
<1> QED
  BY <1>1, <1>2, <1>3, Changes

LEMMA DamNext ==
  ASSUME Base, DamInv, [Next]_vars
  PROVE  DamInv'
<1>0. TypeOK /\ Placed /\ (DamExc => DamExc')
  BY DamExcStays DEF Base
<1>1. CASE DamExc' \/ missed' # {} \/ Whole'
  BY <1>1 DEF DamInv
<1>2. ASSUME ~DamExc', missed' = {}, ~Whole', NEW p \in Slots, Step(p)
      PROVE  DamInv'
  <2>0. /\ ~DamExc /\ missed = {} /\ InPlace(op[p]) /\ Others(p)
        /\ Whole \/ (disk.saved /\ disk.state.broken) \/ \E q \in Slots : Breaking(q)
        /\ \A q \in Slots : Mended(q) => Whole
    BY <1>0, <1>2, Moves, MendsAll DEF DamInv, Placed
  <2>1. CASE BreakFiles(p) \/ DropDatabase(p)
    <3>1. Breaking(p)'
      BY <1>0, <1>2, <2>0, <2>1, DamageGo DEF Breaking, Doing, InPlace
    <3> QED
      BY <1>2, <2>0, <3>1, MendedStep DEF DamInv
  <2>2. ASSUME ~BreakFiles(p), ~DropDatabase(p)
        PROVE  ~Whole
    BY <1>0, <1>2, <2>2, DamageGo DEF Whole
  <2>3. CASE Save(p)
    <3>1. /\ op[p].phase = "save" /\ stack' = stack /\ Saves(p)
      BY <1>0, <2>3, SaveShape DEF Save, At
    <3>2. disk'.saved /\ (disk'.state.broken <=> op[p].kind = "break")
      BY <3>1 DEF Saves, DiskIs
    <3>3. op[p].kind = "break" \/ Mended(p)
      BY <2>0, <3>1 DEF InPlace, Mended, Doing
    <3> QED
      BY <1>2, <2>0, <3>1, <3>2, <3>3, MendedStep DEF DamInv, Whole
  <2>4. CASE Wipe(p)
    <3>1. Mended(p) /\ stack' = stack
      BY <2>0, <2>4 DEF Wipe, At, InPlace, Mended, Doing
    <3> QED
      BY <1>2, <2>0, <3>1 DEF Whole
  <2>5. CASE ~BreakFiles(p) /\ ~DropDatabase(p) /\ ~Save(p) /\ ~Wipe(p)
    <3>1. (disk'.saved <=> disk.saved) /\ disk'.state = disk.state
      BY <1>0, <1>2, <2>5, Changes, WriteShapes DEF DiskIs
    <3>2. \A q \in Slots : Breaking(q) => Breaking(q)'
      BY <1>2, <2>0, <2>5, Departures DEF Breaking, Doing, Others
    <3> QED
      BY <1>2, <2>0, <2>2, <2>5, <3>1, <3>2, MendedStep DEF DamInv
  <2> QED
    BY <2>1, <2>3, <2>4, <2>5
<1>3. ASSUME ~DamExc', missed' = {}, ~Whole', \A p \in Slots : ~Step(p)
      PROVE  DamInv'
  <2>0. missed' = missed
    BY <1>0, <1>3, Elsewhere
  <2>1. /\ Whole \/ (disk.saved /\ disk.state.broken) \/ \E q \in Slots : Breaking(q)
        /\ \A q \in Slots : Mended(q) => Whole
    BY <1>0, <1>3, <2>0 DEF DamInv
  <2>2. ~Whole
    BY <1>0, <1>3, Elsewhere DEF Whole, Halves, StackIs
  <2>3. \A q \in Slots : Breaking(q) => Breaking(q)'
    BY <1>0, <1>3, Elsewhere DEF Breaking, Doing, DamExc, Ended
  <2>4. \A q \in Slots : ~Mended(q)'
    <3>1. ASSUME NEW q \in Slots, Mended(q)', op'[q].phase = "load"
          PROVE  op'[q] = op[q]
      <4>1. ASSUME NEW p \in Slots, Enters(p)
            PROVE  op'[q] = op[q]
        BY <3>1, <4>1 DEF Enters, Others, First, Mended, Doing
      <4>2. ASSUME NEW p \in Slots, Fail(p) \/ FailPartWay(p)
            PROVE  op'[q] = op[q]
        <5>1. Quits(p)
          BY <1>0, <4>2, FailShape, PartWayShape DEF Halves
        <5> QED
          BY <3>1, <5>1 DEF Quits, Others, Idle
      <4>3. CASE Crash
        BY <1>0, <3>1, <4>3, CrashShape DEF Idle
      <4> QED
        BY <1>0, <1>3, <4>1, <4>2, <4>3, NextShape DEF RenameRow, RemoveRow, vars
    <3> QED
      BY <1>0, <1>3, <2>1, <2>2, <3>1, Elsewhere DEF Mended, Doing
  <2>5. disk' = disk
    <3>1. \A p \in Slots : op[p].phase # "wipe"
      BY <1>0, <2>1, <2>2 DEF Placed, InPlace, Mended, Doing
    <3> QED
      BY <1>0, <1>3, <3>1, Elsewhere
  <2> QED
    BY <2>1, <2>2, <2>3, <2>4, <2>5 DEF DamInv
<1> QED
  BY <1>1, <1>2, <1>3

\* When nothing is under way, a sandbox that is damaged is said to be, unless a
\* break failed or overlapped a request that mends, a restore mended one part,
\* or a deletion passed the containers over.
THEOREM DamageFlagged == Spec => []DamageMeansFlag
<1>1. Init => DamInv
  BY DEF Init, DamInv, Whole, Down, Idle
<1>2. Base /\ DamInv /\ [Next]_vars => DamInv'
  BY DamNext
<1>3. DamInv => DamageMeansFlag
  BY DEF DamInv, DamExc, DamageMeansFlag, Open, Whole, Breaking, Doing
<1> QED
  BY <1>1, <1>2, <1>3, BaseHolds, PTL DEF Spec

----------------------------------------------------------------------------
(* The flag means damage.  While a start that brought the containers up, or  *)
(* a restore that has mended them, is under way, the flag may still be set:  *)
(* it is about to clear it.                                                  *)

FlagExc == \/ Ended({"start", "restore", "client"})
           \/ Met("break", "restore") \/ Met("break", "start") \/ SS

Clearing(p) ==
  \/ Doing(p, {"start"}, {"wait", "look", "attach", "note", "http", "setup", "install", "seed",
                          "list", "row", "save"})
  \/ Doing(p, {"restore"}, {"recheck", "load", "save"})

Flagged == disk.state.broken /\ NamesRow

FlagInv ==
  \/ FlagExc
  \/ /\ Flagged /\ stack.up => ~Whole \/ \E p \in Slots : Clearing(p)
     /\ \A p \in Slots : Breaking(p) => ~Whole \/ ~stack.up
     /\ \A p \in Slots : op[p].kind = "restore" /\ Flagged => disk.state.site = op[p].site

LEMMA FlagExcStays ==
  ASSUME TypeOK, [Next]_vars, FlagExc
  PROVE  FlagExc'
BY Grows DEF FlagExc, Ended, SS, Met

\* The flag is set, for a row that is there, by a break alone.
LEMMA FlaggedStep ==
  ASSUME Base, NEW p \in Slots, Step(p), Flagged'
  PROVE  \/ Save(p) /\ op[p].kind = "break"
         \/ ~Save(p) /\ Flagged /\ disk'.state = disk.state
<1>0. TypeOK /\ DiskGrounded
  BY DEF Base, Grounded
<1>1. CASE Save(p)
  BY <1>0, <1>1, SaveShape DEF Saves, Flagged
<1>2. CASE Wipe(p)
  BY <1>0, <1>2, WipeShape DEF DiskIs, Flagged, NoState
<1>3. CASE ~Save(p) /\ ~Wipe(p)
  <2>1. (disk'.saved <=> disk.saved) /\ disk'.state = disk.state
    BY <1>0, <1>3, Changes, WriteShapes DEF DiskIs
  <2>2. PICK s \in Sites : disk'.saved /\ disk'.state.site = s /\ Live(s)'
    BY DEF Flagged, NamesRow, IsSandboxSite, Live
  <2>3. Live(s)
    BY <1>0, <2>1, <2>2, RowsGo DEF DiskGrounded, Used
  <2> QED
    BY <1>3, <2>1, <2>2, <2>3 DEF Flagged, NamesRow, IsSandboxSite, Live
<1> QED
  BY <1>1, <1>2, <1>3

\* A request that is to clear the flag goes on until it has, or fails.
LEMMA ClearingStep ==
  ASSUME Base, ~FlagExc', NEW p \in Slots, Step(p), Clearing(p), ~Save(p),
         op[p].kind = "restore" => disk.saved /\ disk.state.broken /\ IsSandboxSite(op[p].site)
  PROVE  Clearing(p)'
<1>1. TypeOK /\ Placed /\ "start" \notin cut'
  BY DEF Base, FlagExc, Ended
<1>2. CASE op[p].kind = "restore"
  <2>1. CASE op[p].phase = "recheck"
    BY <1>1, <1>2, <2>1, Departures, WalkShapes DEF Goes, Keeps, Clearing, Doing
  <2>2. CASE op[p].phase = "load"
    <3>1. Loads(p)
      BY <1>1, <2>2, Departures, LoadShape
    <3> QED
      BY <1>2, <3>1 DEF Loads, Clearing, Doing
  <2> QED
    BY <1>2, <2>1, <2>2, Departures DEF Clearing, Doing
<1>3. CASE op[p].kind = "start"
  <2>1. CASE op[p].phase \in {"wait", "look", "attach"}
    <3>1. CASE WaitDatabase(p) \/ LookRunning(p)
      BY <1>1, <1>3, <3>1, WalkShapes DEF Goes, Keeps, Clearing, Doing
    <3>2. CASE LookConnected(p)
      BY <1>1, <1>3, <3>2, WalkShapes DEF LookConnected, Goes, Keeps, Clearing, Doing
    <3>4. CASE LookInVain(p)
      BY <1>1, <1>3, <3>4, WalkShapes DEF LookInVain, Goes, Keeps, Clearing, Doing
    <3>3. CASE Attach(p)
      BY <1>1, <1>3, <3>3, StackShapes DEF Goes, Keeps, Clearing, Doing
    <3> QED
      BY <2>1, <3>1, <3>2, <3>3, <3>4, Departures
  <2>2. CASE op[p].phase \in {"note", "http", "setup"}
    <3>1. CASE NoteConnected(p)
      BY <1>1, <1>3, <3>1, WalkShapes DEF NoteConnected, Goes, Keeps, Clearing, Doing
    <3>2. CASE WaitHTTP(p) \/ AlreadyInstalled(p)
      BY <1>1, <1>3, <3>2, WalkShapes DEF Goes, Keeps, Clearing, Doing
    <3>3. CASE CreateConfig(p)
      BY <1>1, <1>3, <3>3, StackShapes DEF Goes, Keeps, Clearing, Doing
    <3>4. CASE ConfigExists(p)
      BY <1>1, <3>4 DEF ConfigExists
    <3> QED
      BY <2>2, <3>1, <3>2, <3>3, <3>4, Departures
  <2>3. CASE op[p].phase \in {"install", "seed"}
    BY <1>1, <1>3, <2>3, Departures, StackShapes DEF Goes, Keeps, Clearing, Doing
  <2>4. CASE op[p].phase = "list"
    BY <1>1, <1>3, <2>4, Departures, StartShapes DEF Goes, Keeps, Clearing, Doing
  <2>5. CASE op[p].phase = "row"
    <3>1. CASE UpdateRow(p)
      BY <1>1, <1>3, <3>1, RowShapes DEF Goes, Keeps, Clearing, Doing
    <3>2. CASE CreateRow(p)
      BY <1>1, <1>3, <3>2, RowShapes DEF Goes, Keeps, Clearing, Doing
    <3> QED
      BY <1>3, <2>5, <3>1, <3>2, Departures DEF DeleteRow
  <2> QED
    BY <1>3, <2>1, <2>2, <2>3, <2>4, <2>5, Departures DEF Clearing, Doing
<1> QED
  BY <1>2, <1>3 DEF Clearing, Doing

\* Who mends the containers, and who brings them up.
LEMMA MendGo ==
  ASSUME TypeOK, Placed, NEW p \in Slots, Step(p)
  PROVE  /\ ~Whole /\ Whole' => \/ ~stack'.up
                                \/ op[p].kind \in {"start", "restore"} /\ Clearing(p)'
         /\ stack'.up /\ ~stack.up => op[p].kind = "start" /\ Clearing(p)'
<1>0. InPlace(op[p])
  BY DEF Placed
<1>1. CASE Up(p)
  <2>1. op[p].kind = "start" /\ op'[p].kind = "start" /\ op'[p].phase = "wait"
    BY <1>0, <1>1, UpShape DEF Up, At, InPlace, Goes, Keeps
  <2> QED
    BY <2>1 DEF Clearing, Doing
<1>2. CASE Install(p)
  <2>1. op[p].kind = "start" /\ op'[p].kind = "start" /\ op'[p].phase = "seed"
    BY <1>0, <1>2, StackShapes DEF Install, At, InPlace, Goes, Keeps
  <2> QED
    BY <2>1 DEF Clearing, Doing
<1>3. CASE Apply(p)
  <2>1. op[p].kind = "restore" /\ op'[p].kind = "restore" /\ op'[p].phase = "recheck"
    BY <1>0, <1>3, ApplyShape DEF Apply, At, InPlace, Goes, Keeps
  <2>2. stack'.up <=> stack.up
    BY <1>3, ApplyShape DEF StackIs
  <2> QED
    BY <2>1, <2>2 DEF Clearing, Doing
<1>4. CASE ComposeDown(p)
  BY <1>4, DownShape DEF StackIs
<1>5. CASE CreateConfig(p) \/ Seed(p) \/ Attach(p) \/ BreakFiles(p) \/ DropDatabase(p) \/ Detach(p)
  BY <1>5, StackShapes DEF StackIs, Whole
<1>6. CASE stack' = stack
  BY <1>6 DEF Whole
<1> QED
  BY <1>1, <1>2, <1>3, <1>4, <1>5, <1>6, Changes

LEMMA FlagStep ==
  ASSUME Base, FlagInv, ~FlagExc, ~FlagExc', NEW p \in Slots, Step(p)
  PROVE  FlagInv'
<1>0. TypeOK /\ Placed /\ Noted /\ Others(p) /\ InPlace(op[p])
  BY Moves DEF Base, Placed
<1>1. /\ Flagged /\ stack.up => ~Whole \/ \E q \in Slots : Clearing(q)
      /\ \A q \in Slots : Breaking(q) => ~Whole \/ ~stack.up
      /\ \A q \in Slots : op[q].kind = "restore" /\ Flagged => disk.state.site = op[q].site
  BY DEF FlagInv
<1>2. ASSUME NEW q \in Slots, q # p, op[q].kind = "break", op[q].phase # "idle"
      PROVE  op[p].kind \notin {"start", "restore"}
  BY <1>0, <1>2, Departures DEF Noted, Met, FlagExc
<1>3. ASSUME Flagged', stack'.up
      PROVE  ~Whole' \/ \E q \in Slots : Clearing(q)'
  <2>1. CASE Save(p) /\ op[p].kind = "break"
    <3>1. Breaking(p) /\ stack' = stack
      BY <2>1 DEF Save, At, Breaking, Doing
    <3> QED
      BY <1>1, <1>3, <3>1 DEF Whole
  <2>2. CASE ~Save(p) /\ Flagged /\ disk'.state = disk.state
    <3>1. CASE ~stack.up
      BY <1>0, <1>3, <3>1, MendGo
    <3>2. CASE stack.up /\ ~Whole
      BY <1>0, <1>3, <3>2, MendGo
    <3>3. ASSUME stack.up, NEW q \in Slots, Clearing(q)
          PROVE  Clearing(q)'
      <4>1. CASE q # p
        BY <1>0, <3>3, <4>1 DEF Others, Clearing, Doing
      <4>2. CASE q = p
        <5>1. op[p].kind = "restore" => disk.saved /\ disk.state.broken /\ IsSandboxSite(op[p].site)
          BY <1>1, <2>2 DEF Flagged, NamesRow, IsSandboxSite
        <5> QED
          BY <2>2, <3>3, <4>2, <5>1, ClearingStep
      <4> QED
        BY <4>1, <4>2
    <3> QED
      BY <1>1, <2>2, <3>1, <3>2, <3>3
  <2> QED
    BY <1>3, <2>1, <2>2, FlaggedStep
<1>4. ASSUME NEW q \in Slots, Breaking(q)'
      PROVE  ~Whole' \/ ~stack'.up
  <2>1. CASE q # p
    <3>1. Breaking(q) /\ op[p].kind \notin {"start", "restore"}
      BY <1>0, <1>2, <1>4, <2>1 DEF Others, Breaking, Doing
    <3> QED
      BY <1>0, <1>1, <3>1, MendGo
  <2>2. CASE q = p
    <3>1. BreakFiles(p) \/ DropDatabase(p)
      <4>1. op'[p].kind = "break" /\ op'[p].phase \in {"drop", "save"}
        BY <1>4, <2>2 DEF Breaking, Doing
      <4>2. op[p].kind = "break"
        BY <1>0, <4>1, Moves DEF Idle
      <4>3. ~LoadState(p) \/ op'[p].phase \notin {"drop", "save"}
        BY <1>0, <4>1, <4>2, LoadShape DEF Loads, Quits, Idle
      <4> QED
        BY <4>1, <4>2, <4>3, Arrivals, <1>0 DEF UpdateRow, CreateRow
    <3> QED
      BY <1>0, <3>1, DamageGo DEF Whole
  <2> QED
    BY <2>1, <2>2
<1>5. ASSUME NEW q \in Slots, op'[q].kind = "restore", Flagged'
      PROVE  disk'.state.site = op'[q].site
  <2>1. op[q].kind = "restore" /\ op[q].phase # "idle" /\ op'[q].site = op[q].site
    <3>1. CASE q # p
      BY <1>0, <1>5, <3>1 DEF Others, Placed, InPlace
    <3>2. CASE q = p
      <4>1. op[p].kind = "restore" /\ op[p].phase # "idle"
        BY <1>0, <1>5, <3>2, Moves DEF Idle
      <4>2. ~ListSites(p) /\ ~CreateRow(p)
        BY <1>0, <4>1 DEF ListSites, CreateRow, At, InPlace
      <4> QED
        BY <1>0, <1>5, <3>2, <4>1, <4>2, Moves DEF Idle
    <3> QED
      BY <3>1, <3>2
  <2>2. ~(Save(p) /\ op[p].kind = "break")
    <3>1. ASSUME op[p].kind = "break", op[p].phase # "idle"
          PROVE  FALSE
      BY <1>0, <2>1, <3>1 DEF Noted, Met, FlagExc
    <3> QED
      BY <3>1, Departures
  <2> QED
    BY <1>1, <1>5, <2>1, <2>2, FlaggedStep
<1> QED
  BY <1>3, <1>4, <1>5 DEF FlagInv

\* A restore that comes in finds the row of state.json, if that has the flag: it
\* is the only row of the sandbox.
LEMMA FlagElse ==
  ASSUME Base, OneRowInv, FlagInv, ~FlagExc, ~FlagExc', [Next]_vars, \A p \in Slots : ~Step(p)
  PROVE  FlagInv'
<1>0. TypeOK /\ Placed /\ NamesKept
  BY DEF Base, Grounded
<1>1. /\ Flagged /\ stack.up => ~Whole \/ \E q \in Slots : Clearing(q)
      /\ \A q \in Slots : Breaking(q) => ~Whole \/ ~stack.up
      /\ \A q \in Slots : op[q].kind = "restore" /\ Flagged => disk.state.site = op[q].site
  BY DEF FlagInv
<1>2. rows' = rows /\ "start" \notin cut' /\ "restore" \notin cut'
  BY <1>0, Elsewhere DEF FlagExc, Ended
<1>3. (disk'.saved <=> disk.saved) /\ disk'.state = disk.state
  <2>1. ASSUME NEW n \in 0 .. 4, Wipes(n)
        PROVE  (disk'.saved <=> disk.saved) /\ disk'.state = disk.state
    BY <2>1 DEF Wipes, DiskIs
  <2> QED
    BY <1>0, <2>1, Elsewhere
<1>4. Flagged' <=> Flagged
  BY <1>2, <1>3 DEF Flagged, NamesRow, IsSandboxSite
<1>5. ~stack'.up \/ ((Whole' <=> Whole) /\ (stack'.up <=> stack.up))
  BY <1>0, Elsewhere DEF Whole, Halves, StackIs
<1>6. \A q \in Slots : Clearing(q) => Clearing(q)'
  BY <1>0, <1>2, Elsewhere DEF Clearing, Doing
<1>7. \A q \in Slots : Breaking(q)' => Breaking(q)
  BY <1>0, Elsewhere DEF Breaking, Doing
<1>8. ASSUME NEW q \in Slots, op'[q].kind = "restore", Flagged
      PROVE  disk.state.site = op'[q].site
  <2>1. CASE op'[q] = op[q]
    BY <1>1, <1>8, <2>1
  <2>2. CASE Enters(q)
    <3>1. op'[q].site \in Named
      BY <1>0, <1>8, <2>2 DEF Enters, Named, NamesKept, Live, FlagExc, Ended
    <3>2. disk.state.site \in Named
      BY <1>0, <1>8 DEF Flagged, NamesRow, IsSandboxSite, Named, NamesKept, Live, FlagExc, Ended
    <3> QED
      BY <3>1, <3>2 DEF OneRowInv, OneRow, FlagExc, SS
  <2>3. ASSUME NEW p \in Slots, p # q, Enters(p)
        PROVE  op'[q] = op[q]
    BY <2>3 DEF Enters, Others
  <2>4. ASSUME NEW p \in Slots, Fail(p) \/ FailPartWay(p)
        PROVE  op'[q] = op[q]
    <3>1. Quits(p)
      BY <1>0, <2>4, FailShape, PartWayShape DEF Halves
    <3> QED
      BY <1>8, <3>1 DEF Quits, Others, Idle
  <2>5. CASE Crash
    BY <1>0, <1>8, <2>5, CrashShape DEF Idle
  <2> QED
    BY <1>0, <2>1, <2>2, <2>3, <2>4, <2>5, NextShape DEF RenameRow, RemoveRow, vars
<1> QED
  BY <1>1, <1>3, <1>4, <1>5, <1>6, <1>7, <1>8 DEF FlagInv

\* When nothing is under way, a running sandbox whose row is there is damaged if
\* it is said to be, unless a start or a restore failed, a client changed the
\* row, or a break overlapped what clears the flag.
THEOREM FlagTrue == Spec => []FlagMeansDamage
<1>1. Init => FlagInv
  BY DEF Init, FlagInv, Flagged, Breaking, Doing, Idle, Empty, NoState
<1>2. Base /\ OneRowInv /\ FlagInv /\ [Next]_vars => FlagInv'
  <2>1. CASE FlagExc'
    BY <2>1 DEF FlagInv
  <2>2. CASE ~FlagExc'
    BY <2>2, FlagExcStays, FlagStep, FlagElse DEF Base
  <2> QED
    BY <2>1, <2>2
<1>3. FlagInv => FlagMeansDamage
  BY DEF FlagInv, FlagExc, SS, FlagMeansDamage, Flagged, Open, Whole, Clearing, Doing
<1> QED
  BY <1>1, <1>2, <1>3, BaseHolds, OneRowInvHolds, PTL DEF Spec

----------------------------------------------------------------------------
(* The key.  A start has the private key in hand from the moment it is on    *)
(* disk, and nobody else touches the pair meanwhile.                         *)

KeyExc == SS \/ SD \/ {"start", "delete"} \subseteq cut \/ (Overtaken /\ Crossed)

\* The phases of a start from docker compose up on, and those behind it.
Past == {"wait", "look", "attach", "note", "http", "setup", "install", "seed", "list", "row",
         "save"}
Built == {"up"} \cup Past

Secret(p) ==
  /\ Doing(p, {"start"}, {"priv"}) => disk.priv = None
  /\ Doing(p, {"start"}, {"pub", "repo", "render"} \cup Built) =>
       disk.priv = op[p].key /\ disk.priv # None
  /\ Doing(p, {"start"}, Built) => disk.compose = op[p].key

Pair ==
  IF disk.priv = None THEN disk.pub = None \/ "delete" \in cut
  ELSE \/ disk.pub \in {None, disk.priv}
       \/ "delete" \in cut /\ \E p \in Slots : Doing(p, {"start"}, {"pub"})

KeyInv ==
  \/ KeyExc
  \/ Pair /\ \A p \in Slots : Secret(p)

LEMMA KeyExcStays ==
  ASSUME TypeOK, [Next]_vars, KeyExc
  PROVE  KeyExc'
BY Grows DEF KeyExc, SS, SD, Overtaken, Crossed, Met

\* Next to a start there is no other, and no deletion.
LEMMA StartsAlone ==
  ASSUME Base, ~KeyExc, NEW p \in Slots, NEW q \in Slots, p # q,
         op[p].kind = "start", op[q].kind \in {"start", "delete"}
  PROVE  FALSE
<1>1. op[p].phase # "idle" /\ op[q].phase # "idle"
  BY DEF Base, Placed, InPlace
<1> QED
  BY <1>1 DEF Base, Noted, Met, KeyExc, SS, SD

\* A step that leaves the keys alone.
LEMMA KeysSame ==
  ASSUME TypeOK, NEW p \in Slots, Step(p)
  PROVE  /\ ~WritePrivate(p) /\ ~Wipe(p) => disk'.priv = disk.priv
         /\ ~WritePublic(p) /\ ~Wipe(p) => disk'.pub = disk.pub
         /\ ~RenderCompose(p) /\ ~Wipe(p) => disk'.compose = disk.compose
         /\ stack'.up => \/ Up(p)
                         \/ stack.up /\ stack'.key = stack.key
<1>1. /\ ~WritePrivate(p) /\ ~Wipe(p) => disk'.priv = disk.priv
      /\ ~WritePublic(p) /\ ~Wipe(p) => disk'.pub = disk.pub
      /\ ~RenderCompose(p) /\ ~Wipe(p) => disk'.compose = disk.compose
  BY Changes, WriteShapes, SaveShape DEF DiskIs, Saves
<1>2. stack'.up => Up(p) \/ (stack.up /\ stack'.key = stack.key)
  BY Changes, StackShapes, DownShape, ApplyShape DEF StackIs
<1> QED
  BY <1>1, <1>2

\* A start is past docker compose up once it was there.
LEMMA PastFrom ==
  ASSUME Base, NEW p \in Slots, Step(p), op'[p].kind = "start", op'[p].phase \in Past
  PROVE  /\ op[p].kind = "start" /\ op[p].phase \in Built /\ op'[p].key = op[p].key
         /\ ~Wipe(p) /\ ~WritePrivate(p) /\ ~RenderCompose(p)
<1>0. TypeOK /\ InPlace(op[p])
  BY DEF Base, Placed
<1>1. op[p].kind = "start"
  BY <1>0, Moves DEF Idle, Past
<1>2. ~Wipe(p) /\ ~WritePrivate(p) /\ ~RenderCompose(p) /\ ~ReadKey(p) /\ ~GenerateKey(p)
  <2>1. ~Wipe(p)
    BY <1>0, <1>1 DEF Wipe, At, InPlace
  <2>2. ~WritePrivate(p) /\ ~RenderCompose(p) /\ ~ReadKey(p) /\ ~GenerateKey(p)
    BY <1>0, WriteShapes, StartShapes DEF Goes, Past
  <2> QED
    BY <2>1, <2>2
<1>3. op[p].phase \in Built
  <2>1. ~LoadState(p)
    BY <1>0, <1>1, LoadShape DEF Loads, Quits, Past, Idle
  <2>2. ~HalfKey(p) /\ ~WritePublic(p) /\ ~EnsureRepo(p)
    BY <1>0, WriteShapes, WalkShapes DEF Goes, Quits, Idle, Past
  <2>3. op[p].phase \notin {"idle", "load", "key", "priv", "pub", "repo", "render"}
    BY <1>2, <2>1, <2>2, Departures
  <2>4. op[p].phase \notin {"running", "wipe", "forget", "detach", "down", "check", "apply",
                            "recheck", "files", "drop"}
    BY <1>0, <1>1 DEF InPlace
  <2> QED
    BY <1>0, <2>3, <2>4, Typed DEF Phases, Built, Past
<1>4. op'[p].key = op[p].key
  <2>1. op'[p] # Idle /\ op'[p].kind # "status"
    BY DEF Idle
  <2> QED
    BY <1>0, <1>2, <2>1, Moves
<1> QED
  BY <1>1, <1>2, <1>3, <1>4

\* What the start itself does with its key.
LEMMA SecretStep ==
  ASSUME Base, ReachInv, KeyInv, ~KeyExc, NEW p \in Slots, Step(p)
  PROVE  Secret(p)'
<1>0. TypeOK /\ InPlace(op[p]) /\ Secret(p) /\ Pair
  BY DEF Base, Placed, KeyInv
<1>1. CASE ReadKey(p)
  <2>1. Goes(p, "repo", disk.pub, op[p].site) /\ disk' = disk /\ op[p].kind = "start"
        /\ op[p].phase = "key" /\ disk.priv # None /\ disk.pub # None
    BY <1>0, <1>1, StartShapes DEF ReadKey, At, InPlace
  <2>2. \A q \in Slots : ~Doing(q, {"start"}, {"pub"})
    BY <2>1, StartsAlone DEF Doing
  <2> QED
    BY <1>0, <2>1, <2>2 DEF Pair, Goes, Secret, Doing, Built, Past
<1>2. CASE GenerateKey(p)
  <2>1. op'[p].phase = "priv" /\ disk' = disk /\ disk.priv = None
    BY <1>0, <1>2, StartShapes DEF GenerateKey, Goes
  <2> QED
    BY <2>1 DEF Secret, Doing, Built, Past
<1>3. CASE WritePrivate(p)
  <2>1. /\ op'[p].phase = "pub" /\ op'[p].key = op[p].key /\ disk'.priv = op[p].key
        /\ op[p].kind = "start" /\ op[p].phase = "priv"
    BY <1>0, <1>3, WriteShapes DEF WritePrivate, At, InPlace, Goes, DiskIs
  <2> QED
    BY <2>1 DEF ReachInv, Secret, Doing, Built, Past
<1>4. CASE WritePublic(p) \/ EnsureRepo(p)
  <2>1. /\ op'[p].phase \in {"repo", "render"} /\ op'[p].key = op[p].key /\ disk'.priv = disk.priv
        /\ op[p].kind = "start" /\ op[p].phase \in {"pub", "repo"}
    BY <1>0, <1>4, WriteShapes DEF WritePublic, EnsureRepo, At, InPlace, Goes, DiskIs
  <2> QED
    BY <1>0, <2>1 DEF Secret, Doing, Built, Past
<1>5. CASE RenderCompose(p)
  <2>1. /\ op'[p].phase = "up" /\ op'[p].key = op[p].key /\ disk'.priv = disk.priv
        /\ disk'.compose = op[p].key
        /\ op[p].kind = "start" /\ op[p].phase = "render"
    BY <1>0, <1>5, WriteShapes DEF RenderCompose, At, InPlace, Goes, DiskIs
  <2> QED
    BY <1>0, <2>1 DEF Secret, Doing, Built, Past
<1>6. CASE op'[p].kind = "start" /\ op'[p].phase \in Past
  <2>1. /\ op[p].kind = "start" /\ op[p].phase \in Built /\ op'[p].key = op[p].key
        /\ disk'.priv = disk.priv /\ disk'.compose = disk.compose
    BY <1>0, <1>6, PastFrom, KeysSame
  <2> QED
    BY <1>0, <1>6, <2>1 DEF Secret, Doing, Built, Past
<1> QED
  BY <1>0, <1>1, <1>2, <1>3, <1>4, <1>5, <1>6, Arrivals DEF Secret, Doing, Built, Past

\* Next to a step of another request, a start that has its key keeps it.
LEMMA SecretKept ==
  ASSUME Base, KeyInv, ~KeyExc, NEW p \in Slots, Step(p), NEW q \in Slots, q # p
  PROVE  Secret(q)'
<1>0. TypeOK /\ InPlace(op[p]) /\ Secret(q) /\ op'[q] = op[q]
  BY Moves DEF Base, Placed, KeyInv, Others
<1>1. CASE op[q].kind # "start"
  BY <1>0, <1>1 DEF Secret, Doing
<1>2. CASE op[q].kind = "start"
  <2>1. op[p].kind \notin {"start", "delete"}
    BY <1>2, StartsAlone
  <2>2. ~WritePrivate(p) /\ ~RenderCompose(p) /\ ~Wipe(p)
    BY <1>0, <2>1 DEF WritePrivate, RenderCompose, Wipe, At, InPlace
  <2>3. disk'.priv = disk.priv /\ disk'.compose = disk.compose
    BY <1>0, <2>2, KeysSame
  <2> QED
    BY <1>0, <2>3 DEF Secret, Doing
<1> QED
  BY <1>1, <1>2

LEMMA PairStep ==
  ASSUME Base, ReachInv, KeyInv, ~KeyExc, NEW p \in Slots, Step(p)
  PROVE  Pair'
<1>0. TypeOK /\ InPlace(op[p]) /\ Secret(p) /\ Pair /\ cut \subseteq cut' /\ Others(p)
  BY Moves DEF Base, Placed, KeyInv
<1>1. CASE WritePrivate(p)
  <2>1. /\ op'[p].phase = "pub" /\ op'[p].kind = "start" /\ disk'.priv = op[p].key
        /\ disk'.pub = disk.pub /\ op[p].kind = "start" /\ op[p].phase = "priv"
    BY <1>0, <1>1, WriteShapes DEF WritePrivate, At, InPlace, Goes, Keeps, DiskIs
  <2>2. disk'.priv # None /\ disk.priv = None
    BY <1>0, <2>1 DEF ReachInv, Secret, Doing
  <2> QED
    BY <1>0, <2>1, <2>2 DEF Pair, Doing
<1>2. CASE WritePublic(p)
  <2>1. /\ disk'.pub = op[p].key /\ disk'.priv = disk.priv
        /\ op[p].kind = "start" /\ op[p].phase = "pub"
    BY <1>0, <1>2, WriteShapes DEF WritePublic, At, InPlace, Goes, DiskIs
  <2> QED
    BY <1>0, <2>1 DEF Pair, Secret, Doing
<1>3. CASE Wipe(p)
  BY <1>0, <1>3, WipeShape DEF DiskIs, Pair
<1>4. CASE ~WritePrivate(p) /\ ~WritePublic(p) /\ ~Wipe(p)
  <2>1. disk'.priv = disk.priv /\ disk'.pub = disk.pub
    BY <1>0, <1>4, KeysSame
  <2>2. \A q \in Slots : Doing(q, {"start"}, {"pub"}) => Doing(q, {"start"}, {"pub"})'
    <3> SUFFICES ASSUME NEW q \in Slots, Doing(q, {"start"}, {"pub"})
                 PROVE  Doing(q, {"start"}, {"pub"})'
      OBVIOUS
    <3>1. q # p
      BY <1>4, Departures DEF Doing
    <3> QED
      BY <1>0, <3>1 DEF Others, Doing
  <2> QED
    BY <1>0, <2>1, <2>2 DEF Pair
<1> QED
  BY <1>1, <1>2, <1>3, <1>4

\* A start or a deletion that is cut short may leave half a pair; not both.
LEMMA KeyElse ==
  ASSUME Base, KeyInv, ~KeyExc, ~KeyExc', [Next]_vars, \A p \in Slots : ~Step(p)
  PROVE  KeyInv'
<1>0. /\ TypeOK /\ Placed /\ Pair /\ cut \subseteq cut' /\ (\A p \in Slots : Secret(p))
  BY Grows DEF Base, KeyInv
<1>1. CASE disk' = disk
  <2>1. \A q \in Slots : Secret(q)'
    <3>1. ASSUME NEW q \in Slots, Doing(q, {"start"}, {"priv", "pub", "repo", "render"} \cup Built)'
          PROVE  op'[q] = op[q]
      BY <1>0, <3>1, Elsewhere DEF Doing, Built, Past
    <3> QED
      BY <1>0, <1>1, <3>1 DEF Secret, Doing
  <2>2. Pair'
    <3>1. \A q \in Slots : Doing(q, {"start"}, {"pub"}) => op'[q] = op[q] \/ "start" \in cut'
      BY <1>0, Elsewhere DEF Doing
    <3> QED
      BY <1>0, <1>1, <3>1 DEF Pair, Doing, KeyExc
  <2> QED
    BY <2>1, <2>2 DEF KeyInv
<1>2. CASE disk' # disk
  <2>1. PICK p \in Slots : op[p].phase = "wipe" /\ op[p].kind \in cut'
    BY <1>0, <1>2, Elsewhere
  <2>2. PICK n \in 0 .. 4 : Wipes(n)
    BY <1>0, <1>2, Elsewhere
  <2>3. op[p].kind = "delete" /\ "delete" \in cut'
    BY <1>0, <2>1 DEF Placed, InPlace
  <2>4. \A q \in Slots : op[q].kind # "start"
    BY <2>3, StartsAlone
  <2>5. \A q \in Slots : Secret(q)'
    <3>1. ASSUME NEW q \in Slots, Doing(q, {"start"}, {"priv", "pub", "repo", "render"} \cup Built)'
          PROVE  FALSE
      BY <1>0, <2>4, <3>1, Elsewhere DEF Doing, Built, Past
    <3> QED
      BY <3>1 DEF Secret, Doing
  <2>6. Pair'
    <3>1. CASE disk'.priv = None
      BY <2>3, <3>1 DEF Pair
    <3>2. CASE disk'.priv # None
      BY <1>0, <2>2, <2>4, <3>2 DEF Pair, Wipes, DiskIs, Doing
    <3> QED
      BY <3>1, <3>2
  <2> QED
    BY <2>5, <2>6 DEF KeyInv
<1> QED
  BY <1>1, <1>2

LEMMA KeyNext ==
  ASSUME Base, ReachInv, KeyInv, [Next]_vars
  PROVE  KeyInv'
<1>1. CASE KeyExc'
  BY <1>1 DEF KeyInv
<1>2. CASE ~KeyExc'
  <2>1. ~KeyExc
    BY <1>2, KeyExcStays DEF Base
  <2>2. ASSUME NEW p \in Slots, Step(p)
        PROVE  KeyInv'
    <3>1. \A q \in Slots : Secret(q)'
      BY <2>1, <2>2, SecretStep, SecretKept
    <3> QED
      BY <2>1, <2>2, <3>1, PairStep DEF KeyInv
  <2> QED
    BY <1>2, <2>1, <2>2, KeyElse
<1> QED
  BY <1>1, <1>2

LEMMA KeyInvHolds == Spec => []KeyInv
<1>1. Init => KeyInv
  BY DEF Init, KeyInv, Pair, Secret, Idle, Doing, Empty
<1>2. Base /\ ReachInv /\ KeyInv /\ [Next]_vars => KeyInv'
  BY KeyNext
<1> QED
  BY <1>1, <1>2, BaseHolds, ReachInvHolds, PTL DEF Spec

----------------------------------------------------------------------------
(* Who has a site in hand: state.json, and whoever will write it back.       *)

Deleting == {"running", "forget", "detach", "down", "row"}

\* The file changes its site by a save, and loses it to a deletion.
LEMMA FileGo ==
  ASSUME TypeOK, NEW p \in Slots, Step(p)
  PROVE  \/ Save(p) /\ Saves(p)
         \/ Wipe(p) /\ ~disk'.saved
         \/ ~Save(p) /\ ~Wipe(p) /\ (disk'.saved <=> disk.saved) /\ disk'.state = disk.state
<1>1. Save(p) => Saves(p)
  BY SaveShape
<1>2. Wipe(p) => ~disk'.saved
  BY WipeShape DEF DiskIs
<1>3. ~Save(p) /\ ~Wipe(p) => (disk'.saved <=> disk.saved) /\ disk'.state = disk.state
  BY Changes, WriteShapes DEF DiskIs
<1> QED
  BY <1>1, <1>2, <1>3

\* A request that is to write the state back has it from the file.
LEMMA HoldsFrom ==
  ASSUME Base, NEW p \in Slots, Step(p), NEW q \in Slots, Holds(q)'
  PROVE  \/ Holds(q) /\ op'[q].st = op[q].st
         \/ q = p /\ LoadState(p) /\ disk.saved /\ op'[q].st = disk.state
<1>1. TypeOK /\ InPlace(op[p]) /\ InPlace(op'[p]) /\ Others(p)
  BY Moves, PlacedStep DEF Base, Placed
<1>2. CASE q # p
  BY <1>1, <1>2 DEF Others, Holds, Doing
<1>3. CASE q = p /\ LoadState(p)
  BY <1>1, <1>3, LoadShape DEF Loads, Quits, Idle, Holds, Doing, Writers
<1>4. CASE q = p /\ (BreakFiles(p) \/ DropDatabase(p))
  BY <1>1, <1>4, StackShapes DEF BreakFiles, DropDatabase, At, InPlace, Goes, Keeps, Holds, Doing,
     Writers
<1>5. CASE q = p /\ (UpdateRow(p) \/ CreateRow(p))
  <2>1. op'[p].kind = "start"
    BY <1>1, <1>5, RowShapes DEF UpdateRow, CreateRow, Goes, Keeps
  <2> QED
    BY <1>5, <2>1 DEF Holds, Doing, Writers
<1> QED
  BY <1>1, <1>2, <1>3, <1>4, <1>5, Arrivals DEF Holds, Doing

\* A deletion has from the file the row that it will take.
LEMMA DeletesFrom ==
  ASSUME Base, NEW p \in Slots, Step(p), NEW q \in Slots, Doing(q, {"delete"}, Deleting)'
  PROVE  \/ Doing(q, {"delete"}, Deleting) /\ op'[q].had = op[q].had /\ op'[q].st = op[q].st
         \/ q = p /\ LoadState(p) /\ op'[q].had = disk.saved /\ op'[q].st = disk.state
<1>1. TypeOK /\ InPlace(op[p]) /\ Others(p)
  BY Moves DEF Base, Placed
<1>2. CASE q # p
  BY <1>1, <1>2 DEF Others, Doing
<1>3. CASE q = p /\ LoadState(p)
  BY <1>1, <1>3, LoadShape DEF Loads, Quits, Idle, Doing, Deleting
<1>4. CASE q = p /\ (Running(p) \/ Unanswered(p) \/ ForgetConnection(p))
  BY <1>1, <1>4, WalkShapes DEF Running, Unanswered, ForgetConnection, At, Goes, Keeps, Doing,
     Deleting
<1>7. CASE q = p /\ (Detach(p) \/ StayAttached(p))
  BY <1>1, <1>7, WalkShapes, StackShapes DEF Detach, StayAttached, At, Goes, Keeps, Doing,
     Deleting
<1>5. CASE q = p /\ ComposeDown(p)
  <2>1. \/ Quits(p)
        \/ Goes(p, "load", op[p].key, op[p].site)
        \/ Goes(p, "row", op[p].key, op[p].site)
    BY <1>1, <1>5, DownShape
  <2> QED
    BY <1>5, <2>1 DEF ComposeDown, At, Goes, Keeps, Quits, Idle, Doing, Deleting
<1>6. CASE q = p /\ ListSites(p)
  BY <1>1, <1>6, StartShapes DEF ListSites, At, InPlace, Goes, Keeps, Doing
<1> QED
  BY <1>1, <1>2, <1>3, <1>4, <1>5, <1>6, <1>7, Arrivals DEF Doing, Deleting

\* A start is about to save when it has its row, a deletion about to wipe when
\* its row is gone.
LEMMA RowFrom ==
  ASSUME Base, NEW p \in Slots, Step(p), NEW q \in Slots
  PROVE  /\ Doing(q, {"start"}, {"save"})' => \/ q # p /\ op'[q] = op[q]
                                              \/ q = p /\ (UpdateRow(p) \/ CreateRow(p))
         /\ Doing(q, {"delete"}, {"wipe"})' => \/ q # p /\ op'[q] = op[q]
                                               \/ q = p /\ DeleteRow(p)
<1>1. TypeOK /\ InPlace(op[p]) /\ Others(p)
  BY Moves DEF Base, Placed
<1>2. CASE q # p
  BY <1>1, <1>2 DEF Others
<1>3. CASE q = p
  <2>1. op'[p].kind = "start" => ~LoadState(p) \/ op'[p].phase # "save"
    BY <1>1, LoadShape DEF Loads, Quits, Idle
  <2>2. op'[p].kind = "start" => ~DropDatabase(p)
    BY <1>1, StackShapes DEF Goes, Keeps, DropDatabase, At, InPlace
  <2> QED
    BY <1>1, <1>3, <2>1, <2>2, Arrivals DEF Doing
<1> QED
  BY <1>2, <1>3

----------------------------------------------------------------------------
(* The key in the row.  Every row that state.json names, or will name, has   *)
(* the private key; a deletion that is past the state it has read is about   *)
(* to take each of them.                                                     *)

Held(s) == IsSandboxSite(s) \/ \E p \in Slots : Holds(p) /\ op[p].st.site = s

HeldHasKey == \A s \in Sites : Held(s) /\ Live(s) => rows[s].key = disk.priv /\ disk.priv # None
SavedHasKey(p) ==
  Doing(p, {"start"}, {"save"}) /\ Live(op[p].site) => rows[op[p].site].key = disk.priv
HeldGoes(p) ==
  \A s \in Sites : /\ Doing(p, {"delete"}, Deleting) /\ Held(s) /\ Live(s) =>
                        op[p].had /\ op[p].st.site = s
                   /\ Doing(p, {"delete"}, {"wipe"}) /\ Held(s) => ~Live(s)
OneHeld ==
  \/ Overtaken
  \/ /\ \A s, t \in Sites : Held(s) /\ Held(t) => s = t
     /\ \A s \in Sites : ~disk.saved /\ Held(s) => ~Live(s)

HoldInv ==
  \/ KeyExc
  \/ /\ HeldHasKey /\ OneHeld
     /\ \A p \in Slots : SavedHasKey(p) /\ HeldGoes(p)

LEMMA HeldUsed ==
  ASSUME Base, NEW s \in Sites, Held(s)
  PROVE  Used(s)
BY DEF Base, Grounded, DiskGrounded, InHand, Held, IsSandboxSite

\* Only a start brings another site into the file.
LEMMA HeldStep ==
  ASSUME Base, NEW p \in Slots, Step(p), NEW s \in Sites, Held(s)'
  PROVE  Held(s) \/ (Save(p) /\ op[p].kind = "start" /\ s = op[p].site)
<1>0. TypeOK /\ InPlace(op[p])
  BY DEF Base, Placed
<1>1. CASE IsSandboxSite(s)'
  <2>1. CASE Save(p) /\ Saves(p)
    BY <1>0, <1>1, <2>1 DEF Save, At, InPlace, Saves, IsSandboxSite, Held, Holds, Doing, Writers
  <2>2. CASE ~Save(p)
    BY <1>0, <1>1, <2>2, FileGo DEF IsSandboxSite, Held
  <2> QED
    BY <1>0, <2>1, <2>2, SaveShape
<1>2. ASSUME NEW q \in Slots, Holds(q)', op'[q].st.site = s
      PROVE  Held(s)
  BY <1>2, HoldsFrom DEF Held, IsSandboxSite
<1> QED
  BY <1>1, <1>2 DEF Held

\* A row that is held is not made by this step, nor changed but for its key.
LEMMA HeldRow ==
  ASSUME Base, NEW p \in Slots, Step(p), NEW s \in Sites, Held(s), Live(s)'
  PROVE  Live(s) /\ (rows'[s].key = rows[s].key \/ rows'[s].key = disk.priv)
<1>1. TypeOK /\ Used(s)
  BY HeldUsed DEF Base
<1>2. Live(s)
  BY <1>1, RowsGo DEF Used
<1>3. CASE rows' = rows
  BY <1>2, <1>3
<1>4. CASE UpdateRow(p)
  BY <1>1, <1>2, <1>4, RowShapes DEF RowIs
<1>5. CASE CreateRow(p)
  BY <1>1, <1>2, <1>5, RowShapes DEF RowIs
<1>6. CASE DeleteRow(p)
  BY <1>1, <1>2, <1>6, RowShapes DEF RowIs
<1> QED
  BY <1>2, <1>3, <1>4, <1>5, <1>6, Changes

LEMMA HeldHasKeyStep ==
  ASSUME Base, KeyInv, HoldInv, ~KeyExc, NEW p \in Slots, Step(p)
  PROVE  HeldHasKey'
<1>0. TypeOK /\ InPlace(op[p]) /\ Secret(p) /\ HeldHasKey /\ SavedHasKey(p) /\ HeldGoes(p)
  BY DEF Base, Placed, KeyInv, HoldInv
<1> SUFFICES ASSUME NEW s \in Sites, Held(s)', Live(s)'
             PROVE  rows'[s].key = disk'.priv /\ disk'.priv # None
  BY DEF HeldHasKey
<1>1. CASE Save(p) /\ op[p].kind = "start" /\ s = op[p].site
  <2>1. rows' = rows /\ disk'.priv = disk.priv /\ op[p].phase = "save"
    BY <1>0, <1>1, SaveShape DEF Save, At, Saves, DiskIs
  <2>2. disk.priv # None
    BY <1>0, <1>1, <2>1 DEF Secret, Doing, Built, Past
  <2> QED
    BY <1>0, <1>1, <2>1, <2>2 DEF SavedHasKey, Doing, Live
<1>2. CASE Held(s)
  <2>1. /\ Live(s) /\ rows[s].key = disk.priv /\ disk.priv # None
        /\ rows'[s].key = rows[s].key \/ rows'[s].key = disk.priv
    BY <1>0, <1>2, HeldRow DEF HeldHasKey
  <2>2. ~WritePrivate(p)
    BY <1>0, <2>1 DEF WritePrivate, At, InPlace, Secret, Doing
  <2>3. ~Wipe(p)
    BY <1>0, <1>2, <2>1 DEF Wipe, At, InPlace, HeldGoes, Doing
  <2> QED
    BY <1>0, <2>1, <2>2, <2>3, KeysSame
<1> QED
  BY <1>1, <1>2, HeldStep

LEMMA SavedHasKeyStep ==
  ASSUME Base, KeyInv, HoldInv, ~KeyExc, NEW p \in Slots, Step(p), NEW q \in Slots
  PROVE  SavedHasKey(q)'
<1>0. TypeOK /\ InPlace(op[p]) /\ SavedHasKey(q)
  BY DEF Base, Placed, HoldInv
<1> SUFFICES ASSUME Doing(q, {"start"}, {"save"})', Live(op[q].site)'
             PROVE  rows'[op'[q].site].key = disk'.priv
  BY DEF SavedHasKey
<1>1. CASE q # p /\ op'[q] = op[q]
  <2>1. op[p].kind \notin {"start", "delete"}
    BY <1>1, StartsAlone DEF Doing
  <2>2. rows' = rows
    BY <2>1, Changes DEF UpdateRow, CreateRow, DeleteRow
  <2>3. disk'.priv = disk.priv
    BY <1>0, <2>1, KeysSame DEF WritePrivate, Wipe, At, InPlace
  <2> QED
    BY <1>0, <1>1, <2>2, <2>3 DEF SavedHasKey, Doing, Live
<1>2. CASE q = p /\ UpdateRow(p)
  <2>1. disk' = disk /\ op'[p].site = op[p].site
    BY <1>0, <1>2, RowShapes DEF UpdateRow, Goes
  <2> QED
    BY <1>0, <1>2, <2>1, RowShapes DEF RowIs, Live
<1>3. CASE q = p /\ CreateRow(p)
  <2>1. PICK s \in Sites : Goes(p, "save", op[p].key, s) /\ RowIs(s, "there", TRUE, disk.priv)
    BY <1>0, <1>3, RowShapes
  <2> QED
    BY <1>3, <2>1 DEF CreateRow, Goes, RowIs
<1> QED
  BY <1>1, <1>2, <1>3, RowFrom

\* A deletion that reads the state sees every row that is held: a request that
\* holds another would be open together with it.
LEMMA HeldGoesStep ==
  ASSUME Base, HoldInv, ~KeyExc, NEW p \in Slots, Step(p), NEW q \in Slots, NEW s \in Sites,
         Held(s)', Live(s)'
  PROVE  /\ Doing(q, {"delete"}, Deleting)' => op'[q].had /\ op'[q].st.site = s
         /\ ~Doing(q, {"delete"}, {"wipe"})'
<1>0. TypeOK /\ InPlace(op[p]) /\ OneHeld /\ HeldGoes(q) /\ DiskGrounded /\ Noted
  BY DEF Base, Placed, HoldInv, Grounded
<1>1. ASSUME q # p, op'[q] = op[q], op[q].kind = "delete"
      PROVE  Held(s) /\ Live(s)
  BY <1>1, HeldStep, HeldRow, StartsAlone
<1>2. ASSUME op[p].kind # "start"
      PROVE  Held(s) /\ Live(s)
  BY <1>2, HeldStep, HeldRow
<1>3. ASSUME Doing(q, {"delete"}, Deleting)'
      PROVE  op'[q].had /\ op'[q].st.site = s
  <2>1. CASE Doing(q, {"delete"}, Deleting) /\ op'[q].had = op[q].had /\ op'[q].st = op[q].st
    <3>1. Held(s) /\ Live(s)
      BY <1>2, <2>1, HeldStep, HeldRow, StartsAlone DEF Doing
    <3> QED
      BY <1>0, <2>1, <3>1 DEF HeldGoes
  <2>2. CASE q = p /\ LoadState(p) /\ op'[q].had = disk.saved /\ op'[q].st = disk.state
    <3>1. op[p].kind = "delete" /\ op[p].phase = "load"
      BY <1>0, <1>3, <2>2, LoadShape DEF Loads, Quits, Idle, Doing
    <3>2. Held(s) /\ Live(s)
      BY <1>2, <3>1
    <3>3. CASE IsSandboxSite(s)
      BY <2>2, <3>3 DEF IsSandboxSite
    <3>4. CASE ~IsSandboxSite(s)
      <4>1. PICK r \in Slots : Holds(r) /\ op[r].st.site = s
        BY <3>2, <3>4 DEF Held
      <4>2. Crossed
        BY <1>0, <3>1, <4>1 DEF Noted, Holds, Doing, Crossed, Met
      <4>3. ~Overtaken
        BY <4>2 DEF KeyExc
      <4>4. disk.saved
        BY <1>0, <3>2, <4>3 DEF OneHeld
      <4>5. disk.state.site \in Sites /\ Held(disk.state.site)
        BY <1>0, <4>4 DEF DiskGrounded, Used, Held, IsSandboxSite
      <4> QED
        BY <1>0, <3>2, <3>4, <4>3, <4>4, <4>5 DEF OneHeld, IsSandboxSite
    <3> QED
      BY <3>3, <3>4
  <2> QED
    BY <1>3, <2>1, <2>2, DeletesFrom
<1>4. ASSUME Doing(q, {"delete"}, {"wipe"})'
      PROVE  FALSE
  <2>1. CASE q # p /\ op'[q] = op[q]
    BY <1>0, <1>1, <1>4, <2>1 DEF HeldGoes, Doing
  <2>2. CASE q = p /\ DeleteRow(p)
    <3>1. op[p].kind = "delete" /\ op[p].phase = "row"
      BY <2>2 DEF DeleteRow, At
    <3>2. op[p].had /\ op[p].st.site = s
      BY <1>0, <1>2, <2>2, <3>1 DEF HeldGoes, Doing, Deleting
    <3> QED
      BY <1>0, <2>2, <3>2, NoneAssumption, RowShapes DEF RowIs, Live
  <2> QED
    BY <1>4, <2>1, <2>2, RowFrom
<1> QED
  BY <1>3, <1>4

LEMMA OneHeldStep ==
  ASSUME Base, HoldInv, ~KeyExc, NEW p \in Slots, Step(p)
  PROVE  OneHeld'
<1>0. /\ TypeOK /\ InPlace(op[p]) /\ OneHeld /\ Noted /\ HeldGoes(p) /\ Others(p)
      /\ Overtaken => Overtaken'
  BY Moves DEF Base, Placed, HoldInv, Overtaken, Met
<1>1. CASE Overtaken'
  BY <1>1 DEF OneHeld
<1>2. CASE ~Overtaken'
  <2>1. ASSUME Save(p), op[p].kind = "start", NEW t \in Sites, Held(t)'
        PROVE  t = op[p].site
    <3>1. disk'.state.site = op[p].site /\ op'[p].kind = "status"
      BY <1>0, <2>1, SaveShape DEF Saves
    <3>2. CASE IsSandboxSite(t)'
      BY <3>1, <3>2 DEF IsSandboxSite
    <3>3. ASSUME NEW q \in Slots, Holds(q)'
          PROVE  FALSE
      <4>1. Holds(q) /\ q # p /\ op[p].phase = "save"
        BY <1>0, <2>1, <3>1, <3>3 DEF Others, Holds, Doing, Writers, Save, At
      <4>2. op[q].kind \in Writers /\ Met("start", op[q].kind)
        BY <1>0, <2>1, <4>1 DEF Noted, Holds, Doing, Met
      <4> QED
        BY <1>0, <1>2, <4>2 DEF Overtaken
    <3> QED
      BY <2>1, <3>2, <3>3 DEF Held
  <2>2. ASSUME NEW s \in Sites, NEW t \in Sites, Held(s)', Held(t)'
        PROVE  s = t
    <3>1. CASE Save(p) /\ op[p].kind = "start"
      BY <2>1, <2>2, <3>1
    <3>2. CASE ~(Save(p) /\ op[p].kind = "start")
      BY <1>0, <1>2, <2>2, <3>2, HeldStep DEF OneHeld
    <3> QED
      BY <3>1, <3>2
  <2>3. ASSUME NEW s \in Sites, ~disk'.saved, Held(s)', Live(s)'
        PROVE  FALSE
    <3>1. ~Save(p)
      BY <1>0, <2>3, SaveShape DEF Saves, DiskIs
    <3>2. Held(s) /\ Live(s)
      BY <2>3, <3>1, HeldStep, HeldRow
    <3>3. ~Wipe(p)
      BY <1>0, <3>2 DEF HeldGoes, Wipe, At, InPlace, Doing
    <3> QED
      BY <1>0, <1>2, <2>3, <3>1, <3>2, <3>3, FileGo DEF OneHeld
  <2> QED
    BY <2>2, <2>3 DEF OneHeld
<1> QED
  BY <1>1, <1>2

LEMMA HeldElse ==
  ASSUME Base, [Next]_vars, \A p \in Slots : ~Step(p)
  PROVE  /\ disk'.saved <=> disk.saved
         /\ \A s \in Sites : Held(s)' => Held(s)
<1>0. TypeOK
  BY DEF Base
<1>1. (disk'.saved <=> disk.saved) /\ disk'.state = disk.state
  <2>1. ASSUME NEW n \in 0 .. 4, Wipes(n)
        PROVE  (disk'.saved <=> disk.saved) /\ disk'.state = disk.state
    BY <2>1 DEF Wipes, DiskIs
  <2> QED
    BY <1>0, <2>1, Elsewhere
<1>2. \A q \in Slots : Holds(q)' => op'[q] = op[q]
  BY <1>0, Elsewhere DEF Holds, Doing
<1> QED
  BY <1>1, <1>2 DEF Held, Holds, Doing, IsSandboxSite

LEMMA HoldElse ==
  ASSUME Base, KeyInv, HoldInv, ~KeyExc, [Next]_vars, \A p \in Slots : ~Step(p)
  PROVE  HoldInv'
<1>0. /\ TypeOK /\ HeldHasKey /\ OneHeld /\ (\A p \in Slots : SavedHasKey(p) /\ HeldGoes(p))
      /\ Placed /\ (Overtaken => Overtaken')
  BY Grows DEF Base, HoldInv, Overtaken, Met
<1>1. disk'.saved <=> disk.saved
  BY HeldElse
<1>2. \A q \in Slots : Doing(q, {"start", "break", "stop", "restore", "delete"},
                             {"files", "drop", "save", "running", "detach", "down", "row", "wipe"})'
                       => op'[q] = op[q]
  BY <1>0, Elsewhere DEF Doing
<1>3. \A s \in Sites : Held(s)' => Held(s)
  BY HeldElse
<1>4. \A s \in Sites : Live(s)' => Live(s) /\ rows'[s].key = rows[s].key
  BY <1>0, Elsewhere
<1>5. disk' = disk \/ \E p \in Slots : Doing(p, {"delete"}, {"wipe"})
  BY <1>0, Elsewhere DEF Placed, InPlace, Doing
<1>6. HeldHasKey'
  BY <1>0, <1>3, <1>4, <1>5 DEF HeldHasKey, HeldGoes
<1>7. OneHeld'
  BY <1>0, <1>1, <1>3, <1>4 DEF OneHeld
<1>8. ASSUME NEW q \in Slots
      PROVE  SavedHasKey(q)' /\ HeldGoes(q)'
  <2>1. SUFFICES ASSUME op'[q] = op[q]
                 PROVE  SavedHasKey(q)' /\ HeldGoes(q)'
    <3>1. Doing(q, {"start"}, {"save"})' \/ Doing(q, {"delete"}, Deleting \cup {"wipe"})'
            => op'[q] = op[q]
      BY <1>0, <1>2, Elsewhere DEF Doing, Deleting
    <3> QED
      BY <2>1, <3>1 DEF SavedHasKey, HeldGoes, Doing
  <2>2. SavedHasKey(q)'
    <3>1. Doing(q, {"start"}, {"save"}) => disk' = disk /\ op[q].site \in Sites
      BY <1>0, <1>5, StartsAlone DEF Doing, Base, Grounded, InHand, Used
    <3> QED
      BY <1>0, <1>4, <2>1, <3>1 DEF SavedHasKey, Doing, Live
  <2>3. HeldGoes(q)'
    BY <1>0, <1>3, <1>4, <2>1 DEF HeldGoes, Doing
  <2> QED
    BY <2>2, <2>3
<1> QED
  BY <1>6, <1>7, <1>8 DEF HoldInv

LEMMA HoldNext ==
  ASSUME Base, ReachInv, KeyInv, HoldInv, [Next]_vars
  PROVE  HoldInv'
<1>1. CASE KeyExc'
  BY <1>1 DEF HoldInv
<1>2. CASE ~KeyExc'
  <2>1. ~KeyExc
    BY <1>2, KeyExcStays DEF Base
  <2>2. ASSUME NEW p \in Slots, Step(p)
        PROVE  HoldInv'
    <3>1. \A q \in Slots : HeldGoes(q)'
      BY <2>1, <2>2, HeldGoesStep DEF HeldGoes
    <3> QED
      BY <2>1, <2>2, <3>1, HeldHasKeyStep, SavedHasKeyStep, OneHeldStep DEF HoldInv
  <2> QED
    BY <2>1, <2>2, HoldElse
<1> QED
  BY <1>1, <1>2

LEMMA HoldInvHolds == Spec => []HoldInv
<1>1. Init => HoldInv
  BY DEF Init, HoldInv, HeldHasKey, OneHeld, SavedHasKey, HeldGoes, Held, IsSandboxSite, Holds,
     Writers, Idle, Doing, Empty
<1>2. Base /\ ReachInv /\ KeyInv /\ HoldInv /\ [Next]_vars => HoldInv'
  BY HoldNext
<1> QED
  BY <1>1, <1>2, BaseHolds, ReachInvHolds, KeyInvHolds, PTL DEF Spec

----------------------------------------------------------------------------
(* What runs was built with the key on disk; or a deletion has passed it     *)
(* over, state.json names no row, and no start has reached it yet.           *)

Stale == /\ \A s \in Sites : Held(s) => ~Live(s)
         /\ \A p \in Slots : ~Doing(p, {"start"}, Past)

BuiltInv == KeyExc \/ (stack.up => (stack.key = disk.priv /\ disk.priv # None) \/ Stale)

\* What is stale stays so until docker compose up.
LEMMA StaleStep ==
  ASSUME Base, HoldInv, Stale, NEW p \in Slots, Step(p), ~Up(p)
  PROVE  Stale'
<1>0. TypeOK /\ Others(p)
  BY Moves DEF Base
<1>1. ASSUME NEW s \in Sites, Held(s)', Live(s)'
      PROVE  FALSE
  <2>1. ~(Save(p) /\ op[p].kind = "start")
    BY DEF Save, At, Stale, Doing, Past
  <2>2. Held(s) /\ Live(s)
    BY <1>1, <2>1, HeldStep, HeldRow
  <2> QED
    BY <2>2 DEF Stale
<1>2. ASSUME NEW q \in Slots, Doing(q, {"start"}, Past)'
      PROVE  FALSE
  <2>1. q = p
    BY <1>0, <1>2 DEF Stale, Others, Doing
  <2>2. op[p].kind = "start" /\ op[p].phase \in Built
    BY <1>2, <2>1, PastFrom DEF Doing
  <2>3. op[p].phase = "up"
    BY <2>2 DEF Stale, Doing, Built
  <2> QED
    BY <2>3, Departures
<1> QED
  BY <1>1, <1>2 DEF Stale

LEMMA BuiltStep ==
  ASSUME Base, KeyInv, HoldInv, BuiltInv, ~KeyExc, NEW p \in Slots, Step(p), stack'.up
  PROVE  (stack'.key = disk'.priv /\ disk'.priv # None) \/ Stale'
<1>0. TypeOK /\ InPlace(op[p]) /\ Secret(p) /\ HeldGoes(p) /\ Others(p)
  BY Moves DEF Base, Placed, KeyInv, HoldInv
<1>1. CASE Up(p)
  <2>1. /\ op[p].kind = "start" /\ op[p].phase = "up" /\ disk' = disk /\ stack'.key = disk.compose
    BY <1>0, <1>1, UpShape DEF Up, At, InPlace, StackIs
  <2> QED
    BY <1>0, <2>1 DEF Secret, Doing, Built
<1>2. CASE ~Up(p) /\ Stale
  BY <1>2, StaleStep
<1>3. CASE ~Up(p) /\ ~Stale
  <2>1. stack.up /\ stack'.key = stack.key /\ stack.key = disk.priv /\ disk.priv # None
    BY <1>0, <1>3, KeysSame DEF BuiltInv
  <2>2. ~WritePrivate(p)
    BY <1>0, <2>1 DEF WritePrivate, At, InPlace, Secret, Doing
  <2>3. CASE Wipe(p)
    <3>1. op[p].kind = "delete" /\ op[p].phase = "wipe"
      BY <1>0, <2>3 DEF Wipe, At, InPlace
    <3>2. \A s \in Sites : Held(s) => ~Live(s)
      BY <1>0, <3>1 DEF HeldGoes, Doing
    <3>3. \A q \in Slots : op[q].kind # "start"
      BY <3>1, StartsAlone
    <3>4. Stale
      BY <3>2, <3>3 DEF Stale, Doing
    <3> QED
      BY <1>3, <3>4
  <2> QED
    BY <1>0, <2>1, <2>2, <2>3, KeysSame
<1> QED
  BY <1>1, <1>2, <1>3

LEMMA BuiltElse ==
  ASSUME Base, KeyInv, HoldInv, BuiltInv, ~KeyExc, [Next]_vars, \A p \in Slots : ~Step(p),
         stack'.up
  PROVE  (stack'.key = disk'.priv /\ disk'.priv # None) \/ Stale'
<1>0. /\ TypeOK /\ Placed /\ (\A p \in Slots : HeldGoes(p))
      /\ (stack.key = disk.priv /\ disk.priv # None) \/ Stale
      /\ stack'.key = stack.key
  <2>1. TypeOK /\ Placed /\ (\A p \in Slots : HeldGoes(p))
    BY DEF Base, HoldInv
  <2>2. stack.up /\ stack'.key = stack.key
    BY <2>1, Elsewhere DEF Halves, StackIs
  <2> QED
    BY <2>1, <2>2 DEF BuiltInv
<1>1. ASSUME Stale
      PROVE  Stale'
  <2>1. \A s \in Sites : Held(s)' => ~Live(s)'
    BY <1>0, <1>1, HeldElse, Elsewhere DEF Stale
  <2>2. ASSUME NEW q \in Slots, Doing(q, {"start"}, Past)'
        PROVE  FALSE
    <3>1. op'[q] = op[q]
      BY <1>0, <2>2, Elsewhere DEF Doing, Past
    <3> QED
      BY <1>1, <2>2, <3>1 DEF Stale, Doing
  <2> QED
    BY <2>1, <2>2 DEF Stale
<1>2. CASE disk' = disk
  BY <1>0, <1>1, <1>2
<1>3. CASE disk' # disk
  <2>1. PICK p \in Slots : op[p].phase = "wipe"
    BY <1>0, <1>3, Elsewhere
  <2>2. op[p].kind = "delete"
    BY <1>0, <2>1 DEF Placed, InPlace
  <2>3. \A s \in Sites : Held(s) => ~Live(s)
    BY <1>0, <2>1, <2>2 DEF HeldGoes, Doing
  <2>4. \A q \in Slots : op[q].kind # "start"
    BY <2>2, StartsAlone
  <2> QED
    BY <1>1, <2>3, <2>4 DEF Stale, Doing
<1> QED
  BY <1>2, <1>3

LEMMA BuiltNext ==
  ASSUME Base, KeyInv, HoldInv, BuiltInv, [Next]_vars
  PROVE  BuiltInv'
<1>1. CASE KeyExc' \/ ~stack'.up
  BY <1>1 DEF BuiltInv
<1>2. CASE ~KeyExc' /\ stack'.up
  <2>1. ~KeyExc
    BY <1>2, KeyExcStays DEF Base
  <2> QED
    BY <1>2, <2>1, BuiltStep, BuiltElse DEF BuiltInv
<1> QED
  BY <1>1, <1>2

LEMMA BuiltInvHolds == Spec => []BuiltInv
<1>1. Init => BuiltInv
  BY DEF Init, BuiltInv, Down
<1>2. Base /\ KeyInv /\ HoldInv /\ BuiltInv /\ [Next]_vars => BuiltInv'
  BY BuiltNext
<1> QED
  BY <1>1, <1>2, BaseHolds, KeyInvHolds, HoldInvHolds, PTL DEF Spec

\* The key in the sandbox's row opens the containers that run, unless two starts
\* or a start and a deletion overlap or both were cut short, or the state was
\* written back by requests that overlap both.
THEOREM SshHolds == Spec => []SshWorks
<1>1. BuiltInv /\ HoldInv => SshWorks
  BY DEF BuiltInv, Stale, HoldInv, HeldHasKey, Held, SshWorks, KeyExc, SS, SD, Live
<1> QED
  BY <1>1, BuiltInvHolds, HoldInvHolds, PTL

----------------------------------------------------------------------------
(* A deletion.  Every row with the sandbox's name is in state.json, or a     *)
(* start is about to write it there; so a deletion takes it, and a request   *)
(* that saves the state saves it.                                            *)

GoneExc == \/ Ended({"start"}) \/ SS \/ SD
           \/ Overtaken /\ (Crossed \/ Ended({"delete", "client"}))

NamedKept ==
  \A t \in Named : \/ IsSandboxSite(t)
                   \/ \E p \in Slots : Doing(p, {"start"}, {"save"}) /\ op[p].site = t
NamedHeld(p) == Holds(p) => Named \subseteq {op[p].st.site}
NamedGoes(p) ==
  /\ Doing(p, {"delete"}, Deleting) =>
       Named \subseteq {op[p].st.site} /\ (Named # {} => op[p].had)
  /\ Doing(p, {"delete"}, {"wipe"}) => Named = {}

GoneInv ==
  \/ GoneExc
  \/ NamedKept /\ \A p \in Slots : NamedHeld(p) /\ NamedGoes(p)

LEMMA GoneExcStays ==
  ASSUME TypeOK, [Next]_vars, GoneExc
  PROVE  GoneExc'
BY Grows DEF GoneExc, SS, SD, Overtaken, Crossed, Ended, Met

LEMMA NamedKeptStep ==
  ASSUME Base, OneRowInv, GoneInv, ~GoneExc, NEW p \in Slots, Step(p)
  PROVE  NamedKept'
<1>0. /\ TypeOK /\ InPlace(op[p]) /\ NamedKept /\ NamedHeld(p) /\ NamedGoes(p) /\ Others(p)
      /\ Doing(p, {"start"}, {"row", "save"}) => Named \subseteq {op[p].site}
  BY Moves DEF Base, Placed, GoneInv, GoneExc, OneRowInv
<1> SUFFICES ASSUME NEW t \in Sites, t \in Named'
             PROVE  \/ IsSandboxSite(t)'
                    \/ \E q \in Slots : Doing(q, {"start"}, {"save"})' /\ op'[q].site = t
  BY DEF NamedKept, Named
<1>1. CASE t \notin Named
  BY <1>0, <1>1, NamedGo DEF Doing
<1>2. CASE t \in Named /\ Save(p)
  <2>1. Saves(p) /\ op[p].phase = "save" /\ disk'.saved
    BY <1>0, <1>2, SaveShape DEF Save, At, Saves, DiskIs
  <2>2. disk'.state.site = t
    BY <1>0, <1>2, <2>1 DEF Saves, InPlace, NamedHeld, Holds, Doing, Writers
  <2> QED
    BY <2>1, <2>2 DEF IsSandboxSite
<1>3. CASE t \in Named /\ ~Save(p)
  <2>1. ~Wipe(p)
    BY <1>0, <1>3 DEF Wipe, At, InPlace, NamedGoes, Doing
  <2>2. CASE IsSandboxSite(t)
    BY <1>0, <1>3, <2>1, <2>2, FileGo DEF IsSandboxSite
  <2>3. ASSUME NEW q \in Slots, Doing(q, {"start"}, {"save"}), op[q].site = t
        PROVE  Doing(q, {"start"}, {"save"})' /\ op'[q].site = t
    <3>1. q # p
      BY <1>3, <2>3, Departures DEF Doing
    <3> QED
      BY <1>0, <2>3, <3>1 DEF Others, Doing
  <2> QED
    BY <1>0, <1>3, <2>2, <2>3 DEF NamedKept
<1> QED
  BY <1>1, <1>2, <1>3

\* Next to a start, a request that is to save the state has a row that is there
\* and has the sandbox's name.
LEMMA TogetherNamed ==
  ASSUME Base, RowInv, ~GoneExc, NEW p \in Slots, NEW q \in Slots,
         op[p].kind = "start", op[p].phase # "idle", op[q].kind \in Writers, op[q].phase # "idle"
  PROVE  /\ Holds(q) => op[q].st.site \in Named
         /\ disk.saved => disk.state.site \in Named
<1>0. Noted /\ NamesKept /\ Placed
  BY DEF Base, Grounded
<1>1. Overtaken
  BY <1>0 DEF Noted, Writers, Overtaken
<1>2. ~RowExc /\ "client" \notin cut
  BY <1>1 DEF GoneExc, RowExc, Ended
<1>3. ASSUME NEW r \in Slots, op[r].phase = "wipe"
      PROVE  FALSE
  BY <1>0, <1>2, <1>3 DEF Placed, InPlace, Noted, RowExc, SD, Met
<1>4. \A s : There(s) => s \in Named
  BY <1>0, <1>2 DEF NamesKept, There, Named, Live
<1> QED
  BY <1>2, <1>3, <1>4 DEF RowInv, Bound

LEMMA NamedHeldStep ==
  ASSUME Base, OneRowInv, RowInv, GoneInv, ~GoneExc, NEW p \in Slots, Step(p), NEW q \in Slots
  PROVE  NamedHeld(q)'
<1>0. /\ TypeOK /\ Noted /\ InPlace(op[p]) /\ NamedKept /\ NamedHeld(q) /\ Others(p)
      /\ Doing(p, {"start"}, {"row", "save"}) => Named \subseteq {op[p].site}
      /\ \A s, t \in Named : s = t
  BY Moves DEF Base, Placed, GoneInv, GoneExc, OneRowInv, OneRow, SS
<1> SUFFICES ASSUME Holds(q)', NEW t \in Named'
             PROVE  t = op'[q].st.site
  BY DEF NamedHeld
<1>1. CASE Holds(q) /\ op'[q].st = op[q].st
  <2>1. CASE t \in Named
    BY <1>0, <1>1, <2>1 DEF NamedHeld
  <2>2. CASE t \notin Named
    <3>1. /\ op[p].kind = "start" /\ op[p].phase = "row" /\ t = op'[p].site
          /\ op[p].site # None => op'[p].site = op[p].site
      BY <1>0, <2>2, NamedGo
    <3>2. op[q].st.site \in Named
      BY <1>1, <3>1, TogetherNamed DEF Holds, Doing
    <3>3. op[p].site = op[q].st.site /\ op[p].site # None
      BY <1>0, <3>1, <3>2, NoneAssumption DEF Doing, Named
    <3> QED
      BY <1>1, <3>1, <3>3
  <2> QED
    BY <2>1, <2>2
<1>2. CASE q = p /\ LoadState(p) /\ disk.saved /\ op'[q].st = disk.state
  <2>1. /\ t \in Named
        /\ op[p].phase = "load" /\ op[p].kind \in Writers
    <3>1. op'[p].kind \in Writers /\ op'[p] # Idle
      BY <1>2 DEF Holds, Doing, Writers, Idle
    <3>2. op[p].phase = "load" /\ op'[p].kind = op[p].kind
      BY <1>0, <1>2, <3>1, LoadShape DEF Loads, Quits
    <3> QED
      BY <1>0, <3>1, <3>2, NamedGo
  <2>2. CASE IsSandboxSite(t)
    BY <1>2, <2>2 DEF IsSandboxSite
  <2>3. ASSUME NEW r \in Slots, Doing(r, {"start"}, {"save"})
        PROVE  t = disk.state.site
    BY <1>0, <1>2, <2>1, <2>3, TogetherNamed DEF Doing
  <2> QED
    BY <1>0, <1>2, <2>1, <2>2, <2>3 DEF NamedKept
<1> QED
  BY <1>1, <1>2, HoldsFrom

\* No start is open together with a deletion: the rows do not grow.
LEMMA NamedGoesStep ==
  ASSUME Base, GoneInv, ~GoneExc, NEW p \in Slots, Step(p), NEW q \in Slots
  PROVE  NamedGoes(q)'
<1>0. /\ TypeOK /\ Noted /\ NamedKept /\ NamedGoes(q) /\ Others(p) /\ ~SD
  BY Moves DEF Base, GoneInv, GoneExc
<1>1. ASSUME op[q].kind = "delete", op[q].phase # "idle"
      PROVE  /\ Named' \subseteq Named
             /\ \A r \in Slots : ~Doing(r, {"start"}, {"row", "save"})
  <2>1. \A r \in Slots : ~Doing(r, {"start"}, {"row", "save"})
    BY <1>0, <1>1 DEF Noted, SD, Met, Doing
  <2> QED
    BY <1>0, <2>1, NamedGo DEF Doing
<1>2. ASSUME Doing(q, {"delete"}, Deleting)'
      PROVE  Named' \subseteq {op'[q].st.site} /\ (Named' # {} => op'[q].had)
  <2>1. CASE Doing(q, {"delete"}, Deleting) /\ op'[q].had = op[q].had /\ op'[q].st = op[q].st
    <3>1. Named' \subseteq Named
      BY <1>1, <2>1 DEF Doing, Deleting
    <3> QED
      BY <1>0, <2>1, <3>1 DEF NamedGoes
  <2>2. CASE q = p /\ LoadState(p) /\ op'[q].had = disk.saved /\ op'[q].st = disk.state
    <3>1. op[q].kind = "delete" /\ op[q].phase = "load"
      BY <1>0, <1>2, <2>2, LoadShape DEF Loads, Quits, Idle, Doing
    <3>2. \A t \in Named' : IsSandboxSite(t)
      BY <1>0, <1>1, <3>1 DEF NamedKept, Doing
    <3> QED
      BY <2>2, <3>2 DEF IsSandboxSite
  <2> QED
    BY <1>2, <2>1, <2>2, DeletesFrom
<1>3. ASSUME Doing(q, {"delete"}, {"wipe"})'
      PROVE  Named' = {}
  <2>1. CASE q # p /\ op'[q] = op[q]
    BY <1>0, <1>1, <1>3, <2>1 DEF NamedGoes, Doing
  <2>2. CASE q = p /\ DeleteRow(p)
    <3>1. op[q].kind = "delete" /\ op[q].phase = "row"
      BY <2>2 DEF DeleteRow, At
    <3>2. ASSUME NEW t \in Named'
          PROVE  FALSE
      <4>1. t \in Named /\ t \in Sites
        BY <1>1, <3>1, <3>2 DEF Named
      <4>2. t = op[p].st.site /\ op[p].had /\ t # None
        BY <1>0, <2>2, <3>1, <4>1, NoneAssumption DEF NamedGoes, Doing, Deleting
      <4> QED
        BY <1>0, <2>2, <3>2, <4>2, RowShapes DEF RowIs, Named
    <3> QED
      BY <3>2
  <2> QED
    BY <1>3, <2>1, <2>2, RowFrom
<1> QED
  BY <1>2, <1>3 DEF NamedGoes

LEMMA GoneElse ==
  ASSUME Base, GoneInv, ~GoneExc, ~GoneExc', [Next]_vars, \A p \in Slots : ~Step(p)
  PROVE  GoneInv'
<1>0. /\ TypeOK /\ NamedKept /\ (\A p \in Slots : NamedHeld(p) /\ NamedGoes(p))
  BY DEF Base, GoneInv
<1>1. Named' \subseteq Named
  BY <1>0, NamedElse
<1>2. (disk'.saved <=> disk.saved) /\ disk'.state = disk.state
  <2>1. ASSUME NEW n \in 0 .. 4, Wipes(n)
        PROVE  (disk'.saved <=> disk.saved) /\ disk'.state = disk.state
    BY <2>1 DEF Wipes, DiskIs
  <2> QED
    BY <1>0, <2>1, Elsewhere
<1>3. NamedKept'
  <2>1. \A q \in Slots : Doing(q, {"start"}, {"save"}) => op'[q] = op[q]
    BY <1>0, Elsewhere DEF Doing, GoneExc, Ended
  <2> QED
    BY <1>0, <1>1, <1>2, <2>1 DEF NamedKept, IsSandboxSite, Doing
<1>4. ASSUME NEW q \in Slots
      PROVE  NamedHeld(q)' /\ NamedGoes(q)'
  <2>1. SUFFICES ASSUME op'[q] = op[q]
                 PROVE  NamedHeld(q)' /\ NamedGoes(q)'
    <3>1. (\/ Doing(q, Writers, {"files", "drop", "save"})'
           \/ Doing(q, {"delete"}, Deleting \cup {"wipe"})')
            => op'[q] = op[q]
      BY <1>0, Elsewhere DEF Doing, Deleting
    <3> QED
      BY <2>1, <3>1 DEF NamedHeld, NamedGoes, Holds, Doing
  <2> QED
    BY <1>0, <1>1, <2>1 DEF NamedHeld, NamedGoes, Holds, Doing
<1> QED
  BY <1>3, <1>4 DEF GoneInv

LEMMA GoneInvHolds == Spec => []GoneInv
<1>1. Init => GoneInv
  BY DEF Init, GoneInv, NamedKept, NamedHeld, NamedGoes, Named, Holds, Idle, Doing, Writers
<1>2. Base /\ OneRowInv /\ RowInv /\ GoneInv /\ [Next]_vars => GoneInv'
  <2> SUFFICES ASSUME Base, OneRowInv, RowInv, GoneInv, [Next]_vars, ~GoneExc'
               PROVE  GoneInv'
    BY DEF GoneInv
  <2>1. ~GoneExc
    BY GoneExcStays DEF Base
  <2>2. ASSUME NEW p \in Slots, Step(p)
        PROVE  GoneInv'
    BY <2>1, <2>2, NamedKeptStep, NamedHeldStep, NamedGoesStep DEF GoneInv
  <2> QED
    BY <2>1, <2>2, GoneElse
<1> QED
  BY <1>1, <1>2, BaseHolds, OneRowInvHolds, RowInvHolds, PTL DEF Spec

\* A deletion that succeeds leaves no containers, unless it did not see them or a
\* start overlapped it, and no row of the sandbox, unless a start failed,
\* overlapped another or the deletion, or met a request that wrote the state back
\* over what a deletion or a client had taken.
THEOREM DeletionsAreWhole == Spec => DeletedIsGone
<1>1. Base /\ ReachInv /\ GoneInv =>
        \A p \in Slots : Wipe(p) =>
          /\ ~Containers \/ Met("start", "delete") \/ "containers" \in missed
          /\ \/ Named = {}
             \/ Ended({"start"}) \/ Met("start", "start") \/ Met("start", "delete")
             \/ Overtaken /\ (Crossed \/ Ended({"delete", "client"}))
  <2> SUFFICES ASSUME Base, ReachInv, GoneInv, NEW p \in Slots, Wipe(p)
               PROVE  (SD \/ "containers" \in missed \/ ~Containers) /\ (GoneExc \/ Named = {})
    BY DEF GoneExc, SS, SD
  <2>1. Doing(p, {"delete"}, {"wipe"})
    BY DEF Base, Placed, InPlace, Wipe, At, Doing
  <2> QED
    BY <2>1 DEF ReachInv, GoneInv, NamedGoes, Doing
<1> QED
  BY <1>1, BaseHolds, ReachInvHolds, GoneInvHolds, PTL DEF DeletedIsGone
=============================================================================
