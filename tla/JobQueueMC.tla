---------------------------- MODULE JobQueueMC ----------------------------
(* Values for TLC's runs of JobQueue. *)
EXTENDS JobQueue, TLC

Ask(t, detect, db, files) ==
  [type |-> t, detect |-> detect, db |-> db, files |-> files]

\* The shortest program: what matters is the queue.
QueueRequests == {Ask("upgrade", FALSE, FALSE, FALSE)}

\* For what the API documents of POST /backup and POST /jobs/{id}.
BackupRequests == {Ask("backup", FALSE, FALSE, FALSE)}

\* Every program, with and without its optional parts.
EffectRequests ==
  {Ask(t, d, FALSE, FALSE) : t \in JobTypes \ {"restore"}, d \in BOOLEAN} \cup
  {Ask("restore", d, db, fs) : d \in BOOLEAN, db \in BOOLEAN, fs \in BOOLEAN}

CONSTANTS j1, j2, j3

\* The liveness run begins before two jobs are submitted, or down after a crash
\* that left three rows queued, one more than the worker and a channel of one
\* place hold: j1 was in hand, j2 in the channel and j3 found it full.
Before ==
  /\ rows = [j \in Jobs |-> NoRow] /\ clock = 0 /\ crashes = 0
  /\ client = [j \in Jobs |-> IF j = j3 THEN "refused" ELSE "new"]
  /\ outcome = [j \in Jobs |-> "none"]

After ==
  /\ rows = (j1 :> NewRow(1) @@ j2 :> NewRow(2) @@ j3 :> NewRow(3)) /\ clock = 3
  /\ crashes = 1
  /\ client = [j \in Jobs |-> IF j = j3 THEN "refused" ELSE "accepted"]
  /\ outcome = [j \in Jobs |-> IF j = j1 THEN "interrupted" ELSE "none"]

WaitingInit ==
  /\ Before \/ After
  /\ server = "down" /\ chan = <<>> /\ todo = {} /\ worker = Idle /\ hung = FALSE
  /\ request \in [Jobs -> Requests]
  /\ fx = [j \in Jobs |-> {}] /\ stuck = [j \in Jobs |-> {}]
  /\ starts = [j \in Jobs |-> 0] /\ faults = [j \in Jobs |-> 0]
  /\ stranded = {} /\ ahead = [j \in Jobs |-> {}]

WaitingSpec == WaitingInit /\ [][Next]_vars /\ Fairness

Symmetry == Permutations(Jobs)
=============================================================================
