----------------------------- MODULE JobLedger -----------------------------
(***************************************************************************)
(* What the job system promises, without queue, table or restart: jobs are *)
(* executed one at a time and none is executed twice.  A job ends by being *)
(* executed, refused, withdrawn or cut off by a crash, and never comes     *)
(* back; only when the database loses writes may one wait again.           *)
(***************************************************************************)
CONSTANTS Jobs, Faulty

VARIABLE state

States == {"unknown", "waiting", "executing", "ended"}

LedgerInit == state = [j \in Jobs |-> "unknown"]

Executing == {j \in Jobs : state[j] = "executing"}

Move(j, from, to) == state[j] = from /\ state' = [state EXCEPT ![j] = to]

Submit(j) == Move(j, "unknown", "waiting")
Refuse(j) == Move(j, "unknown", "ended")
Withdraw(j) == Move(j, "waiting", "ended")
Begin(j) == Executing = {} /\ Move(j, "waiting", "executing")
End(j) == Move(j, "executing", "ended")

\* Every status write of the execution was lost.
Forget(j) == Faulty /\ Move(j, "executing", "waiting")

\* A crash cuts off what is being executed and may drop withdrawn jobs that
\* were still waiting.
Crash ==
  \E dropped \in SUBSET {j \in Jobs : state[j] = "waiting"},
     again \in SUBSET Executing :
    /\ again # {} => Faulty
    /\ state' = [j \in Jobs |->
                   IF j \in again THEN "waiting"
                   ELSE IF j \in dropped \cup Executing THEN "ended"
                   ELSE state[j]]

LedgerNext ==
  \/ \E j \in Jobs : Submit(j) \/ Refuse(j) \/ Withdraw(j) \/ Begin(j)
                    \/ End(j) \/ Forget(j)
  \/ Crash

Spec == LedgerInit /\ [][LedgerNext]_state
=============================================================================
