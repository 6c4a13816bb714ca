------------------------------ MODULE LiveLog ------------------------------
(***************************************************************************)
(* What the comment of StreamStartLogs promises to someone who watches the *)
(* sandbox start: the lines of one start, all of them, in order and once,  *)
(* then how that start ended.                                              *)
(***************************************************************************)
EXTENDS Naturals, Sequences

CONSTANTS Starts, Readers, NoStart, Open, Success, Failure

VARIABLES
  lines,    \* how many lines each start has logged
  outcome,  \* how each start ended, Open if it has not
  follows,  \* the start each reader watches
  shown,    \* the lines each reader has been sent
  told      \* the final event each reader has been sent

vars == <<lines, outcome, follows, shown, told>>

Init ==
  /\ lines = [s \in Starts |-> 0]
  /\ outcome = [s \in Starts |-> Open]
  /\ follows = [r \in Readers |-> NoStart]
  /\ shown = [r \in Readers |-> <<>>]
  /\ told = [r \in Readers |-> Open]

Log(s) ==
  /\ outcome[s] = Open
  /\ lines' = [lines EXCEPT ![s] = @ + 1]
  /\ UNCHANGED <<outcome, follows, shown, told>>

Finish(s) ==
  /\ outcome[s] = Open
  /\ \E o \in {Success, Failure} : outcome' = [outcome EXCEPT ![s] = o]
  /\ UNCHANGED <<lines, follows, shown, told>>

Follow(r, s) ==
  /\ follows[r] = NoStart /\ told[r] = Open
  /\ follows' = [follows EXCEPT ![r] = s]
  /\ UNCHANGED <<lines, outcome, shown, told>>

Show(r) ==
  /\ follows[r] \in Starts /\ told[r] = Open
  /\ Len(shown[r]) < lines[follows[r]]
  /\ shown' = [shown EXCEPT ![r] = Append(@, Len(@) + 1)]
  /\ UNCHANGED <<lines, outcome, follows, told>>

Tell(r) ==
  /\ follows[r] \in Starts /\ told[r] = Open
  /\ outcome[follows[r]] # Open
  /\ Len(shown[r]) = lines[follows[r]]
  /\ told' = [told EXCEPT ![r] = outcome[follows[r]]]
  /\ UNCHANGED <<lines, outcome, follows, shown>>

\* There is no start to watch.
Dismiss(r) ==
  /\ follows[r] = NoStart /\ told[r] = Open
  /\ told' = [told EXCEPT ![r] = Success]
  /\ UNCHANGED <<lines, outcome, follows, shown>>

Next ==
  \/ \E s \in Starts : Log(s) \/ Finish(s)
  \/ \E r \in Readers : Show(r) \/ Tell(r) \/ Dismiss(r) \/ \E s \in Starts : Follow(r, s)

Spec == Init /\ [][Next]_vars
=============================================================================
