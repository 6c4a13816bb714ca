------------------------------ MODULE StartLog ------------------------------
(***************************************************************************)
(* The live log of the sandbox: Manager.Start writes a logStream, the      *)
(* requests to /sandbox/start/logs read it.  The stream copies its list of *)
(* subscribers under the lock and sends outside it, without waiting for a  *)
(* subscriber whose channel is full.                                       *)
(***************************************************************************)
EXTENDS Naturals, Sequences

CONSTANTS
  Starts,    \* calls of Start, overlapping or not
  Readers,   \* requests to watch
  Lines,     \* startLog calls of a start that succeeds: 12
  Capacity,  \* of a subscriber's channel: 64
  Looks,     \* times a request looks for a stream: 51
  NoStart, Open, Success, Failure

ASSUME SizeAssumption ==
  Lines \in Nat \ {0} /\ Looks \in Nat \ {0} /\ Capacity \in Nat /\ Lines < Capacity
ASSUME StartAssumption == NoStart \notin Starts
ASSUME OutcomeAssumption ==
  /\ Open \notin {Success, Failure} /\ Success # Failure
  /\ Nat \cap {Open, Success, Failure} = {}

VARIABLES
  stream,   \* Manager.stream
  phase,    \* where each Start is
  lines,    \* per stream, the length of its buffer: line n is the number n
  outcome,  \* per stream, closed and success
  subs,     \* per stream, its subscribers
  sending,  \* per stream, to whom its last event has yet to be sent
  reader,   \* the requests: where each is, its stream, what it has to replay
  queue,    \* the channel of each subscriber
  shown, told,  \* what each client has been sent: lines, the final event
  dropped   \* observation: subscribers whose channel was full

startVars == <<stream, phase, lines, outcome, subs, sending, dropped>>
clientVars == <<shown, told>>
vars == <<startVars, reader, queue, clientVars>>

Reader == [phase: {"new", "look", "subscribe", "replay", "archive", "follow", "end"},
           start: Starts \cup {NoStart}, until: 0..Lines, looks: 0..Looks]

Closed(s) == outcome[s] # Open
Event(s) == IF Closed(s) THEN outcome[s] ELSE lines[s]

----------------------------------------------------------------------------
(* Start. *)

\* Docker or the data directory is missing.
Refuse(s) ==
  /\ phase[s] = "new"
  /\ phase' = [phase EXCEPT ![s] = "over"]
  /\ UNCHANGED <<stream, lines, outcome, subs, sending, dropped, reader, queue, clientVars>>

\* The stream of a start under way is replaced.
Begin(s) ==
  /\ phase[s] = "new"
  /\ phase' = [phase EXCEPT ![s] = "run"]
  /\ stream' = s
  /\ UNCHANGED <<lines, outcome, subs, sending, dropped, reader, queue, clientVars>>

\* Mutant: events are sent in the background.
WritesAhead(s) == phase[s] = "run" /\ ~Closed(s)

Writes(s) == phase[s] = "run" /\ sending[s] = {} /\ ~Closed(s)

\* logStream.add
AddLine(s) ==
  /\ Writes(s) /\ lines[s] < Lines
  /\ lines' = [lines EXCEPT ![s] = @ + 1]
  /\ sending' = [sending EXCEPT ![s] = subs[s]]
  /\ UNCHANGED <<stream, phase, outcome, subs, dropped, reader, queue, clientVars>>

\* logStream.close.  Nothing fails before the second line or after the last.
Close(s) ==
  /\ Writes(s)
  /\ \/ lines[s] = Lines /\ outcome' = [outcome EXCEPT ![s] = Success]
     \/ lines[s] \in 2..(Lines - 1) /\ outcome' = [outcome EXCEPT ![s] = Failure]
  /\ sending' = [sending EXCEPT ![s] = subs[s]]
  /\ subs' = [subs EXCEPT ![s] = {}]
  /\ UNCHANGED <<stream, phase, lines, dropped, reader, queue, clientVars>>

\* Mutant: the channel holds one event.
RoomForOne(r) == queue[r] = <<>>

Room(r) == Len(queue[r]) < Capacity

Send(s, r) ==
  /\ r \in sending[s]
  /\ sending' = [sending EXCEPT ![s] = @ \ {r}]
  /\ \/ Room(r) /\ queue' = [queue EXCEPT ![r] = Append(@, Event(s))] /\ UNCHANGED dropped
     \/ ~Room(r) /\ dropped' = dropped \cup {r} /\ UNCHANGED queue
  /\ UNCHANGED <<stream, phase, lines, outcome, subs, reader, clientVars>>

\* Whatever stream is there.
Unset(s) ==
  /\ phase[s] = "run" /\ Closed(s) /\ sending[s] = {}
  /\ phase' = [phase EXCEPT ![s] = "over"]
  /\ stream' = NoStart
  /\ UNCHANGED <<lines, outcome, subs, sending, dropped, reader, queue, clientVars>>

----------------------------------------------------------------------------
(* StreamStartLogs. *)

At(r, ph) == reader[r].phase = ph

Ask(r) ==
  /\ At(r, "new")
  /\ reader' = [reader EXCEPT ![r].phase = "look"]
  /\ UNCHANGED <<startVars, queue, clientVars>>

Found(r) ==
  /\ stream # NoStart
  /\ reader' = [reader EXCEPT ![r].phase = "subscribe", ![r].start = stream]

Look(r) ==
  /\ At(r, "look")
  /\ \/ Found(r)
     \/ /\ stream = NoStart /\ reader[r].looks + 1 < Looks
        /\ reader' = [reader EXCEPT ![r].looks = @ + 1]
  /\ UNCHANGED <<startVars, queue, clientVars>>

\* The last look.
Dismiss(r) ==
  /\ At(r, "look")
  /\ stream = NoStart /\ reader[r].looks + 1 = Looks
  /\ told' = [told EXCEPT ![r] = Success]
  /\ reader' = [reader EXCEPT ![r].phase = "end"]
  /\ UNCHANGED <<startVars, queue, shown>>

Subscription(r, until, ph) ==
  reader' = [reader EXCEPT ![r].phase = ph, ![r].until = until]

\* Mutant: the end of the stream is not looked at.
SubscribeAnyway(r) ==
  LET s == reader[r].start IN
  /\ At(r, "subscribe")
  /\ Subscription(r, lines[s], "replay")
  /\ subs' = [subs EXCEPT ![s] = @ \cup {r}]
  /\ UNCHANGED <<stream, phase, lines, outcome, sending, dropped, queue, clientVars>>

\* logStream.subscribe
Subscribe(r) ==
  LET s == reader[r].start IN
  /\ At(r, "subscribe")
  /\ Subscription(r, lines[s], IF Closed(s) THEN "archive" ELSE "replay")
  /\ subs' = IF Closed(s) THEN subs ELSE [subs EXCEPT ![s] = @ \cup {r}]
  /\ UNCHANGED <<stream, phase, lines, outcome, sending, dropped, queue, clientVars>>

Show(r, line) == shown' = [shown EXCEPT ![r] = Append(@, line)] /\ UNCHANGED told
Tell(r, end) == told' = [told EXCEPT ![r] = end] /\ UNCHANGED shown

Replay(r) ==
  /\ At(r, "replay") \/ At(r, "archive")
  /\ Len(shown[r]) < reader[r].until
  /\ Show(r, Len(shown[r]) + 1)
  /\ UNCHANGED <<startVars, reader, queue>>

Replayed(r, ph) == At(r, ph) /\ Len(shown[r]) = reader[r].until

\* wasSuccessful
TellOutcome(r) ==
  /\ Replayed(r, "archive")
  /\ Tell(r, outcome[reader[r].start])
  /\ reader' = [reader EXCEPT ![r].phase = "end"]
  /\ UNCHANGED <<startVars, queue>>

Listen(r) ==
  /\ Replayed(r, "replay")
  /\ reader' = [reader EXCEPT ![r].phase = "follow"]
  /\ UNCHANGED <<startVars, queue, clientVars>>

Receive(r) ==
  /\ At(r, "follow") /\ queue[r] # <<>>
  /\ queue' = [queue EXCEPT ![r] = Tail(@)]
  /\ IF Head(queue[r]) \in Nat
       THEN Show(r, Head(queue[r])) /\ UNCHANGED reader
       ELSE /\ Tell(r, Head(queue[r]))
            /\ reader' = [reader EXCEPT ![r].phase = "end"]
  /\ UNCHANGED startVars

\* The client disconnects, a write fails.  The subscription stays.
Leave(r) ==
  /\ ~At(r, "new") /\ ~At(r, "end")
  /\ reader' = [reader EXCEPT ![r].phase = "end"]
  /\ UNCHANGED <<startVars, queue, clientVars>>

----------------------------------------------------------------------------
Init ==
  /\ stream = NoStart
  /\ phase = [s \in Starts |-> "new"]
  /\ lines = [s \in Starts |-> 0]
  /\ outcome = [s \in Starts |-> Open]
  /\ subs = [s \in Starts |-> {}]
  /\ sending = [s \in Starts |-> {}]
  /\ reader = [r \in Readers |-> [phase |-> "new", start |-> NoStart, until |-> 0, looks |-> 0]]
  /\ queue = [r \in Readers |-> <<>>]
  /\ shown = [r \in Readers |-> <<>>]
  /\ told = [r \in Readers |-> Open]
  /\ dropped = {}

Run(s) == AddLine(s) \/ Close(s) \/ Unset(s) \/ \E r \in Readers : Send(s, r)

Serve(r) ==
  \/ Look(r) \/ Dismiss(r) \/ Subscribe(r)
  \/ Replay(r) \/ TellOutcome(r) \/ Listen(r) \/ Receive(r)

Next ==
  \/ \E s \in Starts : Refuse(s) \/ Begin(s) \/ Run(s)
  \/ \E r \in Readers : Ask(r) \/ Serve(r) \/ Leave(r)

Spec == Init /\ [][Next]_vars

\* What Start calls returns, and a client that stays connected reads.
LiveSpec ==
  /\ Spec
  /\ \A s \in Starts : WF_vars(Run(s))
  /\ \A r \in Readers : WF_vars(Serve(r))

----------------------------------------------------------------------------
(* Properties. *)

Outcomes == {Open, Success, Failure}
Events == 1..Lines \cup {Success, Failure}

TypeOK ==
  /\ stream \in Starts \cup {NoStart}
  /\ phase \in [Starts -> {"new", "run", "over"}]
  /\ lines \in [Starts -> 0..Lines]
  /\ outcome \in [Starts -> Outcomes]
  /\ subs \in [Starts -> SUBSET Readers]
  /\ sending \in [Starts -> SUBSET Readers]
  /\ reader \in [Readers -> Reader]
  /\ \A r \in Readers : reader[r].phase \in {"subscribe", "replay", "archive", "follow"}
                          => reader[r].start \in Starts
  /\ queue \in [Readers -> Seq(Events)]
  /\ shown \in [Readers -> Seq(1..Lines)]
  /\ told \in [Readers -> Outcomes]
  /\ dropped \subseteq Readers

\* add and close skip a subscriber whose channel is full, and a skipped final
\* event would leave its reader waiting for ever.  They never have to,
\* however slowly the client reads: a start logs less than a channel holds.
NothingDropped == dropped = {}

\* A reader sees each line of the start it watches once and in order, also
\* those logged while it subscribed, and is told how that start ended and no
\* other.
Promise == INSTANCE LiveLog WITH follows <- [r \in Readers |-> reader[r].start]
Implements == Promise!Spec

\* Who asks for the log gets a final event or gives up, whenever the start ends.
ReadersAreAnswered ==
  \A r \in Readers : At(r, "look") ~> At(r, "end")
=============================================================================
