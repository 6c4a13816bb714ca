--------------------------- MODULE StartLogProofs ---------------------------
(***************************************************************************)
(* Proofs about StartLog: no event is dropped, and every reader sees what  *)
(* LiveLog promises.                                                       *)
(***************************************************************************)
EXTENDS StartLog, TLAPS

(* An event is on its way only after a first line. *)
Begun == \A s \in Starts : sending[s] # {} => lines[s] > 0

TypeInv == TypeOK /\ Begun

LEMMA TypeInit == ASSUME Init PROVE TypeInv
<1>1. [phase |-> "new", start |-> NoStart, until |-> 0, looks |-> 0] \in Reader
  BY SizeAssumption DEF Reader
<1> QED
  BY <1>1, SizeAssumption DEF Init, TypeInv, TypeOK, Begun, Outcomes

LEMMA RunTypes ==
  ASSUME TypeInv, NEW s \in Starts, Refuse(s) \/ Begin(s) \/ Run(s)
  PROVE  TypeInv'
<1> USE SizeAssumption DEF TypeInv, TypeOK, Begun, Outcomes
<1>1. CASE Refuse(s)
  BY <1>1 DEF Refuse, clientVars
<1>2. CASE Begin(s)
  BY <1>2 DEF Begin, clientVars
<1>3. CASE AddLine(s)
  BY <1>3 DEF AddLine, Writes, clientVars
<1>4. CASE Close(s)
  <2>1. PICK o \in {Success, Failure} : outcome' = [outcome EXCEPT ![s] = o]
    BY <1>4 DEF Close
  <2>2. outcome' \in [Starts -> Outcomes]
    BY <2>1
  <2>3. lines[s] > 0
    <3>1. lines[s] = Lines \/ lines[s] \in 2..(Lines - 1)
      BY <1>4 DEF Close
    <3> QED
      BY <3>1
  <2>4. sending' \in [Starts -> SUBSET Readers] /\ subs' \in [Starts -> SUBSET Readers]
    BY <1>4 DEF Close
  <2>5. Begun'
    BY <1>4, <2>3 DEF Close
  <2> QED
    BY <1>4, <2>2, <2>4, <2>5 DEF Close, clientVars
<1>5. CASE Unset(s)
  BY <1>5 DEF Unset, clientVars
<1>6. CASE \E r \in Readers : Send(s, r)
  <2>1. PICK r \in Readers : Send(s, r)
    BY <1>6
  <2>2. Event(s) \in Events
    <3>1. lines[s] \in 1..Lines
      <4>1. lines[s] \in 0..Lines
        OBVIOUS
      <4>2. lines[s] > 0
        BY <2>1 DEF Send
      <4> QED
        BY <4>1, <4>2
    <3>2. outcome[s] \in {Open, Success, Failure}
      OBVIOUS
    <3> QED
      BY <3>1, <3>2 DEF Event, Closed, Events
  <2>3. queue' \in [Readers -> Seq(Events)]
    <3>1. PICK e \in Events : e = Event(s)
      BY <2>2
    <3>2. queue[r] \in Seq(Events) /\ Append(queue[r], e) \in Seq(Events)
      OBVIOUS
    <3> QED
      BY <2>1, <3>1, <3>2 DEF Send
  <2>4. sending' \in [Starts -> SUBSET Readers] /\ dropped' \subseteq Readers
    BY <2>1 DEF Send
  <2> QED
    BY <2>1, <2>3, <2>4 DEF Send, clientVars
<1> QED
  BY <1>1, <1>2, <1>3, <1>4, <1>5, <1>6 DEF Run

LEMMA MoveTypes ==
  ASSUME TypeInv, NEW r \in Readers, NEW new \in Reader,
         reader' = [reader EXCEPT ![r] = new],
         new.phase \in {"subscribe", "replay", "archive", "follow"} => new.start \in Starts
  PROVE  /\ reader' \in [Readers -> Reader]
         /\ \A q \in Readers : reader'[q].phase \in {"subscribe", "replay", "archive", "follow"}
                               => reader'[q].start \in Starts
BY DEF TypeInv, TypeOK

\* What a step of a request makes of its own record.
Moves(r, ph) == reader' = [reader EXCEPT ![r] = [reader[r] EXCEPT !.phase = ph]]

LEMMA MovesTypes ==
  ASSUME TypeInv, NEW r \in Readers,
         NEW ph \in {"new", "look", "subscribe", "replay", "archive", "follow", "end"},
         Moves(r, ph),
         ph \in {"subscribe", "replay", "archive", "follow"} => reader[r].start \in Starts
  PROVE  /\ reader' \in [Readers -> Reader]
         /\ \A q \in Readers : reader'[q].phase \in {"subscribe", "replay", "archive", "follow"}
                               => reader'[q].start \in Starts
<1>1. reader[r] \in Reader
  BY DEF TypeInv, TypeOK
<1>2. PICK new \in Reader : new = [reader[r] EXCEPT !.phase = ph]
  BY <1>1 DEF Reader
<1> QED
  BY <1>1, <1>2, MoveTypes DEF Moves, Reader

LEMMA ReadTypes ==
  ASSUME TypeInv, NEW r \in Readers, Ask(r) \/ Serve(r) \/ Leave(r)
  PROVE  TypeInv'
<1>0. /\ reader[r] \in Reader /\ reader \in [Readers -> Reader]
      /\ (At(r, "replay") \/ At(r, "archive") \/ At(r, "follow") \/ At(r, "subscribe"))
            => reader[r].start \in Starts
  BY DEF TypeInv, TypeOK, At
<1> USE SizeAssumption, OutcomeAssumption, StartAssumption
<1>1. CASE Ask(r)
  <2>1. Moves(r, "look")
    BY <1>1 DEF Ask, Moves
  <2> QED
    BY <1>1, <2>1, MovesTypes DEF Ask, startVars, clientVars, TypeInv, TypeOK, Begun
<1>2. CASE Look(r)
  <2>1. CASE Found(r)
    <3>1. PICK s \in Starts : s = stream
      BY <2>1 DEF Found, TypeInv, TypeOK
    <3>2. PICK new \in Reader : new = [reader[r] EXCEPT !.phase = "subscribe", !.start = s]
      BY <1>0 DEF Reader
    <3>3. reader' = [reader EXCEPT ![r] = new] /\ new.start \in Starts
      BY <2>1, <3>1, <3>2, <1>0 DEF Found, Reader
    <3> QED
      BY <1>2, <3>3, MoveTypes DEF Look, startVars, clientVars, TypeInv, TypeOK, Begun
  <2>2. CASE ~Found(r)
    <3>1. PICK n \in 0..Looks : n = reader[r].looks + 1
      BY <1>0, <1>2, <2>2 DEF Look, Reader
    <3>2. PICK new \in Reader : new = [reader[r] EXCEPT !.looks = n]
      BY <1>0 DEF Reader
    <3>3. reader' = [reader EXCEPT ![r] = new] /\ new.phase = "look"
      BY <1>2, <2>2, <3>1, <3>2, <1>0 DEF Look, Reader, At
    <3> QED
      BY <1>2, <3>3, MoveTypes DEF Look, startVars, clientVars, TypeInv, TypeOK, Begun
  <2> QED
    BY <2>1, <2>2
<1>3. CASE Dismiss(r)
  <2>1. Moves(r, "end")
    BY <1>3 DEF Dismiss, Moves
  <2>2. told' \in [Readers -> Outcomes]
    BY <1>3 DEF Dismiss, Outcomes, TypeInv, TypeOK
  <2> QED
    BY <1>3, <2>1, <2>2, MovesTypes DEF Dismiss, startVars, TypeInv, TypeOK, Begun
<1>4. CASE Subscribe(r)
  <2>1. PICK s \in Starts : s = reader[r].start
    BY <1>0, <1>4 DEF Subscribe
  <2>2. PICK ph \in {"archive", "replay"} : ph = IF Closed(s) THEN "archive" ELSE "replay"
    OBVIOUS
  <2>3. PICK n \in 0..Lines : n = lines[s]
    BY DEF TypeInv, TypeOK
  <2>4. PICK new \in Reader : new = [reader[r] EXCEPT !.phase = ph, !.until = n]
    BY <1>0 DEF Reader
  <2>5. reader' = [reader EXCEPT ![r] = new] /\ new.start = s
    BY <1>0, <1>4, <2>1, <2>2, <2>3, <2>4 DEF Subscribe, Subscription, Reader
  <2>6. subs' \in [Starts -> SUBSET Readers]
    BY <1>4 DEF Subscribe, TypeInv, TypeOK
  <2> QED
    BY <1>4, <2>5, <2>6, MoveTypes DEF Subscribe, clientVars, TypeInv, TypeOK, Begun
<1>5. CASE Replay(r)
  <2>1. PICK n \in 1..Lines : n = Len(shown[r]) + 1
    BY <1>0, <1>5 DEF Replay, Reader, TypeInv, TypeOK
  <2>2. shown[r] \in Seq(1..Lines) /\ Append(shown[r], n) \in Seq(1..Lines)
    BY DEF TypeInv, TypeOK
  <2>3. shown' \in [Readers -> Seq(1..Lines)]
    BY <1>5, <2>1, <2>2 DEF Replay, Show, TypeInv, TypeOK
  <2> QED
    BY <1>5, <2>3 DEF Replay, Show, startVars, TypeInv, TypeOK, Begun
<1>6. CASE TellOutcome(r)
  <2>1. Moves(r, "end")
    BY <1>6 DEF TellOutcome, Moves
  <2>2. told' \in [Readers -> Outcomes]
    BY <1>0, <1>6 DEF TellOutcome, Tell, Replayed, TypeInv, TypeOK
  <2> QED
    BY <1>6, <2>1, <2>2, MovesTypes DEF TellOutcome, Tell, startVars, TypeInv, TypeOK, Begun
<1>7. CASE Listen(r)
  <2>1. Moves(r, "follow") /\ reader[r].start \in Starts
    BY <1>0, <1>7 DEF Listen, Replayed, Moves
  <2> QED
    BY <1>7, <2>1, MovesTypes DEF Listen, startVars, clientVars, TypeInv, TypeOK, Begun
<1>8. CASE Receive(r)
  <2>1. queue[r] \in Seq(Events) /\ queue[r] # <<>>
    BY <1>8 DEF Receive, TypeInv, TypeOK
  <2>2. PICK e \in Events : e = Head(queue[r])
    BY <2>1
  <2>3. Tail(queue[r]) \in Seq(Events)
    BY <2>1
  <2>4. queue' \in [Readers -> Seq(Events)]
    BY <1>8, <2>3 DEF Receive, TypeInv, TypeOK
  <2>5. CASE e \in Nat
    <3>1. e \in 1..Lines /\ shown' = [shown EXCEPT ![r] = Append(@, e)] /\ UNCHANGED <<told, reader>>
      BY <1>8, <2>2, <2>5 DEF Receive, Show, Events
    <3>2. shown[r] \in Seq(1..Lines) /\ Append(shown[r], e) \in Seq(1..Lines)
      BY <3>1 DEF TypeInv, TypeOK
    <3>3. shown' \in [Readers -> Seq(1..Lines)]
      BY <3>1, <3>2 DEF TypeInv, TypeOK
    <3> QED
      BY <1>8, <2>4, <3>1, <3>3 DEF Receive, startVars, TypeInv, TypeOK, Begun
  <2>6. CASE e \notin Nat
    <3>1. e \in {Success, Failure} /\ told' = [told EXCEPT ![r] = e] /\ UNCHANGED shown
      BY <1>8, <2>2, <2>6 DEF Receive, Tell, Events
    <3>2. told' \in [Readers -> Outcomes]
      BY <3>1 DEF TypeInv, TypeOK, Outcomes
    <3>3. Moves(r, "end")
      BY <1>8, <2>2, <2>6 DEF Receive, Moves
    <3> QED
      BY <1>8, <2>4, <3>1, <3>2, <3>3, MovesTypes DEF Receive, startVars, TypeInv, TypeOK, Begun
  <2> QED
    BY <2>5, <2>6
<1>9. CASE Leave(r)
  <2>1. Moves(r, "end")
    BY <1>9 DEF Leave, Moves
  <2> QED
    BY <1>9, <2>1, MovesTypes DEF Leave, startVars, clientVars, TypeInv, TypeOK, Begun
<1> QED
  BY <1>1, <1>2, <1>3, <1>4, <1>5, <1>6, <1>7, <1>8, <1>9 DEF Serve

LEMMA TypeNext == ASSUME TypeInv, [Next]_vars PROVE TypeInv'
<1>1. CASE UNCHANGED vars
  BY <1>1 DEF vars, startVars, clientVars, TypeInv, TypeOK, Begun
<1> QED
  BY <1>1, RunTypes, ReadTypes DEF Next

\* Every variable keeps its type, and no channel holds more than it can
\* (Start, logStream, StreamStartLogs).
THEOREM StartLogTyped == Spec => []TypeOK
<1>1. Spec => []TypeInv
  BY TypeInit, TypeNext, PTL DEF Spec
<1>2. TypeInv => TypeOK
  BY DEF TypeInv
<1> QED
  BY <1>1, <1>2, PTL

----------------------------------------------------------------------------
(* Where the events of a start are: every event was replayed, is in the     *)
(* channel, or has yet to be sent.                                          *)

Total(s) == lines[s] + (IF Closed(s) THEN 1 ELSE 0)
Due(s, r) == IF r \in sending[s] THEN 1 ELSE 0
Nth(s, n) == IF n <= lines[s] THEN n ELSE outcome[s]

\* How many events the requests has taken from elsewhere than the channel.
Base(r) == IF At(r, "replay") THEN reader[r].until ELSE Len(shown[r])

Subscribed ==
  \A s \in Starts : \A r \in subs[s] \cup sending[s] :
    reader[r].start = s /\ (At(r, "replay") \/ At(r, "follow") \/ At(r, "end"))

\* A request that watches nothing has nothing.
Fresh(r) ==
  /\ At(r, "new") \/ At(r, "look") => reader[r].start = NoStart
  /\ At(r, "new") \/ At(r, "look") \/ At(r, "subscribe") => queue[r] = <<>> /\ shown[r] = <<>>
  /\ ~At(r, "end") => told[r] = Open
  /\ reader[r].start = NoStart => queue[r] = <<>>

\* What is sent to a client that has left counts too.
Fits(r) ==
  reader[r].start \in Starts =>
    Len(queue[r]) + Due(reader[r].start, r) <= Total(reader[r].start)

Live(r) == At(r, "replay") \/ At(r, "follow")

InStep(r) ==
  /\ Live(r) =>
       /\ Base(r) <= lines[reader[r].start]
       /\ Base(r) + Len(queue[r]) + Due(reader[r].start, r) = Total(reader[r].start)
       /\ \A i \in 1..Len(queue[r]) : queue[r][i] = Nth(reader[r].start, Base(r) + i)
       /\ Closed(reader[r].start) \/ r \in subs[reader[r].start]
  /\ At(r, "replay") \/ At(r, "archive") => Len(shown[r]) <= reader[r].until
  /\ At(r, "archive") => /\ Closed(reader[r].start)
                         /\ reader[r].until = lines[reader[r].start]

Good(r) == Fresh(r) /\ Fits(r) /\ InStep(r)

Inv == TypeInv /\ Subscribed /\ (\A r \in Readers : Good(r)) /\ NothingDropped

LEMMA InvInit == ASSUME Init PROVE Inv
<1>1. TypeInv /\ Subscribed /\ NothingDropped
  BY TypeInit DEF Init, Subscribed, NothingDropped
<1>2. ASSUME NEW r \in Readers PROVE Good(r)
  BY StartAssumption DEF Init, Good, Fresh, Fits, InStep, Live, At
<1> QED
  BY <1>1, <1>2 DEF Inv

\* A step that touches neither a request nor the stream it watches.
LEMMA Untouched ==
  ASSUME NEW r \in Readers, Good(r), TypeInv,
         reader'[r] = reader[r], queue'[r] = queue[r], shown'[r] = shown[r], told'[r] = told[r],
         \A s \in Starts : reader[r].start = s =>
           /\ lines'[s] = lines[s] /\ outcome'[s] = outcome[s]
           /\ r \in sending'[s] <=> r \in sending[s]
           /\ r \in subs'[s] <=> r \in subs[s]
  PROVE  Good(r)'
<1>1. Live(r) \/ At(r, "archive") => reader[r].start \in Starts
  BY DEF TypeInv, TypeOK, Live, At
<1>2. Fresh(r)'
  BY DEF Good, Fresh, At
<1>3. Fits(r)'
  BY DEF Good, Fits, Due, Total, Closed
<1>4. InStep(r)'
  BY <1>1 DEF Good, InStep, Live, At, Base, Due, Total, Closed, Nth
<1> QED
  BY <1>2, <1>3, <1>4 DEF Good

LEMMA HasRoom ==
  ASSUME Inv, NEW s \in Starts, NEW r \in Readers, r \in sending[s]
  PROVE  Room(r)
<1>1. Len(queue[r]) + 1 <= Total(s)
  BY DEF Inv, Subscribed, Good, Fits, Due
<1>2. lines[s] \in 0..Lines /\ queue[r] \in Seq(Events)
  BY DEF Inv, TypeInv, TypeOK
<1> QED
  BY <1>1, <1>2, SizeAssumption DEF Total, Room

LEMMA RunKeeps ==
  ASSUME Inv, NEW s \in Starts, Refuse(s) \/ Begin(s) \/ Run(s)
  PROVE  Subscribed' /\ (\A r \in Readers : Good(r)') /\ NothingDropped'
<1>0. TypeInv /\ Subscribed /\ NothingDropped /\ (\A r \in Readers : Good(r))
  BY DEF Inv
<1>1. CASE Refuse(s) \/ Begin(s) \/ Unset(s)
  <2>1. UNCHANGED <<lines, outcome, subs, sending, dropped, reader, queue, clientVars>>
    BY <1>1 DEF Refuse, Begin, Unset
  <2>2. ASSUME NEW r \in Readers PROVE Good(r)'
    BY <1>0, <2>1, Untouched DEF clientVars
  <2> QED
    BY <1>0, <2>1, <2>2 DEF Subscribed, NothingDropped, At
<1>2. CASE AddLine(s)
  <2>1. /\ ~Closed(s) /\ sending[s] = {} /\ sending' = [sending EXCEPT ![s] = subs[s]]
        /\ lines' = [lines EXCEPT ![s] = @ + 1] /\ lines[s] \in Nat /\ lines'[s] = lines[s] + 1
        /\ sending'[s] = subs[s]
        /\ UNCHANGED <<outcome, subs, dropped, reader, queue, clientVars>>
    BY <1>2, <1>0 DEF AddLine, Writes, TypeInv, TypeOK
  <2>2. Subscribed' /\ NothingDropped'
    BY <1>0, <2>1 DEF Subscribed, NothingDropped, At
  <2>3. ASSUME NEW r \in Readers, reader[r].start # s PROVE Good(r)'
    <3>1. \A t \in Starts \ {s} : lines'[t] = lines[t] /\ sending'[t] = sending[t]
      BY <1>0, <2>1 DEF TypeInv, TypeOK
    <3> QED
      BY <1>0, <2>1, <2>3, <3>1, Untouched DEF clientVars
  <2>4. ASSUME NEW r \in Readers, reader[r].start = s PROVE Good(r)'
    <3>1. Fresh(r)'
      BY <1>0, <2>1 DEF Good, Fresh, At, clientVars
    <3>2. Len(queue[r]) \in Nat /\ Len(shown[r]) \in Nat /\ reader[r].until \in Nat
      BY <1>0 DEF TypeInv, TypeOK, Reader
    <3>3. /\ Due(s, r) = 0 /\ Due(s, r)' \in {0, 1} /\ (r \in subs[s] => Due(s, r)' = 1)
          /\ Total(s) = lines[s] /\ Total(s)' = lines[s] + 1
      BY <1>0, <2>1, SizeAssumption DEF Due, Total, Closed, TypeInv, TypeOK
    <3>4. Len(queue[r]) + Due(s, r) <= Total(s)
      BY <1>0, <2>4 DEF Good, Fits
    <3>5. Fits(r)'
      BY <2>1, <2>4, <3>2, <3>3, <3>4 DEF Fits
    <3>6. ~At(r, "archive")
      BY <1>0, <2>1, <2>4 DEF Good, InStep
    <3>7. ASSUME Live(r) PROVE InStep(r)'
      <4>1. /\ Base(r) + Len(queue[r]) = lines[s] /\ r \in subs[s]
            /\ \A i \in 1..Len(queue[r]) : queue[r][i] = Nth(s, Base(r) + i)
        <5>1. Base(r) \in Nat
          BY <3>2 DEF Base
        <5> QED
          BY <1>0, <2>1, <2>4, <3>2, <3>7, <3>3, <5>1 DEF Good, InStep
      <4>2. Base(r) \in Nat /\ Base(r)' = Base(r)
        BY <2>1, <3>2 DEF Base, At, clientVars
      <4>3. \A i \in 1..Len(queue[r]) : queue[r][i] = Nth(s, Base(r) + i)'
        BY <2>1, <3>2, <4>1, <4>2 DEF Nth
      <4> QED
        BY <1>0, <2>1, <2>4, <3>2, <3>6, <3>3, <4>1, <4>2, <4>3
        DEF Good, InStep, Live, At, Closed, clientVars
    <3>8. ASSUME ~Live(r) PROVE InStep(r)'
      BY <2>1, <3>6, <3>8 DEF InStep, Live, At
    <3> QED
      BY <3>1, <3>5, <3>7, <3>8 DEF Good
  <2> QED
    BY <2>2, <2>3, <2>4
<1>3. CASE Close(s)
  <2>1. /\ ~Closed(s) /\ sending[s] = {} /\ sending' = [sending EXCEPT ![s] = subs[s]]
        /\ lines[s] \in Nat /\ sending'[s] = subs[s] /\ subs' = [subs EXCEPT ![s] = {}]
        /\ UNCHANGED <<lines, dropped, reader, queue, clientVars>>
    BY <1>3, <1>0 DEF Close, Writes, TypeInv, TypeOK
  <2>5. PICK o \in {Success, Failure} : outcome' = [outcome EXCEPT ![s] = o]
    BY <1>3 DEF Close
  <2>6. Closed(s)'
    BY <1>0, <2>5, OutcomeAssumption DEF Closed, TypeInv, TypeOK
  <2>2. Subscribed' /\ NothingDropped'
    BY <1>0, <2>1 DEF Subscribed, NothingDropped, At
  <2>3. ASSUME NEW r \in Readers, reader[r].start # s PROVE Good(r)'
    <3>1. \A t \in Starts \ {s} :
            sending'[t] = sending[t] /\ outcome'[t] = outcome[t] /\ subs'[t] = subs[t]
      BY <1>0, <2>1, <2>5 DEF TypeInv, TypeOK
    <3> QED
      BY <1>0, <2>1, <2>3, <3>1, Untouched DEF clientVars
  <2>4. ASSUME NEW r \in Readers, reader[r].start = s PROVE Good(r)'
    <3>1. Fresh(r)'
      BY <1>0, <2>1 DEF Good, Fresh, At, clientVars
    <3>2. Len(queue[r]) \in Nat /\ Len(shown[r]) \in Nat /\ reader[r].until \in Nat
      BY <1>0 DEF TypeInv, TypeOK, Reader
    <3>3. /\ Due(s, r) = 0 /\ Due(s, r)' \in {0, 1} /\ (r \in subs[s] => Due(s, r)' = 1)
          /\ Total(s) = lines[s] /\ Total(s)' = lines[s] + 1
      BY <1>0, <2>1, <2>6, SizeAssumption DEF Due, Total, Closed, TypeInv, TypeOK
    <3>4. Len(queue[r]) + Due(s, r) <= Total(s)
      BY <1>0, <2>4 DEF Good, Fits
    <3>5. Fits(r)'
      BY <2>1, <2>4, <3>2, <3>3, <3>4 DEF Fits
    <3>6. ~At(r, "archive")
      BY <1>0, <2>1, <2>4 DEF Good, InStep
    <3>7. ASSUME Live(r) PROVE InStep(r)'
      <4>1. /\ Base(r) + Len(queue[r]) = lines[s] /\ r \in subs[s]
            /\ \A i \in 1..Len(queue[r]) : queue[r][i] = Nth(s, Base(r) + i)
        <5>1. Base(r) \in Nat
          BY <3>2 DEF Base
        <5> QED
          BY <1>0, <2>1, <2>4, <3>2, <3>7, <3>3, <5>1 DEF Good, InStep
      <4>2. Base(r) \in Nat /\ Base(r)' = Base(r)
        BY <2>1, <3>2 DEF Base, At, clientVars
      <4>3. \A i \in 1..Len(queue[r]) : queue[r][i] = Nth(s, Base(r) + i)'
        BY <2>1, <3>2, <4>1, <4>2 DEF Nth
      <4> QED
        BY <1>0, <2>1, <2>4, <2>6, <3>2, <3>6, <3>3, <4>1, <4>2, <4>3
        DEF Good, InStep, Live, At, clientVars
    <3>8. ASSUME ~Live(r) PROVE InStep(r)'
      BY <2>1, <3>6, <3>8 DEF InStep, Live, At
    <3> QED
      BY <3>1, <3>5, <3>7, <3>8 DEF Good
  <2> QED
    BY <2>2, <2>3, <2>4
<1>4. CASE \E r \in Readers : Send(s, r)
  <2>1. PICK r \in Readers : Send(s, r)
    BY <1>4
  <2>2. r \in sending[s] /\ Room(r) /\ reader[r].start = s /\ (Live(r) \/ At(r, "end"))
    BY <1>0, <2>1, HasRoom DEF Send, Subscribed, Live
  <2>3. PICK e : e = Event(s)
    OBVIOUS
  <2>4. /\ queue' = [queue EXCEPT ![r] = Append(@, e)]
        /\ sending' = [sending EXCEPT ![s] = @ \ {r}]
        /\ UNCHANGED <<lines, outcome, subs, dropped, reader, clientVars>>
    BY <2>1, <2>2, <2>3 DEF Send
  <2>5. Subscribed' /\ NothingDropped'
    BY <1>0, <2>4 DEF Subscribed, NothingDropped, At, TypeInv, TypeOK
  <2>6. ASSUME NEW q \in Readers \ {r} PROVE Good(q)'
    <3>1. queue'[q] = queue[q] /\ \A t \in Starts : q \in sending'[t] <=> q \in sending[t]
      BY <1>0, <2>4 DEF TypeInv, TypeOK
    <3> QED
      BY <1>0, <2>4, <3>1, Untouched DEF clientVars
  <2>7. /\ Len(queue[r]) \in Nat /\ Len(shown[r]) \in Nat /\ reader[r].until \in Nat
        /\ lines[s] \in Nat /\ queue[r] \in Seq(Events) /\ e \in Events
    <3>1. queue'[r] \in Seq(Events) /\ queue'[r] = Append(queue[r], e) /\ queue[r] \in Seq(Events)
      <4>1. TypeInv'
        BY <1>0, <2>1, RunTypes DEF Run
      <4> QED
        BY <1>0, <2>4, <4>1 DEF TypeInv, TypeOK
    <3>2. queue'[r][Len(queue'[r])] = e /\ Len(queue'[r]) \in 1..Len(queue'[r])
      BY <3>1
    <3> QED
      BY <1>0, <3>1, <3>2 DEF TypeInv, TypeOK, Reader
  <2>8. /\ queue'[r] = Append(queue[r], e) /\ Len(queue'[r]) = Len(queue[r]) + 1
        /\ \A i \in 1..Len(queue[r]) : queue'[r][i] = queue[r][i]
        /\ queue'[r][Len(queue[r]) + 1] = e
    BY <1>0, <2>4, <2>7 DEF TypeInv, TypeOK
  <2>9. Due(s, r) = 1 /\ Due(s, r)' = 0 /\ Total(s)' = Total(s)
    BY <1>0, <2>2, <2>4 DEF Due, Total, Closed, TypeInv, TypeOK
  <2>10. Good(r)'
    <3>1. Fresh(r)'
      BY <1>0, <2>2, <2>4, StartAssumption DEF Good, Fresh, At, Live, clientVars
    <3>2. Fits(r)'
      <4>1. Len(queue[r]) + Due(s, r) <= Total(s)
        BY <1>0, <2>2 DEF Good, Fits
      <4> QED
        BY <2>2, <2>4, <2>7, <2>8, <2>9, <4>1 DEF Fits
    <3>3. ASSUME Live(r) PROVE InStep(r)'
      <4>1. /\ Base(r) \in Nat /\ Base(r)' = Base(r) /\ Base(r) <= lines[s]
            /\ Base(r) + Len(queue[r]) + 1 = Total(s)
            /\ \A i \in 1..Len(queue[r]) : queue[r][i] = Nth(s, Base(r) + i)
            /\ Closed(s) \/ r \in subs[s]
        BY <1>0, <2>2, <2>4, <2>7, <2>9, <3>3 DEF Good, InStep, Base, At, clientVars
      <4>2. e = Nth(s, Base(r) + Len(queue[r]) + 1)
        BY <2>3, <2>7, <4>1 DEF Total, Nth, Event
      <4>3. ASSUME NEW i \in 1..Len(queue'[r]) PROVE queue'[r][i] = Nth(s, Base(r) + i)
        <5>1. CASE i \in 1..Len(queue[r])
          BY <2>8, <4>1, <5>1
        <5>2. CASE i = Len(queue[r]) + 1
          <6>1. Base(r) + i = Base(r) + Len(queue[r]) + 1
            BY <2>7, <4>1, <5>2
          <6> QED
            BY <2>8, <4>2, <5>2, <6>1
        <5> QED
          BY <2>7, <2>8, <5>1, <5>2
      <4>4. \A i \in 1..Len(queue'[r]) : queue'[r][i] = Nth(s, Base(r) + i)'
        BY <2>4, <4>1, <4>3 DEF Nth
      <4>5. Base(r) + Len(queue'[r]) + 0 = Total(s)
        BY <2>7, <2>8, <4>1
      <4>6. At(r, "replay") => Len(shown[r]) <= reader[r].until
        BY <1>0 DEF Good, InStep
      <4> QED
        BY <2>2, <2>4, <2>9, <3>3, <4>1, <4>4, <4>5, <4>6
        DEF InStep, Live, At, Closed, clientVars
    <3>4. ASSUME ~Live(r) PROVE InStep(r)'
      BY <2>2, <2>4, <3>4 DEF InStep, Live, At
    <3> QED
      BY <3>1, <3>2, <3>3, <3>4 DEF Good
  <2> QED
    BY <2>5, <2>6, <2>10
<1> QED
  BY <1>1, <1>2, <1>3, <1>4 DEF Run

\* A step of a request leaves the other requests and the streams alone.
LEMMA OthersKeep ==
  ASSUME Inv, NEW r \in Readers, UNCHANGED <<lines, outcome, sending, dropped>>,
         \A s \in Starts : \A q \in Readers \ {r} : q \in subs'[s] <=> q \in subs[s],
         \A q \in Readers \ {r} : /\ reader'[q] = reader[q] /\ queue'[q] = queue[q]
                                /\ shown'[q] = shown[q] /\ told'[q] = told[q]
  PROVE  \A q \in Readers \ {r} : Good(q)'
BY Untouched DEF Inv

LEMMA Reorder == \A n, i \in Nat : n + (i + 1) = n + 1 + i
OBVIOUS

LEMMA Regroup == \A n, k, d \in Nat : n + 1 + (k - 1) + d = n + k + d
OBVIOUS

LEMMA ReadKeeps ==
  ASSUME Inv, NEW r \in Readers, Ask(r) \/ Serve(r) \/ Leave(r)
  PROVE  Subscribed' /\ (\A q \in Readers : Good(q)') /\ NothingDropped'
<1>0. /\ TypeInv /\ Subscribed /\ NothingDropped /\ Good(r) /\ TypeInv'
      /\ reader[r] \in Reader /\ reader \in [Readers -> Reader] /\ queue[r] \in Seq(Events)
      /\ queue \in [Readers -> Seq(Events)] /\ shown \in [Readers -> Seq(1..Lines)]
      /\ told \in [Readers -> Outcomes] /\ shown[r] \in Seq(1..Lines)
      /\ lines \in [Starts -> 0..Lines]
  BY ReadTypes DEF Inv, TypeInv, TypeOK
<1>1. CASE Ask(r) \/ Listen(r) \/ Leave(r)
  <2>1. PICK ph \in {"look", "follow", "end"} :
          /\ reader' = [reader EXCEPT ![r].phase = ph]
          /\ UNCHANGED <<startVars, queue, clientVars>>
          /\ ph = "look" => At(r, "new")
          /\ ph = "follow" => Replayed(r, "replay")
    BY <1>1 DEF Ask, Listen, Leave
  <2>2. /\ reader'[r].start = reader[r].start /\ reader'[r].until = reader[r].until
        /\ reader'[r].phase = ph
    BY <1>0, <2>1 DEF Reader
  <2>3. Subscribed' /\ NothingDropped'
    BY <1>0, <2>1, <2>2 DEF Subscribed, NothingDropped, At, startVars, Replayed, TypeInv, TypeOK
  <2>4. Good(r)'
    <3>1. Fresh(r)'
      BY <1>0, <2>1, <2>2 DEF Good, Fresh, At, clientVars, Replayed
    <3>2. Fits(r)'
      BY <1>0, <2>1, <2>2 DEF Good, Fits, Due, Total, Closed, startVars
    <3>3. ASSUME ph = "follow" PROVE InStep(r)'
      <4>1. /\ Base(r)' = Base(r) /\ Live(r) /\ Live(r)' /\ ~At(r, "replay")' /\ ~At(r, "archive")'
        BY <1>0, <2>1, <2>2, <3>3 DEF Base, At, clientVars, Replayed, Live
      <4>2. \A s : /\ Due(s, r)' = Due(s, r) /\ Total(s)' = Total(s) /\ Closed(s)' = Closed(s)
                   /\ subs'[s] = subs[s] /\ lines'[s] = lines[s] /\ \A n : Nth(s, n)' = Nth(s, n)
        BY <2>1 DEF Due, Total, Closed, Nth, startVars
      <4> QED
        BY <1>0, <2>1, <2>2, <4>1, <4>2 DEF Good, InStep
    <3>4. ASSUME ph # "follow" PROVE InStep(r)'
      <4>1. ~Live(r)' /\ ~At(r, "replay")' /\ ~At(r, "archive")'
        BY <2>2, <3>4 DEF Live, At
      <4> QED
        BY <4>1 DEF InStep
    <3> QED
      BY <3>1, <3>2, <3>3, <3>4 DEF Good
  <2>5. \A q \in Readers \ {r} : Good(q)'
    BY <1>0, <2>1, OthersKeep DEF startVars, clientVars
  <2> QED
    BY <2>3, <2>4, <2>5
<1>2. CASE Look(r) \/ Dismiss(r)
  <2>1. /\ At(r, "look") /\ reader[r].start = NoStart /\ queue[r] = <<>> /\ shown[r] = <<>>
        /\ UNCHANGED <<startVars, queue, shown>>
    BY <1>0, <1>2 DEF Look, Dismiss, Good, Fresh, clientVars
  <2>2. \A s \in Starts : r \notin subs[s] /\ r \notin sending[s]
    BY <1>0, <2>1, StartAssumption DEF Subscribed
  <2>3. \A q \in Readers \ {r} : reader'[q] = reader[q] /\ told'[q] = told[q]
    BY <1>0, <1>2 DEF Look, Found, Dismiss, clientVars
  <2>4. /\ reader'[r].phase \in {"look", "subscribe", "end"}
        /\ reader'[r].phase # "end" => told'[r] = Open
        /\ reader'[r].phase = "look" => reader'[r].start = NoStart
    BY <1>0, <1>2, <2>1 DEF Look, Found, Dismiss, clientVars, Reader, At, Good, Fresh
  <2>5. Good(r)'
    <3>1. Fresh(r)' /\ InStep(r)'
      BY <2>1, <2>4 DEF Fresh, InStep, Live, At
    <3>2. Fits(r)'
      <4>1. ASSUME NEW s \in Starts PROVE Len(queue[r]) + Due(s, r)' <= Total(s)'
        BY <1>0, <2>1, <2>2 DEF Due, Total, startVars
      <4> QED
        BY <2>1, <4>1 DEF Fits
    <3> QED
      BY <3>1, <3>2 DEF Good
  <2>6. Subscribed' /\ NothingDropped'
    <3>1. \A s \in Starts : \A q \in subs[s] \cup sending[s] : q # r /\ q \in Readers
      BY <1>0, <2>2 DEF TypeInv, TypeOK
    <3>2. UNCHANGED <<subs, sending, dropped>>
      BY <2>1 DEF startVars
    <3> QED
      BY <1>0, <2>3, <3>1, <3>2 DEF Subscribed, NothingDropped, At
  <2>7. \A q \in Readers \ {r} : Good(q)'
    BY <2>1, <2>3, OthersKeep DEF startVars
  <2> QED
    BY <2>5, <2>6, <2>7
<1>3. CASE Subscribe(r)
  <2>1. PICK s \in Starts : s = reader[r].start
    BY <1>0, <1>3 DEF Subscribe, TypeInv, TypeOK, At
  <2>2. /\ At(r, "subscribe") /\ queue[r] = <<>> /\ shown[r] = <<>> /\ told[r] = Open
        /\ \A t \in Starts : r \notin subs[t] /\ r \notin sending[t]
    BY <1>0, <1>3 DEF Subscribe, Good, Fresh, At, Subscribed
  <2>3. /\ UNCHANGED <<lines, outcome, sending, dropped, queue, clientVars>>
        /\ subs' = IF Closed(s) THEN subs ELSE [subs EXCEPT ![s] = @ \cup {r}]
        /\ \A q \in Readers \ {r} : reader'[q] = reader[q]
        /\ reader'[r].phase = IF Closed(s) THEN "archive" ELSE "replay"
        /\ reader'[r].start = s /\ reader'[r].until = lines[s]
    BY <1>0, <1>3, <2>1 DEF Subscribe, Subscription, Reader
  <2>4. \A t \in Starts : \A q \in Readers \ {r} : q \in subs'[t] <=> q \in subs[t]
    BY <1>0, <2>3 DEF TypeInv, TypeOK
  <2>5. Subscribed' /\ NothingDropped'
    <3>1. \A t \in Starts : r \in subs'[t] \cup sending'[t] => t = s /\ ~Closed(s)
      BY <1>0, <2>2, <2>3 DEF TypeInv, TypeOK
    <3> QED
      BY <1>0, <2>3, <2>4, <3>1 DEF Subscribed, NothingDropped, At, TypeInv, TypeOK
  <2>6. Good(r)'
    <3>1. Fresh(r)'
      BY <2>1, <2>2, <2>3, StartAssumption DEF Fresh, At, clientVars
    <3>2. Due(s, r)' = 0 /\ Total(s)' = Total(s) /\ lines[s] \in Nat /\ Closed(s)' = Closed(s)
      BY <1>0, <2>2, <2>3 DEF Due, Total, Closed
    <3>3. Fits(r)'
      <4>1. 0 <= Total(s)
        BY <3>2 DEF Total
      <4> QED
        BY <2>2, <2>3, <3>2, <4>1 DEF Fits
    <3>6. Len(shown'[r]) = 0 /\ Len(queue'[r]) = 0
      BY <2>2, <2>3 DEF clientVars
    <3>4. ASSUME Closed(s) PROVE InStep(r)'
      <4>1. ~Live(r)' /\ ~At(r, "replay")' /\ Closed(s)'
        BY <2>3, <3>2, <3>4 DEF Live, At
      <4> QED
        BY <2>3, <3>2, <3>6, <4>1 DEF InStep
    <3>5. ASSUME ~Closed(s) PROVE InStep(r)'
      <4>1. Base(r)' = lines[s] /\ Total(s) = lines[s]
        BY <2>3, <3>2, <3>5 DEF Base, Total, At
      <4>2. r \in subs'[s]
        BY <1>0, <2>3, <3>5 DEF TypeInv, TypeOK
      <4>3. Live(r)' /\ ~At(r, "archive")'
        BY <2>3, <3>5 DEF Live, At
      <4> QED
        BY <2>3, <3>2, <3>6, <4>1, <4>2, <4>3 DEF InStep
    <3> QED
      BY <3>1, <3>3, <3>4, <3>5 DEF Good
  <2>7. \A q \in Readers \ {r} : Good(q)'
    BY <2>3, <2>4, OthersKeep DEF clientVars
  <2> QED
    BY <2>5, <2>6, <2>7
<1>4. CASE Replay(r)
  <2>1. /\ UNCHANGED <<startVars, reader, queue, told>> /\ (At(r, "replay") \/ At(r, "archive"))
        /\ shown' = [shown EXCEPT ![r] = Append(@, Len(shown[r]) + 1)]
        /\ Len(shown[r]) < reader[r].until
    BY <1>4 DEF Replay, Show
  <2>2. Len(shown'[r]) <= reader[r].until
    <3>1. PICK n \in Nat : n = Len(shown[r]) + 1
      BY <1>0
    <3>2. shown'[r] = Append(shown[r], n) /\ Len(Append(shown[r], n)) = Len(shown[r]) + 1
      BY <1>0, <2>1, <3>1
    <3> QED
      BY <1>0, <2>1, <3>2 DEF Reader
  <2>3. Subscribed' /\ NothingDropped'
    BY <1>0, <2>1 DEF Subscribed, NothingDropped, At, startVars
  <2>4. Good(r)'
    <3>1. Fresh(r)' /\ Fits(r)'
      BY <1>0, <2>1 DEF Good, Fresh, Fits, At, Due, Total, Closed, startVars
    <3>2. Live(r) => Base(r)' = Base(r)
      BY <2>1 DEF Live, Base, At
    <3> QED
      BY <1>0, <2>1, <2>2, <3>1, <3>2
      DEF Good, InStep, Live, At, Due, Total, Closed, Nth, startVars
  <2>5. \A q \in Readers \ {r} : Good(q)'
    BY <1>0, <2>1, OthersKeep DEF startVars
  <2> QED
    BY <2>3, <2>4, <2>5
<1>5. CASE TellOutcome(r)
  <2>1. /\ reader' = [reader EXCEPT ![r].phase = "end"] /\ UNCHANGED <<startVars, queue, shown>>
        /\ \A q \in Readers \ {r} : told'[q] = told[q]
    BY <1>5, <1>0 DEF TellOutcome, Tell
  <2>2. reader'[r].start = reader[r].start /\ reader'[r].phase = "end"
    BY <1>0, <2>1 DEF Reader
  <2>3. Subscribed' /\ NothingDropped'
    BY <1>0, <2>1, <2>2 DEF Subscribed, NothingDropped, At, startVars, TypeInv, TypeOK
  <2>4. Good(r)'
    BY <1>0, <2>1, <2>2
    DEF Good, Fresh, Fits, InStep, Live, At, Due, Total, Closed, startVars
  <2>5. \A q \in Readers \ {r} : Good(q)'
    BY <1>0, <2>1, OthersKeep DEF startVars
  <2> QED
    BY <2>3, <2>4, <2>5
<1>6. CASE Receive(r)
  <2>0. PICK s \in Starts : s = reader[r].start
    BY <1>0, <1>6 DEF Receive, TypeInv, TypeOK, At
  <2>1. /\ At(r, "follow") /\ queue[r] # <<>> /\ UNCHANGED startVars
        /\ queue'[r] = Tail(queue[r]) /\ \A q \in Readers \ {r} : queue'[q] = queue[q]
    BY <1>0, <1>6 DEF Receive
  <2>2. /\ Len(queue[r]) \in Nat \ {0} /\ Len(queue'[r]) = Len(queue[r]) - 1
        /\ \A i \in 1..Len(queue'[r]) : queue'[r][i] = queue[r][i + 1]
        /\ Head(queue[r]) = queue[r][1]
    BY <1>0, <2>1
  <2>3. /\ Due(s, r)' = Due(s, r) /\ Total(s)' = Total(s)
        /\ Due(s, r) \in {0, 1} /\ lines[s] \in Nat /\ Total(s) \in Nat
    BY <1>0, <2>1 DEF Due, Total, Closed, startVars
  <2>4. Len(queue[r]) + Due(s, r) <= Total(s)
    BY <1>0, <2>0 DEF Good, Fits
  <2>5. CASE Head(queue[r]) \in Nat
    <3>1. /\ UNCHANGED <<told, reader>>
          /\ shown' = [shown EXCEPT ![r] = Append(@, Head(queue[r]))]
      BY <1>6, <2>5 DEF Receive, Show
    <3>2. Len(shown'[r]) = Len(shown[r]) + 1 /\ Len(shown[r]) \in Nat
      <4>1. PICK n \in Nat : n = Head(queue[r])
        BY <2>5
      <4> QED
        BY <1>0, <3>1, <4>1
    <3>3. Base(r) = Len(shown[r]) /\ Base(r)' = Len(shown[r]) + 1 /\ Live(r) /\ Live(r)'
      BY <2>1, <3>1, <3>2 DEF Base, At, Live
    <3>4. /\ Base(r) <= lines[s] /\ Base(r) + Len(queue[r]) + Due(s, r) = Total(s)
          /\ \A i \in 1..Len(queue[r]) : queue[r][i] = Nth(s, Base(r) + i)
          /\ Closed(s) \/ r \in subs[s]
      BY <1>0, <2>0, <3>3 DEF Good, InStep
    <3>5. Base(r) + 1 <= lines[s]
      <4>1. Head(queue[r]) = Nth(s, Base(r) + 1)
        BY <2>2, <3>4
      <4>2. outcome[s] \notin Nat
        BY <1>0, OutcomeAssumption DEF TypeInv, TypeOK, Outcomes
      <4> QED
        BY <2>5, <4>1, <4>2 DEF Nth
    <3>6. \A i \in 1..Len(queue'[r]) : queue'[r][i] = Nth(s, Base(r) + i)'
      <4>1. ASSUME NEW i \in 1..Len(queue'[r]) PROVE queue'[r][i] = Nth(s, Len(shown[r]) + 1 + i)
        <5>1. PICK k \in Nat \ {0} : k = Len(queue[r])
          BY <2>2
        <5>2. Len(queue'[r]) = k - 1
          BY <2>2, <5>1
        <5>3. i + 1 \in 1..Len(queue[r]) /\ Len(shown[r]) + (i + 1) = Len(shown[r]) + 1 + i
          <6>1. i \in 1..(k - 1)
            BY <5>2
          <6>2. i \in Nat /\ i + 1 \in 1..k
            BY <6>1
          <6>3. PICK n \in Nat : n = Len(shown[r])
            BY <3>2
          <6>4. n + (i + 1) = n + 1 + i
            BY <6>2, <6>3, Reorder
          <6> QED
            BY <5>1, <6>2, <6>3, <6>4
        <5> QED
          BY <2>2, <3>3, <3>4, <5>3
      <4>2. \A n : Nth(s, n)' = Nth(s, n)
        BY <2>1 DEF Nth, startVars
      <4> QED
        BY <3>3, <4>1, <4>2
    <3>7. Good(r)'
      <4>1. Fresh(r)'
        BY <1>0, <2>1, <3>1, <3>3, <2>0, StartAssumption DEF Good, Fresh, At
      <4>2. Fits(r)'
        BY <2>0, <2>2, <2>3, <2>4, <3>1 DEF Fits
      <4>3. /\ Len(shown[r]) + 1 <= lines[s]
            /\ Len(shown[r]) + 1 + Len(queue'[r]) + Due(s, r)' = Total(s)'
        <5>1. PICK k \in Nat \ {0}, n \in Nat, l \in Nat :
                k = Len(queue[r]) /\ n = Len(shown[r]) /\ l = lines[s]
          BY <2>2, <2>3, <3>2
        <5>2. Len(queue'[r]) = k - 1 /\ n + k + Due(s, r) = Total(s) /\ n + 1 <= l
          BY <2>2, <3>3, <3>4, <3>5, <5>1
        <5>3. n + 1 + (k - 1) + Due(s, r) = Total(s)
          <6>1. PICK d \in {0, 1}, m \in Nat : d = Due(s, r) /\ m = Total(s)
            BY <2>3
          <6>2. n + k + d = m
            BY <5>2, <6>1
          <6>3. k \in Nat /\ d \in Nat
            OBVIOUS
          <6>4. n + 1 + (k - 1) + d = m
            BY <6>2, <6>3, Regroup
          <6> QED
            BY <6>1, <6>4
        <5> QED
          BY <2>3, <5>1, <5>2, <5>3
      <4>4. InStep(r)'
        BY <2>0, <2>1, <3>1, <3>3, <3>4, <3>6, <4>3 DEF InStep, At, Closed, startVars
      <4> QED
        BY <4>1, <4>2, <4>4 DEF Good
    <3>8. Subscribed' /\ NothingDropped'
      BY <1>0, <2>1, <3>1 DEF Subscribed, NothingDropped, At, startVars
    <3>9. \A q \in Readers \ {r} : Good(q)'
      BY <1>0, <2>1, <3>1, OthersKeep DEF startVars
    <3> QED
      BY <3>7, <3>8, <3>9
  <2>6. CASE Head(queue[r]) \notin Nat
    <3>1. /\ reader' = [reader EXCEPT ![r].phase = "end"] /\ UNCHANGED shown
          /\ \A q \in Readers \ {r} : told'[q] = told[q]
      BY <1>0, <1>6, <2>6 DEF Receive, Tell
    <3>2. reader'[r].start = reader[r].start /\ reader'[r].phase = "end"
      BY <1>0, <3>1 DEF Reader
    <3>3. Subscribed' /\ NothingDropped'
      BY <1>0, <2>1, <3>1, <3>2 DEF Subscribed, NothingDropped, At, startVars, TypeInv, TypeOK
    <3>4. Fits(r)'
      BY <2>0, <2>2, <2>3, <2>4, <3>2 DEF Fits
    <3>5. Good(r)'
      BY <2>0, <3>2, <3>4, StartAssumption DEF Good, Fresh, InStep, Live, At
    <3>6. \A q \in Readers \ {r} : Good(q)'
      BY <1>0, <2>1, <3>1, OthersKeep DEF startVars
    <3> QED
      BY <3>3, <3>5, <3>6
  <2> QED
    BY <2>5, <2>6
<1> QED
  BY <1>1, <1>2, <1>3, <1>4, <1>5, <1>6 DEF Serve

LEMMA InvNext == ASSUME Inv, [Next]_vars PROVE Inv'
<1>1. CASE UNCHANGED vars
  <2>1. ASSUME NEW r \in Readers PROVE Good(r)'
    BY <1>1, Untouched DEF Inv, vars, startVars, clientVars
  <2>2. TypeInv'
    BY TypeNext DEF Inv
  <2> QED
    BY <1>1, <2>1, <2>2 DEF Inv, vars, startVars, Subscribed, NothingDropped, At
<1>2. CASE Next
  BY <1>2, TypeNext, RunKeeps, ReadKeeps DEF Inv, Next
<1> QED
  BY <1>1, <1>2

LEMMA InvHolds == Spec => []Inv
<1>1. Init => Inv
  BY InvInit
<1>2. Inv /\ [Next]_vars => Inv'
  BY InvNext
<1> QED
  BY <1>1, <1>2, PTL DEF Spec

\* No event of a start is ever dropped, whatever a client does with its
\* connection: logStream.add and close never meet a full channel.
THEOREM NeverDropped == Spec => []NothingDropped
<1>1. Inv => NothingDropped
  BY DEF Inv
<1> QED
  BY <1>1, InvHolds, PTL

----------------------------------------------------------------------------
(* LiveLog. *)

Follows == [r \in Readers |-> reader[r].start]

LEMMA PromiseInit == ASSUME Init PROVE Promise!Init
BY DEF Init, Promise!Init

LEMMA RunPromised ==
  ASSUME Inv, NEW s \in Starts, Refuse(s) \/ Begin(s) \/ Run(s)
  PROVE  [Promise!Next]_(Promise!vars)
<1>1. CASE Refuse(s) \/ Begin(s) \/ Unset(s) \/ \E r \in Readers : Send(s, r)
  BY <1>1 DEF Refuse, Begin, Unset, Send, clientVars, Promise!vars
<1>2. CASE AddLine(s)
  <2>1. Promise!Log(s)
    BY <1>2 DEF AddLine, Writes, Closed, clientVars, Promise!Log
  <2> QED
    BY <2>1 DEF Promise!Next
<1>3. CASE Close(s)
  <2>1. Promise!Finish(s)
    BY <1>3 DEF Close, Writes, Closed, clientVars, Promise!Finish
  <2> QED
    BY <2>1 DEF Promise!Next
<1> QED
  BY <1>1, <1>2, <1>3 DEF Run

LEMMA ReadPromised ==
  ASSUME Inv, NEW r \in Readers, Ask(r) \/ Serve(r) \/ Leave(r)
  PROVE  [Promise!Next]_(Promise!vars)
<1>0. /\ reader \in [Readers -> Reader] /\ Good(r) /\ queue[r] \in Seq(Events)
      /\ shown[r] \in Seq(1..Lines) /\ lines \in [Starts -> 0..Lines]
  BY DEF Inv, TypeInv, TypeOK
<1> DEFINE Same == \A q \in Readers : reader'[q].start = reader[q].start
<1>1. Same => Follows' = Follows
  BY DEF Follows
<1>2. CASE Ask(r) \/ Listen(r) \/ Leave(r) \/ Subscribe(r)
  <2>1. Same
    <3>1. CASE Subscribe(r)
      <4>1. PICK ph, n : reader' = [reader EXCEPT ![r].phase = ph, ![r].until = n]
        BY <3>1 DEF Subscribe, Subscription
      <4> QED
        BY <1>0, <4>1 DEF Reader
    <3>2. CASE Ask(r) \/ Listen(r) \/ Leave(r)
      <4>1. PICK ph : reader' = [reader EXCEPT ![r].phase = ph]
        BY <3>2 DEF Ask, Listen, Leave
      <4> QED
        BY <1>0, <4>1 DEF Reader
    <3> QED
      BY <1>2, <3>1, <3>2
  <2>2. UNCHANGED <<lines, outcome, shown, told>>
    BY <1>2 DEF Ask, Listen, Leave, Subscribe, startVars, clientVars
  <2> QED
    BY <1>1, <2>1, <2>2 DEF Promise!vars, Follows
<1>3. CASE Look(r)
  <2>1. CASE Found(r)
    <3>1. PICK s \in Starts : s = stream
      BY <2>1 DEF Found, Inv, TypeInv, TypeOK
    <3>2. reader[r].start = NoStart /\ told[r] = Open
      BY <1>0, <1>3 DEF Look, Good, Fresh, At
    <3>3. Follows' = [Follows EXCEPT ![r] = s]
      BY <1>0, <2>1, <3>1 DEF Found, Follows, Reader
    <3>4. Promise!Follow(r, s)
      BY <1>3, <3>2, <3>3 DEF Look, Promise!Follow, startVars, clientVars, Follows
    <3> QED
      BY <3>4 DEF Promise!Next
  <2>2. CASE ~Found(r)
    <3>1. Same
      BY <1>0, <1>3, <2>2 DEF Look, Reader
    <3> QED
      BY <1>1, <1>3, <3>1 DEF Look, startVars, clientVars, Promise!vars, Follows
  <2> QED
    BY <2>1, <2>2
<1>4. CASE Dismiss(r)
  <2>1. Same /\ reader[r].start = NoStart /\ told[r] = Open
    BY <1>0, <1>4 DEF Dismiss, Reader, Good, Fresh, At
  <2>2. Promise!Dismiss(r)
    BY <1>1, <1>4, <2>1 DEF Dismiss, Promise!Dismiss, startVars, Follows
  <2> QED
    BY <2>2 DEF Promise!Next
<1>5. CASE Replay(r)
  <2>1. reader[r].start \in Starts /\ told[r] = Open
    BY <1>0, <1>5 DEF Replay, Inv, TypeInv, TypeOK, Good, Fresh, At
  <2>2. reader[r].until <= lines[reader[r].start]
    <3>1. CASE At(r, "replay")
      BY <1>0, <3>1 DEF Good, InStep, Base, Live
    <3>2. CASE At(r, "archive")
      <4>1. reader[r].until = lines[reader[r].start] /\ lines[reader[r].start] \in 0..Lines
        BY <1>0, <2>1, <3>2 DEF Good, InStep
      <4> QED
        BY <4>1, SizeAssumption
    <3> QED
      BY <1>5, <3>1, <3>2 DEF Replay
  <2>3. Len(shown[r]) < lines[reader[r].start]
    BY <1>0, <1>5, <2>1, <2>2 DEF Replay, Reader
  <2>4. Promise!Show(r)
    BY <1>5, <2>1, <2>3 DEF Replay, Show, Promise!Show, startVars
  <2> QED
    BY <2>4 DEF Promise!Next
<1>6. CASE TellOutcome(r)
  <2>1. reader[r].start \in Starts /\ told[r] = Open
    BY <1>0, <1>6 DEF TellOutcome, Replayed, Inv, TypeInv, TypeOK, Good, Fresh, At
  <2>2. outcome[reader[r].start] # Open /\ Len(shown[r]) = lines[reader[r].start]
    BY <1>0, <1>6 DEF TellOutcome, Replayed, Good, InStep, Closed
  <2>3. Same
    BY <1>0, <1>6 DEF TellOutcome, Reader
  <2>4. Promise!Tell(r)
    BY <1>1, <1>6, <2>1, <2>2, <2>3 DEF TellOutcome, Tell, Promise!Tell, startVars, Follows
  <2> QED
    BY <2>4 DEF Promise!Next
<1>7. CASE Receive(r)
  <2>1. PICK s \in Starts : s = reader[r].start
    BY <1>7 DEF Receive, Inv, TypeInv, TypeOK, At
  <2>2. told[r] = Open /\ Len(queue[r]) \in Nat \ {0} /\ Head(queue[r]) = queue[r][1]
    BY <1>0, <1>7 DEF Receive, Good, Fresh, At
  <2>3. /\ Len(shown[r]) <= lines[s] /\ Head(queue[r]) = Nth(s, Len(shown[r]) + 1)
        /\ Len(shown[r]) + Len(queue[r]) + Due(s, r) = Total(s)
    <3>1. Base(r) = Len(shown[r]) /\ Live(r)
      BY <1>7 DEF Receive, Base, Live, At
    <3>2. 1 \in 1..Len(queue[r])
      BY <2>2
    <3>3. /\ Base(r) <= lines[s] /\ Base(r) + Len(queue[r]) + Due(s, r) = Total(s)
          /\ \A i \in 1..Len(queue[r]) : queue[r][i] = Nth(s, Base(r) + i)
      BY <1>0, <2>1, <3>1 DEF Good, InStep
    <3> QED
      BY <2>2, <3>1, <3>2, <3>3
  <2>4. outcome[s] \notin Nat /\ lines[s] \in Nat /\ Len(shown[r]) \in Nat
    BY <1>0, OutcomeAssumption DEF Inv, TypeInv, TypeOK, Outcomes
  <2>5. CASE Head(queue[r]) \in Nat
    <3>1. Len(shown[r]) < lines[s] /\ Head(queue[r]) = Len(shown[r]) + 1
      BY <2>3, <2>4, <2>5 DEF Nth
    <3>2. Promise!Show(r)
      BY <1>7, <2>1, <2>2, <2>5, <3>1 DEF Receive, Show, Promise!Show, startVars
    <3> QED
      BY <3>2 DEF Promise!Next
  <2>6. CASE Head(queue[r]) \notin Nat
    <3>1. Len(shown[r]) = lines[s] /\ Head(queue[r]) = outcome[s]
      BY <2>3, <2>4, <2>6 DEF Nth
    <3>2. outcome[s] # Open
      BY <2>2, <2>3, <2>4, <3>1 DEF Due, Total, Closed
    <3>3. Same
      BY <1>0, <1>7, <2>6 DEF Receive, Reader
    <3>4. Promise!Tell(r)
      BY <1>1, <1>7, <2>1, <2>2, <2>6, <3>1, <3>2, <3>3
      DEF Receive, Tell, Promise!Tell, startVars, Follows
    <3> QED
      BY <3>4 DEF Promise!Next
  <2> QED
    BY <2>5, <2>6
<1> QED
  BY <1>2, <1>3, <1>4, <1>5, <1>6, <1>7 DEF Serve

\* Every reader sees the lines of one start once and in order, and is told how
\* that start ended (StreamStartLogs), with any number of starts and readers.
THEOREM LogPromiseKept == Spec => Implements
<1>1. ASSUME Inv, [Next]_vars PROVE [Promise!Next]_(Promise!vars)
  <2>1. CASE UNCHANGED vars
    BY <2>1 DEF vars, startVars, clientVars, Promise!vars
  <2> QED
    BY <1>1, <2>1, RunPromised, ReadPromised DEF Next
<1>2. Inv /\ [Next]_vars => [Promise!Next]_(Promise!vars)
  BY <1>1
<1> QED
  BY <1>2, PromiseInit, InvHolds, PTL DEF Spec, Implements, Promise!Spec
=============================================================================
