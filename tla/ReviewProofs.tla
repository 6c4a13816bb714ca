---------------------------- MODULE ReviewProofs ----------------------------
(***************************************************************************)
(* What Review's runs check, for any reviews, inventory, versions,         *)
(* advisories and limits.  ReviewInv says what of a review its verdict and *)
(* its use of the quota rest on; ToldInv what the table, an answer and the *)
(* findings so far tell of a flaw.  The order that compareVersions         *)
(* computes is shown to be one.                                            *)
(***************************************************************************)
EXTENDS Review, FiniteSetTheorems, SequenceTheorems, WellFoundedInduction, TLAPS

----------------------------------------------------------------------------
(* Types. *)

Same(r) == \A q \in Reviews \ {r} : review'[q] = review[q]

LEMMA InventoryTypes ==
  /\ Wordpress \in Seq(Keys) /\ Packages \in Seq(Keys) /\ <<Php>> \in Seq(Keys)
  /\ WordpressKeys \subseteq Keys /\ PackageKeys \subseteq Keys /\ Php \in Keys
  /\ \A provider \in Providers : Of(provider) \subseteq Keys
<1>1. WordpressKeys \subseteq Keys /\ PackageKeys \subseteq Keys /\ Php \in Keys
  BY DEF Keys
<1>2. Wordpress \in Seq(Keys) /\ Packages \in Seq(Keys)
  BY <1>1, InventoryAssumption, SeqMonotonic
<1>3. <<Php>> \in Seq(Keys)
  BY <1>1
<1>4. \A provider \in Providers : Of(provider) \subseteq Keys
  BY <1>1 DEF Providers, Of
<1> QED
  BY <1>1, <1>2, <1>3, <1>4

LEMMA NewTypes ==
  ASSUME NEW phase \in Phases
  PROVE  [NewReview EXCEPT !.phase = phase] \in ReviewRecord /\ NewReview \in ReviewRecord
<1>1. /\ Budget \in Nat /\ <<>> \in Seq(Keys) /\ "new" \in Phases /\ {} \subseteq Keys
      /\ {} \subseteq Providers /\ None \in Replies \cup {None}
      /\ {} \subseteq Findings
  BY ReviewAssumption DEF Phases
<1>2. NewReview \in ReviewRecord
  BY <1>1 DEF NewReview, ReviewRecord
<1> QED
  BY <1>2 DEF ReviewRecord

LEMMA UpdateTypes ==
  ASSUME TypeOK, NEW r \in Reviews, NEW rv \in ReviewRecord, Update(r, rv)
  PROVE  /\ review' \in [Reviews -> ReviewRecord] /\ Same(r) /\ review'[r] = rv
         /\ UNCHANGED <<clock, known, token>>
BY DEF TypeOK, Update, Same

LEMMA LocalTypes ==
  ASSUME TypeOK, NEW r \in Reviews, NEW rv \in ReviewRecord, Local(r, rv)
  PROVE  TypeOK'
BY UpdateTypes DEF TypeOK, Local

LEMMA EndTypes ==
  ASSUME TypeOK, NEW r \in Reviews, NEW phase \in Ends, End(r, phase)
  PROVE  TypeOK'
BY LocalTypes, NewTypes DEF End, Phases

LEMMA ProbeTypes ==
  ASSUME TypeOK, NEW r \in Reviews, Begin(r) \/ Probe(r) \/ Scan(r) \/ Inventory(r)
  PROVE  TypeOK'
<1>0. review[r] \in ReviewRecord
  BY DEF TypeOK
<1>1. CASE Begin(r)
  <2>1. [review[r] EXCEPT !.phase = IF r \in Rehearsals THEN "health" ELSE "scan",
                          !.fresh = {k \in Keys : SureHit(k)}] \in ReviewRecord
    BY <1>0 DEF ReviewRecord, Phases, Loops
  <2> QED
    BY <1>1, <2>1, LocalTypes DEF Begin
<1>2. Badly(review[r]) \in ReviewRecord
  <2>1. PICK rv, a, m, w :
          /\ rv = review[r] /\ a = rv.attempt + 1 /\ m = rv.missed + 1
          /\ w \in BOOLEAN /\ (w <=> (rv.wrong \/ rv.missed + 1 = Attempts))
          /\ Badly(rv) = [rv EXCEPT !.attempt = a, !.missed = m, !.wrong = w]
    BY DEF Badly
  <2>2. a \in Nat /\ m \in Nat /\ rv \in ReviewRecord
    BY <1>0, <2>1 DEF ReviewRecord
  <2>3. [rv EXCEPT !.attempt = a, !.missed = m, !.wrong = w] \in ReviewRecord
    BY <2>1, <2>2 DEF ReviewRecord
  <2> QED
    BY <2>1, <2>3
<1>3. \A rv \in ReviewRecord, phase \in Phases :
        /\ Enter(rv, phase) \in ReviewRecord
        /\ [Enter(rv, phase) EXCEPT !.failing = TRUE] \in ReviewRecord
        /\ [Enter(rv, phase) EXCEPT !.wrong = TRUE, !.failing = TRUE] \in ReviewRecord
  BY DEF Enter, ReviewRecord
<1>4. CASE Retry(r)
  BY <1>2, <1>4, LocalTypes DEF Retry
<1>5. CASE GiveUp(r)
  BY <1>2, <1>3, <1>5, LocalTypes DEF GiveUp, GiveUpAt, AfterHealth, Phases, Loops
<1>6. CASE Healthy(r) \/ ProductionPage(r) \/ StagingPage(r)
  BY <1>0, <1>3, <1>6, LocalTypes
  DEF Healthy, ProductionPage, StagingPage, AfterHealth, Phases, Loops
<1>7. CASE Scan(r)
  <2>1. [review[r] EXCEPT !.phase = "inventory"] \in ReviewRecord
    BY <1>0 DEF ReviewRecord, Phases
  <2> QED
    BY <1>7, <2>1, LocalTypes, EndTypes DEF Scan, Ends
<1>8. CASE Inventory(r)
  <2>1. [review[r] EXCEPT !.phase = "wpscan", !.todo = Wordpress] \in ReviewRecord
    BY <1>0, InventoryTypes DEF ReviewRecord, Phases, Providers
  <2> QED
    BY <1>8, <2>1, LocalTypes, EndTypes DEF Inventory, Ends
<1> QED
  BY <1>1, <1>4, <1>5, <1>6, <1>7, <1>8 DEF Probe

LEMMA FaultTypes ==
  ASSUME TypeOK
  PROVE  /\ Fault \/ UNCHANGED faults => faults' \in Nat
         /\ Trouble \/ UNCHANGED trouble => trouble' \in Nat
         /\ \A k : Miss(k) => faults' \in Nat
         /\ \A r : Missed(r) => faults' \in Nat
BY DEF TypeOK, Fault, Trouble, Miss, Missed

\* The component at hand.
LEMMA HeadTypes ==
  ASSUME TypeOK, NEW r \in Reviews, review[r].todo # <<>>
  PROVE  /\ Head(review[r].todo) \in Keys /\ Tail(review[r].todo) \in Seq(Keys)
         /\ ToSet(review[r].todo) = {Head(review[r].todo)} \cup ToSet(Tail(review[r].todo))
<1> PICK s : s = review[r].todo
  OBVIOUS
<1>1. s \in Seq(Keys) /\ s # <<>>
  BY DEF TypeOK, ReviewRecord
<1>2. Head(s) \in Keys /\ Tail(s) \in Seq(Keys)
  BY <1>1
<1>3. \A i \in 1..Len(Tail(s)) : Tail(s)[i] = s[i + 1] /\ i + 1 \in 1..Len(s)
  BY <1>1
<1>4. \A i \in 1..Len(s) : i = 1 \/ (i - 1 \in 1..Len(Tail(s)) /\ s[i] = Tail(s)[i - 1])
  BY <1>1
<1>5. Head(s) = s[1] /\ 1 \in 1..Len(s)
  BY <1>1
<1>6. /\ \A k : k \in ToSet(s) <=> \E i \in 1..Len(s) : s[i] = k
      /\ \A k : k \in ToSet(Tail(s)) <=> \E i \in 1..Len(Tail(s)) : Tail(s)[i] = k
  <2>1. DOMAIN s = 1..Len(s) /\ DOMAIN Tail(s) = 1..Len(Tail(s))
    BY <1>1, <1>2
  <2> QED
    BY <2>1 DEF ToSet
<1>7. ToSet(s) = {Head(s)} \cup ToSet(Tail(s))
  <2>1. ASSUME NEW k \in ToSet(s) PROVE k = Head(s) \/ k \in ToSet(Tail(s))
    <3>1. PICK i \in 1..Len(s) : s[i] = k
      BY <1>6, <2>1
    <3> QED
      BY <1>4, <1>5, <1>6, <3>1
  <2>2. ASSUME NEW k \in ToSet(Tail(s)) PROVE k \in ToSet(s)
    <3>1. PICK i \in 1..Len(Tail(s)) : Tail(s)[i] = k
      BY <1>6, <2>2
    <3> QED
      BY <1>3, <1>6, <3>1
  <2>3. Head(s) \in ToSet(s)
    BY <1>5, <1>6
  <2> QED
    BY <2>1, <2>2, <2>3
<1> QED
  BY <1>2, <1>7
----------------------------------------------------------------------------
(* What a step of the lookup makes of the review, field by field. *)

\* The step is one of review r, and none of its pages.
Steady(r) ==
  /\ Same(r) /\ UNCHANGED <<clock, known, token>>
  /\ review'[r].attempt = review[r].attempt /\ review'[r].missed = review[r].missed
  /\ review'[r].wrong = review[r].wrong /\ review'[r].failing = review[r].failing
  /\ review'[r].fresh = review[r].fresh /\ review'[r].seen = review[r].seen

Moves(r, phase, todo, answer, uncached) ==
  /\ review'[r].phase = phase /\ review'[r].todo = todo
  /\ review'[r].answer = answer /\ review'[r].uncached = uncached

Tells(r, found, skipped, failed) ==
  /\ review'[r].found = found /\ review'[r].skipped = skipped
  /\ review'[r].failed = failed

Pays(r, budget, used) == review'[r].budget = budget /\ review'[r].used = used

Silent(r) == Tells(r, review[r].found, review[r].skipped, review[r].failed)
Free(r) == Pays(r, review[r].budget, review[r].used)

LEMMA Fields ==
  ASSUME TypeOK, NEW r \in Reviews, NEW rv \in ReviewRecord, Update(r, rv),
         rv.attempt = review[r].attempt, rv.missed = review[r].missed,
         rv.wrong = review[r].wrong, rv.failing = review[r].failing,
         rv.fresh = review[r].fresh, rv.seen = review[r].seen
  PROVE  /\ Steady(r) /\ review'[r] = rv /\ review' \in [Reviews -> ReviewRecord]
         /\ Moves(r, rv.phase, rv.todo, rv.answer, rv.uncached)
         /\ Tells(r, rv.found, rv.skipped, rv.failed)
         /\ Pays(r, rv.budget, rv.used)
BY UpdateTypes DEF Steady, Moves, Tells, Pays

LEMMA NotConfiguredShape ==
  ASSUME TypeOK, NEW r \in Reviews, NotConfigured(r)
  PROVE  /\ TypeOK' /\ Steady(r) /\ Free(r)
         /\ review[r].phase = "wpscan" /\ UNCHANGED <<cache, faults, trouble>>
         /\ Moves(r, "wpscan", <<>>, None, review[r].uncached)
         /\ Tells(r, review[r].found, review[r].skipped, review[r].failed \cup {"wpscan"})
<1>0. review[r] \in ReviewRecord /\ review[r].phase = "wpscan" /\ review[r].answer = None
  BY DEF TypeOK, NotConfigured, At
<1>1. PICK rv, failed :
        /\ failed = review[r].failed \cup {"wpscan"}
        /\ rv = [review[r] EXCEPT !.todo = <<>>, !.failed = failed]
        /\ Local(r, rv)
  BY DEF NotConfigured
<1>2. rv \in ReviewRecord
  <2>1. failed \subseteq Providers /\ <<>> \in Seq(Keys)
    BY <1>0, <1>1 DEF ReviewRecord, Providers
  <2> QED
    BY <1>0, <1>1, <2>1 DEF ReviewRecord
<1>3. /\ rv.attempt = review[r].attempt /\ rv.missed = review[r].missed
      /\ rv.wrong = review[r].wrong /\ rv.failing = review[r].failing
      /\ rv.fresh = review[r].fresh /\ rv.seen = review[r].seen
      /\ rv.phase = "wpscan" /\ rv.todo = <<>> /\ rv.answer = None
      /\ rv.uncached = review[r].uncached
      /\ rv.found = review[r].found /\ rv.skipped = review[r].skipped
      /\ rv.failed = review[r].failed \cup {"wpscan"}
      /\ rv.budget = review[r].budget /\ rv.used = review[r].used
  BY <1>0, <1>1 DEF ReviewRecord
<1> QED
  BY <1>0, <1>1, <1>2, <1>3, Fields, LocalTypes DEF Local, Free

\* What was not discovered is passed over.
LEMMA UndiscoveredShape ==
  ASSUME TypeOK, NEW r \in Reviews, Undiscovered(r)
  PROVE  /\ TypeOK' /\ Steady(r) /\ Free(r) /\ Silent(r)
         /\ Turn(r, {"wpscan", "php", "packages"})
         /\ Head(review[r].todo) \notin review[r].seen
         /\ UNCHANGED <<cache, faults, trouble>>
         /\ Moves(r, review[r].phase, Tail(review[r].todo), None, review[r].uncached)
<1> PICK todo : todo = Tail(review[r].todo)
  OBVIOUS
<1>0. /\ review[r] \in ReviewRecord /\ todo \in Seq(Keys)
      /\ Turn(r, {"wpscan", "php", "packages"}) /\ Head(review[r].todo) \notin review[r].seen
  BY HeadTypes DEF TypeOK, Undiscovered, Turn, At
<1>1. PICK rv : /\ rv = [review[r] EXCEPT !.todo = todo, !.answer = None]
                /\ Local(r, rv)
  BY DEF Undiscovered, Advance
<1>2. rv \in ReviewRecord
  BY <1>0, <1>1 DEF ReviewRecord
<1>3. /\ rv.attempt = review[r].attempt /\ rv.missed = review[r].missed
      /\ rv.wrong = review[r].wrong /\ rv.failing = review[r].failing
      /\ rv.fresh = review[r].fresh /\ rv.seen = review[r].seen
      /\ rv.phase = review[r].phase /\ rv.todo = todo /\ rv.answer = None
      /\ rv.uncached = review[r].uncached
      /\ rv.found = review[r].found /\ rv.skipped = review[r].skipped
      /\ rv.failed = review[r].failed
      /\ rv.budget = review[r].budget /\ rv.used = review[r].used
  BY <1>0, <1>1 DEF ReviewRecord
<1>4. TypeOK' /\ UNCHANGED <<cache, faults, trouble>>
  BY <1>1, <1>2, LocalTypes DEF Local
<1>5. /\ Steady(r)
      /\ Moves(r, rv.phase, rv.todo, rv.answer, rv.uncached)
      /\ Tells(r, rv.found, rv.skipped, rv.failed)
      /\ Pays(r, rv.budget, rv.used)
  BY <1>1, <1>2, <1>3, Fields DEF Local
<1> QED
  BY <1>0, <1>3, <1>4, <1>5 DEF Free, Silent

LEMMA CacheHitShape ==
  ASSUME TypeOK, NEW r \in Reviews, CacheHit(r)
  PROVE  /\ TypeOK' /\ Steady(r) /\ Free(r)
         /\ Looking(r, {"wpscan", "php", "packages"}) /\ Hit(Head(review[r].todo))
         /\ UNCHANGED <<cache, faults, trouble>>
         /\ Moves(r, review[r].phase, Tail(review[r].todo), None, review[r].uncached)
         /\ Tells(r, review[r].found
                       \cup ({Head(review[r].todo)} \X cache[Head(review[r].todo)].found),
                  review[r].skipped, review[r].failed)
<1> PICK k : k = Head(review[r].todo)
  OBVIOUS
<1>0. /\ review[r] \in ReviewRecord /\ review[r].todo # <<>>
      /\ k \in Keys /\ Tail(review[r].todo) \in Seq(Keys)
  BY HeadTypes DEF TypeOK, CacheHit, Looking, Turn, At
<1>1. PICK rv : /\ rv = Advance(Told(review[r], k, cache[k].found))
                /\ Local(r, rv)
  BY DEF CacheHit
<1>2. PICK found, todo :
        /\ found = review[r].found \cup ({k} \X cache[k].found)
        /\ todo = Tail(review[r].todo)
  OBVIOUS
<1>3. rv = [review[r] EXCEPT !.found = found, !.todo = todo, !.answer = None]
  BY <1>0, <1>1, <1>2 DEF Advance, Told, ReviewRecord
<1>4. found \subseteq Findings /\ todo \in Seq(Keys)
  <2>1. Hit(k)
    BY DEF CacheHit
  <2>2. cache[k].found \subseteq Notes
    BY <1>0, <2>1 DEF TypeOK, Hit, Cached, Replies
  <2> QED
    BY <1>0, <1>2, <2>2 DEF ReviewRecord, Findings
<1>5. rv \in ReviewRecord
  BY <1>0, <1>3, <1>4 DEF ReviewRecord
<1>6. /\ rv.attempt = review[r].attempt /\ rv.missed = review[r].missed
      /\ rv.wrong = review[r].wrong /\ rv.failing = review[r].failing
      /\ rv.fresh = review[r].fresh /\ rv.seen = review[r].seen
      /\ rv.phase = review[r].phase /\ rv.todo = todo /\ rv.answer = None
      /\ rv.uncached = review[r].uncached
      /\ rv.found = found /\ rv.skipped = review[r].skipped
      /\ rv.failed = review[r].failed
      /\ rv.budget = review[r].budget /\ rv.used = review[r].used
  BY <1>0, <1>3 DEF ReviewRecord
<1>7. TypeOK' /\ UNCHANGED <<cache, faults, trouble>>
  BY <1>1, <1>5, LocalTypes DEF Local
<1>8. /\ Steady(r)
      /\ Moves(r, rv.phase, rv.todo, rv.answer, rv.uncached)
      /\ Tells(r, rv.found, rv.skipped, rv.failed)
      /\ Pays(r, rv.budget, rv.used)
  BY <1>1, <1>5, <1>6, Fields DEF Local
<1>9. Looking(r, {"wpscan", "php", "packages"}) /\ Hit(Head(review[r].todo))
  BY DEF CacheHit
<1> QED
  BY <1>2, <1>6, <1>7, <1>8, <1>9 DEF Free

LEMMA SkipShape ==
  ASSUME TypeOK, NEW r \in Reviews, Skip(r)
  PROVE  /\ TypeOK' /\ Steady(r) /\ Free(r)
         /\ review[r].phase = "wpscan" /\ review[r].budget = 0 /\ At(r, {"wpscan"})
         /\ UNCHANGED cache /\ (faults' = faults \/ faults' = faults + 1)
         /\ Moves(r, "wpscan", Tail(review[r].todo), None, review[r].uncached)
         /\ Tells(r, review[r].found, review[r].skipped \cup {Head(review[r].todo)},
                  review[r].failed)
<1> PICK k, todo : k = Head(review[r].todo) /\ todo = Tail(review[r].todo)
  OBVIOUS
<1>0. /\ review[r] \in ReviewRecord /\ At(r, {"wpscan"}) /\ review[r].budget = 0
      /\ k \in Keys /\ todo \in Seq(Keys)
      /\ UNCHANGED <<cache, trouble>> /\ Missed(r)
  BY HeadTypes DEF TypeOK, Skip, Looking, Turn, At
<1>1. PICK rv, skipped :
        /\ skipped = review[r].skipped \cup {k}
        /\ rv = [review[r] EXCEPT !.skipped = skipped, !.todo = todo, !.answer = None]
        /\ Update(r, rv)
  BY <1>0 DEF Skip, Advance, ReviewRecord
<1>2. rv \in ReviewRecord
  BY <1>0, <1>1 DEF ReviewRecord
<1>3. /\ rv.attempt = review[r].attempt /\ rv.missed = review[r].missed
      /\ rv.wrong = review[r].wrong /\ rv.failing = review[r].failing
      /\ rv.fresh = review[r].fresh /\ rv.seen = review[r].seen
      /\ rv.phase = review[r].phase /\ rv.todo = todo /\ rv.answer = None
      /\ rv.uncached = review[r].uncached
      /\ rv.found = review[r].found /\ rv.skipped = skipped
      /\ rv.failed = review[r].failed
      /\ rv.budget = review[r].budget /\ rv.used = review[r].used
  BY <1>0, <1>1 DEF ReviewRecord
<1>4. /\ Steady(r) /\ review' \in [Reviews -> ReviewRecord]
      /\ Moves(r, rv.phase, rv.todo, rv.answer, rv.uncached)
      /\ Tells(r, rv.found, rv.skipped, rv.failed)
      /\ Pays(r, rv.budget, rv.used)
  BY <1>1, <1>2, <1>3, Fields
<1>5. faults' \in Nat /\ (faults' = faults \/ faults' = faults + 1)
  BY <1>0, FaultTypes DEF Missed, Miss, Fault
<1>6. TypeOK'
  BY <1>0, <1>4, <1>5 DEF TypeOK, Steady
<1> QED
  BY <1>0, <1>1, <1>3, <1>4, <1>5, <1>6 DEF Free, At

\* What a provider may say are findings about its advisories.
LEMMA AnswerTypes ==
  ASSUME NEW k, NEW answer \in Answers(k)
  PROVE  answer \subseteq Notes /\ answer \subseteq Relevant(k) \cup {Truncated}
<1>1. Relevant(k) \subseteq Flaws
  BY DEF Relevant
<1>2. answer \subseteq Relevant(k) \cup {Truncated}
  BY DEF Answers, kSubset
<1> QED
  BY <1>1, <1>2 DEF Notes

\* A request to a provider: its component is not known to be in the table.
LEMMA AskingShape ==
  ASSUME TypeOK, NEW r \in Reviews, Ask(r) \/ RateLimited(r) \/ LookupFails(r)
  PROVE  /\ TypeOK' /\ Steady(r) /\ UNCHANGED cache
         /\ At(r, Providers) /\ Missed(r)
         /\ IF review[r].phase = "wpscan"
              THEN /\ review[r].budget > 0 /\ review'[r].used = review[r].used + 1
                   /\ \/ /\ review'[r].budget = review[r].budget - 1
                         /\ review'[r].skipped = review[r].skipped
                      \/ review'[r].budget = 0
              ELSE Free(r) /\ review'[r].skipped = review[r].skipped
         /\ review'[r].uncached = review[r].uncached /\ review'[r].phase = review[r].phase
         /\ review'[r].todo \in {review[r].todo, Tail(review[r].todo), <<>>}
         /\ review'[r].answer # None => review'[r].todo = review[r].todo
<1> PICK k, todo : k = Head(review[r].todo) /\ todo = Tail(review[r].todo)
  OBVIOUS
<1>0. /\ review[r] \in ReviewRecord /\ At(r, Providers) /\ Missed(r)
      /\ k \in Keys /\ todo \in Seq(Keys) /\ review[r].todo # <<>>
      /\ review[r].phase = "wpscan" => review[r].budget > 0
      /\ UNCHANGED cache
  BY HeadTypes DEF TypeOK, Ask, RateLimited, LookupFails, CanAsk, Looking, Turn, At
<1>1. PICK asked : asked = Asked(review[r])
  OBVIOUS
<1>2. /\ asked \in ReviewRecord /\ asked.attempt = review[r].attempt
      /\ asked.missed = review[r].missed
      /\ asked.wrong = review[r].wrong /\ asked.failing = review[r].failing
      /\ asked.fresh = review[r].fresh /\ asked.seen = review[r].seen
      /\ asked.phase = review[r].phase /\ asked.todo = review[r].todo
      /\ asked.answer = review[r].answer /\ asked.uncached = review[r].uncached
      /\ asked.found = review[r].found /\ asked.skipped = review[r].skipped
      /\ asked.failed = review[r].failed
  <2>1. CASE review[r].phase = "wpscan"
    <3>1. PICK budget, used :
            /\ budget = review[r].budget - 1 /\ used = review[r].used + 1
            /\ asked = [review[r] EXCEPT !.budget = budget, !.used = used]
      BY <1>1, <2>1 DEF Asked
    <3>2. budget \in Nat /\ used \in Nat
      <4>1. review[r].budget \in Nat /\ review[r].used \in Nat
        BY <1>0 DEF ReviewRecord
      <4> QED
        BY <1>0, <2>1, <3>1, <4>1
    <3>3. asked \in ReviewRecord
      BY <1>0, <3>1, <3>2 DEF ReviewRecord
    <3> QED
      BY <1>0, <3>1, <3>3 DEF ReviewRecord
  <2>2. CASE review[r].phase # "wpscan"
    BY <1>0, <1>1, <2>2 DEF Asked
  <2> QED
    BY <2>1, <2>2
<1>3. IF review[r].phase = "wpscan"
        THEN asked.budget = review[r].budget - 1 /\ asked.used = review[r].used + 1
        ELSE asked.budget = review[r].budget /\ asked.used = review[r].used
  BY <1>0, <1>1 DEF Asked, ReviewRecord
<1>4. faults' \in Nat
  BY <1>0, FaultTypes
<1>5. ASSUME NEW rv \in ReviewRecord, Update(r, rv), trouble' \in Nat,
             rv.attempt = asked.attempt, rv.missed = asked.missed,
             rv.wrong = asked.wrong, rv.failing = asked.failing,
             rv.fresh = asked.fresh, rv.seen = asked.seen, rv.phase = asked.phase,
             rv.uncached = asked.uncached, rv.used = asked.used,
             rv.todo \in {asked.todo, Tail(asked.todo), <<>>},
             rv.answer # None => rv.todo = asked.todo,
             \/ rv.budget = asked.budget /\ rv.skipped = asked.skipped
             \/ review[r].phase = "wpscan" /\ rv.budget = 0
      PROVE  /\ TypeOK' /\ Steady(r)
             /\ review'[r].used = asked.used /\ review'[r].phase = asked.phase
             /\ review'[r].uncached = asked.uncached
             /\ review'[r].todo \in {asked.todo, Tail(asked.todo), <<>>}
             /\ review'[r].answer # None => review'[r].todo = asked.todo
             /\ \/ review'[r].budget = asked.budget /\ review'[r].skipped = asked.skipped
                \/ review[r].phase = "wpscan" /\ review'[r].budget = 0
  <2>1. /\ Steady(r) /\ review'[r] = rv /\ review' \in [Reviews -> ReviewRecord]
    BY <1>2, <1>5, Fields
  <2>2. TypeOK'
    BY <1>0, <1>4, <1>5, <2>1 DEF TypeOK, Steady
  <2> QED
    BY <1>5, <2>1, <2>2
<1>6. ASSUME /\ review'[r].used = asked.used
             /\ \/ review'[r].budget = asked.budget /\ review'[r].skipped = asked.skipped
                \/ review[r].phase = "wpscan" /\ review'[r].budget = 0
      PROVE  IF review[r].phase = "wpscan"
               THEN /\ review[r].budget > 0 /\ review'[r].used = review[r].used + 1
                    /\ \/ /\ review'[r].budget = review[r].budget - 1
                          /\ review'[r].skipped = review[r].skipped
                       \/ review'[r].budget = 0
               ELSE Free(r) /\ review'[r].skipped = review[r].skipped
  <2>1. CASE review[r].phase = "wpscan"
    BY <1>0, <1>2, <1>3, <1>6, <2>1
  <2>2. CASE review[r].phase # "wpscan"
    BY <1>0, <1>2, <1>3, <1>6, <2>2 DEF Free, Pays
  <2> QED
    BY <2>1, <2>2
<1>7. CASE Ask(r)
  <2>1. PICK answer \in Answers(k) : Update(r, [asked EXCEPT !.answer = answer])
    BY <1>1, <1>7 DEF Ask
  <2>2. PICK rv : /\ rv = [asked EXCEPT !.answer = answer] /\ Update(r, rv)
                  /\ answer \in Replies
    BY <2>1, AnswerTypes DEF Replies
  <2>3. rv \in ReviewRecord
    BY <1>2, <2>2 DEF ReviewRecord
  <2>4. /\ rv.attempt = asked.attempt /\ rv.missed = asked.missed
        /\ rv.wrong = asked.wrong /\ rv.failing = asked.failing
        /\ rv.fresh = asked.fresh /\ rv.seen = asked.seen /\ rv.phase = asked.phase
        /\ rv.uncached = asked.uncached /\ rv.used = asked.used /\ rv.budget = asked.budget
        /\ rv.todo \in {asked.todo, Tail(asked.todo), <<>>} /\ rv.skipped = asked.skipped
        /\ rv.answer # None => rv.todo = asked.todo
    BY <1>2, <2>2 DEF ReviewRecord
  <2>5. trouble' \in Nat
    BY <1>7 DEF Ask, TypeOK
  <2>6. /\ TypeOK' /\ Steady(r)
        /\ review'[r].used = asked.used /\ review'[r].phase = asked.phase
        /\ review'[r].uncached = asked.uncached
        /\ review'[r].todo \in {asked.todo, Tail(asked.todo), <<>>}
        /\ review'[r].answer # None => review'[r].todo = asked.todo
        /\ \/ review'[r].budget = asked.budget /\ review'[r].skipped = asked.skipped
           \/ review[r].phase = "wpscan" /\ review'[r].budget = 0
    BY <1>5, <2>2, <2>3, <2>4, <2>5
  <2> QED
    BY <1>0, <1>2, <1>6, <2>6
<1>8. CASE RateLimited(r)
  <2>1. PICK rv, skipped :
          /\ skipped = asked.skipped \cup {k}
          /\ rv = [asked EXCEPT !.skipped = skipped, !.budget = 0, !.todo = todo,
                                !.answer = None]
          /\ Update(r, rv)
    BY <1>1, <1>2, <1>8 DEF RateLimited, Advance, ReviewRecord
  <2>2. rv \in ReviewRecord
    BY <1>0, <1>2, <2>1 DEF ReviewRecord
  <2>3. /\ rv.attempt = asked.attempt /\ rv.missed = asked.missed
        /\ rv.wrong = asked.wrong /\ rv.failing = asked.failing
        /\ rv.fresh = asked.fresh /\ rv.seen = asked.seen /\ rv.phase = asked.phase
        /\ rv.uncached = asked.uncached /\ rv.used = asked.used /\ rv.budget = 0
        /\ rv.todo = Tail(asked.todo) /\ rv.answer = None /\ review[r].phase = "wpscan"
    BY <1>2, <1>8, <2>1 DEF ReviewRecord, RateLimited
  <2>4. trouble' \in Nat
    BY <1>8, FaultTypes DEF RateLimited
  <2>5. /\ TypeOK' /\ Steady(r)
        /\ review'[r].used = asked.used /\ review'[r].phase = asked.phase
        /\ review'[r].uncached = asked.uncached
        /\ review'[r].todo \in {asked.todo, Tail(asked.todo), <<>>}
        /\ review'[r].answer # None => review'[r].todo = asked.todo
        /\ \/ review'[r].budget = asked.budget /\ review'[r].skipped = asked.skipped
           \/ review[r].phase = "wpscan" /\ review'[r].budget = 0
    BY <1>5, <1>8, <2>1, <2>2, <2>3, <2>4
  <2> QED
    BY <1>0, <1>2, <1>6, <2>5
<1>9. CASE LookupFails(r)
  <2>1. PICK rv, found, failed :
          /\ found = asked.found \ (Of(review[r].phase) \X Notes)
          /\ failed = asked.failed \cup {review[r].phase}
          /\ rv = [asked EXCEPT !.todo = <<>>, !.found = found, !.failed = failed]
          /\ Update(r, rv)
    BY <1>1, <1>2, <1>9 DEF LookupFails
  <2>2. found \subseteq Findings /\ failed \subseteq Providers /\ <<>> \in Seq(Keys)
    BY <1>0, <1>2, <2>1 DEF ReviewRecord, At
  <2>3. rv \in ReviewRecord
    BY <1>0, <1>2, <2>1, <2>2 DEF ReviewRecord
  <2>4. /\ rv.attempt = asked.attempt /\ rv.missed = asked.missed
        /\ rv.wrong = asked.wrong /\ rv.failing = asked.failing
        /\ rv.fresh = asked.fresh /\ rv.seen = asked.seen /\ rv.phase = asked.phase
        /\ rv.uncached = asked.uncached /\ rv.used = asked.used /\ rv.budget = asked.budget
        /\ rv.todo \in {asked.todo, Tail(asked.todo), <<>>} /\ rv.skipped = asked.skipped
        /\ rv.answer # None => rv.todo = asked.todo
    BY <1>0, <1>2, <2>1 DEF ReviewRecord, At
  <2>5. trouble' \in Nat
    BY <1>9, FaultTypes DEF LookupFails
  <2>6. /\ TypeOK' /\ Steady(r)
        /\ review'[r].used = asked.used /\ review'[r].phase = asked.phase
        /\ review'[r].uncached = asked.uncached
        /\ review'[r].todo \in {asked.todo, Tail(asked.todo), <<>>}
        /\ review'[r].answer # None => review'[r].todo = asked.todo
        /\ \/ review'[r].budget = asked.budget /\ review'[r].skipped = asked.skipped
           \/ review[r].phase = "wpscan" /\ review'[r].budget = 0
    BY <1>5, <2>1, <2>3, <2>4, <2>5
  <2> QED
    BY <1>0, <1>2, <1>6, <2>6
<1> QED
  BY <1>7, <1>8, <1>9

\* A component is being asked about as long as its answer is not stored, and the
\* packages to ask OSV about are being collected in one phase only.
Pending(r) ==
  /\ review[r].answer # None =>
       review[r].todo # <<>> /\ review[r].phase \in Providers
  /\ review[r].phase # "packages" => review[r].uncached = <<>>

LEMMA SaveTypes ==
  ASSUME TypeOK, NEW k \in Keys, NEW found \in Replies, Save(k, found)
  PROVE  /\ cache' \in [Keys -> Cached \cup {None}] /\ faults' \in Nat
         /\ faults' = faults \/ faults' = faults + 1
         /\ \/ UNCHANGED cache
            \/ cache' = [cache EXCEPT ![k] = [found |-> found, at |-> clock]]
BY FaultTypes DEF TypeOK, Save, Cached, Fault

LEMMA StoreShape ==
  ASSUME TypeOK, NEW r \in Reviews, Pending(r), Store(r)
  PROVE  /\ TypeOK' /\ Steady(r) /\ Free(r)
         /\ review[r].todo # <<>> /\ review[r].phase \in Providers
         /\ Head(review[r].todo) \in Keys /\ review[r].answer \in Replies
         /\ Save(Head(review[r].todo), review[r].answer)
         /\ Moves(r, review[r].phase, Tail(review[r].todo), None, review[r].uncached)
         /\ Tells(r, review[r].found \cup ({Head(review[r].todo)} \X review[r].answer),
                  review[r].skipped, review[r].failed)
<1> PICK k, todo, found :
      /\ k = Head(review[r].todo) /\ todo = Tail(review[r].todo)
      /\ found = review[r].found \cup ({k} \X review[r].answer)
  OBVIOUS
<1>0. /\ review[r] \in ReviewRecord /\ review[r].todo # <<>>
      /\ review[r].phase \in Providers /\ review[r].answer \in Replies
      /\ k \in Keys /\ todo \in Seq(Keys)
      /\ Save(k, review[r].answer) /\ UNCHANGED trouble
  <2>1. review[r].answer # None /\ Save(k, review[r].answer) /\ UNCHANGED trouble
    BY DEF Store
  <2>2. review[r].todo # <<>> /\ review[r].phase \in Providers
    BY <2>1 DEF Pending
  <2>3. review[r] \in ReviewRecord
    BY DEF TypeOK
  <2>4. review[r].answer \in Replies
    BY <2>1, <2>3 DEF ReviewRecord
  <2> QED
    BY <2>1, <2>2, <2>3, <2>4, HeadTypes
<1>1. PICK rv : /\ rv = Advance(Told(review[r], k, review[r].answer))
                /\ Update(r, rv)
  BY DEF Store
<1>2. rv = [review[r] EXCEPT !.found = found, !.todo = todo, !.answer = None]
  BY <1>0, <1>1 DEF Advance, Told, ReviewRecord
<1>3. rv \in ReviewRecord
  <2>1. found \subseteq Findings
    BY <1>0 DEF ReviewRecord, Findings, Replies
  <2> QED
    BY <1>0, <1>2, <2>1 DEF ReviewRecord
<1>4. /\ rv.attempt = review[r].attempt /\ rv.missed = review[r].missed
      /\ rv.wrong = review[r].wrong /\ rv.failing = review[r].failing
      /\ rv.fresh = review[r].fresh /\ rv.seen = review[r].seen
      /\ rv.phase = review[r].phase /\ rv.todo = todo /\ rv.answer = None
      /\ rv.uncached = review[r].uncached
      /\ rv.found = found /\ rv.skipped = review[r].skipped
      /\ rv.failed = review[r].failed
      /\ rv.budget = review[r].budget /\ rv.used = review[r].used
  BY <1>0, <1>2 DEF ReviewRecord
<1>5. /\ Steady(r) /\ review' \in [Reviews -> ReviewRecord]
      /\ Moves(r, rv.phase, rv.todo, rv.answer, rv.uncached)
      /\ Tells(r, rv.found, rv.skipped, rv.failed)
      /\ Pays(r, rv.budget, rv.used)
  BY <1>1, <1>3, <1>4, Fields
<1>6. cache' \in [Keys -> Cached \cup {None}] /\ faults' \in Nat
  BY <1>0, SaveTypes
<1>7. TypeOK'
  BY <1>0, <1>5, <1>6 DEF TypeOK, Steady
<1> QED
  BY <1>0, <1>4, <1>5, <1>7 DEF Free

\* The next provider, or the next pass over the packages.
LEMMA TurnShape ==
  ASSUME TypeOK, NEW r \in Reviews, WpscanDone(r) \/ PhpDone(r) \/ PackagesDone(r)
  PROVE  /\ TypeOK' /\ Steady(r) /\ Free(r) /\ Silent(r)
         /\ UNCHANGED <<cache, faults, trouble>> /\ review[r].todo = <<>>
         /\ \/ /\ review[r].phase = "wpscan"
               /\ Moves(r, "php", <<Php>>, review[r].answer, review[r].uncached)
            \/ /\ review[r].phase = "php"
               /\ Moves(r, "packages", Packages, review[r].answer, review[r].uncached)
            \/ /\ review[r].phase = "packages"
               /\ Moves(r, "osv", review[r].uncached, review[r].answer, <<>>)
<1>0. review[r] \in ReviewRecord /\ <<>> \in Seq(Keys)
  BY DEF TypeOK
<1>1. PICK rv, phase, todo, uncached :
        /\ rv = [review[r] EXCEPT !.phase = phase, !.todo = todo, !.uncached = uncached]
        /\ Local(r, rv) /\ review[r].todo = <<>>
        /\ \/ /\ review[r].phase = "wpscan" /\ phase = "php" /\ todo = <<Php>>
              /\ uncached = review[r].uncached
           \/ /\ review[r].phase = "php" /\ phase = "packages" /\ todo = Packages
              /\ uncached = review[r].uncached
           \/ /\ review[r].phase = "packages" /\ phase = "osv" /\ todo = review[r].uncached
              /\ uncached = <<>>
  <2>1. CASE WpscanDone(r)
    <3>1. [review[r] EXCEPT !.phase = "php", !.todo = <<Php>>]
            = [review[r] EXCEPT !.phase = "php", !.todo = <<Php>>,
                                !.uncached = review[r].uncached]
      BY <1>0 DEF ReviewRecord
    <3> QED
      BY <2>1, <3>1 DEF WpscanDone
  <2>2. CASE PhpDone(r)
    <3>1. [review[r] EXCEPT !.phase = "packages", !.todo = Packages]
            = [review[r] EXCEPT !.phase = "packages", !.todo = Packages,
                                !.uncached = review[r].uncached]
      BY <1>0 DEF ReviewRecord
    <3> QED
      BY <2>2, <3>1 DEF PhpDone
  <2>3. CASE PackagesDone(r)
    BY <2>3 DEF PackagesDone
  <2> QED
    BY <2>1, <2>2, <2>3
<1>2. rv \in ReviewRecord
  <2>1. phase \in Phases /\ todo \in Seq(Keys) /\ uncached \in Seq(Keys)
    BY <1>0, <1>1, InventoryTypes DEF ReviewRecord, Phases, Providers
  <2> QED
    BY <1>0, <1>1, <2>1 DEF ReviewRecord
<1>3. /\ rv.attempt = review[r].attempt /\ rv.missed = review[r].missed
      /\ rv.wrong = review[r].wrong /\ rv.failing = review[r].failing
      /\ rv.fresh = review[r].fresh /\ rv.seen = review[r].seen
      /\ rv.phase = phase /\ rv.todo = todo /\ rv.answer = review[r].answer
      /\ rv.uncached = uncached
      /\ rv.found = review[r].found /\ rv.skipped = review[r].skipped
      /\ rv.failed = review[r].failed
      /\ rv.budget = review[r].budget /\ rv.used = review[r].used
  BY <1>0, <1>1 DEF ReviewRecord
<1>4. /\ Steady(r)
      /\ Moves(r, rv.phase, rv.todo, rv.answer, rv.uncached)
      /\ Tells(r, rv.found, rv.skipped, rv.failed)
      /\ Pays(r, rv.budget, rv.used)
  BY <1>1, <1>2, <1>3, Fields DEF Local
<1>5. TypeOK' /\ UNCHANGED <<cache, faults, trouble>>
  BY <1>1, <1>2, LocalTypes DEF Local
<1> QED
  BY <1>1, <1>3, <1>4, <1>5 DEF Free, Silent

LEMMA UncachedShape ==
  ASSUME TypeOK, NEW r \in Reviews, Uncached(r)
  PROVE  /\ TypeOK' /\ Steady(r) /\ Free(r) /\ Silent(r)
         /\ review[r].phase = "packages" /\ review[r].todo # <<>>
         /\ Miss(Head(review[r].todo)) /\ UNCHANGED cache
         /\ Moves(r, "packages", Tail(review[r].todo), None,
                  Append(review[r].uncached, Head(review[r].todo)))
<1> PICK k, todo : k = Head(review[r].todo) /\ todo = Tail(review[r].todo)
  OBVIOUS
<1>0. /\ review[r] \in ReviewRecord /\ review[r].phase = "packages"
      /\ review[r].todo # <<>> /\ k \in Keys /\ todo \in Seq(Keys)
      /\ Miss(k) /\ UNCHANGED <<cache, trouble>>
  BY HeadTypes DEF TypeOK, Uncached, Looking, Turn, At
<1>1. PICK rv, uncached :
        /\ uncached = Append(review[r].uncached, k)
        /\ rv = [review[r] EXCEPT !.uncached = uncached, !.todo = todo, !.answer = None]
        /\ Update(r, rv)
  BY <1>0 DEF Uncached, Advance, ReviewRecord
<1>2. uncached \in Seq(Keys)
  BY <1>0, <1>1 DEF ReviewRecord
<1>3. rv \in ReviewRecord
  BY <1>0, <1>1, <1>2 DEF ReviewRecord
<1>4. /\ rv.attempt = review[r].attempt /\ rv.missed = review[r].missed
      /\ rv.wrong = review[r].wrong /\ rv.failing = review[r].failing
      /\ rv.fresh = review[r].fresh /\ rv.seen = review[r].seen
      /\ rv.phase = "packages" /\ rv.todo = todo /\ rv.answer = None
      /\ rv.uncached = uncached
      /\ rv.found = review[r].found /\ rv.skipped = review[r].skipped
      /\ rv.failed = review[r].failed
      /\ rv.budget = review[r].budget /\ rv.used = review[r].used
  BY <1>0, <1>1 DEF ReviewRecord
<1>5. /\ Steady(r) /\ review' \in [Reviews -> ReviewRecord]
      /\ Moves(r, rv.phase, rv.todo, rv.answer, rv.uncached)
      /\ Tells(r, rv.found, rv.skipped, rv.failed)
      /\ Pays(r, rv.budget, rv.used)
  BY <1>1, <1>3, <1>4, Fields
<1>6. faults' \in Nat
  BY <1>0, FaultTypes
<1>7. TypeOK'
  BY <1>0, <1>5, <1>6 DEF TypeOK, Steady
<1> QED
  BY <1>0, <1>1, <1>4, <1>5, <1>7 DEF Free, Silent
----------------------------------------------------------------------------
(* The invariant. *)

\* A row was stored at some time.
AtPast == \A k \in Keys : cache[k] # None => cache[k].at <= clock

\* A loop is at the attempt that follows the pages that did not come, one of the
\* Attempts; the rehearsal fails if one of its pages was wrong.
Judged(r) ==
  /\ review[r].failing = review[r].wrong
  /\ review[r].phase \in Loops \cup {"new"} =>
       review[r].missed + 1 = review[r].attempt /\ review[r].attempt <= Attempts

\* A request is paid for, and nothing is skipped as long as one can be.
Spared(r) ==
  /\ review[r].used + review[r].budget <= Budget
  /\ review[r].skipped # {} => review[r].budget = 0

\* What the table held at the start it holds until the end, and unless a read
\* fails no package of these is left for OSV.
Fresh(r) ==
  /\ \A k \in review[r].fresh : SureHit(k)
  /\ ~Running(r) => review[r].fresh = {}
  /\ faults = 0 => /\ ToSet(review[r].uncached) \cap review[r].fresh = {}
                   /\ review[r].phase = "osv" =>
                        ToSet(review[r].todo) \cap review[r].fresh = {}

Sound(r) == Pending(r) /\ Judged(r) /\ Spared(r) /\ Fresh(r)

\* A step of the review that does not finish it.
Unfinished(r) == Same(r) /\ review'[r].phase \notin {"reported", "completed", "unhealthy"}

Asking == {"wpscan", "php", "packages", "osv"}

\* Such a step before the lookup; it may lead to its first component.
Paged(r) ==
  /\ Unfinished(r) /\ UNCHANGED <<clock, known, cache>>
  /\ review'[r].phase \in Asking =>
       /\ review'[r].phase = "wpscan" /\ review'[r].todo = Wordpress
       /\ review'[r].answer = None

ReviewInv == TypeOK /\ AtPast /\ \A r \in Reviews : Sound(r)

\* A review that a step does not touch is as sound as before, if the table has
\* lost nothing.
LEMMA OthersSound ==
  ASSUME ReviewInv, NEW r \in Reviews, Same(r), UNCHANGED clock,
         \A k \in Keys : SureHit(k) => SureHit(k)', faults' = 0 => faults = 0, TypeOK'
  PROVE  \A q \in Reviews \ {r} : Sound(q)'
<1> SUFFICES ASSUME NEW q \in Reviews \ {r} PROVE Sound(q)'
  OBVIOUS
<1>1. review'[q] = review[q] /\ Sound(q) /\ review[q].fresh \subseteq Keys
  BY DEF Same, ReviewInv, TypeOK, ReviewRecord
<1>2. Pending(q)' /\ Judged(q)' /\ Spared(q)'
  BY <1>1 DEF Sound, Pending, Judged, Spared
<1>3. Fresh(q)'
  BY <1>1 DEF Sound, Fresh, Running
<1> QED
  BY <1>2, <1>3 DEF Sound

LEMMA UntouchedTable ==
  ASSUME UNCHANGED <<clock, cache>>
  PROVE  (\A k \in Keys : SureHit(k) => SureHit(k)') /\ (AtPast => AtPast')
BY DEF SureHit, AtPast

LEMMA NewSound ==
  ASSUME NEW r \in Reviews, NEW phase \in Ends \cup {"new"},
         review'[r] = [NewReview EXCEPT !.phase = phase]
  PROVE  Sound(r)'
<1>1. /\ review'[r].phase = phase /\ review'[r].attempt = 1 /\ review'[r].missed = 0
      /\ review'[r].failing = FALSE /\ review'[r].wrong = FALSE
      /\ review'[r].used = 0 /\ review'[r].budget = Budget /\ review'[r].skipped = {}
      /\ review'[r].fresh = {} /\ review'[r].answer = None /\ review'[r].uncached = <<>>
  BY DEF NewReview
<1>2. phase # "packages" /\ phase # "osv"
  BY DEF Ends
<1>3. Pending(r)'
  BY <1>1 DEF Pending
<1>4. Judged(r)'
  <2>1. review'[r].failing = review'[r].wrong
    BY <1>1, Zenon
  <2>2. review'[r].missed + 1 = review'[r].attempt /\ review'[r].attempt <= Attempts
    BY <1>1, ReviewAssumption
  <2> QED
    BY <2>1, <2>2 DEF Judged
<1>5. Spared(r)'
  BY <1>1, ReviewAssumption DEF Spared
<1>6. Fresh(r)'
  BY <1>1, <1>2 DEF Fresh, ToSet
<1> QED
  BY <1>3, <1>6, <1>4, <1>5 DEF Sound

LEMMA EndSound ==
  ASSUME ReviewInv, NEW r \in Reviews, NEW phase \in Ends, End(r, phase)
  PROVE  /\ ReviewInv' /\ Same(r) /\ review'[r].phase = phase
         /\ UNCHANGED <<clock, known, cache>>
<1>1. TypeOK' /\ UNCHANGED <<clock, known, cache, faults>>
  BY EndTypes DEF ReviewInv, End, Local, Update
<1>2. Same(r) /\ review'[r] = [NewReview EXCEPT !.phase = phase]
  <2>1. [NewReview EXCEPT !.phase = phase] \in ReviewRecord
    BY NewTypes DEF Phases
  <2> QED
    BY <2>1, UpdateTypes DEF End, Local, ReviewInv
<1>3. Sound(r)'
  BY <1>2, NewSound
<1>4. AtPast' /\ \A k \in Keys : SureHit(k) => SureHit(k)'
  BY <1>1, UntouchedTable DEF ReviewInv
<1>5. \A q \in Reviews \ {r} : Sound(q)'
  BY <1>1, <1>2, <1>4, OthersSound
<1> QED
  BY <1>1, <1>2, <1>3, <1>4, <1>5 DEF ReviewInv, NewReview

\* A step that only changes the pages' part of the review.
LEMMA PageSound ==
  ASSUME ReviewInv, NEW r \in Reviews, NEW rv \in ReviewRecord, Local(r, rv),
         rv.budget = review[r].budget, rv.used = review[r].used,
         rv.skipped = review[r].skipped, rv.answer = review[r].answer,
         rv.uncached = review[r].uncached, rv.phase \notin Ends \cup {"new"},
         rv.phase \in Asking => rv.phase = "wpscan" /\ rv.todo = Wordpress,
         \/ rv.fresh = review[r].fresh /\ Running(r)
         \/ rv.fresh = {k \in Keys : SureHit(k)},
         review[r].phase \notin {"packages", "osv"}, rv.phase \notin {"packages", "osv"},
         review[r].phase \notin Providers,
         rv.failing = rv.wrong,
         rv.phase \in Loops => rv.missed + 1 = rv.attempt /\ rv.attempt <= Attempts
  PROVE  ReviewInv' /\ Paged(r)
<1>1. TypeOK' /\ UNCHANGED <<clock, known, cache, faults>> /\ Same(r) /\ review'[r] = rv
  BY LocalTypes, UpdateTypes DEF ReviewInv, Local, Update
<1>2. AtPast' /\ \A k \in Keys : SureHit(k) => SureHit(k)'
  BY <1>1, UntouchedTable DEF ReviewInv
<1>3. Sound(r)'
  <2>1. Sound(r) /\ rv.fresh \subseteq Keys
    BY DEF ReviewInv, ReviewRecord
  <2>2. Pending(r)' /\ Judged(r)' /\ Spared(r)'
    BY <1>1, <2>1 DEF Sound, Pending, Judged, Spared
  <2>3. rv.uncached = <<>>
    BY <2>1 DEF Sound, Pending
  <2>4. ToSet(<<>>) = {}
    BY DEF ToSet
  <2>5. \A k \in rv.fresh : SureHit(k)
    BY <2>1 DEF Sound, Fresh
  <2>6. Fresh(r)'
    BY <1>1, <1>2, <2>1, <2>3, <2>4, <2>5 DEF Fresh, Running
  <2> QED
    BY <2>2, <2>6 DEF Sound
<1>4. \A q \in Reviews \ {r} : Sound(q)'
  BY <1>1, <1>2, OthersSound
<1>5. review'[r].answer = None
  BY <1>1 DEF ReviewInv, Sound, Pending
<1> QED
  BY <1>1, <1>2, <1>3, <1>4, <1>5 DEF ReviewInv, Paged, Unfinished, Ends

LEMMA BeginKeeps ==
  ASSUME ReviewInv, NEW r \in Reviews, Begin(r)
  PROVE  ReviewInv' /\ Paged(r)
<1>1. review[r] \in ReviewRecord /\ review[r].phase = "new" /\ Sound(r)
  BY DEF ReviewInv, TypeOK, Begin
<1>2. PICK rv, phase, fresh :
        /\ phase \in {"health", "scan"} /\ fresh = {k \in Keys : SureHit(k)}
        /\ rv = [review[r] EXCEPT !.phase = phase, !.fresh = fresh]
        /\ Local(r, rv)
  BY DEF Begin
<1>3. rv \in ReviewRecord
  BY <1>1, <1>2 DEF ReviewRecord, Phases, Loops
<1>4. /\ rv.budget = review[r].budget /\ rv.used = review[r].used
      /\ rv.skipped = review[r].skipped /\ rv.answer = review[r].answer
      /\ rv.uncached = review[r].uncached /\ rv.phase = phase /\ rv.fresh = fresh
      /\ rv.failing = review[r].failing /\ rv.wrong = review[r].wrong
      /\ rv.missed = review[r].missed /\ rv.attempt = review[r].attempt
  BY <1>1, <1>2 DEF ReviewRecord
<1>5. /\ review[r].failing = review[r].wrong
      /\ review[r].missed + 1 = review[r].attempt /\ review[r].attempt <= Attempts
  BY <1>1 DEF Sound, Judged
<1>6. /\ rv.phase \notin Ends \cup {"new"} /\ rv.phase \notin {"packages", "osv"}
      /\ rv.phase \notin Asking
      /\ review[r].phase \notin {"packages", "osv"} /\ review[r].phase \notin Providers
  BY <1>1, <1>2, <1>4 DEF Ends, Providers, Asking
<1> QED
  BY <1>2, <1>3, <1>4, <1>5, <1>6, PageSound

\* A step of a review that runs, and only of its pages.
LEMMA LoopSound ==
  ASSUME ReviewInv, NEW r \in Reviews, NEW rv \in ReviewRecord, Local(r, rv),
         rv.budget = review[r].budget, rv.used = review[r].used,
         rv.skipped = review[r].skipped, rv.answer = review[r].answer,
         rv.uncached = review[r].uncached, rv.fresh = review[r].fresh,
         review[r].phase \in Loops \cup {"scan", "inventory"},
         \/ rv.phase \in Loops \cup {"scan", "inventory"}
         \/ rv.phase = "wpscan" /\ rv.todo = Wordpress,
         rv.failing = rv.wrong,
         rv.phase \in Loops => rv.missed + 1 = rv.attempt /\ rv.attempt <= Attempts
  PROVE  ReviewInv' /\ Paged(r)
<1>1. /\ rv.phase \notin Ends \cup {"new"} /\ rv.phase \notin {"packages", "osv"}
      /\ review[r].phase \notin {"packages", "osv"} /\ review[r].phase \notin Providers
      /\ Running(r)
      /\ rv.phase \in Asking => rv.phase = "wpscan" /\ rv.todo = Wordpress
  BY DEF Ends, Providers, Loops, Running, Asking
<1> QED
  BY <1>1, PageSound

LEMMA ProbeKeeps ==
  ASSUME ReviewInv, NEW r \in Reviews, Probe(r)
  PROVE  ReviewInv' /\ Paged(r)
<1>0. /\ review[r] \in ReviewRecord /\ review[r].phase \in Loops
      /\ review[r].failing = review[r].wrong /\ review[r].missed \in Nat
      /\ review[r].missed + 1 = review[r].attempt /\ review[r].attempt <= Attempts
  <2>1. review[r] \in ReviewRecord /\ Judged(r)
    BY DEF ReviewInv, TypeOK, Sound
  <2>2. Badly(review[r]).phase = review[r].phase
    BY <2>1 DEF Badly, ReviewRecord
  <2>3. review[r].phase \in Loops
    BY <2>2 DEF Probe, Retry, GiveUp, GiveUpAt, Healthy, ProductionPage, StagingPage, Loops
  <2> QED
    BY <2>1, <2>3 DEF Judged, ReviewRecord
<1>1. PICK attempt, missed, wrong :
        /\ attempt = review[r].attempt + 1 /\ missed = review[r].missed + 1
        /\ wrong \in BOOLEAN /\ (wrong <=> (review[r].wrong \/ review[r].missed + 1 = Attempts))
        /\ Badly(review[r])
             = [review[r] EXCEPT !.attempt = attempt, !.missed = missed, !.wrong = wrong]
  BY DEF Badly
<1>2. attempt \in Nat /\ missed \in Nat /\ review[r].wrong \in BOOLEAN
  BY <1>0, <1>1 DEF ReviewRecord
<1>3. ASSUME Retry(r) PROVE ReviewInv' /\ Paged(r)
  <2>1. PICK rv :
          /\ rv = [review[r] EXCEPT !.attempt = attempt, !.missed = missed, !.wrong = wrong]
          /\ Local(r, rv) /\ review[r].attempt < Attempts
    BY <1>1, <1>3 DEF Retry
  <2>2. rv \in ReviewRecord
    BY <1>0, <1>1, <1>2, <2>1 DEF ReviewRecord
  <2>3. /\ rv.budget = review[r].budget /\ rv.used = review[r].used
        /\ rv.skipped = review[r].skipped /\ rv.answer = review[r].answer
        /\ rv.uncached = review[r].uncached /\ rv.fresh = review[r].fresh
        /\ rv.phase = review[r].phase /\ rv.failing = review[r].failing
        /\ rv.wrong = wrong /\ rv.missed = missed /\ rv.attempt = attempt
    BY <1>0, <2>1 DEF ReviewRecord
  <2>4. wrong = review[r].wrong
    <3>1. review[r].missed + 1 # Attempts
      BY <1>0, <2>1, ReviewAssumption
    <3> QED
      BY <1>1, <1>2, <3>1
  <2>5. missed + 1 = attempt /\ attempt <= Attempts
    BY <1>0, <1>1, <2>1, ReviewAssumption
  <2> QED
    BY <1>0, <2>1, <2>2, <2>3, <2>4, <2>5, LoopSound
<1>4. \A phase \in AfterHealth \cup {"staging"} :
        phase \in Phases /\ phase \in Loops \cup {"scan", "inventory"}
  BY DEF AfterHealth, Phases, Loops
\* The way into the next loop, or to the scan.
<1>5. ASSUME NEW phase \in AfterHealth \cup {"staging"}, NEW rw \in ReviewRecord, NEW rv,
             rv = [Enter(rw, phase) EXCEPT !.failing = rw.wrong],
             rw.budget = review[r].budget, rw.used = review[r].used,
             rw.skipped = review[r].skipped, rw.answer = review[r].answer,
             rw.uncached = review[r].uncached, rw.fresh = review[r].fresh,
             Local(r, rv)
      PROVE  ReviewInv' /\ Paged(r)
  <2>1. rv = [rw EXCEPT !.phase = phase, !.attempt = 1, !.missed = 0, !.failing = rw.wrong]
    BY <1>5 DEF Enter, ReviewRecord
  <2>2. rv \in ReviewRecord
    BY <1>4, <2>1 DEF ReviewRecord
  <2>3. /\ rv.budget = rw.budget /\ rv.used = rw.used
        /\ rv.skipped = rw.skipped /\ rv.answer = rw.answer
        /\ rv.uncached = rw.uncached /\ rv.fresh = rw.fresh
        /\ rv.phase = phase /\ rv.failing = rv.wrong
        /\ rv.missed = 0 /\ rv.attempt = 1
    BY <2>1 DEF ReviewRecord
  <2>4. rv.missed + 1 = rv.attempt /\ rv.attempt <= Attempts
    BY <2>3, ReviewAssumption
  <2>5. /\ rv.phase \in Loops \cup {"scan", "inventory"}
        /\ review[r].phase \in Loops \cup {"scan", "inventory"} /\ rv.failing = rv.wrong
    BY <1>0, <1>4, <2>3
  <2>6. /\ rv.budget = review[r].budget /\ rv.used = review[r].used
        /\ rv.skipped = review[r].skipped /\ rv.answer = review[r].answer
        /\ rv.uncached = review[r].uncached /\ rv.fresh = review[r].fresh
    BY <1>5, <2>3
  <2> QED
    BY <1>5, <2>2, <2>4, <2>5, <2>6, LoopSound
<1>6. ASSUME GiveUp(r) PROVE ReviewInv' /\ Paged(r)
  <2>1. PICK phase, rv :
          /\ phase \in AfterHealth \cup {"staging"}
          /\ rv = [Enter(Badly(review[r]), phase) EXCEPT !.failing = TRUE]
          /\ Local(r, rv) /\ review[r].attempt = Attempts
    BY <1>6 DEF GiveUp, GiveUpAt, AfterHealth
  <2>2. PICK rw : rw = Badly(review[r])
    OBVIOUS
  <2>3. rw \in ReviewRecord
    BY <1>0, <1>1, <1>2, <2>2 DEF ReviewRecord
  <2>4. /\ rw.budget = review[r].budget /\ rw.used = review[r].used
        /\ rw.skipped = review[r].skipped /\ rw.answer = review[r].answer
        /\ rw.uncached = review[r].uncached /\ rw.fresh = review[r].fresh
        /\ rw.wrong = wrong
    BY <1>0, <1>1, <2>2 DEF ReviewRecord
  <2>5. wrong = TRUE
    BY <1>0, <1>1, <2>1
  <2> QED
    BY <1>5, <2>1, <2>2, <2>3, <2>4, <2>5
<1>7. ASSUME NEW phase \in AfterHealth \cup {"staging"},
             Local(r, Enter(review[r], phase))
      PROVE  ReviewInv' /\ Paged(r)
  <2>1. Enter(review[r], phase) = [Enter(review[r], phase) EXCEPT !.failing = review[r].wrong]
    BY <1>0 DEF Enter, ReviewRecord
  <2> QED
    BY <1>0, <1>5, <1>7, <2>1
<1>8. ASSUME Healthy(r) \/ ProductionPage(r) PROVE ReviewInv' /\ Paged(r)
  BY <1>7, <1>8 DEF Healthy, ProductionPage
<1>9. ASSUME StagingPage(r) PROVE ReviewInv' /\ Paged(r)
  <2>1. CASE Local(r, Enter(review[r], "scan"))
    BY <1>7, <2>1 DEF AfterHealth
  <2>2. CASE Local(r, [Enter(review[r], "scan") EXCEPT !.wrong = TRUE, !.failing = TRUE])
    <3>1. PICK rw : rw = [review[r] EXCEPT !.wrong = TRUE]
      OBVIOUS
    <3>2. rw \in ReviewRecord
      BY <1>0, <3>1 DEF ReviewRecord
    <3>3. /\ rw.budget = review[r].budget /\ rw.used = review[r].used
          /\ rw.skipped = review[r].skipped /\ rw.answer = review[r].answer
          /\ rw.uncached = review[r].uncached /\ rw.fresh = review[r].fresh
          /\ rw.wrong = TRUE
      BY <1>0, <3>1 DEF ReviewRecord
    <3>4. [Enter(review[r], "scan") EXCEPT !.wrong = TRUE, !.failing = TRUE]
            = [Enter(rw, "scan") EXCEPT !.failing = rw.wrong]
      BY <1>0, <3>1, <3>3 DEF Enter, ReviewRecord
    <3>5. "scan" \in AfterHealth \cup {"staging"}
      BY DEF AfterHealth
    <3> QED
      BY <1>5, <2>2, <3>2, <3>3, <3>4, <3>5
  <2> QED
    BY <1>9, <2>1, <2>2 DEF StagingPage
<1> QED
  BY <1>3, <1>6, <1>8, <1>9 DEF Probe

LEMMA ScanKeeps ==
  ASSUME ReviewInv, NEW r \in Reviews, Scan(r) \/ Inventory(r)
  PROVE  ReviewInv' /\ Paged(r)
<1>0. /\ review[r] \in ReviewRecord /\ review[r].phase \in {"scan", "inventory"}
      /\ review[r].failing = review[r].wrong
  BY DEF ReviewInv, TypeOK, Sound, Judged, Scan, Inventory
<1>1. ASSUME NEW phase \in {"inventory", "wpscan"}, NEW todo \in Seq(Keys),
             phase = "wpscan" => todo = Wordpress,
             Local(r, [review[r] EXCEPT !.phase = phase, !.todo = todo])
      PROVE  ReviewInv' /\ Paged(r)
  <2>1. PICK rv : /\ rv = [review[r] EXCEPT !.phase = phase, !.todo = todo]
                  /\ Local(r, rv)
    BY <1>1
  <2>2. rv \in ReviewRecord
    BY <1>0, <2>1 DEF ReviewRecord, Phases, Providers
  <2>3. /\ rv.budget = review[r].budget /\ rv.used = review[r].used
        /\ rv.skipped = review[r].skipped /\ rv.answer = review[r].answer
        /\ rv.uncached = review[r].uncached /\ rv.fresh = review[r].fresh
        /\ rv.phase = phase /\ rv.failing = rv.wrong /\ rv.todo = todo
    BY <1>0, <2>1 DEF ReviewRecord
  <2> QED
    BY <1>0, <1>1, <2>1, <2>2, <2>3, LoopSound DEF Loops
<1>2. ASSUME Local(r, [review[r] EXCEPT !.phase = "inventory"]) PROVE ReviewInv' /\ Paged(r)
  <2>1. [review[r] EXCEPT !.phase = "inventory"]
          = [review[r] EXCEPT !.phase = "inventory", !.todo = review[r].todo]
    BY <1>0 DEF ReviewRecord
  <2>2. review[r].todo \in Seq(Keys)
    BY <1>0 DEF ReviewRecord
  <2> QED
    BY <1>1, <1>2, <2>1, <2>2
<1>3. ASSUME Local(r, [review[r] EXCEPT !.phase = "wpscan", !.todo = Wordpress])
      PROVE  ReviewInv' /\ Paged(r)
  BY <1>1, <1>3, InventoryTypes
<1>4. ASSUME End(r, "error") PROVE ReviewInv' /\ Paged(r)
  BY <1>4, EndSound DEF Ends, Paged, Unfinished, Asking
<1> QED
  BY <1>2, <1>3, <1>4 DEF Scan, Inventory

LEMMA UnreadKeeps ==
  ASSUME ReviewInv, NEW r \in Reviews, NEW k \in Keys, Unread(r, k)
  PROVE  ReviewInv' /\ Paged(r)
<1>0. /\ review[r] \in ReviewRecord /\ review[r].phase = "inventory" /\ Sound(r)
      /\ UNCHANGED <<cache, faults>>
  BY DEF ReviewInv, TypeOK, Unread
<1>1. PICK rv, seen : /\ seen = review[r].seen \ {k}
                      /\ rv = [review[r] EXCEPT !.seen = seen] /\ Update(r, rv)
  BY DEF Unread
<1>2. rv \in ReviewRecord
  <2>1. seen \subseteq Keys
    BY <1>0, <1>1 DEF ReviewRecord
  <2> QED
    BY <1>0, <1>1, <2>1 DEF ReviewRecord
<1>3. /\ rv.phase = "inventory" /\ rv.todo = review[r].todo
      /\ rv.answer = review[r].answer /\ rv.uncached = review[r].uncached
      /\ rv.budget = review[r].budget /\ rv.used = review[r].used
      /\ rv.skipped = review[r].skipped /\ rv.fresh = review[r].fresh
      /\ rv.failing = review[r].failing /\ rv.wrong = review[r].wrong
      /\ rv.missed = review[r].missed /\ rv.attempt = review[r].attempt
  BY <1>0, <1>1 DEF ReviewRecord
<1>4. /\ review' \in [Reviews -> ReviewRecord] /\ Same(r) /\ review'[r] = rv
      /\ UNCHANGED <<clock, known, token>>
  BY <1>1, <1>2, UpdateTypes DEF ReviewInv
<1>5. TypeOK'
  <2>1. trouble' \in Nat
    BY FaultTypes DEF ReviewInv, Unread
  <2> QED
    BY <1>0, <1>4, <2>1 DEF ReviewInv, TypeOK
<1>6. AtPast' /\ \A j \in Keys : SureHit(j) => SureHit(j)'
  BY <1>0, <1>4, UntouchedTable DEF ReviewInv
<1>7. Sound(r)'
  <2>1. Pending(r)'
    BY <1>0, <1>3, <1>4 DEF Sound, Pending
  <2>2. Judged(r)'
    BY <1>0, <1>3, <1>4 DEF Sound, Judged, Loops
  <2>3. Spared(r)'
    BY <1>0, <1>3, <1>4 DEF Sound, Spared
  <2>4. Fresh(r)'
    <3>1. \A j \in review[r].fresh : SureHit(j) /\ j \in Keys
      BY <1>0 DEF Sound, Fresh, ReviewRecord
    <3>2. Running(r) <=> Running(r)'
      BY <1>0, <1>3, <1>4 DEF Running
    <3> QED
      BY <1>0, <1>3, <1>4, <1>6, <3>1, <3>2 DEF Sound, Fresh
  <2> QED
    BY <2>1, <2>2, <2>3, <2>4 DEF Sound
<1>8. \A q \in Reviews \ {r} : Sound(q)'
  BY <1>0, <1>4, <1>5, <1>6, OthersSound
<1> QED
  BY <1>0, <1>3, <1>4, <1>5, <1>6, <1>7, <1>8 DEF ReviewInv, Paged, Unfinished, Asking

LEMMA EmptyAndTail ==
  ASSUME TypeOK, NEW r \in Reviews, NEW todo \in {review[r].todo, Tail(review[r].todo), <<>>},
         review[r].todo # <<>>
  PROVE  ToSet(todo) \subseteq ToSet(review[r].todo)
<1>1. ToSet(<<>>) = {}
  BY DEF ToSet
<1> QED
  BY <1>1, HeadTypes

LEMMA AppendToSet ==
  ASSUME NEW s \in Seq(Keys), NEW k \in Keys
  PROVE  ToSet(Append(s, k)) = ToSet(s) \cup {k}
<1>1. /\ Len(Append(s, k)) = Len(s) + 1 /\ DOMAIN s = 1..Len(s)
      /\ DOMAIN Append(s, k) = 1..(Len(s) + 1)
      /\ Append(s, k)[Len(s) + 1] = k /\ Len(s) + 1 \in 1..(Len(s) + 1)
  OBVIOUS
<1>2. \A i \in 1..Len(s) : Append(s, k)[i] = s[i] /\ i \in 1..(Len(s) + 1)
  OBVIOUS
<1>3. k \in ToSet(Append(s, k))
  BY <1>1 DEF ToSet
<1>4. ASSUME NEW j \in ToSet(s) PROVE j \in ToSet(Append(s, k))
  BY <1>1, <1>2, <1>4 DEF ToSet
<1>5. ASSUME NEW j \in ToSet(Append(s, k)), j # k PROVE j \in ToSet(s)
  <2>1. PICK i \in 1..(Len(s) + 1) : Append(s, k)[i] = j
    BY <1>1, <1>5 DEF ToSet
  <2>2. i \in 1..Len(s)
    BY <1>1, <1>5, <2>1
  <2> QED
    BY <1>1, <1>2, <2>1, <2>2 DEF ToSet
<1> QED
  BY <1>3, <1>4, <1>5

\* What the invariant needs of a step of the lookup.
LEMMA LookupKeeps ==
  ASSUME ReviewInv, NEW r \in Reviews, Lookup(r)
  PROVE  ReviewInv' /\ Unfinished(r)
<1>0. /\ TypeOK /\ AtPast /\ review[r] \in ReviewRecord
      /\ Pending(r) /\ Judged(r) /\ Spared(r) /\ Fresh(r)
  BY DEF ReviewInv, TypeOK, Sound
\* The common part.
<1>1. ASSUME TypeOK', Steady(r), review[r].phase \in Asking, review'[r].phase \in Asking,
             Pending(r)',
             \A k \in Keys : SureHit(k) => SureHit(k)', AtPast',
             faults' = 0 => faults = 0,
             \/ Free(r) /\ review'[r].skipped = review[r].skipped
             \/ Free(r) /\ review[r].budget = 0
             \/ /\ review[r].budget > 0 /\ review'[r].used = review[r].used + 1
                /\ \/ /\ review'[r].budget = review[r].budget - 1
                      /\ review'[r].skipped = review[r].skipped
                   \/ review'[r].budget = 0,
             faults' = 0 =>
               /\ \A k \in ToSet(review'[r].uncached) :
                    k \in ToSet(review[r].uncached) \/ ~SureHit(k)
               /\ review'[r].phase = "osv" =>
                    \A k \in ToSet(review'[r].todo) :
                      \/ k \in ToSet(review[r].uncached)
                      \/ review[r].phase = "osv" /\ k \in ToSet(review[r].todo)
      PROVE  ReviewInv' /\ Unfinished(r)
  <2>1. \A q \in Reviews \ {r} : Sound(q)'
    BY <1>1, OthersSound DEF Steady
  <2>2. Judged(r)'
    <3>1. review'[r].phase \notin Loops \cup {"new"}
      BY <1>1 DEF Asking, Loops
    <3> QED
      BY <1>0, <1>1, <3>1 DEF Judged, Steady
  <2>3. Spared(r)'
    <3>1. /\ review[r].budget \in Nat /\ review[r].used \in Nat
          /\ review'[r].budget \in Nat /\ review'[r].used \in Nat
      BY <1>0, <1>1 DEF TypeOK, ReviewRecord
    <3>2. review[r].budget > 0 => review[r].skipped = {}
      BY <1>0, <3>1 DEF Spared
    <3> QED
      BY <1>0, <1>1, <3>1, <3>2, ReviewAssumption DEF Spared, Free, Pays
  <2>4. Fresh(r)'
    <3>1. review'[r].fresh = review[r].fresh /\ review[r].fresh \subseteq Keys
      BY <1>0, <1>1 DEF Steady, ReviewRecord
    <3>2. \A k \in review'[r].fresh : SureHit(k)'
      BY <1>0, <1>1, <3>1 DEF Fresh
    <3>3. Running(r)'
      BY <1>1 DEF Running, Asking, Ends
    <3>4. ASSUME faults' = 0
          PROVE  /\ ToSet(review'[r].uncached) \cap review'[r].fresh = {}
                 /\ review'[r].phase = "osv" =>
                      ToSet(review'[r].todo) \cap review'[r].fresh = {}
      <4>1. faults = 0
        BY <1>1, <3>4
      <4>2. ToSet(review'[r].uncached) \cap review'[r].fresh = {}
        BY <1>0, <1>1, <3>1, <3>4, <4>1 DEF Fresh
      <4>3. ASSUME review'[r].phase = "osv"
            PROVE  ToSet(review'[r].todo) \cap review'[r].fresh = {}
        BY <1>0, <1>1, <3>1, <3>4, <4>1, <4>3 DEF Fresh
      <4> QED
        BY <4>2, <4>3
    <3> QED
      BY <3>2, <3>3, <3>4 DEF Fresh
  <2> QED
    BY <1>1, <2>1, <2>2, <2>3, <2>4 DEF ReviewInv, Sound, Unfinished, Steady, Asking
<1>2. ToSet(<<>>) = {}
  BY DEF ToSet
<1>3. UNCHANGED <<clock, cache>> =>
        AtPast' /\ \A k \in Keys : SureHit(k) => SureHit(k)'
  BY <1>0, UntouchedTable
<1>4. CASE NotConfigured(r)
  <2>1. /\ TypeOK' /\ Steady(r) /\ Free(r)
        /\ review[r].phase = "wpscan" /\ UNCHANGED <<cache, faults, trouble>>
        /\ Moves(r, "wpscan", <<>>, None, review[r].uncached)
        /\ review'[r].skipped = review[r].skipped
    BY <1>0, <1>4, NotConfiguredShape DEF Tells
  <2>2. Pending(r)'
    BY <1>0, <2>1 DEF Pending, Moves
  <2> QED
    BY <1>1, <1>3, <2>1, <2>2 DEF Steady, Moves, Asking
<1>5. CASE CacheHit(r) \/ Undiscovered(r)
  <2>1. /\ TypeOK' /\ Steady(r) /\ Free(r)
        /\ review[r].phase \in {"wpscan", "php", "packages"}
        /\ UNCHANGED <<cache, faults, trouble>>
        /\ Moves(r, review[r].phase, Tail(review[r].todo), None, review[r].uncached)
        /\ review'[r].skipped = review[r].skipped
    BY <1>0, <1>5, CacheHitShape, UndiscoveredShape DEF Silent, Tells, Looking, Turn, At
  <2>2. Pending(r)'
    BY <1>0, <2>1 DEF Pending, Moves
  <2> QED
    BY <1>1, <1>3, <2>1, <2>2 DEF Steady, Moves, Asking
<1>6. CASE Skip(r)
  <2>1. /\ TypeOK' /\ Steady(r) /\ Free(r)
        /\ review[r].phase = "wpscan" /\ review[r].budget = 0
        /\ UNCHANGED cache /\ (faults' = faults \/ faults' = faults + 1)
        /\ Moves(r, "wpscan", Tail(review[r].todo), None, review[r].uncached)
    BY <1>0, <1>6, SkipShape
  <2>2. Pending(r)'
    BY <1>0, <2>1 DEF Pending, Moves
  <2>3. faults' = 0 => faults = 0
    BY <1>0, <2>1 DEF TypeOK
  <2> QED
    BY <1>1, <1>3, <2>1, <2>2, <2>3 DEF Steady, Moves, Asking
<1>7. CASE Ask(r) \/ RateLimited(r) \/ LookupFails(r)
  <2>1. /\ TypeOK' /\ Steady(r) /\ UNCHANGED cache
        /\ At(r, Providers) /\ Missed(r)
        /\ IF review[r].phase = "wpscan"
             THEN /\ review[r].budget > 0 /\ review'[r].used = review[r].used + 1
                  /\ \/ /\ review'[r].budget = review[r].budget - 1
                        /\ review'[r].skipped = review[r].skipped
                     \/ review'[r].budget = 0
             ELSE Free(r) /\ review'[r].skipped = review[r].skipped
        /\ review'[r].uncached = review[r].uncached /\ review'[r].phase = review[r].phase
        /\ review'[r].todo \in {review[r].todo, Tail(review[r].todo), <<>>}
        /\ review'[r].answer # None => review'[r].todo = review[r].todo
    BY <1>0, <1>7, AskingShape
  <2>2. review[r].phase \in Providers /\ review[r].todo # <<>>
    BY <2>1 DEF At
  <2>3. ToSet(review'[r].todo) \subseteq ToSet(review[r].todo)
    BY <1>0, <2>1, <2>2, EmptyAndTail
  <2>4. faults' = 0 => faults = 0
    BY <1>0, <2>1 DEF TypeOK, Missed, Miss, Fault
  <2>5. Pending(r)'
    BY <1>0, <2>1, <2>2 DEF Pending, Providers
  <2> QED
    BY <1>1, <1>3, <2>1, <2>2, <2>3, <2>4, <2>5 DEF Steady, Asking, Providers
<1>8. CASE Store(r)
  <2>1. PICK k, answer :
          /\ TypeOK' /\ Steady(r) /\ Free(r)
          /\ review[r].todo # <<>> /\ review[r].phase \in Providers
          /\ k = Head(review[r].todo) /\ k \in Keys /\ answer \in Replies
          /\ Save(k, answer)
          /\ Moves(r, review[r].phase, Tail(review[r].todo), None, review[r].uncached)
          /\ review'[r].skipped = review[r].skipped
    BY <1>0, <1>8, StoreShape DEF Tells
  <2>2. Pending(r)'
    BY <1>0, <2>1 DEF Pending, Moves
  <2>3. faults' = 0 => faults = 0
    BY <1>0, <2>1, SaveTypes DEF TypeOK
  <2>4. /\ UNCHANGED clock /\ clock \in Nat /\ cache \in [Keys -> Cached \cup {None}]
        /\ \/ UNCHANGED cache
           \/ cache' = [cache EXCEPT ![k] = [found |-> answer, at |-> clock]]
    BY <1>0, <2>1, SaveTypes DEF TypeOK, Steady
  <2>5. AtPast' /\ \A j \in Keys : SureHit(j) => SureHit(j)'
    <3>1. CASE UNCHANGED cache
      BY <1>3, <2>4, <3>1
    <3>2. CASE cache' = [cache EXCEPT ![k] = [found |-> answer, at |-> clock]]
      <4>1. cache'[k].at = clock /\ \A j \in Keys \ {k} : cache'[j] = cache[j]
        BY <2>1, <2>4, <3>2
      <4>2. cache'[k] # None
        <5>1. cache'[k] \in Cached
          BY <2>1, <2>4, <3>2 DEF Cached
        <5> QED
          BY <5>1, NoneAssumption
      <4>3. ASSUME NEW j \in Keys, cache[j] # None
            PROVE  cache[j].at \in Nat /\ cache[j].at <= clock
        BY <1>0, <2>4, <4>3 DEF AtPast, Cached
      <4>4. AtPast'
        <5> SUFFICES ASSUME NEW j \in Keys, cache'[j] # None PROVE cache'[j].at <= clock'
          BY DEF AtPast
        <5> QED
          BY <2>4, <4>1, <4>3
      <4>5. ASSUME NEW j \in Keys, SureHit(j) PROVE SureHit(j)'
        <5>1. CASE j = k
          BY <2>4, <4>1, <4>2, <4>3, <4>5, <5>1, ReviewAssumption DEF SureHit
        <5>2. CASE j # k
          BY <2>4, <4>1, <4>5, <5>2 DEF SureHit
        <5> QED
          BY <5>1, <5>2
      <4> QED
        BY <4>4, <4>5
    <3> QED
      BY <2>4, <3>1, <3>2
  <2>6. ToSet(Tail(review[r].todo)) \subseteq ToSet(review[r].todo)
    BY <1>0, <2>1, HeadTypes
  <2> QED
    BY <1>1, <2>1, <2>2, <2>3, <2>5, <2>6 DEF Moves, Asking, Providers
<1>9. CASE WpscanDone(r) \/ PhpDone(r) \/ PackagesDone(r)
  <2>1. /\ TypeOK' /\ Steady(r) /\ Free(r) /\ Silent(r)
        /\ UNCHANGED <<cache, faults, trouble>> /\ review[r].todo = <<>>
        /\ \/ /\ review[r].phase = "wpscan"
              /\ Moves(r, "php", <<Php>>, review[r].answer, review[r].uncached)
           \/ /\ review[r].phase = "php"
              /\ Moves(r, "packages", Packages, review[r].answer, review[r].uncached)
           \/ /\ review[r].phase = "packages"
              /\ Moves(r, "osv", review[r].uncached, review[r].answer, <<>>)
    BY <1>0, <1>9, TurnShape
  <2>2. Pending(r)' /\ review[r].phase \in Asking /\ review'[r].phase \in Asking
    BY <1>0, <2>1 DEF Pending, Moves, Asking
  <2>3. /\ \A k \in ToSet(review'[r].uncached) : k \in ToSet(review[r].uncached)
        /\ review'[r].phase = "osv" => review'[r].todo = review[r].uncached
    BY <1>2, <2>1 DEF Moves
  <2> QED
    BY <1>1, <1>3, <2>1, <2>2, <2>3 DEF Steady, Silent, Tells
<1>10. CASE Uncached(r)
  <2>1. /\ TypeOK' /\ Steady(r) /\ Free(r) /\ Silent(r)
        /\ review[r].phase = "packages" /\ review[r].todo # <<>>
        /\ Miss(Head(review[r].todo)) /\ UNCHANGED cache
        /\ Moves(r, "packages", Tail(review[r].todo), None,
                 Append(review[r].uncached, Head(review[r].todo)))
    BY <1>0, <1>10, UncachedShape
  <2>2. Pending(r)'
    BY <2>1 DEF Pending, Moves
  <2>3. /\ faults' = 0 => faults = 0 /\ ~SureHit(Head(review[r].todo))
    BY <1>0, <2>1 DEF TypeOK, Miss, Fault
  <2>4. ToSet(review'[r].uncached)
          \subseteq ToSet(review[r].uncached) \cup {Head(review[r].todo)}
    <3>1. review[r].uncached \in Seq(Keys) /\ Head(review[r].todo) \in Keys
      BY <1>0, <2>1, HeadTypes DEF ReviewRecord
    <3> QED
      BY <2>1, <3>1, AppendToSet DEF Moves
  <2> QED
    BY <1>1, <1>3, <2>1, <2>2, <2>3, <2>4 DEF Steady, Silent, Tells, Moves, Asking
<1> QED
  BY <1>4, <1>5, <1>6, <1>7, <1>8, <1>9, <1>10 DEF Lookup

LEMMA FinishKeeps ==
  ASSUME ReviewInv, NEW r \in Reviews, Report(r) \/ RollbackFails(r) \/ Verdict(r)
  PROVE  /\ ReviewInv' /\ Same(r) /\ review'[r].phase \in Ends
         /\ UNCHANGED <<clock, known, cache>>
<1>1. PICK phase \in Ends : End(r, phase)
  BY DEF Report, RollbackFails, Verdict, Ends
<1> QED
  BY <1>1, EndSound

\* The steps of nobody in particular.
LEMMA SurroundingsKeep ==
  ASSUME ReviewInv,
         \/ \E k \in Keys, ranges \in Flaws : Publish(k, ranges)
         \/ Tick \/ Crash
  PROVE  ReviewInv'
<1>0. TypeOK /\ AtPast /\ \A r \in Reviews : Sound(r)
  BY DEF ReviewInv
<1>1. ASSUME NEW k \in Keys, NEW ranges \in Flaws, Publish(k, ranges) PROVE ReviewInv'
  <2>1. UNCHANGED <<clock, token, cache, review, faults, trouble>>
    BY <1>1 DEF Publish
  <2>2. TypeOK'
    <3>1. known' = [known EXCEPT ![k][ranges] = clock] /\ clock \in Nat
      BY <1>0, <1>1 DEF TypeOK, Publish
    <3> QED
      BY <1>0, <1>1, <2>1, <3>1 DEF TypeOK, Publish
  <2>3. \A r \in Reviews : Sound(r)'
    BY <1>0, <2>1 DEF Sound, Pending, Judged, Spared, Fresh, Running, SureHit
  <2> QED
    BY <1>0, <2>1, <2>2, <2>3 DEF ReviewInv, AtPast
<1>2. ASSUME Tick PROVE ReviewInv'
  <2>1. /\ UNCHANGED <<known, token, cache, review, faults, trouble>>
        /\ clock' = clock + 1 /\ \A r \in Reviews : ~Running(r)
    BY <1>2 DEF Tick
  <2>2. TypeOK' /\ clock \in Nat
    BY <1>0, <2>1 DEF TypeOK
  <2>3. AtPast'
    <3> SUFFICES ASSUME NEW k \in Keys, cache[k] # None PROVE cache[k].at <= clock + 1
      BY <2>1 DEF AtPast
    <3>1. cache[k].at \in Nat /\ cache[k].at <= clock
      BY <1>0 DEF AtPast, TypeOK, Cached
    <3> QED
      BY <2>2, <3>1
  <2>4. ASSUME NEW r \in Reviews PROVE Sound(r)'
    <3>1. review'[r].fresh = {} /\ ~Running(r)'
      BY <1>0, <2>1 DEF Sound, Fresh, Running
    <3>2. Fresh(r)'
      BY <3>1 DEF Fresh
    <3> QED
      BY <1>0, <2>1, <3>2 DEF Sound, Pending, Judged, Spared
  <2> QED
    BY <2>2, <2>3, <2>4 DEF ReviewInv
<1>3. ASSUME Crash PROVE ReviewInv'
  <2>1. /\ UNCHANGED <<clock, known, cache, faults>> /\ token' \in BOOLEAN /\ Trouble
        /\ review' = [r \in Reviews |->
                        IF Running(r) THEN [NewReview EXCEPT !.phase = "cut"] ELSE review[r]]
    BY <1>3 DEF Crash
  <2>2. TypeOK'
    <3>1. [NewReview EXCEPT !.phase = "cut"] \in ReviewRecord
      BY NewTypes DEF Phases, Ends
    <3>2. \A r \in Reviews : review[r] \in ReviewRecord
      BY <1>0 DEF TypeOK
    <3>3. review' \in [Reviews -> ReviewRecord]
      BY <2>1, <3>1, <3>2
    <3> QED
      BY <1>0, <2>1, <3>3, FaultTypes DEF TypeOK
  <2>3. ASSUME NEW r \in Reviews PROVE Sound(r)'
    <3>1. CASE Running(r)
      <4>1. review'[r] = [NewReview EXCEPT !.phase = "cut"]
        BY <2>1, <3>1
      <4> QED
        BY <4>1, NewSound DEF Ends
    <3>2. CASE ~Running(r)
      <4>1. review'[r] = review[r]
        BY <2>1, <3>2
      <4>2. Pending(r)' /\ Judged(r)' /\ Spared(r)'
        BY <1>0, <4>1 DEF Sound, Pending, Judged, Spared
      <4>3. Fresh(r)'
        BY <1>0, <2>1, <4>1 DEF Sound, Fresh, Running, SureHit
      <4> QED
        BY <4>2, <4>3 DEF Sound
    <3> QED
      BY <3>1, <3>2
  <2> QED
    BY <1>0, <2>1, <2>2, <2>3 DEF ReviewInv, AtPast
<1> QED
  BY <1>1, <1>2, <1>3

LEMMA InitSound == Init => ReviewInv
<1> SUFFICES ASSUME Init PROVE ReviewInv
  OBVIOUS
<1>1. NewReview \in ReviewRecord /\ NewReview.phase = "new"
  BY NewTypes DEF Phases, NewReview
<1>2. TypeOK
  BY <1>1 DEF Init, TypeOK
<1>3. AtPast
  BY DEF Init, AtPast
<1>4. ASSUME NEW r \in Reviews PROVE Sound(r)
  <2>1. review[r] = NewReview
    BY DEF Init
  <2>2. Pending(r)
    BY <2>1 DEF Pending, NewReview
  <2>3. Judged(r)
    <3>1. review[r].failing = review[r].wrong
      <4>1. NewReview.failing = FALSE /\ NewReview.wrong = FALSE
        BY DEF NewReview
      <4> QED
        BY <2>1, <4>1, Zenon
    <3>2. review[r].missed + 1 = review[r].attempt /\ review[r].attempt <= Attempts
      BY <2>1, ReviewAssumption DEF NewReview
    <3> QED
      BY <3>1, <3>2 DEF Judged
  <2>4. Spared(r)
    BY <2>1, ReviewAssumption DEF Spared, NewReview
  <2>5. Fresh(r)
    BY <2>1 DEF Fresh, NewReview
  <2> QED
    BY <2>2, <2>3, <2>4, <2>5 DEF Sound
<1> QED
  BY <1>2, <1>3, <1>4 DEF ReviewInv

LEMMA NextSound == ReviewInv /\ [Next]_vars => ReviewInv'
<1> SUFFICES ASSUME ReviewInv, [Next]_vars PROVE ReviewInv'
  OBVIOUS
<1>1. ASSUME NEW r \in Reviews, Begin(r) \/ Step(r) PROVE ReviewInv'
  BY <1>1, BeginKeeps, ProbeKeeps, ScanKeeps, UnreadKeeps, LookupKeeps, FinishKeeps DEF Step
<1>2. CASE UNCHANGED vars
  BY <1>2 DEF vars, ReviewInv, AtPast, TypeOK, Sound, Pending, Judged, Spared, Fresh,
              Running, SureHit
<1> QED
  BY <1>1, <1>2, SurroundingsKeep DEF Next

\* The invariant holds of every behaviour.
THEOREM ReviewsAreSound == Spec => []ReviewInv
<1> QED
  BY InitSound, NextSound, PTL DEF Spec

----------------------------------------------------------------------------
(* The theorems. *)

\* Every variable keeps its type: a review's record, the table cve_cache, what is
\* published.
THEOREM ReviewTyped == Spec => []TypeOK
<1>1. ReviewInv => TypeOK
  BY DEF ReviewInv
<1> QED
  BY <1>1, ReviewsAreSound, PTL

\* Nothing but its verdict, or for a scan its report, finishes a review.
LEMMA VerdictFinishes ==
  ASSUME ReviewInv, [Next]_vars, NEW r \in Reviews,
         Reports(r) \/ (r \in Rehearsals /\ Judges(r))
  PROVE  Verdict(r) \/ Report(r)
<1>1. ~UNCHANGED review
  BY DEF Reports, Judges
<1>2. ASSUME NEW k \in Keys, NEW ranges \in Flaws, Publish(k, ranges) PROVE FALSE
  BY <1>1, <1>2 DEF Publish
<1>3. ~Tick /\ ~UNCHANGED vars
  BY <1>1 DEF Tick, vars
<1>4. ASSUME Crash PROVE FALSE
  <2>1. review'[r] = IF Running(r) THEN [NewReview EXCEPT !.phase = "cut"] ELSE review[r]
    BY <1>4 DEF Crash
  <2>2. [NewReview EXCEPT !.phase = "cut"].phase = "cut"
    BY DEF NewReview
  <2> QED
    BY <2>1, <2>2 DEF Reports, Judges
<1>5. ASSUME NEW q \in Reviews, Begin(q) \/ Step(q) PROVE Verdict(r) \/ Report(r)
  <2>1. Same(q)
    BY <1>5, BeginKeeps, ProbeKeeps, ScanKeeps, UnreadKeeps, LookupKeeps, FinishKeeps
    DEF Step, Unfinished, Paged
  <2>2. q = r
    BY <2>1 DEF Same, Reports, Judges
  <2>3. /\ ~(Begin(r) \/ Probe(r) \/ Scan(r) \/ Inventory(r) \/ Lookup(r))
        /\ \A k \in Keys : ~Unread(r, k)
    BY BeginKeeps, ProbeKeeps, ScanKeeps, UnreadKeeps, LookupKeeps
    DEF Unfinished, Paged, Reports, Judges
  <2>4. ~RollbackFails(r)
    <3>1. ASSUME RollbackFails(r) PROVE FALSE
      <4>1. review'[r].phase = "error"
        BY <3>1, EndSound DEF RollbackFails, Ends
      <4> QED
        BY <4>1 DEF Reports, Judges
    <3> QED
      BY <3>1
  <2> QED
    BY <1>5, <2>2, <2>3, <2>4 DEF Step
<1> QED
  BY <1>2, <1>3, <1>4, <1>5 DEF Next

\* For any number of attempts, a rehearsal is unhealthy if each of the attempts at a
\* page went wrong or the pages were different, and only then (runRehearsalJob).
THEOREM VerdictsAreEarned == Spec => VerdictIsEarned
<1>1. ASSUME ReviewInv, [Next]_vars, NEW r \in Rehearsals, Judges(r)
      PROVE  review'[r].phase = "unhealthy" <=> review[r].wrong
  <2>1. r \in Reviews /\ Verdict(r)
    BY <1>1, VerdictFinishes, ReviewAssumption DEF Reviews, Report
  <2>2. review'[r].phase = IF review[r].failing THEN "unhealthy" ELSE "completed"
    BY <1>1, <2>1, EndSound DEF Verdict, Ends
  <2>3. review[r].failing = review[r].wrong
    BY <1>1, <2>1 DEF ReviewInv, Sound, Judged
  <2> QED
    BY <2>2, <2>3
<1>2. ReviewInv /\ [Next]_vars =>
        [\A r \in Rehearsals : Judges(r) =>
           (review'[r].phase = "unhealthy" <=> review[r].wrong)]_vars
  BY <1>1
<1> QED
  BY <1>2, ReviewsAreSound, PTL DEF Spec, VerdictIsEarned

\* For any inventory and any WPSCAN_MAX_REQUESTS, a review sends no more requests
\* than it may, none after one it skipped, and none for what the table held
\* (lookupWPScan, lookupPHPEOL, lookupOSV).
THEOREM QuotaSpared == Spec => QuotaKept
<1>1. ASSUME ReviewInv, NEW r \in Reviews, Ask(r) \/ RateLimited(r) \/ LookupFails(r)
      PROVE  /\ review[r].phase = "wpscan" =>
                  review[r].skipped = {} /\ review[r].used < Budget
             /\ faults' = 0 => Head(review[r].todo) \notin review[r].fresh
  <2>0. TypeOK /\ review[r] \in ReviewRecord /\ Spared(r) /\ Fresh(r)
    BY <1>1 DEF ReviewInv, TypeOK, Sound
  <2>1. /\ At(r, Providers) /\ Missed(r)
        /\ review[r].phase = "wpscan" => review[r].budget > 0
    BY <1>1 DEF Ask, RateLimited, LookupFails, CanAsk, Looking, Turn
  <2>2. ASSUME review[r].phase = "wpscan"
        PROVE  review[r].skipped = {} /\ review[r].used < Budget
    <3>1. review[r].budget \in Nat /\ review[r].used \in Nat /\ review[r].budget > 0
      BY <2>0, <2>1, <2>2 DEF ReviewRecord
    <3> QED
      BY <2>0, <3>1, ReviewAssumption DEF Spared
  <2>3. ASSUME faults' = 0 PROVE Head(review[r].todo) \notin review[r].fresh
    <3>1. review[r].todo # <<>>
      BY <2>1 DEF At
    <3>2. CASE review[r].phase = "osv"
      <4>1. faults = 0
        BY <2>1, <2>3, <3>2 DEF Missed
      <4>2. Head(review[r].todo) \in ToSet(review[r].todo)
        BY <2>0, <3>1, HeadTypes
      <4> QED
        BY <2>0, <3>2, <4>1, <4>2 DEF Fresh
    <3>3. CASE review[r].phase # "osv"
      <4>1. ~SureHit(Head(review[r].todo))
        BY <2>0, <2>1, <2>3, <3>3 DEF Missed, Miss, Fault, TypeOK
      <4> QED
        BY <2>0, <4>1 DEF Fresh
    <3> QED
      BY <3>2, <3>3
  <2> QED
    BY <2>2, <2>3
<1>2. ReviewInv /\ [Next]_vars =>
        [\A r \in Reviews : Ask(r) \/ RateLimited(r) \/ LookupFails(r) =>
           /\ review[r].phase = "wpscan" =>
                review[r].skipped = {} /\ review[r].used < Budget
           /\ faults' = 0 => Head(review[r].todo) \notin review[r].fresh]_vars
  BY <1>1
<1> QED
  BY <1>2, ReviewsAreSound, PTL DEF Spec, QuotaKept
----------------------------------------------------------------------------
(* The order of versions. *)

LEMMA LeastNatural ==
  ASSUME NEW D \in SUBSET Nat, D # {}
  PROVE  Min(D) \in D /\ \A i \in D : Min(D) <= i
<1>1. PICK i \in D : \A j \in D : <<j, i>> \notin OpToRel(<, Nat)
  BY NatLessThanWellFounded, WFMin
<1>2. \A j \in D : ~(j < i)
  BY <1>1 DEF OpToRel
<1>3. \A j \in D : i <= j
  BY <1>2
<1> QED
  BY <1>3 DEF Min

LEMMA DigitTypes ==
  ASSUME NEW v \in Seq(Nat), NEW i \in Nat \ {0}
  PROVE  Digit(v, i) \in Nat /\ (i > Len(v) => Digit(v, i) = 0)
BY DEF Digit

\* The two have a first difference, or none.
Agree(v, w) == \A i \in Nat \ {0} : Digit(v, i) = Digit(w, i)

Before(v, w, i) ==
  /\ Digit(v, i) < Digit(w, i)
  /\ \A j \in 1..(i - 1) : Digit(v, j) = Digit(w, j)

LEMMA OlderByDigit ==
  ASSUME NEW v \in Seq(Nat), NEW w \in Seq(Nat)
  PROVE  Older(v, w) <=> \E i \in Nat \ {0} : Before(v, w, i)
<1>1. ASSUME NEW i \in Nat \ {0}, Before(v, w, i) PROVE i \in 1..(Len(v) + Len(w))
  <2>1. i <= Len(w)
    BY <1>1, DigitTypes DEF Before
  <2> QED
    BY <2>1
<1>2. \A i \in 1..(Len(v) + Len(w)) : i \in Nat \ {0}
  OBVIOUS
<1> QED
  BY <1>1, <1>2 DEF Older, Before

LEMMA CompareIsOlder ==
  ASSUME NEW v \in Seq(Nat), NEW w \in Seq(Nat)
  PROVE  /\ Compare(v, w) < 0 <=> Older(v, w)
         /\ Compare(v, w) > 0 <=> Older(w, v)
         /\ Compare(v, w) >= 0 <=> ~Older(v, w)
         /\ Compare(v, w) <= 0 <=> ~Older(w, v)
         /\ ~Older(v, w) /\ ~Older(w, v) => Agree(v, w)
<1> DEFINE D == {i \in 1..(Len(v) + Len(w)) : Digit(v, i) # Digit(w, i)}
<1>1. D \in SUBSET Nat /\ \A i \in D : i \in Nat \ {0}
  OBVIOUS
<1>2. CASE D = {}
  <2>1. Compare(v, w) = 0
    BY <1>2 DEF Compare
  <2>2. ASSUME NEW i \in Nat \ {0} PROVE Digit(v, i) = Digit(w, i)
    <3>1. CASE i \in 1..(Len(v) + Len(w))
      BY <1>2, <3>1
    <3>2. CASE i \notin 1..(Len(v) + Len(w))
      <4>1. i > Len(v) /\ i > Len(w)
        BY <3>2
      <4>2. Digit(v, i) = 0
        BY <4>1, DigitTypes
      <4>3. Digit(w, i) = 0
        BY <4>1, DigitTypes
      <4> QED
        BY <4>2, <4>3
    <3> QED
      BY <3>1, <3>2
  <2>3. ~Older(v, w) /\ ~Older(w, v)
    BY <2>2, OlderByDigit, DigitTypes DEF Before
  <2> QED
    BY <2>1, <2>2, <2>3 DEF Agree
<1>3. CASE D # {}
  <2>1. PICK d : d = Min(D)
    OBVIOUS
  <2>2. d \in D /\ (\A i \in D : d <= i) /\ d \in Nat \ {0}
    BY <1>1, <1>3, <2>1, LeastNatural
  <2>3. Digit(v, d) \in Nat /\ Digit(w, d) \in Nat /\ Digit(v, d) # Digit(w, d)
    BY <2>2, DigitTypes
  <2>4. \A j \in 1..(d - 1) : Digit(v, j) = Digit(w, j)
    <3> SUFFICES ASSUME NEW j \in 1..(d - 1), Digit(v, j) # Digit(w, j) PROVE FALSE
      OBVIOUS
    <3>1. j \in 1..(Len(v) + Len(w)) /\ j < d
      BY <2>2
    <3>2. j \in D
      BY <3>1
    <3> QED
      BY <2>2, <3>1, <3>2
  <2>5. Compare(v, w) = IF Digit(v, d) < Digit(w, d) THEN -1 ELSE 1
    BY <1>3, <2>1 DEF Compare
  <2>6. \A i \in Nat \ {0} : Before(v, w, i) \/ Before(w, v, i) => i = d
    <3> SUFFICES ASSUME NEW i \in Nat \ {0}, Before(v, w, i) \/ Before(w, v, i) PROVE i = d
      OBVIOUS
    <3>1. /\ Digit(v, i) \in Nat /\ Digit(w, i) \in Nat /\ Digit(v, i) # Digit(w, i)
          /\ \A j \in 1..(i - 1) : Digit(v, j) = Digit(w, j)
      BY DigitTypes DEF Before
    <3>2. ~(i < d)
      BY <2>2, <2>4, <3>1
    <3>3. ~(d < i)
      BY <2>2, <2>3, <3>1
    <3> QED
      BY <2>2, <3>2, <3>3
  <2>7. CASE Digit(v, d) < Digit(w, d)
    <3>1. Before(v, w, d) /\ ~Before(w, v, d)
      BY <2>3, <2>4, <2>7 DEF Before
    <3>2. Older(v, w) /\ ~Older(w, v)
      BY <2>2, <2>6, <3>1, OlderByDigit
    <3> QED
      BY <2>5, <2>7, <3>2
  <2>8. CASE ~(Digit(v, d) < Digit(w, d))
    <3>1. Before(w, v, d) /\ ~Before(v, w, d)
      BY <2>3, <2>4, <2>8 DEF Before
    <3>2. Older(w, v) /\ ~Older(v, w)
      BY <2>2, <2>6, <3>1, OlderByDigit
    <3> QED
      BY <2>5, <2>8, <3>2
  <2> QED
    BY <2>7, <2>8
<1> QED
  BY <1>2, <1>3

LEMMA OlderIsTransitive ==
  ASSUME NEW u \in Seq(Nat), NEW v \in Seq(Nat), NEW w \in Seq(Nat),
         Older(u, v), Older(v, w)
  PROVE  Older(u, w)
<1>1. PICK i \in Nat \ {0} : Before(u, v, i)
  BY OlderByDigit
<1>2. PICK j \in Nat \ {0} : Before(v, w, j)
  BY OlderByDigit
<1>3. \A k \in Nat \ {0} : Digit(u, k) \in Nat /\ Digit(v, k) \in Nat /\ Digit(w, k) \in Nat
  BY DigitTypes
<1>4. PICK k \in Nat \ {0} : k = IF i <= j THEN i ELSE j
  OBVIOUS
<1>5. Digit(u, k) < Digit(w, k)
  <2>1. CASE i < j
    BY <1>1, <1>2, <1>3, <1>4, <2>1 DEF Before
  <2>2. CASE j < i
    BY <1>1, <1>2, <1>3, <1>4, <2>2 DEF Before
  <2>3. CASE i = j
    BY <1>1, <1>2, <1>3, <1>4, <2>3 DEF Before
  <2> QED
    BY <2>1, <2>2, <2>3
<1>6. \A l \in 1..(k - 1) : Digit(u, l) = Digit(w, l)
  <2> SUFFICES ASSUME NEW l \in 1..(k - 1) PROVE Digit(u, l) = Digit(w, l)
    OBVIOUS
  <2>1. l \in 1..(i - 1) /\ l \in 1..(j - 1)
    BY <1>4
  <2> QED
    BY <1>1, <1>2, <2>1 DEF Before
<1> QED
  BY <1>5, <1>6, OlderByDigit DEF Before

LEMMA OlderIsStrict ==
  ASSUME NEW v \in Seq(Nat)
  PROVE  ~Older(v, v)
BY OlderByDigit, DigitTypes DEF Before

\* A finite set of versions has an oldest, as selectFixedVersion's loop finds it.
LEMMA OldestExists ==
  ASSUME NEW P \in SUBSET Seq(Nat), IsFiniteSet(P), P # {}
  PROVE  \E v \in P : \A w \in P : Compare(v, w) <= 0
<1> DEFINE Down(v) == {w \in P : Older(w, v)}
           T == {Down(v) : v \in P}
<1>1. T \subseteq FiniteSubsetsOf(P) /\ T # {}
  <2>1. ASSUME NEW S \in T PROVE S \in FiniteSubsetsOf(P)
    <3>1. S \subseteq P
      OBVIOUS
    <3>2. IsFiniteSet(S)
      BY <3>1, FS_Subset
    <3> QED
      BY <3>1, <3>2 DEF FiniteSubsetsOf
  <2> QED
    BY <2>1
<1>2. IsWellFoundedOn(StrictSubsetOrdering(P), FiniteSubsetsOf(P))
  BY FS_StrictSubsetOrderingWellFounded
<1>3. PICK S \in T : \A R \in T : <<R, S>> \notin StrictSubsetOrdering(P)
  BY <1>1, <1>2, WFMin
<1>4. PICK v \in P : S = Down(v)
  BY <1>3
<1>5. ASSUME NEW w \in P, Older(w, v) PROVE FALSE
  <2>1. Down(w) \in T /\ Down(w) \subseteq Down(v)
    BY <1>5, OlderIsTransitive
  <2>2. w \in Down(v) /\ w \notin Down(w)
    BY <1>5, OlderIsStrict
  <2>3. <<Down(w), Down(v)>> \in StrictSubsetOrdering(P)
    BY <2>1, <2>2 DEF StrictSubsetOrdering
  <2> QED
    BY <1>3, <1>4, <2>1, <2>3
<1> QED
  BY <1>5, CompareIsOlder

LEMMA AffectedIsInside ==
  ASSUME NEW v \in Seq(Nat), NEW ranges \in Flaws, NEW range \in ranges
  PROVE  Affected(v, range) <=> Inside(v, range)
<1>1. range.introduced \in Seq(Nat) /\ range.fixed \in Seq(Nat)
  BY VersionAssumption
<1>2. ~Older(v, <<>>)
  <2>1. <<>> \in Seq(Nat)
    OBVIOUS
  <2>2. \A i \in Nat \ {0} : Digit(<<>>, i) = 0
    BY DEF Digit
  <2>3. \A i \in Nat \ {0} : ~Before(v, <<>>, i)
    BY <2>2, DigitTypes DEF Before
  <2> QED
    BY <2>1, <2>3, OlderByDigit
<1>3. /\ Compare(v, range.fixed) < 0 <=> Older(v, range.fixed)
      /\ Compare(v, range.introduced) >= 0 <=> ~Older(v, range.introduced)
  BY <1>1, CompareIsOlder
<1> QED
  BY <1>2, <1>3 DEF Affected, Inside

\* The release that a finding names is newer than the installed one and free of
\* the flaw, if the advisory knows one.
LEMMA TargetHelps ==
  ASSUME Consistent, NEW k \in WordpressKeys \cup PackageKeys, NEW ranges \in Flaws,
         Flawed(Installed[k], ranges)
  PROVE  Helps(k, ranges)
<1> SUFFICES \/ Target(k, ranges) = <<>> /\ \E range \in ranges : range.fixed = <<>>
             \/ /\ Older(Installed[k], Target(k, ranges))
                /\ ~Flawed(Target(k, ranges), ranges)
  BY DEF Helps
<1> PICK v : v = Installed[k]
  OBVIOUS
<1>1. v \in Seq(Nat)
  BY VersionAssumption DEF Keys
<1>2. PICK range \in ranges : Inside(v, range)
  BY DEF Flawed
<1>3. \A other \in ranges : other.introduced \in Seq(Nat) /\ other.fixed \in Seq(Nat)
  BY VersionAssumption
<1>4. CASE k \notin PackageKeys
  <2>1. Affected(v, range)
    BY <1>1, <1>2, AffectedIsInside
  <2>2. PICK chosen : chosen = CHOOSE other \in ranges : Affected(v, other)
    OBVIOUS
  <2>3. chosen \in ranges /\ Affected(v, chosen) /\ Target(k, ranges) = chosen.fixed
    BY <1>4, <2>1, <2>2 DEF Target
  <2>4. Inside(v, chosen)
    BY <1>1, <2>3, AffectedIsInside
  <2>5. CASE chosen.fixed = <<>>
    BY <2>3, <2>5
  <2>6. CASE chosen.fixed # <<>>
    <3>1. Older(v, chosen.fixed)
      BY <2>4, <2>6 DEF Inside
    <3>2. ~Flawed(chosen.fixed, ranges)
      BY <2>3, <2>6 DEF Consistent, Flawed
    <3> QED
      BY <2>3, <3>1, <3>2
  <2> QED
    BY <2>5, <2>6
<1>5. CASE k \in PackageKeys
  <2> DEFINE candidates == {other.fixed : other \in ranges}
             newer == {w \in candidates : w # <<>> /\ Compare(w, v) > 0}
             sameMajor == {w \in newer : Head(w) = Head(v)}
             pool == IF sameMajor = {} THEN newer ELSE sameMajor
  <2>1. Target(k, ranges)
          = IF pool = {} THEN <<>>
            ELSE CHOOSE w \in pool : \A u \in pool : Compare(w, u) <= 0
    BY <1>5 DEF Target, FixedVersion
  <2>2. candidates \in SUBSET Seq(Nat) /\ IsFiniteSet(candidates)
    <3>1. IsFiniteSet(ranges)
      BY VersionAssumption
    <3>2. PICK f : f = [other \in ranges |-> other.fixed]
      OBVIOUS
    <3>3. f \in Surjection(ranges, candidates)
      BY <3>2 DEF Surjection
    <3>4. IsFiniteSet(candidates)
      BY <3>1, <3>3, FS_Surjection
    <3> QED
      BY <1>3, <3>4
  <2>3. pool \subseteq newer /\ newer \subseteq candidates /\ (pool = {} => newer = {})
    OBVIOUS
  <2>4. CASE pool = {}
    <3>1. range.fixed = <<>>
      <4>1. range.fixed \notin newer /\ range.fixed \in candidates
        BY <2>3, <2>4
      <4>2. ~(Compare(range.fixed, v) > 0) \/ range.fixed = <<>>
        BY <4>1
      <4>3. ~Older(v, range.fixed) \/ range.fixed = <<>>
        BY <1>1, <1>3, <4>2, CompareIsOlder
      <4> QED
        BY <1>2, <4>3 DEF Inside
    <3> QED
      BY <2>1, <2>4, <3>1
  <2>5. CASE pool # {}
    <3>1. IsFiniteSet(pool) /\ pool \in SUBSET Seq(Nat)
      BY <2>2, <2>3, FS_Subset
    <3>2. \E w \in pool : \A u \in pool : Compare(w, u) <= 0
      BY <2>5, <3>1, OldestExists
    <3>3. Target(k, ranges) \in pool
      BY <2>1, <2>5, <3>2
    <3>4. PICK w \in pool : w = Target(k, ranges)
      BY <3>3
    <3>5. w \in candidates /\ w # <<>> /\ Compare(w, v) > 0 /\ w \in Seq(Nat)
      BY <2>3, <3>1
    <3>6. Older(v, w)
      BY <1>1, <3>5, CompareIsOlder
    <3>7. PICK fixing \in ranges : w = fixing.fixed
      BY <3>5
    <3>8. ~Flawed(w, ranges)
      BY <3>5, <3>7 DEF Consistent, Flawed
    <3> QED
      BY <3>4, <3>6, <3>8
  <2> QED
    BY <2>4, <2>5
<1> QED
  BY <1>4, <1>5
----------------------------------------------------------------------------
(* That the flaws are told. *)

PublicFlaw(k, ranges) == known[k][ranges] # None /\ Flawed(Installed[k], ranges)
Old(k, ranges) == PublicFlaw(k, ranges) /\ known[k][ranges] + Ttl < clock

Later == \A k \in Keys, ranges \in Flaws : known[k][ranges] # None => known[k][ranges] <= clock

\* Notes on a component that tell of the flaw, or that they were cut off.
Says(notes, k, ranges) == ranges \in notes \/ (k \in PackageKeys /\ Truncated \in notes)

\* A row that is younger than a flaw tells of it.
Honest(k) ==
  \A ranges \in Flaws :
    PublicFlaw(k, ranges) /\ cache[k] # None /\ known[k][ranges] < cache[k].at
    => Says(cache[k].found, k, ranges)

\* And so does an answer that is not stored yet.
Answered(r) ==
  review[r].answer # None =>
    \A ranges \in Flaws :
      /\ PublicFlaw(Head(review[r].todo), ranges)
      /\ known[Head(review[r].todo)][ranges] < clock
      => Says(review[r].answer, Head(review[r].todo), ranges)

Mentioned(r, k, ranges) ==
  \/ <<k, ranges>> \in review[r].found
  \/ k \in PackageKeys /\ <<k, Truncated>> \in review[r].found
  \/ k \in review[r].skipped \/ k \notin review[r].seen

Noted(r, provider, k, ranges) == Mentioned(r, k, ranges) \/ provider \in review[r].failed

\* The review is done with the provider's components but those of S.
Settled(r, provider, S) ==
  \A k \in Of(provider) \ S, ranges \in Flaws :
    Old(k, ranges) => Noted(r, provider, k, ranges)

Covered(r) ==
  /\ review[r].phase = "wpscan" => Settled(r, "wpscan", ToSet(review[r].todo))
  /\ review[r].phase \in {"php", "packages", "osv"} => Settled(r, "wpscan", {})
  /\ review[r].phase = "php" => Settled(r, "php", ToSet(review[r].todo))
  /\ review[r].phase \in {"packages", "osv"} => Settled(r, "php", {})
  /\ review[r].phase = "packages" =>
       Settled(r, "osv", ToSet(review[r].todo) \cup ToSet(review[r].uncached))
  /\ review[r].phase = "osv" => Settled(r, "osv", ToSet(review[r].todo))

ToldInv ==
  /\ Later /\ \A k \in Keys : Honest(k)
  /\ \A r \in Reviews : Answered(r) /\ Covered(r)

\* Nothing that is known, and no other review, changes.
LEMMA OthersTold ==
  ASSUME ToldInv, NEW r \in Reviews, Same(r), UNCHANGED <<clock, known>>,
         \A k \in Keys : Honest(k)', Answered(r)', Covered(r)'
  PROVE  ToldInv'
<1>1. Later'
  BY DEF ToldInv, Later
<1>2. ASSUME NEW q \in Reviews \ {r} PROVE Answered(q)' /\ Covered(q)'
  <2>1. review'[q] = review[q] /\ Answered(q) /\ Covered(q)
    BY DEF Same, ToldInv
  <2>2. Answered(q)'
    BY <2>1 DEF Answered, PublicFlaw
  <2>3. Covered(q)'
    BY <2>1 DEF Covered, Settled, Old, PublicFlaw, Noted, Mentioned
  <2> QED
    BY <2>2, <2>3
<1> QED
  BY <1>1, <1>2 DEF ToldInv

LEMMA HonestKept ==
  ASSUME ToldInv, UNCHANGED <<known, cache>>
  PROVE  \A k \in Keys : Honest(k)'
BY DEF ToldInv, Honest, PublicFlaw

\* A review outside of the lookup, or at its first component.
LEMMA OutsideTold ==
  ASSUME ReviewInv', ToldInv, NEW r \in Reviews, Same(r),
         UNCHANGED <<clock, known, cache>>, review'[r].phase \notin Asking \/ Paged(r)
  PROVE  ToldInv'
<1>1. \/ review'[r].phase \notin Asking
      \/ review'[r].phase = "wpscan" /\ review'[r].todo = Wordpress
  BY DEF Paged
<1>2. review'[r].answer = None
  <2>1. CASE review'[r].phase \in Asking
    BY <2>1 DEF Paged
  <2>2. CASE review'[r].phase \notin Asking
    BY <2>2 DEF ReviewInv, Sound, Pending, Asking, Providers
  <2> QED
    BY <2>1, <2>2
<1>3. Covered(r)'
  BY <1>1 DEF Covered, Settled, Asking, Of, WordpressKeys
<1> QED
  BY <1>2, <1>3, OthersTold, HonestKept DEF Answered

\* One more component of the provider at hand has had its turn.
LEMMA TurnTold ==
  ASSUME ReviewInv, ToldInv, NEW r \in Reviews, Steady(r), NEW k, k = Head(review[r].todo),
         review[r].phase \in Asking, review'[r].phase = review[r].phase,
         review[r].todo # <<>>, review'[r].todo = Tail(review[r].todo),
         review'[r].uncached = review[r].uncached,
         review[r].found \subseteq review'[r].found,
         review[r].skipped \subseteq review'[r].skipped,
         review[r].failed \subseteq review'[r].failed,
         \A ranges \in Flaws : Old(k, ranges) => Mentioned(r, k, ranges)'
  PROVE  Covered(r)'
<1>1. ToSet(review[r].todo) = {k} \cup ToSet(Tail(review[r].todo))
  BY HeadTypes DEF ReviewInv
<1>2. \A j, ranges : Old(j, ranges)' <=> Old(j, ranges)
  BY DEF Steady, Old, PublicFlaw
<1>3. \A provider, j, ranges : Noted(r, provider, j, ranges) => Noted(r, provider, j, ranges)'
  BY DEF Noted, Mentioned, Steady
<1>4. \A provider : \A ranges \in Flaws : Old(k, ranges) => Noted(r, provider, k, ranges)'
  BY DEF Noted
<1>5. Covered(r)
  BY DEF ToldInv
<1>6. \A provider : Settled(r, provider, {}) => Settled(r, provider, {})'
  BY <1>2, <1>3 DEF Settled
<1>7. \A provider, S : Settled(r, provider, S) =>
        \A T : S \subseteq T \cup {k} => Settled(r, provider, T)'
  BY <1>2, <1>3, <1>4 DEF Settled
<1>8. review[r].phase = "wpscan" => Settled(r, "wpscan", ToSet(review[r].todo))'
  BY <1>1, <1>5, <1>7 DEF Covered
<1>9. review[r].phase = "php" => Settled(r, "php", ToSet(review[r].todo))'
  BY <1>1, <1>5, <1>7 DEF Covered
<1>10. review[r].phase = "osv" => Settled(r, "osv", ToSet(review[r].todo))'
  BY <1>1, <1>5, <1>7 DEF Covered
<1>11. review[r].phase = "packages" =>
         Settled(r, "osv", ToSet(review[r].todo) \cup ToSet(review[r].uncached))'
  BY <1>1, <1>5, <1>7 DEF Covered
<1> QED
  BY <1>5, <1>6, <1>8, <1>9, <1>10, <1>11 DEF Covered

\* The three ways in which a provider may be asked.
LEMMA AskingTells ==
  ASSUME TypeOK, NEW r \in Reviews
  PROVE  /\ Ask(r) => Silent(r) /\ review'[r].todo = review[r].todo
                      /\ review'[r].answer \in Answers(Head(review[r].todo))
         /\ RateLimited(r) =>
              /\ Tells(r, review[r].found,
                       review[r].skipped \cup {Head(review[r].todo)}, review[r].failed)
              /\ review'[r].todo = Tail(review[r].todo) /\ review'[r].answer = None
              /\ review[r].phase = "wpscan"
         /\ LookupFails(r) =>
              /\ Tells(r, review[r].found \ (Of(review[r].phase) \X Notes),
                       review[r].skipped, review[r].failed \cup {review[r].phase})
              /\ review'[r].todo = <<>> /\ review'[r].answer = None
<1> PICK asked : asked = Asked(review[r])
  OBVIOUS
<1>0. review[r] \in ReviewRecord
  BY DEF TypeOK
<1>1. /\ \A answer : [asked EXCEPT !.answer = answer].answer = answer
                     /\ [asked EXCEPT !.answer = answer].todo = review[r].todo
                     /\ [asked EXCEPT !.answer = answer].found = review[r].found
                     /\ [asked EXCEPT !.answer = answer].skipped = review[r].skipped
                     /\ [asked EXCEPT !.answer = answer].failed = review[r].failed
      /\ asked.todo = review[r].todo /\ asked.answer = review[r].answer
      /\ asked.found = review[r].found /\ asked.skipped = review[r].skipped
      /\ asked.failed = review[r].failed
  BY <1>0 DEF Asked, ReviewRecord
<1>2. DOMAIN asked = {"phase", "attempt", "budget", "seen", "todo", "answer", "uncached", "found",
                      "skipped", "failed", "failing", "missed", "wrong", "fresh", "used"}
  BY <1>0 DEF Asked, ReviewRecord
<1>3. \A rv : Update(r, rv) => review'[r] = rv
  BY DEF Update, TypeOK
<1>4. ASSUME Ask(r)
      PROVE  /\ Silent(r) /\ review'[r].todo = review[r].todo
             /\ review'[r].answer \in Answers(Head(review[r].todo))
  <2>1. PICK answer \in Answers(Head(review[r].todo)) :
          review'[r] = [asked EXCEPT !.answer = answer]
    BY <1>3, <1>4 DEF Ask
  <2> QED
    BY <1>1, <2>1 DEF Silent, Tells
<1>5. ASSUME RateLimited(r)
      PROVE  /\ Tells(r, review[r].found,
                      review[r].skipped \cup {Head(review[r].todo)}, review[r].failed)
             /\ review'[r].todo = Tail(review[r].todo) /\ review'[r].answer = None
             /\ review[r].phase = "wpscan"
  <2>1. PICK rv, skipped :
          /\ skipped = asked.skipped \cup {Head(review[r].todo)}
          /\ rv = [asked EXCEPT !.skipped = skipped, !.budget = 0]
          /\ review'[r] = Advance(rv)
    BY <1>1, <1>3, <1>5 DEF RateLimited
  <2>2. /\ rv.todo = review[r].todo /\ rv.found = review[r].found /\ rv.skipped = skipped
        /\ rv.failed = review[r].failed
        /\ DOMAIN rv = DOMAIN asked
    BY <1>1, <1>2, <2>1
  <2>3. /\ Advance(rv).todo = Tail(rv.todo) /\ Advance(rv).answer = None
        /\ Advance(rv).found = rv.found /\ Advance(rv).skipped = rv.skipped
        /\ Advance(rv).failed = rv.failed
    BY <1>2, <2>2 DEF Advance
  <2> QED
    BY <1>1, <1>5, <2>1, <2>2, <2>3 DEF Tells, RateLimited
<1>6. ASSUME LookupFails(r)
      PROVE  /\ Tells(r, review[r].found \ (Of(review[r].phase) \X Notes),
                      review[r].skipped, review[r].failed \cup {review[r].phase})
             /\ review'[r].todo = <<>> /\ review'[r].answer = None
  <2> DEFINE found == asked.found \ (Of(review[r].phase) \X Notes)
             failed == asked.failed \cup {review[r].phase}
  <2>1. review'[r] = [asked EXCEPT !.todo = <<>>, !.found = found, !.failed = failed]
    <3>1. Update(r, [asked EXCEPT !.todo = <<>>, !.found = found, !.failed = failed])
      BY <1>6 DEF LookupFails
    <3> QED
      BY <1>3, <3>1
  <2>2. /\ review'[r].todo = <<>> /\ review'[r].found = found
        /\ review'[r].failed = failed /\ review'[r].skipped = asked.skipped
        /\ review'[r].answer = asked.answer
    BY <1>2, <2>1
  <2>3. review[r].answer = None
    BY <1>6 DEF LookupFails, CanAsk, Looking, Turn, At
  <2> QED
    BY <1>1, <2>1, <2>2, <2>3 DEF Tells
<1> QED
  BY <1>4, <1>5, <1>6

\* What a provider knows of a component it tells.
LEMMA AnswersAreTrue ==
  ASSUME TypeOK, NEW k \in Keys, NEW ranges \in Flaws, PublicFlaw(k, ranges),
         NEW answer \in Answers(k)
  PROVE  Says(answer, k, ranges)
<1>1. PICK range \in ranges : Inside(Installed[k], range)
  BY DEF PublicFlaw, Flawed
<1>2. Affected(Installed[k], range)
  BY <1>1, AffectedIsInside, VersionAssumption
<1>3. ranges \in Relevant(k)
  BY <1>2 DEF Relevant, PublicFlaw
<1> QED
  BY <1>3 DEF Answers, Says

\* A row that is still good is younger than a flaw that is old.
LEMMA RowsTell ==
  ASSUME ReviewInv, ToldInv, NEW k \in Keys, NEW ranges \in Flaws, Hit(k), Old(k, ranges)
  PROVE  Says(cache[k].found, k, ranges)
<1>1. cache[k] \in Cached /\ known[k][ranges] \in Nat /\ clock \in Nat
  BY DEF ReviewInv, TypeOK, Hit, Old, PublicFlaw
<1>2. known[k][ranges] < cache[k].at
  BY <1>1, ReviewAssumption DEF Hit, Old, Cached
<1> QED
  BY <1>2 DEF ToldInv, Honest, Hit, Old

LEMMA LookupTold ==
  ASSUME ReviewInv, ReviewInv', ToldInv, NEW r \in Reviews, Lookup(r)
  PROVE  ToldInv'
<1>0. /\ TypeOK /\ review[r] \in ReviewRecord /\ Pending(r) /\ Answered(r) /\ Covered(r)
      /\ clock \in Nat
  BY DEF ReviewInv, TypeOK, Sound, ToldInv
<1>1. ToSet(<<>>) = {}
  BY DEF ToSet
<1>2. \A k \in Keys, ranges \in Flaws :
        Old(k, ranges) => PublicFlaw(k, ranges) /\ known[k][ranges] < clock
  <2> SUFFICES ASSUME NEW k \in Keys, NEW ranges \in Flaws, Old(k, ranges)
               PROVE  known[k][ranges] < clock
    BY DEF Old
  <2>1. known[k][ranges] \in Nat
    BY <1>0 DEF TypeOK, Old, PublicFlaw
  <2> QED
    BY <1>0, <2>1, ReviewAssumption DEF Old
\* A step of the kind that stores nothing.
<1>3. ASSUME Steady(r), UNCHANGED cache, Answered(r)', Covered(r)' PROVE ToldInv'
  BY <1>3, OthersTold, HonestKept DEF Steady
<1>4. CASE NotConfigured(r)
  <2>1. /\ Steady(r) /\ review[r].phase = "wpscan" /\ UNCHANGED <<cache, faults, trouble>>
        /\ Moves(r, "wpscan", <<>>, None, review[r].uncached)
        /\ Tells(r, review[r].found, review[r].skipped, review[r].failed \cup {"wpscan"})
    BY <1>0, <1>4, NotConfiguredShape
  <2>2. Covered(r)'
    BY <2>1 DEF Covered, Settled, Noted, Mentioned, Moves, Tells
  <2> QED
    BY <1>3, <2>1, <2>2 DEF Answered, Moves
<1>5. CASE CacheHit(r)
  <2>1. PICK k :
          /\ k = Head(review[r].todo)
          /\ Steady(r) /\ review[r].phase \in Asking /\ review[r].todo # <<>> /\ Hit(k)
          /\ UNCHANGED <<cache, faults, trouble>>
          /\ Moves(r, review[r].phase, Tail(review[r].todo), None, review[r].uncached)
          /\ Tells(r, review[r].found \cup ({k} \X cache[k].found),
                   review[r].skipped, review[r].failed)
    BY <1>0, <1>5, CacheHitShape DEF Looking, Turn, At, Asking
  <2>2. \A ranges \in Flaws : Old(k, ranges) => Mentioned(r, k, ranges)'
    <3>1. k \in Keys
      BY <1>0, <2>1, HeadTypes
    <3>2. \A ranges \in Flaws : Old(k, ranges) => Says(cache[k].found, k, ranges)
      BY <2>1, <3>1, RowsTell
    <3> QED
      BY <2>1, <3>2 DEF Says, Mentioned, Tells
  <2>3. Covered(r)'
    BY <2>1, <2>2, TurnTold DEF Moves, Tells
  <2> QED
    BY <1>3, <2>1, <2>3 DEF Answered, Moves
<1>11. CASE Undiscovered(r)
  <2>1. /\ Steady(r) /\ Silent(r) /\ review[r].phase \in Asking /\ review[r].todo # <<>>
        /\ Head(review[r].todo) \notin review[r].seen
        /\ UNCHANGED <<cache, faults, trouble>>
        /\ Moves(r, review[r].phase, Tail(review[r].todo), None, review[r].uncached)
    BY <1>0, <1>11, UndiscoveredShape DEF Turn, At, Asking
  <2>2. Covered(r)'
    <3> PICK k : k = Head(review[r].todo)
      OBVIOUS
    <3>1. \A ranges : Mentioned(r, k, ranges)'
      BY <2>1 DEF Mentioned, Steady
    <3> QED
      BY <2>1, <3>1, TurnTold DEF Moves, Silent, Tells
  <2> QED
    BY <1>3, <2>1, <2>2 DEF Answered, Moves
<1>6. CASE Skip(r)
  <2>1. /\ Steady(r) /\ review[r].phase \in Asking /\ review[r].todo # <<>>
        /\ UNCHANGED cache /\ review[r].phase = "wpscan"
        /\ Moves(r, "wpscan", Tail(review[r].todo), None, review[r].uncached)
        /\ Tells(r, review[r].found, review[r].skipped \cup {Head(review[r].todo)},
                 review[r].failed)
    BY <1>0, <1>6, SkipShape DEF At, Asking
  <2>2. Covered(r)'
    <3> PICK k : k = Head(review[r].todo)
      OBVIOUS
    <3>1. \A ranges : Mentioned(r, k, ranges)'
      BY <2>1 DEF Mentioned, Tells
    <3> QED
      BY <2>1, <3>1, TurnTold DEF Moves, Tells
  <2> QED
    BY <1>3, <2>1, <2>2 DEF Answered, Moves
<1>7. CASE Ask(r) \/ RateLimited(r) \/ LookupFails(r)
  <2>1. /\ Steady(r) /\ UNCHANGED cache /\ At(r, Providers) /\ review[r].phase \in Asking
        /\ review[r].todo # <<>> /\ Head(review[r].todo) \in Keys
        /\ review'[r].uncached = review[r].uncached /\ review'[r].phase = review[r].phase
    BY <1>0, <1>7, AskingShape, HeadTypes DEF At, Asking, Providers
  <2>2. CASE Ask(r)
    <3>1. /\ Silent(r) /\ review'[r].todo = review[r].todo
          /\ review'[r].answer \in Answers(Head(review[r].todo))
      BY <1>0, <2>2, AskingTells
    <3>2. Covered(r)'
      BY <1>0, <2>1, <3>1
      DEF Steady, Covered, Settled, Old, PublicFlaw, Noted, Mentioned, Silent, Tells
    <3>3. Answered(r)'
      <4>1. \A ranges \in Flaws : PublicFlaw(Head(review[r].todo), ranges) =>
              Says(review'[r].answer, Head(review[r].todo), ranges)
        BY <1>0, <2>1, <3>1, AnswersAreTrue
      <4>2. \A ranges : PublicFlaw(Head(review[r].todo), ranges)' <=>
              PublicFlaw(Head(review[r].todo), ranges)
        BY <2>1, <3>1 DEF PublicFlaw, Steady
      <4> QED
        BY <3>1, <4>1, <4>2 DEF Answered, Says
    <3> QED
      BY <1>3, <2>1, <3>2, <3>3
  <2>3. CASE RateLimited(r)
    <3>1. /\ Tells(r, review[r].found,
                   review[r].skipped \cup {Head(review[r].todo)}, review[r].failed)
          /\ review'[r].todo = Tail(review[r].todo) /\ review'[r].answer = None
      BY <1>0, <2>3, AskingTells
    <3>2. Covered(r)'
      <4> PICK k : k = Head(review[r].todo)
        OBVIOUS
      <4>1. \A ranges : Mentioned(r, k, ranges)'
        BY <3>1 DEF Mentioned, Tells
      <4> QED
        BY <2>1, <3>1, <4>1, TurnTold DEF Tells
    <3> QED
      BY <1>3, <2>1, <3>1, <3>2 DEF Answered
  <2>4. CASE LookupFails(r)
    <3>1. /\ Tells(r, review[r].found \ (Of(review[r].phase) \X Notes),
                   review[r].skipped, review[r].failed \cup {review[r].phase})
          /\ review'[r].todo = <<>> /\ review'[r].answer = None
      BY <1>0, <2>4, AskingTells
    <3>2. review[r].phase \in Providers
      BY <2>1 DEF At
    <3>3. \A provider \in Providers \ {review[r].phase} : \A k \in Of(provider) : \A ranges :
            Noted(r, provider, k, ranges) => Noted(r, provider, k, ranges)'
      <4>1. \A provider \in Providers \ {review[r].phase} :
              Of(provider) \cap Of(review[r].phase) = {}
        BY <3>2, InventoryAssumption DEF Providers, Of
      <4> QED
        BY <2>1, <3>1, <4>1 DEF Noted, Mentioned, Tells, Steady
    <3>4. \A provider, k, ranges :
            provider = review[r].phase => Noted(r, provider, k, ranges)'
      BY <3>1 DEF Noted, Tells
    <3>5. \A k, ranges : Old(k, ranges)' <=> Old(k, ranges)
      BY <2>1 DEF Steady, Old, PublicFlaw
    <3>6. ASSUME NEW provider \in Providers, NEW S
          PROVE  /\ provider = review[r].phase => Settled(r, provider, S)'
                 /\ Settled(r, provider, {}) => Settled(r, provider, {})'
      <4>1. CASE provider = review[r].phase
        BY <3>4, <4>1 DEF Settled
      <4>2. CASE provider # review[r].phase
        BY <3>3, <3>5, <4>2 DEF Settled
      <4> QED
        BY <4>1, <4>2
    <3>7. review'[r].phase = review[r].phase
      BY <2>1
    <3>8. Covered(r)'
      <4>1. CASE review[r].phase = "wpscan"
        BY <3>6, <3>7, <4>1 DEF Covered, Providers
      <4>2. CASE review[r].phase = "php"
        BY <1>0, <3>6, <3>7, <4>2 DEF Covered, Providers
      <4>3. CASE review[r].phase = "osv"
        BY <1>0, <3>6, <3>7, <4>3 DEF Covered, Providers
      <4> QED
        BY <3>2, <4>1, <4>2, <4>3 DEF Providers
    <3> QED
      BY <1>3, <2>1, <3>1, <3>8 DEF Answered
  <2> QED
    BY <1>7, <2>2, <2>3, <2>4
<1>8. CASE Store(r)
  <2>1. PICK k, answer :
          /\ Steady(r) /\ review[r].todo # <<>> /\ review[r].phase \in Asking
          /\ k = Head(review[r].todo) /\ k \in Keys
          /\ answer = review[r].answer /\ answer \in Replies /\ Save(k, answer)
          /\ Moves(r, review[r].phase, Tail(review[r].todo), None, review[r].uncached)
          /\ Tells(r, review[r].found \cup ({k} \X answer),
                   review[r].skipped, review[r].failed)
    BY <1>0, <1>8, StoreShape DEF Asking, Providers
  <2>2. \A ranges \in Flaws :
          PublicFlaw(k, ranges) /\ known[k][ranges] < clock => Says(answer, k, ranges)
    BY <1>0, <2>1, NoneAssumption DEF Answered
  <2>3. Covered(r)'
    <3>1. \A ranges \in Flaws : Old(k, ranges) => Mentioned(r, k, ranges)'
      BY <1>2, <2>1, <2>2 DEF Says, Mentioned, Tells
    <3> QED
      BY <2>1, <3>1, TurnTold DEF Moves, Tells
  <2>4. Answered(r)'
    BY <2>1 DEF Answered, Moves
  <2>5. ASSUME NEW j \in Keys PROVE Honest(j)'
    <3>1. /\ \/ UNCHANGED cache
             \/ cache' = [cache EXCEPT ![k] = [found |-> answer, at |-> clock]]
          /\ UNCHANGED <<clock, known>> /\ cache \in [Keys -> Cached \cup {None}]
      BY <1>0, <2>1, SaveTypes DEF Steady, TypeOK
    <3>2. CASE cache'[j] = cache[j]
      BY <3>1, <3>2 DEF ToldInv, Honest, PublicFlaw
    <3>3. CASE cache'[j] # cache[j]
      <4>1. j = k /\ cache'[j].found = answer /\ cache'[j].at = clock
        BY <2>1, <3>1, <3>3
      <4> QED
        BY <2>2, <3>1, <4>1 DEF Honest, PublicFlaw
    <3> QED
      BY <3>2, <3>3
  <2> QED
    BY <2>1, <2>3, <2>4, <2>5, OthersTold DEF Steady
<1>9. CASE WpscanDone(r) \/ PhpDone(r) \/ PackagesDone(r)
  <2>1. /\ Steady(r) /\ Silent(r)
        /\ UNCHANGED <<cache, faults, trouble>> /\ review[r].todo = <<>>
        /\ \/ /\ review[r].phase = "wpscan"
              /\ Moves(r, "php", <<Php>>, review[r].answer, review[r].uncached)
           \/ /\ review[r].phase = "php"
              /\ Moves(r, "packages", Packages, review[r].answer, review[r].uncached)
           \/ /\ review[r].phase = "packages"
              /\ Moves(r, "osv", review[r].uncached, review[r].answer, <<>>)
    BY <1>0, <1>9, TurnShape
  <2>2. review'[r].answer = None
    BY <1>0, <2>1 DEF Pending, Moves
  <2>3. \A provider, S : Settled(r, provider, S) => Settled(r, provider, S)'
    BY <2>1 DEF Steady, Settled, Old, PublicFlaw, Noted, Mentioned, Silent, Tells
  <2>4. /\ Of("php") \subseteq ToSet(<<Php>>) /\ Of("osv") = ToSet(Packages)
    BY DEF Of, PackageKeys, ToSet
  <2>5. Covered(r)'
    <3>1. CASE review[r].phase = "wpscan"
      <4>1. Settled(r, "wpscan", {})'
        BY <1>0, <1>1, <2>1, <2>3, <3>1 DEF Covered
      <4>2. /\ review'[r].phase = "php" /\ review'[r].todo = <<Php>>
        BY <2>1, <3>1 DEF Moves
      <4>3. Settled(r, "php", ToSet(review[r].todo))'
        BY <2>4, <4>2 DEF Settled
      <4> QED
        BY <4>1, <4>2, <4>3 DEF Covered
    <3>2. CASE review[r].phase = "php"
      <4>1. Settled(r, "wpscan", {})' /\ Settled(r, "php", {})'
        BY <1>0, <1>1, <2>1, <2>3, <3>2 DEF Covered
      <4>2. /\ review'[r].phase = "packages" /\ review'[r].todo = Packages
        BY <2>1, <3>2 DEF Moves
      <4>3. Settled(r, "osv", ToSet(review[r].todo) \cup ToSet(review[r].uncached))'
        BY <2>4, <4>2 DEF Settled
      <4> QED
        BY <4>1, <4>2, <4>3 DEF Covered
    <3>3. CASE review[r].phase = "packages"
      <4>1. Settled(r, "wpscan", {})' /\ Settled(r, "php", {})'
        BY <1>0, <2>3, <3>3 DEF Covered
      <4>2. /\ review'[r].phase = "osv" /\ review'[r].todo = review[r].uncached
        BY <2>1, <3>3 DEF Moves
      <4>3. Settled(r, "osv", ToSet(review[r].todo) \cup ToSet(review[r].uncached))
        BY <1>0, <3>3 DEF Covered
      <4>4. ToSet(review[r].todo) \cup ToSet(review[r].uncached) = ToSet(review'[r].todo)
        BY <1>1, <2>1, <4>2
      <4>5. Settled(r, "osv", ToSet(review[r].todo))'
        BY <2>3, <4>3, <4>4
      <4> QED
        BY <4>1, <4>2, <4>5 DEF Covered
    <3> QED
      BY <2>1, <3>1, <3>2, <3>3
  <2> QED
    BY <1>3, <2>1, <2>2, <2>5 DEF Answered
<1>10. CASE Uncached(r)
  <2>1. PICK k :
          /\ k = Head(review[r].todo) /\ k \in Keys
          /\ Steady(r) /\ Silent(r)
          /\ review[r].phase = "packages" /\ review[r].todo # <<>> /\ UNCHANGED cache
          /\ Moves(r, "packages", Tail(review[r].todo), None, Append(review[r].uncached, k))
    BY <1>0, <1>10, UncachedShape, HeadTypes
  <2>2. \A provider, S : Settled(r, provider, S) =>
          \A T : S \subseteq T => Settled(r, provider, T)'
    BY <2>1 DEF Steady, Settled, Old, PublicFlaw, Noted, Mentioned, Silent, Tells
  <2>3. ToSet(review[r].todo) \cup ToSet(review[r].uncached)
          \subseteq ToSet(review'[r].todo) \cup ToSet(review'[r].uncached)
    <3>1. ToSet(review[r].uncached) \cup {k} \subseteq ToSet(Append(review[r].uncached, k))
      BY <1>0, <2>1, AppendToSet DEF ReviewRecord
    <3>2. ToSet(review[r].todo) = {k} \cup ToSet(Tail(review[r].todo))
      BY <1>0, <2>1, HeadTypes
    <3> QED
      BY <2>1, <3>1, <3>2 DEF Moves
  <2>4. Covered(r)'
    <3>1. review'[r].phase = "packages"
      BY <2>1 DEF Moves
    <3>2. Settled(r, "wpscan", {})' /\ Settled(r, "php", {})'
      BY <1>0, <2>1, <2>2 DEF Covered
    <3>3. Settled(r, "osv", ToSet(review[r].todo) \cup ToSet(review[r].uncached))'
      BY <1>0, <2>1, <2>2, <2>3 DEF Covered
    <3> QED
      BY <3>1, <3>2, <3>3 DEF Covered
  <2> QED
    BY <1>3, <2>1, <2>4 DEF Answered, Moves
<1> QED
  BY <1>4, <1>5, <1>6, <1>7, <1>8, <1>9, <1>10, <1>11 DEF Lookup

LEMMA SurroundingsTold ==
  ASSUME ReviewInv, ToldInv,
         \/ \E k \in Keys, ranges \in Flaws : Publish(k, ranges)
         \/ Tick \/ Crash
  PROVE  ToldInv'
<1>0. /\ TypeOK /\ AtPast /\ clock \in Nat
      /\ \A r \in Reviews : Pending(r) /\ Answered(r) /\ Covered(r)
  BY DEF ReviewInv, TypeOK, Sound, ToldInv
<1>1. ASSUME NEW r \in Reviews, review'[r] = review[r], ~Running(r)
      PROVE  review[r].answer = None /\ review[r].phase \notin Asking
  BY <1>0, <1>1 DEF Pending, Running, Asking, Providers, Ends
<1>2. ASSUME NEW k \in Keys, NEW ranges \in Flaws, Publish(k, ranges) PROVE ToldInv'
  <2>1. /\ UNCHANGED <<clock, token, cache, review, faults, trouble>> 
        /\ known[k][ranges] = None /\ known'[k][ranges] = clock
        /\ \A j \in Keys, other \in Flaws :
             <<j, other>> # <<k, ranges>> => known'[j][other] = known[j][other]
    BY <1>0, <1>2 DEF Publish, TypeOK
  <2>2. Later'
    BY <1>0, <2>1 DEF ToldInv, Later
  <2>3. ASSUME NEW j \in Keys PROVE Honest(j)'
    <3> SUFFICES ASSUME NEW other \in Flaws, PublicFlaw(j, other)', cache'[j] # None,
                        known'[j][other] < cache'[j].at
                 PROVE  Says(cache[j].found, j, other)
      BY <2>1 DEF Honest, Says
    <3>1. cache[j].at <= clock /\ cache[j].at \in Nat
      BY <1>0, <2>1 DEF AtPast, TypeOK, Cached
    <3>2. <<j, other>> # <<k, ranges>>
      <4> SUFFICES ASSUME j = k, other = ranges PROVE FALSE
        OBVIOUS
      <4>1. clock < cache[j].at
        BY <2>1
      <4> QED
        BY <1>0, <3>1, <4>1
    <3> QED
      BY <2>1, <3>2 DEF ToldInv, Honest, PublicFlaw
  <2>4. ASSUME NEW r \in Reviews PROVE Answered(r)'
    <3> SUFFICES ASSUME review[r].answer # None, NEW other \in Flaws,
                        PublicFlaw(Head(review[r].todo), other)',
                        known'[Head(review[r].todo)][other] < clock
                 PROVE  Says(review[r].answer, Head(review[r].todo), other)
      BY <2>1 DEF Answered, Says
    <3>1. Head(review[r].todo) \in Keys
      BY <1>0, HeadTypes DEF Pending
    <3>2. <<Head(review[r].todo), other>> # <<k, ranges>>
      <4> SUFFICES ASSUME Head(review[r].todo) = k, other = ranges PROVE FALSE
        OBVIOUS
      <4>1. clock < clock
        BY <2>1
      <4> QED
        BY <1>0, <4>1
    <3> QED
      BY <1>0, <2>1, <3>1, <3>2 DEF Answered, PublicFlaw
  <2>5. ASSUME NEW r \in Reviews PROVE Covered(r)'
    <3>1. ASSUME NEW j \in Keys, NEW other \in Flaws, Old(j, other)' PROVE Old(j, other)
      <4>1. <<j, other>> # <<k, ranges>>
        <5> SUFFICES ASSUME j = k, other = ranges PROVE FALSE
          OBVIOUS
        <5>1. clock + Ttl < clock
          BY <2>1, <3>1 DEF Old
        <5> QED
          BY <1>0, <5>1, ReviewAssumption
      <4> QED
        BY <2>1, <3>1, <4>1 DEF Old, PublicFlaw
    <3>2. ASSUME NEW provider \in Providers, NEW S, Settled(r, provider, S)
          PROVE  Settled(r, provider, S)'
      <4>1. Of(provider) \subseteq Keys
        BY InventoryTypes
      <4> QED
        BY <2>1, <3>1, <3>2, <4>1 DEF Settled, Noted, Mentioned
    <3> QED
      BY <1>0, <2>1, <3>2 DEF Covered, Providers
  <2> QED
    BY <2>2, <2>3, <2>4, <2>5 DEF ToldInv
<1>3. ASSUME NEW r \in Reviews, review'[r] = review[r], ~Running(r)
      PROVE  Answered(r)' /\ Covered(r)'
  BY <1>1, <1>3 DEF Answered, Covered, Asking
<1>4. ASSUME Tick PROVE ToldInv'
  <2>1. /\ UNCHANGED <<known, token, cache, review, faults, trouble>>
        /\ clock' = clock + 1 /\ \A r \in Reviews : ~Running(r)
    BY <1>4 DEF Tick
  <2>2. Later'
    <3> SUFFICES ASSUME NEW k \in Keys, NEW ranges \in Flaws, known[k][ranges] # None
                 PROVE  known[k][ranges] <= clock + 1
      BY <2>1 DEF Later
    <3>1. known[k][ranges] \in Nat /\ known[k][ranges] <= clock
      BY <1>0 DEF ToldInv, Later, TypeOK
    <3> QED
      BY <1>0, <3>1
  <2> QED
    BY <1>3, <2>1, <2>2, HonestKept DEF ToldInv
<1>5. ASSUME Crash PROVE ToldInv'
  <2>1. /\ UNCHANGED <<clock, known, cache, faults>>
        /\ review' = [r \in Reviews |->
                        IF Running(r) THEN [NewReview EXCEPT !.phase = "cut"] ELSE review[r]]
    BY <1>5 DEF Crash
  <2>2. Later'
    BY <2>1 DEF ToldInv, Later
  <2>3. ASSUME NEW r \in Reviews, Running(r) PROVE Answered(r)' /\ Covered(r)'
    <3>1. review'[r].answer = None /\ review'[r].phase = "cut"
      BY <2>1, <2>3 DEF NewReview
    <3> QED
      BY <3>1 DEF Answered, Covered
  <2>4. \A r \in Reviews : ~Running(r) => review'[r] = review[r]
    BY <2>1
  <2> QED
    BY <1>3, <2>1, <2>2, <2>3, <2>4, HonestKept DEF ToldInv
<1> QED
  BY <1>2, <1>4, <1>5

LEMMA InitTold == Init => ToldInv
<1> SUFFICES ASSUME Init PROVE ToldInv
  OBVIOUS
<1>1. ASSUME NEW r \in Reviews PROVE Answered(r) /\ Covered(r)
  <2>1. review[r].answer = None /\ review[r].phase = "new"
    BY DEF Init, NewReview
  <2> QED
    BY <2>1 DEF Answered, Covered
<1> QED
  BY <1>1 DEF Init, ToldInv, Later, Honest, PublicFlaw

LEMMA NextTold == ReviewInv /\ ReviewInv' /\ ToldInv /\ [Next]_vars => ToldInv'
<1> SUFFICES ASSUME ReviewInv, ReviewInv', ToldInv, [Next]_vars PROVE ToldInv'
  OBVIOUS
<1>1. ASSUME NEW r \in Reviews, Begin(r) \/ Step(r) PROVE ToldInv'
  <2>1. CASE \/ Begin(r) \/ Probe(r) \/ Scan(r) \/ Inventory(r)
             \/ \E k \in Keys : Unread(r, k)
    <3>1. Paged(r)
      BY <2>1, BeginKeeps, ProbeKeeps, ScanKeeps, UnreadKeeps
    <3> QED
      BY <3>1, OutsideTold DEF Paged, Unfinished
  <2>2. CASE Lookup(r)
    BY <2>2, LookupTold
  <2>3. CASE Report(r) \/ RollbackFails(r) \/ Verdict(r)
    <3>1. /\ Same(r) /\ review'[r].phase \in Ends /\ UNCHANGED <<clock, known, cache>>
      BY <2>3, FinishKeeps
    <3>2. review'[r].phase \notin Asking
      BY <3>1 DEF Ends, Asking
    <3> QED
      BY <3>1, <3>2, OutsideTold
  <2> QED
    BY <1>1, <2>1, <2>2, <2>3 DEF Step
<1>2. CASE UNCHANGED vars
  BY <1>2 DEF vars, ToldInv, Later, Honest, Answered, Covered, Settled, Old, PublicFlaw,
              Noted, Mentioned
<1> QED
  BY <1>1, <1>2, SurroundingsTold DEF Next

LEMMA LookupsAreTold == Spec => []ToldInv
<1> QED
  BY InitTold, NextTold, ReviewsAreSound, PTL DEF Spec

\* Whatever the inventory, the advisories, the attempts, the budget, the cap and the
\* age that a row may have: the report of a scan, or of a rehearsal with healthy pages,
\* tells of every old flaw of every component that was discovered, or says that it, or
\* its provider, could not be asked or that its advisories were cut off
\* (LookupVulnerabilities, osvFindings); the release it names is newer and free of the
\* flaw (versionAffected, selectFixedVersion), if no advisory contradicts itself.
THEOREM FlawsTold ==
  ASSUME Consistent
  PROVE  Spec => FlawsAreTold
<1> DEFINE Complete(r) ==
      Reports(r) =>
        \A provider \in Providers : \A k \in Of(provider) \cap review[r].seen, ranges \in Flaws :
          /\ known[k][ranges] # None /\ known[k][ranges] + Ttl < clock
          /\ Flawed(Installed[k], ranges)
          => \/ k \in review[r].skipped \/ provider \in review[r].failed
             \/ k \in PackageKeys /\ <<k, Truncated>> \in review[r].found
             \/ /\ <<k, ranges>> \in review[r].found
                /\ provider = "php" \/ Helps(k, ranges)
<1>1. ASSUME ReviewInv, ToldInv, [Next]_vars, NEW r \in Reviews
      PROVE  Complete(r)
  <2> SUFFICES ASSUME Reports(r), NEW provider \in Providers,
                      NEW k \in Of(provider) \cap review[r].seen, NEW ranges \in Flaws,
                      known[k][ranges] # None, known[k][ranges] + Ttl < clock,
                      Flawed(Installed[k], ranges)
               PROVE  \/ k \in review[r].skipped \/ provider \in review[r].failed
                      \/ k \in PackageKeys /\ <<k, Truncated>> \in review[r].found
                      \/ /\ <<k, ranges>> \in review[r].found
                         /\ provider = "php" \/ Helps(k, ranges)
    OBVIOUS
  <2>1. review[r].phase = "osv" /\ review[r].todo = <<>>
    BY <1>1, VerdictFinishes DEF Verdict, Report
  <2>2. Settled(r, provider, {})
    <3>1. ToSet(<<>>) = {} /\ Covered(r)
      BY <1>1 DEF ToSet, ToldInv
    <3> QED
      BY <2>1, <3>1 DEF Covered, Providers
  <2>3. Noted(r, provider, k, ranges)
    BY <2>2 DEF Settled, Old, PublicFlaw
  <2>4. provider # "php" => Helps(k, ranges)
    <3>1. provider # "php" => k \in WordpressKeys \cup PackageKeys
      BY DEF Of, Providers
    <3> QED
      BY <3>1, TargetHelps
  <2> QED
    BY <2>3, <2>4 DEF Noted, Mentioned
<1>2. ReviewInv /\ ToldInv /\ [Next]_vars => [\A r \in Reviews : Complete(r)]_vars
  BY <1>1
<1> HIDE DEF Complete
<1>3. Spec => [][\A r \in Reviews : Complete(r)]_vars
  BY <1>2, ReviewsAreSound, LookupsAreTold, PTL DEF Spec
<1> QED
  BY <1>3 DEF FlawsAreTold, Complete
=============================================================================
