------------------------------- MODULE Review -------------------------------
(***************************************************************************)
(* The review of a site: the part of a rehearsal job that follows its      *)
(* upgrade (health check, page comparison, security scan and lookup of     *)
(* known vulnerabilities; internal/apiserver/jobs.go, internal/staging/    *)
(* healthcheck.go, internal/security), and POST /security/scan, which does *)
(* the last two for a production site (security_scan.go).  The worker has  *)
(* one rehearsal at a time, the API any number of scans.  All share the    *)
(* table cve_cache.                                                        *)
(*                                                                         *)
(* One step is one HTTP exchange or one use of the table, so that another  *)
(* review, a publication or a crash can come between an answer and its     *)
(* storage.  The clock counts days, or any other part of cveCacheTTL.      *)
(***************************************************************************)
EXTENDS Integers, Sequences, FiniteSets, SequencesExt

CONSTANTS Rehearsals, Scans, \* the reviews, by kind
          Wordpress,  \* core, active plugins and themes: the inventory
          Packages,   \* the composer packages
          Php,        \* the PHP version
          Installed,  \* the installed version of each component
          Flaws,      \* what an advisory may say
          Cap,        \* maxFindingsPerPackage, 10
          Truncated,  \* the finding osv-advisories-truncated
          Attempts,   \* MaxRetries, 10 for a rehearsal
          Budget,     \* WPSCAN_MAX_REQUESTS, 20 by default
          Ttl,        \* cveCacheTTL
          MaxClock, MaxFlaws, MaxTrouble,
          None

ASSUME ReviewAssumption ==
  /\ Attempts \in Nat \ {0} /\ Budget \in Nat \ {0} /\ Ttl \in Nat
  /\ MaxTrouble \in Nat /\ Cap \in Nat
  /\ Rehearsals \cap Scans = {}

Reviews == Rehearsals \cup Scans
WordpressKeys == ToSet(Wordpress)
PackageKeys == ToSet(Packages)
Keys == WordpressKeys \cup PackageKeys \cup {Php}

\* The keys of the table say which provider answered: "wpscan:", "eol:php:" and
\* "osv:Packagist:".  The first component is WordPress itself.
ASSUME InventoryAssumption ==
  /\ Wordpress \in Seq(WordpressKeys) \ {<<>>} /\ Packages \in Seq(PackageKeys)
  /\ WordpressKeys \cap PackageKeys = {} /\ Php \notin WordpressKeys \cup PackageKeys

----------------------------------------------------------------------------
(* Versions are sequences of numbers; an advisory is a set of ranges.  A   *)
(* bound of a range that is absent, or has no number in it, is <<>>.       *)

ASSUME VersionAssumption ==
  /\ Installed \in [Keys -> Seq(Nat)]
  /\ \A ranges \in Flaws :
       /\ IsFiniteSet(ranges)
       /\ \A range \in ranges : range.introduced \in Seq(Nat) /\ range.fixed \in Seq(Nat)

Digit(v, i) == IF i \in DOMAIN v THEN v[i] ELSE 0

\* compareVersions: the sign of the first difference.
Compare(v, w) ==
  LET differing == {i \in 1..(Len(v) + Len(w)) : Digit(v, i) # Digit(w, i)}
  IN  IF differing = {} THEN 0
      ELSE IF Digit(v, Min(differing)) < Digit(w, Min(differing)) THEN -1 ELSE 1

\* versionAffected
Affected(installed, range) ==
  /\ range.fixed # <<>> => Compare(installed, range.fixed) < 0
  /\ range.introduced # <<>> => Compare(installed, range.introduced) >= 0

\* Mutant: the first fixed release of all, without looking at the installed one.
OldestFix(installed, candidates) ==
  CHOOSE v \in candidates : \A w \in candidates : Compare(v, w) <= 0

\* selectFixedVersion: the least that is newer than the installed one, of the
\* same major version if there is one.
FixedVersion(installed, candidates) ==
  LET newer == {v \in candidates : v # <<>> /\ Compare(v, installed) > 0}
      sameMajor == {v \in newer : Head(v) = Head(installed)}
      pool == IF sameMajor = {} THEN newer ELSE sameMajor
  IN  IF pool = {} THEN <<>>
      ELSE CHOOSE v \in pool : \A w \in pool : Compare(v, w) <= 0

\* The release that the recommendation of a finding names: the one WPScan gives
\* for its range, of a package's advisory the one selected.
Target(k, ranges) ==
  IF k \in PackageKeys THEN FixedVersion(Installed[k], {range.fixed : range \in ranges})
  ELSE (CHOOSE range \in ranges : Affected(Installed[k], range)).fixed

----------------------------------------------------------------------------
VARIABLES clock,
          known,   \* the providers: when they published an advisory of a component
          token,   \* WPSCAN_API_TOKEN is set
          cache,   \* the table cve_cache
          review,  \* the reviews
          faults,  \* how often the table could not be read or written
          trouble  \* how often a provider refused or failed, part of the inventory could
                   \* not be read, or the server ended

vars == <<clock, known, token, cache, review, faults, trouble>>

\* A finding about a component is known by the advisory it tells of.
Notes == Flaws \cup {Truncated}
Findings == Keys \X Notes
Replies == SUBSET Notes
Cached == [found: Replies, at: Nat]

ASSUME NoneAssumption ==
  /\ Truncated \notin Flaws
  /\ None \notin Cached /\ None \notin Nat /\ \A reply \in Replies : None # reply

\* phase: where the review is.  seen: the components it could discover.  todo:
\* those of the provider at hand that had no turn yet; answer: what it said of the
\* first of them; uncached: the packages OSV will have to be asked about.  found,
\* skipped, failed: what the report says.  failing: there will be a rehearsal
\* failure.  Kept for the properties: missed, how often the page at hand
\* did not come; wrong, whether one did not come Attempts times, or the two were
\* different; fresh, what the table held at the start; used, the
\* requests to WPScan.
NewReview ==
  [phase |-> "new", attempt |-> 1, budget |-> Budget, seen |-> Keys,
   todo |-> <<>>, answer |-> None, uncached |-> <<>>,
   found |-> {}, skipped |-> {}, failed |-> {},
   failing |-> FALSE, missed |-> 0, wrong |-> FALSE,
   fresh |-> {}, used |-> 0]

Ends == {"completed", "unhealthy", "error", "reported", "cut"}

Running(r) == review[r].phase \notin Ends \cup {"new"}

Update(r, rv) ==
  /\ review' = [review EXCEPT ![r] = rv]
  /\ UNCHANGED <<clock, known, token>>

\* A step that does not use the table.
Local(r, rv) == Update(r, rv) /\ UNCHANGED <<cache, faults, trouble>>

\* The report is out of the server's hands.
End(r, phase) == Local(r, [NewReview EXCEPT !.phase = phase])

----------------------------------------------------------------------------
(* cve_cache.  A row is good for cveCacheTTL; a clock of whole units cannot *)
(* tell on which side of the limit a row of that age is.                   *)

Hit(k) == cache[k] # None /\ clock - cache[k].at <= Ttl
SureHit(k) == cache[k] # None /\ clock - cache[k].at < Ttl

Fault == faults + trouble < MaxTrouble /\ faults' = faults + 1

\* Get of a row that is not there, is too old, or cannot be read.
Miss(k) == \/ ~SureHit(k) /\ UNCHANGED faults
           \/ Fault

\* Set: an error is ignored.
Save(k, found) ==
  \/ cache' = [cache EXCEPT ![k] = [found |-> found, at |-> clock]] /\ UNCHANGED faults
  \/ Fault /\ UNCHANGED cache

----------------------------------------------------------------------------
(* Retry loops: CheckStagingHealth, and fetchNormalizedPage of either page. *)

Loops == {"health", "production", "staging"}

Begin(r) ==
  /\ review[r].phase = "new"
  /\ r \in Rehearsals => \A q \in Rehearsals : ~Running(q)
  /\ Local(r, [review[r] EXCEPT !.phase = IF r \in Rehearsals THEN "health" ELSE "scan",
                                !.fresh = {k \in Keys : SureHit(k)}])

\* No answer, another status than 200, or a body that cannot be read.
Badly(rv) ==
  [rv EXCEPT !.attempt = @ + 1, !.missed = @ + 1,
             !.wrong = @ \/ rv.missed + 1 = Attempts]

Enter(rv, phase) == [rv EXCEPT !.phase = phase, !.attempt = 1, !.missed = 0]

Retry(r) ==
  /\ review[r].phase \in Loops /\ review[r].attempt < Attempts
  /\ Local(r, Badly(review[r]))

\* The pages are compared if the site has a health check URL, and whether or
\* not the health check passed.
AfterHealth == {"production", "scan"}

GiveUpAt(r, attempt) ==
  LET rv == Badly(review[r])
  IN  /\ rv.phase \in Loops /\ review[r].attempt = attempt
      /\ \E next \in IF rv.phase = "health" THEN AfterHealth ELSE {"scan"} :
           Local(r, [Enter(rv, next) EXCEPT !.failing = TRUE])

\* Mutant: one attempt less.
GiveUpEarly(r) == GiveUpAt(r, Attempts - 1)

GiveUp(r) == GiveUpAt(r, Attempts)

Healthy(r) ==
  /\ review[r].phase = "health"
  /\ \E next \in AfterHealth : Local(r, Enter(review[r], next))

ProductionPage(r) ==
  /\ review[r].phase = "production"
  /\ Local(r, Enter(review[r], "staging"))

\* CompareStagingPages, its end.
StagingPage(r) ==
  /\ review[r].phase = "staging"
  /\ \/ Local(r, Enter(review[r], "scan"))
     \/ Local(r, [Enter(review[r], "scan") EXCEPT !.wrong = TRUE,
                                                   !.failing = TRUE])

\* security.Scan fails if the home page does not come.  A rehearsal goes on
\* without it; POST /security/scan answers 502.
Scan(r) ==
  /\ review[r].phase = "scan"
  /\ \/ Local(r, [review[r] EXCEPT !.phase = "inventory"])
     \/ r \in Scans /\ End(r, "error")

Trouble == faults + trouble < MaxTrouble /\ trouble' = trouble + 1

\* A list of plugins or themes or a composer file that cannot be read ends
\* nothing, and the review goes on without what is in it.  (So does a scan, which
\* reads its inventory before the home page, without WordPress or PHP; it warns of
\* the lists and of WordPress.  A rehearsal chose the PHP version itself.)
Unread(r, k) ==
  /\ review[r].phase = "inventory" /\ k \in review[r].seen
  /\ r \in Rehearsals => k \notin {Head(Wordpress), Php}
  /\ Update(r, [review[r] EXCEPT !.seen = @ \ {k}])
  /\ Trouble /\ UNCHANGED <<cache, faults>>

\* A rehearsal reads its inventory again here, and fails without the version of
\* WordPress.
Inventory(r) ==
  /\ review[r].phase = "inventory"
  /\ \/ Local(r, [review[r] EXCEPT !.phase = "wpscan", !.todo = Wordpress])
     \/ r \in Rehearsals /\ End(r, "error")

----------------------------------------------------------------------------
(* LookupVulnerabilities: WPScan, then endoflife.date, then OSV. *)

Of(provider) ==
  CASE provider = "wpscan" -> WordpressKeys
    [] provider = "php" -> {Php}
    [] provider = "osv" -> PackageKeys

Providers == {"wpscan", "php", "osv"}

\* The loop is at a component, the table not yet asked about it.
At(r, providers) ==
  /\ review[r].phase \in providers /\ review[r].todo # <<>> /\ review[r].answer = None

Advance(rv) == [rv EXCEPT !.todo = Tail(@), !.answer = None]

NotConfigured(r) ==
  /\ At(r, {"wpscan"}) /\ ~token
  /\ Local(r, [review[r] EXCEPT !.todo = <<>>, !.failed = @ \cup {"wpscan"}])

\* The tokenless report is made before the loop; with a token, the loop runs.
Turn(r, providers) == At(r, providers) /\ (review[r].phase = "wpscan" => token)

\* What was not discovered is in none of the lists.
Undiscovered(r) ==
  /\ Turn(r, {"wpscan", "php", "packages"}) /\ Head(review[r].todo) \notin review[r].seen
  /\ Local(r, Advance(review[r]))

Looking(r, providers) == Turn(r, providers) /\ Head(review[r].todo) \in review[r].seen

Told(rv, k, notes) == [rv EXCEPT !.found = @ \cup ({k} \X notes)]

CacheHit(r) ==
  LET k == Head(review[r].todo)
  IN  /\ Looking(r, {"wpscan", "php", "packages"}) /\ Hit(k)
      /\ Local(r, Advance(Told(review[r], k, cache[k].found)))

\* Mutant: the table is read under another key than it is written.
NeverThere(r) == UNCHANGED faults

\* lookupOSV asks the table about all its packages (phase "packages") before it
\* asks OSV about the others (phase "osv").
Missed(r) ==
  IF review[r].phase = "osv" THEN UNCHANGED faults ELSE Miss(Head(review[r].todo))

\* Mutant: a component beyond the budget is passed over without a word.
SkipSilently(r) ==
  /\ Looking(r, {"wpscan"}) /\ review[r].budget = 0 /\ Missed(r)
  /\ Update(r, Advance(review[r])) /\ UNCHANGED <<cache, trouble>>

Skip(r) ==
  /\ Looking(r, {"wpscan"}) /\ review[r].budget = 0 /\ Missed(r)
  /\ Update(r, Advance([review[r] EXCEPT !.skipped = @ \cup {Head(review[r].todo)}]))
  /\ UNCHANGED <<cache, trouble>>

CanAsk(r) ==
  /\ Looking(r, Providers) /\ Missed(r)
  /\ review[r].phase = "wpscan" => review[r].budget > 0

Asked(rv) ==
  IF rv.phase = "wpscan" THEN [rv EXCEPT !.budget = @ - 1, !.used = @ + 1] ELSE rv

\* The advisories that are about the installed version.  WPScan lists every flaw
\* that a component ever had; OSV and endoflife.date are asked of one version.
Relevant(k) ==
  {ranges \in Flaws :
     /\ known[k][ranges] # None
     /\ k \in WordpressKeys => \E range \in ranges : Affected(Installed[k], range)}

\* Mutant: what the cap cuts off is left out without a word.
CutSilently(k) ==
  IF k \in PackageKeys /\ Cardinality(Relevant(k)) > Cap
  THEN kSubset(Cap, Relevant(k))
  ELSE {Relevant(k)}

\* What the provider's answer makes of the component.  osvFindings stops after the
\* first Cap advisories, in OSV's order, and says so.
Answers(k) ==
  IF k \in PackageKeys /\ Cardinality(Relevant(k)) > Cap
  THEN {shown \cup {Truncated} : shown \in kSubset(Cap, Relevant(k))}
  ELSE {Relevant(k)}

\* fetchWPScan, queryOSV or the GET of php.json, answered.
Ask(r) ==
  /\ CanAsk(r)
  /\ \E notes \in Answers(Head(review[r].todo)) :
       Update(r, [Asked(review[r]) EXCEPT !.answer = notes])
  /\ UNCHANGED <<cache, trouble>>

\* Status 429.
RateLimited(r) ==
  /\ CanAsk(r) /\ review[r].phase = "wpscan"
  /\ Update(r, Advance([Asked(review[r]) EXCEPT !.skipped = @ \cup {Head(review[r].todo)},
                                                !.budget = 0]))
  /\ Trouble /\ UNCHANGED cache

\* Any other error, the end of the deadline included, ends the provider's part:
\* LookupVulnerabilities drops its findings and reports the failure.  What was
\* stored of them stays.
LookupFails(r) ==
  /\ CanAsk(r)
  /\ Update(r, [Asked(review[r]) EXCEPT !.todo = <<>>,
                                        !.found = @ \ (Of(review[r].phase) \X Notes),
                                        !.failed = @ \cup {review[r].phase}])
  /\ Trouble /\ UNCHANGED cache

Store(r) ==
  LET rv == review[r]
  IN  /\ rv.answer # None
      /\ Update(r, Advance(Told(rv, Head(rv.todo), rv.answer)))
      /\ Save(Head(rv.todo), rv.answer) /\ UNCHANGED trouble

WpscanDone(r) ==
  /\ review[r].phase = "wpscan" /\ review[r].todo = <<>>
  /\ Local(r, [review[r] EXCEPT !.phase = "php", !.todo = <<Php>>])

PhpDone(r) ==
  /\ review[r].phase = "php" /\ review[r].todo = <<>>
  /\ Local(r, [review[r] EXCEPT !.phase = "packages", !.todo = Packages])

Uncached(r) ==
  /\ Looking(r, {"packages"}) /\ Miss(Head(review[r].todo))
  /\ Update(r, Advance([review[r] EXCEPT !.uncached = Append(@, Head(review[r].todo))]))
  /\ UNCHANGED <<cache, trouble>>

PackagesDone(r) ==
  /\ review[r].phase = "packages" /\ review[r].todo = <<>>
  /\ Local(r, [review[r] EXCEPT !.phase = "osv", !.todo = review[r].uncached,
                                !.uncached = <<>>])

\* The report of a scan is the answer to its request.
Report(r) ==
  /\ r \in Scans /\ review[r].phase = "osv" /\ review[r].todo = <<>>
  /\ End(r, "reported")

\* A rehearsal still has its rollback, with all that may go wrong there, and
\* then its verdict: findings play no part in it.
RollbackFails(r) ==
  /\ r \in Rehearsals /\ review[r].phase = "osv" /\ review[r].todo = <<>>
  /\ End(r, "error")

Verdict(r) ==
  /\ r \in Rehearsals /\ review[r].phase = "osv" /\ review[r].todo = <<>>
  /\ End(r, IF review[r].failing THEN "unhealthy" ELSE "completed")

----------------------------------------------------------------------------
\* An advisory appears, of MaxFlaws components at most, and while the clock still
\* reaches a day on which a report has to tell of it.  Those of WPScan and the end
\* of life of a PHP version are of one range each.
Publish(k, ranges) ==
  /\ clock + Ttl < MaxClock /\ known[k][ranges] = None
  /\ k \notin PackageKeys => Cardinality(ranges) = 1
  /\ k = Php => \A other \in Flaws : known[k][other] = None
  /\ LET public == {j \in Keys : \E other \in Flaws : known[j][other] # None}
     IN  Cardinality(public \cup {k}) <= MaxFlaws
  /\ known' = [known EXCEPT ![k][ranges] = clock]
  /\ UNCHANGED <<clock, token, cache, review, faults, trouble>>

\* A lookup has 90 or 120 seconds, nothing beside cveCacheTTL; that the limit
\* of a row falls into one is the case of a row of exactly that age.
Tick ==
  /\ clock < MaxClock /\ \A r \in Reviews : ~Running(r)
  /\ clock' = clock + 1
  /\ UNCHANGED <<known, token, cache, review, faults, trouble>>

\* The API server ends; a new one may have a token or none.
Crash ==
  /\ \E r \in Reviews : Running(r)
  /\ review' = [r \in Reviews |->
                 IF Running(r) THEN [NewReview EXCEPT !.phase = "cut"] ELSE review[r]]
  /\ token' \in BOOLEAN /\ Trouble
  /\ UNCHANGED <<clock, known, cache, faults>>

Init ==
  /\ clock = 0 /\ token \in BOOLEAN /\ faults = 0 /\ trouble = 0
  /\ known = [k \in Keys |-> [ranges \in Flaws |-> None]] /\ cache = [k \in Keys |-> None]
  /\ review = [r \in Reviews |-> NewReview]

Probe(r) == Retry(r) \/ GiveUp(r) \/ Healthy(r) \/ ProductionPage(r) \/ StagingPage(r)

Lookup(r) ==
  \/ NotConfigured(r) \/ Undiscovered(r) \/ CacheHit(r) \/ Skip(r)
  \/ Ask(r) \/ RateLimited(r) \/ LookupFails(r) \/ Store(r)
  \/ WpscanDone(r) \/ PhpDone(r) \/ Uncached(r) \/ PackagesDone(r)

Step(r) ==
  \/ Probe(r) \/ Scan(r) \/ Inventory(r) \/ Lookup(r)
  \/ \E k \in Keys : Unread(r, k)
  \/ Report(r) \/ RollbackFails(r) \/ Verdict(r)

Next ==
  \/ \E r \in Reviews : Begin(r) \/ Step(r)
  \/ \E k \in Keys, ranges \in Flaws : Publish(k, ranges)
  \/ Tick \/ Crash

Spec == Init /\ [][Next]_vars

----------------------------------------------------------------------------
(* Properties. *)

Phases ==
  {"new"} \cup Loops \cup {"scan", "inventory", "packages"} \cup Providers \cup Ends

ReviewRecord ==
  [phase: Phases, attempt: Nat, budget: Nat, seen: SUBSET Keys,
   todo: Seq(Keys), answer: Replies \cup {None}, uncached: Seq(Keys),
   found: SUBSET Findings, skipped: SUBSET Keys, failed: SUBSET Providers,
   failing: BOOLEAN, missed: Nat, wrong: BOOLEAN,
   fresh: SUBSET Keys, used: Nat]

TypeOK ==
  /\ clock \in Nat /\ faults \in Nat /\ trouble \in Nat /\ token \in BOOLEAN
  /\ known \in [Keys -> [Flaws -> Nat \cup {None}]]
  /\ cache \in [Keys -> Cached \cup {None}]
  /\ review \in [Reviews -> ReviewRecord]

\* v is before w in the order of versions, and in the range of an advisory.
Older(v, w) ==
  \E i \in 1..(Len(v) + Len(w)) :
    /\ Digit(v, i) < Digit(w, i)
    /\ \A j \in 1..(i - 1) : Digit(v, j) = Digit(w, j)

Inside(v, range) ==
  /\ range.fixed = <<>> \/ Older(v, range.fixed)
  /\ ~Older(v, range.introduced)

Flawed(v, ranges) == \E range \in ranges : Inside(v, range)

\* What providers are trusted with: no release that an advisory names as fixed
\* is in one of its own ranges.  (Another advisory may well be about it.)
Consistent ==
  \A ranges \in Flaws : \A fixing, other \in ranges :
    fixing.fixed # <<>> => ~Inside(fixing.fixed, other)

\* The recommended release is newer than the installed one and has the flaw no
\* longer; none is named only if a range has no end.
Helps(k, ranges) ==
  LET target == Target(k, ranges)
  IN  \/ target = <<>> /\ \E range \in ranges : range.fixed = <<>>
      \/ Older(Installed[k], target) /\ ~Flawed(target, ranges)

\* The review ends with a report: the answer to the scan, the result of a
\* rehearsal with healthy pages.  (One that fails has its error only: setError
\* leaves the result empty and the findings are lost.)
Reports(r) ==
  /\ review'[r].phase # review[r].phase
  /\ review'[r].phase \in {"reported", "completed"}

\* A report tells of every flaw that was public for longer than an answer is
\* kept in the installed version of every component that the review discovered,
\* with a release that helps (for PHP, none is named); or it says that this
\* component or its provider could not be asked, or that the advisories of this
\* package were cut off.
FlawsAreTold ==
  [][\A r \in Reviews : Reports(r) =>
       \A provider \in Providers : \A k \in Of(provider) \cap review[r].seen, ranges \in Flaws :
         /\ known[k][ranges] # None /\ known[k][ranges] + Ttl < clock
         /\ Flawed(Installed[k], ranges)
         => \/ k \in review[r].skipped \/ provider \in review[r].failed
            \/ k \in PackageKeys /\ <<k, Truncated>> \in review[r].found
            \/ /\ <<k, ranges>> \in review[r].found
               /\ provider = "php" \/ Helps(k, ranges)]_vars

\* The quota of WPScan is spared: a review asks about as many components as it
\* may, none after the first it had to skip, and about none whose answer was in
\* the table when it began.
QuotaKept ==
  [][\A r \in Reviews : Ask(r) \/ RateLimited(r) \/ LookupFails(r) =>
       /\ review[r].phase = "wpscan" => review[r].skipped = {} /\ review[r].used < Budget
       /\ faults' = 0 =>
            Head(review[r].todo) \notin review[r].fresh]_vars

\* A rehearsal that gets as far as its verdict is failed by its pages only, when
\* each of the attempts at one of them went wrong or the two were different, and
\* then always.  (Whether the verdict reaches its row is Rehearsal's matter.)
Judges(r) ==
  /\ review'[r].phase # review[r].phase
  /\ review'[r].phase \in {"completed", "unhealthy"}

VerdictIsEarned ==
  [][\A r \in Rehearsals : Judges(r) =>
       (review'[r].phase = "unhealthy" <=> review[r].wrong)]_vars
=============================================================================
