------------------------------- MODULE Sample -------------------------------
(***************************************************************************)
(* What a visitor without an account is shown: a real search against the   *)
(* clock, of which the rows that were looked at come first, stripped to    *)
(* what a stranger may see, and kept for a day to be shown to others.      *)
(* Who may ask, and how often, is in Search.                               *)
(***************************************************************************)
EXTENDS Integers, Sequences, FiniteSets, SequencesExt

CONSTANTS
  Rows,           \* the businesses discovered, in the order of their ids
  Kinds,          \* what a business may be like (MCRules)
  SAMPLE_LEADS,   \* how many a visitor sees
  SAMPLE_AUDITS,  \* how many sites are read at most
  DAY,            \* of clock ticks: the life of a sample, and of a cached audit
  MaxTime         \* bound on the clock

VARIABLES now, world, audit_cache, stage, lead, kept, shown
vars == <<now, world, audit_cache, stage, lead, kept, shown>>

Never == -1
None == [rows |-> <<>>, at |-> Never]

\* rawToLead: nothing was looked at, and nobody was found to answer.
rawToLead == [checkedAt |-> Never, deliverable |-> FALSE]

Init ==
  /\ now = 0 /\ stage = "found" /\ kept = None /\ shown = None
  /\ world \in [Rows -> Kinds] /\ lead = [r \in Rows |-> rawToLead]
  /\ audit_cache \in [Rows -> {Never, 0}]

----------------------------------------------------------------------------
(* runSample: from the rows that were found to the rows that are shown.    *)

Busier(r, s) == \/ world[r].reviewCount > world[s].reviewCount
                \/ world[r].reviewCount = world[s].reviewCount /\ r < s
\* The busiest few of those that have a site.
WithSite ==
  LET sites == { r \in Rows : world[r].website } IN
    { r \in sites : Cardinality({ s \in sites : Busier(s, r) }) < SAMPLE_AUDITS }

\* The crawls that are still fresh are taken as they are, with the time they were made.
ReadAudits ==
  /\ stage = "found" /\ stage' = "audits"
  /\ lead' = [r \in Rows |-> IF r \in WithSite /\ audit_cache[r] # Never /\ now - audit_cache[r] <= DAY
                              THEN [lead[r] EXCEPT !.checkedAt = audit_cache[r]] ELSE lead[r]]
  /\ UNCHANGED <<now, world, audit_cache, kept, shown>>

\* The others are crawled until the time is up. What is learnt is not filed.
Audit ==
  /\ stage = "audits" /\ stage' = "verify"
  /\ \E done \in SUBSET { r \in WithSite : lead[r].checkedAt = Never } :
       lead' = [r \in Rows |-> IF r \in done THEN [lead[r] EXCEPT !.checkedAt = now] ELSE lead[r]]
  /\ UNCHANGED <<now, world, audit_cache, kept, shown>>

\* verifyContact for nothing, of as many as the budget lasts for.
Verify ==
  /\ stage = "verify" /\ stage' = "rank"
  /\ \E done \in SUBSET Rows :
       lead' = [r \in Rows |-> IF r \in done THEN [lead[r] EXCEPT !.deliverable = world[r].sound] ELSE lead[r]]
  /\ UNCHANGED <<now, world, audit_cache, kept, shown>>

looksLikeABusinessName(r) == world[r].named
Reachable == { r \in Rows : world[r].phone \/ world[r].website }

\* siteReachable is not false.
LookedAt(r) == lead[r].checkedAt # Never /\ world[r].up
Bit(b) == IF b THEN 1 ELSE 0
\* Mutant: what can be reached comes first, looked at or not.
DeliverableFirst(r, s) ==
  \/ lead[r].deliverable /\ ~lead[s].deliverable
  \/ lead[r].deliverable = lead[s].deliverable /\ r < s
Before(r, s) ==
  LET a == <<Bit(LookedAt(r)), Bit(lead[r].deliverable), world[r].tier>>
      b == <<Bit(LookedAt(s)), Bit(lead[s].deliverable), world[s].tier>>
  IN \/ \E i \in 1..3 : a[i] > b[i] /\ \A j \in 1..(i - 1) : a[j] = b[j]
     \/ a = b /\ r < s
Sayable == { r \in Reachable : looksLikeABusinessName(r) }
\* The k-th has k - 1 before it.
ranked == [k \in 1..Cardinality(Sayable) |-> CHOOSE r \in Sayable : Cardinality({ s \in Sayable : Before(s, r) }) = k - 1]

\* describeCurrency, in words that are about the moment they are written.
Words(days) == IF days < 1 THEN "today" ELSE "earlier"
currencyFor(r) ==
  IF lead[r].checkedAt # Never THEN [fromOurCheck |-> TRUE, label |-> Words((now - lead[r].checkedAt) \div DAY)]
  ELSE [fromOurCheck |-> FALSE, label |-> "listing"]
redact(r) == [row |-> r, deliverable |-> lead[r].deliverable, currency |-> currencyFor(r)]
Result == [rows |-> [i \in 1..(IF Len(ranked) < SAMPLE_LEADS THEN Len(ranked) ELSE SAMPLE_LEADS) |-> redact(ranked[i])], at |-> now]

\* The result is kept, unless the write fails or nothing was worth showing, and shown.
Answer ==
  /\ stage = "rank" /\ stage' = "done"
  /\ shown' = Result
  /\ kept' \in IF ranked = <<>> THEN {kept} ELSE {kept, Result}
  /\ UNCHANGED <<now, world, audit_cache, lead>>

\* readCache: the next visitor is shown what was kept, word for word, for a day.
readCache ==
  /\ stage = "done" /\ kept # None /\ now - kept.at <= DAY
  /\ shown' = kept
  /\ UNCHANGED <<now, world, audit_cache, stage, lead, kept>>

\* A visitor leaves the page.
Leave == stage = "done" /\ shown # None /\ shown' = None /\ UNCHANGED <<now, world, audit_cache, stage, lead, kept>>

\* Time is let pass while nothing runs: a run is over in seconds.
Tick == stage \in {"found", "done"} /\ shown = None /\ now < MaxTime /\ now' = now + 1 /\ UNCHANGED <<world, audit_cache, stage, lead, kept, shown>>

Next == ReadAudits \/ Audit \/ Verify \/ Answer \/ readCache \/ Leave \/ Tick
Spec == Init /\ [][Next]_vars

----------------------------------------------------------------------------

Shown == { shown.rows[i].row : i \in DOMAIN shown.rows }

\* The sample shows the product at work: a business nobody looked at is shown only
\* when every one that was looked at, answers and has a name is shown too, however the
\* clock cut the run short.
WorkIsShown ==
  shown # None /\ shown.at = now => \A r \in Shown : ~LookedAt(r) => \A s \in Rows : LookedAt(s) /\ s \in Sayable => s \in Shown

\* The words over the rows: here are the ones we checked.
SaidChecked == \A r \in Shown : lead[r].checkedAt # Never

\* Serving a cached audit is not looking: what is said to be checked today was, however
\* long the answer was kept.
CheckedWhenSaid == \A i \in DOMAIN shown.rows : shown.rows[i].currency.label = "today" =>
                     now - lead[shown.rows[i].row].checkedAt < DAY
=============================================================================
