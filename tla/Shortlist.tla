----------------------------- MODULE Shortlist -----------------------------
(***************************************************************************)
(* From the leads a search graded to the pages it answers with: what was   *)
(* ruled out is removed, the bars are applied, the rest is ranked by how   *)
(* well it fits what was asked for, and a page is cut out. Every page is a *)
(* request of its own that ranks again from nothing.                       *)
(***************************************************************************)
EXTENDS Integers, Sequences, FiniteSets, SequencesExt, FiniteSetsExt

CONSTANTS
  Profiles,           \* what can be known of a lead (MCRules)
  Asks,               \* what can be asked: criteria, excludes, factors, bars, web presence
  N, LIMIT, TRIAL,    \* leads found; a page for a subscriber and for a trial account
  MaxPages            \* bound on the requests of one search

VARIABLES found, ask, subscribed, shown, remaining, given, pages
vars == <<found, ask, subscribed, shown, remaining, given, pages>>

\* The leads are numbered in the order of their ids.
Leads == 1..N
Init ==
  /\ found \in [Leads -> Profiles] /\ ask \in Asks /\ subscribed \in BOOLEAN
  /\ shown = <<>> /\ remaining = 1 /\ given = {} /\ pages = 0

----------------------------------------------------------------------------
(* One criterion against one lead: met, failed, or unknown because it could*)
(* not be checked.                                                         *)

\* vendorsOf, audited: what only a page can tell is known once the page was read.
SiteRules == {"slow", "outdated", "ordering"}
VendorNames == {"Toast"}
audited(l) == l.siteAudited /\ l.siteReachable
SiteTest(rule, l) == IF audited(l) THEN {rule \in l.site} ELSE {}
RuleTest(rule, l) ==
  CASE rule \in SiteRules  -> SiteTest(rule, l)
    [] rule = "website"    -> IF l.websiteKnown THEN {l.web = "site"} ELSE {}
    [] rule = "busy"       -> { n >= 50 : n \in l.reviews }
    [] rule = "phone"      -> {l.phone}
    [] OTHER               -> {}

Verdict(actual, want) == IF actual = {} THEN "unknown" ELSE IF actual = {want} THEN "met" ELSE "failed"

\* A bar that is given as a number reads no negation; a name that is met in the listing is met.
vendorRule(c, l) == IF audited(l) THEN Verdict({c.says \in l.site}, ~c.negated) ELSE "unknown"
numericRule(c, l) == Verdict({ n >= c.bar : n \in l.reviews }, TRUE)
keywordRule(c, l) == IF c.says \in l.words THEN "met" ELSE "unknown"

checkCriterion(c, l) ==
  CASE c.kind = "reviews" -> numericRule(c, l)
    [] c.kind = "rule"    -> Verdict(RuleTest(c.says, l), ~c.negated)
    [] c.kind = "word"    -> IF c.says \in VendorNames THEN vendorRule(c, l) ELSE keywordRule(c, l)

Count(l, verdict) == Cardinality({ c \in ask.criteria : checkCriterion(c, l) = verdict })
met(l) == Count(l, "met")
failed(l) == Count(l, "failed")

isExcluded(l) == \E c \in ask.excludes : checkCriterion(c, l) = "met"

fitBucket(l) ==
  IF met(l) + failed(l) = 0 THEN 1
  ELSE IF failed(l) = 0 THEN 3
  ELSE IF met(l) >= failed(l) THEN 2 ELSE 0
bucketOf(l) == IF ask.criteria = {} THEN 1 ELSE fitBucket(l)

----------------------------------------------------------------------------
(* The filters, in their order, and the ranking.                           *)

actionable == { i \in Leads : found[i].phone \/ found[i].web # "nowhere" \/ found[i].email }
WebPresence(l) ==
  CASE ask.web = "any" -> TRUE
    [] ask.web = "none" -> l.web = "nowhere"
    [] ask.web = "social_only" -> l.web = "social"
    [] ask.web = "has_site" -> l.web = "site"
ProblemFound(l) == ask.factors = {} \/ l.factors \cap ask.factors # {}
\* A bar nobody could measure is not cleared.
ClearsBar(l) == ask.minReviews = 0 \/ \E n \in l.reviews : n >= ask.minReviews
matching == { i \in actionable : ~isExcluded(found[i]) /\ ProblemFound(found[i]) /\ ClearsBar(found[i]) /\ WebPresence(found[i]) }

Rank(l) == <<IF l.deliverable THEN 1 ELSE 0, bucketOf(l), l.tier, l.pct>>
Above(i, j) ==
  LET a == Rank(found[i]) b == Rank(found[j]) IN
    \E k \in 1..4 : a[k] > b[k] /\ \A m \in 1..k-1 : a[m] = b[m]
Tied(i, j) == Rank(found[i]) = Rank(found[j])

\* Mutant: ties fall as they may.
AnyWay(i, j) == Above(i, j)
Before(i, j) == Above(i, j) \/ (Tied(i, j) /\ i < j)

\* Every order the sort can leave the leads in.
Ranked == { s \in SetToSeqs(matching) : \A a, b \in DOMAIN s : a < b => ~Before(s[b], s[a]) }

From(offset) == IF subscribed THEN offset ELSE 0
Cap == IF subscribed THEN LIMIT ELSE TRIAL

\* The k-th of a set of positions, and below what is shown those in order that are not shown yet.
Nth(S, k) == CHOOSE i \in S : Cardinality({ j \in S : j <= i }) = k
Fresh(old, new) ==
  LET kept == { i \in DOMAIN new : new[i] \notin ToSet(old) }
  IN old \o [k \in 1..Cardinality(kept) |-> new[Nth(kept, k)]]

\* A page. The screen asks from as many as it shows and appends what it does not show yet;
\* a program may ask from anywhere.
Page(offset) ==
  /\ pages < MaxPages /\ pages' = pages + 1
  /\ \E order \in Ranked :
       LET from == From(offset)
           top == SubSeq(order, from + 1, Min({Len(order), from + Cap}))
       IN /\ given' = given \cup ToSet(top)
          /\ IF offset = Len(shown) /\ remaining > 0
             THEN /\ shown' = Fresh(shown, top)
                  /\ remaining' = IF subscribed THEN Max({0, Len(order) - (from + Len(top))}) ELSE 0
             ELSE UNCHANGED <<shown, remaining>>
  /\ UNCHANGED <<found, ask, subscribed>>

Next == \E offset \in 0..N : Page(offset)
Spec == Init /\ [][Next]_vars

----------------------------------------------------------------------------

\* Page two ranks again from scratch, and still no lead is left out between the pages: when the
\* screen says nothing remains, it shows every lead that matched, best first.
PagesCoverAll ==
  subscribed /\ remaining = 0 =>
    /\ ToSet(shown) = matching
    /\ \A a, b \in DOMAIN shown : a < b => ~Above(shown[b], shown[a])

\* The trial's cap holds for the search and not for the page: however often an account on trial
\* asks, and from wherever, it is shown no more businesses than the first page holds.
TrialSeesOnePage == ~subscribed => Cardinality(given) <= TRIAL

\* Dropping the unknowns would empty the list the moment somebody ruled out something we hold no
\* field for: a lead that nothing confirms is ruled out is there when there are no other filters.
UnknownStays ==
  ask.factors = {} /\ ask.minReviews = 0 /\ ask.web = "any" =>
    \A i \in actionable : (\A c \in ask.excludes : checkCriterion(c, found[i]) = "unknown") => i \in matching

\* The words above fitBucket: the raw percentage would put a business that met one of one above
\* one that met three of four, which is not what a better match means.
MoreMetRanksHigher ==
  \A a, b \in DOMAIN shown :
    found[shown[a]].deliverable /\ found[shown[b]].deliverable
    /\ met(found[shown[a]]) = 1 /\ failed(found[shown[a]]) = 0
    /\ met(found[shown[b]]) = 3 /\ failed(found[shown[b]]) = 1 => b < a
=============================================================================
