-------------------------------- MODULE Rules --------------------------------
(***************************************************************************)
(* How a lead is found out, graded, chosen, named, sampled and followed:   *)
(* each part in behaviours of its own, as `scene` says, the others stand   *)
(* still. A part finds its constants and variables here under their own    *)
(* names; MCRules gives the constants values.                              *)
(***************************************************************************)
EXTENDS Integers, Sequences, FiniteSets, TLC

CONSTANTS
  MaxLearnt,                                                 \* Grades
  Profiles, Asks, N, LIMIT, TRIAL, MaxPages,                 \* Shortlist
  Latencies, BodyTimes, Deadlines,                           \* Audit
  Paths, HintRank, Contents, SignNames, MAX_EXTRA_PAGES, GUESSES, \* Enrich
  Shops, Calls, MaxBad, MaxCalls,                            \* Contact
  Contacts, Filings, MaxReturned,                            \* Owner
  Rows, Kinds, SAMPLE_LEADS, SAMPLE_AUDITS, DAY, MaxTime,    \* Sample
  Keys, Lists, WITHIN_DAYS, CHUNK, MaxDay, MaxTriggers       \* Changes

\* Seconds, and a deadline that is given or not (lib/audit.ts:293-296).
ASSUME AuditAssumption ==
  /\ Latencies \subseteq Nat /\ BodyTimes \subseteq Nat
  /\ \A D \in Deadlines : D = {} \/ \E n \in D : n \in Nat /\ D = {n}

\* "Titles that mean this person runs the business" (lib/owner-lookup.ts:42-52), for a person a vendor
\* is sure of (:89); and a bound.
ASSUME OwnerAssumption ==
  /\ \A c \in Contacts : c.person /\ c.title \in {"owner", "president"} /\ c.confidence >= 70 => c.runsIt
  /\ MaxReturned \in Nat

\* Keys are compared, and a read names some.
ASSUME ChangesAssumption == IsFiniteSet(Keys) /\ Keys \subseteq Nat /\ CHUNK \in Nat \ {0} /\ WITHIN_DAYS \in Nat

\* Tiers and grades are compared; and bounds.
ASSUME ShortlistAssumption ==
  /\ N \in Nat /\ LIMIT \in Nat /\ TRIAL \in Nat
  /\ \A l \in Profiles : l.tier \in Nat /\ l.pct \in Nat

\* The place of a page in PAGE_HINTS, if it has one (lib/enrich.ts:487-503).
ASSUME EnrichAssumption == IsFiniteSet(Paths) /\ MAX_EXTRA_PAGES \in Nat /\ \A p \in Paths : HintRank[p] \in Nat

\* Rows and their tiers are compared.
ASSUME SampleAssumption ==
  /\ IsFiniteSet(Rows) /\ Rows \subseteq Nat /\ SAMPLE_LEADS \in Nat
  /\ \A k \in Kinds : k.tier \in Nat /\ k.sound \in BOOLEAN

VARIABLES
  scene,  \* the part a behaviour is about
  playbook, learnt,
  found, ask, subscribed, remaining, given,
  deadline, attempt, retry, limit, secure, audit,
  sign, queue, opened, out, asked,
  truth, call, phoneCache, mailCache, mxCache, dialled, bad, made,
  listing, contacts, filings,
  world, audit_cache, kept,
  today, business_triggers, lead_unlocks, saved_searches, watchlist_seen, page,
  lead, shown, pages, site, now, phase, stage   \* of several parts

Grading == INSTANCE Grades
List == INSTANCE Shortlist
Crawl == INSTANCE Audit
Pages == INSTANCE Enrich
Checks == INSTANCE Contact
Names == INSTANCE Owner
Visit == INSTANCE Sample
Moves == INSTANCE Changes

GradesAside ==
  /\ playbook = 0 /\ learnt = 0
ShortlistAside ==
  /\ found = 0 /\ ask = 0 /\ subscribed = 0 /\ remaining = 0 /\ given = 0
AuditAside ==
  /\ deadline = 0 /\ attempt = 0 /\ retry = 0 /\ limit = 0 /\ secure = 0 /\ audit = 0
EnrichAside ==
  /\ sign = 0 /\ queue = 0 /\ opened = 0 /\ out = 0 /\ asked = 0
ContactAside ==
  /\ truth = 0 /\ call = 0 /\ phoneCache = 0 /\ mailCache = 0 /\ mxCache = 0 /\ dialled = 0
  /\ bad = 0 /\ made = 0
OwnerAside ==
  /\ listing = 0 /\ contacts = 0 /\ filings = 0
SampleAside ==
  /\ world = 0 /\ audit_cache = 0 /\ kept = 0
ChangesAside ==
  /\ today = 0 /\ business_triggers = 0 /\ lead_unlocks = 0 /\ saved_searches = 0
  /\ watchlist_seen = 0 /\ page = 0

\* One part runs, from its own initial states; the others stand still.
SceneInit ==
  \/ /\ scene = "grades" /\ Grading!Init
     /\ ShortlistAside /\ AuditAside /\ EnrichAside /\ ContactAside /\ OwnerAside
     /\ SampleAside /\ ChangesAside /\ shown = 0 /\ pages = 0 /\ site = 0 /\ now = 0
     /\ phase = 0 /\ stage = 0
  \/ /\ scene = "shortlist" /\ List!Init
     /\ GradesAside /\ AuditAside /\ EnrichAside /\ ContactAside /\ OwnerAside /\ SampleAside
     /\ ChangesAside /\ lead = 0 /\ site = 0 /\ now = 0 /\ phase = 0 /\ stage = 0
  \/ /\ scene = "audit" /\ Crawl!Init
     /\ GradesAside /\ ShortlistAside /\ EnrichAside /\ ContactAside /\ OwnerAside
     /\ SampleAside /\ ChangesAside /\ lead = 0 /\ shown = 0 /\ pages = 0 /\ stage = 0
  \/ /\ scene = "enrich" /\ Pages!Init
     /\ GradesAside /\ ShortlistAside /\ AuditAside /\ ContactAside /\ OwnerAside
     /\ SampleAside /\ ChangesAside /\ lead = 0 /\ shown = 0 /\ now = 0 /\ stage = 0
  \/ /\ scene = "contact" /\ Checks!Init
     /\ GradesAside /\ ShortlistAside /\ AuditAside /\ EnrichAside /\ OwnerAside
     /\ SampleAside /\ ChangesAside /\ shown = 0 /\ pages = 0 /\ site = 0 /\ now = 0
     /\ phase = 0 /\ stage = 0
  \/ /\ scene = "owner" /\ Names!Init
     /\ GradesAside /\ ShortlistAside /\ AuditAside /\ EnrichAside /\ ContactAside
     /\ SampleAside /\ ChangesAside /\ shown = 0 /\ pages = 0 /\ now = 0 /\ phase = 0
  \/ /\ scene = "sample" /\ Visit!Init
     /\ GradesAside /\ ShortlistAside /\ AuditAside /\ EnrichAside /\ ContactAside
     /\ OwnerAside /\ ChangesAside /\ pages = 0 /\ site = 0 /\ phase = 0
  \/ /\ scene = "changes" /\ Moves!Init
     /\ GradesAside /\ ShortlistAside /\ AuditAside /\ EnrichAside /\ ContactAside
     /\ OwnerAside /\ SampleAside /\ lead = 0 /\ shown = 0 /\ pages = 0 /\ site = 0 /\ now = 0
     /\ phase = 0 /\ stage = 0

GradesOnly ==
  <<playbook, learnt>>
ShortlistOnly ==
  <<found, ask, subscribed, remaining, given>>
AuditOnly ==
  <<deadline, attempt, retry, limit, secure, audit>>
EnrichOnly ==
  <<sign, queue, opened, out, asked>>
ContactOnly ==
  <<truth, call, phoneCache, mailCache, mxCache, dialled, bad, made>>
OwnerOnly ==
  <<listing, contacts, filings>>
SampleOnly ==
  <<world, audit_cache, kept>>
ChangesOnly ==
  <<today, business_triggers, lead_unlocks, saved_searches, watchlist_seen, page>>

SceneNext ==
  \/ /\ scene = "grades" /\ Grading!Next
     /\ UNCHANGED <<scene, ShortlistOnly, AuditOnly, EnrichOnly, ContactOnly, OwnerOnly,
          SampleOnly, ChangesOnly, shown, pages, site, now, phase, stage>>
  \/ /\ scene = "shortlist" /\ List!Next
     /\ UNCHANGED <<scene, GradesOnly, AuditOnly, EnrichOnly, ContactOnly, OwnerOnly,
          SampleOnly, ChangesOnly, lead, site, now, phase, stage>>
  \/ /\ scene = "audit" /\ Crawl!Next
     /\ UNCHANGED <<scene, GradesOnly, ShortlistOnly, EnrichOnly, ContactOnly, OwnerOnly,
          SampleOnly, ChangesOnly, lead, shown, pages, stage>>
  \/ /\ scene = "enrich" /\ Pages!Next
     /\ UNCHANGED <<scene, GradesOnly, ShortlistOnly, AuditOnly, ContactOnly, OwnerOnly,
          SampleOnly, ChangesOnly, lead, shown, now, stage>>
  \/ /\ scene = "contact" /\ Checks!Next
     /\ UNCHANGED <<scene, GradesOnly, ShortlistOnly, AuditOnly, EnrichOnly, OwnerOnly,
          SampleOnly, ChangesOnly, shown, pages, site, now, phase, stage>>
  \/ /\ scene = "owner" /\ Names!Next
     /\ UNCHANGED <<scene, GradesOnly, ShortlistOnly, AuditOnly, EnrichOnly, ContactOnly,
          SampleOnly, ChangesOnly, shown, pages, now, phase>>
  \/ /\ scene = "sample" /\ Visit!Next
     /\ UNCHANGED <<scene, GradesOnly, ShortlistOnly, AuditOnly, EnrichOnly, ContactOnly,
          OwnerOnly, ChangesOnly, pages, site, phase>>
  \/ /\ scene = "changes" /\ Moves!Next
     /\ UNCHANGED <<scene, GradesOnly, ShortlistOnly, AuditOnly, EnrichOnly, ContactOnly,
          OwnerOnly, SampleOnly, lead, shown, pages, site, now, phase, stage>>

sceneVars ==
  <<scene, GradesOnly, ShortlistOnly, AuditOnly, EnrichOnly, ContactOnly, OwnerOnly,
    SampleOnly, ChangesOnly, lead, shown, pages, site, now, phase, stage>>
SceneSpec == SceneInit /\ [][SceneNext]_sceneVars

----------------------------------------------------------------------------

\* A grade never counts what could not be attained, being known longer never lowers it, and the top
\* can be reached (lib/score.ts).
GradeHonest == scene = "grades" => Grading!ChangeRaises /\ Grading!CeilingHolds /\ Grading!TopIsReachable

\* The pages of a search together are the search, whatever is unknown, and a trial sees the first
\* (lib/icp-match.ts, api/leads/route.ts).
PagesCoverAll == scene = "shortlist" => List!PagesCoverAll /\ List!UnknownStays /\ List!TrialSeesOnePage

\* No site that answers is called down, and a crawl overruns by one attempt at most (lib/audit.ts).
UpIsNotDown == scene = "audit" => Crawl!UpIsNotDown /\ Crawl!OverrunBounded

\* The crawl opens the pages most likely to name somebody, and buys no guess in vain (lib/enrich.ts).
BestPagesFirst == scene = "enrich" => Pages!BestPagesFirst /\ Pages!NeverGuessedInVain

\* What is sold can be reached, and what is said of a mailbox is what the vendor said (lib/verify).
SoldMeansReachable == scene = "contact" => Checks!SoldMeansReachable /\ Checks!MailboxToldTruly

\* The name given is of somebody who runs the business (lib/owner-lookup.ts, lib/registry).
RightPerson == scene = "owner" => Names!RightPerson

\* What was looked at is what a visitor sees first (lib/sample.ts).
WorkIsShown == scene = "sample" => Visit!WorkIsShown

\* Nothing that moved is left out of the page, nor told to who did not pay for it (lib/changes.ts).
NothingSkipped == scene = "changes" => Moves!NothingSkipped /\ Moves!WordsArePaidFor

----------------------------------------------------------------------------
\* What a comment or a page says and the code does otherwise: added to rules.cfg as an invariant,
\* each has a short counterexample (README).

\* A lead with no proven need is warm at best (lib/score.ts:670-671).
UnqualifiedIsWarm == scene = "grades" => Grading!UnqualifiedIsWarm
\* A lead that meets more of what was asked ranks higher (lib/icp-match.ts:499-501).
MoreMetRanksHigher == scene = "shortlist" => List!MoreMetRanksHigher
\* A crawl does not run past its deadline (lib/audit.ts:293-296).
DeadlineHeld == scene = "audit" => Crawl!DeadlineHeld
\* Nothing is claimed of a page that never arrived (lib/audit.ts:366).
NothingFromABlank == scene = "audit" => Crawl!NothingFromABlank
\* A name in a footer is the last resort (lib/enrich.ts:556-557).
FooterIsLast == scene = "enrich" => Pages!FooterIsLast
\* A line confirmed with the carrier was confirmed by the carrier (lib/evidence.ts:87-90).
CarrierSaidSo == scene = "contact" => Checks!CarrierSaidSo
\* A number repeated in a batch costs one lookup (lib/verify/phone.ts:34).
OneLookupPerNumber == scene = "contact" => Checks!OneLookupPerNumber
\* A filing of another city is of another business (lib/registry/index.ts:17-20).
CityAgrees == scene = "owner" => Names!CityAgrees
\* The owner's mailbox was confirmed (lib/evidence.ts:216).
OwnerMailConfirmed == scene = "owner" => Names!OwnerMailConfirmed
\* The rows shown were checked (LiveSample.tsx:178-179).
SaidChecked == scene = "sample" => Visit!SaidChecked
\* What is said to be checked today was (lib/search-cache.ts:126-131).
CheckedWhenSaid == scene = "sample" => Visit!CheckedWhenSaid
\* What is urgent comes first (lib/changes.ts:248-249).
UrgencyFirst == scene = "changes" => Moves!UrgencyFirst
============================================================================
