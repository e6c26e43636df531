------------------------------- MODULE Office -------------------------------
(***************************************************************************)
(* The parts around a customer that share no table with one another, each  *)
(* in behaviours of its own: `scene` names the part a behaviour is about,  *)
(* the others stand still. A part finds its constants and variables here   *)
(* under their own names; MCOffice gives the constants values.             *)
(***************************************************************************)
EXTENDS Integers, Sequences, FiniteSets, TLC

CONSTANTS
  Customers, Businesses, Jobs, SEND_WEEKDAY, LOOKBACK_DAYS, MaxDay, MaxJobs, MaxUpsets,   \* Digest
  Tickets, Handlers, MAX_OPEN_TICKETS, MaxMessages, MaxSignUps, MaxFaults,                \* Desk
  Consoles, Visits, MAX_FAILS, WINDOW, LOCK,                                              \* Accounts
  MaxTime, MaxAttempts, MaxDisruptions, MaxActions,
  Leads, Domain(_), NoSite, Pushes, MaxTokens, MaxRecords, MaxMishaps,                      \* Crm
  Rows, Key(_), Deeds, LIST_ROWS, Money, MaxDeeds, MaxTroubles,                           \* Paid
  Queries, Found(_), PageSize, Allowance, Slots, MAX_POLLS, MaxCalls                      \* Dashboard

\* The window is a week, and the letter's day one of its days (lib/digest.ts:23-24).
ASSUME DigestAssumption == LOOKBACK_DAYS \in Nat \ {0} /\ SEND_WEEKDAY \in 0..(LOOKBACK_DAYS - 1)
\* A lock outlasts the window in which failures are counted, and takes more than one (lib/admin/rate-limit.ts).
ASSUME AccountsAssumption == MAX_FAILS \in Nat \ {0, 1} /\ WINDOW \in Nat /\ LOCK \in Nat /\ LOCK > WINDOW
\* A list and a purse are finite.
ASSUME PaidAssumption == IsFiniteSet(Rows) /\ LIST_ROWS \in Nat /\ Money \in Nat
\* There are finitely many leads, found among them; the absence of a query is not one.
ASSUME ScreenAssumption ==
  /\ IsFiniteSet(Leads) /\ \A q \in Queries : Found(q) \subseteq Leads
  /\ "none" \notin Queries /\ PageSize \in Nat /\ Allowance \in Nat

VARIABLES
  scene,  \* the part a behaviour is about
  day, business_triggers, lead_unlocks, watchlist_seen, profiles, quality_samples, ran, job,
  letters, untold, disturbed, started, upsets,
  tickets, subscriber, contact_messages, mail, work, entangled, clicked, raced, part, sent,
  faults,
  realm, account, subscription, filled, admin_audit_log, tried, console, visit, screen,
  entwined, lateSale, wronglyServed, clock, buckets, tries, overlapped, disruptions, actions,
  provider, connection, remote, stale, records, unindexed, push, endpoint, told, deliveries,
  miscounted, refused, blurred, mishaps,
  leads, listPaid, deed, given, checks, crossed, proven, begun,
  form, watch, result, open, dead, paidIds, credits, loading, loadingMore, unlocking,
  exporting, call, last, skipped, reported, back, applied, mixed, calls,
  bought, revealed, wallet, troubles   \* of several parts

Letters == INSTANCE Digest
Support == INSTANCE Desk
People == INSTANCE Accounts
Sync == INSTANCE Crm
Sales == INSTANCE Paid
Screen == INSTANCE Dashboard WITH Money <- Allowance

DigestAside ==
  /\ day = 0 /\ business_triggers = 0 /\ lead_unlocks = 0 /\ watchlist_seen = 0
  /\ profiles = 0 /\ quality_samples = 0 /\ ran = 0 /\ job = 0 /\ letters = 0 /\ untold = 0
  /\ disturbed = 0 /\ started = 0 /\ upsets = 0
DeskAside ==
  /\ tickets = 0 /\ subscriber = 0 /\ contact_messages = 0 /\ mail = 0 /\ work = 0
  /\ entangled = 0 /\ clicked = 0 /\ raced = 0 /\ part = 0 /\ sent = 0 /\ faults = 0
AccountsAside ==
  /\ realm = 0 /\ account = 0 /\ subscription = 0 /\ filled = 0 /\ admin_audit_log = 0
  /\ tried = 0 /\ console = 0 /\ visit = 0 /\ screen = 0 /\ entwined = 0 /\ lateSale = 0
  /\ wronglyServed = 0 /\ clock = 0 /\ buckets = 0 /\ tries = 0 /\ overlapped = 0
  /\ disruptions = 0 /\ actions = 0
CrmAside ==
  /\ provider = 0 /\ connection = 0 /\ remote = 0 /\ stale = 0 /\ records = 0
  /\ unindexed = 0 /\ push = 0 /\ endpoint = 0 /\ told = 0 /\ deliveries = 0
  /\ miscounted = 0 /\ refused = 0 /\ blurred = 0 /\ mishaps = 0
PaidAside ==
  /\ leads = 0 /\ listPaid = 0 /\ deed = 0 /\ given = 0 /\ checks = 0 /\ crossed = 0
  /\ proven = 0 /\ begun = 0
DashboardAside ==
  /\ form = 0 /\ watch = 0 /\ result = 0 /\ open = 0 /\ dead = 0 /\ paidIds = 0
  /\ credits = 0 /\ loading = 0 /\ loadingMore = 0 /\ unlocking = 0 /\ exporting = 0
  /\ call = 0 /\ last = 0 /\ skipped = 0 /\ reported = 0 /\ back = 0 /\ applied = 0
  /\ mixed = 0 /\ calls = 0

\* One part runs, from its own initial states; the others stand still.
SceneInit ==
  \/ /\ scene = "letters" /\ Letters!Init
     /\ DeskAside /\ AccountsAside /\ CrmAside /\ PaidAside /\ DashboardAside /\ bought = 0
     /\ revealed = 0 /\ wallet = 0 /\ troubles = 0
  \/ /\ scene = "desk" /\ Support!Init
     /\ DigestAside /\ AccountsAside /\ CrmAside /\ PaidAside /\ DashboardAside /\ bought = 0
     /\ revealed = 0 /\ wallet = 0 /\ troubles = 0
  \/ /\ scene = "accounts" /\ People!Init
     /\ DigestAside /\ DeskAside /\ CrmAside /\ PaidAside /\ DashboardAside /\ bought = 0
     /\ revealed = 0 /\ wallet = 0 /\ troubles = 0
  \/ /\ scene = "crm" /\ Sync!Init
     /\ DigestAside /\ DeskAside /\ AccountsAside /\ PaidAside /\ DashboardAside /\ bought = 0
     /\ revealed = 0 /\ wallet = 0 /\ troubles = 0
  \/ /\ scene = "paid" /\ Sales!Init
     /\ DigestAside /\ DeskAside /\ AccountsAside /\ CrmAside /\ DashboardAside
  \/ /\ scene = "screen" /\ Screen!Init
     /\ DigestAside /\ DeskAside /\ AccountsAside /\ CrmAside /\ PaidAside

DigestOnly ==
  <<day, business_triggers, lead_unlocks, watchlist_seen, profiles, quality_samples, ran,
    job, letters, untold, disturbed, started, upsets>>
DeskOnly ==
  <<tickets, subscriber, contact_messages, mail, work, entangled, clicked, raced, part,
    sent, faults>>
AccountsOnly ==
  <<realm, account, subscription, filled, admin_audit_log, tried, console, visit, screen,
    entwined, lateSale, wronglyServed, clock, buckets, tries, overlapped, disruptions,
    actions>>
CrmOnly ==
  <<provider, connection, remote, stale, records, unindexed, push, endpoint, told,
    deliveries, miscounted, refused, blurred, mishaps>>
PaidOnly ==
  <<leads, listPaid, deed, given, checks, crossed, proven, begun>>
DashboardOnly ==
  <<form, watch, result, open, dead, paidIds, credits, loading, loadingMore, unlocking,
    exporting, call, last, skipped, reported, back, applied, mixed, calls>>

SceneNext ==
  \/ /\ scene = "letters" /\ Letters!Next
     /\ UNCHANGED <<scene, DeskOnly, AccountsOnly, CrmOnly, PaidOnly, DashboardOnly,
          bought, revealed, wallet, troubles>>
  \/ /\ scene = "desk" /\ Support!Next
     /\ UNCHANGED <<scene, DigestOnly, AccountsOnly, CrmOnly, PaidOnly, DashboardOnly,
          bought, revealed, wallet, troubles>>
  \/ /\ scene = "accounts" /\ People!Next
     /\ UNCHANGED <<scene, DigestOnly, DeskOnly, CrmOnly, PaidOnly, DashboardOnly, bought,
          revealed, wallet, troubles>>
  \/ /\ scene = "crm" /\ Sync!Next
     /\ UNCHANGED <<scene, DigestOnly, DeskOnly, AccountsOnly, PaidOnly, DashboardOnly,
          bought, revealed, wallet, troubles>>
  \/ /\ scene = "paid" /\ Sales!Next
     /\ UNCHANGED <<scene, DigestOnly, DeskOnly, AccountsOnly, CrmOnly, DashboardOnly>>
  \/ /\ scene = "screen" /\ Screen!Next
     /\ UNCHANGED <<scene, DigestOnly, DeskOnly, AccountsOnly, CrmOnly, PaidOnly>>

sceneVars ==
  <<scene, DigestOnly, DeskOnly, AccountsOnly, CrmOnly, PaidOnly, DashboardOnly, bought,
    revealed, wallet, troubles>>
SceneSpec == SceneInit /\ [][SceneNext]_sceneVars

----------------------------------------------------------------------------

\* What a customer had open when it moved is in a letter: the next one begins where the last one
\* ended, nobody gets two on a day, and two jobs that overlap keep the first verdict on a business
\* (lib/digest.ts, lib/quality.ts).
LettersTell ==
  scene = "letters" => Letters!NothingMissed /\ Letters!LetterOnceADay /\ Letters!OneVerdictADay

\* Nobody who wrote is forgotten, no thread waits that nobody can answer, and whoever left the list
\* stays left, whatever requests cross (lib/support.ts, api/newsletter).
NobodyForgotten ==
  scene = "desk" => Support!NobodyForgotten /\ Support!NoEmptyTicket /\ Support!LeftStaysLeft

\* The two locks of a suspension agree, and nobody is served under one (lib/admin/users.ts, lib/access.ts).
SuspensionHolds == scene = "accounts" => People!LocksAgree /\ People!NotServedSuspended

\* Whoever is deleted is not billed, and the console's throttle bounds the failures of any window
\* (lib/admin/users.ts, lib/admin/rate-limit.ts).
NothingBilledAfter == scene = "accounts" => People!NothingBilledAfter /\ People!FailuresBounded

\* A website has one record in the CRM, and what is reported as pushed landed there (lib/crm/hubspot.ts,
\* lib/crm/webhook.ts).
OneRecordPerSite == scene = "crm" => Sync!OneRecordPerSite /\ Sync!CountedLanded

\* A connection does not wear out: its tokens and its secret go on working (lib/crm/store.ts).
ConnectionLasts == scene = "crm" => Sync!StoredTokenWorks /\ Sync!SecretKept

\* What was bought had been found reachable by a paid check, made once, and every credit that left
\* bought something (api/leads/unlock, api/leads/export, api/enrich).
ChargedReachable == scene = "paid" => Sales!ChargedReachable /\ Sales!VerifiedOnce /\ Sales!CreditsBuy

\* No lead is on the screen twice, nor one of another search (app/dashboard/page.tsx).
NoLeadTwice == scene = "screen" => Screen!NoLeadTwice /\ Screen!ShownAsAsked

\* What the screen says is owned is, and a purchase it confirms was applied (app/dashboard).
ScreenTruthful == scene = "screen" => Screen!ViewMeansOwned /\ Screen!ConfirmedMeansApplied

----------------------------------------------------------------------------
\* What a comment, a page or a migration says and the code does otherwise: added to office.cfg as
\* an invariant, each has a short counterexample (README).

\* However often the job is called in a day, a customer gets one letter (lib/digest.ts:178).
ForcedOnceADay == scene = "letters" => Letters!ForcedOnceADay
\* Who watches a place is told what moved there (lib/digest.ts:99-101).
WatchedTold == scene = "letters" => Letters!WatchedTold
\* What an operator does is in the log (supabase/017:40).
EveryActionLogged == scene = "accounts" => People!EveryActionLogged
\* An account's page lists what the account opened (lib/admin/users.ts:371-373).
FeedShowsUnlocks == scene = "accounts" => People!FeedShowsUnlocks
\* A push to Salesforce updates what is there (CrmPanel.tsx:189-190).
SalesforceUpdates == scene = "crm" => Sync!SalesforceUpdates
\* The owner is sold apart from the lead (api/leads/unlock/route.ts:213-214).
OwnersAreSoldApart == scene = "paid" => Sales!OwnersAreSoldApart
\* The registry is asked where the site names nobody (api/leads/unlock/route.ts:148-158).
RegistryIsAsked == scene = "paid" => Sales!RegistryIsAsked
\* Work that cannot be charged is handed back all the same (api/enrich/route.ts:92-95).
WorkIsHandedBack == scene = "paid" => Sales!WorkIsHandedBack
\* The search asked for last is the one shown (app/dashboard/page.tsx:283-285).
LastSearchShown == scene = "screen" => Screen!LastSearchShown
============================================================================
