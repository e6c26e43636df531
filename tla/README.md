# Fresh-Leads in TLA+

A verification development of the Fresh-Leads application (Next.js route handlers that call a
PostgreSQL database through PostgREST, and Stripe, mail, telephone and CRM services beside it).
It models what moves money and decides whose money it is, what mails strangers in a customer's
name, who is let in, what a search remembers, and what a lead is said to be. TLC checks the
models on small instances; TLAPS proves the central results for all of them.

    tlc -workers 2 -config credit_race.cfg MCCreditLedger.tla
    tlc -workers 2 -config office.cfg MCOffice.tla
    tlapm CreditProofs.tla

## 1. Inventory

A request of this application is a function that awaits one call after another; two requests
interleave at every await, nothing but a single SQL function is a transaction, and the platform
may end a request at any point. supabase-js does not throw: a call that fails answers with an
`error` that many places do not look at. That is where most of what is hard comes from.

| Component | State | Modules | Hard behaviour | Correct when |
|---|---|---|---|---|
| Credit ledger (`supabase/006, 010, 012, 031`) | `profiles.credits`, `credit_ledger`, `lead_unlocks`, `owner_unlocks`, `lead_reports` | CreditLedger, CreditBook | transactions under READ COMMITTED, double clicks, retries, redelivered webhooks | nothing is charged, granted or refunded twice; the balance is the sum of the ledger and never negative |
| Teams (`lib/org.ts`, `api/org`, `supabase/025, 027, 028`) | `organisations`, `org_members`, `org_invites` | Teams | lost reads, requests cut off between two writes | the owner is a member and holds the role; seats gate joining |
| Team wallet (`lib/credits.ts`, `supabase/027`) | none of its own | TeamWallet | resolved in one call, charged in the next | credits are conserved; what a team opened goes with it |
| Billing (`lib/grant.ts`, `lib/account.ts`, `api/webhooks`, `api/billing`) | `subscriptions`, purchases in the ledger | Billing, Pricing | events late, twice, never; two plans of one customer; an answer of Stripe that is older than what is stored | paid access is not cut short, what was bought lands once |
| Two-factor (`lib/mfa`, `api/mfa`, `middleware.ts`) | factors, challenges, recovery codes, cookies, epochs | Mfa | read-then-write from several devices, codes expired and mistyped, calls that fail | a pass is earned, the codes shown work, nobody is locked out |
| Search (`api/leads`, `lib/search-cache.ts`, `cache-refresh`, `snapshots`, `watchlists`, `rate-limit`) | caches, dated observations, `saved_searches` | Search | overlapping searches, slow sources, sites that come and go, the nightly job | nothing expired or misfiled is served; a change is filed once a day; a business is new once |
| Paid routes (`api/leads/unlock, owner, export`, `api/enrich`) | `leads.raw` | Paid | a row is read, checked for money, written back whole and then charged | what is sold was found reachable; a check is paid for once |
| Mail sequences (`lib/email`, `api/email`, `supabase/014`) | `email_*` tables | EmailSequence | overlapping runs, runs cut off after a claim, unknown outcomes | no second copy, steps in order, nobody on the list is mailed, a sequence ends |
| Letters (`lib/digest.ts`, `lib/quality.ts`) | `profiles.digest_sent_on`, `quality_samples` | Digest | a daily job started twice or cut off between mail and stamp | nothing that moved is left out, one letter a day |
| Desk (`lib/support.ts`, `api/contact`, `api/newsletter`) | tickets, messages, subscribers | Desk | replies that cross, count then insert | nobody who wrote is forgotten |
| Administration (`lib/admin`, `api/admin`) | `profiles`, `admin_audit_log`, throttle | Accounts | two locks in two calls, two consoles | suspended is not served, deleted is not billed |
| CRM (`lib/crm`) | tokens, endpoints | Crm | rotating tokens, lost answers, an index that lags | one record per website, what is counted landed |
| Screen (`app/dashboard`) | React state | Dashboard | answers in any order | no lead twice, what is said to be owned is |
| Quality of a lead (`lib/score.ts`, `icp-match`, `audit`, `enrich`, `verify`, `owner-lookup`, `registry`, `sample`, `changes`) | one lead | Grades, Shortlist, Audit, Enrich, Contact, Owner, Sample, Changes | what could not be checked, deadlines, ties, shared caches | up is not called down, sold means reachable, the person named runs the place |

`PROJECT.json` lists every component with its sources and status, and every hazard at the line
where it bites with the properties that cover it.

## 2. Modules

The core modules are specifications of their own; the smaller ones are instantiated by two
modules, `Office` and `Rules`, of which each behaviour is about one part (its `scene`); `MCOffice`
and `MCRules` extend them and only give values to the constants. The parts of a scene module share
no table, so a behaviour that interleaved two of them would show nothing that the two do not show
apart.

**CreditBook, CreditLedger.** The abstract book has five atomic movements of an account's
credits (`Grant`, `Spend`, `Open`, `Reveal`, `Refund`) and the all-or-nothing `Export`.
CreditLedger has the SQL functions. Every function is one transaction under READ COMMITTED: its
opening reads see what had committed when they ran; its `UPDATE profiles ... WHERE credits >= n`
then waits for the row lock, re-evaluates its condition on the latest committed row and keeps
the lock to the end. So a function is a `...Check` step (the reads) and a `...Take` step (from
the UPDATE to the commit). `report_lead` reads the report first and the unlock and the reveal
after, one step more. A unique violation is an insert that meets a committed row; the handler
that gives the credit back runs under the same lock, so the two cancel out inside one step.
`grant_credits` claims its reference on the unique index first and is one step; the correction
by hand is three calls and three actions. `Finish` covers an answer delivered or lost and a
request cut off. `moved` is history, read by no action.

**Teams.** `owner`, `member`, `role`, `invite` are the three tables. A request carries what it
has read and its next call. `TransferCheck`/`TransferMove` and `CloseCheck`/`CloseMove` split
the SQL functions where their checks are not repeated after the locks are taken. `Lost` names
the reads a call may lose; `Crashes` lets a request be cut off between two calls.

**TeamWallet** extends CreditLedger and instantiates Teams on shared variables:
`ResolveWallet` is `billingUser`, one await before the call it pays for; `TransferWallet` is
`transfer_org_ownership` with its money.

**Pricing** has the rules about money as functions: bonus of a basket, seats, price per lead,
`decideAccess`, `toolsGate`.

**Billing** has Stripe's side (checkout sessions, subscriptions, renewals that fail, and the
events about them, delivered late, twice, in any order or never) and ours: a request is the list
of steps of its handler, each one awaited call (`Retrieve`, `WriteSubscription`, `WriteSeats`,
`GrantPurchase`, `GrantBasketBonus`, `ReadMonth`, `GrantVolumeBonus`, ...). `row` is the one
`subscriptions` row of a customer, `ledger` the purchase rows with their month.

**Mfa.** Per browser: the session, the pass (the cookie of the second step), what its page holds
and the request in flight; per identity: the epoch; and the rows of factors, challenges and
recovery codes. A request is a list of steps, between which other browsers act. A browser may be
signed in as customer and as operator at once. The cryptography is whether an answer is right.

**Search.** One request: count against the rate limit, discover (index, then cache, then the
live sources, which may time out), crawl what is not cached, compare with the observation of an
earlier day, file the change, mark what a watchlist has seen, write the caches, answer. Sample
requests and the daily refresh (searches, audits, observation, purge) run beside it. Time moves
between requests: a tick is hours, a request less than a minute.

**EmailSequence.** One sequence of one sender: `status`, `lastStep`, `nextRun` are the columns
of `email_enrollments`, `message` the rows of `email_messages`, `suppressed` the list, by
address. `run[r]` is one call of `runDueSteps`, one step per awaited call; `task` the requests,
unsubscribes and provider events beside it; `Lose` a failed call, `Cut` the time limit. A batch
has no limit of fifty here and the steps are not edited while it runs.

**Digest, Desk, Accounts, Crm, Paid, Dashboard** (in `Office`) and **Changes, Sample, Contact**
(in `Rules`) model handlers in the same way: the tables as variables, what a request has read
in a record, one action per awaited call. Ghost variables (`letters`, `untold`, `crossed`,
`entangled`, ...) record what the code does not keep and are read by no guard.

**Grades, Shortlist, Audit, Enrich, Owner** (in `Rules`) model computations over one lead or
one search: a lead is learnt about one check at a time in any order (Grades), pages are asked
for one by one (Shortlist), a crawl moves by requests that take their time (Audit, Enrich), a
chain of sources names an owner (Owner).

**MC modules** name the values the `.cfg` files give to constants. `MCTeams` adds a `mix`,
chosen at the start: everything but handovers, or handovers without removals and role changes.

## 3. Runs

| Run | Question | Result |
|---|---|---|
| credit_race | two requests at a time, everything but exports and corrections | paid once, refunded within the charge, answers true; CreditLedger implements CreditBook |
| credit_export | exports and corrections by hand racing other requests | the inductive invariant holds |
| teams | two requests of the team route, cut off anywhere | the team is whole, has one owner, and joins overshoot the seats by one request at most |
| wallet_handover | charges racing a handover | credits conserved, the handover whole |
| granted_twice | a purchase redelivered after its buyer joined a team | violation: it is granted again |
| email_sequence | two overlapping runs against requests, events and unsubscribes, one provider failure, one cut or lost call | one copy of each step, in order; nobody on the list is mailed; the sequence ends |
| billing_access | two plans, a failed renewal, events and reconciliations two at a time, the account closed | access is cut short only by an answer that a charge failed |
| billing_grants | a plan with credits and a basket over a month boundary, a failing call or a lost event | bonuses are earned; what was paid for lands |
| mfa | one customer, two devices, an app, a mailed code and a passkey | passes are earned, codes shown work, whoever keeps answering gets in |
| search | searches, samples and a watchlist over several days, a lost call | caches honest, one story a day, new once |
| office | letters, desk, accounts, CRM, paid routes, screen, one to a behaviour | nine invariants, section 1 |
| rules | grades, shortlist, audit, enrichment, contact, owner, sample, changes | eight invariants, section 1 |

**Bounds.** In the credit runs one account (no function touches a row of another), two
businesses and two concurrent requests: every race in these functions is between two
transactions on one row, and a third request repeats one of the two. Three credits pay for both
businesses and run out. In the team run an owner, a second party to a handover and one more to
join; identifiers are used once, as uuids are. In `email_sequence` one enrollment, two steps and
two runs: the races are between two holders of one batch entry, and the second step shows what a
run does that was read before the first; one failure of the provider and one lost call, since a
second failure needs the retry of the first, which is the initial situation again. In the billing
runs one customer with two plans (an older one whose events come late) or a plan and a basket,
two requests in flight and one month boundary: the volume bonus is per calendar month, and one
boundary is what separates a purchase from its grant. `Settings` in Mfa and Search choose what a
behaviour looks at (which factors, which devices, how many requests, whether the daily job
runs), so that each interesting case has its own budget; `MAX_ATTEMPTS` is two in place of five,
which is the first value at which a wrong answer and a right one can follow each other, and
`MaxEpoch` lets everybody be signed out twice, so that a pass can outlive one sign-out and meet
another. The clocks of Search, Digest and Changes stop after
three days: every lifetime in the code compares two days, and a third shows what is kept too
long. Every `Max...` constant is a bound and says what it bounds. Symmetry is declared only in
runs that check invariants alone. The proofs have none of these bounds.

**Deadlock.** `CHECK_DEADLOCK FALSE` is given where a behaviour may come to rest: a sequence that
ended, a clock that reached its bound, a customer who left. The credit and wallet runs check it.

**Fairness.** Safety needs none. `SequenceEnds` is checked under `FairSpec`: a run that can start
does so some time (`vercel.json` schedules one a day), a run that is not cut off goes on, and
time passes; the property excepts cuts and lost updates, whose claim stays behind, as the comment
in `send.ts` accepts. `PurchaseLands` assumes that a request in flight goes on to its end or its
throw (weak, per request) and that Stripe sends an event again until it is answered (strong, per
event: a delivery is possible again and again, not always); an event that is lost for good is
excepted. `LetBackIn` assumes that a request goes on (weak) and that one patient person keeps
trying (strong, for asking and for answering; the other device does as it likes).

**What a property may hide.** The `mix` of the team run separates removals from handovers, since
a removal that races a handover removes the new owner (section 5). `TeamWallet`'s handovers come
one at a time for the same reason. `VerifiedOnce` and `NewOnce` except rows that two requests had
in hand at once (`crossed`, `disturbed`): the code reads, then writes, and there the second
verification or the second announcement is what it does.

## 4. Proofs

Eight modules hold theorems: `CreditProofs` (ledger and team wallet), `TeamsProofs`,
`BillingProofs`, `MfaProofs`, `SearchProofs`, `EmailSequenceProofs`, `OfficeProofs` and
`RulesProofs`. They hold for every value of the constants under the named assumptions of the modules
they are about, and, where a theorem has one, its hypothesis. Every invariant and every action
property that a passing run checks is a theorem, and so are the types of the core modules.

`CreditAssumption`, `TeamAssumption`, `WalletAssumption`, `BillingAssumption`, `MfaAssumption`,
`SearchAssumption`, `EmailAssumption` and, of Office and Rules, `DigestAssumption`,
`PaidAssumption`, `ScreenAssumption`, `AuditAssumption`, `ChangesAssumption`,
`ShortlistAssumption`, `EnrichAssumption` and `SampleAssumption` say what the constants are: sets
that are finite, numbers that are numbers, values that are not mistaken for one another. Two say
more. `AccountsAssumption` has the order of the throttle's settings (two failures at least before
the lock, and a lock that outlasts the window), as `lib/admin/rate-limit.ts` sets them.
`OwnerAssumption` says what a title means: of the people a vendor lists, a person with a title of
the owner pattern and a confidence of 70 or more runs the business (`lib/owner-lookup.ts:42-52, 89`).
No code can establish that; what is proved is that nobody is named on less.

**Credits.** `TypeCorrect`; then `CreditInvariant`: `CreditInv` is inductive, and it is what the
other theorems rest on. Beside the properties it has `TablesMatch` (the keys of the tables, the
reference keys and the history of what moved agree), `RefsMatch` (an unclaimed reference has
moved nothing) and `RequestsSound` (a refund that was found due is for an unlock that still
exists). None of the properties is inductive alone: a refund is within its charge only because
the report row and the unlock row are tied to what moved, and the answer of a request is true
only because what its opening reads saw cannot be taken back before its `UPDATE`. From it follow
`BalanceNeverNegative`, `ReferencesMoveOnce`, `RefundsBounded`, `AnswersAreTrue`; without
corrections by hand (`Revokes = {}`) `LedgerReconciles`; without exports (`Batches = {}`)
`BusinessPaidOnce`; and under both `ImplementsBook`: every step of the SQL functions is a step of
`CreditBook` or a stutter. The step is proved through `StepEffect`, which sorts all actions by
their effect on the tables (`Unlocks`, `Reveals`, `Exports`, `Spends`, `Grants`, `Refunds`,
`Corrects`, `Books`, `Notes`), and one lemma per conjunct about those effects.

**Teams.** `TeamShape` (types, and how each request was begun) is inductive under everything and
gives `TeamTypes`; with it `MembersOfTeams` is inductive too (`NobodyOutside`), handovers and
removals together. `TeamInv` adds what the checks of the handlers leave true until their write:
`RemovalSafe` (a removal about to write is not of the owner), `HandoverSafe` (a handover about to
move finds its target inside), `HalfMadeEmpty` and `MadeOnce` (a team being made is its maker's
alone and empty), and the three `...Settled` (whatever a row or a request points at is a team with
its owner inside, or one that is gone). It is inductive for the two mixes of the run, with any reads
lost, and gives `OwnersStayInside`. Two more of the run's properties need reads to succeed, and fail
where they do not: `setRole` goes on to its update when the row of the team could not be read
(`org.ts:272-284`), so `TeamsAreWhole` has the hypothesis `OwnersReadable`; seats are counted by a
read whose failure counts as none (`HasRoom`), so `SeatsAreBounded` has `CountsReadable`. The second
bounds members and joins in flight together (`SeatsInv`): a join that has seen room is counted from
then on. `OneOwnerEver` needs neither. `OwnersHeldAlone` is for all requests mixed, when they
do not overlap (`OneAtATime`): `AloneInv` says of the one request in flight what it has established.

**Team wallet.** A step of TeamWallet is one of CreditLedger, one of Teams, or the handover that is
both; so the invariants are those of Teams (through `TP == INSTANCE TeamsProofs`) and the part of
the ledger's that survives a handover (`LedgerReady`; `CreditInv` does not, since unlocks change
hands while requests are in flight). `WalletsNonNegative` has no hypothesis. `CreditsAreConserved`
is about a sum over all accounts: `Balances` says that it equals the sum over the history of what
moved, a handover takes from one term what it adds to another, and `ToAnother` keeps the two apart.
Corrections by hand are left out there, which the history does not have. `HandoversAreWhole` (an
action property) holds with charges, refunds and purchases in flight and requests to the teams one
at a time (`TP!OneAtATime`).

**Billing.** `BillingInv` is about the list of steps a request still has to take: a subscription is
written from the answer read right before it and its seats next, a bonus comes right after its
purchase or the total it is judged by, and what a step names exists at Stripe. From it
`BonusesAreEarned`, where a total is a sum over a month's rows that only grows between the reading
and the grant (`BonusEarned`), and `AccessLastsItsTerm`, the action property `NeverCutShort`: the row
of a customer only gains time, or is shut by an answer that a charge failed. The rules of Pricing
are proved from their tables by cases: `BiggerBasketMore` (no number of credits at which buying
one more gives fewer), `NeverAboveHeadline` (a lead in a basket costs at most the price of a credit,
and no division is by zero), `SeatsSane`, `PlanCreditsSane`, and `GateLeavesAWay` (the answers of
`decideAccess` agree with one another, and who is stopped for credits may buy some and is let in
then).

**Two-factor.** `MfaShape` says which lists of steps a request can have left (`delete` is followed
by `insert`, `bump` comes right after `epoch`, `pass` is last) and what each holds; `MfaTypes` follows.
`AnsweredOnce` rests on `EarnedOnce`: whatever earned a pass is spent; a request in flight has spent
its challenge or code, or the step that spends it is still ahead of it; and one that began after its
challenge had earned a pass is at the step that will find that out. `CodesWork`: what was shown last is stored,
or a request of the same person is between `delete` and `insert`. `PassesAreEarned` adds
`RetiredForGood`; its invariant says that a pass which ended is behind the epoch, and not ahead of
what any request in flight has read of it (`EndedIsOver`), which is where the sign-out it began with
must have been alone.

**Search.** `CacheInv` (an entry is dated when it was fetched, a verdict when its site was crawled,
and what a request holds is as old as it says) gives `CachesAreHonest`. `StoryInv` says that every
change filed or about to be is told by the latest observation before its day; those lie in the past
and nobody writes them any more, so two stories of one day agree (`StoriesAgree`), however requests
and the nightly job overlap. `ListsInv` says of a watchlist nothing has disturbed that one run at
most is about to announce, and only what the list has not announced; `NewIsNewOnce` follows.

**Mail.** `Known` (types, the place of each run, and that a run has seen every address listed
before it began, unless a read was lost) is inductive and gives `EmailTypeCorrect` and
`NobodyListedIsMailed`, also when provider calls time out. With `~Timeouts` (the provider never
sends a mail whose call it does not answer) `MailInv` is inductive: `ClaimsApart` (no two runs
hold one claim), `ClaimHeld` (the claim is for the step after the one the enrollment is at),
`CopiesClaimed` (whatever has gone out is claimed), `BatchBehind` (what a batch has read is never
ahead). It gives `EachStepOnce` and `InOrder`, whatever overlaps, is cut off or fails to be
written. `Refusals`, inductive beside it, gives `RefusedIsStopped` (`RefusalEnds`, stated in
EmailSequence and proved only): while nothing is lost or cut off, a failed message is the one of
the step its enrollment is at, a run is about to stop that enrollment or to give the claim back,
and no run moves an enrollment past it. `KeepsCore` covers the steps that touch neither claims nor
mail, and one lemma each the start, the claim, the call, the advance and the withdrawal of a claim.

**The parts of Office and Rules.** Each has an invariant of its own, `X`, and the proofs follow one
pattern: `scene = "..." => X` is inductive, since the other scenes leave the part alone; one lemma
says that `Init` establishes `X`, one per operation that its steps keep it, and the theorem reads
the property off `X`.

*Office.* **Paid**, `SalesInv`: `SalesReach` follows a request's own copies of its rows, so that
before it charges every row left in its hands was found reachable by a paid check; `SalesOnce` says
that a row no two requests crossed on is in one request's hands, checked at most once, and marked as
checked as soon as it is; `CreditsBuy` ties the wallet to what was sold. **Accounts**, `PeopleInv`:
flag and ban agree, unless a console is between writing the two, and no other is then (`LocksInv`); a
visit that has read a lock has read one of an account that is suspended or gone (`VisitsInv`); an
account is deleted after its subscription was canceled, unless a sale came late (`BillsInv`). The
throttle needs more than the property (`TriesInv`, `Counting`): the failures counted are the last
ones tried, and before them the window expired or a lock ended. Since a lock outlasts the window, a
window meets the ends of two counts at most, which is where the bound of twice the limit less two
comes from. **Crm**, `SyncInv`: what a lookup told a push is what the CRM holds until that push
writes (`PushKnows`, `RecordInv`); the refresh token stored is the one the provider takes, or the
push about to store it has it (`TokenInv`); likewise the secret (`SecretInv`). **Digest**,
`LettersInv`: what a customer was not told of is of after the last digest day or in the hands of the
one job at work (`PendingInv`, `OneJob`), and who got the day's letter is stamped or about to be
(`LetterInv`); days are counted modulo the length of the week. **Desk**, `DeskInv`: a ticket nobody
works on is settled, and of one that a request holds it is said step by step what it looks like
(`TicketsInv`). **Dashboard**, `ScreenInv`: what the screen shows and what every answer on its way
brings is owned (`OwnedShown`), without repetition (`OnceShown`) and of the search asked last unless
two searches mixed (`AsAsked`), in whatever order answers come.

*Rules.* **Audit**, `CrawlInv`: no request begins past the deadline (`InTime`); a bare retry has
the time of the first request, and overruns it only where the site does not answer (`Retrying`);
what was given up did not answer in its time (`GivenUp`). From it `NeverCalledDown`: a site that
answers is not filed as down by a crawl that was given the time, and a crawl with a deadline ends
less than one attempt after it, for any latencies. **Contact**, `CheckInv`: the two caches, each
verification in flight and each lead say no more than the carrier or the mailbox said
(`CachesTrue`, `CallsTrue`, `LeadsTrue`), and a free check of a lead comes before any other
(`FreeFirst`); hence `SoldLeadsReachable`. **Owner**, `NameInv`: whoever a source has named so far
runs the business. **Changes**, `ChangeInv`: the chunks of a query bring together all that was asked
for (`ChunksAreAll`), so nothing filed before the page was opened is missing (`PageWhole`), and all
that it tells of was unlocked (`PagePaid`). **Sample**, `SampleInv`: whether it is shown or kept
for the day, an answer has a row nobody looked at only when no row with work to do is left out.
**Enrich**, `EnrichInv`: the pages opened are a beginning of the candidates in their order
(`InTheirOrder`), what answered was read (`PagesRead`), and an address is guessed only for an owner
who was named, where no page gave one (`GuessedFor`). **Shortlist**, `ListInv`: there is one order of
the leads (`OneOrder`), and what is shown of it is its beginning. **Grades** has no invariant but
its types; the work is in the arithmetic of the playbooks: a total over two disjoint sets of factors
is the sum of both (`TotalAdds`), no part of the score is above what it could be
(`NeedAttainable`, `ScoreAttainable`), a change adds as much to the score as to what could be had
(`ChangeAdds`), and a share only grows by that (`ShareGrows`). So a change never lowers a lead
(`ChangeLifts`), and a lead that scores all it could is hot (`TopIsHot`).

Four of these parts sort. A sort is reasoned about as a place for each element, which is the number
of those before it (`Earlier`, `Orders`, `PlacesGrow`, `PlacesAre`): the k-th is the one with
k - 1 before it, whatever algorithm produced it. `Changes.InOrder`, `Sample.ranked`, `Enrich.ByRank`
and `Shortlist.Ranked` are stated in the modules in terms of that.

**How sums and largest elements are handled.** The installed provers cannot instantiate an induction
theorem. Where a proof is about every finite set it takes the least counterexample instead: the set
of sizes (or numbers) at which the claim fails has a least element (`WFMin` with
`NatLessThanWellFounded`), and one step below it refutes it (`HasLargest`, `SumChanges`, `SumLess`,
`FoldIsSum`). Where a sum has a fixed number of terms, as a grade has, the module writes it out.
tlapm 1.4.5 reads the `@` of a second `EXCEPT` clause as the value of the original
function, TLC as the value after the first clause; `TransferWallet` has two such clauses, and
`ToAnother` shows that they are for two different people, where both readings agree.

**Model-checked only.** Liveness under fairness (`SequenceEnds`, `PurchaseLands`, `LetBackIn`),
which is out of the prover's reach; and what section 5 lists, which does not hold. `PaidOnce`,
`LedgerReconciles`, the refinement of CreditBook and a few others are proved under the hypotheses
named above, which are the settings of the runs that check them. No proof needs an induction over
data, and no module uses `RECURSIVE`.

## 5. Where the code and its words part

`granted_twice` is kept as a run: a purchase is keyed on the wallet of the moment it is
delivered (`lib/credits.ts:64`), so one redelivered after its buyer joined or left a team is
granted to a second account, where `grant.ts:97` says that it grants nothing.

The others are definitions in the modules, each with a short counterexample. Those of the first
table are named in `Office` and `Rules` and are seen by adding them to the `.cfg` as an
invariant:

| Property | Says | Does |
|---|---|---|
| ForcedOnceADay | a second job of the day writes to nobody (`api/cron/digest/route.ts:30-31`) | a forced job ignores the stamp (`digest.ts:178`) |
| WatchedTold | who watches a place is told what moved (`digest.ts:99-101`) | the watchlist is read under a column it does not have (`digest.ts:118`, `009:35`) |
| EveryActionLogged | what an operator does is in the log (`017:40`) | some branches log nothing |
| FeedShowsUnlocks | an account's page lists its unlocks (`admin/users.ts:371-373`) | they are ordered by a column of another name (`006:75`) |
| SalesforceUpdates | a push updates what is there (`CrmPanel.tsx:189-190`) | every push creates (`salesforce.ts:154`) |
| OwnersAreSoldApart | the owner is sold apart from the lead (`api/leads/unlock/route.ts:213-214`) | an export has the owner in it (`export/route.ts:149, 228`) |
| RegistryIsAsked | the registry is asked where the site names nobody (`unlock/route.ts:148-158`) | the paid check has marked the site as crawled before (`persist.ts:52-86`) |
| WorkIsHandedBack | work that cannot be charged is handed back (`api/enrich/route.ts:92-95`) | the answer is an error without it (`:96-103`) |
| LastSearchShown | a slow search cannot leave its answer on screen (`dashboard/page.tsx:283-285`) | a search asked for while one is loading does not cancel it (`:660`) |
| UnqualifiedIsWarm | no proven need, warm at best (`score.ts:670-671`) | the cap applies above another tier (`:672`) |
| MoreMetRanksHigher | three of four rank above one of one (`icp-match.ts:499-501`) | the bucket of one of one is higher (`:513-518`) |
| DeadlineHeld | a crawl does not run past its deadline (`audit.ts:293-296`) | the bare retry has the full wait of the first (`:288`) |
| NothingFromABlank | nothing is claimed of a page that never came (`audit.ts:366`) | its body is read as empty, and thin (`:372-405`) |
| FooterIsLast | a footer is the last resort (`enrich.ts:556-557`) | pages are tried one by one, each with its footer (`:550-563`) |
| CarrierSaidSo | confirmed with the carrier (`evidence.ts:87-96`) | also when the vendor did not answer (`contact.ts:64`) |
| OneLookupPerNumber | a number repeated in a batch costs one lookup (`verify/phone.ts:34`) | two side by side both miss the cache (`:96-112`) |
| CityAgrees | another city is another business (`registry/index.ts:17-20`) | one state's adapter does not compare it (`:148-176`) |
| OwnerMailConfirmed | the mailbox was confirmed (`evidence.ts:216`) | a vendor's address is filed as it came (`persist.ts:81`) |
| SaidChecked | the rows shown were checked (`LiveSample.tsx:178-179`) | rows the clock left out fill the list (`sample.ts:424-435`) |
| CheckedWhenSaid | checked today was today (`search-cache.ts:126-131`) | the label is kept with the sample for a day (`sample.ts:110-133`) |
| UrgencyFirst | urgent changes first (`changes.ts:248-249`) | the day is compared before (`:250`) |

Others need another instance, or fewer conditions, than the runs have:

| Property | With | What happens |
|---|---|---|
| `PaidOnce` | exports (`Batches` not empty) | an export pays again for a business unlocked since it computed its price (`006:279`; the words: `006:10-12`) |
| `OwnerHeld` | removals racing handovers | the new owner is removed (`org.ts:261`; `:238`) |
| `TeamsWhole` | `Lost` with "org" | a team that cannot be read does not stop a change of role, and its owner's is changed (`org.ts:272-284`; `:265`) |
| `SeatsKept` | `Lost` with "count" | members that cannot be counted are none, and joins go on past the seats (`org.ts:407-412`; `:209-211`) |
| `HandoverWhole` | two handovers racing | the second leaves the wallet behind (`027:47`; `027:8-13`) |
| `RefundedOnce` | a report before and after a handover | one unlock is refunded to both owners (`027:74`; `031:28-30`) |
| `SentOnce` | `Timeouts = TRUE` | a call that timed out after the mail went out is made again (`send.ts:236`; `014:15-16`) |
| `PaidThroughDate` | a renewal that fails | past due shuts an account inside its paid period (`grant.ts:206`; `webhooks/stripe/route.ts:67-68`) |
| `LetBackIn` | `Ids = {"admin"}` | the operator's epoch moved by another device: the sign-in page sends to the second step, which sends back (`middleware.ts:130`; `LoginForm.tsx:79-80`) |
| `RetiredForGood` | sign-outs that overlap | two of another device between the read and the write of one: the epoch goes back by one, and a pass that had ended is accepted (`mfa/epoch.ts:60-64`; "not a session that survives", `:56`) |
| `RetiredForGood` | every identity, the operator's too | the operator's pass is compared with the default epoch, so one of that epoch is accepted after a sign-out (`middleware.ts:130`) |
| `DownFailedTwice` | a setting with two searches of a site that went down | the recheck is read from the cache the first crawl filled (`api/leads/route.ts:630`; `:650-662`) |
| `CorrectionKept` | the same | the correction of a false alarm is overwritten when the audits are filed (`search-cache.ts:164-182`; `api/leads/route.ts:685-687`) |

## 6. Not modelled

Rendering, wording, logging and mail templates; the signature checks in front of the routes;
`acting_user_id`; the parsing of prompts and trades, the external sources' own behaviour, the
import of the business index; profile, branding and site settings (rows written whole by one
request); row level security, except for the unique indexes and constraints the models use;
editing the steps of a running mail sequence and its batch limit; several targets in one search,
and the narrow search that falls back to a broad one. Balances are unbounded integers: the column
is a 32-bit integer whose overflow raises, and no run or proof depends on it. Serialization
failures and deadlocks, where the database aborts a transaction, are covered by `Finish` before
the `...Take` step. Midnight does not fall inside a request of Search or Changes.

## 7. What could come next

Editing the steps of a sequence while it runs, and the batch of fifty; and the composition of
Billing with TeamWallet, where a purchase lands in the wallet of the moment.
