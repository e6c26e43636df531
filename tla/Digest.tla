------------------------------- MODULE Digest -------------------------------
(***************************************************************************)
(* The daily job: the weekly letter about what changed at the businesses a *)
(* customer has opened, and the sample of what was sold that is checked    *)
(* again. The job reads everything it needs in a few calls, then goes from *)
(* customer to customer: profile, letter, stamp. It may be started twice,  *)
(* and the platform may end it at any point.                               *)
(***************************************************************************)
EXTENDS Integers

CONSTANTS
  Customers, Businesses,
  Jobs,                       \* calls of the cron route that may overlap
  SEND_WEEKDAY, LOOKBACK_DAYS,  \* the day of the week, and the days in a week
  MaxDay,                     \* bound on the clock
  MaxJobs,                    \* bound on the jobs of a day
  MaxUpsets                   \* bound on calls that fail, jobs cut off or forced, and
                              \* changes of a preference or a suspension

VARIABLES
  day,
  business_triggers,   \* {[lead, on]}, those of the last week
  lead_unlocks, watchlist_seen,   \* what each customer has opened, and watches
  profiles,            \* [weekly, suspended, sent_on]
  quality_samples,     \* today's rows, {[lead, good]}
  ran,                 \* the last digest day a job was started on
  job,                 \* each running job and the step it is at
  letters, untold,     \* today's letters to each customer, and the changes at businesses
                       \* they had opened that no letter has named yet
  disturbed,           \* customers of a job that overlapped another, was cut off, was
                       \* forced, or lost a call
  started, upsets

tables == <<business_triggers, lead_unlocks, watchlist_seen>>
ghosts == <<letters, untold, disturbed>>
vars == <<day, ran, tables, profiles, quality_samples, job, ghosts, started, upsets>>

NoDay == -1
At(c, step) == job[c].at = step
Go(c, fields) ==
  job' = [job EXCEPT ![c] = [f \in DOMAIN fields \cup DOMAIN job[c] |-> IF f \in DOMAIN fields THEN fields[f] ELSE job[c][f]]]
Idle == [at |-> "idle"]
Running == { c \in Jobs : ~At(c, "idle") }
Upset == upsets < MaxUpsets /\ upsets' = upsets + 1
Quiet == UNCHANGED upsets

isDigestDay == day % LOOKBACK_DAYS = SEND_WEEKDAY

\* Mutant: the window is a day too short.
SinceTomorrow(on) == on > day - LOOKBACK_DAYS
\* Detected within the window, whose first day is the day of the last letter.
Since(on) == on >= day - LOOKBACK_DAYS

Init ==
  /\ day = 0 /\ ran = NoDay /\ business_triggers = {} /\ quality_samples = {}
  /\ lead_unlocks = [p \in Customers |-> {}] /\ watchlist_seen = [p \in Customers |-> {}]
  /\ profiles = [p \in Customers |-> [weekly |-> TRUE, suspended |-> FALSE, sent_on |-> NoDay]]
  /\ job = [c \in Jobs |-> Idle]
  /\ letters = [p \in Customers |-> 0] /\ untold = [p \in Customers |-> {}]
  /\ disturbed = {} /\ started = 0 /\ upsets = 0

----------------------------------------------------------------------------
(* What customers and searches do meanwhile. *)

Unlock(p, b) ==
  /\ b \notin lead_unlocks[p]
  /\ lead_unlocks' = [lead_unlocks EXCEPT ![p] = @ \cup {b}]
  /\ UNCHANGED <<day, ran, business_triggers, watchlist_seen, profiles, quality_samples, job, ghosts, started, upsets>>

Watch(p, b) ==
  /\ b \notin watchlist_seen[p]
  /\ watchlist_seen' = [watchlist_seen EXCEPT ![p] = @ \cup {b}]
  /\ UNCHANGED <<day, ran, business_triggers, lead_unlocks, profiles, quality_samples, job, ghosts, started, upsets>>

recordTriggers(b) ==
  LET change == [lead |-> b, on |-> day] IN
  /\ change \notin business_triggers
  /\ business_triggers' = business_triggers \cup {change}
  /\ untold' = [p \in Customers |-> IF b \in lead_unlocks[p] THEN untold[p] \cup {change} ELSE untold[p]]
  /\ UNCHANGED <<day, ran, lead_unlocks, watchlist_seen, profiles, quality_samples, job, letters, disturbed, started, upsets>>

\* A customer who is not to be written to misses what happens meanwhile.
savePreferences(p) ==
  /\ Upset
  /\ profiles' = [profiles EXCEPT ![p].weekly = ~@]
  /\ disturbed' = disturbed \cup {p}
  /\ UNCHANGED <<day, ran, tables, quality_samples, job, letters, untold, started>>

setSuspended(p) ==
  /\ Upset
  /\ profiles' = [profiles EXCEPT ![p].suspended = ~@]
  /\ disturbed' = disturbed \cup {p}
  /\ UNCHANGED <<day, ran, tables, quality_samples, job, letters, untold, started>>

----------------------------------------------------------------------------
(* The job. *)

\* The secret lets the scheduler in, and whoever starts the job by hand. The letter is
\* for one day of the week, unless it is forced.
BeginDigest(c, force) ==
  /\ At(c, "idle") /\ started < MaxJobs /\ started' = started + 1
  /\ LET changed == { t \in business_triggers : Since(t.on) } IN
     job' = [job EXCEPT ![c] = IF (force \/ isDigestDay) /\ changed # {}
                               THEN [at |-> "changes", force |-> force, today |-> day, changed |-> changed]
                               ELSE [at |-> "tidy"]]
  /\ disturbed' = IF force \/ Running # {} THEN Customers ELSE disturbed
  /\ ran' = IF isDigestDay THEN day ELSE ran
  /\ IF force THEN Upset ELSE Quiet
  /\ UNCHANGED <<day, tables, profiles, quality_samples, letters, untold>>

\* Whoever has opened a business that changed. The second lookup, of whoever watches
\* one, asks for a column the table does not have, is refused, and counts as empty.
watched(changed) == [p \in Customers |-> {}]
ReadOwners(c) ==
  /\ At(c, "changes")
  /\ LET leads == { t.lead : t \in job[c].changed }
         owned == [p \in Customers |-> lead_unlocks[p] \cap leads]
         todo == { p \in Customers : owned[p] \cup watched(leads)[p] # {} } IN
     Go(c, [at |-> IF todo = {} THEN "tidy" ELSE "users", todo |-> todo, owned |-> owned,
            interested |-> [p \in Customers |-> watchlist_seen[p] \cap leads]])
  /\ UNCHANGED <<day, ran, tables, profiles, quality_samples, ghosts, started, upsets>>

MayWrite(c, p) ==
  /\ profiles[p].weekly /\ ~profiles[p].suspended
  /\ ~job[c].force => profiles[p].sent_on # job[c].today

ReadProfile(c, p) ==
  /\ At(c, "users") /\ p \in job[c].todo
  /\ IF MayWrite(c, p) THEN Go(c, [at |-> "letter", who |-> p, todo |-> job[c].todo \ {p}])
     ELSE Go(c, [todo |-> job[c].todo \ {p}])
  /\ UNCHANGED <<day, ran, tables, profiles, quality_samples, ghosts, started, upsets>>

\* The letter names the changes at what the customer opened, and counts the rest.
sendDigest(c) ==
  /\ At(c, "letter")
  /\ LET p == job[c].who IN
     \/ /\ letters' = [letters EXCEPT ![p] = @ + 1]
        /\ untold' = [untold EXCEPT ![p] = @ \ { t \in job[c].changed : t.lead \in job[c].owned[p] }]
        /\ Go(c, [at |-> "stamp"])
        /\ Quiet /\ UNCHANGED disturbed
     \/ /\ Upset /\ disturbed' = disturbed \cup {p}
        /\ Go(c, [at |-> "users"])
        /\ UNCHANGED <<letters, untold>>
  /\ UNCHANGED <<day, ran, tables, profiles, quality_samples, started>>

\* Nothing looks at whether the stamp was written.
StampSent(c) ==
  /\ At(c, "stamp")
  /\ \/ /\ profiles' = [profiles EXCEPT ![job[c].who].sent_on = job[c].today]
        /\ Quiet /\ UNCHANGED disturbed
     \/ Upset /\ disturbed' = disturbed \cup {job[c].who} /\ UNCHANGED profiles
  /\ Go(c, [at |-> "users"])
  /\ UNCHANGED <<day, ran, tables, quality_samples, letters, untold, started>>

EveryoneDone(c) ==
  /\ At(c, "users") /\ job[c].todo = {}
  /\ Go(c, [at |-> "tidy"])
  /\ UNCHANGED <<day, ran, tables, profiles, quality_samples, ghosts, started, upsets>>

\* Housekeeping and the cache are refreshed between the two, whatever the letters did.
\* Then a sample is drawn from what was sold and has not been sampled today.
runQualitySample(c) ==
  /\ At(c, "tidy")
  /\ LET pool == UNION { lead_unlocks[p] : p \in Customers } IN
     job' = [job EXCEPT ![c] = [at |-> "sample",
               chosen |-> { b \in pool : \A s \in quality_samples : s.lead # b }]]
  /\ UNCHANGED <<day, ran, tables, profiles, quality_samples, ghosts, started, upsets>>

\* One row per business and day: a second one is refused, and the refusal ignored.
insertSample(b, good) ==
  IF \E s \in quality_samples : s.lead = b THEN quality_samples
  ELSE quality_samples \cup {[lead |-> b, good |-> good]}

\* A business whose check throws leaves no row.
Sample(c, b) ==
  /\ At(c, "sample") /\ b \in job[c].chosen
  /\ quality_samples' \in {quality_samples, insertSample(b, TRUE), insertSample(b, FALSE)}
  /\ Go(c, [chosen |-> job[c].chosen \ {b}])
  /\ UNCHANGED <<day, ran, tables, profiles, ghosts, started, upsets>>

\* The sample is done, or its budget is.
EndJob(c) ==
  /\ At(c, "sample")
  /\ job' = [job EXCEPT ![c] = Idle]
  /\ UNCHANGED <<day, ran, tables, profiles, quality_samples, ghosts, started, upsets>>

JobKilled(c) ==
  /\ ~At(c, "idle") /\ Upset
  /\ job' = [job EXCEPT ![c] = Idle]
  /\ disturbed' = Customers
  /\ UNCHANGED <<day, ran, tables, profiles, quality_samples, letters, untold, started>>

\* A job takes a minute, and the scheduler starts one every day.
Tick ==
  /\ day < MaxDay /\ Running = {}
  /\ isDigestDay => ran = day
  /\ day' = day + 1
  /\ business_triggers' = { t \in business_triggers : t.on >= day' - LOOKBACK_DAYS }
  /\ started' = 0 /\ quality_samples' = {} /\ letters' = [p \in Customers |-> 0]
  /\ UNCHANGED <<ran, lead_unlocks, watchlist_seen, profiles, job, untold, disturbed, upsets>>

Next ==
  \/ \E p \in Customers, b \in Businesses : Unlock(p, b) \/ Watch(p, b)
  \/ \E b \in Businesses : recordTriggers(b)
  \/ \E p \in Customers : savePreferences(p) \/ setSuspended(p)
  \/ \E c \in Jobs, force \in BOOLEAN : BeginDigest(c, force)
  \/ \E c \in Jobs, p \in Customers : ReadProfile(c, p)
  \/ \E c \in Jobs, b \in Businesses : Sample(c, b)
  \/ \E c \in Jobs : ReadOwners(c) \/ sendDigest(c) \/ StampSent(c) \/ EveryoneDone(c)
                     \/ runQualitySample(c) \/ EndJob(c) \/ JobKilled(c)
  \/ Tick
Spec == Init /\ [][Next]_vars

----------------------------------------------------------------------------

\* The stamp keeps the letter to one a day, however often the job is started, as long as
\* no two jobs overlap and no call of theirs is lost.
LetterOnceADay == \A p \in Customers \ disturbed : letters[p] <= 1

\* One window begins where the last one ended: a change at a business the customer had
\* already opened is named in the next letter, also when it was found on the very day of
\* the last one, after the job had passed.
NothingMissed ==
  Running = {} => \A p \in Customers \ disturbed : \A t \in untold[p] : t.on >= ran

\* Jobs that overlap sample a business twice on one day, and the second verdict is not kept.
OneVerdictADay ==
  \A s, t \in quality_samples : s.lead = t.lead => s.good = t.good

\* The words of the route: a forced run still respects the once-a-day guard per person, so
\* a stuck finger cannot mail somebody twice.
ForcedOnceADay == \A p \in Customers : letters[p] <= 1

\* The words of the letter: a change in a territory somebody watches counts too.
WatchedTold ==
  \A c \in Jobs : At(c, "tidy") /\ "interested" \in DOMAIN job[c] =>
    \A p \in Customers \ disturbed : job[c].interested[p] # {} => letters[p] >= 1
=============================================================================
