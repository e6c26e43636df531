------------------------------- MODULE Search -------------------------------
(***************************************************************************)
(* A search and what it leaves behind: discovery from the index, the cache *)
(* and the live sources, the crawl of the websites, the dated observations *)
(* and the changes read from them, the watchlist a search is run for, the  *)
(* public sample, and the daily job that refreshes the caches.             *)
(* A request is a row of steps, one per call to the database that others   *)
(* write to. It takes less than a minute and a tick of the clock is hours: *)
(* the clock moves between requests.                                       *)
(***************************************************************************)
EXTENDS Integers, FiniteSets

CONSTANTS
  Businesses, Host,   \* the businesses, and the host of each one's website
  Queries,            \* a trade in a place
  Osm, Google,        \* what each source lists for a query
  Requests,           \* requests in flight at once
  People,             \* accounts and visitors
  Lists,              \* rows of saved_searches
  Settings,           \* what a run looks at: the requests made and at most how many, of
                      \* which queries, by how many at once, whether subscribers, for
                      \* which watchlists, the index, the last tick, and the faults
  DiscoveryTTL, AuditTTL, SampleTTL, IndexTTL, WindowS,   \* in ticks
  Day,                \* ticks in a day
  BUCKETS,            \* hits a window allows
  MAX_WATCHLISTS, FREE_PREVIEW_LEADS,
  MaxTime,            \* bound on the clock
  None

\* The sources list businesses, what is searched for is a trade in a place, and a search
\* for no list is told from one for a list.
ASSUME SearchAssumption ==
  /\ DiscoveryTTL \in Nat /\ AuditTTL \in Nat /\ Day \in Nat \ {0} /\ MaxTime \in Nat
  /\ None \notin Lists
  /\ \A q \in Queries : Osm[q] \subseteq Businesses /\ Google[q] \subseteq Businesses
  /\ \A s \in Settings : s.queries \subseteq Queries /\ s.slots \subseteq Requests

VARIABLES
  now, up,                      \* the clock, and the hosts that are up
  index,                        \* indexed_areas: when the area was last ingested
  search_cache, audit_cache, sample_searches,
  snapshots, triggers,          \* business_snapshots, business_triggers
  watch,                        \* saved_searches and the watchlist_seen of each
  rate_limits,
  req, job,                     \* requests in flight, and the daily job
  announced, disturbed,         \* what each list has called new, and lists whose runs
                                \* overlapped or lost a call
  setting, faults, asked

caches == <<search_cache, audit_cache, sample_searches>>
history == <<snapshots, triggers>>
lists == <<watch, announced, disturbed>>
world == <<now, up, index, setting>>
vars == <<world, caches, history, lists, rate_limits, req, job, faults, asked>>

Today == now \div Day
Days == 0..(MaxTime \div Day)
Sources == {"google_places", "osm"}
Leads == Sources \X Businesses      \* a lead's id names the source that won the merge
Seen == [up : BOOLEAN, at : 0..MaxTime]   \* a verdict on a website, and when it was crawled
Entry == [found : SUBSET Businesses, at : 0..MaxTime, since : 0..MaxTime]

Idle == [at |-> "idle"]
InFlight(r) == req[r].at # "idle"
At(r, step) == req[r].at = step
With(fields, q) ==
  [k \in DOMAIN fields \cup DOMAIN q |-> IF k \in DOMAIN fields THEN fields[k] ELSE q[k]]
Go(r, fields) == req' = [req EXCEPT ![r] = With(fields, req[r])]   \* the request's next step

Fault == faults < setting.faults /\ faults' = faults + 1
NoFault == UNCHANGED faults

\* hit_rate_limit: one statement counts the hit and says whether it fits.
hit_rate_limit(limits, key) ==
  [limits EXCEPT ![key] = IF @.from < now - WindowS THEN [count |-> 1, from |-> now]
                                                    ELSE [@ EXCEPT !.count = @ + 1]]
Allowed(limits, key) == limits[key].count <= BUCKETS

\* Entries outlive their time by a week; readers are told which ones are stale.
Expired(at, ttl) == at + ttl < now

readDiscovery(q) == search_cache[q]
coveredArea == index # None /\ ~Expired(index, IndexTTL)

\* The OpenStreetMap half of discovery: the index, the cache, or a live call.
FromOsm(q) ==
  IF coveredArea THEN { [found |-> Osm[q], since |-> None] }
  ELSE IF readDiscovery(q) # None /\ ~Expired(readDiscovery(q).at, DiscoveryTTL)
  THEN { [found |-> readDiscovery(q).found, since |-> readDiscovery(q).since] }
  ELSE { [found |-> f, since |-> now] : f \in {Osm[q], {}} }

\* Mutant: whatever was read is filed again.
ToFileAny(q, osm) == osm

\* What a search files: live rows only, and only when no fresh entry was there.
ToFile(q, osm) ==
  IF ~coveredArea /\ osm # {} /\ (readDiscovery(q) = None \/ Expired(readDiscovery(q).at, DiscoveryTTL))
  THEN osm ELSE {}

\* mergeRawLeads: rows of one business become one lead, under Google's id if it has one.
mergeRawLeads(osm, google) ==
  { <<"google_places", b>> : b \in google } \cup { <<"osm", b>> : b \in osm \ google }

writeDiscovery(cache, q, found, since) ==
  IF found = {} THEN cache
  ELSE [cache EXCEPT ![q] = [found |-> found, at |-> now, since |-> since]]

\* One upsert of many rows. The database refuses the whole statement when two of
\* its rows have the same host.
writeAudits(cache, fresh) ==
  LET Of(h) == { e \in fresh : e.host = h }
  IN IF \E h \in DOMAIN cache : Cardinality(Of(h)) > 1 THEN cache
     ELSE [h \in DOMAIN cache |->
            IF Of(h) = {} THEN cache[h] ELSE [seen |-> (CHOOSE e \in Of(h) : TRUE).seen, at |-> now]]

Served(h) == audit_cache[h] # None /\ ~Expired(audit_cache[h].at, AuditTTL)

\* auditWebsite: a site that is down never answers, one that is up may be too slow.
auditWebsite(h) == { [up |-> v, at |-> now] : v \in {FALSE, (h \in up)} }

Website(l) == Host[l[2]]
Crawlable(leads) == { l \in leads : Website(l) # None }

\* Mutant: today's own observation counts as an earlier one.
previousToday(l) ==
  LET filed == { d \in Days : d <= Today /\ snapshots[l][d] # None }
  IN IF filed = {} THEN None ELSE snapshots[l][CHOOSE d \in filed : \A e \in filed : e <= d]

\* The latest observation filed before today.
previousSnapshots(l) ==
  LET filed == { d \in Days : d < Today /\ snapshots[l][d] # None }
  IN IF filed = {} THEN None ELSE snapshots[l][CHOOSE d \in filed : \A e \in filed : e <= d]

diffSnapshots(l, prev, curr) ==
  IF prev = None THEN {}
  ELSE IF prev.up /\ ~curr.up THEN {[lead |-> l, kind |-> "site_went_down", day |-> Today]}
  ELSE IF ~prev.up /\ curr.up THEN {[lead |-> l, kind |-> "site_recovered", day |-> Today]}
  ELSE {}
Changes(got) ==
  UNION { diffSnapshots(l, previousSnapshots(l), got[l]) : l \in { m \in DOMAIN got : got[m] # None } }

\* The first observation of a day is the one that is kept.
saveSnapshots(got) ==
  [l \in DOMAIN snapshots |->
    IF l \in DOMAIN got /\ snapshots[l][Today] = None
    THEN [snapshots[l] EXCEPT ![Today] = got[l]] ELSE snapshots[l]]

Init ==
  /\ setting \in Settings
  /\ now = 0 /\ up = { Host[b] : b \in Businesses } \ {None}
  /\ index = setting.index
  /\ search_cache = [q \in Queries |-> None]
  /\ audit_cache = [h \in { Host[b] : b \in Businesses } \ {None} |-> None]
  /\ sample_searches = [q \in Queries |-> None]
  /\ snapshots = [l \in Leads |-> [d \in Days |-> None]]
  /\ triggers = {}
  /\ watch = [w \in Lists |-> None]
  /\ rate_limits = [k \in People \cup {"all"} |-> [count |-> 0, from |-> 0]]
  /\ req = [r \in Requests |-> Idle]
  /\ job = [at |-> "idle", ran |-> None]
  /\ announced = [w \in Lists |-> [l \in Leads |-> 0]]
  /\ disturbed = {}
  /\ faults = 0 /\ asked = 0

----------------------------------------------------------------------------
(* Watchlists. *)

Runs(w) == { r \in Requests : "list" \in DOMAIN req[r] /\ req[r].list = w }
Owned(p) == { w \in Lists : watch[w] # None /\ watch[w].owner = p }

\* The count and the insert are two calls.
CountWatchlists(r, p) ==
  /\ ~InFlight(r) /\ setting.lists # {} /\ asked < setting.asks
  /\ Cardinality(Owned(p)) < MAX_WATCHLISTS
  /\ req' = [req EXCEPT ![r] = [at |-> "counted", who |-> p]]
  /\ asked' = asked + 1
  /\ UNCHANGED <<world, caches, history, lists, rate_limits, job, faults>>

InsertWatchlist(r, q) ==
  /\ At(r, "counted")
  /\ req' = [req EXCEPT ![r] = Idle]
  /\ \E w \in setting.lists :
       /\ watch[w] = None /\ Runs(w) = {} /\ \A l \in Leads : announced[w][l] = 0   \* a new id
       /\ watch' = [watch EXCEPT ![w] = [owner |-> req[r].who, query |-> q, seen |-> {}, newCount |-> 0]]
  /\ UNCHANGED <<world, caches, history, announced, disturbed, rate_limits, job, faults, asked>>

\* What a list has seen goes with it.
DeleteWatchlist(w) ==
  /\ watch[w] # None
  /\ watch' = [watch EXCEPT ![w] = None]
  /\ UNCHANGED <<world, caches, history, announced, disturbed, rate_limits, req, job, faults, asked>>

----------------------------------------------------------------------------
(* A search. *)

\* The guard counts the hit, whether it is allowed or not; a guard that fails allows.
BeginSearch(r, p, q) ==
  /\ ~InFlight(r) /\ "search" \in setting.kinds /\ asked < setting.asks
  /\ asked' = asked + 1
  /\ \/ /\ rate_limits' = hit_rate_limit(rate_limits, p)
        /\ NoFault
     \/ rate_limits' = rate_limits /\ Fault
  /\ IF rate_limits' # rate_limits /\ ~Allowed(rate_limits', p) THEN UNCHANGED req
     ELSE \E w \in Owned(p) \cup {None}, extra \in setting.queries \cup {None} :
            /\ extra # q
            /\ req' = [req EXCEPT ![r] = [at |-> "admitted", kind |-> "search", who |-> p, query |-> q,
                                          list |-> w, extra |-> extra]]
  /\ UNCHANGED <<world, caches, history, lists, job>>

\* Each source answers or runs into its ceiling. The trades named besides the first,
\* and the broader trade a thin answer falls back to, are asked live and not filed.
Discover(r) ==
  /\ At(r, "admitted")
  /\ LET q == req[r].query  more == req[r].extra IN
     \E osm \in FromOsm(q), google \in {Google[q], {}},
        extra \in IF more = None THEN {{}} ELSE {Osm[more], {}} :
       Go(r, [at |-> "found", file |-> ToFile(q, osm.found), since |-> osm.since,
              leads |-> mergeRawLeads(osm.found \cup extra, google)])
  /\ UNCHANGED <<world, caches, history, lists, rate_limits, job, faults, asked>>

\* readAudits, then the crawl of the rest, of which a late request skips some.
Crawl(r) ==
  /\ At(r, "found")
  /\ LET sited == Crawlable(req[r].leads)
         toCrawl == { l \in sited : ~Served(Website(l)) } IN
     \E done \in SUBSET toCrawl :
     \E crawl \in { f \in [done -> [up : BOOLEAN, at : {now}]] :
                    \A l \in done : f[l] \in auditWebsite(Website(l)) } :
       Go(r, [at |-> "crawled",
              got |-> [l \in req[r].leads |->
                        IF l \in sited \ toCrawl THEN audit_cache[Website(l)].seen
                        ELSE IF l \in done THEN crawl[l] ELSE None],
              fresh |-> { [lead |-> l, pass |-> 1, host |-> Website(l), seen |-> crawl[l]] : l \in done }])
  /\ UNCHANGED <<world, caches, history, lists, rate_limits, job, faults, asked>>

\* observeAndDiff reads before it writes. A request that is late skips both.
Compare(r) ==
  /\ At(r, "crawled") /\ req[r].kind = "search"
  /\ \/ Go(r, [at |-> "compared", changes |-> Changes(req[r].got)])
     \/ Go(r, [at |-> "filed", changes |-> {}])
  /\ UNCHANGED <<world, caches, history, lists, rate_limits, job, faults, asked>>

\* saveSnapshots and recordTriggers: a failure of either is swallowed.
File(got, changes) ==
  \/ snapshots' = saveSnapshots(got) /\ triggers' = triggers \cup changes /\ NoFault
  \/ snapshots' = snapshots /\ triggers' = triggers \cup changes /\ Fault
  \/ snapshots' = saveSnapshots(got) /\ triggers' = triggers /\ Fault

Observe(r) ==
  /\ At(r, "compared")
  /\ File(req[r].got, req[r].changes)
  /\ Go(r, [at |-> "filed"])
  /\ UNCHANGED <<world, caches, lists, rate_limits, job, asked>>

\* The quieter second pass over the sites that did not answer, as far as time allows.
\* Only a better answer is taken, for the lead and for the cache.
Recheck(r) ==
  /\ At(r, "filed")
  /\ LET got == req[r].got
         unreachable == { l \in Crawlable(req[r].leads) : got[l] # None /\ ~got[l].up }
         better == [up |-> TRUE, at |-> now] IN
     \E answered \in SUBSET { l \in unreachable : Website(l) \in up } :
       Go(r, [at |-> "checked",
              got |-> [l \in DOMAIN got |-> IF l \in answered THEN better ELSE got[l]],
              fresh |-> req[r].fresh \cup
                        { [lead |-> l, pass |-> 2, host |-> Website(l), seen |-> better] : l \in answered }])
  /\ UNCHANGED <<world, caches, history, lists, rate_limits, job, faults, asked>>

\* Filters, ranking and the page asked for leave some of the leads (top), of which a
\* trial account is shown a few. Then seenKeys: a read that fails finds nothing.
Between(w) == { s \in Runs(w) : req[s].at \in {"shown", "marked"} }
Rank(r) ==
  /\ At(r, "checked")
  /\ LET w == req[r].list
         seen == IF w = None \/ watch[w] = None THEN {} ELSE watch[w].seen
         Show(known) ==
           \E top \in SUBSET req[r].leads : \E visible \in SUBSET top :
             /\ IF setting.subscribed \/ Cardinality(top) <= FREE_PREVIEW_LEADS THEN visible = top
                ELSE Cardinality(visible) = FREE_PREVIEW_LEADS
             /\ w = None => top = {}   \* without a list, what is shown leaves no trace here
             /\ req' = [req EXCEPT ![r] = [at |-> "shown", query |-> req[r].query, list |-> w,
                         file |-> req[r].file, since |-> req[r].since, fresh |-> req[r].fresh,
                         top |-> top, new |-> visible \ known]]
     IN \/ Show(seen) /\ NoFault
           /\ disturbed' = IF w # None /\ Between(w) # {} THEN disturbed \cup {w} ELSE disturbed
        \/ w # None /\ Show({}) /\ Fault /\ disturbed' = disturbed \cup {w}
  /\ UNCHANGED <<world, caches, history, watch, announced, rate_limits, job, asked>>

\* Mutant: a run replaces what the list has seen.
markSeenAnew(w, leads, count) ==
  IF watch[w] = None THEN watch
  ELSE [watch EXCEPT ![w].seen = leads, ![w].newCount = count]

\* markSeen: everything on the page, for a list that is still its owner's.
markSeen(w, leads, count) ==
  IF watch[w] = None THEN watch
  ELSE [watch EXCEPT ![w].seen = @ \cup leads, ![w].newCount = count]
MarkSeen(r) ==
  /\ At(r, "shown")
  /\ LET w == req[r].list IN
     \/ w = None /\ NoFault /\ UNCHANGED <<watch, disturbed>>
     \/ w # None /\ NoFault /\ UNCHANGED disturbed
        /\ watch' = markSeen(w, req[r].top, Cardinality(req[r].new))
     \/ w # None /\ Fault /\ UNCHANGED watch /\ disturbed' = disturbed \cup {w}
  /\ Go(r, [at |-> "marked"])
  /\ UNCHANGED <<world, caches, history, announced, rate_limits, job, asked>>

\* The cache writes go out as soon as there is something to file, and nothing waits for
\* them until the answer is ready.
FileDiscovery(r) ==
  /\ InFlight(r) /\ ~At(r, "counted") /\ ~At(r, "admitted") /\ req[r].file # {}
  /\ search_cache' = writeDiscovery(search_cache, req[r].query, req[r].file, req[r].since)
  /\ Go(r, [file |-> {}])
  /\ UNCHANGED <<world, audit_cache, sample_searches, history, lists, rate_limits, job, faults, asked>>

FileAudits(r) ==
  /\ req[r].at \in {"checked", "shown", "marked"} /\ req[r].fresh # {}
  /\ audit_cache' = writeAudits(audit_cache, req[r].fresh)
  /\ Go(r, [fresh |-> {}])
  /\ UNCHANGED <<world, search_cache, sample_searches, history, lists, rate_limits, job, faults, asked>>

\* They are waited for at the end, but not for long, and then the answer goes out.
Answer(r) ==
  /\ At(r, "marked")
  /\ IF req[r].file = {} /\ req[r].fresh = {} THEN NoFault ELSE Fault
  /\ LET w == req[r].list IN
     announced' = IF w = None THEN announced
                  ELSE [announced EXCEPT ![w] = [l \in Leads |->
                          IF l \in req[r].new /\ @[l] < 2 THEN @[l] + 1 ELSE @[l]]]
  /\ req' = [req EXCEPT ![r] = Idle]
  /\ UNCHANGED <<world, caches, history, watch, disturbed, rate_limits, job, asked>>

\* The platform ends a function that runs too long.
Killed(r) ==
  /\ InFlight(r) /\ Fault
  /\ req' = [req EXCEPT ![r] = Idle]
  /\ UNCHANGED <<world, caches, history, lists, rate_limits, job, asked>>

----------------------------------------------------------------------------
(* The public sample: answered from its cache, or counted twice and run. *)

BeginSample(r, p, q) ==
  /\ ~InFlight(r) /\ "sample" \in setting.kinds /\ asked < setting.asks
  /\ sample_searches[q] # None => Expired(sample_searches[q].at, SampleTTL)
  /\ asked' = asked + 1
  /\ LET mine == hit_rate_limit(rate_limits, p)
         all == hit_rate_limit(mine, "all") IN
     IF ~Allowed(mine, p) THEN rate_limits' = mine /\ UNCHANGED req
     ELSE /\ rate_limits' = all
          /\ IF ~Allowed(all, "all") THEN UNCHANGED req
             ELSE req' = [req EXCEPT ![r] = [at |-> "admitted", kind |-> "sample", who |-> p,
                                             query |-> q, list |-> None, extra |-> None]]
  /\ UNCHANGED <<world, caches, history, lists, job, faults>>

\* What was crawled is not filed, and the write of the discovery is not waited for. The
\* answer is filed when anything was worth showing.
AnswerSample(r) ==
  /\ At(r, "crawled") /\ req[r].kind = "sample"
  /\ \/ req[r].leads # {} /\ sample_searches' = [sample_searches EXCEPT ![req[r].query] = [at |-> now]]
     \/ UNCHANGED sample_searches
  /\ req' = [req EXCEPT ![r] = Idle]
  /\ UNCHANGED <<world, search_cache, audit_cache, history, lists, rate_limits, job, faults, asked>>

----------------------------------------------------------------------------
(* The daily job. *)

BeginRefresh ==
  /\ setting.refresh /\ job.at = "idle" /\ job.ran # Today
  /\ job' = [at |-> "searches", ran |-> Today, found |-> {}, fresh |-> {}, got |-> <<>>, changes |-> {},
             todo |-> { q \in Queries : search_cache[q] # None }]
  /\ UNCHANGED <<world, caches, history, lists, rate_limits, req, faults, asked>>

\* Each entry is asked of the live source again, while there is time.
RefreshSearch(q) ==
  /\ job.at = "searches" /\ q \in job.todo
  /\ \E found \in {Osm[q], {}} :
       /\ search_cache' = writeDiscovery(search_cache, q, found, now)
       /\ job' = [job EXCEPT !.todo = @ \ {q},
                  !.found = @ \cup { l \in {"osm"} \X found : Website(l) # None }]
  /\ UNCHANGED <<world, audit_cache, sample_searches, history, lists, rate_limits, req, faults, asked>>

RefreshCrawl ==
  /\ job.at = "searches"
  /\ \E done \in SUBSET { h \in DOMAIN audit_cache : audit_cache[h] # None /\ Expired(audit_cache[h].at, AuditTTL) } :
     \E crawl \in { f \in [done -> [up : BOOLEAN, at : {now}]] : \A h \in done : f[h] \in auditWebsite(h) } :
       job' = [job EXCEPT !.at = "audits", !.fresh = { [host |-> h, seen |-> crawl[h]] : h \in done }]
  /\ UNCHANGED <<world, caches, history, lists, rate_limits, req, faults, asked>>

RefreshAudits ==
  /\ job.at = "audits"
  /\ audit_cache' = writeAudits(audit_cache, job.fresh)
  /\ job' = [job EXCEPT !.at = "observe"]
  /\ UNCHANGED <<world, search_cache, sample_searches, history, lists, rate_limits, req, faults, asked>>

\* What was discovered is observed from the cache, which may hold stale verdicts.
RefreshCompare ==
  /\ job.at = "observe"
  /\ LET got == [l \in job.found |->
                   IF audit_cache[Website(l)] = None THEN None ELSE audit_cache[Website(l)].seen] IN
     job' = [job EXCEPT !.at = "file", !.got = got, !.changes = Changes(got)]
  /\ UNCHANGED <<world, caches, history, lists, rate_limits, req, faults, asked>>

RefreshObserve ==
  /\ job.at = "file"
  /\ File(job.got, job.changes)
  /\ job' = [job EXCEPT !.at = "purge"]
  /\ UNCHANGED <<world, caches, lists, rate_limits, req, asked>>

\* purge_expired_cache: entries a week past their expiry.
Purged(cache, ttl) ==
  [k \in DOMAIN cache |-> IF cache[k] # None /\ Expired(cache[k].at, ttl + DiscoveryTTL) THEN None ELSE cache[k]]
RefreshPurge ==
  /\ job.at = "purge"
  /\ search_cache' = Purged(search_cache, DiscoveryTTL)
  /\ audit_cache' = Purged(audit_cache, AuditTTL)
  /\ job' = [at |-> "idle", ran |-> job.ran]
  /\ UNCHANGED <<world, sample_searches, history, lists, rate_limits, req, faults, asked>>

RefreshKilled ==
  /\ job.at # "idle" /\ Fault
  /\ job' = [at |-> "idle", ran |-> job.ran]
  /\ UNCHANGED <<world, caches, history, lists, rate_limits, req, asked>>

----------------------------------------------------------------------------
(* Time passes, and websites go down and come back. *)

Tick ==
  /\ now < setting.until /\ job.at = "idle" /\ \A r \in Requests : ~InFlight(r)
  /\ now' = now + 1
  /\ up' \in SUBSET DOMAIN audit_cache
  /\ UNCHANGED <<index, setting, caches, history, lists, rate_limits, req, job, faults, asked>>

Next ==
  \/ \E r \in setting.slots, p \in People, q \in setting.queries : BeginSearch(r, p, q) \/ BeginSample(r, p, q)
  \/ \E r \in setting.slots, p \in People : CountWatchlists(r, p)
  \/ \E r \in Requests, q \in setting.queries : InsertWatchlist(r, q)
  \/ \E w \in Lists : DeleteWatchlist(w)
  \/ \E r \in Requests :
       \/ Discover(r) \/ Crawl(r) \/ Compare(r) \/ Observe(r) \/ Recheck(r)
       \/ Rank(r) \/ MarkSeen(r) \/ FileDiscovery(r) \/ FileAudits(r) \/ Answer(r) \/ AnswerSample(r) \/ Killed(r)
  \/ BeginRefresh \/ \E q \in Queries : RefreshSearch(q)
  \/ RefreshCrawl \/ RefreshAudits \/ RefreshCompare \/ RefreshObserve \/ RefreshPurge \/ RefreshKilled
  \/ Tick
Spec == Init /\ [][Next]_vars

----------------------------------------------------------------------------

\* Nothing old is passed off as new: a search's list of businesses was really fetched
\* within the life of a discovery, and each verdict on a website was really crawled
\* within a day, however often they were read, filed and refreshed in between.
NothingStaleServed ==
  \A r \in Requests :
    /\ At(r, "found") /\ req[r].since # None => now - req[r].since <= DiscoveryTTL
    /\ At(r, "crawled") => \A l \in DOMAIN req[r].got :
         req[r].got[l] # None => now - req[r].got[l].at <= AuditTTL

\* A cached list belongs to its question: the trades asked for besides the first, and
\* what Google lists, are never filed under it.
FiledUnderItsQuery == \A q \in Queries : search_cache[q] # None => search_cache[q].found \subseteq Osm[q]

\* What a search takes from the caches is fresh, and is what its question finds.
CacheHonest == NothingStaleServed /\ FiledUnderItsQuery

\* All who look at a business on one day compare it with the same earlier day, so it is
\* never reported both down and recovered that day, whoever looked and in what order.
OneStoryADay ==
  \A s, t \in triggers : s.lead = t.lead /\ s.day = t.day => s.kind = t.kind

\* A watchlist calls a lead new once, unless two of its runs overlapped or a call to
\* its rows was lost.
NewOnce ==
  \A w \in Lists \ disturbed, l \in Leads : watch[w] # None => announced[w][l] <= 1

\* The words of the second pass: a site that fails both passes is really unreachable,
\* so a search that got an answer in the end has not reported the site as down.
DownFailedTwice ==
  \A r \in Requests : At(r, "checked") =>
    \A t \in req[r].changes : t.kind = "site_went_down" => ~req[r].got[t.lead].up

\* The words of the cache: a verdict the second pass corrected replaces the wrong one, so
\* that the next search does not repeat the mistake. What an answered search is about to
\* write leaves each corrected host on file as up.
CorrectionKept ==
  \A r \in Requests : At(r, "marked") =>
    LET kept == writeAudits(audit_cache, req[r].fresh) IN
    \A e \in req[r].fresh : e.pass = 2 => kept[e.host] # None /\ kept[e.host].seen.up
=============================================================================
