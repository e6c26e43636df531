---------------------------- MODULE SearchProofs ----------------------------
(***************************************************************************)
(* Theorems about Search, for any businesses, queries, requests and lists, *)
(* any length of the day and any time an entry lives.                      *)
(***************************************************************************)
EXTENDS Search, WellFoundedInduction, TLAPS

-----------------------------------------------------------------------------
(* What a request, the caches and the job hold.                                        *)

\* The stages of a request: what it knows from each on.
FoundAt == {"found", "crawled", "compared", "filed", "checked"}
CrawledAt == FoundAt \ {"found"}
AskedAt == FoundAt \cup {"admitted"}
KeptAt == {"shown", "marked"}

\* A request e at time n.
Asks(e) ==
  /\ e.at \in {"idle", "counted"} \cup AskedAt \cup KeptAt
  /\ e.at \in AskedAt \cup KeptAt =>
       {"at", "query", "list"} \subseteq DOMAIN e /\ e.query \in Queries /\ e.list \in Lists \cup {None}
  /\ e.at \in AskedAt => {"kind", "extra"} \subseteq DOMAIN e /\ e.extra \in Queries \cup {None}
Finds(e, n) ==
  /\ e.at \in FoundAt \cup KeptAt =>
       {"file", "since"} \subseteq DOMAIN e /\ e.file \subseteq Osm[e.query] /\ (e.file # {} => e.since = n)
  /\ e.at \in FoundAt => "leads" \in DOMAIN e /\ e.leads \subseteq Leads
  /\ e.at = "found" => (e.since # None => n - e.since <= DiscoveryTTL)
Crawls(e, n) ==
  /\ e.at \in CrawledAt \cup KeptAt => "fresh" \in DOMAIN e /\ \A f \in e.fresh : f.seen.at = n
  /\ e.at \in CrawledAt => "got" \in DOMAIN e /\ DOMAIN e.got = e.leads
  /\ e.at = "crawled" => \A l \in DOMAIN e.got : e.got[l] # None => n - e.got[l].at <= AuditTTL
Shows(e) == e.at \in KeptAt => {"top", "new"} \subseteq DOMAIN e /\ e.new \subseteq e.top
Fits(e, n) == Asks(e) /\ Finds(e, n) /\ Crawls(e, n) /\ Shows(e)
RequestsFit == DOMAIN req = Requests /\ \A r \in Requests : Fits(req[r], now)

\* An entry was filed when it was fetched; a verdict, when its site was crawled.
Fetched(c, q) == c # None => c.at \in Nat /\ c.since = c.at /\ c.found \subseteq Osm[q]
Judged(c) == c # None => c.at \in Nat /\ c.seen.at = c.at
CachesFit ==
  /\ DOMAIN search_cache = Queries /\ \A q \in Queries : Fetched(search_cache[q], q)
  /\ DOMAIN audit_cache = { Host[b] : b \in Businesses } \ {None}
  /\ \A h \in DOMAIN audit_cache : Judged(audit_cache[h])

JobFields == {"at", "ran", "found", "fresh", "got", "changes", "todo"}
JobFits ==
  /\ job.at \in {"idle", "searches", "audits", "observe", "file", "purge"}
  /\ job.at # "idle" => JobFields \subseteq DOMAIN job /\ job.found \subseteq Leads
                        /\ \A f \in job.fresh : f.seen.at = now
  /\ job.at = "file" => DOMAIN job.got = job.found

ClockFits == now \in Nat /\ setting \in Settings
CacheInv == ClockFits /\ RequestsFit /\ CachesFit /\ JobFits

-----------------------------------------------------------------------------
(* The changes that are told.                                                          *)

\* The observations of a lead before a day.
Before(l, day) == { d \in Days : d < day /\ snapshots[l][d] # None }

\* A change is told by the latest observation before its day.
Told(t) ==
  /\ t.lead \in Leads /\ t.day \in Nat /\ t.day <= Today
  /\ \E p \in Before(t.lead, t.day) :
       /\ \A d \in Before(t.lead, t.day) : d <= p
       /\ \/ t.kind = "site_went_down" /\ snapshots[t.lead][p].up
          \/ t.kind = "site_recovered" /\ ~snapshots[t.lead][p].up
HistoryFits == DOMAIN snapshots = Leads /\ \A l \in Leads : DOMAIN snapshots[l] = Days
StoryInv ==
  /\ HistoryFits
  /\ \A t \in triggers : Told(t)
  /\ \A r \in Requests : At(r, "compared") => "changes" \in DOMAIN req[r] /\ \A t \in req[r].changes : Told(t)
  /\ job.at = "file" => \A t \in job.changes : Told(t)

-----------------------------------------------------------------------------
(* What a watchlist has announced.                                                     *)

OnList(e, w) == e.at \in KeptAt /\ e.list = w
ListsFit ==
  /\ DOMAIN watch = Lists /\ DOMAIN announced = Lists
  /\ \A w \in Lists : watch[w] # None => "seen" \in DOMAIN watch[w]
  /\ \A w \in Lists : announced[w] \in [Leads -> Nat]

\* A list nothing has disturbed: what it announced it has seen, and one run at most is
\* about to announce what it has not.
Orderly(w) ==
  /\ \A l \in Leads : announced[w][l] <= 1 /\ (announced[w][l] = 1 => l \in watch[w].seen)
  /\ \A r, s \in Requests : OnList(req[r], w) /\ OnList(req[s], w) => r = s
  /\ \A r \in Requests : OnList(req[r], w) =>
       \A l \in Leads : l \in req[r].new =>
         announced[w][l] = 0 /\ (At(r, "marked") => l \in watch[w].seen)
ListsInv == ListsFit /\ \A w \in Lists \ disturbed : watch[w] # None => Orderly(w)
-----------------------------------------------------------------------------
(* Numbers.                                                                            *)

\* A set of numbers that has a bound has a largest one.
LEMMA HasLargest ==
  ASSUME NEW S \in SUBSET Nat, NEW b \in Nat, \A d \in S : d <= b, S # {}
  PROVE  \E d \in S : \A e \in S : e <= d
<1> DEFINE T == { n \in Nat : n <= b /\ b - n \in S }
<1>1. T \subseteq Nat /\ T # {}
  <2>1. PICK d \in S : d <= b
    OBVIOUS
  <2>2. b - d \in T
    <3>1. d \in Nat /\ b - d \in Nat /\ b - d <= b /\ b - (b - d) = d
      BY <2>1
    <3> QED BY <3>1, <2>1
  <2> QED BY <2>2
<1>2. \E x \in T : \A y \in T : ~(<<y, x>> \in OpToRel(<, Nat))
  BY <1>1, WFMin, NatLessThanWellFounded
<1>3. PICK x \in T : \A y \in T : ~(y < x)
  BY <1>1, <1>2 DEF OpToRel
<1>4. x \in Nat /\ b - x \in S
  OBVIOUS
<1>5. ASSUME NEW e \in S PROVE e <= b - x
  <2>1. e \in Nat /\ e <= b /\ b - e \in Nat /\ b - e <= b /\ b - (b - e) = e
    OBVIOUS
  <2>2. b - e \in T
    BY <2>1
  <2>3. ~(b - e < x)
    BY <1>3, <2>2
  <2> QED BY <1>4, <2>1, <2>3
<1> QED BY <1>4, <1>5


-----------------------------------------------------------------------------
(* Requests and the steps that move them.                                              *)

\* The day never goes back.
LEMMA DayGoesOn ==
  ASSUME NEW n \in Nat, NEW k \in Nat \ {0}
  PROVE  n \div k \in Nat /\ n \div k <= (n + 1) \div k
  OBVIOUS

\* A request that takes a step gets the fields of the step and keeps the others, and no
\* other request moves.
LEMMA GoMoves ==
  ASSUME NEW r \in Requests, NEW fields, DOMAIN req = Requests, Go(r, fields)
  PROVE  /\ DOMAIN req' = Requests /\ req'[r] = With(fields, req[r])
         /\ \A s \in Requests \ {r} : req'[s] = req[s]
  BY DEF Go

LEMMA EndMoves ==
  ASSUME NEW r \in Requests, NEW e, DOMAIN req = Requests, req' = [req EXCEPT ![r] = e]
  PROVE  DOMAIN req' = Requests /\ req'[r] = e /\ \A s \in Requests \ {r} : req'[s] = req[s]
  OBVIOUS

\* When one request moves and the clock does not, the others still fit.
LEMMA OneMoves ==
  ASSUME NEW r \in Requests, RequestsFit, DOMAIN req' = Requests, now' = now,
         \A s \in Requests \ {r} : req'[s] = req[s], Fits(req'[r], now)
  PROVE  RequestsFit'
<1>1. ASSUME NEW s \in Requests PROVE Fits(req'[s], now')
  <2>1. CASE s = r
    BY <2>1
  <2>2. CASE s # r
    <3>1. req'[s] = req[s] /\ Fits(req[s], now)
      BY <2>2 DEF RequestsFit
    <3> QED BY <3>1
  <2> QED BY <2>1, <2>2
<1> QED BY <1>1 DEF RequestsFit

LEMMA NoneMoves == ASSUME RequestsFit, UNCHANGED <<req, now>> PROVE RequestsFit'
  BY DEF RequestsFit

LEMMA IdleFits == ASSUME NEW n PROVE Fits(Idle, n)
  BY DEF Fits, Asks, Finds, Crawls, Shows, Idle, AskedAt, FoundAt, CrawledAt, KeptAt

\* A request that ends fits, and so do the others.
LEMMA EndFits ==
  ASSUME NEW r \in Requests, RequestsFit, now' = now, req' = [req EXCEPT ![r] = Idle]
  PROVE  RequestsFit'
  BY EndMoves, OneMoves, IdleFits DEF RequestsFit

-----------------------------------------------------------------------------
(* The searches.                                                                       *)

USE DEF AskedAt, FoundAt, CrawledAt, KeptAt

LEMMA BeginSearchFits ==
  ASSUME NEW r \in Requests, NEW p \in People, NEW q \in setting.queries, CacheInv, BeginSearch(r, p, q)
  PROVE  RequestsFit'
<1>1. q \in Queries /\ setting.queries \subseteq Queries
  BY SearchAssumption DEF CacheInv, ClockFits
<1>2. now' = now
  BY DEF BeginSearch, world
<1>3. CASE UNCHANGED req
  BY <1>2, <1>3, NoneMoves DEF CacheInv
<1>4. CASE ~UNCHANGED req
  <2>1. PICK w \in Owned(p) \cup {None}, extra \in setting.queries \cup {None} :
          req' = [req EXCEPT ![r] = [at |-> "admitted", kind |-> "search", who |-> p, query |-> q,
                                     list |-> w, extra |-> extra]]
    BY <1>4 DEF BeginSearch
  <2> DEFINE e == [at |-> "admitted", kind |-> "search", who |-> p, query |-> q, list |-> w, extra |-> extra]
  <2>2. w \in Lists \cup {None} /\ extra \in Queries \cup {None}
    BY <1>1 DEF Owned
  <2>3. Fits(e, now)
    BY <1>1, <2>2 DEF Fits, Asks, Finds, Crawls, Shows
  <2> HIDE DEF e
  <2> QED BY <1>2, <2>1, <2>3, EndMoves, OneMoves DEF CacheInv, RequestsFit, e
<1> QED BY <1>3, <1>4

LEMMA BeginSampleFits ==
  ASSUME NEW r \in Requests, NEW p \in People, NEW q \in setting.queries, CacheInv, BeginSample(r, p, q)
  PROVE  RequestsFit'
<1>1. q \in Queries
  BY SearchAssumption DEF CacheInv, ClockFits
<1>2. now' = now
  BY DEF BeginSample, world
<1>3. CASE UNCHANGED req
  BY <1>2, <1>3, NoneMoves DEF CacheInv
<1>4. CASE ~UNCHANGED req
  <2> DEFINE e == [at |-> "admitted", kind |-> "sample", who |-> p, query |-> q, list |-> None, extra |-> None]
  <2>1. req' = [req EXCEPT ![r] = e]
    BY <1>4 DEF BeginSample
  <2>3. Fits(e, now)
    BY <1>1 DEF Fits, Asks, Finds, Crawls, Shows
  <2> HIDE DEF e
  <2> QED BY <1>2, <2>1, <2>3, EndMoves, OneMoves DEF CacheInv, RequestsFit
<1> QED BY <1>3, <1>4

LEMMA CountWatchlistsFits ==
  ASSUME NEW r \in Requests, NEW p \in People, CacheInv, CountWatchlists(r, p)
  PROVE  RequestsFit'
<1> DEFINE e == [at |-> "counted", who |-> p]
<1>1. req' = [req EXCEPT ![r] = e] /\ now' = now
  BY DEF CountWatchlists, world
<1>2. Fits(e, now)
  BY DEF Fits, Asks, Finds, Crawls, Shows
<1> HIDE DEF e
<1> QED BY <1>1, <1>2, EndMoves, OneMoves DEF CacheInv, RequestsFit

\* What a search files under its query was listed for it by the live source, just now;
\* what it reads from the cache is within its time.
LEMMA DiscoverFits ==
  ASSUME NEW r \in Requests, CacheInv, Discover(r)
  PROVE  RequestsFit'
<1> DEFINE e == req[r]  q == req[r].query  more == req[r].extra
<1>1. Fits(e, now) /\ e.at = "admitted" /\ now' = now /\ DOMAIN req = Requests
  BY DEF CacheInv, RequestsFit, Discover, At, world
<1>2. q \in Queries /\ more \in Queries \cup {None} /\ {"at", "query", "list", "kind", "extra"} \subseteq DOMAIN e
      /\ e.list \in Lists \cup {None}
  BY <1>1 DEF Fits, Asks
<1>3. PICK osm \in FromOsm(q), google \in {Google[q], {}}, extra \in IF more = None THEN {{}} ELSE {Osm[more], {}} :
        Go(r, [at |-> "found", file |-> ToFile(q, osm.found), since |-> osm.since,
               leads |-> mergeRawLeads(osm.found \cup extra, google)])
  BY DEF Discover
<1> DEFINE fields == [at |-> "found", file |-> ToFile(q, osm.found), since |-> osm.since,
                      leads |-> mergeRawLeads(osm.found \cup extra, google)]
           d == With(fields, e)
<1>4. /\ Osm[q] \subseteq Businesses /\ google \subseteq Businesses /\ extra \subseteq Businesses
      /\ DiscoveryTTL \in Nat /\ now \in Nat /\ Fetched(search_cache[q], q)
  BY <1>2, SearchAssumption DEF CacheInv, ClockFits, CachesFit
<1>5. /\ osm.found \subseteq Osm[q] /\ (osm.since # None => now - osm.since <= DiscoveryTTL)
      /\ ToFile(q, osm.found) \subseteq Osm[q] /\ (ToFile(q, osm.found) # {} => osm.since = now)
  <2>1. CASE coveredArea
    BY <2>1, <1>3 DEF FromOsm, ToFile
  <2>2. CASE ~coveredArea /\ readDiscovery(q) # None /\ ~Expired(readDiscovery(q).at, DiscoveryTTL)
    <3>1. osm.found = search_cache[q].found /\ osm.since = search_cache[q].since
      BY <2>2 DEF FromOsm, readDiscovery
    <3>2. ToFile(q, osm.found) = {}
      BY <2>2 DEF ToFile
    <3>3. search_cache[q].at \in Nat /\ search_cache[q].since = search_cache[q].at
          /\ search_cache[q].found \subseteq Osm[q] /\ ~(search_cache[q].at + DiscoveryTTL < now)
      BY <2>2, <1>4 DEF Fetched, readDiscovery, Expired
    <3> QED BY <3>1, <3>2, <3>3, <1>4
  <2>3. CASE ~coveredArea /\ ~(readDiscovery(q) # None /\ ~Expired(readDiscovery(q).at, DiscoveryTTL))
    <3>1. osm.since = now /\ osm.found \subseteq Osm[q]
      BY <2>3 DEF FromOsm
    <3> QED BY <3>1, <1>4 DEF ToFile
  <2> QED BY <2>1, <2>2, <2>3
<1>6. mergeRawLeads(osm.found \cup extra, google) \subseteq Leads
  BY <1>4, <1>5 DEF mergeRawLeads, Leads, Sources
<1>7. /\ d.at = "found" /\ d.file = ToFile(q, osm.found) /\ d.since = osm.since
      /\ d.leads = mergeRawLeads(osm.found \cup extra, google)
      /\ {"at", "query", "list", "kind", "extra", "file", "since", "leads"} \subseteq DOMAIN d
      /\ d.query = q /\ d.list = e.list /\ d.extra = more
  BY <1>2 DEF With
<1>8. DOMAIN req' = Requests /\ req'[r] = d /\ \A s \in Requests \ {r} : req'[s] = req[s]
  BY <1>1, <1>3, GoMoves
<1>9. Fits(d, now)
  <2> HIDE DEF d
  <2>1. Asks(d) /\ Crawls(d, now) /\ Shows(d)
    BY <1>2, <1>7 DEF Asks, Crawls, Shows
  <2>2. Finds(d, now)
    BY <1>5, <1>6, <1>7 DEF Finds
  <2> QED BY <2>1, <2>2 DEF Fits
<1> HIDE DEF d
<1> QED BY <1>1, <1>8, <1>9, OneMoves DEF CacheInv

\* A verdict a search reads is a day old at most: it reads what is served, and crawls now.
LEMMA CrawlFits ==
  ASSUME NEW r \in Requests, CacheInv, Crawl(r)
  PROVE  RequestsFit'
<1> DEFINE e == req[r]
           sited == Crawlable(e.leads)
           toCrawl == { l \in sited : ~Served(Website(l)) }
<1>1. Fits(e, now) /\ e.at = "found" /\ now' = now /\ DOMAIN req = Requests /\ now \in Nat
  BY DEF CacheInv, ClockFits, RequestsFit, Crawl, At, world
<1>2. /\ e.leads \subseteq Leads /\ e.file \subseteq Osm[e.query] /\ (e.file # {} => e.since = now)
      /\ {"at", "query", "list", "kind", "extra", "file", "since", "leads"} \subseteq DOMAIN e
      /\ e.query \in Queries /\ e.list \in Lists \cup {None} /\ e.extra \in Queries \cup {None}
  BY <1>1 DEF Fits, Asks, Finds
<1>3. PICK done \in SUBSET toCrawl :
      \E crawl \in [done -> [up : BOOLEAN, at : {now}]] :
        Go(r, [at |-> "crawled",
               got |-> [l \in e.leads |->
                         IF l \in sited \ toCrawl THEN audit_cache[Website(l)].seen
                         ELSE IF l \in done THEN crawl[l] ELSE None],
               fresh |-> { [lead |-> l, pass |-> 1, host |-> Website(l), seen |-> crawl[l]] : l \in done }])
  BY DEF Crawl
<1>4. PICK crawl \in [done -> [up : BOOLEAN, at : {now}]] :
        Go(r, [at |-> "crawled",
               got |-> [l \in e.leads |->
                         IF l \in sited \ toCrawl THEN audit_cache[Website(l)].seen
                         ELSE IF l \in done THEN crawl[l] ELSE None],
               fresh |-> { [lead |-> l, pass |-> 1, host |-> Website(l), seen |-> crawl[l]] : l \in done }])
  BY <1>3
<1> DEFINE got == [l \in e.leads |->
                    IF l \in sited \ toCrawl THEN audit_cache[Website(l)].seen
                    ELSE IF l \in done THEN crawl[l] ELSE None]
           fresh == { [lead |-> l, pass |-> 1, host |-> Website(l), seen |-> crawl[l]] : l \in done }
           d == With([at |-> "crawled", got |-> got, fresh |-> fresh], e)
<1>5. \A l \in done : crawl[l].at = now
  OBVIOUS
<1>6. \A f \in fresh : f.seen.at = now
  BY <1>5
<1>7. ASSUME NEW l \in e.leads, got[l] # None PROVE now - got[l].at <= AuditTTL
  <2>1. CASE l \in sited \ toCrawl
    <3>1. got[l] = audit_cache[Website(l)].seen
      BY <2>1
    <3>2. Served(Website(l)) /\ Website(l) # None
      BY <2>1 DEF Crawlable
    <3>3. Website(l) \in DOMAIN audit_cache
      BY <1>2, <3>2 DEF CacheInv, CachesFit, Leads, Website
    <3>4. Judged(audit_cache[Website(l)])
      BY <3>3 DEF CacheInv, CachesFit
    <3>5. /\ audit_cache[Website(l)].at \in Nat /\ audit_cache[Website(l)].seen.at = audit_cache[Website(l)].at
          /\ ~(audit_cache[Website(l)].at + AuditTTL < now)
      BY <3>2, <3>4 DEF Judged, Served, Expired
    <3> QED BY <1>1, <3>1, <3>5, SearchAssumption
  <2>2. CASE l \in done
    <3>1. got[l] = crawl[l]
      BY <2>2
    <3>2. now - now <= AuditTTL
      BY <1>1, SearchAssumption
    <3> QED BY <1>5, <2>2, <3>1, <3>2
  <2>3. CASE l \notin sited \ toCrawl /\ l \notin done
    BY <1>7, <2>3
  <2> QED BY <2>1, <2>2, <2>3
<1>8. DOMAIN got = e.leads
  OBVIOUS
<1>9. DOMAIN req' = Requests /\ req'[r] = d /\ \A s \in Requests \ {r} : req'[s] = req[s]
  BY <1>1, <1>4, GoMoves
<1> HIDE DEF got, fresh
<1>10. /\ d.at = "crawled" /\ d.got = got /\ d.fresh = fresh
       /\ {"at", "query", "list", "kind", "extra", "file", "since", "leads", "got", "fresh"} \subseteq DOMAIN d
       /\ d.query = e.query /\ d.list = e.list /\ d.extra = e.extra /\ d.file = e.file /\ d.since = e.since
       /\ d.leads = e.leads
  BY <1>2 DEF With
<1> HIDE DEF d
<1>11. Asks(d) /\ Shows(d) /\ Finds(d, now)
  BY <1>2, <1>10 DEF Asks, Shows, Finds
<1>12. Crawls(d, now)
  BY <1>6, <1>7, <1>8, <1>10 DEF Crawls
<1> QED BY <1>1, <1>9, <1>11, <1>12, OneMoves DEF CacheInv, Fits

LEMMA CompareFits ==
  ASSUME NEW r \in Requests, CacheInv, Compare(r)
  PROVE  RequestsFit'
<1> DEFINE e == req[r]
<1>1. Fits(e, now) /\ e.at = "crawled" /\ now' = now /\ DOMAIN req = Requests
  BY DEF CacheInv, RequestsFit, Compare, At, world
<1>2. PICK at \in {"compared", "filed"}, changes \in {Changes(e.got), {}} : Go(r, [at |-> at, changes |-> changes])
  BY DEF Compare
<1> DEFINE d == With([at |-> at, changes |-> changes], e)
<1>3. DOMAIN req' = Requests /\ req'[r] = d /\ \A s \in Requests \ {r} : req'[s] = req[s]
  BY <1>1, <1>2, GoMoves
<1>4. {"at", "query", "list", "kind", "extra", "file", "since", "leads", "got", "fresh"} \subseteq DOMAIN e
  BY <1>1 DEF Fits, Asks, Finds, Crawls
<1>5. /\ d.at = at
      /\ {"at", "query", "list", "kind", "extra", "file", "since", "leads", "got", "fresh"} \subseteq DOMAIN d
      /\ d.query = e.query /\ d.list = e.list /\ d.extra = e.extra /\ d.file = e.file /\ d.since = e.since
      /\ d.leads = e.leads /\ d.got = e.got /\ d.fresh = e.fresh
  BY <1>4 DEF With
<1> HIDE DEF d
<1>6. Fits(d, now)
  <2>1. Asks(d)
    BY <1>1, <1>2, <1>5 DEF Fits, Asks
  <2>2. Finds(d, now)
    BY <1>1, <1>2, <1>5 DEF Fits, Finds
  <2>3. Crawls(d, now)
    BY <1>1, <1>2, <1>5 DEF Fits, Crawls
  <2>4. Shows(d)
    BY <1>1, <1>2, <1>5 DEF Fits, Shows
  <2> QED BY <2>1, <2>2, <2>3, <2>4 DEF Fits
<1> QED BY <1>1, <1>3, <1>6, OneMoves DEF CacheInv

LEMMA ObserveFits ==
  ASSUME NEW r \in Requests, CacheInv, Observe(r)
  PROVE  RequestsFit'
<1> DEFINE e == req[r]  d == With([at |-> "filed"], e)
<1>1. Fits(e, now) /\ e.at = "compared" /\ now' = now /\ DOMAIN req = Requests
  BY DEF CacheInv, RequestsFit, Observe, At, world
<1>2. Go(r, [at |-> "filed"])
  BY DEF Observe
<1>3. DOMAIN req' = Requests /\ req'[r] = d /\ \A s \in Requests \ {r} : req'[s] = req[s]
  BY <1>1, <1>2, GoMoves
<1>4. {"at", "query", "list", "kind", "extra", "file", "since", "leads", "got", "fresh"} \subseteq DOMAIN e
  BY <1>1 DEF Fits, Asks, Finds, Crawls
<1>5. /\ d.at = "filed"
      /\ {"at", "query", "list", "kind", "extra", "file", "since", "leads", "got", "fresh"} \subseteq DOMAIN d
      /\ d.query = e.query /\ d.list = e.list /\ d.extra = e.extra /\ d.file = e.file /\ d.since = e.since
      /\ d.leads = e.leads /\ d.got = e.got /\ d.fresh = e.fresh
  BY <1>4 DEF With
<1> HIDE DEF d
<1>6. Fits(d, now)
  <2>1. Asks(d)
    BY <1>1, <1>5 DEF Fits, Asks
  <2>2. Finds(d, now)
    BY <1>1, <1>5 DEF Fits, Finds
  <2>3. Crawls(d, now)
    BY <1>1, <1>5 DEF Fits, Crawls
  <2>4. Shows(d)
    BY <1>1, <1>5 DEF Fits, Shows
  <2> QED BY <2>1, <2>2, <2>3, <2>4 DEF Fits
<1> QED BY <1>1, <1>3, <1>6, OneMoves DEF CacheInv

LEMMA RecheckFits ==
  ASSUME NEW r \in Requests, CacheInv, Recheck(r)
  PROVE  RequestsFit'
<1> DEFINE e == req[r]  better == [up |-> TRUE, at |-> now]
<1>1. Fits(e, now) /\ e.at = "filed" /\ now' = now /\ DOMAIN req = Requests
  BY DEF CacheInv, RequestsFit, Recheck, At, world
<1>2. PICK answered :
        Go(r, [at |-> "checked",
               got |-> [l \in DOMAIN e.got |-> IF l \in answered THEN better ELSE e.got[l]],
               fresh |-> e.fresh \cup
                         { [lead |-> l, pass |-> 2, host |-> Website(l), seen |-> better] : l \in answered }])
  BY DEF Recheck
<1> DEFINE got == [l \in DOMAIN e.got |-> IF l \in answered THEN better ELSE e.got[l]]
           fresh == e.fresh \cup { [lead |-> l, pass |-> 2, host |-> Website(l), seen |-> better] : l \in answered }
           d == With([at |-> "checked", got |-> got, fresh |-> fresh], e)
<1>3. DOMAIN req' = Requests /\ req'[r] = d /\ \A s \in Requests \ {r} : req'[s] = req[s]
  BY <1>1, <1>2, GoMoves
<1>4. {"at", "query", "list", "kind", "extra", "file", "since", "leads", "got", "fresh"} \subseteq DOMAIN e
  BY <1>1 DEF Fits, Asks, Finds, Crawls
<1>5. DOMAIN got = e.leads /\ \A f \in fresh : f.seen.at = now
  BY <1>1 DEF Fits, Crawls
<1> HIDE DEF got, fresh
<1>6. /\ d.at = "checked" /\ d.got = got /\ d.fresh = fresh
      /\ {"at", "query", "list", "kind", "extra", "file", "since", "leads", "got", "fresh"} \subseteq DOMAIN d
      /\ d.query = e.query /\ d.list = e.list /\ d.extra = e.extra /\ d.file = e.file /\ d.since = e.since
      /\ d.leads = e.leads
  BY <1>4 DEF With
<1> HIDE DEF d
<1>7. Fits(d, now)
  <2>1. Asks(d)
    BY <1>1, <1>5, <1>6 DEF Fits, Asks
  <2>2. Finds(d, now)
    BY <1>1, <1>5, <1>6 DEF Fits, Finds
  <2>3. Crawls(d, now)
    BY <1>1, <1>5, <1>6 DEF Fits, Crawls
  <2>4. Shows(d)
    BY <1>1, <1>5, <1>6 DEF Fits, Shows
  <2> QED BY <2>1, <2>2, <2>3, <2>4 DEF Fits
<1> QED BY <1>1, <1>3, <1>7, OneMoves DEF CacheInv

LEMMA RankFits ==
  ASSUME NEW r \in Requests, CacheInv, Rank(r)
  PROVE  RequestsFit'
<1> DEFINE e == req[r]
<1>1. Fits(e, now) /\ e.at = "checked" /\ now' = now /\ DOMAIN req = Requests
  BY DEF CacheInv, RequestsFit, Rank, At, world
<1>2. PICK known, top, visible :
        /\ visible \subseteq top
        /\ req' = [req EXCEPT ![r] = [at |-> "shown", query |-> e.query, list |-> e.list, file |-> e.file,
                                      since |-> e.since, fresh |-> e.fresh, top |-> top, new |-> visible \ known]]
  BY DEF Rank
<1> DEFINE d == [at |-> "shown", query |-> e.query, list |-> e.list, file |-> e.file,
                 since |-> e.since, fresh |-> e.fresh, top |-> top, new |-> visible \ known]
<1>3. Fits(d, now)
  <2>1. Asks(d)
    BY <1>1 DEF Fits, Asks
  <2>2. Finds(d, now)
    BY <1>1 DEF Fits, Finds
  <2>3. Crawls(d, now)
    BY <1>1 DEF Fits, Crawls
  <2>4. Shows(d)
    BY <1>2 DEF Shows
  <2> QED BY <2>1, <2>2, <2>3, <2>4 DEF Fits
<1> HIDE DEF d
<1> QED BY <1>1, <1>2, <1>3, EndMoves, OneMoves DEF CacheInv, d

LEMMA MarkSeenFits ==
  ASSUME NEW r \in Requests, CacheInv, MarkSeen(r)
  PROVE  RequestsFit'
<1> DEFINE e == req[r]  d == With([at |-> "marked"], e)
<1>1. Fits(e, now) /\ e.at = "shown" /\ now' = now /\ DOMAIN req = Requests
  BY DEF CacheInv, RequestsFit, MarkSeen, At, world
<1>2. Go(r, [at |-> "marked"])
  BY DEF MarkSeen
<1>3. DOMAIN req' = Requests /\ req'[r] = d /\ \A s \in Requests \ {r} : req'[s] = req[s]
  BY <1>1, <1>2, GoMoves
<1>4. {"at", "query", "list", "file", "since", "fresh", "top", "new"} \subseteq DOMAIN e
  BY <1>1 DEF Fits, Asks, Finds, Crawls, Shows
<1>5. /\ d.at = "marked"
      /\ {"at", "query", "list", "file", "since", "fresh", "top", "new"} \subseteq DOMAIN d
      /\ d.query = e.query /\ d.list = e.list /\ d.file = e.file /\ d.since = e.since
      /\ d.fresh = e.fresh /\ d.top = e.top /\ d.new = e.new
  BY <1>4 DEF With
<1> HIDE DEF d
<1>6. Fits(d, now)
  <2>1. Asks(d)
    BY <1>1, <1>5 DEF Fits, Asks
  <2>2. Finds(d, now)
    BY <1>1, <1>5 DEF Fits, Finds
  <2>3. Crawls(d, now)
    BY <1>1, <1>5 DEF Fits, Crawls
  <2>4. Shows(d)
    BY <1>1, <1>5 DEF Fits, Shows
  <2> QED BY <2>1, <2>2, <2>3, <2>4 DEF Fits
<1> QED BY <1>1, <1>3, <1>6, OneMoves DEF CacheInv

\* Filing what is left to file changes nothing else of the request.
LEMMA FileDiscoveryFits ==
  ASSUME NEW r \in Requests, CacheInv, FileDiscovery(r)
  PROVE  RequestsFit' /\ req[r].query \in Queries /\ req[r].file \subseteq Osm[req[r].query] /\ req[r].since = now
<1> DEFINE e == req[r]  d == With([file |-> {}], e)
<1>1. Fits(e, now) /\ e.at \in FoundAt \cup KeptAt /\ now' = now /\ DOMAIN req = Requests /\ e.file # {}
  BY DEF CacheInv, RequestsFit, FileDiscovery, At, InFlight, world, Fits, Asks
<1>2. Go(r, [file |-> {}])
  BY DEF FileDiscovery
<1>3. DOMAIN req' = Requests /\ req'[r] = d /\ \A s \in Requests \ {r} : req'[s] = req[s]
  BY <1>1, <1>2, GoMoves
<1>4. /\ \A k \in DOMAIN e \ {"file"} : k \in DOMAIN d /\ d[k] = e[k]
      /\ DOMAIN d = DOMAIN e \cup {"file"} /\ d.file = {}
  BY DEF With
<1>5. "at" \in DOMAIN e
  BY <1>1 DEF Fits, Asks
<1> HIDE DEF d
<1>6. d.at = e.at /\ (e.at \in FoundAt => d.leads = e.leads)
  BY <1>1, <1>4, <1>5 DEF Fits, Finds
<1>7. Asks(d) /\ Finds(d, now)
  BY <1>1, <1>4, <1>5, <1>6 DEF Fits, Asks, Finds
<1>8. Crawls(d, now) /\ Shows(d)
  BY <1>1, <1>4, <1>5, <1>6 DEF Fits, Crawls, Shows
<1>9. RequestsFit'
  BY <1>1, <1>3, <1>7, <1>8, OneMoves DEF CacheInv, Fits
<1> QED BY <1>1, <1>9 DEF Fits, Asks, Finds

LEMMA FileAuditsFits ==
  ASSUME NEW r \in Requests, CacheInv, FileAudits(r)
  PROVE  RequestsFit' /\ \A f \in req[r].fresh : f.seen.at = now
<1> DEFINE e == req[r]  d == With([fresh |-> {}], e)
<1>1. Fits(e, now) /\ e.at \in {"checked", "shown", "marked"} /\ now' = now /\ DOMAIN req = Requests
  BY DEF CacheInv, RequestsFit, FileAudits, world
<1>2. Go(r, [fresh |-> {}])
  BY DEF FileAudits
<1>3. DOMAIN req' = Requests /\ req'[r] = d /\ \A s \in Requests \ {r} : req'[s] = req[s]
  BY <1>1, <1>2, GoMoves
<1>4. /\ \A k \in DOMAIN e \ {"fresh"} : k \in DOMAIN d /\ d[k] = e[k]
      /\ DOMAIN d = DOMAIN e \cup {"fresh"} /\ d.fresh = {}
  BY DEF With
<1>5. "at" \in DOMAIN e
  BY <1>1 DEF Fits, Asks
<1> HIDE DEF d
<1>6. d.at = e.at /\ (e.at \in FoundAt => d.leads = e.leads)
  BY <1>1, <1>4, <1>5 DEF Fits, Finds
<1>7. Asks(d) /\ Finds(d, now)
  BY <1>1, <1>4, <1>5, <1>6 DEF Fits, Asks, Finds
<1>8. Crawls(d, now) /\ Shows(d)
  BY <1>1, <1>4, <1>5, <1>6 DEF Fits, Crawls, Shows
<1>9. RequestsFit'
  BY <1>1, <1>3, <1>7, <1>8, OneMoves DEF CacheInv, Fits
<1> QED BY <1>1, <1>9 DEF Fits, Crawls

LEMMA InsertWatchlistFits ==
  ASSUME NEW r \in Requests, NEW q, CacheInv, InsertWatchlist(r, q)
  PROVE  RequestsFit'
  BY EndFits DEF InsertWatchlist, CacheInv, world

LEMMA EndedFits ==
  ASSUME NEW r \in Requests, CacheInv, Answer(r) \/ AnswerSample(r) \/ Killed(r)
  PROVE  RequestsFit'
  BY EndFits DEF Answer, AnswerSample, Killed, CacheInv, world

-----------------------------------------------------------------------------
(* The caches and the job.                                                             *)

\* An entry that was just fetched goes where its query asks for it.
LEMMA WriteDiscoveryFits ==
  ASSUME NEW q \in Queries, NEW found, ClockFits, CachesFit, found \subseteq Osm[q],
         search_cache' = writeDiscovery(search_cache, q, found, now)
  PROVE  DOMAIN search_cache' = Queries /\ \A p \in Queries : Fetched(search_cache'[p], p)
<1>1. CASE found = {}
  BY <1>1 DEF writeDiscovery, CachesFit
<1>2. CASE found # {}
  <2>1. /\ search_cache' = [search_cache EXCEPT ![q] = [found |-> found, at |-> now, since |-> now]]
        /\ DOMAIN search_cache = Queries
    BY <1>2 DEF writeDiscovery, CachesFit
  <2>2. Fetched([found |-> found, at |-> now, since |-> now], q)
    BY DEF Fetched, ClockFits
  <2> QED BY <2>1, <2>2 DEF CachesFit
<1> QED BY <1>1, <1>2

\* Verdicts that were just reached are filed as of now.
LEMMA WriteAuditsFits ==
  ASSUME NEW fresh, ClockFits, CachesFit, \A f \in fresh : f.seen.at = now,
         audit_cache' = writeAudits(audit_cache, fresh)
  PROVE  DOMAIN audit_cache' = DOMAIN audit_cache /\ \A h \in DOMAIN audit_cache' : Judged(audit_cache'[h])
<1> DEFINE Of(h) == { e \in fresh : e.host = h }
<1>1. CASE audit_cache' = audit_cache
  BY <1>1 DEF CachesFit
<1>2. CASE audit_cache' # audit_cache
  <2>1. audit_cache' = [h \in DOMAIN audit_cache |->
          IF Of(h) = {} THEN audit_cache[h] ELSE [seen |-> (CHOOSE e \in Of(h) : TRUE).seen, at |-> now]]
    BY <1>2 DEF writeAudits
  <2>2. ASSUME NEW h \in DOMAIN audit_cache, Of(h) # {}
        PROVE  Judged([seen |-> (CHOOSE e \in Of(h) : TRUE).seen, at |-> now])
    <3>1. PICK e \in fresh : e = CHOOSE f \in Of(h) : TRUE
      BY <2>2
    <3>2. e.seen.at = now
      OBVIOUS
    <3> HIDE DEF Of
    <3> QED BY <3>1, <3>2 DEF Judged, ClockFits
  <2> HIDE DEF Of
  <2>3. ASSUME NEW h \in DOMAIN audit_cache PROVE Judged(audit_cache'[h])
    BY <2>1, <2>2 DEF CachesFit
  <2> QED BY <2>1, <2>3
<1> QED BY <1>1, <1>2

\* What is purged is gone, and the rest is as it was.
LEMMA PurgedFits ==
  ASSUME CachesFit, RefreshPurge
  PROVE  CachesFit'
<1>1. /\ DOMAIN search_cache' = DOMAIN search_cache /\ DOMAIN audit_cache' = DOMAIN audit_cache
      /\ \A q \in DOMAIN search_cache : search_cache'[q] # None => search_cache'[q] = search_cache[q]
      /\ \A h \in DOMAIN audit_cache : audit_cache'[h] # None => audit_cache'[h] = audit_cache[h]
  BY DEF RefreshPurge, Purged
<1>2. ASSUME NEW q \in Queries PROVE Fetched(search_cache'[q], q)
  BY <1>1 DEF CachesFit, Fetched
<1>3. ASSUME NEW h \in DOMAIN audit_cache PROVE Judged(audit_cache'[h])
  BY <1>1 DEF CachesFit, Judged
<1> QED BY <1>1, <1>2, <1>3 DEF CachesFit

RefreshJob ==
  \/ BeginRefresh \/ \E q \in Queries : RefreshSearch(q)
  \/ RefreshCrawl \/ RefreshAudits \/ RefreshCompare \/ RefreshObserve \/ RefreshPurge \/ RefreshKilled

LEMMA JobStays == ASSUME JobFits, UNCHANGED <<job, now>> PROVE JobFits'
  BY DEF JobFits

\* The job's steps keep what it holds in order.
LEMMA JobMoves ==
  ASSUME CacheInv, RefreshJob
  PROVE  JobFits'
<1> USE DEF JobFields
<1>1. now' = now /\ JobFits
  BY DEF RefreshJob, BeginRefresh, RefreshSearch, RefreshCrawl, RefreshAudits, RefreshCompare, RefreshObserve,
         RefreshPurge, RefreshKilled, world, CacheInv
<1>2. CASE BeginRefresh
  BY <1>1, <1>2 DEF BeginRefresh, JobFits
<1>3. ASSUME NEW q \in Queries, RefreshSearch(q) PROVE JobFits'
  <2>1. PICK found \in {Osm[q], {}} :
          job' = [job EXCEPT !.todo = @ \ {q},
                  !.found = @ \cup { l \in {"osm"} \X found : Website(l) # None }]
    BY <1>3 DEF RefreshSearch
  <2>2. found \subseteq Businesses
    BY SearchAssumption
  <2>3. { l \in {"osm"} \X found : Website(l) # None } \subseteq Leads
    BY <2>2 DEF Leads, Sources
  <2>4. job.at = "searches"
    BY <1>3 DEF RefreshSearch
  <2>5. job'.at = "searches" /\ DOMAIN job' = DOMAIN job /\ job'.fresh = job.fresh
        /\ job'.found = job.found \cup { l \in {"osm"} \X found : Website(l) # None }
    BY <1>1, <2>1, <2>4 DEF JobFits
  <2> QED BY <1>1, <2>3, <2>4, <2>5 DEF JobFits
<1>4. CASE RefreshCrawl
  <2>9. PICK done \in SUBSET { h \in DOMAIN audit_cache : audit_cache[h] # None /\ Expired(audit_cache[h].at, AuditTTL) } :
        \E crawl \in [done -> [up : BOOLEAN, at : {now}]] :
          job' = [job EXCEPT !.at = "audits", !.fresh = { [host |-> h, seen |-> crawl[h]] : h \in done }]
    BY <1>4 DEF RefreshCrawl
  <2>1. PICK crawl \in [done -> [up : BOOLEAN, at : {now}]] :
          job' = [job EXCEPT !.at = "audits", !.fresh = { [host |-> h, seen |-> crawl[h]] : h \in done }]
    BY <2>9
  <2> DEFINE fresh == { [host |-> h, seen |-> crawl[h]] : h \in done }
  <2>8. \A h \in done : crawl[h].at = now
    OBVIOUS
  <2>2. \A f \in fresh : f.seen.at = now
    BY <2>8
  <2> HIDE DEF fresh
  <2>3. job.at = "searches"
    BY <1>4 DEF RefreshCrawl
  <2>4. job'.at = "audits" /\ DOMAIN job' = DOMAIN job /\ job'.found = job.found /\ job'.fresh = fresh
    BY <1>1, <2>1, <2>3 DEF JobFits, fresh
  <2> QED BY <1>1, <2>2, <2>3, <2>4 DEF JobFits
<1>5. CASE RefreshAudits
  <2>1. job' = [job EXCEPT !.at = "observe"] /\ job.at = "audits"
    BY <1>5 DEF RefreshAudits
  <2>2. job'.at = "observe" /\ DOMAIN job' = DOMAIN job /\ job'.found = job.found /\ job'.fresh = job.fresh
    BY <1>1, <2>1 DEF JobFits
  <2> QED BY <1>1, <2>1, <2>2 DEF JobFits
<1>6. CASE RefreshCompare
  <2>1. PICK got, changes : DOMAIN got = job.found /\ job' = [job EXCEPT !.at = "file", !.got = got, !.changes = changes]
    BY <1>6 DEF RefreshCompare
  <2>2. job.at = "observe"
    BY <1>6 DEF RefreshCompare
  <2>3. job'.at = "file" /\ DOMAIN job' = DOMAIN job /\ job'.found = job.found /\ job'.fresh = job.fresh
        /\ job'.got = got
    BY <1>1, <2>1, <2>2 DEF JobFits
  <2> QED BY <1>1, <2>1, <2>2, <2>3 DEF JobFits
<1>7. CASE RefreshObserve
  <2>1. job' = [job EXCEPT !.at = "purge"] /\ job.at = "file"
    BY <1>7 DEF RefreshObserve
  <2>2. job'.at = "purge" /\ DOMAIN job' = DOMAIN job /\ job'.found = job.found /\ job'.fresh = job.fresh
    BY <1>1, <2>1 DEF JobFits
  <2> QED BY <1>1, <2>1, <2>2 DEF JobFits
<1>8. CASE RefreshPurge \/ RefreshKilled
  BY <1>1, <1>8 DEF RefreshPurge, RefreshKilled, JobFits
<1> QED BY <1>2, <1>3, <1>4, <1>5, <1>6, <1>7, <1>8 DEF RefreshJob

LEMMA ClockMoves == ASSUME CacheInv, [Next]_vars PROVE ClockFits'
<1>1. setting' = setting /\ (now' = now \/ now' = now + 1)
  BY DEF Next, vars, world, BeginSearch, BeginSample, CountWatchlists, InsertWatchlist, DeleteWatchlist,
         Discover, Crawl, Compare, Observe, Recheck, Rank, MarkSeen, FileDiscovery, FileAudits, Answer,
         AnswerSample, Killed, BeginRefresh, RefreshSearch, RefreshCrawl, RefreshAudits, RefreshCompare,
         RefreshObserve, RefreshPurge, RefreshKilled, Tick
<1> QED BY <1>1 DEF CacheInv, ClockFits

\* The clock moves when no request is in flight, so nothing a request knows gets old.
LEMMA RequestsMove == ASSUME CacheInv, [Next]_vars PROVE RequestsFit'
<1> USE DEF CacheInv
<1> SUFFICES ASSUME ~UNCHANGED <<req, now>> PROVE RequestsFit'
  BY NoneMoves
<1>1. setting.slots \subseteq Requests
  BY SearchAssumption DEF ClockFits
<1>2. ASSUME NEW r \in setting.slots, NEW p \in People, NEW q \in setting.queries,
             BeginSearch(r, p, q) \/ BeginSample(r, p, q)
      PROVE  RequestsFit'
  BY <1>1, <1>2, BeginSearchFits, BeginSampleFits
<1>3. ASSUME NEW r \in setting.slots, NEW p \in People, CountWatchlists(r, p) PROVE RequestsFit'
  BY <1>1, <1>3, CountWatchlistsFits
<1>4. ASSUME NEW r \in Requests, NEW q \in setting.queries, InsertWatchlist(r, q) PROVE RequestsFit'
  BY <1>4, InsertWatchlistFits
<1>5. ASSUME NEW w \in Lists, DeleteWatchlist(w) PROVE RequestsFit'
  BY <1>5 DEF DeleteWatchlist, world
<1>6. ASSUME NEW r \in Requests,
             \/ Discover(r) \/ Crawl(r) \/ Compare(r) \/ Observe(r) \/ Recheck(r)
             \/ Rank(r) \/ MarkSeen(r) \/ FileDiscovery(r) \/ FileAudits(r)
             \/ Answer(r) \/ AnswerSample(r) \/ Killed(r)
      PROVE  RequestsFit'
  BY <1>6, DiscoverFits, CrawlFits, CompareFits, ObserveFits, RecheckFits, RankFits, MarkSeenFits,
     FileDiscoveryFits, FileAuditsFits, EndedFits
<1>7. CASE RefreshJob
  BY <1>7 DEF RefreshJob, BeginRefresh, RefreshSearch, RefreshCrawl, RefreshAudits, RefreshCompare,
              RefreshObserve, RefreshPurge, RefreshKilled, world
<1>8. CASE Tick
  <2>1. DOMAIN req = Requests /\ req' = req /\ \A r \in Requests : req[r].at = "idle" /\ Fits(req[r], now)
    BY <1>8 DEF Tick, InFlight, RequestsFit
  <2>2. ASSUME NEW r \in Requests PROVE Fits(req[r], now')
    BY <2>1 DEF Fits, Asks, Finds, Crawls, Shows
  <2> QED BY <2>1, <2>2 DEF RequestsFit
<1>9. CASE UNCHANGED vars
  BY <1>9 DEF vars, world
<1> QED BY <1>2, <1>3, <1>4, <1>5, <1>6, <1>7, <1>8, <1>9 DEF Next, RefreshJob

LEMMA CachesMove == ASSUME CacheInv, [Next]_vars PROVE CachesFit'
<1> USE DEF CacheInv
<1> SUFFICES ASSUME ~UNCHANGED <<search_cache, audit_cache>> PROVE CachesFit'
  BY DEF CachesFit
<1>1. ASSUME NEW r \in Requests, FileDiscovery(r) PROVE CachesFit'
  <2>1. /\ req[r].query \in Queries /\ req[r].file \subseteq Osm[req[r].query] /\ req[r].since = now
        /\ search_cache' = writeDiscovery(search_cache, req[r].query, req[r].file, now)
        /\ audit_cache' = audit_cache
    BY <1>1, FileDiscoveryFits DEF FileDiscovery
  <2>2. PICK q \in Queries : q = req[r].query
    BY <2>1
  <2>3. PICK found \in SUBSET Osm[q] : found = req[r].file
    BY <2>1, <2>2
  <2> QED BY <2>1, <2>2, <2>3, WriteDiscoveryFits DEF CachesFit
<1>2. ASSUME NEW r \in Requests, FileAudits(r) PROVE CachesFit'
  <2>1. /\ \A f \in req[r].fresh : f.seen.at = now
        /\ audit_cache' = writeAudits(audit_cache, req[r].fresh) /\ search_cache' = search_cache
    BY <1>2, FileAuditsFits DEF FileAudits
  <2> QED BY <2>1, WriteAuditsFits DEF CachesFit
<1>3. ASSUME NEW q \in Queries, RefreshSearch(q) PROVE CachesFit'
  <2>1. PICK found \in {Osm[q], {}} : search_cache' = writeDiscovery(search_cache, q, found, now)
    BY <1>3 DEF RefreshSearch
  <2>2. found \subseteq Osm[q] /\ audit_cache' = audit_cache
    BY <1>3 DEF RefreshSearch
  <2> QED BY <2>1, <2>2, WriteDiscoveryFits DEF CachesFit
<1>4. CASE RefreshAudits
  <2>1. /\ \A f \in job.fresh : f.seen.at = now
        /\ audit_cache' = writeAudits(audit_cache, job.fresh) /\ search_cache' = search_cache
    BY <1>4 DEF RefreshAudits, JobFits
  <2> QED BY <2>1, WriteAuditsFits DEF CachesFit
<1>5. CASE RefreshPurge
  BY <1>5, PurgedFits
<1> QED
  BY <1>1, <1>2, <1>3, <1>4, <1>5
     DEF Next, vars, caches, BeginSearch, BeginSample, CountWatchlists, InsertWatchlist, DeleteWatchlist,
         Discover, Crawl, Compare, Observe, Recheck, Rank, MarkSeen, Answer, AnswerSample, Killed,
         BeginRefresh, RefreshCrawl, RefreshCompare, RefreshObserve, RefreshKilled, Tick

LEMMA TheJobMoves == ASSUME CacheInv, [Next]_vars PROVE JobFits'
<1> SUFFICES ASSUME ~UNCHANGED <<job, now>> PROVE JobFits'
  BY JobStays DEF CacheInv
<1>1. CASE RefreshJob
  BY <1>1, JobMoves
<1>2. CASE Tick
  BY <1>2 DEF Tick, JobFits, CacheInv
<1> QED
  BY <1>1, <1>2
     DEF Next, RefreshJob, vars, world, BeginSearch, BeginSample, CountWatchlists, InsertWatchlist,
         DeleteWatchlist, Discover, Crawl, Compare, Observe, Recheck, Rank, MarkSeen, FileDiscovery,
         FileAudits, Answer, AnswerSample, Killed

LEMMA CacheInit == ASSUME Init PROVE CacheInv
<1>1. ClockFits
  BY DEF Init, ClockFits
<1>2. RequestsFit
  BY IdleFits DEF Init, RequestsFit
<1>3. CachesFit
  BY DEF Init, CachesFit, Fetched, Judged
<1>4. JobFits
  BY DEF Init, JobFits
<1> QED BY <1>1, <1>2, <1>3, <1>4 DEF CacheInv

\* What requests, caches and the job hold keeps its shape and its dates: an entry is dated
\* when it was fetched, a verdict when its site was crawled, and whatever is about to be
\* filed was fetched or crawled now.
THEOREM CachesKeepDates == Spec => []CacheInv
<1>1. CacheInv /\ [Next]_vars => CacheInv'
  BY ClockMoves, RequestsMove, CachesMove, TheJobMoves DEF CacheInv
<1> QED BY CacheInit, <1>1, PTL DEF Spec

\* What a search takes from the caches is fresh, and is what its question finds.
THEOREM CachesAreHonest == Spec => []CacheHonest
<1>1. CacheInv => CacheHonest
  <2> SUFFICES ASSUME CacheInv PROVE CacheHonest
    OBVIOUS
  <2>1. NothingStaleServed
    BY DEF NothingStaleServed, At, CacheInv, RequestsFit, Fits, Finds, Crawls
  <2>2. FiledUnderItsQuery
    BY DEF FiledUnderItsQuery, CacheInv, CachesFit, Fetched
  <2> QED BY <2>1, <2>2 DEF CacheHonest
<1> QED BY <1>1, CachesKeepDates, PTL

-----------------------------------------------------------------------------
(* What the changes say.                                                               *)

LEMMA TodayIsADay == ASSUME ClockFits PROVE Today \in Nat
  BY DayGoesOn, SearchAssumption DEF ClockFits, Today

\* The observation a lead is compared with is the latest one before today.
LEMMA PreviousIsLatest ==
  ASSUME NEW l, ClockFits, previousSnapshots(l) # None
  PROVE  \E p \in Before(l, Today) :
           previousSnapshots(l) = snapshots[l][p] /\ \A d \in Before(l, Today) : d <= p
<1> DEFINE filed == { d \in Days : d < Today /\ snapshots[l][d] # None }
           p == CHOOSE d \in filed : \A e \in filed : e <= d
<1>1. filed # {} /\ previousSnapshots(l) = snapshots[l][p]
  BY DEF previousSnapshots
<1>2. MaxTime \div Day \in Nat
  BY DayGoesOn, SearchAssumption
<1>3. filed \in SUBSET Nat /\ \A d \in filed : d <= MaxTime \div Day
  BY <1>2 DEF Days
<1>4. \E d \in filed : \A e \in filed : e <= d
  BY <1>1, <1>2, <1>3, HasLargest
<1>5. p \in filed /\ \A d \in filed : d <= p
  BY <1>4
<1> HIDE DEF p
<1> QED BY <1>1, <1>5 DEF Before

\* What a comparison reports is told by the latest observation before today.
LEMMA ChangesAreTold ==
  ASSUME NEW got, ClockFits, DOMAIN got \subseteq Leads, NEW t \in Changes(got)
  PROVE  Told(t)
<1>1. PICK l \in DOMAIN got : t \in diffSnapshots(l, previousSnapshots(l), got[l])
  BY DEF Changes
<1> DEFINE prev == previousSnapshots(l)
<1>2. prev # None
  BY <1>1 DEF diffSnapshots
<1>3. \/ t = [lead |-> l, kind |-> "site_went_down", day |-> Today] /\ prev.up
      \/ t = [lead |-> l, kind |-> "site_recovered", day |-> Today] /\ ~prev.up
  BY <1>1, <1>2 DEF diffSnapshots
<1>4. PICK p \in Before(l, Today) : prev = snapshots[l][p] /\ \A d \in Before(l, Today) : d <= p
  BY <1>2, PreviousIsLatest
<1> HIDE DEF prev
<1>5. t.lead = l /\ t.day = Today /\ l \in Leads
  BY <1>3
<1>6. \/ t.kind = "site_went_down" /\ snapshots[l][p].up
      \/ t.kind = "site_recovered" /\ ~snapshots[l][p].up
  <2>1. CASE t = [lead |-> l, kind |-> "site_went_down", day |-> Today] /\ prev.up
    BY <2>1, <1>4
  <2>2. CASE t = [lead |-> l, kind |-> "site_recovered", day |-> Today] /\ ~prev.up
    BY <2>2, <1>4
  <2> QED BY <1>3, <2>1, <2>2
<1>7. Today <= Today /\ Today \in Nat
  BY TodayIsADay
<1> QED BY <1>4, <1>5, <1>6, <1>7 DEF Told

\* What was filed before today stays as it is.
PastStays ==
  /\ HistoryFits'
  /\ \A l \in Leads, d \in Days : d < Today => snapshots'[l][d] = snapshots[l][d]
  /\ Today' \in Nat /\ Today <= Today'

LEMMA SavedToday ==
  ASSUME NEW got, HistoryFits, ClockFits, now' = now, snapshots' = saveSnapshots(got)
  PROVE  PastStays
<1>1. Today' = Today /\ Today \in Nat /\ Today <= Today
  BY TodayIsADay DEF Today
<1>2. DOMAIN snapshots' = Leads
  BY DEF saveSnapshots, HistoryFits
<1>3. ASSUME NEW l \in Leads
      PROVE  snapshots'[l] = snapshots[l] \/ snapshots'[l] = [snapshots[l] EXCEPT ![Today] = got[l]]
  BY DEF saveSnapshots, HistoryFits
<1>4. ASSUME NEW l \in Leads PROVE DOMAIN snapshots'[l] = Days
  BY <1>3 DEF HistoryFits
<1>5. ASSUME NEW l \in Leads, NEW d \in Days, d < Today PROVE snapshots'[l][d] = snapshots[l][d]
  <2>1. d # Today
    BY <1>1, <1>5 DEF Days
  <2> QED BY <1>3, <2>1 DEF HistoryFits
<1>6. HistoryFits'
  BY <1>2, <1>4 DEF HistoryFits, Leads, Days
<1> QED BY <1>1, <1>5, <1>6 DEF PastStays

LEMMA NothingSaved ==
  ASSUME HistoryFits, ClockFits, now' = now, snapshots' = snapshots
  PROVE  PastStays
<1>1. Today' = Today /\ Today \in Nat /\ Today <= Today
  BY TodayIsADay DEF Today
<1> QED BY <1>1 DEF PastStays, HistoryFits

\* So what was told of a day that has come stays told.
LEMMA ToldStays ==
  ASSUME PastStays, ClockFits, NEW t, Told(t)
  PROVE  Told(t)'
<1>1. PICK p \in Before(t.lead, t.day) :
        /\ \A d \in Before(t.lead, t.day) : d <= p
        /\ \/ t.kind = "site_went_down" /\ snapshots[t.lead][p].up
           \/ t.kind = "site_recovered" /\ ~snapshots[t.lead][p].up
  BY DEF Told
<1>2. t.lead \in Leads /\ t.day \in Nat /\ t.day <= Today /\ Today \in Nat /\ MaxTime \div Day \in Nat
  BY TodayIsADay, DayGoesOn, SearchAssumption DEF Told
<1>3. ASSUME NEW d \in Days, d < t.day PROVE snapshots'[t.lead][d] = snapshots[t.lead][d]
  BY <1>2, <1>3 DEF PastStays, Days
<1>4. Before(t.lead, t.day)' = Before(t.lead, t.day)
  BY <1>3 DEF Before, Days
<1>5. p \in Days /\ p < t.day
  BY DEF Before
<1>6. snapshots'[t.lead][p] = snapshots[t.lead][p]
  BY <1>3, <1>5
<1>7. t.day <= Today'
  BY <1>2 DEF PastStays
<1> QED BY <1>1, <1>2, <1>4, <1>6, <1>7 DEF Told, Leads

\* A day at a time: what is filed is filed today.
LEMMA PastMoves == ASSUME CacheInv, HistoryFits, [Next]_vars PROVE PastStays
<1>1. ClockFits
  BY DEF CacheInv
<1>2. ASSUME NEW got, NEW changes, File(got, changes), now' = now PROVE PastStays
  <2>1. snapshots' = saveSnapshots(got) \/ snapshots' = snapshots
    BY <1>2 DEF File
  <2> QED BY <1>1, <1>2, <2>1, SavedToday, NothingSaved
<1>3. ASSUME NEW r \in Requests, Observe(r) PROVE PastStays
  <2>1. File(req[r].got, req[r].changes) /\ now' = now
    BY <1>3 DEF Observe, world
  <2> QED BY <1>2, <2>1
<1>4. CASE RefreshObserve
  <2>1. File(job.got, job.changes) /\ now' = now
    BY <1>4 DEF RefreshObserve, world
  <2> QED BY <1>2, <2>1
<1>5. CASE Tick
  <2>1. now' = now + 1 /\ snapshots' = snapshots
    BY <1>5 DEF Tick, history
  <2>2. Today \in Nat /\ Today <= Today'
    BY <1>1, <2>1, DayGoesOn, SearchAssumption DEF Today, ClockFits
  <2>3. Today' \in Nat
    BY <1>1, <2>1, DayGoesOn, SearchAssumption DEF Today, ClockFits
  <2> QED BY <2>1, <2>2, <2>3 DEF PastStays, HistoryFits
<1>6. CASE UNCHANGED <<now, snapshots>>
  BY <1>1, <1>6, NothingSaved
<1> QED
  BY <1>3, <1>4, <1>5, <1>6
     DEF Next, vars, world, history, BeginSearch, BeginSample, CountWatchlists, InsertWatchlist,
         DeleteWatchlist, Discover, Crawl, Compare, Recheck, Rank, MarkSeen, FileDiscovery, FileAudits,
         Answer, AnswerSample, Killed, BeginRefresh, RefreshSearch, RefreshCrawl, RefreshAudits,
         RefreshCompare, RefreshPurge, RefreshKilled

\* Nobody is at the point of filing changes but who was, with the same ones, and who has
\* just compared.
LEMMA WhoCompares ==
  ASSUME CacheInv, [Next]_vars, NEW r \in Requests, req'[r].at = "compared"
  PROVE  \/ req'[r] = req[r]
         \/ /\ At(r, "compared")
            /\ "changes" \in DOMAIN req[r] => "changes" \in DOMAIN req'[r] /\ req'[r].changes = req[r].changes
         \/ At(r, "crawled") /\ "changes" \in DOMAIN req'[r] /\ req'[r].changes = Changes(req[r].got)
<1> USE DEF CacheInv, RequestsFit
<1>1. DOMAIN req = Requests
  OBVIOUS
<1>2. ASSUME NEW s \in Requests, NEW e, req' = [req EXCEPT ![s] = e], e.at # "compared"
      PROVE  req'[r] = req[r]
  BY <1>1, <1>2
<1>3. ASSUME NEW s \in Requests, NEW fields, Go(s, fields), s # r PROVE req'[r] = req[r]
  BY <1>1, <1>3, GoMoves
<1>4. ASSUME NEW fields, Go(r, fields), "at" \in DOMAIN fields, fields.at # "compared" PROVE FALSE
  <2>1. req'[r] = With(fields, req[r])
    BY <1>1, <1>4, GoMoves
  <2> QED BY <1>4, <2>1 DEF With
<1>5. ASSUME Compare(r), ~UNCHANGED req
      PROVE  At(r, "crawled") /\ "changes" \in DOMAIN req'[r] /\ req'[r].changes = Changes(req[r].got)
  <2>1. Go(r, [at |-> "compared", changes |-> Changes(req[r].got)])
    <3>1. CASE Go(r, [at |-> "filed", changes |-> {}])
      <4> DEFINE fields == [at |-> "filed", changes |-> {}]
      <4>1. "at" \in DOMAIN fields /\ fields.at # "compared" /\ Go(r, fields)
        BY <3>1
      <4> QED BY <4>1, <1>4
    <3> QED BY <1>5, <3>1 DEF Compare
  <2>2. req'[r] = With([at |-> "compared", changes |-> Changes(req[r].got)], req[r])
    BY <1>1, <2>1, GoMoves
  <2> QED BY <1>5, <2>2 DEF With, Compare
<1>6. ASSUME FileDiscovery(r)
      PROVE  At(r, "compared") /\ ("changes" \in DOMAIN req[r] => "changes" \in DOMAIN req'[r] /\ req'[r].changes = req[r].changes)
  <2>1. req'[r] = With([file |-> {}], req[r]) /\ Fits(req[r], now) /\ InFlight(r) /\ ~At(r, "counted")
    BY <1>1, <1>6, GoMoves DEF FileDiscovery
  <2>2. "at" \in DOMAIN req[r]
    BY <2>1 DEF Fits, Asks, InFlight, At
  <2> QED BY <2>1, <2>2 DEF With, At
<1>7. ASSUME FileAudits(r) PROVE FALSE
  <2>1. req'[r] = With([fresh |-> {}], req[r]) /\ Fits(req[r], now) /\ req[r].at \in {"checked", "shown", "marked"}
    BY <1>1, <1>7, GoMoves DEF FileAudits
  <2>2. "at" \in DOMAIN req[r]
    BY <2>1 DEF Fits, Asks
  <2> QED BY <2>1, <2>2 DEF With
<1> SUFFICES ASSUME req'[r] # req[r]
             PROVE  \/ /\ At(r, "compared")
                       /\ "changes" \in DOMAIN req[r] => "changes" \in DOMAIN req'[r] /\ req'[r].changes = req[r].changes
                    \/ At(r, "crawled") /\ "changes" \in DOMAIN req'[r] /\ req'[r].changes = Changes(req[r].got)
  OBVIOUS
<1>8. ASSUME NEW s \in Requests, NEW p, NEW q,
             BeginSearch(s, p, q) \/ BeginSample(s, p, q) \/ CountWatchlists(s, p) \/ InsertWatchlist(s, q)
      PROVE  FALSE
  <2>1. PICK e : req' = [req EXCEPT ![s] = e] /\ e.at # "compared"
    <3>1. CASE BeginSearch(s, p, q)
      <4>1. ~UNCHANGED req
        OBVIOUS
      <4>2. PICK w, extra : req' = [req EXCEPT ![s] = [at |-> "admitted", kind |-> "search", who |-> p, query |-> q,
                                                  list |-> w, extra |-> extra]]
        BY <3>1, <4>1 DEF BeginSearch
      <4> QED BY <4>2
    <3>2. CASE BeginSample(s, p, q)
      <4>1. ~UNCHANGED req
        OBVIOUS
      <4>2. req' = [req EXCEPT ![s] = [at |-> "admitted", kind |-> "sample", who |-> p,
                                       query |-> q, list |-> None, extra |-> None]]
        BY <3>2, <4>1 DEF BeginSample
      <4> QED BY <4>2
    <3>3. CASE CountWatchlists(s, p)
      BY <3>3 DEF CountWatchlists
    <3>4. CASE InsertWatchlist(s, q)
      BY <3>4 DEF InsertWatchlist, Idle
    <3> QED BY <1>8, <3>1, <3>2, <3>3, <3>4
  <2> QED BY <1>2, <2>1
<1>9. ASSUME NEW s \in Requests, Rank(s) \/ Answer(s) \/ AnswerSample(s) \/ Killed(s) PROVE FALSE
  <2>1. PICK e : req' = [req EXCEPT ![s] = e] /\ e.at # "compared"
    BY <1>9 DEF Rank, Answer, AnswerSample, Killed, Idle
  <2> QED BY <1>2, <2>1
<1>10. ASSUME NEW s \in Requests, Discover(s) \/ Crawl(s) \/ Observe(s) \/ Recheck(s) \/ MarkSeen(s) PROVE FALSE
  <2>1. PICK fields : Go(s, fields) /\ "at" \in DOMAIN fields /\ fields.at # "compared"
    <3>1. CASE Discover(s)
      <4>1. PICK a, b, c : Go(s, [at |-> "found", file |-> a, since |-> b, leads |-> c])
        BY <3>1 DEF Discover
      <4> QED BY <4>1
    <3>2. CASE Crawl(s)
      <4>1. PICK a, b : Go(s, [at |-> "crawled", got |-> a, fresh |-> b])
        BY <3>2 DEF Crawl
      <4> QED BY <4>1
    <3>3. CASE Recheck(s)
      <4>1. PICK a, b : Go(s, [at |-> "checked", got |-> a, fresh |-> b])
        BY <3>3 DEF Recheck
      <4> QED BY <4>1
    <3>4. CASE Observe(s) \/ MarkSeen(s)
      BY <3>4 DEF Observe, MarkSeen
    <3> QED BY <1>10, <3>1, <3>2, <3>3, <3>4
  <2> QED BY <1>3, <1>4, <2>1
<1>11. ASSUME NEW s \in Requests, Compare(s) \/ FileDiscovery(s) \/ FileAudits(s) PROVE s = r
  <2>1. PICK fields : Go(s, fields)
    BY <1>11 DEF Compare, FileDiscovery, FileAudits
  <2> QED BY <1>3, <2>1
<1>12. CASE UNCHANGED req
  BY <1>12
<1>13. setting.slots \subseteq Requests
  BY SearchAssumption DEF ClockFits
<1> QED
  BY <1>5, <1>6, <1>7, <1>8, <1>9, <1>10, <1>11, <1>12, <1>13
     DEF Next, vars, DeleteWatchlist, BeginRefresh, RefreshSearch, RefreshCrawl, RefreshAudits, RefreshCompare,
         RefreshObserve, RefreshPurge, RefreshKilled, Tick

\* The job files what it has just compared.
LEMMA JobCompares ==
  ASSUME CacheInv, [Next]_vars, job'.at = "file"
  PROVE  \/ job' = job
         \/ \E got : DOMAIN got = job.found /\ job.at = "observe" /\ job'.changes = Changes(got)
<1>1. JobFits
  BY DEF CacheInv
<1>2. ASSUME RefreshCompare PROVE \E got : DOMAIN got = job.found /\ job.at = "observe" /\ job'.changes = Changes(got)
  <2>1. PICK got : DOMAIN got = job.found /\ job' = [job EXCEPT !.at = "file", !.got = got, !.changes = Changes(got)]
    BY <1>2 DEF RefreshCompare
  <2>2. job.at = "observe"
    BY <1>2 DEF RefreshCompare
  <2>3. job'.changes = Changes(got)
    BY <1>1, <2>1, <2>2 DEF JobFits, JobFields
  <2> QED BY <2>1, <2>2, <2>3
<1>3. ASSUME BeginRefresh \/ RefreshAudits \/ RefreshObserve \/ RefreshPurge \/ RefreshKilled PROVE FALSE
  BY <1>1, <1>3 DEF BeginRefresh, RefreshAudits, RefreshObserve, RefreshPurge, RefreshKilled, JobFits, JobFields
<1>4. ASSUME NEW q, RefreshSearch(q) PROVE FALSE
  <2>1. PICK todo, found : job' = [job EXCEPT !.todo = todo, !.found = found]
    BY <1>4 DEF RefreshSearch
  <2> QED BY <1>4, <2>1 DEF RefreshSearch
<1>5. ASSUME RefreshCrawl PROVE FALSE
  <2>1. PICK fresh : job' = [job EXCEPT !.at = "audits", !.fresh = fresh]
    BY <1>5 DEF RefreshCrawl
  <2>2. job.at = "searches"
    BY <1>5 DEF RefreshCrawl
  <2> QED BY <1>1, <2>1, <2>2 DEF JobFits, JobFields
<1> QED
  BY <1>2, <1>3, <1>4, <1>5
     DEF Next, vars, BeginSearch, BeginSample, CountWatchlists, InsertWatchlist, DeleteWatchlist, Discover,
         Crawl, Compare, Observe, Recheck, Rank, MarkSeen, FileDiscovery, FileAudits, Answer, AnswerSample,
         Killed, Tick

\* What is filed was about to be.
LEMMA WhatIsFiled ==
  ASSUME CacheInv, [Next]_vars, NEW t \in triggers'
  PROVE  \/ t \in triggers
         \/ \E r \in Requests : At(r, "compared") /\ t \in req[r].changes
         \/ job.at = "file" /\ t \in job.changes
<1>1. ASSUME NEW r \in Requests, Observe(r) PROVE triggers' \subseteq triggers \cup req[r].changes /\ At(r, "compared")
  BY <1>1 DEF Observe, File
<1>2. ASSUME RefreshObserve PROVE triggers' \subseteq triggers \cup job.changes /\ job.at = "file"
  BY <1>2 DEF RefreshObserve, File
<1>3. CASE triggers' = triggers
  BY <1>3
<1> QED
  BY <1>1, <1>2, <1>3
     DEF Next, vars, history, BeginSearch, BeginSample, CountWatchlists, InsertWatchlist, DeleteWatchlist,
         Discover, Crawl, Compare, Recheck, Rank, MarkSeen, FileDiscovery, FileAudits, Answer, AnswerSample,
         Killed, BeginRefresh, RefreshSearch, RefreshCrawl, RefreshAudits, RefreshCompare, RefreshPurge,
         RefreshKilled, Tick

LEMMA StoryMoves == ASSUME CacheInv, StoryInv, [Next]_vars PROVE StoryInv'
<1>1. ClockFits /\ PastStays
  BY PastMoves DEF CacheInv, StoryInv
<1>2. ASSUME NEW t, Told(t) PROVE Told(t)'
  BY <1>1, <1>2, ToldStays
<1>3. ASSUME NEW got, DOMAIN got \subseteq Leads, NEW t \in Changes(got) PROVE Told(t)
  BY <1>1, <1>3, ChangesAreTold
<1>4. ASSUME NEW t \in triggers' PROVE Told(t)'
  <2>1. Told(t)
    BY WhatIsFiled DEF StoryInv
  <2> QED BY <1>2, <2>1
<1>5. ASSUME NEW r \in Requests, req'[r].at = "compared"
      PROVE  "changes" \in DOMAIN req'[r] /\ \A t \in req'[r].changes : Told(t)'
  <2>1. "changes" \in DOMAIN req'[r] /\ \A t \in req'[r].changes : Told(t)
    <3>1. CASE req'[r] = req[r]
      BY <1>5, <3>1 DEF StoryInv, At
    <3>2. CASE /\ At(r, "compared")
               /\ "changes" \in DOMAIN req[r] => "changes" \in DOMAIN req'[r] /\ req'[r].changes = req[r].changes
      BY <3>2 DEF StoryInv
    <3>3. CASE At(r, "crawled") /\ "changes" \in DOMAIN req'[r] /\ req'[r].changes = Changes(req[r].got)
      <4>1. DOMAIN req[r].got \subseteq Leads
        BY <3>3 DEF CacheInv, RequestsFit, Fits, Finds, Crawls, At
      <4>2. PICK got : got = req[r].got
        OBVIOUS
      <4> QED BY <1>3, <3>3, <4>1, <4>2
    <3> QED BY <1>5, <3>1, <3>2, <3>3, WhoCompares
  <2> QED BY <1>2, <2>1
<1>6. ASSUME job'.at = "file", NEW t \in job'.changes PROVE Told(t)'
  <2>1. Told(t)
    <3>1. CASE job' = job
      BY <1>6, <3>1 DEF StoryInv
    <3>2. CASE \E got : DOMAIN got = job.found /\ job.at = "observe" /\ job'.changes = Changes(got)
      <4>1. job.found \subseteq Leads
        BY <3>2 DEF CacheInv, JobFits
      <4> QED BY <1>3, <1>6, <3>2, <4>1
    <3> QED BY <1>6, <3>1, <3>2, JobCompares
  <2> QED BY <1>2, <2>1
<1>7. HistoryFits'
  BY <1>1 DEF PastStays
<1> QED BY <1>4, <1>5, <1>6, <1>7 DEF StoryInv, At

\* Whatever is told of a business on one day is told by the same earlier observation: the
\* latest before that day, which nobody changes any more.
THEOREM ChangesAreOfADay == Spec => []StoryInv
<1>1. Init => StoryInv
  <2> SUFFICES ASSUME Init PROVE StoryInv
    OBVIOUS
  <2>1. HistoryFits
    BY DEF Init, HistoryFits
  <2> QED BY <2>1 DEF Init, StoryInv, At, Idle
<1>2. CacheInv /\ StoryInv /\ [Next]_vars => StoryInv'
  BY StoryMoves
<1> QED BY <1>1, <1>2, CachesKeepDates, PTL DEF Spec

\* All who look at a business on one day tell one story of it.
THEOREM StoriesAgree == Spec => []OneStoryADay
<1>1. StoryInv => OneStoryADay
  <2> SUFFICES ASSUME StoryInv, NEW s \in triggers, NEW t \in triggers, s.lead = t.lead, s.day = t.day
               PROVE  s.kind = t.kind
    BY DEF OneStoryADay
  <2> DEFINE L == Before(s.lead, s.day)
  <2>1. PICK p \in L : /\ \A d \in L : d <= p
                       /\ \/ s.kind = "site_went_down" /\ snapshots[s.lead][p].up
                          \/ s.kind = "site_recovered" /\ ~snapshots[s.lead][p].up
    BY DEF StoryInv, Told
  <2>2. PICK q \in L : /\ \A d \in L : d <= q
                       /\ \/ t.kind = "site_went_down" /\ snapshots[s.lead][q].up
                          \/ t.kind = "site_recovered" /\ ~snapshots[s.lead][q].up
    BY DEF StoryInv, Told
  <2>3. p <= q /\ q <= p /\ p \in Int /\ q \in Int
    BY <2>1, <2>2, DayGoesOn, SearchAssumption DEF Before, Days
  <2>4. p = q
    BY <2>3
  <2> QED BY <2>1, <2>2, <2>4
<1> QED BY <1>1, ChangesAreOfADay, PTL

-----------------------------------------------------------------------------
(* The watchlists.                                                                     *)

\* A run that is about to announce stays as it is, or ends.
Quiet ==
  \A r \in Requests, w \in Lists : OnList(req'[r], w) =>
    OnList(req[r], w) /\ req'[r].new = req[r].new /\ (req'[r].at = "marked" => req[r].at = "marked")

\* Nothing about a list changes when no run gets to it and nobody touches it.
LEMMA StaysOrderly ==
  ASSUME Quiet, NEW w \in Lists, Orderly(w), watch'[w] = watch[w], announced'[w] = announced[w]
  PROVE  Orderly(w)'
<1>1. \A l \in Leads : announced'[w][l] <= 1 /\ (announced'[w][l] = 1 => l \in watch'[w].seen)
  BY DEF Orderly
<1>2. \A r, s \in Requests : OnList(req'[r], w) /\ OnList(req'[s], w) => r = s
  BY DEF Orderly, Quiet
<1>3. ASSUME NEW r \in Requests, OnList(req'[r], w), NEW l \in Leads, l \in req'[r].new
      PROVE  announced'[w][l] = 0 /\ (req'[r].at = "marked" => l \in watch'[w].seen)
  <2>1. OnList(req[r], w) /\ req'[r].new = req[r].new /\ (req'[r].at = "marked" => req[r].at = "marked")
    BY <1>3 DEF Quiet
  <2> QED BY <1>3, <2>1 DEF Orderly, At
<1> QED BY <1>1, <1>2, <1>3 DEF Orderly, At, Leads, Sources

LEMMA QuietStep ==
  ASSUME ListsInv, Quiet, UNCHANGED lists
  PROVE  ListsInv'
<1>1. watch' = watch /\ announced' = announced /\ disturbed' = disturbed
  BY DEF lists
<1>2. ListsFit'
  BY <1>1 DEF ListsInv, ListsFit, Leads, Sources
<1>3. ASSUME NEW w \in Lists \ disturbed', watch'[w] # None PROVE Orderly(w)'
  BY <1>1, <1>3, StaysOrderly DEF ListsInv
<1> QED BY <1>2, <1>3 DEF ListsInv

\* Only Rank and MarkSeen bring a run to the point of announcing.
NoneGetsOn == \A r \in Requests : ~Rank(r) /\ ~MarkSeen(r)

LEMMA OthersAreQuiet ==
  ASSUME CacheInv, [Next]_vars, NoneGetsOn
  PROVE  Quiet
<1> USE DEF CacheInv, RequestsFit
<1>1. DOMAIN req = Requests
  OBVIOUS
<1>2. ASSUME NEW s \in Requests, NEW e, req' = [req EXCEPT ![s] = e], e.at \notin KeptAt
      PROVE  Quiet
  BY <1>1, <1>2 DEF Quiet, OnList
<1>3. ASSUME NEW s \in Requests, NEW fields, Go(s, fields), "at" \in DOMAIN fields, fields.at \notin KeptAt
      PROVE  Quiet
  <2>1. req'[s] = With(fields, req[s]) /\ \A r \in Requests \ {s} : req'[r] = req[r]
    BY <1>1, <1>3, GoMoves
  <2>2. req'[s].at = fields.at
    BY <1>3, <2>1 DEF With
  <2> QED BY <1>3, <2>1, <2>2 DEF Quiet, OnList
<1>4. ASSUME NEW s \in Requests, NEW fields, Go(s, fields), DOMAIN fields \cap {"at", "list", "new"} = {},
             InFlight(s), ~At(s, "counted")
      PROVE  Quiet
  <2>1. req'[s] = With(fields, req[s]) /\ \A r \in Requests \ {s} : req'[r] = req[r]
    BY <1>1, <1>4, GoMoves
  <2>2. {"at", "list"} \subseteq DOMAIN req[s] /\ (req[s].at \in KeptAt => "new" \in DOMAIN req[s])
    BY <1>4 DEF Fits, Asks, Shows, InFlight, At
  <2>3. /\ req'[s].at = req[s].at /\ req'[s].list = req[s].list
        /\ req[s].at \in KeptAt => req'[s].new = req[s].new
    BY <1>4, <2>1, <2>2 DEF With
  <2> QED BY <2>1, <2>3 DEF Quiet, OnList
<1>5. ASSUME NEW s \in Requests, NEW p, NEW q,
             BeginSearch(s, p, q) \/ BeginSample(s, p, q) \/ CountWatchlists(s, p) \/ InsertWatchlist(s, q)
      PROVE  Quiet
  <2>1. CASE UNCHANGED req
    BY <2>1 DEF Quiet
  <2>2. CASE ~UNCHANGED req
    <3>1. PICK e : req' = [req EXCEPT ![s] = e] /\ e.at \notin KeptAt
      <4>1. CASE BeginSearch(s, p, q)
        <5>1. PICK w, extra : req' = [req EXCEPT ![s] = [at |-> "admitted", kind |-> "search", who |-> p,
                                                    query |-> q, list |-> w, extra |-> extra]]
          BY <2>2, <4>1 DEF BeginSearch
        <5> DEFINE e == [at |-> "admitted", kind |-> "search", who |-> p, query |-> q, list |-> w, extra |-> extra]
        <5>2. e.at \notin KeptAt
          OBVIOUS
        <5> QED BY <5>1, <5>2
      <4>2. CASE BeginSample(s, p, q)
        <5>1. req' = [req EXCEPT ![s] = [at |-> "admitted", kind |-> "sample", who |-> p,
                                         query |-> q, list |-> None, extra |-> None]]
          BY <2>2, <4>2 DEF BeginSample
        <5> DEFINE e == [at |-> "admitted", kind |-> "sample", who |-> p, query |-> q, list |-> None, extra |-> None]
        <5>2. e.at \notin KeptAt
          OBVIOUS
        <5> QED BY <5>1, <5>2
      <4>3. CASE CountWatchlists(s, p)
        <5> DEFINE e == [at |-> "counted", who |-> p]
        <5>1. e.at \notin KeptAt
          OBVIOUS
        <5> QED BY <4>3, <5>1 DEF CountWatchlists
      <4>4. CASE InsertWatchlist(s, q)
        <5>1. Idle.at \notin KeptAt
          BY DEF Idle
        <5> QED BY <4>4, <5>1 DEF InsertWatchlist
      <4> QED BY <1>5, <4>1, <4>2, <4>3, <4>4
    <3> QED BY <1>2, <3>1
  <2> QED BY <2>1, <2>2
<1>6. ASSUME NEW s \in Requests, Answer(s) \/ AnswerSample(s) \/ Killed(s) PROVE Quiet
  <2>1. PICK e : req' = [req EXCEPT ![s] = e] /\ e.at \notin KeptAt
    BY <1>6 DEF Answer, AnswerSample, Killed, Idle
  <2> QED BY <1>2, <2>1
<1>7. ASSUME NEW s \in Requests, Discover(s) \/ Crawl(s) \/ Observe(s) \/ Recheck(s) \/ Compare(s) PROVE Quiet
  <2>1. PICK fields : Go(s, fields) /\ "at" \in DOMAIN fields /\ fields.at \notin KeptAt
    <3>1. CASE Discover(s)
      <4>1. PICK a, b, c : Go(s, [at |-> "found", file |-> a, since |-> b, leads |-> c])
        BY <3>1 DEF Discover
      <4> QED BY <4>1
    <3>2. CASE Crawl(s)
      <4>1. PICK a, b : Go(s, [at |-> "crawled", got |-> a, fresh |-> b])
        BY <3>2 DEF Crawl
      <4> QED BY <4>1
    <3>3. CASE Recheck(s)
      <4>1. PICK a, b : Go(s, [at |-> "checked", got |-> a, fresh |-> b])
        BY <3>3 DEF Recheck
      <4> QED BY <4>1
    <3>4. CASE Observe(s) \/ Compare(s)
      BY <3>4 DEF Observe, Compare
    <3> QED BY <1>7, <3>1, <3>2, <3>3, <3>4
  <2> QED BY <1>3, <2>1
<1>8. ASSUME NEW s \in Requests, FileDiscovery(s) \/ FileAudits(s) PROVE Quiet
  <2>1. PICK fields : Go(s, fields) /\ DOMAIN fields \cap {"at", "list", "new"} = {}
    BY <1>8 DEF FileDiscovery, FileAudits
  <2>2. InFlight(s) /\ ~At(s, "counted")
    BY <1>8 DEF FileDiscovery, FileAudits, InFlight, At
  <2> QED BY <1>4, <2>1, <2>2
<1>9. CASE UNCHANGED req
  BY <1>9 DEF Quiet
<1>10. setting.slots \subseteq Requests
  BY SearchAssumption DEF ClockFits
<1> QED
  BY <1>5, <1>6, <1>7, <1>8, <1>9, <1>10
     DEF Next, vars, NoneGetsOn, DeleteWatchlist, BeginRefresh, RefreshSearch, RefreshCrawl, RefreshAudits, RefreshCompare,
         RefreshObserve, RefreshPurge, RefreshKilled, Tick

\* A run that shows a page while no other is between the two: none of what it calls new was
\* announced before.
LEMMA RankKeepsOrder ==
  ASSUME NEW r \in Requests, CacheInv, ListsInv, Rank(r)
  PROVE  ListsInv'
<1> DEFINE e == req[r]  w == req[r].list
<1>1. /\ DOMAIN req = Requests /\ e.at = "checked" /\ w \in Lists \cup {None}
      /\ watch' = watch /\ announced' = announced
  BY DEF CacheInv, RequestsFit, Fits, Asks, Rank, At
<1> DEFINE seen == IF w = None \/ watch[w] = None THEN {} ELSE watch[w].seen
<1>2. PICK known, top, visible :
        /\ req' = [req EXCEPT ![r] = [at |-> "shown", query |-> e.query, list |-> w, file |-> e.file,
                                      since |-> e.since, fresh |-> e.fresh, top |-> top, new |-> visible \ known]]
        /\ \/ known = seen /\ disturbed' = IF w # None /\ Between(w) # {} THEN disturbed \cup {w} ELSE disturbed
           \/ w # None /\ disturbed' = disturbed \cup {w}
  BY DEF Rank
<1> DEFINE d == [at |-> "shown", query |-> e.query, list |-> w, file |-> e.file,
                 since |-> e.since, fresh |-> e.fresh, top |-> top, new |-> visible \ known]
<1>3. d.at = "shown" /\ d.list = w /\ d.new = visible \ known
  OBVIOUS
<1>4. req'[r] = d /\ \A s \in Requests \ {r} : req'[s] = req[s]
  BY <1>1, <1>2
<1> HIDE DEF d, seen
<1>5. ListsFit'
  BY <1>1 DEF ListsInv, ListsFit, Leads, Sources
<1>6. ASSUME NEW v \in Lists \ disturbed', watch'[v] # None PROVE Orderly(v)'
  <2>1. v \notin disturbed /\ watch[v] # None /\ Orderly(v)
    BY <1>1, <1>2, <1>6 DEF ListsInv
  <2>2. announced[v] \in [Leads -> Nat] /\ v # None
    BY SearchAssumption DEF ListsInv, ListsFit
  <2>3. \A l \in Leads : announced'[v][l] <= 1 /\ (announced'[v][l] = 1 => l \in watch'[v].seen)
    BY <1>1, <2>1 DEF Orderly
  <2>4. v = w => known = watch[v].seen /\ \A s \in Requests : ~OnList(req[s], v)
    <3> SUFFICES ASSUME v = w PROVE known = watch[v].seen /\ \A s \in Requests : ~OnList(req[s], v)
      OBVIOUS
    <3>1. known = seen /\ Between(w) = {}
      BY <1>2, <1>6, <2>2
    <3>2. seen = watch[v].seen
      BY <2>1, <2>2 DEF seen
    <3>3. ASSUME NEW s \in Requests, OnList(req[s], v) PROVE FALSE
      <4>1. "list" \in DOMAIN req[s]
        BY <3>3 DEF CacheInv, RequestsFit, Fits, Asks, OnList
      <4>2. s \in Between(w)
        BY <3>3, <4>1 DEF Between, Runs, OnList
      <4> QED BY <3>1, <4>2
    <3> QED BY <3>1, <3>2, <3>3
  <2>5. ASSUME NEW s \in Requests, NEW t \in Requests, OnList(req'[s], v), OnList(req'[t], v) PROVE s = t
    <3>1. CASE v = w
      <4>1. ASSUME NEW x \in Requests, OnList(req'[x], v) PROVE x = r
        BY <1>4, <2>4, <3>1, <4>1
      <4> QED BY <2>5, <4>1
    <3>2. CASE v # w
      <4>1. ASSUME NEW x \in Requests, OnList(req'[x], v) PROVE x # r /\ OnList(req[x], v)
        BY <1>3, <1>4, <3>2, <4>1 DEF OnList
      <4>2. OnList(req[s], v) /\ OnList(req[t], v)
        BY <2>5, <4>1
      <4> QED BY <2>1, <4>2 DEF Orderly
    <3> QED BY <3>1, <3>2
  <2>6. ASSUME NEW s \in Requests, OnList(req'[s], v), NEW l \in Leads, l \in req'[s].new
        PROVE  announced'[v][l] = 0 /\ (req'[s].at = "marked" => l \in watch'[v].seen)
    <3>1. CASE s = r
      <4>1. v = w /\ l \notin known /\ req'[s].at # "marked"
        BY <1>3, <1>4, <2>6, <3>1 DEF OnList
      <4>2. announced[v][l] # 1 /\ announced[v][l] <= 1 /\ announced[v][l] \in Nat
        BY <2>1, <2>2, <2>4, <4>1 DEF Orderly
      <4>3. announced[v][l] = 0
        BY <4>2
      <4> QED BY <1>1, <4>1, <4>3
    <3>2. CASE s # r
      <4>1. req'[s] = req[s]
        BY <1>4, <3>2
      <4> QED BY <1>1, <2>1, <2>6, <4>1 DEF Orderly, At
    <3> QED BY <3>1, <3>2
  <2> QED BY <2>3, <2>5, <2>6 DEF Orderly, At, Leads, Sources
<1> QED BY <1>5, <1>6 DEF ListsInv

\* What a run shows is marked as seen before it is announced.
LEMMA MarkKeepsOrder ==
  ASSUME NEW r \in Requests, CacheInv, ListsInv, MarkSeen(r)
  PROVE  ListsInv'
<1> DEFINE e == req[r]  w == req[r].list
<1>1. /\ DOMAIN req = Requests /\ e.at = "shown" /\ w \in Lists \cup {None} /\ e.new \subseteq e.top
      /\ {"at", "list", "top", "new"} \subseteq DOMAIN e /\ announced' = announced
  BY DEF CacheInv, RequestsFit, Fits, Asks, Shows, MarkSeen, At
<1>2. req'[r] = With([at |-> "marked"], e) /\ \A s \in Requests \ {r} : req'[s] = req[s]
  BY <1>1, GoMoves DEF MarkSeen
<1>3. req'[r].at = "marked" /\ req'[r].list = w /\ req'[r].new = e.new
  BY <1>1, <1>2 DEF With
<1>4. \A s \in Requests, v \in Lists : OnList(req'[s], v) => OnList(req[s], v) /\ req'[s].new = req[s].new
  BY <1>1, <1>2, <1>3 DEF OnList
<1>5. \/ watch' = watch /\ ((disturbed' = disturbed /\ w = None) \/ disturbed' = disturbed \cup {w})
      \/ /\ disturbed' = disturbed /\ w # None
         /\ watch' = markSeen(w, e.top, Cardinality(e.new))
  BY DEF MarkSeen
<1>6. ASSUME NEW v \in Lists, watch'[v] # None
      PROVE  /\ watch[v] # None /\ "seen" \in DOMAIN watch'[v] /\ watch[v].seen \subseteq watch'[v].seen
             /\ v = w /\ v \notin disturbed' => e.top \subseteq watch'[v].seen
  <2>1. CASE watch' = watch /\ ((disturbed' = disturbed /\ w = None) \/ disturbed' = disturbed \cup {w})
    BY <1>6, <2>1, SearchAssumption DEF ListsInv, ListsFit
  <2>3. CASE watch' = markSeen(w, e.top, Cardinality(e.new)) /\ watch[w] = None
    <3>1. watch' = watch /\ v # w
      BY <1>6, <2>3 DEF markSeen
    <3> QED BY <1>6, <3>1 DEF ListsInv, ListsFit
  <2>2. CASE watch' = markSeen(w, e.top, Cardinality(e.new)) /\ watch[w] # None
    <3>1. watch' = [watch EXCEPT ![w].seen = @ \cup e.top, ![w].newCount = Cardinality(e.new)] /\ watch[w] # None
      BY <2>2 DEF markSeen
    <3>2. CASE v = w
      <4>1. DOMAIN watch = Lists /\ "seen" \in DOMAIN watch[v]
        BY <3>1, <3>2 DEF ListsInv, ListsFit
      <4>2. watch'[v] = [watch[v] EXCEPT !.seen = @ \cup e.top, !.newCount = Cardinality(e.new)]
        BY <3>1, <3>2, <4>1
      <4>3. watch'[v].seen = watch[v].seen \cup e.top /\ "seen" \in DOMAIN watch'[v]
        BY <4>1, <4>2
      <4> QED BY <3>1, <3>2, <4>3
    <3>3. CASE v # w
      <4>1. watch'[v] = watch[v]
        BY <3>1, <3>3 DEF ListsInv, ListsFit
      <4> QED BY <1>6, <3>3, <4>1 DEF ListsInv, ListsFit
    <3> QED BY <3>2, <3>3
  <2> QED BY <1>5, <2>1, <2>2, <2>3
<1>7. DOMAIN watch' = Lists
  BY <1>5 DEF markSeen, ListsInv, ListsFit
<1>8. ListsFit'
  BY <1>1, <1>6, <1>7 DEF ListsInv, ListsFit, Leads, Sources
<1>9. ASSUME NEW v \in Lists \ disturbed', watch'[v] # None PROVE Orderly(v)'
  <2>1. /\ v \notin disturbed /\ watch[v] # None /\ watch[v].seen \subseteq watch'[v].seen
        /\ v = w => e.top \subseteq watch'[v].seen
    BY <1>5, <1>6, <1>9
  <2>2. Orderly(v)
    BY <2>1 DEF ListsInv
  <2>3. \A l \in Leads : announced'[v][l] <= 1 /\ (announced'[v][l] = 1 => l \in watch'[v].seen)
    BY <1>1, <2>1, <2>2 DEF Orderly
  <2>4. \A s, t \in Requests : OnList(req'[s], v) /\ OnList(req'[t], v) => s = t
    BY <1>4, <2>2 DEF Orderly
  <2>5. ASSUME NEW s \in Requests, OnList(req'[s], v), NEW l \in Leads, l \in req'[s].new
        PROVE  announced'[v][l] = 0 /\ (req'[s].at = "marked" => l \in watch'[v].seen)
    <3>1. OnList(req[s], v) /\ l \in req[s].new
      BY <1>4, <2>5
    <3>2. announced[v][l] = 0 /\ (req[s].at = "marked" => l \in watch[v].seen)
      BY <2>2, <3>1 DEF Orderly, At
    <3>3. s = r => l \in watch'[v].seen
      BY <1>1, <2>1, <3>1 DEF OnList
    <3>4. s # r => req'[s] = req[s]
      BY <1>2
    <3> QED BY <1>1, <2>1, <3>2, <3>3, <3>4
  <2> QED BY <2>3, <2>4, <2>5 DEF Orderly, At, Leads, Sources
<1> QED BY <1>8, <1>9 DEF ListsInv

\* An announcement is of leads the list has seen by then, and ends the run.
LEMMA AnswerKeepsOrder ==
  ASSUME NEW r \in Requests, CacheInv, ListsInv, Answer(r)
  PROVE  ListsInv'
<1> DEFINE e == req[r]  w == req[r].list
<1>1. /\ DOMAIN req = Requests /\ e.at = "marked" /\ w \in Lists \cup {None}
      /\ watch' = watch /\ disturbed' = disturbed
  BY DEF CacheInv, RequestsFit, Fits, Asks, Answer, At
<1>2. announced' = IF w = None THEN announced
                   ELSE [announced EXCEPT ![w] = [l \in Leads |->
                           IF l \in e.new /\ @[l] < 2 THEN @[l] + 1 ELSE @[l]]]
  BY DEF Answer
<1>3. req'[r] = Idle /\ \A s \in Requests \ {r} : req'[s] = req[s]
  BY <1>1 DEF Answer
<1>4. \A s \in Requests, v \in Lists : OnList(req'[s], v) => s # r /\ req'[s] = req[s] /\ OnList(req[s], v)
  BY <1>3 DEF OnList, Idle
<1>5. ASSUME NEW v \in Lists
      PROVE  \/ announced'[v] = announced[v]
             \/ v = w /\ announced'[v] = [l \in Leads |->
                           IF l \in e.new /\ announced[v][l] < 2 THEN announced[v][l] + 1 ELSE announced[v][l]]
  BY <1>2 DEF ListsInv, ListsFit
<1>6. ASSUME NEW v \in Lists PROVE announced'[v] \in [Leads -> Nat]
  <2>1. announced[v] \in [Leads -> Nat]
    BY DEF ListsInv, ListsFit
  <2>2. \A l \in Leads : announced[v][l] + 1 \in Nat
    BY <2>1
  <2> HIDE DEF e, w
  <2> QED BY <1>5, <2>1, <2>2
<1>7. DOMAIN announced' = Lists
  BY <1>2 DEF ListsInv, ListsFit
<1>8. ListsFit'
  BY <1>1, <1>6, <1>7 DEF ListsInv, ListsFit, Leads, Sources
<1>9. ASSUME NEW v \in Lists \ disturbed', watch'[v] # None PROVE Orderly(v)'
  <2>1. Orderly(v)
    BY <1>1, <1>9 DEF ListsInv
  <2>2. \A s, t \in Requests : OnList(req'[s], v) /\ OnList(req'[t], v) => s = t
    BY <1>4, <2>1 DEF Orderly
  <2>3. CASE announced'[v] = announced[v]
    <3>1. \A l \in Leads : announced'[v][l] <= 1 /\ (announced'[v][l] = 1 => l \in watch'[v].seen)
      BY <1>1, <2>1, <2>3 DEF Orderly
    <3>2. \A s \in Requests : OnList(req'[s], v) =>
            \A l \in Leads : l \in req'[s].new =>
              announced'[v][l] = 0 /\ (req'[s].at = "marked" => l \in watch'[v].seen)
      BY <1>1, <1>4, <2>1, <2>3 DEF Orderly, At
    <3> QED BY <2>2, <3>1, <3>2 DEF Orderly, At, Leads, Sources
  <2>4. CASE v = w /\ announced'[v] = [l \in Leads |->
               IF l \in e.new /\ announced[v][l] < 2 THEN announced[v][l] + 1 ELSE announced[v][l]]
    <3>1. OnList(req[r], v)
      BY <1>1, <2>4 DEF OnList
    <3>2. \A s \in Requests : ~OnList(req'[s], v)
      BY <1>4, <2>1, <3>1 DEF Orderly
    <3>3. ASSUME NEW l \in Leads PROVE announced'[v][l] <= 1 /\ (announced'[v][l] = 1 => l \in watch'[v].seen)
      <4>1. CASE l \in e.new
        <5>1. announced[v][l] = 0 /\ l \in watch[v].seen
          BY <1>1, <2>1, <3>1, <4>1 DEF Orderly, At
        <5>2. announced'[v][l] = 1
          BY <2>4, <4>1, <5>1
        <5> QED BY <1>1, <5>1, <5>2
      <4>2. CASE l \notin e.new
        <5>1. announced'[v][l] = announced[v][l]
          BY <2>4, <4>2
        <5> QED BY <1>1, <2>1, <5>1 DEF Orderly
      <4> QED BY <4>1, <4>2
    <3> QED BY <3>2, <3>3 DEF Orderly, Leads, Sources
  <2> QED BY <1>5, <2>3, <2>4
<1> QED BY <1>8, <1>9 DEF ListsInv

\* A list that is saved has announced nothing and nobody runs for it.
LEMMA InsertKeepsOrder ==
  ASSUME NEW r \in Requests, NEW q, CacheInv, ListsInv, InsertWatchlist(r, q)
  PROVE  ListsInv'
<1>1. DOMAIN req = Requests
  BY DEF CacheInv, RequestsFit
<1>2. PICK w \in setting.lists :
        /\ watch[w] = None /\ Runs(w) = {} /\ \A l \in Leads : announced[w][l] = 0
        /\ watch' = [watch EXCEPT ![w] = [owner |-> req[r].who, query |-> q, seen |-> {}, newCount |-> 0]]
  BY DEF InsertWatchlist
<1>3. announced' = announced /\ disturbed' = disturbed /\ req'[r] = Idle /\ \A s \in Requests \ {r} : req'[s] = req[s]
  BY <1>1 DEF InsertWatchlist
<1> DEFINE row == [owner |-> req[r].who, query |-> q, seen |-> {}, newCount |-> 0]
<1>4. row.seen = {} /\ "seen" \in DOMAIN row
  OBVIOUS
<1> HIDE DEF row
<1>5. DOMAIN watch' = Lists /\ \A v \in Lists : IF v = w THEN watch'[v] = row ELSE watch'[v] = watch[v]
  BY <1>2 DEF ListsInv, ListsFit, row
<1>6. ListsFit'
  BY <1>3, <1>4, <1>5 DEF ListsInv, ListsFit, Leads, Sources
<1>7. \A s \in Requests, v \in Lists : OnList(req'[s], v) => s # r /\ req'[s] = req[s] /\ OnList(req[s], v)
  BY <1>3 DEF OnList, Idle
<1>8. Quiet
  BY <1>7 DEF Quiet
<1>9. ASSUME NEW v \in Lists \ disturbed', watch'[v] # None PROVE Orderly(v)'
  <2>1. CASE v = w
    <3>1. ASSUME NEW s \in Requests, OnList(req'[s], v) PROVE FALSE
      <4>1. OnList(req[s], v) /\ "list" \in DOMAIN req[s]
        BY <1>7, <3>1 DEF CacheInv, RequestsFit, Fits, Asks, OnList
      <4>2. s \in Runs(w)
        BY <2>1, <4>1 DEF Runs, OnList
      <4> QED BY <1>2, <4>2
    <3>2. \A l \in Leads : announced'[v][l] = 0
      BY <1>2, <1>3, <2>1
    <3> QED BY <3>1, <3>2 DEF Orderly, Leads, Sources
  <2>2. CASE v # w
    <3>1. watch'[v] = watch[v] /\ announced'[v] = announced[v] /\ Orderly(v)
      BY <1>3, <1>5, <1>9, <2>2 DEF ListsInv
    <3> QED BY <1>8, <3>1, StaysOrderly
  <2> QED BY <2>1, <2>2
<1> QED BY <1>6, <1>9 DEF ListsInv

LEMMA DeleteKeepsOrder ==
  ASSUME NEW w \in Lists, CacheInv, ListsInv, DeleteWatchlist(w)
  PROVE  ListsInv'
<1>1. watch' = [watch EXCEPT ![w] = None] /\ announced' = announced /\ disturbed' = disturbed /\ req' = req
  BY DEF DeleteWatchlist
<1>2. \A v \in Lists : watch'[v] # None => watch'[v] = watch[v]
  BY <1>1 DEF ListsInv, ListsFit
<1>3. DOMAIN watch' = Lists
  BY <1>1 DEF ListsInv, ListsFit
<1>4. ListsFit'
  BY <1>1, <1>2, <1>3 DEF ListsInv, ListsFit, Leads, Sources
<1>5. Quiet
  BY <1>1 DEF Quiet
<1>6. ASSUME NEW v \in Lists \ disturbed', watch'[v] # None PROVE Orderly(v)'
  BY <1>1, <1>2, <1>5, <1>6, StaysOrderly DEF ListsInv
<1> QED BY <1>4, <1>6 DEF ListsInv

LEMMA ListsMove == ASSUME CacheInv, ListsInv, [Next]_vars PROVE ListsInv'
<1>1. ASSUME NEW r \in Requests, Rank(r) \/ MarkSeen(r) \/ Answer(r) PROVE ListsInv'
  BY <1>1, RankKeepsOrder, MarkKeepsOrder, AnswerKeepsOrder
<1>2. ASSUME NEW r \in Requests, NEW q, InsertWatchlist(r, q) PROVE ListsInv'
  BY <1>2, InsertKeepsOrder
<1>3. ASSUME NEW w \in Lists, DeleteWatchlist(w) PROVE ListsInv'
  BY <1>3, DeleteKeepsOrder
<1>4. CASE NoneGetsOn /\ UNCHANGED lists
  BY <1>4, OthersAreQuiet, QuietStep
<1>5. CASE ~NoneGetsOn
  BY <1>1, <1>5 DEF NoneGetsOn
<1> QED
  BY <1>1, <1>2, <1>3, <1>4, <1>5
     DEF Next, vars, BeginSearch, BeginSample, CountWatchlists, Discover, Crawl, Compare, Observe, Recheck,
         FileDiscovery, FileAudits, AnswerSample, Killed, BeginRefresh, RefreshSearch, RefreshCrawl,
         RefreshAudits, RefreshCompare, RefreshObserve, RefreshPurge, RefreshKilled, Tick

\* On a list that nothing disturbed one run at a time is about to announce, only what the
\* list had not announced, and what it announced it has seen.
THEOREM ListsAreOrderly == Spec => []ListsInv
<1>1. Init => ListsInv
  <2> SUFFICES ASSUME Init PROVE ListsInv
    OBVIOUS
  <2>1. ListsFit
    BY DEF Init, ListsFit
  <2> QED BY <2>1 DEF Init, ListsInv
<1>2. CacheInv /\ ListsInv /\ [Next]_vars => ListsInv'
  BY ListsMove
<1> QED BY <1>1, <1>2, CachesKeepDates, PTL DEF Spec

\* A watchlist calls a lead new once.
THEOREM NewIsNewOnce == Spec => []NewOnce
<1>1. ListsInv => NewOnce
  BY DEF ListsInv, Orderly, NewOnce
<1> QED BY <1>1, ListsAreOrderly, PTL
=============================================================================
