-------------------------------- MODULE Audit --------------------------------
(***************************************************************************)
(* The crawl of one homepage that decides whether a business is said to be *)
(* down, insecure or out of date: two schemes tried in a hurry and then    *)
(* with patience, each request twice, under a deadline the caller may set. *)
(* Time is counted in seconds and moves with the requests.                 *)
(***************************************************************************)
EXTENDS Integers, Sequences, FiniteSetsExt

CONSTANTS
  Latencies,    \* seconds until a scheme answers, also longer than any wait
  BodyTimes,    \* seconds until the page is read after its headers
  Deadlines     \* deadlines a caller may set; {} for none, {n} for second n

VARIABLES site, deadline, now, attempt, retry, limit, phase, secure, audit
vars == <<site, deadline, now, attempt, retry, limit, phase, secure, audit>>

\* What the crawl meets: when each scheme answers, whether the host turns down our headers,
\* whether plain HTTP is sent on to HTTPS, and the page.
Sites == [https : Latencies, http : Latencies, picky : BOOLEAN, redirects : BOOLEAN,
          answer : {"page", "error", "broken"}, body : BodyTimes, page : {"good", "dated"}]

Schemes == <<"https", "http", "https", "http">>
Timeouts == <<4, 3, 12, 8>>
BODY_CAP == 10

\* What a page says, and what an unread one is filed as.
Facts(page) ==
  [mobileFriendly |-> {page = "good"}, outdated |-> {page = "dated"}, thin |-> {page = "blank"}, hasSSL |-> {secure}, reachable |-> TRUE]
Unread == [mobileFriendly |-> {}, outdated |-> {}, thin |-> {}, hasSSL |-> {secure}, reachable |-> TRUE]
Down == [mobileFriendly |-> {}, outdated |-> {}, thin |-> {}, hasSSL |-> {}, reachable |-> FALSE]

Init ==
  /\ site \in Sites /\ deadline \in Deadlines
  /\ now = 0 /\ attempt = 1 /\ retry = FALSE /\ limit = 0 /\ phase = "ask" /\ secure = FALSE /\ audit = {}

outOfTime(t) == \E d \in deadline : t >= d

Allowed(wanted) == Min({wanted} \cup { d - now : d \in deadline })

\* One attempt: with our headers, or bare. A host that turns our headers down does so at once.
Refused == site.picky /\ ~retry
Answers(wait) == ~Refused /\ site[Schemes[attempt]] <= wait
Elapsed(wait) == IF Refused THEN 0 ELSE Min({wait, site[Schemes[attempt]]})

\* Mutant: plain HTTP is never tried.
HttpsOnly(t) == IF attempt < 3 /\ ~outOfTime(t) THEN {3} ELSE {}
NextAttempt(t) == IF attempt < Len(Schemes) /\ ~outOfTime(t) THEN {attempt + 1} ELSE {}

Answered(t) ==
  /\ now' = t /\ phase' = "head"
  /\ secure' = (Schemes[attempt] = "https" \/ site.redirects)
  /\ UNCHANGED <<attempt, retry, audit>>
\* fetchOnce has nothing: auditWebsite goes on to the next request, or declares the site down.
Nothing(t) ==
  /\ now' = t /\ retry' = FALSE
  /\ attempt' = Max({attempt} \cup NextAttempt(t))
  /\ phase' = IF NextAttempt(t) = {} THEN "done" ELSE "ask"
  /\ audit' = IF NextAttempt(t) = {} THEN {Down} ELSE {}
  /\ UNCHANGED secure

\* fetchOnce, its first attempt.
Ask ==
  /\ phase = "ask" /\ ~retry
  /\ LET wait == Allowed(Timeouts[attempt]) t == now + Elapsed(wait) IN
       /\ limit' = wait
       /\ IF outOfTime(now) THEN Nothing(now)
          ELSE IF Answers(wait) THEN Answered(t)
          ELSE /\ now' = t /\ retry' = TRUE
               /\ UNCHANGED <<attempt, phase, secure, audit>>
  /\ UNCHANGED <<site, deadline>>

\* fetchOnce, its second attempt, allowed the time the first was.
AskBare ==
  /\ phase = "ask" /\ retry
  /\ LET t == now + Elapsed(limit) IN
       IF outOfTime(now) THEN Nothing(now) ELSE IF Answers(limit) THEN Answered(t) ELSE Nothing(t)
  /\ UNCHANGED <<site, deadline, limit>>

\* The headers are there. The body is bounded separately; one that does not arrive is read as empty.
BodyWait == Min({BODY_CAP} \cup { Max({0, d - now}) : d \in deadline })
ReadPage ==
  /\ phase = "head" /\ phase' = "done"
  /\ now' = IF site.answer = "page" THEN now + Min({site.body, BodyWait}) ELSE now
  /\ audit' = IF site.answer # "page" THEN {Unread}
              ELSE IF site.body <= BodyWait THEN {Facts(site.page)} ELSE {Facts("blank")}
  /\ UNCHANGED <<site, deadline, attempt, retry, limit, secure>>

Next == Ask \/ AskBare \/ ReadPage
Spec == Init /\ [][Next]_vars

----------------------------------------------------------------------------

TypeOK ==
  /\ site \in Sites /\ deadline \in Deadlines /\ now \in Nat /\ attempt \in 1..4 /\ limit \in 0..12
  /\ phase \in {"ask", "head", "done"} /\ {retry, secure} \subseteq BOOLEAN

\* Calling a business down that is up is the most damaging output there is. A site that answers a
\* browser on either scheme, however slowly up to the patience of its request, is never filed as
\* down by a crawl that was given the time.
UpIsNotDown ==
  deadline = {} /\ (site.https <= 12 \/ site.http <= 8) => \A a \in audit : a.reachable

\* Two attempts of each request, four requests and a body: with a deadline, one crawl cannot own the
\* caller's budget. A page that is read is read in time, and a host that never answers costs at
\* most one more attempt than was asked for.
OverrunBounded ==
  \A d \in deadline :
    /\ phase = "done" /\ audit # {Down} => now <= d
    /\ now < d + Timeouts[attempt]

\* In the words above auditWebsite: a wall-clock time this call must not run past.
DeadlineHeld == \A d \in deadline : now <= d

\* What a lost body costs is the content signals: nothing is claimed of a page that never arrived.
NothingFromABlank == \A a \in audit : a.thin = {TRUE} => site.body <= BODY_CAP
=============================================================================
