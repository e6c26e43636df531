----------------------------- MODULE RulesProofs -----------------------------
(***************************************************************************)
(* Theorems about the parts Rules puts together, each for any values of    *)
(* its constants: audit, verification, owner, changes, sample, crawl for   *)
(* an owner, search and grade. Each part has its types, an inductive       *)
(* invariant, a lemma for every operation, and the theorem that follows.   *)
(***************************************************************************)
EXTENDS Rules, TLAPS, FiniteSetTheorems, SequenceTheorems, WellFoundedInduction

-----------------------------------------------------------------------------
(* Audit: a site that answers is never called down. Four requests, each in *)
(* its patience and in what is left of the crawl.                          *)

\* The least and the greatest of one number and of two.
LEMMA LeastOf ==
  \A a, b \in Int : Crawl!Min({a}) = a /\ Crawl!Min({a, b}) = IF a <= b THEN a ELSE b
<1> TAKE a, b \in Int
<1>1. \A x \in {a, b} : (\A y \in {a, b} : x <= y) <=> x = IF a <= b THEN a ELSE b
  OBVIOUS
<1> QED BY <1>1 DEF Crawl!Min

\* The greatest of one number and of two.
LEMMA GreatestOf ==
  \A a, b \in Int : Crawl!Max({a}) = a /\ Crawl!Max({a, b}) = IF a >= b THEN a ELSE b
<1> TAKE a, b \in Int
<1>1. \A x \in {a, b} : (\A y \in {a, b} : x >= y) <=> x = IF a >= b THEN a ELSE b
  OBVIOUS
<1> QED BY <1>1 DEF Crawl!Max

----------------------------------------------------------------------------
(* What the proofs rest on. No request is begun past the deadline; a       *)
(* second attempt has the time of the first, which it overruns only where  *)
(* the site does not answer; and what was given up did not answer in time. *)

\* No request is begun past the deadline;
InTime == phase \in {"ask", "head"} => \A d \in deadline : now <= d
\* a second attempt has the time of the first, which it overruns only where the site does not answer;
Retrying ==
  phase = "ask" /\ retry =>
    /\ limit <= Crawl!Timeouts[attempt] /\ (deadline = {} => limit = Crawl!Timeouts[attempt])
    /\ IF site.picky THEN \A d \in deadline : now + limit <= d ELSE site[Crawl!Schemes[attempt]] > limit
\* what was given up did not answer in time;
GivenUp ==
  deadline = {} => \A k \in 1..4 : k < attempt \/ audit = {Crawl!Down} =>
       site[Crawl!Schemes[k]] > Crawl!Timeouts[k]
\* and there is one verdict, at the end: down, or what was read.
CrawlVerdict ==
  /\ phase \in {"ask", "head"} => audit = {}
  /\ audit = {Crawl!Down} \/ \A a \in audit : a.reachable
\* The inductive invariant.
CrawlInv == Crawl!TypeOK /\ InTime /\ Retrying /\ GivenUp /\ CrawlVerdict /\ Crawl!OverrunBounded

\* The deadline of a crawl, as a case.
LEMMA DeadlineIs ==
  ASSUME Crawl!TypeOK
  PROVE  deadline = {} \/ \E n \in Nat : deadline = {n}
BY AuditAssumption DEF Crawl!TypeOK

\* The schemes and the patience of each attempt.
LEMMA AttemptPlan ==
  ASSUME Crawl!TypeOK
  PROVE  /\ Crawl!Timeouts[attempt] \in 1..12 /\ Crawl!Schemes[attempt] \in {"https", "http"}
         /\ site[Crawl!Schemes[attempt]] \in Nat /\ site.body \in Nat
         /\ site.picky \in BOOLEAN /\ site.redirects \in BOOLEAN /\ site.page \in {"good", "dated"}
<1>1. site \in [https : Latencies, http : Latencies, picky : BOOLEAN, redirects : BOOLEAN,
                answer : {"page", "error", "broken"}, body : BodyTimes, page : {"good", "dated"}]
  BY DEF Crawl!TypeOK, Crawl!Sites
<1>2. attempt \in {1, 2, 3, 4}
  BY DEF Crawl!TypeOK
<1>3. Crawl!Schemes[attempt] \in {"https", "http"} /\ Crawl!Timeouts[attempt] \in 1..12
  BY <1>2 DEF Crawl!Schemes, Crawl!Timeouts
<1>4. site.https \in Nat /\ site.http \in Nat
  BY <1>1, AuditAssumption
<1>5. site[Crawl!Schemes[attempt]] \in Nat
  <2>1. CASE Crawl!Schemes[attempt] = "https" BY <2>1, <1>4
  <2>2. CASE Crawl!Schemes[attempt] = "http" BY <2>2, <1>4
  <2> QED BY <1>3, <2>1, <2>2
<1> QED BY <1>1, <1>3, <1>5, AuditAssumption

\* The time one request is allowed: what it wants, and no more than is left.
LEMMA AllowedIs ==
  ASSUME Crawl!TypeOK, NEW w \in Nat, \A d \in deadline : now <= d
  PROVE  /\ Crawl!Allowed(w) \in 0..w /\ (deadline = {} => Crawl!Allowed(w) = w)
         /\ \A d \in deadline : now + Crawl!Allowed(w) <= d
<1>1. now \in Nat
  BY DEF Crawl!TypeOK
<1>2. CASE deadline = {}
  <2>1. {w} \cup { d - now : d \in deadline } = {w}
    BY <1>2
  <2>2. Crawl!Allowed(w) = Crawl!Min({w})
    BY <2>1, Zenon DEF Crawl!Allowed
  <2> QED BY <1>2, <2>2, LeastOf
<1>3. ASSUME NEW n \in Nat, deadline = {n}
      PROVE  Crawl!Allowed(w) \in 0..w /\ now + Crawl!Allowed(w) <= n
  <2>1. {w} \cup { d - now : d \in deadline } = {w, n - now}
    BY <1>3
  <2>2. Crawl!Allowed(w) = Crawl!Min({w, n - now})
    BY <2>1, Zenon DEF Crawl!Allowed
  <2>3. w \in Int /\ n - now \in Int
    BY <1>1
  <2>4. Crawl!Min({w, n - now}) = IF w <= n - now THEN w ELSE n - now
    BY <2>3, LeastOf, Zenon
  <2>5. n - now >= 0
    BY <1>1, <1>3
  <2> QED BY <1>1, <1>3, <2>2, <2>4, <2>5
<1> QED BY <1>2, <1>3, DeadlineIs

\* The time one request takes.
LEMMA ElapsedIs ==
  ASSUME Crawl!TypeOK, NEW w \in Nat
  PROVE  Crawl!Elapsed(w) \in 0..w
<1>1. site[Crawl!Schemes[attempt]] \in Nat
  BY AttemptPlan
<1>2. Crawl!Min({w, site[Crawl!Schemes[attempt]]}) = IF w <= site[Crawl!Schemes[attempt]] THEN w
        ELSE site[Crawl!Schemes[attempt]]
  <2>1. w \in Int /\ site[Crawl!Schemes[attempt]] \in Int
    BY <1>1
  <2> QED BY <2>1, LeastOf, Zenon
<1>3. Crawl!Elapsed(w) = IF Crawl!Refused THEN 0 ELSE Crawl!Min({w, site[Crawl!Schemes[attempt]]})
  BY DEF Crawl!Elapsed
<1>4. Crawl!Min({w, site[Crawl!Schemes[attempt]]}) \in 0..w
  BY <1>1, <1>2
<1>5. CASE Crawl!Refused
  BY <1>3, <1>5
<1>6. CASE ~Crawl!Refused
  BY <1>3, <1>4, <1>6
<1> QED BY <1>5, <1>6

----------------------------------------------------------------------------
(* A request that came to nothing, and one that was answered.              *)

\* A request that came to nothing.
LEMMA NothingKeeps ==
  ASSUME CrawlInv, phase = "ask", NEW t \in Nat, Crawl!Nothing(t),
         UNCHANGED <<site, deadline>>, limit' \in 0..12,
         \A d \in deadline : t < d + Crawl!Timeouts[attempt],
         deadline = {} => site[Crawl!Schemes[attempt]] > Crawl!Timeouts[attempt]
  PROVE  CrawlInv'
<1>1. attempt \in 1..4
  BY DEF CrawlInv, Crawl!TypeOK
<1>1a. attempt \in Int
  BY <1>1
<1>2. CASE Crawl!NextAttempt(t) = {}
  <2>1. attempt' = attempt
    <3>1. Crawl!Max({attempt}) = attempt BY <1>1a, GreatestOf, Zenon
    <3> QED BY <1>2, <3>1 DEF Crawl!Nothing
  <2>2. phase' = "done" /\ audit' = {Crawl!Down} /\ now' = t /\ retry' = FALSE /\ secure' = secure
    BY <1>2 DEF Crawl!Nothing
  <2>3. deadline = {} => attempt = 4
    BY <1>1, <1>2 DEF Crawl!NextAttempt, Crawl!Schemes, Crawl!outOfTime
  <2>4. Crawl!TypeOK'
    <3>1. retry' \in BOOLEAN /\ secure' \in BOOLEAN /\ phase' \in {"ask", "head", "done"}
      BY <2>2 DEF CrawlInv, Crawl!TypeOK
    <3>2. site' \in Crawl!Sites /\ deadline' \in Deadlines /\ now' \in Nat /\ attempt' \in 1..4
      BY <1>1, <2>1, <2>2 DEF CrawlInv, Crawl!TypeOK
    <3>3. {retry', secure'} \subseteq BOOLEAN
      BY <3>1
    <3> QED BY <3>1, <3>2, <3>3 DEF Crawl!TypeOK
  <2>5. GivenUp'
    <3>1. SUFFICES ASSUME deadline = {}, NEW k \in 1..4 PROVE site[Crawl!Schemes[k]] > Crawl!Timeouts[k]
      BY DEF GivenUp
    <3>2. CASE k = 4
      BY <2>3, <3>1, <3>2
    <3>3. CASE k < 4
      BY <2>3, <3>1, <3>3 DEF CrawlInv, GivenUp
    <3> QED BY <3>2, <3>3
  <2>6. Crawl!OverrunBounded'
    BY <2>1, <2>2 DEF Crawl!OverrunBounded
  <2> QED BY <2>2, <2>4, <2>5, <2>6 DEF CrawlInv, InTime, Retrying, CrawlVerdict
<1>3. CASE Crawl!NextAttempt(t) # {}
  <2>1. attempt < 4 /\ ~Crawl!outOfTime(t) /\ Crawl!NextAttempt(t) = {attempt + 1}
    BY <1>1, <1>3 DEF Crawl!NextAttempt, Crawl!Schemes
  <2>2. attempt' = attempt + 1
    <3>1. attempt + 1 \in Int /\ ~(attempt >= attempt + 1) BY <1>1a
    <3>2. Crawl!Max({attempt, attempt + 1}) = attempt + 1 BY <1>1a, <3>1, GreatestOf, Zenon
    <3>3. {attempt} \cup {attempt + 1} = {attempt, attempt + 1} OBVIOUS
    <3> QED BY <2>1, <3>2, <3>3 DEF Crawl!Nothing
  <2>3. phase' = "ask" /\ audit' = {} /\ now' = t /\ retry' = FALSE /\ secure' = secure
    BY <1>3 DEF Crawl!Nothing
  <2>4. Crawl!TypeOK'
    <3>1. retry' \in BOOLEAN /\ secure' \in BOOLEAN /\ phase' \in {"ask", "head", "done"}
      BY <2>3 DEF CrawlInv, Crawl!TypeOK
    <3>2. site' \in Crawl!Sites /\ deadline' \in Deadlines /\ now' \in Nat /\ attempt' \in 1..4
      BY <1>1, <2>1, <2>2, <2>3 DEF CrawlInv, Crawl!TypeOK
    <3>3. {retry', secure'} \subseteq BOOLEAN
      BY <3>1
    <3> QED BY <3>1, <3>2, <3>3 DEF Crawl!TypeOK
  <2>5. \A d \in deadline : d \in Nat /\ t < d
    BY <2>1, DeadlineIs DEF Crawl!outOfTime, CrawlInv
  <2>6. GivenUp'
    <3>1. SUFFICES ASSUME deadline = {}, NEW k \in 1..4, k < attempt + 1
            PROVE site[Crawl!Schemes[k]] > Crawl!Timeouts[k]
      BY <2>2, <2>3 DEF GivenUp
    <3>2. CASE k = attempt
      BY <3>1, <3>2
    <3>3. CASE k < attempt
      BY <3>1, <3>3 DEF CrawlInv, GivenUp
    <3> QED BY <1>1, <3>1, <3>2, <3>3
  <2>7. Crawl!Timeouts[attempt'] \in 1..12
    BY <1>1, <2>1, <2>2 DEF Crawl!Timeouts
  <2>8. Crawl!OverrunBounded'
    BY <2>3, <2>5, <2>7 DEF Crawl!OverrunBounded
  <2>9. InTime'
    BY <2>3, <2>5 DEF InTime
  <2> QED BY <2>3, <2>4, <2>6, <2>8, <2>9 DEF CrawlInv, Retrying, CrawlVerdict
<1> QED BY <1>2, <1>3

\* A request that was answered.
LEMMA AnsweredKeeps ==
  ASSUME CrawlInv, phase = "ask", NEW t \in Nat, Crawl!Answered(t),
         UNCHANGED <<site, deadline>>, limit' \in 0..12,
         \A d \in deadline : t <= d
  PROVE  CrawlInv'
<1>1. phase' = "head" /\ now' = t /\ attempt' = attempt /\ retry' = retry /\ audit' = audit
  BY DEF Crawl!Answered
<1>2. secure' \in BOOLEAN
  BY AttemptPlan DEF Crawl!Answered, CrawlInv
<1>3. Crawl!TypeOK'
  BY <1>1, <1>2 DEF CrawlInv, Crawl!TypeOK
<1>4. Crawl!OverrunBounded'
  BY <1>1, AttemptPlan, DeadlineIs DEF Crawl!OverrunBounded, CrawlInv
<1> QED BY <1>1, <1>3, <1>4 DEF CrawlInv, InTime, Retrying, GivenUp, CrawlVerdict

\* The time the body is given, which ends with the deadline.
LEMMA BodyIs ==
  ASSUME Crawl!TypeOK, \A d \in deadline : now <= d
  PROVE  Crawl!BodyWait \in Nat /\ \A d \in deadline : now + Crawl!BodyWait <= d
<1>1. now \in Nat
  BY DEF Crawl!TypeOK
<1>2. CASE deadline = {}
  <2>1. {Crawl!BODY_CAP} \cup { Crawl!Max({0, d - now}) : d \in deadline } = {10}
    BY <1>2 DEF Crawl!BODY_CAP
  <2>2. Crawl!BodyWait = Crawl!Min({10})
    BY <2>1, Zenon DEF Crawl!BodyWait
  <2> QED BY <1>2, <2>2, LeastOf
<1>3. ASSUME NEW n \in Nat, deadline = {n}
      PROVE  Crawl!BodyWait \in Nat /\ now + Crawl!BodyWait <= n
  <2>1. {Crawl!BODY_CAP} \cup { Crawl!Max({0, d - now}) : d \in deadline } = {10,
          Crawl!Max({0, n - now})}
    BY <1>3 DEF Crawl!BODY_CAP
  <2>2. Crawl!BodyWait = Crawl!Min({10, Crawl!Max({0, n - now})})
    BY <2>1, Zenon DEF Crawl!BodyWait
  <2>3. 0 \in Int /\ 10 \in Int /\ n - now \in Int /\ n - now >= 0
    BY <1>1, <1>3
  <2>4. Crawl!Max({0, n - now}) = IF 0 >= n - now THEN 0 ELSE n - now
    BY <2>3, GreatestOf, Zenon
  <2>5. Crawl!Max({0, n - now}) = n - now
    BY <2>3, <2>4
  <2>6. Crawl!Min({10, n - now}) = IF 10 <= n - now THEN 10 ELSE n - now
    BY <2>3, LeastOf, Zenon
  <2>7. Crawl!BodyWait = IF 10 <= n - now THEN 10 ELSE n - now
    BY <2>2, <2>5, <2>6, Zenon
  <2> QED BY <1>1, <2>3, <2>7
<1> QED BY <1>2, <1>3, DeadlineIs

\* The request is made, and made again where it was refused,
LEMMA AskKeeps ==
  ASSUME CrawlInv, Crawl!Ask
  PROVE  CrawlInv'
<1> DEFINE w == Crawl!Timeouts[attempt]
           wait == Crawl!Allowed(w)
           t == now + Crawl!Elapsed(wait)
<1>1. /\ Crawl!TypeOK /\ now \in Nat /\ phase = "ask" /\ retry = FALSE
      /\ w \in 1..12 /\ \A d \in deadline : d \in Nat /\ now <= d
  BY AttemptPlan, DeadlineIs DEF CrawlInv, InTime, Crawl!Ask, Crawl!TypeOK
<1>2. wait \in 0..w /\ (deadline = {} => wait = w) /\ \A d \in deadline : now + wait <= d
  BY <1>1, AllowedIs
<1>3. Crawl!Elapsed(wait) \in 0..wait
  BY <1>1, <1>2, ElapsedIs
<1>4. t \in Nat /\ \A d \in deadline : t <= d
  BY <1>1, <1>2, <1>3
<1>5. limit' = wait /\ UNCHANGED <<site, deadline>>
  BY DEF Crawl!Ask
<1>6. limit' \in 0..12
  BY <1>1, <1>2, <1>5
<1>7. CASE Crawl!outOfTime(now)
  <2>1. Crawl!Nothing(now)
    BY <1>7, Zenon DEF Crawl!Ask
  <2>2. deadline # {} /\ \A d \in deadline : now < d + Crawl!Timeouts[attempt]
    BY <1>1, <1>7 DEF Crawl!outOfTime
  <2> QED BY <1>1, <1>5, <1>6, <2>1, <2>2, NothingKeeps
<1>8. CASE ~Crawl!outOfTime(now) /\ Crawl!Answers(wait)
  <2>1. Crawl!Answered(t)
    BY <1>8, Zenon DEF Crawl!Ask
  <2> HIDE DEF t
  <2> QED BY <1>1, <1>4, <1>5, <1>6, <2>1, AnsweredKeeps
<1>9. CASE ~Crawl!outOfTime(now) /\ ~Crawl!Answers(wait)
  <2>1. now' = t /\ retry' = TRUE /\ UNCHANGED <<attempt, phase, secure, audit>>
    BY <1>9, Zenon DEF Crawl!Ask
  <2>2. IF site.picky THEN t = now ELSE site[Crawl!Schemes[attempt]] > wait
    <3>1. site.picky \in BOOLEAN /\ site[Crawl!Schemes[attempt]] \in Nat
      BY <1>1, AttemptPlan
    <3>2. CASE site.picky
      BY <1>1, <3>2 DEF Crawl!Elapsed, Crawl!Refused
    <3>3. CASE ~site.picky
      BY <1>1, <1>2, <1>9, <3>1, <3>3 DEF Crawl!Answers, Crawl!Refused
    <3> QED BY <3>2, <3>3
  <2> HIDE DEF t, wait
  <2>3. Crawl!TypeOK'
    <3>1. {retry', secure'} \subseteq BOOLEAN
      BY <1>1, <2>1 DEF Crawl!TypeOK
    <3> QED BY <1>1, <1>4, <1>5, <1>6, <2>1, <3>1 DEF Crawl!TypeOK
  <2>4. InTime' /\ Crawl!OverrunBounded'
    BY <1>1, <1>4, <1>5, <2>1 DEF InTime, Crawl!OverrunBounded
  <2>5. Retrying'
    BY <1>1, <1>2, <1>5, <2>1, <2>2 DEF Retrying
  <2> QED BY <1>5, <2>1, <2>3, <2>4, <2>5 DEF CrawlInv, GivenUp, CrawlVerdict
<1> QED BY <1>7, <1>8, <1>9

\* without what the site was picky about.
LEMMA AskBareKeeps ==
  ASSUME CrawlInv, Crawl!AskBare
  PROVE  CrawlInv'
<1> DEFINE w == Crawl!Timeouts[attempt]
           s == site[Crawl!Schemes[attempt]]
           t == now + Crawl!Elapsed(limit)
<1>1. /\ Crawl!TypeOK /\ now \in Nat /\ limit \in 0..12 /\ phase = "ask" /\ retry = TRUE
      /\ w \in 1..12 /\ s \in Nat /\ \A d \in deadline : d \in Nat /\ now <= d
  BY AttemptPlan, DeadlineIs DEF CrawlInv, InTime, Crawl!AskBare, Crawl!TypeOK
<1>2. /\ limit <= w /\ (deadline = {} => limit = w)
      /\ IF site.picky THEN \A d \in deadline : now + limit <= d ELSE s > limit
  BY <1>1 DEF CrawlInv, Retrying
<1>3. Crawl!Elapsed(limit) \in 0..limit
  BY <1>1, ElapsedIs
<1>4. t \in Nat /\ t <= now + limit
  BY <1>1, <1>3
<1>5. limit' \in 0..12 /\ UNCHANGED <<site, deadline>>
  BY <1>1 DEF Crawl!AskBare
<1>6. Crawl!Answers(limit) <=> s <= limit
  BY <1>1 DEF Crawl!Answers, Crawl!Refused
<1>7. CASE Crawl!outOfTime(now)
  <2>1. Crawl!Nothing(now)
    BY <1>7, Zenon DEF Crawl!AskBare
  <2>2. deadline # {} /\ \A d \in deadline : now < d + Crawl!Timeouts[attempt]
    BY <1>1, <1>7 DEF Crawl!outOfTime
  <2> QED BY <1>1, <1>5, <2>1, <2>2, NothingKeeps
<1>8. CASE ~Crawl!outOfTime(now) /\ Crawl!Answers(limit)
  <2>1. Crawl!Answered(t)
    BY <1>8, Zenon DEF Crawl!AskBare
  <2>2. \A d \in deadline : t <= d
    <3>1. site.picky
      BY <1>1, <1>2, <1>6, <1>8
    <3> HIDE DEF t
    <3> QED BY <1>1, <1>2, <1>4, <3>1
  <2> HIDE DEF t
  <2> QED BY <1>1, <1>4, <1>5, <2>1, <2>2, AnsweredKeeps
<1>9. CASE ~Crawl!outOfTime(now) /\ ~Crawl!Answers(limit)
  <2>1. Crawl!Nothing(t)
    BY <1>9, Zenon DEF Crawl!AskBare
  <2>2. deadline = {} => site[Crawl!Schemes[attempt]] > Crawl!Timeouts[attempt]
    BY <1>1, <1>2, <1>6, <1>9
  <2>3. \A d \in deadline : now < d
    BY <1>1, <1>9 DEF Crawl!outOfTime
  <2> HIDE DEF t
  <2>4. \A d \in deadline : t < d + Crawl!Timeouts[attempt]
    BY <1>1, <1>2, <1>4, <2>3
  <2> QED BY <1>1, <1>4, <1>5, <2>1, <2>2, <2>4, NothingKeeps
<1> QED BY <1>7, <1>8, <1>9

\* The page is read.
LEMMA ReadPageKeeps ==
  ASSUME CrawlInv, Crawl!ReadPage
  PROVE  CrawlInv'
<1>1. /\ Crawl!TypeOK /\ now \in Nat /\ phase = "head" /\ site.body \in Nat
      /\ Crawl!Timeouts[attempt] \in 1..12 /\ \A d \in deadline : d \in Nat /\ now <= d
  BY AttemptPlan, DeadlineIs DEF CrawlInv, InTime, Crawl!ReadPage, Crawl!TypeOK
<1>2. Crawl!BodyWait \in Nat /\ \A d \in deadline : now + Crawl!BodyWait <= d
  BY <1>1, BodyIs
<1>3. Crawl!Min({site.body, Crawl!BodyWait}) \in 0..Crawl!BodyWait
  <2>1. site.body \in Int /\ Crawl!BodyWait \in Int
    BY <1>1, <1>2
  <2>2. Crawl!Min({site.body, Crawl!BodyWait}) = IF site.body <= Crawl!BodyWait THEN site.body
          ELSE Crawl!BodyWait
    BY <2>1, LeastOf, Zenon
  <2> QED BY <1>1, <1>2, <2>2
<1>4. now' \in Nat /\ \A d \in deadline : now' <= d
  <2>1. now' = now \/ now' = now + Crawl!Min({site.body, Crawl!BodyWait})
    BY DEF Crawl!ReadPage
  <2> QED BY <1>1, <1>2, <1>3, <2>1
<1>5. phase' = "done" /\ UNCHANGED <<site, deadline, attempt, retry, limit, secure>>
  BY DEF Crawl!ReadPage
<1>6. \A a \in audit' : a.reachable
  <2>1. Crawl!Unread.reachable /\ Crawl!Facts(site.page).reachable /\ Crawl!Facts("blank").reachable
    BY DEF Crawl!Unread, Crawl!Facts
  <2>2. audit' = {Crawl!Unread} \/ audit' = {Crawl!Facts(site.page)} \/ audit' = {Crawl!Facts("blank")}
    BY DEF Crawl!ReadPage
  <2> QED BY <2>1, <2>2
<1>7. audit' # {Crawl!Down} /\ audit # {Crawl!Down}
  <2>1. ~Crawl!Down.reachable
    BY DEF Crawl!Down
  <2>2. audit = {}
    BY <1>1 DEF CrawlInv, CrawlVerdict
  <2> QED BY <1>6, <2>1, <2>2
<1>8. Crawl!TypeOK'
  BY <1>1, <1>4, <1>5 DEF Crawl!TypeOK
<1>9. Crawl!OverrunBounded'
  BY <1>1, <1>4, <1>5 DEF Crawl!OverrunBounded
<1> QED BY <1>5, <1>6, <1>7, <1>8, <1>9 DEF CrawlInv, InTime, Retrying, GivenUp, CrawlVerdict

\* The invariant holds at first,
LEMMA CrawlStart == Crawl!Init => CrawlInv
<1> SUFFICES ASSUME Crawl!Init PROVE CrawlInv
  OBVIOUS
<1>1. Crawl!TypeOK
  <2>1. {retry, secure} \subseteq BOOLEAN
    BY DEF Crawl!Init
  <2> QED BY <2>1 DEF Crawl!Init, Crawl!TypeOK
<1>2. Crawl!Timeouts[attempt] \in 1..12 /\ \A d \in deadline : d \in Nat
  BY <1>1, AttemptPlan, DeadlineIs
<1>3. audit # {Crawl!Down}
  BY DEF Crawl!Init
<1> QED BY <1>1, <1>2, <1>3 DEF Crawl!Init, CrawlInv, InTime, Retrying, GivenUp, CrawlVerdict,
        Crawl!OverrunBounded

\* and every step keeps it.
LEMMA CrawlKept == CrawlInv /\ [Crawl!Next]_(Crawl!vars) => CrawlInv'
<1> SUFFICES ASSUME CrawlInv, [Crawl!Next]_(Crawl!vars) PROVE CrawlInv'
  OBVIOUS
<1>1. CASE Crawl!Ask
  BY <1>1, AskKeeps
<1>2. CASE Crawl!AskBare
  BY <1>2, AskBareKeeps
<1>3. CASE Crawl!ReadPage
  BY <1>3, ReadPageKeeps
<1>4. CASE UNCHANGED Crawl!vars
  BY <1>4 DEF Crawl!vars, CrawlInv, Crawl!TypeOK, InTime, Retrying, GivenUp, CrawlVerdict,
       Crawl!OverrunBounded
<1> QED BY <1>1, <1>2, <1>3, <1>4 DEF Crawl!Next

\* The part runs in behaviours of its own.
CrawlHold == scene = "audit" => CrawlInv

\* So the invariant is one of the whole.
LEMMA CrawlAlways == SceneSpec => []CrawlHold
<1>1. SceneInit => CrawlHold
  BY CrawlStart DEF SceneInit, CrawlHold
<1>2. CrawlHold /\ [SceneNext]_sceneVars => CrawlHold'
  <2> SUFFICES ASSUME CrawlHold, [SceneNext]_sceneVars, scene' = "audit" PROVE CrawlInv'
    BY DEF CrawlHold
  <2>1. scene = "audit" /\ [Crawl!Next]_(Crawl!vars)
    BY DEF SceneNext, sceneVars, AuditOnly, Crawl!vars
  <2> QED BY <2>1, CrawlKept DEF CrawlHold
<1> QED BY <1>1, <1>2, PTL DEF SceneSpec

\* A site that answers within the patience of the last two requests is never filed as down by a
\* crawl without a deadline: four requests, in a hurry and then with patience, are enough. However
\* the site behaves, a crawl with a deadline ends less than one attempt after it, and a page that is
\* read is read before it (lib/audit.ts, fetchOnce and readBody).
THEOREM NeverCalledDown == SceneSpec => []UpIsNotDown
<1>1. CrawlHold => UpIsNotDown
  <2> SUFFICES ASSUME CrawlInv PROVE Crawl!UpIsNotDown /\ Crawl!OverrunBounded
    BY DEF CrawlHold, UpIsNotDown
  <2>1. SUFFICES ASSUME deadline = {}, site.https <= 12 \/ site.http <= 8
                 PROVE  \A a \in audit : a.reachable
    BY DEF Crawl!UpIsNotDown, CrawlInv
  <2>2. site.https \in Nat /\ site.http \in Nat
    BY AuditAssumption DEF CrawlInv, Crawl!TypeOK, Crawl!Sites
  <2>3. audit # {Crawl!Down}
    <3>1. SUFFICES ASSUME audit = {Crawl!Down} PROVE FALSE
      OBVIOUS
    <3>2. site[Crawl!Schemes[3]] > Crawl!Timeouts[3] /\ site[Crawl!Schemes[4]] > Crawl!Timeouts[4]
      BY <2>1, <3>1 DEF CrawlInv, GivenUp
    <3>3. site.https > 12 /\ site.http > 8
      BY <3>2 DEF Crawl!Schemes, Crawl!Timeouts
    <3> QED BY <2>1, <2>2, <3>3
  <2> QED BY <2>3 DEF CrawlInv, CrawlVerdict
<1> QED BY <1>1, CrawlAlways, PTL

-----------------------------------------------------------------------------
(* Contact: what is sold can be reached. Verifications share the caches    *)
(* and the vendors: the invariant follows a verdict from the vendor to the *)
(* cache, the verification that took it, and the lead.                     *)

\* The verdicts on a line,
Reaches == {"nothing", "heuristic", "live", "dead"}
\* and those on a mailbox.
Statuses == {"unknown", "deliverable", "undeliverable", "risky", "risky_free"}
\* What a verification holds,
Verifications ==
  [pc : {"idle", "phone", "dialling", "mail", "mx", "asking", "assess"}, shop : Shops \cup {"none"},
   paid : BOOLEAN, reachable : Reaches, status : Statuses]
\* and a lead.
Verified == [found : BOOLEAN, heard : Reaches, emailStatus : Statuses, deliverable : BOOLEAN,
     verifiedAt : BOOLEAN]
\* A verification under way.
Verifying(c) == call[c].pc # "idle"

\* Type invariant of the verifications.
CheckTypes ==
  /\ truth \in Checks!Truths /\ lead \in [Shops -> Verified] /\ call \in [Calls -> Verifications]
  /\ bad \in Nat
  /\ \A c \in Calls : Verifying(c) => call[c].shop \in Shops
\* What was heard is so of a line,
LineHeard(r) == (r = "live" => truth.line = "live") /\ (r = "dead" => truth.line = "dead")
\* and of a mailbox, unless a vendor failed.
BoxHeard(e, b) ==
  /\ e \in Statuses
  /\ e = "deliverable" => truth.box = "valid"
  /\ e = "undeliverable" => truth.box = "invalid" \/ b # 0
  /\ e = "risky" => truth.box = "catchall"
\* What is in the caches was heard.
CachesTrue ==
  /\ \A r \in phoneCache : r \in {"heuristic", "live", "dead"} /\ LineHeard(r)
  /\ \A e \in mailCache : BoxHeard(e, bad) /\ e # "unknown" /\ mailCache = {e}
  /\ \A ok \in mxCache : ok \in BOOLEAN /\ (ok = FALSE => bad # 0)
\* So was what a verification holds; a paid one asks until it knows.
CallsTrue ==
  \A c \in Calls :
    /\ LineHeard(call[c].reachable)
    /\ BoxHeard(call[c].status, bad)
    /\ call[c].paid /\ call[c].pc \in {"mail", "mx", "asking", "assess"} /\ bad = 0 =>
         call[c].reachable \in {"live", "dead"}
    /\ call[c].paid /\ call[c].pc = "assess" /\ bad = 0 =>
         call[c].status \in {"deliverable", "undeliverable", "risky"}
\* While a search verifies a lead for free it is no row yet, and nobody else verifies it.
FreeFirst ==
  /\ \A s \in Shops : lead[s].verifiedAt => lead[s].found
  /\ \A c \in Calls : Verifying(c) /\ ~call[c].paid =>
       /\ ~lead[call[c].shop].found
       /\ \A d \in Calls \ {c} : Verifying(d) => call[d].shop # call[c].shop
\* So was what is filed of a lead.
LeadsTrue ==
  \A s \in Shops : lead[s].verifiedAt =>
    /\ lead[s].emailStatus = "deliverable" => truth.box = "valid"
    /\ lead[s].emailStatus = "undeliverable" /\ bad = 0 => truth.box = "invalid"
    /\ lead[s].deliverable /\ bad = 0 => truth.line = "live" \/ truth.box # "invalid"
\* The inductive invariant.
CheckInv == CheckTypes /\ CachesTrue /\ CallsTrue /\ FreeFirst /\ LeadsTrue

\* One verification moves, and what it holds is as true as what it heard.
LEMMA CallMoves ==
  ASSUME CheckInv, NEW c \in Calls, NEW k \in Verifications, call' = [call EXCEPT ![c] = k],
         truth' = truth, lead' = lead, bad' \in Nat, bad = 0 \/ bad' # 0,
         call[c].pc # "idle" /\ k.pc # "idle" /\ k.shop = call[c].shop /\ k.paid = call[c].paid,
         LineHeard(k.reachable), BoxHeard(k.status, bad'),
         k.paid /\ k.pc \in {"mail", "mx", "asking", "assess"} /\ bad' = 0 =>
              k.reachable \in {"live", "dead"},
         k.paid /\ k.pc = "assess" /\ bad' = 0 => k.status \in {"deliverable", "undeliverable",
              "risky"},
         CachesTrue'
  PROVE  CheckInv'
<1> USE DEF CheckInv
<1>1. call'[c] = k /\ \A d \in Calls \ {c} : call'[d] = call[d]
  BY DEF CheckTypes
<1>2. CheckTypes'
  <2>1. call' \in [Calls -> Verifications]
    BY DEF CheckTypes
  <2>2. \A d \in Calls : Verifying(d)' => call'[d].shop \in Shops
    BY <1>1 DEF CheckTypes, Verifying
  <2> QED BY <2>1, <2>2 DEF CheckTypes
<1>3. CallsTrue'
  <2> SUFFICES ASSUME NEW d \in Calls PROVE
        /\ LineHeard(call'[d].reachable)
        /\ BoxHeard(call'[d].status, bad')
        /\ call'[d].paid /\ call'[d].pc \in {"mail", "mx", "asking", "assess"} /\ bad' = 0 =>
             call'[d].reachable \in {"live", "dead"}
        /\ call'[d].paid /\ call'[d].pc = "assess" /\ bad' = 0 =>
             call'[d].status \in {"deliverable", "undeliverable", "risky"}
    BY DEF CallsTrue, LineHeard, BoxHeard
  <2>1. CASE d = c
    BY <1>1, <2>1 DEF BoxHeard
  <2>2. CASE d # c
    BY <1>1, <2>2 DEF CallsTrue, BoxHeard, CheckTypes
  <2> QED BY <2>1, <2>2
<1>4. FreeFirst'
  BY <1>1 DEF FreeFirst, Verifying
<1>5. LeadsTrue'
  BY DEF LeadsTrue, CheckTypes
<1> QED BY <1>2, <1>3, <1>4, <1>5

\* The line is looked at,
LEMMA PhoneKeeps ==
  ASSUME CheckInv, NEW c \in Calls, Checks!verifyPhone(c)
  PROVE  CheckInv'
<1> USE DEF CheckInv
<1>1. call[c] \in Verifications /\ call[c].pc = "phone"
  BY DEF CheckTypes, Checks!verifyPhone
<1>2. UNCHANGED <<truth, lead, mailCache, mxCache, bad>>
  BY DEF Checks!verifyPhone
<1>3. LineHeard(call[c].reachable) /\ BoxHeard(call[c].status, bad)
  BY DEF CallsTrue
<1>4. ASSUME NEW hit \in phoneCache, Checks!phoneHit(call[c].paid, hit), phoneCache' = phoneCache,
             call' = [call EXCEPT ![c].pc = "mail", ![c].reachable = hit]
      PROVE  CheckInv'
  <2> DEFINE k == [call[c] EXCEPT !.pc = "mail", !.reachable = hit]
  <2>1. hit \in {"heuristic", "live", "dead"} /\ LineHeard(hit)
    BY DEF CachesTrue
  <2>2. call' = [call EXCEPT ![c] = k] /\ k \in Verifications
    BY <1>1, <1>4, <2>1 DEF CheckTypes, Verifications, Reaches
  <2>3. k.pc = "mail" /\ k.reachable = hit /\ k.shop = call[c].shop /\ k.paid = call[c].paid
          /\ k.status = call[c].status
    BY <1>1 DEF Verifications
  <2>4. k.paid => hit # "heuristic"
    BY <1>1, <1>4, <2>3 DEF Checks!phoneHit
  <2>5. CachesTrue' /\ BoxHeard(k.status, bad')
    BY <1>2, <1>3, <1>4, <2>3 DEF CachesTrue, BoxHeard, LineHeard
  <2> HIDE DEF k
  <2> QED BY <1>1, <1>2, <2>1, <2>2, <2>3, <2>4, <2>5, CallMoves DEF CheckTypes
<1>5. ASSUME call[c].paid, phoneCache' = phoneCache, call' = [call EXCEPT ![c].pc = "dialling"]
      PROVE  CheckInv'
  <2> DEFINE k == [call[c] EXCEPT !.pc = "dialling"]
  <2>2. call' = [call EXCEPT ![c] = k] /\ k \in Verifications
    BY <1>1, <1>5 DEF CheckTypes, Verifications
  <2>3. k.pc = "dialling" /\ k.reachable = call[c].reachable /\ k.shop = call[c].shop
          /\ k.paid = call[c].paid /\ k.status = call[c].status
    BY <1>1 DEF Verifications
  <2>5. CachesTrue' /\ BoxHeard(k.status, bad')
    BY <1>2, <1>3, <1>5, <2>3 DEF CachesTrue, BoxHeard, LineHeard
  <2> HIDE DEF k
  <2> QED BY <1>1, <1>2, <1>3, <2>2, <2>3, <2>5, CallMoves DEF CheckTypes
<1>6. ASSUME ~call[c].paid, phoneCache' = {"heuristic"},
             call' = [call EXCEPT ![c].pc = "mail", ![c].reachable = "heuristic"]
      PROVE  CheckInv'
  <2> DEFINE k == [call[c] EXCEPT !.pc = "mail", !.reachable = "heuristic"]
  <2>2. call' = [call EXCEPT ![c] = k] /\ k \in Verifications
    BY <1>1, <1>6 DEF CheckTypes, Verifications, Reaches
  <2>3. k.pc = "mail" /\ k.reachable = "heuristic" /\ k.shop = call[c].shop /\ k.paid = call[c].paid
          /\ k.status = call[c].status
    BY <1>1 DEF Verifications
  <2>5. CachesTrue' /\ BoxHeard(k.status, bad') /\ LineHeard("heuristic")
    BY <1>2, <1>3, <1>6, <2>3 DEF CachesTrue, BoxHeard, LineHeard
  <2>6. k.paid = FALSE
    BY <1>1, <1>6 DEF Verifications
  <2> HIDE DEF k
  <2> QED BY <1>1, <1>2, <2>6, <2>2, <2>3, <2>5, CallMoves DEF CheckTypes
<1> QED BY <1>4, <1>5, <1>6 DEF Checks!verifyPhone, Checks!Goes

\* and looked up;
LEMMA TwilioKeeps ==
  ASSUME CheckInv, NEW c \in Calls, Checks!twilioLookup(c)
  PROVE  CheckInv'
<1> USE DEF CheckInv
<1>1. call[c] \in Verifications /\ call[c].pc = "dialling"
  BY DEF CheckTypes, Checks!twilioLookup
<1>2. UNCHANGED <<truth, lead, mailCache, mxCache>>
  BY DEF Checks!twilioLookup
<1>3. BoxHeard(call[c].status, bad)
  BY DEF CallsTrue
<1>4. PICK said \in {truth.line, "heuristic"} :
        /\ IF said = "heuristic" THEN Checks!Misbehave ELSE UNCHANGED bad
        /\ phoneCache' = {said}
        /\ call' = [call EXCEPT ![c].pc = "mail", ![c].reachable = said]
  BY DEF Checks!twilioLookup
<1>5. bad \in Nat /\ bad' \in Nat /\ (said = "heuristic" => bad' # 0) /\ (bad = 0 \/ bad' # 0)
  BY <1>4 DEF CheckTypes, Checks!Misbehave
<1>6. said \in {"heuristic", "live", "dead"} /\ LineHeard(said)
  BY <1>4 DEF CheckTypes, Checks!Truths, LineHeard
<1> DEFINE k == [call[c] EXCEPT !.pc = "mail", !.reachable = said]
<1>7. call' = [call EXCEPT ![c] = k] /\ k \in Verifications
  BY <1>1, <1>4, <1>6 DEF CheckTypes, Verifications, Reaches
<1>8. k.pc = "mail" /\ k.reachable = said /\ k.shop = call[c].shop /\ k.paid = call[c].paid
        /\ k.status = call[c].status
  BY <1>1 DEF Verifications
<1>9. CachesTrue' /\ BoxHeard(k.status, bad')
  BY <1>2, <1>3, <1>4, <1>5, <1>6, <1>8 DEF CachesTrue, BoxHeard, LineHeard
<1> HIDE DEF k
<1> QED BY <1>1, <1>2, <1>5, <1>6, <1>7, <1>8, <1>9, CallMoves

\* the mailbox is looked at,
LEMMA EmailKeeps ==
  ASSUME CheckInv, NEW c \in Calls, Checks!verifyEmail(c)
  PROVE  CheckInv'
<1> USE DEF CheckInv
<1>1. call[c] \in Verifications /\ call[c].pc = "mail"
  BY DEF CheckTypes, Checks!verifyEmail
<1>2. UNCHANGED <<truth, lead, phoneCache, mailCache, mxCache, bad>>
  BY DEF Checks!verifyEmail, Checks!CallOnly
<1>3. LineHeard(call[c].reachable) /\ BoxHeard(call[c].status, bad) /\ (call[c].paid /\ bad = 0 =>
        call[c].reachable \in {"live", "dead"})
  BY <1>1 DEF CallsTrue
<1>4. CachesTrue'
  BY <1>2 DEF CachesTrue, BoxHeard, LineHeard
<1>5. CASE \E hit \in mailCache : Checks!mailHit(call[c].paid, hit)
  <2>1. PICK hit \in mailCache : Checks!mailHit(call[c].paid, hit)
    BY <1>5
  <2>2. mailCache = {hit} /\ BoxHeard(hit, bad) /\ hit # "unknown"
    BY <2>1 DEF CachesTrue
  <2>3. (CHOOSE e \in mailCache : TRUE) = hit
    BY <2>2
  <2>4. call' = [call EXCEPT ![c].pc = "assess", ![c].status = hit]
    BY <1>5, <2>3 DEF Checks!verifyEmail
  <2> DEFINE k == [call[c] EXCEPT !.pc = "assess", !.status = hit]
  <2>5. hit \in Statuses
    BY <2>2 DEF BoxHeard
  <2>6. call' = [call EXCEPT ![c] = k] /\ k \in Verifications
    BY <1>1, <2>4, <2>5 DEF CheckTypes, Verifications
  <2>7. k.pc = "assess" /\ k.status = hit /\ k.shop = call[c].shop /\ k.paid = call[c].paid
          /\ k.reachable = call[c].reachable
    BY <1>1 DEF Verifications
  <2>8. k.paid => hit # "risky_free"
    BY <1>1, <2>1, <2>7 DEF Checks!mailHit
  <2>9. BoxHeard(k.status, bad')
    BY <1>2, <2>2, <2>7 DEF BoxHeard
  <2> HIDE DEF k
  <2> QED BY <1>1, <1>2, <1>3, <1>4, <2>2, <2>5, <2>6, <2>7, <2>8, <2>9, CallMoves
          DEF CheckTypes, Statuses
<1>6. CASE ~ \E hit \in mailCache : Checks!mailHit(call[c].paid, hit)
  <2> DEFINE k == [call[c] EXCEPT !.pc = "mx"]
  <2>1. call' = [call EXCEPT ![c] = k] /\ k \in Verifications
    BY <1>1, <1>6 DEF CheckTypes, Verifications, Checks!verifyEmail, Checks!Goes
  <2>2. k.pc = "mx" /\ k.status = call[c].status /\ k.shop = call[c].shop /\ k.paid = call[c].paid
          /\ k.reachable = call[c].reachable
    BY <1>1 DEF Verifications
  <2> HIDE DEF k
  <2>3. BoxHeard(k.status, bad')
    BY <1>2, <1>3, <2>2 DEF BoxHeard
  <2> QED BY <1>1, <1>2, <1>3, <1>4, <2>1, <2>2, <2>3, CallMoves DEF CheckTypes
<1> QED BY <1>5, <1>6

\* A verdict on the mailbox is kept, and the verification goes on to its end.
LEMMA FinishKeeps ==
  ASSUME CheckInv, NEW c \in Calls, NEW status \in Statuses \ {"unknown"}, Checks!Finish(c, status),
       call[c].pc # "idle",
         UNCHANGED <<truth, lead, phoneCache>>, bad' \in Nat, bad = 0 \/ bad' # 0,
         \A ok \in mxCache' : ok \in BOOLEAN /\ (ok = FALSE => bad' # 0),
         BoxHeard(status, bad'), call[c].paid /\ bad' = 0 =>
              status # "risky_free" /\ call[c].reachable \in {"live", "dead"}
  PROVE  CheckInv'
<1> USE DEF CheckInv
<1> DEFINE k == [call[c] EXCEPT !.pc = "assess", !.status = status]
<1>1. call[c] \in Verifications /\ LineHeard(call[c].reachable)
  BY DEF CheckTypes, CallsTrue
<1>2. call' = [call EXCEPT ![c] = k] /\ k \in Verifications
  BY <1>1 DEF CheckTypes, Verifications, Checks!Finish
<1>3. k.pc = "assess" /\ k.status = status /\ k.shop = call[c].shop /\ k.paid = call[c].paid
        /\ k.reachable = call[c].reachable
  BY <1>1 DEF Verifications
<1> HIDE DEF k
<1>4. CachesTrue'
  <2>1. \A r \in phoneCache' : r \in {"heuristic", "live", "dead"} /\ LineHeard(r)'
    BY DEF CachesTrue, LineHeard
  <2>2. mailCache' = {status}
    BY DEF Checks!Finish
  <2>3. \A e \in mailCache' : BoxHeard(e, bad)' /\ e # "unknown" /\ mailCache' = {e}
    BY <2>2 DEF BoxHeard
  <2> QED BY <2>1, <2>3 DEF CachesTrue
<1> QED BY <1>1, <1>2, <1>3, <1>4, CallMoves DEF Statuses

\* its domain is looked up,
LEMMA MxKeeps ==
  ASSUME CheckInv, NEW c \in Calls, Checks!hasMx(c)
  PROVE  CheckInv'
<1> USE DEF CheckInv
<1>1. call[c] \in Verifications /\ call[c].pc = "mx" /\ bad \in Nat
  BY DEF CheckTypes, Checks!hasMx
<1>2. UNCHANGED <<truth, lead, phoneCache>>
  BY DEF Checks!hasMx
<1>3. LineHeard(call[c].reachable) /\ BoxHeard(call[c].status, bad) /\ (call[c].paid /\ bad = 0 =>
        call[c].reachable \in {"live", "dead"})
  BY <1>1 DEF CallsTrue
<1>4. PICK ok \in (IF mxCache = {} THEN BOOLEAN ELSE mxCache) :
       /\ IF mxCache = {} /\ ~ok THEN Checks!Misbehave ELSE UNCHANGED bad
       /\ mxCache' = {ok}
       /\ IF ~ok THEN Checks!Finish(c, "undeliverable")
          ELSE IF ~call[c].paid THEN Checks!Finish(c, "risky_free")
          ELSE Checks!Goes(c, "asking") /\ UNCHANGED mailCache
  BY DEF Checks!hasMx
<1>5. ok \in BOOLEAN /\ (ok \in mxCache /\ ok = FALSE => bad # 0)
  BY <1>4 DEF CachesTrue
<1>6. bad' \in Nat /\ (bad = 0 \/ bad' # 0) /\ (ok = FALSE => bad' # 0)
  BY <1>1, <1>4, <1>5 DEF Checks!Misbehave
<1>7. \A o \in mxCache' : o \in BOOLEAN /\ (o = FALSE => bad' # 0)
  BY <1>4, <1>5, <1>6
<1>8. CASE ok = FALSE
  <2>1. BoxHeard("undeliverable", bad')
    BY <1>6, <1>8 DEF BoxHeard, Statuses
  <2>2. Checks!Finish(c, "undeliverable")
    BY <1>4, <1>8
  <2> QED BY <1>1, <1>2, <1>6, <1>7, <1>8, <2>1, <2>2, FinishKeeps DEF Statuses
<1>9. CASE ok = TRUE /\ ~call[c].paid
  <2>1. BoxHeard("risky_free", bad')
    BY DEF BoxHeard, Statuses
  <2>2. Checks!Finish(c, "risky_free")
    BY <1>4, <1>9
  <2> QED BY <1>1, <1>2, <1>6, <1>7, <1>9, <2>1, <2>2, FinishKeeps DEF Statuses
<1>10. CASE ok = TRUE /\ call[c].paid
  <2> DEFINE k == [call[c] EXCEPT !.pc = "asking"]
  <2>1. call' = [call EXCEPT ![c] = k] /\ k \in Verifications /\ mailCache' = mailCache
    BY <1>1, <1>4, <1>10 DEF CheckTypes, Verifications, Checks!Goes
  <2>2. k.pc = "asking" /\ k.status = call[c].status /\ k.shop = call[c].shop /\ k.paid = call[c].paid
          /\ k.reachable = call[c].reachable
    BY <1>1 DEF Verifications
  <2> HIDE DEF k
  <2>3. BoxHeard(k.status, bad')
    BY <1>3, <1>6, <2>2 DEF BoxHeard
  <2>4. CachesTrue'
    <3>1. \A r \in phoneCache' : r \in {"heuristic", "live", "dead"} /\ LineHeard(r)'
      BY <1>2 DEF CachesTrue, LineHeard
    <3>2. \A e \in mailCache' : BoxHeard(e, bad)' /\ e # "unknown" /\ mailCache' = {e}
      BY <1>2, <1>6, <2>1 DEF CachesTrue, BoxHeard
    <3> QED BY <1>7, <3>1, <3>2 DEF CachesTrue
  <2> QED BY <1>1, <1>2, <1>3, <1>6, <2>1, <2>2, <2>3, <2>4, CallMoves
<1> QED BY <1>5, <1>8, <1>9, <1>10

\* and it is asked about.
LEMMA BounceKeeps ==
  ASSUME CheckInv, NEW c \in Calls, Checks!zeroBounce(c)
  PROVE  CheckInv'
<1> USE DEF CheckInv
<1>1. call[c] \in Verifications /\ call[c].pc = "asking" /\ bad \in Nat /\ truth \in Checks!Truths
  BY DEF CheckTypes, Checks!zeroBounce
<1>2. UNCHANGED <<truth, lead, phoneCache, mxCache>>
  BY DEF Checks!zeroBounce
<1>3. call[c].paid /\ bad = 0 => call[c].reachable \in {"live", "dead"}
  BY <1>1 DEF CallsTrue
<1>4. Checks!BoxSays \in {"deliverable", "undeliverable", "risky"} /\ BoxHeard(Checks!BoxSays, bad)
  BY <1>1 DEF Checks!BoxSays, BoxHeard, Checks!Truths, Statuses
<1>5. CASE Checks!Finish(c, Checks!BoxSays) /\ UNCHANGED bad
  <2>1. \A o \in mxCache' : o \in BOOLEAN /\ (o = FALSE => bad' # 0)
    BY <1>2, <1>5 DEF CachesTrue
  <2>2. Checks!BoxSays \in Statuses \ {"unknown"} /\ Checks!BoxSays # "risky_free"
    BY <1>4 DEF Statuses
  <2> QED BY <1>1, <1>2, <1>3, <1>4, <1>5, <2>1, <2>2, FinishKeeps
<1>6. CASE Checks!Misbehave /\ Checks!Finish(c, "risky_free")
  <2>1. bad' \in Nat /\ bad' # 0
    BY <1>1, <1>6 DEF Checks!Misbehave
  <2>2. \A o \in mxCache' : o \in BOOLEAN /\ (o = FALSE => bad' # 0)
    BY <1>2, <2>1 DEF CachesTrue
  <2>3. BoxHeard("risky_free", bad') /\ "risky_free" \in Statuses \ {"unknown"}
    BY DEF BoxHeard, Statuses
  <2> QED BY <1>1, <1>2, <1>6, <2>1, <2>2, <2>3, FinishKeeps
<1> QED BY <1>5, <1>6 DEF Checks!zeroBounce

\* A verification starts,
LEMMA VerifyStartKeeps ==
  ASSUME CheckInv, NEW c \in Calls, NEW s \in Shops, NEW paid \in BOOLEAN,
       Checks!verifyContact(c, s, paid)
  PROVE  CheckInv'
<1> USE DEF CheckInv
<1> DEFINE k == [Checks!Idle EXCEPT !.pc = "phone", !.shop = s, !.paid = paid]
<1>1. call' = [call EXCEPT ![c] = k] /\ k \in Verifications
        /\ UNCHANGED <<truth, lead, phoneCache, mailCache, mxCache, bad>>
  <2>1. k \in Verifications
    BY DEF Checks!Idle, Verifications, Reaches, Statuses
  <2> QED BY <2>1 DEF Checks!verifyContact
<1>2. call'[c] = k /\ \A d \in Calls \ {c} : call'[d] = call[d]
  BY <1>1 DEF CheckTypes
<1>3. IF paid THEN lead[s].found ELSE ~lead[s].found /\ \A d \in Calls : call[d].shop # s
  BY DEF Checks!verifyContact
<1>4. k.pc = "phone" /\ k.shop = s /\ k.paid = paid /\ k.reachable = "nothing" /\ k.status = "unknown"
  BY DEF Checks!Idle
<1> HIDE DEF k
<1>5. CheckTypes'
  <2>1. call' \in [Calls -> Verifications]
    BY <1>1 DEF CheckTypes
  <2>2. \A d \in Calls : Verifying(d)' => call'[d].shop \in Shops
    BY <1>2, <1>4 DEF CheckTypes, Verifying
  <2> QED BY <1>1, <2>1, <2>2 DEF CheckTypes
<1>6. CachesTrue'
  BY <1>1 DEF CachesTrue, BoxHeard, LineHeard
<1>7. CallsTrue'
  <2>1. LineHeard("nothing") /\ BoxHeard("unknown", bad)
    BY DEF LineHeard, BoxHeard, Statuses
  <2>2. ASSUME NEW d \in Calls PROVE
        /\ LineHeard(call'[d].reachable)
        /\ BoxHeard(call'[d].status, bad)
        /\ call'[d].paid /\ call'[d].pc \in {"mail", "mx", "asking", "assess"} /\ bad = 0 =>
             call'[d].reachable \in {"live", "dead"}
        /\ call'[d].paid /\ call'[d].pc = "assess" /\ bad = 0 =>
             call'[d].status \in {"deliverable", "undeliverable", "risky"}
    BY <1>2, <1>4, <2>1 DEF CallsTrue
  <2> QED BY <1>1, <2>2 DEF CallsTrue, LineHeard, BoxHeard
<1>8. FreeFirst'
  <2> SUFFICES ASSUME NEW e \in Calls, Verifying(e)', ~call'[e].paid
               PROVE  ~lead[call'[e].shop].found /\ \A d \in Calls \ {e} : Verifying(d)' =>
                    call'[d].shop # call'[e].shop
    BY <1>1 DEF FreeFirst
  <2>1. CASE e = c
    BY <1>2, <1>3, <1>4, <2>1 DEF Verifying
  <2>2. CASE e # c
    <3>1. call'[e] = call[e] /\ Verifying(e)
      BY <1>2, <2>2 DEF Verifying
    <3>2. ~lead[call[e].shop].found /\ \A d \in Calls \ {e} : Verifying(d) =>
            call[d].shop # call[e].shop
      BY <3>1 DEF FreeFirst
    <3>3. s # call[e].shop
      BY <1>3, <3>2
    <3> QED BY <1>2, <1>4, <3>1, <3>2, <3>3 DEF Verifying
  <2> QED BY <2>1, <2>2
<1>9. LeadsTrue'
  BY <1>1 DEF LeadsTrue
<1> QED BY <1>5, <1>6, <1>7, <1>8, <1>9

\* and files what it holds.
LEMMA AssessKeeps ==
  ASSUME CheckInv, NEW c \in Calls, Checks!Assess(c)
  PROVE  CheckInv'
<1> USE DEF CheckInv
<1>1. call[c] \in Verifications /\ call[c].pc = "assess" /\ bad \in Nat /\ call[c].shop \in Shops
  BY DEF CheckTypes, Checks!Assess, Verifying
<1> DEFINE k == call[c]
           can == Checks!phoneUsable(k.reachable) \/ k.status \in {"deliverable", "risky", "risky_free"}
           new == [lead[k.shop] EXCEPT !.found = TRUE, !.heard = k.reachable, !.emailStatus = k.status,
                      !.deliverable = can, !.verifiedAt = (lead[k.shop].verifiedAt \/ k.paid)]
<1>2. lead' = [lead EXCEPT ![k.shop] = new] /\ call' = [call EXCEPT ![c] = Checks!Idle]
      /\ UNCHANGED <<truth, phoneCache, mailCache, mxCache, bad>>
  <2>1. lead' = [lead EXCEPT ![k.shop] = new]
    BY Zenon DEF Checks!Assess
  <2>2. call' = [call EXCEPT ![c] = Checks!Idle] /\ UNCHANGED <<truth, phoneCache, mailCache, mxCache,
          bad>>
    BY DEF Checks!Assess
  <2> QED BY <2>1, <2>2
<1>3. lead[k.shop] \in Verified
  BY <1>1 DEF CheckTypes
<1>4. new.found = TRUE /\ new.emailStatus = k.status /\ new.deliverable = can
        /\ new.verifiedAt = (lead[k.shop].verifiedAt \/ k.paid)
  BY <1>3 DEF Verified
<1>5. new \in Verified
  <2>1. can \in BOOLEAN
    BY DEF Checks!phoneUsable
  <2>2. (lead[k.shop].verifiedAt \/ k.paid) \in BOOLEAN
    BY <1>1, <1>3 DEF Verified
  <2> HIDE DEF can
  <2> QED BY <1>1, <1>3, <2>1, <2>2 DEF Verified, Verifications
<1>6. \A s \in Shops : lead'[s] = IF s = k.shop THEN new ELSE lead[s]
  BY <1>1, <1>2 DEF CheckTypes
<1>7. call'[c] = Checks!Idle /\ \A d \in Calls \ {c} : call'[d] = call[d]
  BY <1>2 DEF CheckTypes
<1>8. Checks!Idle \in Verifications /\ Checks!Idle.pc = "idle" /\ Checks!Idle.reachable = "nothing"
        /\ Checks!Idle.status = "unknown"
      /\ Checks!Idle.shop = "none" /\ Checks!Idle.paid = FALSE
  BY DEF Checks!Idle, Verifications, Reaches, Statuses
<1>9. /\ LineHeard(k.reachable) /\ BoxHeard(k.status, bad)
      /\ k.paid /\ bad = 0 => k.reachable \in {"live", "dead"}
           /\ k.status \in {"deliverable", "undeliverable", "risky"}
  BY <1>1 DEF CallsTrue
<1>10. ~k.paid => /\ ~lead[k.shop].found /\ ~lead[k.shop].verifiedAt
                       /\ \A d \in Calls \ {c} : Verifying(d) => call[d].shop # k.shop
  BY <1>1 DEF FreeFirst, Verifying
<1>11. CheckTypes'
  <2>1. call' \in [Calls -> Verifications]
    BY <1>2, <1>8 DEF CheckTypes
  <2>2. lead' \in [Shops -> Verified]
    BY <1>1, <1>2, <1>5 DEF CheckTypes
  <2>3. \A d \in Calls : Verifying(d)' => call'[d].shop \in Shops
    BY <1>7, <1>8 DEF CheckTypes, Verifying
  <2> QED BY <1>2, <2>1, <2>2, <2>3 DEF CheckTypes
<1>12. CachesTrue'
  BY <1>2 DEF CachesTrue, BoxHeard, LineHeard
<1>13. CallsTrue'
  <2>1. LineHeard("nothing") /\ BoxHeard("unknown", bad)
    BY DEF LineHeard, BoxHeard, Statuses
  <2>2. ASSUME NEW d \in Calls PROVE
        /\ LineHeard(call'[d].reachable)
        /\ BoxHeard(call'[d].status, bad)
        /\ call'[d].paid /\ call'[d].pc \in {"mail", "mx", "asking", "assess"} /\ bad = 0 =>
             call'[d].reachable \in {"live", "dead"}
        /\ call'[d].paid /\ call'[d].pc = "assess" /\ bad = 0 =>
             call'[d].status \in {"deliverable", "undeliverable", "risky"}
    BY <1>7, <1>8, <2>1 DEF CallsTrue
  <2> QED BY <1>2, <2>2 DEF CallsTrue, LineHeard, BoxHeard
<1>14. LeadsTrue'
  <2> SUFFICES ASSUME NEW s \in Shops, lead'[s].verifiedAt PROVE
        /\ lead'[s].emailStatus = "deliverable" => truth.box = "valid"
        /\ lead'[s].emailStatus = "undeliverable" /\ bad = 0 => truth.box = "invalid"
        /\ lead'[s].deliverable /\ bad = 0 => truth.line = "live" \/ truth.box # "invalid"
    BY <1>2 DEF LeadsTrue
  <2>1. CASE s # k.shop
    BY <1>6, <2>1 DEF LeadsTrue
  <2>2. CASE s = k.shop
    <3>1. k.paid
      BY <1>4, <1>6, <1>10, <2>2
    <3>2. bad = 0 /\ can => truth.line = "live" \/ truth.box # "invalid"
      BY <1>9, <3>1 DEF LineHeard, BoxHeard, Checks!phoneUsable
    <3>3. lead'[s].emailStatus = k.status /\ lead'[s].deliverable = can
      BY <1>4, <1>6, <2>2
    <3> HIDE DEF can, new, k
    <3> QED BY <1>9, <3>2, <3>3 DEF BoxHeard
  <2> QED BY <2>1, <2>2
<1>15. FreeFirst'
  <2>1. \A s \in Shops : lead'[s].verifiedAt => lead'[s].found
    BY <1>4, <1>6 DEF FreeFirst
  <2>2. ASSUME NEW e \in Calls, Verifying(e)', ~call'[e].paid
        PROVE  ~lead'[call'[e].shop].found /\ \A d \in Calls \ {e} : Verifying(d)' =>
             call'[d].shop # call'[e].shop
    <3>1. e # c /\ call'[e] = call[e] /\ Verifying(e)
      BY <1>7, <1>8, <2>2 DEF Verifying
    <3>2. ~lead[call[e].shop].found /\ \A d \in Calls \ {e} : Verifying(d) =>
            call[d].shop # call[e].shop
      BY <2>2, <3>1 DEF FreeFirst
    <3>3. call[e].shop \in Shops
      BY <3>1 DEF CheckTypes
    <3>4. k.shop # call[e].shop
      BY <1>1, <3>1, <3>2 DEF Verifying
    <3>5. ~lead'[call'[e].shop].found
      BY <1>6, <3>1, <3>2, <3>3, <3>4
    <3>6. \A d \in Calls \ {e} : Verifying(d)' => call'[d].shop # call'[e].shop
      BY <1>7, <1>8, <3>1, <3>2 DEF Verifying
    <3> QED BY <3>5, <3>6
  <2> QED BY <2>1, <2>2 DEF FreeFirst
<1> QED BY <1>11, <1>12, <1>13, <1>14, <1>15

\* The process starts anew, with empty caches.
LEMMA RestartKeeps ==
  ASSUME CheckInv, Checks!Restart
  PROVE  CheckInv'
<1> USE DEF CheckInv
<1>1. /\ bad \in Nat /\ bad' \in Nat /\ bad' # 0 /\ phoneCache' = {} /\ mailCache' = {} /\ mxCache' = {}
      /\ call' = [c \in Calls |-> Checks!Idle] /\ UNCHANGED <<truth, lead>>
  BY DEF Checks!Restart, Checks!Misbehave, CheckTypes
<1>2. Checks!Idle \in Verifications /\ Checks!Idle.pc = "idle" /\ Checks!Idle.reachable = "nothing"
        /\ Checks!Idle.status = "unknown"
  BY DEF Checks!Idle, Verifications, Reaches, Statuses
<1>3. CheckTypes'
  BY <1>1, <1>2 DEF CheckTypes, Verifying
<1>4. CachesTrue'
  BY <1>1 DEF CachesTrue
<1>5. CallsTrue'
  <2>1. ASSUME NEW c \in Calls PROVE LineHeard(call[c].reachable)' /\ BoxHeard(call[c].status, bad)'
    BY <1>1, <1>2 DEF LineHeard, BoxHeard, Statuses
  <2> QED BY <1>1, <1>2, <2>1 DEF CallsTrue
<1>6. FreeFirst'
  BY <1>1, <1>2 DEF FreeFirst, Verifying
<1>7. LeadsTrue'
  BY <1>1 DEF LeadsTrue
<1> QED BY <1>3, <1>4, <1>5, <1>6, <1>7

\* The invariant holds at first,
LEMMA CheckStart == Checks!Init => CheckInv
<1> SUFFICES ASSUME Checks!Init PROVE CheckInv
  OBVIOUS
<1>1. /\ bad = 0 /\ phoneCache = {} /\ mailCache = {} /\ mxCache = {} /\ truth \in Checks!Truths
      /\ call = [c \in Calls |-> Checks!Idle] /\ lead = [s \in Shops |-> Checks!NotYet]
  BY DEF Checks!Init
<1>2. Checks!Idle \in Verifications /\ Checks!Idle.pc = "idle" /\ Checks!Idle.reachable = "nothing"
        /\ Checks!Idle.status = "unknown"
  BY DEF Checks!Idle, Verifications, Reaches, Statuses
<1>3. Checks!NotYet \in Verified /\ Checks!NotYet.verifiedAt = FALSE
  BY DEF Checks!NotYet, Verified, Reaches, Statuses
<1>4. CheckTypes
  BY <1>1, <1>2, <1>3 DEF CheckTypes, Verifying
<1>5. CachesTrue
  BY <1>1 DEF CachesTrue
<1>6. CallsTrue
  BY <1>1, <1>2 DEF CallsTrue, LineHeard, BoxHeard, Statuses
<1>7. FreeFirst /\ LeadsTrue
  BY <1>1, <1>2, <1>3 DEF FreeFirst, LeadsTrue, Verifying
<1> QED BY <1>4, <1>5, <1>6, <1>7 DEF CheckInv

\* and every step keeps it.
LEMMA CheckKept == CheckInv /\ [Checks!Next]_(Checks!vars) => CheckInv'
<1> SUFFICES ASSUME CheckInv, [Checks!Next]_(Checks!vars) PROVE CheckInv'
  OBVIOUS
<1>1. CASE UNCHANGED Checks!vars
  <2>1. UNCHANGED <<truth, lead, call, phoneCache, mailCache, mxCache, bad>>
    BY <1>1 DEF Checks!vars
  <2>2. CheckTypes' /\ FreeFirst' /\ LeadsTrue'
    BY <2>1 DEF CheckInv, CheckTypes, FreeFirst, LeadsTrue, Verifying
  <2>3. CachesTrue' /\ CallsTrue'
    BY <2>1 DEF CheckInv, CachesTrue, CallsTrue, LineHeard, BoxHeard
  <2> QED BY <2>2, <2>3 DEF CheckInv
<1>2. CASE \E c \in Calls, s \in Shops, paid \in BOOLEAN : Checks!verifyContact(c, s, paid)
  BY <1>2, VerifyStartKeeps
<1>3. CASE \E c \in Calls : Checks!verifyPhone(c) \/ Checks!twilioLookup(c) \/ Checks!verifyEmail(c)
                            \/ Checks!hasMx(c) \/ Checks!zeroBounce(c) \/ Checks!Assess(c)
  BY <1>3, PhoneKeeps, TwilioKeeps, EmailKeeps, MxKeeps, BounceKeeps, AssessKeeps
<1>4. CASE Checks!Restart
  BY <1>4, RestartKeeps
<1> QED BY <1>1, <1>2, <1>3, <1>4, Zenon DEF Checks!Next

\* The part runs in behaviours of its own.
CheckHold == scene = "contact" => CheckInv

\* So the invariant is one of the whole.
LEMMA CheckAlways == SceneSpec => []CheckHold
<1>1. SceneInit => CheckHold
  BY CheckStart DEF SceneInit, CheckHold
<1>2. CheckHold /\ [SceneNext]_sceneVars => CheckHold'
  <2> SUFFICES ASSUME CheckHold, [SceneNext]_sceneVars, scene' = "contact" PROVE CheckInv'
    BY DEF CheckHold
  <2>1. scene = "contact" /\ [Checks!Next]_(Checks!vars)
    BY DEF SceneNext, sceneVars, ContactOnly, Checks!vars
  <2> QED BY <2>1, CheckKept DEF CheckHold
<1> QED BY <1>1, <1>2, PTL DEF SceneSpec

\* With every vendor answering, no lead that was paid for is sold as reachable where nobody can be
\* reached, and what is said of a mailbox is what its vendor said, whatever calls shared the caches
\* (lib/verify, lib/evidence.ts).
THEOREM SoldLeadsReachable == SceneSpec => []SoldMeansReachable
<1>1. CheckHold => SoldMeansReachable
  <2> SUFFICES ASSUME CheckInv PROVE Checks!SoldMeansReachable /\ Checks!MailboxToldTruly
    BY DEF CheckHold, SoldMeansReachable
  <2>1. Checks!SoldMeansReachable
    BY DEF CheckInv, LeadsTrue, Checks!SoldMeansReachable
  <2>2. ASSUME NEW s \in Shops
        PROVE  /\ Checks!mailRow(lead[s]) = "the mailbox was confirmed to exist" => truth.box = "valid"
               /\ Checks!mailRow(lead[s]) = "the mailbox was rejected" /\ bad = 0 =>
                    truth.box = "invalid"
    <3>1. lead[s].verifiedAt \in BOOLEAN
      BY DEF CheckInv, CheckTypes, Verified
    <3>2. CASE ~lead[s].verifiedAt \/ lead[s].emailStatus = "unknown"
      BY <3>2 DEF Checks!mailRow
    <3>3. CASE lead[s].verifiedAt /\ lead[s].emailStatus # "unknown"
      BY <3>3 DEF Checks!mailRow, CheckInv, LeadsTrue
    <3> QED BY <3>1, <3>2, <3>3
  <2> QED BY <2>1, <2>2 DEF Checks!MailboxToldTruly
<1> QED BY <1>1, CheckAlways, PTL

-----------------------------------------------------------------------------
(* Owner: the name given is of somebody who runs the business. The crawl,  *)
(* the vendor and the registry are asked in that order.                    *)

\* Smaller numbers, of which there is a smallest in every set.
Below == { p \in Nat \X Nat : p[1] < p[2] }

\* Nothing goes down forever in the numbers,
LEMMA BelowWellFounded == IsWellFoundedOn(Below, Nat)
<1>1. Below = OpToRel(<, Nat)
  BY DEF Below, OpToRel
<1> QED BY <1>1, NatLessThanWellFounded

\* so each set of them has a smallest.
LEMMA Smallest ==
  ASSUME NEW T \in SUBSET Nat, T # {}
  PROVE  \E x \in T : \A y \in T : x <= y
<1>1. PICK x \in T : \A y \in T : <<y, x>> \notin Below
  BY BelowWellFounded, WFMin, Zenon
<1>2. \A y \in T : ~(y < x)
  <2> TAKE y \in T
  <2>1. <<y, x>> \in Nat \X Nat
    BY <1>1
  <2> QED BY <1>1, <2>1 DEF Below
<1> QED BY <1>1, <1>2

\* Type invariant of the lookup.
NameTypes ==
  /\ contacts \in UNION { [1..m -> Contacts] : m \in 0..MaxReturned }
  /\ filings \in UNION { [1..m -> Filings] : m \in 0..MaxReturned }
  /\ stage \in {"crawl", "vendor", "unenriched", "registry", "done"}
  /\ lead \in [source : {"none", "site", "vendor", "registry"}, at : Nat,
       mail : {"none", "guess", "vendor"}]
\* A name of a source is one of those its rule may pick.
NameFound ==
  /\ stage # "done" => lead.source \in {"none", "site"}
  /\ lead.source = "vendor" => lead.at \in Names!pickOwnerContact
  /\ lead.source = "registry" => lead.at \in Names!lookupRegistryOwner
\* The inductive invariant.
NameInv == NameTypes /\ NameFound

\* Whom the vendor's list may name runs the business.
LEMMA Picked ==
  ASSUME NameTypes, NEW i \in Names!pickOwnerContact
  PROVE  i \in Nat /\ contacts[i].runsIt
<1>1. i \in DOMAIN contacts /\ contacts[i].person /\ Names!isOwnerTitle(contacts[i])
        /\ contacts[i].confidence >= 70
  BY DEF Names!pickOwnerContact, Names!Owners, Names!MIN_OWNER_CONFIDENCE
<1>2. PICK m \in 0..MaxReturned : contacts \in [1..m -> Contacts]
  BY DEF NameTypes
<1>3. m \in Nat /\ i \in 1..m /\ contacts[i] \in Contacts
  BY <1>1, <1>2, OwnerAssumption
<1>4. Names!ToSet(Names!OWNER_TITLES) = {"owner", "president"}
  <2>1. DOMAIN Names!OWNER_TITLES = {1, 2}
    BY DEF Names!OWNER_TITLES
  <2>2. Names!OWNER_TITLES[1] = "owner" /\ Names!OWNER_TITLES[2] = "president"
    BY DEF Names!OWNER_TITLES
  <2> QED BY <2>1, <2>2 DEF Names!ToSet
<1> QED BY <1>1, <1>3, <1>4, OwnerAssumption DEF Names!isOwnerTitle

\* Whom a filing may name is a person, and the filing of a business of nearly that name.
LEMMA Filed ==
  ASSUME NameTypes, NEW i \in Names!lookupRegistryOwner
  PROVE  i \in Nat /\ filings[i].agent = "person" /\ filings[i].extraWords <= 1
<1> DEFINE fits == { k \in DOMAIN filings :
                       \/ listing.state = "CO" /\ Names!colorado(filings[k])
                       \/ listing.state = "OR" /\ Names!oregon(filings[k]) }
<1>1. fits # {} /\ i = Names!Min(fits)
  BY Zenon DEF Names!lookupRegistryOwner
<1>2. PICK m \in 0..MaxReturned : filings \in [1..m -> Filings]
  BY DEF NameTypes
<1>3. fits \in SUBSET Nat
  BY <1>2, OwnerAssumption
<1>4. i \in fits
  <2> HIDE DEF fits
  <2>1. \E x \in fits : \A y \in fits : x <= y
    BY <1>1, <1>3, Smallest
  <2> QED BY <2>1, <1>1 DEF Names!Min
<1> QED BY <1>3, <1>4 DEF Names!colorado, Names!oregon, Names!sameBusiness, Names!looksLikeAPerson

\* The invariant holds at first,
LEMMA NameStart == Names!Init => NameInv
<1> SUFFICES ASSUME Names!Init PROVE NameInv
  OBVIOUS
<1>1. contacts \in UNION { [1..m -> Contacts] : m \in 0..MaxReturned }
        /\ filings \in UNION { [1..m -> Filings] : m \in 0..MaxReturned }
  BY Zenon DEF Names!Init, Names!SeqOf
<1> QED BY <1>1 DEF NameInv, NameTypes, NameFound, Names!Init, Names!Nobody

\* and every step keeps it.
LEMMA NameKept == NameInv /\ [Names!Next]_(Names!vars) => NameInv'
<1> SUFFICES ASSUME NameInv, [Names!Next]_(Names!vars) PROVE NameInv'
  OBVIOUS
<1>0. NameTypes /\ NameFound
  BY DEF NameInv
<1> DEFINE Name == [source : {"none", "site", "vendor", "registry"}, at : Nat,
        mail : {"none", "guess", "vendor"}]
<1>1. ASSUME UNCHANGED <<contacts, filings, listing>> PROVE
        /\ Names!pickOwnerContact' = Names!pickOwnerContact
        /\ Names!lookupRegistryOwner' = Names!lookupRegistryOwner
  BY <1>1 DEF Names!pickOwnerContact, Names!Owners, Names!Outranks, Names!lookupRegistryOwner,
       Names!colorado, Names!oregon
<1>2. ASSUME UNCHANGED <<contacts, filings, listing>>, lead' \in Name,
        lead'.source \in {"none", "site"},
             stage' \in {"vendor", "unenriched", "registry", "done"}
      PROVE  NameInv'
  BY <1>0, <1>2 DEF NameInv, NameTypes, NameFound
<1>3. Names!Nobody \in Name /\ Names!Nobody.source = "none" /\ Names!FromSite \in Name
        /\ Names!FromSite.source \in {"none", "site"}
  BY DEF Names!Nobody, Names!FromSite
<1>4. CASE Names!Crawl
  BY <1>0, <1>2, <1>3, <1>4 DEF Names!Crawl, NameTypes, NameFound
<1>5. CASE Names!CrawlAgain
  BY <1>0, <1>2, <1>3, <1>5 DEF Names!CrawlAgain
<1>6. CASE Names!AskVendor
  <2>1. CASE UNCHANGED lead
    BY <1>0, <1>2, <1>6, <2>1 DEF Names!AskVendor, NameTypes, NameFound
  <2>2. CASE \E i \in Names!pickOwnerContact : lead' = Names!FillFrom(i)
    <3>1. PICK i \in Names!pickOwnerContact : lead' = Names!FillFrom(i)
      BY <2>2
    <3>2. i \in Nat
      BY <1>0, Picked
    <3>3. lead.source \in {"none", "site"} /\ lead \in Name
      BY <1>0, <1>6 DEF NameTypes, NameFound, Names!AskVendor
    <3>4. lead' \in Name /\ (lead'.source = "vendor" => lead'.at = i)
            /\ lead'.source \in {"site", "vendor"}
      BY <3>1, <3>2, <3>3 DEF Names!FillFrom
    <3>5. UNCHANGED <<contacts, filings, listing>> /\ stage' = "done"
      BY <1>6 DEF Names!AskVendor
    <3> QED BY <1>0, <1>1, <3>1, <3>4, <3>5 DEF NameInv, NameTypes, NameFound
  <2> QED BY <1>6, <2>1, <2>2 DEF Names!AskVendor
<1>7. CASE Names!AskRegistry
  <2>1. CASE UNCHANGED lead
    BY <1>0, <1>2, <1>7, <2>1 DEF Names!AskRegistry, NameTypes, NameFound
  <2>2. CASE \E i \in Names!lookupRegistryOwner : lead' = [lead EXCEPT !.source = "registry", !.at = i]
    <3>1. PICK i \in Names!lookupRegistryOwner : lead' = [lead EXCEPT !.source = "registry", !.at = i]
      BY <2>2
    <3>2. i \in Nat
      BY <1>0, Filed
    <3>3. lead' \in Name /\ lead'.source = "registry" /\ lead'.at = i
      BY <1>0, <3>1, <3>2 DEF NameTypes
    <3>5. UNCHANGED <<contacts, filings, listing>> /\ stage' = "done"
      BY <1>7 DEF Names!AskRegistry
    <3> QED BY <1>0, <1>1, <3>1, <3>3, <3>5 DEF NameInv, NameTypes, NameFound
  <2> QED BY <1>7, <2>1, <2>2 DEF Names!AskRegistry
<1>8. CASE UNCHANGED Names!vars
  BY <1>0, <1>1, <1>8 DEF Names!vars, NameInv, NameTypes, NameFound
<1> QED BY <1>4, <1>5, <1>6, <1>7, <1>8 DEF Names!Next

\* The part runs in behaviours of its own.
NameHold == scene = "owner" => NameInv

\* So the invariant is one of the whole.
LEMMA NameAlways == SceneSpec => []NameHold
<1>1. SceneInit => NameHold
  BY NameStart DEF SceneInit, NameHold
<1>2. NameHold /\ [SceneNext]_sceneVars => NameHold'
  <2> SUFFICES ASSUME NameHold, [SceneNext]_sceneVars, scene' = "owner" PROVE NameInv'
    BY DEF NameHold
  <2>1. scene = "owner" /\ [Names!Next]_(Names!vars)
    BY DEF SceneNext, sceneVars, OwnerOnly, Names!vars
  <2> QED BY <2>1, NameKept DEF NameHold
<1> QED BY <1>1, <1>2, PTL DEF SceneSpec

\* A name from the vendor is of somebody who runs the business, given what the titles mean, and
\* one from a filing is of a person, at a business whose name has one word more at most, for lists
\* and filings of any length (lib/owner-lookup.ts, lib/registry).
THEOREM RightPersonNamed == SceneSpec => []RightPerson
<1>1. NameHold => RightPerson
  BY Picked, Filed DEF NameHold, NameInv, NameFound, RightPerson, Names!RightPerson
<1> QED BY <1>1, NameAlways, PTL

-----------------------------------------------------------------------------
(* Orders and counting. What stands at a place of an order is what as many *)
(* stand before; every list the parts sort is read by this.                *)

\* Whoever of a set comes before one of it.
Earlier(S, R, x) == { y \in S : <<y, x>> \in R }
\* A strict order of all of a set.
Orders(R, S) ==
  /\ \A x \in S : <<x, x>> \notin R
  /\ \A x, y, z \in S : <<x, y>> \in R /\ <<y, z>> \in R => <<x, z>> \in R
  /\ \A x, y \in S : x = y \/ <<x, y>> \in R \/ <<y, x>> \in R

\* Whoever comes later has more before him;
LEMMA PlacesGrow ==
  ASSUME NEW S, IsFiniteSet(S), NEW R, Orders(R, S), NEW x \in S, NEW y \in S, <<x, y>> \in R
  PROVE  Cardinality(Earlier(S, R, x)) < Cardinality(Earlier(S, R, y))
<1>1. Earlier(S, R, y) \subseteq S
  BY DEF Earlier
<1>2. IsFiniteSet(Earlier(S, R, y)) /\ Cardinality(Earlier(S, R, y)) \in Nat
  BY <1>1, FS_Subset, FS_CardinalityType
<1>3. Earlier(S, R, x) \subseteq Earlier(S, R, y)
  BY DEF Earlier, Orders
<1>4. x \in Earlier(S, R, y) /\ x \notin Earlier(S, R, x)
  BY DEF Earlier, Orders
<1>5. Cardinality(Earlier(S, R, x)) \in Nat /\ Cardinality(Earlier(S, R, x)) <= Cardinality(Earlier(S, R,
        y))
  BY <1>2, <1>3, FS_Subset, FS_CardinalityType
<1>6. Cardinality(Earlier(S, R, x)) # Cardinality(Earlier(S, R, y))
  <2>1. SUFFICES ASSUME Cardinality(Earlier(S, R, y)) = Cardinality(Earlier(S, R, x)) PROVE FALSE
    OBVIOUS
  <2>2. Earlier(S, R, y) = Earlier(S, R, x)
    BY <1>2, <1>3, <2>1, FS_Subset
  <2> QED BY <1>4, <2>2
<1> QED BY <1>2, <1>5, <1>6

\* so the places are 0, 1, 2, ..., each taken once.
LEMMA PlacesAre ==
  ASSUME NEW S, IsFiniteSet(S), NEW R, Orders(R, S)
  PROVE  /\ Cardinality(S) \in Nat
         /\ \A x \in S : Cardinality(Earlier(S, R, x)) \in 0..(Cardinality(S) - 1)
         /\ \A x, y \in S : <<x, y>> \in R <=> Cardinality(Earlier(S, R, x)) < Cardinality(Earlier(S, R,
              y))
         /\ \A k \in 1..Cardinality(S) : \E x \in S : Cardinality(Earlier(S, R, x)) = k - 1
<1>1. Cardinality(S) \in Nat
  BY FS_CardinalityType
<1>2. \A x \in S : Cardinality(Earlier(S, R, x)) \in 0..(Cardinality(S) - 1)
  <2> TAKE x \in S
  <2>1. Earlier(S, R, x) \subseteq S /\ x \notin Earlier(S, R, x)
    BY DEF Earlier, Orders
  <2>2. Cardinality(Earlier(S, R, x)) \in Nat /\ Cardinality(Earlier(S, R, x)) <= Cardinality(S)
    BY <2>1, FS_Subset, FS_CardinalityType
  <2>3. Cardinality(Earlier(S, R, x)) # Cardinality(S)
    BY <2>1, FS_Subset
  <2> QED BY <1>1, <2>2, <2>3
<1>3. \A x, y \in S : <<x, y>> \in R <=> Cardinality(Earlier(S, R, x)) < Cardinality(Earlier(S, R, y))
  <2> TAKE x, y \in S
  <2>1. CASE <<x, y>> \in R
    BY <2>1, PlacesGrow
  <2>2. CASE <<y, x>> \in R
    <3>1. Cardinality(Earlier(S, R, y)) < Cardinality(Earlier(S, R, x))
      BY <2>2, PlacesGrow
    <3>2. <<x, y>> \notin R
      BY <2>2 DEF Orders
    <3> QED BY <1>1, <1>2, <3>1, <3>2
  <2>3. CASE x = y
    BY <1>1, <1>2, <2>3 DEF Orders
  <2> QED BY <2>1, <2>2, <2>3 DEF Orders
<1>4. \A k \in 1..Cardinality(S) : \E x \in S : Cardinality(Earlier(S, R, x)) = k - 1
  <2> DEFINE n == Cardinality(S)
             place == [x \in S |-> Cardinality(Earlier(S, R, x)) + 1]
  <2>1. place \in [S -> 1..n]
    BY <1>1, <1>2
  <2>2. \A x, y \in S : place[x] = place[y] => x = y
    <3> TAKE x, y \in S
    <3>1. ASSUME Cardinality(Earlier(S, R, x)) + 1 = Cardinality(Earlier(S, R, y)) + 1 PROVE x = y
      <4>1. ~(Cardinality(Earlier(S, R, x)) < Cardinality(Earlier(S, R, y)))
            /\ ~(Cardinality(Earlier(S, R, y)) < Cardinality(Earlier(S, R, x)))
        BY <1>1, <1>2, <3>1
      <4> QED BY <1>3, <4>1 DEF Orders
    <3> QED BY <3>1
  <2>3. place \in Injection(S, 1..n)
    BY <2>1, <2>2 DEF Injection, IsInjective
  <2>4. IsFiniteSet(1..n) /\ Cardinality(1..n) = n
    <3>1. Cardinality(1..n) = IF 1 > n THEN 0 ELSE n - 1 + 1
      BY <1>1, FS_Interval
    <3> QED BY <1>1, <3>1, FS_Interval
  <2>5. place \in Surjection(S, 1..n)
    BY <2>3, <2>4, FS_Injection
  <2> TAKE k \in 1..n
  <2>6. PICK x \in S : place[x] = k
    BY <2>5 DEF Surjection
  <2> QED BY <1>1, <1>2, <2>6
<1> QED BY <1>1, <1>2, <1>3, <1>4

\* Division with a remainder.
LEMMA DivMod ==
  \A x \in Int, L \in Nat \ {0} : x = (L * (x \div L)) + (x % L) /\ x \div L \in Int
       /\ x % L \in 0..(L-1)
BY SMTT(30)

\* No multiple is nearer to nothing than one, but nothing.
LEMMA NoMultipleBetween ==
  ASSUME NEW L \in Nat \ {0}, NEW k \in Int, L * k < L, -L < L * k
  PROVE  k = 0
<1>1. CASE k >= 1
  <2>1. k = 1 + (k - 1) /\ k - 1 \in Nat BY <1>1
  <2>2. L * k = L + L * (k-1) BY <2>1
  <2>3. \A m \in Nat : L * m >= 0 OBVIOUS
  <2> QED BY <2>1, <2>2, <2>3
<1>2. CASE k <= -1
  <2>1. k = (-1) - (-1 - k) /\ -1 - k \in Nat BY <1>2
  <2>2. L * k = -L - L * (-1 - k) BY <2>1
  <2>3. \A m \in Nat : L * m >= 0 OBVIOUS
  <2> QED BY <2>1, <2>2, <2>3
<1> QED BY <1>1, <1>2

\* Every number is in the chunk that begins at a multiple.
LEMMA ChunkOf ==
  ASSUME NEW L \in Nat \ {0}, NEW x \in Nat
  PROVE  \E j \in 0..x : j % L = 0 /\ x < j + L
<1> DEFINE q == x \div L  j == L * q
<1>1. q \in Int /\ x % L \in 0..(L-1) /\ x = j + (x % L)
  BY DivMod
<1> HIDE DEF q
<1>2. j \in Int
  BY <1>1
<1> DEFINE p == j \div L  r == j % L
<1>3. p \in Int /\ r \in 0..(L-1) /\ j = L * p + r
  BY <1>2, DivMod
<1> HIDE DEF p, r
<1>4. L * (q - p) = r
  <2>1. L * (q - p) = L * q - L * p
    BY <1>1, <1>3
  <2> QED BY <2>1, <1>3, <1>1, <1>2
<1>5. q - p = 0
  BY <1>1, <1>3, <1>4, NoMultipleBetween
<1>6. r = 0
  BY <1>1, <1>3, <1>4, <1>5
<1>7. 0 <= q
  <2>1. SUFFICES ASSUME q <= -1 PROVE FALSE
    BY <1>1
  <2>2. q = -1 - (-1 - q) /\ -1 - q \in Nat
    BY <1>1, <2>1
  <2>3. L * q = -L - L * (-1 - q)
    BY <1>1, <2>2
  <2>4. L * (-1 - q) >= 0
    BY <2>2
  <2>5. L * q <= -L
    BY <1>1, <2>3, <2>4, <2>2
  <2> QED BY <1>1, <2>5
<1>8. 0 <= j
  BY <1>1, <1>7
<1> QED BY <1>1, <1>2, <1>6, <1>8 DEF r

\* The instance counts as the standard module does.
LEMMA MovesCount == \A S : Moves!Cardinality(S) = Cardinality(S)
BY Zenon DEF Moves!Cardinality, Cardinality

\* A finite set, in a list.
LEMMA Listed ==
  ASSUME NEW S, IsFiniteSet(S)
  PROVE  /\ Cardinality(S) \in Nat /\ Moves!SetToSeq(S) \in [1..Cardinality(S) -> S]
         /\ \A x \in S : \E i \in 1..Cardinality(S) : Moves!SetToSeq(S)[i] = x
<1> DEFINE n == Cardinality(S)
<1>1. n \in Nat /\ ExistsBijection(1..n, S)
  BY FS_CardinalityType
<1>2. PICK f : f \in Injection(1..n, S)
  BY <1>1 DEF ExistsBijection, Bijection
<1>3. \E g \in [1..n -> S] : Moves!IsInjective(g)
  BY <1>2 DEF Injection, IsInjective, Moves!IsInjective
<1> DEFINE s == Moves!SetToSeq(S)
<1>4. s \in [1..n -> S] /\ Moves!IsInjective(s)
  BY <1>3, MovesCount DEF Moves!SetToSeq
<1> HIDE DEF s
<1>5. s \in Injection(1..n, S)
  BY <1>4 DEF Injection, IsInjective, Moves!IsInjective
<1>6. IsFiniteSet(1..n) /\ Cardinality(1..n) = n
  <2>1. Cardinality(1..n) = IF 1 > n THEN 0 ELSE n - 1 + 1
    BY <1>1, FS_Interval
  <2> QED BY <1>1, <2>1, FS_Interval
<1>7. s \in Surjection(1..n, S)
  BY <1>5, <1>6, FS_Injection
<1> QED BY <1>1, <1>4, <1>7 DEF Surjection, s

\* Every key is read, whatever their number.
LEMMA ChunksAreAll ==
  ASSUME NEW keys, IsFiniteSet(keys)
  PROVE  Moves!Chunks(keys) = keys
<1> DEFINE all == Moves!SetToSeq(keys)  n == Cardinality(keys)
<1>1. n \in Nat /\ all \in [1..n -> keys] /\ \A x \in keys : \E i \in 1..n : all[i] = x
  BY Listed
<1> HIDE DEF all, n
<1>2. Len(all) = n
  BY <1>1
<1>3. \A a, b \in Int : Moves!Min({a, b}) = IF a <= b THEN a ELSE b
  <2> TAKE a, b \in Int
  <2>1. CASE a <= b
    <3>1. \E x \in {a, b} : \A y \in {a, b} : x <= y
      BY <2>1
    <3> QED BY <2>1, <3>1 DEF Moves!Min
  <2>2. CASE ~(a <= b)
    <3>1. \E x \in {a, b} : \A y \in {a, b} : x <= y
      BY <2>2
    <3> QED BY <2>2, <3>1 DEF Moves!Min
  <2> QED BY <2>1, <2>2
<1> DEFINE Starts == { k \in 0..n : k % CHUNK = 0 }
           Part(j) == { all[i] : i \in (j + 1)..(IF j + CHUNK <= n THEN j + CHUNK ELSE n) }
<1>4. Moves!Chunks(keys) = UNION { Part(j) : j \in Starts }
  <2>1. Moves!Chunks(keys) =
          UNION { { all[i] : i \in (j + 1)..Moves!Min({j + CHUNK,
               Len(all)}) } : j \in { k \in 0..Len(all) : k % CHUNK = 0 } }
    BY Zenon DEF Moves!Chunks, all
  <2>2. \A j \in Starts : Moves!Min({j + CHUNK, n}) = IF j + CHUNK <= n THEN j + CHUNK ELSE n
    BY <1>1, <1>3, ChangesAssumption
  <2> QED BY <1>2, <2>1, <2>2
<1>5. \A j \in Starts : Part(j) \subseteq keys
  BY <1>1, ChangesAssumption
<1>6. \A x \in keys : \E j \in Starts : x \in Part(j)
  <2> TAKE x \in keys
  <2>1. PICK i \in 1..n : all[i] = x
    BY <1>1
  <2>2. PICK j \in 0..(i - 1) : j % CHUNK = 0 /\ i - 1 < j + CHUNK
    <3>1. i - 1 \in Nat
      BY <1>1
    <3> QED BY <3>1, ChunkOf, ChangesAssumption
  <2>3. j \in Starts /\ i \in (j + 1)..(IF j + CHUNK <= n THEN j + CHUNK ELSE n)
    BY <1>1, <2>2, ChangesAssumption
  <2> QED BY <2>1, <2>3
<1> HIDE DEF Part, Starts
<1> QED BY <1>4, <1>5, <1>6

-----------------------------------------------------------------------------
(* Changes: the page of what moved is whole, and tells in words only what  *)
(* was paid for. It reads in steps; searches and sales go on meanwhile.    *)

\* The parts of a page,
PageFields == {"at", "since", "keys", "changes", "lists", "owned", "out"}
\* and its steps.
PageStages == {"closed", "owned", "changes", "lists", "territory", "shown"}
\* Type invariant of the page of changes.
ChangeTypes ==
  /\ today \in Nat
  /\ business_triggers \subseteq [key : Keys, kind : Moves!TriggerKind, on : Nat]
       /\ IsFiniteSet(business_triggers)
  /\ lead_unlocks \subseteq Keys /\ saved_searches \subseteq Lists
  /\ watchlist_seen \in [Lists -> SUBSET Keys]
  /\ DOMAIN page = PageFields /\ page.at \in PageStages /\ page.lists \subseteq Lists
\* What is shown in words is of a business that was opened.
PagePaid ==
  /\ page.keys \subseteq lead_unlocks /\ page.owned \subseteq lead_unlocks
  /\ \A c \in page.changes : c.key \in lead_unlocks
  /\ \A t \in page.out : \A i \in DOMAIN t.businesses : t.businesses[i].labels # {} =>
       t.businesses[i].key \in lead_unlocks
\* What had been filed by the first read is in the second, and the day does not turn
\* before the page is shown.
PageWhole ==
  /\ page.at # "closed" => page.since \subseteq business_triggers
  /\ page.at \in {"changes", "lists", "territory", "shown"} =>
       \A t \in page.since : t.key \in page.keys /\ t.on >= today - WITHIN_DAYS => t \in page.changes
\* The inductive invariant.
ChangeInv == ChangeTypes /\ PagePaid /\ PageWhole

\* What the chunks of a query bring together is all that moved of late.
LEMMA RecentAre ==
  ASSUME ChangeTypes, NEW keys \in SUBSET Keys
  PROVE  Moves!Recent(keys) = { t \in business_triggers : t.key \in keys
       /\ t.on >= today - WITHIN_DAYS }
<1>1. IsFiniteSet(keys)
  BY ChangesAssumption, FS_Subset
<1>2. Moves!Chunks(keys) = keys
  BY <1>1, ChunksAreAll
<1> QED BY <1>2 DEF Moves!Recent

\* A list in order is of what was to be listed, each at a place.
LEMMA OrderHolds ==
  ASSUME NEW all, IsFiniteSet(all), \A a \in all : a.key \in Nat /\ a.count \in Nat,
         \A a, b \in all : a.key = b.key => a = b
  PROVE  /\ DOMAIN Moves!InOrder(all) = 1..Cardinality(all)
         /\ \A k \in 1..Cardinality(all) : Moves!InOrder(all)[k] \in all
<1> DEFINE R == { p \in all \X all : Moves!Before(p[1], p[2]) }
<1>1. \A x, y \in all : <<x, y>> \in R <=> Moves!Before(x, y)
  OBVIOUS
<1>2. Orders(R, all)
  <2>1. \A x \in all : ~Moves!Before(x, x)
    BY DEF Moves!Before
  <2>2. \A x, y, z \in all : Moves!Before(x, y) /\ Moves!Before(y, z) => Moves!Before(x, z)
    <3> TAKE x, y, z \in all
    <3>1. x.key \in Nat /\ x.count \in Nat /\ y.key \in Nat /\ y.count \in Nat /\ z.key \in Nat
            /\ z.count \in Nat
      OBVIOUS
    <3> QED BY <3>1 DEF Moves!Before
  <2>3. \A x, y \in all : x = y \/ Moves!Before(x, y) \/ Moves!Before(y, x)
    <3> TAKE x, y \in all
    <3>1. x.key \in Nat /\ x.count \in Nat /\ y.key \in Nat /\ y.count \in Nat
      OBVIOUS
    <3> QED BY <3>1 DEF Moves!Before
  <2> HIDE DEF R
  <2> QED BY <1>1, <2>1, <2>2, <2>3 DEF Orders
<1>3. \A b \in all : Earlier(all, R, b) = { a \in all : Moves!Before(a, b) }
  BY <1>1 DEF Earlier
<1> HIDE DEF R
<1>4. \A k \in 1..Moves!Cardinality(all) : \E b \in all : Moves!Cardinality({ a \in all : Moves!Before(a,
        b) }) = k - 1
  <2>1. SUFFICES ASSUME NEW k \in 1..Cardinality(all)
                 PROVE  \E b \in all : Moves!Cardinality({ a \in all : Moves!Before(a, b) }) = k - 1
    BY MovesCount
  <2>2. PICK b \in all : Cardinality(Earlier(all, R, b)) = k - 1
    BY <1>2, PlacesAre
  <2>3. Moves!Cardinality({ a \in all : Moves!Before(a, b) }) = Cardinality(Earlier(all, R, b))
    BY <1>3, MovesCount
  <2> QED BY <2>2, <2>3
<1>5. Moves!InOrder(all) = [k \in 1..Moves!Cardinality(all) |->
                              CHOOSE b \in all : Moves!Cardinality({ a \in all : Moves!Before(a,
                                   b) }) = k - 1]
  BY Zenon DEF Moves!InOrder
<1>6. \A k \in 1..Moves!Cardinality(all) :
        Moves!InOrder(all)[k] = CHOOSE b \in all : Moves!Cardinality({ a \in all : Moves!Before(a,
             b) }) = k - 1
  BY Zenon, <1>5
<1>7. \A k \in 1..Moves!Cardinality(all) : Moves!InOrder(all)[k] \in all
  BY Zenon, <1>4, <1>6
<1>8. DOMAIN Moves!InOrder(all) = 1..Moves!Cardinality(all)
  BY Zenon, <1>5
<1> QED BY <1>7, <1>8, MovesCount

\* The businesses of a search, one row each.
LEMMA BusinessesAre ==
  ASSUME ChangeTypes, NEW rows \in SUBSET business_triggers
  PROVE  /\ IsFiniteSet(Moves!Businesses(rows))
         /\ \A b \in Moves!Businesses(rows) : b.key \in Nat /\ b.count \in Nat /\ (b.labels # {} =>
              b.key \in page.owned)
         /\ \A a, b \in Moves!Businesses(rows) : a.key = b.key => a = b
<1> DEFINE ks == { t.key : t \in rows }
           Row(k) == [key |-> k, count |-> Moves!Cardinality({ t \in rows : t.key = k }),
                      labels |-> IF Moves!Labelled(k) THEN { t.kind : t \in { u \in rows : u.key = k } }
                           ELSE {}]
           f == [k \in ks |-> Row(k)]
<1>1. Moves!Businesses(rows) = { Row(k) : k \in ks }
  BY Zenon DEF Moves!Businesses
<1>2. ks \subseteq Keys /\ IsFiniteSet(ks)
  <2>1. ks \subseteq Keys
    BY DEF ChangeTypes
  <2> QED BY <2>1, ChangesAssumption, FS_Subset
<1>3. \A k \in ks : Row(k).key = k /\ Row(k).count \in Nat /\ (Row(k).labels # {} => k \in page.owned)
  <2> TAKE k \in ks
  <2>1. IsFiniteSet({ t \in rows : t.key = k })
    BY FS_Subset DEF ChangeTypes
  <2>2. Moves!Cardinality({ t \in rows : t.key = k }) \in Nat
    BY <2>1, FS_CardinalityType, MovesCount
  <2> QED BY <2>2 DEF Moves!Labelled
<1> HIDE DEF Row
<1>4. f \in Surjection(ks, { Row(k) : k \in ks })
  BY DEF Surjection
<1>5. IsFiniteSet({ Row(k) : k \in ks })
  BY <1>2, <1>4, FS_Surjection
<1> HIDE DEF ks
<1> QED BY <1>1, <1>2, <1>3, <1>5, ChangesAssumption

\* The invariant holds at first.
LEMMA ChangeStart == Moves!Init => ChangeInv
<1> SUFFICES ASSUME Moves!Init PROVE ChangeInv
  OBVIOUS
<1>1. IsFiniteSet({})
  BY FS_EmptySet
<1> QED BY <1>1 DEF Moves!Init, Moves!Empty, ChangeInv, ChangeTypes, PagePaid, PageWhole, PageFields,
        PageStages

\* Something moves;
LEMMA DetectKeeps == ChangeInv /\ Moves!Detect => ChangeInv'
<1> SUFFICES ASSUME ChangeInv, Moves!Detect PROVE ChangeInv'
  OBVIOUS
<1>1. PICK k \in Keys,
        kind \in Moves!TriggerKind : business_triggers' = business_triggers \cup {[key |-> k,
         kind |-> kind, on |-> today]}
  BY DEF Moves!Detect
<1>2. UNCHANGED <<today, lead_unlocks, saved_searches, watchlist_seen, page>>
  BY DEF Moves!Detect
<1>3. IsFiniteSet(business_triggers')
  BY <1>1, FS_AddElement DEF ChangeInv, ChangeTypes
<1>4. ChangeTypes'
  BY <1>1, <1>2, <1>3 DEF ChangeInv, ChangeTypes
<1>5. PagePaid'
  BY <1>2 DEF ChangeInv, PagePaid
<1>6. PageWhole'
  BY <1>1, <1>2 DEF ChangeInv, PageWhole
<1> QED BY <1>4, <1>5, <1>6 DEF ChangeInv

\* a lead is opened;
LEMMA UnlockKeeps == ChangeInv /\ Moves!Unlock => ChangeInv'
<1> SUFFICES ASSUME ChangeInv, Moves!Unlock PROVE ChangeInv'
  OBVIOUS
<1>1. PICK k \in Keys : lead_unlocks' = lead_unlocks \cup {k}
  BY DEF Moves!Unlock
<1>2. UNCHANGED <<today, business_triggers, saved_searches, watchlist_seen, page>>
  BY DEF Moves!Unlock
<1>4. ChangeTypes'
  BY <1>1, <1>2 DEF ChangeInv, ChangeTypes
<1>5. PagePaid'
  BY <1>1, <1>2 DEF ChangeInv, PagePaid
<1>6. PageWhole'
  BY <1>1, <1>2 DEF ChangeInv, PageWhole
<1> QED BY <1>4, <1>5, <1>6 DEF ChangeInv

\* a search is saved, or marked as seen;
LEMMA SearchesKeep == ChangeInv /\ (Moves!SaveSearch \/ Moves!MarkSeen) => ChangeInv'
<1> SUFFICES ASSUME ChangeInv, Moves!SaveSearch \/ Moves!MarkSeen PROVE ChangeInv'
  OBVIOUS
<1>1. UNCHANGED <<today, business_triggers, lead_unlocks, page>>
  BY DEF Moves!SaveSearch, Moves!MarkSeen
<1>2. saved_searches' \subseteq Lists /\ watchlist_seen' \in [Lists -> SUBSET Keys]
  BY DEF Moves!SaveSearch, Moves!MarkSeen, ChangeInv, ChangeTypes
<1>4. ChangeTypes'
  BY <1>1, <1>2 DEF ChangeInv, ChangeTypes
<1>5. PagePaid'
  BY <1>1 DEF ChangeInv, PagePaid
<1>6. PageWhole'
  BY <1>1 DEF ChangeInv, PageWhole
<1> QED BY <1>4, <1>5, <1>6 DEF ChangeInv

\* a day goes by;
LEMMA NextDayKeeps == ChangeInv /\ Moves!NextDay => ChangeInv'
<1> SUFFICES ASSUME ChangeInv, Moves!NextDay PROVE ChangeInv'
  OBVIOUS
<1>1. UNCHANGED <<business_triggers, lead_unlocks, saved_searches, watchlist_seen, page>>
        /\ page.at = "closed" /\ today' = today + 1
  BY DEF Moves!NextDay
<1>4. ChangeTypes'
  BY <1>1 DEF ChangeInv, ChangeTypes
<1>5. PagePaid'
  BY <1>1 DEF ChangeInv, PagePaid
<1>6. PageWhole'
  BY <1>1 DEF ChangeInv, PageWhole
<1> QED BY <1>4, <1>5, <1>6 DEF ChangeInv

\* the page asks what is owned,
LEMMA ReadOwnedKeeps == ChangeInv /\ Moves!ReadOwned => ChangeInv'
<1> SUFFICES ASSUME ChangeInv, Moves!ReadOwned PROVE ChangeInv'
  OBVIOUS
<1>1. /\ page' = [[page EXCEPT !.keys = lead_unlocks,
           !.since = business_triggers] EXCEPT !.at = "owned"]
      /\ UNCHANGED <<today, business_triggers, lead_unlocks, saved_searches, watchlist_seen>>
  BY DEF Moves!ReadOwned, Moves!Page
<1>2. /\ DOMAIN page' = PageFields /\ page'.at = "owned" /\ page'.keys = lead_unlocks
           /\ page'.since = business_triggers
      /\ page'.changes = page.changes /\ page'.lists = page.lists /\ page'.owned = page.owned
           /\ page'.out = page.out
  BY <1>1 DEF ChangeInv, ChangeTypes, PageFields
<1>4. ChangeTypes'
  BY <1>1, <1>2 DEF ChangeInv, ChangeTypes, PageStages
<1>5. PagePaid'
  BY <1>1, <1>2 DEF ChangeInv, PagePaid
<1>6. PageWhole'
  BY <1>1, <1>2 DEF ChangeInv, PageWhole
<1> QED BY <1>4, <1>5, <1>6 DEF ChangeInv

\* what changed,
LEMMA ReadChangesKeeps == ChangeInv /\ Moves!ReadChanges => ChangeInv'
<1> SUFFICES ASSUME ChangeInv, Moves!ReadChanges PROVE ChangeInv'
  OBVIOUS
<1>1. /\ page' = [[page EXCEPT !.changes = Moves!Recent(page.keys)] EXCEPT !.at = "changes"]
           /\ page.at = "owned"
      /\ UNCHANGED <<today, business_triggers, lead_unlocks, saved_searches, watchlist_seen>>
  BY DEF Moves!ReadChanges, Moves!Page
<1>2. /\ DOMAIN page' = PageFields /\ page'.at = "changes" /\ page'.keys = page.keys
           /\ page'.since = page.since
      /\ page'.changes = Moves!Recent(page.keys) /\ page'.lists = page.lists /\ page'.owned = page.owned
           /\ page'.out = page.out
  BY <1>1 DEF ChangeInv, ChangeTypes, PageFields
<1>3. Moves!Recent(page.keys) = { t \in business_triggers : t.key \in page.keys
        /\ t.on >= today - WITHIN_DAYS }
  BY RecentAre DEF ChangeInv, PagePaid, ChangeTypes
<1>4. ChangeTypes'
  BY <1>1, <1>2 DEF ChangeInv, ChangeTypes, PageStages
<1>5. PagePaid'
  BY <1>1, <1>2, <1>3 DEF ChangeInv, PagePaid
<1>6. PageWhole'
  BY <1>1, <1>2, <1>3 DEF ChangeInv, PageWhole
<1> QED BY <1>4, <1>5, <1>6 DEF ChangeInv

\* which searches were saved,
LEMMA ReadListsKeeps == ChangeInv /\ Moves!ReadLists => ChangeInv'
<1> SUFFICES ASSUME ChangeInv, Moves!ReadLists PROVE ChangeInv'
  OBVIOUS
<1>1. /\ page' = [[page EXCEPT !.lists = saved_searches] EXCEPT !.at = "lists"] /\ page.at = "changes"
      /\ UNCHANGED <<today, business_triggers, lead_unlocks, saved_searches, watchlist_seen>>
  BY DEF Moves!ReadLists, Moves!Page
<1>2. /\ DOMAIN page' = PageFields /\ page'.at = "lists" /\ page'.keys = page.keys
           /\ page'.since = page.since
      /\ page'.changes = page.changes /\ page'.lists = saved_searches /\ page'.owned = page.owned
           /\ page'.out = page.out
  BY <1>1 DEF ChangeInv, ChangeTypes, PageFields
<1>4. ChangeTypes'
  BY <1>1, <1>2 DEF ChangeInv, ChangeTypes, PageStages
<1>5. PagePaid'
  BY <1>1, <1>2 DEF ChangeInv, PagePaid
<1>6. PageWhole'
  BY <1>1, <1>2 DEF ChangeInv, PageWhole
<1> QED BY <1>4, <1>5, <1>6 DEF ChangeInv

\* what is owned once more,
LEMMA ReadAgainKeeps == ChangeInv /\ Moves!ReadOwnedAgain => ChangeInv'
<1> SUFFICES ASSUME ChangeInv, Moves!ReadOwnedAgain PROVE ChangeInv'
  OBVIOUS
<1>1. /\ page' = [[page EXCEPT !.owned = lead_unlocks] EXCEPT !.at = "territory"] /\ page.at = "lists"
      /\ UNCHANGED <<today, business_triggers, lead_unlocks, saved_searches, watchlist_seen>>
  BY DEF Moves!ReadOwnedAgain, Moves!Page
<1>2. /\ DOMAIN page' = PageFields /\ page'.at = "territory" /\ page'.keys = page.keys
           /\ page'.since = page.since
      /\ page'.changes = page.changes /\ page'.lists = page.lists /\ page'.owned = lead_unlocks
           /\ page'.out = page.out
  BY <1>1 DEF ChangeInv, ChangeTypes, PageFields
<1>4. ChangeTypes'
  BY <1>1, <1>2 DEF ChangeInv, ChangeTypes, PageStages
<1>5. PagePaid'
  BY <1>1, <1>2 DEF ChangeInv, PagePaid
<1>6. PageWhole'
  BY <1>1, <1>2 DEF ChangeInv, PageWhole
<1> QED BY <1>4, <1>5, <1>6 DEF ChangeInv

\* what moved in each search,
LEMMA TerritoryKeeps == ChangeInv /\ Moves!ReadTerritory => ChangeInv'
<1> SUFFICES ASSUME ChangeInv, Moves!ReadTerritory PROVE ChangeInv'
  OBVIOUS
<1> DEFINE All(l) == Moves!Businesses(Moves!Recent(watchlist_seen[l]))
           Entry(l) == [list |-> l, changed |-> Moves!Cardinality(All(l)),
                        opened |-> Moves!Cardinality({ b \in All(l) : b.labels # {} }),
                             businesses |-> Moves!InOrder(All(l))]
<1>1. PICK l \in page.lists :
        /\ page' = [[page EXCEPT !.lists = page.lists \ {l},
                       !.out = IF All(l) = {} THEN page.out
                            ELSE page.out \cup {Entry(l)}] EXCEPT !.at = "territory"]
        /\ page.at = "territory"
        /\ UNCHANGED <<today, business_triggers, lead_unlocks, saved_searches, watchlist_seen>>
  BY DEF Moves!ReadTerritory, Moves!Page
<1> DEFINE all == All(l)
<1>2. /\ DOMAIN page' = PageFields /\ page'.at = "territory" /\ page'.keys = page.keys
           /\ page'.since = page.since
      /\ page'.changes = page.changes /\ page'.lists = page.lists \ {l} /\ page'.owned = page.owned
      /\ page'.out = IF All(l) = {} THEN page.out ELSE page.out \cup {Entry(l)}
  <2> HIDE DEF All, Entry
  <2> QED BY <1>1 DEF ChangeInv, ChangeTypes, PageFields
<1>3. \A i \in DOMAIN Moves!InOrder(All(l)) : Moves!InOrder(All(l))[i].labels # {} =>
        Moves!InOrder(All(l))[i].key \in page.owned
  <2>1. watchlist_seen[l] \in SUBSET Keys
    BY <1>1 DEF ChangeInv, ChangeTypes
  <2>2. Moves!Recent(watchlist_seen[l]) \in SUBSET business_triggers
    BY DEF Moves!Recent
  <2> DEFINE rows == Moves!Recent(watchlist_seen[l])
  <2> HIDE DEF rows
  <2>3. /\ IsFiniteSet(Moves!Businesses(rows))
        /\ \A b \in Moves!Businesses(rows) : b.key \in Nat /\ b.count \in Nat /\ (b.labels # {} =>
             b.key \in page.owned)
        /\ \A a, b \in Moves!Businesses(rows) : a.key = b.key => a = b
    BY <2>2, BusinessesAre DEF ChangeInv, rows
  <2>4. /\ DOMAIN Moves!InOrder(Moves!Businesses(rows)) = 1..Cardinality(Moves!Businesses(rows))
        /\ \A k \in 1..Cardinality(Moves!Businesses(rows)) :
              Moves!InOrder(Moves!Businesses(rows))[k] \in Moves!Businesses(rows)
    BY <2>3, OrderHolds
  <2>5. \A i \in DOMAIN Moves!InOrder(Moves!Businesses(rows)) :
          Moves!InOrder(Moves!Businesses(rows))[i].labels # {} =>
               Moves!InOrder(Moves!Businesses(rows))[i].key \in page.owned
    BY <2>3, <2>4
  <2> QED BY <2>5 DEF rows
<1>4. Entry(l).businesses = Moves!InOrder(All(l))
  OBVIOUS
<1> HIDE DEF All, Entry
<1>5. ChangeTypes'
  BY <1>1, <1>2 DEF ChangeInv, ChangeTypes, PageStages
<1>6. PagePaid'
  <2>1. \A t \in page'.out : \A i \in DOMAIN t.businesses : t.businesses[i].labels # {} =>
          t.businesses[i].key \in lead_unlocks
    <3>1. \A i \in DOMAIN Entry(l).businesses : Entry(l).businesses[i].labels # {} =>
            Entry(l).businesses[i].key \in lead_unlocks
      BY <1>3, <1>4 DEF ChangeInv, PagePaid
    <3>2. \A t \in page'.out : t \in page.out \/ t = Entry(l)
      BY <1>2
    <3>3. \A t \in page.out : \A i \in DOMAIN t.businesses : t.businesses[i].labels # {} =>
            t.businesses[i].key \in lead_unlocks
      BY DEF ChangeInv, PagePaid
    <3> TAKE t \in page'.out
    <3>4. CASE t \in page.out
      BY <3>3, <3>4
    <3>5. CASE t = Entry(l)
      BY <3>1, <3>5
    <3> QED BY <3>2, <3>4, <3>5
  <2> QED BY <1>1, <1>2, <2>1 DEF ChangeInv, PagePaid
<1>7. PageWhole'
  BY <1>1, <1>2 DEF ChangeInv, PageWhole
<1> QED BY <1>5, <1>6, <1>7 DEF ChangeInv

\* and is shown,
LEMMA ShowKeeps == ChangeInv /\ Moves!Show => ChangeInv'
<1> SUFFICES ASSUME ChangeInv, Moves!Show PROVE ChangeInv'
  OBVIOUS
<1>1. /\ page' = [page EXCEPT !.at = "shown"] /\ page.at = "territory"
      /\ UNCHANGED <<today, business_triggers, lead_unlocks, saved_searches, watchlist_seen>>
  BY DEF Moves!Show, Moves!Page
<1>2. /\ DOMAIN page' = PageFields /\ page'.at = "shown" /\ page'.keys = page.keys
           /\ page'.since = page.since
      /\ page'.changes = page.changes /\ page'.lists = page.lists /\ page'.owned = page.owned
           /\ page'.out = page.out
  BY <1>1 DEF ChangeInv, ChangeTypes, PageFields
<1>4. ChangeTypes'
  BY <1>1, <1>2 DEF ChangeInv, ChangeTypes, PageStages
<1>5. PagePaid'
  BY <1>1, <1>2 DEF ChangeInv, PagePaid
<1>6. PageWhole'
  BY <1>1, <1>2 DEF ChangeInv, PageWhole
<1> QED BY <1>4, <1>5, <1>6 DEF ChangeInv

\* and closed.
LEMMA CloseKeeps == ChangeInv /\ Moves!Close => ChangeInv'
<1> SUFFICES ASSUME ChangeInv, Moves!Close PROVE ChangeInv'
  OBVIOUS
<1>1. /\ page' = [Moves!Empty EXCEPT !.at = "closed"]
      /\ UNCHANGED <<today, business_triggers, lead_unlocks, saved_searches, watchlist_seen>>
  BY DEF Moves!Close, Moves!Page
<1>2. /\ DOMAIN page' = PageFields /\ page'.at = "closed" /\ page'.keys = {} /\ page'.lists = {}
      /\ page'.changes = {} /\ page'.owned = {} /\ page'.out = {}
  BY <1>1 DEF Moves!Empty, PageFields
<1>4. ChangeTypes'
  BY <1>1, <1>2 DEF ChangeInv, ChangeTypes, PageStages
<1>5. PagePaid'
  BY <1>1, <1>2 DEF ChangeInv, PagePaid
<1>6. PageWhole'
  BY <1>1, <1>2 DEF ChangeInv, PageWhole
<1> QED BY <1>4, <1>5, <1>6 DEF ChangeInv

\* Every step keeps the invariant.
LEMMA ChangeKept == ChangeInv /\ [Moves!Next]_(Moves!vars) => ChangeInv'
<1> SUFFICES ASSUME ChangeInv, [Moves!Next]_(Moves!vars) PROVE ChangeInv'
  OBVIOUS
<1>1. CASE UNCHANGED Moves!vars
  <2>1. UNCHANGED <<today, business_triggers, lead_unlocks, saved_searches, watchlist_seen, page>>
    BY <1>1 DEF Moves!vars
  <2> QED BY <2>1 DEF ChangeInv, ChangeTypes, PagePaid, PageWhole
<1>2. CASE Moves!Next
  BY <1>2, DetectKeeps, UnlockKeeps, SearchesKeep, NextDayKeeps, ReadOwnedKeeps, ReadChangesKeeps,
       ReadListsKeeps,
     ReadAgainKeeps, TerritoryKeeps, ShowKeeps, CloseKeeps DEF Moves!Next
<1> QED BY <1>1, <1>2

\* The part runs in behaviours of its own.
ChangeHold == scene = "changes" => ChangeInv

\* So the invariant is one of the whole.
LEMMA ChangeAlways == SceneSpec => []ChangeHold
<1>1. SceneInit => ChangeHold
  <2> SUFFICES ASSUME SceneInit, scene = "changes" PROVE ChangeInv
    BY DEF ChangeHold
  <2>1. Moves!Init
    BY DEF SceneInit
  <2> QED BY <2>1, ChangeStart
<1>2. ChangeHold /\ [SceneNext]_sceneVars => ChangeHold'
  <2> SUFFICES ASSUME ChangeHold, [SceneNext]_sceneVars, scene' = "changes" PROVE ChangeInv'
    BY DEF ChangeHold
  <2>1. CASE UNCHANGED sceneVars
    <3>1. UNCHANGED Moves!vars /\ scene = "changes"
      BY <2>1 DEF sceneVars, ChangesOnly, Moves!vars
    <3> QED BY <3>1, ChangeKept DEF ChangeHold
  <2>2. CASE SceneNext
    <3>1. scene = "changes" /\ Moves!Next
      BY <2>2 DEF SceneNext
    <3> QED BY <3>1, ChangeKept DEF ChangeHold
  <2> QED BY <2>1, <2>2
<1> QED BY <1>1, <1>2, PTL DEF SceneSpec

\* All that moved in the window at what the visitor had opened when the page was asked for is on
\* it, and words are shown of opened businesses only, for any number of businesses, any size of a
\* chunk and whatever moves, is bought or saved between its reads (lib/changes.ts).
THEOREM PageIsWholeAndPaid == SceneSpec => []NothingSkipped
<1>1. ChangeHold => NothingSkipped
  <2> SUFFICES ASSUME ChangeInv PROVE Moves!NothingSkipped /\ Moves!WordsArePaidFor
    BY DEF ChangeHold, NothingSkipped
  <2>1. Moves!NothingSkipped
    BY DEF ChangeInv, PageWhole, Moves!NothingSkipped, Moves!partition
  <2>2. Moves!WordsArePaidFor
    BY DEF ChangeInv, PagePaid, Moves!WordsArePaidFor
  <2> QED BY <2>1, <2>2
<1> QED BY <1>1, ChangeAlways, PTL

-----------------------------------------------------------------------------
(* Sample: a visitor sees first what was looked at.                        *)

\* The steps of a visit.
VisitStages == {"found", "audits", "verify", "rank", "done"}
\* Type invariant of the sample.
SampleTypes ==
  /\ now \in Nat /\ stage \in VisitStages
  /\ world \in [Rows -> Kinds]
  /\ lead \in [Rows -> [checkedAt : Int, deliverable : BOOLEAN]]
  /\ audit_cache \in [Rows -> Int]
\* In an answer, whoever was not looked at leaves nobody out who was.
WorkFirst(answer) ==
  \A i \in DOMAIN answer.rows : ~Visit!LookedAt(answer.rows[i].row) =>
    \A s \in Rows : Visit!LookedAt(s) /\ s \in Visit!Sayable =>
         \E j \in DOMAIN answer.rows : answer.rows[j].row = s
\* The inductive invariant: so is every answer, kept or shown.
SampleInv ==
  /\ SampleTypes
  /\ WorkFirst(shown) /\ WorkFirst(kept)
  /\ stage # "done" => shown = Visit!None /\ kept = Visit!None

\* The instance counts as the standard module does.
LEMMA VisitCount == \A S : Visit!Cardinality(S) = Cardinality(S)
BY Zenon DEF Visit!Cardinality, Cardinality

\* An empty answer leaves nobody out.
LEMMA NothingFirst == WorkFirst(Visit!None)
BY DEF WorkFirst, Visit!None

\* Who is ranked before whom, by one number after the other.
LEMMA BeforeIs ==
  ASSUME SampleTypes, NEW r \in Rows, NEW s \in Rows
  PROVE  Visit!Before(r, s) <=>
           LET a1 == Visit!Bit(Visit!LookedAt(r))  b1 == Visit!Bit(Visit!LookedAt(s))
               a2 == Visit!Bit(lead[r].deliverable)  b2 == Visit!Bit(lead[s].deliverable)
               a3 == world[r].tier  b3 == world[s].tier
           IN \/ a1 > b1
              \/ a1 = b1 /\ a2 > b2
              \/ a1 = b1 /\ a2 = b2 /\ a3 > b3
              \/ a1 = b1 /\ a2 = b2 /\ a3 = b3 /\ r < s
<1> DEFINE a == <<Visit!Bit(Visit!LookedAt(r)), Visit!Bit(lead[r].deliverable), world[r].tier>>
           b == <<Visit!Bit(Visit!LookedAt(s)), Visit!Bit(lead[s].deliverable), world[s].tier>>
<1>1. Visit!Before(r, s) <=> \/ \E i \in 1..3 : a[i] > b[i] /\ \A j \in 1..(i - 1) : a[j] = b[j]
                             \/ a = b /\ r < s
  BY Zenon DEF Visit!Before
<1>2. a[1] = Visit!Bit(Visit!LookedAt(r)) /\ a[2] = Visit!Bit(lead[r].deliverable)
        /\ a[3] = world[r].tier
  OBVIOUS
<1>3. b[1] = Visit!Bit(Visit!LookedAt(s)) /\ b[2] = Visit!Bit(lead[s].deliverable)
        /\ b[3] = world[s].tier
  OBVIOUS
<1>4. a = b <=> a[1] = b[1] /\ a[2] = b[2] /\ a[3] = b[3]
  OBVIOUS
<1> HIDE DEF a, b
<1>5. (\E i \in 1..3 : a[i] > b[i] /\ \A j \in 1..(i - 1) : a[j] = b[j])
        <=> a[1] > b[1] \/ (a[1] = b[1] /\ a[2] > b[2]) \/ (a[1] = b[1] /\ a[2] = b[2] /\ a[3] > b[3])
  <2>1. (\A j \in 1..(1 - 1) : a[j] = b[j]) <=> TRUE
    OBVIOUS
  <2>2. (\A j \in 1..(2 - 1) : a[j] = b[j]) <=> a[1] = b[1]
    <3>1. 1..(2 - 1) = {1}
      OBVIOUS
    <3> QED BY <3>1
  <2>3. (\A j \in 1..(3 - 1) : a[j] = b[j]) <=> a[1] = b[1] /\ a[2] = b[2]
    <3>1. 1..(3 - 1) = {1, 2}
      OBVIOUS
    <3> QED BY <3>1
  <2>4. 1..3 = {1, 2, 3}
    OBVIOUS
  <2> QED BY <2>1, <2>2, <2>3, <2>4
<1> QED BY <1>1, <1>2, <1>3, <1>4, <1>5

\* That is an order.
LEMMA RanksOrder ==
  ASSUME SampleTypes
  PROVE  \E R : /\ Orders(R, Visit!Sayable)
                /\ \A r, s \in Visit!Sayable : <<r, s>> \in R <=> Visit!Before(r, s)
<1> DEFINE R == { p \in Visit!Sayable \X Visit!Sayable : Visit!Before(p[1], p[2]) }
<1>1. \A x, y \in Visit!Sayable : <<x, y>> \in R <=> Visit!Before(x, y)
  OBVIOUS
<1> HIDE DEF R
<1>2. \A r \in Visit!Sayable : /\ r \in Rows /\ r \in Nat /\ Visit!Bit(Visit!LookedAt(r)) \in Nat
                               /\ Visit!Bit(lead[r].deliverable) \in Nat /\ world[r].tier \in Nat
  BY SampleAssumption DEF Visit!Sayable, Visit!Reachable, Visit!Bit, SampleTypes
<1>3. \A x \in Visit!Sayable : ~Visit!Before(x, x)
  BY <1>2, BeforeIs
<1>4. \A x, y, z \in Visit!Sayable : Visit!Before(x, y) /\ Visit!Before(y, z) => Visit!Before(x, z)
  BY <1>2, BeforeIs
<1>5. \A x, y \in Visit!Sayable : x = y \/ Visit!Before(x, y) \/ Visit!Before(y, x)
  BY <1>2, BeforeIs
<1> QED BY <1>1, <1>3, <1>4, <1>5 DEF Orders

\* Each has one place among the ranked, and whoever was looked at comes before whoever was not.
LEMMA RankedIs ==
  ASSUME SampleTypes
  PROVE  /\ Cardinality(Visit!Sayable) \in Nat /\ DOMAIN Visit!ranked = 1..Cardinality(Visit!Sayable)
         /\ Len(Visit!ranked) = Cardinality(Visit!Sayable)
         /\ \A i \in DOMAIN Visit!ranked : Visit!ranked[i] \in Visit!Sayable
         /\ \A i \in DOMAIN Visit!ranked, s \in Visit!Sayable :
              Visit!LookedAt(s) /\ ~Visit!LookedAt(Visit!ranked[i]) =>
                   \E j \in 1..i : Visit!ranked[j] = s
<1> DEFINE S == Visit!Sayable  n == Cardinality(S)
<1>1. IsFiniteSet(S) /\ S \subseteq Rows
  <2>1. S \subseteq Rows
    BY DEF Visit!Sayable, Visit!Reachable
  <2> QED BY <2>1, SampleAssumption, FS_Subset
<1>2. PICK R : Orders(R, S) /\ \A r, s \in S : <<r, s>> \in R <=> Visit!Before(r, s)
  BY RanksOrder
<1> DEFINE Place(r) == Cardinality(Earlier(S, R, r))
<1>3. /\ n \in Nat
      /\ \A x \in S : Place(x) \in 0..(n - 1)
      /\ \A x, y \in S : <<x, y>> \in R <=> Place(x) < Place(y)
      /\ \A k \in 1..n : \E x \in S : Place(x) = k - 1
  BY <1>1, <1>2, PlacesAre
<1>4. \A x, y \in S : Place(x) = Place(y) => x = y
  <2> SUFFICES ASSUME NEW x \in S, NEW y \in S, Place(x) = Place(y) PROVE x = y
    OBVIOUS
  <2> HIDE DEF Place
  <2>1. ~(Place(x) < Place(y)) /\ ~(Place(y) < Place(x))
    BY <1>3
  <2> QED BY <1>2, <1>3, <2>1 DEF Orders
<1>5. \A r \in S : Visit!Cardinality({ s \in S : Visit!Before(s, r) }) = Place(r)
  <2> TAKE r \in S
  <2>1. Earlier(S, R, r) = { s \in S : Visit!Before(s, r) }
    BY <1>2 DEF Earlier
  <2> QED BY <2>1, VisitCount
<1>6. Visit!ranked = [k \in 1..Visit!Cardinality(S) |->
        CHOOSE r \in S : Visit!Cardinality({ s \in S : Visit!Before(s, r) }) = k - 1]
  BY Zenon DEF Visit!ranked
<1> HIDE DEF Place, S, n
<1>7. Visit!Cardinality(S) = n
  BY VisitCount DEF n
<1>8. \A k \in 1..n : \E r \in S : Visit!Cardinality({ s \in S : Visit!Before(s, r) }) = k - 1
  <2> TAKE k \in 1..n
  <2>1. PICK r \in S : Place(r) = k - 1
    BY <1>3
  <2> QED BY <1>5, <2>1
<1>9. \A k \in 1..n : Visit!ranked[k] \in S /\ Visit!Cardinality({ s \in S : Visit!Before(s,
        Visit!ranked[k]) }) = k - 1
  <2> TAKE k \in 1..n
  <2>1. Visit!ranked[k] = CHOOSE r \in S : Visit!Cardinality({ s \in S : Visit!Before(s, r) }) = k - 1
    BY Zenon, <1>6, <1>7
  <2> QED BY Zenon, <1>8, <2>1
<1>10. DOMAIN Visit!ranked = 1..n
  BY Zenon, <1>6, <1>7
<1>11. \A k \in 1..n : Visit!ranked[k] \in S /\ Place(Visit!ranked[k]) = k - 1
  BY <1>5, <1>9
<1>12. Len(Visit!ranked) = n
  BY <1>3, <1>10
<1>13. ASSUME NEW i \in 1..n, NEW s \in S, Visit!LookedAt(s), ~Visit!LookedAt(Visit!ranked[i])
       PROVE  \E j \in 1..i : Visit!ranked[j] = s
  <2> DEFINE r == Visit!ranked[i]
  <2>1. r \in S /\ Place(r) = i - 1
    BY <1>11
  <2>2. Visit!Before(s, r)
    <3>1. Visit!Bit(Visit!LookedAt(s)) = 1 /\ Visit!Bit(Visit!LookedAt(r)) = 0
      BY <1>13 DEF Visit!Bit
    <3>2. s \in Rows /\ r \in Rows
      BY <1>1, <2>1 DEF S
    <3> HIDE DEF r
    <3> QED BY <3>1, <3>2, BeforeIs
  <2>3. Place(s) < Place(r)
    BY <1>2, <1>3, <2>1, <2>2 DEF S
  <2>4. Place(s) + 1 \in 1..i /\ Place(s) + 1 \in 1..n
    BY <1>3, <2>1, <2>3 DEF S, n
  <2>5. Visit!ranked[Place(s) + 1] \in S /\ Place(Visit!ranked[Place(s) + 1]) = Place(s)
    BY <1>3, <1>11, <2>4 DEF S, n
  <2>6. Visit!ranked[Place(s) + 1] = s
    BY <1>4, <2>5 DEF S
  <2> QED BY <2>4, <2>6
<1> QED BY <1>3, <1>10, <1>11, <1>12, <1>13 DEF S, n

\* What is answered shows the work first.
LEMMA ResultShowsWork == SampleTypes => WorkFirst(Visit!Result)
<1> SUFFICES ASSUME SampleTypes PROVE WorkFirst(Visit!Result)
  OBVIOUS
<1> DEFINE n == Len(Visit!ranked)  m == IF n < SAMPLE_LEADS THEN n ELSE SAMPLE_LEADS
<1>1. n \in Nat /\ DOMAIN Visit!ranked = 1..n /\ m \in 0..n
  BY RankedIs, SampleAssumption
<1>2. Visit!Result = [rows |-> [i \in 1..m |-> Visit!redact(Visit!ranked[i])], at |-> now]
  BY Zenon DEF Visit!Result
<1> HIDE DEF n, m
<1>3. DOMAIN Visit!Result.rows = 1..m
        /\ \A i \in 1..m : Visit!Result.rows[i] = Visit!redact(Visit!ranked[i])
  BY <1>2
<1>4. \A r : Visit!redact(r).row = r
  BY DEF Visit!redact
<1>5. \A i \in 1..m : Visit!Result.rows[i].row = Visit!ranked[i]
  BY <1>3, <1>4
<1> SUFFICES ASSUME NEW i \in 1..m, ~Visit!LookedAt(Visit!ranked[i]), NEW s \in Rows, Visit!LookedAt(s),
        s \in Visit!Sayable
             PROVE  \E j \in 1..m : Visit!ranked[j] = s
  BY <1>3, <1>5 DEF WorkFirst
<1>6. PICK j \in 1..i : Visit!ranked[j] = s
  BY <1>1, RankedIs
<1> QED BY <1>1, <1>6

\* The invariant holds at first.
LEMMA SampleStart == Visit!Init => SampleInv
<1> SUFFICES ASSUME Visit!Init PROVE SampleInv
  OBVIOUS
<1>1. SampleTypes
  BY DEF Visit!Init, Visit!rawToLead, Visit!Never, SampleTypes, VisitStages
<1> QED BY <1>1, NothingFirst DEF Visit!Init, SampleInv

\* An answer stays as good while nothing is learnt.
LEMMA WorkStays ==
  ASSUME UNCHANGED <<world, lead>>
  PROVE  /\ \A r : Visit!LookedAt(r)' = Visit!LookedAt(r)
         /\ Visit!Sayable' = Visit!Sayable
         /\ shown' = shown /\ WorkFirst(shown) => WorkFirst(shown)'
         /\ kept' = kept /\ WorkFirst(kept) => WorkFirst(kept)'
<1>1. \A r : Visit!LookedAt(r)' = Visit!LookedAt(r)
  BY DEF Visit!LookedAt
<1>2. Visit!Sayable' = Visit!Sayable
  BY DEF Visit!Sayable, Visit!Reachable, Visit!looksLikeABusinessName
<1> QED BY <1>1, <1>2 DEF WorkFirst

\* The rows are looked at,
LEMMA StudyKeeps == SampleInv /\ (Visit!ReadAudits \/ Visit!Audit \/ Visit!Verify) => SampleInv'
<1> SUFFICES ASSUME SampleInv, Visit!ReadAudits \/ Visit!Audit \/ Visit!Verify PROVE SampleInv'
  OBVIOUS
<1>1. /\ stage # "done" /\ stage' \in {"audits", "verify", "rank"}
      /\ UNCHANGED <<now, world, audit_cache, kept, shown>>
  BY DEF Visit!ReadAudits, Visit!Audit, Visit!Verify
<1>2. lead' \in [Rows -> [checkedAt : Int, deliverable : BOOLEAN]]
  <2>1. CASE Visit!ReadAudits
    <3>1. lead' = [r \in Rows |-> IF r \in Visit!WithSite /\ audit_cache[r] # Visit!Never
            /\ now - audit_cache[r] <= DAY
                              THEN [lead[r] EXCEPT !.checkedAt = audit_cache[r]] ELSE lead[r]]
      BY <2>1 DEF Visit!ReadAudits
    <3>2. \A r \in Rows : [lead[r] EXCEPT !.checkedAt = audit_cache[r]] \in [checkedAt : Int,
            deliverable : BOOLEAN]
      BY DEF SampleInv, SampleTypes
    <3> QED BY <3>1, <3>2 DEF SampleInv, SampleTypes
  <2>2. CASE Visit!Audit
    <3>1. PICK done : lead' = [r \in Rows |-> IF r \in done THEN [lead[r] EXCEPT !.checkedAt = now]
            ELSE lead[r]]
      BY <2>2 DEF Visit!Audit
    <3>2. \A r \in Rows : [lead[r] EXCEPT !.checkedAt = now] \in [checkedAt : Int,
            deliverable : BOOLEAN]
      BY DEF SampleInv, SampleTypes
    <3> QED BY <3>1, <3>2 DEF SampleInv, SampleTypes
  <2>3. CASE Visit!Verify
    <3>1. PICK done \in SUBSET Rows : lead' = [r \in Rows |-> IF r \in done
            THEN [lead[r] EXCEPT !.deliverable = world[r].sound] ELSE lead[r]]
      BY <2>3 DEF Visit!Verify
    <3>2. \A r \in Rows : [lead[r] EXCEPT !.deliverable = world[r].sound] \in [checkedAt : Int,
            deliverable : BOOLEAN]
      BY SampleAssumption DEF SampleInv, SampleTypes
    <3> QED BY <3>1, <3>2 DEF SampleInv, SampleTypes
  <2> QED BY <2>1, <2>2, <2>3
<1>3. SampleTypes'
  BY <1>1, <1>2 DEF SampleInv, SampleTypes, VisitStages
<1>4. shown' = Visit!None /\ kept' = Visit!None
  BY <1>1 DEF SampleInv
<1>5. WorkFirst(shown)' /\ WorkFirst(kept)'
  BY <1>4 DEF WorkFirst, Visit!None
<1> QED BY <1>3, <1>4, <1>5 DEF SampleInv

\* and answered with;
LEMMA AnswerKeeps == SampleInv /\ Visit!Answer => SampleInv'
<1> SUFFICES ASSUME SampleInv, Visit!Answer PROVE SampleInv'
  OBVIOUS
<1>1. /\ stage' = "done" /\ shown' = Visit!Result /\ kept' \in {kept, Visit!Result}
      /\ UNCHANGED <<now, world, audit_cache, lead>>
  BY DEF Visit!Answer
<1>2. SampleTypes'
  BY <1>1 DEF SampleInv, SampleTypes, VisitStages
<1>3. WorkFirst(Visit!Result) /\ WorkFirst(kept)
  BY ResultShowsWork DEF SampleInv
<1>4. (\A r : Visit!LookedAt(r)' = Visit!LookedAt(r)) /\ Visit!Sayable' = Visit!Sayable
  BY <1>1, WorkStays
<1> DEFINE result == Visit!Result
<1>5. shown' = result /\ kept' \in {kept, result} /\ WorkFirst(result)
  BY <1>1, <1>3
<1> HIDE DEF result
<1>6. WorkFirst(shown)' /\ WorkFirst(kept)'
  BY <1>3, <1>4, <1>5 DEF WorkFirst
<1> QED BY <1>1, <1>2, <1>6 DEF SampleInv

\* the next visitor is answered from what was kept, and time goes by.
LEMMA VisitorsKeep == SampleInv /\ (Visit!readCache \/ Visit!Leave \/ Visit!Tick) => SampleInv'
<1> SUFFICES ASSUME SampleInv, Visit!readCache \/ Visit!Leave \/ Visit!Tick PROVE SampleInv'
  OBVIOUS
<1>1. /\ UNCHANGED <<world, audit_cache, stage, lead, kept>> /\ now' \in {now, now + 1}
      /\ shown' \in {shown, kept, Visit!None} /\ (stage # "done" => shown' = shown)
  BY DEF Visit!readCache, Visit!Leave, Visit!Tick
<1>2. SampleTypes'
  BY <1>1 DEF SampleInv, SampleTypes, VisitStages
<1>3. (\A r : Visit!LookedAt(r)' = Visit!LookedAt(r)) /\ Visit!Sayable' = Visit!Sayable
  BY <1>1, WorkStays
<1>4. WorkFirst(shown) /\ WorkFirst(kept) /\ WorkFirst(Visit!None)
  BY NothingFirst DEF SampleInv
<1> DEFINE none == Visit!None
<1>5. WorkFirst(none) /\ shown' \in {shown, kept, none}
  BY <1>1, <1>4
<1> HIDE DEF none
<1>6. WorkFirst(shown)' /\ WorkFirst(kept)'
  BY <1>1, <1>3, <1>4, <1>5 DEF WorkFirst
<1> QED BY <1>1, <1>2, <1>6 DEF SampleInv

\* Every step keeps the invariant.
LEMMA SampleKept == SampleInv /\ [Visit!Next]_(Visit!vars) => SampleInv'
<1> SUFFICES ASSUME SampleInv, [Visit!Next]_(Visit!vars) PROVE SampleInv'
  OBVIOUS
<1>1. CASE UNCHANGED Visit!vars
  <2>1. UNCHANGED <<now, world, audit_cache, stage, lead, kept, shown>>
    BY <1>1 DEF Visit!vars
  <2>2. WorkFirst(shown)' /\ WorkFirst(kept)'
    BY <2>1, WorkStays DEF SampleInv
  <2> QED BY <2>1, <2>2 DEF SampleInv, SampleTypes, Visit!None
<1>2. CASE Visit!Next
  BY <1>2, StudyKeeps, AnswerKeeps, VisitorsKeep DEF Visit!Next
<1> QED BY <1>1, <1>2

\* The part runs in behaviours of its own.
SampleHold == scene = "sample" => SampleInv

\* So the invariant is one of the whole.
LEMMA SampleAlways == SceneSpec => []SampleHold
<1>1. SceneInit => SampleHold
  <2> SUFFICES ASSUME SceneInit, scene = "sample" PROVE SampleInv
    BY DEF SampleHold
  <2>1. Visit!Init
    BY DEF SceneInit
  <2> QED BY <2>1, SampleStart
<1>2. SampleHold /\ [SceneNext]_sceneVars => SampleHold'
  <2> SUFFICES ASSUME SampleHold, [SceneNext]_sceneVars, scene' = "sample" PROVE SampleInv'
    BY DEF SampleHold
  <2>1. CASE UNCHANGED sceneVars
    <3>1. UNCHANGED Visit!vars /\ scene = "sample"
      BY <2>1 DEF sceneVars, SampleOnly, Visit!vars
    <3> QED BY <3>1, SampleKept DEF SampleHold
  <2>2. CASE SceneNext
    <3>1. scene = "sample" /\ Visit!Next
      BY <2>2 DEF SceneNext
    <3> QED BY <3>1, SampleKept DEF SampleHold
  <2> QED BY <2>1, <2>2
<1> QED BY <1>1, <1>2, PTL DEF SceneSpec

\* An answer of the moment that shows a row nobody looked at shows every row that was looked at
\* and can be shown, for any rows and any size of the sample (lib/sample.ts).
THEOREM VisitorsSeeWork == SceneSpec => []WorkIsShown
<1>1. SampleHold => WorkIsShown
  <2> SUFFICES ASSUME WorkFirst(shown) PROVE Visit!WorkIsShown
    BY DEF SampleHold, SampleInv, WorkIsShown
  <2>1. \A i \in DOMAIN shown.rows : shown.rows[i].row \in Visit!Shown
    BY DEF Visit!Shown
  <2>2. \A r \in Visit!Shown : \E i \in DOMAIN shown.rows : shown.rows[i].row = r
    BY DEF Visit!Shown
  <2> QED BY <2>1, <2>2 DEF WorkFirst, Visit!WorkIsShown
<1> QED BY <1>1, SampleAlways, PTL

-----------------------------------------------------------------------------
(* Enrich: the crawl opens the pages most likely to name somebody.         *)

\* A list whose k-th has k - 1 before him is all of a set, in order.
LEMMA ListedByPlace ==
  ASSUME NEW S, IsFiniteSet(S), NEW R, Orders(R, S), NEW list, DOMAIN list = 1..Cardinality(S),
         \A k \in 1..Cardinality(S) : list[k] \in S /\ Cardinality(Earlier(S, R, list[k])) = k - 1
  PROVE  /\ \A x \in S : \E k \in 1..Cardinality(S) : list[k] = x
         /\ \A i, j \in 1..Cardinality(S) : <<list[i], list[j]>> \in R <=> i < j
<1> DEFINE n == Cardinality(S)  Place(r) == Cardinality(Earlier(S, R, r))
<1>3. /\ n \in Nat
      /\ \A x \in S : Place(x) \in 0..(n - 1)
      /\ \A x, y \in S : <<x, y>> \in R <=> Place(x) < Place(y)
  BY PlacesAre
<1>4. \A x, y \in S : Place(x) = Place(y) => x = y
  <2> SUFFICES ASSUME NEW x \in S, NEW y \in S, Place(x) = Place(y) PROVE x = y
    OBVIOUS
  <2> HIDE DEF Place
  <2>1. ~(Place(x) < Place(y)) /\ ~(Place(y) < Place(x))
    BY <1>3
  <2> QED BY <1>3, <2>1 DEF Orders
<1>5. \A k \in 1..n : list[k] \in S /\ Place(list[k]) = k - 1
  OBVIOUS
<1> HIDE DEF Place, n
<1>6. ASSUME NEW x \in S PROVE \E k \in 1..n : list[k] = x
  <2>1. Place(x) + 1 \in 1..n
    BY <1>3
  <2>2. list[Place(x) + 1] \in S /\ Place(list[Place(x) + 1]) = Place(x)
    BY <1>3, <1>5, <2>1
  <2> QED BY <1>4, <2>1, <2>2
<1>7. ASSUME NEW i \in 1..n, NEW j \in 1..n PROVE <<list[i], list[j]>> \in R <=> i < j
  BY <1>3, <1>5
<1> QED BY <1>6, <1>7 DEF n

\* The instance counts
PagesCount == \A S : Pages!Cardinality(S) = Cardinality(S)

\* as the standard module does.
LEMMA CountsPages == PagesCount
BY Zenon DEF PagesCount, Pages!Cardinality, Cardinality

\* The links of a home page that are worth opening.
Linked(links) == Pages!ToSet(links) \cap Pages!Hinted

\* They are finitely many.
LEMMA LinksOf ==
  ASSUME NEW links \in Pages!SetToAllKPermutations(Paths)
  PROVE  /\ IsFiniteSet(Linked(links)) /\ Linked(links) \subseteq Paths
         /\ DOMAIN links \subseteq Int
<1>1. PICK s \in SUBSET Paths : links \in Pages!SetToSeqs(s)
  BY DEF Pages!SetToAllKPermutations
<1>2. links \in [1..Pages!Cardinality(s) -> s]
  BY <1>1 DEF Pages!SetToSeqs
<1>3. Linked(links) \subseteq Paths
  BY DEF Linked, Pages!Hinted
<1>4. IsFiniteSet(Linked(links))
  BY <1>3, EnrichAssumption, FS_Subset
<1> QED BY <1>2, <1>3, <1>4

\* Which of two of them is opened first.
SoonerFirst(links) == { p \in Linked(links) \X Linked(links) : Pages!Sooner(links, p[1], p[2]) }

\* That is an order, by the rank of a page.
LEMMA SoonerOrders ==
  ASSUME NEW links \in Pages!SetToAllKPermutations(Paths)
  PROVE  /\ Orders(SoonerFirst(links), Linked(links))
         /\ \A p, q \in Linked(links) : <<p, q>> \in SoonerFirst(links) => HintRank[p] <= HintRank[q]
<1> DEFINE S == Linked(links)
           At(path) == CHOOSE i \in DOMAIN links : links[i] = path
<1>1. \A p \in S : At(p) \in DOMAIN links /\ links[At(p)] = p
  <2> TAKE p \in S
  <2>1. \E i \in DOMAIN links : links[i] = p
    BY DEF Linked, Pages!ToSet
  <2> QED BY <2>1
<1>2. \A p, q : Pages!Sooner(links, p, q) <=> HintRank[p] < HintRank[q] \/ (HintRank[p] = HintRank[q] /\ At(p) < At(q))
  BY Zenon DEF Pages!Sooner
<1>3. \A p \in S : HintRank[p] \in Nat
  BY LinksOf, EnrichAssumption
<1> HIDE DEF At
<1>4. \A p \in S : At(p) \in Int
  BY <1>1, LinksOf
<1>5. \A p, q \in S : <<p, q>> \in SoonerFirst(links) <=> HintRank[p] < HintRank[q]
        \/ (HintRank[p] = HintRank[q] /\ At(p) < At(q))
  BY <1>2 DEF SoonerFirst
<1>6. \A p, q \in S : At(p) = At(q) => p = q
  BY <1>1
<1> HIDE DEF S
<1>7. Orders(SoonerFirst(links), S)
  <2>1. \A x \in S : <<x, x>> \notin SoonerFirst(links)
    BY <1>3, <1>4, <1>5
  <2>2. \A x, y, z \in S : <<x, y>> \in SoonerFirst(links) /\ <<y, z>> \in SoonerFirst(links) =>
          <<x, z>> \in SoonerFirst(links)
    BY <1>3, <1>4, <1>5
  <2>3. \A x, y \in S : x = y \/ <<x, y>> \in SoonerFirst(links) \/ <<y, x>> \in SoonerFirst(links)
    <3> TAKE x, y \in S
    <3>1. HintRank[x] \in Nat /\ HintRank[y] \in Nat /\ At(x) \in Int /\ At(y) \in Int
      BY <1>3, <1>4
    <3>2. \/ HintRank[x] < HintRank[y] \/ HintRank[y] < HintRank[x]
          \/ HintRank[x] = HintRank[y] /\ (At(x) < At(y) \/ At(y) < At(x) \/ At(x) = At(y))
      BY <3>1
    <3> QED BY <1>5, <1>6, <3>2
  <2> QED BY <2>1, <2>2, <2>3 DEF Orders
<1>8. \A p, q \in S : <<p, q>> \in SoonerFirst(links) => HintRank[p] <= HintRank[q]
  BY <1>3, <1>5
<1> QED BY <1>7, <1>8 DEF S

\* The links by rank are all of them, in that order.
LEMMA ByRankIs ==
  ASSUME NEW links \in Pages!SetToAllKPermutations(Paths)
  PROVE  /\ Cardinality(Linked(links)) \in Nat
         /\ Pages!ByRank(links) \in Seq(Linked(links))
              /\ Len(Pages!ByRank(links)) = Cardinality(Linked(links))
         /\ \A q \in Linked(links) : \E k \in 1..Cardinality(Linked(links)) : Pages!ByRank(links)[k] = q
         /\ \A i, j \in 1..Cardinality(Linked(links)) : i < j =>
              HintRank[Pages!ByRank(links)[i]] <= HintRank[Pages!ByRank(links)[j]]
<1> DEFINE S == Linked(links)  R == SoonerFirst(links)  n == Cardinality(S)  list == Pages!ByRank(links)
<1>1. IsFiniteSet(S) /\ Orders(R, S) /\ n \in Nat
  BY LinksOf, SoonerOrders, FS_CardinalityType
<1>2. list = [k \in 1..Pages!Cardinality(S) |->
        CHOOSE p \in S : Pages!Cardinality({ q \in S : Pages!Sooner(links, q, p) }) = k - 1]
  BY Zenon DEF Pages!ByRank, Linked
<1>3. \A p \in S : Pages!Cardinality({ q \in S : Pages!Sooner(links, q, p) }) = Cardinality(Earlier(S, R,
        p))
  <2> TAKE p \in S
  <2>1. Earlier(S, R, p) = { q \in S : Pages!Sooner(links, q, p) }
    BY DEF Earlier, SoonerFirst
  <2> QED BY <2>1, CountsPages DEF PagesCount
<1>4. Pages!Cardinality(S) = n
  BY CountsPages DEF PagesCount
<1>5. \A k \in 1..n : \E p \in S : Pages!Cardinality({ q \in S : Pages!Sooner(links, q, p) }) = k - 1
  <2> TAKE k \in 1..n
  <2>1. PICK p \in S : Cardinality(Earlier(S, R, p)) = k - 1
    BY <1>1, PlacesAre
  <2> QED BY <1>3, <2>1
<1> HIDE DEF S, R, n, list
<1>6. \A k \in 1..n : list[k] \in S /\ Pages!Cardinality({ q \in S : Pages!Sooner(links, q,
        list[k]) }) = k - 1
  <2> TAKE k \in 1..n
  <2>1. list[k] = CHOOSE p \in S : Pages!Cardinality({ q \in S : Pages!Sooner(links, q, p) }) = k - 1
    BY Zenon, <1>2, <1>4
  <2> QED BY Zenon, <1>5, <2>1
<1>7. DOMAIN list = 1..n /\ list = [k \in 1..n |-> list[k]]
  <2> DEFINE F(k) == CHOOSE p \in S : Pages!Cardinality({ q \in S : Pages!Sooner(links, q, p) }) = k - 1
  <2>1. list = [k \in 1..n |-> F(k)]
    BY Zenon, <1>2, <1>4
  <2> HIDE DEF F
  <2> QED BY <2>1
<1>8. \A k \in 1..n : list[k] \in S /\ Cardinality(Earlier(S, R, list[k])) = k - 1
  BY <1>3, <1>6
<1>9. /\ \A x \in S : \E k \in 1..n : list[k] = x
      /\ \A i, j \in 1..n : <<list[i], list[j]>> \in R <=> i < j
  BY <1>1, <1>7, <1>8, ListedByPlace DEF n
<1>10. \A i, j \in 1..n : i < j => HintRank[list[i]] <= HintRank[list[j]]
  BY <1>8, <1>9, SoonerOrders DEF R, S
<1>11. list \in Seq(S) /\ Len(list) = n
  <2>1. list \in [1..n -> S]
    BY <1>7, <1>8
  <2> QED BY <1>1, <2>1
<1> QED BY <1>1, <1>9, <1>10, <1>11 DEF S, n, list

\* The pages that may be opened are the first of these.
LEMMA CandidatesAre ==
  ASSUME NEW links \in Pages!SetToAllKPermutations(Paths)
  PROVE  /\ Pages!candidatePages(links) \in Seq(Linked(links))
         /\ \A p \in Linked(links), i \in 1..Len(Pages!candidatePages(links)) :
              \/ \E j \in 1..Len(Pages!candidatePages(links)) : Pages!candidatePages(links)[j] = p
              \/ HintRank[Pages!candidatePages(links)[i]] <= HintRank[p]
<1> DEFINE S == Linked(links)  n == Cardinality(S)
           list == Pages!ByRank(links)  cand == Pages!candidatePages(links)
<1>1. /\ n \in Nat /\ list \in Seq(S) /\ Len(list) = n
      /\ \A q \in S : \E k \in 1..n : list[k] = q
      /\ \A i, j \in 1..n : i < j => HintRank[list[i]] <= HintRank[list[j]]
  BY ByRankIs
<1> DEFINE k == Pages!Min({MAX_EXTRA_PAGES, Len(list)})
<1>2. cand = SubSeq(list, 1, k)
  BY DEF Pages!candidatePages
<1>3. k \in 0..n
  <2>1. MAX_EXTRA_PAGES \in Nat /\ Len(list) \in Nat
    BY <1>1, EnrichAssumption
  <2> DEFINE a == MAX_EXTRA_PAGES  b == Len(list)
  <2>2. \E x \in {a, b} : \A y \in {a, b} : x <= y
    BY <2>1
  <2>3. Pages!Min({a, b}) \in {a, b} /\ \A y \in {a, b} : Pages!Min({a, b}) <= y
    BY <2>2 DEF Pages!Min
  <2> QED BY <1>1, <2>1, <2>3
<1> HIDE DEF k, S, n, list, cand
<1>4. cand \in Seq(S) /\ Len(cand) = k /\ \A i \in 1..k : cand[i] = list[i]
  <2>1. \A i \in 1..k : list[i] \in S
    BY <1>1, <1>3
  <2>2. /\ SubSeq(list, 1, k) \in Seq(S)
        /\ Len(SubSeq(list, 1, k)) = IF 1 <= k THEN k - 1 + 1 ELSE 0
        /\ \A i \in 1..(k - 1 + 1) : SubSeq(list, 1, k)[i] = list[1 + i - 1]
    BY <1>3, <2>1, SubSeqProperties
  <2> QED BY <1>2, <1>3, <2>2
<1>5. ASSUME NEW p \in S, NEW i \in 1..k
      PROVE  (\E j \in 1..k : cand[j] = p) \/ HintRank[cand[i]] <= HintRank[p]
  <2>1. PICK j \in 1..n : list[j] = p
    BY <1>1
  <2>2. CASE j <= k
    BY <1>3, <1>4, <2>1, <2>2
  <2>3. CASE j > k
    BY <1>1, <1>3, <1>4, <2>1, <2>3
  <2> QED BY <1>3, <2>2, <2>3
<1> QED BY <1>4, <1>5 DEF S, cand

\* The pages that may be opened of the site at hand.
Candidates == Pages!candidatePages(site.links)
\* Type invariant of the crawl for an owner.
SiteTypes ==
  /\ site.links \in Pages!SetToAllKPermutations(Paths) /\ site.home \in Contents
  /\ site.page \in [Pages!Hinted -> Contents] /\ site.live \subseteq Pages!Hinted
  /\ phase \in {"home", "pages", "guess", "done"}
  /\ DOMAIN out = {"owner", "ownerEmail", "hiring", "scrapedEmail", "pagesFetched"}
  /\ pages \in Seq(Contents) /\ queue \in Seq(Linked(site.links)) /\ asked \in Nat
\* The pages that were opened, and those still to be, are the candidates in their order.
InTheirOrder ==
  /\ phase = "home" => opened = {}
  /\ phase \in {"pages", "guess"} \/ opened # {} =>
       \E m \in 0..Len(Candidates) :
         /\ opened = { Candidates[i] : i \in 1..m } /\ Len(queue) = Len(Candidates) - m
         /\ \A i \in 1..Len(queue) : queue[i] = Candidates[m + i]
  /\ phase # "pages" => queue = <<>>
\* What was opened and answered was read.
PagesRead == \A p \in opened \cap site.live : \E i \in DOMAIN pages : pages[i] = site.page[p]
\* A guess is bought for an owner who was named, of a business of which no page gave an address.
GuessedFor ==
  /\ phase \in {"home", "pages"} => asked = 0
  /\ phase \in {"home", "pages", "guess"} => out.ownerEmail = {}
  /\ phase = "guess" \/ asked > 0 => out.owner # Pages!Nobody /\ \A i \in DOMAIN pages : ~pages[i].mail
  /\ out.ownerEmail # {} => out.ownerEmail = {asked}
\* The inductive invariant.
EnrichInv == SiteTypes /\ InTheirOrder /\ PagesRead /\ GuessedFor

\* The parts of what is found.
LEMMA HomeFields == DOMAIN Pages!EMPTY_ENRICHMENT = {"owner", "ownerEmail", "hiring", "scrapedEmail",
     "pagesFetched"}
BY DEF Pages!EMPTY_ENRICHMENT

\* The invariant holds at first.
LEMMA EnrichStart == Pages!Init => EnrichInv
<1> SUFFICES ASSUME Pages!Init PROVE EnrichInv
  OBVIOUS
<1>1. /\ site.links \in Pages!SetToAllKPermutations(Paths) /\ site.home \in Contents
      /\ site.page \in [Pages!Hinted -> Contents] /\ site.live \subseteq Pages!Hinted
  BY DEF Pages!Init, Pages!Sites
<1>2. /\ queue = <<>> /\ pages = <<>> /\ opened = {} /\ phase = "home" /\ asked = 0
      /\ out.ownerEmail = {} /\ DOMAIN out = {"owner", "ownerEmail", "hiring", "scrapedEmail",
           "pagesFetched"}
  BY HomeFields DEF Pages!Init, Pages!EMPTY_ENRICHMENT
<1> QED BY <1>1, <1>2 DEF EnrichInv, SiteTypes, InTheirOrder, PagesRead, GuessedFor

\* The home page is read,
LEMMA HomeKeeps == EnrichInv /\ Pages!ReadHome => EnrichInv'
<1> SUFFICES ASSUME EnrichInv, Pages!ReadHome PROVE EnrichInv'
  OBVIOUS
<1>1. /\ phase = "home" /\ UNCHANGED <<site, sign, opened, asked>>
      /\ opened = {} /\ asked = 0 /\ out.ownerEmail = {}
  BY DEF Pages!ReadHome, EnrichInv, InTheirOrder, GuessedFor
<1>2. CASE phase' = "pages" /\ pages' = <<site.home>> /\ queue' = Pages!candidatePages(site.links)
           /\ out' = [out EXCEPT !.pagesFetched = 1]
  <2>1. queue' = Candidates /\ Candidates \in Seq(Linked(site.links))
    BY <1>2, CandidatesAre DEF Candidates, EnrichInv, SiteTypes
  <2>2. out'.ownerEmail = {} /\ DOMAIN out' = DOMAIN out
    BY <1>1, <1>2 DEF EnrichInv, SiteTypes
  <2>3. SiteTypes'
    BY <1>1, <1>2, <2>1, <2>2 DEF EnrichInv, SiteTypes
  <2>4. Candidates' = Candidates
    BY <1>1 DEF Candidates
  <2>5. InTheirOrder'
    <3>1. /\ 0 \in 0..Len(Candidates) /\ opened = { Candidates[i] : i \in 1..0 }
               /\ Len(Candidates) = Len(Candidates) - 0
          /\ \A i \in 1..Len(Candidates) : Candidates[i] = Candidates[0 + i]
      BY <1>1, <2>1
    <3> QED BY <1>1, <1>2, <2>1, <2>4, <3>1 DEF InTheirOrder
  <2>6. PagesRead' /\ GuessedFor'
    BY <1>1, <1>2, <2>2 DEF PagesRead, GuessedFor
  <2> QED BY <2>3, <2>5, <2>6 DEF EnrichInv
<1>3. CASE phase' = "done" /\ UNCHANGED <<pages, queue, out>>
  <2>1. queue = <<>>
    BY <1>1 DEF EnrichInv, InTheirOrder
  <2> QED BY <1>1, <1>3, <2>1 DEF EnrichInv, SiteTypes, InTheirOrder, PagesRead, GuessedFor
<1> QED BY <1>2, <1>3 DEF Pages!ReadHome

\* then one page after the other;
LEMMA PageKeeps == EnrichInv /\ Pages!ReadPage => EnrichInv'
<1> SUFFICES ASSUME EnrichInv, Pages!ReadPage PROVE EnrichInv'
  OBVIOUS
<1> DEFINE p == Head(queue)
<1>1. /\ phase = "pages" /\ queue # <<>> /\ queue' = Tail(queue) /\ opened' = opened \cup {p}
      /\ UNCHANGED <<site, sign, phase, asked>>
  BY DEF Pages!ReadPage
<1>2. /\ p \in Linked(site.links) /\ queue' \in Seq(Linked(site.links)) /\ Len(queue') = Len(queue) - 1
      /\ Len(queue) \in Nat \ {0} /\ p = queue[1]
      /\ \A i \in 1..Len(queue') : queue'[i] = queue[i + 1]
  BY <1>1, HeadTailProperties DEF EnrichInv, SiteTypes
<1> HIDE DEF p
<1>4. /\ pages' \in Seq(Contents) /\ DOMAIN out' = DOMAIN out /\ out'.ownerEmail = out.ownerEmail
           /\ out'.owner = out.owner
      /\ \A q \in (opened \cup {p}) \cap site.live : \E i \in DOMAIN pages' : pages'[i] = site.page[q]
  <2>1. CASE p \in site.live
    <3>1. pages' = Append(pages, site.page[p])
            /\ out' = [out EXCEPT !.pagesFetched = out.pagesFetched + 1]
      BY <2>1 DEF Pages!ReadPage, p
    <3>2. site.page[p] \in Contents /\ pages \in Seq(Contents)
      BY <2>1 DEF EnrichInv, SiteTypes
    <3>3. /\ pages' \in Seq(Contents) /\ Len(pages') = Len(pages) + 1
               /\ pages'[Len(pages) + 1] = site.page[p]
          /\ \A i \in 1..Len(pages) : pages'[i] = pages[i]
      BY <3>1, <3>2, AppendProperties
    <3>4. DOMAIN pages = 1..Len(pages) /\ DOMAIN pages' = 1..Len(pages') /\ Len(pages) \in Nat
      BY <3>2, <3>3
    <3>5. \A q \in opened \cap site.live : \E i \in DOMAIN pages' : pages'[i] = site.page[q]
      <4> TAKE q \in opened \cap site.live
      <4>1. PICK i \in 1..Len(pages) : pages[i] = site.page[q]
        BY <3>4 DEF EnrichInv, PagesRead
      <4> QED BY <3>3, <3>4, <4>1
    <3>6. \E i \in DOMAIN pages' : pages'[i] = site.page[p]
      BY <3>3, <3>4
    <3> QED BY <3>1, <3>3, <3>5, <3>6 DEF EnrichInv, SiteTypes
  <2>2. CASE p \notin site.live
    <3>1. UNCHANGED <<pages, out>>
      BY <2>2 DEF Pages!ReadPage, p
    <3> QED BY <2>2, <3>1 DEF EnrichInv, SiteTypes, PagesRead
  <2> QED BY <2>1, <2>2
<1>5. SiteTypes'
  BY <1>1, <1>2, <1>4 DEF EnrichInv, SiteTypes
<1>6. InTheirOrder'
  <2>1. Candidates' = Candidates
    BY <1>1 DEF Candidates
  <2>2. Len(Candidates) \in Nat
    BY CandidatesAre DEF Candidates, EnrichInv, SiteTypes
  <2>3. PICK m \in 0..Len(Candidates) :
          /\ opened = { Candidates[i] : i \in 1..m } /\ Len(queue) = Len(Candidates) - m
          /\ \A i \in 1..Len(queue) : queue[i] = Candidates[m + i]
    BY <1>1 DEF EnrichInv, InTheirOrder
  <2>4. m + 1 \in 0..Len(Candidates) /\ p = Candidates[m + 1] /\ Len(queue') = Len(Candidates) - (m + 1)
    BY <1>2, <2>2, <2>3
  <2>5. opened' = { Candidates[i] : i \in 1..(m + 1) }
    <3>1. 1..(m + 1) = (1..m) \cup {m + 1}
      BY <2>3
    <3> QED BY <1>1, <2>3, <2>4, <3>1 DEF p
  <2>6. \A i \in 1..Len(queue') : queue'[i] = Candidates[(m + 1) + i]
    <3> TAKE i \in 1..Len(queue')
    <3>1. i + 1 \in 1..Len(queue) /\ queue'[i] = queue[i + 1]
      BY <1>2
    <3> QED BY <2>3, <3>1
  <2>7. \E n \in 0..Len(Candidates') :
          /\ opened' = { Candidates'[i] : i \in 1..n } /\ Len(queue') = Len(Candidates') - n
          /\ \A i \in 1..Len(queue') : queue'[i] = Candidates'[n + i]
    <3> DEFINE c == Candidates  n == m + 1
    <3>1. n \in 0..Len(c) /\ opened' = { c[i] : i \in 1..n } /\ Len(queue') = Len(c) - n
          /\ \A i \in 1..Len(queue') : queue'[i] = c[n + i]
      BY <2>4, <2>5, <2>6
    <3>2. Candidates' = c
      BY <2>1
    <3> HIDE DEF c, n
    <3> QED BY <3>1, <3>2
  <2> QED BY <1>1, <2>7 DEF InTheirOrder
<1>7. PagesRead'
  BY <1>1, <1>4 DEF PagesRead, p
<1>8. GuessedFor'
  BY <1>1, <1>4 DEF EnrichInv, GuessedFor
<1> QED BY <1>5, <1>6, <1>7, <1>8 DEF EnrichInv

\* what was found is put together,
LEMMA AssembleKeeps == EnrichInv /\ Pages!Assemble => EnrichInv'
<1> SUFFICES ASSUME EnrichInv, Pages!Assemble PROVE EnrichInv'
  OBVIOUS
<1> DEFINE o == Pages!OwnerOf(pages)  u == Pages!Published(pages)
           h == {\E i \in DOMAIN pages : Pages!detectHiring(pages[i])}
<1>1. /\ phase = "pages" /\ queue = <<>> /\ UNCHANGED <<site, sign, queue, pages, opened, asked>>
      /\ out' = [out EXCEPT !.owner = o, !.scrapedEmail = u, !.hiring = h]
      /\ phase' = IF o # Pages!Nobody /\ ~u THEN "guess" ELSE "done"
  BY DEF Pages!Assemble
<1>2. ~u => \A i \in DOMAIN pages : ~pages[i].mail
  BY DEF Pages!Published
<1> HIDE DEF o, u, h
<1>3. DOMAIN out' = DOMAIN out /\ out'.ownerEmail = out.ownerEmail /\ out'.owner = o
  BY <1>1 DEF EnrichInv, SiteTypes
<1>4. SiteTypes'
  BY <1>1, <1>3 DEF EnrichInv, SiteTypes
<1>5. InTheirOrder'
  <2>1. Candidates' = Candidates
    BY <1>1 DEF Candidates
  <2> QED BY <1>1, <2>1 DEF EnrichInv, InTheirOrder
<1>6. PagesRead'
  BY <1>1 DEF EnrichInv, PagesRead
<1>7. GuessedFor'
  BY <1>1, <1>2, <1>3 DEF EnrichInv, GuessedFor
<1> QED BY <1>4, <1>5, <1>6, <1>7 DEF EnrichInv

\* and an address is guessed.
LEMMA GuessKeeps == EnrichInv /\ Pages!Guess => EnrichInv'
<1> SUFFICES ASSUME EnrichInv, Pages!Guess PROVE EnrichInv'
  OBVIOUS
<1>1. /\ phase = "guess" /\ asked' = asked + 1 /\ UNCHANGED <<site, sign, queue, pages, opened>>
           /\ phase' \in {"guess", "done"}
  BY DEF Pages!Guess
<1>2. /\ DOMAIN out' = DOMAIN out /\ out'.owner = out.owner
      /\ \/ out'.ownerEmail = {asked + 1} /\ phase' = "done"
         \/ out' = out
  BY DEF Pages!Guess, EnrichInv, SiteTypes
<1>3. asked \in Nat /\ out.ownerEmail = {}
  BY <1>1 DEF EnrichInv, SiteTypes, GuessedFor
<1>4. SiteTypes'
  BY <1>1, <1>2 DEF EnrichInv, SiteTypes
<1>5. InTheirOrder'
  <2>1. Candidates' = Candidates
    BY <1>1 DEF Candidates
  <2> QED BY <1>1, <2>1 DEF EnrichInv, InTheirOrder
<1>6. PagesRead'
  BY <1>1 DEF EnrichInv, PagesRead
<1>7. GuessedFor'
  BY <1>1, <1>2, <1>3 DEF EnrichInv, GuessedFor
<1> QED BY <1>4, <1>5, <1>6, <1>7 DEF EnrichInv

\* Every step keeps the invariant.
LEMMA EnrichKept == EnrichInv /\ [Pages!Next]_(Pages!vars) => EnrichInv'
<1> SUFFICES ASSUME EnrichInv, [Pages!Next]_(Pages!vars) PROVE EnrichInv'
  OBVIOUS
<1>1. CASE UNCHANGED Pages!vars
  <2>1. UNCHANGED <<site, sign, queue, pages, opened, phase, out, asked>>
    BY <1>1 DEF Pages!vars
  <2>2. Candidates' = Candidates
    BY <2>1 DEF Candidates
  <2>3. SiteTypes' /\ PagesRead' /\ GuessedFor'
    BY <2>1 DEF EnrichInv, SiteTypes, PagesRead, GuessedFor
  <2>4. InTheirOrder'
    <3>1. /\ phase = "home" => opened = {}
          /\ phase # "pages" => queue = <<>>
      BY DEF EnrichInv, InTheirOrder
    <3>2. phase \in {"pages", "guess"} \/ opened # {} =>
            \E m \in 0..Len(Candidates) :
              /\ opened = { Candidates[i] : i \in 1..m } /\ Len(queue) = Len(Candidates) - m
              /\ \A i \in 1..Len(queue) : queue[i] = Candidates[m + i]
      BY DEF EnrichInv, InTheirOrder
    <3>3. phase' = phase /\ opened' = opened /\ queue' = queue
      BY <2>1
    <3>4. phase' \in {"pages", "guess"} \/ opened' # {} =>
            \E m \in 0..Len(Candidates') :
              /\ opened' = { Candidates'[i] : i \in 1..m } /\ Len(queue') = Len(Candidates') - m
              /\ \A i \in 1..Len(queue') : queue'[i] = Candidates'[m + i]
      <4> SUFFICES ASSUME phase' \in {"pages", "guess"} \/ opened' # {}
                   PROVE  \E m \in 0..Len(Candidates') :
                            /\ opened' = { Candidates'[i] : i \in 1..m }
                                 /\ Len(queue') = Len(Candidates') - m
                            /\ \A i \in 1..Len(queue') : queue'[i] = Candidates'[m + i]
        OBVIOUS
      <4>1. PICK m \in 0..Len(Candidates) :
              /\ opened = { Candidates[i] : i \in 1..m } /\ Len(queue) = Len(Candidates) - m
              /\ \A i \in 1..Len(queue) : queue[i] = Candidates[m + i]
        BY Zenon, <3>2, <3>3
      <4>2. /\ m \in 0..Len(Candidates') /\ opened' = { Candidates'[i] : i \in 1..m }
            /\ Len(queue') = Len(Candidates') - m
            /\ \A i \in 1..Len(queue') : queue'[i] = Candidates'[m + i]
        BY Zenon, <2>2, <3>3, <4>1
      <4> QED BY Zenon, <4>2
    <3>5. (phase' = "home" => opened' = {}) /\ (phase' # "pages" => queue' = <<>>)
      BY <3>1, <3>3
    <3> QED BY Zenon, <3>4, <3>5 DEF InTheirOrder
  <2> QED BY <2>3, <2>4 DEF EnrichInv
<1>2. CASE Pages!Next
  BY <1>2, HomeKeeps, PageKeeps, AssembleKeeps, GuessKeeps DEF Pages!Next
<1> QED BY <1>1, <1>2

\* The part runs in behaviours of its own.
EnrichHold == scene = "enrich" => EnrichInv

\* So the invariant is one of the whole.
LEMMA EnrichAlways == SceneSpec => []EnrichHold
<1>1. SceneInit => EnrichHold
  <2> SUFFICES ASSUME SceneInit, scene = "enrich" PROVE EnrichInv
    BY DEF EnrichHold
  <2>1. Pages!Init
    BY DEF SceneInit
  <2> QED BY <2>1, EnrichStart
<1>2. EnrichHold /\ [SceneNext]_sceneVars => EnrichHold'
  <2> SUFFICES ASSUME EnrichHold, [SceneNext]_sceneVars, scene' = "enrich" PROVE EnrichInv'
    BY DEF EnrichHold
  <2>1. CASE UNCHANGED sceneVars
    <3>1. UNCHANGED Pages!vars /\ scene = "enrich"
      BY <2>1 DEF sceneVars, EnrichOnly, Pages!vars
    <3> QED BY <3>1, EnrichKept DEF EnrichHold
  <2>2. CASE SceneNext
    <3>1. scene = "enrich" /\ Pages!Next
      BY <2>2 DEF SceneNext
    <3> QED BY <3>1, EnrichKept DEF EnrichHold
  <2> QED BY <2>1, <2>2
<1> QED BY <1>1, <1>2, PTL DEF SceneSpec

\* No page is left unopened for one less likely to name somebody, and a guessed address is
\* bought only for an owner who was named of a site that gave no address, for any pages, ranks
\* and limit (lib/enrich.ts).
THEOREM WorthwhilePagesOpened == SceneSpec => []BestPagesFirst
<1>1. EnrichHold => BestPagesFirst
  <2> SUFFICES ASSUME EnrichInv PROVE Pages!BestPagesFirst /\ Pages!NeverGuessedInVain
    BY DEF EnrichHold, BestPagesFirst
  <2>1. Pages!BestPagesFirst
    <3> SUFFICES ASSUME phase = "done", opened # {}, NEW p \in opened, NEW q \in Linked(site.links),
            q \notin opened
                 PROVE  HintRank[p] <= HintRank[q]
      BY DEF Pages!BestPagesFirst, Linked
    <3>1. /\ Candidates \in Seq(Linked(site.links))
          /\ \A x \in Linked(site.links), i \in 1..Len(Candidates) :
               (\E j \in 1..Len(Candidates) : Candidates[j] = x) \/ HintRank[Candidates[i]] <= HintRank[x]
      BY CandidatesAre DEF Candidates, EnrichInv, SiteTypes
    <3>2. PICK m \in 0..Len(Candidates) : opened = { Candidates[i] : i \in 1..m }
            /\ Len(queue) = Len(Candidates) - m
      BY DEF EnrichInv, InTheirOrder
    <3>3. Len(queue) = 0
      BY DEF EnrichInv, InTheirOrder
    <3>4. m = Len(Candidates)
      BY <3>1, <3>2, <3>3
    <3> QED BY <3>1, <3>2, <3>4
  <2>2. Pages!NeverGuessedInVain
    <3>1. asked > 0 => out.owner # Pages!Nobody
      BY DEF EnrichInv, GuessedFor
    <3>2. ASSUME asked > 0, NEW p \in opened \cap site.live PROVE ~site.page[p].mail
      <4>1. PICK i \in DOMAIN pages : pages[i] = site.page[p]
        BY DEF EnrichInv, PagesRead
      <4> QED BY <3>2, <4>1 DEF EnrichInv, GuessedFor
    <3> QED BY <3>1, <3>2 DEF Pages!NeverGuessedInVain, EnrichInv, GuessedFor
  <2> QED BY <2>1, <2>2
<1> QED BY <1>1, EnrichAlways, PTL

-----------------------------------------------------------------------------
(* Shortlist: the pages of a search together are the search.               *)

\* The instance counts as the standard module does.
LEMMA ListCount == \A S : List!Cardinality(S) = Cardinality(S)
BY Zenon DEF List!Cardinality, Cardinality

\* Type invariant of a search.
ShortTypes == found \in [List!Leads -> Profiles] /\ ask \in Asks /\ subscribed \in BOOLEAN

\* A rank is numbers.
LEMMA RanksAre ==
  ASSUME ShortTypes, NEW i \in List!Leads
  PROVE  /\ i \in Nat
         /\ \A k \in 1..4 : List!Rank(found[i])[k] \in Nat
<1> DEFINE l == found[i]
<1>1. l.tier \in Nat /\ l.pct \in Nat
  BY ShortlistAssumption DEF ShortTypes
<1>2. List!bucketOf(l) \in Nat
  BY DEF List!bucketOf, List!fitBucket
<1> HIDE DEF l
<1>3. List!Rank(l) = <<IF l.deliverable THEN 1 ELSE 0, List!bucketOf(l), l.tier, l.pct>>
  BY DEF List!Rank
<1>4. 1..4 = {1, 2, 3, 4}
  OBVIOUS
<1>5. \A k \in 1..4 : List!Rank(l)[k] \in Nat
  BY <1>1, <1>2, <1>3, <1>4
<1> QED BY <1>5, ShortlistAssumption DEF l, List!Leads

\* What Above and Tied say, place by place.
LEMMA AboveIs ==
  ASSUME ShortTypes, NEW i \in List!Leads, NEW j \in List!Leads
  PROVE  LET a == List!Rank(found[i])  b == List!Rank(found[j]) IN
         /\ List!Above(i, j) <=> \/ a[1] > b[1]
                                 \/ a[1] = b[1] /\ a[2] > b[2]
                                 \/ a[1] = b[1] /\ a[2] = b[2] /\ a[3] > b[3]
                                 \/ a[1] = b[1] /\ a[2] = b[2] /\ a[3] = b[3] /\ a[4] > b[4]
         /\ List!Tied(i, j) <=> a[1] = b[1] /\ a[2] = b[2] /\ a[3] = b[3] /\ a[4] = b[4]
<1> DEFINE a == List!Rank(found[i])  b == List!Rank(found[j])
<1>1. List!Above(i, j) <=> \E k \in 1..4 : a[k] > b[k] /\ \A m \in 1..(k - 1) : a[m] = b[m]
  BY Zenon DEF List!Above
<1>2. List!Tied(i, j) <=> a = b
  BY Zenon DEF List!Tied
<1>3. a = b <=> a[1] = b[1] /\ a[2] = b[2] /\ a[3] = b[3] /\ a[4] = b[4]
  BY DEF List!Rank
<1> HIDE DEF a, b
<1>4. (\E k \in 1..4 : a[k] > b[k] /\ \A m \in 1..(k - 1) : a[m] = b[m])
        <=> \/ a[1] > b[1]
            \/ a[1] = b[1] /\ a[2] > b[2]
            \/ a[1] = b[1] /\ a[2] = b[2] /\ a[3] > b[3]
            \/ a[1] = b[1] /\ a[2] = b[2] /\ a[3] = b[3] /\ a[4] > b[4]
  <2>1. (\A m \in 1..(1 - 1) : a[m] = b[m]) <=> TRUE
    OBVIOUS
  <2>2. (\A m \in 1..(2 - 1) : a[m] = b[m]) <=> a[1] = b[1]
    <3>1. 1..(2 - 1) = {1}
      OBVIOUS
    <3> QED BY <3>1
  <2>3. (\A m \in 1..(3 - 1) : a[m] = b[m]) <=> a[1] = b[1] /\ a[2] = b[2]
    <3>1. 1..(3 - 1) = {1, 2}
      OBVIOUS
    <3> QED BY <3>1
  <2>4. (\A m \in 1..(4 - 1) : a[m] = b[m]) <=> a[1] = b[1] /\ a[2] = b[2] /\ a[3] = b[3]
    <3>1. 1..(4 - 1) = {1, 2, 3}
      OBVIOUS
    <3> QED BY <3>1
  <2>5. 1..4 = {1, 2, 3, 4}
    OBVIOUS
  <2> QED BY <2>1, <2>2, <2>3, <2>4, <2>5
<1> QED BY <1>1, <1>2, <1>3, <1>4 DEF a, b

\* Who of those who match comes first.
Firsts == { p \in List!matching \X List!matching : List!Before(p[1], p[2]) }

\* That is an order of the finitely many who match.
LEMMA FirstsOrder ==
  ASSUME ShortTypes
  PROVE  /\ IsFiniteSet(List!matching) /\ List!matching \subseteq List!Leads
         /\ \A i, j \in List!matching : <<i, j>> \in Firsts <=> List!Before(i, j)
         /\ Orders(Firsts, List!matching)
<1> DEFINE S == List!matching  r(i) == List!Rank(found[i])
<1>1. S \subseteq List!Leads
  BY DEF List!matching, List!actionable
<1>2. IsFiniteSet(S)
  <2>1. IsFiniteSet(List!Leads)
    BY ShortlistAssumption, FS_Interval DEF List!Leads
  <2> QED BY <1>1, <2>1, FS_Subset
<1>3. \A i, j \in S : <<i, j>> \in Firsts <=> List!Before(i, j)
  BY DEF Firsts
<1>4. \A i \in S : i \in Nat /\ r(i)[1] \in Nat /\ r(i)[2] \in Nat /\ r(i)[3] \in Nat /\ r(i)[4] \in Nat
  <2> TAKE i \in S
  <2>1. i \in List!Leads
    BY <1>1
  <2>2. 1 \in 1..4 /\ 2 \in 1..4 /\ 3 \in 1..4 /\ 4 \in 1..4
    OBVIOUS
  <2> QED BY <2>1, <2>2, RanksAre
<1>5. \A i, j \in S : List!Before(i, j) <=>
        LET a == r(i)  b == r(j) IN
          \/ a[1] > b[1]
          \/ a[1] = b[1] /\ a[2] > b[2]
          \/ a[1] = b[1] /\ a[2] = b[2] /\ a[3] > b[3]
          \/ a[1] = b[1] /\ a[2] = b[2] /\ a[3] = b[3] /\ a[4] > b[4]
          \/ a[1] = b[1] /\ a[2] = b[2] /\ a[3] = b[3] /\ a[4] = b[4] /\ i < j
  <2> TAKE i, j \in S
  <2>1. i \in List!Leads /\ j \in List!Leads
    BY <1>1
  <2>2. List!Before(i, j) <=> List!Above(i, j) \/ (List!Tied(i, j) /\ i < j)
    BY DEF List!Before
  <2> QED BY <2>1, <2>2, AboveIs
<1> HIDE DEF S, r
<1>6. \A x \in S : ~List!Before(x, x)
  BY <1>4, <1>5
<1>7. \A x, y, z \in S : List!Before(x, y) /\ List!Before(y, z) => List!Before(x, z)
  BY <1>4, <1>5
<1>8. \A x, y \in S : x = y \/ List!Before(x, y) \/ List!Before(y, x)
  BY <1>4, <1>5
<1>9. Orders(Firsts, S)
  BY <1>3, <1>6, <1>7, <1>8 DEF Orders
<1> QED BY <1>1, <1>2, <1>3, <1>9 DEF S

\* Whoever is k-th in a list that follows an order has k - 1 before him.
LEMMA SortedPlaces ==
  ASSUME NEW S, IsFiniteSet(S), NEW R, Orders(R, S), NEW n \in Nat, NEW list \in [1..n -> S],
         \A x \in S : \E i \in 1..n : list[i] = x,
         \A a, b \in 1..n : a < b => <<list[a], list[b]>> \in R
  PROVE  \A k \in 1..n : Cardinality(Earlier(S, R, list[k])) = k - 1
<1> TAKE k \in 1..n
<1>1. \A a, b \in 1..n : <<list[a], list[b]>> \in R <=> a < b
  <2> TAKE a, b \in 1..n
  <2>1. CASE a < b
    BY <2>1
  <2>2. CASE b < a
    BY <2>2 DEF Orders
  <2>3. CASE a = b
    BY <2>3 DEF Orders
  <2> QED BY <2>1, <2>2, <2>3
<1>2. \A a, b \in 1..n : list[a] = list[b] => a = b
  <2> TAKE a, b \in 1..n
  <2>1. a < b \/ b < a \/ a = b
    OBVIOUS
  <2> QED BY <2>1 DEF Orders
<1> DEFINE E == Earlier(S, R, list[k])  f == [i \in 1..(k - 1) |-> list[i]]
<1>3. \A i \in 1..(k - 1) : i \in 1..n /\ list[i] \in E
  <2> TAKE i \in 1..(k - 1)
  <2>1. i \in 1..n /\ i < k
    OBVIOUS
  <2>2. <<list[i], list[k]>> \in R
    BY <2>1
  <2> QED BY <2>1, <2>2 DEF Earlier
<1>4. \A x \in E : \E i \in 1..(k - 1) : list[i] = x
  <2> TAKE x \in E
  <2>1. x \in S /\ <<x, list[k]>> \in R
    BY DEF Earlier
  <2>2. PICK i \in 1..n : list[i] = x
    BY <2>1
  <2>3. i < k
    BY <1>1, <2>1, <2>2
  <2> QED BY <2>2, <2>3
<1> HIDE DEF E
<1>5. f \in Bijection(1..(k - 1), E)
  <2>1. f \in [1..(k - 1) -> E] /\ \A i \in 1..(k - 1) : f[i] = list[i]
    BY <1>3
  <2>2. \A i, j \in 1..(k - 1) : f[i] = f[j] => i = j
    BY <1>2, <1>3, <2>1
  <2>3. \A x \in E : \E i \in 1..(k - 1) : f[i] = x
    BY <1>4, <2>1
  <2> HIDE DEF f
  <2> QED BY <2>1, <2>2, <2>3 DEF Bijection, Injection, Surjection, IsInjective
<1>6. k - 1 \in Nat
  OBVIOUS
<1>7. Cardinality(E) = k - 1
  BY <1>5, <1>6, FS_CountingElements DEF ExistsBijection
<1> QED BY <1>7 DEF E

\* What matched has one order the answer can be in, and every lead is in it once.
LEMMA OneOrder ==
  ASSUME ShortTypes
  PROVE  \E o \in Seq(List!matching) :
           /\ List!Ranked = {o}
           /\ \A x \in List!matching : \E i \in 1..Len(o) : o[i] = x
           /\ \A a, b \in 1..Len(o) : o[a] = o[b] => a = b
           /\ \A a, b \in 1..Len(o) : a < b => ~List!Before(o[b], o[a])
<1> DEFINE S == List!matching  R == Firsts  n == Cardinality(S)
<1>1. /\ IsFiniteSet(S) /\ Orders(R, S) /\ n \in Nat
      /\ \A i, j \in S : <<i, j>> \in R <=> List!Before(i, j)
  BY FirstsOrder, FS_CardinalityType
<1>2. /\ List!Ranked = { s \in List!SetToSeqs(S) : \A a, b \in DOMAIN s : a < b =>
           ~List!Before(s[b], s[a]) }
      /\ List!SetToSeqs(S) = { f \in [1..n -> S] : \A i, j \in 1..n : i # j => f[i] # f[j] }
  <2>1. List!Ranked = { s \in List!SetToSeqs(S) : \A a, b \in DOMAIN s : a < b =>
          ~List!Before(s[b], s[a]) }
    BY Zenon DEF List!Ranked
  <2>2. List!SetToSeqs(S) = { f \in [1..List!Cardinality(S) -> S] : \A i,
          j \in 1..List!Cardinality(S) : i # j => f[i] # f[j] }
    BY Zenon DEF List!SetToSeqs
  <2> QED BY <2>1, <2>2, ListCount
<1> HIDE DEF S, R, n
<1> DEFINE At(k) == CHOOSE x \in S : Cardinality(Earlier(S, R, x)) = k - 1
           o == [k \in 1..n |-> At(k)]
<1>3. \A k \in 1..n : At(k) \in S /\ Cardinality(Earlier(S, R, At(k))) = k - 1
  <2> TAKE k \in 1..n
  <2>1. \E x \in S : Cardinality(Earlier(S, R, x)) = k - 1
    BY <1>1, PlacesAre DEF n
  <2> QED BY <2>1
<1> HIDE DEF At
<1>4. /\ o \in [1..n -> S] /\ DOMAIN o = 1..n
      /\ \A k \in 1..n : o[k] \in S /\ Cardinality(Earlier(S, R, o[k])) = k - 1
  BY <1>3
<1> HIDE DEF o
<1>5. /\ \A x \in S : \E k \in 1..n : o[k] = x
      /\ \A i, j \in 1..n : <<o[i], o[j]>> \in R <=> i < j
  BY <1>1, <1>4, ListedByPlace DEF n
<1>6. \A i, j \in 1..n : o[i] = o[j] => i = j
  BY <1>1, <1>4
<1>7. \A a, b \in 1..n : a < b => ~List!Before(o[b], o[a])
  <2> TAKE a, b \in 1..n
  <2>1. o[a] \in S /\ o[b] \in S
    BY <1>4
  <2>2. a < b => ~(b < a)
    BY <1>1
  <2> QED BY <1>1, <1>5, <2>1, <2>2
<1>8. o \in List!Ranked
  BY <1>2, <1>4, <1>6, <1>7
<1>9. ASSUME NEW s \in List!Ranked PROVE s = o
  <2>1. /\ s \in [1..n -> S] /\ \A i, j \in 1..n : i # j => s[i] # s[j]
        /\ \A a, b \in 1..n : a < b => ~List!Before(s[b], s[a])
    BY <1>2
  <2>2. s \in Surjection(1..n, S)
    <3>1. s \in Injection(1..n, S)
      BY <2>1 DEF Injection, IsInjective
    <3>2. IsFiniteSet(1..n) /\ Cardinality(1..n) = n
      <4>1. n \in Nat
        BY <1>1
      <4>2. IsFiniteSet(1..n) /\ Cardinality(1..n) = IF 1 > n THEN 0 ELSE n - 1 + 1
        BY <4>1, FS_Interval
      <4> QED BY <4>1, <4>2
    <3> QED BY <1>1, <3>1, <3>2, FS_Injection DEF n
  <2>3. \A x \in S : \E i \in 1..n : s[i] = x
    BY <2>2 DEF Surjection
  <2>4. \A a, b \in 1..n : a < b => <<s[a], s[b]>> \in R
    <3> TAKE a, b \in 1..n
    <3> SUFFICES ASSUME a < b PROVE <<s[a], s[b]>> \in R
      OBVIOUS
    <3>1. s[a] \in S /\ s[b] \in S /\ s[a] # s[b] /\ <<s[b], s[a]>> \notin R
      BY <1>1, <2>1
    <3> QED BY <1>1, <3>1 DEF Orders
  <2>5. \A k \in 1..n : Cardinality(Earlier(S, R, s[k])) = k - 1
    BY <1>1, <2>1, <2>3, <2>4, SortedPlaces
  <2>6. \A k \in 1..n : s[k] = o[k]
    <3> TAKE k \in 1..n
    <3>1. PICK i \in 1..n : o[i] = s[k]
      BY <1>5, <2>1
    <3>2. i - 1 = k - 1
      BY <1>4, <2>5, <3>1
    <3> QED BY <1>1, <3>1, <3>2
  <2>7. s \in [1..n -> S] /\ o \in [1..n -> S]
    BY <1>4, <2>1
  <2>8. s = [k \in 1..n |-> s[k]] /\ o = [k \in 1..n |-> o[k]]
    BY <2>7
  <2>9. [k \in 1..n |-> s[k]] = [k \in 1..n |-> o[k]]
    BY Zenon, <2>6
  <2> QED BY Zenon, <2>8, <2>9
<1>10. o \in Seq(S) /\ Len(o) = n
  BY <1>1, <1>4
<1> QED BY <1>5, <1>6, <1>7, <1>8, <1>9, <1>10 DEF S

\* The leads a trial sees are among the first of the order.
FirstOf(o, k) == { o[i] : i \in { j \in DOMAIN o : j <= k } }
\* The inductive invariant: what is shown is the head of the one order, and all of it at the end.
ListInv ==
  /\ ShortTypes
  /\ \A o \in List!Ranked :
       /\ subscribed => /\ shown \in Seq(List!Leads) /\ Len(shown) <= Len(o)
                        /\ \A i \in 1..Len(shown) : shown[i] = o[i]
                        /\ remaining = 0 => Len(shown) = Len(o)
       /\ ~subscribed => given \subseteq FirstOf(o, TRIAL)

\* The invariant holds at first.
LEMMA ShortStart == List!Init => ListInv
<1> SUFFICES ASSUME List!Init PROVE ListInv
  OBVIOUS
<1>1. ShortTypes /\ shown = <<>> /\ remaining = 1 /\ given = {}
  BY DEF List!Init, ShortTypes
<1>2. \A o \in List!Ranked : Len(o) \in Nat
  BY <1>1, OneOrder
<1> QED BY <1>1, <1>2 DEF ListInv, FirstOf

\* The least of two numbers,
LEMMA MinOf ==
  ASSUME NEW a \in Int, NEW b \in Int
  PROVE  List!Min({a, b}) = IF a <= b THEN a ELSE b
<1>1. CASE a <= b
  <2>1. \E x \in {a, b} : \A y \in {a, b} : x <= y
    BY <1>1
  <2> QED BY <1>1, <2>1 DEF List!Min
<1>2. CASE ~(a <= b)
  <2>1. \E x \in {a, b} : \A y \in {a, b} : x <= y
    BY <1>2
  <2> QED BY <1>2, <2>1 DEF List!Min
<1> QED BY <1>1, <1>2

\* and the greatest.
LEMMA MaxOf ==
  ASSUME NEW a \in Int, NEW b \in Int
  PROVE  List!Max({a, b}) = IF a >= b THEN a ELSE b
<1>1. CASE a >= b
  <2>1. \E x \in {a, b} : \A y \in {a, b} : x >= y
    BY <1>1
  <2> QED BY <1>1, <2>1 DEF List!Max
<1>2. CASE ~(a >= b)
  <2>1. \E x \in {a, b} : \A y \in {a, b} : x >= y
    BY <1>2
  <2> QED BY <1>2, <2>1 DEF List!Max
<1> QED BY <1>1, <1>2

\* A page of which nothing is shown yet is put below what is.
LEMMA AllFresh ==
  ASSUME NEW S, NEW old, NEW new \in Seq(S), \A i \in 1..Len(new) : new[i] \notin List!ToSet(old)
  PROVE  List!Fresh(old, new) = old \o new
<1> DEFINE m == Len(new)  unseen == { i \in DOMAIN new : new[i] \notin List!ToSet(old) }
<1>1. m \in Nat /\ unseen = 1..m /\ new = [k \in 1..m |-> new[k]]
  OBVIOUS
<1>2. List!Fresh(old, new) = old \o [k \in 1..List!Cardinality(unseen) |-> new[List!Nth(unseen, k)]]
  BY Zenon DEF List!Fresh
<1> HIDE DEF m, unseen
<1>3. \A i \in 0..m : Cardinality(1..i) = i
  <2> TAKE i \in 0..m
  <2>1. i \in Nat
    BY <1>1
  <2>2. Cardinality(1..i) = IF 1 > i THEN 0 ELSE i - 1 + 1
    BY <2>1, FS_Interval
  <2> QED BY <2>1, <2>2
<1>4. \A i \in 1..m : List!Cardinality({ j \in 1..m : j <= i }) = i
  <2> TAKE i \in 1..m
  <2>1. { j \in 1..m : j <= i } = 1..i
    BY <1>1
  <2>2. i \in 0..m
    BY <1>1
  <2> QED BY <1>3, <2>1, <2>2, ListCount
<1>5. \A k \in 1..m : List!Nth(1..m, k) = k
  <2> TAKE k \in 1..m
  <2>1. List!Nth(1..m, k) = CHOOSE i \in 1..m : List!Cardinality({ j \in 1..m : j <= i }) = k
    BY Zenon DEF List!Nth
  <2>2. \E i \in 1..m : List!Cardinality({ j \in 1..m : j <= i }) = k
    BY <1>4
  <2>3. List!Nth(1..m, k) \in 1..m /\ List!Cardinality({ j \in 1..m : j <= List!Nth(1..m, k) }) = k
    BY Zenon, <2>1, <2>2
  <2> QED BY <1>4, <2>3
<1>6. List!Cardinality(unseen) = m
  <2>1. m \in 0..m
    BY <1>1
  <2> QED BY <1>1, <1>3, <2>1, ListCount
<1>7. [k \in 1..List!Cardinality(unseen) |-> new[List!Nth(unseen, k)]] = [k \in 1..m |-> new[k]]
  BY Zenon, <1>1, <1>5, <1>6
<1>8. [k \in 1..List!Cardinality(unseen) |-> new[List!Nth(unseen, k)]] = new
  BY Zenon, <1>1, <1>7
<1> QED BY Zenon, <1>2, <1>8

\* What a page holds.
LEMMA PageIs ==
  ASSUME NEW S, NEW o \in Seq(S), NEW from \in Nat, NEW cap \in Nat, NEW top,
         top = SubSeq(o, from + 1, List!Min({Len(o), from + cap}))
  PROVE  /\ top \in Seq(S) /\ Len(top) <= cap /\ (Len(top) = 0 \/ from + Len(top) <= Len(o))
         /\ \A i \in 1..Len(top) : top[i] = o[from + i] /\ from + i \in 1..Len(o)
<1> DEFINE n == Len(o)  e == List!Min({n, from + cap})
<1>1. n \in Nat /\ e \in Int /\ e <= n /\ e <= from + cap
  BY MinOf
<1> HIDE DEF n, e
<1>2. \A i \in (from + 1)..e : i \in 1..n /\ o[i] \in S
  BY <1>1 DEF n
<1>3. /\ SubSeq(o, from + 1, e) \in Seq(S)
      /\ Len(SubSeq(o, from + 1, e)) = IF from + 1 <= e THEN e - (from + 1) + 1 ELSE 0
      /\ \A i \in 1..(e - (from + 1) + 1) : SubSeq(o, from + 1, e)[i] = o[(from + 1) + i - 1]
  BY <1>1, <1>2, SubSeqProperties
<1>4. top = SubSeq(o, from + 1, e)
  BY DEF n, e
<1>5. /\ top \in Seq(S) /\ Len(top) \in Nat
      /\ Len(top) = IF from + 1 <= e THEN e - (from + 1) + 1 ELSE 0
      /\ \A i \in 1..(e - (from + 1) + 1) : top[i] = o[(from + 1) + i - 1]
  <2>1. top \in Seq(S)
    BY Zenon, <1>3, <1>4
  <2>2. Len(top) = IF from + 1 <= e THEN e - (from + 1) + 1 ELSE 0
    BY Zenon, <1>3, <1>4
  <2>3. \A i \in 1..(e - (from + 1) + 1) : top[i] = o[(from + 1) + i - 1]
    BY Zenon, <1>3, <1>4
  <2>4. Len(top) \in Nat
    BY <2>1
  <2> QED BY Zenon, <2>1, <2>2, <2>3, <2>4
<1> DEFINE t == Len(top)
<1>6. e \in Int /\ n \in Nat /\ e <= n /\ e <= from + cap /\ t \in Nat /\ t = IF from + 1 <= e
        THEN e - (from + 1) + 1 ELSE 0
  BY <1>1, <1>5
<1> HIDE DEF t
<1>7. t = (IF from + 1 <= e THEN e - from ELSE 0) /\ t <= cap /\ (t = 0 \/ from + t <= n)
  BY <1>6
<1>8. \A i \in 1..t : i \in 1..(e - (from + 1) + 1) /\ (from + 1) + i - 1 = from + i
        /\ from + i \in 1..n
  BY <1>6
<1>9. \A i \in 1..t : top[i] = o[from + i] /\ from + i \in 1..n
  <2> TAKE i \in 1..t
  <2> QED BY <1>5, <1>8
<1> QED BY <1>5, <1>7, <1>9 DEF n, t

\* Asking for a page changes nothing of what was asked for.
LEMMA OrderStays ==
  ASSUME UNCHANGED <<found, ask>>
  PROVE  List!Ranked' = List!Ranked
<1>1. \A l : List!bucketOf(l)' = List!bucketOf(l)
  BY DEF List!bucketOf, List!fitBucket, List!met, List!failed, List!Count
<1>2. \A l : List!Rank(l)' = List!Rank(l)
  BY <1>1 DEF List!Rank
<1>3. \A i, j : List!Before(i, j)' = List!Before(i, j)
  BY <1>2 DEF List!Before, List!Above, List!Tied
<1>4. List!matching' = List!matching
  BY DEF List!matching, List!actionable, List!isExcluded, List!ProblemFound, List!ClearsBar,
       List!WebPresence
<1> QED BY <1>3, <1>4 DEF List!Ranked

\* A page is asked for, for the first or another time.
LEMMA ShortPageKeeps ==
  ASSUME ListInv, NEW offset \in 0..N, List!Page(offset)
  PROVE  ListInv'
<1>1. UNCHANGED <<found, ask, subscribed>>
  BY DEF List!Page
<1>2. ShortTypes /\ ShortTypes' /\ List!Ranked' = List!Ranked
  BY <1>1, OrderStays DEF ListInv, ShortTypes
<1>3. PICK o \in Seq(List!matching) :
        /\ List!Ranked = {o}
        /\ \A a, b \in 1..Len(o) : o[a] = o[b] => a = b
  BY <1>2, OneOrder
<1>4. List!matching \subseteq List!Leads
  BY <1>2, FirstsOrder
<1> DEFINE from == List!From(offset)  cap == List!Cap
           top == SubSeq(o, from + 1, List!Min({Len(o), from + cap}))
<1>5. /\ given' = given \cup List!ToSet(top)
      /\ IF offset = Len(shown) /\ remaining > 0
         THEN /\ shown' = List!Fresh(shown, top)
              /\ remaining' = IF subscribed THEN List!Max({0, Len(o) - (from + Len(top))}) ELSE 0
         ELSE UNCHANGED <<shown, remaining>>
  BY <1>3 DEF List!Page
<1>6. from \in Nat /\ cap \in Nat /\ (subscribed => from = offset) /\ (~subscribed =>
        from = 0 /\ cap = TRIAL)
  BY ShortlistAssumption DEF List!From, List!Cap
<1> HIDE DEF from, cap
<1>7. /\ top \in Seq(List!matching) /\ Len(top) <= cap /\ (Len(top) = 0 \/ from + Len(top) <= Len(o))
      /\ \A i \in 1..Len(top) : top[i] = o[from + i] /\ from + i \in 1..Len(o)
  BY <1>6, PageIs
<1> HIDE DEF top
<1>8. ~subscribed => given \subseteq FirstOf(o, TRIAL)
  BY <1>3 DEF ListInv
<1>9. ASSUME ~subscribed PROVE given' \subseteq FirstOf(o, TRIAL)
  <2>1. \A i \in DOMAIN top : top[i] \in FirstOf(o, TRIAL)
    <3> TAKE i \in DOMAIN top
    <3>1. i \in 1..Len(top) /\ from = 0 /\ Len(top) <= TRIAL /\ TRIAL \in Nat
      BY <1>6, <1>7, <1>9, ShortlistAssumption
    <3>2. top[i] = o[i] /\ i \in DOMAIN o /\ i <= TRIAL
      BY <1>7, <3>1
    <3> QED BY <3>2 DEF FirstOf
  <2>2. List!ToSet(top) \subseteq FirstOf(o, TRIAL)
    BY <2>1 DEF List!ToSet
  <2> QED BY <1>5, <1>8, <1>9, <2>2
<1>10. ASSUME subscribed
       PROVE  /\ shown' \in Seq(List!Leads) /\ Len(shown') <= Len(o)
              /\ \A i \in 1..Len(shown') : shown'[i] = o[i]
              /\ remaining' = 0 => Len(shown') = Len(o)
  <2>1. /\ shown \in Seq(List!Leads) /\ Len(shown) <= Len(o) /\ \A i \in 1..Len(shown) : shown[i] = o[i]
        /\ remaining = 0 => Len(shown) = Len(o)
    BY <1>3, <1>10 DEF ListInv
  <2>2. CASE offset = Len(shown) /\ remaining > 0
    <3>1. shown' = List!Fresh(shown, top) /\ remaining' = List!Max({0, Len(o) - (from + Len(top))})
            /\ from = Len(shown)
      BY <1>5, <1>6, <1>10, <2>2
    <3>2. \A i \in 1..Len(top) : top[i] \notin List!ToSet(shown)
      <4> SUFFICES ASSUME NEW i \in 1..Len(top), top[i] \in List!ToSet(shown) PROVE FALSE
        OBVIOUS
      <4>1. PICK j \in 1..Len(shown) : shown[j] = top[i]
        BY <2>1 DEF List!ToSet
      <4>2. j \in 1..Len(o) /\ from + i \in 1..Len(o) /\ o[j] = o[from + i]
        BY <1>7, <2>1, <4>1
      <4>3. j = from + i
        BY <1>3, <4>2
      <4>4. Len(shown) \in Nat /\ Len(top) \in Nat
        BY <1>7, <2>1
      <4> QED BY <3>1, <4>3, <4>4
    <3>3. top \in Seq(List!Leads)
      BY <1>4, <1>7
    <3>4. shown' = shown \o top
      BY <3>1, <3>2, <3>3, AllFresh
    <3> DEFINE s == Len(shown)  t == Len(top)  n == Len(o)
    <3>5. s \in Nat /\ t \in Nat /\ n \in Nat /\ s <= n /\ (t = 0 \/ s + t <= n)
      BY <1>3, <1>7, <2>1, <3>1, <3>3
    <3>6. /\ shown' \in Seq(List!Leads) /\ Len(shown') = s + t
          /\ \A i \in 1..(s + t) : shown'[i] = IF i <= s THEN shown[i] ELSE top[i - s]
      BY <2>1, <3>3, <3>4, ConcatProperties
    <3>7. \A i \in 1..(s + t) : shown'[i] = o[i]
      <4> TAKE i \in 1..(s + t)
      <4>1. CASE i <= s
        BY <2>1, <3>5, <3>6, <4>1
      <4>2. CASE ~(i <= s)
        <5>1. i - s \in 1..t /\ s + (i - s) = i
          BY <3>5, <4>2
        <5> QED BY <1>7, <3>1, <3>6, <4>2, <5>1
      <4> QED BY <4>1, <4>2
    <3>8. remaining' = 0 => s + t = n
      <4>1. remaining' = IF 0 >= n - (s + t) THEN 0 ELSE n - (s + t)
        BY <3>1, <3>5, MaxOf
      <4> QED BY <3>5, <4>1
    <3> QED BY <3>5, <3>6, <3>7, <3>8
  <2>3. CASE ~(offset = Len(shown) /\ remaining > 0)
    BY <1>5, <2>1, <2>3
  <2> QED BY <2>2, <2>3
<1>11. List!Ranked' = {o} /\ subscribed' = subscribed
  BY <1>1, <1>2, <1>3
<1> QED BY <1>2, <1>9, <1>10, <1>11 DEF ListInv

\* Every step keeps the invariant.
LEMMA ShortKept == ListInv /\ [List!Next]_(List!vars) => ListInv'
<1> SUFFICES ASSUME ListInv, [List!Next]_(List!vars) PROVE ListInv'
  OBVIOUS
<1>1. CASE UNCHANGED List!vars
  <2>1. UNCHANGED <<found, ask, subscribed, shown, remaining, given, pages>>
    BY <1>1 DEF List!vars
  <2>2. List!Ranked' = List!Ranked
    BY <2>1, OrderStays
  <2> QED BY <2>1, <2>2 DEF ListInv, ShortTypes
<1>2. CASE List!Next
  <2>1. PICK offset \in 0..N : List!Page(offset)
    BY <1>2 DEF List!Next
  <2> QED BY <2>1, ShortPageKeeps
<1> QED BY <1>1, <1>2

\* The part runs in behaviours of its own.
ShortHold == scene = "shortlist" => ListInv

\* So the invariant is one of the whole.
LEMMA ShortAlways == SceneSpec => []ShortHold
<1>1. SceneInit => ShortHold
  <2> SUFFICES ASSUME SceneInit, scene = "shortlist" PROVE ListInv
    BY DEF ShortHold
  <2>1. List!Init
    BY DEF SceneInit
  <2> QED BY <2>1, ShortStart
<1>2. ShortHold /\ [SceneNext]_sceneVars => ShortHold'
  <2> SUFFICES ASSUME ShortHold, [SceneNext]_sceneVars, scene' = "shortlist" PROVE ListInv'
    BY DEF ShortHold
  <2>1. CASE UNCHANGED sceneVars
    <3>1. UNCHANGED List!vars /\ scene = "shortlist"
      BY <2>1 DEF sceneVars, ShortlistOnly, List!vars
    <3> QED BY <3>1, ShortKept DEF ShortHold
  <2>2. CASE SceneNext
    <3>1. scene = "shortlist" /\ List!Next
      BY <2>2 DEF SceneNext
    <3> QED BY <3>1, ShortKept DEF ShortHold
  <2> QED BY <2>1, <2>2
<1> QED BY <1>1, <1>2, PTL DEF SceneSpec

\* When a subscriber has no page left, what they were shown is what matched, each lead after none
\* it outranks; of what is unknown nothing is held against a lead; and a trial never sees more
\* than its share, for any leads, profiles and sizes of a page (lib/icp-match.ts,
\* api/leads/route.ts).
THEOREM PagesAreTheSearch == SceneSpec => []PagesCoverAll
<1>1. ShortHold => PagesCoverAll
  <2> SUFFICES ASSUME ListInv PROVE List!PagesCoverAll /\ List!UnknownStays /\ List!TrialSeesOnePage
    BY DEF ShortHold, PagesCoverAll
  <2>1. PICK o \in Seq(List!matching) :
          /\ List!Ranked = {o}
          /\ \A x \in List!matching : \E i \in 1..Len(o) : o[i] = x
          /\ \A a, b \in 1..Len(o) : a < b => ~List!Before(o[b], o[a])
    BY OneOrder DEF ListInv
  <2>2. List!PagesCoverAll
    <3> SUFFICES ASSUME subscribed, remaining = 0
                 PROVE  List!ToSet(shown) = List!matching /\ \A a, b \in DOMAIN shown : a < b =>
                      ~List!Above(shown[b], shown[a])
      BY DEF List!PagesCoverAll
    <3>1. shown \in Seq(List!Leads) /\ Len(shown) = Len(o) /\ \A i \in 1..Len(o) : shown[i] = o[i]
      BY <2>1 DEF ListInv
    <3>2. DOMAIN shown = 1..Len(o)
      BY <3>1
    <3>3. List!ToSet(shown) = List!matching
      BY <2>1, <3>1, <3>2 DEF List!ToSet
    <3>4. \A a, b \in DOMAIN shown : a < b => ~List!Above(shown[b], shown[a])
      BY <2>1, <3>1, <3>2 DEF List!Before
    <3> QED BY <3>3, <3>4
  <2>3. List!UnknownStays
    <3> SUFFICES ASSUME ask.factors = {}, ask.minReviews = 0, ask.web = "any",
            NEW i \in List!actionable,
                        \A c \in ask.excludes : List!checkCriterion(c, found[i]) = "unknown"
                 PROVE  i \in List!matching
      BY DEF List!UnknownStays
    <3>1. i \in List!Leads
      BY DEF List!actionable
    <3>2. ~List!isExcluded(found[i])
      BY DEF List!isExcluded
    <3>3. List!ProblemFound(found[i]) /\ List!ClearsBar(found[i])
      BY DEF List!ProblemFound, List!ClearsBar
    <3>4. List!WebPresence(found[i])
      BY DEF List!WebPresence
    <3> QED BY <3>2, <3>3, <3>4 DEF List!matching
  <2>4. List!TrialSeesOnePage
    <3> SUFFICES ASSUME ~subscribed PROVE Cardinality(given) <= TRIAL
      BY ListCount DEF List!TrialSeesOnePage
    <3>1. given \subseteq FirstOf(o, TRIAL)
      BY <2>1 DEF ListInv
    <3> DEFINE D == { j \in DOMAIN o : j <= TRIAL }  f == [j \in D |-> o[j]]
    <3>2. D \subseteq 1..TRIAL
      BY ShortlistAssumption
    <3>3. IsFiniteSet(1..TRIAL) /\ Cardinality(1..TRIAL) = TRIAL
      <4>1. TRIAL \in Nat
        BY ShortlistAssumption
      <4>2. IsFiniteSet(1..TRIAL) /\ Cardinality(1..TRIAL) = IF 1 > TRIAL THEN 0 ELSE TRIAL - 1 + 1
        BY <4>1, FS_Interval
      <4> QED BY <4>1, <4>2
    <3>4. IsFiniteSet(D) /\ Cardinality(D) <= TRIAL
      BY <3>2, <3>3, FS_Subset
    <3>5. FirstOf(o, TRIAL) = { o[j] : j \in D }
      BY DEF FirstOf
    <3> HIDE DEF D
    <3>6. f \in Surjection(D, { o[j] : j \in D })
      BY DEF Surjection
    <3>7. IsFiniteSet(FirstOf(o, TRIAL)) /\ Cardinality(FirstOf(o, TRIAL)) <= Cardinality(D)
      BY <3>4, <3>5, <3>6, FS_Surjection
    <3>8. Cardinality(given) <= Cardinality(FirstOf(o, TRIAL)) /\ IsFiniteSet(given)
      BY <3>1, <3>7, FS_Subset
    <3>9. Cardinality(given) \in Nat /\ Cardinality(FirstOf(o, TRIAL)) \in Nat /\ Cardinality(D) \in Nat
            /\ TRIAL \in Nat
      BY <3>4, <3>7, <3>8, FS_CardinalityType, ShortlistAssumption
    <3> QED BY <3>4, <3>7, <3>8, <3>9
  <2> QED BY <2>2, <2>3, <2>4
<1> QED BY <1>1, ShortAlways, PTL

-----------------------------------------------------------------------------
(* Grades: a grade never counts what could not be attained, a lead is not  *)
(* the worse for having changed, and the top can be reached. Sums of the   *)
(* points of factors, then the share that is the grade.                    *)

\* The catalog of factors,
Factors == {"no_website", "site_down", "social_only", "no_ssl", "not_mobile", "outdated", "hiring",
     "just_broke",
  "recently_changed", "slow_site", "thin_content", "no_schema", "no_analytics", "no_reviews",
       "low_rating", "few_reviews",
  "uses_switchable_vendor", "high_volume", "no_online_ordering", "no_booking", "no_hours", "phone",
       "email"}

\* What a factor adds to a sum.
PointsIn(keys, key) == IF key \in keys THEN Grading!Points(key) ELSE 0

\* and the points of each,
LEMMA PointsAre ==
  /\ Grading!Points("no_website") = 55 /\ Grading!Points("site_down") = 50
       /\ Grading!Points("social_only") = 45
  /\ Grading!Points("no_ssl") = 8 /\ Grading!Points("not_mobile") = 10
       /\ Grading!Points("outdated") = 10
  /\ Grading!Points("hiring") = 24 /\ Grading!Points("just_broke") = 30
       /\ Grading!Points("recently_changed") = 16
  /\ Grading!Points("slow_site") = 18 /\ Grading!Points("thin_content") = 12
       /\ Grading!Points("no_schema") = 8
  /\ Grading!Points("no_analytics") = 8 /\ Grading!Points("no_reviews") = 16
       /\ Grading!Points("low_rating") = 14
  /\ Grading!Points("few_reviews") = 9 /\ Grading!Points("uses_switchable_vendor") = 40
  /\ Grading!Points("high_volume") = 22 /\ Grading!Points("no_online_ordering") = 18
  /\ Grading!Points("no_booking") = 10 /\ Grading!Points("no_hours") = 6
  /\ Grading!Points("phone") = 18 /\ Grading!Points("email") = 12
BY DEF Grading!Points

\* which are numbers.
LEMMA PointsNat == \A key \in Factors : Grading!Points(key) \in Nat
BY PointsAre DEF Factors

\* The sum, a few terms at a time.
WebsiteSum(keys) == PointsIn(keys, "no_website") + PointsIn(keys, "site_down") + PointsIn(keys,
     "social_only") + PointsIn(keys, "no_ssl") + PointsIn(keys, "not_mobile") + PointsIn(keys,
      "outdated")
TimelySum(keys) == WebsiteSum(keys) + PointsIn(keys, "hiring") + PointsIn(keys,
     "just_broke") + PointsIn(keys, "recently_changed") + PointsIn(keys, "slow_site") + PointsIn(keys,
      "thin_content") + PointsIn(keys, "no_schema")
StandingSum(keys) == TimelySum(keys) + PointsIn(keys, "no_analytics") + PointsIn(keys,
     "no_reviews") + PointsIn(keys, "low_rating") + PointsIn(keys, "few_reviews") + PointsIn(keys,
      "uses_switchable_vendor") + PointsIn(keys, "high_volume")
WholeSum(keys) == StandingSum(keys) + PointsIn(keys, "no_online_ordering") + PointsIn(keys,
     "no_booking") + PointsIn(keys, "no_hours") + PointsIn(keys, "phone") + PointsIn(keys, "email")

\* The points of some factors together are that sum.
LEMMA TotalIs == \A keys : Grading!Total(keys) = WholeSum(keys)
BY Zenon DEF Grading!Total, PointsIn, WebsiteSum, TimelySum, StandingSum, WholeSum

\* Its terms are numbers,
LEMMA PointsInNat == \A keys : \A key \in Factors : PointsIn(keys, key) \in Nat
BY PointsNat DEF PointsIn

\* and so is it;
LEMMA TotalNat == \A keys : Grading!Total(keys) \in Nat
<1> TAKE keys
<1>1. \A key \in Factors : PointsIn(keys, key) \in Nat
  BY PointsInNat
<1>2. WebsiteSum(keys) \in Nat
  <2>1. PointsIn(keys, "no_website") \in Nat /\ PointsIn(keys, "site_down") \in Nat
          /\ PointsIn(keys, "social_only") \in Nat /\ PointsIn(keys, "no_ssl") \in Nat
               /\ PointsIn(keys, "not_mobile") \in Nat /\ PointsIn(keys, "outdated") \in Nat
    BY <1>1 DEF Factors
  <2> QED BY <2>1 DEF WebsiteSum
<1>3. TimelySum(keys) \in Nat
  <2>1. PointsIn(keys, "hiring") \in Nat /\ PointsIn(keys, "just_broke") \in Nat
          /\ PointsIn(keys, "recently_changed") \in Nat /\ PointsIn(keys, "slow_site") \in Nat
               /\ PointsIn(keys, "thin_content") \in Nat /\ PointsIn(keys, "no_schema") \in Nat
    BY <1>1 DEF Factors
  <2> QED BY <2>1, <1>2 DEF TimelySum
<1>4. StandingSum(keys) \in Nat
  <2>1. PointsIn(keys, "no_analytics") \in Nat /\ PointsIn(keys, "no_reviews") \in Nat
          /\ PointsIn(keys, "low_rating") \in Nat /\ PointsIn(keys, "few_reviews") \in Nat
               /\ PointsIn(keys, "uses_switchable_vendor") \in Nat
                    /\ PointsIn(keys, "high_volume") \in Nat
    BY <1>1 DEF Factors
  <2> QED BY <2>1, <1>3 DEF StandingSum
<1>5. WholeSum(keys) \in Nat
  <2>1. PointsIn(keys, "no_online_ordering") \in Nat /\ PointsIn(keys, "no_booking") \in Nat
          /\ PointsIn(keys, "no_hours") \in Nat /\ PointsIn(keys, "phone") \in Nat
               /\ PointsIn(keys, "email") \in Nat
    BY <1>1 DEF Factors
  <2> QED BY <2>1, <1>4 DEF WholeSum
<1> QED BY <1>5, TotalIs

\* and what is of two sets is the sum of both.
LEMMA TotalAdds ==
  ASSUME NEW S, NEW T, S \cap T = {}
  PROVE  Grading!Total(S \cup T) = Grading!Total(S) + Grading!Total(T)
<1> DEFINE U == S \cup T
<1>1. \A key \in Factors : PointsIn(U, key) = PointsIn(S, key) + PointsIn(T, key)
        /\ PointsIn(S, key) \in Nat /\ PointsIn(T, key) \in Nat
  <2> TAKE key \in Factors
  <2>1. Grading!Points(key) \in Nat /\ ~(key \in S /\ key \in T)
    BY PointsNat
  <2> QED BY <2>1 DEF PointsIn
<1> HIDE DEF U
<1>2. WebsiteSum(U) = WebsiteSum(S) + WebsiteSum(T) /\ WebsiteSum(S) \in Nat /\ WebsiteSum(T) \in Nat
  <2>1. /\ PointsIn(U, "no_website") = PointsIn(S, "no_website") + PointsIn(T, "no_website")
             /\ PointsIn(S, "no_website") \in Nat /\ PointsIn(T, "no_website") \in Nat
        /\ PointsIn(U, "site_down") = PointsIn(S, "site_down") + PointsIn(T, "site_down")
             /\ PointsIn(S, "site_down") \in Nat /\ PointsIn(T, "site_down") \in Nat
        /\ PointsIn(U, "social_only") = PointsIn(S, "social_only") + PointsIn(T, "social_only")
             /\ PointsIn(S, "social_only") \in Nat /\ PointsIn(T, "social_only") \in Nat
        /\ PointsIn(U, "no_ssl") = PointsIn(S, "no_ssl") + PointsIn(T, "no_ssl")
             /\ PointsIn(S, "no_ssl") \in Nat /\ PointsIn(T, "no_ssl") \in Nat
        /\ PointsIn(U, "not_mobile") = PointsIn(S, "not_mobile") + PointsIn(T, "not_mobile")
             /\ PointsIn(S, "not_mobile") \in Nat /\ PointsIn(T, "not_mobile") \in Nat
        /\ PointsIn(U, "outdated") = PointsIn(S, "outdated") + PointsIn(T, "outdated")
             /\ PointsIn(S, "outdated") \in Nat /\ PointsIn(T, "outdated") \in Nat
    BY <1>1 DEF Factors
  <2> QED BY <2>1 DEF WebsiteSum
<1>3. TimelySum(U) = TimelySum(S) + TimelySum(T) /\ TimelySum(S) \in Nat /\ TimelySum(T) \in Nat
  <2>1. /\ PointsIn(U, "hiring") = PointsIn(S, "hiring") + PointsIn(T, "hiring")
             /\ PointsIn(S, "hiring") \in Nat /\ PointsIn(T, "hiring") \in Nat
        /\ PointsIn(U, "just_broke") = PointsIn(S, "just_broke") + PointsIn(T, "just_broke")
             /\ PointsIn(S, "just_broke") \in Nat /\ PointsIn(T, "just_broke") \in Nat
        /\ PointsIn(U, "recently_changed") = PointsIn(S, "recently_changed") + PointsIn(T,
             "recently_changed") /\ PointsIn(S, "recently_changed") \in Nat
              /\ PointsIn(T, "recently_changed") \in Nat
        /\ PointsIn(U, "slow_site") = PointsIn(S, "slow_site") + PointsIn(T, "slow_site")
             /\ PointsIn(S, "slow_site") \in Nat /\ PointsIn(T, "slow_site") \in Nat
        /\ PointsIn(U, "thin_content") = PointsIn(S, "thin_content") + PointsIn(T, "thin_content")
             /\ PointsIn(S, "thin_content") \in Nat /\ PointsIn(T, "thin_content") \in Nat
        /\ PointsIn(U, "no_schema") = PointsIn(S, "no_schema") + PointsIn(T, "no_schema")
             /\ PointsIn(S, "no_schema") \in Nat /\ PointsIn(T, "no_schema") \in Nat
    BY <1>1 DEF Factors
  <2> QED BY <2>1, <1>2 DEF TimelySum
<1>4. StandingSum(U) = StandingSum(S) + StandingSum(T) /\ StandingSum(S) \in Nat
        /\ StandingSum(T) \in Nat
  <2>1. /\ PointsIn(U, "no_analytics") = PointsIn(S, "no_analytics") + PointsIn(T, "no_analytics")
             /\ PointsIn(S, "no_analytics") \in Nat /\ PointsIn(T, "no_analytics") \in Nat
        /\ PointsIn(U, "no_reviews") = PointsIn(S, "no_reviews") + PointsIn(T, "no_reviews")
             /\ PointsIn(S, "no_reviews") \in Nat /\ PointsIn(T, "no_reviews") \in Nat
        /\ PointsIn(U, "low_rating") = PointsIn(S, "low_rating") + PointsIn(T, "low_rating")
             /\ PointsIn(S, "low_rating") \in Nat /\ PointsIn(T, "low_rating") \in Nat
        /\ PointsIn(U, "few_reviews") = PointsIn(S, "few_reviews") + PointsIn(T, "few_reviews")
             /\ PointsIn(S, "few_reviews") \in Nat /\ PointsIn(T, "few_reviews") \in Nat
        /\ PointsIn(U, "uses_switchable_vendor") = PointsIn(S, "uses_switchable_vendor") + PointsIn(T,
             "uses_switchable_vendor") /\ PointsIn(S, "uses_switchable_vendor") \in Nat
              /\ PointsIn(T, "uses_switchable_vendor") \in Nat
        /\ PointsIn(U, "high_volume") = PointsIn(S, "high_volume") + PointsIn(T, "high_volume")
             /\ PointsIn(S, "high_volume") \in Nat /\ PointsIn(T, "high_volume") \in Nat
    BY <1>1 DEF Factors
  <2> QED BY <2>1, <1>3 DEF StandingSum
<1>5. WholeSum(U) = WholeSum(S) + WholeSum(T) /\ WholeSum(S) \in Nat /\ WholeSum(T) \in Nat
  <2>1. /\ PointsIn(U, "no_online_ordering") = PointsIn(S, "no_online_ordering") + PointsIn(T,
             "no_online_ordering") /\ PointsIn(S, "no_online_ordering") \in Nat
              /\ PointsIn(T, "no_online_ordering") \in Nat
        /\ PointsIn(U, "no_booking") = PointsIn(S, "no_booking") + PointsIn(T, "no_booking")
             /\ PointsIn(S, "no_booking") \in Nat /\ PointsIn(T, "no_booking") \in Nat
        /\ PointsIn(U, "no_hours") = PointsIn(S, "no_hours") + PointsIn(T, "no_hours")
             /\ PointsIn(S, "no_hours") \in Nat /\ PointsIn(T, "no_hours") \in Nat
        /\ PointsIn(U, "phone") = PointsIn(S, "phone") + PointsIn(T, "phone")
             /\ PointsIn(S, "phone") \in Nat /\ PointsIn(T, "phone") \in Nat
        /\ PointsIn(U, "email") = PointsIn(S, "email") + PointsIn(T, "email")
             /\ PointsIn(S, "email") \in Nat /\ PointsIn(T, "email") \in Nat
    BY <1>1 DEF Factors
  <2> QED BY <2>1, <1>4 DEF WholeSum
<1> QED BY <1>5, TotalIs DEF U

\* Type invariant, and all the proof needs of a state: a lead has its fields, and its buyer a playbook.
GradeTypes == DOMAIN lead = DOMAIN Grading!Listing /\ playbook \in DOMAIN Grading!PLAYBOOKS

\* Every playbook counts both ways to reach a lead, and all of its reputation or nothing.
LEMMA BooksAre ==
  ASSUME GradeTypes
  PROVE  /\ {"phone", "email"} \subseteq Grading!allowed
         /\ \/ {"no_reviews", "low_rating", "few_reviews"} \subseteq Grading!allowed
            \/ {"no_reviews", "low_rating", "few_reviews"} \cap Grading!allowed = {}
<1>1. playbook \in {"web_design", "payments_pos", "marketing_seo", "booking_software", "general_smb"}
  BY DEF GradeTypes, Grading!PLAYBOOKS
<1>2. CASE playbook = "web_design"
  BY <1>2 DEF Grading!allowed, Grading!PLAYBOOKS, Grading!Changing, Grading!Reach, Grading!Website,
       Grading!Presence
<1>3. CASE playbook = "payments_pos"
  BY <1>3 DEF Grading!allowed, Grading!PLAYBOOKS, Grading!Changing, Grading!Reach
<1>4. CASE playbook = "marketing_seo"
  BY <1>4 DEF Grading!allowed, Grading!PLAYBOOKS, Grading!Changing, Grading!Reach, Grading!Reputation
<1>5. CASE playbook = "booking_software"
  BY <1>5 DEF Grading!allowed, Grading!PLAYBOOKS, Grading!Changing, Grading!Reach
<1>6. CASE playbook = "general_smb"
  BY <1>6 DEF Grading!allowed, Grading!PLAYBOOKS, Grading!Changing, Grading!Reach, Grading!Reputation
<1> QED BY <1>1, <1>2, <1>3, <1>4, <1>5, <1>6

\* What each factor says of the lead it fires for.
LEMMA Fires ==
  ASSUME NEW l
  PROVE  /\ "no_website" \in Grading!scoreFactors(l) => l["presence"] = "none"
         /\ "site_down" \in Grading!scoreFactors(l) => l["presence"] = "down"
         /\ "social_only" \in Grading!scoreFactors(l) => l["presence"] = "social"
         /\ "no_ssl" \in Grading!scoreFactors(l) => l["presence"] = "live" /\ l["ssl"] = "fault"
         /\ "not_mobile" \in Grading!scoreFactors(l) => l["presence"] = "live" /\ l["mobile"] = "fault"
         /\ "outdated" \in Grading!scoreFactors(l) => l["presence"] = "live" /\ l["outdated"] = "fault"
         /\ "hiring" \in Grading!scoreFactors(l) => l["hiring"] = "fault"
         /\ "slow_site" \in Grading!scoreFactors(l) => l["speed"] = "fault"
         /\ "thin_content" \in Grading!scoreFactors(l) => l["content"] = "fault"
         /\ "no_schema" \in Grading!scoreFactors(l) => l["schema"] = "fault"
         /\ "no_analytics" \in Grading!scoreFactors(l) => l["analytics"] = "fault"
         /\ "no_reviews" \in Grading!scoreFactors(l) => l["reviews"] = "none"
         /\ "low_rating" \in Grading!scoreFactors(l) => l["reviews"] \in {"fewLow", "someLow",
              "busyLow"}
         /\ "few_reviews" \in Grading!scoreFactors(l) => l["reviews"] = "few"
         /\ "uses_switchable_vendor" \in Grading!scoreFactors(l) => l["vendors"] = "switchable"
         /\ "high_volume" \in Grading!scoreFactors(l) => l["reviews"] \in {"busy", "busyLow"}
         /\ "no_online_ordering" \in Grading!scoreFactors(l) => l["booking"] = "fault"
         /\ "no_booking" \in Grading!scoreFactors(l) => l["booking"] = "fault"
         /\ "no_hours" \in Grading!scoreFactors(l) => l["hours"] = "fault"
         /\ \A key \in {"just_broke", "recently_changed"} : key \in Grading!scoreFactors(l) =>
              key \in Grading!changeFactorKey(l)
         /\ Grading!scoreFactors(l) \subseteq Grading!allowed
<1>1. "no_website" \in Grading!scoreFactors(l) => l["presence"] = "none"
  BY DEF Grading!scoreFactors, Grading!PresenceFactors, Grading!ReputationFactors,
       Grading!changeFactorKey, Grading!When, Grading!Fault
<1>2. "site_down" \in Grading!scoreFactors(l) => l["presence"] = "down"
  BY DEF Grading!scoreFactors, Grading!PresenceFactors, Grading!ReputationFactors,
       Grading!changeFactorKey, Grading!When, Grading!Fault
<1>3. "social_only" \in Grading!scoreFactors(l) => l["presence"] = "social"
  BY DEF Grading!scoreFactors, Grading!PresenceFactors, Grading!ReputationFactors,
       Grading!changeFactorKey, Grading!When, Grading!Fault
<1>4. "no_ssl" \in Grading!scoreFactors(l) => l["presence"] = "live" /\ l["ssl"] = "fault"
  BY DEF Grading!scoreFactors, Grading!PresenceFactors, Grading!ReputationFactors,
       Grading!changeFactorKey, Grading!When, Grading!Fault
<1>5. "not_mobile" \in Grading!scoreFactors(l) => l["presence"] = "live" /\ l["mobile"] = "fault"
  BY DEF Grading!scoreFactors, Grading!PresenceFactors, Grading!ReputationFactors,
       Grading!changeFactorKey, Grading!When, Grading!Fault
<1>6. "outdated" \in Grading!scoreFactors(l) => l["presence"] = "live" /\ l["outdated"] = "fault"
  BY DEF Grading!scoreFactors, Grading!PresenceFactors, Grading!ReputationFactors,
       Grading!changeFactorKey, Grading!When, Grading!Fault
<1>7. "hiring" \in Grading!scoreFactors(l) => l["hiring"] = "fault"
  BY DEF Grading!scoreFactors, Grading!PresenceFactors, Grading!ReputationFactors,
       Grading!changeFactorKey, Grading!When, Grading!Fault
<1>8. "slow_site" \in Grading!scoreFactors(l) => l["speed"] = "fault"
  BY DEF Grading!scoreFactors, Grading!PresenceFactors, Grading!ReputationFactors,
       Grading!changeFactorKey, Grading!When, Grading!Fault
<1>9. "thin_content" \in Grading!scoreFactors(l) => l["content"] = "fault"
  BY DEF Grading!scoreFactors, Grading!PresenceFactors, Grading!ReputationFactors,
       Grading!changeFactorKey, Grading!When, Grading!Fault
<1>10. "no_schema" \in Grading!scoreFactors(l) => l["schema"] = "fault"
  BY DEF Grading!scoreFactors, Grading!PresenceFactors, Grading!ReputationFactors,
       Grading!changeFactorKey, Grading!When, Grading!Fault
<1>11. "no_analytics" \in Grading!scoreFactors(l) => l["analytics"] = "fault"
  BY DEF Grading!scoreFactors, Grading!PresenceFactors, Grading!ReputationFactors,
       Grading!changeFactorKey, Grading!When, Grading!Fault
<1>12. "no_reviews" \in Grading!scoreFactors(l) => l["reviews"] = "none"
  BY DEF Grading!scoreFactors, Grading!PresenceFactors, Grading!ReputationFactors,
       Grading!changeFactorKey, Grading!When, Grading!Fault
<1>13. "low_rating" \in Grading!scoreFactors(l) => l["reviews"] \in {"fewLow", "someLow", "busyLow"}
  BY DEF Grading!scoreFactors, Grading!PresenceFactors, Grading!ReputationFactors,
       Grading!changeFactorKey, Grading!When, Grading!Fault
<1>14. "few_reviews" \in Grading!scoreFactors(l) => l["reviews"] = "few"
  BY DEF Grading!scoreFactors, Grading!PresenceFactors, Grading!ReputationFactors,
       Grading!changeFactorKey, Grading!When, Grading!Fault
<1>15. "uses_switchable_vendor" \in Grading!scoreFactors(l) => l["vendors"] = "switchable"
  BY DEF Grading!scoreFactors, Grading!PresenceFactors, Grading!ReputationFactors,
       Grading!changeFactorKey, Grading!When, Grading!Fault
<1>16. "high_volume" \in Grading!scoreFactors(l) => l["reviews"] \in {"busy", "busyLow"}
  BY DEF Grading!scoreFactors, Grading!PresenceFactors, Grading!ReputationFactors,
       Grading!changeFactorKey, Grading!When, Grading!Fault
<1>17. "no_online_ordering" \in Grading!scoreFactors(l) => l["booking"] = "fault"
  BY DEF Grading!scoreFactors, Grading!PresenceFactors, Grading!ReputationFactors,
       Grading!changeFactorKey, Grading!When, Grading!Fault
<1>18. "no_booking" \in Grading!scoreFactors(l) => l["booking"] = "fault"
  BY DEF Grading!scoreFactors, Grading!PresenceFactors, Grading!ReputationFactors,
       Grading!changeFactorKey, Grading!When, Grading!Fault
<1>19. "no_hours" \in Grading!scoreFactors(l) => l["hours"] = "fault"
  BY DEF Grading!scoreFactors, Grading!PresenceFactors, Grading!ReputationFactors,
       Grading!changeFactorKey, Grading!When, Grading!Fault
<1>20. \A key \in {"just_broke", "recently_changed"} : key \in Grading!scoreFactors(l) =>
        key \in Grading!changeFactorKey(l)
  BY DEF Grading!scoreFactors, Grading!PresenceFactors, Grading!ReputationFactors, Grading!When
<1>21. Grading!scoreFactors(l) \subseteq Grading!allowed
  BY DEF Grading!scoreFactors
<1> QED BY <1>1, <1>2, <1>3, <1>4, <1>5, <1>6, <1>7, <1>8, <1>9, <1>10, <1>11, <1>12, <1>13, <1>14,
        <1>15, <1>16, <1>17, <1>18, <1>19, <1>20, <1>21

\* The greatest number of a set.
LEMMA MaxIs ==
  ASSUME NEW S, NEW m \in S, S \subseteq Nat, \A y \in S : m >= y
  PROVE  Grading!Max(S) = m
<1>1. \E x \in S : \A y \in S : x >= y
  OBVIOUS
<1>2. Grading!Max(S) \in S /\ \A y \in S : Grading!Max(S) >= y
  BY <1>1 DEF Grading!Max
<1> DEFINE x == Grading!Max(S)
<1>3. x \in Nat /\ m \in Nat /\ x >= m /\ m >= x
  BY <1>2
<1> HIDE DEF x
<1>4. x = m
  BY <1>3
<1> QED BY <1>4 DEF x

\* The most a slot of one factor can give, and that of what is said of a business.
LEMMA SlotsAre ==
  /\ \A key \in Factors : Grading!slotMax({key}) = IF key \in Grading!allowed THEN Grading!Points(key)
       ELSE 0
  /\ GradeTypes => Grading!slotMax(Grading!Reputation) =
                     IF "no_reviews" \in Grading!allowed THEN 16 ELSE 0
<1>1. ASSUME NEW key \in Factors
      PROVE  Grading!slotMax({key}) = IF key \in Grading!allowed THEN Grading!Points(key) ELSE 0
  <2> DEFINE S == {0} \cup { Grading!Points(k) : k \in {key} \cap Grading!allowed }
  <2>1. Grading!slotMax({key}) = Grading!Max(S) /\ Grading!Points(key) \in Nat
    BY PointsNat DEF Grading!slotMax
  <2>2. CASE key \in Grading!allowed
    <3>1. S = {0, Grading!Points(key)}
      BY <2>2
    <3> HIDE DEF S
    <3> QED BY <2>1, <2>2, <3>1, MaxIs
  <2>3. CASE key \notin Grading!allowed
    <3>1. S = {0}
      BY <2>3
    <3> HIDE DEF S
    <3> QED BY <2>1, <2>3, <3>1, MaxIs
  <2> QED BY <2>2, <2>3
<1>2. ASSUME GradeTypes
      PROVE  Grading!slotMax(Grading!Reputation) = IF "no_reviews" \in Grading!allowed THEN 16 ELSE 0
  <2> DEFINE S == {0} \cup { Grading!Points(k) : k \in Grading!Reputation \cap Grading!allowed }
  <2>1. Grading!slotMax(Grading!Reputation) = Grading!Max(S)
    BY DEF Grading!slotMax
  <2>2. CASE {"no_reviews", "low_rating", "few_reviews"} \subseteq Grading!allowed
    <3>1. Grading!Reputation \cap Grading!allowed = {"no_reviews", "low_rating", "few_reviews"}
      BY <2>2 DEF Grading!Reputation
    <3>2. S = {0, 16, 14, 9}
      BY <3>1, PointsAre
    <3> HIDE DEF S
    <3>3. Grading!Max(S) = 16
      BY <3>2, MaxIs
    <3> QED BY <2>1, <2>2, <3>3
  <2>3. CASE {"no_reviews", "low_rating", "few_reviews"} \cap Grading!allowed = {}
    <3>1. Grading!Reputation \cap Grading!allowed = {}
      BY <2>3 DEF Grading!Reputation
    <3>2. S = {0}
      BY <3>1
    <3> HIDE DEF S
    <3>3. Grading!Max(S) = 0
      BY <3>2, MaxIs
    <3> QED BY <2>1, <2>3, <3>3
  <2> QED BY <1>2, <2>2, <2>3, BooksAre
<1> QED BY <1>1, <1>2

\* The points of the sets the proofs meet.
LEMMA FewTotals ==
  /\ Grading!Total({}) = 0 /\ Grading!Total({"just_broke"}) = 30
       /\ Grading!Total({"recently_changed"}) = 16
  /\ Grading!Total({"phone", "email"}) = 30
<1>1. \A key : PointsIn({}, key) = 0
  BY DEF PointsIn
<1>2. \A key \in Factors : PointsIn({"just_broke"}, key) = IF key = "just_broke" THEN 30 ELSE 0
  BY PointsAre DEF PointsIn
<1>3. \A key \in Factors : PointsIn({"recently_changed"}, key) = IF key = "recently_changed" THEN 16
        ELSE 0
  BY PointsAre DEF PointsIn
<1>4. \A key \in Factors : PointsIn({"phone", "email"}, key) = IF key = "phone" THEN 18
        ELSE IF key = "email" THEN 12 ELSE 0
  BY PointsAre DEF PointsIn
<1>5. Grading!Total({}) = 0
  <2> DEFINE S == {}
  <2>1. WebsiteSum(S) = 0
    <3>1. PointsIn(S, "no_website") = 0 /\ PointsIn(S, "site_down") = 0
            /\ PointsIn(S, "social_only") = 0 /\ PointsIn(S, "no_ssl") = 0
                 /\ PointsIn(S, "not_mobile") = 0 /\ PointsIn(S, "outdated") = 0
      BY <1>1 DEF Factors
    <3> HIDE DEF S
    <3> QED BY <3>1 DEF WebsiteSum
  <2>2. TimelySum(S) = 0
    <3>1. PointsIn(S, "hiring") = 0 /\ PointsIn(S, "just_broke") = 0
            /\ PointsIn(S, "recently_changed") = 0 /\ PointsIn(S, "slow_site") = 0
                 /\ PointsIn(S, "thin_content") = 0 /\ PointsIn(S, "no_schema") = 0
      BY <1>1 DEF Factors
    <3> HIDE DEF S
    <3> QED BY <3>1, <2>1 DEF TimelySum
  <2>3. StandingSum(S) = 0
    <3>1. PointsIn(S, "no_analytics") = 0 /\ PointsIn(S, "no_reviews") = 0
            /\ PointsIn(S, "low_rating") = 0 /\ PointsIn(S, "few_reviews") = 0
                 /\ PointsIn(S, "uses_switchable_vendor") = 0 /\ PointsIn(S, "high_volume") = 0
      BY <1>1 DEF Factors
    <3> HIDE DEF S
    <3> QED BY <3>1, <2>2 DEF StandingSum
  <2>4. WholeSum(S) = 0
    <3>1. PointsIn(S, "no_online_ordering") = 0 /\ PointsIn(S, "no_booking") = 0
            /\ PointsIn(S, "no_hours") = 0 /\ PointsIn(S, "phone") = 0 /\ PointsIn(S, "email") = 0
      BY <1>1 DEF Factors
    <3> HIDE DEF S
    <3> QED BY <3>1, <2>3 DEF WholeSum
  <2> QED BY <2>4, TotalIs
<1>6. Grading!Total({"just_broke"}) = 30
  <2> DEFINE S == {"just_broke"}
  <2>1. WebsiteSum(S) = 0
    <3>1. PointsIn(S, "no_website") = 0 /\ PointsIn(S, "site_down") = 0
            /\ PointsIn(S, "social_only") = 0 /\ PointsIn(S, "no_ssl") = 0
                 /\ PointsIn(S, "not_mobile") = 0 /\ PointsIn(S, "outdated") = 0
      BY <1>2 DEF Factors
    <3> HIDE DEF S
    <3> QED BY <3>1 DEF WebsiteSum
  <2>2. TimelySum(S) = 30
    <3>1. PointsIn(S, "hiring") = 0 /\ PointsIn(S, "just_broke") = 30
            /\ PointsIn(S, "recently_changed") = 0 /\ PointsIn(S, "slow_site") = 0
                 /\ PointsIn(S, "thin_content") = 0 /\ PointsIn(S, "no_schema") = 0
      BY <1>2 DEF Factors
    <3> HIDE DEF S
    <3> QED BY <3>1, <2>1 DEF TimelySum
  <2>3. StandingSum(S) = 30
    <3>1. PointsIn(S, "no_analytics") = 0 /\ PointsIn(S, "no_reviews") = 0
            /\ PointsIn(S, "low_rating") = 0 /\ PointsIn(S, "few_reviews") = 0
                 /\ PointsIn(S, "uses_switchable_vendor") = 0 /\ PointsIn(S, "high_volume") = 0
      BY <1>2 DEF Factors
    <3> HIDE DEF S
    <3> QED BY <3>1, <2>2 DEF StandingSum
  <2>4. WholeSum(S) = 30
    <3>1. PointsIn(S, "no_online_ordering") = 0 /\ PointsIn(S, "no_booking") = 0
            /\ PointsIn(S, "no_hours") = 0 /\ PointsIn(S, "phone") = 0 /\ PointsIn(S, "email") = 0
      BY <1>2 DEF Factors
    <3> HIDE DEF S
    <3> QED BY <3>1, <2>3 DEF WholeSum
  <2> QED BY <2>4, TotalIs
<1>7. Grading!Total({"recently_changed"}) = 16
  <2> DEFINE S == {"recently_changed"}
  <2>1. WebsiteSum(S) = 0
    <3>1. PointsIn(S, "no_website") = 0 /\ PointsIn(S, "site_down") = 0
            /\ PointsIn(S, "social_only") = 0 /\ PointsIn(S, "no_ssl") = 0
                 /\ PointsIn(S, "not_mobile") = 0 /\ PointsIn(S, "outdated") = 0
      BY <1>3 DEF Factors
    <3> HIDE DEF S
    <3> QED BY <3>1 DEF WebsiteSum
  <2>2. TimelySum(S) = 16
    <3>1. PointsIn(S, "hiring") = 0 /\ PointsIn(S, "just_broke") = 0
            /\ PointsIn(S, "recently_changed") = 16 /\ PointsIn(S, "slow_site") = 0
                 /\ PointsIn(S, "thin_content") = 0 /\ PointsIn(S, "no_schema") = 0
      BY <1>3 DEF Factors
    <3> HIDE DEF S
    <3> QED BY <3>1, <2>1 DEF TimelySum
  <2>3. StandingSum(S) = 16
    <3>1. PointsIn(S, "no_analytics") = 0 /\ PointsIn(S, "no_reviews") = 0
            /\ PointsIn(S, "low_rating") = 0 /\ PointsIn(S, "few_reviews") = 0
                 /\ PointsIn(S, "uses_switchable_vendor") = 0 /\ PointsIn(S, "high_volume") = 0
      BY <1>3 DEF Factors
    <3> HIDE DEF S
    <3> QED BY <3>1, <2>2 DEF StandingSum
  <2>4. WholeSum(S) = 16
    <3>1. PointsIn(S, "no_online_ordering") = 0 /\ PointsIn(S, "no_booking") = 0
            /\ PointsIn(S, "no_hours") = 0 /\ PointsIn(S, "phone") = 0 /\ PointsIn(S, "email") = 0
      BY <1>3 DEF Factors
    <3> HIDE DEF S
    <3> QED BY <3>1, <2>3 DEF WholeSum
  <2> QED BY <2>4, TotalIs
<1>8. Grading!Total({"phone", "email"}) = 30
  <2> DEFINE S == {"phone", "email"}
  <2>1. WebsiteSum(S) = 0
    <3>1. PointsIn(S, "no_website") = 0 /\ PointsIn(S, "site_down") = 0
            /\ PointsIn(S, "social_only") = 0 /\ PointsIn(S, "no_ssl") = 0
                 /\ PointsIn(S, "not_mobile") = 0 /\ PointsIn(S, "outdated") = 0
      BY <1>4 DEF Factors
    <3> HIDE DEF S
    <3> QED BY <3>1 DEF WebsiteSum
  <2>2. TimelySum(S) = 0
    <3>1. PointsIn(S, "hiring") = 0 /\ PointsIn(S, "just_broke") = 0
            /\ PointsIn(S, "recently_changed") = 0 /\ PointsIn(S, "slow_site") = 0
                 /\ PointsIn(S, "thin_content") = 0 /\ PointsIn(S, "no_schema") = 0
      BY <1>4 DEF Factors
    <3> HIDE DEF S
    <3> QED BY <3>1, <2>1 DEF TimelySum
  <2>3. StandingSum(S) = 0
    <3>1. PointsIn(S, "no_analytics") = 0 /\ PointsIn(S, "no_reviews") = 0
            /\ PointsIn(S, "low_rating") = 0 /\ PointsIn(S, "few_reviews") = 0
                 /\ PointsIn(S, "uses_switchable_vendor") = 0 /\ PointsIn(S, "high_volume") = 0
      BY <1>4 DEF Factors
    <3> HIDE DEF S
    <3> QED BY <3>1, <2>2 DEF StandingSum
  <2>4. WholeSum(S) = 30
    <3>1. PointsIn(S, "no_online_ordering") = 0 /\ PointsIn(S, "no_booking") = 0
            /\ PointsIn(S, "no_hours") = 0 /\ PointsIn(S, "phone") = 18 /\ PointsIn(S, "email") = 12
      BY <1>4 DEF Factors
    <3> HIDE DEF S
    <3> QED BY <3>1, <2>3 DEF WholeSum
  <2> QED BY <2>4, TotalIs
<1> QED BY <1>5, <1>6, <1>7, <1>8

\* A factor that fires counts at most what its slot can give, when that slot could be checked.
LEMMA SlotBound ==
  ASSUME NEW G, G \subseteq Grading!allowed, NEW key \in Factors, NEW c, key \in G => c
  PROVE  /\ PointsIn(G, key) \in Nat /\ Grading!If(c, Grading!slotMax({key})) \in Nat
         /\ PointsIn(G, key) <= Grading!If(c, Grading!slotMax({key}))
<1>1. Grading!slotMax({key}) = IF key \in Grading!allowed THEN Grading!Points(key) ELSE 0
  BY SlotsAre
<1>2. Grading!Points(key) \in Nat
  BY PointsNat
<1> QED BY <1>1, <1>2 DEF PointsIn, Grading!If

\* What the presence of a business can give at most.
PresenceCeiling(l) ==
  CASE l["presence"] = "social" -> Grading!slotMax({"social_only"})
    [] l["presence"] = "none" -> Grading!slotMax({"no_website"})
    [] l["presence"] = "down" -> Grading!slotMax({"site_down"})
    [] l["presence"] = "live" -> Grading!If(Grading!Known(l, "ssl"), Grading!slotMax({"no_ssl"}))
                                 + Grading!If(Grading!Known(l, "mobile"),
                                      Grading!slotMax({"not_mobile"}))
                                 + Grading!If(Grading!Known(l, "outdated"),
                                      Grading!slotMax({"outdated"}))
    [] OTHER -> 0

\* The factors of its website give no more,
LEMMA PresenceBound ==
  ASSUME NEW l, NEW G, G \subseteq Grading!scoreFactors(l)
  PROVE  /\ WebsiteSum(G) \in Nat /\ PresenceCeiling(l) \in Nat
         /\ WebsiteSum(G) <= PresenceCeiling(l)
<1> DEFINE a == PointsIn(G, "no_website")  b == PointsIn(G, "site_down")  c == PointsIn(G,
        "social_only")
           d == PointsIn(G, "no_ssl")  e == PointsIn(G, "not_mobile")  f == PointsIn(G, "outdated")
           x == Grading!If(Grading!Known(l, "ssl"), Grading!slotMax({"no_ssl"}))
           y == Grading!If(Grading!Known(l, "mobile"), Grading!slotMax({"not_mobile"}))
           z == Grading!If(Grading!Known(l, "outdated"), Grading!slotMax({"outdated"}))
<1>1. G \subseteq Grading!allowed
  BY Fires
<1>2. a \in Nat /\ b \in Nat /\ c \in Nat /\ d \in Nat /\ e \in Nat /\ f \in Nat
  BY PointsInNat DEF Factors
<1>3. /\ l["presence"] # "none" => a = 0
      /\ l["presence"] # "down" => b = 0
      /\ l["presence"] # "social" => c = 0
      /\ l["presence"] # "live" => d = 0 /\ e = 0 /\ f = 0
  BY Fires DEF PointsIn
<1>4. /\ Grading!slotMax({"no_website"}) \in Nat /\ a <= Grading!slotMax({"no_website"})
      /\ Grading!slotMax({"site_down"}) \in Nat /\ b <= Grading!slotMax({"site_down"})
      /\ Grading!slotMax({"social_only"}) \in Nat /\ c <= Grading!slotMax({"social_only"})
  <2>1. \A key \in Factors : Grading!slotMax({key}) \in Nat
          /\ PointsIn(G, key) <= Grading!slotMax({key})
    BY <1>1, SlotsAre, PointsNat DEF PointsIn
  <2> QED BY <2>1 DEF Factors
<1>5. x \in Nat /\ d <= x
  <2>1. "no_ssl" \in G => Grading!Known(l, "ssl")
    BY Fires DEF Grading!Known
  <2> QED BY <1>1, <2>1, SlotBound DEF Factors
<1>6. y \in Nat /\ e <= y
  <2>1. "not_mobile" \in G => Grading!Known(l, "mobile")
    BY Fires DEF Grading!Known
  <2> QED BY <1>1, <2>1, SlotBound DEF Factors
<1>7. z \in Nat /\ f <= z
  <2>1. "outdated" \in G => Grading!Known(l, "outdated")
    BY Fires DEF Grading!Known
  <2> QED BY <1>1, <2>1, SlotBound DEF Factors
<1>8. WebsiteSum(G) = a + b + c + d + e + f
  BY DEF WebsiteSum
<1> DEFINE n == Grading!slotMax({"no_website"})  s == Grading!slotMax({"site_down"})
           o == Grading!slotMax({"social_only"})
<1>9. PresenceCeiling(l) =
        CASE l["presence"] = "social" -> o [] l["presence"] = "none" -> n [] l["presence"] = "down" -> s
          [] l["presence"] = "live" -> x + y + z [] OTHER -> 0
  BY Zenon DEF PresenceCeiling
<1> HIDE DEF a, b, c, d, e, f, x, y, z, n, s, o
<1>10. CASE l["presence"] = "social"
  <2>1. PresenceCeiling(l) = o
    BY <1>9, <1>10
  <2> QED BY <1>2, <1>3, <1>4, <1>8, <1>10, <2>1 DEF a, b, c, o
<1>11. CASE l["presence"] = "none"
  <2>1. PresenceCeiling(l) = n
    BY <1>9, <1>11
  <2> QED BY <1>2, <1>3, <1>4, <1>8, <1>11, <2>1 DEF a, b, c, n
<1>12. CASE l["presence"] = "down"
  <2>1. PresenceCeiling(l) = s
    BY <1>9, <1>12
  <2> QED BY <1>2, <1>3, <1>4, <1>8, <1>12, <2>1 DEF a, b, c, s
<1>13. CASE l["presence"] = "live"
  <2>1. PresenceCeiling(l) = x + y + z
    BY <1>9, <1>13
  <2> QED BY <1>2, <1>3, <1>5, <1>6, <1>7, <1>8, <1>13, <2>1
<1>14. CASE l["presence"] \notin {"social", "none", "down", "live"}
  <2>1. PresenceCeiling(l) = 0
    BY <1>9, <1>14
  <2> QED BY <1>2, <1>3, <1>8, <1>14, <2>1
<1> QED BY <1>10, <1>11, <1>12, <1>13, <1>14

\* those of what changed no more than the slot of the change,
LEMMA ChangeBound ==
  ASSUME NEW l, NEW G, G \subseteq Grading!scoreFactors(l)
  PROVE  /\ PointsIn(G, "just_broke") \in Nat /\ PointsIn(G, "recently_changed") \in Nat
              /\ Grading!ChangeCeiling(l) \in Nat
         /\ PointsIn(G, "just_broke") + PointsIn(G, "recently_changed") <= Grading!ChangeCeiling(l)
<1>1. Grading!changeFactorKey(l) \in {{}, {"just_broke"}, {"recently_changed"}}
  BY DEF Grading!changeFactorKey
<1>2. \A key \in {"just_broke", "recently_changed"} : key \in G => key \in Grading!changeFactorKey(l)
  BY Fires
<1>3. PointsIn(G, "just_broke") = (IF "just_broke" \in G THEN 30 ELSE 0)
        /\ PointsIn(G, "recently_changed") = IF "recently_changed" \in G THEN 16 ELSE 0
  BY PointsAre DEF PointsIn
<1>4. Grading!ChangeCeiling(l) = Grading!Total(Grading!changeFactorKey(l))
  BY DEF Grading!ChangeCeiling
<1>5. CASE Grading!changeFactorKey(l) = {}
  BY <1>2, <1>3, <1>4, <1>5, FewTotals
<1>6. CASE Grading!changeFactorKey(l) = {"just_broke"}
  BY <1>2, <1>3, <1>4, <1>6, FewTotals
<1>7. CASE Grading!changeFactorKey(l) = {"recently_changed"}
  BY <1>2, <1>3, <1>4, <1>7, FewTotals
<1> QED BY <1>1, <1>5, <1>6, <1>7

\* and what is said of it at most:
ReviewCeiling(l) ==
  Grading!If(Grading!Known(l, "reviews"),
       Grading!slotMax(Grading!Reputation) + Grading!slotMax({"high_volume"}))

\* its reputation gives no more.
LEMMA ReviewBound ==
  ASSUME GradeTypes, NEW l, NEW G, G \subseteq Grading!scoreFactors(l)
  PROVE  LET sum == PointsIn(G, "no_reviews") + PointsIn(G, "low_rating") + PointsIn(G,
       "few_reviews") + PointsIn(G, "high_volume") IN
           sum \in Nat /\ ReviewCeiling(l) \in Nat /\ sum <= ReviewCeiling(l)
<1>1. G \subseteq Grading!allowed
  BY Fires
<1>2. /\ PointsIn(G, "no_reviews") = IF "no_reviews" \in G THEN 16 ELSE 0
      /\ PointsIn(G, "low_rating") = IF "low_rating" \in G THEN 14 ELSE 0
      /\ PointsIn(G, "few_reviews") = IF "few_reviews" \in G THEN 9 ELSE 0
      /\ PointsIn(G, "high_volume") = IF "high_volume" \in G THEN 22 ELSE 0
  BY PointsAre DEF PointsIn
<1>3. /\ "no_reviews" \in G => l["reviews"] = "none"
      /\ "low_rating" \in G => l["reviews"] \in {"fewLow", "someLow", "busyLow"}
      /\ "few_reviews" \in G => l["reviews"] = "few"
      /\ "high_volume" \in G => l["reviews"] \in {"busy", "busyLow"}
  BY Fires
<1>4. Grading!slotMax({"high_volume"}) = IF "high_volume" \in Grading!allowed THEN 22 ELSE 0
  BY SlotsAre, PointsAre DEF Factors
<1>5. Grading!slotMax(Grading!Reputation) = IF "no_reviews" \in Grading!allowed THEN 16 ELSE 0
  BY SlotsAre
<1>6. "no_reviews" \in G \/ "low_rating" \in G \/ "few_reviews" \in G =>
        "no_reviews" \in Grading!allowed
  BY <1>1, BooksAre
<1>7. CASE l["reviews"] = "unknown"
  BY <1>2, <1>3, <1>7 DEF ReviewCeiling, Grading!If, Grading!Known
<1>8. CASE l["reviews"] # "unknown"
  <2>1. ReviewCeiling(l) = Grading!slotMax(Grading!Reputation) + Grading!slotMax({"high_volume"})
    BY <1>8 DEF ReviewCeiling, Grading!If, Grading!Known
  <2>2. /\ ~("no_reviews" \in G /\ "low_rating" \in G) /\ ~("no_reviews" \in G /\ "few_reviews" \in G)
        /\ ~("low_rating" \in G /\ "few_reviews" \in G)
    BY <1>3
  <2>3. "high_volume" \in G => "high_volume" \in Grading!allowed
    BY <1>1
  <2> QED BY <1>2, <1>4, <1>5, <1>6, <2>1, <2>2, <2>3
<1> QED BY <1>7, <1>8

\* The points of the need are no more than could be attained.
LEMMA NeedAttainable ==
  ASSUME GradeTypes, NEW l
  PROVE  /\ Grading!needPoints(l) \in Nat /\ Grading!attainableNeed(l) \in Nat
         /\ Grading!needPoints(l) <= Grading!attainableNeed(l)
<1> DEFINE G == Grading!scoreFactors(l) \ Grading!Reach
           Known(c) == Grading!Known(l, c)
           Part(c, key) == Grading!If(Known(c), Grading!slotMax({key}))
           t0 == PresenceCeiling(l)  tc == Grading!ChangeCeiling(l)  tr == ReviewCeiling(l)
           th == Part("hiring", "hiring")  tb == Part("booking", "no_booking")  to == Part("hours",
                "no_hours")
           ts == Part("speed", "slow_site")  tt == Part("content", "thin_content")  tm == Part("schema",
                "no_schema")
           ta == Part("analytics", "no_analytics")  tv == Part("vendors", "uses_switchable_vendor")
           td == Grading!If(Grading!OrderingKnown(l), Grading!slotMax({"no_online_ordering"}))
<1>1. G \subseteq Grading!scoreFactors(l) /\ G \subseteq Grading!allowed /\ "phone" \notin G
        /\ "email" \notin G
  BY Fires DEF Grading!Reach
<1>2. Grading!attainableNeed(l) = t0 + tc + th + tr + tb + to + ts + tt + tm + ta + tv + td
  BY Zenon DEF Grading!attainableNeed, PresenceCeiling, ReviewCeiling
<1>3. Grading!needPoints(l) = WholeSum(G)
  BY TotalIs DEF Grading!needPoints
<1> HIDE DEF G
<1>4. PointsIn(G, "hiring") \in Nat /\ th \in Nat /\ PointsIn(G, "hiring") <= th
  <2>1. "hiring" \in G => Known("hiring")
    BY <1>1, Fires DEF Grading!Known
  <2> QED BY <1>1, <2>1, SlotBound DEF Factors
<1>5. PointsIn(G, "no_booking") \in Nat /\ tb \in Nat /\ PointsIn(G, "no_booking") <= tb
  <2>1. "no_booking" \in G => Known("booking")
    BY <1>1, Fires DEF Grading!Known
  <2> QED BY <1>1, <2>1, SlotBound DEF Factors
<1>6. PointsIn(G, "no_hours") \in Nat /\ to \in Nat /\ PointsIn(G, "no_hours") <= to
  <2>1. "no_hours" \in G => Known("hours")
    BY <1>1, Fires DEF Grading!Known
  <2> QED BY <1>1, <2>1, SlotBound DEF Factors
<1>7. PointsIn(G, "slow_site") \in Nat /\ ts \in Nat /\ PointsIn(G, "slow_site") <= ts
  <2>1. "slow_site" \in G => Known("speed")
    BY <1>1, Fires DEF Grading!Known
  <2> QED BY <1>1, <2>1, SlotBound DEF Factors
<1>8. PointsIn(G, "thin_content") \in Nat /\ tt \in Nat /\ PointsIn(G, "thin_content") <= tt
  <2>1. "thin_content" \in G => Known("content")
    BY <1>1, Fires DEF Grading!Known
  <2> QED BY <1>1, <2>1, SlotBound DEF Factors
<1>9. PointsIn(G, "no_schema") \in Nat /\ tm \in Nat /\ PointsIn(G, "no_schema") <= tm
  <2>1. "no_schema" \in G => Known("schema")
    BY <1>1, Fires DEF Grading!Known
  <2> QED BY <1>1, <2>1, SlotBound DEF Factors
<1>10. PointsIn(G, "no_analytics") \in Nat /\ ta \in Nat /\ PointsIn(G, "no_analytics") <= ta
  <2>1. "no_analytics" \in G => Known("analytics")
    BY <1>1, Fires DEF Grading!Known
  <2> QED BY <1>1, <2>1, SlotBound DEF Factors
<1>11. PointsIn(G, "uses_switchable_vendor") \in Nat /\ tv \in Nat
        /\ PointsIn(G, "uses_switchable_vendor") <= tv
  <2>1. "uses_switchable_vendor" \in G => Known("vendors")
    BY <1>1, Fires DEF Grading!Known
  <2> QED BY <1>1, <2>1, SlotBound DEF Factors
<1>12. PointsIn(G, "no_online_ordering") \in Nat /\ td \in Nat
        /\ PointsIn(G, "no_online_ordering") <= td
  <2>1. "no_online_ordering" \in G => Grading!OrderingKnown(l)
    BY <1>1, Fires DEF Grading!OrderingKnown, Grading!Known
  <2> QED BY <1>1, <2>1, SlotBound DEF Factors
<1>13. WebsiteSum(G) \in Nat /\ t0 \in Nat /\ WebsiteSum(G) <= t0
  BY <1>1, PresenceBound
<1>14. /\ PointsIn(G, "just_broke") \in Nat /\ PointsIn(G, "recently_changed") \in Nat /\ tc \in Nat
       /\ PointsIn(G, "just_broke") + PointsIn(G, "recently_changed") <= tc
  BY <1>1, ChangeBound
<1>15. /\ tr \in Nat /\ PointsIn(G, "no_reviews") + PointsIn(G, "low_rating") + PointsIn(G,
            "few_reviews") + PointsIn(G, "high_volume") <= tr
  BY <1>1, ReviewBound
<1>16. PointsIn(G, "no_reviews") \in Nat /\ PointsIn(G, "low_rating") \in Nat
        /\ PointsIn(G, "few_reviews") \in Nat /\ PointsIn(G, "high_volume") \in Nat
  BY PointsInNat DEF Factors
<1>17. PointsIn(G, "phone") = 0 /\ PointsIn(G, "email") = 0
  BY <1>1 DEF PointsIn
<1> HIDE DEF t0, tc, tr, th, tb, to, ts, tt, tm, ta, tv, td
<1>18. TimelySum(G) \in Nat /\ TimelySum(G) <= t0 + th + tc + ts + tt + tm
  BY <1>4, <1>7, <1>8, <1>9, <1>13, <1>14 DEF TimelySum
<1>19. StandingSum(G) \in Nat /\ StandingSum(G) <= t0 + th + tc + ts + tt + tm + ta + tr + tv
  <2> DEFINE u == t0 + th + tc + ts + tt + tm
  <2>1. u \in Nat /\ TimelySum(G) \in Nat /\ TimelySum(G) <= u
    BY <1>4, <1>7, <1>8, <1>9, <1>13, <1>14, <1>18
  <2> HIDE DEF u
  <2>2. StandingSum(G) \in Nat /\ StandingSum(G) <= u + ta + tr + tv
    BY <1>10, <1>11, <1>15, <1>16, <2>1 DEF StandingSum
  <2> QED BY <2>2 DEF u
<1>20. WholeSum(G) \in Nat /\ WholeSum(G) <= t0 + th + tc + ts + tt + tm + ta + tr + tv + td + tb + to
  <2> DEFINE u == t0 + th + tc + ts + tt + tm + ta + tr + tv
  <2>1. u \in Nat /\ StandingSum(G) \in Nat /\ StandingSum(G) <= u
    BY <1>4, <1>7, <1>8, <1>9, <1>10, <1>11, <1>13, <1>14, <1>15, <1>19
  <2> HIDE DEF u
  <2>2. WholeSum(G) \in Nat /\ WholeSum(G) <= u + td + tb + to
    BY <1>5, <1>6, <1>12, <1>17, <2>1 DEF WholeSum
  <2> QED BY <2>2 DEF u
<1>21. /\ t0 + tc + th + tr + tb + to + ts + tt + tm + ta + tv + td \in Nat
       /\ t0 + tc + th + tr + tb + to + ts + tt + tm + ta + tv + td
          = t0 + th + tc + ts + tt + tm + ta + tr + tv + td + tb + to
  BY <1>4, <1>5, <1>6, <1>7, <1>8, <1>9, <1>10, <1>11, <1>12, <1>13, <1>14, <1>15
<1> QED BY <1>2, <1>3, <1>20, <1>21

\* A score is the need and the ways to reach them, of which a buyer is always told.
LEMMA ScoreAttainable ==
  ASSUME GradeTypes, NEW l
  PROVE  \E reach \in 0..30 :
           /\ Grading!score(l) = Grading!needPoints(l) + reach
           /\ Grading!scoreMax(l) = Grading!attainableNeed(l) + 30
<1> DEFINE F == Grading!scoreFactors(l)  R == Grading!Reach
           got == Grading!Total(F \cap R)
<1>1. Grading!score(l) = Grading!needPoints(l) + got
  <2>1. F = (F \ R) \cup (F \cap R) /\ (F \ R) \cap (F \cap R) = {}
    OBVIOUS
  <2>2. Grading!Total((F \ R) \cup (F \cap R)) = Grading!Total(F \ R) + Grading!Total(F \cap R)
    BY <2>1, TotalAdds
  <2> QED BY <2>1, <2>2 DEF Grading!score, Grading!needPoints
<1>2. R = {"phone", "email"} /\ R \cap Grading!allowed = {"phone", "email"}
  BY BooksAre DEF Grading!Reach
<1>3. Grading!Total(R) = 30
  BY <1>2, FewTotals
<1>4. got \in 0..30
  <2> DEFINE rest == Grading!Total(R \ F)
  <2>1. R = (F \cap R) \cup (R \ F) /\ (F \cap R) \cap (R \ F) = {}
    OBVIOUS
  <2>2. Grading!Total((F \cap R) \cup (R \ F)) = got + rest
    BY <2>1, TotalAdds
  <2>3. got \in Nat /\ rest \in Nat
    BY TotalNat
  <2>4. got + rest = 30
    BY <1>3, <2>1, <2>2
  <2> HIDE DEF got, rest
  <2> QED BY <2>3, <2>4
<1>5. Grading!scoreMax(l) = Grading!attainableNeed(l) + 30
  BY <1>2, FewTotals DEF Grading!scoreMax
<1> QED BY <1>1, <1>4, <1>5

\* A quotient is the greatest number that goes into it.
LEMMA DivIs ==
  ASSUME NEW a \in Nat, NEW b \in Nat \ {0}
  PROVE  (a \div b) \in Nat /\ b * (a \div b) <= a /\ \A q \in Int : b * q <= a => q <= a \div b
<1> DEFINE d == a \div b  r == a % b
<1>1. d \in Int /\ r \in 0..(b - 1) /\ a = b * d + r
  BY SMTT(30)
<1> HIDE DEF d, r
<1>2. b * d <= a
  <2>1. b * d \in Int
    BY <1>1
  <2> QED BY <1>1, <2>1
<1>3. ASSUME NEW x \in Int, b * x <= a PROVE x <= d
  <2> SUFFICES ASSUME x >= d + 1 PROVE FALSE
    BY <1>1
  <2>1. x - (d + 1) \in Nat /\ b * (x - (d + 1)) \in Nat
    BY <1>1
  <2>2. b * x = b * (x - (d + 1)) + b * d + b
    BY <1>1
  <2>3. b * d \in Int /\ b * x \in Int
    BY <1>1
  <2>4. b * x >= b * d + b
    BY <2>1, <2>2, <2>3
  <2> QED BY <1>1, <1>3, <2>3, <2>4
<1>4. d >= 0
  <2>1. b * 0 <= a
    OBVIOUS
  <2> QED BY <1>3, <2>1
<1> QED BY <1>1, <1>2, <1>3, <1>4 DEF d

\* A share grows when as much is added to the whole as to the part, and all is at least 100.
LEMMA ShareGrows ==
  ASSUME NEW s \in Nat, NEW m \in Nat \ {0}, s <= m, NEW c \in Nat
  PROVE  /\ (200 * s + m) \div (2 * m) \in Nat
         /\ (200 * (s + c) + (m + c)) \div (2 * (m + c)) >= (200 * s + m) \div (2 * m)
         /\ s = m => (200 * s + m) \div (2 * m) >= 100
<1> DEFINE a == 200 * s + m  b == 2 * m  q == a \div b
           a2 == 200 * (s + c) + (m + c)  b2 == 2 * (m + c)
<1>1. a \in Nat /\ b \in Nat \ {0} /\ a2 \in Nat /\ b2 \in Nat \ {0}
  OBVIOUS
<1>2. q \in Nat /\ b * q <= a
  BY <1>1, DivIs
<1> HIDE DEF q
<1>3. q <= 100
  <2> SUFFICES ASSUME q >= 101 PROVE FALSE
    BY <1>2
  <2>1. q - 101 \in Nat /\ m * (q - 101) \in Nat
    BY <1>2
  <2>2. b * q = 2 * (m * (q - 101)) + 202 * m
    BY <1>2
  <2>3. b * q >= 202 * m
    BY <2>1, <2>2
  <2> QED BY <1>2, <2>3
<1>4. b2 * q <= a2
  <2>1. c * (100 - q) \in Nat
    BY <1>2, <1>3
  <2>2. b2 * q = b * q + 2 * (c * q) /\ c * q \in Nat /\ b * q \in Nat
    BY <1>2
  <2>3. c * (100 - q) = 100 * c - c * q
    BY <1>2
  <2>4. c * q <= 100 * c
    BY <2>1, <2>2, <2>3
  <2>5. a2 = a + 201 * c
    OBVIOUS
  <2> QED BY <1>1, <1>2, <2>2, <2>4, <2>5
<1>5. q <= a2 \div b2
  BY <1>1, <1>2, <1>4, DivIs
<1>6. s = m => q >= 100
  <2> SUFFICES ASSUME s = m PROVE q >= 100
    OBVIOUS
  <2>1. b * 100 <= a
    OBVIOUS
  <2> QED BY <1>1, <2>1, DivIs DEF q
<1>7. a2 \div b2 \in Nat
  BY <1>1, DivIs
<1> QED BY <1>2, <1>5, <1>6, <1>7 DEF q

\* What could be attained without what changed.
Standing(l) ==
  PresenceCeiling(l)
  + Grading!If(Grading!Known(l, "hiring"), Grading!slotMax({"hiring"})) + ReviewCeiling(l)
  + Grading!If(Grading!Known(l, "booking"), Grading!slotMax({"no_booking"}))
  + Grading!If(Grading!Known(l, "hours"), Grading!slotMax({"no_hours"}))
  + Grading!If(Grading!Known(l, "speed"), Grading!slotMax({"slow_site"}))
  + Grading!If(Grading!Known(l, "content"), Grading!slotMax({"thin_content"}))
  + Grading!If(Grading!Known(l, "schema"), Grading!slotMax({"no_schema"}))
  + Grading!If(Grading!Known(l, "analytics"), Grading!slotMax({"no_analytics"}))
  + Grading!If(Grading!Known(l, "vendors"), Grading!slotMax({"uses_switchable_vendor"}))
  + Grading!If(Grading!OrderingKnown(l), Grading!slotMax({"no_online_ordering"}))

\* What could be attained is that, and what changed.
LEMMA AttainableIs ==
  ASSUME GradeTypes, NEW l
  PROVE  /\ Standing(l) \in Nat /\ Grading!ChangeCeiling(l) \in Nat
         /\ Grading!attainableNeed(l) = Standing(l) + Grading!ChangeCeiling(l)
<1> DEFINE Known(c) == Grading!Known(l, c)
           Part(c, key) == Grading!If(Known(c), Grading!slotMax({key}))
           t0 == PresenceCeiling(l)  tc == Grading!ChangeCeiling(l)  tr == ReviewCeiling(l)
           th == Part("hiring", "hiring")  tb == Part("booking", "no_booking")  to == Part("hours",
                "no_hours")
           ts == Part("speed", "slow_site")  tt == Part("content", "thin_content")  tm == Part("schema",
                "no_schema")
           ta == Part("analytics", "no_analytics")  tv == Part("vendors", "uses_switchable_vendor")
           td == Grading!If(Grading!OrderingKnown(l), Grading!slotMax({"no_online_ordering"}))
<1>1. \A c : \A key \in Factors : Grading!If(c, Grading!slotMax({key})) \in Nat
  BY SlotsAre, PointsNat DEF Grading!If
<1>2. th \in Nat /\ tb \in Nat /\ to \in Nat /\ ts \in Nat /\ tt \in Nat /\ tm \in Nat /\ ta \in Nat
        /\ tv \in Nat /\ td \in Nat
  BY <1>1 DEF Factors
<1>3. t0 \in Nat /\ tc \in Nat /\ tr \in Nat
  <2>1. {} \subseteq Grading!scoreFactors(l)
    OBVIOUS
  <2> QED BY <2>1, PresenceBound, ChangeBound, ReviewBound
<1>4. Grading!attainableNeed(l) = t0 + tc + th + tr + tb + to + ts + tt + tm + ta + tv + td
  BY Zenon DEF Grading!attainableNeed, PresenceCeiling, ReviewCeiling
<1>5. Standing(l) = t0 + th + tr + tb + to + ts + tt + tm + ta + tv + td
  BY Zenon DEF Standing
<1> HIDE DEF t0, tc, tr, th, tb, to, ts, tt, tm, ta, tv, td
<1>6. /\ t0 + th + tr + tb + to + ts + tt + tm + ta + tv + td \in Nat
      /\ t0 + tc + th + tr + tb + to + ts + tt + tm + ta + tv + td
          = (t0 + th + tr + tb + to + ts + tt + tm + ta + tv + td) + tc
  BY <1>2, <1>3
<1>7. Standing(l) \in Nat /\ Grading!attainableNeed(l) = Standing(l) + tc
  BY Zenon, <1>4, <1>5, <1>6
<1> QED BY <1>3, <1>7 DEF tc

\* What changed adds to the score, to the need and to what could be attained alike.
LEMMA ChangeAdds ==
  ASSUME GradeTypes, NEW before, before = [lead EXCEPT !["changes"] = "none"]
  PROVE  \E c \in Nat :
           /\ Grading!needPoints(lead) = Grading!needPoints(before) + c
           /\ Grading!score(lead) = Grading!score(before) + c
           /\ Grading!attainableNeed(lead) = Grading!attainableNeed(before) + c
<1> DEFINE CK == Grading!changeFactorKey(lead)
<1>1. /\ before["changes"] = "none"
      /\ \A f : f # "changes" => before[f] = lead[f]
  BY DEF GradeTypes, Grading!Listing
<1>2. CK \in {{}, {"just_broke"}, {"recently_changed"}} /\ CK \subseteq Grading!allowed
  BY DEF Grading!changeFactorKey
<1>3. Grading!changeFactorKey(before) = {}
  BY <1>1 DEF Grading!changeFactorKey
<1>4. Grading!PresenceFactors(before) = Grading!PresenceFactors(lead)
  BY <1>1 DEF Grading!PresenceFactors, Grading!Fault
<1>5. Grading!ReputationFactors(before) = Grading!ReputationFactors(lead)
  BY <1>1 DEF Grading!ReputationFactors
<1>6. \A f \in {"hiring", "booking", "speed", "content", "schema", "analytics",
        "hours"} : Grading!Fault(before, f) = Grading!Fault(lead, f)
  BY <1>1 DEF Grading!Fault
<1>7. Grading!Audited(before) = Grading!Audited(lead)
  BY <1>1 DEF Grading!Audited
<1> DEFINE Others == Grading!scoreFactors(before)
<1>8. Grading!scoreFactors(lead) = Others \cup CK
  <2> DEFINE Faults(l) == Grading!When(Grading!Fault(l, "hiring"),
          "hiring") \cup Grading!When(Grading!Fault(l, "booking"), "no_booking")
     \cup Grading!When(Grading!Fault(l, "speed"), "slow_site") \cup Grading!When(Grading!Fault(l,
          "content"), "thin_content")
     \cup Grading!When(Grading!Fault(l, "schema"), "no_schema") \cup Grading!When(Grading!Fault(l,
          "analytics"), "no_analytics")
     \cup Grading!When(Grading!Fault(l, "hours"), "no_hours")
           Facts(l) == Grading!When(l["vendors"] = "switchable", "uses_switchable_vendor")
     \cup Grading!When(Grading!Audited(l) /\ l["vendors"] # "ordering"
          /\ Grading!Fault(l, "booking"), "no_online_ordering")
     \cup Grading!When(l["phone"] = "held", "phone") \cup Grading!When(l["email"] = "held", "email")
           Rest(l) == Grading!PresenceFactors(l) \cup Grading!ReputationFactors(l)
                      \cup Faults(l) \cup Facts(l)
  <2>1. \A l : Grading!scoreFactors(l) = Grading!allowed \cap (Rest(l) \cup Grading!changeFactorKey(l))
    <3> TAKE l
    <3>1. \A k : k \in Grading!scoreFactors(l) <=> k \in Grading!allowed
            /\ (k \in Rest(l) \/ k \in Grading!changeFactorKey(l))
      BY DEF Grading!scoreFactors
    <3> HIDE DEF Rest
    <3> QED BY <3>1 DEF Grading!scoreFactors
  <2>2. Rest(before) = Rest(lead)
    <3>1. before["vendors"] = lead["vendors"] /\ before["phone"] = lead["phone"]
            /\ before["email"] = lead["email"]
      BY <1>1
    <3>2. /\ Grading!Fault(before, "hiring") = Grading!Fault(lead, "hiring")
               /\ Grading!Fault(before, "booking") = Grading!Fault(lead, "booking")
          /\ Grading!Fault(before, "speed") = Grading!Fault(lead, "speed")
               /\ Grading!Fault(before, "content") = Grading!Fault(lead, "content")
          /\ Grading!Fault(before, "schema") = Grading!Fault(lead, "schema")
               /\ Grading!Fault(before, "analytics") = Grading!Fault(lead, "analytics")
          /\ Grading!Fault(before, "hours") = Grading!Fault(lead, "hours")
      BY <1>6
    <3>3. Faults(before) = Faults(lead)
      BY Zenon, <3>2
    <3>4. Facts(before) = Facts(lead)
      <4>1. Grading!When(before["vendors"] = "switchable",
              "uses_switchable_vendor") = Grading!When(lead["vendors"] = "switchable",
               "uses_switchable_vendor")
        BY <3>1 DEF Grading!When
      <4>2. Grading!When(Grading!Audited(before) /\ before["vendors"] # "ordering"
              /\ Grading!Fault(before, "booking"), "no_online_ordering")
            = Grading!When(Grading!Audited(lead) /\ lead["vendors"] # "ordering"
                 /\ Grading!Fault(lead, "booking"), "no_online_ordering")
        BY <1>7, <3>1, <3>2 DEF Grading!When
      <4>3. Grading!When(before["phone"] = "held", "phone") = Grading!When(lead["phone"] = "held",
              "phone")
        BY <3>1 DEF Grading!When
      <4>4. Grading!When(before["email"] = "held", "email") = Grading!When(lead["email"] = "held",
              "email")
        BY <3>1 DEF Grading!When
      <4> QED BY Zenon, <4>1, <4>2, <4>3, <4>4
    <3> HIDE DEF Faults, Facts
    <3> QED BY Zenon, <1>4, <1>5, <3>3, <3>4
  <2> HIDE DEF Rest
  <2> QED BY <1>2, <1>3, <2>1, <2>2
<1>9. Others \cap CK = {}
  <2>1. \A key \in {"just_broke", "recently_changed"} : key \notin Others
    BY <1>3, Fires
  <2> QED BY <1>2, <2>1
<1> DEFINE c == Grading!Total(CK)
<1>10. c \in Nat
  BY TotalNat
<1>11. Grading!score(lead) = Grading!score(before) + c
  BY <1>8, <1>9, TotalAdds DEF Grading!score
<1>12. Grading!needPoints(lead) = Grading!needPoints(before) + c
  <2>1. (Others \cup CK) \ Grading!Reach = (Others \ Grading!Reach) \cup CK
    BY <1>2 DEF Grading!Reach
  <2>2. (Others \ Grading!Reach) \cap CK = {}
    BY <1>9
  <2>3. Grading!Total((Others \ Grading!Reach) \cup CK) = Grading!Total(Others \ Grading!Reach) + c
    BY <2>2, TotalAdds
  <2> QED BY <1>8, <2>1, <2>3 DEF Grading!needPoints
<1>13. Grading!attainableNeed(lead) = Grading!attainableNeed(before) + c
  <2>1. Grading!attainableNeed(lead) = Standing(lead) + c /\ Standing(lead) \in Nat
    BY AttainableIs DEF Grading!ChangeCeiling
  <2>2. Grading!attainableNeed(before) = Standing(before) + 0
    BY <1>3, AttainableIs, FewTotals DEF Grading!ChangeCeiling
  <2>3. Standing(before) = Standing(lead)
    <3>1. \A f \in {"ssl", "mobile", "outdated", "hiring", "reviews", "booking", "hours", "speed",
            "content", "schema", "analytics", "vendors"} :
            Grading!Known(before, f) = Grading!Known(lead, f)
      BY <1>1 DEF Grading!Known
    <3>2. PresenceCeiling(before) = PresenceCeiling(lead)
      <4>1. before["presence"] = lead["presence"] /\ Grading!Known(before, "ssl") = Grading!Known(lead,
              "ssl")
            /\ Grading!Known(before, "mobile") = Grading!Known(lead, "mobile")
                 /\ Grading!Known(before, "outdated") = Grading!Known(lead, "outdated")
        BY <1>1, <3>1
      <4> QED BY <4>1 DEF PresenceCeiling
    <3>3. ReviewCeiling(before) = ReviewCeiling(lead)
      BY <3>1 DEF ReviewCeiling
    <3>4. Grading!OrderingKnown(before) = Grading!OrderingKnown(lead)
      BY <3>1 DEF Grading!OrderingKnown
    <3>5. /\ Grading!Known(before, "hiring") = Grading!Known(lead, "hiring")
               /\ Grading!Known(before, "booking") = Grading!Known(lead, "booking")
          /\ Grading!Known(before, "hours") = Grading!Known(lead, "hours")
               /\ Grading!Known(before, "speed") = Grading!Known(lead, "speed")
          /\ Grading!Known(before, "content") = Grading!Known(lead, "content")
               /\ Grading!Known(before, "schema") = Grading!Known(lead, "schema")
          /\ Grading!Known(before, "analytics") = Grading!Known(lead, "analytics")
               /\ Grading!Known(before, "vendors") = Grading!Known(lead, "vendors")
      BY <3>1
    <3> QED BY Zenon, <3>2, <3>3, <3>4, <3>5 DEF Standing
  <2> QED BY <1>10, <2>1, <2>2, <2>3
<1> QED BY <1>10, <1>11, <1>12, <1>13

\* The grade of a lead, from its points.
LEMMA GradeIs ==
  ASSUME NEW l, NEW s \in Nat, NEW m \in Nat, NEW n \in Nat, NEW a \in Nat,
         s = Grading!score(l), m = Grading!scoreMax(l), n = Grading!needPoints(l),
              a = Grading!attainableNeed(l)
  PROVE  /\ Grading!gradePct(l) = (200 * s + m) \div (2 * m)
         /\ Grading!Unproven(l) <=> n = 0 \/ (n < 25 /\ n < a)
<1>1. Grading!gradePct(l) = (200 * s + m) \div (2 * m)
  BY DEF Grading!gradePct
<1>2. Grading!hotNeedFloor(a) = IF 25 <= a THEN 25 ELSE a
  <2>1. Grading!hotNeedFloor(a) = Grading!Min({25, a})
    BY DEF Grading!hotNeedFloor, Grading!HOT_MIN_NEED_POINTS
  <2>2. CASE 25 <= a
    <3>1. \E x \in {25, a} : \A y \in {25, a} : x <= y
      BY <2>2
    <3> QED BY <2>1, <2>2, <3>1 DEF Grading!Min
  <2>3. CASE ~(25 <= a)
    <3>1. \E x \in {25, a} : \A y \in {25, a} : x <= y
      BY <2>3
    <3> QED BY <2>1, <2>3, <3>1 DEF Grading!Min
  <2> QED BY <2>2, <2>3
<1>3. Grading!Unproven(l) <=> n <= 0 \/ n < Grading!hotNeedFloor(a)
  BY DEF Grading!Unproven
<1> QED BY <1>1, <1>2, <1>3

\* The tier, from the share and the need,
LEMMA TierIs ==
  ASSUME NEW l, NEW p \in Nat, p = Grading!gradePct(l)
  PROVE  /\ Grading!tier(l) \in {"HOT", "WARM", "COOL"}
         /\ Grading!tier(l) = "HOT" <=> p >= 70 /\ ~Grading!Unproven(l)
         /\ p >= 70 /\ Grading!needPoints(l) > 0 => Grading!tier(l) \in {"HOT", "WARM"}
         /\ p < 70 => Grading!tier(l) = IF p >= 40 THEN "WARM" ELSE "COOL"
<1>1. CASE p >= 70
  <2>1. Grading!tierFor(l) = "HOT"
    BY <1>1 DEF Grading!tierFor
  <2> QED BY <1>1, <2>1 DEF Grading!tier
<1>2. CASE p < 70
  <2>1. Grading!tierFor(l) = IF p >= 40 THEN "WARM" ELSE "COOL"
    BY <1>2 DEF Grading!tierFor
  <2> QED BY <1>2, <2>1 DEF Grading!tier
<1> QED BY <1>1, <1>2

\* and its rank.
LEMMA RankIs ==
  Grading!TIER_RANK("HOT") = 3 /\ Grading!TIER_RANK("WARM") = 2 /\ Grading!TIER_RANK("COOL") = 1
BY DEF Grading!TIER_RANK

\* The numbers of a grade, together.
LEMMA NumbersAre ==
  ASSUME GradeTypes, NEW l
  PROVE  /\ Grading!score(l) \in Nat /\ Grading!scoreMax(l) \in Nat \ {0}
              /\ Grading!score(l) <= Grading!scoreMax(l)
         /\ Grading!needPoints(l) \in Nat /\ Grading!attainableNeed(l) \in Nat
         /\ Grading!needPoints(l) <= Grading!attainableNeed(l)
         /\ Grading!scoreMax(l) = Grading!attainableNeed(l) + 30
         /\ Grading!gradePct(l) \in Nat
<1>1. PICK reach \in 0..30 :
        /\ Grading!score(l) = Grading!needPoints(l) + reach
        /\ Grading!scoreMax(l) = Grading!attainableNeed(l) + 30
  BY ScoreAttainable
<1>2. /\ Grading!needPoints(l) \in Nat /\ Grading!attainableNeed(l) \in Nat
      /\ Grading!needPoints(l) <= Grading!attainableNeed(l)
  BY NeedAttainable
<1>3. Grading!score(l) \in Nat /\ Grading!scoreMax(l) \in Nat \ {0}
        /\ Grading!score(l) <= Grading!scoreMax(l)
  BY <1>1, <1>2
<1>4. Grading!gradePct(l) \in Nat
  BY <1>2, <1>3, GradeIs, ShareGrows
<1> QED BY <1>1, <1>2, <1>3, <1>4

\* What changed lowers neither the share nor the tier.
LEMMA ChangeLifts ==
  ASSUME GradeTypes
  PROVE  Grading!ChangeRaises
<1> DEFINE before == [lead EXCEPT !["changes"] = "none"]
           s == Grading!score(before)  m == Grading!scoreMax(before)
           n == Grading!needPoints(before)  a == Grading!attainableNeed(before)
           p == Grading!gradePct(before)  q == Grading!gradePct(lead)
<1>1. PICK c \in Nat :
        /\ Grading!needPoints(lead) = n + c
        /\ Grading!score(lead) = s + c
        /\ Grading!attainableNeed(lead) = a + c
  BY ChangeAdds
<1>2. /\ s \in Nat /\ m \in Nat \ {0} /\ s <= m /\ n \in Nat /\ a \in Nat /\ n <= a /\ m = a + 30
           /\ p \in Nat
  BY NumbersAre
<1>3. Grading!scoreMax(lead) = m + c /\ q \in Nat
  <2>1. Grading!scoreMax(lead) = Grading!attainableNeed(lead) + 30 /\ q \in Nat
    BY NumbersAre
  <2> HIDE DEF before, s, m, n, a, p, q
  <2> QED BY <1>1, <1>2, <2>1
<1>4. p = (200 * s + m) \div (2 * m) /\ (Grading!Unproven(before) <=> n = 0 \/ (n < 25 /\ n < a))
  BY <1>2, GradeIs
<1>5. q = (200 * (s + c) + (m + c)) \div (2 * (m + c)) /\ (Grading!Unproven(lead) <=> n + c = 0
        \/ (n + c < 25 /\ n + c < a + c))
  <2>1. s + c \in Nat /\ m + c \in Nat /\ n + c \in Nat /\ a + c \in Nat
    BY <1>2
  <2> QED BY <1>1, <1>3, <2>1, GradeIs
<1>6. /\ Grading!tier(before) \in {"HOT", "WARM", "COOL"}
      /\ Grading!tier(before) = "HOT" <=> p >= 70 /\ ~Grading!Unproven(before)
      /\ p >= 70 /\ n > 0 => Grading!tier(before) \in {"HOT", "WARM"}
      /\ p < 70 => Grading!tier(before) = IF p >= 40 THEN "WARM" ELSE "COOL"
  BY <1>2, TierIs
<1>7. /\ Grading!tier(lead) \in {"HOT", "WARM", "COOL"}
      /\ Grading!tier(lead) = "HOT" <=> q >= 70 /\ ~Grading!Unproven(lead)
      /\ q >= 70 /\ n + c > 0 => Grading!tier(lead) \in {"HOT", "WARM"}
      /\ q < 70 => Grading!tier(lead) = IF q >= 40 THEN "WARM" ELSE "COOL"
  BY <1>1, <1>3, TierIs
<1>8. q >= p
  <2> HIDE DEF s, m, p, q
  <2> QED BY <1>2, <1>4, <1>5, ShareGrows
<1>9. Grading!TIER_RANK(Grading!tier(lead)) >= Grading!TIER_RANK(Grading!tier(before))
  <2>1. CASE c = 0
    <3>1. s + c = s /\ m + c = m /\ n + c = n /\ a + c = a
      <4> HIDE DEF s, m, n, a
      <4> QED BY <1>2, <2>1
    <3>2. q = p /\ (Grading!Unproven(lead) <=> Grading!Unproven(before))
      BY <1>4, <1>5, <3>1
    <3>3. Grading!needPoints(lead) = n /\ Grading!attainableNeed(lead) = a
      BY <1>1, <3>1
    <3>4. Grading!tierFor(lead) = Grading!tierFor(before)
      BY <3>2 DEF Grading!tierFor
    <3>5. Grading!tier(lead) = Grading!tier(before)
      BY <3>2, <3>3, <3>4 DEF Grading!tier
    <3> QED BY <1>6, <3>5, RankIs
  <2>2. CASE c > 0
    <3> DEFINE tl == Grading!tier(lead)  tb == Grading!tier(before)
    <3>1. n + c > 0 /\ (Grading!Unproven(lead) => Grading!Unproven(before))
      <4> HIDE DEF n, a
      <4> QED BY <1>2, <1>4, <1>5, <2>2
    <3>2. tl = tb \/ tl = "HOT" \/ (tl = "WARM" /\ tb = "COOL")
      <4> HIDE DEF n, p, q, tl, tb
      <4> QED BY <1>2, <1>3, <1>6, <1>7, <1>8, <3>1 DEF tl, tb
    <3> QED BY <1>6, <1>7, <3>2, RankIs
  <2> QED BY <2>1, <2>2
<1> QED BY <1>8, <1>9 DEF Grading!ChangeRaises

\* No lead scores more than it could, and one that scores all of it is hot.
LEMMA TopIsHot ==
  ASSUME GradeTypes
  PROVE  Grading!CeilingHolds /\ Grading!TopIsReachable
<1> DEFINE s == Grading!score(lead)  m == Grading!scoreMax(lead)
           n == Grading!needPoints(lead)  a == Grading!attainableNeed(lead)  p == Grading!gradePct(lead)
<1>1. /\ s \in Nat /\ m \in Nat \ {0} /\ s <= m /\ n \in Nat /\ a \in Nat /\ n <= a /\ m = a + 30
           /\ p \in Nat
  BY NumbersAre
<1>2. PICK reach \in 0..30 : s = n + reach
  BY ScoreAttainable
<1>3. s = m /\ a > 0 => Grading!tier(lead) = "HOT"
  <2> SUFFICES ASSUME s = m, a > 0 PROVE Grading!tier(lead) = "HOT"
    OBVIOUS
  <2>1. n = a
    <3> HIDE DEF s, m, n, a
    <3> QED BY <1>1, <1>2
  <2>2. p = (200 * s + m) \div (2 * m) /\ (Grading!Unproven(lead) <=> n = 0 \/ (n < 25 /\ n < a))
    BY <1>1, GradeIs
  <2>3. p >= 100
    <3>1. (200 * s + m) \div (2 * m) >= 100
      <4> HIDE DEF s, m
      <4> QED BY <1>1, ShareGrows
    <3> QED BY <2>2, <3>1
  <2>4. ~Grading!Unproven(lead)
    <3> HIDE DEF n, a
    <3> QED BY <1>1, <2>1, <2>2
  <2>5. p >= 70
    <3> HIDE DEF p
    <3> QED BY <1>1, <2>3
  <2> QED BY <1>1, <2>4, <2>5, TierIs
<1> QED BY <1>1, <1>3 DEF Grading!CeilingHolds, Grading!TopIsReachable

----------------------------------------------------------------------------
\* The part runs in behaviours of its own.
GradeHold == scene = "grades" => GradeTypes

\* So its types are an invariant of the whole.
LEMMA GradeAlways == SceneSpec => []GradeHold
<1>1. SceneInit => GradeHold
  <2> SUFFICES ASSUME SceneInit, scene = "grades" PROVE GradeTypes
    BY DEF GradeHold
  <2>1. Grading!Init
    BY DEF SceneInit
  <2> QED BY <2>1 DEF Grading!Init, GradeTypes
<1>2. GradeHold /\ [SceneNext]_sceneVars => GradeHold'
  <2> SUFFICES ASSUME GradeHold, [SceneNext]_sceneVars, scene' = "grades" PROVE GradeTypes'
    BY DEF GradeHold
  <2>1. CASE UNCHANGED sceneVars
    <3>1. UNCHANGED <<scene, lead, playbook>>
      BY <2>1 DEF sceneVars, GradesOnly
    <3> QED BY <3>1 DEF GradeHold, GradeTypes, Grading!Listing, Grading!PLAYBOOKS
  <2>2. CASE SceneNext
    <3>1. scene = "grades" /\ Grading!Next
      BY <2>2 DEF SceneNext
    <3>2. GradeTypes
      BY <3>1 DEF GradeHold
    <3>3. PICK field, value : Grading!Learn(field, value)
      BY <3>1, Zenon DEF Grading!Next
    <3>4. lead' = [lead EXCEPT ![field] = value] /\ playbook' = playbook
      BY <3>3 DEF Grading!Learn
    <3>5. DOMAIN lead' = DOMAIN lead
      BY <3>4
    <3> QED BY <3>2, <3>4, <3>5 DEF GradeTypes, Grading!Listing, Grading!PLAYBOOKS
  <2> QED BY <2>1, <2>2
<1> QED BY <1>1, <1>2, PTL DEF SceneSpec

\* No lead scores more than could be attained for it, none is graded the lower for having
\* changed, and one of which all that was checked speaks for the sale, and which can be reached,
\* is hot, on every playbook and in whatever order the checks come back (lib/score.ts).
THEOREM GradesAreHonest == SceneSpec => []GradeHonest
<1>1. GradeHold => GradeHonest
  BY ChangeLifts, TopIsHot DEF GradeHold, GradeHonest
<1> QED BY <1>1, GradeAlways, PTL

==============================================================================
