------------------------------ MODULE Billing ------------------------------
(***************************************************************************)
(* Stripe and our copy of what it sold.  Stripe keeps checkout sessions    *)
(* and subscriptions and sends events about them, late, twice or never.    *)
(* A request of ours (a webhook, the reconciliation a browser asks for, a  *)
(* change of seats, the deletion of an account) is a list of steps: one    *)
(* per call it awaits, between which the others run.                       *)
(***************************************************************************)
EXTENDS Pricing, Sequences, SequencesExt

CONSTANTS
  Users,
  Sessions,     \* checkout sessions
  Subs,         \* subscriptions
  Buyer, Kind, Credits, SubOf,  \* who opens a session, for what, and what it starts
  Requests,     \* requests that may be in flight together
  SeatCounts,
  Year,         \* months a payment covers
  MaxNow,       \* bound: months that pass
  MaxFaults,    \* bound: calls that fail and messages that go missing
  MaxVisits,    \* bound: requests the customer's own browser makes
  PastDue,      \* whether a renewal may fail
  None

VARIABLES
  now,          \* the month
  session,      \* Stripe: state of each checkout session
  sub,          \* Stripe: each subscription
  pending,      \* Stripe: events not acknowledged yet
  row,          \* our subscriptions table
  ledger,       \* our credit_ledger, the rows purchases write
  req,          \* the requests in flight
  gone,         \* accounts deleted
  lost,         \* events never delivered, and answers of Stripe never written down
  faults, visits

stripe == <<session, sub, pending>>
ours == <<row, ledger, gone>>
counts == <<lost, faults, visits>>
vars == <<now, stripe, ours, req, counts>>

Event == [about : {"session"}, id : Sessions] \cup [about : {"sub"}, id : Subs]
Subscription ==
  [ status : {"active", "past_due", "canceled"}, period : 0..(MaxNow + Year),
    cancel : BOOLEAN, seats : SeatCounts, user : Users ]
Row == [ id : Subs, status : {"active", "past_due", "canceled"},
         period : 0..(MaxNow + Year), cancel : BOOLEAN, seats : SeatCounts ]

\* Sessions and subscriptions are finite lists; a checkout is somebody's, and who has no
\* subscription is told from who has one.
ASSUME BillingAssumption ==
  /\ Year \in Nat /\ MaxNow \in Nat /\ 1 \in SeatCounts
  /\ IsFiniteSet(Sessions) /\ IsFiniteSet(Subs)
  /\ \A k \in Sessions : Buyer[k] \in Users /\ SubOf[k] \in Subs /\ Credits[k] \in Nat
  /\ None \notin Subscription \cup Row

Idle == [todo |-> <<>>, user |-> None, event |-> None, read |-> None]

Init ==
  /\ now = 0
  /\ session = [k \in Sessions |-> "none"]
  /\ sub = [s \in Subs |-> None]
  /\ pending = {}
  /\ row = [u \in Users |-> None]
  /\ ledger = {}
  /\ req = [r \in Requests |-> Idle]
  /\ gone = {}
  /\ lost = {}
  /\ faults = 0
  /\ visits = 0

About(kind, i) == [about |-> kind, id |-> i]
Step(what, i) == [do |-> what, id |-> i]
Active(u) == row[u] # None /\ activeUntil(row[u].status, row[u].period, now)
SumOf(rows) ==
  LET total[X \in SUBSET rows] ==
        IF X = {} THEN 0 ELSE LET e == CHOOSE x \in X : TRUE IN e.n + total[X \ {e}]
  IN  total[rows]
Purchased(u, month) == SumOf({ e \in ledger : e.user = u /\ e.reason = "purchase" /\ e.month = month })

-----------------------------------------------------------------------------
(* Stripe *)

\* The routes that open a checkout: a plan is not sold to somebody who has one
\* that renews, credits are sold to subscribers only.
OpenCheckout(k) ==
  /\ session[k] = "none" /\ Buyer[k] \notin gone
  /\ IF Kind[k] = "subscription"
     THEN ~(Active(Buyer[k]) /\ ~row[Buyer[k]].cancel)
     ELSE Active(Buyer[k])
  /\ session' = [session EXCEPT ![k] = "open"]
  /\ UNCHANGED <<now, sub, pending, ours, req, counts>>

\* The customer finishes; a slow method completes unpaid and is paid later.
Complete(k, paid) ==
  /\ session[k] = "open" \/ (session[k] = "processing" /\ paid)
  /\ session' = [session EXCEPT ![k] = IF paid THEN "paid" ELSE "processing"]
  /\ pending' = pending \cup {About("session", k)}
  /\ IF paid /\ Kind[k] = "subscription"
     THEN \E n \in SeatCounts :
            sub' = [sub EXCEPT ![SubOf[k]] = [status |-> "active", period |-> now + Year,
                                              cancel |-> FALSE, seats |-> n, user |-> Buyer[k]]]
     ELSE UNCHANGED sub
  /\ UNCHANGED <<now, ours, req, counts>>

SubChanges(s, with) ==
  /\ sub' = [sub EXCEPT ![s] = with]
  /\ pending' = pending \cup {About("sub", s)}
  /\ UNCHANGED <<now, session, ours, req, counts>>

\* At the end of a period a subscription is renewed, ends, or cannot be charged.
PeriodEnds(s) ==
  /\ sub[s] # None /\ sub[s].status # "canceled" /\ sub[s].period <= now
  /\ \/ sub[s].cancel /\ SubChanges(s, [sub[s] EXCEPT !.status = "canceled"])
     \/ ~sub[s].cancel /\ SubChanges(s, [sub[s] EXCEPT !.status = "active", !.period = now + Year])
     \/ PastDue /\ ~sub[s].cancel /\ sub[s].status = "active"
        /\ SubChanges(s, [sub[s] EXCEPT !.status = "past_due"])

CancelAtPeriodEnd(s) ==
  /\ sub[s] # None /\ sub[s].status = "active" /\ ~sub[s].cancel
  /\ SubChanges(s, [sub[s] EXCEPT !.cancel = TRUE])

LoseEvent(e) ==
  /\ e \in pending /\ faults < MaxFaults
  /\ pending' = pending \ {e}
  /\ lost' = lost \cup {e}
  /\ faults' = faults + 1
  /\ UNCHANGED <<now, session, sub, ours, req, visits>>

\* A month passes; Stripe charges what falls due before the next one does.
Tick ==
  /\ now < MaxNow
  /\ \A s \in Subs : sub[s] # None => (sub[s].status # "active" \/ sub[s].period > now)
  /\ now' = now + 1
  /\ UNCHANGED <<stripe, ours, req, counts>>

-----------------------------------------------------------------------------
(* Requests *)
Sync(s) == <<Step("retrieve", s)>>
Basket(k) ==
  IF Credits[k] = 0 THEN <<>>
  ELSE <<Step("purchase", k), Step("purchase_bonus", k), Step("total", k), Step("volume", k)>>

\* handleCheckoutCompleted, from Stripe's copy of the session
Checkout(k) ==
  IF session[k] # "paid" THEN <<>>
  ELSE (IF Kind[k] = "subscription" THEN Sync(SubOf[k]) ELSE <<>>) \o Basket(k)

Begin(r, u, e, steps) ==
  /\ req[r] = Idle
  /\ req' = [req EXCEPT ![r] = [todo |-> steps, user |-> u, event |-> e, read |-> None]]

\* handleInvoicePaid and handleSubscriptionChanged read the subscription again.
Webhook(r, e) ==
  /\ e \in pending
  /\ \A q \in Requests : req[q].event # e
  /\ IF e.about = "session" THEN Begin(r, Buyer[e.id], e, <<Step("session", e.id)>>)
     ELSE Begin(r, sub[e.id].user, e, Sync(e.id))
  /\ UNCHANGED <<now, stripe, ours, counts>>

Visit == visits < MaxVisits /\ visits' = visits + 1

Reconcile(r, u) ==
  /\ u \notin gone
  /\ \E k \in Sessions : Buyer[k] = u /\ session[k] \in {"processing", "paid"}
  /\ Visit
  /\ Begin(r, u, None, <<Step("subscriptions", u), Step("sessions", u)>>)
  /\ UNCHANGED <<now, stripe, ours, lost, faults>>

\* The route for seats changes the subscription our row names.
ChangeSeats(r, u) ==
  /\ u \notin gone /\ Active(u) /\ Visit
  /\ Begin(r, u, None, <<Step("quantity", row[u].id)>> \o Sync(row[u].id))
  /\ UNCHANGED <<now, stripe, ours, lost, faults>>

DeleteAccount(r, u) ==
  /\ u \notin gone
  /\ Visit
  /\ Begin(r, u, None, <<Step("find", u), Step("stop", u), Step("remove", u)>>)
  /\ UNCHANGED <<now, stripe, ours, lost, faults>>

\* The step at hand, the request going on with the steps `then`.
At(r, what) == req[r].todo # <<>> /\ Head(req[r].todo).do = what
Rest(r) == Tail(req[r].todo)
\* One with no step left is over, and acknowledges the event it was about.
Go(r, then, seen) ==
  req' = [req EXCEPT ![r] = IF then = <<>> THEN Idle ELSE [@ EXCEPT !.todo = then, !.read = seen]]
Answer(r, then) == IF then = <<>> THEN pending \ {req[r].event} ELSE pending

\* Go on without the next n steps.
Skip(r, n) ==
  LET then == SubSeq(req[r].todo, n + 1, Len(req[r].todo))
  IN  Go(r, then, None) /\ pending' = Answer(r, then)

ThrowAcknowledged(r) ==
  /\ req[r].todo # <<>> /\ faults < MaxFaults
  /\ faults' = faults + 1
  /\ pending' = pending \ {req[r].event}
  /\ req' = [req EXCEPT ![r] = Idle]
  /\ UNCHANGED <<now, session, sub, ours, lost, visits>>

\* One that throws does not: Stripe sends it again.  A deletion that fails stops.
Throw(r) ==
  /\ req[r].todo # <<>> /\ Head(req[r].todo).do \notin {"upsert", "seats"}
  /\ faults < MaxFaults
  /\ faults' = faults + 1
  /\ req' = [req EXCEPT ![r] = Idle]
  /\ UNCHANGED <<now, stripe, ours, lost, visits>>

Retrieve(r) ==
  /\ At(r, "session")
  /\ LET then == Checkout(Head(req[r].todo).id) \o Rest(r)
     IN  Go(r, then, None) /\ pending' = Answer(r, then)
  /\ UNCHANGED <<now, session, sub, ours, counts>>

ListSubscriptions(r) ==
  /\ At(r, "subscriptions")
  /\ \E order \in SetToSeqs({ s \in Subs : sub[s] # None /\ sub[s].user = req[r].user
                                              /\ sub[s].status \in {"active", "past_due"} }) :
       Go(r, [i \in 1..Len(order) |-> Step("retrieve", order[i])] \o Rest(r), None)
  /\ UNCHANGED <<now, stripe, ours, counts>>

ListSessions(r) ==
  /\ At(r, "sessions")
  /\ \E order \in SetToSeqs({ k \in Sessions : Buyer[k] = req[r].user /\ session[k] = "paid" }) :
       Go(r, [i \in 1..Len(order) |-> Step("session", order[i])] \o Rest(r), None)
  /\ UNCHANGED <<now, stripe, ours, counts>>

\* syncSubscription: read Stripe, write the row, then the seats in a second call.
ReadSubscription(r) ==
  /\ At(r, "retrieve")
  /\ LET s == Head(req[r].todo).id
     IN  Go(r, <<Step("upsert", s), Step("seats", s)>> \o Rest(r), sub[s])
  /\ UNCHANGED <<now, stripe, ours, counts>>

UpsertedAsRead(u, s, read) ==
  [ id |-> s, status |-> read.status, cancel |-> read.cancel, period |-> read.period,
    seats |-> IF row[u] = None THEN 1 ELSE row[u].seats ]

Upserted(u, s, read) ==
  [ id |-> s, status |-> read.status, cancel |-> read.cancel,
    period |-> IF row[u] # None /\ row[u].period > read.period THEN row[u].period ELSE read.period,
    seats |-> IF row[u] = None THEN 1 ELSE row[u].seats ]

\* A write that fails is logged, not thrown: the request goes on without it.
WriteSubscription(r) ==
  /\ At(r, "upsert")
  /\ LET u == req[r].user
     IN  \/ /\ u \notin gone
            /\ row' = [row EXCEPT ![u] = Upserted(u, Head(req[r].todo).id, req[r].read)]
            /\ Go(r, Rest(r), req[r].read)
            /\ UNCHANGED <<faults, lost, pending>>
         \/ /\ u \in gone
            /\ Skip(r, 2)
            /\ UNCHANGED <<row, faults, lost>>
         \/ /\ faults < MaxFaults
            /\ faults' = faults + 1
            /\ lost' = lost \cup {About("sub", Head(req[r].todo).id)}
            /\ Skip(r, 2)
            /\ UNCHANGED row
  /\ UNCHANGED <<now, session, sub, ledger, gone, visits>>

WriteSeats(r) ==
  /\ At(r, "seats")
  /\ LET u == req[r].user
     IN  \/ /\ row' = IF row[u] = None THEN row
                      ELSE [row EXCEPT ![u].seats = req[r].read.seats]
            /\ UNCHANGED faults
         \/ /\ faults < MaxFaults
            /\ faults' = faults + 1
            /\ UNCHANGED row
  /\ Skip(r, 1)
  /\ UNCHANGED <<now, session, sub, ledger, gone, lost, visits>>

\* grant_credits: once per account, reason and reference.  An account that is gone
\* is an error no retry can mend, which ends the request as if it had been handled.
Grant(r, reason, ref, n) ==
  LET u == req[r].user
      booked == \E e \in ledger : e.user = u /\ e.reason = reason /\ e.ref = ref
  IN  /\ ledger' = IF u \in gone \/ booked \/ n <= 0 THEN ledger
                   ELSE ledger \cup {[user |-> u, reason |-> reason, ref |-> ref, n |-> n, month |-> now]}
      /\ Skip(r, IF u \in gone THEN Len(req[r].todo) ELSE 1)

GrantPurchase(r) ==
  /\ At(r, "purchase")
  /\ Grant(r, "purchase", Head(req[r].todo).id, Credits[Head(req[r].todo).id])
  /\ UNCHANGED <<now, session, sub, row, gone, counts>>

GrantBasketBonus(r) ==
  /\ At(r, "purchase_bonus")
  /\ LET k == Head(req[r].todo).id
     IN  Grant(r, "purchase_bonus", k, bonusForPurchase(Credits[k]))
  /\ UNCHANGED <<now, session, sub, row, gone, counts>>

\* maybeGrantVolumeBonus: two reads, then the grant for the month that was read.
ReadMonth(r) ==
  /\ At(r, "total")
  /\ Go(r, Rest(r), [due |-> bonusDue(Purchased(req[r].user, now), Active(req[r].user)), month |-> now])
  /\ UNCHANGED <<now, stripe, ours, counts>>

GrantVolumeBonus(r) ==
  /\ At(r, "volume")
  /\ Grant(r, "volume_bonus", req[r].read.month, IF req[r].read.due THEN VOLUME_BONUS_CREDITS ELSE 0)
  /\ UNCHANGED <<now, session, sub, row, gone, counts>>

SetQuantity(r) ==
  /\ At(r, "quantity")
  /\ LET s == Head(req[r].todo).id
     IN  \E n \in SeatCounts :
           /\ sub' = IF sub[s].status = "canceled" THEN sub ELSE [sub EXCEPT ![s].seats = n]
           /\ pending' = IF sub[s].status = "canceled" THEN pending ELSE pending \cup {About("sub", s)}
  /\ Go(r, Rest(r), None)
  /\ UNCHANGED <<now, session, ours, counts>>

\* deleteAccount: the subscription our row names is cancelled, then the account goes.
FindSubscription(r) ==
  /\ At(r, "find")
  /\ Go(r, Rest(r), row[req[r].user])
  /\ UNCHANGED <<now, stripe, ours, counts>>

StopSubscription(r) ==
  /\ At(r, "stop")
  /\ IF req[r].read = None \/ sub[req[r].read.id].status = "canceled" THEN UNCHANGED <<sub, pending>>
     ELSE /\ sub' = [sub EXCEPT ![req[r].read.id].status = "canceled"]
          /\ pending' = pending \cup {About("sub", req[r].read.id)}
  /\ Go(r, Rest(r), None)
  /\ UNCHANGED <<now, session, ours, counts>>

RemoveAccount(r) ==
  /\ At(r, "remove")
  /\ gone' = gone \cup {req[r].user}
  /\ row' = [row EXCEPT ![req[r].user] = None]
  /\ ledger' = { e \in ledger : e.user # req[r].user }
  /\ Go(r, Rest(r), None)
  /\ UNCHANGED <<now, stripe, counts>>

Work(r) ==
  \/ Retrieve(r) \/ ListSubscriptions(r) \/ ListSessions(r)
  \/ ReadSubscription(r) \/ WriteSubscription(r) \/ WriteSeats(r)
  \/ GrantPurchase(r) \/ GrantBasketBonus(r) \/ ReadMonth(r) \/ GrantVolumeBonus(r)
  \/ SetQuantity(r) \/ FindSubscription(r) \/ StopSubscription(r) \/ RemoveAccount(r)

StripeStep ==
  \/ \E k \in Sessions : OpenCheckout(k) \/ (\E paid \in BOOLEAN : Complete(k, paid))
  \/ \E s \in Subs : PeriodEnds(s) \/ CancelAtPeriodEnd(s)
  \/ \E e \in Event : LoseEvent(e)
  \/ Tick

Next ==
  \/ StripeStep
  \/ \E r \in Requests : Work(r) \/ Throw(r)
  \/ \E r \in Requests, e \in Event : Webhook(r, e)
  \/ \E r \in Requests, u \in Users : Reconcile(r, u) \/ ChangeSeats(r, u) \/ DeleteAccount(r, u)

\* Requests run to their end, and Stripe sends an event again until it is answered.
Spec ==
  /\ Init /\ [][Next]_vars
  /\ \A r \in Requests : WF_vars(Work(r))
  /\ \A e \in Event : SF_vars(\E r \in Requests : Webhook(r, e))

-----------------------------------------------------------------------------
(* Properties *)

\* Access that was paid for is not cut short: it ends because a month passes or the
\* account is closed, never because an answer of Stripe that is older, or about an
\* earlier subscription, is written last (upsert_subscription, getSubscription).
\* Only a subscription whose charge has failed shuts an account.
CutShort(u) == Active(u) /\ u \notin gone' /\ now' = now /\ ~Active(u)'
NeverCutShort == [][\A u \in Users : CutShort(u) => row'[u].status = "past_due"]_vars

\* The same with no exception, as the webhook route states it.
PaidThroughDate == [][\A u \in Users : ~CutShort(u)]_vars

\* A month's bonus was earned: the credits bought in that month reach the minimum,
\* and each bonus on a basket goes with its purchase (maybeGrantVolumeBonus).
BonusEarned ==
  /\ \A e \in ledger : e.reason = "volume_bonus" =>
       Purchased(e.user, e.ref) >= VOLUME_BONUS_MIN_CREDITS
  /\ \A e \in ledger : e.reason = "purchase_bonus" =>
       \E p \in ledger : p.user = e.user /\ p.reason = "purchase" /\ p.ref = e.ref

\* What was paid for is granted, basket bonus included, however often a handler
\* fails on the way (handleCheckoutCompleted), unless no event ever arrives.
Landed(k) ==
  \A what \in {"purchase", "purchase_bonus"} :
    \/ what = "purchase_bonus" /\ bonusForPurchase(Credits[k]) = 0
    \/ \E e \in ledger : e.user = Buyer[k] /\ e.reason = what /\ e.ref = k
PurchaseLands ==
  \A k \in Sessions :
    (session[k] = "paid" /\ Credits[k] > 0)
      ~> (Landed(k) \/ Buyer[k] \in gone \/ About("session", k) \in lost)
=============================================================================
