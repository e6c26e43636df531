------------------------------ MODULE Dashboard ------------------------------
(***************************************************************************)
(* The search screen as it lives in the browser: the form, the results, the*)
(* credit balance beside them, and the calls it has out. Nothing queues the*)
(* calls: only the submit button waits for the search before it, so answers*)
(* land in any order on whatever is on the screen by then. The server is   *)
(* reduced to what its answers hold (Search, Paid and CreditLedger model   *)
(* what it does).                                                          *)
(***************************************************************************)
EXTENDS Naturals, Sequences, FiniteSets, SequencesExt, FiniteSetsExt

CONSTANTS
  Queries, Leads, Found(_),  \* what can be asked; Found(q) is the leads the server ranks for q
  PageSize, Money,           \* `limit`, and the credits to begin with
  Slots, MAX_POLLS,          \* calls at once; polls after a checkout
  MaxCalls, MaxTroubles      \* bounds on calls, and on calls that fail or are cut off

VARIABLES
  form, watch,               \* the fields of the form; activeWatchlist, by its market
  result,                    \* what is shown: None, or the query, the leads in order, how many remain
  open, dead,                \* cards shown open; cards corrected to "not deliverable"
  paidIds, credits,          \* cards that offer "View"; the balance of credit-store
  loading, loadingMore, unlocking, exporting,
  call,                      \* [Slots -> the call there, or Free]
  last,                      \* the query of the last search that was run
  wallet, bought, skipped,   \* the server: the balance, what is owned, what it found dead,
  reported, revealed,        \* what was reported, and whose owner was revealed
  back,                      \* CheckoutReturn: its step, polls, first balance, whether it confirmed
  applied, mixed, calls, troubles

screen == <<form, watch, result, open, dead, paidIds, credits, loading, loadingMore, unlocking, exporting>>
server == <<wallet, bought, skipped, reported, revealed, applied>>
vars == <<screen, call, last, server, back, mixed, calls, troubles>>

None == "none"
Free == [kind |-> "free"]
Unseen == [q |-> None, leads |-> <<>>, remaining |-> 0]
Idle == [at |-> "idle", polls |-> 0, seen |-> FALSE, before |-> 0, arrived |-> FALSE]

Init ==
  /\ form \in Queries /\ watch = None /\ result = Unseen
  /\ open = {} /\ dead = {} /\ paidIds = {} /\ credits = Money
  /\ loading = FALSE /\ loadingMore = FALSE /\ unlocking = FALSE /\ exporting = FALSE
  /\ call = [s \in Slots |-> Free] /\ last = None
  /\ wallet = Money /\ bought = {} /\ skipped = {} /\ reported = {} /\ revealed = {} /\ applied = FALSE
  \* Either a plain visit, or the page Stripe sends the customer back to, where less is done.
  /\ \/ back = Idle /\ calls = 0
     \/ back = [Idle EXCEPT !.at = "poll"] /\ calls = 1
  /\ mixed = FALSE /\ troubles = 0

Shown == ToSet(result.leads)
Out(kinds) == { s \in Slots : call[s].kind \in kinds }

\* A call goes out into a slot nobody uses.
Send(s, c) ==
  /\ call[s] = Free /\ calls < MaxCalls /\ calls' = calls + 1
  /\ call' = [call EXCEPT ![s] = c]
  /\ UNCHANGED troubles

----------------------------------------------------------------------------
(* What the user does.                                                     *)

\* Typing into the form. The watchlist that was opened stays the active one.
Type(q) ==
  /\ form # q /\ form' = q
  /\ UNCHANGED <<watch, result, open, dead, paidIds, credits, loading, loadingMore, unlocking, exporting,
                 call, last, server, back, mixed, calls, troubles>>

Cleared == Unseen

\* run: a search clears the screen and goes out, with whichever watchlist is active.
run(s, q, w) ==
  /\ Send(s, [kind |-> "search", at |-> "sent", q |-> q, watch |-> w, from |-> 0])
  /\ form' = q /\ watch' = w /\ last' = q /\ loading' = TRUE /\ result' = Cleared /\ open' = {} /\ dead' = {}
  /\ mixed' = (mixed \/ Out({"search", "page"}) # {})
  /\ UNCHANGED <<paidIds, credits, loadingMore, unlocking, exporting, server, back>>

\* The submit button waits for the search before it; a chip, and a watchlist, do not.
Submit(s) == ~loading /\ run(s, form, watch)
Chip(s, q) == (result.q # None \/ loading) /\ run(s, q, watch)
openWatchlist(s, q) == run(s, q, q)

\* Load more asks for the rest by the fields as they are now, from as many as are shown.
LoadMore(s) ==
  /\ ~loading /\ ~loadingMore /\ result.remaining > 0
  /\ Send(s, [kind |-> "page", at |-> "sent", q |-> form, watch |-> watch, from |-> Len(result.leads)])
  /\ loadingMore' = TRUE
  /\ mixed' = (mixed \/ form # result.q \/ Out({"search", "page"}) # {})
  /\ UNCHANGED <<form, watch, result, open, dead, paidIds, credits, loading, unlocking, exporting, last, server, back>>

\* The filters beside the results leave any of the cards.
Visible == SUBSET Shown \ {{}}

\* unlock: one card at a time. exportLeads: every card the filters leave.
unlock(s, l) ==
  /\ ~unlocking /\ l \in Shown \ open
  /\ Send(s, [kind |-> "unlock", at |-> "sent", ids |-> {l}])
  /\ unlocking' = TRUE
  /\ UNCHANGED <<form, watch, result, open, dead, paidIds, credits, loading, loadingMore, exporting, last, server, back, mixed>>
exportLeads(s) ==
  /\ ~exporting
  /\ \E ids \in Visible : Send(s, [kind |-> "export", at |-> "sent", ids |-> ids])
  /\ exporting' = TRUE
  /\ UNCHANGED <<form, watch, result, open, dead, paidIds, credits, loading, loadingMore, unlocking, last, server, back, mixed>>

\* In an open lead's dialog: its owner may be revealed for a credit, or the lead reported.
ask(s, kind, l) ==
  /\ l \in open /\ \A t \in Out({kind}) : l \notin call[t].ids
  /\ Send(s, [kind |-> kind, at |-> "sent", ids |-> {l}])
  /\ UNCHANGED <<screen, last, server, back, mixed>>
revealOwner(s, l) == ask(s, "reveal", l)
ReportLead(s, l) == ask(s, "report", l)

----------------------------------------------------------------------------
(* What the server answers. It ranks from scratch every time, by grades    *)
(* that may have moved since the page before.                              *)

Ranked(q) == SetToSeqs(Found(q))
Page(order, from) == SubSeq(order, from + 1, Min({Len(order), from + PageSize}))

AnswerSearch(s) ==
  /\ call[s].kind \in {"search", "page"} /\ call[s].at = "sent"
  /\ \E order \in Ranked(call[s].q) :
       LET page == Page(order, call[s].from) IN
       call' = [call EXCEPT ![s] = [kind |-> call[s].kind, at |-> "served", q |-> call[s].q,
                                    leads |-> page, owned |-> ToSet(page) \cap bought, credits |-> {wallet},
                                    remaining |-> Max({0, Len(order) - call[s].from - PageSize})]]
  /\ UNCHANGED <<screen, last, server, back, mixed, calls, troubles>>

\* The paid check finds some of the asked leads dead, unless they are owned; the rest are charged together.
AnswerSale(s) ==
  /\ call[s].kind \in {"unlock", "export"} /\ call[s].at = "sent"
  /\ \E bad \in SUBSET (call[s].ids \ bought) :
       LET good == call[s].ids \ bad
           cost == Cardinality(good \ bought)
           outcome == IF good = {} THEN "unverifiable" ELSE IF cost > wallet THEN "insufficient" ELSE "sold"
           sold == outcome = "sold"
       IN /\ skipped' = skipped \cup bad
          /\ bought' = IF sold THEN bought \cup good ELSE bought
          /\ wallet' = IF sold THEN wallet - cost ELSE wallet
          /\ call' = [call EXCEPT ![s] = [kind |-> call[s].kind, at |-> "served", ids |-> call[s].ids, outcome |-> outcome,
                                          credits |-> IF outcome = "unverifiable" THEN {} ELSE {wallet'}]]
  /\ UNCHANGED <<screen, last, reported, revealed, applied, back, mixed, calls, troubles>>

\* An owner is charged once. A report gives the credit back once.
AnswerAsk(s) ==
  /\ call[s].kind \in {"reveal", "report"} /\ call[s].at = "sent"
  /\ LET new == call[s].ids \ (IF call[s].kind = "reveal" THEN revealed ELSE reported) IN
     /\ IF call[s].kind = "reveal"
        THEN /\ wallet' = IF wallet > 0 THEN wallet - Cardinality(new) ELSE wallet
             /\ revealed' = IF wallet > 0 THEN revealed \cup new ELSE revealed
             /\ UNCHANGED reported
        ELSE wallet' = wallet + Cardinality(new) /\ reported' = reported \cup new /\ UNCHANGED revealed
     /\ call' = [call EXCEPT ![s] = [kind |-> call[s].kind, at |-> "served", ids |-> call[s].ids, credits |-> {wallet'}]]
  /\ UNCHANGED <<screen, last, bought, skipped, applied, back, mixed, calls, troubles>>

\* The webhook grants what was bought at the checkout: one credit.
Apply ==
  /\ back.at # "idle" /\ ~applied
  /\ applied' = TRUE /\ wallet' = wallet + 1
  /\ UNCHANGED <<screen, call, last, bought, skipped, reported, revealed, back, mixed, calls, troubles>>

----------------------------------------------------------------------------
(* What an answer does to the screen when it lands.                        *)

\* Only what an answer says: the browser never guesses.
setCredits(said) == credits' \in IF said = {} THEN {credits} ELSE said

\* Mutant: a page is put under the first without looking.
AllOf(old, new) == old \o new
\* The k-th of a set of positions, and of a page those leads in order that are not shown yet.
Nth(S, k) == CHOOSE i \in S : Cardinality({ j \in S : j <= i }) = k
Fresh(old, new) ==
  LET kept == { i \in DOMAIN new : new[i] \notin ToSet(old) }
  IN old \o [k \in 1..Cardinality(kept) |-> new[Nth(kept, k)]]

\* Whichever search ends first ends the waiting for all of them. A page is put under whatever is shown.
LandSearch(s) ==
  /\ call[s].kind \in {"search", "page"} /\ call[s].at = "served"
  /\ IF call[s].kind = "page" /\ result.q # None
     THEN /\ result' = [result EXCEPT !.leads = Fresh(@, call[s].leads), !.remaining = call[s].remaining]
          /\ open' = open \cup (call[s].owned \ Shown) /\ UNCHANGED dead
     ELSE /\ result' = [q |-> call[s].q, leads |-> call[s].leads, remaining |-> call[s].remaining]
          /\ open' = call[s].owned /\ dead' = {}
  /\ setCredits(call[s].credits)
  /\ loading' = FALSE /\ loadingMore' = FALSE
  /\ call' = [call EXCEPT ![s] = Free]
  /\ UNCHANGED <<form, watch, paidIds, unlocking, exporting, last, server, back, mixed, calls, troubles>>

\* A card that proved dead says so, and offers no "View" any more.
LandUnlock(s) ==
  /\ call[s].kind = "unlock" /\ call[s].at = "served"
  /\ open' = IF call[s].outcome = "sold" THEN open \cup (call[s].ids \cap Shown) ELSE open
  /\ dead' = IF call[s].outcome = "unverifiable" THEN dead \cup (call[s].ids \cap Shown) ELSE dead
  /\ paidIds' = IF call[s].outcome = "unverifiable" THEN paidIds \ call[s].ids ELSE paidIds
  /\ setCredits(call[s].credits) /\ unlocking' = FALSE
  /\ call' = [call EXCEPT ![s] = Free]
  /\ UNCHANGED <<form, watch, result, loading, loadingMore, exporting, last, server, back, mixed, calls, troubles>>

Marked(c) == IF c.outcome = "sold" THEN c.ids ELSE {}

LandExport(s) ==
  /\ call[s].kind = "export" /\ call[s].at = "served"
  /\ paidIds' = paidIds \cup Marked(call[s])
  /\ setCredits(call[s].credits) /\ exporting' = FALSE
  /\ call' = [call EXCEPT ![s] = Free]
  /\ UNCHANGED <<form, watch, result, open, dead, loading, loadingMore, unlocking, last, server, back, mixed, calls, troubles>>

LandAsk(s) ==
  /\ call[s].kind \in {"reveal", "report"} /\ call[s].at = "served"
  /\ setCredits(call[s].credits)
  /\ call' = [call EXCEPT ![s] = Free]
  /\ UNCHANGED <<form, watch, result, open, dead, paidIds, loading, loadingMore, unlocking, exporting,
                 last, server, back, mixed, calls, troubles>>

\* A call that fails, or whose answer is cut off by the function's limit, says so and stops waiting.
Fail(s) ==
  /\ call[s] # Free /\ troubles < MaxTroubles /\ troubles' = troubles + 1
  /\ LET kind == call[s].kind IN
       /\ loading' = (loading /\ kind \notin {"search", "page"})
       /\ loadingMore' = (loadingMore /\ kind \notin {"search", "page"})
       /\ unlocking' = (unlocking /\ kind # "unlock")
       /\ exporting' = (exporting /\ kind # "export")
  /\ call' = [call EXCEPT ![s] = Free]
  /\ UNCHANGED <<form, watch, result, open, dead, paidIds, credits, last, server, back, mixed, calls>>

----------------------------------------------------------------------------
(* CheckoutReturn: the balance is polled until it moves or the purchase is *)
(* known to be applied; after the last poll the reconcile route is asked   *)
(* once, and then the waiting is over.                                     *)

\* Mutant: the waiting being over counts as having arrived.
ArrivedAnyway(before) == TRUE
Arrived(before) == applied \/ wallet > before

Poll ==
  /\ back.at = "poll"
  /\ LET before == IF back.seen THEN back.before ELSE wallet
         more == IF back.polls + 1 < MAX_POLLS THEN "poll" ELSE "reconcile"
     IN \/ /\ back' = [at |-> IF Arrived(before) THEN "settled" ELSE more, polls |-> back.polls + 1,
                       seen |-> TRUE, before |-> before, arrived |-> Arrived(before)]
           /\ credits' = wallet /\ UNCHANGED troubles
        \/ /\ troubles < MaxTroubles /\ troubles' = troubles + 1
           /\ back' = [back EXCEPT !.at = more, !.polls = @ + 1] /\ UNCHANGED credits
  /\ UNCHANGED <<form, watch, result, open, dead, paidIds, loading, loadingMore, unlocking, exporting,
                 call, last, server, mixed, calls>>

\* The reconcile route finds what Stripe was paid for and grants what is missing, or fails to ask.
Reconcile ==
  /\ back.at = "reconcile"
  /\ \/ /\ applied' = TRUE /\ wallet' = IF applied THEN wallet ELSE wallet + 1
        /\ credits' = wallet' /\ back' = [back EXCEPT !.at = "settled", !.arrived = TRUE]
        /\ UNCHANGED troubles
     \/ /\ troubles < MaxTroubles /\ troubles' = troubles + 1
        /\ back' = [back EXCEPT !.at = "settled"] /\ UNCHANGED <<applied, wallet, credits>>
  /\ UNCHANGED <<form, watch, result, open, dead, paidIds, loading, loadingMore, unlocking, exporting,
                 call, last, bought, skipped, reported, revealed, mixed, calls>>

Next ==
  \/ \E q \in Queries : Type(q)
  \/ \E s \in Slots :
       \/ Submit(s) \/ LoadMore(s) \/ exportLeads(s)
       \/ \E q \in Queries : Chip(s, q) \/ openWatchlist(s, q)
       \/ \E l \in Leads : unlock(s, l) \/ revealOwner(s, l) \/ ReportLead(s, l)
       \/ AnswerSearch(s) \/ AnswerSale(s) \/ AnswerAsk(s) \/ LandSearch(s) \/ LandAsk(s) \/ LandUnlock(s) \/ LandExport(s) \/ Fail(s)
  \/ Apply \/ Poll \/ Reconcile
Spec == Init /\ [][Next]_vars

----------------------------------------------------------------------------

\* Never a lead twice on the screen, although every page is ranked again from scratch: "a lead
\* shown twice reads as a billing bug".
NoLeadTwice == IsInjective(result.leads)

\* Leads of one search only: unless a call was sent while another search was out, or the form
\* was edited before more was loaded, everything shown was found for what was last asked.
ShownAsAsked == ~mixed => Shown \subseteq (IF last = None THEN {} ELSE Found(last))

\* A card offers "View" only where the lead is owned, or where an export left it out as dead.
ViewMeansOwned == open \cup paidIds \subseteq bought \cup skipped

\* A confirmed purchase is an applied one: the screen never says the credits were added when the
\* customer was charged and given nothing, as long as no report gave a credit back meanwhile.
ConfirmedMeansApplied == back.arrived /\ reported = {} => applied

\* The words above run: a slow search cannot leave the previous answer on screen looking like
\* the new one. Once nothing is out, what is shown answers the search that was run last.
LastSearchShown == Out({"search", "page"}) = {} /\ result.q # None => result.q = last
=============================================================================
