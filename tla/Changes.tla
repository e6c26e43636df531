------------------------------ MODULE Changes ------------------------------
(***************************************************************************)
(* The page of what changed: everything that moved lately at a business    *)
(* the customer opened, in words, and across the searches they saved, that *)
(* something moved, in words only where they opened the business. The page *)
(* is put together from several reads while leads are opened, searches run *)
(* and the nightly job files what it finds. How a change is found is in    *)
(* Search.                                                                 *)
(***************************************************************************)
EXTENDS Integers, Sequences, FiniteSets, SequencesExt, FiniteSetsExt

CONSTANTS
  Keys,        \* businesses, in the order of their keys
  Lists,       \* the searches the customer may save
  WITHIN_DAYS, \* how far back the page looks
  CHUNK,       \* how many keys one read may name
  MaxDay,      \* bound on the days
  MaxTriggers  \* bound on the changes that are filed

VARIABLES today, business_triggers, lead_unlocks, saved_searches, watchlist_seen, page
vars == <<today, business_triggers, lead_unlocks, saved_searches, watchlist_seen, page>>

URGENCY == [site_went_down |-> "act", vendor_adopted |-> "watch"]
TriggerKind == DOMAIN URGENCY

Empty == [at |-> "closed", since |-> 0, keys |-> {}, changes |-> {}, lists |-> {}, owned |-> {}, out |-> {}]
Init ==
  /\ today = 1 /\ business_triggers = {} /\ lead_unlocks = {} /\ saved_searches = {}
  /\ watchlist_seen = [l \in Lists |-> {}] /\ page = Empty

----------------------------------------------------------------------------
(* What goes on meanwhile.                                                 *)

\* recordTriggers: once per business, kind and day.
Detect ==
  /\ Cardinality(business_triggers) < MaxTriggers
  /\ \E k \in Keys, kind \in TriggerKind :
       business_triggers' = business_triggers \cup {[key |-> k, kind |-> kind, on |-> today]}
  /\ UNCHANGED <<today, lead_unlocks, saved_searches, watchlist_seen, page>>

Unlock ==
  /\ \E k \in Keys \ lead_unlocks : lead_unlocks' = lead_unlocks \cup {k}
  /\ UNCHANGED <<today, business_triggers, saved_searches, watchlist_seen, page>>

SaveSearch ==
  /\ \E l \in Lists \ saved_searches : saved_searches' = saved_searches \cup {l}
  /\ UNCHANGED <<today, business_triggers, lead_unlocks, watchlist_seen, page>>

\* A run of a saved search, and what it surfaces.
MarkSeen ==
  /\ \E l \in saved_searches, k \in Keys : watchlist_seen' = [watchlist_seen EXCEPT ![l] = @ \cup {k}]
  /\ UNCHANGED <<today, business_triggers, lead_unlocks, saved_searches, page>>

NextDay ==
  /\ page.at = "closed" /\ today < MaxDay /\ today' = today + 1
  /\ UNCHANGED <<business_triggers, lead_unlocks, saved_searches, watchlist_seen, page>>

----------------------------------------------------------------------------
(* The page.                                                               *)

\* Mutant: the last read is left out when it is not full.
WholeChunks(keys) == LET all == SetToSeq(keys) IN
  UNION { { all[i] : i \in (j + 1)..(j + CHUNK) } : j \in { n \in 0..Len(all) : n % CHUNK = 0 /\ n + CHUNK <= Len(all) } }
\* The keys that are read, so many at a time.
Chunks(keys) == LET all == SetToSeq(keys) IN
  UNION { { all[i] : i \in (j + 1)..Min({j + CHUNK, Len(all)}) } : j \in { n \in 0..Len(all) : n % CHUNK = 0 } }
Recent(keys) == { t \in business_triggers : t.key \in Chunks(keys) /\ t.on >= today - WITHIN_DAYS }

Page(at, next) == /\ page' = [next EXCEPT !.at = at]
                  /\ UNCHANGED <<today, business_triggers, lead_unlocks, saved_searches, watchlist_seen>>

\* changesForUser: first the businesses the customer opened,
ReadOwned == page.at = "closed" /\ Page("owned", [page EXCEPT !.keys = lead_unlocks, !.since = business_triggers])
\* then what moved at them. Nobody who opened nothing sees anything.
ReadChanges == page.at = "owned" /\ Page("changes", [page EXCEPT !.changes = Recent(page.keys)])
\* territoryChanges: the searches, and what was opened by now,
ReadLists == page.at = "changes" /\ Page("lists", [page EXCEPT !.lists = saved_searches])
ReadOwnedAgain == page.at = "lists" /\ Page("territory", [page EXCEPT !.owned = lead_unlocks])

Labelled(key) == key \in page.owned
\* The words are the product: only who paid for the business gets them.
Businesses(rows) ==
  { [key |-> k, count |-> Cardinality({ t \in rows : t.key = k }),
     labels |-> IF Labelled(k) THEN { t.kind : t \in { u \in rows : u.key = k } } ELSE {}] : k \in { t.key : t \in rows } }
Before(a, b) ==
  \/ a.labels # {} /\ b.labels = {}
  \/ (a.labels # {}) = (b.labels # {}) /\ a.count > b.count
  \/ (a.labels # {}) = (b.labels # {}) /\ a.count = b.count /\ a.key < b.key
\* The k-th of them has k - 1 before it.
InOrder(all) == [k \in 1..Cardinality(all) |-> CHOOSE b \in all : Cardinality({ a \in all : Before(a, b) }) = k - 1]
\* then search by search what it surfaced so far and what moved there, if anything did.
ReadTerritory ==
  /\ page.at = "territory"
  /\ \E l \in page.lists :
       LET all == Businesses(Recent(watchlist_seen[l])) IN
         Page("territory", [page EXCEPT !.lists = @ \ {l},
           !.out = IF all = {} THEN @ ELSE @ \cup {[list |-> l, changed |-> Cardinality(all),
             opened |-> Cardinality({ b \in all : b.labels # {} }), businesses |-> InOrder(all)]}])
Show == page.at = "territory" /\ page.lists = {} /\ Page("shown", page)
Close == page.at = "shown" /\ Page("closed", Empty)

partition == [act |-> { c \in page.changes : URGENCY[c.kind] = "act" }, watch |-> { c \in page.changes : URGENCY[c.kind] # "act" }]

Next == \/ Detect \/ Unlock \/ SaveSearch \/ MarkSeen \/ NextDay
        \/ ReadOwned \/ ReadChanges \/ ReadLists \/ ReadOwnedAgain \/ ReadTerritory \/ Show \/ Close
Spec == Init /\ [][Next]_vars

----------------------------------------------------------------------------

\* The words of a change reach only who paid for the business, whatever is opened and
\* found between the reads of the page.
WordsArePaidFor ==
  /\ \A c \in page.changes : c.key \in lead_unlocks
  /\ \A t \in page.out : \A i \in DOMAIN t.businesses : t.businesses[i].labels # {} => t.businesses[i].key \in lead_unlocks

\* Nothing that had moved by the time the page was asked for is left out of it, however
\* many businesses the customer opened: it is under one of the two headings.
NothingSkipped ==
  page.at = "shown" => \A t \in page.since : t.key \in page.keys /\ t.on >= today - WITHIN_DAYS =>
                         t \in partition.act \cup partition.watch

\* The words over the order of a search's businesses: urgency first.
UrgencyFirst ==
  \A t \in page.out : \A i, j \in DOMAIN t.businesses :
    "site_went_down" \in t.businesses[j].labels /\ "site_went_down" \notin t.businesses[i].labels => j < i
=============================================================================
