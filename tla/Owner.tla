-------------------------------- MODULE Owner --------------------------------
(***************************************************************************)
(* Whose name a customer is given to ask for: what the business says on    *)
(* its own pages, else whom a data vendor returns, else whom a filing with *)
(* the state names. A wrong name is worse than none.                       *)
(***************************************************************************)
EXTENDS Integers, Sequences, FiniteSets, SequencesExt, FiniteSetsExt

CONSTANTS
  Contacts,    \* what a vendor may return of a person (MCRules)
  Filings,     \* what a state may publish of a business
  MaxReturned  \* bound on the contacts and the filings that come back

VARIABLES site, listing, contacts, filings, lead, stage
vars == <<site, listing, contacts, filings, lead, stage>>

Nobody == [source |-> "none", at |-> 0, mail |-> "none"]
Init ==
  /\ site \in {"silent", "names", "names_and_writes"} /\ listing \in [state : {"CO", "OR", "other"}, city : {"", "Salem"}]
  /\ contacts \in SeqOf(Contacts, MaxReturned) /\ filings \in SeqOf(Filings, MaxReturned)
  /\ Len(contacts) = 0 \/ Len(filings) = 0
  /\ lead = Nobody /\ stage = "crawl"

----------------------------------------------------------------------------
(* The vendor: only a person whose title means they run the business.      *)

OWNER_TITLES == <<"owner", "president">>
MIN_OWNER_CONFIDENCE == 70
\* Mutant: any title will do.
AnyTitle(c) == c.title # ""
isOwnerTitle(c) == c.title \in ToSet(OWNER_TITLES)
titleRank(c) == Min({ i \in DOMAIN OWNER_TITLES : OWNER_TITLES[i] = c.title } \cup {Len(OWNER_TITLES) + 1})

\* A mailbox that is nobody's, and a contact without a name or an address, are no people.
Owners == { i \in DOMAIN contacts : contacts[i].person /\ isOwnerTitle(contacts[i]) }
Outranks(i, j) ==
  LET a == contacts[i] b == contacts[j] IN
    \/ titleRank(a) < titleRank(b)
    \/ titleRank(a) = titleRank(b) /\ a.confidence > b.confidence
    \/ titleRank(a) = titleRank(b) /\ a.confidence = b.confidence /\ i < j
\* The most senior one, as a set, and nobody when the vendor is not sure of them.
pickOwnerContact ==
  { i \in Owners : contacts[i].confidence >= MIN_OWNER_CONFIDENCE /\ \A j \in Owners \ {i} : Outranks(i, j) }

----------------------------------------------------------------------------
(* The state: the filing of this business, of a human being.               *)

\* sameBusiness: equal once normalised, or one word longer.
sameBusiness(f) == f.extraWords <= 1
looksLikeAPerson(f) == f.agent = "person"

colorado(f) == sameBusiness(f) /\ (listing.city = "" \/ f.city \in {"", listing.city}) /\ looksLikeAPerson(f)
oregon(f) == sameBusiness(f) /\ looksLikeAPerson(f)
\* stateFromAddress, and the first row the adapter accepts.
lookupRegistryOwner ==
  LET fits == { i \in DOMAIN filings : \/ listing.state = "CO" /\ colorado(filings[i])
                                       \/ listing.state = "OR" /\ oregon(filings[i]) }
  IN IF fits = {} THEN {} ELSE {Min(fits)}

----------------------------------------------------------------------------
(* The first opening enriches the row, and the unlock crawls again, and    *)
(* asks the state, when that left nothing behind.                          *)

Said == site # "silent"
FromSite == IF Said THEN [Nobody EXCEPT !.source = "site", !.mail = IF site = "names_and_writes" THEN "guess" ELSE "none"] ELSE Nobody

\* enrichOnce: the crawl, which may come back with nothing or not come back at all.
Crawl ==
  /\ stage = "crawl"
  /\ \/ stage' = "vendor" /\ lead' \in {FromSite, Nobody}
     \/ stage' = "unenriched" /\ UNCHANGED lead
  /\ UNCHANGED <<site, listing, contacts, filings>>

FillFrom(i) ==
  [source |-> IF lead.source = "none" THEN "vendor" ELSE lead.source, at |-> IF lead.source = "none" THEN i ELSE lead.at,
   mail |-> IF lead.mail = "none" THEN "vendor" ELSE lead.mail]

\* enrichOnce: the vendor, which may not answer, fills in what the crawl left open. That is the end of it.
AskVendor ==
  /\ stage = "vendor" /\ stage' = "done"
  /\ \/ \E i \in pickOwnerContact : lead' = FillFrom(i)
     \/ UNCHANGED lead
  /\ UNCHANGED <<site, listing, contacts, filings>>

\* The unlock of a row that was never enriched: a crawl against the clock, and the registry.
CrawlAgain ==
  /\ stage = "unenriched" /\ stage' = "registry" /\ lead' \in {FromSite, Nobody}
  /\ UNCHANGED <<site, listing, contacts, filings>>

AskRegistry ==
  /\ stage = "registry" /\ stage' = "done"
  /\ \/ /\ lead.source = "none"
        /\ \E i \in lookupRegistryOwner : lead' = [lead EXCEPT !.source = "registry", !.at = i]
     \/ UNCHANGED lead
  /\ UNCHANGED <<site, listing, contacts, filings>>

Next == Crawl \/ AskVendor \/ CrawlAgain \/ AskRegistry
Spec == Init /\ [][Next]_vars

----------------------------------------------------------------------------

\* Attaching the wrong name is far worse than attaching none: a name from the vendor is of somebody
\* who runs the business, one from a filing is of a human being at a business of that name.
RightPerson ==
  /\ lead.source = "vendor" => contacts[lead.at].runsIt
  /\ lead.source = "registry" => filings[lead.at].agent = "person" /\ filings[lead.at].extraWords <= 1

\* The words over the registry: a city that agrees is one of the rules.
CityAgrees == lead.source = "registry" /\ listing.city # "" => filings[lead.at].city \in {"", listing.city}

\* The receipt under the owner's address: confirmed deliverable before it is shown, never a guess.
OwnerMailConfirmed == lead.mail # "vendor"
=============================================================================
