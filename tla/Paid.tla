-------------------------------- MODULE Paid --------------------------------
(***************************************************************************)
(* The requests that sell: opening a lead, exporting a selection, revealing*)
(* an owner, and enriching a list. Each reads the lead's row once, checks  *)
(* it for money, writes the whole record back, and only then charges; the  *)
(* charge itself is one database function (see CreditLedger). Between any  *)
(* two calls another request may do the same to the same row.              *)
(***************************************************************************)
EXTENDS Naturals, FiniteSets, FiniteSetsExt

CONSTANTS
  Rows, Key(_),          \* saved leads of one account, and the business each is of
  Deeds,                 \* requests in flight at once
  LIST_ROWS, Money,      \* rows of the one list, credits to begin with
  MaxDeeds, MaxTroubles  \* bounds on requests, and on calls that fail

VARIABLES
  leads,                 \* [Rows -> the record kept in `raw`]
  bought, revealed,      \* unlocked keys, and owner_unlocks
  wallet, listPaid,      \* credits; what the list was charged, by its digest
  deed,                  \* each request: its step, its rows, its copies of their records
  given,                 \* what the last answer held
  checks, crossed,       \* paid checks of each row; rows that two requests had at once,
                         \* or whose write failed
  proven,                \* keys some paid check found reachable
  begun, troubles

vars == <<leads, bought, revealed, wallet, listPaid, deed, given, checks, crossed, proven, begun, troubles>>

Free == [at |-> "free"]
Nothing == [kind |-> "nothing"]
Keys == { Key(r) : r \in Rows }
At(d, step) == deed[d].at = step
Trouble == troubles < MaxTroubles /\ troubles' = troubles + 1
Calm == UNCHANGED troubles
Goto(d, step) == deed' = [deed EXCEPT ![d].at = step]

\* A lead as the search left it: its free check passed; nobody crawled its site.
Fresh == [contactVerifiedAt |-> FALSE, deliverable |-> TRUE, enrichedAt |-> FALSE, owner |-> "none"]
\* A lead verified before the crawl was part of the paid check.
Older == [Fresh EXCEPT !.contactVerifiedAt = TRUE]
\* The owner on record: "none" when nobody was asked or the site names nobody, "site" when the site
\* or the vendor names somebody, "registry" or "unfiled" once the state's filings were asked.
hasOwnerDetail(lead) == lead.owner \in {"site", "registry"}

Init ==
  /\ leads \in [Rows -> {Fresh, Older}]
  /\ bought = {} /\ revealed = {} /\ wallet = Money /\ listPaid = 0
  /\ deed = [d \in Deeds |-> Free] /\ given = Nothing
  /\ checks = [r \in Rows |-> 0] /\ crossed = {} /\ proven = { Key(r) : r \in { s \in Rows : leads[s] = Older } }
  /\ begun = 0 /\ troubles = 0

----------------------------------------------------------------------------

InHand(d) == IF "rows" \in DOMAIN deed[d] THEN deed[d].rows ELSE {}

\* The rows are read, the whole record of each, before anything else.
Open(d, kind, rows) ==
  /\ deed[d] = Free /\ begun < MaxDeeds /\ begun' = begun + 1
  /\ deed' = [deed EXCEPT ![d] = [at |-> IF kind = "list" THEN "balance" ELSE "owned", kind |-> kind, rows |-> rows,
                                  copy |-> [r \in rows |-> leads[r]], owned |-> {}, done |-> {}, n |-> 0]]
  /\ crossed' = crossed \cup (rows \cap UNION { InHand(e) : e \in Deeds })
  /\ UNCHANGED <<leads, bought, revealed, wallet, listPaid, given, checks, proven, troubles>>

\* hasUnlocked, or getUnlockedKeys: asked before the check, and not again. The owner route asks
\* no check: it wants the lead unlocked and the owner known.
AskOwned(d) ==
  /\ At(d, "owned")
  /\ LET mine == bought \cap { Key(r) : r \in deed[d].rows }
         refuse == deed[d].kind = "owner" /\
                   \E r \in deed[d].rows : Key(r) \notin bought \/ ~hasOwnerDetail(deed[d].copy[r])
     IN deed' = [deed EXCEPT ![d] = IF refuse THEN Free
                 ELSE [@ EXCEPT !.owned = mine, !.at = IF deed[d].kind = "owner" THEN "charge" ELSE "verify"]]
  /\ UNCHANGED <<leads, bought, revealed, wallet, listPaid, given, checks, crossed, proven, begun, troubles>>

\* verifyContact for money, and enrichOnce: the site is crawled, then the vendor asked. A crawl
\* that finds nothing is a crawl; enrichBusiness turns every failure into an empty answer.
enrichOnce(lead) == IF lead.enrichedAt THEN {lead}
                    ELSE { [lead EXCEPT !.enrichedAt = TRUE, !.owner = o] : o \in {"none", "site"} }
verifyContact(lead) == { [lead EXCEPT !.contactVerifiedAt = TRUE, !.deliverable = b] : b \in BOOLEAN }

NeedsVerifying(lead) == ~lead.contactVerifiedAt

verifyAndPersist(d, r) ==
  /\ At(d, "verify") /\ r \in deed[d].rows \ deed[d].done
  /\ IF NeedsVerifying(deed[d].copy[r])
     THEN \E checked \in UNION { enrichOnce(l) : l \in verifyContact(deed[d].copy[r]) } :
            /\ checks' = [checks EXCEPT ![r] = @ + 1]
            /\ proven' = IF checked.deliverable THEN proven \cup {Key(r)} ELSE proven
            /\ deed' = [deed EXCEPT ![d].copy[r] = checked, ![d].done = @ \cup {r}]
            /\ \/ leads' = [leads EXCEPT ![r] = checked] /\ Calm /\ UNCHANGED crossed
               \/ Trouble /\ crossed' = crossed \cup {r} /\ UNCHANGED leads
     ELSE deed' = [deed EXCEPT ![d].done = @ \cup {r}] /\ Calm /\ UNCHANGED <<leads, checks, proven, crossed>>
  /\ UNCHANGED <<bought, revealed, wallet, listPaid, given, begun>>

isDead(d, r) == ~deed[d].copy[r].deliverable /\ Key(r) \notin deed[d].owned

\* Mutant: the dead are dropped only from a file.
KeepDead(d) == IF deed[d].kind = "unlock" THEN deed[d].rows ELSE { r \in deed[d].rows : ~isDead(d, r) }
Sellable(d) == { r \in deed[d].rows : ~isDead(d, r) }

DropDead(d) ==
  /\ At(d, "verify") /\ deed[d].done = deed[d].rows
  /\ deed' = [deed EXCEPT ![d] = IF Sellable(d) = {} THEN Free
                ELSE [@ EXCEPT !.rows = Sellable(d), !.at = IF deed[d].kind = "unlock" THEN "crawl" ELSE "charge"]]
  /\ UNCHANGED <<leads, bought, revealed, wallet, listPaid, given, checks, crossed, proven, begun, troubles>>

\* Only opening: a site nobody crawled yet is crawled, against a budget, and where the page names
\* nobody the state's filings are asked. What was found is written over the row.
Crawled(lead) == { [lead EXCEPT !.enrichedAt = TRUE, !.owner = o] : o \in {"site", "registry", "unfiled"} }
Overdue(lead) == { [lead EXCEPT !.enrichedAt = TRUE, !.owner = "registry"], [lead EXCEPT !.owner = "unfiled"] }
Crawl(d) ==
  /\ At(d, "crawl")
  /\ LET r == CHOOSE s \in deed[d].rows : TRUE
         lead == deed[d].copy[r]
     IN \E found \in IF lead.enrichedAt THEN {lead} ELSE Crawled(lead) \cup Overdue(lead) :
          /\ deed' = [deed EXCEPT ![d].copy[r] = found, ![d].at = "charge"]
          /\ \/ /\ leads' = IF ~lead.enrichedAt /\ found.enrichedAt THEN [leads EXCEPT ![r] = found] ELSE leads
                /\ Calm
             \/ ~lead.enrichedAt /\ Trouble /\ UNCHANGED leads
  /\ UNCHANGED <<bought, revealed, wallet, listPaid, given, checks, crossed, proven, begun>>

\* What is charged: the keys not yet unlocked, counted by the database at the moment it charges.
Due(d) == { Key(r) : r \in deed[d].rows } \ bought

\* What an answer holds. An opened lead comes without its owner's fields; a file has them all.
Answer(d) == [kind |-> deed[d].kind,
              nameless |-> { r \in deed[d].rows : deed[d].copy[r].owner = "none" },
              owners |-> IF deed[d].kind = "unlock" THEN {} ELSE { r \in deed[d].rows : hasOwnerDetail(deed[d].copy[r]) }]

Charge(d) ==
  /\ At(d, "charge") /\ deed[d].kind \in {"unlock", "export"}
  /\ IF Cardinality(Due(d)) > wallet
     THEN UNCHANGED <<wallet, bought, given>>
     ELSE /\ wallet' = wallet - Cardinality(Due(d))
          /\ bought' = bought \cup { Key(r) : r \in deed[d].rows }
          /\ given' = Answer(d)
  /\ deed' = [deed EXCEPT ![d] = Free]
  /\ UNCHANGED <<leads, revealed, listPaid, checks, crossed, proven, begun, troubles>>

unlockOwner(d) ==
  /\ At(d, "charge") /\ deed[d].kind = "owner"
  /\ LET due == { Key(r) : r \in deed[d].rows } \ revealed IN
     IF Cardinality(due) > wallet THEN UNCHANGED <<wallet, revealed, given>>
     ELSE wallet' = wallet - Cardinality(due) /\ revealed' = revealed \cup due /\ given' = Answer(d)
  /\ deed' = [deed EXCEPT ![d] = Free]
  /\ UNCHANGED <<leads, bought, listPaid, checks, crossed, proven, begun, troubles>>

\* A list: the balance must cover every row; then the work; then the rows that were found are charged.
CheckBalance(d) ==
  /\ At(d, "balance")
  /\ deed' = [deed EXCEPT ![d] = IF wallet < LIST_ROWS THEN Free ELSE [@ EXCEPT !.at = "work"]]
  /\ UNCHANGED <<leads, bought, revealed, wallet, listPaid, given, checks, crossed, proven, begun, troubles>>
EnrichRows(d) ==
  /\ At(d, "work")
  /\ \E n \in 0..LIST_ROWS : deed' = [deed EXCEPT ![d].at = "spend", ![d].n = n]
  /\ UNCHANGED <<leads, bought, revealed, wallet, listPaid, given, checks, crossed, proven, begun, troubles>>

AlreadyPaid == listPaid > 0
spendCredits(d) ==
  /\ At(d, "spend")
  /\ LET n == deed[d].n
         free == n = 0 \/ AlreadyPaid
     IN /\ wallet' = IF free \/ n > wallet THEN wallet ELSE wallet - n
        /\ listPaid' = IF free \/ n > wallet THEN listPaid ELSE listPaid + n
        /\ given' = [kind |-> IF ~free /\ n > wallet THEN "refused" ELSE "list", nameless |-> {}, owners |-> {}]
  /\ deed' = [deed EXCEPT ![d] = Free]
  /\ UNCHANGED <<leads, bought, revealed, checks, crossed, proven, begun, troubles>>

\* The request dies: its instance is stopped at its time limit, or a call throws.
Die(d) ==
  /\ deed[d] # Free /\ Trouble
  /\ deed' = [deed EXCEPT ![d] = Free]
  /\ UNCHANGED <<leads, bought, revealed, wallet, listPaid, given, checks, crossed, proven, begun>>

Next ==
  \E d \in Deeds :
    \/ \E r \in Rows : Open(d, "unlock", {r}) \/ Open(d, "owner", {r}) \/ verifyAndPersist(d, r)
    \/ Open(d, "export", Rows) \/ Open(d, "list", {})
    \/ AskOwned(d) \/ DropDead(d) \/ Crawl(d) \/ Charge(d) \/ unlockOwner(d)
    \/ CheckBalance(d) \/ EnrichRows(d) \/ spendCredits(d) \/ Die(d)
Spec == Init /\ [][Next]_vars

----------------------------------------------------------------------------

\* Never charge for a lead that cannot be delivered: every business that was bought had, when it
\* was, been found reachable by a check that cost us money.
ChargedReachable == bought \subseteq proven

\* The paid check is a one-time cost: unless two requests had the row at once, or its write
\* failed, no row is checked for money twice, by whichever routes it comes back.
VerifiedOnce == \A r \in Rows \ crossed : checks[r] <= 1

\* Every credit that left went into something that stays: a lead, an owner, or a list's rows,
\* and the list is paid once however often it is sent again.
CreditsBuy == wallet + Cardinality(bought) + Cardinality(revealed) + listPaid = Money /\ listPaid <= LIST_ROWS

\* The words of the unlock route: opening a lead buys the business contact and the grading, not
\* the person; the owner block is sold separately.
OwnersAreSoldApart == given.kind # "nothing" => \A r \in given.owners : Key(r) \in revealed

\* The words of the unlock route: the filings are asked where the site never named anybody.
RegistryIsAsked == given.kind = "unlock" => given.nameless = {}

\* The words of the list route: when the balance changed during the run, hand back the work
\* without charging.
WorkIsHandedBack == given.kind # "refused"
=============================================================================
