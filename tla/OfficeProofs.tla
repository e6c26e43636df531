---------------------------- MODULE OfficeProofs ----------------------------
(***************************************************************************)
(* Theorems about the parts Office puts together, each for any values of   *)
(* its constants: what was sold, accounts, CRM connections, letters, the   *)
(* desk and the screen. Each part has the types and an inductive invariant,*)
(* a lemma for every operation, and the theorems that follow.              *)
(***************************************************************************)
EXTENDS Office, TLAPS, FiniteSetTheorems, WellFoundedInduction

-----------------------------------------------------------------------------
(* Paid: a lead that was charged for could be reached. What is known of a  *)
(* row is written before the row is charged, and a request keeps its own   *)
(* copies: the invariant follows both, from the check to the charge.       *)

\* What a row and a request can hold.
LeadRecord == [contactVerifiedAt : BOOLEAN, deliverable : BOOLEAN, enrichedAt : BOOLEAN,
           owner : {"none", "site", "registry", "unfiled"}]
DealRecord == [at : {"owned", "verify", "crawl", "charge", "balance", "work", "spend"},
          kind : {"unlock", "owner", "export", "list"}, rows : SUBSET Rows,
          copy : UNION { [S -> LeadRecord] : S \in SUBSET Rows },
          owned : SUBSET Sales!Keys, done : SUBSET Rows, n : 0..LIST_ROWS]
\* A request is under way; a row of which a mailbox or a line was confirmed.
InDeal(d) == deed[d] # Sales!Free
Confirmed(lead) == lead.contactVerifiedAt = TRUE /\ lead.deliverable = TRUE

\* Type invariant of the paid routes.
SalesTypes ==
  /\ leads \in [Rows -> LeadRecord]
  /\ deed \in [Deeds -> {Sales!Free} \cup DealRecord]
  /\ \A d \in Deeds : InDeal(d) => deed[d].rows \subseteq DOMAIN deed[d].copy
  /\ bought \subseteq Sales!Keys /\ revealed \subseteq Sales!Keys
  /\ wallet \in Nat /\ listPaid \in 0..LIST_ROWS /\ checks \in [Rows -> Nat]
\* What a request believes of its rows was found: before the charge every row of it
\* that stays was proven reachable, and what it took for owned is owned.
DealReaches(d) ==
  InDeal(d) =>
    /\ \A r \in deed[d].rows : Confirmed(deed[d].copy[r]) => Key(r) \in proven
    /\ deed[d].owned \subseteq bought
    /\ deed[d].at \in {"owned", "verify"} =>
         deed[d].done \subseteq deed[d].rows
              /\ \A r \in deed[d].done : deed[d].copy[r].contactVerifiedAt = TRUE
    /\ deed[d].at = "crawl" => deed[d].rows # {}
    /\ deed[d].at \in {"crawl", "charge"} /\ deed[d].kind # "owner" =>
         \A r \in deed[d].rows : Key(r) \in proven
\* So are the rows themselves, and what was charged for.
SalesReach ==
  /\ \A r \in Rows : Confirmed(leads[r]) => Key(r) \in proven
  /\ Sales!ChargedReachable
  /\ \A d \in Deeds : DealReaches(d)
HoldsRow(d, r) == InDeal(d) /\ r \in deed[d].rows
\* A row no two requests crossed on was checked once, and its request knows what is filed.
SalesOnce ==
  \A r \in Rows \ crossed :
    /\ checks[r] <= 1
    /\ checks[r] = 1 => leads[r].contactVerifiedAt = TRUE
    /\ \A d \in Deeds : HoldsRow(d, r) => deed[d].copy[r].contactVerifiedAt = leads[r].contactVerifiedAt
    /\ \A d, e \in Deeds : HoldsRow(d, r) /\ HoldsRow(e, r) => d = e
\* The inductive invariant.
SalesInv == SalesTypes /\ SalesReach /\ SalesOnce /\ Sales!CreditsBuy

\* The instance counts as the standard module does.
LEMMA SalesCount == \A S : Sales!Cardinality(S) = Cardinality(S)
BY Zenon DEF Sales!Cardinality, Cardinality

\* There are finitely many businesses.
LEMMA KeysFinite == IsFiniteSet(Sales!Keys)
<1> DEFINE f == [r \in Rows |-> Key(r)]
<1>1. f \in Surjection(Rows, Sales!Keys)
  BY DEF Surjection, Sales!Keys
<1> QED BY <1>1, PaidAssumption, FS_Surjection

\* The fields of a request under way.
LEMMA DealFields ==
  ASSUME SalesTypes, NEW d \in Deeds, InDeal(d)
  PROVE  /\ deed[d] \in DealRecord /\ deed[d].rows \subseteq Rows /\ deed[d].n \in 0..LIST_ROWS
         /\ deed[d].done \subseteq Rows /\ deed[d].owned \subseteq Sales!Keys
         /\ DOMAIN deed[d] = {"at", "kind", "rows", "copy", "owned", "done", "n"}
         /\ \A r \in deed[d].rows : deed[d].copy[r] \in LeadRecord
         /\ \E S \in SUBSET Rows : deed[d].copy \in [S -> LeadRecord] /\ deed[d].rows \subseteq S
BY DEF SalesTypes, InDeal, DealRecord

\* A request at a step is under way.
LEMMA AtStep ==
  ASSUME SalesTypes, NEW d \in Deeds, NEW s, s # "free", Sales!At(d, s)
  PROVE  InDeal(d)
BY DEF Sales!At, InDeal, Sales!Free

\* The rows a request has in hand.
LEMMA InHandIs ==
  ASSUME SalesTypes, NEW d \in Deeds
  PROVE  Sales!InHand(d) = IF InDeal(d) THEN deed[d].rows ELSE {}
<1>1. CASE InDeal(d)
  BY <1>1, DealFields DEF Sales!InHand
<1>2. CASE ~InDeal(d)
  <2>1. DOMAIN deed[d] = {"at"}
    BY <1>2 DEF InDeal, Sales!Free
  <2> QED BY <1>2, <2>1 DEF Sales!InHand
<1> QED BY <1>1, <1>2

\* A request arrives.
LEMMA OpenKeeps ==
  ASSUME SalesInv, NEW d \in Deeds, NEW kind \in {"unlock", "owner", "export", "list"},
       NEW rows \in SUBSET Rows,
         Sales!Open(d, kind, rows)
  PROVE  SalesInv'
<1> DEFINE New == [at |-> IF kind = "list" THEN "balance" ELSE "owned", kind |-> kind, rows |-> rows,
                   copy |-> [r \in rows |-> leads[r]], owned |-> {}, done |-> {}, n |-> 0]
<1>1. SalesTypes
  BY DEF SalesInv
<1>2. /\ deed' = [deed EXCEPT ![d] = New]
           /\ crossed' = crossed \cup (rows \cap UNION { Sales!InHand(e) : e \in Deeds })
      /\ UNCHANGED <<leads, bought, revealed, wallet, listPaid, given, checks, proven, troubles>>
  BY DEF Sales!Open
<1>3. deed'[d] = New /\ \A e \in Deeds \ {d} : deed'[e] = deed[e]
  BY <1>1, <1>2 DEF SalesTypes
<1>4. New \in DealRecord /\ New # Sales!Free /\ rows = DOMAIN New.copy
  <2>1. [r \in rows |-> leads[r]] \in [rows -> LeadRecord]
    BY <1>1 DEF SalesTypes
  <2>2. [r \in rows |-> leads[r]] \in UNION { [S -> LeadRecord] : S \in SUBSET Rows }
    BY <2>1
  <2>3. New.kind # Sales!Free.kind \/ DOMAIN New # DOMAIN Sales!Free
    BY DEF Sales!Free
  <2> QED BY <2>2, <2>3, PaidAssumption DEF DealRecord
<1>5. ~InDeal(d)
  BY DEF Sales!Open, InDeal
<1> HIDE DEF New
<1>6. SalesTypes'
  BY <1>1, <1>2, <1>3, <1>4 DEF SalesTypes, InDeal, New
<1>7. SalesReach'
  BY <1>1, <1>2, <1>3, <1>4 DEF SalesReach, DealReaches, SalesInv, Confirmed, InDeal, SalesTypes, New,
       Sales!ChargedReachable
<1>8. SalesOnce'
  <2>1. \A r \in Rows \ crossed' : HoldsRow(d, r)' => \A e \in Deeds \ {d} : ~HoldsRow(e, r)
    <3> SUFFICES ASSUME NEW r \in Rows \ crossed', r \in rows, NEW e \in Deeds \ {d}, HoldsRow(e, r)
            PROVE FALSE
      BY <1>3 DEF HoldsRow, InDeal, New
    <3>1. r \in Sales!InHand(e)
      BY <1>1, InHandIs DEF HoldsRow
    <3> QED BY <1>2, <3>1
  <2>2. \A r \in rows : New.copy[r] = leads[r]
    BY DEF New
  <2>3. \A r, e : e \in Deeds \ {d} => (HoldsRow(e, r)' <=> HoldsRow(e, r))
    BY <1>3 DEF HoldsRow, InDeal
  <2>4. \A r : HoldsRow(d, r)' => r \in rows
    BY <1>3 DEF HoldsRow, InDeal, New
  <2> QED BY <1>2, <1>3, <2>1, <2>2, <2>3, <2>4 DEF SalesOnce, SalesInv
<1>9. Sales!CreditsBuy'
  BY <1>2 DEF SalesInv, Sales!CreditsBuy
<1> QED BY <1>6, <1>7, <1>8, <1>9 DEF SalesInv

\* What was bought can be counted.
LEMMA BooksAreSets ==
  ASSUME SalesTypes
  PROVE  /\ IsFiniteSet(bought) /\ IsFiniteSet(revealed)
         /\ Cardinality(bought) \in Nat /\ Cardinality(revealed) \in Nat
BY KeysFinite, FS_Subset, FS_CardinalityType DEF SalesTypes

\* A request steps, and nothing but its step, its rows or its books change.
LEMMA DealSteps ==
  ASSUME SalesInv, NEW d \in Deeds, InDeal(d), deed' = [deed EXCEPT ![d] = deed'[d]],
         NEW new \in DealRecord, deed'[d] = new, new.rows \subseteq deed[d].rows,
         deed[d].kind = new.kind, deed[d].copy = new.copy,
         new.done = deed[d].done, new.at = "verify" => deed[d].at = "owned"
              /\ new.rows = deed[d].rows, new.at # "owned",
         new.owned \subseteq bought, new.at = "crawl" => new.rows # {},
         new.at \in {"crawl", "charge"} /\ new.kind # "owner" => \A r \in new.rows : Key(r) \in proven,
         UNCHANGED <<leads, bought, proven, checks, crossed>>, wallet' \in Nat,
              listPaid' \in 0..LIST_ROWS,
         UNCHANGED revealed
  PROVE  SalesTypes' /\ SalesReach' /\ SalesOnce'
<1>1. SalesTypes
  BY DEF SalesInv
<1>2. deed'[d] = new /\ \A e \in Deeds \ {d} : deed'[e] = deed[e]
  BY <1>1 DEF SalesTypes
<1>3. new # Sales!Free
  <2>1. DOMAIN new = {"at", "kind", "rows", "copy", "owned", "done", "n"}
    BY DEF DealRecord
  <2> QED BY <2>1 DEF Sales!Free
<1>4. SalesTypes'
  BY <1>1, <1>2, <1>3 DEF SalesTypes, InDeal
<1>5. SalesReach'
  BY <1>1, <1>2, <1>3 DEF SalesReach, DealReaches, SalesInv, InDeal, Sales!ChargedReachable, Confirmed
<1>6. SalesOnce'
  BY <1>1, <1>2, <1>3 DEF SalesOnce, SalesInv, InDeal, HoldsRow
<1> QED BY <1>4, <1>5, <1>6

\* A request ends, paid or not.
LEMMA DealEnds ==
  ASSUME SalesInv, NEW d \in Deeds, InDeal(d), deed' = [deed EXCEPT ![d] = Sales!Free],
         UNCHANGED <<leads, proven, checks, crossed>>, wallet' \in Nat, listPaid' \in 0..LIST_ROWS,
         bought \subseteq bought', bought' \subseteq proven, bought' \subseteq Sales!Keys,
         revealed' \subseteq Sales!Keys
  PROVE  SalesTypes' /\ SalesReach' /\ SalesOnce'
<1>1. SalesTypes
  BY DEF SalesInv
<1>2. deed'[d] = Sales!Free /\ \A e \in Deeds \ {d} : deed'[e] = deed[e]
  BY <1>1 DEF SalesTypes
<1>4. SalesTypes'
  BY <1>1, <1>2 DEF SalesTypes, InDeal
<1>5. SalesReach'
  BY <1>1, <1>2 DEF SalesReach, DealReaches, SalesInv, InDeal, Sales!ChargedReachable, Confirmed
<1>6. SalesOnce'
  BY <1>1, <1>2 DEF SalesOnce, SalesInv, InDeal, HoldsRow
<1> QED BY <1>4, <1>5, <1>6

\* It asks what is owned already.
LEMMA AskOwnedKeeps ==
  ASSUME SalesInv, NEW d \in Deeds, Sales!AskOwned(d)
  PROVE  SalesInv'
<1>1. SalesTypes /\ InDeal(d)
  BY AtStep DEF SalesInv, Sales!AskOwned
<1>2. UNCHANGED <<leads, bought, revealed, wallet, listPaid, given, checks, crossed, proven, begun,
        troubles>>
  BY DEF Sales!AskOwned
<1>3. Sales!CreditsBuy'
  BY <1>2 DEF SalesInv, Sales!CreditsBuy
<1> DEFINE mine == bought \cap { Key(r) : r \in deed[d].rows }
           new == [deed[d] EXCEPT !.owned = mine, !.at = IF deed[d].kind = "owner" THEN "charge"
                ELSE "verify"]
<1>4. deed' = [deed EXCEPT ![d] = Sales!Free] \/ deed' = [deed EXCEPT ![d] = new]
  BY DEF Sales!AskOwned
<1>5. CASE deed' = [deed EXCEPT ![d] = Sales!Free]
  BY <1>1, <1>2, <1>3, <1>5, DealEnds DEF SalesInv, SalesTypes, SalesReach, Sales!ChargedReachable
<1>6. CASE deed' = [deed EXCEPT ![d] = new]
  <2>1. /\ new \in DealRecord /\ new.rows = deed[d].rows /\ new.kind = deed[d].kind
             /\ new.copy = deed[d].copy
        /\ new.done = deed[d].done /\ new.owned = mine
        /\ new.at = IF deed[d].kind = "owner" THEN "charge" ELSE "verify"
    <3>1. deed[d] \in DealRecord /\ mine \in SUBSET Sales!Keys
      BY <1>1, DealFields DEF SalesTypes
    <3> HIDE DEF mine
    <3> QED BY <3>1 DEF DealRecord
  <2> HIDE DEF new
  <2>2. deed'[d] = new
    BY <1>1, <1>6 DEF SalesTypes
  <2>3. deed[d].at = "owned"
    BY DEF Sales!AskOwned, Sales!At
  <2>4. wallet' \in Nat /\ listPaid' \in 0..LIST_ROWS
    BY <1>1, <1>2 DEF SalesTypes
  <2> QED BY <1>1, <1>2, <1>3, <1>6, <2>1, <2>2, <2>3, <2>4, DealSteps DEF SalesInv
<1> QED BY <1>4, <1>5, <1>6

\* It checks a row, unless a check is filed.
LEMMA VerifyKeeps ==
  ASSUME SalesInv, NEW d \in Deeds, NEW r \in Rows, Sales!verifyAndPersist(d, r)
  PROVE  SalesInv'
<1>1. SalesTypes /\ InDeal(d) /\ deed[d] \in DealRecord /\ r \in deed[d].rows /\ r \notin deed[d].done
      /\ deed[d].copy[r] \in LeadRecord /\ deed[d].at = "verify"
  BY AtStep, DealFields DEF SalesInv, Sales!verifyAndPersist, Sales!At
<1>2. UNCHANGED <<bought, revealed, wallet, listPaid, given, begun>>
  BY DEF Sales!verifyAndPersist
<1>3. Sales!CreditsBuy'
  BY <1>2 DEF SalesInv, Sales!CreditsBuy
<1>4. CASE ~Sales!NeedsVerifying(deed[d].copy[r])
  <2> DEFINE new == [deed[d] EXCEPT !.done = deed[d].done \cup {r}]
  <2>1. deed' = [deed EXCEPT ![d] = new] /\ UNCHANGED <<leads, checks, proven, crossed>>
    BY <1>1, <1>4 DEF Sales!verifyAndPersist, Sales!Calm, SalesTypes
  <2>2. new \in DealRecord /\ new = [deed[d] EXCEPT !.done = new.done]
          /\ new.done = deed[d].done \cup {r}
    BY <1>1 DEF DealRecord
  <2>3. new # Sales!Free
    BY <2>2 DEF DealRecord, Sales!Free
  <2>4. deed[d].copy[r].contactVerifiedAt = TRUE
    BY <1>1, <1>4 DEF Sales!NeedsVerifying, LeadRecord
  <2> HIDE DEF new
  <2>5. deed'[d] = new /\ \A e \in Deeds \ {d} : deed'[e] = deed[e]
    BY <1>1, <2>1 DEF SalesTypes
  <2>6. new.rows = deed[d].rows /\ new.kind = deed[d].kind /\ new.copy = deed[d].copy
          /\ new.owned = deed[d].owned
        /\ new.at = "verify"
    BY <1>1, <2>2 DEF DealRecord
  <2>7. SalesTypes'
    BY <1>1, <1>2, <2>1, <2>2, <2>3, <2>5, <2>6 DEF SalesTypes, InDeal
  <2>8. SalesReach'
    BY <1>1, <1>2, <2>1, <2>2, <2>3, <2>4, <2>5, <2>6 DEF SalesReach, DealReaches, SalesInv, InDeal,
         Sales!ChargedReachable, Confirmed
  <2>9. SalesOnce'
    BY <1>1, <1>2, <2>1, <2>3, <2>5, <2>6 DEF SalesOnce, SalesInv, InDeal, HoldsRow
  <2> QED BY <1>3, <2>7, <2>8, <2>9 DEF SalesInv
<1>5. CASE Sales!NeedsVerifying(deed[d].copy[r])
  <2>1. PICK checked \in UNION { Sales!enrichOnce(l) : l \in Sales!verifyContact(deed[d].copy[r]) } :
            /\ checks' = [checks EXCEPT ![r] = @ + 1]
            /\ proven' = IF checked.deliverable THEN proven \cup {Key(r)} ELSE proven
            /\ deed' = [deed EXCEPT ![d].copy[r] = checked, ![d].done = @ \cup {r}]
            /\ \/ leads' = [leads EXCEPT ![r] = checked] /\ UNCHANGED crossed
               \/ crossed' = crossed \cup {r} /\ UNCHANGED leads
    BY <1>5 DEF Sales!verifyAndPersist
  <2>2. checked \in LeadRecord /\ checked.contactVerifiedAt = TRUE
    <3>1. PICK l \in Sales!verifyContact(deed[d].copy[r]) : checked \in Sales!enrichOnce(l)
      BY <2>1
    <3>2. l \in LeadRecord /\ l.contactVerifiedAt = TRUE
      BY <1>1, <3>1 DEF Sales!verifyContact, LeadRecord
    <3> QED BY <3>1, <3>2 DEF Sales!enrichOnce, LeadRecord
  <2> DEFINE new == [deed[d] EXCEPT !.copy = [deed[d].copy EXCEPT ![r] = checked],
          !.done = deed[d].done \cup {r}]
  <2>3. deed' = [deed EXCEPT ![d] = new]
    BY <1>1, <2>1 DEF SalesTypes
  <2>4. new.copy \in UNION { [S -> LeadRecord] : S \in SUBSET Rows }
          /\ DOMAIN new.copy = DOMAIN deed[d].copy
        /\ new.copy[r] = checked /\ \A s \in deed[d].rows : s # r => new.copy[s] = deed[d].copy[s]
    <3>1. PICK S \in SUBSET Rows : deed[d].copy \in [S -> LeadRecord] /\ deed[d].rows \subseteq S
      BY <1>1, DealFields
    <3>2. new.copy = [deed[d].copy EXCEPT ![r] = checked]
      BY <1>1 DEF DealRecord
    <3> HIDE DEF new
    <3> QED BY <1>1, <2>2, <3>1, <3>2
  <2>5. new \in DealRecord /\ new.done = deed[d].done \cup {r} /\ new.rows = deed[d].rows
          /\ new.kind = deed[d].kind
        /\ new.owned = deed[d].owned /\ new.at = "verify"
    BY <1>1, <2>4 DEF DealRecord
  <2>6. new # Sales!Free
    BY <2>5 DEF DealRecord, Sales!Free
  <2> HIDE DEF new
  <2>7. deed'[d] = new /\ \A e \in Deeds \ {d} : deed'[e] = deed[e]
    BY <1>1, <2>3 DEF SalesTypes
  <2>8. leads' \in [Rows -> LeadRecord] /\ leads'[r] \in {leads[r], checked}
          /\ \A s \in Rows \ {r} : leads'[s] = leads[s]
    BY <1>1, <2>1, <2>2 DEF SalesTypes
  <2>9. SalesTypes'
    <3>1. checks' \in [Rows -> Nat]
      BY <1>1, <2>1 DEF SalesTypes
    <3>2. InDeal(d)' => deed'[d].rows \subseteq DOMAIN deed'[d].copy
      BY <1>1, <2>4, <2>5, <2>7 DEF SalesTypes
    <3>3. deed' \in [Deeds -> {Sales!Free} \cup DealRecord]
      BY <1>1, <2>3, <2>5 DEF SalesTypes
    <3> QED BY <1>1, <1>2, <2>7, <2>8, <3>1, <3>2, <3>3 DEF SalesTypes, InDeal
  <2>10. SalesReach'
    <3>1. proven \subseteq proven' /\ (Confirmed(checked) => Key(r) \in proven')
      BY <2>1 DEF Confirmed
    <3> QED BY <1>1, <1>2, <2>2, <2>4, <2>5, <2>6, <2>7, <2>8, <3>1
            DEF SalesReach, DealReaches, SalesInv, InDeal, Sales!ChargedReachable
  <2>11. SalesOnce'
    <3>1. deed[d].copy[r].contactVerifiedAt = FALSE
      BY <1>1, <1>5 DEF Sales!NeedsVerifying, LeadRecord
    <3>2. ASSUME r \notin crossed' PROVE checks[r] = 0 /\ leads'[r] = checked
      <4>1. r \notin crossed /\ leads' = [leads EXCEPT ![r] = checked]
        BY <2>1, <3>2
      <4>2. leads[r].contactVerifiedAt # TRUE
        BY <1>1, <3>1, <4>1 DEF SalesInv, SalesOnce, HoldsRow
      <4>3. checks[r] <= 1 /\ checks[r] # 1 /\ checks[r] \in Nat
        BY <1>1, <4>1, <4>2 DEF SalesInv, SalesOnce, SalesTypes
      <4>4. leads'[r] = checked
        BY <1>1, <4>1 DEF SalesTypes
      <4> QED BY <4>3, <4>4
    <3>3. crossed \subseteq crossed' /\ checks'[r] = checks[r] + 1
            /\ \A s \in Rows \ {r} : checks'[s] = checks[s]
      BY <1>1, <2>1 DEF SalesTypes
    <3>4. \A e \in Deeds : \A s : HoldsRow(e, s)' <=> HoldsRow(e, s)
      BY <1>1, <2>5, <2>6, <2>7 DEF HoldsRow, InDeal
    <3>5. \A e \in Deeds : \A s \in Rows : HoldsRow(e, s) => e = d \/ deed'[e].copy[s] = deed[e].copy[s]
      BY <2>7
    <3>6. \A s \in Rows : HoldsRow(d, s) /\ s # r => deed'[d].copy[s] = deed[d].copy[s]
      BY <2>4, <2>7 DEF HoldsRow
    <3> QED BY <1>1, <2>2, <2>4, <2>7, <2>8, <3>2, <3>3, <3>4, <3>5, <3>6
            DEF SalesOnce, SalesInv, HoldsRow
  <2> QED BY <1>3, <2>9, <2>10, <2>11 DEF SalesInv
<1> QED BY <1>4, <1>5

\* It drops the rows that nobody can reach.
LEMMA DropDeadKeeps ==
  ASSUME SalesInv, NEW d \in Deeds, Sales!DropDead(d)
  PROVE  SalesInv'
<1>1. SalesTypes /\ InDeal(d) /\ deed[d] \in DealRecord /\ deed[d].done = deed[d].rows
      /\ deed[d].at = "verify"
  BY AtStep, DealFields DEF SalesInv, Sales!DropDead, Sales!At
<1>2. UNCHANGED <<leads, bought, revealed, wallet, listPaid, given, checks, crossed, proven, begun,
        troubles>>
  BY DEF Sales!DropDead
<1>3. Sales!CreditsBuy'
  BY <1>2 DEF SalesInv, Sales!CreditsBuy
<1> DEFINE live == Sales!Sellable(d)
           new == [deed[d] EXCEPT !.rows = live, !.at = IF deed[d].kind = "unlock" THEN "crawl"
                ELSE "charge"]
<1>4. deed' = [deed EXCEPT ![d] = Sales!Free] \/ (live # {} /\ deed' = [deed EXCEPT ![d] = new])
  BY DEF Sales!DropDead
<1>5. CASE deed' = [deed EXCEPT ![d] = Sales!Free]
  BY <1>1, <1>2, <1>3, <1>5, DealEnds DEF SalesInv, SalesTypes, SalesReach, Sales!ChargedReachable
<1>6. CASE live # {} /\ deed' = [deed EXCEPT ![d] = new]
  <2>0. live \subseteq deed[d].rows
    BY DEF Sales!Sellable
  <2>1. \A r \in live : Key(r) \in proven
    <3> SUFFICES ASSUME NEW r \in live PROVE Key(r) \in proven
      OBVIOUS
    <3>1. r \in deed[d].rows /\ (deed[d].copy[r].deliverable \/ Key(r) \in deed[d].owned)
      BY DEF Sales!Sellable, Sales!isDead
    <3>2. DealReaches(d) /\ bought \subseteq proven /\ deed[d].copy[r] \in LeadRecord
      BY <1>1, <3>1, DealFields DEF SalesInv, SalesReach, Sales!ChargedReachable
    <3>3. CASE Key(r) \in deed[d].owned
      BY <1>1, <3>2, <3>3 DEF DealReaches
    <3>4. CASE deed[d].copy[r].deliverable
      BY <1>1, <3>1, <3>2, <3>4 DEF DealReaches, Confirmed, LeadRecord
    <3> QED BY <3>1, <3>3, <3>4
  <2> HIDE DEF live
  <2>2. /\ new \in DealRecord /\ new.rows = live /\ new.kind = deed[d].kind /\ new.copy = deed[d].copy
        /\ new.done = deed[d].done /\ new.owned = deed[d].owned
        /\ new.at = IF deed[d].kind = "unlock" THEN "crawl" ELSE "charge"
    BY <1>1, <2>0 DEF DealRecord
  <2> HIDE DEF new
  <2>3. deed'[d] = new
    BY <1>1, <1>6 DEF SalesTypes
  <2>4. wallet' \in Nat /\ listPaid' \in 0..LIST_ROWS
    BY <1>1, <1>2 DEF SalesTypes
  <2>5. new.owned \subseteq bought
    BY <1>1, <2>2 DEF SalesInv, SalesReach, DealReaches
  <2> QED BY <1>1, <1>2, <1>3, <1>6, <2>0, <2>1, <2>2, <2>3, <2>4, <2>5, DealSteps DEF SalesInv
<1> QED BY <1>4, <1>5, <1>6

\* It crawls for an owner.
LEMMA CrawlKeeps ==
  ASSUME SalesInv, NEW d \in Deeds, Sales!Crawl(d)
  PROVE  SalesInv'
<1> DEFINE r == CHOOSE s \in deed[d].rows : TRUE
           lead == deed[d].copy[r]
<1>1. SalesTypes /\ InDeal(d) /\ deed[d] \in DealRecord /\ deed[d].at = "crawl"
  BY AtStep, DealFields DEF SalesInv, Sales!Crawl, Sales!At
<1>2. UNCHANGED <<bought, revealed, wallet, listPaid, given, checks, crossed, proven, begun>>
  BY DEF Sales!Crawl
<1>3. Sales!CreditsBuy'
  BY <1>2 DEF SalesInv, Sales!CreditsBuy
<1>4. r \in deed[d].rows /\ r \in Rows /\ lead \in LeadRecord
  <2>1. deed[d].rows # {}
    BY <1>1 DEF SalesInv, SalesReach, DealReaches
  <2>2. r \in deed[d].rows
    BY <2>1
  <2> QED BY <1>1, <2>2, DealFields
<1>5. PICK found \in IF lead.enrichedAt THEN {lead} ELSE Sales!Crawled(lead) \cup Sales!Overdue(lead) :
          /\ deed' = [deed EXCEPT ![d].copy[r] = found, ![d].at = "charge"]
          /\ leads' \in {leads, [leads EXCEPT ![r] = found]}
  BY DEF Sales!Crawl
<1> HIDE DEF r
<1>6. found \in LeadRecord /\ found.contactVerifiedAt = lead.contactVerifiedAt
        /\ found.deliverable = lead.deliverable
  <2>1. CASE lead.enrichedAt = TRUE
    BY <1>4, <1>5, <2>1
  <2>2. CASE lead.enrichedAt = FALSE
    <3>1. found \in Sales!Crawled(lead) \cup Sales!Overdue(lead)
      BY <1>5, <2>2
    <3> HIDE DEF lead
    <3> QED BY <1>4, <3>1 DEF Sales!Crawled, Sales!Overdue, LeadRecord
  <2> QED BY <1>4, <2>1, <2>2 DEF LeadRecord
<1> DEFINE new == [deed[d] EXCEPT !.copy = [deed[d].copy EXCEPT ![r] = found], !.at = "charge"]
<1>7. deed' = [deed EXCEPT ![d] = new]
  BY <1>1, <1>5 DEF SalesTypes
<1>8. new.copy \in UNION { [S -> LeadRecord] : S \in SUBSET Rows }
        /\ DOMAIN new.copy = DOMAIN deed[d].copy
      /\ new.copy[r] = found /\ \A s \in deed[d].rows : s # r => new.copy[s] = deed[d].copy[s]
  <2>1. PICK S \in SUBSET Rows : deed[d].copy \in [S -> LeadRecord] /\ deed[d].rows \subseteq S
    BY <1>1, DealFields
  <2>2. new.copy = [deed[d].copy EXCEPT ![r] = found]
    BY <1>1 DEF DealRecord
  <2> HIDE DEF new
  <2> QED BY <1>4, <1>6, <2>1, <2>2
<1>9. new \in DealRecord /\ new.done = deed[d].done /\ new.rows = deed[d].rows
        /\ new.kind = deed[d].kind
      /\ new.owned = deed[d].owned /\ new.at = "charge"
  BY <1>1, <1>8 DEF DealRecord
<1>10. new # Sales!Free
  BY <1>9 DEF DealRecord, Sales!Free
<1> HIDE DEF new
<1>11. deed'[d] = new /\ \A e \in Deeds \ {d} : deed'[e] = deed[e]
  BY <1>1, <1>7 DEF SalesTypes
<1>12. leads' \in [Rows -> LeadRecord] /\ leads'[r] \in {leads[r], found}
        /\ \A s \in Rows \ {r} : leads'[s] = leads[s]
  BY <1>1, <1>4, <1>5, <1>6 DEF SalesTypes
<1>13. SalesTypes'
  <2>1. InDeal(d)' => deed'[d].rows \subseteq DOMAIN deed'[d].copy
    BY <1>1, <1>8, <1>9, <1>11 DEF SalesTypes
  <2>2. deed' \in [Deeds -> {Sales!Free} \cup DealRecord]
    BY <1>1, <1>7, <1>9 DEF SalesTypes
  <2> QED BY <1>1, <1>2, <1>11, <1>12, <2>1, <2>2 DEF SalesTypes, InDeal
<1>14. SalesReach'
  <2>1. DealReaches(d)
    BY DEF SalesInv, SalesReach
  <2>2. Confirmed(found) => Key(r) \in proven
    BY <1>1, <1>4, <1>6, <2>1 DEF DealReaches, Confirmed
  <2>3. DealReaches(d)'
    BY <1>1, <1>2, <1>4, <1>8, <1>9, <1>11, <2>1, <2>2 DEF DealReaches, InDeal
  <2>4. \A e \in Deeds \ {d} : DealReaches(e)'
    BY <1>2, <1>11 DEF SalesInv, SalesReach, DealReaches, InDeal
  <2>5. \A s \in Rows : Confirmed(leads'[s]) => Key(s) \in proven'
    BY <1>2, <1>12, <2>2 DEF SalesInv, SalesReach
  <2> QED BY <1>2, <2>3, <2>4, <2>5 DEF SalesInv, SalesReach, Sales!ChargedReachable
<1>15. SalesOnce'
  <2>1. \A e \in Deeds : \A s : HoldsRow(e, s)' <=> HoldsRow(e, s)
    BY <1>1, <1>9, <1>10, <1>11 DEF HoldsRow, InDeal
  <2>2. r \notin crossed => leads'[r].contactVerifiedAt = leads[r].contactVerifiedAt
    BY <1>1, <1>4, <1>6, <1>12 DEF SalesInv, SalesOnce, HoldsRow
  <2>3. \A s \in Rows \ crossed : leads'[s].contactVerifiedAt = leads[s].contactVerifiedAt
    BY <1>12, <2>2
  <2>4. \A e \in Deeds : \A s \in Rows : HoldsRow(e, s) =>
          deed'[e].copy[s].contactVerifiedAt = deed[e].copy[s].contactVerifiedAt
    BY <1>6, <1>8, <1>11 DEF HoldsRow
  <2> QED BY <1>2, <2>1, <2>3, <2>4 DEF SalesOnce, SalesInv
<1> QED BY <1>3, <1>13, <1>14, <1>15 DEF SalesInv

\* The rows that are due are the ones the book grows by.
LEMMA DueCounted ==
  ASSUME SalesTypes, NEW S \in SUBSET Rows, NEW book \in SUBSET Sales!Keys
  PROVE  LET due == { Key(r) : r \in S } \ book IN
         /\ Cardinality(due) \in Nat /\ Cardinality(book) \in Nat
         /\ book \cup { Key(r) : r \in S } \subseteq Sales!Keys
         /\ Cardinality(book \cup { Key(r) : r \in S }) = Cardinality(book) + Cardinality(due)
<1> DEFINE keys == { Key(r) : r \in S }
           due == keys \ book
<1>0. keys \subseteq Sales!Keys
  BY DEF Sales!Keys
<1> HIDE DEF keys
<1>1. due \subseteq Sales!Keys /\ book \cup keys = book \cup due /\ book \cap due = {}
  BY <1>0
<1> HIDE DEF due
<1>2. IsFiniteSet(due) /\ IsFiniteSet(book)
  BY <1>1, KeysFinite, FS_Subset
<1>3. Cardinality(book \cup due) = Cardinality(book) + Cardinality(due) - Cardinality(book \cap due)
  BY <1>2, FS_Union
<1>4. Cardinality(book \cap due) = 0 /\ Cardinality(due) \in Nat /\ Cardinality(book) \in Nat
  BY <1>1, <1>2, FS_EmptySet, FS_CardinalityType
<1>5. Cardinality(book \cup keys) = Cardinality(book) + Cardinality(due)
  <2>1. Cardinality(book \cup due) = Cardinality(book) + Cardinality(due)
    BY <1>3, <1>4
  <2> QED BY <1>1, <2>1, Zenon
<1>6. book \cup keys \subseteq Sales!Keys
  BY <1>0
<1> QED BY <1>4, <1>5, <1>6, Zenon DEF due, keys

\* It charges, in one transaction, what is not in the book.
LEMMA ChargeKeeps ==
  ASSUME SalesInv, NEW d \in Deeds, Sales!Charge(d)
  PROVE  SalesInv'
<1>1. SalesTypes /\ InDeal(d) /\ deed[d] \in DealRecord /\ deed[d].at = "charge"
        /\ deed[d].kind # "owner"
  BY AtStep, DealFields DEF SalesInv, Sales!Charge, Sales!At
<1>2. /\ UNCHANGED <<leads, revealed, listPaid, checks, crossed, proven, begun, troubles>>
      /\ deed' = [deed EXCEPT ![d] = Sales!Free]
  BY DEF Sales!Charge
<1> DEFINE keys == { Key(r) : r \in deed[d].rows }
<1>3. Sales!Due(d) = keys \ bought /\ deed[d].rows \in SUBSET Rows /\ bought \in SUBSET Sales!Keys
  BY <1>1, DealFields DEF Sales!Due, SalesTypes
<1>4. /\ Cardinality(keys \ bought) \in Nat /\ Cardinality(bought) \in Nat
           /\ bought \cup keys \subseteq Sales!Keys
      /\ Cardinality(bought \cup keys) = Cardinality(bought) + Cardinality(keys \ bought)
  BY <1>1, <1>3, DueCounted
<1>5. \/ UNCHANGED <<wallet, bought>>
      \/ /\ Cardinality(keys \ bought) <= wallet
         /\ wallet' = wallet - Cardinality(keys \ bought) /\ bought' = bought \cup keys
  <2> DEFINE n == Cardinality(Sales!Due(d))
  <2>1. n \in Nat /\ wallet \in Nat
    BY <1>1, <1>3, <1>4 DEF SalesTypes
  <2>2. Sales!Cardinality(Sales!Due(d)) = n
    BY SalesCount
  <2> HIDE DEF n
  <2>3. IF n > wallet THEN UNCHANGED <<wallet, bought>> ELSE wallet' = wallet - n
          /\ bought' = bought \cup keys
    BY <2>2 DEF Sales!Charge
  <2>4. n = Cardinality(keys \ bought)
    BY <1>3 DEF n
  <2> QED BY <2>1, <2>3, <2>4
<1>6. keys \subseteq proven /\ bought \subseteq proven
  BY <1>1 DEF SalesInv, SalesReach, DealReaches, Sales!ChargedReachable
<1> HIDE DEF keys
<1>7. wallet' \in Nat /\ Sales!CreditsBuy'
  <2>1. Cardinality(revealed) \in Nat /\ wallet \in Nat /\ listPaid \in Nat
    BY <1>1, BooksAreSets, PaidAssumption DEF SalesTypes
  <2>2. wallet + Cardinality(bought) + Cardinality(revealed) + listPaid = Money /\ listPaid <= LIST_ROWS
    BY SalesCount DEF SalesInv, Sales!CreditsBuy
  <2>3. wallet' \in Nat /\ wallet' + Cardinality(bought') + Cardinality(revealed') + listPaid' = Money
    <3>1. CASE UNCHANGED <<wallet, bought>>
      BY <1>2, <2>1, <2>2, <3>1
    <3>2. CASE Cardinality(keys \ bought) <= wallet /\ wallet' = wallet - Cardinality(keys \ bought)
            /\ bought' = bought \cup keys
      <4> DEFINE n == Cardinality(keys \ bought)
                 b == Cardinality(bought)
                 o == Cardinality(revealed)
      <4>1. Cardinality(bought') = b + n /\ Cardinality(revealed') = o /\ listPaid' = listPaid
              /\ wallet' = wallet - n /\ n <= wallet
        BY <1>2, <1>4, <3>2
      <4>2. n \in Nat /\ b \in Nat /\ o \in Nat /\ wallet + b + o + listPaid = Money
        BY <1>4, <2>1, <2>2
      <4> HIDE DEF n, b, o
      <4> QED BY <2>1, <4>1, <4>2
    <3> QED BY <1>5, <3>1, <3>2
  <2> QED BY <1>2, <2>2, <2>3, SalesCount DEF Sales!CreditsBuy
<1>8. bought \subseteq bought' /\ bought' \subseteq proven /\ bought' \subseteq Sales!Keys
  BY <1>3, <1>4, <1>5, <1>6
<1>9. listPaid' \in 0..LIST_ROWS /\ revealed' \subseteq Sales!Keys
  BY <1>1, <1>2 DEF SalesTypes
<1> QED BY <1>1, <1>2, <1>7, <1>8, <1>9, DealEnds DEF SalesInv

\* It charges for the name of an owner.
LEMMA UnlockOwnerKeeps ==
  ASSUME SalesInv, NEW d \in Deeds, Sales!unlockOwner(d)
  PROVE  SalesInv'
<1>1. SalesTypes /\ InDeal(d) /\ deed[d] \in DealRecord
  BY AtStep, DealFields DEF SalesInv, Sales!unlockOwner, Sales!At
<1>2. /\ UNCHANGED <<leads, bought, listPaid, checks, crossed, proven, begun, troubles>>
      /\ deed' = [deed EXCEPT ![d] = Sales!Free]
  BY DEF Sales!unlockOwner
<1> DEFINE keys == { Key(r) : r \in deed[d].rows }
           due == keys \ revealed
<1>3. deed[d].rows \in SUBSET Rows /\ revealed \in SUBSET Sales!Keys
  BY <1>1, DealFields DEF SalesTypes
<1>4. /\ Cardinality(due) \in Nat /\ Cardinality(revealed) \in Nat
           /\ revealed \cup keys \subseteq Sales!Keys
      /\ Cardinality(revealed \cup keys) = Cardinality(revealed) + Cardinality(due)
  BY <1>1, <1>3, DueCounted
<1>5. IF Sales!Cardinality(due) > wallet THEN UNCHANGED <<wallet, revealed>>
      ELSE wallet' = wallet - Sales!Cardinality(due) /\ revealed' = revealed \cup due
  BY DEF Sales!unlockOwner
<1>6. revealed \cup due = revealed \cup keys
  OBVIOUS
<1> HIDE DEF due, keys
<1>7. wallet \in Nat /\ Sales!Cardinality(due) = Cardinality(due)
  BY <1>1, SalesCount DEF SalesTypes
<1>8. wallet' \in Nat /\ Sales!CreditsBuy' /\ revealed' \subseteq Sales!Keys
  <2>1. Cardinality(bought) \in Nat /\ wallet \in Nat /\ listPaid \in Nat
    BY <1>1, BooksAreSets, PaidAssumption DEF SalesTypes
  <2>2. wallet + Cardinality(bought) + Cardinality(revealed) + listPaid = Money /\ listPaid <= LIST_ROWS
    BY SalesCount DEF SalesInv, Sales!CreditsBuy
  <2>3. wallet' \in Nat /\ wallet' + Cardinality(bought') + Cardinality(revealed') + listPaid' = Money
    <3>1. CASE UNCHANGED <<wallet, revealed>>
      BY <1>2, <1>4, <2>1, <2>2, <3>1
    <3>2. CASE ~UNCHANGED <<wallet, revealed>>
      <4> DEFINE n == Cardinality(due)
                 b == Cardinality(bought)
                 o == Cardinality(revealed)
      <4>1. Cardinality(revealed') = o + n /\ Cardinality(bought') = b /\ listPaid' = listPaid
              /\ wallet' = wallet - n /\ ~(n > wallet)
        BY <1>2, <1>4, <1>5, <1>6, <1>7, <3>2
      <4>2. n \in Nat /\ b \in Nat /\ o \in Nat /\ wallet + b + o + listPaid = Money
        BY <1>4, <2>1, <2>2
      <4> HIDE DEF n, b, o
      <4> QED BY <2>1, <4>1, <4>2
    <3> QED BY <3>1, <3>2
  <2>4. revealed' \subseteq Sales!Keys
    BY <1>3, <1>4, <1>5, <1>6
  <2> QED BY <1>2, <2>2, <2>3, <2>4, SalesCount DEF Sales!CreditsBuy
<1>9. listPaid' \in 0..LIST_ROWS /\ bought \subseteq bought' /\ bought' \subseteq proven
        /\ bought' \subseteq Sales!Keys
  BY <1>1, <1>2 DEF SalesTypes, SalesInv, SalesReach, Sales!ChargedReachable
<1> QED BY <1>1, <1>2, <1>8, <1>9, DealEnds DEF SalesInv

\* A list is enriched before it is charged,
LEMMA ListStepKeeps ==
  ASSUME SalesInv, NEW d \in Deeds, Sales!CheckBalance(d) \/ Sales!EnrichRows(d)
  PROVE  SalesInv'
<1>1. SalesTypes /\ InDeal(d) /\ deed[d] \in DealRecord /\ deed[d].at \in {"balance", "work"}
  BY AtStep, DealFields DEF SalesInv, Sales!CheckBalance, Sales!EnrichRows, Sales!At
<1>2. UNCHANGED <<leads, bought, revealed, wallet, listPaid, given, checks, crossed, proven, begun,
        troubles>>
  BY DEF Sales!CheckBalance, Sales!EnrichRows
<1>3. Sales!CreditsBuy'
  BY <1>2 DEF SalesInv, Sales!CreditsBuy
<1>4. CASE deed' = [deed EXCEPT ![d] = Sales!Free]
  BY <1>1, <1>2, <1>3, <1>4, DealEnds DEF SalesInv, SalesTypes, SalesReach, Sales!ChargedReachable
<1>5. ASSUME NEW at \in {"work", "spend"}, NEW n \in 0..LIST_ROWS,
             deed' = [deed EXCEPT ![d] = [deed[d] EXCEPT !.at = at, !.n = n]]
      PROVE  SalesInv'
  <2> DEFINE new == [deed[d] EXCEPT !.at = at, !.n = n]
  <2>1. /\ new \in DealRecord /\ new.rows = deed[d].rows /\ new.kind = deed[d].kind
             /\ new.copy = deed[d].copy
        /\ new.done = deed[d].done /\ new.owned = deed[d].owned /\ new.at = at
    BY <1>1 DEF DealRecord
  <2>2. deed' = [deed EXCEPT ![d] = new]
    BY <1>5
  <2> HIDE DEF new
  <2>3. deed'[d] = new
    BY <1>1, <2>2 DEF SalesTypes
  <2>4. wallet' \in Nat /\ listPaid' \in 0..LIST_ROWS /\ new.owned \subseteq bought
    BY <1>1, <1>2, <2>1 DEF SalesTypes, SalesInv, SalesReach, DealReaches
  <2> QED BY <1>1, <1>2, <1>3, <2>1, <2>2, <2>3, <2>4, DealSteps DEF SalesInv
<1>6. CASE Sales!CheckBalance(d)
  <2>1. deed' = [deed EXCEPT ![d] = Sales!Free]
          \/ deed' = [deed EXCEPT ![d] = [deed[d] EXCEPT !.at = "work"]]
    BY <1>6 DEF Sales!CheckBalance
  <2>2. deed[d].n \in 0..LIST_ROWS /\ [deed[d] EXCEPT !.at = "work"] = [deed[d] EXCEPT !.at = "work",
          !.n = deed[d].n]
    BY <1>1 DEF DealRecord
  <2> QED BY <1>4, <1>5, <2>1, <2>2
<1>7. CASE Sales!EnrichRows(d)
  <2>1. PICK n \in 0..LIST_ROWS : deed' = [deed EXCEPT ![d].at = "spend", ![d].n = n]
    BY <1>7 DEF Sales!EnrichRows
  <2>2. deed' = [deed EXCEPT ![d] = [deed[d] EXCEPT !.at = "spend", !.n = n]]
    BY <1>1, <2>1 DEF SalesTypes
  <2> QED BY <1>5, <2>2
<1> QED BY <1>6, <1>7

\* and charged as a whole.
LEMMA SpendKeeps ==
  ASSUME SalesInv, NEW d \in Deeds, Sales!spendCredits(d)
  PROVE  SalesInv'
<1>1. SalesTypes /\ InDeal(d) /\ deed[d] \in DealRecord
  BY AtStep, DealFields DEF SalesInv, Sales!spendCredits, Sales!At
<1>2. /\ UNCHANGED <<leads, bought, revealed, checks, crossed, proven, begun, troubles>>
      /\ deed' = [deed EXCEPT ![d] = Sales!Free]
  BY DEF Sales!spendCredits
<1>3. wallet \in Nat /\ listPaid \in Nat /\ deed[d].n \in Nat /\ deed[d].n <= LIST_ROWS
  BY <1>1, PaidAssumption DEF SalesTypes, DealRecord
<1>4. \/ UNCHANGED <<wallet, listPaid>>
      \/ listPaid = 0 /\ deed[d].n <= wallet /\ wallet' = wallet - deed[d].n /\ listPaid' = deed[d].n
  BY <1>3 DEF Sales!spendCredits, Sales!AlreadyPaid
<1>5. Sales!CreditsBuy' /\ wallet' \in Nat /\ listPaid' \in 0..LIST_ROWS
  <2>1. Cardinality(bought) \in Nat /\ Cardinality(revealed) \in Nat
    BY <1>1, BooksAreSets
  <2>2. wallet + Cardinality(bought) + Cardinality(revealed) + listPaid = Money /\ listPaid <= LIST_ROWS
    BY SalesCount DEF SalesInv, Sales!CreditsBuy
  <2>3. /\ wallet' + Cardinality(bought') + Cardinality(revealed') + listPaid' = Money
        /\ wallet' \in Nat /\ listPaid' \in Nat /\ listPaid' <= LIST_ROWS
    BY <1>2, <1>3, <1>4, <2>1, <2>2
  <2> QED BY <2>3, SalesCount, PaidAssumption DEF Sales!CreditsBuy
<1> QED BY <1>1, <1>2, <1>5, DealEnds DEF SalesInv, SalesTypes, SalesReach, Sales!ChargedReachable

\* The function dies.
LEMMA DieKeeps ==
  ASSUME SalesInv, NEW d \in Deeds, Sales!Die(d)
  PROVE  SalesInv'
<1>1. SalesTypes /\ InDeal(d)
  BY DEF SalesInv, Sales!Die, InDeal
<1>2. /\ UNCHANGED <<leads, bought, revealed, wallet, listPaid, given, checks, crossed, proven, begun>>
      /\ deed' = [deed EXCEPT ![d] = Sales!Free]
  BY DEF Sales!Die
<1>3. Sales!CreditsBuy'
  BY <1>2 DEF SalesInv, Sales!CreditsBuy
<1> QED BY <1>1, <1>2, <1>3, DealEnds DEF SalesInv, SalesTypes, SalesReach, Sales!ChargedReachable

\* The invariant holds at first, and every step keeps it.
LEMMA SalesStart == Sales!Init => SalesInv
<1> SUFFICES ASSUME Sales!Init PROVE SalesInv
  OBVIOUS
<1>1. Sales!Fresh \in LeadRecord /\ Sales!Older \in LeadRecord /\ Sales!Fresh.contactVerifiedAt = FALSE
  BY DEF Sales!Fresh, Sales!Older, LeadRecord
<1>2. \A r \in Rows : leads[r] \in {Sales!Fresh, Sales!Older}
  BY DEF Sales!Init
<1>3. SalesTypes
  BY <1>1, PaidAssumption DEF Sales!Init, SalesTypes, InDeal
<1>4. SalesReach
  BY <1>1, <1>2, <1>3 DEF Sales!Init, SalesReach, DealReaches, InDeal, Confirmed, Sales!ChargedReachable
<1>5. SalesOnce
  BY DEF Sales!Init, SalesOnce, HoldsRow, InDeal
<1>6. Sales!CreditsBuy
  <2>1. Cardinality({}) = 0
    BY FS_EmptySet
  <2> QED BY <2>1, SalesCount, PaidAssumption DEF Sales!Init, Sales!CreditsBuy
<1> QED BY <1>3, <1>4, <1>5, <1>6 DEF SalesInv

LEMMA SalesKept == SalesInv /\ [Sales!Next]_(Sales!vars) => SalesInv'
<1> SUFFICES ASSUME SalesInv, [Sales!Next]_(Sales!vars) PROVE SalesInv'
  OBVIOUS
<1>1. CASE UNCHANGED Sales!vars
  BY <1>1 DEF Sales!vars, SalesInv, SalesTypes, SalesReach, SalesOnce, DealReaches, HoldsRow, InDeal,
              Sales!ChargedReachable, Sales!CreditsBuy
<1>2. CASE Sales!Next
  <2>1. PICK d \in Deeds :
    \/ \E r \in Rows : Sales!Open(d, "unlock", {r}) \/ Sales!Open(d, "owner", {r})
         \/ Sales!verifyAndPersist(d, r)
    \/ Sales!Open(d, "export", Rows) \/ Sales!Open(d, "list", {})
    \/ Sales!AskOwned(d) \/ Sales!DropDead(d) \/ Sales!Crawl(d) \/ Sales!Charge(d)
         \/ Sales!unlockOwner(d)
    \/ Sales!CheckBalance(d) \/ Sales!EnrichRows(d) \/ Sales!spendCredits(d) \/ Sales!Die(d)
    BY <1>2, Zenon DEF Sales!Next
  <2>2. ASSUME NEW kind \in {"unlock", "owner", "export", "list"}, NEW rows \in SUBSET Rows,
          Sales!Open(d, kind, rows)
        PROVE  SalesInv'
    BY <2>2, OpenKeeps
  <2>3. \A r \in Rows : {r} \in SUBSET Rows
    OBVIOUS
  <2>4. CASE \E r \in Rows : Sales!Open(d, "unlock", {r}) \/ Sales!Open(d, "owner", {r})
    BY <2>2, <2>3, <2>4
  <2>5. CASE Sales!Open(d, "export", Rows) \/ Sales!Open(d, "list", {})
    BY <2>2, <2>5
  <2>6. CASE \E r \in Rows : Sales!verifyAndPersist(d, r)
    BY <2>6, VerifyKeeps
  <2>7. CASE Sales!AskOwned(d) \/ Sales!DropDead(d) \/ Sales!Crawl(d) \/ Sales!Charge(d)
          \/ Sales!unlockOwner(d)
    BY <2>7, AskOwnedKeeps, DropDeadKeeps, CrawlKeeps, ChargeKeeps, UnlockOwnerKeeps
  <2>8. CASE Sales!CheckBalance(d) \/ Sales!EnrichRows(d) \/ Sales!spendCredits(d) \/ Sales!Die(d)
    BY <2>8, ListStepKeeps, SpendKeeps, DieKeeps
  <2> QED BY <2>1, <2>4, <2>5, <2>6, <2>7, <2>8, Zenon
<1> QED BY <1>1, <1>2

\* The part runs in behaviours of its own.
SalesHold == scene = "paid" => SalesInv

LEMMA SalesAlways == SceneSpec => []SalesHold
<1>1. SceneInit => SalesHold
  BY SalesStart DEF SceneInit, SalesHold
<1>2. SalesHold /\ [SceneNext]_sceneVars => SalesHold'
  <2> SUFFICES ASSUME SalesHold, [SceneNext]_sceneVars, scene' = "paid" PROVE SalesInv'
    BY DEF SalesHold
  <2>1. scene = "paid" /\ [Sales!Next]_(Sales!vars)
    BY DEF SceneNext, sceneVars, PaidOnly, Sales!vars
  <2> QED BY <2>1, SalesKept DEF SalesHold
<1> QED BY <1>1, <1>2, PTL DEF SceneSpec

\* Every business that was bought had been found reachable by a paid check before it was charged;
\* every credit that left went into a lead, an owner or a list; and a row is checked once unless
\* two requests had it in hand: for any rows, requests and wallet, and any interleaving of check,
\* charge and crash (api/leads/unlock, export and owner, api/enrich).
THEOREM SoldReachable == SceneSpec => []ChargedReachable
<1>1. SalesHold => ChargedReachable
  <2>1. ASSUME SalesInv PROVE Sales!VerifiedOnce
    BY <2>1 DEF SalesInv, SalesOnce, Sales!VerifiedOnce
  <2> QED BY <2>1 DEF SalesHold, SalesInv, SalesReach, ChargedReachable
<1> QED BY <1>1, SalesAlways, PTL

-----------------------------------------------------------------------------
(* Accounts: the two writes of a suspension agree, and nobody pays for an  *)
(* account that is gone. Consoles and signed-in visits interleave; the     *)
(* throttle of the log-in counts in a window that slides.                  *)

\* What an account, a console and a visit can hold.
AccountRecord == [exists : BOOLEAN, suspended : BOOLEAN, banned : BOOLEAN, session : BOOLEAN,
     key : BOOLEAN,
              bonus : {0, 1}, gone : BOOLEAN]
TaskRecord == [at : {"flag", "ban", "signout", "cancel", "deleteUser", "credits", "note", "entitlement",
     "log", "password"},
          do : {"suspend", "unsuspend", "signout", "delete", "credits", "note", "entitlement", "login"},
               row : BOOLEAN]
VisitRecord == [at : {"known", "granted"}, locked : BOOLEAN]
\* Type invariant of the administration.
PeopleTypes ==
  /\ account \in AccountRecord /\ subscription \in [stripe : {"none", "live", "canceled"},
       row : BOOLEAN]
  /\ console \in [Consoles -> {People!Idle} \cup TaskRecord]
       /\ visit \in [Visits -> {People!Idle} \cup VisitRecord]
\* A locked account exists, or was deleted.
Known ==
  /\ account.gone = TRUE => account.exists = FALSE
  /\ account.exists = FALSE => account.suspended = FALSE /\ account.banned = FALSE
  /\ \A c \in Consoles : console[c].at \in {"flag", "ban"} =>
       console[c].do \in {"suspend", "unsuspend"} /\ (account.exists = TRUE \/ account.gone = TRUE)
\* A console that is between the two writes of a suspension.
Locking(c) == console[c].at # "idle" /\ console[c].do \in {"suspend", "unsuspend"}
\* Unless two consoles crossed: one console at most is, and without one the flag and the ban agree.
LocksInv ==
  entwined \/
    /\ \A c, e \in Consoles : Locking(c) /\ Locking(e) => c = e
    /\ \A c \in Consoles : console[c].at = "ban" =>
         account.suspended = IF account.exists = TRUE /\ console[c].do = "suspend" THEN TRUE ELSE FALSE
    /\ (\A c \in Consoles : console[c].at # "ban") => account.suspended = account.banned
\* A visit found suspended is of an account that is suspended or gone.
VisitsInv ==
  /\ ~wronglyServed
  /\ \A v \in Visits :
       /\ visit[v].at = "known" /\ visit[v].locked = TRUE =>
            account.suspended = TRUE \/ account.gone = TRUE
       /\ visit[v].at = "granted" /\ visit[v].locked = TRUE => account.gone = TRUE
\* Unless a sale came late: an account is deleted after its subscription was canceled.
BillsInv ==
  /\ account.exists = FALSE /\ account.gone = FALSE => subscription.stripe = "none"
  /\ account.exists = TRUE /\ subscription.stripe = "live" => subscription.row = TRUE
  /\ lateSale => subscription.stripe # "none"
  /\ ~lateSale =>
       /\ account.gone = TRUE => subscription.stripe # "live"
       /\ \A c \in Consoles :
            /\ console[c].at = "cancel" /\ subscription.stripe = "live" => console[c].row = TRUE
            /\ console[c].at = "deleteUser" => subscription.stripe # "live"

\* Every step keeps the types.
LEMMA TypesKept ==
  ASSUME PeopleTypes, [People!Next]_(People!vars)
  PROVE  PeopleTypes'
<1>1. CASE UNCHANGED People!vars
  BY <1>1 DEF People!vars, People!consoleVars, PeopleTypes
<1>2. CASE People!SignUp
  BY <1>2 DEF People!SignUp, PeopleTypes, AccountRecord
<1>3. CASE People!Subscribe
  BY <1>3 DEF People!Subscribe, PeopleTypes
<1>4. CASE People!LogIn
  BY <1>4 DEF People!LogIn, PeopleTypes, AccountRecord
<1>5. CASE People!ChangeKey
  BY <1>5 DEF People!ChangeKey, PeopleTypes, AccountRecord
<1>6. CASE People!LookAt \/ People!Wait
  BY <1>6 DEF People!LookAt, People!Wait, People!consoleVars, PeopleTypes
<1>7. ASSUME NEW v \in Visits, People!Authenticate(v) \/ People!ReadAccess(v) \/ People!Serve(v)
      PROVE  PeopleTypes'
  <2>1. CASE People!Authenticate(v)
    BY <2>1 DEF People!Authenticate, PeopleTypes, AccountRecord, VisitRecord
  <2>2. CASE People!ReadAccess(v)
    BY <2>2 DEF People!ReadAccess, PeopleTypes, VisitRecord, People!Idle
  <2>3. CASE People!Serve(v)
    BY <2>3 DEF People!Serve, PeopleTypes
  <2> QED BY <1>7, <2>1, <2>2, <2>3
<1>8. ASSUME NEW c \in Consoles, NEW do \in DOMAIN People!FirstStep, People!Begin(c, do)
      PROVE  PeopleTypes'
  <2>1. do \in {"suspend", "unsuspend", "signout", "delete", "credits", "note", "entitlement"}
        /\ People!FirstStep[do] \in {"flag", "signout", "cancel", "credits", "note", "entitlement"}
    BY DEF People!FirstStep
  <2> QED BY <1>8, <2>1 DEF People!Begin, PeopleTypes, TaskRecord
<1>9. ASSUME NEW c \in Consoles,
             People!WriteFlag(c) \/ People!WriteBan(c) \/ People!forceSignOut(c)
                  \/ People!CancelSubscription(c) \/ People!DeleteUser(c)
             \/ People!MoveCredits(c) \/ People!setAdminNote(c) \/ People!Entitle(c)
                  \/ People!logAdminAction(c) \/ People!Abandoned(c)
             \/ People!checkRateLimit(c) \/ People!recordFailure(c) \/ People!recordSuccess(c)
      PROVE  PeopleTypes'
  <2>0. ASSUME NEW step \in {"ban", "log", "signout", "deleteUser"}, People!Step(c, step),
          console[c] # People!Idle
        PROVE  console' \in [Consoles -> {People!Idle} \cup TaskRecord]
    BY <2>0 DEF PeopleTypes, TaskRecord, People!Step
  <2>00. ASSUME NEW s, People!ConsoleAt(c, s), s # "idle" PROVE console[c] # People!Idle
    BY <2>00 DEF People!ConsoleAt, People!Idle
  <2>000. ASSUME console' = [console EXCEPT ![c] = People!Idle]
        PROVE  console' \in [Consoles -> {People!Idle} \cup TaskRecord]
    BY <2>000 DEF PeopleTypes
  <2>1. CASE People!WriteFlag(c)
    <3>1. console' \in [Consoles -> {People!Idle} \cup TaskRecord]
      BY <2>1, <2>0, <2>00 DEF People!WriteFlag
    <3>2. account' \in AccountRecord
      BY <2>1 DEF People!WriteFlag, PeopleTypes, AccountRecord
    <3>3. visit' \in [Visits -> {People!Idle} \cup VisitRecord]
      <4>1. CASE visit' = visit
        BY <4>1 DEF PeopleTypes
      <4>2. CASE visit' = [v \in Visits |-> IF visit[v] = People!Idle THEN People!Idle
              ELSE [visit[v] EXCEPT !.locked = FALSE]]
        <5>1. ASSUME NEW v \in Visits, visit[v] # People!Idle
                PROVE [visit[v] EXCEPT !.locked = FALSE] \in VisitRecord
          BY <5>1 DEF PeopleTypes, VisitRecord
        <5> QED BY <4>2, <5>1
      <4> QED BY <2>1, <4>1, <4>2 DEF People!WriteFlag
    <3> QED BY <2>1, <3>1, <3>2, <3>3 DEF People!WriteFlag, PeopleTypes
  <2>2. CASE People!WriteBan(c)
    <3>1. console' \in [Consoles -> {People!Idle} \cup TaskRecord]
      BY <2>2, <2>0, <2>00 DEF People!WriteBan
    <3>2. account' \in AccountRecord
      BY <2>2 DEF People!WriteBan, People!Banned, PeopleTypes, AccountRecord
    <3> QED BY <2>2, <3>1, <3>2 DEF People!WriteBan, PeopleTypes
  <2>3. CASE People!forceSignOut(c)
    <3>1. console' \in [Consoles -> {People!Idle} \cup TaskRecord]
      BY <2>3, <2>0, <2>00 DEF People!forceSignOut
    <3> QED BY <2>3, <3>1 DEF People!forceSignOut, PeopleTypes, AccountRecord
  <2>4. CASE People!CancelSubscription(c)
    <3>1. console' \in [Consoles -> {People!Idle} \cup TaskRecord]
      BY <2>4, <2>0, <2>00 DEF People!CancelSubscription
    <3> QED BY <2>4, <3>1 DEF People!CancelSubscription, PeopleTypes
  <2>5. CASE People!DeleteUser(c)
    <3>1. console' \in [Consoles -> {People!Idle} \cup TaskRecord]
      BY <2>5, <2>0, <2>00 DEF People!DeleteUser
    <3>2. account' \in AccountRecord
      <4>1. account' = account \/ account' = [exists |-> FALSE, suspended |-> FALSE, banned |-> FALSE,
              session |-> FALSE, key |-> FALSE, bonus |-> 0, gone |-> TRUE]
        BY <2>5 DEF People!DeleteUser
      <4>2. [exists |-> FALSE, suspended |-> FALSE, banned |-> FALSE, session |-> FALSE, key |-> FALSE,
              bonus |-> 0, gone |-> TRUE] \in AccountRecord
        BY DEF AccountRecord
      <4>3. account \in AccountRecord
        BY DEF PeopleTypes
      <4> QED BY <4>1, <4>2, <4>3, Zenon
    <3>3. subscription' \in [stripe : {"none", "live", "canceled"}, row : BOOLEAN]
      BY <2>5 DEF People!DeleteUser, PeopleTypes
    <3> QED BY <2>5, <3>1, <3>2, <3>3 DEF People!DeleteUser, PeopleTypes
  <2>6. CASE People!MoveCredits(c) \/ People!setAdminNote(c) \/ People!Entitle(c)
          \/ People!logAdminAction(c) \/ People!Abandoned(c)
             \/ People!recordFailure(c) \/ People!recordSuccess(c)
    <3>1. console' \in [Consoles -> {People!Idle} \cup TaskRecord]
      BY <2>6, <2>0, <2>00, <2>000 DEF People!MoveCredits, People!setAdminNote, People!Entitle,
           People!logAdminAction,
         People!Abandoned, People!recordFailure, People!recordSuccess
    <3> QED BY <2>6, <3>1 DEF People!MoveCredits, People!setAdminNote, People!Entitle,
            People!logAdminAction,
         People!Abandoned, People!recordFailure, People!recordSuccess, PeopleTypes
  <2>7. CASE People!checkRateLimit(c)
    BY <2>7 DEF People!checkRateLimit, PeopleTypes, TaskRecord
  <2> QED BY <1>9, <2>1, <2>2, <2>3, <2>4, <2>5, <2>6, <2>7
<1> QED BY <1>1, <1>2, <1>3, <1>4, <1>5, <1>6, <1>7, <1>8, <1>9 DEF People!Next

\* A console at a step has a task, which a step leaves to it.
LEMMA Tasking ==
  ASSUME PeopleTypes, NEW c \in Consoles, NEW s, s # "idle"
  PROVE  /\ People!ConsoleAt(c, s) => console[c] \in TaskRecord /\ console[c].at = s
         /\ \A t : People!Step(c, t) /\ console[c] \in TaskRecord =>
              /\ console'[c] = [console[c] EXCEPT !.at = t] /\ console'[c].at = t
              /\ console'[c].do = console[c].do /\ console'[c].row = console[c].row
              /\ \A e \in Consoles \ {c} : console'[e] = console[e]
         /\ console' = [console EXCEPT ![c] = People!Idle] =>
              console'[c].at = "idle" /\ \A e \in Consoles \ {c} : console'[e] = console[e]
<1>1. People!ConsoleAt(c, s) => console[c] \in TaskRecord /\ console[c].at = s
  BY DEF PeopleTypes, People!ConsoleAt, People!Idle
<1>2. ASSUME NEW t, People!Step(c, t), console[c] \in TaskRecord
      PROVE  /\ console'[c] = [console[c] EXCEPT !.at = t] /\ console'[c].at = t
              /\ console'[c].do = console[c].do /\ console'[c].row = console[c].row
              /\ \A e \in Consoles \ {c} : console'[e] = console[e]
  BY <1>2 DEF PeopleTypes, TaskRecord, People!Step
<1>3. ASSUME console' = [console EXCEPT ![c] = People!Idle]
      PROVE  console'[c].at = "idle" /\ \A e \in Consoles \ {c} : console'[e] = console[e]
  BY <1>3 DEF PeopleTypes, People!Idle
<1> QED BY <1>1, <1>2, <1>3

\* Nobody else's console moves.
Others(c) == \A e \in Consoles \ {c} : console'[e] = console[e]
\* The step a console leaves and the one it comes to.
StepsFrom(c, from, to) ==
  /\ Others(c) /\ console[c] \in TaskRecord /\ console[c].at \in from /\ console'[c].at \in to
  /\ console'[c].at # "idle" => console'[c].do = console[c].do /\ console'[c].row = console[c].row

\* Where each operation takes its console.
LEMMA Acting ==
  ASSUME PeopleTypes, NEW c \in Consoles
  PROVE  /\ People!WriteFlag(c) => StepsFrom(c, {"flag"}, {"ban", "log"})
         /\ People!WriteBan(c) => StepsFrom(c, {"ban"}, {"signout", "log"})
         /\ People!forceSignOut(c) => StepsFrom(c, {"signout"}, {"log"})
         /\ People!CancelSubscription(c) => StepsFrom(c, {"cancel"}, {"deleteUser", "log"})
         /\ People!DeleteUser(c) => StepsFrom(c, {"deleteUser"}, {"log"})
         /\ People!MoveCredits(c) \/ People!setAdminNote(c) =>
              StepsFrom(c, {"credits", "note"}, {"log", "idle"})
         /\ People!Entitle(c) \/ People!logAdminAction(c) =>
              StepsFrom(c, {"entitlement", "log"}, {"idle"})
         /\ People!recordFailure(c) \/ People!recordSuccess(c) => StepsFrom(c, {"password"}, {"idle"})
         /\ People!Abandoned(c) => Others(c) /\ console[c].at # "idle" /\ console'[c].at = "idle"
         /\ People!checkRateLimit(c) => Others(c) /\ console[c].at = "idle"
              /\ console'[c].at = "password" /\ console'[c].do = "login"
         /\ \A do \in DOMAIN People!FirstStep : People!Begin(c, do) =>
              /\ Others(c) /\ console[c].at = "idle" /\ console'[c].at = People!FirstStep[do]
              /\ console'[c].do = do /\ console'[c].row = subscription.row
<1>a. ASSUME NEW from, from # "idle", People!ConsoleAt(c, from), NEW to, People!Step(c, to)
      PROVE  StepsFrom(c, {from}, {to})
  BY <1>a, Tasking DEF StepsFrom, Others
<1>1. People!WriteFlag(c) => StepsFrom(c, {"flag"}, {"ban", "log"})
  <2> SUFFICES ASSUME People!WriteFlag(c) PROVE StepsFrom(c, {"flag"}, {"ban", "log"})
    OBVIOUS
  <2>1. StepsFrom(c, {"flag"}, {"ban"}) \/ StepsFrom(c, {"flag"}, {"log"})
    BY <1>a DEF People!WriteFlag
  <2> QED BY <2>1 DEF StepsFrom
<1>2. People!WriteBan(c) => StepsFrom(c, {"ban"}, {"signout", "log"})
  <2> SUFFICES ASSUME People!WriteBan(c) PROVE StepsFrom(c, {"ban"}, {"signout", "log"})
    OBVIOUS
  <2>1. StepsFrom(c, {"ban"}, {"signout"}) \/ StepsFrom(c, {"ban"}, {"log"})
    BY <1>a DEF People!WriteBan
  <2> QED BY <2>1 DEF StepsFrom
<1>3. People!forceSignOut(c) => StepsFrom(c, {"signout"}, {"log"})
  BY <1>a DEF People!forceSignOut
<1>4. People!CancelSubscription(c) => StepsFrom(c, {"cancel"}, {"deleteUser", "log"})
  <2> SUFFICES ASSUME People!CancelSubscription(c) PROVE StepsFrom(c, {"cancel"}, {"deleteUser", "log"})
    OBVIOUS
  <2>1. StepsFrom(c, {"cancel"}, {"deleteUser"}) \/ StepsFrom(c, {"cancel"}, {"log"})
    BY <1>a DEF People!CancelSubscription
  <2> QED BY <2>1 DEF StepsFrom
<1>5. People!DeleteUser(c) => StepsFrom(c, {"deleteUser"}, {"log"})
  BY <1>a DEF People!DeleteUser
<1>6. People!MoveCredits(c) \/ People!setAdminNote(c) => StepsFrom(c, {"credits", "note"},
        {"log", "idle"})
  <2> SUFFICES ASSUME People!MoveCredits(c) \/ People!setAdminNote(c)
          PROVE StepsFrom(c, {"credits", "note"}, {"log", "idle"})
    OBVIOUS
  <2>1. People!setAdminNote(c) => StepsFrom(c, {"note"}, {"log"})
    BY <1>a DEF People!setAdminNote
  <2>2. People!MoveCredits(c) => People!ConsoleAt(c, "credits")
          /\ (People!Step(c, "log") \/ console' = [console EXCEPT ![c] = People!Idle])
    BY DEF People!MoveCredits
  <2>3. People!ConsoleAt(c, "credits") /\ People!Step(c, "log") => StepsFrom(c, {"credits"}, {"log"})
    BY <1>a
  <2>4. People!ConsoleAt(c, "credits") /\ console' = [console EXCEPT ![c] = People!Idle] =>
          StepsFrom(c, {"credits"}, {"idle"})
    <3> SUFFICES ASSUME People!ConsoleAt(c, "credits"), console' = [console EXCEPT ![c] = People!Idle]
                 PROVE  StepsFrom(c, {"credits"}, {"idle"})
      OBVIOUS
    <3>1. console[c] \in TaskRecord /\ console[c].at = "credits" /\ console'[c].at = "idle"
          /\ \A e \in Consoles \ {c} : console'[e] = console[e]
      BY Tasking
    <3> QED BY <3>1 DEF StepsFrom, Others
  <2> QED BY <2>1, <2>2, <2>3, <2>4 DEF StepsFrom
<1>7. People!Entitle(c) \/ People!logAdminAction(c) => StepsFrom(c, {"entitlement", "log"}, {"idle"})
  BY Tasking DEF People!Entitle, People!logAdminAction, StepsFrom, Others
<1>8. People!recordFailure(c) \/ People!recordSuccess(c) => StepsFrom(c, {"password"}, {"idle"})
  BY Tasking DEF People!recordFailure, People!recordSuccess, StepsFrom, Others
<1>9. People!Abandoned(c) => Others(c) /\ console[c].at # "idle" /\ console'[c].at = "idle"
  BY Tasking DEF People!Abandoned, Others, People!ConsoleAt
<1>10. People!checkRateLimit(c) => Others(c) /\ console[c].at = "idle" /\ console'[c].at = "password"
        /\ console'[c].do = "login"
  BY DEF People!checkRateLimit, PeopleTypes, People!ConsoleAt, Others
<1>11. ASSUME NEW do \in DOMAIN People!FirstStep, People!Begin(c, do)
       PROVE  /\ Others(c) /\ console[c].at = "idle" /\ console'[c].at = People!FirstStep[do]
              /\ console'[c].do = do /\ console'[c].row = subscription.row
  BY <1>11 DEF People!Begin, PeopleTypes, People!ConsoleAt, Others
<1> QED BY <1>1, <1>2, <1>3, <1>4, <1>5, <1>6, <1>7, <1>8, <1>9, <1>10, <1>11

\* Every step keeps each part.
LEMMA KnownKept ==
  ASSUME PeopleTypes, Known, [People!Next]_(People!vars)
  PROVE  Known'
<1>1. CASE UNCHANGED People!vars
  BY <1>1 DEF People!vars, People!consoleVars, Known
<1>2. CASE People!SignUp
  BY <1>2 DEF People!SignUp, PeopleTypes, AccountRecord, Known
<1>3. CASE People!Subscribe \/ People!LookAt \/ People!Wait
  BY <1>3 DEF People!Subscribe, People!LookAt, People!Wait, People!consoleVars, Known
<1>4. CASE People!LogIn
  BY <1>4 DEF People!LogIn, PeopleTypes, AccountRecord, Known
<1>5. CASE People!ChangeKey
  BY <1>5 DEF People!ChangeKey, PeopleTypes, AccountRecord, Known
<1>7. ASSUME NEW v \in Visits, People!Authenticate(v) \/ People!ReadAccess(v) \/ People!Serve(v)
      PROVE  Known'
  BY <1>7 DEF People!Authenticate, People!ReadAccess, People!Serve, Known
<1>8. ASSUME NEW c \in Consoles, NEW do \in DOMAIN People!FirstStep, People!Begin(c, do)
      PROVE  Known'
  <2>1. People!FirstStep[do] \in {"flag", "ban"} => do \in {"suspend", "unsuspend"}
    BY DEF People!FirstStep
  <2>2. account.exists = TRUE
    BY <1>8 DEF People!Begin, PeopleTypes, AccountRecord
  <2> QED BY <1>8, <2>1, <2>2, Acting DEF People!Begin, Others, Known
<1>9. ASSUME NEW c \in Consoles, People!WriteFlag(c) \/ People!WriteBan(c)
      PROVE  Known'
  <2>1. /\ account'.exists = account.exists /\ account'.gone = account.gone
        /\ account.exists = FALSE => account'.suspended = FALSE /\ account'.banned = FALSE
    BY <1>9 DEF People!WriteFlag, People!WriteBan, People!Banned, PeopleTypes, AccountRecord, Known
  <2>2. StepsFrom(c, {"flag", "ban"}, {"ban", "log", "signout"})
    BY <1>9, Acting DEF StepsFrom
  <2> QED BY <2>1, <2>2 DEF StepsFrom, Others, Known
<1>10. ASSUME NEW c \in Consoles, People!forceSignOut(c) \/ People!CancelSubscription(c)
        \/ People!DeleteUser(c)
              \/ People!MoveCredits(c) \/ People!setAdminNote(c) \/ People!Entitle(c)
                   \/ People!logAdminAction(c)
              \/ People!Abandoned(c) \/ People!checkRateLimit(c) \/ People!recordFailure(c)
                   \/ People!recordSuccess(c)
      PROVE  Known'
  <2>1. Others(c) /\ console'[c].at \in {"log", "deleteUser", "idle", "password"}
    BY <1>10, Acting DEF StepsFrom
  <2>2. CASE People!DeleteUser(c)
    BY <2>1, <2>2 DEF People!DeleteUser, Others, Known
  <2>3. CASE ~People!DeleteUser(c)
    <3>1. UNCHANGED <<account.exists, account.gone, account.suspended, account.banned>>
      BY <1>10, <2>3 DEF People!forceSignOut, People!CancelSubscription,
              People!MoveCredits, People!setAdminNote, People!Entitle, People!logAdminAction,
              People!Abandoned, People!checkRateLimit, People!recordFailure, People!recordSuccess,
                   PeopleTypes, AccountRecord
    <3> QED BY <2>1, <3>1 DEF Others, Known
  <2> QED BY <2>2, <2>3
<1> QED BY <1>1, <1>2, <1>3, <1>4, <1>5, <1>7, <1>8, <1>9, <1>10 DEF People!Next

LEMMA LocksKept ==
  ASSUME PeopleTypes, Known, LocksInv, [People!Next]_(People!vars)
  PROVE  LocksInv'
<1>0. ASSUME UNCHANGED <<console, entwined>>, UNCHANGED <<account.suspended, account.banned>>,
             account.exists = TRUE => account'.exists = TRUE,
             account.exists = FALSE /\ account'.exists = TRUE => account.gone = FALSE
      PROVE  LocksInv'
  BY <1>0 DEF LocksInv, Locking, PeopleTypes, AccountRecord, Known
<1>1. CASE UNCHANGED People!vars
  BY <1>0, <1>1 DEF People!vars, People!consoleVars
<1>2. CASE People!SignUp
  <2>1. UNCHANGED <<account.suspended, account.banned>> /\ account.exists = FALSE
          /\ account.gone = FALSE
    BY <1>2 DEF People!SignUp, PeopleTypes, AccountRecord
  <2> QED BY <1>0, <1>2, <2>1 DEF People!SignUp
<1>3. CASE People!Subscribe \/ People!LookAt \/ People!Wait
  BY <1>0, <1>3 DEF People!Subscribe, People!LookAt, People!Wait, People!consoleVars
<1>4. CASE People!LogIn \/ People!ChangeKey
  <2>1. UNCHANGED <<account.suspended, account.banned, account.exists>>
    BY <1>4 DEF People!LogIn, People!ChangeKey, PeopleTypes, AccountRecord
  <2> QED BY <1>0, <1>4, <2>1 DEF People!LogIn, People!ChangeKey
<1>7. ASSUME NEW v \in Visits, People!Authenticate(v) \/ People!ReadAccess(v) \/ People!Serve(v)
      PROVE  LocksInv'
  BY <1>0, <1>7 DEF People!Authenticate, People!ReadAccess, People!Serve
<1>8. ASSUME NEW c \in Consoles, NEW do \in DOMAIN People!FirstStep, People!Begin(c, do)
      PROVE  LocksInv'
  <2>1. do \in {"suspend", "unsuspend"} /\ ~entwined' => \A e \in Consoles : ~Locking(e)
    BY <1>8 DEF People!Begin, Locking, People!OnLocks, People!Locks, People!ConsoleAt
  <2>2. People!FirstStep[do] # "ban"
    BY DEF People!FirstStep
  <2>3. entwined => entwined'
    BY <1>8 DEF People!Begin
  <2>4. UNCHANGED account
    BY <1>8 DEF People!Begin
  <2>5. /\ Others(c) /\ console[c].at = "idle" /\ console'[c].at # "ban" /\ console'[c].do = do
    BY <1>8, <2>2, Acting
  <2> QED BY <2>1, <2>3, <2>4, <2>5 DEF Others, Locking, LocksInv
<1>9. ASSUME NEW c \in Consoles, People!WriteFlag(c)
      PROVE  LocksInv'
  <2>1. StepsFrom(c, {"flag"}, {"ban", "log"}) /\ console[c].do \in {"suspend", "unsuspend"}
          /\ console[c].at = "flag"
    BY <1>9, Acting DEF StepsFrom, Known
  <2>2. UNCHANGED entwined
    BY <1>9 DEF People!WriteFlag
  <2>3. \/ console'[c].at = "ban" /\ account'.exists = account.exists
            /\ account'.suspended = IF account.exists = TRUE /\ console[c].do = "suspend" THEN TRUE
                 ELSE FALSE
        \/ console'[c].at = "log" /\ UNCHANGED account
    <3>1. \A t : People!Step(c, t) => console'[c].at = t
      BY <2>1, Tasking DEF StepsFrom
    <3> QED BY <1>9, <3>1 DEF People!WriteFlag, PeopleTypes, AccountRecord
  <2>4. \A e \in Consoles : Locking(e)' => Locking(e)
    BY <2>1 DEF Others, Locking, StepsFrom
  <2>5. SUFFICES ASSUME ~entwined PROVE LocksInv'
    BY <2>2 DEF LocksInv
  <2>6. \A e \in Consoles \ {c} : ~Locking(e)
    BY <2>1, <2>5 DEF Locking, LocksInv
  <2>7. \A e \in Consoles \ {c} : console'[e].at # "ban"
    BY <2>1, <2>6 DEF Locking, StepsFrom, Others, Known
  <2>8. CASE console'[c].at = "ban"
    BY <2>1, <2>3, <2>4, <2>5, <2>6, <2>7, <2>8 DEF LocksInv, StepsFrom
  <2>9. CASE console'[c].at = "log"
    <3>1. \A e \in Consoles : console[e].at # "ban" /\ console'[e].at # "ban"
      BY <2>1, <2>7, <2>9 DEF StepsFrom, Others
    <3>2. UNCHANGED account
      BY <2>3, <2>9
    <3> QED BY <2>4, <2>5, <3>1, <3>2 DEF LocksInv
  <2> QED BY <2>3, <2>8, <2>9
<1>10. ASSUME NEW c \in Consoles, People!WriteBan(c)
      PROVE  LocksInv'
  <2>1. StepsFrom(c, {"ban"}, {"signout", "log"}) /\ console[c].do \in {"suspend", "unsuspend"}
          /\ console[c].at = "ban"
    BY <1>10, Acting DEF StepsFrom, Known
  <2>2. \/ entwined'
        \/ /\ account'.suspended = account.suspended /\ UNCHANGED entwined
           /\ account'.banned = IF account.exists = TRUE /\ console[c].do = "suspend" THEN TRUE
                ELSE FALSE
    BY <1>10 DEF People!WriteBan, People!Banned, PeopleTypes, AccountRecord
  <2> QED BY <2>1, <2>2 DEF Others, Locking, LocksInv, StepsFrom
<1>11. ASSUME NEW c \in Consoles, People!DeleteUser(c)
      PROVE  LocksInv'
  <2>1. StepsFrom(c, {"deleteUser"}, {"log"})
    BY <1>11, Acting
  <2>2. UNCHANGED entwined /\ (UNCHANGED account \/ (account'.suspended = FALSE
          /\ account'.banned = FALSE /\ account'.exists = FALSE))
    BY <1>11 DEF People!DeleteUser
  <2> QED BY <2>1, <2>2 DEF Others, Locking, LocksInv, StepsFrom
<1>12. ASSUME NEW c \in Consoles, People!forceSignOut(c) \/ People!CancelSubscription(c)
              \/ People!MoveCredits(c) \/ People!setAdminNote(c) \/ People!Entitle(c)
                   \/ People!logAdminAction(c)
              \/ People!recordFailure(c) \/ People!recordSuccess(c)
      PROVE  LocksInv'
  <2>1. UNCHANGED <<account.exists, account.suspended, account.banned, entwined>>
      BY <1>12 DEF People!forceSignOut, People!CancelSubscription,
              People!MoveCredits, People!setAdminNote, People!Entitle, People!logAdminAction,
              People!recordFailure, People!recordSuccess, PeopleTypes, AccountRecord
  <2>2. StepsFrom(c, {"signout", "cancel", "credits", "note", "entitlement", "log", "password"},
          {"deleteUser", "log", "idle"})
    BY <1>12, Acting DEF StepsFrom
  <2>3. /\ \A e \in Consoles : Locking(e)' => Locking(e)
        /\ \A e \in Consoles : console'[e].at = "ban" <=> console[e].at = "ban"
        /\ \A e \in Consoles : console'[e].at = "ban" => console'[e] = console[e]
    BY <2>2 DEF Others, Locking, StepsFrom
  <2> QED BY <2>1, <2>3 DEF LocksInv
<1>13. ASSUME NEW c \in Consoles, People!Abandoned(c)
      PROVE  LocksInv'
  <2>1. Others(c) /\ console[c].at # "idle" /\ console'[c].at = "idle" /\ UNCHANGED account
    BY <1>13, Acting DEF People!Abandoned
  <2>2. (entwined => entwined') /\ (console[c].do \in {"suspend", "unsuspend"} => entwined')
    BY <1>13, Zenon DEF People!Abandoned, People!Locks
  <2> QED BY <2>1, <2>2 DEF Others, Locking, LocksInv, Known
<1>14. ASSUME NEW c \in Consoles, People!checkRateLimit(c)
      PROVE  LocksInv'
  <2>1. Others(c) /\ console[c].at = "idle" /\ console'[c].at = "password" /\ console'[c].do = "login"
        /\ UNCHANGED <<account, entwined>>
    BY <1>14, Acting DEF People!checkRateLimit
  <2> QED BY <2>1 DEF Others, Locking, LocksInv
<1> QED BY <1>1, <1>2, <1>3, <1>4, <1>7, <1>8, <1>9, <1>10, <1>11, <1>12, <1>13, <1>14 DEF People!Next

LEMMA VisitsKept ==
  ASSUME PeopleTypes, Known, VisitsInv, [People!Next]_(People!vars)
  PROVE  VisitsInv'
<1>0. ASSUME UNCHANGED <<visit, wronglyServed>>, account.gone = TRUE => account'.gone = TRUE,
             account.suspended = TRUE => account'.suspended = TRUE \/ account'.gone = TRUE
      PROVE  VisitsInv'
  BY <1>0 DEF VisitsInv
<1>1. CASE UNCHANGED People!vars
  BY <1>0, <1>1 DEF People!vars, People!consoleVars
<1>2. CASE People!SignUp \/ People!LogIn \/ People!ChangeKey
  <2>1. UNCHANGED <<account.gone, account.suspended>>
    BY <1>2 DEF People!SignUp, People!LogIn, People!ChangeKey, PeopleTypes, AccountRecord
  <2> QED BY <1>0, <1>2, <2>1 DEF People!SignUp, People!LogIn, People!ChangeKey
<1>3. CASE People!Subscribe \/ People!LookAt \/ People!Wait
  BY <1>0, <1>3 DEF People!Subscribe, People!LookAt, People!Wait, People!consoleVars
<1>4. ASSUME NEW v \in Visits, People!Authenticate(v)
      PROVE  VisitsInv'
  BY <1>4 DEF People!Authenticate, PeopleTypes, AccountRecord, VisitsInv
<1>5. ASSUME NEW v \in Visits, People!ReadAccess(v)
      PROVE  VisitsInv'
  <2>1. UNCHANGED <<account, wronglyServed>> /\ (\A w \in Visits \ {v} : visit'[w] = visit[w])
          /\ visit[v].at = "known"
        /\ visit[v].locked \in BOOLEAN
    BY <1>5 DEF People!ReadAccess, PeopleTypes, VisitRecord, People!Idle
  <2>2. visit'[v] = People!Idle \/ (account.suspended = FALSE
          /\ visit'[v] = [at |-> "granted", locked |-> visit[v].locked])
    BY <1>5 DEF People!ReadAccess, PeopleTypes, AccountRecord
  <2> QED BY <2>1, <2>2 DEF VisitsInv, People!Idle
<1>6. ASSUME NEW v \in Visits, People!Serve(v)
      PROVE  VisitsInv'
  <2>1. UNCHANGED account /\ (\A w \in Visits \ {v} : visit'[w] = visit[w]) /\ visit[v].at = "granted"
        /\ visit'[v] = People!Idle
    BY <1>6 DEF People!Serve, PeopleTypes
  <2>2. ~(visit[v].locked /\ account.exists)
    BY <2>1 DEF VisitsInv, Known, PeopleTypes, VisitRecord, AccountRecord, People!Idle
  <2>3. ~wronglyServed'
    <3>1. wronglyServed' = (wronglyServed \/ (visit[v].locked /\ account.exists))
      BY <1>6 DEF People!Serve
    <3> QED BY <2>2, <3>1, Zenon DEF VisitsInv
  <2> QED BY <2>1, <2>3 DEF VisitsInv, People!Idle
<1>7. ASSUME NEW c \in Consoles, NEW do \in DOMAIN People!FirstStep, People!Begin(c, do)
      PROVE  VisitsInv'
  BY <1>0, <1>7 DEF People!Begin
<1>8. ASSUME NEW c \in Consoles, People!WriteFlag(c)
      PROVE  VisitsInv'
  <2>1. account.exists = TRUE \/ account.gone = TRUE
    BY <1>8, Acting DEF StepsFrom, Known
  <2>2. account'.gone = account.gone /\ UNCHANGED wronglyServed
    BY <1>8 DEF People!WriteFlag, PeopleTypes, AccountRecord
  <2>3. CASE UNCHANGED <<account, visit>>
    BY <1>0, <2>2, <2>3
  <2>4. CASE account' = [account EXCEPT !.suspended = account.exists /\ (console[c].do = "suspend")]
             /\ visit' = IF console[c].do = "suspend" THEN visit
                  ELSE [v \in Visits |-> IF visit[v] = People!Idle THEN People!Idle
                   ELSE [visit[v] EXCEPT !.locked = FALSE]]
    <3>1. CASE console[c].do = "suspend"
      <4>1. account'.suspended = TRUE \/ account'.gone = TRUE
        BY <2>1, <2>2, <2>4, <3>1 DEF PeopleTypes, AccountRecord
      <4> QED BY <1>0, <2>2, <2>4, <3>1, <4>1
    <3>2. CASE console[c].do # "suspend"
      <4>1. \A v \in Visits : visit'[v].at = "idle" \/ visit'[v].locked = FALSE
        BY <2>4, <3>2 DEF PeopleTypes, VisitRecord, People!Idle
      <4> QED BY <2>2, <4>1 DEF VisitsInv
    <3> QED BY <3>1, <3>2
  <2> QED BY <1>8, <2>3, <2>4 DEF People!WriteFlag
<1>9. ASSUME NEW c \in Consoles, People!DeleteUser(c)
      PROVE  VisitsInv'
  <2>1. UNCHANGED account \/ account'.gone = TRUE
    BY <1>9 DEF People!DeleteUser
  <2>2. UNCHANGED <<visit, wronglyServed>>
    BY <1>9 DEF People!DeleteUser
  <2> QED BY <1>0, <2>1, <2>2
<1>10. ASSUME NEW c \in Consoles, People!forceSignOut(c) \/ People!CancelSubscription(c)
        \/ People!WriteBan(c)
              \/ People!MoveCredits(c) \/ People!setAdminNote(c) \/ People!Entitle(c)
                   \/ People!logAdminAction(c)
              \/ People!Abandoned(c) \/ People!checkRateLimit(c) \/ People!recordFailure(c)
                   \/ People!recordSuccess(c)
      PROVE  VisitsInv'
  <2>1. UNCHANGED <<account.gone, account.suspended>>
      BY <1>10 DEF People!forceSignOut, People!CancelSubscription, People!WriteBan,
              People!MoveCredits, People!setAdminNote, People!Entitle, People!logAdminAction,
                   People!Abandoned,
              People!checkRateLimit, People!recordFailure, People!recordSuccess, PeopleTypes,
                   AccountRecord
  <2>2. UNCHANGED <<visit, wronglyServed>>
      BY <1>10 DEF People!forceSignOut, People!CancelSubscription, People!WriteBan,
              People!MoveCredits, People!setAdminNote, People!Entitle, People!logAdminAction,
                   People!Abandoned,
              People!checkRateLimit, People!recordFailure, People!recordSuccess
  <2> QED BY <1>0, <2>1, <2>2
<1> QED BY <1>1, <1>2, <1>3, <1>4, <1>5, <1>6, <1>7, <1>8, <1>9, <1>10 DEF People!Next

LEMMA BillsKept ==
  ASSUME PeopleTypes, Known, BillsInv, [People!Next]_(People!vars)
  PROVE  BillsInv'
<1>0. ASSUME UNCHANGED <<subscription, lateSale>>, account'.gone = account.gone,
        account'.exists = account.exists,
             \A c \in Consoles : console'[c] = console[c] \/ console'[c].at \notin {"cancel",
                  "deleteUser"}
      PROVE  BillsInv'
  BY <1>0 DEF BillsInv
<1>1. CASE UNCHANGED People!vars
  BY <1>0, <1>1 DEF People!vars, People!consoleVars
<1>2. CASE People!SignUp
  <2>1. account.exists = FALSE /\ account.gone = FALSE /\ account'.exists = TRUE
          /\ account'.gone = FALSE
    BY <1>2 DEF People!SignUp, PeopleTypes, AccountRecord
  <2>2. UNCHANGED <<console, subscription, lateSale>>
    BY <1>2 DEF People!SignUp
  <2> QED BY <2>1, <2>2 DEF BillsInv
<1>3. CASE People!Subscribe
  <2>1. account.exists = TRUE /\ account.gone = FALSE /\ UNCHANGED <<account, console>>
    BY <1>3 DEF People!Subscribe, Known, PeopleTypes, AccountRecord
  <2>2. subscription' = [stripe |-> "live", row |-> TRUE]
    BY <1>3 DEF People!Subscribe
  <2>3. ~lateSale' => \A c \in Consoles : console[c].at \notin {"cancel", "deleteUser"}
    BY <1>3 DEF People!Subscribe
  <2> QED BY <2>1, <2>2, <2>3 DEF BillsInv
<1>4. CASE People!LogIn \/ People!ChangeKey
  <2>1. UNCHANGED <<account.gone, account.exists>>
    BY <1>4 DEF People!LogIn, People!ChangeKey, PeopleTypes, AccountRecord
  <2> QED BY <1>0, <1>4, <2>1 DEF People!LogIn, People!ChangeKey
<1>5. CASE People!LookAt \/ People!Wait
  BY <1>0, <1>5 DEF People!LookAt, People!Wait, People!consoleVars
<1>6. ASSUME NEW v \in Visits, People!Authenticate(v) \/ People!ReadAccess(v) \/ People!Serve(v)
      PROVE  BillsInv'
  BY <1>0, <1>6 DEF People!Authenticate, People!ReadAccess, People!Serve
<1>7. ASSUME NEW c \in Consoles, NEW do \in DOMAIN People!FirstStep, People!Begin(c, do)
      PROVE  BillsInv'
  <2>1. People!FirstStep[do] # "deleteUser"
    BY DEF People!FirstStep
  <2>2. UNCHANGED <<account, subscription, lateSale>> /\ account.exists = TRUE
    BY <1>7 DEF People!Begin, PeopleTypes, AccountRecord
  <2>3. Others(c) /\ console'[c].at # "deleteUser" /\ console'[c].row = subscription.row
    BY <1>7, <2>1, Acting
  <2> QED BY <2>2, <2>3 DEF BillsInv, Others
<1>8. ASSUME NEW c \in Consoles, People!CancelSubscription(c)
      PROVE  BillsInv'
  <2>1. StepsFrom(c, {"cancel"}, {"deleteUser", "log"}) /\ UNCHANGED <<account, lateSale>>
    BY <1>8, Acting DEF People!CancelSubscription
  <2>2. \/ UNCHANGED subscription /\ console'[c].at = "log"
        \/ subscription'.stripe = IF console[c].row = TRUE /\ subscription.stripe = "live"
             THEN "canceled" ELSE subscription.stripe
    <3>1. \A t : People!Step(c, t) => console'[c].at = t
      BY <2>1, Tasking DEF StepsFrom
    <3> QED BY <1>8, <2>1, <3>1 DEF People!CancelSubscription, PeopleTypes, TaskRecord, StepsFrom
  <2>3. subscription'.row = subscription.row
    BY <1>8 DEF People!CancelSubscription, PeopleTypes
  <2> QED BY <2>1, <2>2, <2>3 DEF BillsInv, StepsFrom, Others
<1>9. ASSUME NEW c \in Consoles, People!DeleteUser(c)
      PROVE  BillsInv'
  <2>1. StepsFrom(c, {"deleteUser"}, {"log"}) /\ UNCHANGED lateSale
    BY <1>9, Acting DEF People!DeleteUser
  <2>2. \/ UNCHANGED <<account, subscription>>
        \/ account'.exists = FALSE /\ account'.gone = TRUE /\ subscription'.stripe = subscription.stripe
    BY <1>9 DEF People!DeleteUser, PeopleTypes
  <2> QED BY <2>1, <2>2 DEF BillsInv, StepsFrom, Others
<1>10. ASSUME NEW c \in Consoles, People!forceSignOut(c) \/ People!WriteFlag(c) \/ People!WriteBan(c)
              \/ People!MoveCredits(c) \/ People!setAdminNote(c) \/ People!Entitle(c)
                   \/ People!logAdminAction(c)
              \/ People!Abandoned(c) \/ People!checkRateLimit(c) \/ People!recordFailure(c)
                   \/ People!recordSuccess(c)
      PROVE  BillsInv'
  <2>1. UNCHANGED <<account.gone, account.exists>>
      BY <1>10 DEF People!forceSignOut, People!WriteFlag, People!WriteBan,
              People!MoveCredits, People!setAdminNote, People!Entitle, People!logAdminAction,
                   People!Abandoned,
              People!checkRateLimit, People!recordFailure, People!recordSuccess, PeopleTypes,
                   AccountRecord
  <2>2. UNCHANGED <<subscription, lateSale>>
      BY <1>10 DEF People!forceSignOut, People!WriteFlag, People!WriteBan,
              People!MoveCredits, People!setAdminNote, People!Entitle, People!logAdminAction,
                   People!Abandoned,
              People!checkRateLimit, People!recordFailure, People!recordSuccess
  <2>3. Others(c) /\ console'[c].at \notin {"cancel", "deleteUser"}
      BY <1>10, Acting DEF StepsFrom
  <2> QED BY <1>0, <2>1, <2>2, <2>3 DEF Others
<1> QED BY <1>1, <1>2, <1>3, <1>4, <1>5, <1>6, <1>7, <1>8, <1>9, <1>10 DEF People!Next

\* The throttle: one log-in in hand.
Trying(c) == console[c].at = "password"
\* The types of the throttle.
ThrottleTypes == clock \in Nat /\ tries \in Seq(Nat) /\ buckets \in [fails : Nat, firstAt : Nat,
     lockedUntil : Nat]
\* The failures counted are the last of the tries; before them the window that expired.
Counting ==
  LET n == Len(tries) k == buckets.fails IN
  /\ \A i, j \in 1..n : i <= j => tries[i] <= tries[j] /\ tries[j] <= clock
  /\ k <= n /\ k < MAX_FAILS
  /\ k > 0 => /\ buckets.lockedUntil = 0 /\ buckets.firstAt = tries[n - k + 1]
              /\ \A i \in 1..(n - k) : buckets.firstAt - tries[i] <= WINDOW =>
                   n - k - i + 1 <= MAX_FAILS - 2
  /\ k = 0 => \/ n = 0 /\ buckets.lockedUntil = 0
              \/ n > 0 /\ buckets.firstAt = tries[n] /\ buckets.lockedUntil = tries[n] + LOCK
\* No window holds twice the limit.
Bounded == \A i, j \in 1..Len(tries) : i <= j /\ tries[j] - tries[i] <= WINDOW =>
     j - i + 1 <= 2 * MAX_FAILS - 2
\* Unless two log-ins overlapped.
TriesInv ==
  overlapped \/
    /\ \A c, e \in Consoles : Trying(c) /\ Trying(e) => c = e
    /\ \A c \in Consoles : Trying(c) => buckets.lockedUntil <= clock
    /\ Counting /\ Bounded

\* A failure is counted, in the window or in a new one.
LEMMA FailureKeeps ==
  ASSUME ThrottleTypes, Counting, Bounded, buckets.lockedUntil <= clock,
         buckets' = People!Counted, tries' = Append(tries, clock), UNCHANGED clock
  PROVE  ThrottleTypes' /\ Counting' /\ Bounded'
<1> DEFINE n == Len(tries)
           k == buckets.fails
           f == buckets.firstAt
           M == MAX_FAILS
           W == WINDOW
<1>1. n \in Nat /\ k \in Nat /\ f \in Nat /\ clock \in Nat /\ buckets.lockedUntil \in Nat
  BY DEF ThrottleTypes
<1>2. M \in Nat /\ M >= 2 /\ W \in Nat /\ LOCK \in Nat /\ LOCK > W
  BY AccountsAssumption
<1>3. /\ tries' \in Seq(Nat) /\ Len(tries') = n + 1 /\ tries'[n + 1] = clock
      /\ \A i \in 1..n : tries'[i] = tries[i] /\ tries[i] \in Nat
  BY <1>1 DEF ThrottleTypes
<1>4. /\ \A i, j \in 1..n : i <= j => tries[i] <= tries[j] /\ tries[j] <= clock
      /\ k <= n /\ k < M
  BY DEF Counting
<1>5. k > 0 => f = tries[n - k + 1] /\ \A i \in 1..(n - k) : f - tries[i] <= W => n - k - i + 1 <= M - 2
  BY DEF Counting
<1>6. \A i, j \in 1..(n + 1) : i <= j => tries'[i] <= tries'[j] /\ tries'[j] <= clock
  <2> SUFFICES ASSUME NEW i \in 1..(n + 1), NEW j \in 1..(n + 1), i <= j
               PROVE  tries'[i] <= tries'[j] /\ tries'[j] <= clock
    OBVIOUS
  <2>1. CASE j = n + 1 /\ i = n + 1
    BY <1>1, <1>3, <2>1
  <2>2. CASE j = n + 1 /\ i # n + 1
    BY <1>1, <1>3, <1>4, <2>2
  <2>3. CASE j # n + 1
    BY <1>1, <1>3, <1>4, <2>3
  <2> QED BY <2>1, <2>2, <2>3
<1>7. \/ /\ n = 0 \/ clock - f > W
         /\ buckets' = [fails |-> 1, firstAt |-> clock, lockedUntil |-> 0]
      \/ /\ k > 0 /\ clock - f <= W /\ k + 1 < M
         /\ buckets' = [buckets EXCEPT !.fails = k + 1] /\ buckets.lockedUntil = 0
      \/ /\ k > 0 /\ clock - f <= W /\ k + 1 = M
         /\ buckets' = [fails |-> 0, firstAt |-> clock, lockedUntil |-> clock + LOCK]
  <2>1. CASE k = 0 /\ n # 0
    <3>1. clock - f > W /\ ~(0 + 1 >= M)
      BY <1>1, <1>2, <2>1 DEF Counting
    <3> QED BY <2>1, <3>1 DEF People!Counted
  <2>2. CASE k = 0 /\ n = 0
    <3>1. ~(0 + 1 >= M)
      BY <1>2
    <3>2. buckets.lockedUntil = 0
      BY <1>1, <2>2 DEF Counting
    <3> QED BY <2>2, <3>1, <3>2 DEF People!Counted
  <2>3. CASE k > 0 /\ clock - f > W
    <3>1. ~(0 + 1 >= M)
      BY <1>2
    <3> QED BY <2>3, <3>1 DEF People!Counted
  <2>4. CASE k > 0 /\ clock - f <= W
    <3>1. buckets.lockedUntil = 0 /\ ~(clock - f > W) /\ k # 0
      BY <1>1, <1>2, <2>4 DEF Counting
    <3>2. (k + 1 >= M) <=> k + 1 = M
      BY <1>1, <1>2, <1>4
    <3>3. People!Counted = IF k + 1 >= M THEN [fails |-> 0, firstAt |-> clock,
            lockedUntil |-> clock + LOCK]
                           ELSE [buckets EXCEPT !.fails = k + 1]
      BY <3>1, Zenon DEF People!Counted
    <3> QED BY <1>1, <1>2, <1>4, <2>4, <3>1, <3>2, <3>3
  <2> QED BY <1>1, <1>2, <2>1, <2>2, <2>3, <2>4
<1>8. Bounded <=> \A i, j \in 1..n : i <= j /\ tries[j] - tries[i] <= W => j - i + 1 <= 2 * M - 2
  BY DEF Bounded
<1> HIDE DEF n, k, f, M, W
<1>9. ASSUME \A i \in 1..n : clock - tries[i] <= W => (n + 1) - i + 1 <= 2 * M - 2
      PROVE  Bounded'
  <2> SUFFICES ASSUME NEW i \in 1..(n + 1), NEW j \in 1..(n + 1), i <= j, tries'[j] - tries'[i] <= W
               PROVE  j - i + 1 <= 2 * M - 2
    BY <1>3 DEF Bounded, M, W
  <2>1. CASE j = n + 1 /\ i = n + 1
    BY <1>1, <1>2, <2>1
  <2>2. CASE j = n + 1 /\ i # n + 1
    BY <1>1, <1>3, <1>9, <2>2
  <2>3. CASE j # n + 1
    BY <1>1, <1>3, <1>8, <2>3
  <2> QED BY <2>1, <2>2, <2>3
<1>10. CASE (n = 0 \/ clock - f > W) /\ buckets' = [fails |-> 1, firstAt |-> clock, lockedUntil |-> 0]
  <2>1. \A i \in 1..n : clock - tries[i] <= W => n - i + 1 <= M - 2
    <3> SUFFICES ASSUME NEW i \in 1..n, clock - tries[i] <= W PROVE n - i + 1 <= M - 2
      OBVIOUS
    <3>1. clock - f > W
      BY <1>1, <1>10
    <3>2. CASE k = 0
      <4>1. f = tries[n]
        BY <1>1, <3>2 DEF Counting, n, k, f
      <4>2. tries[i] <= tries[n]
        BY <1>1, <1>4
      <4> QED BY <1>1, <1>2, <1>3, <3>1, <4>1, <4>2
    <3>3. CASE k > 0
      <4>1. CASE i <= n - k + 1
        <5>1. tries[i] <= tries[n - k + 1]
          BY <1>1, <1>4, <3>3, <4>1
        <5> QED BY <1>1, <1>2, <1>3, <1>4, <1>5, <3>1, <3>3, <5>1
      <4>2. CASE i > n - k + 1
        BY <1>1, <1>2, <1>4, <3>3, <4>2
      <4> QED BY <1>1, <4>1, <4>2
    <3> QED BY <1>1, <3>2, <3>3
  <2>2. Bounded'
    BY <1>1, <1>2, <1>9, <2>1
  <2>3. ThrottleTypes'
    BY <1>1, <1>3, <1>10 DEF ThrottleTypes
  <2>4. buckets'.fails = 1 /\ buckets'.firstAt = clock /\ buckets'.lockedUntil = 0
    BY <1>10
  <2>5. Counting'
    <3>1. \A i \in 1..((n + 1) - 1) : clock - tries'[i] <= W => (n + 1) - 1 - i + 1 <= M - 2
      BY <1>1, <1>3, <2>1
    <3>2. 1 <= n + 1 /\ 1 < M /\ tries'[(n + 1) - 1 + 1] = clock
      BY <1>1, <1>2, <1>3
    <3> QED BY <1>3, <1>6, <2>4, <3>1, <3>2 DEF Counting, M, W
  <2> QED BY <2>2, <2>3, <2>5
<1>11. CASE k > 0 /\ clock - f <= W
  <2>1. \A i \in 1..n : clock - tries[i] <= W => (n + 1) - i + 1 <= M - 2 + k + 1
    <3> SUFFICES ASSUME NEW i \in 1..n, clock - tries[i] <= W PROVE (n + 1) - i + 1 <= M - 2 + k + 1
      OBVIOUS
    <3>1. CASE i > n - k
      BY <1>1, <1>2, <1>4, <1>11, <3>1
    <3>2. CASE i <= n - k
      <4>1. f <= clock
        <5>1. n - k + 1 \in 1..n
          BY <1>1, <1>4, <1>11
        <5> QED BY <1>4, <1>5, <1>11, <5>1
      <4>2. f - tries[i] <= W
        BY <1>1, <1>2, <1>3, <4>1
      <4> QED BY <1>1, <1>2, <1>4, <1>5, <1>11, <3>2, <4>2
    <3> QED BY <1>1, <3>1, <3>2
  <2>2. Bounded'
    BY <1>1, <1>2, <1>4, <1>9, <2>1
  <2>3. CASE k + 1 < M /\ buckets' = [buckets EXCEPT !.fails = k + 1] /\ buckets.lockedUntil = 0
    <3>1. ThrottleTypes' /\ buckets'.fails = k + 1 /\ buckets'.firstAt = f /\ buckets'.lockedUntil = 0
      BY <1>1, <1>3, <2>3 DEF ThrottleTypes, f
    <3>2. tries'[(n + 1) - (k + 1) + 1] = f
      <4>1. n - k + 1 \in 1..n /\ (n + 1) - (k + 1) + 1 = n - k + 1
        BY <1>1, <1>4, <1>11
      <4> QED BY <1>3, <1>5, <1>11, <4>1
    <3>3. \A i \in 1..((n + 1) - (k + 1)) : f - tries'[i] <= W => (n + 1) - (k + 1) - i + 1 <= M - 2
      <4> SUFFICES ASSUME NEW i \in 1..((n + 1) - (k + 1)), f - tries'[i] <= W
                   PROVE  (n + 1) - (k + 1) - i + 1 <= M - 2
        OBVIOUS
      <4>1. i \in 1..(n - k) /\ i \in 1..n
        BY <1>1, <1>4
      <4>2. f - tries[i] <= W
        BY <1>3, <4>1
      <4> QED BY <1>1, <1>5, <1>11, <4>1, <4>2
    <3>4. k + 1 <= n + 1 /\ k + 1 # 0
      BY <1>1, <1>4
    <3>5. Counting'
      BY <1>3, <1>6, <2>3, <3>1, <3>2, <3>3, <3>4 DEF Counting, M, W
    <3> QED BY <2>2, <3>1, <3>5
  <2>4. CASE k + 1 = M /\ buckets' = [fails |-> 0, firstAt |-> clock, lockedUntil |-> clock + LOCK]
    <3>1. ThrottleTypes'
      BY <1>1, <1>2, <1>3, <2>4 DEF ThrottleTypes
    <3>2. 0 <= n + 1 /\ 0 < M /\ n + 1 > 0 /\ ~(0 > 0)
      BY <1>1, <1>2
    <3>3. Counting'
      BY <1>3, <1>6, <2>4, <3>2 DEF Counting, M
    <3> QED BY <2>2, <3>1, <3>3
  <2> QED BY <1>1, <1>2, <1>4, <1>7, <1>11, <2>3, <2>4
<1> QED BY <1>7, <1>10, <1>11

LEMMA TriesKept ==
  ASSUME PeopleTypes, ThrottleTypes, TriesInv, [People!Next]_(People!vars)
  PROVE  ThrottleTypes' /\ TriesInv'
<1>0. ASSUME UNCHANGED <<buckets, tries, overlapped>>, clock' \in Nat, clock <= clock',
             \A e \in Consoles : Trying(e)' => Trying(e)
      PROVE  ThrottleTypes' /\ TriesInv'
  <2>1. ThrottleTypes' /\ (Bounded <=> Bounded')
    BY <1>0 DEF ThrottleTypes, Bounded
  <2>2. Counting => Counting'
    <3> SUFFICES ASSUME Counting PROVE Counting'
      OBVIOUS
    <3>1. \A j \in 1..Len(tries) : tries[j] \in Nat
      BY DEF ThrottleTypes
    <3>2. \A i, j \in 1..Len(tries) : i <= j => tries[i] <= tries[j] /\ tries[j] <= clock'
      BY <1>0, <3>1 DEF Counting, ThrottleTypes
    <3> QED BY <1>0, <3>2 DEF Counting
  <2>3. buckets.lockedUntil <= clock => buckets'.lockedUntil <= clock'
    BY <1>0 DEF ThrottleTypes
  <2> QED BY <1>0, <2>1, <2>2, <2>3 DEF TriesInv, ThrottleTypes
<1>1. CASE UNCHANGED People!vars
  BY <1>0, <1>1 DEF People!vars, People!consoleVars, People!throttle, ThrottleTypes, Trying
<1>2. CASE People!SignUp \/ People!Subscribe \/ People!LogIn \/ People!ChangeKey \/ People!LookAt
  <2>1. UNCHANGED <<clock, buckets, tries, overlapped, console>>
    BY <1>2 DEF People!SignUp, People!Subscribe, People!LogIn, People!ChangeKey, People!LookAt,
         People!throttle
  <2> QED BY <1>0, <2>1 DEF ThrottleTypes, Trying
<1>3. CASE People!Wait
  <2>1. UNCHANGED <<buckets, tries, overlapped, console>> /\ clock' = clock + 1
    BY <1>3 DEF People!Wait, People!consoleVars
  <2> QED BY <1>0, <2>1 DEF ThrottleTypes, Trying
<1>4. ASSUME NEW v \in Visits, People!Authenticate(v) \/ People!ReadAccess(v) \/ People!Serve(v)
      PROVE  ThrottleTypes' /\ TriesInv'
  <2>1. UNCHANGED <<clock, buckets, tries, overlapped, console>>
    BY <1>4 DEF People!Authenticate, People!ReadAccess, People!Serve, People!throttle
  <2> QED BY <1>0, <2>1 DEF ThrottleTypes, Trying
<1>5. ASSUME NEW c \in Consoles, \/ \E do \in DOMAIN People!FirstStep : People!Begin(c, do)
              \/ People!forceSignOut(c) \/ People!WriteFlag(c) \/ People!WriteBan(c)
                   \/ People!CancelSubscription(c)
              \/ People!DeleteUser(c) \/ People!MoveCredits(c) \/ People!setAdminNote(c)
                   \/ People!Entitle(c)
              \/ People!logAdminAction(c) \/ People!Abandoned(c)
      PROVE  ThrottleTypes' /\ TriesInv'
  <2>1. UNCHANGED <<clock, buckets, tries, overlapped>>
    BY <1>5 DEF People!Begin, People!forceSignOut, People!WriteFlag, People!WriteBan,
         People!CancelSubscription, People!DeleteUser,
       People!MoveCredits, People!setAdminNote, People!Entitle, People!logAdminAction, People!Abandoned,
            People!throttle
  <2>2. \A do \in DOMAIN People!FirstStep : People!FirstStep[do] # "password"
    BY DEF People!FirstStep
  <2>3. Others(c) /\ console'[c].at # "password"
    BY <1>5, <2>2, Acting DEF StepsFrom
  <2> QED BY <1>0, <2>1, <2>3 DEF ThrottleTypes, Trying, Others
<1>6. ASSUME NEW c \in Consoles, People!checkRateLimit(c)
      PROVE  ThrottleTypes' /\ TriesInv'
  <2>1. UNCHANGED <<clock, buckets, tries>> /\ buckets.lockedUntil <= clock
        /\ Others(c) /\ console'[c].at = "password"
    BY <1>6, Acting DEF People!checkRateLimit
  <2>2. (overlapped => overlapped') /\ (People!InTry # {} => overlapped')
    BY <1>6, Zenon DEF People!checkRateLimit
  <2>3. overlapped' \/ \A e \in Consoles : ~Trying(e)
    BY <2>2 DEF People!InTry, Trying, People!ConsoleAt
  <2>4. ThrottleTypes' /\ (Counting => Counting') /\ (Bounded => Bounded')
    BY <2>1 DEF ThrottleTypes, Counting, Bounded
  <2> QED BY <2>1, <2>2, <2>3, <2>4 DEF TriesInv, Others, Trying
<1>7. ASSUME NEW c \in Consoles, People!recordFailure(c)
      PROVE  ThrottleTypes' /\ TriesInv'
  <2>1. buckets' = People!Counted /\ tries' = Append(tries, clock) /\ UNCHANGED <<clock, overlapped>>
        /\ Trying(c) /\ Others(c) /\ console'[c].at = "idle"
    BY <1>7, Acting DEF People!recordFailure, StepsFrom, Trying
  <2>2. CASE overlapped
    <3>1. ThrottleTypes'
      <4>1. PICK b \in {[fails |-> 0, firstAt |-> clock, lockedUntil |-> 0], buckets} :
                 People!Counted \in {[fails |-> 0, firstAt |-> clock, lockedUntil |-> clock + LOCK],
                      [b EXCEPT !.fails = @ + 1]}
        BY DEF People!Counted
      <4>2. b \in [fails : Nat, firstAt : Nat, lockedUntil : Nat]
        BY DEF ThrottleTypes
      <4>3. buckets' \in [fails : Nat, firstAt : Nat, lockedUntil : Nat]
        BY <2>1, <4>1, <4>2, AccountsAssumption DEF ThrottleTypes
      <4>4. tries' \in Seq(Nat)
        BY <2>1 DEF ThrottleTypes
      <4> QED BY <2>1, <4>3, <4>4 DEF ThrottleTypes
    <3> QED BY <2>1, <2>2, <3>1 DEF TriesInv
  <2>3. CASE ~overlapped
    <3>1. \A e \in Consoles \ {c} : ~Trying(e)
      BY <2>1, <2>3 DEF TriesInv
    <3>2. ThrottleTypes' /\ Counting' /\ Bounded'
      BY <2>1, <2>3, FailureKeeps DEF TriesInv
    <3> QED BY <2>1, <3>1, <3>2 DEF TriesInv, Trying, Others
  <2> QED BY <2>2, <2>3
<1>8. ASSUME NEW c \in Consoles, People!recordSuccess(c)
      PROVE  ThrottleTypes' /\ TriesInv'
  <2>1. buckets' = [fails |-> 0, firstAt |-> 0, lockedUntil |-> 0] /\ tries' = <<>>
          /\ UNCHANGED <<clock, overlapped>>
        /\ Trying(c) /\ Others(c) /\ console'[c].at = "idle"
    BY <1>8, Acting DEF People!recordSuccess, StepsFrom, Trying
  <2>2. ThrottleTypes' /\ Counting' /\ Bounded'
    BY <2>1, AccountsAssumption DEF ThrottleTypes, Counting, Bounded
  <2> QED BY <2>1, <2>2 DEF TriesInv, Others, Trying
<1> QED BY <1>1, <1>2, <1>3, <1>4, <1>5, <1>6, <1>7, <1>8 DEF People!Next

\* The inductive invariant.
PeopleInv == PeopleTypes /\ Known /\ LocksInv /\ VisitsInv /\ BillsInv /\ ThrottleTypes /\ TriesInv

\* The invariant holds at first, and every step keeps it.
LEMMA PeopleStart == People!Init => PeopleInv
<1> SUFFICES ASSUME People!Init PROVE PeopleInv
  OBVIOUS
<1>1. PeopleTypes
  BY DEF People!Init, PeopleTypes, AccountRecord
<1>2. Known
  BY DEF People!Init, Known, People!Idle
<1>3. LocksInv
  BY DEF People!Init, LocksInv, Locking, People!Idle
<1>4. VisitsInv
  BY DEF People!Init, VisitsInv, People!Idle
<1>5. BillsInv
  BY DEF People!Init, BillsInv, People!Idle
<1>6. ThrottleTypes
  BY DEF People!Init, ThrottleTypes
<1>7. TriesInv
  BY AccountsAssumption DEF People!Init, TriesInv, Trying, People!Idle, Counting, Bounded
<1> QED BY <1>1, <1>2, <1>3, <1>4, <1>5, <1>6, <1>7 DEF PeopleInv

LEMMA PeopleKept == PeopleInv /\ [People!Next]_(People!vars) => PeopleInv'
BY TypesKept, KnownKept, LocksKept, VisitsKept, BillsKept, TriesKept DEF PeopleInv

\* The part runs in behaviours of its own.
PeopleHold == scene = "accounts" => PeopleInv

LEMMA PeopleAlways == SceneSpec => []PeopleHold
<1>1. SceneInit => PeopleHold
  BY PeopleStart DEF SceneInit, PeopleHold
<1>2. PeopleHold /\ [SceneNext]_sceneVars => PeopleHold'
  <2> SUFFICES ASSUME PeopleHold, [SceneNext]_sceneVars, scene' = "accounts" PROVE PeopleInv'
    BY DEF PeopleHold
  <2>1. scene = "accounts" /\ [People!Next]_(People!vars)
    BY DEF SceneNext, sceneVars, AccountsOnly, People!vars, People!consoleVars, People!throttle
  <2> QED BY <2>1, PeopleKept DEF PeopleHold
<1> QED BY <1>1, <1>2, PTL DEF SceneSpec

\* The flag and the ban of a suspension agree whenever no action on them is under way, unless two
\* crossed or a call was lost, and nobody suspended is served by a session or a key, for any
\* consoles and visits (lib/admin/users.ts, lib/access.ts).
THEOREM SuspensionsHold == SceneSpec => []SuspensionHolds
<1>1. PeopleHold => SuspensionHolds
  <2> SUFFICES ASSUME scene = "accounts", PeopleInv PROVE People!LocksAgree /\ People!NotServedSuspended
    BY DEF PeopleHold, SuspensionHolds
  <2>1. People!NotServedSuspended
    BY DEF PeopleInv, VisitsInv, People!NotServedSuspended
  <2>2. ASSUME ~entwined, People!OnLocks = {} PROVE account.suspended = account.banned
    <3>1. \A c \in Consoles : console[c].at # "ban"
      BY <2>2 DEF PeopleInv, Known, People!OnLocks, People!ConsoleAt, People!Locks
    <3> QED BY <2>2, <3>1 DEF PeopleInv, LocksInv
  <2> QED BY <2>1, <2>2 DEF People!LocksAgree
<1> QED BY <1>1, PeopleAlways, PTL

\* A deleted account has no live subscription unless a sale came late, and no window of the
\* console's throttle holds more failures than twice the limit less two, unless tries overlapped:
\* for any limit, window and lock longer than the window (lib/admin/users.ts,
\* lib/admin/rate-limit.ts).
THEOREM GoneAccountsUnbilled == SceneSpec => []NothingBilledAfter
<1>1. PeopleHold => NothingBilledAfter
  <2> SUFFICES ASSUME scene = "accounts", PeopleInv PROVE People!NothingBilledAfter
          /\ People!FailuresBounded
    BY DEF PeopleHold, NothingBilledAfter
  <2>1. People!NothingBilledAfter
    BY DEF PeopleInv, BillsInv, People!NothingBilledAfter, PeopleTypes, AccountRecord
  <2>2. DOMAIN tries = 1..Len(tries)
    BY DEF PeopleInv, ThrottleTypes
  <2>3. People!FailuresBounded
    BY <2>2 DEF PeopleInv, TriesInv, Bounded, People!FailuresBounded
  <2> QED BY <2>1, <2>3
<1> QED BY <1>1, PeopleAlways, PTL

-----------------------------------------------------------------------------
(* Crm: one record of a website however often it is pushed, and the tokens *)
(* of a connection. Pushes refresh, look up and write in steps of their    *)
(* own, while the customer connects and disconnects.                       *)

\* A push that is over.
PushIdle(r) == push[r].at = "idle"
\* Type invariant of the connections.
SyncTypes ==
  /\ push = [r \in Pushes |-> push[r]]
  /\ remote \in [access : Nat, refresh : Nat, issued : Nat]
  /\ deliveries \in [taken : Nat, counted : Nat]
  /\ blurred \in BOOLEAN /\ refused \in BOOLEAN
\* Where a push can be, and what it carries there.
PushSteps == {"idle", "endpoint", "lookup", "refresh", "save", "write"}
PushType(r) ==
  /\ push[r].at \in PushSteps
  /\ push[r].at = "endpoint" => provider = "webhook"
  /\ push[r].at \in {"lookup", "refresh", "save", "write"} =>
       provider # "webhook" /\ {"at", "leads", "retried"} \subseteq DOMAIN push[r]
  /\ push[r].at = "write" \/ (push[r].at \in {"refresh", "save"} /\ push[r].retried) =>
       "found" \in DOMAIN push[r]
PushTypes == \A r \in Pushes : PushType(r)
\* One push is in hand.
OnePush == \A q, r \in Pushes : ~PushIdle(q) /\ ~PushIdle(r) => q = r
\* One lead of a website.
OneEach(leadset) == \A k, l \in leadset : Domain(k) = Domain(l) /\ Domain(k) # NoSite => k = l
\* The leads of a push the CRM holds a record of.
Have(r) == { l \in push[r].leads : Domain(l) \in Sync!Held }
\* What a push was told by the lookup is what is held.
PushKnows(r) ==
  push[r].at \in {"lookup", "refresh", "save", "write"} =>
     /\ unindexed = {} /\ OneEach(push[r].leads)
     /\ refused = FALSE /\ (push[r].at = "write" \/ (push[r].at \in {"refresh", "save"}
          /\ push[r].retried)) => push[r].found = Have(r)
\* One record of a website.
OneRecord == \A a, b \in records : a.domain = b.domain /\ a.domain # NoSite => a = b
\* Unless a behaviour is blurred (two pushes at once, an answer that was lost, an index that lags).
RecordInv ==
  blurred = FALSE => OnePush /\ (\A r \in Pushes : PushKnows(r)) /\ (refused = FALSE => OneRecord)
\* The refresh token on file is the one that works, or the push that saves it has it.
TokenInv ==
  blurred = FALSE =>
    /\ connection # Sync!NoRow /\ (\A r \in Pushes : push[r].at # "save") =>
         connection.refresh = remote.refresh
    /\ \A r \in Pushes : push[r].at = "save" => push[r].fresh = remote.refresh
\* The secret on file is the one the customer was told.
SecretInv ==
  blurred = FALSE =>
    /\ told # 0 => endpoint.secret = told
    /\ \A r \in Pushes : push[r].at = "endpoint" /\ told # 0 => push[r].secret = told
\* No delivery is counted that the endpoint did not take.
LandedInv == miscounted = FALSE /\ deliveries.counted <= deliveries.taken
\* The inductive invariant.
SyncInv == SyncTypes /\ PushTypes /\ RecordInv /\ TokenInv /\ SecretInv /\ LandedInv

\* A push moves and carries on what it has.
LEMMA PushMoves ==
  ASSUME NEW r \in Pushes, SyncTypes, NEW f, Sync!Move(r, f)
  PROVE /\ push' = [q \in Pushes |-> push'[q]]
        /\ \A q \in Pushes \ {r} : push'[q] = push[q]
        /\ push'[r] = [x \in (DOMAIN f) \cup (DOMAIN push[r]) |-> IF x \in DOMAIN f THEN f[x]
             ELSE push[r][x]]
BY DEF Sync!Move, SyncTypes

\* A push ends.
LEMMA PushEnds ==
  ASSUME NEW r \in Pushes, SyncTypes, Sync!End(r)
  PROVE /\ push' = [q \in Pushes |-> push'[q]]
        /\ \A q \in Pushes \ {r} : push'[q] = push[q]
        /\ push'[r] = Sync!Idle
BY DEF Sync!End, SyncTypes

\* What a step of one push does to the pushes.
LEMMA Refreshes ==
  ASSUME NEW r \in Pushes, SyncTypes, PushTypes, Sync!Refresh(r)
  PROVE /\ push' = [q \in Pushes |-> push'[q]]
        /\ \A q \in Pushes \ {r} : push'[q] = push[q]
        /\ push[r].at = "refresh"
        /\ \/ push'[r].at = "idle" /\ UNCHANGED remote
           \/ /\ push'[r].at = "save" /\ push'[r].fresh = remote'.refresh
                /\ push'[r].leads = push[r].leads
              /\ push'[r].retried = push[r].retried
              /\ DOMAIN push[r] \subseteq DOMAIN push'[r]
              /\ "found" \in DOMAIN push[r] => push'[r].found = push[r].found
              /\ Sync!Issue /\ blurred' = blurred
<1>1. CASE Sync!End(r) /\ UNCHANGED remote
  BY <1>1, PushEnds DEF Sync!Refresh, Sync!Idle, Sync!PushAt
<1>2. CASE /\ Sync!Issue /\ Sync!Fine
           /\ Sync!Move(r, [at |-> "save", token |-> remote'.access, fresh |-> remote'.refresh])
  <2> DEFINE f == [at |-> "save", token |-> remote'.access, fresh |-> remote'.refresh]
  <2>1. DOMAIN f = {"at", "token", "fresh"} /\ f["at"] = "save" /\ f["fresh"] = remote'.refresh
    OBVIOUS
  <2>2. /\ push' = [q \in Pushes |-> push'[q]]
        /\ \A q \in Pushes \ {r} : push'[q] = push[q]
        /\ push'[r] = [x \in (DOMAIN f) \cup (DOMAIN push[r]) |-> IF x \in DOMAIN f THEN f[x]
             ELSE push[r][x]]
    <3> HIDE DEF f
    <3> QED BY <1>2, PushMoves DEF f
  <2>3. push[r].at = "refresh" /\ {"at", "leads", "retried"} \subseteq DOMAIN push[r]
    BY DEF Sync!Refresh, Sync!PushAt, PushTypes, PushType
  <2> HIDE DEF f
  <2>4. /\ push'[r].at = "save" /\ push'[r].fresh = remote'.refresh /\ push'[r].leads = push[r].leads
        /\ push'[r].retried = push[r].retried
        /\ DOMAIN push[r] \subseteq DOMAIN push'[r]
        /\ "found" \in DOMAIN push[r] => push'[r].found = push[r].found
    BY <2>1, <2>2, <2>3
  <2> QED BY <1>2, <2>2, <2>3, <2>4 DEF Sync!Fine
<1> QED BY <1>1, <1>2 DEF Sync!Refresh

\* The tokens are saved.
LEMMA Saves ==
  ASSUME NEW r \in Pushes, SyncTypes, PushTypes, Sync!SaveFresh(r)
  PROVE /\ push' = [q \in Pushes |-> push'[q]]
        /\ \A q \in Pushes \ {r} : push'[q] = push[q]
        /\ push[r].at = "save"
        /\ push'[r].at = IF push[r].retried THEN "write" ELSE "lookup"
        /\ push'[r].leads = push[r].leads /\ push'[r].retried = push[r].retried
        /\ DOMAIN push[r] \subseteq DOMAIN push'[r]
        /\ "found" \in DOMAIN push[r] => push'[r].found = push[r].found
  <2> DEFINE f == [at |-> IF push[r].retried THEN "write" ELSE "lookup"]
  <2>1. DOMAIN f = {"at"} /\ f["at"] = IF push[r].retried THEN "write" ELSE "lookup"
    OBVIOUS
  <2>2. /\ push' = [q \in Pushes |-> push'[q]]
        /\ \A q \in Pushes \ {r} : push'[q] = push[q]
        /\ push'[r] = [x \in (DOMAIN f) \cup (DOMAIN push[r]) |-> IF x \in DOMAIN f THEN f[x]
             ELSE push[r][x]]
    <3> HIDE DEF f
    <3> QED BY PushMoves DEF f, Sync!SaveFresh
  <2>3. push[r].at = "save" /\ {"at", "leads", "retried"} \subseteq DOMAIN push[r]
    BY DEF Sync!SaveFresh, Sync!PushAt, PushTypes, PushType
  <2> HIDE DEF f
  <2> QED BY <2>1, <2>2, <2>3

\* The records are looked up.
LEMMA Looks ==
  ASSUME NEW r \in Pushes, SyncTypes, PushTypes, Sync!Lookup(r)
  PROVE /\ push' = [q \in Pushes |-> push'[q]]
        /\ \A q \in Pushes \ {r} : push'[q] = push[q]
        /\ push[r].at = "lookup" /\ push'[r].at = "write"
        /\ push'[r].leads = push[r].leads /\ push'[r].retried = push[r].retried
        /\ DOMAIN push[r] \cup {"found"} \subseteq DOMAIN push'[r]
        /\ blurred' = FALSE /\ refused' = FALSE => push'[r].found = Sync!existingByDomain(r)
<1>1. \E F : /\ Sync!Move(r, [at |-> "write", found |-> F])
             /\ blurred' = FALSE /\ refused' = FALSE => F = Sync!existingByDomain(r)
  <2>1. CASE push[r].token = remote.access /\ Sync!Fine /\ Sync!Move(r,
          [at |-> "write", found |-> Sync!existingByDomain(r)])
    BY <2>1
  <2>2. CASE push[r].token # remote.access /\ Sync!Move(r, [at |-> "write", found |-> {}])
    <3>1. refused' = TRUE
      <4>1. refused' = (refused \/ push[r].token # remote.access)
        BY DEF Sync!Lookup
      <4> QED BY <4>1, <2>2
    <3> QED BY <2>2, <3>1
  <2>3. CASE Sync!Mishap /\ Sync!Move(r, [at |-> "write", found |-> {}])
    BY <2>3 DEF Sync!Mishap
  <2> QED BY <2>1, <2>2, <2>3 DEF Sync!Lookup
<1>2. PICK F : /\ Sync!Move(r, [at |-> "write", found |-> F])
               /\ blurred' = FALSE /\ refused' = FALSE => F = Sync!existingByDomain(r)
  BY <1>1
<1> DEFINE f == [at |-> "write", found |-> F]
<1>3. DOMAIN f = {"at", "found"} /\ f["at"] = "write" /\ f["found"] = F
  OBVIOUS
<1>4. /\ push' = [q \in Pushes |-> push'[q]]
      /\ \A q \in Pushes \ {r} : push'[q] = push[q]
      /\ push'[r] = [x \in (DOMAIN f) \cup (DOMAIN push[r]) |-> IF x \in DOMAIN f THEN f[x]
           ELSE push[r][x]]
  <2> HIDE DEF f
  <2> QED BY <1>2, PushMoves DEF f
<1>5. push[r].at = "lookup" /\ {"at", "leads", "retried"} \subseteq DOMAIN push[r]
  BY DEF Sync!Lookup, Sync!PushAt, PushTypes, PushType
<1> HIDE DEF f
<1> QED BY <1>2, <1>3, <1>4, <1>5

\* The records are written.
LEMMA Writes ==
  ASSUME NEW r \in Pushes, SyncTypes, PushTypes, Sync!Write(r) \/ Sync!AnswerLost(r)
  PROVE /\ push' = [q \in Pushes |-> push'[q]]
        /\ \A q \in Pushes \ {r} : push'[q] = push[q]
        /\ push[r].at = "write"
        /\ \/ push'[r].at = "idle"
           \/ /\ push'[r].at = "refresh" /\ push'[r].leads = push[r].leads
              /\ DOMAIN push[r] \subseteq DOMAIN push'[r]
              /\ push'[r].found = push[r].found
              /\ UNCHANGED <<records, unindexed, miscounted>>
<1>1. CASE Sync!End(r)
  BY <1>1, PushEnds DEF Sync!Write, Sync!AnswerLost, Sync!Idle, Sync!PushAt
<1>2. CASE /\ Sync!Move(r, [at |-> "refresh", retried |-> TRUE])
           /\ UNCHANGED <<records, unindexed, miscounted>>
  <2> DEFINE f == [at |-> "refresh", retried |-> TRUE]
  <2>1. DOMAIN f = {"at", "retried"} /\ f["at"] = "refresh" /\ f["retried"] = TRUE
    OBVIOUS
  <2>2. /\ push' = [q \in Pushes |-> push'[q]]
        /\ \A q \in Pushes \ {r} : push'[q] = push[q]
        /\ push'[r] = [x \in (DOMAIN f) \cup (DOMAIN push[r]) |-> IF x \in DOMAIN f THEN f[x]
             ELSE push[r][x]]
    <3> HIDE DEF f
    <3> QED BY <1>2, PushMoves DEF f
  <2>3. push[r].at = "write" /\ {"at", "leads", "retried", "found"} \subseteq DOMAIN push[r]
    BY DEF Sync!Write, Sync!AnswerLost, Sync!PushAt, PushTypes, PushType
  <2> HIDE DEF f
  <2>4. /\ push'[r].at = "refresh" /\ push'[r].leads = push[r].leads
        /\ DOMAIN push[r] \subseteq DOMAIN push'[r]
        /\ push'[r].found = push[r].found
    BY <2>1, <2>2, <2>3
  <2> QED BY <1>2, <2>2, <2>3, <2>4
<1> QED BY <1>1, <1>2 DEF Sync!Write, Sync!AnswerLost

\* A push starts.
LEMMA Starts ==
  ASSUME NEW r \in Pushes, NEW leadset \in SUBSET Leads, SyncTypes, Sync!StartPush(r, leadset)
  PROVE /\ push' = [q \in Pushes |-> push'[q]]
        /\ \A q \in Pushes \ {r} : push'[q] = push[q]
        /\ push[r].at = "idle" /\ push'[r].at \in {"lookup", "refresh"}
        /\ push'[r].leads = Sync!Usable(leadset) /\ push'[r].retried = FALSE
        /\ DOMAIN push'[r] = {"at", "token", "refresh", "leads", "retried"}
BY DEF Sync!StartPush, SyncTypes, Sync!PushAt

\* The endpoint is read, and saved.
LEMMA Reads ==
  ASSUME NEW r \in Pushes, SyncTypes, Sync!ReadEndpoint(r) \/ Sync!saveEndpoint(r)
  PROVE /\ push' = [q \in Pushes |-> push'[q]]
        /\ \A q \in Pushes \ {r} : push'[q] = push[q]
        /\ Sync!ReadEndpoint(r) => push[r].at = "idle" /\ push'[r].at = "endpoint"
             /\ push'[r].secret = endpoint.secret
        /\ Sync!saveEndpoint(r) => push[r].at = "endpoint" /\ push'[r].at = "idle"
<1>1. CASE Sync!ReadEndpoint(r)
  BY <1>1 DEF Sync!ReadEndpoint, SyncTypes, Sync!PushAt, Sync!saveEndpoint
<1>2. CASE Sync!saveEndpoint(r)
  BY <1>2, PushEnds DEF Sync!saveEndpoint, Sync!PushAt, Sync!Idle, Sync!ReadEndpoint
<1> QED BY <1>1, <1>2

\* A push takes one lead of a website.
LEMMA UsableOneEach == \A leadset : OneEach(Sync!Usable(leadset))
<1> SUFFICES ASSUME NEW leadset, NEW k \in Sync!Usable(leadset), NEW l \in Sync!Usable(leadset),
        Domain(k) = Domain(l), Domain(k) # NoSite
             PROVE  k = l
  BY DEF OneEach
<1> DEFINE sites == { Domain(m) : m \in leadset } \ {NoSite}
           pick(d) == CHOOSE m \in leadset : Domain(m) = d
<1>1. \A d \in sites : pick(d) \in leadset /\ Domain(pick(d)) = d
  OBVIOUS
<1>2. ASSUME NEW m \in Sync!Usable(leadset), Domain(m) # NoSite
      PROVE  \E d \in sites : m = pick(d)
  BY <1>2 DEF Sync!Usable
<1> HIDE DEF sites, pick
<1>3. PICK c \in sites : k = pick(c)
  BY <1>2
<1>4. PICK d \in sites : l = pick(d)
  BY <1>2
<1> QED BY <1>1, <1>3, <1>4

\* The steps that are no push's.
WholeSteps == Sync!saveConnection \/ Sync!saveToken \/ Sync!deleteConnection \/ Sync!Expire
     \/ Sync!Index \/ Sync!removeEndpoint \/ Sync!Deliver

\* The steps, one by one.
LEMMA SyncCases ==
  ASSUME Sync!Next
  PROVE \/ WholeSteps
        \/ \E r \in Pushes, leadset \in SUBSET Leads : Sync!StartPush(r, leadset)
        \/ \E r \in Pushes : Sync!Refresh(r)
        \/ \E r \in Pushes : Sync!SaveFresh(r)
        \/ \E r \in Pushes : Sync!Lookup(r)
        \/ \E r \in Pushes : Sync!Write(r) \/ Sync!AnswerLost(r)
        \/ \E r \in Pushes : Sync!ReadEndpoint(r)
        \/ \E r \in Pushes : Sync!saveEndpoint(r)
BY DEF Sync!Next, WholeSteps

\* A behaviour that is blurred stays so.
LEMMA Blurs ==
  ASSUME SyncTypes, [Sync!Next]_(Sync!vars)
  PROVE  blurred' \in BOOLEAN /\ refused' \in BOOLEAN /\ (blurred => blurred') /\ (refused => refused')
<1>1. CASE UNCHANGED Sync!vars
  BY <1>1 DEF Sync!vars, SyncTypes
<1>2. CASE WholeSteps
  BY <1>2 DEF WholeSteps, SyncTypes, Sync!saveConnection, Sync!saveToken, Sync!deleteConnection,
       Sync!Expire, Sync!Index, Sync!removeEndpoint, Sync!Deliver, Sync!Fine, Sync!Mishap
<1>3. ASSUME NEW r \in Pushes, Sync!Refresh(r) PROVE blurred' \in BOOLEAN /\ refused' \in BOOLEAN
        /\ (blurred => blurred') /\ (refused => refused')
  <2>1. blurred' = blurred \/ blurred' = TRUE
    BY <1>3, Zenon DEF Sync!Refresh, Sync!Fine, Sync!Mishap
  <2>2. refused' = refused
    BY <1>3, Zenon DEF Sync!Refresh
  <2> QED BY <2>1, <2>2 DEF SyncTypes
<1>4. ASSUME NEW r \in Pushes, Sync!SaveFresh(r) PROVE blurred' \in BOOLEAN /\ refused' \in BOOLEAN
        /\ (blurred => blurred') /\ (refused => refused')
  <2>1. blurred' = blurred \/ blurred' = TRUE
    BY <1>4, Zenon DEF Sync!SaveFresh, Sync!Fine, Sync!Mishap
  <2>2. refused' = refused
    BY <1>4, Zenon DEF Sync!SaveFresh
  <2> QED BY <2>1, <2>2 DEF SyncTypes
<1>5. ASSUME NEW r \in Pushes, Sync!Write(r) PROVE blurred' \in BOOLEAN /\ refused' \in BOOLEAN
        /\ (blurred => blurred') /\ (refused => refused')
  BY <1>5 DEF SyncTypes, Sync!Write, Sync!Fine, Sync!Mishap
<1>6. ASSUME NEW r \in Pushes, Sync!AnswerLost(r) PROVE blurred' \in BOOLEAN /\ refused' \in BOOLEAN
        /\ (blurred => blurred') /\ (refused => refused')
  BY <1>6 DEF SyncTypes, Sync!AnswerLost, Sync!Fine, Sync!Mishap
<1>7. ASSUME NEW r \in Pushes, Sync!Lookup(r) PROVE blurred' \in BOOLEAN /\ refused' \in BOOLEAN
        /\ (blurred => blurred') /\ (refused => refused')
  <2>1. blurred' = blurred \/ blurred' = TRUE
    BY <1>7, Zenon DEF Sync!Lookup, Sync!Fine, Sync!Mishap
  <2>2. refused' = (refused \/ push[r].token # remote.access)
    BY <1>7, Zenon DEF Sync!Lookup
  <2> QED BY <2>1, <2>2 DEF SyncTypes
<1>8. ASSUME NEW r \in Pushes, Sync!ReadEndpoint(r) PROVE blurred' \in BOOLEAN /\ refused' \in BOOLEAN
        /\ (blurred => blurred') /\ (refused => refused')
  BY <1>8 DEF SyncTypes, Sync!ReadEndpoint, Sync!Fine, Sync!Mishap
<1>9. ASSUME NEW r \in Pushes, Sync!saveEndpoint(r) PROVE blurred' \in BOOLEAN /\ refused' \in BOOLEAN
        /\ (blurred => blurred') /\ (refused => refused')
  BY <1>9 DEF SyncTypes, Sync!saveEndpoint, Sync!Fine, Sync!Mishap
<1>10. ASSUME NEW r \in Pushes, NEW leadset \in SUBSET Leads, Sync!StartPush(r, leadset)
        PROVE blurred' \in BOOLEAN /\ refused' \in BOOLEAN /\ (blurred => blurred') /\ (refused =>
         refused')
  BY <1>10 DEF SyncTypes, Sync!StartPush
<1> QED BY <1>1, <1>2, <1>3, <1>4, <1>5, <1>6, <1>7, <1>8, <1>9, <1>10, SyncCases

\* Every step keeps the types.
LEMMA SyncTypesKept ==
  ASSUME SyncTypes, PushTypes, [Sync!Next]_(Sync!vars)
  PROVE  SyncTypes' /\ PushTypes'
<1>0. blurred' \in BOOLEAN /\ refused' \in BOOLEAN
  BY Blurs
<1>1. CASE UNCHANGED Sync!vars
  BY <1>0, <1>1 DEF Sync!vars, SyncTypes, PushTypes, PushType
<1>2. CASE WholeSteps
  BY <1>0, <1>2 DEF WholeSteps, SyncTypes, PushTypes, PushType, Sync!saveConnection, Sync!saveToken,
       Sync!deleteConnection, Sync!Expire, Sync!Index, Sync!removeEndpoint, Sync!Deliver, Sync!Fine,
        Sync!Mishap
<1>3. ASSUME NEW r \in Pushes, NEW leadset \in SUBSET Leads, Sync!StartPush(r, leadset)
        PROVE SyncTypes' /\ PushTypes'
  <2>2. SyncTypes' /\ provider' = provider /\ provider # "webhook"
    BY <1>0, <1>3, Starts DEF SyncTypes, Sync!StartPush
  <2>3. PushType(r)'
    BY <2>2, <1>3, Starts DEF PushSteps, PushType, PushTypes
  <2>4. ASSUME NEW q \in Pushes \ {r} PROVE PushType(q)'
    <3>1. PushType(q) /\ push'[q] = push[q] /\ provider' = provider
      BY <2>2, <1>3, Starts DEF PushTypes
    <3> QED BY <3>1 DEF PushType
  <2> QED BY <2>2, <2>3, <2>4 DEF PushTypes
<1>4. ASSUME NEW r \in Pushes, Sync!Refresh(r) PROVE SyncTypes' /\ PushTypes'
  <2>2. SyncTypes' /\ provider' = provider
    BY <1>0, <1>4, Refreshes DEF SyncTypes, Sync!Refresh, Sync!Issue
  <2>3. PushType(r)'
    BY <2>2, <1>4, Refreshes DEF PushSteps, PushType, PushTypes
  <2>4. ASSUME NEW q \in Pushes \ {r} PROVE PushType(q)'
    <3>1. PushType(q) /\ push'[q] = push[q] /\ provider' = provider
      BY <2>2, <1>4, Refreshes DEF PushTypes
    <3> QED BY <3>1 DEF PushType
  <2> QED BY <2>2, <2>3, <2>4 DEF PushTypes
<1>5. ASSUME NEW r \in Pushes, Sync!SaveFresh(r) PROVE SyncTypes' /\ PushTypes'
  <2>2. SyncTypes' /\ provider' = provider
    BY <1>0, <1>5, Saves DEF SyncTypes, Sync!SaveFresh
  <2>3. PushType(r)'
    BY <2>2, <1>5, Saves DEF PushSteps, PushType, PushTypes
  <2>4. ASSUME NEW q \in Pushes \ {r} PROVE PushType(q)'
    <3>1. PushType(q) /\ push'[q] = push[q] /\ provider' = provider
      BY <2>2, <1>5, Saves DEF PushTypes
    <3> QED BY <3>1 DEF PushType
  <2> QED BY <2>2, <2>3, <2>4 DEF PushTypes
<1>6. ASSUME NEW r \in Pushes, Sync!Lookup(r) PROVE SyncTypes' /\ PushTypes'
  <2>2. SyncTypes' /\ provider' = provider
    BY <1>0, <1>6, Looks DEF SyncTypes, Sync!Lookup
  <2>3. PushType(r)'
    BY <2>2, <1>6, Looks DEF PushSteps, PushType, PushTypes
  <2>4. ASSUME NEW q \in Pushes \ {r} PROVE PushType(q)'
    <3>1. PushType(q) /\ push'[q] = push[q] /\ provider' = provider
      BY <2>2, <1>6, Looks DEF PushTypes
    <3> QED BY <3>1 DEF PushType
  <2> QED BY <2>2, <2>3, <2>4 DEF PushTypes
<1>7. ASSUME NEW r \in Pushes, Sync!Write(r) \/ Sync!AnswerLost(r) PROVE SyncTypes' /\ PushTypes'
  <2>2. SyncTypes' /\ provider' = provider
    BY <1>0, <1>7, Writes DEF SyncTypes, Sync!Write, Sync!AnswerLost
  <2>3. PushType(r)'
    BY <2>2, <1>7, Writes DEF PushSteps, PushType, PushTypes
  <2>4. ASSUME NEW q \in Pushes \ {r} PROVE PushType(q)'
    <3>1. PushType(q) /\ push'[q] = push[q] /\ provider' = provider
      BY <2>2, <1>7, Writes DEF PushTypes
    <3> QED BY <3>1 DEF PushType
  <2> QED BY <2>2, <2>3, <2>4 DEF PushTypes
<1>8. ASSUME NEW r \in Pushes, Sync!ReadEndpoint(r) \/ Sync!saveEndpoint(r)
        PROVE SyncTypes' /\ PushTypes'
  <2>2. SyncTypes' /\ provider' = provider
    BY <1>0, <1>8, Reads DEF SyncTypes, Sync!ReadEndpoint, Sync!saveEndpoint
  <2>3. PushType(r)'
    BY <2>2, <1>8, Reads DEF PushSteps, PushType, PushTypes, Sync!ReadEndpoint
  <2>4. ASSUME NEW q \in Pushes \ {r} PROVE PushType(q)'
    <3>1. PushType(q) /\ push'[q] = push[q] /\ provider' = provider
      BY <2>2, <1>8, Reads DEF PushTypes
    <3> QED BY <3>1 DEF PushType
  <2> QED BY <2>2, <2>3, <2>4 DEF PushTypes
<1> QED BY <1>1, <1>2, <1>3, <1>4, <1>5, <1>6, <1>7, <1>8, SyncCases

\* Another push is in hand only when the behaviour is blurred.
LEMMA NoOther ==
  ASSUME SyncTypes, PushTypes, RecordInv, NEW r \in Pushes, [Sync!Next]_(Sync!vars), blurred' = FALSE,
       \A q \in Pushes \ {r} : push'[q] = push[q],
         push[r].at # "idle" \/ (\A q \in Pushes : push[q].at = "idle")
  PROVE  /\ \A q \in Pushes \ {r} : push'[q].at = "idle"
         /\ OnePush' /\ (\A q \in Pushes \ {r} : PushKnows(q)')
<1>1. blurred = FALSE
  BY Blurs DEF SyncTypes
<1>2. \A q \in Pushes \ {r} : push'[q].at = "idle"
  BY <1>1 DEF RecordInv, OnePush, PushIdle
<1>3. OnePush'
  BY <1>2 DEF OnePush, PushIdle
<1>4. \A q \in Pushes \ {r} : PushKnows(q)'
  BY <1>2 DEF PushKnows
<1> QED BY <1>2, <1>3, <1>4

\* No push is in flight.
LEMMA FlightFree ==
  ASSUME SyncTypes, Sync!InFlight = {}
  PROVE  \A q \in Pushes : push[q].at = "idle"
BY DEF Sync!InFlight, Sync!PushAt

\* Writing what is not held leaves one record of a website.
LEMMA WritesOnce ==
  ASSUME SyncTypes, PushTypes, NEW r \in Pushes, Sync!Write(r), OneRecord, OneEach(push[r].leads),
       push[r].found = Have(r)
  PROVE  OneRecord'
<1> DEFINE creates == push[r].leads \ push[r].found
           New(T) == { [domain |-> Domain(l), of |-> l, n |-> Sync!Copies(Domain(l)) + 1] : l \in T }
<1>1. CASE UNCHANGED records
  BY <1>1 DEF OneRecord
<1>2. ASSUME NEW T \in SUBSET creates, records' = records \cup New(T)
      PROVE  OneRecord'
  <2> SUFFICES ASSUME NEW a \in records', NEW b \in records', a.domain = b.domain, a.domain # NoSite
               PROVE  a = b
    BY DEF OneRecord
  <2>1. \A c \in New(T) : \E l \in T : c = [domain |-> Domain(l), of |-> l,
          n |-> Sync!Copies(Domain(l)) + 1] /\ c.domain = Domain(l)
    OBVIOUS
  <2> HIDE DEF New
  <2>2. ASSUME NEW c \in records, NEW e \in New(T), c.domain = e.domain PROVE FALSE
    <3>1. PICK l \in T : e.domain = Domain(l)
      BY <2>1
    <3>2. Domain(l) \in Sync!Held
      BY <2>2, <3>1 DEF Sync!Held
    <3> QED BY <3>2 DEF Have
  <2>3. ASSUME a \in New(T), b \in New(T) PROVE a = b
    <3>1. PICK k \in T : a = [domain |-> Domain(k), of |-> k, n |-> Sync!Copies(Domain(k)) + 1]
            /\ a.domain = Domain(k)
      BY <2>1, <2>3
    <3>2. PICK l \in T : b = [domain |-> Domain(l), of |-> l, n |-> Sync!Copies(Domain(l)) + 1]
            /\ b.domain = Domain(l)
      BY <2>1, <2>3
    <3>3. k = l
      BY <3>1, <3>2 DEF OneEach
    <3> QED BY <3>1, <3>2, <3>3
  <2> QED BY <1>2, <2>2, <2>3 DEF OneRecord
<1>3. Sync!Batches(creates) \subseteq SUBSET creates
  BY DEF Sync!Batches
<1>4. UNCHANGED records \/ \E T \in Sync!Batches(creates) : records' = records \cup New(T)
  BY Zenon DEF Sync!Write
<1> HIDE DEF creates, New
<1> QED BY <1>1, <1>2, <1>3, <1>4

\* Every step keeps each part.
LEMMA RecordKept ==
  ASSUME SyncTypes, PushTypes, RecordInv, [Sync!Next]_(Sync!vars)
  PROVE  RecordInv'
<1> SUFFICES ASSUME blurred' = FALSE
             PROVE  OnePush' /\ (\A r \in Pushes : PushKnows(r)') /\ ((refused = FALSE => OneRecord)')
  BY DEF RecordInv
<1>0. /\ blurred = FALSE /\ OnePush /\ (\A r \in Pushes : PushKnows(r)) /\ (refused = FALSE =>
           OneRecord)
      /\ refused' = FALSE => refused = FALSE
  BY Blurs DEF SyncTypes, RecordInv
<1>1. CASE UNCHANGED Sync!vars
  BY <1>0, <1>1 DEF Sync!vars, OnePush, PushKnows, OneRecord, PushIdle, Have, Sync!Held
<1>2. CASE WholeSteps
  <2>1. UNCHANGED <<push, records, refused>> /\ unindexed' \in {unindexed, {}}
    BY <1>2 DEF WholeSteps, Sync!saveConnection, Sync!saveToken, Sync!deleteConnection, Sync!Expire,
         Sync!Index, Sync!removeEndpoint, Sync!Deliver
  <2> QED BY <2>1, <1>0 DEF OnePush, PushKnows, OneRecord, PushIdle, Have, Sync!Held
<1>3. ASSUME NEW r \in Pushes, NEW leadset \in SUBSET Leads, Sync!StartPush(r, leadset)
      PROVE  OnePush' /\ (\A q \in Pushes : PushKnows(q)') /\ ((refused = FALSE => OneRecord)')
  <2>1. Sync!InFlight = {} /\ unindexed = {} /\ UNCHANGED <<unindexed, records, refused>>
    BY <1>3 DEF Sync!StartPush
  <2>2. PushKnows(r)'
    <3>1. push'[r].leads = Sync!Usable(leadset) /\ push'[r].retried = FALSE
            /\ push'[r].at \in {"lookup", "refresh"}
      BY <1>3, Starts
    <3>2. \A k, l \in push'[r].leads : Domain(k) = Domain(l) /\ Domain(k) # NoSite => k = l
      BY <3>1, UsableOneEach DEF OneEach
    <3> QED BY <2>1, <3>1, <3>2 DEF PushKnows, OneEach
  <2> QED BY <2>1, <2>2, <1>0, <1>3, NoOther, FlightFree, Starts DEF OneRecord
<1>4. ASSUME NEW r \in Pushes, Sync!Refresh(r)
      PROVE  OnePush' /\ (\A q \in Pushes : PushKnows(q)') /\ ((refused = FALSE => OneRecord)')
  <2>1. UNCHANGED <<unindexed, records, refused>>
    BY <1>4 DEF Sync!Refresh
  <2>2. PushKnows(r)'
    BY <2>1, <1>0, <1>4, Refreshes DEF PushKnows, Have, Sync!Held, PushTypes, PushType
  <2> QED BY <2>1, <2>2, <1>0, <1>4, NoOther, Refreshes DEF OneRecord
<1>5. ASSUME NEW r \in Pushes, Sync!SaveFresh(r)
      PROVE  OnePush' /\ (\A q \in Pushes : PushKnows(q)') /\ ((refused = FALSE => OneRecord)')
  <2>1. UNCHANGED <<unindexed, records, refused>>
    BY <1>5 DEF Sync!SaveFresh
  <2>2. PushKnows(r)'
    BY <2>1, <1>0, <1>5, Saves DEF PushKnows, Have, Sync!Held, PushTypes, PushType
  <2> QED BY <2>1, <2>2, <1>0, <1>5, NoOther, Saves DEF OneRecord
<1>6. ASSUME NEW r \in Pushes, Sync!Lookup(r)
      PROVE  OnePush' /\ (\A q \in Pushes : PushKnows(q)') /\ ((refused = FALSE => OneRecord)')
  <2>1. UNCHANGED <<unindexed, records>>
    BY <1>6 DEF Sync!Lookup
  <2>2. PushKnows(r)'
    BY <2>1, <1>0, <1>6, Looks DEF PushKnows, Have, Sync!Held, Sync!existingByDomain
  <2> QED BY <2>1, <2>2, <1>0, <1>6, NoOther, Looks DEF OneRecord
<1>7. ASSUME NEW r \in Pushes, Sync!Write(r) \/ Sync!AnswerLost(r)
      PROVE  OnePush' /\ (\A q \in Pushes : PushKnows(q)') /\ ((refused = FALSE => OneRecord)')
  <2>1. Sync!Write(r) /\ UNCHANGED refused
    BY <1>7 DEF Sync!Write, Sync!AnswerLost, Sync!Mishap
  <2>2. PushKnows(r)'
    BY <2>1, <1>0, <1>7, Writes DEF PushKnows, Have, Sync!Held
  <2>3. (refused = FALSE => OneRecord)'
    BY <2>1, <1>0, WritesOnce, Writes DEF PushKnows
  <2> QED BY <2>1, <2>2, <2>3, <1>0, <1>7, NoOther, Writes
<1>8. ASSUME NEW r \in Pushes, Sync!ReadEndpoint(r)
      PROVE  OnePush' /\ (\A q \in Pushes : PushKnows(q)') /\ ((refused = FALSE => OneRecord)')
  <2>1. Sync!InFlight = {} /\ UNCHANGED <<records, refused>>
    BY <1>8 DEF Sync!ReadEndpoint
  <2>2. PushKnows(r)'
    BY <1>8, Reads DEF PushKnows
  <2> QED BY <2>1, <2>2, <1>0, <1>8, NoOther, FlightFree, Reads DEF OneRecord
<1>9. ASSUME NEW r \in Pushes, Sync!saveEndpoint(r)
      PROVE  OnePush' /\ (\A q \in Pushes : PushKnows(q)') /\ ((refused = FALSE => OneRecord)')
  <2>1. UNCHANGED <<records, refused>>
    BY <1>9 DEF Sync!saveEndpoint
  <2>2. PushKnows(r)'
    BY <1>9, Reads DEF PushKnows
  <2> QED BY <2>1, <2>2, <1>0, <1>9, NoOther, Reads DEF OneRecord
<1> QED BY <1>1, <1>2, <1>3, <1>4, <1>5, <1>6, <1>7, <1>8, <1>9, SyncCases

LEMMA TokenKept ==
  ASSUME SyncTypes, PushTypes, RecordInv, TokenInv, [Sync!Next]_(Sync!vars)
  PROVE  TokenInv'
<1> DEFINE Stored == connection # Sync!NoRow /\ (\A r \in Pushes : push[r].at # "save") =>
        connection.refresh = remote.refresh
           Fresh_ == \A r \in Pushes : push[r].at = "save" => push[r].fresh = remote.refresh
<1> SUFFICES ASSUME blurred' = FALSE
             PROVE  Stored' /\ Fresh_'
  BY DEF TokenInv
<1>0. blurred = FALSE /\ Stored /\ Fresh_
  BY Blurs DEF SyncTypes, TokenInv
<1>1. CASE UNCHANGED Sync!vars
  BY <1>0, <1>1 DEF Sync!vars
<1>2. CASE WholeSteps
  <2>1. CASE Sync!saveConnection \/ Sync!saveToken \/ Sync!deleteConnection
    <3>1. Sync!InFlight = {} /\ push' = push
      BY <2>1 DEF Sync!saveConnection, Sync!saveToken, Sync!deleteConnection
    <3>2. connection' = Sync!NoRow \/ connection'.refresh = remote'.refresh
      BY <2>1 DEF Sync!saveConnection, Sync!saveToken, Sync!deleteConnection
    <3> QED BY <3>1, <3>2, FlightFree
  <2>2. CASE Sync!Expire \/ Sync!Index \/ Sync!removeEndpoint \/ Sync!Deliver
    <3>1. UNCHANGED <<push, connection>> /\ remote'.refresh = remote.refresh
      BY <2>2 DEF Sync!Expire, Sync!Index, Sync!removeEndpoint, Sync!Deliver, SyncTypes
    <3> QED BY <3>1, <1>0
  <2> QED BY <1>2, <2>1, <2>2 DEF WholeSteps
<1>3. ASSUME NEW r \in Pushes, NEW leadset \in SUBSET Leads, Sync!StartPush(r, leadset)
        PROVE Stored' /\ Fresh_'
  <2>1. UNCHANGED <<remote, connection>> /\ Sync!InFlight = {}
    BY <1>3 DEF Sync!StartPush
  <2> QED BY <2>1, <1>0, <1>3, Starts, FlightFree
<1>4. ASSUME NEW r \in Pushes, Sync!Refresh(r) PROVE Stored' /\ Fresh_'
  <2>1. \A q \in Pushes \ {r} : push[q].at = "idle"
    BY <1>0, <1>4, Refreshes DEF RecordInv, OnePush, PushIdle
  <2>2. UNCHANGED connection
    BY <1>4 DEF Sync!Refresh
  <2> QED BY <2>1, <2>2, <1>0, <1>4, Refreshes
<1>5. ASSUME NEW r \in Pushes, Sync!SaveFresh(r) PROVE Stored' /\ Fresh_'
  <2>1. \A q \in Pushes \ {r} : push[q].at = "idle"
    BY <1>0, <1>5, Saves DEF RecordInv, OnePush, PushIdle
  <2>2. UNCHANGED remote /\ connection' = [access |-> push[r].token, refresh |-> push[r].fresh]
    BY <1>5 DEF Sync!SaveFresh, Sync!Mishap, Sync!FreshToken
  <2>3. connection'.refresh = remote'.refresh
    BY <2>2, <1>0, <1>5, Saves
  <2> QED BY <2>1, <2>2, <2>3, <1>5, Saves
<1>6. ASSUME NEW r \in Pushes, Sync!Lookup(r) PROVE Stored' /\ Fresh_'
  <2>1. UNCHANGED <<remote, connection>>
    BY <1>6 DEF Sync!Lookup
  <2> QED BY <2>1, <1>0, <1>6, Looks
<1>7. ASSUME NEW r \in Pushes, Sync!Write(r) \/ Sync!AnswerLost(r) PROVE Stored' /\ Fresh_'
  <2>1. UNCHANGED <<remote, connection>>
    BY <1>7 DEF Sync!Write, Sync!AnswerLost
  <2> QED BY <2>1, <1>0, <1>7, Writes
<1>8. ASSUME NEW r \in Pushes, Sync!ReadEndpoint(r) \/ Sync!saveEndpoint(r) PROVE Stored' /\ Fresh_'
  <2>1. UNCHANGED connection /\ remote'.refresh = remote.refresh
    BY <1>8 DEF Sync!ReadEndpoint, Sync!saveEndpoint, SyncTypes
  <2> QED BY <2>1, <1>0, <1>8, Reads
<1> QED BY <1>1, <1>2, <1>3, <1>4, <1>5, <1>6, <1>7, <1>8, SyncCases

LEMMA SecretStays ==
  ASSUME SyncTypes, PushTypes, RecordInv, SecretInv, [Sync!Next]_(Sync!vars)
  PROVE  SecretInv'
<1> DEFINE Kept == told # 0 => endpoint.secret = told
           Seen == \A r \in Pushes : push[r].at = "endpoint" /\ told # 0 => push[r].secret = told
<1> SUFFICES ASSUME blurred' = FALSE
             PROVE  Kept' /\ Seen'
  BY DEF SecretInv
<1>0. blurred = FALSE /\ Kept /\ Seen
  BY Blurs DEF SyncTypes, SecretInv
<1>1. CASE UNCHANGED Sync!vars
  BY <1>0, <1>1 DEF Sync!vars
<1>2. CASE WholeSteps
  <2>1. push' = push /\ (told' = 0 \/ UNCHANGED <<told, endpoint>>)
    BY <1>2 DEF WholeSteps, Sync!saveConnection, Sync!saveToken, Sync!deleteConnection, Sync!Expire,
         Sync!Index, Sync!removeEndpoint, Sync!Deliver
  <2> QED BY <2>1, <1>0
<1>3. ASSUME NEW r \in Pushes, NEW leadset \in SUBSET Leads, Sync!StartPush(r, leadset)
        PROVE Kept' /\ Seen'
  <2>1. UNCHANGED <<told, endpoint>>
    BY <1>3 DEF Sync!StartPush
  <2> QED BY <2>1, <1>0, <1>3, Starts
<1>4. ASSUME NEW r \in Pushes, Sync!Refresh(r) PROVE Kept' /\ Seen'
  <2>1. UNCHANGED <<told, endpoint>>
    BY <1>4 DEF Sync!Refresh
  <2> QED BY <2>1, <1>0, <1>4, Refreshes
<1>5. ASSUME NEW r \in Pushes, Sync!SaveFresh(r) PROVE Kept' /\ Seen'
  <2>1. UNCHANGED <<told, endpoint>>
    BY <1>5 DEF Sync!SaveFresh
  <2> QED BY <2>1, <1>0, <1>5, Saves
<1>6. ASSUME NEW r \in Pushes, Sync!Lookup(r) PROVE Kept' /\ Seen'
  <2>1. UNCHANGED <<told, endpoint>>
    BY <1>6 DEF Sync!Lookup
  <2> QED BY <2>1, <1>0, <1>6, Looks
<1>7. ASSUME NEW r \in Pushes, Sync!Write(r) \/ Sync!AnswerLost(r) PROVE Kept' /\ Seen'
  <2>1. UNCHANGED <<told, endpoint>>
    BY <1>7 DEF Sync!Write, Sync!AnswerLost
  <2> QED BY <2>1, <1>0, <1>7, Writes
<1>8. ASSUME NEW r \in Pushes, Sync!ReadEndpoint(r) PROVE Kept' /\ Seen'
  <2>1. UNCHANGED <<told, endpoint>>
    BY <1>8 DEF Sync!ReadEndpoint
  <2> QED BY <2>1, <1>0, <1>8, Reads
<1>9. ASSUME NEW r \in Pushes, Sync!saveEndpoint(r) PROVE Kept' /\ Seen'
  <2>1. endpoint'.secret = Sync!secretOf(r) /\ told' = IF told = 0 THEN endpoint'.secret ELSE told
    BY <1>9 DEF Sync!saveEndpoint
  <2>2. told # 0 => Sync!secretOf(r) = told
    BY <1>0, <1>9, Reads DEF Sync!secretOf
  <2>3. \A q \in Pushes \ {r} : push[q].at = "idle"
    BY <1>0, <1>9, Reads DEF RecordInv, OnePush, PushIdle
  <2>4. Kept'
    BY <2>1, <2>2
  <2> QED BY <2>3, <2>4, <1>9, Reads
<1> QED BY <1>1, <1>2, <1>3, <1>4, <1>5, <1>6, <1>7, <1>8, <1>9, SyncCases

LEMMA LandedKept ==
  ASSUME SyncTypes, LandedInv, [Sync!Next]_(Sync!vars)
  PROVE  LandedInv'
<1>1. CASE UNCHANGED Sync!vars
  BY <1>1 DEF Sync!vars, LandedInv
<1>2. CASE WholeSteps
  BY <1>2 DEF LandedInv, SyncTypes, WholeSteps, Sync!saveConnection, Sync!saveToken,
       Sync!deleteConnection, Sync!Expire, Sync!Index, Sync!removeEndpoint, Sync!Deliver
<1>3. ASSUME NEW r \in Pushes, NEW leadset \in SUBSET Leads, Sync!StartPush(r, leadset) PROVE LandedInv'
  BY <1>3 DEF LandedInv, Sync!StartPush
<1>4. ASSUME NEW r \in Pushes, Sync!Write(r) PROVE LandedInv'
  <2>1. deliveries' = deliveries
    BY <1>4 DEF Sync!Write
  <2>2. miscounted' = miscounted \/ \E T, S : miscounted' = (miscounted
          \/ Sync!Counted(S, T) # Sync!Cardinality(T))
    BY <1>4, Zenon DEF Sync!Write
  <2> QED BY <2>1, <2>2 DEF LandedInv, Sync!Counted
<1>5. ASSUME NEW r \in Pushes, Sync!Refresh(r) \/ Sync!SaveFresh(r) \/ Sync!Lookup(r)
        \/ Sync!AnswerLost(r) \/ Sync!ReadEndpoint(r) \/ Sync!saveEndpoint(r)
      PROVE  LandedInv'
  <2>1. UNCHANGED <<deliveries, miscounted>>
    BY <1>5 DEF Sync!Refresh, Sync!SaveFresh, Sync!Lookup, Sync!AnswerLost, Sync!ReadEndpoint,
         Sync!saveEndpoint
  <2> QED BY <2>1 DEF LandedInv
<1> QED BY <1>1, <1>2, <1>3, <1>4, <1>5, SyncCases

\* The part runs in behaviours of its own.
SyncHolds == scene = "crm" => SyncInv

\* The invariant holds at first, and every step keeps it.
LEMMA SyncStart == ASSUME Sync!Init PROVE SyncInv
<1>1. SyncTypes /\ PushTypes
  BY DEF Sync!Init, SyncTypes, PushTypes, PushType, PushSteps, Sync!Idle
<1>2. \A r \in Pushes : push[r].at = "idle"
  BY DEF Sync!Init, Sync!Idle
<1>3. RecordInv
  BY <1>2 DEF Sync!Init, RecordInv, OnePush, PushIdle, PushKnows, OneRecord
<1>4. TokenInv /\ SecretInv /\ LandedInv
  BY <1>2 DEF Sync!Init, TokenInv, SecretInv, LandedInv, Sync!NoRow
<1> QED BY <1>1, <1>3, <1>4 DEF SyncInv

LEMMA SyncKept == ASSUME SyncInv, [Sync!Next]_(Sync!vars) PROVE SyncInv'
BY SyncTypesKept, RecordKept, TokenKept, SecretStays, LandedKept DEF SyncInv

LEMMA SyncAlways == SceneSpec => []SyncHolds
<1>1. SceneInit => SyncHolds
  BY SyncStart DEF SceneInit, SyncHolds
<1>2. SyncHolds /\ [SceneNext]_sceneVars => SyncHolds'
  <2> SUFFICES ASSUME SyncHolds, [SceneNext]_sceneVars, scene' = "crm" PROVE SyncInv'
    BY DEF SyncHolds
  <2>1. scene = "crm" /\ [Sync!Next]_(Sync!vars)
    BY DEF SceneNext, sceneVars, CrmOnly, Sync!vars
  <2> QED BY <2>1, SyncKept DEF SyncHolds
<1> QED BY <1>1, <1>2, PTL DEF SceneSpec

\* The instance counts as the standard module does.
LEMMA SyncCount == \A S : Sync!Cardinality(S) = Cardinality(S)
BY Zenon DEF Sync!Cardinality, Cardinality

\* Records that are one are counted once.
LEMMA OneCopy ==
  ASSUME OneRecord, NEW rec \in records, rec.domain # NoSite
  PROVE  Sync!Copies(rec.domain) <= 1
<1>1. { r \in records : r.domain = rec.domain } = {rec}
  BY DEF OneRecord
<1>2. Cardinality({rec}) = 1
  BY FS_Singleton
<1>3. Sync!Copies(rec.domain) = Cardinality({rec})
  BY <1>1, SyncCount DEF Sync!Copies
<1> QED BY <1>2, <1>3

\* However often and by whatever pushes a lead is sent, its website has one record in the CRM
\* unless pushes overlapped, a call was lost or refused or the index lagged, and what is counted as
\* delivered was taken, for any leads, pushes and websites (lib/crm/hubspot.ts, lib/crm/webhook.ts).
THEOREM RecordsAreOne == SceneSpec => []OneRecordPerSite
<1>1. SyncHolds => OneRecordPerSite
  <2> SUFFICES ASSUME SyncInv PROVE Sync!OneRecordPerSite /\ Sync!CountedLanded
    BY DEF SyncHolds, OneRecordPerSite
  <2>1. Sync!OneRecordPerSite
    BY OneCopy DEF SyncInv, SyncTypes, RecordInv, Sync!OneRecordPerSite
  <2>2. Sync!CountedLanded
    BY DEF SyncInv, LandedInv, Sync!CountedLanded
  <2> QED BY <2>1, <2>2
<1> QED BY <1>1, SyncAlways, PTL

\* Unless a behaviour was blurred (as above), the refresh token that is stored is the one the
\* provider takes whenever no push is about to store another, and the secret stays the one the
\* customer was told (lib/crm/store.ts).
THEOREM ConnectionsLast == SceneSpec => []ConnectionLasts
<1>1. SyncHolds => ConnectionLasts
  BY DEF SyncHolds, ConnectionLasts, SyncInv, SyncTypes, TokenInv, SecretInv, Sync!StoredTokenWorks,
       Sync!SecretKept, Sync!PushAt
<1> QED BY <1>1, SyncAlways, PTL

-----------------------------------------------------------------------------
(* Digest: what moved at a business the customer opened is in the letter   *)
(* of that week, once. The invariant follows every change from the day it  *)
(* was found to the job that reads it and the letter that tells it.        *)

\* A change of a business, on a day.
ChangeRecord == [lead : Businesses, on : Nat]
\* Type invariant of the letters.
LetterTypes ==
  /\ day \in Nat /\ ran \in Int
  /\ business_triggers \subseteq ChangeRecord
  /\ lead_unlocks \in [Customers -> SUBSET Businesses]
  /\ profiles \in [Customers -> [weekly : BOOLEAN, suspended : BOOLEAN, sent_on : Int]]
  /\ letters \in [Customers -> Nat]
  /\ untold \in [Customers -> SUBSET ChangeRecord]
  /\ disturbed \subseteq Customers
  /\ job = [c \in Jobs |-> job[c]]
\* What a job carries at its steps.
JobType(c) ==
  /\ job[c].at \in {"idle", "changes", "users", "letter", "stamp", "tidy", "sample"}
       /\ "at" \in DOMAIN job[c]
  /\ job[c].at \in {"changes", "users", "letter", "stamp"} =>
       {"at", "force", "today", "changed"} \subseteq DOMAIN job[c] /\ job[c].today \in Int
  /\ job[c].at \in {"users", "letter", "stamp"} =>
       {"todo", "owned"} \subseteq DOMAIN job[c] /\ job[c].todo \subseteq Customers
  /\ job[c].at \in {"letter", "stamp"} => "who" \in DOMAIN job[c] /\ job[c].who \in Customers
       /\ job[c].who \notin job[c].todo
JobTypes == \A c \in Jobs : JobType(c)

\* The last seven days' digest day has had its job.
Calendar ==
  /\ -1 <= ran /\ ran <= day /\ day - LOOKBACK_DAYS <= ran
  /\ (ran = -1 /\ day <= SEND_WEEKDAY) \/ ran % LOOKBACK_DAYS = SEND_WEEKDAY
\* What is untold was found at what the customer had opened, and is kept for a week.
Untold ==
  \A p \in Customers : \A t \in untold[p] :
    t.on <= day /\ t.lead \in lead_unlocks[p] /\ (t.on >= day - LOOKBACK_DAYS =>
         t \in business_triggers)
\* The customers nothing the code cannot help happened to.
Undisturbed == Customers \ disturbed
\* One job runs, unforced, on the day it was meant for.
OneJob ==
  Undisturbed # {} =>
    /\ \A b, c \in Jobs : job[b].at # "idle" /\ job[c].at # "idle" => b = c
    /\ \A c \in Jobs : job[c].at \in {"changes", "users", "letter", "stamp"} =>
         job[c].force = FALSE /\ job[c].today = day /\ ran = day
\* What the job will tell a customer yet.
Handles(c, p, t) ==
  /\ job[c].at \in {"changes", "users", "letter", "stamp"} /\ t \in job[c].changed
  /\ job[c].at # "changes" => t.lead \in job[c].owned[p] /\ (p \in job[c].todo
       \/ (job[c].at = "letter" /\ job[c].who = p))
\* What is untold is of after the last digest day, or is in the hands of the job.
Pending(p) ==
  \A t \in untold[p] : t.on >= ran \/ (profiles[p].sent_on # day /\ \E c \in Jobs : Handles(c, p, t))
\* The profile says so, or will when the job steps.
Stamped(p) == profiles[p].sent_on = day \/ \E c \in Jobs : job[c].at = "stamp" /\ job[c].who = p
\* The letters of a customer: one a day at most.
LetterOf(p) ==
  /\ profiles[p].weekly = TRUE /\ profiles[p].suspended = FALSE /\ profiles[p].sent_on <= ran
  /\ letters[p] \in {0, 1}
  /\ letters[p] = 1 => Stamped(p)
  /\ \A c \in Jobs : job[c].at = "letter" /\ job[c].who = p => letters[p] = 0
LetterInv == \A p \in Undisturbed : LetterOf(p)
PendingInv == \A p \in Undisturbed : Pending(p)
\* One verdict on a sampled lead.
OneVerdict == \A s, t \in quality_samples : s.lead = t.lead => s = t
\* The inductive invariant.
LettersInv == LetterTypes /\ JobTypes /\ Calendar /\ Untold /\ OneJob /\ LetterInv /\ PendingInv
     /\ OneVerdict

\* A job moves and carries on what it has.
LEMMA JobMoves ==
  ASSUME NEW c \in Jobs, LetterTypes, NEW f, Letters!Go(c, f)
  PROVE /\ job' = [b \in Jobs |-> job'[b]]
        /\ \A b \in Jobs \ {c} : job'[b] = job[b]
        /\ job'[c] = [x \in (DOMAIN f) \cup (DOMAIN job[c]) |-> IF x \in DOMAIN f THEN f[x]
             ELSE job[c][x]]
BY DEF Letters!Go, LetterTypes
\* The parts of a job that go on with it.
KeepsDay(c) == job'[c].force = job[c].force /\ job'[c].today = job[c].today
     /\ job'[c].changed = job[c].changed
KeepsPlan(c) == job'[c].todo = job[c].todo /\ job'[c].owned = job[c].owned
KeepsFields(c) == DOMAIN job[c] \subseteq DOMAIN job'[c]
OnlyJob(c) == job' = [b \in Jobs |-> job'[b]] /\ \A b \in Jobs \ {c} : job'[b] = job[b]

\* It reads who opened what changed,
LEMMA OwnersRead ==
  ASSUME NEW c \in Jobs, LetterTypes, JobTypes, Letters!ReadOwners(c)
  PROVE /\ OnlyJob(c) /\ KeepsFields(c) /\ KeepsDay(c) /\ job[c].at = "changes"
        /\ {"todo", "owned"} \subseteq DOMAIN job'[c]
        /\ job'[c].at = IF job'[c].todo = {} THEN "tidy" ELSE "users"
        /\ \A p \in Customers : job'[c].owned[p] = lead_unlocks[p] \cap { t.lead : t \in job[c].changed }
        /\ job'[c].todo = { p \in Customers : job'[c].owned[p] # {} }
<1> DEFINE ls == { t.lead : t \in job[c].changed }
           ow == [p \in Customers |-> lead_unlocks[p] \cap ls]
           td == { p \in Customers : ow[p] \cup Letters!watched(ls)[p] # {} }
           f == [at |-> IF td = {} THEN "tidy" ELSE "users", todo |-> td, owned |-> ow,
                 interested |-> [p \in Customers |-> watchlist_seen[p] \cap ls]]
<1>1. td = { p \in Customers : ow[p] # {} }
  BY DEF Letters!watched
<1>2. Letters!Go(c, f)
  BY DEF Letters!ReadOwners
<1>3. \A p \in Customers : ow[p] = lead_unlocks[p] \cap ls
  OBVIOUS
<1> HIDE DEF ls, ow, td
<1>4. DOMAIN f = {"at", "todo", "owned", "interested"} /\ f["todo"] = td /\ f["owned"] = ow
        /\ f["at"] = IF td = {} THEN "tidy" ELSE "users"
  OBVIOUS
<1> HIDE DEF f
<1>5. /\ job' = [b \in Jobs |-> job'[b]]
      /\ \A b \in Jobs \ {c} : job'[b] = job[b]
      /\ job'[c] = [x \in (DOMAIN f) \cup (DOMAIN job[c]) |-> IF x \in DOMAIN f THEN f[x]
           ELSE job[c][x]]
  BY <1>2, JobMoves
<1>6. job[c].at = "changes" /\ {"at", "force", "today", "changed"} \subseteq DOMAIN job[c]
  BY DEF Letters!ReadOwners, Letters!At, JobTypes, JobType
<1>7. OnlyJob(c)
  BY <1>5 DEF OnlyJob
<1>8. KeepsFields(c) /\ KeepsDay(c) /\ {"todo", "owned"} \subseteq DOMAIN job'[c] /\ job'[c].todo = td
        /\ job'[c].owned = ow /\ job'[c].at = IF td = {} THEN "tidy" ELSE "users"
  BY <1>4, <1>5, <1>6 DEF KeepsFields, KeepsDay
<1> QED BY <1>1, <1>3, <1>6, <1>7, <1>8 DEF ls

\* then a profile,
LEMMA ProfileRead ==
  ASSUME NEW c \in Jobs, NEW p \in Customers, LetterTypes, JobTypes, Letters!ReadProfile(c, p)
  PROVE /\ OnlyJob(c) /\ KeepsFields(c) /\ KeepsDay(c) /\ job[c].at = "users" /\ p \in job[c].todo
        /\ job'[c].todo = job[c].todo \ {p} /\ job'[c].owned = job[c].owned
        /\ IF Letters!MayWrite(c, p) THEN job'[c].at = "letter" /\ "who" \in DOMAIN job'[c]
             /\ job'[c].who = p ELSE job'[c].at = "users"
<1>1. job[c].at = "users" /\ p \in job[c].todo /\ {"at", "force", "today", "changed", "todo",
        "owned"} \subseteq DOMAIN job[c]
  BY DEF Letters!ReadProfile, Letters!At, JobTypes, JobType
<1> DEFINE td == job[c].todo \ {p}
<1>2. CASE Letters!MayWrite(c, p)
  <2> DEFINE f == [at |-> "letter", who |-> p, todo |-> td]
  <2>1. Letters!Go(c, f)
    BY <1>2 DEF Letters!ReadProfile
  <2> HIDE DEF td
  <2>2. DOMAIN f = {"at", "who", "todo"} /\ f["at"] = "letter" /\ f["who"] = p /\ f["todo"] = td
    OBVIOUS
  <2> HIDE DEF f
  <2>3. /\ job' = [b \in Jobs |-> job'[b]]
        /\ \A b \in Jobs \ {c} : job'[b] = job[b]
        /\ job'[c] = [x \in (DOMAIN f) \cup (DOMAIN job[c]) |-> IF x \in DOMAIN f THEN f[x]
             ELSE job[c][x]]
    BY <2>1, JobMoves
  <2>4. OnlyJob(c)
    BY <2>3 DEF OnlyJob
  <2>5. KeepsFields(c) /\ KeepsDay(c) /\ job'[c].todo = td /\ job'[c].owned = job[c].owned
          /\ job'[c].at = "letter" /\ "who" \in DOMAIN job'[c] /\ job'[c].who = p
    BY <2>2, <2>3, <1>1 DEF KeepsFields, KeepsDay
  <2> QED BY <1>1, <1>2, <2>4, <2>5 DEF td
<1>3. CASE ~Letters!MayWrite(c, p)
  <2> DEFINE f == [todo |-> td]
  <2>1. Letters!Go(c, f)
    BY <1>3 DEF Letters!ReadProfile
  <2> HIDE DEF td
  <2>2. DOMAIN f = {"todo"} /\ f["todo"] = td
    OBVIOUS
  <2> HIDE DEF f
  <2>3. /\ job' = [b \in Jobs |-> job'[b]]
        /\ \A b \in Jobs \ {c} : job'[b] = job[b]
        /\ job'[c] = [x \in (DOMAIN f) \cup (DOMAIN job[c]) |-> IF x \in DOMAIN f THEN f[x]
             ELSE job[c][x]]
    BY <2>1, JobMoves
  <2>4. OnlyJob(c)
    BY <2>3 DEF OnlyJob
  <2>5. KeepsFields(c) /\ KeepsDay(c) /\ job'[c].todo = td /\ job'[c].owned = job[c].owned
          /\ job'[c].at = "users"
    BY <2>2, <2>3, <1>1 DEF KeepsFields, KeepsDay
  <2> QED BY <1>1, <1>3, <2>4, <2>5 DEF td
<1> QED BY <1>2, <1>3

\* A step that changes nothing of the job but its place.
LEMMA Placing ==
  ASSUME NEW c \in Jobs, LetterTypes, JobTypes, job[c].at \in {"users", "letter", "stamp"}, NEW s,
       Letters!Go(c, [at |-> s])
  PROVE /\ OnlyJob(c) /\ KeepsFields(c) /\ KeepsDay(c) /\ KeepsPlan(c) /\ job'[c].at = s
        /\ "who" \in DOMAIN job[c] => job'[c].who = job[c].who
<1> DEFINE f == [at |-> s]
<1>1. {"at", "force", "today", "changed", "todo", "owned"} \subseteq DOMAIN job[c]
  BY DEF JobTypes, JobType
<1>2. DOMAIN f = {"at"} /\ f["at"] = s
  OBVIOUS
<1> HIDE DEF f
<1>3. /\ job' = [b \in Jobs |-> job'[b]]
      /\ \A b \in Jobs \ {c} : job'[b] = job[b]
      /\ job'[c] = [x \in (DOMAIN f) \cup (DOMAIN job[c]) |-> IF x \in DOMAIN f THEN f[x]
           ELSE job[c][x]]
  BY JobMoves DEF f
<1>4. OnlyJob(c)
  BY <1>3 DEF OnlyJob
<1> QED BY <1>1, <1>2, <1>3, <1>4 DEF KeepsFields, KeepsDay, KeepsPlan

\* A job that has no letters to see to any more.
PastLetters(c) ==
  \/ Letters!runQualitySample(c) \/ (\E b \in Businesses : Letters!Sample(c, b)) \/ Letters!EndJob(c)
       \/ Letters!JobKilled(c)

LEMMA LateJob ==
  ASSUME NEW c \in Jobs, LetterTypes, JobTypes, PastLetters(c)
  PROVE /\ OnlyJob(c) /\ "at" \in DOMAIN job'[c] /\ job'[c].at \in {"idle", "sample"}
        /\ UNCHANGED <<day, ran, business_triggers, lead_unlocks, profiles, letters, untold>>
        /\ (disturbed' = disturbed /\ job[c].at \in {"tidy", "sample"}) \/ disturbed' = Customers
<1>1. CASE Letters!runQualitySample(c) \/ Letters!EndJob(c) \/ Letters!JobKilled(c)
  BY <1>1 DEF OnlyJob, LetterTypes, Letters!runQualitySample, Letters!EndJob, Letters!JobKilled,
       Letters!Idle, Letters!At, Letters!ghosts, Letters!tables
<1>2. ASSUME NEW b \in Businesses, Letters!Sample(c, b)
      PROVE  /\ OnlyJob(c) /\ "at" \in DOMAIN job'[c] /\ job'[c].at = "sample" /\ job[c].at = "sample"
             /\ UNCHANGED <<day, ran, business_triggers, lead_unlocks, profiles, letters, untold,
                  disturbed>>
  <2> DEFINE ch == job[c].chosen \ {b}
             f == [chosen |-> ch]
  <2>1. Letters!Go(c, f)
    BY <1>2 DEF Letters!Sample
  <2>2. job[c].at = "sample" /\ "at" \in DOMAIN job[c]
    BY <1>2 DEF Letters!Sample, Letters!At, JobTypes, JobType
  <2> HIDE DEF ch
  <2>3. DOMAIN f = {"chosen"}
    OBVIOUS
  <2> HIDE DEF f
  <2>4. /\ job' = [b2 \in Jobs |-> job'[b2]]
        /\ \A b2 \in Jobs \ {c} : job'[b2] = job[b2]
        /\ job'[c] = [x \in (DOMAIN f) \cup (DOMAIN job[c]) |-> IF x \in DOMAIN f THEN f[x]
             ELSE job[c][x]]
    BY <2>1, JobMoves
  <2>5. OnlyJob(c)
    BY <2>4 DEF OnlyJob
  <2>6. job'[c].at = "sample" /\ "at" \in DOMAIN job'[c]
    BY <2>2, <2>3, <2>4
  <2>7. UNCHANGED <<day, ran, business_triggers, lead_unlocks, profiles, letters, untold, disturbed>>
    BY <1>2 DEF Letters!Sample, Letters!ghosts, Letters!tables
  <2> QED BY <2>2, <2>5, <2>6, <2>7
<1> QED BY <1>1, <1>2 DEF PastLetters

\* A job begins.
LEMMA Begins ==
  ASSUME NEW c \in Jobs, NEW force \in BOOLEAN, LetterTypes, Letters!BeginDigest(c, force)
  PROVE /\ OnlyJob(c) /\ job[c].at = "idle" /\ "at" \in DOMAIN job'[c]
        /\ \/ job'[c].at = "tidy"
           \/ /\ job'[c].at = "changes" /\ DOMAIN job'[c] = {"at", "force", "today", "changed"}
              /\ job'[c].force = force /\ job'[c].today = day
              /\ job'[c].changed = { t \in business_triggers : t.on >= day - LOOKBACK_DAYS }
        /\ (force \/ Letters!isDigestDay)
             /\ { t \in business_triggers : t.on >= day - LOOKBACK_DAYS } # {} => job'[c].at = "changes"
        /\ job'[c].at = "changes" => force \/ Letters!isDigestDay
        /\ UNCHANGED <<day, business_triggers, lead_unlocks, profiles, letters, untold,
             quality_samples>>
        /\ ran' = IF Letters!isDigestDay THEN day ELSE ran
        /\ disturbed' = IF force \/ Letters!Running # {} THEN Customers ELSE disturbed
BY DEF Letters!BeginDigest, Letters!At, OnlyJob, LetterTypes, Letters!Since, Letters!tables

\* The steps that are no job's.
CustomerSteps ==
  \/ \E p \in Customers, b \in Businesses : Letters!Unlock(p, b) \/ Letters!Watch(p, b)
  \/ \E b \in Businesses : Letters!recordTriggers(b)
  \/ \E p \in Customers : Letters!savePreferences(p) \/ Letters!setSuspended(p)

\* The steps, one by one.
LEMMA LetterCases ==
  ASSUME Letters!Next
  PROVE \/ CustomerSteps
        \/ \E c \in Jobs, force \in BOOLEAN : Letters!BeginDigest(c, force)
        \/ \E c \in Jobs : Letters!ReadOwners(c)
        \/ \E c \in Jobs, p \in Customers : Letters!ReadProfile(c, p)
        \/ \E c \in Jobs : Letters!sendDigest(c)
        \/ \E c \in Jobs : Letters!StampSent(c)
        \/ \E c \in Jobs : Letters!EveryoneDone(c)
        \/ \E c \in Jobs : PastLetters(c)
        \/ Letters!Tick
BY DEF Letters!Next, CustomerSteps, PastLetters

\* What customers and the nightly search do meanwhile.
LEMMA CustomersDo ==
  ASSUME LetterTypes, CustomerSteps
  PROVE /\ UNCHANGED <<job, day, ran, letters, quality_samples>> /\ LetterTypes'
             /\ disturbed \subseteq disturbed'
        /\ \A p \in Customers \ disturbed' : profiles'[p] = profiles[p]
        /\ \A p \in Customers : lead_unlocks[p] \subseteq lead_unlocks'[p]
        /\ business_triggers \subseteq business_triggers'
        /\ \A p \in Customers : \A t \in untold'[p] \ untold[p] : t.on = day
             /\ t.lead \in lead_unlocks[p] /\ t \in business_triggers'
<1>1. ASSUME NEW p \in Customers, NEW b \in Businesses, Letters!Unlock(p, b) \/ Letters!Watch(p, b)
      PROVE /\ UNCHANGED <<job, day, ran, letters, quality_samples, untold, business_triggers, disturbed,
                 profiles>> /\ LetterTypes'
            /\ \A q \in Customers : lead_unlocks[q] \subseteq lead_unlocks'[q]
  BY <1>1 DEF Letters!Unlock, Letters!Watch, LetterTypes, Letters!ghosts
<1>2. ASSUME NEW b \in Businesses, Letters!recordTriggers(b)
      PROVE /\ UNCHANGED <<job, day, ran, letters, quality_samples, lead_unlocks, disturbed, profiles>>
                 /\ LetterTypes'
            /\ business_triggers \subseteq business_triggers'
            /\ \A p \in Customers : \A t \in untold'[p] \ untold[p] : t.on = day
                 /\ t.lead \in lead_unlocks[p] /\ t \in business_triggers'
  BY <1>2 DEF Letters!recordTriggers, LetterTypes, ChangeRecord
<1>3. ASSUME NEW p \in Customers, Letters!savePreferences(p) \/ Letters!setSuspended(p)
      PROVE /\ UNCHANGED <<job, day, ran, letters, quality_samples, untold, business_triggers,
                 lead_unlocks>> /\ LetterTypes'
            /\ disturbed' = disturbed \cup {p}
            /\ \A q \in Customers \ {p} : profiles'[q] = profiles[q]
  <2>1. UNCHANGED <<job, day, ran, letters, quality_samples, untold, business_triggers, lead_unlocks>>
          /\ disturbed' = disturbed \cup {p}
    BY <1>3 DEF Letters!savePreferences, Letters!setSuspended, Letters!tables
  <2>2. CASE Letters!savePreferences(p)
    <3>1. profiles' = [profiles EXCEPT ![p].weekly = ~@]
      BY <2>2 DEF Letters!savePreferences
    <3> DEFINE x == ~profiles[p].weekly
    <3>2. profiles[p] \in [weekly : BOOLEAN, suspended : BOOLEAN, sent_on : Int] /\ x \in BOOLEAN
      BY DEF LetterTypes
    <3>3. profiles' = [profiles EXCEPT ![p] = [profiles[p] EXCEPT !.weekly = x]]
      BY <3>1
    <3> HIDE DEF x
    <3>4. [profiles[p] EXCEPT !.weekly = x] \in [weekly : BOOLEAN, suspended : BOOLEAN, sent_on : Int]
      BY <3>2
    <3> QED BY <2>1, <3>3, <3>4 DEF LetterTypes
  <2>3. CASE Letters!setSuspended(p)
    <3>1. profiles' = [profiles EXCEPT ![p].suspended = ~@]
      BY <2>3 DEF Letters!setSuspended
    <3> DEFINE x == ~profiles[p].suspended
    <3>2. profiles[p] \in [weekly : BOOLEAN, suspended : BOOLEAN, sent_on : Int] /\ x \in BOOLEAN
      BY DEF LetterTypes
    <3>3. profiles' = [profiles EXCEPT ![p] = [profiles[p] EXCEPT !.suspended = x]]
      BY <3>1
    <3> HIDE DEF x
    <3>4. [profiles[p] EXCEPT !.suspended = x] \in [weekly : BOOLEAN, suspended : BOOLEAN,
            sent_on : Int]
      BY <3>2
    <3> QED BY <2>1, <3>3, <3>4 DEF LetterTypes
  <2> QED BY <1>3, <2>2, <2>3, <2>1
<1> QED BY <1>1, <1>2, <1>3 DEF CustomerSteps

\* Every step keeps the types.
LEMMA LetterTypesKept ==
  ASSUME LetterTypes, JobTypes, [Letters!Next]_(Letters!vars)
  PROVE  LetterTypes' /\ JobTypes'
<1>1. CASE UNCHANGED Letters!vars
  BY <1>1 DEF Letters!vars, Letters!tables, Letters!ghosts, LetterTypes, JobTypes, JobType
<1>2. CASE CustomerSteps
  BY <1>2, CustomersDo DEF JobTypes, JobType
<1>3. ASSUME NEW c \in Jobs, OnlyJob(c), JobType(c)' PROVE JobTypes'
  <2>1. ASSUME NEW b \in Jobs \ {c} PROVE JobType(b)'
    <3>1. JobType(b) /\ job'[b] = job[b]
      BY <1>3 DEF OnlyJob, JobTypes
    <3> QED BY <3>1 DEF JobType
  <2> QED BY <1>3, <2>1 DEF JobTypes
<1>4. ASSUME NEW c \in Jobs, NEW force \in BOOLEAN, Letters!BeginDigest(c, force)
        PROVE LetterTypes' /\ JobTypes'
  <2>1. LetterTypes'
    BY <1>4, Begins DEF LetterTypes, OnlyJob
  <2>2. JobType(c)'
    BY <1>4, Begins DEF JobType, LetterTypes
  <2> QED BY <2>1, <2>2, <1>3, <1>4, Begins
<1>5. ASSUME NEW c \in Jobs, Letters!ReadOwners(c) PROVE LetterTypes' /\ JobTypes'
  <2>1. LetterTypes'
    BY <1>5, OwnersRead DEF LetterTypes, OnlyJob, Letters!ReadOwners, Letters!tables, Letters!ghosts
  <2>2. JobType(c)'
    BY <1>5, OwnersRead DEF JobTypes, JobType, KeepsFields, KeepsDay
  <2> QED BY <2>1, <2>2, <1>3, <1>5, OwnersRead
<1>6. ASSUME NEW c \in Jobs, NEW p \in Customers, Letters!ReadProfile(c, p)
        PROVE LetterTypes' /\ JobTypes'
  <2>1. LetterTypes'
    BY <1>6, ProfileRead DEF LetterTypes, OnlyJob, Letters!ReadProfile, Letters!tables, Letters!ghosts
  <2>2. JobType(c)'
    BY <1>6, ProfileRead DEF JobTypes, JobType, KeepsFields, KeepsDay
  <2> QED BY <2>1, <2>2, <1>3, <1>6, ProfileRead
<1>7. ASSUME NEW c \in Jobs, Letters!sendDigest(c) PROVE LetterTypes' /\ JobTypes'
  <2>1. job[c].at = "letter" /\ job[c].who \in Customers
    BY <1>7 DEF Letters!sendDigest, Letters!At, JobTypes, JobType
  <2>2. PICK s \in {"stamp", "users"} : Letters!Go(c, [at |-> s])
    BY <1>7 DEF Letters!sendDigest
  <2>3. OnlyJob(c) /\ KeepsFields(c) /\ KeepsDay(c) /\ KeepsPlan(c) /\ job'[c].at = s
          /\ ("who" \in DOMAIN job[c] => job'[c].who = job[c].who)
    BY <2>1, <2>2, Placing
  <2>4. LetterTypes'
    BY <2>1, <2>3, <1>7 DEF LetterTypes, OnlyJob, Letters!sendDigest, Letters!tables
  <2>5. JobType(c)'
    BY <2>1, <2>3 DEF JobTypes, JobType, KeepsFields, KeepsDay, KeepsPlan
  <2> QED BY <2>3, <2>4, <2>5, <1>3
<1>8. ASSUME NEW c \in Jobs, Letters!StampSent(c) PROVE LetterTypes' /\ JobTypes'
  <2>1. job[c].at = "stamp" /\ job[c].who \in Customers /\ job[c].today \in Int
    BY <1>8 DEF Letters!StampSent, Letters!At, JobTypes, JobType
  <2>2. Letters!Go(c, [at |-> "users"])
    BY <1>8 DEF Letters!StampSent
  <2>3. OnlyJob(c) /\ KeepsFields(c) /\ KeepsDay(c) /\ KeepsPlan(c) /\ job'[c].at = "users"
    BY <2>1, <2>2, Placing
  <2>4. LetterTypes'
    <3>1. [profiles[job[c].who] EXCEPT !.sent_on = job[c].today] \in [weekly : BOOLEAN,
            suspended : BOOLEAN, sent_on : Int]
      BY <2>1 DEF LetterTypes
    <3>2. profiles' \in [Customers -> [weekly : BOOLEAN, suspended : BOOLEAN, sent_on : Int]]
      BY <3>1, <2>1, <1>8 DEF LetterTypes, Letters!StampSent
    <3> QED BY <3>2, <2>1, <2>3, <1>8 DEF LetterTypes, OnlyJob, Letters!StampSent, Letters!tables
  <2>5. JobType(c)'
    BY <2>1, <2>3 DEF JobTypes, JobType, KeepsFields, KeepsDay, KeepsPlan
  <2> QED BY <2>3, <2>4, <2>5, <1>3
<1>9. ASSUME NEW c \in Jobs, Letters!EveryoneDone(c) PROVE LetterTypes' /\ JobTypes'
  <2>1. job[c].at = "users" /\ Letters!Go(c, [at |-> "tidy"])
    BY <1>9 DEF Letters!EveryoneDone, Letters!At
  <2>2. OnlyJob(c) /\ KeepsFields(c) /\ job'[c].at = "tidy"
    BY <2>1, Placing
  <2>3. LetterTypes'
    BY <2>2, <1>9 DEF LetterTypes, OnlyJob, Letters!EveryoneDone, Letters!tables, Letters!ghosts
  <2>4. JobType(c)'
    BY <2>1, <2>2 DEF JobTypes, JobType, KeepsFields
  <2> QED BY <2>2, <2>3, <2>4, <1>3
<1>10. ASSUME NEW c \in Jobs, PastLetters(c) PROVE LetterTypes' /\ JobTypes'
  <2>1. LetterTypes'
    BY <1>10, LateJob DEF LetterTypes, OnlyJob
  <2>2. JobType(c)'
    BY <1>10, LateJob DEF JobType
  <2> QED BY <2>1, <2>2, <1>3, <1>10, LateJob
<1>11. CASE Letters!Tick
  BY <1>11 DEF Letters!Tick, LetterTypes, JobTypes, JobType
<1> QED BY <1>1, <1>2, <1>4, <1>5, <1>6, <1>7, <1>8, <1>9, <1>10, <1>11, LetterCases

\* Division with a remainder, and the days of the week.
LEMMA DivMod == \A x \in Int, L \in Nat \ {0} : x = L * (x \div L) + (x % L) /\ x \div L \in Int
     /\ x % L \in 0..(L-1)
BY SMTT(30)

\* No multiple of a week is within a week of nothing but nothing.
LEMMA NoMultipleBetween == ASSUME NEW L \in Nat \ {0}, NEW k \in Int, L * k < L, -L < L * k PROVE k = 0
<1>1. CASE k >= 1
  <2>1. k = 1 + (k - 1) /\ k - 1 \in Nat BY <1>1
  <2>2. L * k = L + L * (k-1) BY <2>1
  <2>3. \A m \in Nat : L * m >= 0 OBVIOUS
  <2> QED BY <2>1, <2>2, <2>3
<1>2. CASE k <= -1
  <2>1. k = (-1) - (-1 - k) /\ -1 - k \in Nat BY <1>2
  <2>2. L * k = -L - L * (-1 - k) BY <2>1
  <2>3. \A m \in Nat : L * m >= 0 OBVIOUS
  <2> QED BY <2>1, <2>2, <2>3
<1> QED BY <1>1, <1>2

\* A week later is the same weekday.
LEMMA ModPeriod == ASSUME NEW x \in Int, NEW L \in Nat \ {0} PROVE (x + L) % L = x % L
<1> DEFINE q == x \div L  p == (x + L) \div L  r == x % L s == (x + L) % L
<1>1. /\ q \in Int /\ p \in Int /\ r \in 0..(L-1) /\ s \in 0..(L-1)
      /\ x = L * q + r /\ x + L = L * p + s
  <2>1. q \in Int /\ r \in 0..(L-1) /\ x = L * q + r
    BY DivMod
  <2>2. x + L \in Int
    OBVIOUS
  <2> HIDE DEF q, r
  <2>3. p \in Int /\ s \in 0..(L-1) /\ x + L = L * p + s
    BY <2>2, DivMod
  <2> QED BY <2>1, <2>3
<1> HIDE DEF q, p, r, s
<1>2. L * (q + 1 - p) = L * q + L - L * p
  BY <1>1
<1>3. L * (q + 1 - p) = s - r
  BY <1>1, <1>2
<1>4. q + 1 - p = 0
  BY <1>1, <1>3, NoMultipleBetween
<1>5. s = r
  BY <1>1, <1>3, <1>4
<1> QED BY <1>5 DEF s, r

\* What every step leaves of the day.
LEMMA DayKeeps ==
  ASSUME LetterTypes, JobTypes, [Letters!Next]_(Letters!vars)
  PROVE  \/ Letters!Tick
         \/ day' = day /\ disturbed \subseteq disturbed' /\ (ran' = ran
              \/ (ran' = day /\ Letters!isDigestDay))
<1>1. CASE UNCHANGED Letters!vars
  BY <1>1 DEF Letters!vars, Letters!tables, Letters!ghosts
<1>2. CASE CustomerSteps
  BY <1>2, CustomersDo
<1>3. ASSUME NEW c \in Jobs, NEW force \in BOOLEAN, Letters!BeginDigest(c, force)
      PROVE day' = day /\ disturbed \subseteq disturbed' /\ (ran' = ran
           \/ (ran' = day /\ Letters!isDigestDay))
  BY <1>3, Begins DEF LetterTypes
<1>4. ASSUME NEW c \in Jobs, PastLetters(c) PROVE day' = day /\ disturbed \subseteq disturbed'
        /\ ran' = ran
  BY <1>4, LateJob DEF LetterTypes
<1>5. ASSUME NEW c \in Jobs, Letters!ReadOwners(c) \/ (\E p \in Customers : Letters!ReadProfile(c, p))
        \/ Letters!EveryoneDone(c)
      PROVE day' = day /\ disturbed \subseteq disturbed' /\ ran' = ran
  BY <1>5 DEF Letters!ReadOwners, Letters!ReadProfile, Letters!EveryoneDone, Letters!ghosts
<1>6. ASSUME NEW c \in Jobs, Letters!sendDigest(c) \/ Letters!StampSent(c)
      PROVE day' = day /\ disturbed \subseteq disturbed' /\ ran' = ran
  BY <1>6 DEF Letters!sendDigest, Letters!StampSent
<1> QED BY <1>1, <1>2, <1>3, <1>4, <1>5, <1>6, LetterCases

\* Every step keeps each part.
LEMMA CalendarKept ==
  ASSUME LetterTypes, JobTypes, Calendar, [Letters!Next]_(Letters!vars)
  PROVE  Calendar'
<1>0. /\ day \in Nat /\ ran \in Int /\ LOOKBACK_DAYS \in Nat \ {0} /\ SEND_WEEKDAY \in Nat
           /\ SEND_WEEKDAY < LOOKBACK_DAYS
      /\ -1 <= ran /\ ran <= day /\ day - LOOKBACK_DAYS <= ran
      /\ (ran = -1 /\ day <= SEND_WEEKDAY) \/ ran % LOOKBACK_DAYS = SEND_WEEKDAY
  BY DigestAssumption DEF LetterTypes, Calendar
<1>1. CASE day' = day /\ (ran' = ran \/ (ran' = day /\ Letters!isDigestDay))
  BY <1>0, <1>1 DEF Calendar, Letters!isDigestDay
<1>2. CASE Letters!Tick
  <2>1. day' = day + 1 /\ ran' = ran /\ (Letters!isDigestDay => ran = day)
    BY <1>2 DEF Letters!Tick
  <2>2. CASE ran = day
    BY <1>0, <2>1, <2>2 DEF Calendar
  <2>3. CASE ran # day
    <3>1. day % LOOKBACK_DAYS # SEND_WEEKDAY
      BY <2>1, <2>3 DEF Letters!isDigestDay
    <3>2. day # SEND_WEEKDAY
      BY <3>1, <1>0
    <3>3. ran + LOOKBACK_DAYS # day \/ ran = -1
      BY <3>1, <1>0, ModPeriod
    <3>4. day + 1 - LOOKBACK_DAYS <= ran
      BY <1>0, <3>2, <3>3
    <3> QED BY <1>0, <2>1, <3>2, <3>4 DEF Calendar
  <2> QED BY <2>2, <2>3
<1> QED BY <1>1, <1>2, DayKeeps

LEMMA UntoldKept ==
  ASSUME LetterTypes, JobTypes, Untold, [Letters!Next]_(Letters!vars)
  PROVE  Untold'
<1> DEFINE Same == /\ UNCHANGED <<day, business_triggers, lead_unlocks>>
                   /\ \A p \in Customers : untold'[p] \subseteq untold[p]
<1>1. CASE Same
  BY <1>1 DEF Untold
<1>2. CASE UNCHANGED Letters!vars
  BY <1>2, <1>1 DEF Letters!vars, Letters!tables, Letters!ghosts
<1>3. CASE CustomerSteps
  <2> SUFFICES ASSUME NEW p \in Customers, NEW t \in untold'[p]
               PROVE t.on <= day' /\ t.lead \in lead_unlocks'[p] /\ (t.on >= day' - LOOKBACK_DAYS =>
                    t \in business_triggers')
    BY DEF Untold
  <2>1. CASE t \in untold[p]
    BY <2>1, <1>3, CustomersDo DEF Untold
  <2>2. CASE t \notin untold[p]
    BY <2>2, <1>3, CustomersDo DEF Untold, LetterTypes
  <2> QED BY <2>1, <2>2
<1>4. ASSUME NEW c \in Jobs, NEW force \in BOOLEAN, Letters!BeginDigest(c, force) PROVE Untold'
  BY <1>1, <1>4, Begins
<1>5. ASSUME NEW c \in Jobs, PastLetters(c) PROVE Untold'
  BY <1>1, <1>5, LateJob
<1>6. ASSUME NEW c \in Jobs, Letters!ReadOwners(c) \/ (\E p \in Customers : Letters!ReadProfile(c, p))
        \/ Letters!EveryoneDone(c) \/ Letters!StampSent(c)
      PROVE Untold'
  BY <1>1, <1>6 DEF Letters!ReadOwners, Letters!ReadProfile, Letters!EveryoneDone, Letters!StampSent,
       Letters!ghosts, Letters!tables
<1>7. ASSUME NEW c \in Jobs, Letters!sendDigest(c) PROVE Untold'
  <2>1. UNCHANGED <<day, business_triggers, lead_unlocks>>
    BY <1>7 DEF Letters!sendDigest, Letters!tables
  <2>2. \A p \in Customers : untold'[p] \subseteq untold[p]
    BY <1>7 DEF Letters!sendDigest, LetterTypes
  <2> QED BY <1>1, <2>1, <2>2
<1>8. CASE Letters!Tick
  <2>1. /\ day' = day + 1 /\ UNCHANGED <<lead_unlocks, untold>>
        /\ business_triggers' = { t \in business_triggers : t.on >= day' - LOOKBACK_DAYS }
    BY <1>8 DEF Letters!Tick
  <2> SUFFICES ASSUME NEW p \in Customers, NEW t \in untold'[p]
               PROVE t.on <= day' /\ t.lead \in lead_unlocks'[p] /\ (t.on >= day' - LOOKBACK_DAYS =>
                    t \in business_triggers')
    BY DEF Untold
  <2>2. t.on \in Nat /\ day \in Nat /\ LOOKBACK_DAYS \in Nat
    BY <2>1, DigestAssumption DEF LetterTypes, ChangeRecord
  <2>3. t.on <= day /\ t.lead \in lead_unlocks[p] /\ (t.on >= day - LOOKBACK_DAYS =>
          t \in business_triggers)
    BY <2>1 DEF Untold
  <2> QED BY <2>1, <2>2, <2>3
<1> QED BY <1>2, <1>3, <1>4, <1>5, <1>6, <1>7, <1>8, LetterCases

LEMMA OneJobKept ==
  ASSUME LetterTypes, JobTypes, OneJob, [Letters!Next]_(Letters!vars)
  PROVE  OneJob'
<1> DEFINE Lone == \A b, c \in Jobs : job[b].at # "idle" /\ job[c].at # "idle" => b = c
           Today == \A c \in Jobs : job[c].at \in {"changes", "users", "letter", "stamp"} =>
                      job[c].force = FALSE /\ job[c].today = day /\ ran = day
<1> SUFFICES ASSUME Undisturbed' # {}
             PROVE  Lone' /\ Today'
  BY DEF OneJob
<1>1. CASE Letters!Tick
  BY <1>1 DEF Letters!Tick, Letters!Running, Letters!At
<1>2. CASE ~Letters!Tick
  <2>0. Undisturbed # {} /\ day' = day /\ (ran' = ran \/ (ran' = day /\ Letters!isDigestDay))
    BY <1>2, DayKeeps DEF Undisturbed
  <2>1. Lone /\ Today
    BY <2>0 DEF OneJob
  <2>2. CASE UNCHANGED Letters!vars
    BY <2>2, <2>1 DEF Letters!vars
  <2>3. CASE CustomerSteps
    BY <2>3, <2>1, CustomersDo
  <2>4. ASSUME NEW c \in Jobs, OnlyJob(c), job[c].at # "idle",
          job'[c].at \in {"changes", "users", "letter", "stamp"} =>
                 job'[c].force = FALSE /\ job'[c].today = day /\ ran' = day
        PROVE Lone' /\ Today'
    BY <2>0, <2>1, <2>4 DEF OnlyJob
  <2>5. ASSUME NEW c \in Jobs, NEW force \in BOOLEAN, Letters!BeginDigest(c, force)
          PROVE Lone' /\ Today'
    <3>1. ~force /\ \A b \in Jobs : job[b].at = "idle"
      BY <2>5, Begins DEF Letters!Running, Letters!At, Undisturbed
    <3>2. OnlyJob(c) /\ (job'[c].at \in {"changes", "users", "letter", "stamp"} =>
                          job'[c].force = FALSE /\ job'[c].today = day /\ ran' = day)
      BY <3>1, <2>5, Begins
    <3> QED BY <2>0, <3>1, <3>2 DEF OnlyJob
  <2>6. ASSUME NEW c \in Jobs, Letters!ReadOwners(c) PROVE Lone' /\ Today'
    <3>1. OnlyJob(c) /\ job[c].at \in {"changes", "users", "letter", "stamp"}
          /\ job'[c].force = job[c].force /\ job'[c].today = job[c].today
      BY <2>6, OwnersRead DEF KeepsDay
    <3>2. job[c].force = FALSE /\ job[c].today = day /\ ran = day
      BY <2>1, <3>1
    <3>3. job'[c].force = FALSE /\ job'[c].today = day /\ ran' = day
      BY <2>0, <3>1, <3>2
    <3> HIDE DEF Lone, Today
    <3> QED BY <2>4, <3>1, <3>3
  <2>7. ASSUME NEW c \in Jobs, NEW p \in Customers, Letters!ReadProfile(c, p) PROVE Lone' /\ Today'
    <3>1. OnlyJob(c) /\ job[c].at \in {"changes", "users", "letter", "stamp"}
          /\ job'[c].force = job[c].force /\ job'[c].today = job[c].today
      BY <2>7, ProfileRead DEF KeepsDay
    <3>2. job[c].force = FALSE /\ job[c].today = day /\ ran = day
      BY <2>1, <3>1
    <3>3. job'[c].force = FALSE /\ job'[c].today = day /\ ran' = day
      BY <2>0, <3>1, <3>2
    <3> HIDE DEF Lone, Today
    <3> QED BY <2>4, <3>1, <3>3
  <2>8. ASSUME NEW c \in Jobs, job[c].at \in {"users", "letter", "stamp"}, NEW s,
          Letters!Go(c, [at |-> s]) PROVE Lone' /\ Today'
    <3>1. OnlyJob(c) /\ job[c].at \in {"changes", "users", "letter", "stamp"}
          /\ job'[c].force = job[c].force /\ job'[c].today = job[c].today
      BY <2>8, Placing DEF KeepsDay
    <3>2. job[c].force = FALSE /\ job[c].today = day /\ ran = day
      BY <2>1, <3>1
    <3>3. job'[c].force = FALSE /\ job'[c].today = day /\ ran' = day
      BY <2>0, <3>1, <3>2
    <3> HIDE DEF Lone, Today
    <3> QED BY <2>4, <3>1, <3>3
  <2>9. ASSUME NEW c \in Jobs, Letters!sendDigest(c) \/ Letters!StampSent(c) \/ Letters!EveryoneDone(c)
          PROVE Lone' /\ Today'
    BY <2>9, <2>8 DEF Letters!sendDigest, Letters!StampSent, Letters!EveryoneDone, Letters!At
  <2>10. ASSUME NEW c \in Jobs, PastLetters(c) PROVE Lone' /\ Today'
    BY <2>10, <2>4, LateJob DEF Undisturbed
  <2> QED BY <1>2, <2>2, <2>3, <2>5, <2>6, <2>7, <2>9, <2>10, LetterCases
<1> QED BY <1>1, <1>2

LEMMA VerdictKept ==
  ASSUME LetterTypes, OneVerdict, [Letters!Next]_(Letters!vars)
  PROVE  OneVerdict'
<1>1. CASE quality_samples' \in {quality_samples, {}}
  BY <1>1 DEF OneVerdict
<1>2. CASE UNCHANGED Letters!vars
  BY <1>1, <1>2 DEF Letters!vars
<1>3. CASE CustomerSteps
  BY <1>1, <1>3, CustomersDo
<1>4. ASSUME NEW c \in Jobs, NEW force \in BOOLEAN, Letters!BeginDigest(c, force) PROVE OneVerdict'
  BY <1>1, <1>4, Begins
<1>5. ASSUME NEW c \in Jobs, Letters!ReadOwners(c) \/ (\E p \in Customers : Letters!ReadProfile(c, p))
        \/ Letters!EveryoneDone(c) \/ Letters!StampSent(c) \/ Letters!sendDigest(c)
      PROVE OneVerdict'
  BY <1>1, <1>5 DEF Letters!ReadOwners, Letters!ReadProfile, Letters!EveryoneDone, Letters!StampSent,
       Letters!sendDigest
<1>6. ASSUME NEW c \in Jobs, Letters!runQualitySample(c) \/ Letters!EndJob(c) \/ Letters!JobKilled(c)
        PROVE OneVerdict'
  BY <1>1, <1>6 DEF Letters!runQualitySample, Letters!EndJob, Letters!JobKilled
<1>7. ASSUME NEW c \in Jobs, NEW b \in Businesses, Letters!Sample(c, b) PROVE OneVerdict'
  <2>1. PICK g \in BOOLEAN : quality_samples' \in {quality_samples, Letters!insertSample(b, g)}
    BY <1>7 DEF Letters!Sample
  <2>2. CASE \E s \in quality_samples : s.lead = b
    BY <1>1, <2>1, <2>2 DEF Letters!insertSample
  <2>3. CASE \A s \in quality_samples : s.lead # b
    <3>1. quality_samples' = quality_samples \/ quality_samples' = quality_samples \cup {[lead |-> b,
            good |-> g]}
      BY <2>1, <2>3 DEF Letters!insertSample
    <3> QED BY <3>1, <2>3 DEF OneVerdict
  <2> QED BY <2>2, <2>3
<1>8. CASE Letters!Tick
  BY <1>1, <1>8 DEF Letters!Tick
<1> QED BY <1>2, <1>3, <1>4, <1>5, <1>6, <1>7, <1>8, LetterCases DEF PastLetters

\* A step of a job that neither comes from a letter nor goes to one.
LEMMA LetterStays ==
  ASSUME LetterTypes, NEW p \in Customers, NEW c \in Jobs, OnlyJob(c), LetterOf(p),
         job[c].at \notin {"letter", "stamp"} \/ job[c].who # p, job'[c].at # "letter"
              \/ job'[c].who # p,
         day' = day, ran' \in {ran, day}, ran <= day, profiles'[p] = profiles[p],
              letters'[p] = letters[p]
  PROVE  LetterOf(p)'
<1>1. profiles'[p].weekly = TRUE /\ profiles'[p].suspended = FALSE /\ profiles'[p].sent_on <= ran'
        /\ letters'[p] \in {0, 1}
  BY DEF LetterOf, LetterTypes
<1>2. ASSUME letters'[p] = 1 PROVE Stamped(p)'
  <2>1. CASE profiles[p].sent_on = day
    BY <2>1 DEF Stamped
  <2>2. CASE \E b \in Jobs : job[b].at = "stamp" /\ job[b].who = p
    <3>1. PICK b \in Jobs : job[b].at = "stamp" /\ job[b].who = p
      BY <2>2
    <3>2. b # c
      BY <3>1
    <3>3. job'[b] = job[b]
      BY <3>2 DEF OnlyJob
    <3> QED BY <3>1, <3>3 DEF Stamped
  <2> QED BY <1>2, <2>1, <2>2 DEF LetterOf, Stamped
<1>3. ASSUME NEW b \in Jobs, job'[b].at = "letter", job'[b].who = p PROVE letters'[p] = 0
  <2>1. b # c
    BY <1>3
  <2>2. job'[b] = job[b]
    BY <2>1 DEF OnlyJob
  <2> QED BY <1>3, <2>2 DEF LetterOf
<1> QED BY <1>1, <1>2, <1>3 DEF LetterOf

\* The job of an undisturbed customer is alone.
LEMMA NoOtherJob ==
  ASSUME OneJob, NEW p \in Undisturbed, NEW c \in Jobs, job[c].at # "idle"
  PROVE  /\ \A b \in Jobs \ {c} : job[b].at = "idle"
         /\ job[c].at \in {"changes", "users", "letter", "stamp"} =>
              job[c].force = FALSE /\ job[c].today = day /\ ran = day
BY DEF OneJob

LEMMA LetterKept ==
  ASSUME LetterTypes, JobTypes, Calendar, OneJob, LetterInv, [Letters!Next]_(Letters!vars)
  PROVE  LetterInv'
<1> SUFFICES ASSUME NEW p \in Undisturbed'
             PROVE  LetterOf(p)'
  BY DEF LetterInv
<1>0. p \in Customers /\ LetterTypes' /\ ran <= day
  BY LetterTypesKept DEF Undisturbed, Calendar
<1>1. CASE Letters!Tick
  <2>1. p \in Undisturbed /\ LetterOf(p)
    BY <1>1 DEF Letters!Tick, Undisturbed, LetterInv
  <2>2. letters'[p] = 0 /\ UNCHANGED <<profiles, ran, job>> /\ \A c \in Jobs : job[c].at = "idle"
    BY <1>1, <1>0 DEF Letters!Tick, Letters!Running, Letters!At
  <2> QED BY <2>1, <2>2 DEF LetterOf
<1>2. CASE ~Letters!Tick
  <2>0. p \in Undisturbed /\ LetterOf(p) /\ day' = day /\ ran' \in {ran, day}
    BY <1>2, DayKeeps DEF Undisturbed, LetterInv
  <2>1. CASE UNCHANGED Letters!vars
    BY <2>0, <2>1 DEF Letters!vars, Letters!tables, Letters!ghosts, LetterOf, Stamped
  <2>2. CASE CustomerSteps
    BY <2>0, <2>2, CustomersDo DEF LetterOf, Stamped, Undisturbed
  <2>3. ASSUME NEW c \in Jobs, NEW force \in BOOLEAN, Letters!BeginDigest(c, force) PROVE LetterOf(p)'
    <3>1. OnlyJob(c) /\ job[c].at = "idle" /\ job'[c].at \in {"tidy", "changes"}
            /\ UNCHANGED <<profiles, letters>>
      BY <2>3, Begins
    <3> QED BY <3>1, <2>0, <1>0, LetterStays
  <2>4. ASSUME NEW c \in Jobs, Letters!ReadOwners(c) PROVE LetterOf(p)'
    <3>1. OnlyJob(c) /\ job[c].at = "changes" /\ job'[c].at \in {"tidy", "users"}
            /\ UNCHANGED <<profiles, letters>>
      BY <2>4, OwnersRead DEF Letters!ReadOwners, Letters!ghosts
    <3> QED BY <3>1, <2>0, <1>0, LetterStays
  <2>5. ASSUME NEW c \in Jobs, NEW q \in Customers, Letters!ReadProfile(c, q) PROVE LetterOf(p)'
    <3>1. OnlyJob(c) /\ job[c].at = "users" /\ UNCHANGED <<profiles, letters>>
          /\ job'[c].at \in {"letter", "users"}
          /\ (job'[c].at = "letter" => job'[c].who = q /\ Letters!MayWrite(c, q))
      BY <2>5, ProfileRead DEF Letters!ReadProfile, Letters!ghosts
    <3>2. CASE job'[c].at = "letter" /\ q = p
      <4>1. job[c].force = FALSE /\ job[c].today = day /\ \A b \in Jobs \ {c} : job[b].at = "idle"
        BY <2>0, <3>1, NoOtherJob
      <4>2. profiles[p].sent_on # day
        BY <3>1, <3>2, <4>1 DEF Letters!MayWrite
      <4>3. ~Stamped(p)
        BY <4>1, <4>2, <3>1 DEF Stamped
      <4>4. letters[p] = 0
        BY <4>3, <2>0 DEF LetterOf
      <4> QED BY <4>4, <3>1, <2>0, <1>0 DEF LetterOf, LetterTypes
    <3>3. CASE ~(job'[c].at = "letter" /\ q = p)
      BY <3>1, <3>3, <2>0, <1>0, LetterStays
    <3> QED BY <3>2, <3>3
  <2>6. ASSUME NEW c \in Jobs, Letters!sendDigest(c) PROVE LetterOf(p)'
    <3> DEFINE q == job[c].who
    <3>1. job[c].at = "letter" /\ q \in Customers /\ "who" \in DOMAIN job[c] /\ UNCHANGED profiles
      BY <2>6 DEF Letters!sendDigest, Letters!At, JobTypes, JobType
    <3>2. \A b \in Jobs \ {c} : job[b].at = "idle"
      BY <2>0, <3>1, NoOtherJob
    <3>3. PICK s \in {"stamp", "users"} : Letters!Go(c, [at |-> s]) /\ (s = "users" =>
            disturbed' = disturbed \cup {q} /\ letters' = letters)
                                            /\ (s = "stamp" => letters' = [letters EXCEPT ![q] = @ + 1])
      BY <2>6 DEF Letters!sendDigest
    <3>4. OnlyJob(c) /\ job'[c].at = s /\ job'[c].who = q
      BY <3>1, <3>3, Placing
    <3>5. CASE q = p
      <4>1. s = "stamp"
        BY <3>3, <3>5 DEF Undisturbed
      <4>2. letters[p] = 0 /\ letters'[p] = 1
        BY <4>1, <3>1, <3>3, <3>5, <2>0, <1>0 DEF LetterOf, LetterTypes
      <4>3. Stamped(p)'
        BY <3>4, <3>5, <4>1 DEF Stamped
      <4>4. \A b \in Jobs : job'[b].at # "letter"
        BY <3>2, <3>4, <4>1 DEF OnlyJob
      <4>5. profiles'[p].weekly = TRUE /\ profiles'[p].suspended = FALSE /\ profiles'[p].sent_on <= ran'
        BY <2>0, <3>1, <1>0 DEF LetterOf, LetterTypes
      <4> QED BY <4>2, <4>3, <4>4, <4>5 DEF LetterOf
    <3>6. CASE q # p
      <4>1. letters'[p] = letters[p]
        BY <3>3, <3>6, <1>0 DEF LetterTypes
      <4> QED BY <4>1, <3>1, <3>4, <3>6, <2>0, <1>0, LetterStays
    <3> QED BY <3>5, <3>6
  <2>7. ASSUME NEW c \in Jobs, Letters!StampSent(c) PROVE LetterOf(p)'
    <3> DEFINE q == job[c].who
    <3>1. job[c].at = "stamp" /\ q \in Customers /\ UNCHANGED letters
      BY <2>7 DEF Letters!StampSent, Letters!At, JobTypes, JobType
    <3>2. Letters!Go(c, [at |-> "users"])
      BY <2>7 DEF Letters!StampSent
    <3>3. OnlyJob(c) /\ job'[c].at = "users"
      BY <3>1, <3>2, Placing
    <3>4. \A b \in Jobs \ {c} : job[b].at = "idle"
      BY <2>0, <3>1, NoOtherJob
    <3>5. CASE q = p
      <4>1. profiles' = [profiles EXCEPT ![p].sent_on = job[c].today]
        BY <2>7, <3>5 DEF Letters!StampSent, Undisturbed
      <4>2. job[c].today = day /\ ran = day
        BY <2>0, <3>1, NoOtherJob
      <4>3. profiles'[p].sent_on = day /\ profiles'[p].weekly = TRUE /\ profiles'[p].suspended = FALSE
        BY <4>1, <4>2, <2>0, <1>0 DEF LetterOf, LetterTypes
      <4>4. \A b \in Jobs : job'[b].at # "letter"
        BY <3>3, <3>4 DEF OnlyJob
      <4> QED BY <4>2, <4>3, <4>4, <3>1, <2>0, <1>0 DEF LetterOf, Stamped, LetterTypes
    <3>6. CASE q # p
      <4>1. profiles'[p] = profiles[p]
        BY <2>7, <3>6, <1>0, <3>1 DEF Letters!StampSent, LetterTypes
      <4> QED BY <4>1, <3>1, <3>3, <3>6, <2>0, <1>0, LetterStays
    <3> QED BY <3>5, <3>6
  <2>8. ASSUME NEW c \in Jobs, Letters!EveryoneDone(c) PROVE LetterOf(p)'
    <3>1. job[c].at = "users" /\ Letters!Go(c, [at |-> "tidy"]) /\ UNCHANGED <<profiles, letters>>
      BY <2>8 DEF Letters!EveryoneDone, Letters!At, Letters!ghosts
    <3>2. OnlyJob(c) /\ job'[c].at = "tidy"
      BY <3>1, Placing
    <3> QED BY <3>1, <3>2, <2>0, <1>0, LetterStays
  <2>9. ASSUME NEW c \in Jobs, PastLetters(c) PROVE LetterOf(p)'
    <3>1. OnlyJob(c) /\ job[c].at \in {"tidy", "sample"} /\ job'[c].at \in {"idle", "sample"}
            /\ UNCHANGED <<profiles, letters>>
      BY <2>9, LateJob DEF Undisturbed
    <3> QED BY <3>1, <2>0, <1>0, LetterStays
  <2> QED BY <1>2, <2>1, <2>2, <2>3, <2>4, <2>5, <2>6, <2>7, <2>8, <2>9, LetterCases
<1> QED BY <1>1, <1>2

\* What a job will tell it still will, when the job is another's step, or keeps its plan.
LEMMA PendingStays ==
  ASSUME NEW p \in Customers, NEW c \in Jobs, OnlyJob(c), Pending(p), day' = day, ran' = ran,
       profiles'[p].sent_on = profiles[p].sent_on,
         untold'[p] \subseteq untold[p], \A t \in untold'[p] : Handles(c, p, t) => Handles(c, p, t)'
  PROVE  Pending(p)'
<1> SUFFICES ASSUME NEW t \in untold'[p], ~(t.on >= ran)
             PROVE  profiles[p].sent_on # day /\ \E b \in Jobs : Handles(b, p, t)'
  BY DEF Pending
<1>1. profiles[p].sent_on # day /\ \E b \in Jobs : Handles(b, p, t)
  BY DEF Pending
<1>2. PICK b \in Jobs : Handles(b, p, t)
  BY <1>1
<1>3. CASE b = c
  BY <1>1, <1>2, <1>3
<1>4. CASE b # c
  <2>1. job'[b] = job[b]
    BY <1>4 DEF OnlyJob
  <2>2. Handles(b, p, t)'
    BY <1>2, <2>1 DEF Handles
  <2> QED BY <1>1, <2>2
<1> QED BY <1>3, <1>4

LEMMA PendingKept ==
  ASSUME LetterTypes, JobTypes, Calendar, Untold, OneJob, LetterInv, PendingInv,
       [Letters!Next]_(Letters!vars)
  PROVE  PendingInv'
<1> SUFFICES ASSUME NEW p \in Undisturbed'
             PROVE  Pending(p)'
  BY DEF PendingInv
<1>0. p \in Customers /\ LetterTypes' /\ ran <= day /\ ran \in Int /\ day \in Nat
  BY LetterTypesKept DEF Undisturbed, Calendar, LetterTypes
<1>1. CASE Letters!Tick
  <2>1. p \in Undisturbed /\ Pending(p)
    BY <1>1 DEF Letters!Tick, Undisturbed, PendingInv
  <2>2. UNCHANGED <<profiles, ran, job, untold>> /\ \A c \in Jobs : job[c].at = "idle"
    BY <1>1, <1>0 DEF Letters!Tick, Letters!Running, Letters!At
  <2> QED BY <2>1, <2>2 DEF Pending, Handles
<1>2. CASE ~Letters!Tick
  <2>0. p \in Undisturbed /\ Pending(p) /\ LetterOf(p) /\ day' = day
    BY <1>2, DayKeeps DEF Undisturbed, LetterInv, PendingInv
  <2>1. CASE UNCHANGED Letters!vars
    BY <2>0, <2>1 DEF Letters!vars, Letters!tables, Letters!ghosts, Pending, Handles
  <2>2. CASE CustomerSteps
    <3>1. UNCHANGED <<job, day, ran>> /\ profiles'[p] = profiles[p]
            /\ \A t \in untold'[p] \ untold[p] : t.on = day
      BY <2>2, <1>0, CustomersDo DEF Undisturbed
    <3> SUFFICES ASSUME NEW t \in untold'[p], ~(t.on >= ran)
                 PROVE  profiles[p].sent_on # day /\ \E b \in Jobs : Handles(b, p, t)'
      BY <3>1 DEF Pending
    <3>2. t \in untold[p]
      BY <3>1, <1>0
    <3> QED BY <3>1, <3>2, <2>0 DEF Pending, Handles
  <2>3. ASSUME NEW c \in Jobs, NEW force \in BOOLEAN, Letters!BeginDigest(c, force) PROVE Pending(p)'
    <3>1. ~force /\ \A b \in Jobs : job[b].at = "idle"
      BY <2>3, Begins DEF Letters!Running, Letters!At, Undisturbed
    <3>2. \A t \in untold[p] : t.on >= ran
      BY <3>1, <2>0 DEF Pending, Handles
    <3>3. UNCHANGED <<profiles, untold>> /\ ran' = IF Letters!isDigestDay THEN day ELSE ran
      BY <2>3, Begins
    <3>4. CASE ~Letters!isDigestDay
      BY <3>2, <3>3, <3>4 DEF Pending
    <3>5. CASE Letters!isDigestDay
      <4> SUFFICES ASSUME NEW t \in untold[p], ~(t.on >= day)
                   PROVE  profiles[p].sent_on # day /\ \E b \in Jobs : Handles(b, p, t)'
        BY <2>0, <3>3, <3>5 DEF Pending
      <4>1. t.on \in Nat /\ t.on < day /\ t.on >= ran /\ profiles[p].sent_on \in Int
              /\ LOOKBACK_DAYS \in Nat
        BY <1>0, <3>2, DigestAssumption DEF LetterTypes, ChangeRecord
      <4>2. profiles[p].sent_on # day
        BY <4>1, <2>0, <1>0 DEF LetterOf
      <4>3. t.on >= day - LOOKBACK_DAYS
        BY <4>1, <1>0 DEF Calendar
      <4>4. t \in { u \in business_triggers : u.on >= day - LOOKBACK_DAYS }
        BY <4>3, <1>0 DEF Untold
      <4>5. job'[c].at = "changes"
              /\ job'[c].changed = { u \in business_triggers : u.on >= day - LOOKBACK_DAYS }
        BY <2>3, <3>5, <4>4, Begins
      <4>6. Handles(c, p, t)'
        BY <4>4, <4>5 DEF Handles
      <4> QED BY <4>2, <4>6
    <3> QED BY <3>4, <3>5
  <2>4. ASSUME NEW c \in Jobs, Letters!ReadOwners(c) PROVE Pending(p)'
    <3>1. UNCHANGED <<profiles, ran, untold>>
      BY <2>4 DEF Letters!ReadOwners, Letters!ghosts
    <3>2. /\ OnlyJob(c) /\ job[c].at = "changes" /\ job'[c].changed = job[c].changed
          /\ job'[c].at = IF job'[c].todo = {} THEN "tidy" ELSE "users"
          /\ job'[c].owned[p] = lead_unlocks[p] \cap { t.lead : t \in job[c].changed }
          /\ job'[c].todo = { q \in Customers : job'[c].owned[q] # {} }
      BY <2>4, <1>0, OwnersRead DEF KeepsDay
    <3>3. ASSUME NEW t \in untold'[p], Handles(c, p, t) PROVE Handles(c, p, t)'
      <4>1. t.lead \in lead_unlocks[p] /\ t \in job[c].changed
        BY <3>3, <3>1, <1>0 DEF Untold, Handles
      <4>2. t.lead \in job'[c].owned[p] /\ p \in job'[c].todo
        BY <4>1, <3>2, <1>0
      <4> QED BY <4>1, <4>2, <3>2 DEF Handles
    <3> QED BY <3>1, <3>2, <3>3, <2>0, <1>0, PendingStays
  <2>5. ASSUME NEW c \in Jobs, NEW q \in Customers, Letters!ReadProfile(c, q) PROVE Pending(p)'
    <3>1. UNCHANGED <<profiles, ran, untold>>
      BY <2>5 DEF Letters!ReadProfile, Letters!ghosts
    <3>2. /\ OnlyJob(c) /\ job[c].at = "users" /\ job'[c].changed = job[c].changed
               /\ job'[c].owned = job[c].owned
          /\ job'[c].todo = job[c].todo \ {q}
          /\ IF Letters!MayWrite(c, q) THEN job'[c].at = "letter" /\ job'[c].who = q
               ELSE job'[c].at = "users"
      BY <2>5, ProfileRead DEF KeepsDay
    <3>3. job[c].force = FALSE /\ job[c].today = day
      BY <2>0, <3>2, NoOtherJob
    <3>4. ASSUME NEW t \in untold'[p], Handles(c, p, t), profiles[p].sent_on # day
            PROVE Handles(c, p, t)'
      <4>1. q = p => Letters!MayWrite(c, q)
        BY <3>3, <3>4, <2>0 DEF LetterOf, Letters!MayWrite
      <4> QED BY <4>1, <3>4, <3>2 DEF Handles
    <3>5. CASE profiles[p].sent_on # day
      BY <3>1, <3>2, <3>4, <3>5, <2>0, <1>0, PendingStays
    <3>6. CASE profiles[p].sent_on = day
      BY <3>1, <3>6, <2>0 DEF Pending
    <3> QED BY <3>5, <3>6
  <2>6. ASSUME NEW c \in Jobs, Letters!sendDigest(c) PROVE Pending(p)'
    <3> DEFINE q == job[c].who
    <3>1. job[c].at = "letter" /\ q \in Customers /\ "who" \in DOMAIN job[c]
            /\ UNCHANGED <<profiles, ran>>
      BY <2>6 DEF Letters!sendDigest, Letters!At, JobTypes, JobType
    <3>2. PICK s \in {"stamp", "users"} :
            Letters!Go(c, [at |-> s]) /\ (s = "users" => disturbed' = disturbed \cup {q}
                 /\ untold' = untold)
            /\ (s = "stamp" => untold' = [untold EXCEPT ![q] = @ \ { t \in job[c].changed : t.lead \in job[c].owned[q] }])
      BY <2>6 DEF Letters!sendDigest
    <3>3. OnlyJob(c) /\ job'[c].at = s /\ job'[c].changed = job[c].changed /\ job'[c].todo = job[c].todo
            /\ job'[c].owned = job[c].owned
      BY <3>1, <3>2, Placing DEF KeepsDay, KeepsPlan
    <3>4. untold'[p] \subseteq untold[p]
      BY <3>2, <1>0 DEF LetterTypes
    <3>5. ASSUME NEW t \in untold'[p], Handles(c, p, t) PROVE Handles(c, p, t)'
      <4>1. p \in job[c].todo \/ q = p
        BY <3>5, <3>1 DEF Handles
      <4>2. CASE q = p
        <5>1. s = "stamp"
          BY <3>2, <4>2 DEF Undisturbed
        <5>2. t \notin { u \in job[c].changed : u.lead \in job[c].owned[p] }
          BY <5>1, <3>2, <4>2, <3>5, <1>0 DEF LetterTypes
        <5> QED BY <5>2, <3>5, <3>1 DEF Handles
      <4>3. CASE p \in job[c].todo
        BY <4>3, <3>5, <3>3, <3>1 DEF Handles
      <4> QED BY <4>1, <4>2, <4>3
    <3> QED BY <3>1, <3>3, <3>4, <3>5, <2>0, <1>0, PendingStays
  <2>7. ASSUME NEW c \in Jobs, Letters!StampSent(c) PROVE Pending(p)'
    <3> DEFINE q == job[c].who
    <3>1. job[c].at = "stamp" /\ q \in Customers /\ q \notin job[c].todo /\ UNCHANGED <<untold, ran>>
      BY <2>7 DEF Letters!StampSent, Letters!At, JobTypes, JobType
    <3>2. Letters!Go(c, [at |-> "users"])
      BY <2>7 DEF Letters!StampSent
    <3>3. OnlyJob(c) /\ job'[c].at = "users" /\ job'[c].changed = job[c].changed
            /\ job'[c].todo = job[c].todo /\ job'[c].owned = job[c].owned
      BY <3>1, <3>2, Placing DEF KeepsDay, KeepsPlan
    <3>4. \A b \in Jobs \ {c} : job[b].at = "idle"
      BY <2>0, <3>1, NoOtherJob
    <3>5. CASE q = p
      <4>1. \A t \in untold[p], b \in Jobs : ~Handles(b, p, t)
        BY <3>1, <3>4, <3>5 DEF Handles
      <4>2. \A t \in untold[p] : t.on >= ran
        BY <4>1, <2>0 DEF Pending
      <4> QED BY <4>2, <3>1 DEF Pending
    <3>6. CASE q # p
      <4>1. profiles'[p] = profiles[p]
        BY <2>7, <3>6, <1>0, <3>1 DEF Letters!StampSent, LetterTypes
      <4>2. \A t \in untold'[p] : Handles(c, p, t) => Handles(c, p, t)'
        BY <3>1, <3>3 DEF Handles
      <4> QED BY <4>1, <4>2, <3>1, <3>3, <2>0, <1>0, PendingStays
    <3> QED BY <3>5, <3>6
  <2>8. ASSUME NEW c \in Jobs, Letters!EveryoneDone(c) PROVE Pending(p)'
    <3>1. job[c].at = "users" /\ job[c].todo = {} /\ Letters!Go(c, [at |-> "tidy"])
            /\ UNCHANGED <<profiles, ran, untold>>
      BY <2>8 DEF Letters!EveryoneDone, Letters!At, Letters!ghosts
    <3>2. OnlyJob(c)
      BY <3>1, Placing
    <3>3. \A t \in untold'[p] : ~Handles(c, p, t)
      BY <3>1 DEF Handles
    <3> QED BY <3>1, <3>2, <3>3, <2>0, <1>0, PendingStays
  <2>9. ASSUME NEW c \in Jobs, PastLetters(c) PROVE Pending(p)'
    <3>1. OnlyJob(c) /\ job[c].at \in {"tidy", "sample"} /\ UNCHANGED <<profiles, ran, untold>>
      BY <2>9, LateJob DEF Undisturbed
    <3>2. \A t \in untold'[p] : ~Handles(c, p, t)
      BY <3>1 DEF Handles
    <3> QED BY <3>1, <3>2, <2>0, <1>0, PendingStays
  <2> QED BY <1>2, <2>1, <2>2, <2>3, <2>4, <2>5, <2>6, <2>7, <2>8, <2>9, LetterCases
<1> QED BY <1>1, <1>2

\* The part runs in behaviours of its own.
LettersHold == scene = "letters" => LettersInv

\* The invariant holds at first, and every step keeps it.
LEMMA LettersStart == ASSUME Letters!Init PROVE LettersInv
<1>1. LetterTypes /\ JobTypes
  BY DEF Letters!Init, LetterTypes, JobTypes, JobType, Letters!Idle, Letters!NoDay
<1>2. /\ (\A c \in Jobs : job[c].at = "idle") /\ day = 0 /\ ran = -1 /\ quality_samples = {}
      /\ \A p \in Customers : untold[p] = {} /\ letters[p] = 0
           /\ profiles[p] = [weekly |-> TRUE, suspended |-> FALSE, sent_on |-> -1]
  BY DEF Letters!Init, Letters!Idle, Letters!NoDay
<1>3. Calendar
  BY <1>2, DigestAssumption DEF Calendar
<1>4. Untold /\ OneJob /\ PendingInv /\ OneVerdict
  BY <1>2 DEF Untold, OneJob, PendingInv, Pending, OneVerdict, Undisturbed
<1>5. LetterInv
  BY <1>2 DEF LetterInv, LetterOf, Undisturbed
<1> QED BY <1>1, <1>3, <1>4, <1>5 DEF LettersInv

LEMMA LettersKept == ASSUME LettersInv, [Letters!Next]_(Letters!vars) PROVE LettersInv'
BY LetterTypesKept, CalendarKept, UntoldKept, OneJobKept, LetterKept, PendingKept, VerdictKept
     DEF LettersInv

LEMMA LettersAlways == SceneSpec => []LettersHold
<1>1. SceneInit => LettersHold
  BY LettersStart DEF SceneInit, LettersHold
<1>2. LettersHold /\ [SceneNext]_sceneVars => LettersHold'
  <2> SUFFICES ASSUME LettersHold, [SceneNext]_sceneVars, scene' = "letters" PROVE LettersInv'
    BY DEF LettersHold
  <2>1. scene = "letters" /\ [Letters!Next]_(Letters!vars)
    BY DEF SceneNext, sceneVars, DigestOnly, Letters!vars, Letters!tables, Letters!ghosts
  <2> QED BY <2>1, LettersKept DEF LettersHold
<1> QED BY <1>1, <1>2, PTL DEF SceneSpec

\* A customer nothing disturbed is told of every change at what they had opened by the next
\* digest, in one letter a day, and a lead that is sampled has one verdict, for any length of the
\* week and any digest day in it, any customers, businesses and jobs (lib/digest.ts,
\* lib/quality.ts).
THEOREM LettersAreTold == SceneSpec => []LettersTell
<1>1. LettersHold => LettersTell
  <2> SUFFICES ASSUME LettersInv PROVE Letters!NothingMissed /\ Letters!LetterOnceADay
          /\ Letters!OneVerdictADay
    BY DEF LettersHold, LettersTell
  <2>1. Letters!NothingMissed
    BY DEF LettersInv, PendingInv, Pending, Handles, Undisturbed, Letters!NothingMissed, Letters!Running,
         Letters!At
  <2>2. Letters!LetterOnceADay
    BY DEF LettersInv, LetterInv, LetterOf, Undisturbed, Letters!LetterOnceADay
  <2>3. Letters!OneVerdictADay
    BY DEF LettersInv, OneVerdict, Letters!OneVerdictADay
  <2> QED BY <2>1, <2>2, <2>3
<1> QED BY <1>1, LettersAlways, PTL

-----------------------------------------------------------------------------
(* Desk: nobody who wrote is left without an answer. A ticket is opened by *)
(* an insert and a first message, answered by a message and a status: each *)
(* a step of its own.                                                      *)

\* What a ticket and a request at work can hold.
TicketRow == [status : {"open", "answered", "closed"}, thread : Seq({"customer", "support"})]
OpeningStep == [at : {"inserted", "empty"}, ticket : Tickets]
WritingStep == [at : {"found", "written"}, ticket : Tickets, who : {"customer", "support"}]
OtherStep == [at : {"idle", "counted", "new", "known"}] \cup [at : {"mark"}, was : {"new", "handled"}]
\* Type invariant of the desk.
DeskTypes ==
  /\ tickets \in [Tickets -> {Support!NoRow} \cup TicketRow]
  /\ work \in [Handlers -> OpeningStep \cup WritingStep \cup OtherStep]
  /\ entangled \subseteq Tickets
  /\ subscriber \in {Support!NoRow} \cup [status : {"row"}, confirmed : BOOLEAN, left : BOOLEAN]
  /\ raced \in BOOLEAN
\* A request works on a ticket, and nobody does.
WorksOn(h, t) == work[h].at \in {"inserted", "empty", "found", "written"} /\ work[h].ticket = t
Unattended(t) == \A h \in Handlers : ~WorksOn(h, t)
\* Who spoke last.
LastSaid(t) == tickets[t].thread[Len(tickets[t].thread)]
\* What is true of a ticket nobody works on.
Settled(t) == tickets[t] # Support!NoRow /\ tickets[t].thread # <<>> /\ (tickets[t].status = "answered" =>
     LastSaid(t) = "support")
\* What is true of one in hand, step by step.
InHand(h, t) ==
  /\ tickets[t] # Support!NoRow
  /\ work[h].at \in {"inserted", "empty"} => tickets[t].thread = <<>> /\ tickets[t].status = "open"
  /\ work[h].at = "found" => Settled(t)
  /\ work[h].at = "written" => tickets[t].thread # <<>> /\ LastSaid(t) = work[h].who
\* A ticket nobody entangled: one request at most works on it.
TicketOf(t) ==
  /\ \A g, h \in Handlers : WorksOn(g, t) /\ WorksOn(h, t) => g = h
  /\ \A h \in Handlers : WorksOn(h, t) => InHand(h, t)
  /\ Unattended(t) => tickets[t] = Support!NoRow \/ Settled(t)
TicketsInv == \A t \in Tickets \ entangled : TicketOf(t)
\* The newsletter: who left is not confirmed by a sign-up that was under way.
ListInv ==
  /\ "links" \in mail \/ (\E h \in Handlers : work[h].at = "known") \/ clicked # "none" =>
       subscriber # Support!NoRow
  /\ raced = FALSE /\ clicked = "leave" =>
       /\ subscriber.left = TRUE \/ subscriber.confirmed = FALSE
       /\ \A h \in Handlers : work[h].at = "known" => subscriber.confirmed = FALSE
\* The inductive invariant.
DeskInv == DeskTypes /\ TicketsInv /\ ListInv

\* Who works on a ticket, as the module says it.
LEMMA OnIs ==
  ASSUME DeskTypes, NEW t \in Tickets
  PROVE  Support!OnTicket(t) = { h \in Handlers : WorksOn(h, t) }
<1> SUFFICES ASSUME NEW h \in Handlers PROVE ("ticket" \in DOMAIN work[h]
        /\ work[h].ticket = t) <=> WorksOn(h, t)
  BY DEF Support!OnTicket
<1>1. CASE work[h] \in OpeningStep \cup WritingStep
  BY <1>1 DEF OpeningStep, WritingStep, WorksOn
<1>2. CASE work[h] \in OtherStep
  BY <1>2 DEF OtherStep, WorksOn
<1> QED BY <1>1, <1>2 DEF DeskTypes

\* The steps on a ticket, and the others.
TicketSteps ==
  \/ \E h \in Handlers : Support!FirstMessage(h) \/ Support!TakeBack(h) \/ Support!InsertMessage(h)
       \/ Support!SetStatus(h)
  \/ \E h \in Handlers, t \in Tickets : Support!InsertTicket(h, t)
  \/ \E h \in Handlers, t \in Tickets, who \in {"customer", "support"} : Support!Find(h, t, who)
  \/ \E t \in Tickets, status \in Support!Status : Support!Set(t, status)
Elsewhere ==
  \/ \E h \in Handlers : Support!CountTickets(h) \/ Support!SignUp(h) \/ Support!InsertSubscriber(h)
       \/ Support!ClearStamp(h) \/ Support!Toggle(h)
  \/ \E mark \in {"new", "handled"}, h \in Handlers : Support!ReadMark(h, mark)
  \/ \E mark \in {"new", "handled"} : Support!DeleteMessage(mark)
  \/ Support!Confirm \/ Support!Unsubscribe \/ Support!Contact

\* The steps, one by one.
LEMMA DeskCases ==
  ASSUME Support!Next
  PROVE  TicketSteps \/ Elsewhere \/ \E h \in Handlers : Support!Ended(h)
BY DEF Support!Next, TicketSteps, Elsewhere

\* A request that works on no ticket goes on working on none.
LEMMA ElsewhereDoes ==
  ASSUME DeskTypes, Elsewhere
  PROVE  /\ DeskTypes' /\ UNCHANGED <<tickets, entangled>>
         /\ \A h \in Handlers : work'[h] = work[h] \/ (work[h] \in OtherStep /\ work'[h] \in OtherStep)
<1>1. ASSUME NEW h \in Handlers, Support!CountTickets(h) \/ Support!SignUp(h)
        \/ Support!InsertSubscriber(h) \/ Support!ClearStamp(h) \/ Support!Toggle(h)
      PROVE /\ DeskTypes' /\ UNCHANGED <<tickets, entangled>>
            /\ \A g \in Handlers : work'[g] = work[g] \/ (work[g] \in OtherStep
                 /\ work'[g] \in OtherStep)
  <2>1. UNCHANGED <<tickets, entangled, raced>>
    BY <1>1 DEF Support!CountTickets, Support!SignUp, Support!InsertSubscriber, Support!ClearStamp,
         Support!Toggle
  <2>2. work' = work \/ \E w \in OtherStep : work' = [work EXCEPT ![h] = w]
    BY <1>1 DEF Support!CountTickets, Support!SignUp, Support!InsertSubscriber, Support!ClearStamp,
         Support!Toggle, Support!Become, Support!Idle, OtherStep
  <2>3. work[h].at \in {"idle", "counted", "new", "known", "mark"}
    BY <1>1 DEF Support!CountTickets, Support!SignUp, Support!InsertSubscriber, Support!ClearStamp,
         Support!Toggle, Support!At
  <2>4. work[h] \in OtherStep
    BY <2>3 DEF DeskTypes, OpeningStep, WritingStep
  <2>5. subscriber' \in {Support!NoRow} \cup [status : {"row"}, confirmed : BOOLEAN, left : BOOLEAN]
    <3>1. CASE Support!ClearStamp(h) /\ subscriber # Support!NoRow
      BY <3>1 DEF Support!ClearStamp, DeskTypes
    <3>2. CASE Support!ClearStamp(h) /\ subscriber = Support!NoRow
      BY <3>2 DEF Support!ClearStamp, DeskTypes, Support!NoRow
    <3>3. CASE Support!InsertSubscriber(h)
      <4>1. subscriber' \in {subscriber, [status |-> "row", confirmed |-> FALSE, left |-> FALSE]}
        BY <3>3 DEF Support!InsertSubscriber
      <4>2. [status |-> "row", confirmed |-> FALSE, left |-> FALSE] \in [status : {"row"},
              confirmed : BOOLEAN, left : BOOLEAN]
        OBVIOUS
      <4>3. subscriber \in {Support!NoRow} \cup [status : {"row"}, confirmed : BOOLEAN, left : BOOLEAN]
        BY DEF DeskTypes
      <4> HIDE DEF DeskTypes
      <4> QED BY <4>1, <4>2, <4>3
    <3>4. CASE Support!CountTickets(h) \/ Support!SignUp(h) \/ Support!Toggle(h)
      BY <3>4 DEF Support!CountTickets, Support!SignUp, Support!Toggle, DeskTypes
    <3> QED BY <1>1, <3>1, <3>2, <3>3, <3>4
  <2> QED BY <2>1, <2>2, <2>4, <2>5 DEF DeskTypes
<1>2. ASSUME NEW h \in Handlers, NEW mark \in {"new", "handled"}, Support!ReadMark(h, mark)
      PROVE /\ DeskTypes' /\ UNCHANGED <<tickets, entangled>>
            /\ \A g \in Handlers : work'[g] = work[g] \/ (work[g] \in OtherStep
                 /\ work'[g] \in OtherStep)
  <2>1. UNCHANGED <<tickets, entangled, raced, subscriber>> /\ work[h].at = "idle"
    BY <1>2 DEF Support!ReadMark, Support!At
  <2>2. \E w \in OtherStep : work' = [work EXCEPT ![h] = w]
    BY <1>2 DEF Support!ReadMark, Support!Become, OtherStep
  <2>3. work[h] \in OtherStep
    BY <2>1 DEF DeskTypes, OpeningStep, WritingStep
  <2> QED BY <2>1, <2>2, <2>3 DEF DeskTypes
<1>3. ASSUME Support!Confirm \/ Support!Unsubscribe
      PROVE /\ DeskTypes' /\ UNCHANGED <<tickets, entangled, work>>
  <2>1. UNCHANGED <<tickets, entangled, work>>
    BY <1>3 DEF Support!Confirm, Support!Unsubscribe
  <2>2. raced' \in BOOLEAN
    BY <1>3 DEF Support!Confirm, Support!Unsubscribe, DeskTypes
  <2>3. subscriber' \in {Support!NoRow} \cup [status : {"row"}, confirmed : BOOLEAN, left : BOOLEAN]
    <3>1. CASE subscriber # Support!NoRow
      BY <1>3, <3>1 DEF Support!Confirm, Support!Unsubscribe, DeskTypes
    <3>2. CASE subscriber = Support!NoRow
      BY <1>3, <3>2 DEF Support!Confirm, Support!Unsubscribe, DeskTypes, Support!NoRow
    <3> QED BY <3>1, <3>2
  <2> QED BY <2>1, <2>2, <2>3 DEF DeskTypes
<1>4. ASSUME Support!Contact \/ \E mark \in {"new", "handled"} : Support!DeleteMessage(mark)
      PROVE /\ DeskTypes' /\ UNCHANGED <<tickets, entangled, work>>
  BY <1>4 DEF Support!Contact, Support!DeleteMessage, DeskTypes
<1> QED BY <1>1, <1>2, <1>3, <1>4 DEF Elsewhere

\* A status that is set by hand.
LEMMA TicketSet ==
  ASSUME DeskTypes, NEW t \in Tickets, NEW status \in Support!Status, Support!Set(t, status)
  PROVE  /\ DeskTypes' /\ UNCHANGED <<work, subscriber, mail, clicked, raced>>
              /\ entangled \subseteq entangled'
         /\ \A u \in Tickets \ {t} : tickets'[u] = tickets[u]
         /\ tickets[t] # Support!NoRow /\ tickets'[t] # Support!NoRow
              /\ tickets'[t].thread = tickets[t].thread /\ tickets'[t].status # "answered"
         /\ t \notin entangled' => Unattended(t)
<1>1. UNCHANGED <<work, subscriber, mail, clicked, raced>> /\ entangled' = IF Support!OnTicket(t) # {}
        THEN entangled \cup {t} ELSE entangled
  BY DEF Support!Set, Support!Entangle
<1>2. tickets[t] \in TicketRow
        /\ tickets' = [tickets EXCEPT ![t] = [tickets[t] EXCEPT !.status = status]]
             /\ status \in {"open", "closed"}
  BY DEF Support!Set, Support!Exists, DeskTypes
<1>3. [tickets[t] EXCEPT !.status = status] \in TicketRow
  BY <1>2 DEF TicketRow
<1>4. tickets'[t] \in TicketRow /\ tickets'[t].thread = tickets[t].thread /\ tickets'[t].status = status
  BY <1>2, <1>3 DEF DeskTypes, TicketRow
<1>5. DeskTypes'
  BY <1>1, <1>2, <1>3 DEF DeskTypes
<1>6. t \notin entangled' => Unattended(t)
  BY <1>1, OnIs DEF Unattended
<1>7. \A r \in TicketRow : r # Support!NoRow
  BY DEF TicketRow, Support!NoRow
<1> QED BY <1>1, <1>2, <1>4, <1>5, <1>6, <1>7 DEF DeskTypes

\* A row is not the lack of one.
LEMMA RowsExist == \A r \in TicketRow : r # Support!NoRow
BY DEF TicketRow, Support!NoRow

\* A ticket is inserted,
LEMMA TicketInserted ==
  ASSUME DeskTypes, NEW h \in Handlers, NEW t \in Tickets, Support!InsertTicket(h, t)
  PROVE  /\ DeskTypes' /\ UNCHANGED <<subscriber, mail, clicked, raced, entangled>>
         /\ \A u \in Tickets \ {t} : tickets'[u] = tickets[u]
         /\ \A g \in Handlers \ {h} : work'[g] = work[g]
         /\ work[h].at = "counted" /\ work'[h].at = "inserted" /\ work'[h].ticket = t
         /\ tickets[t] = Support!NoRow /\ t \notin entangled
         /\ tickets'[t] # Support!NoRow /\ tickets'[t].thread = <<>> /\ tickets'[t].status = "open"
<1> DEFINE r == [status |-> "open", thread |-> <<>>]
           w == [at |-> "inserted", ticket |-> t]
<1>1. /\ UNCHANGED <<subscriber, mail, clicked, raced, entangled>>
           /\ tickets' = [tickets EXCEPT ![t] = r] /\ work' = [work EXCEPT ![h] = w]
      /\ work[h].at = "counted" /\ tickets[t] = Support!NoRow /\ t \notin entangled
  BY DEF Support!InsertTicket, Support!Become, Support!At, Support!Exists
<1>2. r \in TicketRow /\ r.thread = <<>> /\ r.status = "open"
  BY DEF TicketRow
<1>3. w \in OpeningStep /\ w.at = "inserted" /\ w.ticket = t
  BY DEF OpeningStep
<1> HIDE DEF r, w
<1> QED BY <1>1, <1>2, <1>3, RowsExist DEF DeskTypes

\* or found.
LEMMA TicketFound ==
  ASSUME DeskTypes, NEW h \in Handlers, NEW t \in Tickets, NEW who \in {"customer", "support"},
       Support!Find(h, t, who)
  PROVE  /\ DeskTypes' /\ UNCHANGED <<subscriber, mail, clicked, raced, tickets>>
              /\ entangled \subseteq entangled'
         /\ \A g \in Handlers \ {h} : work'[g] = work[g]
         /\ work[h].at = "idle" /\ work'[h].at = "found" /\ work'[h].ticket = t
         /\ tickets[t] # Support!NoRow /\ (t \notin entangled' => Unattended(t))
<1> DEFINE w == [at |-> "found", ticket |-> t, who |-> who]
<1>1. /\ UNCHANGED <<subscriber, mail, clicked, raced, tickets>> /\ work' = [work EXCEPT ![h] = w]
      /\ work[h].at = "idle" /\ tickets[t] # Support!NoRow
      /\ entangled' = IF Support!OnTicket(t) # {} THEN entangled \cup {t} ELSE entangled
  BY DEF Support!Find, Support!Become, Support!At, Support!Exists, Support!Entangle
<1>2. w \in WritingStep /\ w.at = "found" /\ w.ticket = t
  BY DEF WritingStep
<1>3. t \notin entangled' => Unattended(t)
  BY <1>1, OnIs DEF Unattended
<1> HIDE DEF w
<1> QED BY <1>1, <1>2, <1>3 DEF DeskTypes

\* What one step of a request does to its ticket.
Worked(h, t) ==
  /\ \A u \in Tickets \ {t} : tickets'[u] = tickets[u]
  /\ \A g \in Handlers \ {h} : work'[g] = work[g]
  /\ UNCHANGED <<subscriber, clicked, raced>> /\ mail \subseteq mail'
       /\ mail' \subseteq mail \cup {"operator", "customer"}
  /\ \/ entangled' = entangled
     \/ entangled' = entangled \cup {t} /\ work'[h].at = "idle"
\* The message is the last of its thread.
Appended(t, who) ==
  /\ tickets'[t] # Support!NoRow /\ tickets'[t].thread # <<>> /\ tickets'[t].status = tickets[t].status
  /\ tickets'[t].thread[Len(tickets'[t].thread)] = who

\* Appending a message to a thread.
LEMMA Appends ==
  ASSUME DeskTypes, NEW t \in Tickets, NEW who \in {"customer", "support"}, tickets[t] # Support!NoRow,
         tickets' = [tickets EXCEPT ![t].thread = Append(@, who)]
  PROVE  tickets' \in [Tickets -> {Support!NoRow} \cup TicketRow] /\ Appended(t, who)
       /\ \A u \in Tickets \ {t} : tickets'[u] = tickets[u]
<1> DEFINE th == Append(tickets[t].thread, who)
<1>1. tickets[t] \in TicketRow /\ tickets' = [tickets EXCEPT ![t] = [tickets[t] EXCEPT !.thread = th]]
  BY DEF DeskTypes
<1>2. th \in Seq({"customer", "support"}) /\ th # <<>> /\ th[Len(th)] = who
  BY <1>1 DEF TicketRow
<1> HIDE DEF th
<1>3. [tickets[t] EXCEPT !.thread = th] \in TicketRow /\ [tickets[t] EXCEPT !.thread = th].thread = th
      /\ [tickets[t] EXCEPT !.thread = th].status = tickets[t].status
  BY <1>1, <1>2 DEF TicketRow
<1>4. tickets'[t] = [tickets[t] EXCEPT !.thread = th]
        /\ \A u \in Tickets \ {t} : tickets'[u] = tickets[u]
  BY <1>1 DEF DeskTypes
<1> QED BY <1>1, <1>2, <1>3, <1>4, RowsExist DEF Appended, DeskTypes

\* A notice goes to the operator or the customer.
LEMMA Noticed == \A w \in {"operator", "customer"} : Support!Notify(w) =>
     mail \subseteq mail' /\ mail' \subseteq mail \cup {"operator", "customer"}
BY DEF Support!Notify

\* The first message, or its failure;
LEMMA FirstMessages ==
  ASSUME DeskTypes, NEW h \in Handlers, NEW t \in Tickets, work[h].at = "inserted", work[h].ticket = t,
       tickets[t] # Support!NoRow, Support!FirstMessage(h)
  PROVE  /\ DeskTypes' /\ Worked(h, t)
         /\ \/ work'[h].at = "idle" /\ Appended(t, "customer")
            \/ work'[h].at = "empty" /\ work'[h].ticket = t /\ tickets' = tickets
                 /\ entangled' = entangled
<1>1. CASE tickets' = [tickets EXCEPT ![t].thread = Append(@, "customer")]
        /\ work' = [work EXCEPT ![h] = Support!Idle] /\ Support!Notify("operator")
  <2>1. tickets' \in [Tickets -> {Support!NoRow} \cup TicketRow] /\ Appended(t, "customer")
          /\ \A u \in Tickets \ {t} : tickets'[u] = tickets[u]
    BY <1>1, Appends
  <2>2. UNCHANGED <<subscriber, clicked, raced, entangled>>
    BY DEF Support!FirstMessage
  <2>3. Support!Idle \in OtherStep /\ Support!Idle.at = "idle"
    BY DEF Support!Idle, OtherStep
  <2>4. work' \in [Handlers -> OpeningStep \cup WritingStep \cup OtherStep] /\ work'[h].at = "idle"
          /\ \A g \in Handlers \ {h} : work'[g] = work[g]
    BY <1>1, <2>3 DEF DeskTypes
  <2>5. mail \subseteq mail' /\ mail' \subseteq mail \cup {"operator", "customer"}
    BY <1>1, Noticed
  <2> QED BY <2>1, <2>2, <2>4, <2>5 DEF DeskTypes, Worked
<1>2. CASE work' = [work EXCEPT ![h] = [at |-> "empty", ticket |-> t]] /\ UNCHANGED <<tickets, mail>>
  <2>2. UNCHANGED <<subscriber, clicked, raced, entangled>>
    BY DEF Support!FirstMessage
  <2>3. [at |-> "empty", ticket |-> t] \in OpeningStep
    BY DEF OpeningStep
  <2>4. work' \in [Handlers -> OpeningStep \cup WritingStep \cup OtherStep]
          /\ work'[h] = [at |-> "empty", ticket |-> t] /\ \A g \in Handlers \ {h} : work'[g] = work[g]
    BY <1>2, <2>3 DEF DeskTypes
  <2> QED BY <1>2, <2>2, <2>4 DEF DeskTypes, Worked
<1> QED BY <1>1, <1>2 DEF Support!FirstMessage, Support!Become

\* then the ticket is taken back.
LEMMA TakesBack ==
  ASSUME DeskTypes, NEW h \in Handlers, NEW t \in Tickets, work[h].at = "empty", work[h].ticket = t,
       Support!TakeBack(h)
  PROVE  /\ DeskTypes' /\ Worked(h, t) /\ work'[h].at = "idle"
         /\ tickets'[t] = Support!NoRow \/ t \in entangled'
<1>1. Support!Idle \in OtherStep /\ Support!Idle.at = "idle"
  BY DEF Support!Idle, OtherStep
<1>2. work' = [work EXCEPT ![h] = Support!Idle] /\ UNCHANGED <<subscriber, clicked, raced, mail>>
  BY DEF Support!TakeBack, Support!Become
<1>3. work' \in [Handlers -> OpeningStep \cup WritingStep \cup OtherStep] /\ work'[h].at = "idle"
        /\ \A g \in Handlers \ {h} : work'[g] = work[g]
  BY <1>1, <1>2 DEF DeskTypes
<1>4. \/ tickets' = [tickets EXCEPT ![t] = Support!NoRow] /\ UNCHANGED entangled
      \/ entangled' = entangled \cup {t} /\ UNCHANGED tickets
  BY DEF Support!TakeBack
<1> QED BY <1>2, <1>3, <1>4 DEF DeskTypes, Worked

\* A message of a ticket that was found,
LEMMA MessagesIn ==
  ASSUME DeskTypes, NEW h \in Handlers, NEW t \in Tickets, work[h].at = "found", work[h].ticket = t,
       tickets[t] # Support!NoRow, Support!InsertMessage(h)
  PROVE  /\ DeskTypes' /\ Worked(h, t) /\ entangled' = entangled
         /\ work'[h].at = "written" /\ work'[h].ticket = t /\ Appended(t, work'[h].who)
<1> DEFINE w == [at |-> "written", ticket |-> t, who |-> work[h].who]
<1>0. work[h].who \in {"customer", "support"}
  BY DEF DeskTypes, OpeningStep, WritingStep, OtherStep
<1>1. tickets' = [tickets EXCEPT ![t].thread = Append(@, work[h].who)] /\ work' = [work EXCEPT ![h] = w]
  BY DEF Support!InsertMessage, Support!Exists, Support!Become
<1>2. UNCHANGED <<subscriber, clicked, raced, entangled, mail>>
  BY DEF Support!InsertMessage
<1>3. w \in WritingStep /\ w.at = "written" /\ w.ticket = t /\ w.who = work[h].who
  BY <1>0 DEF WritingStep
<1>4. tickets' \in [Tickets -> {Support!NoRow} \cup TicketRow] /\ Appended(t, work[h].who)
        /\ \A u \in Tickets \ {t} : tickets'[u] = tickets[u]
  BY <1>0, <1>1, Appends
<1> HIDE DEF w
<1>5. work' \in [Handlers -> OpeningStep \cup WritingStep \cup OtherStep] /\ work'[h] = w
        /\ \A g \in Handlers \ {h} : work'[g] = work[g]
  BY <1>1, <1>3 DEF DeskTypes
<1> QED BY <1>2, <1>3, <1>4, <1>5 DEF DeskTypes, Worked

\* and its status.
LEMMA StatusSet ==
  ASSUME DeskTypes, NEW h \in Handlers, NEW t \in Tickets, work[h].at = "written", work[h].ticket = t,
       tickets[t] # Support!NoRow, Support!SetStatus(h)
  PROVE  /\ DeskTypes' /\ Worked(h, t) /\ work'[h].at = "idle"
         /\ \/ t \in entangled'
            \/ /\ tickets'[t] # Support!NoRow /\ tickets'[t].thread = tickets[t].thread
               /\ tickets'[t].status = IF work[h].who = "support" THEN "answered" ELSE "open"
<1>1. Support!Idle \in OtherStep /\ Support!Idle.at = "idle"
  BY DEF Support!Idle, OtherStep
<1>2. work' = [work EXCEPT ![h] = Support!Idle] /\ UNCHANGED <<subscriber, clicked, raced>>
  BY DEF Support!SetStatus, Support!Become
<1>3. work' \in [Handlers -> OpeningStep \cup WritingStep \cup OtherStep] /\ work'[h].at = "idle"
        /\ \A g \in Handlers \ {h} : work'[g] = work[g]
  BY <1>1, <1>2 DEF DeskTypes
<1>4. mail \subseteq mail' /\ mail' \subseteq mail \cup {"operator", "customer"}
  BY Noticed DEF Support!SetStatus
<1> DEFINE s == IF work[h].who = "support" THEN "answered" ELSE "open"
<1>5. \/ tickets' = [tickets EXCEPT ![t].status = s] /\ UNCHANGED entangled
      \/ entangled' = entangled \cup {t} /\ UNCHANGED tickets
  BY DEF Support!SetStatus, Support!Exists, Support!statusAfter
<1>6. CASE tickets' = [tickets EXCEPT ![t].status = s] /\ UNCHANGED entangled
  <2>1. tickets[t] \in TicketRow /\ s \in {"answered", "open"}
          /\ tickets' = [tickets EXCEPT ![t] = [tickets[t] EXCEPT !.status = s]]
    BY <1>6 DEF DeskTypes
  <2> HIDE DEF s
  <2>2. [tickets[t] EXCEPT !.status = s] \in TicketRow /\ [tickets[t] EXCEPT !.status = s].status = s
        /\ [tickets[t] EXCEPT !.status = s].thread = tickets[t].thread
    BY <2>1 DEF TicketRow
  <2>3. tickets' \in [Tickets -> {Support!NoRow} \cup TicketRow]
          /\ tickets'[t] = [tickets[t] EXCEPT !.status = s]
               /\ \A u \in Tickets \ {t} : tickets'[u] = tickets[u]
    BY <2>1, <2>2 DEF DeskTypes
  <2>4. DeskTypes' /\ Worked(h, t)
    BY <1>2, <1>3, <1>4, <1>6, <2>3 DEF DeskTypes, Worked
  <2> QED BY <1>3, <2>2, <2>3, <2>4, RowsExist DEF s
<1>7. CASE entangled' = entangled \cup {t} /\ UNCHANGED tickets
  BY <1>2, <1>3, <1>4, <1>7 DEF DeskTypes, Worked
<1> QED BY <1>5, <1>6, <1>7

\* A step on a ticket that is gone.
LEMMA OnMissing ==
  ASSUME DeskTypes, NEW h \in Handlers, NEW t \in Tickets, work[h].ticket = t,
       tickets[t] = Support!NoRow,
         Support!FirstMessage(h) \/ Support!TakeBack(h) \/ Support!InsertMessage(h)
              \/ Support!SetStatus(h)
  PROVE  DeskTypes' /\ Worked(h, t) /\ (work'[h].at = "idle" \/ work'[h].ticket = t)
<1>1. Support!Idle \in OtherStep /\ Support!Idle.at = "idle"
        /\ [at |-> "empty", ticket |-> t] \in OpeningStep
  BY DEF Support!Idle, OtherStep, OpeningStep
<1>2. UNCHANGED <<subscriber, clicked, raced>>
  BY DEF Support!FirstMessage, Support!TakeBack, Support!InsertMessage, Support!SetStatus
<1>3. tickets' = tickets
  <2>1. CASE Support!FirstMessage(h)
    <3>1. tickets' = tickets \/ tickets' = [tickets EXCEPT ![t].thread = Append(@, "customer")]
      BY <2>1 DEF Support!FirstMessage
    <3>2. [Support!NoRow EXCEPT !.thread = Append(@, "customer")] = Support!NoRow
      BY DEF Support!NoRow
    <3> QED BY <3>1, <3>2 DEF DeskTypes
  <2>2. CASE Support!TakeBack(h)
    BY <2>2 DEF Support!TakeBack, DeskTypes
  <2>3. CASE Support!InsertMessage(h) \/ Support!SetStatus(h)
    BY <2>3 DEF Support!InsertMessage, Support!SetStatus, Support!Exists
  <2> QED BY <2>1, <2>2, <2>3
<1>4. \E w \in {Support!Idle, [at |-> "empty", ticket |-> t]} : work' = [work EXCEPT ![h] = w]
        /\ (w = Support!Idle \/ entangled' = entangled)
  BY DEF Support!FirstMessage, Support!TakeBack, Support!InsertMessage, Support!SetStatus,
       Support!Become, Support!Exists
<1>5. entangled' = entangled \/ entangled' = entangled \cup {t}
  BY DEF Support!FirstMessage, Support!TakeBack, Support!InsertMessage, Support!SetStatus
<1>6. mail \subseteq mail' /\ mail' \subseteq mail \cup {"operator", "customer"}
  BY Noticed DEF Support!FirstMessage, Support!TakeBack, Support!InsertMessage, Support!SetStatus
<1>7. PICK w \in {Support!Idle, [at |-> "empty", ticket |-> t]} : work' = [work EXCEPT ![h] = w]
        /\ (w = Support!Idle \/ entangled' = entangled)
  BY <1>4
<1>8. work' \in [Handlers -> OpeningStep \cup WritingStep \cup OtherStep] /\ work'[h] = w
        /\ (w.at = "idle" \/ w.ticket = t) /\ \A g \in Handlers \ {h} : work'[g] = work[g]
  BY <1>1, <1>7 DEF DeskTypes
<1> QED BY <1>1, <1>2, <1>3, <1>5, <1>6, <1>7, <1>8 DEF DeskTypes, Worked

\* A ticket that no step touches is as it was.
LEMMA Untouched ==
  ASSUME NEW u \in Tickets, TicketOf(u), tickets'[u] = tickets[u],
         \A g \in Handlers : (WorksOn(g, u)' => WorksOn(g, u)) /\ (WorksOn(g, u) => work'[g] = work[g])
  PROVE  TicketOf(u)'
<1>1. \A g \in Handlers : WorksOn(g, u)' <=> WorksOn(g, u)
  BY DEF WorksOn
<1>2. \A g, h \in Handlers : WorksOn(g, u)' /\ WorksOn(h, u)' => g = h
  BY DEF TicketOf
<1>3. \A h \in Handlers : WorksOn(h, u)' => InHand(h, u)'
  BY DEF TicketOf, InHand, Settled, LastSaid
<1>4. Unattended(u)' => (tickets'[u] = Support!NoRow \/ Settled(u)')
  BY <1>1 DEF TicketOf, Unattended, Settled, LastSaid
<1> QED BY <1>2, <1>3, <1>4 DEF TicketOf, Unattended

\* Nor is one another request works on.
LEMMA WorkedElsewhere ==
  ASSUME DeskTypes, TicketsInv, NEW h \in Handlers, NEW t \in Tickets, Worked(h, t), work[h].ticket = t,
       work'[h].at = "idle" \/ work'[h].ticket = t,
         NEW u \in Tickets \ entangled', u # t
  PROVE  TicketOf(u)'
<1>1. \A g \in Handlers : (WorksOn(g, u)' => WorksOn(g, u)) /\ (WorksOn(g, u) => work'[g] = work[g])
  BY DEF Worked, WorksOn
<1>2. TicketOf(u) /\ tickets'[u] = tickets[u]
  BY DEF TicketsInv, Worked
<1> QED BY <1>1, <1>2, Untouched

\* A request alone on its ticket: what the ticket is when the request has left it, or works on.
LEMMA LoneRequest ==
  ASSUME NEW h \in Handlers, NEW t \in Tickets, TicketOf(t), WorksOn(h, t),
       \A g \in Handlers \ {h} : work'[g] = work[g],
         WorksOn(h, t)' => InHand(h, t)', ~WorksOn(h, t)' => tickets'[t] = Support!NoRow \/ Settled(t)'
  PROVE  TicketOf(t)'
<1>1. \A g \in Handlers \ {h} : ~WorksOn(g, t) /\ ~WorksOn(g, t)'
  BY DEF TicketOf, WorksOn
<1> QED BY <1>1 DEF TicketOf, Unattended

\* Every step keeps each part.
LEMMA TicketStepsKeep ==
  ASSUME DeskTypes, TicketsInv, TicketSteps
  PROVE  /\ DeskTypes' /\ TicketsInv'
         /\ UNCHANGED <<subscriber, clicked, raced>> /\ mail' \subseteq mail \cup {"operator",
              "customer"}
         /\ \A h \in Handlers : work'[h].at # "known" \/ work'[h] = work[h]
<1> DEFINE Goal == /\ DeskTypes' /\ TicketsInv'
                   /\ UNCHANGED <<subscriber, clicked, raced>>
                        /\ mail' \subseteq mail \cup {"operator", "customer"}
                   /\ \A h \in Handlers : work'[h].at # "known" \/ work'[h] = work[h]
<1>1. ASSUME NEW h \in Handlers, NEW t \in Tickets, Worked(h, t), DeskTypes', WorksOn(h, t),
        work'[h].at = "idle" \/ (work'[h].ticket = t /\ work'[h].at # "known"),
             t \notin entangled' => (WorksOn(h, t)' => InHand(h, t)') /\ (~WorksOn(h, t)' =>
                  tickets'[t] = Support!NoRow \/ Settled(t)')
      PROVE  Goal
  <2>1. TicketsInv'
    <3> SUFFICES ASSUME NEW u \in Tickets \ entangled' PROVE TicketOf(u)'
      BY DEF TicketsInv
    <3>1. CASE u # t
      BY <1>1, <3>1, WorkedElsewhere DEF WorksOn
    <3>2. CASE u = t
      BY <1>1, <3>2, LoneRequest DEF TicketsInv, Worked
    <3> QED BY <3>1, <3>2
  <2> QED BY <1>1, <2>1 DEF Worked
<1>2. ASSUME NEW h \in Handlers, NEW t \in Tickets, WorksOn(h, t)
        PROVE t \in entangled \/ (InHand(h, t) /\ tickets[t] # Support!NoRow)
  BY <1>2 DEF TicketsInv, TicketOf, InHand
<1>3. ASSUME NEW h \in Handlers, Support!FirstMessage(h) PROVE Goal
  <2>1. PICK t \in Tickets : work[h].at = "inserted" /\ work[h].ticket = t /\ WorksOn(h, t)
    BY <1>3 DEF Support!FirstMessage, Support!At, DeskTypes, OpeningStep, WritingStep, OtherStep,
         WorksOn
  <2>2. CASE tickets[t] = Support!NoRow
    <3>1. DeskTypes' /\ Worked(h, t) /\ (work'[h].at = "idle" \/ work'[h].ticket = t) /\ t \in entangled
            /\ t \in entangled'
      BY <1>2, <1>3, <2>1, <2>2, OnMissing DEF Worked
    <3>2. work'[h].at # "known"
      BY <1>3 DEF Support!FirstMessage, Support!Become, Support!Idle, DeskTypes
    <3> QED BY <1>1, <2>1, <3>1, <3>2
  <2>3. CASE tickets[t] # Support!NoRow
    <3> HIDE DEF Goal
    <3>1. /\ DeskTypes' /\ Worked(h, t)
          /\ \/ work'[h].at = "idle" /\ Appended(t, "customer")
             \/ work'[h].at = "empty" /\ work'[h].ticket = t /\ tickets' = tickets
                  /\ entangled' = entangled
      BY <1>3, <2>1, <2>3, FirstMessages
    <3>2. ASSUME t \notin entangled' PROVE (WorksOn(h, t)' => InHand(h, t)') /\ (~WorksOn(h, t)' =>
            tickets'[t] = Support!NoRow \/ Settled(t)')
      <4>1. tickets[t].thread = <<>> /\ tickets[t].status = "open"
        BY <1>2, <2>1, <3>1, <3>2 DEF InHand, Worked
      <4>2. CASE work'[h].at = "idle" /\ Appended(t, "customer")
        <5>1. ~WorksOn(h, t)'
          BY <4>2 DEF WorksOn
        <5>2. Settled(t)'
          BY <4>1, <4>2 DEF Settled, Appended, LastSaid
        <5> QED BY <5>1, <5>2
      <4>3. CASE work'[h].at = "empty" /\ work'[h].ticket = t /\ tickets' = tickets
        BY <4>1, <4>3, <2>3 DEF WorksOn, InHand
      <4> QED BY <3>1, <4>2, <4>3
    <3> QED BY <1>1, <2>1, <3>1, <3>2
  <2> QED BY <2>2, <2>3
<1>4. ASSUME NEW h \in Handlers, Support!TakeBack(h) PROVE Goal
  <2> HIDE DEF Goal
  <2>1. PICK t \in Tickets : work[h].at = "empty" /\ work[h].ticket = t /\ WorksOn(h, t)
    BY <1>4 DEF Support!TakeBack, Support!At, DeskTypes, OpeningStep, WritingStep, OtherStep, WorksOn
  <2>2. DeskTypes' /\ Worked(h, t) /\ work'[h].at = "idle"
          /\ (tickets'[t] = Support!NoRow \/ t \in entangled')
    BY <1>4, <2>1, TakesBack
  <2>3. ~WorksOn(h, t)'
    BY <2>2 DEF WorksOn
  <2> QED BY <1>1, <2>1, <2>2, <2>3
<1>5. ASSUME NEW h \in Handlers, Support!InsertMessage(h) PROVE Goal
  <2> HIDE DEF Goal
  <2>1. PICK t \in Tickets : work[h].at = "found" /\ work[h].ticket = t /\ WorksOn(h, t)
    BY <1>5 DEF Support!InsertMessage, Support!At, DeskTypes, OpeningStep, WritingStep, OtherStep,
         WorksOn
  <2>2. CASE tickets[t] = Support!NoRow
    <3>1. DeskTypes' /\ Worked(h, t) /\ t \in entangled /\ t \in entangled'
      BY <1>2, <1>5, <2>1, <2>2, OnMissing DEF Worked
    <3>2. work'[h].at = "idle"
      BY <1>5, <2>1, <2>2 DEF Support!InsertMessage, Support!Become, Support!Idle, Support!Exists,
           DeskTypes
    <3> QED BY <1>1, <2>1, <3>1, <3>2
  <2>3. CASE tickets[t] # Support!NoRow
    <3>1. /\ DeskTypes' /\ Worked(h, t) /\ entangled' = entangled
          /\ work'[h].at = "written" /\ work'[h].ticket = t /\ Appended(t, work'[h].who)
      BY <1>5, <2>1, <2>3, MessagesIn
    <3>2. InHand(h, t)' /\ WorksOn(h, t)'
      BY <3>1 DEF InHand, WorksOn, Appended, LastSaid
    <3> QED BY <1>1, <2>1, <3>1, <3>2
  <2> QED BY <2>2, <2>3
<1>6. ASSUME NEW h \in Handlers, Support!SetStatus(h) PROVE Goal
  <2> HIDE DEF Goal
  <2>1. PICK t \in Tickets : work[h].at = "written" /\ work[h].ticket = t /\ WorksOn(h, t)
    BY <1>6 DEF Support!SetStatus, Support!At, DeskTypes, OpeningStep, WritingStep, OtherStep, WorksOn
  <2>2. CASE tickets[t] = Support!NoRow
    <3>1. DeskTypes' /\ Worked(h, t) /\ t \in entangled /\ t \in entangled'
      BY <1>2, <1>6, <2>1, <2>2, OnMissing DEF Worked
    <3>2. work'[h].at = "idle"
      BY <1>6 DEF Support!SetStatus, Support!Become, Support!Idle, DeskTypes
    <3> QED BY <1>1, <2>1, <3>1, <3>2
  <2>3. CASE tickets[t] # Support!NoRow
    <3>1. /\ DeskTypes' /\ Worked(h, t) /\ work'[h].at = "idle"
          /\ \/ t \in entangled'
             \/ /\ tickets'[t] # Support!NoRow /\ tickets'[t].thread = tickets[t].thread
                /\ tickets'[t].status = IF work[h].who = "support" THEN "answered" ELSE "open"
      BY <1>6, <2>1, <2>3, StatusSet
    <3>2. ~WorksOn(h, t)'
      BY <3>1 DEF WorksOn
    <3>3. ASSUME t \notin entangled' PROVE Settled(t)'
      <4>1. tickets[t].thread # <<>> /\ LastSaid(t) = work[h].who
        BY <1>2, <2>1, <3>1, <3>3 DEF InHand, Worked
      <4> QED BY <3>1, <3>3, <4>1 DEF Settled, LastSaid
    <3> QED BY <1>1, <2>1, <3>1, <3>2, <3>3
  <2> QED BY <2>2, <2>3
<1>7. ASSUME NEW h \in Handlers, NEW t \in Tickets, Support!InsertTicket(h, t) PROVE Goal
  <2>1. TicketsInv'
    <3> SUFFICES ASSUME NEW u \in Tickets \ entangled' PROVE TicketOf(u)'
      BY DEF TicketsInv
    <3>0. TicketOf(u)
      BY <1>7, TicketInserted DEF TicketsInv
    <3>1. CASE u # t
      <4>1. \A g \in Handlers : (WorksOn(g, u)' => WorksOn(g, u)) /\ (WorksOn(g, u) =>
              work'[g] = work[g])
        BY <1>7, <3>1, TicketInserted DEF WorksOn
      <4> QED BY <1>7, <3>0, <3>1, <4>1, TicketInserted, Untouched
    <3>2. CASE u = t
      <4>1. \A g \in Handlers : ~WorksOn(g, t)
        BY <1>7, <3>0, <3>2, TicketInserted DEF TicketOf, InHand
      <4>2. \A g \in Handlers : WorksOn(g, t)' => g = h
        BY <1>7, <4>1, TicketInserted DEF WorksOn
      <4>3. WorksOn(h, t)' /\ InHand(h, t)'
        BY <1>7, TicketInserted DEF WorksOn, InHand
      <4> QED BY <3>2, <4>2, <4>3 DEF TicketOf, Unattended
    <3> QED BY <3>1, <3>2
  <2> QED BY <1>7, <2>1, TicketInserted
<1>8. ASSUME NEW h \in Handlers, NEW t \in Tickets, NEW who \in {"customer", "support"},
        Support!Find(h, t, who) PROVE Goal
  <2>1. TicketsInv'
    <3> SUFFICES ASSUME NEW u \in Tickets \ entangled' PROVE TicketOf(u)'
      BY DEF TicketsInv
    <3>0. TicketOf(u)
      BY <1>8, TicketFound DEF TicketsInv
    <3>1. CASE u # t
      <4>1. \A g \in Handlers : (WorksOn(g, u)' => WorksOn(g, u)) /\ (WorksOn(g, u) =>
              work'[g] = work[g])
        BY <1>8, <3>1, TicketFound DEF WorksOn
      <4> QED BY <1>8, <3>0, <3>1, <4>1, TicketFound, Untouched
    <3>2. CASE u = t
      <4>1. Unattended(t) /\ tickets'[t] = tickets[t] /\ tickets[t] # Support!NoRow
        BY <1>8, <3>2, TicketFound
      <4>2. Settled(t)
        BY <3>0, <3>2, <4>1 DEF TicketOf
      <4>3. \A g \in Handlers : WorksOn(g, t)' => g = h
        BY <1>8, <4>1, TicketFound DEF WorksOn, Unattended
      <4>4. WorksOn(h, t)' /\ InHand(h, t)'
        BY <1>8, <4>1, <4>2, TicketFound DEF WorksOn, InHand, Settled, LastSaid
      <4> QED BY <3>2, <4>3, <4>4 DEF TicketOf, Unattended
    <3> QED BY <3>1, <3>2
  <2> QED BY <1>8, <2>1, TicketFound
<1>9. ASSUME NEW t \in Tickets, NEW status \in Support!Status, Support!Set(t, status) PROVE Goal
  <2>1. TicketsInv'
    <3> SUFFICES ASSUME NEW u \in Tickets \ entangled' PROVE TicketOf(u)'
      BY DEF TicketsInv
    <3>0. TicketOf(u) /\ \A g \in Handlers : WorksOn(g, u)' <=> WorksOn(g, u)
      BY <1>9, TicketSet DEF TicketsInv, WorksOn
    <3>1. CASE u # t
      <4>1. \A g \in Handlers : (WorksOn(g, u)' => WorksOn(g, u)) /\ (WorksOn(g, u) =>
              work'[g] = work[g])
        BY <1>9, <3>0, TicketSet
      <4> QED BY <1>9, <3>0, <3>1, <4>1, TicketSet, Untouched
    <3>2. CASE u = t
      <4>1. Unattended(t) /\ Settled(t)
        BY <1>9, <3>0, <3>2, TicketSet DEF TicketOf
      <4>2. Settled(t)' /\ \A g \in Handlers : ~WorksOn(g, t)'
        BY <1>9, <3>0, <3>2, <4>1, TicketSet DEF Settled, Unattended
      <4> QED BY <3>2, <4>2 DEF TicketOf, Unattended
    <3> QED BY <3>1, <3>2
  <2> QED BY <1>9, <2>1, TicketSet
<1> QED BY <1>3, <1>4, <1>5, <1>6, <1>7, <1>8, <1>9 DEF TicketSteps

LEMMA EndedKeeps ==
  ASSUME DeskTypes, TicketsInv, NEW h \in Handlers, Support!Ended(h)
  PROVE  DeskTypes' /\ TicketsInv' /\ UNCHANGED <<subscriber, clicked, raced, mail>>
       /\ \A g \in Handlers : work'[g].at = "idle" \/ work'[g] = work[g]
<1>1. Support!Idle \in OtherStep /\ Support!Idle.at = "idle"
  BY DEF Support!Idle, OtherStep
<1>2. /\ work' = [work EXCEPT ![h] = Support!Idle] /\ UNCHANGED <<subscriber, clicked, raced, mail,
           tickets>>
      /\ entangled' = entangled \cup { t \in Tickets : h \in Support!OnTicket(t) }
  BY DEF Support!Ended, Support!Become
<1>3. work' \in [Handlers -> OpeningStep \cup WritingStep \cup OtherStep] /\ work'[h].at = "idle"
        /\ \A g \in Handlers \ {h} : work'[g] = work[g]
  BY <1>1, <1>2 DEF DeskTypes
<1>4. DeskTypes'
  BY <1>2, <1>3 DEF DeskTypes
<1>5. ASSUME NEW u \in Tickets \ entangled' PROVE TicketOf(u)'
  <2>1. TicketOf(u) /\ ~WorksOn(h, u)
    BY <1>2, <1>5, OnIs DEF TicketsInv
  <2>2. \A g \in Handlers : (WorksOn(g, u)' => WorksOn(g, u)) /\ (WorksOn(g, u) => work'[g] = work[g])
    BY <1>3, <2>1 DEF WorksOn
  <2> QED BY <1>2, <2>1, <2>2, Untouched
<1> QED BY <1>2, <1>3, <1>4, <1>5 DEF TicketsInv

LEMMA ElsewhereKeeps ==
  ASSUME DeskTypes, TicketsInv, Elsewhere
  PROVE  TicketsInv'
<1> SUFFICES ASSUME NEW u \in Tickets \ entangled' PROVE TicketOf(u)'
  BY DEF TicketsInv
<1>1. ASSUME NEW g \in Handlers PROVE (WorksOn(g, u)' => WorksOn(g, u)) /\ (WorksOn(g, u) =>
        work'[g] = work[g])
  <2>1. CASE work'[g] = work[g]
    BY <2>1 DEF WorksOn
  <2>2. CASE work[g] \in OtherStep /\ work'[g] \in OtherStep
    BY <2>2 DEF WorksOn, OtherStep
  <2> QED BY <2>1, <2>2, ElsewhereDoes
<1>2. TicketOf(u) /\ tickets'[u] = tickets[u]
  BY ElsewhereDoes DEF TicketsInv
<1> QED BY <1>1, <1>2, Untouched

LEMMA ListKept ==
  ASSUME DeskInv, [Support!Next]_(Support!vars)
  PROVE  ListInv'
<1>0. DeskTypes /\ TicketsInv /\ ListInv
  BY DEF DeskInv
<1>1. ASSUME UNCHANGED <<subscriber, clicked, raced>>, mail' \subseteq mail \cup {"operator",
        "customer"},
             \A h \in Handlers : work'[h].at # "known" \/ work'[h].at = work[h].at
      PROVE  ListInv'
  BY <1>0, <1>1 DEF ListInv
<1>2. CASE UNCHANGED Support!vars
  BY <1>1, <1>2 DEF Support!vars
<1>3. CASE TicketSteps
  BY <1>0, <1>1, <1>3, TicketStepsKeep
<1>4. ASSUME NEW h \in Handlers, Support!Ended(h) PROVE ListInv'
  BY <1>0, <1>1, <1>4, EndedKeeps
<1>5. ASSUME NEW h \in Handlers, Support!CountTickets(h) \/ Support!Toggle(h) PROVE ListInv'
  <2>1. UNCHANGED <<subscriber, clicked, raced, mail>>
    BY <1>5 DEF Support!CountTickets, Support!Toggle
  <2>2. \A g \in Handlers : work'[g].at # "known" \/ work'[g].at = work[g].at
    BY <1>0, <1>5 DEF Support!CountTickets, Support!Toggle, Support!Become, Support!Idle, DeskTypes
  <2> QED BY <1>1, <2>1, <2>2
<1>6. ASSUME NEW h \in Handlers, NEW mark \in {"new", "handled"}, Support!ReadMark(h, mark)
        PROVE ListInv'
  <2>1. UNCHANGED <<subscriber, clicked, raced, mail>>
    BY <1>6 DEF Support!ReadMark
  <2>2. \A g \in Handlers : work'[g].at # "known" \/ work'[g].at = work[g].at
    BY <1>0, <1>6 DEF Support!ReadMark, Support!Become, DeskTypes
  <2> QED BY <1>1, <2>1, <2>2
<1>7. ASSUME Support!Contact \/ \E mark \in {"new", "handled"} : Support!DeleteMessage(mark)
        PROVE ListInv'
  <2>1. UNCHANGED <<subscriber, clicked, raced, work>>
    BY <1>7 DEF Support!Contact, Support!DeleteMessage
  <2>2. mail' \subseteq mail \cup {"operator", "customer"}
    BY <1>7, Noticed DEF Support!Contact, Support!DeleteMessage
  <2> QED BY <1>1, <2>1, <2>2
<1>8. ASSUME NEW h \in Handlers, Support!SignUp(h) PROVE ListInv'
  <2>1. UNCHANGED <<subscriber, clicked, raced, mail>>
    BY <1>8 DEF Support!SignUp
  <2>2. CASE UNCHANGED work
    BY <1>1, <2>1, <2>2
  <2>3. CASE work' = [work EXCEPT ![h] = [at |-> "new"]]
    BY <1>0, <1>1, <2>1, <2>3 DEF DeskTypes
  <2>4. CASE work' = [work EXCEPT ![h] = [at |-> "known"]] /\ subscriber # Support!NoRow
          /\ ~subscriber.confirmed
    <3>1. subscriber.confirmed = FALSE
      BY <1>0, <2>4 DEF DeskTypes
    <3> QED BY <1>0, <2>1, <2>4, <3>1 DEF ListInv, DeskTypes
  <2> QED BY <1>8, <2>2, <2>3, <2>4 DEF Support!SignUp, Support!Become
<1>9. ASSUME NEW h \in Handlers, Support!InsertSubscriber(h) PROVE ListInv'
  <2>1. UNCHANGED <<clicked, raced>> /\ work' = [work EXCEPT ![h] = [at |-> "idle"]]
    BY <1>9 DEF Support!InsertSubscriber, Support!Become, Support!Idle
  <2>2. \A g \in Handlers : work'[g].at # "known" \/ work'[g].at = work[g].at
    BY <1>0, <2>1 DEF DeskTypes
  <2>3. CASE UNCHANGED <<subscriber, mail>>
    BY <1>1, <2>1, <2>2, <2>3
  <2>4. CASE subscriber = Support!NoRow /\ subscriber' = [status |-> "row", confirmed |-> FALSE,
          left |-> FALSE]
    <3>1. subscriber' # Support!NoRow
      BY <2>4 DEF Support!NoRow
    <3>2. clicked = "none"
      BY <1>0, <2>4 DEF ListInv
    <3> QED BY <2>1, <3>1, <3>2 DEF ListInv
  <2> QED BY <1>9, <2>3, <2>4 DEF Support!InsertSubscriber
<1>10. ASSUME NEW h \in Handlers, Support!ClearStamp(h) PROVE ListInv'
  <2>1. UNCHANGED <<clicked, raced>> /\ work' = [work EXCEPT ![h] = [at |-> "idle"]]
          /\ subscriber' = [subscriber EXCEPT !.left = FALSE] /\ work[h].at = "known"
    BY <1>10 DEF Support!ClearStamp, Support!Become, Support!Idle, Support!At
  <2>2. \A g \in Handlers : work'[g].at # "known" \/ work'[g].at = work[g].at
    BY <1>0, <2>1 DEF DeskTypes
  <2>3. subscriber # Support!NoRow
    BY <1>0, <2>1 DEF ListInv
  <2>4. subscriber'.confirmed = subscriber.confirmed /\ subscriber' # Support!NoRow
    BY <1>0, <2>1, <2>3 DEF DeskTypes, Support!NoRow
  <2> QED BY <1>0, <2>1, <2>2, <2>4 DEF ListInv
<1>11. ASSUME Support!Confirm PROVE ListInv'
  <2>1. UNCHANGED <<mail, work>> /\ clicked' = "confirm"
          /\ subscriber' = [subscriber EXCEPT !.confirmed = TRUE, !.left = FALSE] /\ "links" \in mail
    BY <1>11 DEF Support!Confirm
  <2>2. subscriber # Support!NoRow
    BY <1>0, <2>1 DEF ListInv
  <2>3. subscriber' # Support!NoRow
    BY <1>0, <2>1, <2>2 DEF DeskTypes, Support!NoRow
  <2> QED BY <2>1, <2>3 DEF ListInv
<1>12. ASSUME Support!Unsubscribe PROVE ListInv'
  <2>1. UNCHANGED <<mail, work>> /\ clicked' = "leave"
          /\ subscriber' = [subscriber EXCEPT !.left = TRUE] /\ "links" \in mail
               /\ raced' = (raced \/ Support!Forms # {})
    BY <1>12 DEF Support!Unsubscribe
  <2>2. subscriber # Support!NoRow
    BY <1>0, <2>1 DEF ListInv
  <2>3. subscriber' # Support!NoRow /\ subscriber'.left = TRUE
    BY <1>0, <2>1, <2>2 DEF DeskTypes, Support!NoRow
  <2>4. raced' = FALSE => \A h \in Handlers : work[h].at # "known"
    BY <2>1 DEF Support!Forms
  <2> QED BY <2>1, <2>3, <2>4 DEF ListInv
<1> QED BY <1>2, <1>3, <1>4, <1>5, <1>6, <1>7, <1>8, <1>9, <1>10, <1>11, <1>12, DeskCases DEF Elsewhere

LEMMA DeskKept == ASSUME DeskInv, [Support!Next]_(Support!vars) PROVE DeskInv'
<1>0. DeskTypes /\ TicketsInv
  BY DEF DeskInv
<1>1. CASE UNCHANGED Support!vars
  <2>1. DeskTypes'
    BY <1>0, <1>1 DEF Support!vars, DeskTypes
  <2>2. TicketsInv'
    <3> SUFFICES ASSUME NEW u \in Tickets \ entangled' PROVE TicketOf(u)'
      BY DEF TicketsInv
    <3> QED BY <1>0, <1>1, Untouched DEF Support!vars, TicketsInv, WorksOn
  <2> QED BY <2>1, <2>2, ListKept DEF DeskInv
<1>2. CASE TicketSteps
  BY <1>0, <1>2, TicketStepsKeep, ListKept DEF DeskInv
<1>3. CASE Elsewhere
  BY <1>0, <1>3, ElsewhereDoes, ElsewhereKeeps, ListKept DEF DeskInv
<1>4. CASE \E h \in Handlers : Support!Ended(h)
  BY <1>0, <1>4, EndedKeeps, ListKept DEF DeskInv
<1> QED BY <1>1, <1>2, <1>3, <1>4, DeskCases

\* The part runs in behaviours of its own.
DeskHolds == scene = "desk" => DeskInv

\* The invariant holds at first, and every step keeps it.
LEMMA DeskStart == ASSUME Support!Init PROVE DeskInv
<1>1. DeskTypes
  <2>1. Support!Idle \in OtherStep
    BY DEF Support!Idle, OtherStep
  <2> QED BY <2>1 DEF Support!Init, DeskTypes
<1>2. (\A h \in Handlers : work[h].at = "idle") /\ (\A t \in Tickets : tickets[t] = Support!NoRow)
        /\ clicked = "none" /\ mail = {}
  BY DEF Support!Init, Support!Idle
<1>3. TicketsInv
  BY <1>2 DEF TicketsInv, TicketOf, WorksOn
<1>4. ListInv
  BY <1>2 DEF ListInv
<1> QED BY <1>1, <1>3, <1>4 DEF DeskInv

LEMMA DeskAlways == SceneSpec => []DeskHolds
<1>1. SceneInit => DeskHolds
  BY DeskStart DEF SceneInit, DeskHolds
<1>2. DeskHolds /\ [SceneNext]_sceneVars => DeskHolds'
  <2> SUFFICES ASSUME DeskHolds, [SceneNext]_sceneVars, scene' = "desk" PROVE DeskInv'
    BY DEF DeskHolds
  <2>1. scene = "desk" /\ [Support!Next]_(Support!vars)
    BY DEF SceneNext, sceneVars, DeskOnly, Support!vars
  <2> QED BY <2>1, DeskKept DEF DeskHolds
<1> QED BY <1>1, <1>2, PTL DEF SceneSpec

\* A ticket nobody works on is answered only if support spoke last, and none is left empty, unless
\* two requests crossed on it or a write was lost; and whoever left the newsletter stays left
\* unless a form was in flight at the click: for any tickets and requests (lib/support.ts,
\* api/newsletter).
THEOREM NobodyIsForgotten == SceneSpec => []NobodyForgotten
<1>1. DeskHolds => NobodyForgotten
  <2> SUFFICES ASSUME DeskInv PROVE Support!NobodyForgotten /\ Support!NoEmptyTicket
          /\ Support!LeftStaysLeft
    BY DEF DeskHolds, NobodyForgotten
  <2>1. ASSUME NEW t \in Tickets \ entangled, Support!OnTicket(t) = {}, tickets[t] # Support!NoRow
          PROVE Settled(t)
    BY <2>1, OnIs DEF DeskInv, TicketsInv, TicketOf, Unattended
  <2>2. Support!NobodyForgotten
    BY <2>1 DEF Support!NobodyForgotten, Support!Exists, Settled, LastSaid, Support!Last
  <2>3. Support!NoEmptyTicket
    BY <2>1 DEF Support!NoEmptyTicket, Support!Exists, Settled
  <2>4. Support!LeftStaysLeft
    BY DEF DeskInv, DeskTypes, ListInv, Support!LeftStaysLeft
  <2> QED BY <2>2, <2>3, <2>4
<1> QED BY <1>1, DeskAlways, PTL

-----------------------------------------------------------------------------
(* Dashboard: what the screen shows is what was asked and what was bought. *)
(* Answers come back in any order; the screen keeps the last one asked.    *)

\* The instance counts as the standard module does.
LEMMA ScreenCount == \A S : Screen!Cardinality(S) = Cardinality(S)
BY Zenon DEF Screen!Cardinality, Cardinality

\* A set of numbers has a smallest.
Below == { p \in Nat \X Nat : p[1] < p[2] }

\* It is well-founded,
LEMMA BelowWellFounded == IsWellFoundedOn(Below, Nat)
<1>1. Below = OpToRel(<, Nat)
  BY DEF Below, OpToRel
<1> QED BY <1>1, NatLessThanWellFounded

\* so there is a smallest number of a set.
LEMMA Smallest ==
  ASSUME NEW T \in SUBSET Nat, T # {}
  PROVE  \E x \in T : \A y \in T : x <= y
<1>1. PICK x \in T : \A y \in T : <<y, x>> \notin Below
  BY BelowWellFounded, WFMin, Zenon
<1>2. \A y \in T : ~(y < x)
  <2> TAKE y \in T
  <2>1. <<y, x>> \in Nat \X Nat
    BY <1>1
  <2> QED BY <1>1, <2>1 DEF Below
<1> QED BY <1>1, <1>2

\* The numbers of a set up to one of them.
UpTo(S, m) == {j \in S : j <= m}

\* A set of numbers has a first, a second, and so on.
LEMMA NthExists ==
  ASSUME NEW n \in Nat, NEW S \in SUBSET (1..n), NEW k \in 1..Cardinality(S)
  PROVE  \E i \in S : Cardinality({j \in S : j <= i}) = k
<1> DEFINE T == {m \in Nat : Cardinality(UpTo(S, m)) >= k}
<1>0. IsFiniteSet(S)
  <2>1. IsFiniteSet(1..n)
    BY FS_Interval
  <2> QED BY <2>1, FS_Subset
<1>1. Cardinality(S) \in Nat /\ S # {}
  BY <1>0, FS_CardinalityType, FS_EmptySet
<1>2. \A m \in Nat : IsFiniteSet(UpTo(S, m)) /\ Cardinality(UpTo(S, m)) \in Nat
  <2> TAKE m \in Nat
  <2>1. UpTo(S, m) \in SUBSET S
    BY DEF UpTo
  <2> QED BY <1>0, <2>1, FS_Subset, FS_CardinalityType
<1>3. \E m \in Nat : UpTo(S, m) = S
  <2>1. UpTo(S, n) = S
    <3>1. \A j \in S : j \in Nat /\ j <= n
      OBVIOUS
    <3> QED BY <3>1, Zenon DEF UpTo
  <2> QED BY <2>1
<1>4. PICK m \in T : \A y \in T : m <= y
  <2>1. T # {}
    BY <1>3, <1>1
  <2> QED BY <2>1, Smallest, Zenon
<1>5. m # 0
  <2> SUFFICES ASSUME m = 0 PROVE FALSE
    OBVIOUS
  <2>1. \A j \in S : j \in Nat /\ j > 0
    OBVIOUS
  <2>2. UpTo(S, 0) = {}
    <3>1. \A j \in S : ~(j <= 0)
      BY <2>1
    <3> QED BY <3>1 DEF UpTo
  <2>3. Cardinality(UpTo(S, m)) = 0 /\ Cardinality(UpTo(S, m)) >= k
    BY <2>2, <1>4, FS_EmptySet
  <2> QED BY <2>3
<1>6. m - 1 \in Nat /\ m - 1 \notin T
  BY <1>4, <1>5
<1>7. Cardinality(UpTo(S, m - 1)) < k /\ Cardinality(UpTo(S, m)) >= k
  BY <1>4, <1>6, <1>2
<1>8. UpTo(S, m) = UpTo(S, m - 1) \cup (S \cap {m})
  <2>1. \A j \in S : j \in Nat
    OBVIOUS
  <2>2. \A j \in Nat : j <= m <=> j <= m - 1 \/ j = m
    BY <1>4, <1>6
  <2> HIDE DEF T
  <2> QED BY <2>1, <2>2 DEF UpTo
<1>9. m \in S
  <2> SUFFICES ASSUME m \notin S PROVE FALSE
    OBVIOUS
  <2>1. UpTo(S, m) = UpTo(S, m - 1)
    BY <1>8
  <2> QED BY <2>1, <1>7, <1>6, <1>2
<1>10. UpTo(S, m) = UpTo(S, m - 1) \cup {m}
  BY <1>8, <1>9
<1>11. Cardinality(UpTo(S, m)) <= Cardinality(UpTo(S, m - 1)) + 1
  <2>1. IsFiniteSet(UpTo(S, m - 1)) /\ Cardinality(UpTo(S, m - 1)) \in Nat
    BY <1>6, <1>2, Zenon
  <2> HIDE DEF T
  <2>2. Cardinality(UpTo(S, m - 1) \cup {m}) <= Cardinality(UpTo(S, m - 1)) + 1
    <3>1. Cardinality(UpTo(S, m - 1) \cup {m}) = IF m \in UpTo(S, m - 1)
            THEN Cardinality(UpTo(S, m - 1)) ELSE Cardinality(UpTo(S, m - 1)) + 1
      BY <2>1, FS_AddElement, Zenon
    <3> QED BY <2>1, <3>1
  <2> QED BY <1>10, <2>2
<1> HIDE DEF T
<1>12. Cardinality(UpTo(S, m)) = k
  BY <1>11, <1>7, <1>6, <1>4, <1>2 DEF T
<1> QED BY <1>9, <1>12 DEF UpTo

\* Appending what is not shown yet shows nothing twice, and nothing that was not answered.
LEMMA FreshKeeps ==
  ASSUME NEW old \in Seq(Leads), NEW new \in Seq(Leads), Screen!IsInjective(old),
       Screen!IsInjective(new)
  PROVE  /\ Screen!Fresh(old, new) \in Seq(Leads) /\ Screen!IsInjective(Screen!Fresh(old, new))
         /\ Screen!ToSet(Screen!Fresh(old, new)) \subseteq Screen!ToSet(old) \cup Screen!ToSet(new)
<1> DEFINE kept == {i \in DOMAIN new : new[i] \notin Screen!ToSet(old)}
           c == Cardinality(kept)
           rest == [k \in 1..c |-> new[Screen!Nth(kept, k)]]
<1>1. kept \in SUBSET (1..Len(new)) /\ Len(new) \in Nat
  OBVIOUS
<1>2. c \in Nat
  <2>1. IsFiniteSet(1..Len(new))
    BY FS_Interval
  <2>2. IsFiniteSet(kept)
    BY <1>1, <2>1, FS_Subset
  <2> QED BY <2>2, FS_CardinalityType
<1>3. Screen!Fresh(old, new) = old \o rest
  BY ScreenCount DEF Screen!Fresh
<1>4. \A k \in 1..c : Screen!Nth(kept, k) \in kept /\ Cardinality({j \in kept : j <= Screen!Nth(kept,
        k)}) = k
  <2> HIDE DEF kept
  <2> TAKE k \in 1..c
  <2>1. \E i \in kept : Cardinality({j \in kept : j <= i}) = k
    BY <1>1, NthExists
  <2>2. \E i \in kept : Screen!Cardinality({j \in kept : j <= i}) = k
    BY <2>1, ScreenCount
  <2>3. Screen!Nth(kept, k) \in kept /\ Screen!Cardinality({j \in kept : j <= Screen!Nth(kept, k)}) = k
    BY <2>2 DEF Screen!Nth
  <2> QED BY <2>3, ScreenCount
<1>5. \A k, l \in 1..c : Screen!Nth(kept, k) = Screen!Nth(kept, l) => k = l
  <2> HIDE DEF kept
  <2> QED BY <1>4
<1>6. \A k \in 1..c : rest[k] \in Leads /\ rest[k] \notin Screen!ToSet(old)
        /\ rest[k] \in Screen!ToSet(new)
  <2> TAKE k \in 1..c
  <2>1. Screen!Nth(kept, k) \in kept
    BY <1>4
  <2>2. rest[k] = new[Screen!Nth(kept, k)] /\ Screen!Nth(kept, k) \in DOMAIN new
    BY <2>1
  <2> HIDE DEF rest, c
  <2>3. new[Screen!Nth(kept, k)] \notin Screen!ToSet(old)
    BY <2>1
  <2> HIDE DEF kept
  <2>4. new[Screen!Nth(kept, k)] \in Screen!ToSet(new)
    BY <2>2 DEF Screen!ToSet
  <2>5. new[Screen!Nth(kept, k)] \in Leads
    BY <2>2
  <2> QED BY <2>2, <2>3, <2>4, <2>5
<1>7. \A k, l \in 1..c : rest[k] = rest[l] => k = l
  <2> TAKE k, l \in 1..c
  <2>1. Screen!Nth(kept, k) \in DOMAIN new /\ Screen!Nth(kept, l) \in DOMAIN new
    BY <1>4
  <2> QED BY <2>1, <1>5 DEF Screen!IsInjective
<1>8. rest \in Seq(Leads) /\ Len(rest) = c /\ DOMAIN rest = 1..c
  <2>1. rest \in [1..c -> Leads]
    BY <1>6
  <2> HIDE DEF rest, c
  <2> QED BY <2>1, <1>2
<1> HIDE DEF rest, c, kept
<1> DEFINE whole == old \o rest
<1>9. /\ whole \in Seq(Leads) /\ DOMAIN whole = 1..(Len(old) + c)
      /\ \A i \in 1..Len(old) : whole[i] = old[i]
      /\ \A i \in (Len(old) + 1)..(Len(old) + c) : i - Len(old) \in 1..c
           /\ whole[i] = rest[i - Len(old)]
  BY <1>8, <1>2
<1>10. \A i \in 1..Len(old) : old[i] \in Screen!ToSet(old)
  BY DEF Screen!ToSet
<1>11. Len(old) \in Nat
  OBVIOUS
<1> HIDE DEF whole
<1>12. Screen!IsInjective(whole)
  <2> SUFFICES ASSUME NEW a \in DOMAIN whole, NEW b \in DOMAIN whole, whole[a] = whole[b] PROVE a = b
    BY DEF Screen!IsInjective
  <2>1. CASE a \in 1..Len(old) /\ b \in 1..Len(old)
    BY <2>1, <1>9 DEF Screen!IsInjective
  <2>2. CASE a \in (Len(old) + 1)..(Len(old) + c) /\ b \in (Len(old) + 1)..(Len(old) + c)
    <3>1. rest[a - Len(old)] = rest[b - Len(old)] /\ a - Len(old) \in 1..c /\ b - Len(old) \in 1..c
      BY <2>2, <1>9
    <3>2. a - Len(old) = b - Len(old)
      BY <3>1, <1>7
    <3> QED BY <3>2, <2>2, <1>11, <1>2
  <2>3. ~(a \in 1..Len(old) /\ b \in (Len(old) + 1)..(Len(old) + c))
    BY <1>6, <1>9, <1>10
  <2>4. ~(b \in 1..Len(old) /\ a \in (Len(old) + 1)..(Len(old) + c))
    BY <1>6, <1>9, <1>10
  <2> QED BY <2>1, <2>2, <2>3, <2>4, <1>9, <1>11, <1>2
<1>13. Screen!ToSet(whole) \subseteq Screen!ToSet(old) \cup Screen!ToSet(new)
  <2> SUFFICES ASSUME NEW a \in DOMAIN whole PROVE whole[a] \in Screen!ToSet(old) \cup Screen!ToSet(new)
    BY DEF Screen!ToSet
  <2>1. a \in 1..Len(old) \/ a \in (Len(old) + 1)..(Len(old) + c)
    BY <1>9, <1>11, <1>2
  <2> QED BY <2>1, <1>9, <1>6, <1>10
<1> QED BY <1>3, <1>9, <1>12, <1>13 DEF whole

\* A page of an order is of what was found, each once.
LEMMA PageOf ==
  ASSUME NEW q \in Queries, NEW order \in Screen!Ranked(q), NEW from \in Nat
  PROVE  /\ Screen!Page(order, from) \in Seq(Leads) /\ Screen!IsInjective(Screen!Page(order, from))
         /\ Screen!ToSet(Screen!Page(order, from)) \subseteq Found(q)
<1> DEFINE n == Cardinality(Found(q))
           m == Screen!Min({Len(order), from + PageSize})
<1>1. Found(q) \subseteq Leads /\ IsFiniteSet(Found(q)) /\ n \in Nat /\ PageSize \in Nat
  <2>1. Found(q) \subseteq Leads /\ IsFiniteSet(Leads) /\ PageSize \in Nat
    BY ScreenAssumption
  <2>2. IsFiniteSet(Found(q))
    BY <2>1, FS_Subset
  <2> QED BY <2>1, <2>2, FS_CardinalityType
<1>2. order \in [1..n -> Found(q)] /\ \A i, j \in 1..n : i # j => order[i] # order[j]
  BY ScreenCount DEF Screen!Ranked, Screen!SetToSeqs
<1> HIDE DEF n
<1>3. order \in Seq(Found(q)) /\ Len(order) = n
  BY <1>1, <1>2
<1>4. m \in Nat /\ m <= n
  <2>1. \E x \in {Len(order), from + PageSize} : \A y \in {Len(order), from + PageSize} : x <= y
    BY <1>3, <1>1
  <2>2. m \in {Len(order), from + PageSize} /\ \A y \in {Len(order), from + PageSize} : m <= y
    BY <2>1 DEF Screen!Min
  <2> QED BY <2>2, <1>3, <1>1
<1> HIDE DEF m
<1> DEFINE page == SubSeq(order, from + 1, m)
<1>5. Screen!Page(order, from) = page
  BY DEF Screen!Page, m
<1>6. page \in Seq(Found(q)) /\ DOMAIN page = 1..Len(page)
        /\ \A i \in DOMAIN page : page[i] = order[from + i] /\ from + i \in 1..n
  BY <1>1, <1>3, <1>4
<1> HIDE DEF page
<1>7. Screen!IsInjective(page)
  <2> SUFFICES ASSUME NEW a \in DOMAIN page, NEW b \in DOMAIN page, page[a] = page[b] PROVE a = b
    BY DEF Screen!IsInjective
  <2>1. a \in Nat /\ b \in Nat /\ from + a = from + b
    BY <1>6, <1>2
  <2> QED BY <2>1
<1>8. Screen!ToSet(page) \subseteq Found(q) /\ page \in Seq(Leads)
  BY <1>1, <1>6 DEF Screen!ToSet
<1> QED BY <1>5, <1>7, <1>8

\* What a call can carry, by its kind and its place.
Searching == {"search", "page"}
SentSearch == [kind : Searching, at : {"sent"}, q : Queries, watch : Queries \cup {"none"}, from : Nat]
ServedSearch == [kind : Searching, at : {"served"}, q : Queries, leads : Seq(Leads),
     owned : SUBSET Leads,
           credits : SUBSET Int, remaining : Int]
SentSale == [kind : {"unlock", "export", "reveal", "report"}, at : {"sent"}, ids : SUBSET Leads]
SoldLeads == [kind : {"unlock", "export"}, at : {"served"}, ids : SUBSET Leads,
         outcome : {"unverifiable", "insufficient", "sold"}, credits : SUBSET Int]
ToldOwner == [kind : {"reveal", "report"}, at : {"served"}, ids : SUBSET Leads, credits : SUBSET Int]
CallRecord == {Screen!Free} \cup SentSearch \cup ServedSearch \cup SentSale \cup SoldLeads \cup ToldOwner

\* Type invariant of the screen.
ScreenTypes ==
  /\ form \in Queries /\ watch \in Queries \cup {"none"} /\ last \in Queries \cup {"none"}
  /\ result \in [q : Queries \cup {"none"}, leads : Seq(Leads), remaining : Int]
  /\ call \in [Slots -> CallRecord]
  /\ open \in SUBSET Leads /\ wallet \in Int
  /\ bought \in SUBSET Leads /\ reported \in SUBSET Leads /\ revealed \in SUBSET Leads
  /\ back.seen \in BOOLEAN /\ back.before \in Int /\ back.arrived \in BOOLEAN
  /\ DOMAIN back = {"at", "polls", "seen", "before", "arrived"}
  /\ applied \in BOOLEAN /\ mixed \in BOOLEAN
\* What is shown as owned was bought.
OwnedShown ==
  /\ Screen!ViewMeansOwned
  /\ \A s \in Slots : call[s] \in ServedSearch => call[s].owned \subseteq bought
  /\ \A s \in Slots : call[s] \in SoldLeads /\ call[s].outcome = "sold" =>
       call[s].ids \subseteq bought \cup skipped
\* The checkout is confirmed by the webhook, not by waiting.
CheckoutTrue ==
  reported = {} /\ ~applied => ~back.arrived /\ (back.seen => wallet <= back.before)
\* No answer repeats a lead.
OnceShown ==
  /\ Screen!IsInjective(result.leads)
  /\ \A s \in Slots : call[s] \in ServedSearch =>
       Screen!IsInjective(call[s].leads) /\ Screen!ToSet(call[s].leads) \subseteq Found(call[s].q)
\* A search on its way, either way.
AsksLeads(c) == c \in SentSearch \cup ServedSearch
\* Unless two searches mixed: what is shown and under way is what was asked last.
AsAsked ==
  ~mixed =>
    /\ \A s \in Slots : AsksLeads(call[s]) => call[s].q = last
    /\ result.q = "none" => result.leads = <<>> /\ result.remaining = 0
    /\ result.q # "none" => result.q = last /\ Screen!Shown \subseteq Found(last)
\* The inductive invariant.
ScreenInv == ScreenTypes /\ OwnedShown /\ CheckoutTrue /\ OnceShown /\ AsAsked

\* The kinds of a call tell its shapes apart.
LEMMA KindsShape ==
  ASSUME NEW c \in CallRecord
  PROVE  /\ c.kind \in Searching /\ c.at = "sent" => c \in SentSearch
         /\ c.kind \in Searching /\ c.at = "served" => c \in ServedSearch
         /\ c.kind \in {"unlock", "export", "reveal", "report"} /\ c.at = "sent" => c \in SentSale
         /\ c.kind \in {"unlock", "export"} /\ c.at = "served" => c \in SoldLeads
         /\ c.kind \in {"reveal", "report"} /\ c.at = "served" => c \in ToldOwner
BY DEF CallRecord, Searching, SentSearch, ServedSearch, SentSale, SoldLeads, ToldOwner, Screen!Free

\* An empty slot is none of them.
LEMMA FreeShape == ~AsksLeads(Screen!Free) /\ Screen!Free \notin ServedSearch
     /\ Screen!Free \notin SoldLeads
BY DEF Searching, AsksLeads, Screen!Free, SentSearch, ServedSearch, SoldLeads

\* A call is of one shape.
LEMMA KindsApart ==
  ASSUME NEW c
  PROVE  /\ (c \in SentSearch \/ c \in SentSale \/ c \in ToldOwner) =>
              c \notin ServedSearch /\ c \notin SoldLeads
         /\ (c \in SentSale \/ c \in ToldOwner \/ c \in SoldLeads) => ~AsksLeads(c)
         /\ c \in ServedSearch => c \notin SoldLeads
         /\ c \in SoldLeads => c \notin ServedSearch
BY DEF Searching, SentSearch, ServedSearch, SentSale, SoldLeads, ToldOwner, AsksLeads

\* Some leads can be counted.
LEMMA LeadsFinite ==
  ASSUME NEW S \in SUBSET Leads
  PROVE  Screen!Cardinality(S) \in Nat /\ (S = {} => Screen!Cardinality(S) = 0) /\ IsFiniteSet(S)
<1>1. IsFiniteSet(S)
  BY ScreenAssumption, FS_Subset
<1>2. Cardinality(S) \in Nat /\ Cardinality({}) = 0
  BY <1>1, FS_CardinalityType, FS_EmptySet
<1> QED BY <1>1, <1>2, ScreenCount

\* A step of one slot.
LEMMA SlotReplaced ==
  ASSUME ScreenTypes, NEW s \in Slots, NEW c, call' = [call EXCEPT ![s] = c]
  PROVE  /\ call'[s] = c /\ \A t \in Slots \ {s} : call'[t] = call[t]
         /\ c \in CallRecord => call' \in [Slots -> CallRecord]
BY DEF ScreenTypes

\* The invariant holds at first.
LEMMA ScreenStart == Screen!Init => ScreenInv
<1> SUFFICES ASSUME Screen!Init PROVE ScreenInv
  OBVIOUS
<1> USE DEF Screen!None
<1>1. result = [q |-> "none", leads |-> <<>>, remaining |-> 0] /\ open = {} /\ paidIds = {}
        /\ reported = {}
      /\ bought = {} /\ revealed = {} /\ mixed = FALSE /\ applied = FALSE /\ last = "none"
           /\ watch = "none"
      /\ wallet = Allowance /\ form \in Queries
  BY DEF Screen!Init, Screen!Unseen
<1>2. back.seen = FALSE /\ back.before = 0 /\ back.arrived = FALSE
        /\ DOMAIN back = {"at", "polls", "seen", "before", "arrived"}
  BY DEF Screen!Init, Screen!Idle
<1>3. \A s \in Slots : call[s] = Screen!Free
  BY DEF Screen!Init
<1>4. call \in [Slots -> CallRecord]
  BY DEF Screen!Init, CallRecord
<1>5. ScreenTypes
  <2>1. result \in [q : Queries \cup {"none"}, leads : Seq(Leads), remaining : Int]
    BY <1>1
  <2>2. wallet \in Int
    BY <1>1, ScreenAssumption
  <2> QED BY <1>1, <1>2, <1>4, <2>1, <2>2 DEF ScreenTypes
<1>6. OwnedShown
  BY <1>1, <1>3, FreeShape DEF OwnedShown, Screen!ViewMeansOwned
<1>7. CheckoutTrue
  BY <1>2 DEF CheckoutTrue
<1>8. OnceShown
  <2>1. Screen!IsInjective(<<>>)
    BY DEF Screen!IsInjective
  <2> QED BY <2>1, <1>1, <1>3, FreeShape DEF OnceShown
<1>9. AsAsked
  BY <1>1, <1>3, FreeShape DEF AsAsked
<1> QED BY <1>5, <1>6, <1>7, <1>8, <1>9 DEF ScreenInv

\* A step of one slot keeps what the others hold.
LEMMA SlotOwned ==
  ASSUME ScreenTypes, OwnedShown, NEW s \in Slots, NEW c, call' = [call EXCEPT ![s] = c],
         bought \subseteq bought', skipped \subseteq skipped',
         open' \cup paidIds' \subseteq bought' \cup skipped',
         c \in ServedSearch => c.owned \subseteq bought',
         c \in SoldLeads /\ c.outcome = "sold" => c.ids \subseteq bought' \cup skipped'
  PROVE  OwnedShown'
<1>1. call'[s] = c /\ \A t \in Slots \ {s} : call'[t] = call[t]
  BY SlotReplaced
<1>2. Screen!ViewMeansOwned'
  BY DEF Screen!ViewMeansOwned
<1>3. ASSUME NEW t \in Slots, call'[t] \in ServedSearch PROVE call'[t].owned \subseteq bought'
  BY <1>1, <1>3 DEF OwnedShown
<1>4. ASSUME NEW t \in Slots, call'[t] \in SoldLeads, call'[t].outcome = "sold"
        PROVE call'[t].ids \subseteq bought' \cup skipped'
  BY <1>1, <1>4 DEF OwnedShown
<1> QED BY <1>2, <1>3, <1>4 DEF OwnedShown

LEMMA SlotOnce ==
  ASSUME ScreenTypes, OnceShown, NEW s \in Slots, NEW c, call' = [call EXCEPT ![s] = c],
         Screen!IsInjective(result'.leads),
         c \in ServedSearch => Screen!IsInjective(c.leads) /\ Screen!ToSet(c.leads) \subseteq Found(c.q)
  PROVE  OnceShown'
<1>1. call'[s] = c /\ \A t \in Slots \ {s} : call'[t] = call[t]
  BY SlotReplaced
<1>2. ASSUME NEW t \in Slots, call'[t] \in ServedSearch
      PROVE  Screen!IsInjective(call'[t].leads)
           /\ Screen!ToSet(call'[t].leads) \subseteq Found(call'[t].q)
  BY <1>1, <1>2 DEF OnceShown
<1>3. Screen!IsInjective(result.leads)'
  BY DEF Screen!IsInjective
<1> QED BY <1>2, <1>3 DEF OnceShown, Screen!IsInjective, Screen!ToSet

LEMMA SlotAsked ==
  ASSUME ScreenTypes, AsAsked, NEW s \in Slots, NEW c, call' = [call EXCEPT ![s] = c],
         last' = last, result' = result, mixed' = mixed,
         ~mixed /\ AsksLeads(c) => c.q = last
  PROVE  AsAsked'
<1>1. call'[s] = c /\ \A t \in Slots \ {s} : call'[t] = call[t]
  BY SlotReplaced
<1>2. Screen!Shown' = Screen!Shown
  BY DEF Screen!Shown, Screen!ToSet
<1>3. ASSUME ~mixed, NEW t \in Slots, AsksLeads(call'[t]) PROVE call'[t].q = last
  BY <1>1, <1>3 DEF AsAsked
<1>4. \A t \in Slots : AsksLeads(call[t])' = AsksLeads(call'[t])
  BY DEF AsksLeads, SentSearch, ServedSearch
<1> QED BY <1>2, <1>3, <1>4 DEF AsAsked

\* The form is filled in.
LEMMA TypeKeeps ==
  ASSUME ScreenInv, NEW q \in Queries, Screen!Type(q)
  PROVE  ScreenInv'
<1> USE DEF ScreenInv, Screen!Type, Screen!server
<1>1. ScreenTypes'
  BY DEF ScreenTypes
<1>2. OwnedShown'
  BY DEF OwnedShown, Screen!ViewMeansOwned
<1>3. CheckoutTrue'
  BY DEF CheckoutTrue
<1>4. OnceShown'
  BY DEF OnceShown, Screen!IsInjective, Screen!ToSet
<1>5. AsAsked'
  BY DEF AsAsked, Screen!Shown, Screen!ToSet, AsksLeads
<1> QED BY <1>1, <1>2, <1>3, <1>4, <1>5

\* A search is run.
LEMMA RunKeeps ==
  ASSUME ScreenInv, NEW s \in Slots, NEW q \in Queries, NEW w \in Queries \cup {"none"},
       Screen!run(s, q, w)
  PROVE  ScreenInv'
<1> DEFINE c == [kind |-> "search", at |-> "sent", q |-> q, watch |-> w, from |-> 0]
<1>1. c \in SentSearch /\ c \in CallRecord
  BY DEF SentSearch, CallRecord, Searching
<1>2. /\ call' = [call EXCEPT ![s] = c] /\ call[s] = Screen!Free
      /\ form' = q /\ watch' = w /\ last' = q /\ open' = {}
           /\ result' = [q |-> "none", leads |-> <<>>, remaining |-> 0]
      /\ mixed' = (mixed \/ Screen!Out({"search", "page"}) # {})
      /\ UNCHANGED <<paidIds, wallet, bought, skipped, reported, revealed, applied, back>>
  BY DEF Screen!run, Screen!Send, Screen!Cleared, Screen!Unseen, Screen!None, Screen!server
<1> HIDE DEF c
<1> USE DEF ScreenInv
<1>3. ScreenTypes'
  <2>1. result' \in [q : Queries \cup {"none"}, leads : Seq(Leads), remaining : Int]
    BY <1>2
  <2>2. call' \in [Slots -> CallRecord]
    BY <1>1, <1>2, SlotReplaced
  <2>3. mixed' \in BOOLEAN
    BY <1>2 DEF ScreenTypes
  <2> QED BY <1>2, <2>1, <2>2, <2>3 DEF ScreenTypes
<1>4. OwnedShown'
  <2>1. c \notin ServedSearch /\ c \notin SoldLeads
    BY <1>1, KindsApart
  <2>2. open' \cup paidIds' \subseteq bought' \cup skipped'
    BY <1>2 DEF OwnedShown, Screen!ViewMeansOwned
  <2> QED BY <1>2, <2>1, <2>2, SlotOwned
<1>5. CheckoutTrue'
  BY <1>2 DEF CheckoutTrue
<1>6. OnceShown'
  <2>1. c \notin ServedSearch /\ Screen!IsInjective(result'.leads)
    BY <1>1, <1>2, KindsApart DEF Screen!IsInjective
  <2> QED BY <1>2, <2>1, SlotOnce
<1>7. AsAsked'
  <2> SUFFICES ASSUME ~mixed' PROVE (\A t \in Slots : AsksLeads(call[t])' => call'[t].q = last')
                                    /\ result'.q = "none" /\ result'.leads = <<>>
                                         /\ result'.remaining = 0
    BY DEF AsAsked
  <2>1. \A t \in Slots : ~(call[t].kind \in {"search", "page"})
    BY <1>2 DEF Screen!Out
  <2>2. \A t \in Slots : ~AsksLeads(call[t])
    BY <2>1 DEF AsksLeads, SentSearch, ServedSearch, Searching
  <2>3. call'[s] = c /\ \A t \in Slots \ {s} : call'[t] = call[t]
    BY <1>2, SlotReplaced
  <2>4. \A t \in Slots : AsksLeads(call[t])' = AsksLeads(call'[t])
    BY DEF AsksLeads, SentSearch, ServedSearch
  <2>5. c.q = q
    BY DEF c
  <2> QED BY <1>2, <2>2, <2>3, <2>4, <2>5
<1> QED BY <1>3, <1>4, <1>5, <1>6, <1>7

\* More of it is asked for.
LEMMA LoadMoreKeeps ==
  ASSUME ScreenInv, NEW s \in Slots, Screen!LoadMore(s)
  PROVE  ScreenInv'
<1> DEFINE c == [kind |-> "page", at |-> "sent", q |-> form, watch |-> watch,
        from |-> Len(result.leads)]
<1> USE DEF ScreenInv
<1>1. c \in SentSearch /\ c \in CallRecord /\ c.q = form
  BY DEF SentSearch, CallRecord, Searching, ScreenTypes
<1>2. /\ call' = [call EXCEPT ![s] = c] /\ result.remaining > 0
      /\ mixed' = (mixed \/ form # result.q \/ Screen!Out({"search", "page"}) # {})
      /\ UNCHANGED <<form, watch, result, open, paidIds, last, wallet, bought, skipped, reported,
           revealed, applied, back>>
  BY DEF Screen!LoadMore, Screen!Send, Screen!server
<1> HIDE DEF c
<1>3. ScreenTypes'
  <2>1. call' \in [Slots -> CallRecord]
    BY <1>1, <1>2, SlotReplaced
  <2>2. mixed' \in BOOLEAN
    BY <1>2 DEF ScreenTypes
  <2> QED BY <1>2, <2>1, <2>2 DEF ScreenTypes
<1>4. OwnedShown'
  <2>1. c \notin ServedSearch /\ c \notin SoldLeads
    BY <1>1, KindsApart
  <2>2. open' \cup paidIds' \subseteq bought' \cup skipped'
    BY <1>2 DEF OwnedShown, Screen!ViewMeansOwned
  <2> QED BY <1>2, <2>1, <2>2, SlotOwned
<1>5. CheckoutTrue'
  BY <1>2 DEF CheckoutTrue
<1>6. OnceShown'
  <2>1. c \notin ServedSearch /\ Screen!IsInjective(result'.leads)
    BY <1>1, <1>2, KindsApart DEF OnceShown
  <2> QED BY <1>2, <2>1, SlotOnce
<1>7. AsAsked'
  <2> SUFFICES ASSUME ~mixed' PROVE AsAsked'
    BY DEF AsAsked
  <2>1. ~mixed /\ form = result.q
    BY <1>2 DEF ScreenTypes
  <2>2. result.q # "none"
    BY <2>1, <1>2 DEF AsAsked
  <2>3. form = last
    BY <2>1, <2>2 DEF AsAsked
  <2>4. mixed' = mixed
    BY <2>1, <1>2 DEF ScreenTypes
  <2> QED BY <1>1, <1>2, <2>3, <2>4, SlotAsked
<1> QED BY <1>3, <1>4, <1>5, <1>6, <1>7

\* Asking for leads by name: to unlock or export them, for their owner, or to report them.
LEMMA AskKeeps ==
  ASSUME ScreenInv, NEW s \in Slots, NEW kind \in {"unlock", "export", "reveal", "report"},
       NEW ids \in SUBSET Leads,
         call' = [call EXCEPT ![s] = [kind |-> kind, at |-> "sent", ids |-> ids]],
         UNCHANGED <<form, watch, result, open, paidIds, last, wallet, bought, skipped, reported,
              revealed, applied, back, mixed>>
  PROVE  ScreenInv'
<1> DEFINE c == [kind |-> kind, at |-> "sent", ids |-> ids]
<1> USE DEF ScreenInv
<1>1. c \in SentSale /\ c \in CallRecord
  BY DEF SentSale, CallRecord
<1>2. call' = [call EXCEPT ![s] = c]
  OBVIOUS
<1> HIDE DEF c
<1>3. ScreenTypes'
  <2>1. call' \in [Slots -> CallRecord]
    BY <1>1, <1>2, SlotReplaced
  <2> QED BY <1>2, <2>1 DEF ScreenTypes
<1>4. OwnedShown'
  <2>1. c \notin ServedSearch /\ c \notin SoldLeads
    BY <1>1, KindsApart
  <2>2. open' \cup paidIds' \subseteq bought' \cup skipped'
    BY DEF OwnedShown, Screen!ViewMeansOwned
  <2> QED BY <1>2, <2>1, <2>2, SlotOwned
<1>5. CheckoutTrue'
  BY DEF CheckoutTrue
<1>6. OnceShown'
  <2>1. c \notin ServedSearch /\ Screen!IsInjective(result'.leads)
    BY <1>1, KindsApart DEF OnceShown
  <2> QED BY <1>2, <2>1, SlotOnce
<1>7. AsAsked'
  <2>1. ~AsksLeads(c)
    BY <1>1, KindsApart
  <2> QED BY <1>2, <2>1, SlotAsked
<1> QED BY <1>3, <1>4, <1>5, <1>6, <1>7

\* Each of these.
LEMMA AsksKeep ==
  ASSUME ScreenInv, NEW s \in Slots,
         Screen!exportLeads(s) \/ \E l \in Leads : Screen!unlock(s, l) \/ Screen!revealOwner(s, l)
              \/ Screen!ReportLead(s, l)
  PROVE  ScreenInv'
<1>1. Screen!Shown \subseteq Leads
  BY DEF ScreenInv, ScreenTypes, Screen!Shown, Screen!ToSet
<1>2. ASSUME Screen!exportLeads(s) PROVE ScreenInv'
  <2>1. PICK ids \in SUBSET Leads : Screen!Send(s, [kind |-> "export", at |-> "sent", ids |-> ids])
    BY <1>1, <1>2 DEF Screen!exportLeads, Screen!Visible
  <2>2. UNCHANGED <<form, watch, result, open, paidIds, last, wallet, bought, skipped, reported,
          revealed, applied, back, mixed>>
    BY <1>2 DEF Screen!exportLeads, Screen!server
  <2> QED BY <2>1, <2>2, AskKeeps DEF Screen!Send
<1>3. ASSUME NEW l \in Leads, Screen!unlock(s, l) PROVE ScreenInv'
  <2>1. {l} \in SUBSET Leads
    OBVIOUS
  <2>2. call' = [call EXCEPT ![s] = [kind |-> "unlock", at |-> "sent", ids |-> {l}]]
    BY <1>3 DEF Screen!unlock, Screen!Send
  <2>3. UNCHANGED <<form, watch, result, open, paidIds, last, wallet, bought, skipped, reported,
          revealed, applied, back, mixed>>
    BY <1>3 DEF Screen!unlock, Screen!server
  <2> QED BY <2>1, <2>2, <2>3, AskKeeps
<1>4. ASSUME NEW l \in Leads, NEW kind \in {"reveal", "report"}, Screen!ask(s, kind, l) PROVE ScreenInv'
  <2>1. {l} \in SUBSET Leads
    OBVIOUS
  <2>2. call' = [call EXCEPT ![s] = [kind |-> kind, at |-> "sent", ids |-> {l}]]
    BY <1>4 DEF Screen!ask, Screen!Send
  <2>3. UNCHANGED <<form, watch, result, open, paidIds, last, wallet, bought, skipped, reported,
          revealed, applied, back, mixed>>
    BY <1>4 DEF Screen!ask, Screen!screen, Screen!server
  <2> QED BY <2>1, <2>2, <2>3, AskKeeps
<1> QED BY <1>2, <1>3, <1>4 DEF Screen!revealOwner, Screen!ReportLead

\* The server answers a search,
LEMMA AnswerSearchKeeps ==
  ASSUME ScreenInv, NEW s \in Slots, Screen!AnswerSearch(s)
  PROVE  ScreenInv'
<1> USE DEF ScreenInv
<1>1. call[s] \in SentSearch /\ call[s] \in CallRecord
  BY KindsShape DEF Screen!AnswerSearch, ScreenTypes, Searching
<1>2. call[s].q \in Queries /\ call[s].from \in Nat /\ call[s].kind \in Searching
  BY <1>1 DEF SentSearch
<1>3. PICK order \in Screen!Ranked(call[s].q) :
        call' = [call EXCEPT ![s] =
          [kind |-> call[s].kind, at |-> "served", q |-> call[s].q,
               leads |-> Screen!Page(order, call[s].from),
           owned |-> Screen!ToSet(Screen!Page(order, call[s].from)) \cap bought, credits |-> {wallet},
           remaining |-> Screen!Max({0, Len(order) - call[s].from - PageSize})]]
  BY DEF Screen!AnswerSearch
<1> DEFINE page == Screen!Page(order, call[s].from)
           left == Screen!Max({0, Len(order) - call[s].from - PageSize})
           c == [kind |-> call[s].kind, at |-> "served", q |-> call[s].q, leads |-> page,
                 owned |-> Screen!ToSet(page) \cap bought, credits |-> {wallet}, remaining |-> left]
<1>4. page \in Seq(Leads) /\ Screen!IsInjective(page) /\ Screen!ToSet(page) \subseteq Found(call[s].q)
  BY <1>2, PageOf
<1>5. left \in Int
  <2>1. order \in [1..Screen!Cardinality(Found(call[s].q)) -> Found(call[s].q)]
    BY DEF Screen!Ranked, Screen!SetToSeqs
  <2>2. Found(call[s].q) \in SUBSET Leads /\ PageSize \in Nat
    BY <1>2, ScreenAssumption
  <2>3. Screen!Cardinality(Found(call[s].q)) \in Nat
    BY <2>2, LeadsFinite
  <2>4. Len(order) \in Nat
    BY <2>1, <2>3
  <2> DEFINE n == Len(order) - call[s].from - PageSize
  <2>5. n \in Int
    BY <1>2, <2>2, <2>4
  <2> HIDE DEF n
  <2>6. \E x \in {0, n} : \A y \in {0, n} : x >= y
    BY <2>5
  <2>7. Screen!Max({0, n}) \in {0, n}
    BY <2>6 DEF Screen!Max
  <2> QED BY <2>5, <2>7 DEF n
<1>6. call' = [call EXCEPT ![s] = c]
  BY <1>3
<1>7. UNCHANGED <<form, watch, result, open, paidIds, last, wallet, bought, skipped, reported, revealed,
        applied, back, mixed>>
  BY DEF Screen!AnswerSearch, Screen!screen, Screen!server
<1> HIDE DEF page, left
<1>8. c \in ServedSearch /\ c.owned \subseteq bought /\ c.q = call[s].q /\ c.leads = page
  BY <1>2, <1>4, <1>5 DEF ServedSearch, ScreenTypes
<1> HIDE DEF c
<1>9. c \in CallRecord
  BY <1>8 DEF CallRecord
<1>10. ScreenTypes'
  <2>1. call' \in [Slots -> CallRecord]
    BY <1>6, <1>9, SlotReplaced
  <2> QED BY <1>7, <2>1 DEF ScreenTypes
<1>11. OwnedShown'
  <2>1. c \notin SoldLeads
    BY <1>8, KindsApart
  <2>2. open' \cup paidIds' \subseteq bought' \cup skipped'
    BY <1>7 DEF OwnedShown, Screen!ViewMeansOwned
  <2> QED BY <1>6, <1>7, <1>8, <2>1, <2>2, SlotOwned
<1>12. CheckoutTrue'
  BY <1>7 DEF CheckoutTrue
<1>13. OnceShown'
  <2>1. Screen!IsInjective(result'.leads)
    BY <1>7 DEF OnceShown
  <2> QED BY <1>4, <1>6, <1>8, <2>1, SlotOnce
<1>14. AsAsked'
  <2>1. ~mixed => c.q = last
    BY <1>1, <1>8 DEF AsAsked, AsksLeads
  <2> QED BY <1>6, <1>7, <2>1, SlotAsked
<1> QED BY <1>10, <1>11, <1>12, <1>13, <1>14

\* a sale,
LEMMA AnswerSaleKeeps ==
  ASSUME ScreenInv, NEW s \in Slots, Screen!AnswerSale(s)
  PROVE  ScreenInv'
<1> USE DEF ScreenInv
<1>1. call[s] \in SentSale /\ call[s].kind \in {"unlock", "export"} /\ call[s].ids \in SUBSET Leads
  <2>1. call[s] \in SentSale
    BY KindsShape DEF Screen!AnswerSale, ScreenTypes
  <2> QED BY <2>1 DEF SentSale, Screen!AnswerSale
<1>2. PICK bad \in SUBSET (call[s].ids \ bought) :
        LET good == call[s].ids \ bad
            cost == Screen!Cardinality(good \ bought)
            outcome == IF good = {} THEN "unverifiable" ELSE IF cost > wallet THEN "insufficient"
                 ELSE "sold"
            sold == outcome = "sold"
        IN /\ skipped' = skipped \cup bad
           /\ bought' = IF sold THEN bought \cup good ELSE bought
           /\ wallet' = IF sold THEN wallet - cost ELSE wallet
           /\ call' = [call EXCEPT ![s] = [kind |-> call[s].kind, at |-> "served", ids |-> call[s].ids,
                outcome |-> outcome,
                                           credits |-> IF outcome = "unverifiable" THEN {}
                                                ELSE {wallet'}]]
  BY Zenon DEF Screen!AnswerSale
<1> DEFINE good == call[s].ids \ bad
           cost == Screen!Cardinality(good \ bought)
           outcome == IF good = {} THEN "unverifiable" ELSE IF cost > wallet THEN "insufficient"
                ELSE "sold"
           said == IF outcome = "unverifiable" THEN {} ELSE {wallet'}
           c == [kind |-> call[s].kind, at |-> "served", ids |-> call[s].ids, outcome |-> outcome,
                credits |-> said]
<1>3. good \in SUBSET Leads /\ cost \in Nat
  <2>1. good \ bought \in SUBSET Leads
    BY <1>1
  <2> QED BY <1>1, <2>1, LeadsFinite
<1>4. skipped' = skipped \cup bad /\ call' = [call EXCEPT ![s] = c]
  BY <1>2
<1>5. bought' = (IF outcome = "sold" THEN bought \cup good ELSE bought)
        /\ wallet' = (IF outcome = "sold" THEN wallet - cost ELSE wallet)
  BY <1>2
<1>6. outcome \in {"unverifiable", "insufficient", "sold"}
  OBVIOUS
<1>7. UNCHANGED <<form, watch, result, open, paidIds, last, reported, revealed, applied, back, mixed>>
  BY DEF Screen!AnswerSale, Screen!screen
<1>8. call[s].ids \subseteq good \cup bad
  OBVIOUS
<1> HIDE DEF good, cost, outcome
<1>9. wallet' \in Int /\ wallet' <= wallet
  BY <1>3, <1>5 DEF ScreenTypes
<1>10. c \in SoldLeads /\ c.ids = call[s].ids /\ c.outcome = outcome
  <2>1. said \in SUBSET Int
    BY <1>9
  <2> HIDE DEF said
  <2> QED BY <1>1, <1>6, <2>1 DEF SoldLeads
<1> HIDE DEF c, said
<1>11. c \in CallRecord /\ ~AsksLeads(c) /\ c \notin ServedSearch
  <2>1. c \in CallRecord
    BY <1>10 DEF CallRecord
  <2> QED BY <2>1, <1>10, KindsApart
<1>12. ScreenTypes'
  <2>1. call' \in [Slots -> CallRecord]
    BY <1>4, <1>11, SlotReplaced
  <2>2. bought' \in SUBSET Leads
    BY <1>3, <1>5 DEF ScreenTypes
  <2> QED BY <1>7, <1>9, <2>1, <2>2 DEF ScreenTypes
<1>13. OwnedShown'
  <2>1. bought \subseteq bought' /\ skipped \subseteq skipped'
    BY <1>4, <1>5
  <2>2. open' \cup paidIds' \subseteq bought' \cup skipped'
    BY <1>7, <2>1 DEF OwnedShown, Screen!ViewMeansOwned
  <2>3. c.outcome = "sold" => c.ids \subseteq bought' \cup skipped'
    BY <1>4, <1>5, <1>8, <1>10
  <2> QED BY <1>4, <1>11, <2>1, <2>2, <2>3, SlotOwned
<1>14. CheckoutTrue'
  BY <1>7, <1>9 DEF CheckoutTrue, ScreenTypes
<1>15. OnceShown'
  <2>1. Screen!IsInjective(result'.leads)
    BY <1>7 DEF OnceShown
  <2> QED BY <1>4, <1>11, <2>1, SlotOnce
<1>16. AsAsked'
  BY <1>4, <1>7, <1>11, SlotAsked
<1> QED BY <1>12, <1>13, <1>14, <1>15, <1>16

\* or the rest.
LEMMA AnswerAskKeeps ==
  ASSUME ScreenInv, NEW s \in Slots, Screen!AnswerAsk(s)
  PROVE  ScreenInv'
<1> USE DEF ScreenInv
<1>1. call[s] \in SentSale /\ call[s].kind \in {"reveal", "report"} /\ call[s].ids \in SUBSET Leads
  <2>1. call[s] \in SentSale
    BY KindsShape DEF Screen!AnswerAsk, ScreenTypes
  <2> QED BY <2>1 DEF SentSale, Screen!AnswerAsk
<1> DEFINE new == call[s].ids \ (IF call[s].kind = "reveal" THEN revealed ELSE reported)
           n == Screen!Cardinality(new)
           c == [kind |-> call[s].kind, at |-> "served", ids |-> call[s].ids, credits |-> {wallet'}]
<1>2. new \in SUBSET Leads /\ n \in Nat /\ (new = {} => n = 0)
  <2>1. new \in SUBSET Leads
    BY <1>1
  <2> HIDE DEF new
  <2> QED BY <2>1, LeadsFinite
<1>3. call' = [call EXCEPT ![s] = c]
  BY DEF Screen!AnswerAsk
<1>4. \/ /\ wallet' = IF wallet > 0 THEN wallet - n ELSE wallet
         /\ revealed' = IF wallet > 0 THEN revealed \cup new ELSE revealed
         /\ reported' = reported
      \/ wallet' = wallet + n /\ reported' = reported \cup new /\ revealed' = revealed
  BY DEF Screen!AnswerAsk
<1>5. UNCHANGED <<form, watch, result, open, paidIds, last, bought, skipped, applied, back, mixed>>
  BY DEF Screen!AnswerAsk, Screen!screen
<1> HIDE DEF new, n
<1>6. wallet' \in Int /\ reported \subseteq reported' /\ (reported' = {} => wallet' <= wallet)
  BY <1>2, <1>4 DEF ScreenTypes
<1>7. c \in ToldOwner
  BY <1>1, <1>6 DEF ToldOwner
<1> HIDE DEF c
<1>8. c \in CallRecord /\ ~AsksLeads(c) /\ c \notin ServedSearch /\ c \notin SoldLeads
  <2>1. c \in CallRecord
    BY <1>7 DEF CallRecord
  <2> QED BY <2>1, <1>7, KindsApart
<1>9. ScreenTypes'
  <2>1. call' \in [Slots -> CallRecord]
    BY <1>3, <1>8, SlotReplaced
  <2>2. reported' \in SUBSET Leads /\ revealed' \in SUBSET Leads
    BY <1>2, <1>4 DEF ScreenTypes
  <2> QED BY <1>5, <1>6, <2>1, <2>2 DEF ScreenTypes
<1>10. OwnedShown'
  <2>1. open' \cup paidIds' \subseteq bought' \cup skipped'
    BY <1>5 DEF OwnedShown, Screen!ViewMeansOwned
  <2> QED BY <1>3, <1>5, <1>8, <2>1, SlotOwned
<1>11. CheckoutTrue'
  BY <1>5, <1>6 DEF CheckoutTrue, ScreenTypes
<1>12. OnceShown'
  <2>1. Screen!IsInjective(result'.leads)
    BY <1>5 DEF OnceShown
  <2> QED BY <1>3, <1>8, <2>1, SlotOnce
<1>13. AsAsked'
  BY <1>3, <1>5, <1>8, SlotAsked
<1> QED BY <1>9, <1>10, <1>11, <1>12, <1>13

\* The checkout: neither a call nor what is shown is touched.
LEMMA CheckoutKeeps ==
  ASSUME ScreenInv, Screen!Apply \/ Screen!Poll \/ Screen!Reconcile
  PROVE  ScreenInv'
<1> USE DEF ScreenInv
<1>1. UNCHANGED <<form, watch, result, open, paidIds, call, last, bought, skipped, reported, revealed,
        mixed>>
  BY DEF Screen!Apply, Screen!Poll, Screen!Reconcile, Screen!screen, Screen!server
<1>2. OwnedShown'
  BY <1>1 DEF OwnedShown, Screen!ViewMeansOwned
<1>3. OnceShown'
  BY <1>1 DEF OnceShown, Screen!IsInjective, Screen!ToSet
<1>4. AsAsked'
  BY <1>1 DEF AsAsked, Screen!Shown, Screen!ToSet, AsksLeads
<1>5. CASE Screen!Apply
  <2>1. applied' = TRUE /\ wallet' = wallet + 1 /\ back' = back
    BY <1>5 DEF Screen!Apply
  <2>2. ScreenTypes'
    BY <1>1, <2>1 DEF ScreenTypes
  <2>3. CheckoutTrue'
    BY <2>1 DEF CheckoutTrue
  <2> QED BY <1>2, <1>3, <1>4, <2>2, <2>3
<1>6. CASE Screen!Poll
  <2>1. applied' = applied /\ wallet' = wallet
    BY <1>6 DEF Screen!Poll, Screen!server
  <2> DEFINE before == IF back.seen THEN back.before ELSE wallet
  <2>2. \/ /\ back'.seen = TRUE /\ back'.before = before /\ back'.arrived = (applied \/ wallet > before)
           /\ DOMAIN back' = {"at", "polls", "seen", "before", "arrived"}
        \/ back'.seen = back.seen /\ back'.before = back.before /\ back'.arrived = back.arrived
             /\ DOMAIN back' = DOMAIN back
    <3>1. PICK more : \/ back' = [at |-> IF Screen!Arrived(before) THEN "settled"
                           ELSE more, polls |-> back.polls + 1,
                             seen |-> TRUE, before |-> before, arrived |-> Screen!Arrived(before)]
             \/ back' = [back EXCEPT !.at = more, !.polls = @ + 1]
      BY <1>6, Zenon DEF Screen!Poll
    <3> HIDE DEF before
    <3> DEFINE came == Screen!Arrived(before)
    <3>2. came = (applied \/ wallet > before)
      BY DEF Screen!Arrived
    <3> HIDE DEF before, came
    <3>3. CASE back' = [at |-> IF came THEN "settled" ELSE more, polls |-> back.polls + 1,
                        seen |-> TRUE, before |-> before, arrived |-> came]
      <4>1. back'.seen = TRUE /\ back'.before = before /\ back'.arrived = came
        BY <3>3
      <4>2. DOMAIN back' = {"at", "polls", "seen", "before", "arrived"}
        BY <3>3
      <4> QED BY <4>1, <4>2, <3>2
    <3>4. CASE back' = [back EXCEPT !.at = more, !.polls = @ + 1]
      BY <3>4 DEF ScreenTypes
    <3> QED BY <3>1, <3>3, <3>4 DEF came
  <2>3. before \in Int
    BY DEF ScreenTypes
  <2>4. ScreenTypes'
    BY <1>1, <2>1, <2>2, <2>3 DEF ScreenTypes
  <2>5. CheckoutTrue'
    <3> SUFFICES ASSUME reported = {}, ~applied PROVE ~back'.arrived /\ (back'.seen =>
            wallet <= back'.before)
      BY <1>1, <2>1 DEF CheckoutTrue
    <3>1. ~back.arrived /\ (back.seen => wallet <= back.before)
      BY DEF CheckoutTrue
    <3>2. wallet <= before
      BY <3>1 DEF ScreenTypes
    <3> HIDE DEF before
    <3> QED BY <2>2, <2>3, <3>1, <3>2 DEF ScreenTypes
  <2> QED BY <1>2, <1>3, <1>4, <2>4, <2>5
<1>7. CASE Screen!Reconcile
  <2>1. \/ applied' = TRUE /\ wallet' = (IF applied THEN wallet ELSE wallet + 1)
             /\ back' = [back EXCEPT !.at = "settled", !.arrived = TRUE]
        \/ applied' = applied /\ wallet' = wallet /\ back' = [back EXCEPT !.at = "settled"]
    BY <1>7 DEF Screen!Reconcile
  <2>2. ScreenTypes'
    <3>1. wallet' \in Int /\ applied' \in BOOLEAN
      <4>1. wallet \in Int /\ applied \in BOOLEAN
        BY DEF ScreenTypes
      <4>2. wallet + 1 \in Int
        BY <4>1
      <4> QED BY <2>1, <4>1, <4>2
    <3>2. /\ back'.seen \in BOOLEAN /\ back'.before \in Int /\ back'.arrived \in BOOLEAN
          /\ DOMAIN back' = {"at", "polls", "seen", "before", "arrived"}
      <4>1. back.seen \in BOOLEAN /\ back.before \in Int /\ back.arrived \in BOOLEAN
            /\ DOMAIN back = {"at", "polls", "seen", "before", "arrived"}
        BY DEF ScreenTypes
      <4>2. CASE back' = [back EXCEPT !.at = "settled", !.arrived = TRUE]
        <5>1. back'.seen = back.seen /\ back'.before = back.before /\ back'.arrived = TRUE
          BY <4>1, <4>2
        <5>2. DOMAIN back' = {"at", "polls", "seen", "before", "arrived"}
          BY <4>1, <4>2
        <5> QED BY <4>1, <5>1, <5>2
      <4>3. CASE back' = [back EXCEPT !.at = "settled"]
        BY <4>1, <4>3
      <4> QED BY <2>1, <4>2, <4>3
    <3> QED BY <1>1, <3>1, <3>2 DEF ScreenTypes
  <2>3. CheckoutTrue'
    BY <1>1, <2>1 DEF CheckoutTrue, ScreenTypes
  <2> QED BY <1>2, <1>3, <1>4, <2>2, <2>3
<1> QED BY <1>5, <1>6, <1>7

\* An answer that lands leaves its slot free, and nothing at the server.
LEMMA LandKeeps ==
  ASSUME ScreenInv, NEW s \in Slots, call' = [call EXCEPT ![s] = Screen!Free],
         open' \cup paidIds' \subseteq bought \cup skipped, open' \in SUBSET Leads,
         UNCHANGED <<form, watch, result, last, wallet, bought, skipped, reported, revealed, applied,
              back, mixed>>
  PROVE  ScreenInv'
<1> USE DEF ScreenInv
<1>1. Screen!Free \in CallRecord
  BY DEF CallRecord
<1>2. ScreenTypes'
  <2>1. call' \in [Slots -> CallRecord]
    BY <1>1, SlotReplaced
  <2> QED BY <2>1 DEF ScreenTypes
<1>3. OwnedShown'
  BY FreeShape, SlotOwned
<1>4. CheckoutTrue'
  BY DEF CheckoutTrue
<1>5. OnceShown'
  <2>1. Screen!IsInjective(result'.leads)
    BY DEF OnceShown
  <2> QED BY <2>1, FreeShape, SlotOnce
<1>6. AsAsked'
  BY FreeShape, SlotAsked
<1> QED BY <1>2, <1>3, <1>4, <1>5, <1>6

\* Such are all but the search's.
LEMMA LandOthersKeep ==
  ASSUME ScreenInv, NEW s \in Slots,
         Screen!LandUnlock(s) \/ Screen!LandExport(s) \/ Screen!LandAsk(s) \/ Screen!Fail(s)
  PROVE  ScreenInv'
<1> USE DEF ScreenInv
<1>1. call' = [call EXCEPT ![s] = Screen!Free]
  BY DEF Screen!LandUnlock, Screen!LandExport, Screen!LandAsk, Screen!Fail
<1>2. UNCHANGED <<form, watch, result, last, wallet, bought, skipped, reported, revealed, applied, back,
        mixed>>
  BY DEF Screen!LandUnlock, Screen!LandExport, Screen!LandAsk, Screen!Fail, Screen!server
<1>3. Screen!Shown \subseteq Leads
  BY DEF ScreenTypes, Screen!Shown, Screen!ToSet
<1>4. open \cup paidIds \subseteq bought \cup skipped /\ open \in SUBSET Leads
  BY DEF OwnedShown, Screen!ViewMeansOwned, ScreenTypes
<1>5. (Screen!LandUnlock(s) \/ Screen!LandExport(s)) /\ call[s].outcome = "sold" =>
        call[s].ids \subseteq bought \cup skipped
  <2>1. ASSUME Screen!LandUnlock(s) \/ Screen!LandExport(s) PROVE call[s] \in SoldLeads
    BY <2>1, KindsShape DEF Screen!LandUnlock, Screen!LandExport, ScreenTypes
  <2> QED BY <2>1 DEF OwnedShown
<1>6. open' \cup paidIds' \subseteq bought \cup skipped /\ open' \in SUBSET Leads
  <2>1. CASE Screen!LandUnlock(s)
    BY <1>3, <1>4, <1>5, <2>1 DEF Screen!LandUnlock
  <2>2. CASE Screen!LandExport(s)
    BY <1>4, <1>5, <2>2 DEF Screen!LandExport, Screen!Marked
  <2>3. CASE Screen!LandAsk(s) \/ Screen!Fail(s)
    BY <1>4, <2>3 DEF Screen!LandAsk, Screen!Fail
  <2> QED BY <2>1, <2>2, <2>3
<1> QED BY <1>1, <1>2, <1>6, LandKeeps

\* The answer to a search lands.
LEMMA LandSearchKeeps ==
  ASSUME ScreenInv, NEW s \in Slots, Screen!LandSearch(s)
  PROVE  ScreenInv'
<1> USE DEF ScreenInv
<1>1. call[s] \in ServedSearch
  BY KindsShape DEF Screen!LandSearch, ScreenTypes, Searching
<1>2. /\ call[s].q \in Queries /\ call[s].leads \in Seq(Leads) /\ call[s].owned \in SUBSET Leads
           /\ call[s].remaining \in Int
  BY <1>1 DEF ServedSearch
<1>3. /\ call[s].owned \subseteq bought /\ Screen!IsInjective(call[s].leads)
      /\ Screen!ToSet(call[s].leads) \subseteq Found(call[s].q) /\ (~mixed => call[s].q = last)
  BY <1>1 DEF OwnedShown, OnceShown, AsAsked, AsksLeads
<1>4. result \in [q : Queries \cup {"none"}, leads : Seq(Leads), remaining : Int]
        /\ Screen!IsInjective(result.leads)
  BY DEF ScreenTypes, OnceShown
<1> DEFINE more == Screen!Fresh(result.leads, call[s].leads)
<1>5. \/ /\ result.q # "none" /\ result' = [result EXCEPT !.leads = more,
           !.remaining = call[s].remaining]
         /\ open' = open \cup (call[s].owned \ Screen!Shown)
      \/ result' = [q |-> call[s].q, leads |-> call[s].leads, remaining |-> call[s].remaining]
           /\ open' = call[s].owned
  BY <1>4 DEF Screen!LandSearch, Screen!None
<1>6. /\ call' = [call EXCEPT ![s] = Screen!Free]
      /\ UNCHANGED <<form, watch, paidIds, last, wallet, bought, skipped, reported, revealed, applied,
           back, mixed>>
  BY DEF Screen!LandSearch, Screen!server
<1>7. more \in Seq(Leads) /\ Screen!IsInjective(more)
      /\ Screen!ToSet(more) \subseteq Screen!ToSet(result.leads) \cup Screen!ToSet(call[s].leads)
  BY <1>2, <1>3, <1>4, FreshKeeps
<1> HIDE DEF more
<1>8. \/ result.q # "none" /\ result'.q = result.q /\ result'.leads = more
           /\ result'.remaining = call[s].remaining
      \/ result'.q = call[s].q /\ result'.leads = call[s].leads /\ result'.remaining = call[s].remaining
  <2>1. ASSUME result' = [result EXCEPT !.leads = more, !.remaining = call[s].remaining]
        PROVE  result'.q = result.q /\ result'.leads = more /\ result'.remaining = call[s].remaining
    BY <1>4, <2>1
  <2> QED BY <1>5, <2>1
<1>9. result' \in [q : Queries \cup {"none"}, leads : Seq(Leads), remaining : Int]
  <2>1. ASSUME result' = [result EXCEPT !.leads = more, !.remaining = call[s].remaining]
        PROVE  result' \in [q : Queries \cup {"none"}, leads : Seq(Leads), remaining : Int]
    BY <1>2, <1>4, <1>7, <2>1
  <2>2. ASSUME result' = [q |-> call[s].q, leads |-> call[s].leads, remaining |-> call[s].remaining]
        PROVE  result' \in [q : Queries \cup {"none"}, leads : Seq(Leads), remaining : Int]
    BY <1>2, <2>2
  <2> QED BY <1>5, <2>1, <2>2
<1>10. ScreenTypes'
  <2>1. Screen!Free \in CallRecord
    BY DEF CallRecord
  <2>2. call' \in [Slots -> CallRecord]
    BY <1>6, <2>1, SlotReplaced
  <2>3. open' \in SUBSET Leads
    BY <1>2, <1>5 DEF ScreenTypes
  <2> QED BY <1>6, <1>9, <2>2, <2>3 DEF ScreenTypes
<1>11. OwnedShown'
  <2>1. open' \cup paidIds' \subseteq bought' \cup skipped'
    BY <1>3, <1>5, <1>6 DEF OwnedShown, Screen!ViewMeansOwned
  <2> QED BY <1>6, <2>1, FreeShape, SlotOwned
<1>12. CheckoutTrue'
  BY <1>6 DEF CheckoutTrue
<1>13. OnceShown'
  <2>1. Screen!IsInjective(result'.leads)
    BY <1>3, <1>7, <1>8
  <2> QED BY <1>6, <2>1, FreeShape, SlotOnce
<1>14. AsAsked'
  <2> SUFFICES ASSUME ~mixed PROVE
        /\ \A t \in Slots : AsksLeads(call[t])' => call'[t].q = last
        /\ result'.q # "none" /\ result'.q = last /\ Screen!ToSet(result'.leads) \subseteq Found(last)
    BY <1>6 DEF AsAsked, Screen!Shown, Screen!ToSet
  <2>1. call'[s] = Screen!Free /\ \A t \in Slots \ {s} : call'[t] = call[t]
    BY <1>6, SlotReplaced
  <2>2. \A t \in Slots : AsksLeads(call[t])' = AsksLeads(call'[t])
    BY DEF AsksLeads, SentSearch, ServedSearch
  <2>3. \A t \in Slots : AsksLeads(call[t])' => call'[t].q = last
    BY <2>1, <2>2, FreeShape DEF AsAsked
  <2>4. call[s].q = last /\ last # "none"
    BY <1>2, <1>3, ScreenAssumption
  <2>5. result.q # "none" => result.q = last /\ Screen!ToSet(result.leads) \subseteq Found(last)
    BY DEF AsAsked, Screen!Shown
  <2> QED BY <1>3, <1>7, <1>8, <2>3, <2>4, <2>5
<1> QED BY <1>10, <1>11, <1>12, <1>13, <1>14

\* Every step keeps the invariant.
LEMMA ScreenKept == ScreenInv /\ [Screen!Next]_(Screen!vars) => ScreenInv'
<1> SUFFICES ASSUME ScreenInv, [Screen!Next]_(Screen!vars) PROVE ScreenInv'
  OBVIOUS
<1>1. CASE UNCHANGED Screen!vars
  <2>1. UNCHANGED <<form, watch, result, open, paidIds, call, last, wallet, bought, skipped, reported,
          revealed, applied, back, mixed>>
    BY <1>1 DEF Screen!vars, Screen!screen, Screen!server
  <2>2. ScreenTypes' /\ CheckoutTrue'
    BY <2>1 DEF ScreenInv, ScreenTypes, CheckoutTrue
  <2>3. OwnedShown'
    BY <2>1 DEF ScreenInv, OwnedShown, Screen!ViewMeansOwned
  <2>4. OnceShown'
    BY <2>1 DEF ScreenInv, OnceShown, Screen!IsInjective, Screen!ToSet
  <2>5. AsAsked'
    BY <2>1 DEF ScreenInv, AsAsked, Screen!Shown, Screen!ToSet, AsksLeads
  <2> QED BY <2>2, <2>3, <2>4, <2>5 DEF ScreenInv
<1>2. CASE Screen!Next
  <2>1. watch \in Queries \cup {"none"} /\ form \in Queries
    BY DEF ScreenInv, ScreenTypes
  <2>2. CASE \E q \in Queries : Screen!Type(q)
    BY <2>2, TypeKeeps
  <2>3. ASSUME NEW s \in Slots,
          \/ Screen!Submit(s) \/ Screen!LoadMore(s) \/ Screen!exportLeads(s)
          \/ \E q \in Queries : Screen!Chip(s, q) \/ Screen!openWatchlist(s, q)
          \/ \E l \in Leads : Screen!unlock(s, l) \/ Screen!revealOwner(s, l) \/ Screen!ReportLead(s, l)
          \/ Screen!AnswerSearch(s) \/ Screen!AnswerSale(s) \/ Screen!AnswerAsk(s)
               \/ Screen!LandSearch(s)
          \/ Screen!LandAsk(s) \/ Screen!LandUnlock(s) \/ Screen!LandExport(s) \/ Screen!Fail(s)
        PROVE  ScreenInv'
    <3>1. CASE Screen!Submit(s) \/ \E q \in Queries : Screen!Chip(s, q) \/ Screen!openWatchlist(s, q)
      <4>1. PICK q \in Queries, w \in Queries \cup {"none"} : Screen!run(s, q, w)
        BY <2>1, <3>1 DEF Screen!Submit, Screen!Chip, Screen!openWatchlist
      <4> QED BY <4>1, RunKeeps
    <3>2. CASE Screen!LoadMore(s)
      BY <3>2, LoadMoreKeeps
    <3>3. CASE Screen!exportLeads(s) \/ \E l \in Leads : Screen!unlock(s, l) \/ Screen!revealOwner(s, l)
            \/ Screen!ReportLead(s, l)
      BY <3>3, AsksKeep
    <3>4. CASE Screen!AnswerSearch(s) \/ Screen!AnswerSale(s) \/ Screen!AnswerAsk(s)
      BY <3>4, AnswerSearchKeeps, AnswerSaleKeeps, AnswerAskKeeps
    <3>5. CASE Screen!LandSearch(s) \/ Screen!LandAsk(s) \/ Screen!LandUnlock(s) \/ Screen!LandExport(s)
            \/ Screen!Fail(s)
      BY <3>5, LandSearchKeeps, LandOthersKeep
    <3> QED BY <2>3, <3>1, <3>2, <3>3, <3>4, <3>5, Zenon
  <2>4. CASE Screen!Apply \/ Screen!Poll \/ Screen!Reconcile
    BY <2>4, CheckoutKeeps
  <2> QED BY <1>2, <2>2, <2>3, <2>4, Zenon DEF Screen!Next
<1> QED BY <1>1, <1>2

\* The part runs in behaviours of its own.
ScreenHold == scene = "screen" => ScreenInv

LEMMA ScreenAlways == SceneSpec => []ScreenHold
<1>1. SceneInit => ScreenHold
  BY ScreenStart DEF SceneInit, ScreenHold
<1>2. ScreenHold /\ [SceneNext]_sceneVars => ScreenHold'
  <2> SUFFICES ASSUME ScreenHold, [SceneNext]_sceneVars, scene' = "screen" PROVE ScreenInv'
    BY DEF ScreenHold
  <2>1. scene = "screen" /\ [Screen!Next]_(Screen!vars)
    BY DEF SceneNext, sceneVars, DashboardOnly, Screen!vars, Screen!screen, Screen!server
  <2> QED BY <2>1, ScreenKept DEF ScreenHold
<1> QED BY <1>1, <1>2, PTL DEF SceneSpec

\* A lead shown as owned was bought or left out of an export as dead, and a checkout is called
\* confirmed only when it was applied, unless a report gave a credit back meanwhile, for any leads,
\* queries and slots, whatever order the answers come in (app/dashboard/page.tsx).
THEOREM ScreenTellsTruth == SceneSpec => []ScreenTruthful
<1>1. ScreenHold => ScreenTruthful
  <2>1. ASSUME ScreenInv PROVE Screen!ConfirmedMeansApplied
    BY <2>1 DEF ScreenInv, ScreenTypes, CheckoutTrue, Screen!ConfirmedMeansApplied
  <2>2. ASSUME ScreenInv PROVE Screen!ViewMeansOwned
    BY <2>2 DEF ScreenInv, OwnedShown
  <2> QED BY <2>1, <2>2 DEF ScreenHold, ScreenTruthful
<1> QED BY <1>1, ScreenAlways, PTL

\* The screen shows no lead twice and, unless two searches mixed, only leads of the search asked
\* last, for any page size and any searches (app/dashboard/page.tsx).
THEOREM LeadsShownOnce == SceneSpec => []NoLeadTwice
<1>1. ScreenHold => NoLeadTwice
  <2>1. ASSUME ScreenInv PROVE Screen!ShownAsAsked
    <3> SUFFICES ASSUME ~mixed PROVE Screen!Shown \subseteq (IF last = "none" THEN {} ELSE Found(last))
      BY DEF Screen!ShownAsAsked, Screen!None
    <3>1. CASE result.q = "none"
      BY <2>1, <3>1 DEF ScreenInv, AsAsked, Screen!Shown, Screen!ToSet
    <3>2. CASE result.q # "none"
      BY <2>1, <3>2 DEF ScreenInv, AsAsked
    <3> QED BY <3>1, <3>2
  <2>2. ASSUME ScreenInv PROVE Screen!NoLeadTwice
    BY <2>2 DEF ScreenInv, OnceShown, Screen!NoLeadTwice
  <2> QED BY <2>1, <2>2 DEF ScreenHold, NoLeadTwice
<1> QED BY <1>1, ScreenAlways, PTL

=============================================================================
