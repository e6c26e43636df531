---------------------------- MODULE CreditLedger ----------------------------
(***************************************************************************)
(* The SQL functions that move credits (supabase/006, 010, 012, 031) and   *)
(* the one route that moves them without a function (the admin             *)
(* entitlement route), running concurrently for any number of requests.    *)
(*                                                                         *)
(* Every function is one transaction under READ COMMITTED, so each of its  *)
(* statements sees what had committed when that statement began.  A        *)
(* function is split in two at the one place where that matters: the reads *)
(* it starts with, and the rest, which begins with an UPDATE of the        *)
(* account's profiles row.  That UPDATE takes the row lock, waits for its  *)
(* holder, and re-evaluates its WHERE clause on what the holder left; the  *)
(* lock is kept to the commit.  Everything after it on the same account is *)
(* therefore serialised, and is one step here.  The tables below hold      *)
(* committed rows.                                                         *)
(***************************************************************************)
EXTENDS Integers, FiniteSets

CONSTANTS
  Users,         \* profiles.id: the accounts credits are charged to
  Keys,          \* lead keys
  Calls,         \* concurrent requests (sessions of the database)
  GrantRefs,     \* p_ref of grants: a checkout session id, a user id, a month
  Granted,       \* p_amount of each grant: the same at every redelivery
  SpendRefs,     \* p_ref of spend_credits: the hash of a list, an admin action
  SpendAmounts,  \* p_amount of spend_credits: may differ between two retries
  Batches,       \* p_lead_keys of unlock_leads_bulk; {} turns exports off
  Revokes,       \* credits an admin takes off by hand; {} turns that off
  NoRef          \* the ref of a call that has none

ASSUME CreditAssumption ==
  /\ IsFiniteSet(Keys)
  /\ Granted \in [GrantRefs -> Int]
  /\ SpendAmounts \subseteq Int
  /\ Batches \subseteq SUBSET Keys
  /\ Revokes \subseteq Nat
  /\ NoRef \notin SpendRefs

VARIABLES
  credits,       \* profiles.credits
  entries,       \* credit_ledger rows that have a ref: <<user, reason, ref>>
  booked,        \* sum of credit_ledger.delta over all the rows of an account
  unlocks,       \* lead_unlocks (user_id, lead_key)
  aged,          \* those of them whose unlocked_at is over 60 days back
  ownerUnlocks,  \* owner_unlocks (user_id, lead_key)
  reports,       \* lead_reports (user_id, lead_key)
  call,          \* what each request is doing
  moved          \* history: net credits moved for <<user, reason, item>>

tables == <<credits, entries, booked, unlocks, aged, ownerUnlocks, reports, moved>>
vars == <<credits, entries, booked, unlocks, aged, ownerUnlocks, reports, call, moved>>

Reasons == {"grant", "spend", "unlock", "owner_reveal", "lead_refund"}
Items == Keys \cup GrantRefs \cup SpendRefs

Ops == {"unlock_lead", "unlock_owner", "unlock_leads_bulk", "spend_credits",
        "report_lead", "admin_revoke"}
InFlight == {"checked", "eligible", "written"}
Answers == {"ok", "already", "insufficient", "unlocked", "refunded",
            "not_charged", "expired", "error"}

Idle == [op |-> "none"]
Requests == [op: Ops, user: Users, keys: SUBSET Keys, ref: SpendRefs \cup {NoRef},
             amount: Int, seen: Int, status: InFlight \cup Answers]

\* The schema's defaults; 3 free credits are a grant of the signup route, not a default.
Init ==
  /\ credits = [u \in Users |-> 0]
  /\ entries = {}
  /\ booked = [u \in Users |-> 0]
  /\ unlocks = {}
  /\ aged = {}
  /\ ownerUnlocks = {}
  /\ reports = {}
  /\ call = [c \in Calls |-> Idle]
  /\ moved = [x \in Users \X Reasons \X Items |-> 0]

-----------------------------------------------------------------------------
(* Building blocks *)

Starts(c, op, u, K, ref, n, seen, status) ==
  /\ call[c] = Idle
  /\ call' = [call EXCEPT ![c] =
                [op |-> op, user |-> u, keys |-> K, ref |-> ref,
                 amount |-> n, seen |-> seen, status |-> status]]

Is(c, op, status) == call[c] # Idle /\ call[c].op = op /\ call[c].status = status

Answer(c, status) == call' = [call EXCEPT ![c].status = status]

\* INSERT INTO credit_ledger ... ON CONFLICT DO NOTHING
Post(u, reason, ref, delta) ==
  /\ entries' = entries \cup {<<u, reason, ref>>}
  /\ booked' = IF <<u, reason, ref>> \in entries THEN booked
               ELSE [booked EXCEPT ![u] = @ + delta]

\* UPDATE profiles SET credits = credits + delta
Apply(u, reason, item, delta) ==
  /\ credits' = [credits EXCEPT ![u] = @ + delta]
  /\ moved' = [moved EXCEPT ![<<u, reason, item>>] = @ + delta]

\* WHERE credits >= n, re-evaluated under the row lock
CanPay(u, n) == credits[u] >= n

\* The checks the functions start with: is the business already open?
OpenedOrRevealed(u, k) == <<u, k>> \in unlocks \cup ownerUnlocks
Opened(u, k) == <<u, k>> \in unlocks

\* v_keys: what a batch still has to pay for
Locked(u, K) == {k \in K : ~Opened(u, k)}

\* Math.max(0, before + delta)
Unclamped(u, d) == credits[u] - d
Clamped(u, d) == IF credits[u] > d THEN credits[u] - d ELSE 0

\* The unique indexes, as an INSERT meets them: a row that has committed conflicts.
LeadMissed(u, k) == FALSE
LeadConflict(u, k) == <<u, k>> \in unlocks

OwnerConflict(u, k) == <<u, k>> \in ownerUnlocks

ReportMissed(u, k) == FALSE
ReportConflict(u, k) == <<u, k>> \in reports

RefMissed(u, reason, ref) == FALSE
RefConflict(u, reason, ref) == <<u, reason, ref>> \in entries

-----------------------------------------------------------------------------
(* grant_credits: the ledger insert claims the reference first, and a second      *)
(* claim waits on the unique index for the first to commit: one step.             *)
GrantCredits(u, r) ==
  /\ Granted[r] > 0
  /\ ~RefConflict(u, "grant", r)
  /\ Post(u, "grant", r, Granted[r])
  /\ Apply(u, "grant", r, Granted[r])
  /\ UNCHANGED <<unlocks, aged, ownerUnlocks, reports, call>>

(* unlock_lead *)
UnlockLeadCheck(c, u, k) ==
  /\ Starts(c, "unlock_lead", u, {k}, NoRef, 1, 0,
            IF Opened(u, k) THEN "already" ELSE "checked")
  /\ UNCHANGED tables

UnlockLeadTake(c, u, k) ==
  /\ Is(c, "unlock_lead", "checked")
  /\ u = call[c].user /\ call[c].keys = {k}
  /\ \/ /\ ~CanPay(u, 1)
        /\ Answer(c, "insufficient")
        /\ UNCHANGED tables
     \/ /\ CanPay(u, 1)
        /\ LeadConflict(u, k)          \* unique_violation: taken, then put back
        /\ Answer(c, "already")
        /\ UNCHANGED tables
     \/ /\ CanPay(u, 1)
        /\ ~LeadConflict(u, k)
        /\ unlocks' = unlocks \cup {<<u, k>>}
        /\ Apply(u, "unlock", k, -1)
        /\ Post(u, "unlock", k, -1)
        /\ Answer(c, "unlocked")
        /\ UNCHANGED <<aged, ownerUnlocks, reports>>

(* unlock_owner: like unlock_lead, but its ledger insert tolerates no conflict,   *)
(* and a conflict rolls the whole transaction back.                               *)
UnlockOwnerCheck(c, u, k) ==
  /\ Starts(c, "unlock_owner", u, {k}, NoRef, 1, 0,
            IF <<u, k>> \in ownerUnlocks THEN "already" ELSE "checked")
  /\ UNCHANGED tables

UnlockOwnerTake(c, u, k) ==
  /\ Is(c, "unlock_owner", "checked")
  /\ u = call[c].user /\ call[c].keys = {k}
  /\ \/ /\ ~CanPay(u, 1)
        /\ Answer(c, "insufficient")
        /\ UNCHANGED tables
     \/ /\ CanPay(u, 1)
        /\ OwnerConflict(u, k)
        /\ Answer(c, "already")
        /\ UNCHANGED tables
     \/ /\ CanPay(u, 1)
        /\ ~OwnerConflict(u, k)
        /\ RefConflict(u, "owner_reveal", k)
        /\ Answer(c, "error")
        /\ UNCHANGED tables
     \/ /\ CanPay(u, 1)
        /\ ~OwnerConflict(u, k)
        /\ ~RefConflict(u, "owner_reveal", k)
        /\ ownerUnlocks' = ownerUnlocks \cup {<<u, k>>}
        /\ Apply(u, "owner_reveal", k, -1)
        /\ Post(u, "owner_reveal", k, -1)
        /\ Answer(c, "unlocked")
        /\ UNCHANGED <<unlocks, aged, reports>>

(* unlock_leads_bulk: v_keys is read before the lock, and a key opened since then *)
(* is paid for again: the insert skips it and no credit is put back.  The ledger  *)
(* row has no ref.                                                                *)
BulkCheck(c, u, K) ==
  LET locked == Locked(u, K) IN
  /\ Starts(c, "unlock_leads_bulk", u, locked, NoRef, Cardinality(locked), 0,
            IF locked = {} THEN "ok" ELSE "checked")
  /\ UNCHANGED tables

BulkTake(c) ==
  LET u == call[c].user
      K == call[c].keys
      needed == call[c].amount IN
  /\ Is(c, "unlock_leads_bulk", "checked")
  /\ \/ /\ ~CanPay(u, needed)
        /\ Answer(c, "insufficient")
        /\ UNCHANGED tables
     \/ /\ CanPay(u, needed)
        /\ credits' = [credits EXCEPT ![u] = @ - needed]
        /\ moved' = [x \in DOMAIN moved |->
                       IF x[1] = u /\ x[2] = "unlock" /\ x[3] \in K
                       THEN moved[x] - 1 ELSE moved[x]]
        /\ unlocks' = unlocks \cup ({u} \X K)
        /\ booked' = [booked EXCEPT ![u] = @ - needed]
        /\ Answer(c, "ok")
        /\ UNCHANGED <<entries, aged, ownerUnlocks, reports>>

(* spend_credits *)
SpendCheck(c, u, r, n) ==
  /\ Starts(c, "spend_credits", u, {}, r, n, 0,
            IF n <= 0 THEN "ok"
            ELSE IF <<u, "spend", r>> \in entries THEN "already" ELSE "checked")
  /\ UNCHANGED tables

SpendTake(c, u, r) ==
  LET n == call[c].amount IN
  /\ Is(c, "spend_credits", "checked")
  /\ u = call[c].user /\ r = call[c].ref
  /\ \/ /\ ~CanPay(u, n)
        /\ Answer(c, "insufficient")
        /\ UNCHANGED tables
     \/ /\ CanPay(u, n)
        /\ RefConflict(u, "spend", r)    \* unique_violation: put back
        /\ Answer(c, "already")
        /\ UNCHANGED tables
     \/ /\ CanPay(u, n)
        /\ ~RefConflict(u, "spend", r)
        /\ Apply(u, "spend", r, -n)
        /\ Post(u, "spend", r, -n)
        /\ Answer(c, "ok")
        /\ UNCHANGED <<unlocks, aged, ownerUnlocks, reports>>

(* report_lead: `amount` is v_back.  The report row is unique too: a second       *)
(* insert raises, and the transaction with its refund is rolled back.             *)
ReportCheck(c, u, k) ==
  /\ Starts(c, "report_lead", u, {k}, NoRef, 0, 0,
            IF <<u, k>> \in reports THEN "already" ELSE "checked")
  /\ UNCHANGED tables

ReportRead(c, u, k, notOwner) ==
  /\ Is(c, "report_lead", "checked")
  /\ u = call[c].user /\ call[c].keys = {k}
  /\ \/ /\ <<u, k>> \notin unlocks \/ <<u, k>> \in aged
        /\ Answer(c, IF <<u, k>> \in reports THEN "error"
                     ELSE IF <<u, k>> \in aged THEN "expired" ELSE "not_charged")
        /\ reports' = reports \cup {<<u, k>>}
        /\ UNCHANGED <<credits, entries, booked, unlocks, aged, ownerUnlocks, moved>>
     \/ /\ <<u, k>> \in unlocks \ aged
        /\ call' = [call EXCEPT ![c].status = "eligible",
                                ![c].amount = IF notOwner /\ <<u, k>> \in ownerUnlocks
                                              THEN 2 ELSE 1]
        /\ UNCHANGED tables

ReportRefund(c, u, k) ==
  LET back == call[c].amount IN
  /\ Is(c, "report_lead", "eligible")
  /\ u = call[c].user /\ call[c].keys = {k}
  /\ \/ /\ ReportConflict(u, k)
        /\ Answer(c, "error")
        /\ UNCHANGED tables
     \/ /\ ~ReportConflict(u, k)
        /\ reports' = reports \cup {<<u, k>>}
        /\ Apply(u, "lead_refund", k, back)
        /\ Post(u, "lead_refund", k, back)
        /\ Answer(c, "refunded")
        /\ UNCHANGED <<unlocks, aged, ownerUnlocks>>

(* The admin entitlement route: three calls, no transaction.  `seen` is the       *)
(* balance it read, `amount` the balance it will write.                           *)
AdminRevokeRead(c, u, d) ==
  /\ Starts(c, "admin_revoke", u, {}, NoRef,
            Clamped(u, d), credits[u], "checked")
  /\ UNCHANGED tables

AdminRevokeWrite(c) ==
  /\ Is(c, "admin_revoke", "checked")
  /\ credits' = [credits EXCEPT ![call[c].user] = call[c].amount]
  /\ Answer(c, IF call[c].amount = call[c].seen THEN "ok" ELSE "written")
  /\ UNCHANGED <<entries, booked, unlocks, aged, ownerUnlocks, reports, moved>>

AdminRevokeBook(c) ==
  /\ Is(c, "admin_revoke", "written")
  /\ booked' = [booked EXCEPT ![call[c].user] = @ + (call[c].amount - call[c].seen)]
  /\ Answer(c, "ok")
  /\ UNCHANGED <<credits, entries, unlocks, aged, ownerUnlocks, reports, moved>>

(* A request ends: its answer is delivered or lost, or it is cut off in flight,   *)
(* which rolls an open transaction back.  The caller may ask again.               *)
Finish(c) ==
  /\ call[c] # Idle
  /\ call' = [call EXCEPT ![c] = Idle]
  /\ UNCHANGED tables

(* Sixty days pass for an unlock. *)

GrowOld(u, k) ==
  /\ <<u, k>> \in unlocks \ aged
  /\ aged' = aged \cup {<<u, k>>}
  /\ UNCHANGED <<credits, entries, booked, unlocks, ownerUnlocks, reports, call, moved>>

-----------------------------------------------------------------------------
LeadStep(c, u, k) ==
  \/ UnlockLeadCheck(c, u, k)
  \/ UnlockLeadTake(c, u, k)
  \/ UnlockOwnerCheck(c, u, k)
  \/ UnlockOwnerTake(c, u, k)
  \/ ReportCheck(c, u, k)
  \/ \E notOwner \in BOOLEAN : ReportRead(c, u, k, notOwner)
  \/ ReportRefund(c, u, k)

CallStep(c) ==
  \/ \E u \in Users :
       \/ \E k \in Keys : LeadStep(c, u, k)
       \/ \E K \in Batches : BulkCheck(c, u, K)
       \/ \E r \in SpendRefs :
            \/ \E n \in SpendAmounts : SpendCheck(c, u, r, n)
            \/ SpendTake(c, u, r)
       \/ \E d \in Revokes : AdminRevokeRead(c, u, d)
  \/ BulkTake(c)
  \/ AdminRevokeWrite(c)
  \/ AdminRevokeBook(c)
  \/ Finish(c)

Next ==
  \/ \E c \in Calls : CallStep(c)
  \/ \E u \in Users, r \in GrantRefs : GrantCredits(u, r)
  \/ \E u \in Users, k \in Keys : GrowOld(u, k)

Spec == Init /\ [][Next]_vars

-----------------------------------------------------------------------------
(* Properties *)

TypeOK ==
  /\ credits \in [Users -> Int]
  /\ booked \in [Users -> Int]
  /\ entries \subseteq Users \X Reasons \X Items
  /\ unlocks \subseteq Users \X Keys
  /\ aged \subseteq unlocks
  /\ ownerUnlocks \subseteq Users \X Keys
  /\ reports \subseteq Users \X Keys
  /\ call \in [Calls -> Requests \cup {Idle}]
  /\ moved \in [Users \X Reasons \X Items -> Int]

\* No interleaving of requests takes a balance below zero: the CHECK on profiles
\* (006:26-33) is a second line that is never reached, so no charge fails on it.
NonNegative == \A u \in Users : credits[u] >= 0

\* "Every movement is also written to credit_ledger, so a balance can always be
\* reconciled against its history" (006:14-16): no charge put back after a lost race,
\* no tolerated conflict and no rolled back refund leaves the two apart.
Reconciles == \A u \in Users : credits[u] = booked[u]

\* A double click, a retry or two tabs never charge twice for the same business, nor
\* for its owner (006:9-12, 010): over any history at most one credit has gone.
PaidOnce ==
  \A u \in Users, k \in Keys :
    /\ moved[<<u, "unlock", k>>] \in {-1, 0}
    /\ moved[<<u, "owner_reveal", k>>] \in {-1, 0}

\* A reference moves credits once: a redelivered grant adds nothing (006:111-114), and
\* a retried list is charged one of the amounts it was asked for, never two (012:16-18).
MovedOnce ==
  \A u \in Users :
    /\ \A r \in GrantRefs : moved[<<u, "grant", r>>] \in {0, Granted[r]}
    /\ \A r \in SpendRefs :
         moved[<<u, "spend", r>>] \in {0} \cup {-n : n \in SpendAmounts}

\* A business never gives back more than was taken for it, lead and owner together,
\* however reports race each other and the charges they refund (031:165-178).
RefundWithinCharge ==
  \A u \in Users, k \in Keys :
    moved[<<u, "lead_refund", k>>] + moved[<<u, "unlock", k>>]
      + moved[<<u, "owner_reveal", k>>] <= 0

\* A caller told that what it asked for is paid ("unlocked", "already", or "ok" for a
\* batch) can open every business it named, whichever request won.
AnswerOpensAt(c) ==
  call[c] # Idle =>
    /\ call[c].op = "unlock_lead" /\ call[c].status \in {"unlocked", "already"}
         => {call[c].user} \X call[c].keys \subseteq unlocks
    /\ call[c].op = "unlock_leads_bulk" /\ call[c].status = "ok"
         => {call[c].user} \X call[c].keys \subseteq unlocks
    /\ call[c].op = "unlock_owner" /\ call[c].status \in {"unlocked", "already"}
         => {call[c].user} \X call[c].keys \subseteq ownerUnlocks

AnswerOpens == \A c \in Calls : AnswerOpensAt(c)

\* What the requests in flight rely on: a refund that was found due still is when it is
\* paid, and a charge is for a sum that was asked for.
RequestSound(c) ==
  call[c] # Idle =>
    /\ call[c].op = "report_lead" /\ call[c].status = "eligible" =>
         /\ call[c].amount \in {1, 2}
         /\ {call[c].user} \X call[c].keys \subseteq unlocks
         /\ call[c].amount = 2 => {call[c].user} \X call[c].keys \subseteq ownerUnlocks
    /\ call[c].op = "spend_credits" =>
         /\ call[c].amount \in SpendAmounts
         /\ call[c].status = "checked" => call[c].amount > 0
    /\ call[c].op = "admin_revoke" => call[c].amount >= 0 /\ Revokes # {}
    /\ call[c].op = "unlock_leads_bulk" => Batches # {}

RequestsSound == \A c \in Calls : RequestSound(c)

\* The ledger, the tables and the history of charges agree on every business.
TablesMatchAt(u, k) ==
  /\ <<u, "unlock", k>> \in entries => <<u, k>> \in unlocks
  /\ <<u, "owner_reveal", k>> \in entries => <<u, k>> \in ownerUnlocks
  /\ <<u, "lead_refund", k>> \in entries => <<u, k>> \in reports
  /\ moved[<<u, "unlock", k>>] <= IF <<u, k>> \in unlocks THEN -1 ELSE 0
  /\ moved[<<u, "owner_reveal", k>>] = IF <<u, k>> \in ownerUnlocks THEN -1 ELSE 0
  /\ <<u, k>> \notin reports => moved[<<u, "lead_refund", k>>] = 0

TablesMatch == \A u \in Users, k \in Keys : TablesMatchAt(u, k)

\* A reference that is not in the ledger has moved nothing.
RefsMatch ==
  \A u \in Users :
    /\ \A r \in GrantRefs :
         <<u, "grant", r>> \notin entries => moved[<<u, "grant", r>>] = 0
    /\ \A r \in SpendRefs :
         <<u, "spend", r>> \notin entries => moved[<<u, "spend", r>>] = 0

\* Without exports, an account has paid for exactly the businesses it holds.
UnlocksPaid ==
  \A u \in Users, k \in Keys :
    moved[<<u, "unlock", k>>] = IF <<u, k>> \in unlocks THEN -1 ELSE 0

\* The inductive invariant the proofs rest on: the properties above, and what the
\* requests in flight and the tables must agree on for every step to preserve them.  It
\* keeps a charge put back, a tolerated conflict and a rolled back refund from leaving
\* an unlock, its ledger row and the balance apart (006:209-229, 031:180-193).
CreditInv ==
  /\ RequestsSound
  /\ NonNegative
  /\ TablesMatch
  /\ RefsMatch
  /\ MovedOnce
  /\ RefundWithinCharge
  /\ AnswerOpens
  /\ Revokes = {} => Reconciles
  /\ Batches = {} => UnlocksPaid

\* The functions implement what the credit system promises an account (CreditBook).
Book == INSTANCE CreditBook WITH
          balance <- credits, opened <- unlocks, revealed <- ownerUnlocks,
          claimed <- entries

BookSpec == Book!Spec
=============================================================================
