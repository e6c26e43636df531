---------------------------- MODULE CreditProofs ----------------------------
(***************************************************************************)
(* Theorems about CreditLedger, for any accounts, businesses, requests and *)
(* amounts, and about TeamWallet, for any people, teams, businesses,       *)
(* purchases and requests in flight on the wallets and on the teams.  Each *)
(* about the ledger states which of the two unguarded paths has to be off  *)
(* for it to hold: Batches = {} (no exports), Revokes = {} (no admin       *)
(* correction by hand).                                                    *)
(***************************************************************************)
EXTENDS TeamWallet, FunctionTheorems, FiniteSetTheorems, WellFoundedInduction, TLAPS

-----------------------------------------------------------------------------
(* Type correctness *)

\* A request enters with well-typed fields.
LEMMA StartsType ==
  ASSUME TypeOK, NEW c \in Calls, NEW op \in Ops, NEW u \in Users,
         NEW K \in SUBSET Keys, NEW ref \in SpendRefs \cup {NoRef},
         NEW n \in Int, NEW seen \in Int, NEW status \in InFlight \cup Answers,
         Starts(c, op, u, K, ref, n, seen, status)
  PROVE  call' \in [Calls -> Requests \cup {Idle}]
BY DEF TypeOK, Starts, Requests

\* A request that is running is a record of Requests.
LEMMA RequestType ==
  ASSUME TypeOK, NEW c \in Calls, call[c] # Idle
  PROVE  call[c] \in Requests
BY DEF TypeOK

\* Answering keeps the other fields.
LEMMA AnswerType ==
  ASSUME TypeOK, NEW c \in Calls, call[c] # Idle,
         NEW status \in InFlight \cup Answers, Answer(c, status)
  PROVE  call' \in [Calls -> Requests \cup {Idle}]
BY RequestType DEF TypeOK, Answer, Requests

LEMMA ApplyType ==
  ASSUME TypeOK, NEW u \in Users, NEW reason \in Reasons, NEW item \in Items,
         NEW delta \in Int, Apply(u, reason, item, delta)
  PROVE  /\ credits' \in [Users -> Int]
         /\ moved' \in [Users \X Reasons \X Items -> Int]
BY DEF TypeOK, Apply

LEMMA PostType ==
  ASSUME TypeOK, NEW u \in Users, NEW reason \in Reasons, NEW ref \in Items,
         NEW delta \in Int, Post(u, reason, ref, delta)
  PROVE  /\ entries' \subseteq Users \X Reasons \X Items
         /\ booked' \in [Users -> Int]
BY DEF TypeOK, Post

LEMMA TypeInit == Init => TypeOK
BY CreditAssumption DEF Init, TypeOK

LEMMA TypeNext == TypeOK /\ [Next]_vars => TypeOK'
<1> SUFFICES ASSUME TypeOK, [Next]_vars PROVE TypeOK'
  OBVIOUS
<1> USE CreditAssumption
<1>a. \A k \in Keys : k \in Items /\ {k} \in SUBSET Keys
  BY DEF Items
<1>b. \A r \in GrantRefs \cup SpendRefs : r \in Items
  BY DEF Items
<1>c. 0 \in Int /\ 1 \in Int /\ -1 \in Int
  OBVIOUS
<1>1. ASSUME NEW u \in Users, NEW r \in GrantRefs, GrantCredits(u, r)
      PROVE  TypeOK'
  <2>1. Granted[r] \in Int /\ "grant" \in Reasons /\ r \in Items
    BY <1>b DEF Reasons
  <2>2. Post(u, "grant", r, Granted[r]) /\ Apply(u, "grant", r, Granted[r])
    BY <1>1 DEF GrantCredits
  <2> QED
    BY <1>1, <2>1, <2>2, PostType, ApplyType DEF GrantCredits, TypeOK
<1>2. ASSUME NEW u \in Users, NEW k \in Keys, GrowOld(u, k)
      PROVE  TypeOK'
  BY <1>2 DEF GrowOld, TypeOK
<1>3. ASSUME NEW c \in Calls, NEW u \in Users, NEW k \in Keys, LeadStep(c, u, k)
      PROVE  TypeOK'
  <2> USE <1>a, <1>c
  <2>1. CASE UnlockLeadCheck(c, u, k)
    <3> DEFINE s == IF Opened(u, k) THEN "already" ELSE "checked"
    <3>1. s \in InFlight \cup Answers
      BY DEF InFlight, Answers
    <3>2. \E n \in Int : Starts(c, "unlock_lead", u, {k}, NoRef, n, 0, s)
      BY <2>1 DEF UnlockLeadCheck
    <3> HIDE DEF s
    <3>3. call' \in [Calls -> Requests \cup {Idle}]
      BY <3>1, <3>2, StartsType DEF Ops
    <3> QED
      BY <2>1, <3>3 DEF UnlockLeadCheck, tables, TypeOK
  <2>2. CASE UnlockLeadTake(c, u, k)
    <3>1. Post(u, "unlock", k, -1) => entries' \subseteq Users \X Reasons \X Items
                                      /\ booked' \in [Users -> Int]
      BY PostType DEF Reasons
    <3>2. Apply(u, "unlock", k, -1) => credits' \in [Users -> Int]
                                 /\ moved' \in [Users \X Reasons \X Items -> Int]
      BY ApplyType DEF Reasons
    <3>3. call' \in [Calls -> Requests \cup {Idle}]
      BY <2>2, AnswerType DEF UnlockLeadTake, Is, Answers
    <3> QED
      BY <2>2, <3>1, <3>2, <3>3 DEF UnlockLeadTake, tables, TypeOK
  <2>3. CASE UnlockOwnerCheck(c, u, k)
    <3> DEFINE s == IF <<u, k>> \in ownerUnlocks THEN "already" ELSE "checked"
    <3>1. s \in InFlight \cup Answers
      BY DEF InFlight, Answers
    <3>2. \E n \in Int : Starts(c, "unlock_owner", u, {k}, NoRef, n, 0, s)
      BY <2>3 DEF UnlockOwnerCheck
    <3> HIDE DEF s
    <3>3. call' \in [Calls -> Requests \cup {Idle}]
      BY <3>1, <3>2, StartsType DEF Ops
    <3> QED
      BY <2>3, <3>3 DEF UnlockOwnerCheck, tables, TypeOK
  <2>4. CASE UnlockOwnerTake(c, u, k)
    <3>1. Post(u, "owner_reveal", k, -1) => entries' \subseteq Users \X Reasons \X Items
                                            /\ booked' \in [Users -> Int]
      BY PostType DEF Reasons
    <3>2. Apply(u, "owner_reveal", k, -1) => credits' \in [Users -> Int]
                                 /\ moved' \in [Users \X Reasons \X Items -> Int]
      BY ApplyType DEF Reasons
    <3>3. call' \in [Calls -> Requests \cup {Idle}]
      BY <2>4, AnswerType DEF UnlockOwnerTake, Is, Answers
    <3> QED
      BY <2>4, <3>1, <3>2, <3>3 DEF UnlockOwnerTake, tables, TypeOK
  <2>5. CASE ReportCheck(c, u, k)
    <3> DEFINE s == IF <<u, k>> \in reports THEN "already" ELSE "checked"
    <3>1. s \in InFlight \cup Answers
      BY DEF InFlight, Answers
    <3>2. \E n \in Int : Starts(c, "report_lead", u, {k}, NoRef, n, 0, s)
      BY <2>5 DEF ReportCheck
    <3> HIDE DEF s
    <3>3. call' \in [Calls -> Requests \cup {Idle}]
      BY <3>1, <3>2, StartsType DEF Ops
    <3> QED
      BY <2>5, <3>3 DEF ReportCheck, tables, TypeOK
  <2>6. ASSUME NEW notOwner \in BOOLEAN, ReportRead(c, u, k, notOwner)
        PROVE  TypeOK'
    <3>1. call[c] \in Requests
      BY <2>6, RequestType DEF ReportRead, Is
    <3>2. ASSUME NEW s, s \in Answers, Answer(c, s)
          PROVE  call' \in [Calls -> Requests \cup {Idle}]
      BY <2>6, <3>2, AnswerType DEF ReportRead, Is
    <3>3. ASSUME NEW n \in Int,
                 call' = [call EXCEPT ![c].status = "eligible", ![c].amount = n]
          PROVE  call' \in [Calls -> Requests \cup {Idle}]
      BY <3>1, <3>3 DEF TypeOK, Requests, InFlight
    <3>4. call' \in [Calls -> Requests \cup {Idle}]
      BY <2>6, <3>2, <3>3 DEF ReportRead, Answers
    <3> QED
      BY <2>6, <3>4 DEF ReportRead, tables, TypeOK
  <2>7. CASE ReportRefund(c, u, k)
    <3>0. call[c].amount \in Int
      BY <2>7, RequestType DEF ReportRefund, Is, Requests
    <3>1. Post(u, "lead_refund", k, call[c].amount)
            => entries' \subseteq Users \X Reasons \X Items /\ booked' \in [Users -> Int]
      BY <3>0, PostType DEF Reasons
    <3>2. Apply(u, "lead_refund", k, call[c].amount)
            => /\ credits' \in [Users -> Int]
               /\ moved' \in [Users \X Reasons \X Items -> Int]
      BY <3>0, ApplyType DEF Reasons
    <3>3. call' \in [Calls -> Requests \cup {Idle}]
      BY <2>7, AnswerType DEF ReportRefund, Is, Answers
    <3> QED
      BY <2>7, <3>1, <3>2, <3>3 DEF ReportRefund, tables, TypeOK
  <2> QED
    BY <1>3, <2>1, <2>2, <2>3, <2>4, <2>5, <2>6, <2>7 DEF LeadStep
<1>4. ASSUME NEW c \in Calls, NEW u \in Users, NEW K \in Batches, BulkCheck(c, u, K)
      PROVE  TypeOK'
  <2> DEFINE locked == Locked(u, K)
  <2>1. locked \in SUBSET Keys /\ Cardinality(locked) \in Int
    <3>1. locked \in SUBSET Keys
      BY DEF Locked
    <3>2. IsFiniteSet(locked)
      BY <3>1, FS_Subset
    <3> QED
      BY <3>1, <3>2, FS_CardinalityType
  <2>2. Starts(c, "unlock_leads_bulk", u, locked, NoRef, Cardinality(locked), 0,
               IF locked = {} THEN "ok" ELSE "checked")
    BY <1>4 DEF BulkCheck
  <2> HIDE DEF locked
  <2>3. call' \in [Calls -> Requests \cup {Idle}]
    BY <1>c, <2>1, <2>2, StartsType DEF Ops, InFlight, Answers
  <2> QED
    BY <1>4, <2>3 DEF BulkCheck, tables, TypeOK
<1>5. ASSUME NEW c \in Calls, BulkTake(c)
      PROVE  TypeOK'
  <2>1. call[c] \in Requests
    BY <1>5, RequestType DEF BulkTake, Is
  <2>2. call' \in [Calls -> Requests \cup {Idle}]
    BY <1>5, AnswerType DEF BulkTake, Is, Answers
  <2> QED
    BY <1>5, <2>1, <2>2 DEF BulkTake, tables, TypeOK, Requests
<1>6. ASSUME NEW c \in Calls, NEW u \in Users, NEW r \in SpendRefs,
             NEW n \in SpendAmounts, SpendCheck(c, u, r, n)
      PROVE  TypeOK'
  <2> DEFINE s == IF n <= 0 THEN "ok"
                  ELSE IF <<u, "spend", r>> \in entries THEN "already" ELSE "checked"
  <2>1. s \in InFlight \cup Answers /\ n \in Int
    BY DEF InFlight, Answers
  <2>2. Starts(c, "spend_credits", u, {}, r, n, 0, s)
    BY <1>6 DEF SpendCheck
  <2> HIDE DEF s
  <2>3. call' \in [Calls -> Requests \cup {Idle}]
    BY <1>c, <2>1, <2>2, StartsType DEF Ops
  <2> QED
    BY <1>6, <2>3 DEF SpendCheck, tables, TypeOK
<1>7. ASSUME NEW c \in Calls, NEW u \in Users, NEW r \in SpendRefs, SpendTake(c, u, r)
      PROVE  TypeOK'
  <2>0. call[c].amount \in Int /\ -call[c].amount \in Int
    BY <1>7, RequestType DEF SpendTake, Is, Requests
  <2>1. Post(u, "spend", r, -call[c].amount)
          => entries' \subseteq Users \X Reasons \X Items /\ booked' \in [Users -> Int]
    BY <1>b, <2>0, PostType DEF Reasons
  <2>2. Apply(u, "spend", r, -call[c].amount)
          => /\ credits' \in [Users -> Int]
             /\ moved' \in [Users \X Reasons \X Items -> Int]
    BY <1>b, <2>0, ApplyType DEF Reasons
  <2>3. call' \in [Calls -> Requests \cup {Idle}]
    BY <1>7, AnswerType DEF SpendTake, Is, Answers
  <2> QED
    BY <1>7, <2>1, <2>2, <2>3 DEF SpendTake, tables, TypeOK
<1>8. ASSUME NEW c \in Calls, NEW u \in Users, NEW d \in Revokes, AdminRevokeRead(c, u, d)
      PROVE  TypeOK'
  <2> DEFINE after == Clamped(u, d)
  <2>1. credits[u] \in Int /\ after \in Int
    BY DEF TypeOK, Clamped
  <2>2. Starts(c, "admin_revoke", u, {}, NoRef, after, credits[u], "checked")
    BY <1>8 DEF AdminRevokeRead
  <2> HIDE DEF after
  <2>3. call' \in [Calls -> Requests \cup {Idle}]
    BY <2>1, <2>2, StartsType DEF Ops, InFlight
  <2> QED
    BY <1>8, <2>3 DEF AdminRevokeRead, tables, TypeOK
<1>9. ASSUME NEW c \in Calls, AdminRevokeWrite(c) \/ AdminRevokeBook(c)
      PROVE  TypeOK'
  <2>1. call[c] \in Requests
    BY <1>9, RequestType DEF AdminRevokeWrite, AdminRevokeBook, Is
  <2>2. call' \in [Calls -> Requests \cup {Idle}]
    BY <1>9, AnswerType DEF AdminRevokeWrite, AdminRevokeBook, Is, Answers, InFlight
  <2> QED
    BY <1>9, <2>1, <2>2 DEF AdminRevokeWrite, AdminRevokeBook, TypeOK, Requests
<1>10. ASSUME NEW c \in Calls, Finish(c)
       PROVE  TypeOK'
  BY <1>10 DEF Finish, tables, TypeOK
<1>11. CASE UNCHANGED vars
  BY <1>11 DEF vars, TypeOK
<1> QED
  BY <1>1, <1>2, <1>3, <1>4, <1>5, <1>6, <1>7, <1>8, <1>9, <1>10, <1>11
  DEF Next, CallStep

\* Every table, request and history keeps its type in every reachable state.
THEOREM TypeCorrect == Spec => []TypeOK
BY TypeInit, TypeNext, PTL DEF Spec

-----------------------------------------------------------------------------
(* What a step can do to the tables, whoever takes it *)

Unlocks(u, k) ==
  /\ credits[u] >= 1
  /\ <<u, k>> \notin unlocks
  /\ unlocks' = unlocks \cup {<<u, k>>}
  /\ Apply(u, "unlock", k, -1)
  /\ Post(u, "unlock", k, -1)
  /\ UNCHANGED <<aged, ownerUnlocks, reports>>

Reveals(u, k) ==
  /\ credits[u] >= 1
  /\ <<u, k>> \notin ownerUnlocks
  /\ <<u, "owner_reveal", k>> \notin entries
  /\ ownerUnlocks' = ownerUnlocks \cup {<<u, k>>}
  /\ Apply(u, "owner_reveal", k, -1)
  /\ Post(u, "owner_reveal", k, -1)
  /\ UNCHANGED <<unlocks, aged, reports>>

Exports(u, K, n) ==
  /\ Batches # {}
  /\ credits[u] >= n
  /\ credits' = [credits EXCEPT ![u] = @ - n]
  /\ moved' = [x \in DOMAIN moved |->
                 IF x[1] = u /\ x[2] = "unlock" /\ x[3] \in K
                 THEN moved[x] - 1 ELSE moved[x]]
  /\ unlocks' = unlocks \cup ({u} \X K)
  /\ booked' = [booked EXCEPT ![u] = @ - n]
  /\ UNCHANGED <<entries, aged, ownerUnlocks, reports>>

Spends(u, r, n) ==
  /\ n > 0
  /\ credits[u] >= n
  /\ <<u, "spend", r>> \notin entries
  /\ Apply(u, "spend", r, -n)
  /\ Post(u, "spend", r, -n)
  /\ UNCHANGED <<unlocks, aged, ownerUnlocks, reports>>

Grants(u, r) ==
  /\ Granted[r] > 0
  /\ <<u, "grant", r>> \notin entries
  /\ Post(u, "grant", r, Granted[r])
  /\ Apply(u, "grant", r, Granted[r])
  /\ UNCHANGED <<unlocks, aged, ownerUnlocks, reports>>

Refunds(u, k, n) ==
  /\ n = 1 \/ (n = 2 /\ <<u, k>> \in ownerUnlocks)
  /\ <<u, k>> \in unlocks
  /\ <<u, k>> \notin reports
  /\ reports' = reports \cup {<<u, k>>}
  /\ Apply(u, "lead_refund", k, n)
  /\ Post(u, "lead_refund", k, n)
  /\ UNCHANGED <<unlocks, aged, ownerUnlocks>>

\* A report that refunds nothing, or an unlock that grows old.
Notes ==
  /\ reports \subseteq reports'
  /\ UNCHANGED <<credits, entries, booked, unlocks, ownerUnlocks, moved>>

Corrects(u, n) ==
  /\ Revokes # {}
  /\ n >= 0
  /\ credits' = [credits EXCEPT ![u] = n]
  /\ UNCHANGED <<entries, booked, unlocks, aged, ownerUnlocks, reports, moved>>

Books(u, n) ==
  /\ Revokes # {}
  /\ booked' = [booked EXCEPT ![u] = @ + n]
  /\ UNCHANGED <<credits, entries, unlocks, aged, ownerUnlocks, reports, moved>>

Effect ==
  \/ UNCHANGED tables
  \/ Notes
  \/ \E u \in Users :
       \/ \E k \in Keys : Unlocks(u, k) \/ Reveals(u, k)
       \/ \E k \in Keys, n \in Int : Refunds(u, k, n)
       \/ \E r \in GrantRefs : Grants(u, r)
       \/ \E r \in SpendRefs, n \in SpendAmounts : Spends(u, r, n)
       \/ \E K \in SUBSET Keys, n \in Int : Exports(u, K, n)
       \/ \E n \in Int : Corrects(u, n) \/ Books(u, n)

\* Every step of the specification has one of these effects.
LEMMA StepEffect == TypeOK /\ RequestsSound /\ [Next]_vars => Effect
<1> SUFFICES ASSUME TypeOK, RequestsSound, [Next]_vars PROVE Effect
  OBVIOUS
<1>1. ASSUME NEW u \in Users, NEW r \in GrantRefs, GrantCredits(u, r)
      PROVE  Effect
  BY <1>1 DEF GrantCredits, RefConflict, Grants, Effect
<1>2. ASSUME NEW u \in Users, NEW k \in Keys, GrowOld(u, k)
      PROVE  Effect
  <2>1. Notes
    BY <1>2 DEF GrowOld, Notes
  <2> QED
    BY <2>1 DEF Effect
<1>3. ASSUME NEW c \in Calls, NEW u \in Users, NEW k \in Keys, LeadStep(c, u, k)
      PROVE  Effect
  <2>1. CASE UnlockLeadCheck(c, u, k) \/ UnlockOwnerCheck(c, u, k) \/ ReportCheck(c, u, k)
    <3>1. UNCHANGED tables
      BY <2>1 DEF UnlockLeadCheck, UnlockOwnerCheck, ReportCheck
    <3> QED
      BY <3>1 DEF Effect
  <2>2. CASE UnlockLeadTake(c, u, k)
    <3>1. UNCHANGED tables \/ Unlocks(u, k)
      BY <2>2 DEF UnlockLeadTake, LeadConflict, CanPay, Unlocks
    <3> QED
      BY <3>1 DEF Effect
  <2>3. CASE UnlockOwnerTake(c, u, k)
    <3>1. UNCHANGED tables \/ Reveals(u, k)
      BY <2>3 DEF UnlockOwnerTake, OwnerConflict, RefConflict, CanPay, Reveals
    <3> QED
      BY <3>1 DEF Effect
  <2>4. ASSUME NEW notOwner \in BOOLEAN, ReportRead(c, u, k, notOwner)
        PROVE  Effect
    <3>1. UNCHANGED tables \/ Notes
      BY <2>4 DEF ReportRead, Notes
    <3> QED
      BY <3>1 DEF Effect
  <2>5. CASE ReportRefund(c, u, k)
    <3>1. /\ call[c] \in Requests
          /\ call[c].amount = 1 \/ (call[c].amount = 2 /\ <<u, k>> \in ownerUnlocks)
          /\ <<u, k>> \in unlocks
      BY <2>5, RequestType DEF ReportRefund, Is, RequestsSound, RequestSound
    <3>2. call[c].amount \in Int
      BY <3>1 DEF Requests
    <3>3. UNCHANGED tables \/ Refunds(u, k, call[c].amount)
      BY <2>5, <3>1 DEF ReportRefund, ReportConflict, Refunds
    <3> QED
      BY <3>2, <3>3 DEF Effect
  <2> QED
    BY <1>3, <2>1, <2>2, <2>3, <2>4, <2>5 DEF LeadStep
<1>4. ASSUME NEW c \in Calls, NEW u \in Users, NEW K \in Batches, BulkCheck(c, u, K)
      PROVE  Effect
  <2>1. UNCHANGED tables
    BY <1>4 DEF BulkCheck
  <2> QED
    BY <2>1 DEF Effect
<1>5. ASSUME NEW c \in Calls, BulkTake(c)
      PROVE  Effect
  <2>1. /\ call[c] \in Requests
        /\ Batches # {}
    BY <1>5, RequestType DEF BulkTake, Is, RequestsSound, RequestSound
  <2>2. call[c].user \in Users /\ call[c].keys \in SUBSET Keys /\ call[c].amount \in Int
    BY <2>1 DEF Requests
  <2>3. UNCHANGED tables \/ Exports(call[c].user, call[c].keys, call[c].amount)
    BY <1>5, <2>1 DEF BulkTake, CanPay, Exports
  <2> QED
    BY <2>2, <2>3 DEF Effect
<1>6. ASSUME NEW c \in Calls, NEW u \in Users, NEW r \in SpendRefs,
             NEW n \in SpendAmounts, SpendCheck(c, u, r, n)
      PROVE  Effect
  <2>1. UNCHANGED tables
    BY <1>6 DEF SpendCheck
  <2> QED
    BY <2>1 DEF Effect
<1>7. ASSUME NEW c \in Calls, NEW u \in Users, NEW r \in SpendRefs, SpendTake(c, u, r)
      PROVE  Effect
  <2>1. call[c].amount \in SpendAmounts /\ call[c].amount > 0
    BY <1>7 DEF SpendTake, Is, RequestsSound, RequestSound
  <2>2. UNCHANGED tables \/ Spends(u, r, call[c].amount)
    BY <1>7, <2>1 DEF SpendTake, RefConflict, CanPay, Spends
  <2> QED
    BY <2>1, <2>2 DEF Effect
<1>8. ASSUME NEW c \in Calls, NEW u \in Users, NEW d \in Revokes, AdminRevokeRead(c, u, d)
      PROVE  Effect
  <2>1. UNCHANGED tables
    BY <1>8 DEF AdminRevokeRead
  <2> QED
    BY <2>1 DEF Effect
<1>9. ASSUME NEW c \in Calls, AdminRevokeWrite(c) \/ AdminRevokeBook(c)
      PROVE  Effect
  <2>1. /\ call[c] \in Requests
        /\ Revokes # {}
        /\ call[c].amount >= 0
    BY <1>9, RequestType DEF AdminRevokeWrite, AdminRevokeBook, Is, RequestsSound, RequestSound
  <2>2. /\ call[c].user \in Users /\ call[c].amount \in Int
        /\ call[c].amount - call[c].seen \in Int
    BY <2>1 DEF Requests
  <2>3. \/ Corrects(call[c].user, call[c].amount)
        \/ Books(call[c].user, call[c].amount - call[c].seen)
    BY <1>9, <2>1 DEF AdminRevokeWrite, AdminRevokeBook, Corrects, Books
  <2> QED
    BY <2>2, <2>3 DEF Effect
<1>10. ASSUME NEW c \in Calls, Finish(c)
       PROVE  Effect
  <2>1. UNCHANGED tables
    BY <1>10 DEF Finish
  <2> QED
    BY <2>1 DEF Effect
<1>11. CASE UNCHANGED vars
  <2>1. UNCHANGED tables
    BY <1>11 DEF vars, tables
  <2> QED
    BY <2>1 DEF Effect
<1> QED
  BY <1>1, <1>2, <1>3, <1>4, <1>5, <1>6, <1>7, <1>8, <1>9, <1>10, <1>11
  DEF Next, CallStep

-----------------------------------------------------------------------------
(* The invariants over the tables, from the effects *)

\* What an export does to the history, entry by entry.
LEMMA ExportMoved ==
  ASSUME TypeOK, NEW u \in Users, NEW K \in SUBSET Keys, NEW n \in Int,
         Exports(u, K, n)
  PROVE  \A v \in Users, r \in Reasons, i \in Items :
           moved'[<<v, r, i>>] = IF v = u /\ r = "unlock" /\ i \in K
                                 THEN moved[<<v, r, i>>] - 1
                                 ELSE moved[<<v, r, i>>]
BY DEF TypeOK, Exports

\* The history holds integers.
LEMMA MovedType ==
  ASSUME TypeOK, NEW v \in Users, NEW r \in Reasons, NEW i \in Items
  PROVE  moved[<<v, r, i>>] \in Int
BY DEF TypeOK

LEMMA NonNegativeStep == TypeOK /\ NonNegative /\ Effect => NonNegative'
<1> SUFFICES ASSUME TypeOK, NonNegative, Effect PROVE NonNegative'
  OBVIOUS
<1> USE CreditAssumption
<1>1. CASE UNCHANGED tables \/ Notes
  BY <1>1 DEF tables, Notes, TypeOK, NonNegative
<1>2. ASSUME NEW u \in Users, NEW k \in Keys, Unlocks(u, k)
      PROVE  NonNegative'
  BY <1>2 DEF Unlocks, Apply, Post, TypeOK, NonNegative
<1>3. ASSUME NEW u \in Users, NEW k \in Keys, Reveals(u, k)
      PROVE  NonNegative'
  BY <1>3 DEF Reveals, Apply, Post, TypeOK, NonNegative
<1>4. ASSUME NEW u \in Users, NEW k \in Keys, NEW n \in Int, Refunds(u, k, n)
      PROVE  NonNegative'
  BY <1>4 DEF Refunds, Apply, Post, TypeOK, NonNegative
<1>5. ASSUME NEW u \in Users, NEW r \in GrantRefs, Grants(u, r)
      PROVE  NonNegative'
  BY <1>5 DEF Grants, Apply, Post, TypeOK, NonNegative
<1>6. ASSUME NEW u \in Users, NEW r \in SpendRefs, NEW n \in SpendAmounts, Spends(u, r, n)
      PROVE  NonNegative'
  BY <1>6 DEF Spends, Apply, Post, TypeOK, NonNegative
<1>7. ASSUME NEW u \in Users, NEW K \in SUBSET Keys, NEW n \in Int, Exports(u, K, n)
      PROVE  NonNegative'
  BY <1>7 DEF Exports, TypeOK, NonNegative
<1>8. ASSUME NEW u \in Users, NEW n \in Int, Corrects(u, n)
      PROVE  NonNegative'
  BY <1>8 DEF Corrects, TypeOK, NonNegative
<1>9. ASSUME NEW u \in Users, NEW n \in Int, Books(u, n)
      PROVE  NonNegative'
  BY <1>9 DEF Books, TypeOK, NonNegative
<1> QED
  BY <1>1, <1>2, <1>3, <1>4, <1>5, <1>6, <1>7, <1>8, <1>9 DEF Effect

LEMMA TablesMatchStep == TypeOK /\ TablesMatch /\ Effect => TablesMatch'
<1> SUFFICES ASSUME TypeOK, TablesMatch, Effect PROVE TablesMatch'
  OBVIOUS
<1> USE CreditAssumption
<1>1. CASE UNCHANGED tables \/ Notes
  BY <1>1 DEF tables, Notes, TypeOK, TablesMatch, TablesMatchAt, Reasons, Items
<1>2. ASSUME NEW u \in Users, NEW k \in Keys, Unlocks(u, k)
      PROVE  TablesMatch'
  <2>a. "unlock" \in Reasons /\ "owner_reveal" \in Reasons /\ "lead_refund" \in Reasons
    BY DEF Reasons
  <2>b. Keys \subseteq Items /\ -1 \in Int
    BY DEF Items
  <2>1. \A v \in Users, q \in Reasons, i \in Items :
          moved'[<<v, q, i>>] = IF v = u /\ q = "unlock" /\ i = k
                                THEN moved[<<v, q, i>>] - 1 ELSE moved[<<v, q, i>>]
    <3>1. \A v \in Users, q \in Reasons, i \in Items : moved[<<v, q, i>>] \in Int
      BY MovedType
    <3> QED
      BY <1>2, <2>a, <2>b, <3>1 DEF TypeOK, Apply, Unlocks
  <2> SUFFICES ASSUME NEW v \in Users, NEW j \in Keys
               PROVE  TablesMatchAt(v, j)'
    BY DEF TablesMatch
  <2>2. /\ moved[<<v, "unlock", j>>] \in Int
        /\ moved'[<<v, "unlock", j>>] =
             IF v = u /\ j = k THEN moved[<<v, "unlock", j>>] - 1 ELSE moved[<<v, "unlock", j>>]
    BY <2>a, <2>b, <2>1, MovedType
  <2>3. /\ moved[<<v, "owner_reveal", j>>] \in Int
        /\ moved'[<<v, "owner_reveal", j>>] =
             moved[<<v, "owner_reveal", j>>]
    BY <2>a, <2>b, <2>1, MovedType
  <2>4. /\ moved[<<v, "lead_refund", j>>] \in Int
        /\ moved'[<<v, "lead_refund", j>>] =
             moved[<<v, "lead_refund", j>>]
    BY <2>a, <2>b, <2>1, MovedType
  <2> QED
    BY <1>2, <2>2, <2>3, <2>4 DEF Unlocks, Post, TablesMatch, TablesMatchAt
<1>3. ASSUME NEW u \in Users, NEW k \in Keys, Reveals(u, k)
      PROVE  TablesMatch'
  <2>a. "unlock" \in Reasons /\ "owner_reveal" \in Reasons /\ "lead_refund" \in Reasons
    BY DEF Reasons
  <2>b. Keys \subseteq Items /\ -1 \in Int
    BY DEF Items
  <2>1. \A v \in Users, q \in Reasons, i \in Items :
          moved'[<<v, q, i>>] = IF v = u /\ q = "owner_reveal" /\ i = k
                                THEN moved[<<v, q, i>>] - 1 ELSE moved[<<v, q, i>>]
    <3>1. \A v \in Users, q \in Reasons, i \in Items : moved[<<v, q, i>>] \in Int
      BY MovedType
    <3> QED
      BY <1>3, <2>a, <2>b, <3>1 DEF TypeOK, Apply, Reveals
  <2> SUFFICES ASSUME NEW v \in Users, NEW j \in Keys
               PROVE  TablesMatchAt(v, j)'
    BY DEF TablesMatch
  <2>2. /\ moved[<<v, "unlock", j>>] \in Int
        /\ moved'[<<v, "unlock", j>>] =
             moved[<<v, "unlock", j>>]
    BY <2>a, <2>b, <2>1, MovedType
  <2>3. /\ moved[<<v, "owner_reveal", j>>] \in Int
        /\ moved'[<<v, "owner_reveal", j>>] =
             IF v = u /\ j = k THEN moved[<<v, "owner_reveal", j>>] - 1 ELSE moved[<<v, "owner_reveal", j>>]
    BY <2>a, <2>b, <2>1, MovedType
  <2>4. /\ moved[<<v, "lead_refund", j>>] \in Int
        /\ moved'[<<v, "lead_refund", j>>] =
             moved[<<v, "lead_refund", j>>]
    BY <2>a, <2>b, <2>1, MovedType
  <2> QED
    BY <1>3, <2>2, <2>3, <2>4 DEF Reveals, Post, TablesMatch, TablesMatchAt
<1>4. ASSUME NEW u \in Users, NEW k \in Keys, NEW n \in Int, Refunds(u, k, n)
      PROVE  TablesMatch'
  BY <1>4 DEF Refunds, Apply, Post, TypeOK, TablesMatch, TablesMatchAt, Reasons, Items
<1>5. ASSUME NEW u \in Users, NEW r \in GrantRefs, Grants(u, r)
      PROVE  TablesMatch'
  BY <1>5 DEF Grants, Apply, Post, TypeOK, TablesMatch, TablesMatchAt, Reasons, Items
<1>6. ASSUME NEW u \in Users, NEW r \in SpendRefs, NEW n \in SpendAmounts, Spends(u, r, n)
      PROVE  TablesMatch'
  BY <1>6 DEF Spends, Apply, Post, TypeOK, TablesMatch, TablesMatchAt, Reasons, Items
<1>7. ASSUME NEW u \in Users, NEW K \in SUBSET Keys, NEW n \in Int, Exports(u, K, n)
      PROVE  TablesMatch'
  <2>a. "unlock" \in Reasons /\ "owner_reveal" \in Reasons /\ "lead_refund" \in Reasons
    BY DEF Reasons
  <2>b. Keys \subseteq Items
    BY DEF Items
  <2>1. \A v \in Users, q \in Reasons, i \in Items :
          moved'[<<v, q, i>>] = IF v = u /\ q = "unlock" /\ i \in K
                                THEN moved[<<v, q, i>>] - 1 ELSE moved[<<v, q, i>>]
    BY <1>7, ExportMoved
  <2> SUFFICES ASSUME NEW v \in Users, NEW j \in Keys
               PROVE  TablesMatchAt(v, j)'
    BY DEF TablesMatch
  <2>2. /\ moved[<<v, "unlock", j>>] \in Int
        /\ moved'[<<v, "unlock", j>>] =
             IF v = u /\ j \in K THEN moved[<<v, "unlock", j>>] - 1 ELSE moved[<<v, "unlock", j>>]
    BY <2>a, <2>b, <2>1, MovedType
  <2>3. /\ moved[<<v, "owner_reveal", j>>] \in Int
        /\ moved'[<<v, "owner_reveal", j>>] =
             moved[<<v, "owner_reveal", j>>]
    BY <2>a, <2>b, <2>1, MovedType
  <2>4. /\ moved[<<v, "lead_refund", j>>] \in Int
        /\ moved'[<<v, "lead_refund", j>>] =
             moved[<<v, "lead_refund", j>>]
    BY <2>a, <2>b, <2>1, MovedType
  <2> QED
    BY <1>7, <2>2, <2>3, <2>4 DEF Exports, TablesMatch, TablesMatchAt
<1>8. ASSUME NEW u \in Users, NEW n \in Int, Corrects(u, n)
      PROVE  TablesMatch'
  BY <1>8 DEF Corrects, TypeOK, TablesMatch, TablesMatchAt, Reasons, Items
<1>9. ASSUME NEW u \in Users, NEW n \in Int, Books(u, n)
      PROVE  TablesMatch'
  BY <1>9 DEF Books, TypeOK, TablesMatch, TablesMatchAt, Reasons, Items
<1> QED
  BY <1>1, <1>2, <1>3, <1>4, <1>5, <1>6, <1>7, <1>8, <1>9 DEF Effect

LEMMA RefsMatchStep == TypeOK /\ RefsMatch /\ Effect => RefsMatch'
<1> SUFFICES ASSUME TypeOK, RefsMatch, Effect PROVE RefsMatch'
  OBVIOUS
<1> USE CreditAssumption
<1>1. CASE UNCHANGED tables \/ Notes
  BY <1>1 DEF tables, Notes, TypeOK, RefsMatch, Reasons, Items
<1>2. ASSUME NEW u \in Users, NEW k \in Keys, Unlocks(u, k)
      PROVE  RefsMatch'
  BY <1>2 DEF Unlocks, Apply, Post, TypeOK, RefsMatch, Reasons, Items
<1>3. ASSUME NEW u \in Users, NEW k \in Keys, Reveals(u, k)
      PROVE  RefsMatch'
  BY <1>3 DEF Reveals, Apply, Post, TypeOK, RefsMatch, Reasons, Items
<1>4. ASSUME NEW u \in Users, NEW k \in Keys, NEW n \in Int, Refunds(u, k, n)
      PROVE  RefsMatch'
  BY <1>4 DEF Refunds, Apply, Post, TypeOK, RefsMatch, Reasons, Items
<1>5. ASSUME NEW u \in Users, NEW r \in GrantRefs, Grants(u, r)
      PROVE  RefsMatch'
  BY <1>5 DEF Grants, Apply, Post, TypeOK, RefsMatch, Reasons, Items
<1>6. ASSUME NEW u \in Users, NEW r \in SpendRefs, NEW n \in SpendAmounts, Spends(u, r, n)
      PROVE  RefsMatch'
  BY <1>6 DEF Spends, Apply, Post, TypeOK, RefsMatch, Reasons, Items
<1>7. ASSUME NEW u \in Users, NEW K \in SUBSET Keys, NEW n \in Int, Exports(u, K, n)
      PROVE  RefsMatch'
  BY <1>7 DEF Exports, TypeOK, RefsMatch, Reasons, Items
<1>8. ASSUME NEW u \in Users, NEW n \in Int, Corrects(u, n)
      PROVE  RefsMatch'
  BY <1>8 DEF Corrects, TypeOK, RefsMatch, Reasons, Items
<1>9. ASSUME NEW u \in Users, NEW n \in Int, Books(u, n)
      PROVE  RefsMatch'
  BY <1>9 DEF Books, TypeOK, RefsMatch, Reasons, Items
<1> QED
  BY <1>1, <1>2, <1>3, <1>4, <1>5, <1>6, <1>7, <1>8, <1>9 DEF Effect

LEMMA MovedOnceStep == TypeOK /\ RefsMatch /\ MovedOnce /\ Effect => MovedOnce'
<1> SUFFICES ASSUME TypeOK, RefsMatch, MovedOnce, Effect PROVE MovedOnce'
  OBVIOUS
<1> USE CreditAssumption
<1>1. CASE UNCHANGED tables \/ Notes
  BY <1>1 DEF tables, Notes, TypeOK, RefsMatch, MovedOnce, Reasons, Items
<1>2. ASSUME NEW u \in Users, NEW k \in Keys, Unlocks(u, k)
      PROVE  MovedOnce'
  BY <1>2 DEF Unlocks, Apply, Post, TypeOK, RefsMatch, MovedOnce, Reasons, Items
<1>3. ASSUME NEW u \in Users, NEW k \in Keys, Reveals(u, k)
      PROVE  MovedOnce'
  BY <1>3 DEF Reveals, Apply, Post, TypeOK, RefsMatch, MovedOnce, Reasons, Items
<1>4. ASSUME NEW u \in Users, NEW k \in Keys, NEW n \in Int, Refunds(u, k, n)
      PROVE  MovedOnce'
  BY <1>4 DEF Refunds, Apply, Post, TypeOK, RefsMatch, MovedOnce, Reasons, Items
<1>5. ASSUME NEW u \in Users, NEW r \in GrantRefs, Grants(u, r)
      PROVE  MovedOnce'
  BY <1>5 DEF Grants, Apply, Post, TypeOK, RefsMatch, MovedOnce, Reasons, Items
<1>6. ASSUME NEW u \in Users, NEW r \in SpendRefs, NEW n \in SpendAmounts, Spends(u, r, n)
      PROVE  MovedOnce'
  <2>1. "spend" \in Reasons /\ "grant" \in Reasons
    BY DEF Reasons
  <2>2. GrantRefs \cup SpendRefs \subseteq Items /\ n \in Int /\ -n \in Int
    BY DEF Items
  <2>3. \A v \in Users, q \in Reasons, i \in Items :
          moved'[<<v, q, i>>] = IF v = u /\ q = "spend" /\ i = r
                                THEN moved[<<v, q, i>>] + (-n) ELSE moved[<<v, q, i>>]
    <3>1. \A v \in Users, q \in Reasons, i \in Items : moved[<<v, q, i>>] \in Int
      BY MovedType
    <3> QED
      BY <1>6, <2>1, <2>2, <3>1 DEF TypeOK, Apply, Spends
  <2>4. moved[<<u, "spend", r>>] = 0
    BY <1>6 DEF Spends, RefsMatch
  <2>5. \A v \in Users, i \in GrantRefs : moved'[<<v, "grant", i>>] = moved[<<v, "grant", i>>]
    BY <2>1, <2>2, <2>3
  <2>6. \A v \in Users, i \in SpendRefs :
          moved'[<<v, "spend", i>>] \in {moved[<<v, "spend", i>>], -n}
    BY <2>1, <2>2, <2>3, <2>4
  <2> QED
    BY <2>5, <2>6 DEF MovedOnce
<1>7. ASSUME NEW u \in Users, NEW K \in SUBSET Keys, NEW n \in Int, Exports(u, K, n)
      PROVE  MovedOnce'
  BY <1>7 DEF Exports, TypeOK, RefsMatch, MovedOnce, Reasons, Items
<1>8. ASSUME NEW u \in Users, NEW n \in Int, Corrects(u, n)
      PROVE  MovedOnce'
  BY <1>8 DEF Corrects, TypeOK, RefsMatch, MovedOnce, Reasons, Items
<1>9. ASSUME NEW u \in Users, NEW n \in Int, Books(u, n)
      PROVE  MovedOnce'
  BY <1>9 DEF Books, TypeOK, RefsMatch, MovedOnce, Reasons, Items
<1> QED
  BY <1>1, <1>2, <1>3, <1>4, <1>5, <1>6, <1>7, <1>8, <1>9 DEF Effect

LEMMA RefundStep ==
  TypeOK /\ TablesMatch /\ RefundWithinCharge /\ Effect => RefundWithinCharge'
<1> SUFFICES ASSUME TypeOK, TablesMatch, RefundWithinCharge, Effect
             PROVE  RefundWithinCharge'
  OBVIOUS
<1> USE CreditAssumption
<1>1. CASE UNCHANGED tables \/ Notes
  BY <1>1 DEF tables, Notes, TypeOK, TablesMatch, TablesMatchAt, RefundWithinCharge, Reasons, Items
<1>2. ASSUME NEW u \in Users, NEW k \in Keys, Unlocks(u, k)
      PROVE  RefundWithinCharge'
  <2>a. "unlock" \in Reasons /\ "owner_reveal" \in Reasons /\ "lead_refund" \in Reasons
    BY DEF Reasons
  <2>b. Keys \subseteq Items /\ -1 \in Int
    BY DEF Items
  <2>1. \A v \in Users, q \in Reasons, i \in Items :
          moved'[<<v, q, i>>] = IF v = u /\ q = "unlock" /\ i = k
                                THEN moved[<<v, q, i>>] - 1 ELSE moved[<<v, q, i>>]
    <3>1. \A v \in Users, q \in Reasons, i \in Items : moved[<<v, q, i>>] \in Int
      BY MovedType
    <3> QED
      BY <1>2, <2>a, <2>b, <3>1 DEF TypeOK, Apply, Unlocks
  <2> SUFFICES ASSUME NEW v \in Users, NEW j \in Keys
               PROVE  moved'[<<v, "lead_refund", j>>] + moved'[<<v, "unlock", j>>]
                         + moved'[<<v, "owner_reveal", j>>] <= 0
    BY DEF RefundWithinCharge
  <2>2. /\ moved[<<v, "unlock", j>>] \in Int
        /\ moved'[<<v, "unlock", j>>] =
             IF v = u /\ j = k THEN moved[<<v, "unlock", j>>] - 1 ELSE moved[<<v, "unlock", j>>]
    BY <2>a, <2>b, <2>1, MovedType
  <2>3. /\ moved[<<v, "owner_reveal", j>>] \in Int
        /\ moved'[<<v, "owner_reveal", j>>] =
             moved[<<v, "owner_reveal", j>>]
    BY <2>a, <2>b, <2>1, MovedType
  <2>4. /\ moved[<<v, "lead_refund", j>>] \in Int
        /\ moved'[<<v, "lead_refund", j>>] =
             moved[<<v, "lead_refund", j>>]
    BY <2>a, <2>b, <2>1, MovedType
  <2> QED
    BY <1>2, <2>2, <2>3, <2>4 DEF Unlocks, TablesMatch, TablesMatchAt, RefundWithinCharge
<1>3. ASSUME NEW u \in Users, NEW k \in Keys, Reveals(u, k)
      PROVE  RefundWithinCharge'
  <2>a. "unlock" \in Reasons /\ "owner_reveal" \in Reasons /\ "lead_refund" \in Reasons
    BY DEF Reasons
  <2>b. Keys \subseteq Items /\ -1 \in Int
    BY DEF Items
  <2>1. \A v \in Users, q \in Reasons, i \in Items :
          moved'[<<v, q, i>>] = IF v = u /\ q = "owner_reveal" /\ i = k
                                THEN moved[<<v, q, i>>] - 1 ELSE moved[<<v, q, i>>]
    <3>1. \A v \in Users, q \in Reasons, i \in Items : moved[<<v, q, i>>] \in Int
      BY MovedType
    <3> QED
      BY <1>3, <2>a, <2>b, <3>1 DEF TypeOK, Apply, Reveals
  <2> SUFFICES ASSUME NEW v \in Users, NEW j \in Keys
               PROVE  moved'[<<v, "lead_refund", j>>] + moved'[<<v, "unlock", j>>]
                         + moved'[<<v, "owner_reveal", j>>] <= 0
    BY DEF RefundWithinCharge
  <2>2. /\ moved[<<v, "unlock", j>>] \in Int
        /\ moved'[<<v, "unlock", j>>] =
             moved[<<v, "unlock", j>>]
    BY <2>a, <2>b, <2>1, MovedType
  <2>3. /\ moved[<<v, "owner_reveal", j>>] \in Int
        /\ moved'[<<v, "owner_reveal", j>>] =
             IF v = u /\ j = k THEN moved[<<v, "owner_reveal", j>>] - 1 ELSE moved[<<v, "owner_reveal", j>>]
    BY <2>a, <2>b, <2>1, MovedType
  <2>4. /\ moved[<<v, "lead_refund", j>>] \in Int
        /\ moved'[<<v, "lead_refund", j>>] =
             moved[<<v, "lead_refund", j>>]
    BY <2>a, <2>b, <2>1, MovedType
  <2> QED
    BY <1>3, <2>2, <2>3, <2>4 DEF Reveals, TablesMatch, TablesMatchAt, RefundWithinCharge
<1>4. ASSUME NEW u \in Users, NEW k \in Keys, NEW n \in Int, Refunds(u, k, n)
      PROVE  RefundWithinCharge'
  <2>a. "unlock" \in Reasons /\ "owner_reveal" \in Reasons /\ "lead_refund" \in Reasons
    BY DEF Reasons
  <2>b. Keys \subseteq Items /\ -1 \in Int
    BY DEF Items
  <2>1. \A v \in Users, q \in Reasons, i \in Items :
          moved'[<<v, q, i>>] = IF v = u /\ q = "lead_refund" /\ i = k
                                THEN moved[<<v, q, i>>] + n ELSE moved[<<v, q, i>>]
    <3>1. \A v \in Users, q \in Reasons, i \in Items : moved[<<v, q, i>>] \in Int
      BY MovedType
    <3> QED
      BY <1>4, <2>a, <2>b, <3>1 DEF TypeOK, Apply, Refunds
  <2> SUFFICES ASSUME NEW v \in Users, NEW j \in Keys
               PROVE  moved'[<<v, "lead_refund", j>>] + moved'[<<v, "unlock", j>>]
                         + moved'[<<v, "owner_reveal", j>>] <= 0
    BY DEF RefundWithinCharge
  <2>2. /\ moved[<<v, "unlock", j>>] \in Int
        /\ moved'[<<v, "unlock", j>>] =
             moved[<<v, "unlock", j>>]
    BY <2>a, <2>b, <2>1, MovedType
  <2>3. /\ moved[<<v, "owner_reveal", j>>] \in Int
        /\ moved'[<<v, "owner_reveal", j>>] =
             moved[<<v, "owner_reveal", j>>]
    BY <2>a, <2>b, <2>1, MovedType
  <2>4. /\ moved[<<v, "lead_refund", j>>] \in Int
        /\ moved'[<<v, "lead_refund", j>>] =
             IF v = u /\ j = k THEN moved[<<v, "lead_refund", j>>] + n ELSE moved[<<v, "lead_refund", j>>]
    BY <2>a, <2>b, <2>1, MovedType
  <2> QED
    BY <1>4, <2>2, <2>3, <2>4 DEF Refunds, TablesMatch, TablesMatchAt, RefundWithinCharge
<1>5. ASSUME NEW u \in Users, NEW r \in GrantRefs, Grants(u, r)
      PROVE  RefundWithinCharge'
  BY <1>5 DEF Grants, Apply, Post, TypeOK, TablesMatch, TablesMatchAt, RefundWithinCharge, Reasons, Items
<1>6. ASSUME NEW u \in Users, NEW r \in SpendRefs, NEW n \in SpendAmounts, Spends(u, r, n)
      PROVE  RefundWithinCharge'
  BY <1>6 DEF Spends, Apply, Post, TypeOK, TablesMatch, TablesMatchAt, RefundWithinCharge, Reasons, Items
<1>7. ASSUME NEW u \in Users, NEW K \in SUBSET Keys, NEW n \in Int, Exports(u, K, n)
      PROVE  RefundWithinCharge'
  <2>a. "unlock" \in Reasons /\ "owner_reveal" \in Reasons /\ "lead_refund" \in Reasons
    BY DEF Reasons
  <2>b. Keys \subseteq Items
    BY DEF Items
  <2>1. \A v \in Users, q \in Reasons, i \in Items :
          moved'[<<v, q, i>>] = IF v = u /\ q = "unlock" /\ i \in K
                                THEN moved[<<v, q, i>>] - 1 ELSE moved[<<v, q, i>>]
    BY <1>7, ExportMoved
  <2> SUFFICES ASSUME NEW v \in Users, NEW j \in Keys
               PROVE  moved'[<<v, "lead_refund", j>>] + moved'[<<v, "unlock", j>>]
                         + moved'[<<v, "owner_reveal", j>>] <= 0
    BY DEF RefundWithinCharge
  <2>2. /\ moved[<<v, "unlock", j>>] \in Int
        /\ moved'[<<v, "unlock", j>>] =
             IF v = u /\ j \in K THEN moved[<<v, "unlock", j>>] - 1 ELSE moved[<<v, "unlock", j>>]
    BY <2>a, <2>b, <2>1, MovedType
  <2>3. /\ moved[<<v, "owner_reveal", j>>] \in Int
        /\ moved'[<<v, "owner_reveal", j>>] =
             moved[<<v, "owner_reveal", j>>]
    BY <2>a, <2>b, <2>1, MovedType
  <2>4. /\ moved[<<v, "lead_refund", j>>] \in Int
        /\ moved'[<<v, "lead_refund", j>>] =
             moved[<<v, "lead_refund", j>>]
    BY <2>a, <2>b, <2>1, MovedType
  <2> QED
    BY <1>7, <2>2, <2>3, <2>4 DEF Exports, TablesMatch, TablesMatchAt, RefundWithinCharge
<1>8. ASSUME NEW u \in Users, NEW n \in Int, Corrects(u, n)
      PROVE  RefundWithinCharge'
  BY <1>8 DEF Corrects, TypeOK, TablesMatch, TablesMatchAt, RefundWithinCharge, Reasons, Items
<1>9. ASSUME NEW u \in Users, NEW n \in Int, Books(u, n)
      PROVE  RefundWithinCharge'
  BY <1>9 DEF Books, TypeOK, TablesMatch, TablesMatchAt, RefundWithinCharge, Reasons, Items
<1> QED
  BY <1>1, <1>2, <1>3, <1>4, <1>5, <1>6, <1>7, <1>8, <1>9 DEF Effect

LEMMA ReconcilesStep ==
  TypeOK /\ TablesMatch /\ Revokes = {} /\ Reconciles /\ Effect => Reconciles'
<1> SUFFICES ASSUME TypeOK, TablesMatch, Revokes = {}, Reconciles, Effect
             PROVE  Reconciles'
  OBVIOUS
<1> USE CreditAssumption
<1>1. CASE UNCHANGED tables \/ Notes
  BY <1>1 DEF tables, Notes, TypeOK, TablesMatch, TablesMatchAt, Reconciles
<1>2. ASSUME NEW u \in Users, NEW k \in Keys, Unlocks(u, k)
      PROVE  Reconciles'
  BY <1>2 DEF Unlocks, Apply, Post, TypeOK, TablesMatch, TablesMatchAt, Reconciles
<1>3. ASSUME NEW u \in Users, NEW k \in Keys, Reveals(u, k)
      PROVE  Reconciles'
  BY <1>3 DEF Reveals, Apply, Post, TypeOK, TablesMatch, TablesMatchAt, Reconciles
<1>4. ASSUME NEW u \in Users, NEW k \in Keys, NEW n \in Int, Refunds(u, k, n)
      PROVE  Reconciles'
  BY <1>4 DEF Refunds, Apply, Post, TypeOK, TablesMatch, TablesMatchAt, Reconciles
<1>5. ASSUME NEW u \in Users, NEW r \in GrantRefs, Grants(u, r)
      PROVE  Reconciles'
  BY <1>5 DEF Grants, Apply, Post, TypeOK, TablesMatch, TablesMatchAt, Reconciles
<1>6. ASSUME NEW u \in Users, NEW r \in SpendRefs, NEW n \in SpendAmounts, Spends(u, r, n)
      PROVE  Reconciles'
  BY <1>6 DEF Spends, Apply, Post, TypeOK, TablesMatch, TablesMatchAt, Reconciles
<1>7. ASSUME NEW u \in Users, NEW K \in SUBSET Keys, NEW n \in Int, Exports(u, K, n)
      PROVE  Reconciles'
  BY <1>7 DEF Exports, TypeOK, TablesMatch, TablesMatchAt, Reconciles
<1>8. ASSUME NEW u \in Users, NEW n \in Int, Corrects(u, n)
      PROVE  Reconciles'
  BY <1>8 DEF Corrects, TypeOK, TablesMatch, TablesMatchAt, Reconciles
<1>9. ASSUME NEW u \in Users, NEW n \in Int, Books(u, n)
      PROVE  Reconciles'
  BY <1>9 DEF Books, TypeOK, TablesMatch, TablesMatchAt, Reconciles
<1> QED
  BY <1>1, <1>2, <1>3, <1>4, <1>5, <1>6, <1>7, <1>8, <1>9 DEF Effect

LEMMA UnlocksPaidStep ==
  TypeOK /\ Batches = {} /\ UnlocksPaid /\ Effect => UnlocksPaid'
<1> SUFFICES ASSUME TypeOK, Batches = {}, UnlocksPaid, Effect PROVE UnlocksPaid'
  OBVIOUS
<1> USE CreditAssumption
<1>1. CASE UNCHANGED tables \/ Notes
  BY <1>1 DEF tables, Notes, TypeOK, UnlocksPaid, Reasons, Items
<1>2. ASSUME NEW u \in Users, NEW k \in Keys, Unlocks(u, k)
      PROVE  UnlocksPaid'
  <2>a. "unlock" \in Reasons /\ "owner_reveal" \in Reasons /\ "lead_refund" \in Reasons
    BY DEF Reasons
  <2>b. Keys \subseteq Items /\ -1 \in Int
    BY DEF Items
  <2>1. \A v \in Users, q \in Reasons, i \in Items :
          moved'[<<v, q, i>>] = IF v = u /\ q = "unlock" /\ i = k
                                THEN moved[<<v, q, i>>] - 1 ELSE moved[<<v, q, i>>]
    <3>1. \A v \in Users, q \in Reasons, i \in Items : moved[<<v, q, i>>] \in Int
      BY MovedType
    <3> QED
      BY <1>2, <2>a, <2>b, <3>1 DEF TypeOK, Apply, Unlocks
  <2> SUFFICES ASSUME NEW v \in Users, NEW j \in Keys
               PROVE  moved'[<<v, "unlock", j>>] =
                         IF <<v, j>> \in unlocks' THEN -1 ELSE 0
    BY DEF UnlocksPaid
  <2>2. /\ moved[<<v, "unlock", j>>] \in Int
        /\ moved'[<<v, "unlock", j>>] =
             IF v = u /\ j = k THEN moved[<<v, "unlock", j>>] - 1 ELSE moved[<<v, "unlock", j>>]
    BY <2>a, <2>b, <2>1, MovedType
  <2>3. /\ moved[<<v, "owner_reveal", j>>] \in Int
        /\ moved'[<<v, "owner_reveal", j>>] =
             moved[<<v, "owner_reveal", j>>]
    BY <2>a, <2>b, <2>1, MovedType
  <2>4. /\ moved[<<v, "lead_refund", j>>] \in Int
        /\ moved'[<<v, "lead_refund", j>>] =
             moved[<<v, "lead_refund", j>>]
    BY <2>a, <2>b, <2>1, MovedType
  <2> QED
    BY <1>2, <2>2, <2>3, <2>4 DEF Unlocks, UnlocksPaid
<1>3. ASSUME NEW u \in Users, NEW k \in Keys, Reveals(u, k)
      PROVE  UnlocksPaid'
  BY <1>3 DEF Reveals, Apply, Post, TypeOK, UnlocksPaid, Reasons, Items
<1>4. ASSUME NEW u \in Users, NEW k \in Keys, NEW n \in Int, Refunds(u, k, n)
      PROVE  UnlocksPaid'
  BY <1>4 DEF Refunds, Apply, Post, TypeOK, UnlocksPaid, Reasons, Items
<1>5. ASSUME NEW u \in Users, NEW r \in GrantRefs, Grants(u, r)
      PROVE  UnlocksPaid'
  BY <1>5 DEF Grants, Apply, Post, TypeOK, UnlocksPaid, Reasons, Items
<1>6. ASSUME NEW u \in Users, NEW r \in SpendRefs, NEW n \in SpendAmounts, Spends(u, r, n)
      PROVE  UnlocksPaid'
  BY <1>6 DEF Spends, Apply, Post, TypeOK, UnlocksPaid, Reasons, Items
<1>7. ASSUME NEW u \in Users, NEW K \in SUBSET Keys, NEW n \in Int, Exports(u, K, n)
      PROVE  UnlocksPaid'
  BY <1>7 DEF Exports, TypeOK, UnlocksPaid, Reasons, Items
<1>8. ASSUME NEW u \in Users, NEW n \in Int, Corrects(u, n)
      PROVE  UnlocksPaid'
  BY <1>8 DEF Corrects, TypeOK, UnlocksPaid, Reasons, Items
<1>9. ASSUME NEW u \in Users, NEW n \in Int, Books(u, n)
      PROVE  UnlocksPaid'
  BY <1>9 DEF Books, TypeOK, UnlocksPaid, Reasons, Items
<1> QED
  BY <1>1, <1>2, <1>3, <1>4, <1>5, <1>6, <1>7, <1>8, <1>9 DEF Effect

-----------------------------------------------------------------------------
(* The invariants over the requests *)

\* No function takes back a lead, a reveal or a report.
LEMMA TablesGrow ==
  Effect => unlocks \subseteq unlocks' /\ ownerUnlocks \subseteq ownerUnlocks'
BY DEF Effect, tables, Notes, Unlocks, Reveals, Refunds, Grants, Spends, Exports,
       Corrects, Books

\* A request that a step leaves alone stays sound.
LEMMA OthersSound ==
  ASSUME TypeOK, Effect, NEW d \in Calls, call'[d] = call[d],
         RequestSound(d), AnswerOpensAt(d)
  PROVE  RequestSound(d)' /\ AnswerOpensAt(d)'
BY TablesGrow DEF RequestSound, AnswerOpensAt

\* So does one that finishes.
LEMMA IdleSound ==
  ASSUME NEW d \in Calls, call'[d] = Idle
  PROVE  RequestSound(d)' /\ AnswerOpensAt(d)'
BY DEF RequestSound, AnswerOpensAt

LEMMA RequestsStep ==
  TypeOK /\ RequestsSound /\ AnswerOpens /\ [Next]_vars
    => RequestsSound' /\ AnswerOpens'
<1> SUFFICES ASSUME TypeOK, RequestsSound, AnswerOpens, [Next]_vars,
                    NEW d \in Calls
             PROVE  RequestSound(d)' /\ AnswerOpensAt(d)'
  BY DEF RequestsSound, AnswerOpens
<1> USE CreditAssumption
<1>a. Effect
  BY StepEffect
<1>b. RequestSound(d) /\ AnswerOpensAt(d)
  BY DEF RequestsSound, AnswerOpens
<1>c. CASE call'[d] = call[d]
  BY <1>a, <1>b, <1>c, OthersSound
<1>d. CASE call'[d] # call[d]
  <2>1. ASSUME NEW c \in Calls, Finish(c)
        PROVE  RequestSound(d)' /\ AnswerOpensAt(d)'
    <3>1. call'[d] = Idle
      BY <1>d, <2>1 DEF Finish, TypeOK
    <3> QED
      BY <3>1, IdleSound
  <2>2. ASSUME NEW c \in Calls, NEW u \in Users, NEW k \in Keys, LeadStep(c, u, k)
        PROVE  RequestSound(d)' /\ AnswerOpensAt(d)'
    <3>1. CASE UnlockLeadCheck(c, u, k)
      BY <1>d, <3>1 DEF UnlockLeadCheck, Opened, Starts, tables, TypeOK, RequestSound,
                        AnswerOpensAt
    <3>2. CASE UnlockLeadTake(c, u, k)
      BY <1>d, <3>2, RequestType DEF UnlockLeadTake, Is, Answer, LeadConflict, tables,
           TypeOK, Requests, RequestSound, AnswerOpensAt
    <3>3. CASE UnlockOwnerCheck(c, u, k)
      BY <1>d, <3>3 DEF UnlockOwnerCheck, Starts, tables, TypeOK, RequestSound,
                        AnswerOpensAt
    <3>4. CASE UnlockOwnerTake(c, u, k)
      BY <1>d, <3>4, RequestType DEF UnlockOwnerTake, Is, Answer, OwnerConflict, tables,
           TypeOK, Requests, RequestSound, AnswerOpensAt
    <3>5. CASE ReportCheck(c, u, k)
      BY <1>d, <3>5 DEF ReportCheck, Starts, tables, TypeOK, RequestSound,
                        AnswerOpensAt
    <3>6. ASSUME NEW notOwner \in BOOLEAN, ReportRead(c, u, k, notOwner)
          PROVE  RequestSound(d)' /\ AnswerOpensAt(d)'
      BY <1>d, <3>6, RequestType DEF ReportRead, Is, Answer, tables,
           TypeOK, Requests, RequestSound, AnswerOpensAt
    <3>7. CASE ReportRefund(c, u, k)
      BY <1>d, <3>7, RequestType DEF ReportRefund, Is, Answer, tables,
           TypeOK, Requests, RequestSound, AnswerOpensAt
    <3> QED
      BY <2>2, <3>1, <3>2, <3>3, <3>4, <3>5, <3>6, <3>7 DEF LeadStep
  <2>3. ASSUME NEW c \in Calls, NEW u \in Users, NEW K \in Batches, BulkCheck(c, u, K)
        PROVE  RequestSound(d)' /\ AnswerOpensAt(d)'
    <3>1. /\ call'[d].op = "unlock_leads_bulk"
          /\ call'[d].status = "ok" => call'[d].keys = {}
          /\ UNCHANGED tables
      BY <1>d, <2>3 DEF BulkCheck, Starts, TypeOK
    <3> QED
      BY <2>3, <3>1 DEF RequestSound, AnswerOpensAt
  <2>4. ASSUME NEW c \in Calls, BulkTake(c)
        PROVE  RequestSound(d)' /\ AnswerOpensAt(d)'
    <3>1. /\ d = c /\ call[c] \in Requests
          /\ call[c].op = "unlock_leads_bulk"
      BY <1>d, <2>4, RequestType DEF BulkTake, Is, Answer, TypeOK
    <3>2. /\ call'[d].op = "unlock_leads_bulk"
          /\ call'[d].user = call[c].user /\ call'[d].keys = call[c].keys
          /\ call'[d].status = "ok" => {call[c].user} \X call[c].keys \subseteq unlocks'
      BY <2>4, <3>1 DEF BulkTake, Answer, TypeOK, Requests
    <3>3. Batches # {}
      BY <1>b, <2>4, <3>1 DEF BulkTake, Is, RequestSound
    <3> QED
      BY <3>2, <3>3 DEF RequestSound, AnswerOpensAt
  <2>5. ASSUME NEW c \in Calls, NEW u \in Users, NEW r \in SpendRefs,
               NEW n \in SpendAmounts, SpendCheck(c, u, r, n)
        PROVE  RequestSound(d)' /\ AnswerOpensAt(d)'
    BY <1>d, <2>5 DEF SpendCheck, Starts, TypeOK, RequestSound, AnswerOpensAt
  <2>6. ASSUME NEW c \in Calls, NEW u \in Users, NEW r \in SpendRefs, SpendTake(c, u, r)
        PROVE  RequestSound(d)' /\ AnswerOpensAt(d)'
    BY <1>b, <1>d, <2>6, RequestType DEF SpendTake, Is, Answer, TypeOK,
         Requests, RequestSound, AnswerOpensAt
  <2>7. ASSUME NEW c \in Calls, NEW u \in Users, NEW n \in Revokes,
               AdminRevokeRead(c, u, n)
        PROVE  RequestSound(d)' /\ AnswerOpensAt(d)'
    <3>1. call'[d].op = "admin_revoke" /\ call'[d].amount >= 0
      BY <1>d, <2>7 DEF AdminRevokeRead, Clamped, Starts, TypeOK
    <3> QED
      BY <2>7, <3>1 DEF RequestSound, AnswerOpensAt
  <2>8. ASSUME NEW c \in Calls, AdminRevokeWrite(c) \/ AdminRevokeBook(c)
        PROVE  RequestSound(d)' /\ AnswerOpensAt(d)'
    BY <1>b, <1>d, <2>8, RequestType DEF AdminRevokeWrite, AdminRevokeBook, Is,
         Answer, TypeOK, Requests, RequestSound, AnswerOpensAt
  <2>9. CASE \/ UNCHANGED vars
             \/ \E u \in Users, r \in GrantRefs : GrantCredits(u, r)
             \/ \E u \in Users, k \in Keys : GrowOld(u, k)
    <3>1. UNCHANGED call
      BY <2>9 DEF vars, GrantCredits, GrowOld
    <3> QED
      BY <1>d, <3>1
  <2> QED
    BY <2>1, <2>2, <2>3, <2>4, <2>5, <2>6, <2>7, <2>8, <2>9 DEF Next, CallStep
<1> QED
  BY <1>c, <1>d

-----------------------------------------------------------------------------
(* The theorems *)

LEMMA CreditInit == Init => CreditInv
<1> SUFFICES ASSUME Init PROVE CreditInv
  OBVIOUS
<1>1. \A c \in Calls : call[c] = Idle
  BY DEF Init
<1>2. RequestsSound /\ AnswerOpens
  BY <1>1 DEF RequestsSound, RequestSound, AnswerOpens, AnswerOpensAt
<1>3. \A u \in Users, q \in Reasons, i \in Items : moved[<<u, q, i>>] = 0
  BY DEF Init
<1>4. \A u \in Users, k \in Keys :
        /\ moved[<<u, "unlock", k>>] = 0
        /\ moved[<<u, "owner_reveal", k>>] = 0
        /\ moved[<<u, "lead_refund", k>>] = 0
  BY <1>3 DEF Reasons, Items
<1>5. \A u \in Users :
        /\ \A r \in GrantRefs : moved[<<u, "grant", r>>] = 0
        /\ \A r \in SpendRefs : moved[<<u, "spend", r>>] = 0
  BY <1>3 DEF Reasons, Items
<1>6. TablesMatch /\ RefundWithinCharge /\ UnlocksPaid
  <2>1. entries = {} /\ unlocks = {} /\ ownerUnlocks = {}
    BY DEF Init
  <2>2. ASSUME NEW u \in Users, NEW k \in Keys
        PROVE  /\ TablesMatchAt(u, k)
               /\ moved[<<u, "lead_refund", k>>] + moved[<<u, "unlock", k>>]
                    + moved[<<u, "owner_reveal", k>>] <= 0
    <3>1. /\ moved[<<u, "unlock", k>>] = 0
          /\ moved[<<u, "owner_reveal", k>>] = 0
          /\ moved[<<u, "lead_refund", k>>] = 0
      BY <1>4
    <3>2. TablesMatchAt(u, k)
      BY <2>1, <3>1 DEF TablesMatchAt
    <3> QED
      BY <3>1, <3>2
  <2>3. TablesMatch /\ RefundWithinCharge
    BY <2>2 DEF TablesMatch, RefundWithinCharge
  <2>4. UnlocksPaid
    BY <1>4, <2>1 DEF UnlocksPaid
  <2> QED
    BY <2>3, <2>4
<1>7. RefsMatch /\ MovedOnce
  BY <1>5 DEF RefsMatch, MovedOnce
<1>8. NonNegative /\ Reconciles
  BY DEF Init, NonNegative, Reconciles
<1> QED
  BY <1>2, <1>6, <1>7, <1>8 DEF CreditInv

LEMMA CreditStep == TypeOK /\ CreditInv /\ [Next]_vars => CreditInv'
<1> SUFFICES ASSUME TypeOK, CreditInv, [Next]_vars PROVE CreditInv'
  OBVIOUS
<1>1. Effect
  BY StepEffect DEF CreditInv
<1>2. RequestsSound' /\ AnswerOpens'
  BY RequestsStep DEF CreditInv
<1>3. NonNegative' /\ TablesMatch' /\ RefsMatch' /\ MovedOnce' /\ RefundWithinCharge'
  BY <1>1, NonNegativeStep, TablesMatchStep, RefsMatchStep, MovedOnceStep, RefundStep
  DEF CreditInv
<1>4. Revokes = {} => Reconciles'
  BY <1>1, ReconcilesStep DEF CreditInv
<1>5. Batches = {} => UnlocksPaid'
  BY <1>1, UnlocksPaidStep DEF CreditInv
<1> QED
  BY <1>2, <1>3, <1>4, <1>5 DEF CreditInv

\* The inductive invariant holds in every reachable state.
THEOREM CreditInvariant == Spec => [](TypeOK /\ CreditInv)
<1>1. TypeOK /\ CreditInv /\ [Next]_vars => TypeOK' /\ CreditInv'
  BY TypeNext, CreditStep
<1> QED
  BY TypeInit, CreditInit, <1>1, PTL DEF Spec

\* No balance is ever negative, exports and admin corrections included.
THEOREM BalanceNeverNegative == Spec => []NonNegative
<1>1. CreditInv => NonNegative
  BY DEF CreditInv
<1> QED
  BY <1>1, CreditInvariant, PTL

\* As long as nobody corrects a balance by hand, every balance is the sum of its ledger.
THEOREM LedgerReconciles == ASSUME Revokes = {} PROVE Spec => []Reconciles
<1>1. CreditInv => Reconciles
  BY Revokes = {} DEF CreditInv
<1> QED
  BY <1>1, CreditInvariant, PTL

\* Without exports, no history charges an account twice for a business or its owner.
THEOREM BusinessPaidOnce == ASSUME Batches = {} PROVE Spec => []PaidOnce
<1>1. CreditInv => PaidOnce
  BY Batches = {} DEF CreditInv, UnlocksPaid, TablesMatch, TablesMatchAt, PaidOnce
<1> QED
  BY <1>1, CreditInvariant, PTL

\* A grant or a charge for work moves credits once per reference.
THEOREM ReferencesMoveOnce == Spec => []MovedOnce
<1>1. CreditInv => MovedOnce
  BY DEF CreditInv
<1> QED
  BY <1>1, CreditInvariant, PTL

\* A business never refunds more than was taken for it, exports included.
THEOREM RefundsBounded == Spec => []RefundWithinCharge
<1>1. CreditInv => RefundWithinCharge
  BY DEF CreditInv
<1> QED
  BY <1>1, CreditInvariant, PTL

\* Whoever is told that a business is paid for can open it.
THEOREM AnswersAreTrue == Spec => []AnswerOpens
<1>1. CreditInv => AnswerOpens
  BY DEF CreditInv
<1> QED
  BY <1>1, CreditInvariant, PTL

\* Without exports and corrections, the concurrent functions implement CreditBook.
THEOREM ImplementsBook ==
  ASSUME Batches = {}, Revokes = {}
  PROVE  Spec => BookSpec
<1>1. Init => Book!Init
  BY DEF Init, Book!Init
<1>2. TypeOK /\ CreditInv /\ [Next]_vars => [Book!Next]_(Book!bookVars)
  <2> SUFFICES ASSUME TypeOK, CreditInv, [Next]_vars
               PROVE  Book!Next \/ UNCHANGED Book!bookVars
    OBVIOUS
  <2> USE CreditAssumption, Batches = {}, Revokes = {}
  <2>1. Effect
    BY StepEffect DEF CreditInv
  <2>2. CASE UNCHANGED tables \/ Notes
    BY <2>2 DEF tables, Notes, Book!bookVars
  <2>3. ASSUME NEW u \in Users, NEW k \in Keys, Unlocks(u, k)
        PROVE  Book!Open(u, k)
    <3>1. <<u, "unlock", k>> \notin entries /\ credits[u] \in Int
      BY <2>3 DEF Unlocks, TypeOK, CreditInv, TablesMatch, TablesMatchAt
    <3>2. credits[u] + (-1) >= 0
      BY <2>3, <3>1 DEF Unlocks
    <3>3. credits' = [credits EXCEPT ![u] = @ + (-1)]
      BY <2>3 DEF Unlocks, Apply
    <3> QED
      BY <2>3, <3>1, <3>2, <3>3 DEF Unlocks, Post, Book!Open, Book!Move
  <2>4. ASSUME NEW u \in Users, NEW k \in Keys, Reveals(u, k)
        PROVE  Book!Reveal(u, k)
    BY <2>4 DEF Reveals, Apply, Post, Book!Reveal, Book!Move, TypeOK
  <2>5. ASSUME NEW u \in Users, NEW k \in Keys, NEW n \in Int, Refunds(u, k, n)
        PROVE  Book!Refund(u, k)
    <3>1. credits[u] \in Int /\ credits[u] >= 0 /\ <<u, "lead_refund", k>> \notin entries
      BY <2>5 DEF Refunds, TypeOK, CreditInv, NonNegative, TablesMatch, TablesMatchAt
    <3>2. CASE n = 1
      <4>1. Book!Move(u, "lead_refund", k, 1)
        BY <2>5, <3>1, <3>2 DEF Refunds, Apply, Post, Book!Move
      <4> QED
        BY <2>5, <4>1 DEF Refunds, Book!Refund
    <3>3. CASE n = 2
      <4>1. Book!Move(u, "lead_refund", k, 2)
        BY <2>5, <3>1, <3>3 DEF Refunds, Apply, Post, Book!Move
      <4> QED
        BY <2>5, <3>3, <4>1 DEF Refunds, Book!Refund
    <3> QED
      BY <2>5, <3>2, <3>3 DEF Refunds
  <2>6. ASSUME NEW u \in Users, NEW r \in GrantRefs, Grants(u, r)
        PROVE  Book!Grant(u, r)
    <3>1. credits[u] \in Int /\ credits[u] >= 0 /\ Granted[r] \in Int
      BY DEF TypeOK, CreditInv, NonNegative
    <3> QED
      BY <2>6, <3>1 DEF Grants, Apply, Post, Book!Grant, Book!Move
  <2>7. ASSUME NEW u \in Users, NEW r \in SpendRefs, NEW n \in SpendAmounts,
               Spends(u, r, n)
        PROVE  Book!Spend(u, r)
    <3>1. credits[u] \in Int /\ n \in Int
      BY DEF TypeOK
    <3>2. Book!Move(u, "spend", r, -n)
      <4>1. credits[u] + (-n) >= 0
        BY <2>7, <3>1 DEF Spends
      <4>2. credits' = [credits EXCEPT ![u] = @ + (-n)]
        BY <2>7 DEF Spends, Apply
      <4> QED
        BY <2>7, <4>1, <4>2 DEF Spends, Post, Book!Move
    <3> QED
      BY <2>7, <3>2 DEF Spends, Book!Spend
  <2>8. ~ \E u \in Users :
           \/ \E K \in SUBSET Keys, n \in Int : Exports(u, K, n)
           \/ \E n \in Int : Corrects(u, n) \/ Books(u, n)
    BY DEF Exports, Corrects, Books
  <2> QED
    BY <2>1, <2>2, <2>3, <2>4, <2>5, <2>6, <2>7, <2>8 DEF Effect, Book!Next
<1> QED
  BY <1>1, <1>2, CreditInvariant, PTL DEF Spec, BookSpec, Book!Spec

-----------------------------------------------------------------------------
(* Sums over an account or a history. A fact about every finite set is proved by its   *)
(* least counterexample.                                                               *)

LEMMA HasLeast ==
  ASSUME NEW T \in SUBSET Nat, T # {}
  PROVE  \E m \in T : \A k \in T : m <= k
<1>1. \E m \in T : \A k \in T : ~(<<k, m>> \in OpToRel(<, Nat))
  BY WFMin, NatLessThanWellFounded
<1>2. PICK m \in T : \A k \in T : ~(k < m)
  BY <1>1 DEF OpToRel
<1> QED BY <1>2

LEMMA OneLess ==
  ASSUME NEW X, IsFiniteSet(X), X # {}
  PROVE  /\ (CHOOSE x \in X : TRUE) \in X /\ IsFiniteSet(X \ {CHOOSE x \in X : TRUE})
         /\ Cardinality(X \ {CHOOSE x \in X : TRUE}) = Cardinality(X) - 1
         /\ Cardinality(X) \in Nat \ {0}
<1>1. (CHOOSE x \in X : TRUE) \in X
  OBVIOUS
<1>2. Cardinality(X) \in Nat /\ Cardinality(X) # 0
  BY FS_CardinalityType, FS_EmptySet
<1> QED BY <1>1, <1>2, FS_RemoveElement

\* The sums of f over the subsets of S, and over those of at most m members.
Folded(t, f, X) == IF X = {} THEN 0 ELSE LET x == CHOOSE y \in X : TRUE IN f[x] + t[X \ {x}]
Totals(t, f, S) == t = [X \in SUBSET S |-> Folded(t, f, X)]
Small(S, m) == { X \in SUBSET S : Cardinality(X) <= m }
SumOver(f, S) == (CHOOSE t : Totals(t, f, S))[S]

LEMMA PartExists ==
  ASSUME NEW S, IsFiniteSet(S), NEW f
  PROVE  \A m \in Nat : \E t : t = [X \in Small(S, m) |-> Folded(t, f, X)]
<1> DEFINE Part(t, m) == t = [X \in Small(S, m) |-> Folded(t, f, X)]
<1> SUFFICES ASSUME NEW k \in Nat, ~\E t : Part(t, k) PROVE FALSE
  OBVIOUS
<1> DEFINE T == { m \in Nat : ~\E t : Part(t, m) }
<1>1. PICK m \in T : \A j \in T : m <= j
  <2>1. T \in SUBSET Nat /\ T # {}
    OBVIOUS
  <2> HIDE DEF T
  <2> QED BY <2>1, HasLeast
<1>2. m \in Nat /\ ~\E t : Part(t, m)
  OBVIOUS
<1>3. \A X \in SUBSET S : IsFiniteSet(X)
  BY FS_Subset
<1>4. CASE m = 0
  <2> DEFINE t == [X \in Small(S, m) |-> 0]
  <2>1. \A X \in Small(S, m) : X = {}
    <3> SUFFICES ASSUME NEW X \in Small(S, m), X # {} PROVE FALSE
      OBVIOUS
    <3>1. IsFiniteSet(X) /\ Cardinality(X) <= 0
      BY <1>3, <1>4 DEF Small
    <3>2. Cardinality(X) \in Nat \ {0}
      BY <3>1, OneLess
    <3> QED BY <3>1, <3>2
  <2>2. \A X \in Small(S, m) : Folded(t, f, X) = 0
    BY <2>1 DEF Folded
  <2>3. Part(t, m)
    BY <2>2
  <2> QED BY <1>2, <2>3
<1>5. CASE m # 0
  <2>1. m - 1 \in Nat /\ m - 1 \notin T
    BY <1>1, <1>5
  <2>2. PICK t : Part(t, m - 1)
    BY <2>1
  <2> DEFINE g == [X \in Small(S, m) |-> Folded(t, f, X)]
  <2>3. \A X \in Small(S, m - 1) : t[X] = Folded(t, f, X) /\ X \in Small(S, m)
    <3>1. \A X \in Small(S, m - 1) : t[X] = Folded(t, f, X)
      BY <2>2
    <3>2. \A X \in Small(S, m - 1) : X \in Small(S, m)
      BY <1>2, <1>3, FS_CardinalityType DEF Small
    <3> QED BY <3>1, <3>2
  <2>4. ASSUME NEW X \in Small(S, m), X # {} PROVE X \ {CHOOSE x \in X : TRUE} \in Small(S, m - 1)
    BY <1>2, <1>3, <2>4, OneLess DEF Small
  <2>5. ASSUME NEW X \in Small(S, m) PROVE Folded(t, f, X) = Folded(g, f, X)
    <3>1. CASE X = {}
      BY <3>1 DEF Folded
    <3>2. CASE X # {}
      <4> DEFINE Y == X \ {CHOOSE x \in X : TRUE}
      <4>1. Y \in Small(S, m - 1)
        BY <2>4, <3>2
      <4>2. g[Y] = t[Y]
        BY <2>3, <4>1
      <4> QED BY <3>2, <4>2 DEF Folded
    <3> QED BY <3>1, <3>2
  <2>6. Part(g, m)
    BY <2>5
  <2> HIDE DEF Part
  <2> QED BY <1>2, <2>6
<1> QED BY <1>4, <1>5

LEMMA TotalsExist ==
  ASSUME NEW S, IsFiniteSet(S), NEW f
  PROVE  \E t : Totals(t, f, S)
<1>1. Cardinality(S) \in Nat
  BY FS_CardinalityType
<1>2. PICK t : t = [X \in Small(S, Cardinality(S)) |-> Folded(t, f, X)]
  BY <1>1, PartExists
<1>3. Small(S, Cardinality(S)) = SUBSET S
  BY FS_Subset DEF Small
<1> QED BY <1>2, <1>3 DEF Totals

\* What the sums of integers are: one for every subset, taken in any order.
Adds(t, f, S) ==
  /\ \A X \in SUBSET S : t[X] \in Int
  /\ t[{}] = 0
  /\ \A X \in SUBSET S : \A x \in X : t[X] = f[x] + t[X \ {x}]

LEMMA TotalsAreInt ==
  ASSUME NEW S, IsFiniteSet(S), NEW f \in [S -> Int], NEW t, Totals(t, f, S)
  PROVE  \A X \in SUBSET S : t[X] \in Int
<1> SUFFICES ASSUME NEW A \in SUBSET S, t[A] \notin Int PROVE FALSE
  OBVIOUS
<1> DEFINE T == { m \in Nat : \E X \in SUBSET S : Cardinality(X) = m /\ t[X] \notin Int }
<1>1. \A X \in SUBSET S : IsFiniteSet(X) /\ Cardinality(X) \in Nat /\ t[X] = Folded(t, f, X)
  BY FS_Subset, FS_CardinalityType DEF Totals
<1>2. PICK m \in T : \A j \in T : m <= j
  <2>0. Cardinality(A) \in T
    BY <1>1
  <2>1. T \in SUBSET Nat /\ T # {}
    BY <2>0
  <2> HIDE DEF T
  <2> QED BY <2>1, HasLeast
<1>3. PICK X \in SUBSET S : Cardinality(X) = m /\ t[X] \notin Int
  OBVIOUS
<1> DEFINE e == CHOOSE x \in X : TRUE
           Y == X \ {e}
<1>0. X # {}
  BY <1>1, <1>3 DEF Folded
<1>4. X # {} /\ t[X] = f[e] + t[Y]
  <2>1. t[X] = Folded(t, f, X)
    BY <1>1
  <2> QED BY <1>0, <2>1 DEF Folded
<1>5. e \in X /\ Cardinality(Y) = m - 1 /\ m \in Nat \ {0} /\ Y \in SUBSET S
  BY <1>1, <1>3, <1>4, OneLess
<1>6. f[e] \in Int /\ t[Y] \notin Int
  BY <1>3, <1>4, <1>5
<1>7. m - 1 \in T
  BY <1>5, <1>6
<1> HIDE DEF T
<1> QED BY <1>2, <1>5, <1>7

LEMMA TotalsAdd ==
  ASSUME NEW S, IsFiniteSet(S), NEW f \in [S -> Int], NEW t, Totals(t, f, S)
  PROVE  Adds(t, f, S)
<1>1. \A X \in SUBSET S : IsFiniteSet(X) /\ Cardinality(X) \in Nat /\ t[X] = Folded(t, f, X) /\ t[X] \in Int
  BY FS_Subset, FS_CardinalityType, TotalsAreInt DEF Totals
<1>2. t[{}] = 0
  BY <1>1 DEF Folded
<1>3. \A X \in SUBSET S : \A x \in X : t[X] = f[x] + t[X \ {x}]
  <2> SUFFICES ASSUME NEW A \in SUBSET S, NEW a \in A, t[A] # f[a] + t[A \ {a}] PROVE FALSE
    OBVIOUS
  <2> DEFINE T == { m \in Nat : \E X \in SUBSET S : Cardinality(X) = m /\ \E x \in X : t[X] # f[x] + t[X \ {x}] }
  <2>1. PICK m \in T : \A j \in T : m <= j
    <3>0. Cardinality(A) \in T
      BY <1>1
    <3>1. T \in SUBSET Nat /\ T # {}
      BY <3>0
    <3> HIDE DEF T
    <3> QED BY <3>1, HasLeast
  <2>2. PICK X \in SUBSET S : Cardinality(X) = m /\ \E x \in X : t[X] # f[x] + t[X \ {x}]
    OBVIOUS
  <2>3. PICK z \in X : t[X] # f[z] + t[X \ {z}]
    BY <2>2
  <2> DEFINE e == CHOOSE x \in X : TRUE
  <2>4. e \in X /\ Cardinality(X \ {e}) = m - 1 /\ m \in Nat \ {0} /\ t[X] = f[e] + t[X \ {e}]
    BY <1>1, <2>2, <2>3, OneLess DEF Folded
  <2> HIDE DEF e
  <2>5. z # e /\ z \in X \ {e} /\ e \in X \ {z}
    BY <2>3, <2>4
  <2>6. m - 1 \notin T
    BY <2>1, <2>4
  <2>7. \A Y \in SUBSET S : Cardinality(Y) = m - 1 => \A x \in Y : t[Y] = f[x] + t[Y \ {x}]
    <3>1. m - 1 \in Nat
      BY <2>4
    <3> QED BY <2>6, <3>1
  <2>8. X \ {e} \in SUBSET S /\ X \ {z} \in SUBSET S /\ Cardinality(X \ {z}) = m - 1
    BY <1>1, <2>2, <2>3, <2>4, FS_RemoveElement
  <2>9. t[X \ {e}] = f[z] + t[(X \ {e}) \ {z}] /\ t[X \ {z}] = f[e] + t[(X \ {z}) \ {e}]
    BY <2>4, <2>5, <2>7, <2>8
  <2>10. (X \ {e}) \ {z} = (X \ {z}) \ {e}
    OBVIOUS
  <2>11. PICK a1 \in Int, b1 \in Int, c1 \in Int : a1 = f[e] /\ b1 = f[z] /\ c1 = t[(X \ {e}) \ {z}]
    BY <1>1, <2>3, <2>4, <2>8
  <2>12. t[X] = a1 + (b1 + c1) /\ t[X \ {z}] = a1 + c1
    BY <2>4, <2>9, <2>10, <2>11
  <2>13. t[X] = b1 + (a1 + c1)
    BY <2>12
  <2> QED BY <2>3, <2>11, <2>12, <2>13
<1> QED BY <1>1, <1>2, <1>3 DEF Adds

\* The sums over what two functions have in common are the same.
LEMMA SumsAgree ==
  ASSUME NEW S, IsFiniteSet(S), NEW f, NEW g, NEW t, NEW s, Adds(t, f, S), Adds(s, g, S),
         NEW A \in SUBSET S, \A x \in A : f[x] = g[x]
  PROVE  t[A] = s[A]
<1> SUFFICES ASSUME t[A] # s[A] PROVE FALSE
  OBVIOUS
<1> DEFINE T == { m \in Nat : \E X \in SUBSET A : Cardinality(X) = m /\ t[X] # s[X] }
<1>1. \A X \in SUBSET A : IsFiniteSet(X) /\ Cardinality(X) \in Nat
  BY FS_Subset, FS_CardinalityType
<1>2. PICK m \in T : \A j \in T : m <= j
  <2>0. Cardinality(A) \in T
    BY <1>1
  <2>1. T \in SUBSET Nat /\ T # {}
    BY <2>0
  <2> HIDE DEF T
  <2> QED BY <2>1, HasLeast
<1>3. PICK X \in SUBSET A : Cardinality(X) = m /\ t[X] # s[X]
  OBVIOUS
<1> DEFINE e == CHOOSE x \in X : TRUE
<1>4. X # {}
  BY <1>3 DEF Adds
<1>5. e \in X /\ Cardinality(X \ {e}) = m - 1 /\ m \in Nat \ {0}
  BY <1>1, <1>3, <1>4, OneLess
<1> HIDE DEF e
<1>6. t[X] = f[e] + t[X \ {e}] /\ s[X] = g[e] + s[X \ {e}] /\ f[e] = g[e]
  BY <1>5 DEF Adds
<1>7. t[X \ {e}] # s[X \ {e}]
  BY <1>3, <1>6
<1>8. m - 1 \in T
  BY <1>5, <1>7
<1> HIDE DEF T
<1> QED BY <1>2, <1>5, <1>8

LEMMA SumIs ==
  ASSUME NEW S, IsFiniteSet(S), NEW f \in [S -> Int]
  PROVE  \E t : Adds(t, f, S) /\ SumOver(f, S) = t[S]
<1>1. Totals(CHOOSE t : Totals(t, f, S), f, S)
  BY TotalsExist
<1> QED BY <1>1, TotalsAdd DEF SumOver

LEMMA SumIsInt ==
  ASSUME NEW S, IsFiniteSet(S), NEW f \in [S -> Int]
  PROVE  SumOver(f, S) \in Int
<1>1. PICK t : Adds(t, f, S) /\ SumOver(f, S) = t[S]
  BY SumIs
<1>2. S \in SUBSET S
  OBVIOUS
<1> QED BY <1>1, <1>2 DEF Adds

LEMMA SumOfNothing ==
  ASSUME NEW S, IsFiniteSet(S)
  PROVE  SumOver([x \in S |-> 0], S) = 0
<1> SUFFICES ASSUME SumOver([x \in S |-> 0], S) # 0 PROVE FALSE
  OBVIOUS
<1> DEFINE f == [x \in S |-> 0]
<1>1. PICK t : Adds(t, f, S) /\ t[S] # 0
  BY SumIs
<1> DEFINE T == { m \in Nat : \E X \in SUBSET S : Cardinality(X) = m /\ t[X] # 0 }
<1>2. \A X \in SUBSET S : IsFiniteSet(X) /\ Cardinality(X) \in Nat
  BY FS_Subset, FS_CardinalityType
<1>3. PICK m \in T : \A j \in T : m <= j
  <2>0. Cardinality(S) \in T
    BY <1>1, <1>2
  <2>1. T \in SUBSET Nat /\ T # {}
    BY <2>0
  <2> HIDE DEF T
  <2> QED BY <2>1, HasLeast
<1>4. PICK X \in SUBSET S : Cardinality(X) = m /\ t[X] # 0
  OBVIOUS
<1> DEFINE e == CHOOSE x \in X : TRUE
<1>5. X # {}
  BY <1>1, <1>4 DEF Adds
<1>6. e \in X /\ Cardinality(X \ {e}) = m - 1 /\ m \in Nat \ {0}
  BY <1>2, <1>4, <1>5, OneLess
<1> HIDE DEF e
<1>7. t[X] = f[e] + t[X \ {e}] /\ f[e] = 0 /\ t[X \ {e}] \in Int
  BY <1>1, <1>6 DEF Adds
<1>8. m - 1 \in T
  BY <1>4, <1>6, <1>7
<1> HIDE DEF T
<1> QED BY <1>3, <1>6, <1>8

\* One member changes, and the sum by as much.
LEMMA SumChanges ==
  ASSUME NEW S, IsFiniteSet(S), NEW f \in [S -> Int], NEW g \in [S -> Int], NEW a \in S,
         \A x \in S \ {a} : g[x] = f[x]
  PROVE  SumOver(g, S) = SumOver(f, S) - f[a] + g[a]
<1>1. PICK t : Adds(t, f, S) /\ SumOver(f, S) = t[S]
  BY SumIs
<1>2. PICK s : Adds(s, g, S) /\ SumOver(g, S) = s[S]
  BY SumIs
<1>3. t[S \ {a}] = s[S \ {a}]
  <2>1. S \ {a} \in SUBSET S
    OBVIOUS
  <2> QED BY <1>1, <1>2, <2>1, SumsAgree
<1>4. t[S] = f[a] + t[S \ {a}] /\ s[S] = g[a] + s[S \ {a}]
  BY <1>1, <1>2 DEF Adds
<1>5. t[S \ {a}] \in Int /\ f[a] \in Int /\ g[a] \in Int
  BY <1>1 DEF Adds
<1> QED BY <1>1, <1>2, <1>3, <1>4, <1>5

\* A set of members loses one each, and the sum as many as there are.
LEMMA SumLess ==
  ASSUME NEW S, IsFiniteSet(S), NEW f \in [S -> Int], NEW C \in SUBSET S
  PROVE  SumOver([x \in S |-> IF x \in C THEN f[x] - 1 ELSE f[x]], S)
           = SumOver(f, S) - Cardinality(C)
<1> DEFINE Less(B) == [x \in S |-> IF x \in B THEN f[x] - 1 ELSE f[x]]
           T == { m \in Nat : \E B \in SUBSET S : Cardinality(B) = m
                                /\ SumOver(Less(B), S) # SumOver(f, S) - m }
<1>1. \A B \in SUBSET S : IsFiniteSet(B) /\ Cardinality(B) \in Nat
  BY FS_Subset, FS_CardinalityType
<1>2. \A B \in SUBSET S : Less(B) \in [S -> Int]
  OBVIOUS
<1>3. ASSUME NEW B \in SUBSET S, NEW b \in B
      PROVE  /\ Less(B)[b] = f[b] - 1 /\ Less(B \ {b})[b] = f[b]
             /\ \A x \in S \ {b} : Less(B)[x] = Less(B \ {b})[x]
  OBVIOUS
<1>4. Less({}) = f
  OBVIOUS
<1> HIDE DEF Less
<1>5. T = {}
  <2> SUFFICES ASSUME T # {} PROVE FALSE
    OBVIOUS
  <2>1. PICK m \in T : \A j \in T : m <= j
    <3>1. T \in SUBSET Nat
      OBVIOUS
    <3> HIDE DEF T
    <3> QED BY <3>1, HasLeast
  <2>2. PICK B \in SUBSET S : Cardinality(B) = m /\ SumOver(Less(B), S) # SumOver(f, S) - m
    OBVIOUS
  <2>3. SumOver(f, S) \in Int /\ m \in Nat
    BY SumIsInt
  <2>4. B # {}
    BY <1>4, <2>2, <2>3, FS_EmptySet
  <2>5. PICK b \in B : TRUE
    BY <2>4
  <2>6. Cardinality(B \ {b}) = m - 1 /\ m # 0 /\ B \ {b} \in SUBSET S
    BY <1>1, <2>2, <2>5, FS_RemoveElement, FS_EmptySet
  <2>7. SumOver(Less(B \ {b}), S) = SumOver(f, S) - (m - 1)
    <3>1. m - 1 \notin T
      BY <2>1, <2>3
    <3> QED BY <2>3, <2>6, <3>1
  <2>8. SumOver(Less(B), S) = SumOver(Less(B \ {b}), S) - f[b] + (f[b] - 1)
    <3>1. PICK g \in [S -> Int], h \in [S -> Int] : g = Less(B \ {b}) /\ h = Less(B)
      BY <1>2, <2>6
    <3>2. b \in S /\ g[b] = f[b] /\ h[b] = f[b] - 1 /\ \A x \in S \ {b} : h[x] = g[x]
      BY <1>3, <2>5, <3>1
    <3>3. SumOver(h, S) = SumOver(g, S) - g[b] + h[b]
      BY <3>2, SumChanges
    <3> QED BY <3>1, <3>2, <3>3
  <2>9. PICK n \in Int : n = f[b]
    BY <2>5
  <2> QED BY <2>2, <2>3, <2>7, <2>8, <2>9
<1>6. Cardinality(C) \notin T
  BY <1>5
<1>7. SumOver(Less(C), S) = SumOver(f, S) - Cardinality(C)
  BY <1>1, <1>6
<1> QED BY <1>7 DEF Less

LEMMA FoldIsSum ==
  ASSUME NEW f, NEW S
  PROVE  MapThenSumSet(LAMBDA x : f[x], S) = SumOver(f, S)
BY DEF MapThenSumSet, MapThenFoldSet, SumOver, Totals, Folded

-----------------------------------------------------------------------------
(* What is known of the teams.  The wallets are moved by the requests of Teams, so its *)
(* lemmas hold here.                                                                   *)

TP == INSTANCE TeamsProofs WITH mix <- {}, u1 <- NoUser, u2 <- NoUser, u3 <- NoUser

LEMMA TeamAssumed == TP!TeamAssumption
BY WalletAssumption DEF Team!TeamAssumption, TP!TeamAssumption

LEMMA TeamStart == Team!TeamInit => TP!TeamInit
BY DEF Team!TeamInit, TP!TeamInit, Team!Free, TP!Free, Team!Unsent, TP!Unsent

\* A step of a request here is the same step there.
LEMMA SameStart ==
  ASSUME NEW r, Team!StartStep(r)
  PROVE  TP!StartStep(r)
<1>1. ASSUME NEW a, Team!CreateStart(r, a)
      PROVE  TP!CreateStart(r, a)
  BY <1>1 DEF Team!CreateStart, TP!CreateStart, Team!Begin, TP!Begin, Team!Free, TP!Free,
         Team!teamTables, TP!teamTables
<1>2. ASSUME NEW a, NEW i, Team!AcceptStart(r, a, i)
      PROVE  TP!AcceptStart(r, a, i)
  BY <1>2 DEF Team!AcceptStart, TP!AcceptStart, Team!Unsent, TP!Unsent, Team!Begin, TP!Begin,
         Team!Free, TP!Free, Team!teamTables, TP!teamTables
<1>3. ASSUME NEW a, NEW do, NEW target, NEW newRole, NEW i, Team!MemberStart(r, a, do, target, newRole, i)
      PROVE  TP!MemberStart(r, a, do, target, newRole, i)
  BY <1>3 DEF Team!MemberStart, TP!MemberStart, Team!MemberActions, TP!MemberActions,
         Team!ManagerActions, TP!ManagerActions, Team!OwnerActions, TP!OwnerActions,
         Team!MayDo, TP!MayDo, Team!Begin, TP!Begin, Team!Free, TP!Free, Team!FirstStep,
         TP!FirstStep, Team!teamTables, TP!teamTables
<1> QED BY <1>1, <1>2, <1>3 DEF Team!StartStep, TP!StartStep, Team!GivenRoles, TP!GivenRoles

LEMMA SameMove ==
  ASSUME NEW r, Team!TransferMove(r)
  PROVE  TP!TransferMove(r)
BY DEF Team!TransferMove, TP!TransferMove, Team!At, TP!At, Team!Free, TP!Free,
       Team!Exists, TP!Exists, Team!Done, TP!Done

LEMMA SameRequest ==
  ASSUME NEW r, Team!RequestStep(r)
  PROVE  TP!RequestStep(r)
<1>1. ASSUME NEW o, Team!CreateInsertOrg(r, o)
      PROVE  TP!CreateInsertOrg(r, o)
  BY <1>1 DEF Team!CreateInsertOrg, TP!CreateInsertOrg, Team!At, TP!At, Team!Free, TP!Free,
         Team!Done, TP!Done, Team!teamTables, TP!teamTables
<1>2. ASSUME Team!CreateInsertMember(r)
      PROVE  TP!CreateInsertMember(r)
  BY <1>2 DEF Team!CreateInsertMember, TP!CreateInsertMember, Team!At, TP!At, Team!Free,
         TP!Free, Team!CanJoin, TP!CanJoin, Team!Exists, TP!Exists, Team!SetMember,
         TP!SetMember, Team!Done, TP!Done, Team!Goto, TP!Goto, Team!teamTables,
         TP!teamTables
<1>3. ASSUME Team!CreateUndo(r)
      PROVE  TP!CreateUndo(r)
  BY <1>3 DEF Team!CreateUndo, TP!CreateUndo, Team!At, TP!At, Team!Free, TP!Free,
         Team!DeleteOrg, TP!DeleteOrg, Team!Unsent, TP!Unsent, Team!Done, TP!Done
<1>4. ASSUME Team!AcceptReadMember(r)
      PROVE  TP!AcceptReadMember(r)
  BY <1>4 DEF Team!AcceptReadMember, TP!AcceptReadMember, Team!At, TP!At, Team!Free, TP!Free,
         Team!Done, TP!Done, Team!Goto, TP!Goto, Team!teamTables, TP!teamTables
<1>5. ASSUME Team!AcceptReadSeats(r)
      PROVE  TP!AcceptReadSeats(r)
  <2>1. \A o : Team!MembersOf(o) = TP!MembersOf(o)
    BY DEF Team!MembersOf, TP!MembersOf
  <2>2. ASSUME NEW o, NEW lost PROVE Team!HasRoom(o, lost) <=> TP!HasRoom(o, lost)
    <3>1. Team!Cardinality(Team!MembersOf(o)) = TP!Cardinality(TP!MembersOf(o))
      BY <2>1 DEF Team!Cardinality, TP!Cardinality
    <3> QED BY <3>1 DEF Team!HasRoom, TP!HasRoom, Team!Exists, TP!Exists
  <2>3. \A to : (Team!Goto(r, to) <=> TP!Goto(r, to)) /\ (Team!Done(r) <=> TP!Done(r))
    BY DEF Team!Goto, TP!Goto, Team!Done, TP!Done, Team!Free, TP!Free
  <2>4. Team!At(r, "accept", "read_seats") <=> TP!At(r, "accept", "read_seats")
    BY DEF Team!At, TP!At, Team!Free, TP!Free
  <2> QED BY <1>5, <2>2, <2>3, <2>4 DEF Team!AcceptReadSeats, TP!AcceptReadSeats,
             Team!teamTables, TP!teamTables
<1>6. ASSUME Team!AcceptInsert(r)
      PROVE  TP!AcceptInsert(r)
  BY <1>6 DEF Team!AcceptInsert, TP!AcceptInsert, Team!At, TP!At, Team!Free, TP!Free,
         Team!CanJoin, TP!CanJoin, Team!Exists, TP!Exists, Team!SetMember, TP!SetMember,
         Team!Goto, TP!Goto, Team!Done, TP!Done, Team!teamTables, TP!teamTables
<1>7. ASSUME Team!AcceptMark(r)
      PROVE  TP!AcceptMark(r)
  BY <1>7 DEF Team!AcceptMark, TP!AcceptMark, Team!At, TP!At, Team!Free, TP!Free, Team!Done,
         TP!Done
<1>8. ASSUME Team!ReadOwner(r)
      PROVE  TP!ReadOwner(r)
  BY <1>8 DEF Team!ReadOwner, TP!ReadOwner, Team!At, TP!At, Team!Free, TP!Free, Team!Refused,
         TP!Refused, Team!Exists, TP!Exists, Team!Done, TP!Done, Team!Goto, TP!Goto,
         Team!teamTables, TP!teamTables
<1>9. ASSUME Team!RemoveWrite(r)
      PROVE  TP!RemoveWrite(r)
  BY <1>9 DEF Team!RemoveWrite, TP!RemoveWrite, Team!At, TP!At, Team!Free, TP!Free,
         Team!SetMember, TP!SetMember, Team!Done, TP!Done
<1>10. ASSUME Team!RoleWrite(r)
      PROVE  TP!RoleWrite(r)
  BY <1>10 DEF Team!RoleWrite, TP!RoleWrite, Team!At, TP!At, Team!Free, TP!Free, Team!Done,
         TP!Done
<1>11. ASSUME NEW i, Team!InviteWrite(r, i)
      PROVE  TP!InviteWrite(r, i)
  BY <1>11 DEF Team!InviteWrite, TP!InviteWrite, Team!At, TP!At, Team!Free, TP!Free,
         Team!Unsent, TP!Unsent, Team!Exists, TP!Exists, Team!Done, TP!Done
<1>12. ASSUME Team!RevokeWrite(r)
      PROVE  TP!RevokeWrite(r)
  BY <1>12 DEF Team!RevokeWrite, TP!RevokeWrite, Team!At, TP!At, Team!Free, TP!Free,
         Team!Unsent, TP!Unsent, Team!Done, TP!Done
<1>13. ASSUME Team!TransferCheck(r)
      PROVE  TP!TransferCheck(r)
  BY <1>13 DEF Team!TransferCheck, TP!TransferCheck, Team!At, TP!At, Team!Free, TP!Free,
         Team!MayReceive, TP!MayReceive, Team!Goto, TP!Goto, Team!Done, TP!Done,
         Team!teamTables, TP!teamTables
<1>14. ASSUME Team!CloseCheck(r)
      PROVE  TP!CloseCheck(r)
  BY <1>14 DEF Team!CloseCheck, TP!CloseCheck, Team!At, TP!At, Team!Free, TP!Free, Team!Goto,
         TP!Goto, Team!Done, TP!Done, Team!teamTables, TP!teamTables
<1>15. ASSUME Team!CloseMove(r)
      PROVE  TP!CloseMove(r)
  BY <1>15 DEF Team!CloseMove, TP!CloseMove, Team!At, TP!At, Team!Free, TP!Free,
         Team!DeleteOrg, TP!DeleteOrg, Team!Unsent, TP!Unsent, Team!Done, TP!Done
<1>16. ASSUME Team!Crash(r)
      PROVE  TP!Crash(r)
  BY <1>16 DEF Team!Crash, TP!Crash, Team!Free, TP!Free, Team!Done, TP!Done, Team!teamTables,
         TP!teamTables
<1> QED BY SameStart, <1>1, <1>2, <1>3, <1>4, <1>5, <1>6, <1>7, <1>8, <1>9, <1>10, <1>11, <1>12, <1>13, <1>14, <1>15, <1>16, Zenon
    DEF Team!RequestStep, TP!RequestStep

LEMMA SameExpiry ==
  ASSUME NEW i, Team!Expire(i)
  PROVE  TP!Expire(i)
BY DEF Team!Expire, TP!Expire, Team!Unsent, TP!Unsent

LEMMA TeamMoves ==
  ASSUME WalletNext \/ UNCHANGED walletVars
  PROVE  [TP!TeamNext]_(TP!teamVars)
<1>1. CASE TeamStep
  BY <1>1, SameRequest, SameExpiry DEF TeamStep, TP!TeamNext
<1>2. CASE \E r \in Reqs : TransferWallet(r)
  BY <1>2, SameMove DEF TransferWallet, TP!TeamNext
<1>3. ASSUME UNCHANGED teamState
      PROVE  UNCHANGED TP!teamVars
  BY <1>3 DEF teamState, TP!teamVars
<1>4. (\E c \in Calls : WalletCall(c) \/ \E a \in Users : ResolveWallet(c, a)) => UNCHANGED teamState
  BY DEF WalletCall, ResolveWallet
<1>5. (\E r \in GrantRefs : Deliver(r)) => UNCHANGED teamState
  BY DEF Deliver
<1>6. (\E u \in Users, k \in Keys : WalletGrowOld(u, k)) => UNCHANGED teamState
  BY DEF WalletGrowOld
<1>7. UNCHANGED walletVars => UNCHANGED teamState
  BY DEF walletVars
<1> QED BY <1>1, <1>2, <1>3, <1>4, <1>5, <1>6, <1>7 DEF WalletNext

-----------------------------------------------------------------------------
(* What moves money.  CreditLedger's TypeOK is of a ledger without handovers; this is  *)
(* what its requests rely on when there are some.                                      *)

Ready(q) ==
  /\ q \in Requests
  /\ q.op = "report_lead" /\ q.status = "eligible" => q.amount >= 1
  /\ q.op = "unlock_leads_bulk" => q.amount = Cardinality(q.keys)
  /\ q.op = "admin_revoke" => q.amount >= 0 /\ Revokes # {}

CallsReady ==
  /\ call \in [Calls -> Requests \cup {Idle}]
  /\ \A c \in Calls : call[c] # Idle => Ready(call[c])

LedgerReady ==
  /\ credits \in [Users -> Int] /\ WalletNonNegative
  /\ moved \in [Users \X Reasons \X Items -> Int]
  /\ CallsReady

Exported(u, K) ==
  /\ credits[u] >= Cardinality(K)
  /\ credits' = [credits EXCEPT ![u] = @ - Cardinality(K)]
  /\ moved' = [x \in DOMAIN moved |->
                 IF x[1] = u /\ x[2] = "unlock" /\ x[3] \in K
                 THEN moved[x] - 1 ELSE moved[x]]

Corrected(u, n) ==
  /\ Revokes # {} /\ n >= 0
  /\ credits' = [credits EXCEPT ![u] = n]
  /\ UNCHANGED moved

Charged(u, reason, item, n) ==
  /\ credits[u] + n >= 0
  /\ Apply(u, reason, item, n)

Money ==
  \/ UNCHANGED <<credits, moved>>
  \/ \E u \in Users, reason \in Reasons, item \in Items, n \in Int : Charged(u, reason, item, n)
  \/ \E u \in Users, K \in SUBSET Keys : Exported(u, K)
  \/ \E u \in Users, n \in Int : Corrected(u, n)

LEMMA Begun ==
  ASSUME CallsReady, NEW c \in Calls, NEW op, NEW u, NEW K, NEW ref, NEW n, NEW seen,
         NEW status, Starts(c, op, u, K, ref, n, seen, status),
         Ready([op |-> op, user |-> u, keys |-> K, ref |-> ref,
                amount |-> n, seen |-> seen, status |-> status])
  PROVE  CallsReady'
<1> DEFINE q == [op |-> op, user |-> u, keys |-> K, ref |-> ref,
                 amount |-> n, seen |-> seen, status |-> status]
<1>1. call' = [call EXCEPT ![c] = q]
  BY DEF Starts
<1>2. Ready(q) /\ q \in Requests
  BY DEF Ready
<1> HIDE DEF q
<1>3. call' \in [Calls -> Requests \cup {Idle}]
  BY <1>1, <1>2 DEF CallsReady
<1>4. ASSUME NEW d \in Calls, call'[d] # Idle PROVE Ready(call'[d])
  BY <1>1, <1>2, <1>4 DEF CallsReady
<1> QED BY <1>3, <1>4 DEF CallsReady, Ready

LEMMA Went ==
  ASSUME CallsReady, NEW c \in Calls, call[c] # Idle, NEW q, Ready(q),
         call' = [call EXCEPT ![c] = q]
  PROVE  CallsReady'
<1>1. q \in Requests
  BY DEF Ready
<1>2. call' \in [Calls -> Requests \cup {Idle}]
  BY <1>1 DEF CallsReady
<1>3. ASSUME NEW d \in Calls, call'[d] # Idle PROVE Ready(call'[d])
  BY <1>3 DEF CallsReady
<1> QED BY <1>2, <1>3 DEF CallsReady, Ready

LEMMA Answered ==
  ASSUME CallsReady, NEW c \in Calls, call[c] # Idle,
         NEW status \in Answers \cup {"written"}, Answer(c, status)
  PROVE  CallsReady'
<1> DEFINE q == [call[c] EXCEPT !.status = status]
<1>1. call[c] \in Requests /\ Ready(call[c]) /\ call \in [Calls -> Requests \cup {Idle}]
  BY DEF CallsReady
<1>2. call' = [call EXCEPT ![c] = q]
  BY <1>1 DEF Answer
<1>3. status \in InFlight \cup Answers /\ status # "eligible"
  BY DEF InFlight, Answers
<1>4. q \in Requests
  BY <1>1, <1>3 DEF Requests
<1>5. /\ q.op = call[c].op /\ q.amount = call[c].amount /\ q.keys = call[c].keys
      /\ q.status = status
  BY <1>1 DEF Requests
<1> HIDE DEF q
<1>6. Ready(q)
  BY <1>1, <1>3, <1>4, <1>5 DEF Ready
<1> QED BY <1>2, <1>6, Went

\* A request of CreditLedger that is running.
LEMMA Running ==
  ASSUME CallsReady, NEW c \in Calls, call[c] # Idle
  PROVE  /\ call[c] \in Requests /\ Ready(call[c])
         /\ call[c].user \in Users /\ call[c].keys \in SUBSET Keys /\ call[c].amount \in Int
BY DEF CallsReady, Requests

LEMMA LeadMoney ==
  ASSUME LedgerReady, NEW c \in Calls, NEW u \in Users, NEW k \in Keys, LeadStep(c, u, k)
  PROVE  Money /\ CallsReady'
<1> USE CreditAssumption
<1>0. k \in Items /\ {k} \in SUBSET Keys /\ CallsReady /\ credits[u] \in Int /\ credits[u] >= 0
  BY DEF Items, LedgerReady, WalletNonNegative
<1>a. UNCHANGED tables => Money
  BY DEF tables, Money
<1>b. ASSUME NEW reason \in Reasons, NEW n \in Int, Apply(u, reason, k, n), credits[u] + n >= 0
      PROVE  Money
  BY <1>0, <1>b DEF Money, Charged
<1>c. ASSUME NEW op \in {"unlock_lead", "unlock_owner", "report_lead"}, NEW n \in {0, 1},
             NEW status \in {"already", "checked"},
             Starts(c, op, u, {k}, NoRef, n, 0, status)
      PROVE  CallsReady'
  <2> DEFINE q == [op |-> op, user |-> u, keys |-> {k}, ref |-> NoRef,
                   amount |-> n, seen |-> 0, status |-> status]
  <2>1. q \in Requests
    BY <1>0 DEF Requests, Ops, InFlight, Answers
  <2>2. q.op = op /\ q.status = status
    OBVIOUS
  <2>3. Ready(q)
    <3> HIDE DEF q
    <3> QED BY <1>c, <2>1, <2>2 DEF Ready
  <2> QED BY <1>0, <1>c, <2>3, Begun
<1>1. CASE UnlockLeadCheck(c, u, k)
  <2>1. \E s \in {"already", "checked"} : Starts(c, "unlock_lead", u, {k}, NoRef, 1, 0, s)
    BY <1>1 DEF UnlockLeadCheck
  <2> QED BY <1>1, <1>a, <1>c, <2>1 DEF UnlockLeadCheck
<1>2. CASE UnlockLeadTake(c, u, k)
  <2>1. call[c] # Idle
    BY <1>2 DEF UnlockLeadTake, Is
  <2>2. CallsReady'
    BY <1>0, <1>2, <2>1, Answered DEF UnlockLeadTake, Answers
  <2>3. Apply(u, "unlock", k, -1) /\ CanPay(u, 1) => Money
    BY <1>0, <1>b DEF Reasons, CanPay
  <2> QED BY <1>2, <1>a, <2>2, <2>3 DEF UnlockLeadTake
<1>3. CASE UnlockOwnerCheck(c, u, k)
  <2>1. \E s \in {"already", "checked"} : Starts(c, "unlock_owner", u, {k}, NoRef, 1, 0, s)
    BY <1>3 DEF UnlockOwnerCheck
  <2> QED BY <1>3, <1>a, <1>c, <2>1 DEF UnlockOwnerCheck
<1>4. CASE UnlockOwnerTake(c, u, k)
  <2>1. call[c] # Idle
    BY <1>4 DEF UnlockOwnerTake, Is
  <2>2. CallsReady'
    BY <1>0, <1>4, <2>1, Answered DEF UnlockOwnerTake, Answers
  <2>3. Apply(u, "owner_reveal", k, -1) /\ CanPay(u, 1) => Money
    BY <1>0, <1>b DEF Reasons, CanPay
  <2> QED BY <1>4, <1>a, <2>2, <2>3 DEF UnlockOwnerTake
<1>5. CASE ReportCheck(c, u, k)
  <2>1. \E s \in {"already", "checked"} : Starts(c, "report_lead", u, {k}, NoRef, 0, 0, s)
    BY <1>5 DEF ReportCheck
  <2> QED BY <1>5, <1>a, <1>c, <2>1 DEF ReportCheck
<1>6. ASSUME NEW notOwner \in BOOLEAN, ReportRead(c, u, k, notOwner)
      PROVE  Money /\ CallsReady'
  <2>1. Is(c, "report_lead", "checked") /\ call[c] # Idle
    BY <1>6 DEF ReportRead, Is
  <2>2. Money
    BY <1>6 DEF ReportRead, Money, tables
  <2>3. ASSUME NEW s \in Answers, Answer(c, s)
        PROVE  CallsReady'
    BY <1>0, <2>1, <2>3, Answered
  <2>4. ASSUME NEW n \in {1, 2}, call' = [call EXCEPT ![c].status = "eligible", ![c].amount = n]
        PROVE  CallsReady'
    <3> DEFINE q == [call[c] EXCEPT !.status = "eligible", !.amount = n]
    <3>1. call[c] \in Requests /\ call \in [Calls -> Requests \cup {Idle}]
      BY <1>0, <2>1 DEF CallsReady
    <3>2. call' = [call EXCEPT ![c] = q]
      BY <2>4, <3>1
    <3>3. q \in Requests
      <4>1. n \in Int /\ "eligible" \in InFlight \cup Answers
        BY DEF InFlight
      <4> QED BY <3>1, <4>1 DEF Requests
    <3>5. q.op = "report_lead" /\ q.amount = n
      BY <2>1, <3>1 DEF Is, Requests
    <3> HIDE DEF q
    <3>4. Ready(q)
      BY <3>3, <3>5 DEF Ready
    <3> QED BY <1>0, <2>1, <3>2, <3>4, Went
  <2>5. CallsReady'
    <3>1. (\E s \in Answers : Answer(c, s))
            \/ \E n \in {1, 2} : call' = [call EXCEPT ![c].status = "eligible", ![c].amount = n]
      BY <1>6 DEF ReportRead, Answers
    <3> QED BY <2>3, <2>4, <3>1
  <2> QED BY <2>2, <2>5
<1>7. CASE ReportRefund(c, u, k)
  <2>1. Is(c, "report_lead", "eligible") /\ call[c] # Idle
    BY <1>7 DEF ReportRefund, Is
  <2>2. CallsReady'
    BY <1>0, <1>7, <2>1, Answered DEF ReportRefund, Answers
  <2>3. call[c].amount \in Int /\ call[c].amount >= 1
    BY <1>0, <2>1, Running DEF Is, Ready
  <2>4. Apply(u, "lead_refund", k, call[c].amount) => Money
    BY <1>0, <1>b, <2>3 DEF Reasons
  <2> QED BY <1>7, <1>a, <2>2, <2>4 DEF ReportRefund
<1> QED BY <1>1, <1>2, <1>3, <1>4, <1>5, <1>6, <1>7 DEF LeadStep

LEMMA CallMoney ==
  ASSUME LedgerReady, NEW c \in Calls, CallStep(c)
  PROVE  Money /\ CallsReady'
<1> USE CreditAssumption
<1>0. CallsReady /\ credits \in [Users -> Int] /\ \A u \in Users : credits[u] >= 0
  BY DEF LedgerReady, WalletNonNegative
<1>a. UNCHANGED tables => Money
  BY DEF tables, Money
<1>1. ASSUME NEW u \in Users, NEW k \in Keys, LeadStep(c, u, k)
      PROVE  Money /\ CallsReady'
  BY <1>1, LeadMoney
<1>2. ASSUME NEW u \in Users, NEW K \in Batches, BulkCheck(c, u, K)
      PROVE  Money /\ CallsReady'
  <2> DEFINE L == Locked(u, K)
             s == IF L = {} THEN "ok" ELSE "checked"
             q == [op |-> "unlock_leads_bulk", user |-> u, keys |-> L, ref |-> NoRef,
                   amount |-> Cardinality(L), seen |-> 0, status |-> s]
  <2>1. L \in SUBSET Keys
    BY DEF Locked
  <2>2. Cardinality(L) \in Nat
    BY <2>1, FS_Subset, FS_CardinalityType
  <2>3. Starts(c, "unlock_leads_bulk", u, L, NoRef, Cardinality(L), 0, s)
    BY <1>2 DEF BulkCheck
  <2>4. s \in InFlight \cup Answers
    BY DEF InFlight, Answers
  <2> HIDE DEF L, s
  <2>5. q \in Requests
    BY <2>1, <2>2, <2>4 DEF Requests, Ops
  <2>6. q.op = "unlock_leads_bulk" /\ q.amount = Cardinality(q.keys)
    OBVIOUS
  <2>7. Ready(q)
    <3> HIDE DEF q
    <3> QED BY <2>5, <2>6 DEF Ready
  <2>8. CallsReady'
    BY <1>0, <2>3, <2>7, Begun
  <2> QED BY <1>2, <1>a, <2>8 DEF BulkCheck
<1>3. ASSUME NEW u \in Users, NEW r \in SpendRefs, NEW n \in SpendAmounts, SpendCheck(c, u, r, n)
      PROVE  Money /\ CallsReady'
  <2> DEFINE s == IF n <= 0 THEN "ok"
                  ELSE IF <<u, "spend", r>> \in entries THEN "already" ELSE "checked"
             q == [op |-> "spend_credits", user |-> u, keys |-> {}, ref |-> r,
                   amount |-> n, seen |-> 0, status |-> s]
  <2>1. Starts(c, "spend_credits", u, {}, r, n, 0, s)
    BY <1>3 DEF SpendCheck
  <2>2. s \in InFlight \cup Answers /\ n \in Int
    BY DEF InFlight, Answers
  <2> HIDE DEF s
  <2>3. q \in Requests
    BY <2>2 DEF Requests, Ops
  <2>4. q.op = "spend_credits"
    OBVIOUS
  <2>5. Ready(q)
    <3> HIDE DEF q
    <3> QED BY <2>3, <2>4 DEF Ready
  <2>6. CallsReady'
    BY <1>0, <2>1, <2>5, Begun
  <2> QED BY <1>3, <1>a, <2>6 DEF SpendCheck
<1>4. ASSUME NEW u \in Users, NEW r \in SpendRefs, SpendTake(c, u, r)
      PROVE  Money /\ CallsReady'
  <2>1. call[c] # Idle
    BY <1>4 DEF SpendTake, Is
  <2>2. CallsReady'
    BY <1>0, <1>4, <2>1, Answered DEF SpendTake, Answers
  <2>3. PICK n \in Int : n = call[c].amount
    BY <1>0, <2>1, Running
  <2>4. r \in Items /\ -n \in Int /\ credits[u] \in Int
    BY <1>0 DEF Items
  <2>5. Apply(u, "spend", r, -n) /\ CanPay(u, n) => Money
    <3> SUFFICES ASSUME Apply(u, "spend", r, -n), CanPay(u, n) PROVE Money
      OBVIOUS
    <3>1. Charged(u, "spend", r, -n)
      BY <2>3, <2>4 DEF Charged, CanPay
    <3> QED BY <2>4, <3>1 DEF Money, Reasons
  <2> QED BY <1>4, <1>a, <2>2, <2>3, <2>5 DEF SpendTake
<1>5. ASSUME NEW u \in Users, NEW d \in Revokes, AdminRevokeRead(c, u, d)
      PROVE  Money /\ CallsReady'
  <2>1. PICK n \in Int : n = Clamped(u, d) /\ n >= 0
    BY <1>0 DEF Clamped
  <2>2. PICK b \in Int : b = credits[u]
    BY <1>0
  <2> DEFINE q == [op |-> "admin_revoke", user |-> u, keys |-> {}, ref |-> NoRef,
                   amount |-> n, seen |-> b, status |-> "checked"]
  <2>3. Starts(c, "admin_revoke", u, {}, NoRef, n, b, "checked")
    BY <1>5, <2>1, <2>2 DEF AdminRevokeRead
  <2>4. q \in Requests
    BY DEF Requests, Ops, InFlight
  <2>5. q.op = "admin_revoke" /\ q.amount = n /\ Revokes # {}
    OBVIOUS
  <2>6. Ready(q)
    <3> HIDE DEF q
    <3> QED BY <2>1, <2>4, <2>5 DEF Ready
  <2>7. CallsReady'
    BY <1>0, <2>3, <2>6, Begun
  <2> QED BY <1>5, <1>a, <2>7 DEF AdminRevokeRead
<1>6. CASE BulkTake(c)
  <2>1. call[c] # Idle /\ call[c].op = "unlock_leads_bulk"
    BY <1>6 DEF BulkTake, Is
  <2>2. CallsReady'
    BY <1>0, <1>6, <2>1, Answered DEF BulkTake, Answers
  <2>3. PICK u \in Users, K \in SUBSET Keys :
          u = call[c].user /\ K = call[c].keys /\ call[c].amount = Cardinality(K)
    BY <1>0, <2>1, Running DEF Ready
  <2>4. UNCHANGED tables \/ Exported(u, K)
    BY <1>6, <2>3 DEF BulkTake, Exported, CanPay
  <2> QED BY <1>a, <2>2, <2>4 DEF Money
<1>7. CASE AdminRevokeWrite(c)
  <2>1. call[c] # Idle /\ call[c].op = "admin_revoke"
    BY <1>7 DEF AdminRevokeWrite, Is
  <2>2. CallsReady'
    BY <1>0, <1>7, <2>1, Answered DEF AdminRevokeWrite, Answers
  <2>3. PICK u \in Users, n \in Int : u = call[c].user /\ n = call[c].amount
    BY <1>0, <2>1, Running
  <2>4. Corrected(u, n)
    BY <1>0, <1>7, <2>1, <2>3, Running DEF AdminRevokeWrite, Corrected, Ready
  <2> QED BY <2>2, <2>4 DEF Money
<1>8. CASE AdminRevokeBook(c)
  <2>1. call[c] # Idle
    BY <1>8 DEF AdminRevokeBook, Is
  <2>2. CallsReady'
    BY <1>0, <1>8, <2>1, Answered DEF AdminRevokeBook, Answers
  <2> QED BY <1>8, <2>2 DEF AdminRevokeBook, Money
<1>9. CASE Finish(c)
  <2>1. CallsReady'
    BY <1>0, <1>9 DEF Finish, CallsReady, Ready
  <2> QED BY <1>9, <1>a, <2>1 DEF Finish
<1> QED BY <1>1, <1>2, <1>3, <1>4, <1>5, <1>6, <1>7, <1>8, <1>9 DEF CallStep

\* The history has a cell for each account, reason and item: finitely many.
Cells == Users \X Reasons \X Items

Finite == IsFiniteSet(Users) /\ IsFiniteSet(GrantRefs) /\ IsFiniteSet(SpendRefs)

LEMMA CellsFinite == ASSUME Finite PROVE IsFiniteSet(Cells)
<1>1. IsFiniteSet(Reasons)
  <2>1. IsFiniteSet({"grant"})
    BY FS_Singleton
  <2>2. IsFiniteSet({"grant"} \cup {"spend"})
    BY <2>1, FS_AddElement
  <2>3. IsFiniteSet(({"grant"} \cup {"spend"}) \cup {"unlock"})
    BY <2>2, FS_AddElement
  <2>4. IsFiniteSet((({"grant"} \cup {"spend"}) \cup {"unlock"}) \cup {"owner_reveal"})
    BY <2>3, FS_AddElement
  <2>5. IsFiniteSet(((({"grant"} \cup {"spend"}) \cup {"unlock"}) \cup {"owner_reveal"})
                      \cup {"lead_refund"})
    BY <2>4, FS_AddElement
  <2>6. Reasons = ((({"grant"} \cup {"spend"}) \cup {"unlock"}) \cup {"owner_reveal"})
                     \cup {"lead_refund"}
    BY DEF Reasons
  <2> QED BY <2>5, <2>6
<1>2. IsFiniteSet(Items)
  BY CreditAssumption, FS_Union DEF Items, Finite
<1>3. IsFiniteSet((Users \X Reasons) \X Items)
  BY <1>1, <1>2, FS_Product DEF Finite
<1> DEFINE f == [p \in (Users \X Reasons) \X Items |-> <<p[1][1], p[1][2], p[2]>>]
<1>4. f \in Surjection((Users \X Reasons) \X Items, Cells)
  <2>1. f \in [(Users \X Reasons) \X Items -> Cells]
    BY DEF Cells
  <2>2. ASSUME NEW x \in Cells PROVE \E p \in (Users \X Reasons) \X Items : f[p] = x
    <3>1. <<<<x[1], x[2]>>, x[3]>> \in (Users \X Reasons) \X Items
      BY DEF Cells
    <3>2. f[<<<<x[1], x[2]>>, x[3]>>] = x
      BY <3>1 DEF Cells
    <3> QED BY <3>1, <3>2
  <2> HIDE DEF f
  <2> QED BY <2>1, <2>2 DEF Surjection
<1> HIDE DEF f
<1> QED BY <1>3, <1>4, FS_Surjection

LEMMA ExportedCells ==
  ASSUME NEW u, NEW K, IsFiniteSet(K)
  PROVE  Cardinality({<<u, "unlock", k>> : k \in K}) = Cardinality(K)
<1> DEFINE C == {<<u, "unlock", k>> : k \in K}
           f == [k \in K |-> <<u, "unlock", k>>]
<1>1. f \in Bijection(K, C)
  <2>1. f \in [K -> C] /\ \A a, b \in K : f[a] = f[b] => a = b
    OBVIOUS
  <2>2. \A x \in C : \E k \in K : f[k] = x
    OBVIOUS
  <2> HIDE DEF f, C
  <2> QED BY <2>1, <2>2 DEF Bijection, Injection, Surjection, IsInjective
<1> HIDE DEF f, C
<1>2. ExistsBijection(K, C)
  BY <1>1, Fun_ExistsBij
<1> QED BY <1>2, FS_Bijection DEF C

-----------------------------------------------------------------------------
(* Credits are conserved *)

\* What the accounts hold and what the history says they were given and took.
Balances == SumOver(credits, Users) = SumOver(moved, Cells)

LEMMA ConservedIsBalances ==
  ASSUME DOMAIN moved = Cells
  PROVE  CreditsConserved <=> Balances
BY FoldIsSum DEF CreditsConserved, Balances

\* Wallets change hands: one account gets what another had.
Handed(from, to) ==
  /\ from # to
  /\ credits' = MoveCredits(from, to)
  /\ UNCHANGED moved

LEMMA HandedKeeps ==
  ASSUME Finite, LedgerReady, Balances, NEW from \in Users, NEW to \in Users, Handed(from, to)
  PROVE  Balances'
<1>1. credits \in [Users -> Int] /\ IsFiniteSet(Users)
  BY DEF LedgerReady, Finite
<1>2. PICK v \in Int : v = credits[from]
  BY <1>1
<1> DEFINE empty == [credits EXCEPT ![from] = 0]
<1>3. /\ empty \in [Users -> Int] /\ empty[from] = 0
      /\ \A x \in Users \ {from} : empty[x] = credits[x]
  BY <1>1
<1>4. credits' = [credits EXCEPT ![from] = 0, ![to] = @ + v]
  BY <1>2 DEF Handed, MoveCredits
<1>5. /\ credits' \in [Users -> Int] /\ credits'[to] = empty[to] + v
      /\ \A x \in Users \ {to} : credits'[x] = empty[x]
  <2>1. from # to
    BY DEF Handed
  <2> QED BY <1>1, <1>2, <1>4, <2>1
<1> HIDE DEF empty
<1>6. SumOver(empty, Users) = SumOver(credits, Users) - v + 0
  BY <1>1, <1>2, <1>3, SumChanges
<1>7. SumOver(credits', Users) = SumOver(credits, Users)
  <2>1. SumOver(credits', Users) = SumOver(empty, Users) - empty[to] + credits'[to]
    BY <1>1, <1>3, <1>5, SumChanges
  <2>2. PICK a \in Int, s \in Int : a = empty[to] /\ s = SumOver(credits, Users)
    BY <1>1, <1>3, SumIsInt
  <2> QED BY <1>5, <1>6, <2>1, <2>2
<1> QED BY <1>7 DEF Handed, Balances

LEMMA ChargedKeeps ==
  ASSUME Finite, LedgerReady, Balances, NEW u \in Users, NEW reason \in Reasons,
         NEW item \in Items, NEW n \in Int, Charged(u, reason, item, n)
  PROVE  Balances'
<1> DEFINE x == <<u, reason, item>>
<1>1. /\ credits \in [Users -> Int] /\ IsFiniteSet(Users)
      /\ moved \in [Cells -> Int] /\ IsFiniteSet(Cells) /\ x \in Cells
  BY CellsFinite DEF LedgerReady, Finite, Cells
<1> HIDE DEF x
<1>2. PICK a \in Int, b \in Int : a = credits[u] /\ b = moved[x]
  BY <1>1
<1>3. /\ credits' \in [Users -> Int] /\ credits'[u] = a + n
      /\ \A v \in Users \ {u} : credits'[v] = credits[v]
  BY <1>1, <1>2 DEF Charged, Apply
<1>4. /\ moved' \in [Cells -> Int] /\ moved'[x] = b + n
      /\ \A y \in Cells \ {x} : moved'[y] = moved[y]
  BY <1>1, <1>2 DEF Charged, Apply, x
<1>5. SumOver(credits', Users) = SumOver(credits, Users) - credits[u] + credits'[u]
  BY <1>1, <1>3, SumChanges
<1>6. SumOver(moved', Cells) = SumOver(moved, Cells) - moved[x] + moved'[x]
  BY <1>1, <1>4, SumChanges
<1>7. PICK s \in Int, t \in Int : s = SumOver(credits, Users) /\ t = SumOver(moved, Cells)
  BY <1>1, SumIsInt
<1> QED BY <1>2, <1>3, <1>4, <1>5, <1>6, <1>7 DEF Balances

LEMMA ExportedKeeps ==
  ASSUME Finite, LedgerReady, Balances, NEW u \in Users, NEW K \in SUBSET Keys, Exported(u, K)
  PROVE  Balances'
<1> DEFINE C == {<<u, "unlock", k>> : k \in K}
<1>1. /\ credits \in [Users -> Int] /\ IsFiniteSet(Users)
      /\ moved \in [Cells -> Int] /\ IsFiniteSet(Cells)
  BY CellsFinite DEF LedgerReady, Finite, Cells
<1>2. IsFiniteSet(K)
  BY CreditAssumption, FS_Subset
<1>3. PICK m \in Int : m = Cardinality(K)
  BY <1>2, FS_CardinalityType
<1>4. Cardinality(C) = m
  BY <1>2, <1>3, ExportedCells
<1>5. C \in SUBSET Cells
  BY DEF Cells, Items, Reasons
<1>6. moved' = [x \in Cells |-> IF x \in C THEN moved[x] - 1 ELSE moved[x]]
  <2>1. moved' = [x \in Cells |-> IF x[1] = u /\ x[2] = "unlock" /\ x[3] \in K
                                  THEN moved[x] - 1 ELSE moved[x]]
    BY <1>1 DEF Exported
  <2>2. \A x \in Cells : (x[1] = u /\ x[2] = "unlock" /\ x[3] \in K) <=> x \in C
    BY DEF Cells
  <2> HIDE DEF C
  <2> QED BY <2>1, <2>2
<1> HIDE DEF C
<1>7. SumOver(moved', Cells) = SumOver(moved, Cells) - m
  BY <1>1, <1>4, <1>5, <1>6, SumLess
<1>8. PICK a \in Int : a = credits[u]
  BY <1>1
<1>9. /\ credits' \in [Users -> Int] /\ credits'[u] = a - m
      /\ \A v \in Users \ {u} : credits'[v] = credits[v]
  BY <1>1, <1>3, <1>8 DEF Exported
<1>10. SumOver(credits', Users) = SumOver(credits, Users) - credits[u] + credits'[u]
  BY <1>1, <1>9, SumChanges
<1>11. PICK s \in Int : s = SumOver(credits, Users) /\ s = SumOver(moved, Cells)
  BY <1>1, SumIsInt DEF Balances
<1> QED BY <1>3, <1>7, <1>8, <1>9, <1>10, <1>11 DEF Balances

-----------------------------------------------------------------------------
(* The inductive invariant: the requests to the teams are well formed and move a       *)
(* wallet to somebody else, members have a team, so whoever resolves a wallet resolves *)
(* an account; and the requests to the ledger are ready.                               *)

TeamsReady == TP!TeamShape /\ TP!MembersOfTeams /\ TP!ToAnother

LEMMA TeamsReadyInit == Team!TeamInit => TeamsReady
<1> SUFFICES ASSUME Team!TeamInit PROVE TeamsReady
  OBVIOUS
<1>1. TP!TeamAssumption /\ TP!TeamInit
  BY TeamAssumed, TeamStart
<1>2. TP!TeamShape
  BY <1>1, TP!ShapeInit
<1>3. TP!MembersOfTeams /\ TP!ToAnother
  BY <1>1 DEF TP!TeamInit, TP!MembersOfTeams, TP!ToAnother, TP!At
<1> QED BY <1>2, <1>3 DEF TeamsReady

LEMMA TeamsReadyStep ==
  ASSUME TeamsReady, WalletNext \/ UNCHANGED walletVars
  PROVE  TeamsReady'
<1>1. TP!TeamAssumption /\ [TP!TeamNext]_(TP!teamVars)
  BY TeamAssumed, TeamMoves
<1>2. TP!TeamShape'
  BY <1>1, TP!ShapeStep DEF TeamsReady
<1>3. TP!MembersOfTeams'
  BY <1>1, TP!MembersExistStep DEF TeamsReady
<1>4. TP!ToAnother'
  BY <1>1, TP!ToAnotherStep DEF TeamsReady
<1> QED BY <1>2, <1>3, <1>4 DEF TeamsReady

\* The parties to a handover are two accounts.
LEMMA Parties ==
  ASSUME TeamsReady, NEW r \in Reqs, TransferWallet(r)
  PROVE  /\ req[r].who \in Users /\ req[r].target \in Users /\ req[r].org \in Orgs
         /\ req[r].who # req[r].target
<1>1. TP!At(r, "transfer", "move")
  BY SameMove DEF TransferWallet, TP!TransferMove
<1>2. req[r] # TP!Free /\ req[r].do = "transfer"
  BY <1>1 DEF TP!At
<1>3. TP!Formed(req[r])
  BY <1>2 DEF TeamsReady, TP!TeamShape
<1>4. /\ req[r].who \in Users /\ req[r].target \in Users /\ req[r].org \in Orgs
  BY <1>2, <1>3 DEF TP!Formed, TP!TeamRequests
<1> QED BY <1>1, <1>4 DEF TeamsReady, TP!ToAnother

\* A wallet is an account.
LEMMA WalletIsAccount ==
  ASSUME TeamsReady, NEW a \in Users
  PROVE  Resolved(a) \subseteq Users
<1>1. Wallet(a) \in Users
  BY DEF TeamsReady, TP!MembersOfTeams, TP!Exists, Wallet
<1> QED BY <1>1 DEF Resolved

LEMMA WalletMoney ==
  ASSUME TeamsReady, LedgerReady, WalletNext \/ UNCHANGED walletVars
  PROVE  /\ Money \/ \E from, to \in Users : Handed(from, to)
         /\ CallsReady'
<1>1. ASSUME UNCHANGED call
      PROVE  CallsReady'
  BY <1>1 DEF LedgerReady, CallsReady, Ready
<1>2. ASSUME UNCHANGED vars
      PROVE  Money /\ CallsReady'
  BY <1>1, <1>2 DEF vars, Money
<1>3. ASSUME NEW c \in Calls, WalletCall(c)
      PROVE  Money /\ CallsReady'
  BY <1>3, CallMoney DEF WalletCall
<1>4. ASSUME NEW c \in Calls, NEW a \in Users, ResolveWallet(c, a)
      PROVE  Money /\ CallsReady'
  BY <1>2, <1>4 DEF ResolveWallet
<1>5. ASSUME NEW r \in GrantRefs, Deliver(r)
      PROVE  Money /\ CallsReady'
  <2>1. PICK u \in Users : GrantCredits(u, r)
    BY <1>5, WalletIsAccount, WalletAssumption DEF Deliver
  <2>2. PICK n \in Int : n = Granted[r] /\ n > 0
    BY <2>1, CreditAssumption DEF GrantCredits
  <2>3. Charged(u, "grant", r, n)
    BY <2>1, <2>2 DEF GrantCredits, Charged, LedgerReady, WalletNonNegative
  <2>4. Money
    BY <2>2, <2>3 DEF Money, Reasons, Items
  <2> QED BY <1>1, <2>1, <2>4 DEF GrantCredits
<1>6. ASSUME NEW u \in Users, NEW k \in Keys, WalletGrowOld(u, k)
      PROVE  Money /\ CallsReady'
  BY <1>1, <1>6 DEF WalletGrowOld, GrowOld, Money
<1>7. ASSUME NEW r \in Reqs, TransferWallet(r)
      PROVE  /\ \E from, to \in Users : Handed(from, to)
             /\ CallsReady'
  <2>1. Handed(req[r].who, req[r].target)
    BY <1>7, Parties DEF TransferWallet, Handed
  <2> QED BY <1>1, <1>7, <2>1, Parties DEF TransferWallet
<1>8. CASE TeamStep
  BY <1>2, <1>8 DEF TeamStep
<1>9. CASE UNCHANGED walletVars
  BY <1>2, <1>9 DEF walletVars
<1> QED BY <1>3, <1>4, <1>5, <1>6, <1>7, <1>8, <1>9 DEF WalletNext

LEMMA LedgerReadyStep ==
  ASSUME TeamsReady, LedgerReady, WalletNext \/ UNCHANGED walletVars
  PROVE  LedgerReady'
<1>1. CallsReady'
  BY WalletMoney
<1>2. /\ credits \in [Users -> Int] /\ \A u \in Users : credits[u] >= 0
      /\ moved \in [Users \X Reasons \X Items -> Int]
  BY DEF LedgerReady, WalletNonNegative
<1> DEFINE Kept == /\ credits' \in [Users -> Int] /\ \A u \in Users : credits'[u] >= 0
                   /\ moved' \in [Users \X Reasons \X Items -> Int]
<1>3. UNCHANGED <<credits, moved>> => Kept
  BY <1>2
<1>4. ASSUME NEW u \in Users, NEW reason \in Reasons, NEW item \in Items, NEW n \in Int,
             Charged(u, reason, item, n)
      PROVE  Kept
  BY <1>2, <1>4 DEF Charged, Apply
<1>5. ASSUME NEW u \in Users, NEW K \in SUBSET Keys, Exported(u, K)
      PROVE  Kept
  <2>1. PICK n \in Int : n = Cardinality(K)
    BY CreditAssumption, FS_Subset, FS_CardinalityType
  <2>2. credits' \in [Users -> Int] /\ \A v \in Users : credits'[v] >= 0
    BY <1>2, <1>5, <2>1 DEF Exported
  <2>3. moved' \in [Users \X Reasons \X Items -> Int]
    BY <1>2, <1>5 DEF Exported
  <2> QED BY <2>2, <2>3
<1>6. ASSUME NEW u \in Users, NEW n \in Int, Corrected(u, n)
      PROVE  Kept
  BY <1>2, <1>6 DEF Corrected
<1>7. ASSUME NEW from \in Users, NEW to \in Users, Handed(from, to)
      PROVE  Kept
  BY <1>2, <1>7 DEF Handed, MoveCredits
<1>8. Kept
  <2> HIDE DEF Kept
  <2> QED BY <1>3, <1>4, <1>5, <1>6, <1>7, WalletMoney DEF Money
<1> QED BY <1>1, <1>8 DEF LedgerReady, WalletNonNegative

LEMMA LedgerReadyInit == Init => LedgerReady
BY DEF Init, LedgerReady, WalletNonNegative, CallsReady

\* No balance goes below zero, handovers included: a charge is checked under the row lock
\* of whoever it is taken from, and a handover empties a wallet into another (006, 027).
THEOREM WalletsNonNegative == WalletSpec => []WalletNonNegative
<1>1. WalletInit => TeamsReady /\ LedgerReady
  BY TeamsReadyInit, LedgerReadyInit DEF WalletInit
<1>2. TeamsReady /\ LedgerReady /\ [WalletNext]_walletVars => (TeamsReady /\ LedgerReady)'
  BY TeamsReadyStep, LedgerReadyStep
<1>3. LedgerReady => WalletNonNegative
  BY DEF LedgerReady
<1> QED BY <1>1, <1>2, <1>3, PTL DEF WalletSpec

\* "Moved, not copied" (027:43-49): for any people, teams, requests and purchases, the
\* balances together are what was granted and what was charged, whichever wallet was
\* resolved and whatever was in flight when it was handed over.  A correction by hand is
\* the one write the history does not have.
THEOREM CreditsAreConserved ==
  ASSUME Finite, Revokes = {}
  PROVE  WalletSpec => []CreditsConserved
<1> DEFINE Inv == TeamsReady /\ LedgerReady /\ Balances
<1>1. WalletInit => Inv
  <2> SUFFICES ASSUME WalletInit PROVE Inv
    OBVIOUS
  <2>1. TeamsReady /\ LedgerReady
    BY TeamsReadyInit, LedgerReadyInit DEF WalletInit
  <2>2. credits = [u \in Users |-> 0] /\ moved = [x \in Cells |-> 0]
    BY DEF WalletInit, Init, Cells
  <2>3. SumOver(credits, Users) = 0 /\ SumOver(moved, Cells) = 0
    BY <2>2, SumOfNothing, CellsFinite DEF Finite
  <2> QED BY <2>1, <2>3 DEF Balances
<1>2. Inv /\ [WalletNext]_walletVars => Inv'
  <2> SUFFICES ASSUME TeamsReady, LedgerReady, Balances, WalletNext \/ UNCHANGED walletVars
               PROVE  Inv'
    OBVIOUS
  <2>1. TeamsReady' /\ LedgerReady'
    BY TeamsReadyStep, LedgerReadyStep
  <2>2. UNCHANGED <<credits, moved>> => Balances'
    BY DEF Balances
  <2>3. ~ \E u \in Users, n \in Int : Corrected(u, n)
    BY DEF Corrected
  <2>4. Balances'
    BY <2>2, <2>3, WalletMoney, HandedKeeps, ChargedKeeps, ExportedKeeps DEF Money
  <2> QED BY <2>1, <2>4
<1>3. Inv => CreditsConserved
  BY ConservedIsBalances DEF LedgerReady, Cells
<1> QED BY <1>1, <1>2, <1>3, PTL DEF WalletSpec

-----------------------------------------------------------------------------
(* A handover is whole when the requests to the teams do not overlap; two that race    *)
(* leave the money with whoever moved last and the businesses with another.            *)

\* A request to the ledger closes nothing that was open.
LEMMA CallOpens ==
  ASSUME NEW c \in Calls, CallStep(c)
  PROVE  unlocks \subseteq unlocks' /\ ownerUnlocks \subseteq ownerUnlocks'
<1>1. ASSUME NEW u \in Users, NEW k \in Keys, LeadStep(c, u, k)
      PROVE  unlocks \subseteq unlocks' /\ ownerUnlocks \subseteq ownerUnlocks'
  BY <1>1 DEF LeadStep, UnlockLeadCheck, UnlockLeadTake, UnlockOwnerCheck, UnlockOwnerTake,
       ReportCheck, ReportRead, ReportRefund, tables
<1>2. ASSUME NEW u \in Users,
             \/ \E K \in Batches : BulkCheck(c, u, K)
             \/ \E r \in SpendRefs :
                  \/ \E n \in SpendAmounts : SpendCheck(c, u, r, n)
                  \/ SpendTake(c, u, r)
             \/ \E d \in Revokes : AdminRevokeRead(c, u, d)
      PROVE  unlocks \subseteq unlocks' /\ ownerUnlocks \subseteq ownerUnlocks'
  BY <1>2 DEF BulkCheck, SpendCheck, SpendTake, AdminRevokeRead, tables
<1>3. CASE BulkTake(c) \/ AdminRevokeWrite(c) \/ AdminRevokeBook(c) \/ Finish(c)
  BY <1>3 DEF BulkTake, AdminRevokeWrite, AdminRevokeBook, Finish, tables
<1> QED BY <1>1, <1>2, <1>3 DEF CallStep

\* Nothing that a step other than a handover does takes anything from a team.
LEMMA OthersKeepTeams ==
  ASSUME TeamsReady, NEW o \in Orgs, owner[o] \in Users, owner'[o] \in Users,
         WalletNext, ~ \E r \in Reqs : TransferWallet(r)
  PROVE  HandedOver(o)
<1>1. ASSUME owner'[o] = owner[o], unlocks \subseteq unlocks', ownerUnlocks \subseteq ownerUnlocks'
      PROVE  HandedOver(o)
  BY <1>1 DEF HandedOver
<1>2. CASE TeamStep
  <2>1. UNCHANGED <<unlocks, ownerUnlocks>>
    BY <1>2 DEF TeamStep, vars
  <2>2. ASSUME NEW r \in Reqs, Team!RequestStep(r)
        PROVE  owner'[o] = owner[o]
    <3>1. TP!TeamAssumption /\ TP!RequestStep(r) /\ TP!TeamShape
      BY <2>2, TeamAssumed, SameRequest DEF TeamsReady
    <3> QED BY <3>1, TP!OwnerStays
  <2>3. ASSUME NEW i \in Invites, Team!Expire(i)
        PROVE  owner'[o] = owner[o]
    BY <2>3 DEF Team!Expire
  <2> QED BY <1>1, <1>2, <2>1, <2>2, <2>3 DEF TeamStep
<1>3. ASSUME NEW c \in Calls, WalletCall(c)
      PROVE  HandedOver(o)
  BY <1>1, <1>3, CallOpens DEF WalletCall, teamState
<1>4. ASSUME NEW c \in Calls, NEW a \in Users, ResolveWallet(c, a)
      PROVE  HandedOver(o)
  BY <1>1, <1>4 DEF ResolveWallet, teamState, vars
<1>5. ASSUME NEW r \in GrantRefs, Deliver(r)
      PROVE  HandedOver(o)
  BY <1>1, <1>5 DEF Deliver, GrantCredits, teamState
<1>6. ASSUME NEW u \in Users, NEW k \in Keys, WalletGrowOld(u, k)
      PROVE  HandedOver(o)
  BY <1>1, <1>6 DEF WalletGrowOld, GrowOld, teamState
<1> QED BY <1>2, <1>3, <1>4, <1>5, <1>6 DEF WalletNext

\* A handover takes everything along, and touches no other team's owner.
LEMMA HandoverTakesAll ==
  ASSUME TeamsReady, LedgerReady, TP!OneAtATime, TP!AloneInv,
         NEW r \in Reqs, TransferWallet(r), NEW o \in Orgs,
         owner[o] \in Users, owner'[o] \in Users
  PROVE  HandedOver(o)
<1> DEFINE from == req[r].who
           to == req[r].target
<1>1. TP!At(r, "transfer", "move")
  BY SameMove DEF TransferWallet, TP!TransferMove
<1>2. owner[req[r].org] = from /\ member[to] = req[r].org
  BY <1>1 DEF TP!AloneInv, TP!HandoverAllowed, TP!MayReceive
<1>3. from \in Users /\ to \in Users /\ req[r].org \in Orgs /\ from # to
  BY Parties
<1>4. owner \in [Orgs -> Users \cup {Unborn, Gone}]
  BY DEF TeamsReady, TP!TeamShape, TP!TeamTypeOK
<1>5. owner' = [owner EXCEPT ![req[r].org] = to]
  BY <1>2, <1>3, SameMove DEF TransferWallet, TP!TransferMove, TP!Exists
<1>6. /\ unlocks' = HandOver(unlocks, from, to) /\ ownerUnlocks' = HandOver(ownerUnlocks, from, to)
      /\ credits' = MoveCredits(from, to)
  BY DEF TransferWallet
<1>7. ASSUME NEW rows, NEW k, <<from, k>> \in rows
      PROVE  <<to, k>> \in HandOver(rows, from, to)
  <2>1. <<from, k>> \in {y \in rows : y[1] = from} /\ <<from, k>>[2] = k
    BY <1>7
  <2> QED BY <2>1 DEF HandOver
<1>8. ASSUME NEW v, v # from, NEW rows, NEW k, <<v, k>> \in rows
      PROVE  <<v, k>> \in HandOver(rows, from, to)
  BY <1>8 DEF HandOver
<1>9. CASE o = req[r].org
  <2>1. owner[o] = from /\ owner'[o] = to
    BY <1>2, <1>3, <1>4, <1>5, <1>9
  <2>2. credits'[to] >= credits[from]
    <3>1. PICK a \in Int, b \in Int : a = credits[from] /\ b = credits[to] /\ b >= 0
      BY <1>3 DEF LedgerReady, WalletNonNegative
    <3>2. credits'[to] = b + a
      BY <1>3, <1>6, <3>1 DEF MoveCredits, LedgerReady
    <3> QED BY <3>1, <3>2
  <2> HIDE DEF from, to
  <2> QED BY <1>6, <1>7, <2>1, <2>2 DEF HandedOver
<1>10. CASE o # req[r].org
  <2>1. owner'[o] = owner[o]
    BY <1>4, <1>5, <1>10
  <2>2. owner[o] # from
    <3> SUFFICES ASSUME owner[o] = from PROVE FALSE
      OBVIOUS
    <3>1. ~ \E q \in Reqs : TP!Making(q)
      BY <1>1 DEF TP!OneAtATime, TP!Making, TP!At
    <3>2. member[from] = o
      BY <3>1 DEF TP!AloneInv, TP!HeldOnceMade, TP!Exists
    <3>3. member[from] = req[r].org
      BY <1>2, <1>3, <3>1 DEF TP!AloneInv, TP!HeldOnceMade, TP!Exists
    <3> QED BY <1>10, <3>2, <3>3
  <2> HIDE DEF from, to
  <2> QED BY <1>6, <1>8, <2>1, <2>2 DEF HandedOver
<1> QED BY <1>9, <1>10

\* What a team has opened stays open to it and its balance goes along, whoever it is
\* handed to, as long as no other request to the teams is in flight (027:8-13, 62-66):
\* charges, refunds and purchases may be, any number of them.
THEOREM HandoversAreWhole ==
  ASSUME TP!OneAtATime
  PROVE  WalletSpec => HandoverWhole
<1> DEFINE Inv == TeamsReady /\ LedgerReady /\ TP!AloneInv
           Whole == \A o \in Orgs : {owner[o], owner'[o]} \subseteq Users => HandedOver(o)
<1>1. WalletInit => Inv
  <2> SUFFICES ASSUME WalletInit PROVE Inv
    OBVIOUS
  <2>1. TP!TeamAssumption /\ TP!TeamInit
    BY TeamAssumed, TeamStart DEF WalletInit
  <2>2. TP!AloneInv
    BY <2>1, TP!AloneInit
  <2> QED BY <2>2, TeamsReadyInit, LedgerReadyInit DEF WalletInit
<1>2. Inv /\ [WalletNext]_walletVars => Inv'
  <2> SUFFICES ASSUME Inv, WalletNext \/ UNCHANGED walletVars PROVE Inv'
    OBVIOUS
  <2>1. TP!TeamAssumption /\ [TP!TeamNext]_(TP!teamVars)
    BY TeamAssumed, TeamMoves
  <2>2. TP!AloneInv'
    BY <2>1, TP!AloneStep
  <2> QED BY <2>2, TeamsReadyStep, LedgerReadyStep
<1>3. Inv /\ [WalletNext]_walletVars => [Whole]_walletVars
  <2> SUFFICES ASSUME Inv, WalletNext, NEW o \in Orgs, {owner[o], owner'[o]} \subseteq Users
               PROVE  HandedOver(o)
    OBVIOUS
  <2> QED BY OthersKeepTeams, HandoverTakesAll
<1> QED BY <1>1, <1>2, <1>3, PTL DEF WalletSpec, HandoverWhole
=============================================================================
