----------------------------- MODULE CreditBook -----------------------------
(***************************************************************************)
(* What the credit system promises an account, with no requests, no        *)
(* transactions and no concurrency: every movement of credits happens at   *)
(* once, and the three rules the migrations state hold in the very step    *)
(* that moves them.                                                        *)
(*                                                                         *)
(*   - a business is charged for when it is opened, and it is opened once; *)
(*   - a grant, a charge or a refund happens once per reference;           *)
(*   - nothing is taken that is not there.                                 *)
(*                                                                         *)
(* CreditLedger, the model of the SQL functions, is shown to implement it. *)
(***************************************************************************)
EXTENDS Integers, FiniteSets

CONSTANTS
  Users,        \* accounts that hold a balance
  Keys,         \* lead keys, "<source>:<source_id>"
  GrantRefs,    \* idempotency keys of grants
  Granted,      \* the credits a grant reference is worth
  SpendRefs,    \* idempotency keys of charges for work
  SpendAmounts  \* what a piece of work may cost

VARIABLES
  balance,      \* credits of each account
  opened,       \* <<account, business>> pairs paid for
  revealed,     \* <<account, business>> pairs whose owner was paid for
  claimed       \* <<account, reason, reference>> that have moved credits

bookVars == <<balance, opened, revealed, claimed>>

Init ==
  /\ balance = [u \in Users |-> 0]
  /\ opened = {}
  /\ revealed = {}
  /\ claimed = {}

\* The single way a keyed movement happens: the reference is new, and the balance
\* stays at or above zero.
Move(u, reason, ref, delta) ==
  /\ <<u, reason, ref>> \notin claimed
  /\ balance[u] + delta >= 0
  /\ claimed' = claimed \cup {<<u, reason, ref>>}
  /\ balance' = [balance EXCEPT ![u] = @ + delta]

Grant(u, r) ==
  /\ Move(u, "grant", r, Granted[r])
  /\ UNCHANGED <<opened, revealed>>

Spend(u, r) ==
  /\ \E n \in SpendAmounts : n > 0 /\ Move(u, "spend", r, -n)
  /\ UNCHANGED <<opened, revealed>>

Open(u, k) ==
  /\ <<u, k>> \notin opened
  /\ Move(u, "unlock", k, -1)
  /\ opened' = opened \cup {<<u, k>>}
  /\ UNCHANGED revealed

Reveal(u, k) ==
  /\ <<u, k>> \notin revealed
  /\ Move(u, "owner_reveal", k, -1)
  /\ revealed' = revealed \cup {<<u, k>>}
  /\ UNCHANGED opened

\* An export pays one credit for each business it opens, and opens all or nothing.
Export(u, K) ==
  /\ ({u} \X K) \cap opened = {}
  /\ Cardinality(K) <= balance[u]
  /\ balance' = [balance EXCEPT ![u] = @ - Cardinality(K)]
  /\ opened' = opened \cup ({u} \X K)
  /\ UNCHANGED <<revealed, claimed>>

\* A refund gives back what was paid: the lead, and the owner if that was paid too.
Refund(u, k) ==
  /\ <<u, k>> \in opened
  /\ \/ Move(u, "lead_refund", k, 1)
     \/ /\ <<u, k>> \in revealed
        /\ Move(u, "lead_refund", k, 2)
  /\ UNCHANGED <<opened, revealed>>

Next ==
  \E u \in Users :
    \/ \E r \in GrantRefs : Grant(u, r)
    \/ \E r \in SpendRefs : Spend(u, r)
    \/ \E k \in Keys : Open(u, k) \/ Reveal(u, k) \/ Refund(u, k)
    \/ \E K \in SUBSET Keys : Export(u, K)

Spec == Init /\ [][Next]_bookVars
=============================================================================
