----------------------------- MODULE TeamWallet -----------------------------
(***************************************************************************)
(* Teams and credits together.  A team has no balance of its own: every    *)
(* call of lib/credits.ts asks, in one await, whose wallet the caller      *)
(* spends (`wallet`, lib/org.ts billingUser), and runs the SQL function on *)
(* that account in the next.  Handing a team over moves the wallet.        *)
(***************************************************************************)
EXTENDS CreditLedger, FiniteSetsExt

CONSTANTS
  Orgs, Invites, Reqs, Seats, TeamActions, Crashes, Lost,
  NoOrg, NoUser, NoInvite, Unborn, Gone,
  Buyer,        \* the account each grant reference was bought by or given to
  LookupFails   \* whether the membership of a caller may fail to be read

VARIABLES
  owner, member, role, invite, req,
  payer         \* the wallet a request has resolved

Team == INSTANCE Teams

ASSUME WalletAssumption ==
  /\ Team!TeamAssumption
  /\ Buyer \in [GrantRefs -> Users]
  /\ LookupFails \in BOOLEAN

teamState == <<owner, member, role, invite, req>>
walletVars == <<vars, teamState, payer>>

WalletTypeOK ==
  /\ credits \in [Users -> Int]
  /\ booked \in [Users -> Int]
  /\ unlocks \subseteq Users \X Keys
  /\ aged \subseteq unlocks
  /\ ownerUnlocks \subseteq Users \X Keys
  /\ reports \subseteq Users \X Keys
  /\ call \in [Calls -> Requests \cup {Idle}]
  /\ payer \in [Calls -> Users \cup {NoUser}]
  /\ owner \in [Orgs -> Users \cup {Unborn, Gone}]
  /\ member \in [Users -> Orgs \cup {NoOrg}]

WalletInit ==
  /\ Init
  /\ Team!TeamInit
  /\ payer = [c \in Calls |-> NoUser]

-----------------------------------------------------------------------------
(* billingUser *)
Wallet(a) == IF member[a] = NoOrg THEN a ELSE owner[member[a]]

\* A lookup that breaks charges the caller's own account.
Resolved(a) == {Wallet(a)} \cup (IF LookupFails THEN {a} ELSE {})

ResolveWallet(c, a) ==
  /\ call[c] = Idle /\ payer[c] = NoUser
  /\ \E u \in Resolved(a) : payer' = [payer EXCEPT ![c] = u]
  /\ UNCHANGED <<vars, teamState>>

\* A request starts on the wallet it resolved, and forgets it when it ends.
WalletCall(c) ==
  /\ payer[c] # NoUser
  /\ CallStep(c)
  /\ call[c] = Idle => call'[c].user = payer[c]
  /\ payer' = IF call'[c] = Idle THEN [payer EXCEPT ![c] = NoUser] ELSE payer
  /\ UNCHANGED teamState

\* A grant resolves the wallet of its buyer, and may be delivered again and again.
Deliver(r) ==
  /\ \E u \in Resolved(Buyer[r]) : GrantCredits(u, r)
  /\ UNCHANGED <<teamState, payer>>

WalletGrowOld(u, k) ==
  /\ GrowOld(u, k)
  /\ UNCHANGED <<teamState, payer>>

-----------------------------------------------------------------------------
(* transfer_org_ownership, the part that moves the money *)

KeepUnlocks(rows, from, to) == rows

\* Rows of `from` go to `to`, unless `to` has the same row already.
HandOver(rows, from, to) ==
  {x \in rows : x[1] # from} \cup {<<to, x[2]>> : x \in {y \in rows : y[1] = from}}

\* A row that moves keeps its age; one `to` already had keeps its own.
HandOverAge(from, to) ==
  {x \in aged : x[1] # from}
    \cup {<<to, x[2]>> : x \in {y \in aged : y[1] = from /\ <<to, y[2]>> \notin unlocks}}

\* Moved, not copied.
CopyCredits(from, to) == [credits EXCEPT ![to] = @ + credits[from]]
MoveCredits(from, to) == [credits EXCEPT ![from] = 0, ![to] = @ + credits[from]]

\* Both sides recorded, each ON CONFLICT DO NOTHING; the ref is the team's id.
BookTransfer(o, from, to) ==
  LET v == credits[from]
      rows == {<<from, "team_transfer", o>>, <<to, "team_transfer", o>>}
      delta == [u \in Users |->
                  IF v > 0 /\ <<u, "team_transfer", o>> \in rows \ entries
                  THEN IF u = from THEN -v ELSE v ELSE 0] IN
  /\ booked' = [u \in Users |-> booked[u] + delta[u]]
  /\ entries' = IF v > 0 THEN entries \cup rows ELSE entries

TransferWallet(r) ==
  LET from == req[r].who
      to == req[r].target IN
  /\ Team!TransferMove(r)
  /\ credits' = MoveCredits(from, to)
  /\ BookTransfer(req[r].org, from, to)
  /\ unlocks' = HandOver(unlocks, from, to)
  /\ aged' = HandOverAge(from, to)
  /\ ownerUnlocks' = HandOver(ownerUnlocks, from, to)
  /\ UNCHANGED <<reports, moved, call, payer>>

TeamStep ==
  /\ \/ \E r \in Reqs : Team!RequestStep(r)
     \/ \E i \in Invites : Team!Expire(i)
  /\ UNCHANGED <<vars, payer>>

WalletNext ==
  \/ \E c \in Calls : WalletCall(c) \/ \E a \in Users : ResolveWallet(c, a)
  \/ \E r \in GrantRefs : Deliver(r)
  \/ \E u \in Users, k \in Keys : WalletGrowOld(u, k)
  \/ \E r \in Reqs : TransferWallet(r)
  \/ TeamStep

WalletSpec == WalletInit /\ [][WalletNext]_walletVars

-----------------------------------------------------------------------------
(* Properties *)

\* Handing a team over moves credits and never makes or loses any (027:43-49): all the
\* balances together are what grants brought in and charges took, whatever requests
\* were in flight on either wallet.
CreditsConserved ==
  MapThenSumSet(LAMBDA u : credits[u], Users)
    = MapThenSumSet(LAMBDA x : moved[x], DOMAIN moved)

\* No balance is negative, transfers included.
WalletNonNegative == \A u \in Users : credits[u] >= 0

\* What a team has opened stays open to it, whoever owns it next, and its balance goes
\* along: a handover never re-locks a business the team paid for (027:8-13, 62-66).
HandedOver(o) ==
  LET from == owner[o]
      to == owner'[o] IN
  /\ \A k \in Keys : <<from, k>> \in unlocks => <<to, k>> \in unlocks'
  /\ \A k \in Keys : <<from, k>> \in ownerUnlocks => <<to, k>> \in ownerUnlocks'
  /\ to # from => credits'[to] >= credits[from]

HandoverWhole ==
  [][\A o \in Orgs : {owner[o], owner'[o]} \subseteq Users => HandedOver(o)]_walletVars

\* "One report per business per customer ... a double click or a retried request cannot
\* refund twice" (031:28-30): all the accounts of a team together get back no more than
\* was paid for a business.
RefundedOnce ==
  \A k \in Keys :
    MapThenSumSet(LAMBDA u : moved[<<u, "lead_refund", k>>] + moved[<<u, "unlock", k>>]
                               + moved[<<u, "owner_reveal", k>>], Users) <= 0

\* "Keyed on the session id, so a redelivered webhook grants nothing" (grant.ts:97): a
\* purchase is credited once, to one account.
GrantedOnce ==
  \A r \in GrantRefs :
    MapThenSumSet(LAMBDA u : moved[<<u, "grant", r>>], Users) \in {0, Granted[r]}
=============================================================================
