---------------------------- MODULE MCTeamWallet ----------------------------
(* Small instances of TeamWallet.  A run starts with nobody in a team, or, to go   *)
(* deeper, once a team of everybody stands (Standing): the state that createOrg    *)
(* and acceptInvite leave behind, which Teams reaches from nothing.                *)
EXTENDS TeamWallet, TLC

CONSTANTS u1, u2, u3, o1, g1, g2

Standing ==
  /\ Init
  /\ owner = [o \in Orgs |-> u1]
  /\ member = [u \in Users |-> o1]
  /\ role = [u \in Users |-> IF u = u1 THEN "owner" ELSE "admin"]
  /\ invite = [i \in Invites |-> Team!Unsent]
  /\ req = [r \in Reqs |-> Team!Free]
  /\ payer = [c \in Calls |-> NoUser]

StandingSpec == Standing /\ [][WalletNext]_walletVars

TwoCredits == [r \in GrantRefs |-> 2]
ByOne == [r \in GrantRefs |-> u1]
NoAmounts == {}
Seated == [u \in Users |-> 3]
NoneLost == {{}}

JoinActions == {"create", "invite", "accept"}
TransferAndLeave == {"transfer", "leave"}
=============================================================================
