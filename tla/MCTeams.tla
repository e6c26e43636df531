------------------------------ MODULE MCTeams ------------------------------
(* A small instance of Teams: a team, three people, two invites, two requests.  The    *)
(* mix, chosen at the start, says which requests a behaviour may see: a removal that   *)
(* races a handover takes the owner out of the team (OwnerHeld), so removals and       *)
(* handovers are looked at apart.                                                      *)
EXTENDS Teams, TLC

CONSTANTS u1, u2, u3

\* One owner pays for a second seat, the others for their own alone.
OneExtra == (u1 :> 2) @@ (u2 :> 1) @@ (u3 :> 1)

VARIABLE mix

NoTransfer == Actions \ {"transfer"}
Handovers == {"create", "invite", "accept", "transfer", "close"}

MixInit == TeamInit /\ mix \in {NoTransfer, Handovers}
MixNext ==
  /\ TeamNext
  /\ \A r \in Reqs : req'[r] # Free => req'[r].do \in mix
  /\ UNCHANGED mix
MixSpec == MixInit /\ [][MixNext]_<<teamVars, mix>>

\* Without handovers the seats are those of whoever made the team, and joins that race
\* overshoot them by no more than the requests in flight (org.ts:209-211).
SeatsKept == mix = NoTransfer => SeatsBounded

\* Nobody but the billing owner holds the role of owner (org.ts:417); two handovers that
\* race leave two.
OneOwnerKept == mix = NoTransfer => OneOwner

\* Requests and invites are interchangeable, and so are people who pay for as many
\* seats.  Used with invariants only.
Alike == Permutations(Reqs) \cup Permutations(Orgs) \cup Permutations(Invites)
           \cup Permutations(Users \ {u1})

\* A subscription that cannot be read
SubLost == {{}, {"sub"}}
=============================================================================
