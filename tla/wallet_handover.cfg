\* A standing team: requests resolve a wallet that is handed over before they charge it.
SPECIFICATION StandingSpec
CONSTANTS
  u1 = u1
  u2 = u2
  u3 = u3
  o1 = o1
  g1 = g1
  g2 = g2
  Users = {u1, u2}
  Keys = {k1}
  Calls = {c1}
  GrantRefs = {g1}
  Granted <- TwoCredits
  SpendRefs = {}
  SpendAmounts <- NoAmounts
  Batches = {}
  Revokes = {}
  NoRef = NoRef
  Orgs = {o1}
  Invites = {}
  Reqs = {r1}
  Seats <- Seated
  TeamActions <- TransferAndLeave
  Crashes = FALSE
  Lost <- NoneLost
  NoOrg = NoOrg
  NoUser = NoUser
  NoInvite = NoInvite
  Unborn = Unborn
  Gone = Gone
  Buyer <- ByOne
  LookupFails = FALSE
INVARIANTS
  CreditsConserved
PROPERTIES
  HandoverWhole
