\* A purchase is redelivered after its buyer joined a team.
SPECIFICATION WalletSpec
CONSTANTS
  u1 = u1
  u2 = u2
  u3 = u3
  o1 = o1
  g1 = g1
  g2 = g2
  Users = {u1, u2}
  Keys = {k1}
  Calls = {}
  GrantRefs = {g1, g2}
  Granted <- TwoCredits
  SpendRefs = {}
  SpendAmounts <- NoAmounts
  Batches = {}
  Revokes = {}
  NoRef = NoRef
  Orgs = {o1}
  Invites = {i1}
  Reqs = {r1}
  Seats <- Seated
  TeamActions <- JoinActions
  Crashes = FALSE
  Lost <- NoneLost
  NoOrg = NoOrg
  NoUser = NoUser
  NoInvite = NoInvite
  Unborn = Unborn
  Gone = Gone
  Buyer <- ByOne
  LookupFails = FALSE
INVARIANTS
  GrantedOnce
