\* Two requests at a time, cut off anywhere: everything but handovers, or handovers.
SPECIFICATION MixSpec
CONSTANTS
  u1 = u1
  u2 = u2
  u3 = u3
  Users = {u1, u2, u3}
  Orgs = {o1}
  Invites = {i1, i2}
  Reqs = {r1, r2}
  Seats <- OneExtra
  TeamActions <- Actions
  Crashes = TRUE
  Lost <- SubLost
  NoOrg = NoOrg
  NoUser = NoUser
  NoInvite = NoInvite
  Unborn = Unborn
  Gone = Gone
SYMMETRY Alike
INVARIANTS
  TeamsWhole
  OneOwnerKept
  
