\* Two requests at a time, exports and corrections by hand among them.
SPECIFICATION Spec
CONSTANTS
  k1 = k1
  k2 = k2
  g1 = g1
  g2 = g2
  Users = {u1}
  Keys = {k1, k2}
  Calls = {c1, c2}
  GrantRefs = {g1}
  Granted <- TwoCredits
  SpendRefs = {}
  SpendAmounts <- NoAmounts
  Batches <- BothLeads
  Revokes <- OneOff
  NoRef = NoRef
SYMMETRY Alike
INVARIANTS
  CreditInv
