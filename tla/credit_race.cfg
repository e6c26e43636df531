\* Two requests at a time on one account: unlocks, reveals, charges and reports.
SPECIFICATION Spec
CONSTANTS
  k1 = k1
  k2 = k2
  g1 = g1
  g2 = g2
  Users = {u1}
  Keys = {k1, k2}
  Calls = {c1, c2}
  GrantRefs = {g1, g2}
  Granted <- OneAndTwo
  SpendRefs = {s1}
  SpendAmounts <- Retried
  Batches = {}
  Revokes = {}
  NoRef = NoRef
INVARIANTS
  PaidOnce
  RefundWithinCharge
  AnswerOpens
PROPERTIES
  BookSpec
