\* A plan bought twice, renewed, changed, cancelled and visited over a month.
SPECIFICATION Spec
CONSTANTS
  u1 = u1
  plan1 = plan1
  plan2 = plan2
  basket = basket
  s1 = s1
  s2 = s2
  r1 = r1
  r2 = r2
  None = None
  Users <- AllUsers
  Sessions <- TwoPlans
  Subs <- AllSubs
  Buyer <- BuyerOf
  Kind <- KindOf
  Credits <- NoCredits
  SubOf <- SubOfSession
  Requests <- AllRequests
  SeatCounts = {1}
  Year = 1
  MaxNow = 1
  MaxFaults = 0
  MaxVisits = 1
  PastDue = TRUE
CHECK_DEADLOCK FALSE
PROPERTIES
  NeverCutShort
