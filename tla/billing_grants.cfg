\* A plan with credits and a basket, one call failing or one event lost.
SPECIFICATION Spec
CONSTANTS
  u1 = u1
  plan1 = plan1
  plan2 = plan2
  basket = basket
  s1 = s1
  s2 = s2
  r1 = r1
  r2 = r2
  None = None
  Users <- AllUsers
  Sessions <- PlanAndBasket
  Subs <- OneSub
  Buyer <- BuyerOf
  Kind <- KindOf
  Credits <- CreditsOf
  SubOf <- SubOfSession
  Requests <- AllRequests
  SeatCounts = {1}
  Year = 2
  MaxNow = 1
  MaxFaults = 1
  MaxVisits = 0
  PastDue = FALSE
CHECK_DEADLOCK FALSE
INVARIANTS
  BonusEarned
PROPERTIES
  PurchaseLands
