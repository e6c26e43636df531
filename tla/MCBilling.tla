----------------------------- MODULE MCBilling -----------------------------
\* Instances of Billing: one customer, a plan bought twice and a basket of 300.
EXTENDS Billing

CONSTANTS u1, plan1, plan2, basket, s1, s2, r1, r2

AllUsers == {u1}
AllSubs == {s1, s2}
AllRequests == {r1, r2}
AllSessions == {plan1, plan2, basket}
TwoPlans == {plan1, plan2}
PlanAndBasket == {plan1, basket}
BuyerOf == [k \in AllSessions |-> u1]
KindOf == [k \in AllSessions |-> IF k = basket THEN "credits" ELSE "subscription"]
CreditsOf == [k \in AllSessions |-> IF k = plan2 THEN 0 ELSE IF k = basket THEN 200 ELSE 100]
NoCredits == [k \in AllSessions |-> 0]
OneSub == {s1}
SubOfSession == [k \in AllSessions |-> IF k = plan2 THEN s2 ELSE s1]
=============================================================================
