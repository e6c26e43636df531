------------------------------ MODULE Pricing ------------------------------
(***************************************************************************)
(* The rules about money and access that lib/pricing.ts, lib/access.ts and *)
(* lib/volume-bonus.ts keep as pure functions: what a basket earns, how a  *)
(* seat count is kept sane, and what an account may do.                    *)
(***************************************************************************)
EXTENDS Integers, FiniteSets

MIN_CREDIT_PURCHASE == 5
MAX_CREDIT_PURCHASE == 5000
MAX_SEATS == 100
CREDIT_PRICE_CENTS == 100
VOLUME_BONUS_MIN_CREDITS == 300
VOLUME_BONUS_CREDITS == 50

PURCHASE_BONUSES ==
  { [min |-> 1000, bonus |-> 250], [min |-> 500, bonus |-> 100],
    [min |-> 250, bonus |-> 40], [min |-> 100, bonus |-> 10] }

\* The list is ordered largest first and the first match wins.
bonusForPurchase(credits) ==
  LET met == { b \in PURCHASE_BONUSES : credits >= b.min }
  IN  IF met = {} THEN 0
      ELSE (CHOOSE b \in met : \A c \in met : c.min <= b.min).bonus

clampSeats(seats) ==
  IF seats < 1 THEN 1 ELSE IF seats > MAX_SEATS THEN MAX_SEATS ELSE seats

\* Credits bought in the checkout of a plan: less than the minimum buys none.
creditsWithPlan(asked) ==
  IF asked < MIN_CREDIT_PURCHASE THEN 0
  ELSE IF asked > MAX_CREDIT_PURCHASE THEN MAX_CREDIT_PURCHASE ELSE asked

creditCostCents(n) == n * CREDIT_PRICE_CENTS

\* effectiveCentsPerLead as a fraction.
effectiveCentsPerLead(credits) ==
  LET total == credits + bonusForPurchase(credits)
  IN  IF total > 0 THEN [cents |-> creditCostCents(credits), leads |-> total]
      ELSE [cents |-> CREDIT_PRICE_CENTS, leads |-> 1]

bonusForSubscribers(purchasedThisMonth, subscribed) == subscribed

bonusDue(purchasedThisMonth, subscribed) ==
  subscribed /\ purchasedThisMonth >= VOLUME_BONUS_MIN_CREDITS

-----------------------------------------------------------------------------
(* getSubscription: a status that pays, inside the period *)
PayingStatus == {"active", "canceled"}
activeUntil(status, period, now) == status \in PayingStatus /\ period > now

Facts ==
  [ credits : {0, 1, 3}, subscribed : BOOLEAN, suspended : BOOLEAN,
    hasSubscriptionRecord : BOOLEAN, paymentsConfigured : BOOLEAN ]

AllowAll(may, buy, trial, why) ==
  [ hasAccess |-> may, canSearch |-> may, canUnlock |-> may, canUseTools |-> may,
    canBuyCredits |-> buy, onFreeTrial |-> trial, blockedBy |-> why ]

(* decideAccess: a suspension first, then a deployment with nothing to sell *)
decideAccess(f) ==
  LET trial == ~f.subscribed /\ ~f.hasSubscriptionRecord /\ f.credits > 0
      access == f.subscribed \/ trial
      lead == access /\ f.credits > 0
  IN  IF f.suspended THEN AllowAll(FALSE, FALSE, FALSE, "suspended")
      ELSE IF ~f.paymentsConfigured THEN AllowAll(TRUE, FALSE, FALSE, "none")
      ELSE [ hasAccess |-> access, canSearch |-> lead, canUnlock |-> lead,
             canUseTools |-> f.subscribed, canBuyCredits |-> f.subscribed,
             onFreeTrial |-> trial,
             blockedBy |-> IF ~access THEN "subscription"
                           ELSE IF f.credits <= 0 THEN "credits" ELSE "none" ]

\* requireSubscription and toolsGate let through whoever the decision does.
toolsGate(f) == decideAccess(f).canUseTools
=============================================================================
