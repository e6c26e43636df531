--------------------------- MODULE BillingProofs ----------------------------
(***************************************************************************)
(* Theorems about Pricing, for every basket, every number of seats and     *)
(* every account, and about Billing, for any customers, sessions,          *)
(* subscriptions and requests, and any number of months, visits and faults.*)
(***************************************************************************)
EXTENDS Billing, FiniteSetTheorems, WellFoundedInduction, TLAPS

-----------------------------------------------------------------------------
(* What the rules about money and access promise                                       *)

\* The first threshold that is met, largest first, is the largest that is met.
LEMMA BonusTable ==
  ASSUME NEW c \in Int
  PROVE  bonusForPurchase(c) = IF c >= 1000 THEN 250 ELSE IF c >= 500 THEN 100
                               ELSE IF c >= 250 THEN 40 ELSE IF c >= 100 THEN 10 ELSE 0
<1> DEFINE met == { b \in PURCHASE_BONUSES : c >= b.min }
           Largest(b) == b \in met /\ \A d \in met : d.min <= b.min
<1>1. ASSUME NEW b \in PURCHASE_BONUSES, c >= b.min, \A d \in PURCHASE_BONUSES : c >= d.min => d.min <= b.min
      PROVE  bonusForPurchase(c) = b.bonus
  <2>1. Largest(b) /\ met # {}
    BY <1>1
  <2>2. \A d : Largest(d) => d = b
    BY <1>1 DEF PURCHASE_BONUSES
  <2>3. (CHOOSE d \in met : \A e \in met : e.min <= d.min) = b
    BY <2>1, <2>2
  <2> QED BY <2>1, <2>3 DEF bonusForPurchase
<1>2. CASE c >= 1000
  BY <1>1, <1>2 DEF PURCHASE_BONUSES
<1>3. CASE c < 1000 /\ c >= 500
  BY <1>1, <1>3 DEF PURCHASE_BONUSES
<1>4. CASE c < 500 /\ c >= 250
  BY <1>1, <1>4 DEF PURCHASE_BONUSES
<1>5. CASE c < 250 /\ c >= 100
  BY <1>1, <1>5 DEF PURCHASE_BONUSES
<1>6. CASE c < 100
  BY <1>6 DEF bonusForPurchase, PURCHASE_BONUSES
<1> QED BY <1>2, <1>3, <1>4, <1>5, <1>6

\* A bigger basket never gives fewer leads: there is no number of credits at which buying one
\* more loses a bonus (PURCHASE_BONUSES, bonusForPurchase).
THEOREM BiggerBasketMore ==
  \A a, b \in Nat : a < b => a + bonusForPurchase(a) < b + bonusForPurchase(b)
BY BonusTable

\* The price of a lead in a basket is never above the price of a credit, and is always that of
\* some lead: the division effectiveCentsPerLead makes is by more than zero.
THEOREM NeverAboveHeadline ==
  \A n \in Nat : LET e == effectiveCentsPerLead(n) IN e.leads > 0 /\ e.cents <= e.leads * CREDIT_PRICE_CENTS
<1> TAKE n \in Nat
<1>1. bonusForPurchase(n) \in Nat
  BY BonusTable
<1> QED BY <1>1 DEF effectiveCentsPerLead, creditCostCents, CREDIT_PRICE_CENTS

\* Any number that arrives as seats ends inside what can be sold, and one that is inside already
\* is not changed, so that writing a count back and reading it again is harmless (clampSeats).
THEOREM SeatsSane ==
  \A n \in Int : /\ clampSeats(n) \in 1..MAX_SEATS
                 /\ n \in 1..MAX_SEATS => clampSeats(n) = n
BY DEF clampSeats, MAX_SEATS

\* The credits sold with a plan are none, or a number that may be sold, and never more than
\* were asked for (subscribe/route.ts).
THEOREM PlanCreditsSane ==
  \A n \in Int : LET c == creditsWithPlan(n) IN
    /\ c = 0 \/ c \in MIN_CREDIT_PURCHASE..MAX_CREDIT_PURCHASE
    /\ n >= 0 => c <= n
BY DEF creditsWithPlan, MIN_CREDIT_PURCHASE, MAX_CREDIT_PURCHASE

\* What decideAccess may be asked about, with any balance.
AnyFacts ==
  [ credits : Int, subscribed : BOOLEAN, suspended : BOOLEAN,
    hasSubscriptionRecord : BOOLEAN, paymentsConfigured : BOOLEAN ]

\* The answers of the gate agree with one another and leave a way on: a suspension shuts
\* everything; whoever may open a lead may search for one; whoever is stopped for want of credits
\* may buy some and is let in as soon as they have; and nobody who pays is told to subscribe
\* (decideAccess).
THEOREM GateLeavesAWay ==
  ASSUME NEW f \in AnyFacts
  PROVE  LET a == decideAccess(f)
             refilled == decideAccess([f EXCEPT !.credits = 1])
         IN /\ f.suspended => ~a.hasAccess /\ ~a.canSearch /\ ~a.canUnlock /\ ~a.canUseTools /\ ~a.canBuyCredits
            /\ a.canUnlock = a.canSearch /\ (a.canUnlock => a.hasAccess)
            /\ a.blockedBy = "credits" => a.canBuyCredits /\ refilled.canUnlock /\ refilled.blockedBy = "none"
            /\ f.subscribed /\ ~f.suspended => a.blockedBy # "subscription"
            /\ toolsGate(f) => a.hasAccess
<1>1. CASE f.suspended
  BY <1>1 DEF decideAccess, AllowAll, toolsGate
<1>2. CASE ~f.suspended /\ ~f.paymentsConfigured
  BY <1>2 DEF decideAccess, AllowAll, toolsGate
<1>3. CASE ~f.suspended /\ f.paymentsConfigured
  BY <1>3 DEF decideAccess, AllowAll, toolsGate, AnyFacts
<1> QED BY <1>1, <1>2, <1>3

-----------------------------------------------------------------------------
(* Sums of credits. A fact about every finite set of rows is proved by its least       *)
(* counterexample.                                                                     *)

LEMMA HasLeast ==
  ASSUME NEW T \in SUBSET Nat, T # {}
  PROVE  \E m \in T : \A k \in T : m <= k
<1>1. \E m \in T : \A k \in T : ~(<<k, m>> \in OpToRel(<, Nat))
  BY WFMin, NatLessThanWellFounded
<1>2. PICK m \in T : \A k \in T : ~(k < m)
  BY <1>1 DEF OpToRel
<1> QED BY <1>2

\* The sums of the subsets of S.
IsTotal(f, S) ==
  f = [X \in SUBSET S |-> IF X = {} THEN 0 ELSE LET e == CHOOSE x \in X : TRUE IN e.n + f[X \ {e}]]

\* Those of the subsets of at most m rows.
Small(S, m) == { X \in SUBSET S : Cardinality(X) <= m }
IsPart(f, S, m) ==
  f = [X \in Small(S, m) |-> IF X = {} THEN 0 ELSE LET e == CHOOSE x \in X : TRUE IN e.n + f[X \ {e}]]

LEMMA OneLess ==
  ASSUME NEW X, IsFiniteSet(X), X # {}
  PROVE  /\ (CHOOSE x \in X : TRUE) \in X /\ IsFiniteSet(X \ {CHOOSE x \in X : TRUE})
         /\ Cardinality(X \ {CHOOSE x \in X : TRUE}) = Cardinality(X) - 1
         /\ Cardinality(X) \in Nat \ {0}
<1>1. (CHOOSE x \in X : TRUE) \in X
  OBVIOUS
<1>2. Cardinality(X) \in Nat /\ Cardinality(X) # 0
  BY FS_CardinalityType, FS_EmptySet
<1> QED BY <1>1, <1>2, FS_RemoveElement

LEMMA PartExists ==
  ASSUME NEW S, IsFiniteSet(S)
  PROVE  \A m \in Nat : \E f : IsPart(f, S, m)
<1> SUFFICES ASSUME NEW k \in Nat, ~\E f : IsPart(f, S, k) PROVE FALSE
  OBVIOUS
<1> DEFINE T == { m \in Nat : ~\E f : IsPart(f, S, m) }
<1>1. PICK m \in T : \A j \in T : m <= j
  <2>1. T \in SUBSET Nat /\ T # {}
    OBVIOUS
  <2> HIDE DEF T
  <2> QED BY <2>1, HasLeast
<1>2. m \in Nat /\ ~\E f : IsPart(f, S, m)
  OBVIOUS
<1>3. \A X \in SUBSET S : IsFiniteSet(X)
  BY FS_Subset
<1>4. CASE m = 0
  <2> DEFINE f == [X \in Small(S, m) |-> 0]
  <2>1. \A X \in Small(S, m) : X = {}
    <3> SUFFICES ASSUME NEW X \in Small(S, m), X # {} PROVE FALSE
      OBVIOUS
    <3>1. IsFiniteSet(X) /\ Cardinality(X) <= 0
      BY <1>3, <1>4 DEF Small
    <3>2. Cardinality(X) \in Nat \ {0}
      BY <3>1, OneLess
    <3> QED BY <3>1, <3>2
  <2>2. IsPart(f, S, m)
    BY <2>1 DEF IsPart
  <2> QED BY <1>2, <2>2
<1>5. CASE m # 0
  <2>1. m - 1 \in Nat /\ m - 1 \notin T
    BY <1>1, <1>5
  <2>2. PICK f : IsPart(f, S, m - 1)
    BY <2>1
  <2> DEFINE F(X) == IF X = {} THEN 0 ELSE LET e == CHOOSE x \in X : TRUE IN e.n + f[X \ {e}]
             g == [X \in Small(S, m) |-> F(X)]
  <2>3. \A X \in Small(S, m - 1) : f[X] = F(X) /\ X \in Small(S, m)
    <3>1. \A X \in Small(S, m - 1) : f[X] = F(X)
      BY <2>2 DEF IsPart
    <3>2. \A X \in Small(S, m - 1) : X \in Small(S, m)
      BY <1>2, <1>3, FS_CardinalityType DEF Small
    <3> QED BY <3>1, <3>2
  <2>4. ASSUME NEW X \in Small(S, m), X # {} PROVE X \ {CHOOSE x \in X : TRUE} \in Small(S, m - 1)
    BY <1>2, <1>3, <2>4, OneLess DEF Small
  <2> DEFINE G(X) == IF X = {} THEN 0 ELSE LET e == CHOOSE x \in X : TRUE IN e.n + g[X \ {e}]
  <2>5. ASSUME NEW X \in Small(S, m) PROVE F(X) = G(X)
    <3>1. CASE X = {}
      BY <3>1
    <3>2. CASE X # {}
      <4> DEFINE Y == X \ {CHOOSE x \in X : TRUE}
      <4>1. Y \in Small(S, m - 1)
        BY <2>4, <3>2
      <4>2. g[Y] = f[Y]
        BY <2>3, <4>1
      <4> QED BY <3>2, <4>2
    <3> QED BY <3>1, <3>2
  <2>6. g = [X \in Small(S, m) |-> G(X)]
    <3> HIDE DEF F, G
    <3> QED BY <2>5
  <2>7. IsPart(g, S, m)
    BY <2>6, Zenon DEF IsPart
  <2> QED BY <1>2, <2>7
<1> QED BY <1>4, <1>5

LEMMA TotalExists ==
  ASSUME NEW S, IsFiniteSet(S)
  PROVE  \E f : IsTotal(f, S)
<1>1. Cardinality(S) \in Nat
  BY FS_CardinalityType
<1>2. PICK f : IsPart(f, S, Cardinality(S))
  BY <1>1, PartExists
<1>3. Small(S, Cardinality(S)) = SUBSET S
  BY FS_Subset DEF Small
<1> QED BY <1>2, <1>3 DEF IsPart, IsTotal

\* Two sums of the same rows agree, whatever else each sums.
LEMMA TotalsAgree ==
  ASSUME NEW S, NEW R, IsFiniteSet(S), IsFiniteSet(R), NEW f, NEW g, IsTotal(f, S), IsTotal(g, R),
         NEW A \in SUBSET S, A \in SUBSET R
  PROVE  f[A] = g[A]
<1> SUFFICES ASSUME f[A] # g[A] PROVE FALSE
  OBVIOUS
<1> DEFINE T == { m \in Nat : \E X \in (SUBSET S) \cap (SUBSET R) : Cardinality(X) = m /\ f[X] # g[X] }
<1>1. \A X \in SUBSET S : IsFiniteSet(X) /\ Cardinality(X) \in Nat
  BY FS_Subset, FS_CardinalityType
<1>2. PICK m \in T : \A j \in T : m <= j
  <2>0. Cardinality(A) \in T
    <3>1. Cardinality(A) \in Nat /\ A \in (SUBSET S) \cap (SUBSET R)
      BY <1>1
    <3>2. \E X \in (SUBSET S) \cap (SUBSET R) : Cardinality(X) = Cardinality(A) /\ f[X] # g[X]
      BY <3>1
    <3> QED BY <3>1, <3>2
  <2>1. T \in SUBSET Nat /\ T # {}
    BY <2>0
  <2> HIDE DEF T
  <2> QED BY <2>1, HasLeast
<1>3. PICK X \in (SUBSET S) \cap (SUBSET R) : Cardinality(X) = m /\ f[X] # g[X]
  OBVIOUS
<1> DEFINE e == CHOOSE x \in X : TRUE
           Y == X \ {e}
<1>4. /\ f[X] = IF X = {} THEN 0 ELSE e.n + f[Y]
      /\ g[X] = IF X = {} THEN 0 ELSE e.n + g[Y]
  BY DEF IsTotal
<1>5. X # {} /\ f[Y] # g[Y] /\ Y \in (SUBSET S) \cap (SUBSET R)
  BY <1>3, <1>4
<1>6. Cardinality(Y) = m - 1 /\ m \in Nat \ {0}
  BY <1>1, <1>3, <1>5, OneLess
<1>7. m - 1 \in T
  BY <1>5, <1>6
<1> HIDE DEF T
<1> QED BY <1>2, <1>6, <1>7

\* The sum takes one row after the other.
LEMMA SumStep ==
  ASSUME NEW S, IsFiniteSet(S)
  PROVE  /\ S = {} => SumOf(S) = 0
         /\ S # {} => LET e == CHOOSE x \in S : TRUE IN SumOf(S) = e.n + SumOf(S \ {e})
<1> DEFINE total(R) == CHOOSE f : IsTotal(f, R)
<1>1. \A R : SumOf(R) = total(R)[R]
  BY DEF SumOf, IsTotal
<1>2. ASSUME NEW R, IsFiniteSet(R) PROVE IsTotal(total(R), R)
  BY <1>2, TotalExists
<1> DEFINE e == CHOOSE x \in S : TRUE
           R == S \ {e}
<1>3. IsFiniteSet(R) /\ R \in SUBSET S /\ R \in SUBSET R
  BY FS_Subset
<1>4. total(S)[S] = IF S = {} THEN 0 ELSE e.n + total(S)[R]
  <2>1. PICK f : f = total(S) /\ IsTotal(f, S)
    BY <1>2
  <2>2. f[S] = IF S = {} THEN 0 ELSE e.n + f[R]
    BY <2>1 DEF IsTotal
  <2> QED BY <2>1, <2>2
<1>5. total(S)[R] = total(R)[R]
  <2>1. IsTotal(total(S), S) /\ IsTotal(total(R), R)
    BY <1>2, <1>3
  <2>2. PICK f, g : f = total(S) /\ g = total(R)
    OBVIOUS
  <2> HIDE DEF total
  <2> QED BY <1>3, <2>1, <2>2, TotalsAgree
<1> HIDE DEF total
<1> QED BY <1>1, <1>4, <1>5

LEMMA SumOfNone == SumOf({}) = 0
  BY FS_EmptySet, SumStep

\* Rows that count for something.
Counted(S) == IsFiniteSet(S) /\ \A e \in S : e.n \in Nat

LEMMA SumIsNat ==
  ASSUME NEW S, Counted(S)
  PROVE  SumOf(S) \in Nat
<1> SUFFICES ASSUME SumOf(S) \notin Nat PROVE FALSE
  OBVIOUS
<1> DEFINE T == { m \in Nat : \E X : Counted(X) /\ Cardinality(X) = m /\ SumOf(X) \notin Nat }
<1>1. PICK m \in T : \A j \in T : m <= j
  <2>0. Cardinality(S) \in T
    BY FS_CardinalityType DEF Counted
  <2>1. T \in SUBSET Nat /\ T # {}
    BY <2>0
  <2> HIDE DEF T
  <2> QED BY <2>1, HasLeast
<1>2. PICK X : Counted(X) /\ Cardinality(X) = m /\ SumOf(X) \notin Nat
  OBVIOUS
<1> DEFINE e == CHOOSE x \in X : TRUE
           Y == X \ {e}
<1>3. X # {}
  BY <1>2, SumOfNone
<1>4. e \in X /\ IsFiniteSet(Y) /\ Cardinality(Y) = m - 1 /\ m \in Nat \ {0}
  BY <1>2, <1>3, OneLess DEF Counted
<1>5. SumOf(X) = e.n + SumOf(Y)
  BY <1>2, <1>3, SumStep DEF Counted
<1>6. Counted(Y) /\ e.n \in Nat
  BY <1>2, <1>4 DEF Counted
<1>7. SumOf(Y) \notin Nat
  BY <1>2, <1>5, <1>6
<1>8. m - 1 \in T
  BY <1>4, <1>6, <1>7
<1> HIDE DEF T
<1> QED BY <1>1, <1>4, <1>8

\* The order does not matter: any row may come first.
LEMMA SumWithout ==
  ASSUME NEW S, Counted(S), NEW y \in S
  PROVE  SumOf(S) = y.n + SumOf(S \ {y})
<1> SUFFICES ASSUME SumOf(S) # y.n + SumOf(S \ {y}) PROVE FALSE
  OBVIOUS
<1> DEFINE T == { m \in Nat : \E X : /\ Counted(X) /\ Cardinality(X) = m
                                     /\ \E z \in X : SumOf(X) # z.n + SumOf(X \ {z}) }
<1>1. PICK m \in T : \A j \in T : m <= j
  <2>0. Cardinality(S) \in T
    BY FS_CardinalityType DEF Counted
  <2>1. T \in SUBSET Nat /\ T # {}
    BY <2>0
  <2> HIDE DEF T
  <2> QED BY <2>1, HasLeast
<1>2. PICK X : Counted(X) /\ Cardinality(X) = m /\ \E z \in X : SumOf(X) # z.n + SumOf(X \ {z})
  OBVIOUS
<1>3. PICK z \in X : SumOf(X) # z.n + SumOf(X \ {z})
  BY <1>2
<1> DEFINE e == CHOOSE x \in X : TRUE
<1>4. e \in X /\ IsFiniteSet(X \ {e}) /\ Cardinality(X \ {e}) = m - 1 /\ m \in Nat \ {0}
  BY <1>2, <1>3, OneLess DEF Counted
<1>5. SumOf(X) = e.n + SumOf(X \ {e})
  BY <1>2, <1>3, SumStep DEF Counted
<1> HIDE DEF e
<1>6. z # e /\ z \in X \ {e} /\ e \in X \ {z}
  BY <1>3, <1>4, <1>5
<1>7. m - 1 \notin T
  BY <1>1, <1>4
<1>8. ASSUME NEW Y, Counted(Y), Cardinality(Y) = m - 1, NEW x \in Y PROVE SumOf(Y) = x.n + SumOf(Y \ {x})
  BY <1>4, <1>7, <1>8
<1>9. Counted(X \ {e}) /\ Counted(X \ {z}) /\ Cardinality(X \ {z}) = m - 1
  BY <1>2, <1>3, <1>4, FS_RemoveElement DEF Counted
<1>10. SumOf(X \ {e}) = z.n + SumOf((X \ {e}) \ {z}) /\ SumOf(X \ {z}) = e.n + SumOf((X \ {z}) \ {e})
  BY <1>4, <1>6, <1>8, <1>9
<1>11. (X \ {e}) \ {z} = (X \ {z}) \ {e}
  OBVIOUS
<1>12. Counted((X \ {e}) \ {z})
  BY <1>9, FS_RemoveElement DEF Counted
<1>13. SumOf((X \ {e}) \ {z}) \in Nat /\ e.n \in Nat /\ z.n \in Nat
  BY <1>2, <1>3, <1>4, <1>12, SumIsNat DEF Counted
<1>14. PICK a \in Nat, b \in Nat, c \in Nat : a = e.n /\ b = z.n /\ c = SumOf((X \ {e}) \ {z})
  BY <1>13
<1>15. SumOf(X) = a + (b + c) /\ SumOf(X \ {z}) = a + c
  BY <1>5, <1>10, <1>11, <1>14
<1>16. SumOf(X) = b + (a + c)
  BY <1>15
<1> QED BY <1>3, <1>14, <1>15, <1>16

\* More rows sum to no less.
LEMMA SumGrows ==
  ASSUME NEW B, Counted(B), NEW A \in SUBSET B
  PROVE  SumOf(A) <= SumOf(B)
<1> SUFFICES ASSUME ~(SumOf(A) <= SumOf(B)) PROVE FALSE
  OBVIOUS
<1> DEFINE T == { m \in Nat : \E X : Counted(X) /\ Cardinality(X) = m /\ A \subseteq X /\ ~(SumOf(A) <= SumOf(X)) }
<1>1. PICK m \in T : \A j \in T : m <= j
  <2>0. Cardinality(B) \in T
    BY FS_CardinalityType DEF Counted
  <2>1. T \in SUBSET Nat /\ T # {}
    BY <2>0
  <2> HIDE DEF T
  <2> QED BY <2>1, HasLeast
<1>2. PICK X : Counted(X) /\ Cardinality(X) = m /\ A \subseteq X /\ ~(SumOf(A) <= SumOf(X))
  OBVIOUS
<1>3. SumOf(A) \in Nat /\ SumOf(X) \in Nat
  BY <1>2, FS_Subset, SumIsNat DEF Counted
<1>4. PICK y \in X : y \notin A
  BY <1>2, <1>3
<1>5. Counted(X \ {y}) /\ Cardinality(X \ {y}) = m - 1 /\ A \subseteq X \ {y} /\ m \in Nat \ {0}
  <2>1. IsFiniteSet(X \ {y}) /\ Cardinality(X \ {y}) = Cardinality(X) - 1
    BY <1>2, FS_RemoveElement DEF Counted
  <2>2. Cardinality(X) \in Nat /\ Cardinality(X \ {y}) \in Nat
    BY <1>2, <2>1, FS_CardinalityType DEF Counted
  <2> QED BY <1>2, <1>4, <2>1, <2>2 DEF Counted
<1>6. m - 1 \notin T
  BY <1>1, <1>5
<1>7. SumOf(A) <= SumOf(X \ {y})
  BY <1>5, <1>6
<1>8. SumOf(X) = y.n + SumOf(X \ {y}) /\ SumOf(X \ {y}) \in Nat /\ y.n \in Nat
  BY <1>2, <1>5, SumWithout, SumIsNat DEF Counted
<1> QED BY <1>2, <1>3, <1>7, <1>8
-----------------------------------------------------------------------------
(* What the tables and the requests hold. A table is a parameter, so that a request can *)
(* be judged by the tables before a step and after it.                                  *)

What ==
  {"session", "subscriptions", "sessions", "retrieve", "upsert", "seats", "purchase", "purchase_bonus",
   "total", "volume", "quantity", "find", "stop", "remove"}
Steps == [do : What, id : Users \cup Sessions \cup Subs]
Reasons == {"purchase", "purchase_bonus", "volume_bonus"}
Line == [user : Users, reason : Reasons, ref : Sessions \cup Nat, n : Nat \ {0}, month : Nat]

\* Steps that rely on the step before them, and those others rely on.
Relying == {"upsert", "seats", "purchase_bonus", "volume", "stop"}
Leading == {"upsert", "purchase", "total", "find"}
Loose(s) == s # <<>> => s[1].do \notin Relying

\* Each of these follows the step it relies on; a subscription is written right after it
\* was read, and its seats right after it was written.
Ordered(s) ==
  /\ \A k \in 2..Len(s) : s[k].do # "upsert"
  /\ \A k \in 1..Len(s) : s[k].do = "upsert" => k < Len(s) /\ s[k + 1].do = "seats"
  /\ \A k \in 2..Len(s) : s[k].do = "seats" => s[k - 1].do = "upsert"
  /\ \A k \in 2..Len(s) : s[k].do = "purchase_bonus" => s[k - 1].do = "purchase" /\ s[k - 1].id = s[k].id
  /\ \A k \in 2..Len(s) : s[k].do = "volume" => s[k - 1].do = "total"
  /\ \A k \in 2..Len(s) : s[k].do = "stop" => s[k - 1].do = "find"

\* What a step is about is there.
Known(s, subs) == s \in Subs /\ subs[s] # None
Stands(x, subs) ==
  /\ x.do \in {"session", "purchase", "purchase_bonus", "total", "volume"} => x.id \in Sessions
  /\ x.do \in {"retrieve", "upsert", "seats", "quantity"} => Known(x.id, subs)
Proper(s, subs) == s \in Seq(Steps) /\ Ordered(s) /\ \A k \in 1..Len(s) : Stands(s[k], subs)

\* What the step at hand takes from the one before it.
BoughtIn(book, u, m) == { e \in book : e.user = u /\ e.reason = "purchase" /\ e.month = m }
Bought(book, u, k) == \E p \in book : p.user = u /\ p.reason = "purchase" /\ p.ref = k
Reads(x, u, read, subs, left, book) ==
  /\ x.do \in {"upsert", "seats"} => read \in Subscription
  /\ x.do = "stop" => read = None \/ (read \in Row /\ Known(read.id, subs))
  /\ x.do = "purchase_bonus" => u \in left \/ Credits[x.id] = 0 \/ Bought(book, u, x.id)
  /\ x.do = "volume" =>
       /\ read \in [due : BOOLEAN, month : Nat]
       /\ read.due => u \in left \/ SumOf(BoughtIn(book, u, read.month)) >= VOLUME_BONUS_MIN_CREDITS
Fits(e, subs, left, book) ==
  /\ DOMAIN e = {"todo", "user", "event", "read"}
  /\ Proper(e.todo, subs)
  /\ e.todo # <<>> => e.user \in Users /\ Reads(e.todo[1], e.user, e.read, subs, left, book)
RequestsFit(reqs, subs, left, book) ==
  DOMAIN reqs = Requests /\ \A r \in Requests : Fits(reqs[r], subs, left, book)

StripeFits ==
  /\ now \in 0..MaxNow
  /\ DOMAIN session = Sessions
  /\ sub \in [Subs -> Subscription \cup {None}]
  /\ \A k \in Sessions : session[k] = "paid" /\ Kind[k] = "subscription" => Known(SubOf[k], sub)
  /\ pending \subseteq Event
  /\ \A e \in pending : e.about = "sub" => Known(e.id, sub)
Book(book) == book \subseteq Line /\ IsFiniteSet(book)
OursFit ==
  /\ row \in [Users -> Row \cup {None}]
  /\ \A u \in Users : row[u] # None => Known(row[u].id, sub)
  /\ Book(ledger)
  /\ gone \subseteq Users
BillingInv == StripeFits /\ OursFit /\ RequestsFit(req, sub, gone, ledger)

\* What a step of anybody leaves true: a subscription known stays known, an account gone stays
\* gone, and a row of the ledger goes only with all the rows of its account.
Kept(book, after) == \A e \in book : e \in after \/ \A p \in after : p.user # e.user
Onward(subs, left, book, subs2, left2, book2) ==
  /\ \A s \in Subs : subs[s] # None => subs2[s] # None
  /\ left \subseteq left2
  /\ \A e \in book : e \in book2 \/ e.user \in left2
  /\ Book(book) /\ Book(book2)

LEMMA StillFits ==
  ASSUME NEW e, NEW subs, NEW left, NEW book, NEW subs2, NEW left2, NEW book2,
         Onward(subs, left, book, subs2, left2, book2), Fits(e, subs, left, book)
  PROVE  Fits(e, subs2, left2, book2)
<1>1. Proper(e.todo, subs2)
  BY DEF Fits, Proper, Stands, Known, Onward
<1>2. ASSUME NEW x, NEW u, NEW read, Reads(x, u, read, subs, left, book)
      PROVE  Reads(x, u, read, subs2, left2, book2)
  <2>1. x.do \in {"upsert", "seats"} => read \in Subscription
    BY <1>2 DEF Reads
  <2>2. x.do = "stop" => read = None \/ (read \in Row /\ Known(read.id, subs2))
    BY <1>2 DEF Reads, Known, Onward
  <2>3. x.do = "purchase_bonus" => u \in left2 \/ Credits[x.id] = 0 \/ Bought(book2, u, x.id)
    BY <1>2 DEF Reads, Bought, Onward
  <2>4. ASSUME u \notin left2, NEW m \in Nat, SumOf(BoughtIn(book, u, m)) >= VOLUME_BONUS_MIN_CREDITS
        PROVE  SumOf(BoughtIn(book2, u, m)) >= VOLUME_BONUS_MIN_CREDITS
    <3>1. BoughtIn(book, u, m) \in SUBSET BoughtIn(book2, u, m)
      BY <2>4 DEF BoughtIn, Onward
    <3>2. Counted(BoughtIn(book, u, m)) /\ Counted(BoughtIn(book2, u, m))
      BY FS_Subset DEF Counted, BoughtIn, Onward, Book, Line
    <3>3. SumOf(BoughtIn(book, u, m)) <= SumOf(BoughtIn(book2, u, m))
      BY <3>1, <3>2, SumGrows
    <3>4. SumOf(BoughtIn(book, u, m)) \in Nat /\ SumOf(BoughtIn(book2, u, m)) \in Nat
      BY <3>2, SumIsNat
    <3> QED BY <2>4, <3>3, <3>4 DEF VOLUME_BONUS_MIN_CREDITS
  <2>5. x.do = "volume" =>
          /\ read \in [due : BOOLEAN, month : Nat]
          /\ read.due => u \in left2 \/ SumOf(BoughtIn(book2, u, read.month)) >= VOLUME_BONUS_MIN_CREDITS
    BY <1>2, <2>4 DEF Reads, Onward
  <2> QED BY <2>1, <2>2, <2>3, <2>5 DEF Reads
<1> QED BY <1>1, <1>2 DEF Fits

-----------------------------------------------------------------------------
(* Lists of steps                                                                      *)

LEMMA FollowsOn ==
  ASSUME NEW s, Ordered(s), Len(s) \in Nat, NEW k \in 1..(Len(s) - 1), s[k].do \notin Leading
  PROVE  s[k + 1].do \notin Relying
<1>1. k + 1 \in 2..Len(s) /\ (k + 1) - 1 = k
  OBVIOUS
<1> QED BY <1>1 DEF Ordered, Relying, Leading

LEMMA AnyRead ==
  ASSUME NEW x, x.do \notin Relying, NEW u, NEW read, NEW subs, NEW left, NEW book
  PROVE  Reads(x, u, read, subs, left, book)
BY DEF Reads, Relying

\* What is left of a list, and one list before another.
LEMMA DropProper ==
  ASSUME NEW subs, NEW s, Proper(s, subs), NEW n \in 0..Len(s)
  PROVE  LET t == SubSeq(s, n + 1, Len(s)) IN
           Proper(t, subs) /\ Len(t) = Len(s) - n /\ \A k \in 1..Len(t) : t[k] = s[n + k]
<1> DEFINE t == SubSeq(s, n + 1, Len(s))
<1>1. s \in Seq(Steps) /\ Len(s) \in Nat
  BY DEF Proper
<1>2. Len(t) = Len(s) - n /\ t \in Seq(Steps) /\ \A k \in 1..Len(t) : t[k] = s[n + k]
  BY <1>1
<1> HIDE DEF t
<1>3. \A k \in 1..Len(t) : t[k] = s[n + k] /\ n + k \in 1..Len(s) /\ (k >= 2 => n + k \in 2..Len(s))
  BY <1>1, <1>2
<1>4. \A k \in 2..Len(t) : t[k] = s[n + k] /\ t[k - 1] = s[(n + k) - 1] /\ n + k \in 2..Len(s)
  BY <1>1, <1>2, <1>3
<1>5. \A k \in 1..Len(t) : t[k].do = "upsert" => k < Len(t) /\ t[k + 1].do = "seats"
  <2> SUFFICES ASSUME NEW k \in 1..Len(t), t[k].do = "upsert" PROVE k < Len(t) /\ t[k + 1].do = "seats"
    OBVIOUS
  <2>1. n + k < Len(s) /\ s[(n + k) + 1].do = "seats"
    BY <1>3 DEF Proper, Ordered
  <2>2. k < Len(t) /\ k + 1 \in 1..Len(t) /\ n + (k + 1) = (n + k) + 1
    BY <1>1, <1>2, <2>1
  <2> QED BY <1>3, <2>1, <2>2
<1>6. Ordered(t)
  <2>1. \A k \in 2..Len(t) : t[k].do # "upsert"
    BY <1>4 DEF Proper, Ordered
  <2>2. \A k \in 2..Len(t) : t[k].do = "seats" => t[k - 1].do = "upsert"
    BY <1>4 DEF Proper, Ordered
  <2>3. \A k \in 2..Len(t) :
          t[k].do = "purchase_bonus" => t[k - 1].do = "purchase" /\ t[k - 1].id = t[k].id
    BY <1>4 DEF Proper, Ordered
  <2>4. \A k \in 2..Len(t) : t[k].do = "volume" => t[k - 1].do = "total"
    BY <1>4 DEF Proper, Ordered
  <2>5. \A k \in 2..Len(t) : t[k].do = "stop" => t[k - 1].do = "find"
    BY <1>4 DEF Proper, Ordered
  <2> QED BY <1>5, <2>1, <2>2, <2>3, <2>4, <2>5 DEF Ordered
<1>7. \A k \in 1..Len(t) : Stands(t[k], subs)
  BY <1>3 DEF Proper
<1> QED BY <1>2, <1>6, <1>7 DEF Proper, t

LEMMA JoinProper ==
  ASSUME NEW subs, NEW p, NEW s, Proper(p, subs), Proper(s, subs), Loose(s)
  PROVE  /\ Proper(p \o s, subs)
         /\ Loose(p) => Loose(p \o s)
         /\ p # <<>> => p \o s # <<>> /\ (p \o s)[1] = p[1]
<1> DEFINE j == p \o s
           n == Len(p)
<1>1. p \in Seq(Steps) /\ s \in Seq(Steps) /\ n \in Nat /\ Len(s) \in Nat
  BY DEF Proper
<1>2. /\ j \in Seq(Steps) /\ Len(j) = n + Len(s)
      /\ \A k \in 1..Len(j) : j[k] = IF k <= n THEN p[k] ELSE s[k - n]
  BY <1>1
<1>3. (p = <<>> => n = 0) /\ (n = 0 => p = <<>>) /\ (s = <<>> => Len(s) = 0)
  BY <1>1
<1> HIDE DEF j
<1>4. \A k \in 1..Len(j) : Stands(j[k], subs)
  <2> TAKE k \in 1..Len(j)
  <2>1. CASE k <= n
    BY <1>1, <1>2, <2>1 DEF Proper
  <2>2. CASE ~(k <= n)
    <3>1. k - n \in 1..Len(s) /\ j[k] = s[k - n]
      BY <1>1, <1>2, <2>2
    <3> QED BY <3>1 DEF Proper
  <2> QED BY <2>1, <2>2
<1>5. \A k \in 2..Len(j) :
        \/ k \in 2..n /\ j[k] = p[k] /\ j[k - 1] = p[k - 1]
        \/ k - n = 1 /\ j[k] = s[1] /\ s # <<>>
        \/ k - n \in 2..Len(s) /\ j[k] = s[k - n] /\ j[k - 1] = s[(k - n) - 1]
  <2> SUFFICES ASSUME NEW k \in 2..Len(j)
               PROVE  \/ k \in 2..n /\ j[k] = p[k] /\ j[k - 1] = p[k - 1]
                      \/ k - n = 1 /\ j[k] = s[1] /\ s # <<>>
                      \/ k - n \in 2..Len(s) /\ j[k] = s[k - n] /\ j[k - 1] = s[(k - n) - 1]
    OBVIOUS
  <2>1. k \in 1..Len(j) /\ k - 1 \in 1..Len(j) /\ k \in Nat
    BY <1>1, <1>2
  <2>2. CASE k <= n
    <3>1. k \in 2..n /\ k - 1 <= n
      BY <1>1, <2>1, <2>2
    <3> QED BY <1>2, <2>1, <2>2, <3>1
  <2>3. CASE k = n + 1
    <3>1. ~(k <= n) /\ k - n = 1 /\ Len(s) # 0
      BY <1>1, <1>2, <2>1, <2>3
    <3>2. j[k] = s[1]
      BY <1>2, <2>1, <3>1
    <3> QED BY <1>3, <3>1, <3>2
  <2>4. CASE k > n + 1
    <3>1. ~(k <= n) /\ ~(k - 1 <= n) /\ k - n \in 2..Len(s) /\ (k - 1) - n = (k - n) - 1
      BY <1>1, <1>2, <2>1, <2>4
    <3> QED BY <1>2, <2>1, <3>1
  <2> QED BY <1>1, <2>1, <2>2, <2>3, <2>4
<1>6. s # <<>> => s[1].do \notin Relying
  BY DEF Loose
<1>7. \A k \in 1..Len(j) : j[k].do = "upsert" => k < Len(j) /\ j[k + 1].do = "seats"
  <2> SUFFICES ASSUME NEW k \in 1..Len(j), j[k].do = "upsert" PROVE k < Len(j) /\ j[k + 1].do = "seats"
    OBVIOUS
  <2>1. CASE k <= n
    <3>1. k \in 1..n /\ p[k].do = "upsert"
      BY <1>1, <1>2, <2>1
    <3>2. k < n /\ p[k + 1].do = "seats"
      BY <3>1 DEF Proper, Ordered
    <3> QED BY <1>1, <1>2, <3>2
  <2>2. CASE ~(k <= n)
    <3>1. k - n \in 1..Len(s) /\ s[k - n].do = "upsert"
      BY <1>1, <1>2, <2>2
    <3>2. k - n < Len(s) /\ s[(k - n) + 1].do = "seats"
      BY <3>1 DEF Proper, Ordered
    <3>3. k < Len(j) /\ k + 1 \in 1..Len(j) /\ ~(k + 1 <= n) /\ (k + 1) - n = (k - n) + 1
      BY <1>1, <1>2, <2>2, <3>2
    <3> QED BY <1>2, <3>2, <3>3
  <2> QED BY <2>1, <2>2
<1>8. Ordered(j)
  <2>0. /\ \A k \in 2..n : /\ p[k].do # "upsert"
                           /\ p[k].do = "seats" => p[k - 1].do = "upsert"
        /\ \A k \in 2..Len(s) : /\ s[k].do # "upsert"
                                /\ s[k].do = "seats" => s[k - 1].do = "upsert"
        /\ s # <<>> => s[1].do # "upsert" /\ s[1].do # "seats"
    BY <1>6 DEF Proper, Ordered, Relying
  <2>1. \A k \in 2..Len(j) : j[k].do # "upsert"
    BY <1>5, <2>0
  <2>2. \A k \in 2..Len(j) : j[k].do = "seats" => j[k - 1].do = "upsert"
    BY <1>5, <2>0
  <2>3. \A k \in 2..Len(j) :
          j[k].do = "purchase_bonus" => j[k - 1].do = "purchase" /\ j[k - 1].id = j[k].id
    <3>1. /\ \A k \in 2..n :
               p[k].do = "purchase_bonus" => p[k - 1].do = "purchase" /\ p[k - 1].id = p[k].id
          /\ \A k \in 2..Len(s) :
               s[k].do = "purchase_bonus" => s[k - 1].do = "purchase" /\ s[k - 1].id = s[k].id
          /\ s # <<>> => s[1].do # "purchase_bonus"
      BY <1>6 DEF Proper, Ordered, Relying
    <3> QED BY <1>5, <3>1
  <2>4. \A k \in 2..Len(j) : j[k].do = "volume" => j[k - 1].do = "total"
    BY <1>5, <1>6 DEF Proper, Ordered, Relying
  <2>5. \A k \in 2..Len(j) : j[k].do = "stop" => j[k - 1].do = "find"
    BY <1>5, <1>6 DEF Proper, Ordered, Relying
  <2> QED BY <1>7, <2>1, <2>2, <2>3, <2>4, <2>5 DEF Ordered
<1>9. p # <<>> => Len(j) \in Nat \ {0} /\ j[1] = p[1]
  BY <1>1, <1>2, <1>3
<1>10. p # <<>> => j # <<>>
  BY <1>9, <1>2
<1>11. p = <<>> => j = s
  BY <1>1 DEF j
<1> QED BY <1>2, <1>4, <1>6, <1>8, <1>9, <1>10, <1>11 DEF Proper, Loose, j

LEMMA SingleProper ==
  ASSUME NEW subs, NEW x \in Steps, Stands(x, subs), x.do \notin Relying
  PROVE  Proper(<<x>>, subs) /\ Loose(<<x>>)
<1>1. <<x>> \in Seq(Steps) /\ Len(<<x>>) = 1 /\ <<x>>[1] = x
  OBVIOUS
<1> QED BY <1>1 DEF Proper, Ordered, Loose, Relying

LEMMA EmptyProper ==
  ASSUME NEW subs
  PROVE  Proper(<<>>, subs) /\ Loose(<<>>)
<1>1. <<>> \in Seq(Steps) /\ Len(<<>>) = 0
  OBVIOUS
<1> QED BY <1>1 DEF Proper, Ordered, Loose

\* A subscription to read, one to write with its seats, and what a session bought.
LEMMA SyncProper ==
  ASSUME NEW subs, NEW s, Known(s, subs)
  PROVE  Proper(Sync(s), subs) /\ Loose(Sync(s)) /\ Sync(s) # <<>>
<1>1. Step("retrieve", s) \in Steps /\ Step("retrieve", s).do = "retrieve" /\ Step("retrieve", s).id = s
  BY DEF Step, Steps, What, Known
<1>2. Stands(Step("retrieve", s), subs)
  BY <1>1 DEF Stands
<1>3. Sync(s) # <<>>
  BY DEF Sync
<1> QED BY <1>1, <1>2, <1>3, SingleProper DEF Sync, Relying

LEMMA PairProper ==
  ASSUME NEW subs, NEW s, Known(s, subs)
  PROVE  LET p == <<Step("upsert", s), Step("seats", s)>> IN
           Proper(p, subs) /\ p # <<>> /\ p[1].do = "upsert"
<1> DEFINE p == <<Step("upsert", s), Step("seats", s)>>
<1>1. /\ Step("upsert", s) \in Steps /\ Step("upsert", s).do = "upsert" /\ Step("upsert", s).id = s
      /\ Step("seats", s) \in Steps /\ Step("seats", s).do = "seats" /\ Step("seats", s).id = s
  BY DEF Step, Steps, What, Known
<1>2. Stands(Step("upsert", s), subs) /\ Stands(Step("seats", s), subs)
  BY <1>1 DEF Stands
<1>3. p \in Seq(Steps) /\ Len(p) = 2 /\ p[1] = Step("upsert", s) /\ p[2] = Step("seats", s)
  BY <1>1
<1> HIDE DEF p
<1>4. \A k \in 1..Len(p) : k = 1 \/ k = 2
  BY <1>3
<1>5. \A k \in 2..Len(p) : k = 2 /\ k - 1 = 1
  BY <1>3
<1>6. Ordered(p)
  BY <1>1, <1>3, <1>4, <1>5 DEF Ordered
<1>7. \A k \in 1..Len(p) : Stands(p[k], subs)
  BY <1>2, <1>3, <1>4
<1>8. p # <<>>
  BY <1>3
<1> QED BY <1>1, <1>3, <1>6, <1>7, <1>8 DEF Proper, p

LEMMA BasketProper ==
  ASSUME NEW subs, NEW k \in Sessions
  PROVE  Proper(Basket(k), subs) /\ Loose(Basket(k))
<1>1. CASE Credits[k] = 0
  BY <1>1, EmptyProper DEF Basket
<1>2. CASE Credits[k] # 0
  <2> DEFINE p == <<Step("purchase", k), Step("purchase_bonus", k), Step("total", k), Step("volume", k)>>
  <2>1. \A what \in {"purchase", "purchase_bonus", "total", "volume"} :
          Step(what, k) \in Steps /\ Step(what, k).do = what /\ Step(what, k).id = k
    BY DEF Step, Steps, What
  <2>2. \A what \in {"purchase", "purchase_bonus", "total", "volume"} : Stands(Step(what, k), subs)
    BY <2>1 DEF Stands
  <2>3. /\ p \in Seq(Steps) /\ Len(p) = 4
        /\ p[1] = Step("purchase", k) /\ p[2] = Step("purchase_bonus", k)
        /\ p[3] = Step("total", k) /\ p[4] = Step("volume", k)
    BY <2>1
  <2> HIDE DEF p
  <2>4. /\ p[1].do = "purchase" /\ p[2].do = "purchase_bonus" /\ p[3].do = "total" /\ p[4].do = "volume"
        /\ p[1].id = k /\ p[2].id = k
    BY <2>1, <2>3
  <2>5. \A i \in 1..Len(p) : i = 1 \/ i = 2 \/ i = 3 \/ i = 4
    BY <2>3
  <2>6. \A i \in 2..Len(p) : (i = 2 /\ i - 1 = 1) \/ (i = 3 /\ i - 1 = 2) \/ (i = 4 /\ i - 1 = 3)
    BY <2>3
  <2>7. Ordered(p)
    <3>1. \A i \in 1..Len(p) : p[i].do # "upsert" /\ p[i].do # "seats" /\ p[i].do # "stop"
      BY <2>4, <2>5
    <3>2. \A i \in 2..Len(p) : p[i].do = "purchase_bonus" => p[i - 1].do = "purchase" /\ p[i - 1].id = p[i].id
      BY <2>4, <2>6
    <3>3. \A i \in 2..Len(p) : p[i].do = "volume" => p[i - 1].do = "total"
      BY <2>4, <2>6
    <3>4. \A i \in 2..Len(p) : i \in 1..Len(p)
      BY <2>3
    <3> QED BY <3>1, <3>2, <3>3, <3>4 DEF Ordered
  <2>8. \A i \in 1..Len(p) : Stands(p[i], subs)
    BY <2>2, <2>3, <2>5
  <2>9. Loose(p)
    BY <2>4 DEF Loose, Relying
  <2> QED BY <1>2, <2>3, <2>7, <2>8, <2>9 DEF Proper, Basket, p
<1> QED BY <1>1, <1>2

LEMMA CheckoutProper ==
  ASSUME NEW k \in Sessions, StripeFits
  PROVE  Proper(Checkout(k), sub) /\ Loose(Checkout(k))
<1>1. CASE session[k] # "paid"
  BY <1>1, EmptyProper DEF Checkout
<1>2. CASE session[k] = "paid" /\ Kind[k] # "subscription"
  <2>1. Checkout(k) = <<>> \o Basket(k) /\ Basket(k) \in Seq(Steps)
    BY <1>2, BasketProper DEF Checkout, Proper
  <2>2. Checkout(k) = Basket(k)
    BY <2>1
  <2> QED BY <2>2, BasketProper
<1>3. CASE session[k] = "paid" /\ Kind[k] = "subscription"
  <2>1. Known(SubOf[k], sub)
    BY <1>3 DEF StripeFits
  <2>2. Checkout(k) = Sync(SubOf[k]) \o Basket(k)
    BY <1>3 DEF Checkout
  <2> QED BY <2>1, <2>2, SyncProper, BasketProper, JoinProper
<1> QED BY <1>1, <1>2, <1>3

\* A list of the same step for each of some things.
LEMMA EachProper ==
  ASSUME NEW subs, NEW what \in {"retrieve", "session"}, NEW S, IsFiniteSet(S), NEW order \in SetToSeqs(S),
         \A s \in S : Step(what, s) \in Steps /\ Stands(Step(what, s), subs)
  PROVE  LET p == [i \in 1..Len(order) |-> Step(what, order[i])] IN Proper(p, subs) /\ Loose(p)
<1>1. Cardinality(S) \in Nat
  BY FS_CardinalityType
<1>2. order \in [1..Cardinality(S) -> S]
  BY DEF SetToSeqs
<1>3. order \in Seq(S) /\ Len(order) = Cardinality(S)
  BY <1>1, <1>2
<1> DEFINE p == [i \in 1..Len(order) |-> Step(what, order[i])]
<1>4. p \in Seq(Steps) /\ Len(p) = Cardinality(S) /\ \A i \in 1..Len(p) : p[i] = Step(what, order[i]) /\ order[i] \in S
  <2>1. p \in [1..Cardinality(S) -> Steps]
    BY <1>2, <1>3
  <2> QED BY <1>1, <1>2, <1>3, <2>1
<1> HIDE DEF p
<1>5. \A i \in 1..Len(p) : p[i].do = what /\ Stands(p[i], subs)
  BY <1>4 DEF Step
<1>6. \A i \in 2..Len(p) : i \in 1..Len(p)
  BY <1>1, <1>4
<1>7. Ordered(p)
  BY <1>5, <1>6 DEF Ordered
<1>8. Loose(p)
  <2>1. SUFFICES ASSUME p # <<>> PROVE p[1].do \notin Relying
    BY DEF Loose
  <2>2. 1 \in 1..Len(p)
    BY <1>1, <1>4, <2>1
  <2> QED BY <1>5, <2>2 DEF Relying
<1> QED BY <1>4, <1>5, <1>7, <1>8 DEF Proper, p

-----------------------------------------------------------------------------
(* One request moves                                                                   *)

LEMMA OneMoves ==
  ASSUME NEW subs, NEW left, NEW book, RequestsFit(req, subs, left, book), NEW r \in Requests, NEW e,
         Fits(e, subs, left, book), req' = [req EXCEPT ![r] = e]
  PROVE  RequestsFit(req', subs, left, book)
BY DEF RequestsFit

LEMMA IdleFits ==
  ASSUME NEW subs, NEW left, NEW book
  PROVE  Fits(Idle, subs, left, book)
BY EmptyProper DEF Fits, Idle

LEMMA BeginFits ==
  ASSUME NEW subs, NEW left, NEW book, RequestsFit(req, subs, left, book), NEW r \in Requests, NEW u \in Users, NEW e,
         NEW steps, Begin(r, u, e, steps), Proper(steps, subs), Loose(steps)
  PROVE  RequestsFit(req', subs, left, book)
<1> DEFINE new == [todo |-> steps, user |-> u, event |-> e, read |-> None]
<1>1. Fits(new, subs, left, book)
  BY AnyRead DEF Fits, Loose
<1>2. req' = [req EXCEPT ![r] = new]
  BY DEF Begin
<1> HIDE DEF new
<1> QED BY <1>1, <1>2, OneMoves

LEMMA GoFits ==
  ASSUME NEW subs, NEW left, NEW book, RequestsFit(req, subs, left, book), NEW r \in Requests, req[r].todo # <<>>,
         NEW then, NEW seen, Go(r, then, seen), Proper(then, subs),
         then # <<>> => Reads(then[1], req[r].user, seen, subs, left, book)
  PROVE  RequestsFit(req', subs, left, book)
<1>1. CASE then = <<>>
  BY <1>1, IdleFits, OneMoves DEF Go
<1>2. CASE then # <<>>
  <2> DEFINE new == [req[r] EXCEPT !.todo = then, !.read = seen]
  <2>1. DOMAIN req = Requests /\ DOMAIN req[r] = {"todo", "user", "event", "read"} /\ req[r].user \in Users
    BY DEF RequestsFit, Fits
  <2>2. req' = [req EXCEPT ![r] = new]
    BY <1>2, <2>1 DEF Go
  <2>3. DOMAIN new = {"todo", "user", "event", "read"} /\ new.todo = then /\ new.user = req[r].user /\ new.read = seen
    BY <2>1
  <2> HIDE DEF new
  <2>4. Fits(new, subs, left, book)
    BY <2>1, <2>3 DEF Fits
  <2> QED BY <2>2, <2>4, OneMoves
<1> QED BY <1>1, <1>2

\* What is known of a request at a step.
LEMMA AtHand ==
  ASSUME NEW r \in Requests, NEW what, At(r, what), RequestsFit(req, sub, gone, ledger)
  PROVE  LET s == req[r].todo IN
           /\ s # <<>> /\ Proper(s, sub) /\ Len(s) \in Nat \ {0} /\ Head(s) = s[1] /\ s[1].do = what
           /\ Stands(s[1], sub) /\ req[r].user \in Users
           /\ Reads(s[1], req[r].user, req[r].read, sub, gone, ledger)
           /\ Rest(r) = SubSeq(s, 2, Len(s))
<1>1. Fits(req[r], sub, gone, ledger) /\ req[r].todo # <<>>
  BY DEF RequestsFit, At
<1>2. req[r].todo \in Seq(Steps)
  BY <1>1 DEF Fits, Proper
<1>3. Len(req[r].todo) \in Nat \ {0} /\ Head(req[r].todo) = req[r].todo[1] /\ Rest(r) = SubSeq(req[r].todo, 2, Len(req[r].todo))
  BY <1>1, <1>2 DEF Rest
<1>4. Stands(req[r].todo[1], sub)
  BY <1>1, <1>3 DEF Fits, Proper
<1> QED BY <1>1, <1>3, <1>4 DEF Fits, At

\* The steps after the n that are done; the first of them must have what it relies on.
LEMMA SkipFits ==
  ASSUME NEW subs, NEW left, NEW book, RequestsFit(req, subs, left, book), NEW r \in Requests, req[r].todo # <<>>,
         NEW n \in 0..Len(req[r].todo), Skip(r, n),
         n < Len(req[r].todo) => Reads(req[r].todo[n + 1], req[r].user, None, subs, left, book)
  PROVE  RequestsFit(req', subs, left, book) /\ pending' \subseteq pending
<1> DEFINE then == SubSeq(req[r].todo, n + 1, Len(req[r].todo))
<1>1. Proper(req[r].todo, subs) /\ Len(req[r].todo) \in Nat
  BY DEF RequestsFit, Fits, Proper
<1>2. Proper(then, subs) /\ Len(then) = Len(req[r].todo) - n /\ \A k \in 1..Len(then) : then[k] = req[r].todo[n + k]
  BY <1>1, DropProper
<1>3. Go(r, then, None) /\ pending' = Answer(r, then)
  BY DEF Skip
<1> HIDE DEF then
<1>4. ASSUME then # <<>> PROVE Reads(then[1], req[r].user, None, subs, left, book)
  <2>1. then \in Seq(Steps)
    BY <1>2 DEF Proper
  <2>2. Len(then) \in Nat \ {0}
    BY <1>4, <2>1
  <2>3. then[1] = req[r].todo[n + 1] /\ n < Len(req[r].todo)
    BY <1>1, <1>2, <2>2
  <2> QED BY <2>3
<1> QED BY <1>2, <1>3, <1>4, GoFits DEF Answer

\* The rest of the list after the first step.
LEMMA RestProper ==
  ASSUME NEW r \in Requests, NEW what, At(r, what), RequestsFit(req, sub, gone, ledger)
  PROVE  /\ Proper(Rest(r), sub)
         /\ what \notin Leading => Loose(Rest(r))
         /\ Rest(r) # <<>> => Len(req[r].todo) >= 2 /\ Rest(r)[1] = req[r].todo[2]
<1> DEFINE s == req[r].todo
<1>1. Proper(s, sub) /\ Len(s) \in Nat \ {0} /\ s[1].do = what /\ Rest(r) = SubSeq(s, 2, Len(s))
  BY AtHand
<1>2. Proper(Rest(r), sub) /\ Len(Rest(r)) = Len(s) - 1 /\ \A k \in 1..Len(Rest(r)) : Rest(r)[k] = s[1 + k]
  <2>1. PICK n \in 0..Len(s) : n = 1 /\ n + 1 = 2
    BY <1>1
  <2> DEFINE t == SubSeq(s, n + 1, Len(s))
  <2>2. Proper(t, sub) /\ Len(t) = Len(s) - n /\ \A k \in 1..Len(t) : t[k] = s[n + k]
    BY <1>1, DropProper
  <2>3. t = Rest(r)
    BY <1>1, <2>1
  <2> QED BY <2>1, <2>2, <2>3
<1> HIDE DEF s
<1>3. ASSUME Rest(r) # <<>> PROVE Len(s) >= 2 /\ Rest(r)[1] = s[2]
  <2>1. Rest(r) \in Seq(Steps)
    BY <1>2 DEF Proper
  <2>2. Len(Rest(r)) \in Nat \ {0}
    BY <1>3, <2>1
  <2> QED BY <1>1, <1>2, <2>2
<1>4. ASSUME what \notin Leading, Rest(r) # <<>> PROVE Rest(r)[1].do \notin Relying
  <2>1. 1 \in 1..(Len(s) - 1) /\ 1 + 1 = 2
    BY <1>1, <1>3, <1>4
  <2>2. s[2].do \notin Relying
    BY <1>1, <1>4, <2>1, FollowsOn DEF Proper
  <2> QED BY <1>3, <1>4, <2>2
<1> QED BY <1>2, <1>3, <1>4 DEF Loose, s

-----------------------------------------------------------------------------
(* The steps of requests that leave the tables as they are                             *)

LEMMA Quiet ==
  ASSUME BillingInv, UNCHANGED <<now, session, sub, row, ledger, gone>>, pending' \subseteq pending,
         RequestsFit(req', sub, gone, ledger)
  PROVE  BillingInv'
<1>1. StripeFits'
  BY DEF BillingInv, StripeFits
<1>2. OursFit'
  BY DEF BillingInv, OursFit
<1>3. RequestsFit(req', sub', gone', ledger')
  OBVIOUS
<1> QED BY <1>1, <1>2, <1>3 DEF BillingInv

LEMMA WebhookKeeps ==
  ASSUME BillingInv, NEW r \in Requests, NEW e \in Event, Webhook(r, e)
  PROVE  BillingInv'
<1>1. RequestsFit(req, sub, gone, ledger) /\ StripeFits
  BY DEF BillingInv
<1>2. e \in pending
  BY DEF Webhook
<1>3. CASE e.about = "session"
  <2>1. e.id \in Sessions
    BY <1>3 DEF Event
  <2>2. Buyer[e.id] \in Users
    BY <2>1, BillingAssumption
  <2>3. /\ Step("session", e.id) \in Steps /\ Stands(Step("session", e.id), sub)
        /\ Step("session", e.id).do \notin Relying
    BY <2>1 DEF Step, Steps, What, Stands, Relying
  <2>4. Begin(r, Buyer[e.id], e, <<Step("session", e.id)>>)
    BY <1>3 DEF Webhook
  <2> QED BY <1>1, <2>2, <2>3, <2>4, SingleProper, BeginFits, Quiet DEF Webhook, stripe, ours, counts
<1>4. CASE e.about # "session"
  <2>1. Known(e.id, sub)
    BY <1>1, <1>2, <1>4 DEF StripeFits, Event
  <2>2. sub[e.id].user \in Users
    BY <1>1, <2>1 DEF StripeFits, Known, Subscription
  <2>3. Begin(r, sub[e.id].user, e, Sync(e.id))
    BY <1>4 DEF Webhook
  <2> QED BY <1>1, <2>1, <2>2, <2>3, SyncProper, BeginFits, Quiet DEF Webhook, stripe, ours, counts
<1> QED BY <1>3, <1>4

LEMMA VisitsKeep ==
  ASSUME BillingInv, NEW r \in Requests, NEW u \in Users, Reconcile(r, u) \/ ChangeSeats(r, u) \/ DeleteAccount(r, u)
  PROVE  BillingInv'
<1>1. RequestsFit(req, sub, gone, ledger) /\ OursFit
  BY DEF BillingInv
<1>2. \A what \in What : /\ Step(what, u) \in Steps /\ Step(what, u).do = what
                         /\ what \in {"subscriptions", "sessions", "find", "stop", "remove"} => Stands(Step(what, u), sub)
  BY DEF Step, Steps, Stands
<1>3. CASE Reconcile(r, u)
  <2> DEFINE p == <<Step("subscriptions", u), Step("sessions", u)>>
  <2>1. p \in Seq(Steps) /\ Len(p) = 2 /\ p[1] = Step("subscriptions", u) /\ p[2] = Step("sessions", u)
    BY <1>2 DEF What
  <2>2. Begin(r, u, None, p)
    BY <1>3 DEF Reconcile
  <2> HIDE DEF p
  <2>3. \A k \in 1..Len(p) : p[k].do \in {"subscriptions", "sessions"} /\ Stands(p[k], sub)
    BY <1>2, <2>1 DEF What
  <2>4. \A k \in 2..Len(p) : k \in 1..Len(p)
    BY <2>1
  <2>5. Proper(p, sub) /\ Loose(p)
    <3>1. Ordered(p)
      BY <2>3, <2>4 DEF Ordered
    <3>2. 1 \in 1..Len(p)
      BY <2>1
    <3> QED BY <2>1, <2>3, <3>1, <3>2 DEF Proper, Loose, Relying
  <2> QED BY <1>1, <1>3, <2>2, <2>5, BeginFits, Quiet DEF Reconcile, stripe, ours, counts
<1>4. CASE ChangeSeats(r, u)
  <2> DEFINE s == row[u].id
             p == <<Step("quantity", s)>>
  <2>1. Known(s, sub)
    BY <1>1, <1>4 DEF ChangeSeats, Active, OursFit
  <2>2. Step("quantity", s) \in Steps /\ Stands(Step("quantity", s), sub) /\ Step("quantity", s).do \notin Relying
    BY <2>1 DEF Step, Steps, What, Stands, Known, Relying
  <2>3. Proper(p, sub) /\ Loose(p) /\ Proper(Sync(s), sub) /\ Loose(Sync(s))
    BY <2>1, <2>2, SingleProper, SyncProper
  <2>4. Begin(r, u, None, p \o Sync(s))
    BY <1>4 DEF ChangeSeats
  <2> HIDE DEF s, p
  <2>5. Proper(p \o Sync(s), sub) /\ Loose(p \o Sync(s))
    BY <2>3, JoinProper
  <2> QED BY <1>1, <1>4, <2>4, <2>5, BeginFits, Quiet DEF ChangeSeats, stripe, ours, counts
<1>5. CASE DeleteAccount(r, u)
  <2> DEFINE p == <<Step("find", u), Step("stop", u), Step("remove", u)>>
  <2>1. p \in Seq(Steps) /\ Len(p) = 3 /\ p[1] = Step("find", u) /\ p[2] = Step("stop", u) /\ p[3] = Step("remove", u)
    BY <1>2 DEF What
  <2>2. Begin(r, u, None, p)
    BY <1>5 DEF DeleteAccount
  <2> HIDE DEF p
  <2>3. p[1].do = "find" /\ p[2].do = "stop" /\ p[3].do = "remove"
    BY <1>2, <2>1 DEF What
  <2>4. \A k \in 1..Len(p) : p[k].do \in {"find", "stop", "remove"} /\ Stands(p[k], sub)
    BY <1>2, <2>1 DEF What
  <2>5. \A k \in 2..Len(p) : k \in 1..Len(p) /\ (p[k].do = "stop" => p[k - 1].do = "find")
    BY <2>1, <2>3
  <2>6. Proper(p, sub) /\ Loose(p)
    <3>1. Ordered(p)
      BY <2>4, <2>5 DEF Ordered
    <3> QED BY <2>1, <2>3, <2>4, <3>1 DEF Proper, Loose, Relying
  <2> QED BY <1>1, <1>5, <2>2, <2>6, BeginFits, Quiet DEF DeleteAccount, stripe, ours, counts
<1> QED BY <1>3, <1>4, <1>5

LEMMA ThrowKeeps ==
  ASSUME BillingInv, NEW r \in Requests, Throw(r)
  PROVE  BillingInv'
BY IdleFits, OneMoves, Quiet DEF Throw, BillingInv, stripe, ours

LEMMA RetrieveKeeps ==
  ASSUME BillingInv, NEW r \in Requests, Retrieve(r)
  PROVE  BillingInv'
<1>1. RequestsFit(req, sub, gone, ledger) /\ StripeFits /\ At(r, "session")
  BY DEF BillingInv, Retrieve
<1> DEFINE k == Head(req[r].todo).id
           then == Checkout(k) \o Rest(r)
<1>2. k \in Sessions /\ req[r].todo # <<>>
  BY <1>1, AtHand DEF Stands
<1>3. Proper(Rest(r), sub) /\ Loose(Rest(r))
  BY <1>1, RestProper DEF Leading
<1>4. Proper(Checkout(k), sub) /\ Loose(Checkout(k))
  BY <1>1, <1>2, CheckoutProper
<1>5. Proper(then, sub) /\ Loose(then)
  BY <1>3, <1>4, JoinProper
<1>6. Go(r, then, None) /\ pending' \subseteq pending
  BY DEF Retrieve, Answer
<1> HIDE DEF then
<1>7. then # <<>> => Reads(then[1], req[r].user, None, sub, gone, ledger)
  BY <1>5, AnyRead DEF Loose
<1> QED BY <1>1, <1>2, <1>5, <1>6, <1>7, GoFits, Quiet DEF Retrieve, ours, counts

LEMMA ListsKeep ==
  ASSUME BillingInv, NEW r \in Requests, ListSubscriptions(r) \/ ListSessions(r)
  PROVE  BillingInv'
<1>1. RequestsFit(req, sub, gone, ledger) /\ StripeFits
  BY DEF BillingInv
<1> DEFINE theirs == { s \in Subs : sub[s] # None /\ sub[s].user = req[r].user
                                       /\ sub[s].status \in {"active", "past_due"} }
           bought == { k \in Sessions : Buyer[k] = req[r].user /\ session[k] = "paid" }
<1>2. PICK what \in {"retrieve", "session"}, S \in {theirs, bought} :
        /\ IsFiniteSet(S)
        /\ \A s \in S : Step(what, s) \in Steps /\ Stands(Step(what, s), sub)
        /\ At(r, IF what = "retrieve" THEN "subscriptions" ELSE "sessions")
        /\ \E order \in SetToSeqs(S) : Go(r, [i \in 1..Len(order) |-> Step(what, order[i])] \o Rest(r), None)
  <2>1. CASE ListSubscriptions(r)
    <3>1. At(r, "subscriptions")
      BY <2>1 DEF ListSubscriptions
    <3>2. PICK order \in SetToSeqs(theirs) : Go(r, [i \in 1..Len(order) |-> Step("retrieve", order[i])] \o Rest(r), None)
      BY <2>1 DEF ListSubscriptions
    <3>3. IsFiniteSet(theirs)
      BY BillingAssumption, FS_Subset
    <3>4. \A s \in theirs : Step("retrieve", s) \in Steps /\ Stands(Step("retrieve", s), sub)
      BY DEF Step, Steps, What, Stands, Known
    <3> HIDE DEF theirs, bought
    <3> QED BY <3>1, <3>2, <3>3, <3>4
  <2>2. CASE ListSessions(r)
    <3>1. At(r, "sessions")
      BY <2>2 DEF ListSessions
    <3>2. PICK order \in SetToSeqs(bought) : Go(r, [i \in 1..Len(order) |-> Step("session", order[i])] \o Rest(r), None)
      BY <2>2 DEF ListSessions
    <3>3. IsFiniteSet(bought)
      BY BillingAssumption, FS_Subset
    <3>4. \A s \in bought : Step("session", s) \in Steps /\ Stands(Step("session", s), sub)
      BY DEF Step, Steps, What, Stands
    <3> HIDE DEF theirs, bought
    <3> QED BY <3>1, <3>2, <3>3, <3>4
  <2> QED BY <2>1, <2>2
<1>0. PICK order \in SetToSeqs(S) : Go(r, [i \in 1..Len(order) |-> Step(what, order[i])] \o Rest(r), None)
  BY <1>2
<1> DEFINE p == [i \in 1..Len(order) |-> Step(what, order[i])]
<1> HIDE DEF theirs, bought
<1>3. Proper(p, sub) /\ Loose(p)
  BY <1>2, EachProper
<1>4. Proper(Rest(r), sub) /\ Loose(Rest(r)) /\ req[r].todo # <<>>
  BY <1>1, <1>2, RestProper, AtHand DEF Leading
<1>5. Go(r, p \o Rest(r), None)
  BY <1>0
<1> HIDE DEF p
<1>6. Proper(p \o Rest(r), sub) /\ Loose(p \o Rest(r))
  BY <1>3, <1>4, JoinProper
<1>7. RequestsFit(req', sub, gone, ledger)
  BY <1>1, <1>4, <1>5, <1>6, AnyRead, GoFits DEF Loose
<1> QED BY <1>7, Quiet DEF ListSubscriptions, ListSessions, stripe, ours, counts

LEMMA ReadSubscriptionKeeps ==
  ASSUME BillingInv, NEW r \in Requests, ReadSubscription(r)
  PROVE  BillingInv'
<1>1. RequestsFit(req, sub, gone, ledger) /\ StripeFits /\ At(r, "retrieve")
  BY DEF BillingInv, ReadSubscription
<1> DEFINE s == Head(req[r].todo).id
           p == <<Step("upsert", s), Step("seats", s)>>
<1>2. Known(s, sub) /\ req[r].todo # <<>>
  BY <1>1, AtHand DEF Stands
<1>3. sub[s] \in Subscription
  BY <1>1, <1>2 DEF StripeFits, Known
<1>4. Proper(Rest(r), sub) /\ Loose(Rest(r))
  BY <1>1, RestProper DEF Leading
<1>5. Proper(p, sub) /\ p # <<>> /\ p[1].do = "upsert"
  BY <1>2, PairProper
<1>6. Go(r, p \o Rest(r), sub[s])
  BY DEF ReadSubscription
<1> HIDE DEF s, p
<1>7. Proper(p \o Rest(r), sub) /\ (p \o Rest(r))[1] = p[1]
  BY <1>4, <1>5, JoinProper
<1>8. Reads((p \o Rest(r))[1], req[r].user, sub[s], sub, gone, ledger)
  BY <1>3, <1>5, <1>7 DEF Reads
<1>9. RequestsFit(req', sub, gone, ledger)
  BY <1>1, <1>2, <1>6, <1>7, <1>8, GoFits
<1> QED BY <1>9, Quiet DEF ReadSubscription, stripe, ours

LEMMA ReadMonthKeeps ==
  ASSUME BillingInv, NEW r \in Requests, ReadMonth(r)
  PROVE  BillingInv'
<1>1. RequestsFit(req, sub, gone, ledger) /\ OursFit /\ At(r, "total") /\ now \in Nat
  BY BillingAssumption DEF BillingInv, ReadMonth, StripeFits
<1> DEFINE u == req[r].user
           seen == [due |-> bonusDue(Purchased(u, now), Active(u)), month |-> now]
<1>2. Proper(Rest(r), sub) /\ req[r].todo # <<>>
  BY <1>1, RestProper, AtHand
<1>3. ASSUME Rest(r) # <<>> PROVE Reads(Rest(r)[1], u, seen, sub, gone, ledger)
  <2>1. Rest(r)[1].do \notin {"upsert", "seats", "stop", "purchase_bonus"}
    <3>1. Len(req[r].todo) >= 2 /\ Rest(r)[1] = req[r].todo[2] /\ req[r].todo[1].do = "total"
      BY <1>1, <1>3, RestProper, AtHand
    <3>2. Ordered(req[r].todo) /\ 2 \in 2..Len(req[r].todo) /\ 2 - 1 = 1
      BY <1>1, <3>1, AtHand DEF Proper
    <3> QED BY <3>1, <3>2 DEF Ordered
  <2>2. Purchased(u, now) = SumOf(BoughtIn(ledger, u, now))
    BY DEF Purchased, BoughtIn
  <2>3. Active(u) \in BOOLEAN
    BY DEF Active, activeUntil
  <2>4. seen \in [due : BOOLEAN, month : Nat] /\ seen.month = now
    BY <1>1, <2>3 DEF bonusDue
  <2>5. seen.due => SumOf(BoughtIn(ledger, u, seen.month)) >= VOLUME_BONUS_MIN_CREDITS
    BY <2>2, <2>3, <2>4 DEF bonusDue
  <2> HIDE DEF seen
  <2> QED BY <2>1, <2>4, <2>5 DEF Reads
<1>4. Go(r, Rest(r), seen)
  BY DEF ReadMonth
<1> HIDE DEF seen
<1>5. RequestsFit(req', sub, gone, ledger)
  BY <1>1, <1>2, <1>3, <1>4, GoFits
<1> QED BY <1>5, Quiet DEF ReadMonth, stripe, ours

LEMMA FindSubscriptionKeeps ==
  ASSUME BillingInv, NEW r \in Requests, FindSubscription(r)
  PROVE  BillingInv'
<1>1. RequestsFit(req, sub, gone, ledger) /\ OursFit /\ At(r, "find")
  BY DEF BillingInv, FindSubscription
<1>2. Proper(Rest(r), sub) /\ req[r].todo # <<>> /\ req[r].user \in Users
  BY <1>1, RestProper, AtHand
<1>3. ASSUME Rest(r) # <<>> PROVE Reads(Rest(r)[1], req[r].user, row[req[r].user], sub, gone, ledger)
  <2>1. Rest(r)[1].do \notin {"upsert", "seats", "volume", "purchase_bonus"}
    <3>1. Len(req[r].todo) >= 2 /\ Rest(r)[1] = req[r].todo[2] /\ req[r].todo[1].do = "find"
      BY <1>1, <1>3, RestProper, AtHand
    <3>2. Ordered(req[r].todo) /\ 2 \in 2..Len(req[r].todo) /\ 2 - 1 = 1
      BY <1>1, <3>1, AtHand DEF Proper
    <3> QED BY <3>1, <3>2 DEF Ordered
  <2>2. row[req[r].user] = None \/ (row[req[r].user] \in Row /\ Known(row[req[r].user].id, sub))
    BY <1>1, <1>2 DEF OursFit
  <2> QED BY <2>1, <2>2 DEF Reads
<1>4. Go(r, Rest(r), row[req[r].user])
  BY DEF FindSubscription
<1>5. RequestsFit(req', sub, gone, ledger)
  BY <1>1, <1>2, <1>3, <1>4, GoFits
<1> QED BY <1>5, Quiet DEF FindSubscription, stripe, ours

-----------------------------------------------------------------------------
(* The steps that write a table                                                        *)

LEMMA OnwardFits ==
  ASSUME NEW subs, NEW left, NEW book, RequestsFit(req, sub, gone, ledger),
         Onward(sub, gone, ledger, subs, left, book)
  PROVE  RequestsFit(req, subs, left, book)
BY StillFits DEF RequestsFit

\* Stripe's tables move on, ours stay.
LEMMA StripeMoves ==
  ASSUME BillingInv, now' \in 0..MaxNow, DOMAIN session' = Sessions, UNCHANGED ours,
         sub' \in [Subs -> Subscription \cup {None}], \A s \in Subs : sub[s] # None => sub'[s] # None,
         \A k \in Sessions : session'[k] = "paid" /\ Kind[k] = "subscription" => Known(SubOf[k], sub'),
         pending' \subseteq Event, \A e \in pending' : e.about = "sub" => Known(e.id, sub')
  PROVE  /\ StripeFits' /\ OursFit' /\ RequestsFit(req, sub', gone', ledger')
         /\ UNCHANGED req => BillingInv'
<1>1. StripeFits'
  BY DEF StripeFits
<1>2. UNCHANGED <<row, ledger, gone>> /\ OursFit /\ RequestsFit(req, sub, gone, ledger)
  BY DEF BillingInv, ours
<1>3. OursFit'
  BY <1>2 DEF OursFit, Known
<1>4. Onward(sub, gone, ledger, sub', gone', ledger')
  BY <1>2 DEF Onward, OursFit
<1>5. RequestsFit(req, sub', gone', ledger')
  BY <1>2, <1>4, OnwardFits
<1> QED BY <1>1, <1>3, <1>5 DEF BillingInv

LEMMA SubMoves ==
  ASSUME BillingInv, NEW s \in Subs, sub[s] # None, NEW with \in Subscription,
         sub' = [sub EXCEPT ![s] = with], pending' \subseteq pending \cup {About("sub", s)},
         UNCHANGED <<now, session, ours>>
  PROVE  /\ StripeFits' /\ OursFit' /\ RequestsFit(req, sub', gone', ledger')
         /\ UNCHANGED req => BillingInv'
<1>1. StripeFits
  BY DEF BillingInv
<1>2. with # None
  BY BillingAssumption
<1>3. sub' \in [Subs -> Subscription \cup {None}] /\ \A q \in Subs : sub[q] # None => sub'[q] # None
  BY <1>1, <1>2 DEF StripeFits
<1>4. Known(s, sub')
  BY <1>1, <1>2 DEF StripeFits, Known
<1>5. \A q : Known(q, sub) => Known(q, sub')
  BY <1>3 DEF Known
<1>6. \A e \in pending' : e \in Event /\ (e.about = "sub" => Known(e.id, sub'))
  <2> TAKE e \in pending'
  <2>1. CASE e \in pending
    BY <1>1, <1>5, <2>1 DEF StripeFits
  <2>2. CASE e = About("sub", s)
    <3>1. e.about = "sub" /\ e.id = s /\ e \in [about : {"sub"}, id : Subs]
      BY <2>2 DEF About
    <3> QED BY <1>4, <3>1 DEF Event
  <2> QED BY <2>1, <2>2
<1>7. pending' \subseteq Event
  BY <1>6
<1>8. now' \in 0..MaxNow /\ DOMAIN session' = Sessions /\ UNCHANGED ours
  BY <1>1 DEF StripeFits
<1>9. \A k \in Sessions : session'[k] = "paid" /\ Kind[k] = "subscription" => Known(SubOf[k], sub')
  BY <1>1, <1>5 DEF StripeFits
<1> QED BY <1>3, <1>6, <1>7, <1>8, <1>9, StripeMoves

LEMMA StripeKeeps ==
  ASSUME BillingInv, StripeStep
  PROVE  BillingInv'
<1>1. StripeFits /\ RequestsFit(req, sub, gone, ledger)
  BY DEF BillingInv
<1>2. now \in Nat /\ MaxNow \in Nat /\ Year \in Nat
  BY <1>1, BillingAssumption DEF StripeFits
<1>3. ASSUME NEW k \in Sessions, OpenCheckout(k) PROVE BillingInv'
  <2>1. UNCHANGED <<now, sub, pending, ours, req>> /\ session' = [session EXCEPT ![k] = "open"]
    BY <1>3 DEF OpenCheckout
  <2>2. \A j \in Sessions : session'[j] = "paid" => session[j] = "paid"
    BY <1>1, <2>1 DEF StripeFits
  <2> QED BY <1>1, <2>1, <2>2, StripeMoves DEF StripeFits
<1>4. ASSUME NEW k \in Sessions, NEW paid \in BOOLEAN, Complete(k, paid) PROVE BillingInv'
  <2>1. /\ UNCHANGED <<now, ours, req>> /\ pending' = pending \cup {About("session", k)}
        /\ session' = [session EXCEPT ![k] = IF paid THEN "paid" ELSE "processing"]
    BY <1>4 DEF Complete
  <2>2. pending' \subseteq Event /\ \A e \in pending' : e \in pending \/ e.about # "sub"
    BY <1>1, <2>1 DEF StripeFits, Event, About
  <2>3. CASE paid /\ Kind[k] = "subscription"
    <3>1. PICK n \in SeatCounts : sub' = [sub EXCEPT ![SubOf[k]] =
            [status |-> "active", period |-> now + Year, cancel |-> FALSE, seats |-> n, user |-> Buyer[k]]]
      BY <1>4, <2>3 DEF Complete
    <3> DEFINE new == [status |-> "active", period |-> now + Year, cancel |-> FALSE, seats |-> n, user |-> Buyer[k]]
    <3>2. now + Year \in 0..(MaxNow + Year)
      BY <1>1, <1>2 DEF StripeFits
    <3>3. new \in Subscription
      BY <3>2, BillingAssumption DEF Subscription
    <3>4. sub' = [sub EXCEPT ![SubOf[k]] = new] /\ SubOf[k] \in Subs /\ new # None
      BY <3>1, <3>3, BillingAssumption
    <3> HIDE DEF new
    <3>5. sub' \in [Subs -> Subscription \cup {None}] /\ \A q \in Subs : (sub[q] # None \/ q = SubOf[k]) => sub'[q] # None
      BY <1>1, <3>3, <3>4 DEF StripeFits
    <3>6. \A j \in Sessions : session'[j] = "paid" /\ Kind[j] = "subscription" => Known(SubOf[j], sub')
      BY <1>1, <2>1, <3>4, <3>5 DEF StripeFits, Known
    <3>7. \A e \in pending' : e.about = "sub" => Known(e.id, sub')
      BY <1>1, <2>2, <3>5 DEF StripeFits, Known
    <3> QED BY <1>1, <2>1, <2>2, <3>5, <3>6, <3>7, StripeMoves DEF StripeFits
  <2>4. CASE ~(paid /\ Kind[k] = "subscription")
    <3>1. UNCHANGED sub
      BY <1>4, <2>4 DEF Complete
    <3>2. \A j \in Sessions : session'[j] = "paid" /\ Kind[j] = "subscription" => session[j] = "paid"
      BY <1>1, <2>1, <2>4 DEF StripeFits
    <3> QED BY <1>1, <2>1, <2>2, <3>1, <3>2, StripeMoves DEF StripeFits
  <2> QED BY <2>3, <2>4
<1>5. ASSUME NEW s \in Subs, NEW with \in Subscription, sub[s] # None, SubChanges(s, with) PROVE BillingInv'
  BY <1>5, SubMoves DEF SubChanges
<1>6. ASSUME NEW s \in Subs, PeriodEnds(s) PROVE BillingInv'
  <2>1. sub[s] # None /\ sub[s] \in Subscription
    BY <1>1, <1>6 DEF PeriodEnds, StripeFits
  <2>2. now + Year \in 0..(MaxNow + Year)
    BY <1>1, <1>2 DEF StripeFits
  <2>3. /\ [sub[s] EXCEPT !.status = "canceled"] \in Subscription
        /\ [sub[s] EXCEPT !.status = "active", !.period = now + Year] \in Subscription
        /\ [sub[s] EXCEPT !.status = "past_due"] \in Subscription
    BY <2>1, <2>2 DEF Subscription
  <2> QED BY <1>5, <1>6, <2>1, <2>3 DEF PeriodEnds
<1>7. ASSUME NEW s \in Subs, CancelAtPeriodEnd(s) PROVE BillingInv'
  <2>1. sub[s] # None /\ sub[s] \in Subscription
    BY <1>1, <1>7 DEF CancelAtPeriodEnd, StripeFits
  <2>2. [sub[s] EXCEPT !.cancel = TRUE] \in Subscription
    BY <2>1 DEF Subscription
  <2> QED BY <1>5, <1>7, <2>1, <2>2 DEF CancelAtPeriodEnd
<1>8. ASSUME NEW e \in Event, LoseEvent(e) PROVE BillingInv'
  BY <1>1, <1>8, Quiet DEF LoseEvent, ours
<1>9. ASSUME Tick PROVE BillingInv'
  <2>1. now' \in 0..MaxNow
    BY <1>1, <1>2, <1>9 DEF Tick, StripeFits
  <2> QED BY <1>1, <1>9, <2>1, StripeMoves DEF Tick, StripeFits, stripe
<1> QED BY <1>3, <1>4, <1>6, <1>7, <1>8, <1>9 DEF StripeStep

\* A row of subscriptions is written.
LEMMA RowMoves ==
  ASSUME BillingInv, UNCHANGED <<now, session, sub, ledger, gone>>, pending' \subseteq pending,
         NEW u \in Users, NEW with \in Row \cup {None}, with # None => Known(with.id, sub),
         row' = [row EXCEPT ![u] = with], RequestsFit(req', sub, gone, ledger)
  PROVE  BillingInv'
<1>1. StripeFits'
  BY DEF BillingInv, StripeFits
<1>2. OursFit'
  BY DEF BillingInv, OursFit
<1>3. RequestsFit(req', sub', gone', ledger')
  OBVIOUS
<1> QED BY <1>1, <1>2, <1>3 DEF BillingInv

LEMMA WriteSubscriptionKeeps ==
  ASSUME BillingInv, NEW r \in Requests, WriteSubscription(r)
  PROVE  BillingInv'
<1>1. RequestsFit(req, sub, gone, ledger) /\ OursFit /\ StripeFits /\ At(r, "upsert")
  BY DEF BillingInv, WriteSubscription
<1> DEFINE s == req[r].todo
           u == req[r].user
           read == req[r].read
           new == Upserted(u, Head(s).id, read)
<1>2. /\ s # <<>> /\ Proper(s, sub) /\ Len(s) \in Nat \ {0} /\ s[1].do = "upsert" /\ Head(s) = s[1]
      /\ Known(s[1].id, sub) /\ u \in Users /\ read \in Subscription
  BY <1>1, AtHand DEF Stands, Reads
<1>3. 1 < Len(s) /\ s[2].do = "seats"
  <2>1. Ordered(s) /\ 1 \in 1..Len(s) /\ 1 + 1 = 2
    BY <1>2 DEF Proper
  <2> QED BY <1>2, <2>1 DEF Ordered
<1>4. new \in Row /\ Known(new.id, sub) /\ new # None
  <2>1. row[u] # None => row[u] \in Row
    BY <1>1, <1>2 DEF OursFit
  <2>2. new \in Row
    BY <1>2, <2>1, BillingAssumption DEF Upserted, Row, Subscription, Known
  <2> QED BY <1>2, <2>2, BillingAssumption DEF Upserted
<1>5. Proper(Rest(r), sub) /\ (Rest(r) # <<>> => Rest(r)[1] = s[2])
  BY <1>1, RestProper
<1>6. ASSUME Go(r, Rest(r), read) PROVE RequestsFit(req', sub, gone, ledger)
  <2>1. Rest(r) # <<>> => Reads(Rest(r)[1], u, read, sub, gone, ledger)
    BY <1>2, <1>3, <1>5 DEF Reads
  <2> QED BY <1>1, <1>2, <1>5, <1>6, <2>1, GoFits
<1>7. ASSUME Skip(r, 2) PROVE RequestsFit(req', sub, gone, ledger) /\ pending' \subseteq pending
  <2>1. 2 \in 0..Len(s)
    BY <1>2, <1>3
  <2>2. 2 < Len(s) => s[2 + 1].do \notin Relying
    <3>1. SUFFICES ASSUME 2 < Len(s) PROVE s[2 + 1].do \notin Relying
      OBVIOUS
    <3>2. 2 \in 1..(Len(s) - 1)
      BY <1>2, <3>1
    <3> QED BY <1>2, <1>3, <3>2, FollowsOn DEF Proper, Leading
  <2>3. 2 < Len(s) => Reads(s[2 + 1], u, None, sub, gone, ledger)
    BY <2>2, AnyRead
  <2> QED BY <1>1, <1>2, <1>7, <2>1, <2>3, SkipFits
<1>8. CASE row' = [row EXCEPT ![u] = new] /\ Go(r, Rest(r), read) /\ UNCHANGED pending
  <2> HIDE DEF new
  <2> QED BY <1>2, <1>4, <1>6, <1>8, RowMoves DEF WriteSubscription
<1>9. CASE Skip(r, 2) /\ UNCHANGED row
  BY <1>7, <1>9, Quiet DEF WriteSubscription
<1> QED BY <1>8, <1>9 DEF WriteSubscription

LEMMA WriteSeatsKeeps ==
  ASSUME BillingInv, NEW r \in Requests, WriteSeats(r)
  PROVE  BillingInv'
<1>1. RequestsFit(req, sub, gone, ledger) /\ OursFit /\ StripeFits /\ At(r, "seats")
  BY DEF BillingInv, WriteSeats
<1> DEFINE s == req[r].todo
           u == req[r].user
<1>2. /\ s # <<>> /\ Proper(s, sub) /\ Len(s) \in Nat \ {0} /\ s[1].do = "seats"
      /\ u \in Users /\ req[r].read \in Subscription
  BY <1>1, AtHand DEF Reads
<1>3. RequestsFit(req', sub, gone, ledger) /\ pending' \subseteq pending
  <2>1. 1 \in 0..Len(s) /\ Skip(r, 1)
    BY <1>2 DEF WriteSeats
  <2>2. 1 < Len(s) => s[1 + 1].do \notin Relying
    <3>1. SUFFICES ASSUME 1 < Len(s) PROVE s[1 + 1].do \notin Relying
      OBVIOUS
    <3>2. 1 \in 1..(Len(s) - 1)
      BY <1>2, <3>1
    <3> QED BY <1>2, <3>2, FollowsOn DEF Proper, Leading
  <2>3. 1 < Len(s) => Reads(s[1 + 1], u, None, sub, gone, ledger)
    BY <2>2, AnyRead
  <2> QED BY <1>1, <1>2, <2>1, <2>3, SkipFits
<1>4. CASE UNCHANGED row
  BY <1>3, <1>4, Quiet DEF WriteSeats
<1>5. CASE row[u] # None /\ row' = [row EXCEPT ![u].seats = req[r].read.seats]
  <2> DEFINE new == [row[u] EXCEPT !.seats = req[r].read.seats]
  <2>1. row[u] \in Row /\ Known(row[u].id, sub)
    BY <1>1, <1>2, <1>5 DEF OursFit
  <2>2. new \in Row /\ new.id = row[u].id
    BY <1>2, <2>1 DEF Row, Subscription
  <2>3. row' = [row EXCEPT ![u] = new]
    BY <1>5
  <2> HIDE DEF new
  <2> QED BY <1>2, <1>3, <2>1, <2>2, <2>3, RowMoves DEF WriteSeats
<1> QED BY <1>4, <1>5 DEF WriteSeats

LEMMA SetQuantityKeeps ==
  ASSUME BillingInv, NEW r \in Requests, SetQuantity(r)
  PROVE  BillingInv'
<1>1. RequestsFit(req, sub, gone, ledger) /\ StripeFits /\ At(r, "quantity")
  BY DEF BillingInv, SetQuantity
<1> DEFINE s == Head(req[r].todo).id
<1>2. Known(s, sub) /\ req[r].todo # <<>> /\ req[r].user \in Users
  BY <1>1, AtHand DEF Stands
<1>3. s \in Subs /\ sub[s] # None /\ sub[s] \in Subscription
  BY <1>1, <1>2 DEF Known, StripeFits
<1>4. Proper(Rest(r), sub) /\ Loose(Rest(r)) /\ Go(r, Rest(r), None)
  BY <1>1, RestProper DEF Leading, SetQuantity
<1>5. StripeFits' /\ OursFit' /\ RequestsFit(req, sub', gone', ledger') /\ \A q : Known(q, sub) => Known(q, sub')
  <2>1. PICK n \in SeatCounts :
          /\ sub' = IF sub[s].status = "canceled" THEN sub ELSE [sub EXCEPT ![s].seats = n]
          /\ pending' = IF sub[s].status = "canceled" THEN pending ELSE pending \cup {About("sub", s)}
    BY DEF SetQuantity
  <2> DEFINE new == IF sub[s].status = "canceled" THEN sub[s] ELSE [sub[s] EXCEPT !.seats = n]
  <2>2. new \in Subscription
    BY <1>3 DEF Subscription
  <2>3. sub' = [sub EXCEPT ![s] = new]
    BY <1>1, <1>3, <2>1 DEF StripeFits
  <2>4. pending' \subseteq pending \cup {About("sub", s)} /\ UNCHANGED <<now, session, ours>>
    BY <2>1 DEF SetQuantity
  <2>5. new # None
    BY <2>2, BillingAssumption
  <2> HIDE DEF new, s
  <2>6. \A q : Known(q, sub) => Known(q, sub')
    BY <1>1, <2>3, <2>5 DEF Known, StripeFits
  <2> QED BY <1>3, <2>2, <2>3, <2>4, <2>6, SubMoves
<1>6. Proper(Rest(r), sub')
  BY <1>4, <1>5 DEF Proper, Stands
<1>7. RequestsFit(req', sub', gone', ledger')
  BY <1>2, <1>4, <1>5, <1>6, AnyRead, GoFits DEF Loose
<1> QED BY <1>5, <1>7 DEF BillingInv

LEMMA StopSubscriptionKeeps ==
  ASSUME BillingInv, NEW r \in Requests, StopSubscription(r)
  PROVE  BillingInv'
<1>1. RequestsFit(req, sub, gone, ledger) /\ StripeFits /\ OursFit /\ At(r, "stop")
  BY DEF BillingInv, StopSubscription
<1> DEFINE s == req[r].read.id
<1>2. req[r].todo # <<>> /\ req[r].user \in Users /\ (req[r].read # None => Known(s, sub))
  BY <1>1, AtHand DEF Reads
<1>3. Proper(Rest(r), sub) /\ Loose(Rest(r)) /\ Go(r, Rest(r), None)
  BY <1>1, RestProper DEF Leading, StopSubscription
<1>4. CASE req[r].read = None \/ sub[s].status = "canceled"
  <2>1. UNCHANGED <<sub, pending>>
    BY <1>4 DEF StopSubscription
  <2>2. RequestsFit(req', sub, gone, ledger)
    BY <1>1, <1>2, <1>3, AnyRead, GoFits DEF Loose
  <2> QED BY <2>1, <2>2, Quiet DEF StopSubscription, ours
<1>5. CASE req[r].read # None /\ sub[s].status # "canceled"
  <2> DEFINE new == [sub[s] EXCEPT !.status = "canceled"]
  <2>1. s \in Subs /\ sub[s] # None /\ sub[s] \in Subscription
    BY <1>1, <1>2, <1>5 DEF Known, StripeFits
  <2>2. new \in Subscription /\ new # None
    <3>1. new \in Subscription
      BY <2>1 DEF Subscription
    <3> QED BY <3>1, BillingAssumption
  <2>3. sub' = [sub EXCEPT ![s] = new] /\ pending' \subseteq pending \cup {About("sub", s)} /\ UNCHANGED <<now, session, ours>>
    BY <1>5 DEF StopSubscription
  <2> HIDE DEF new, s
  <2>4. \A q : Known(q, sub) => Known(q, sub')
    BY <1>1, <2>2, <2>3 DEF Known, StripeFits
  <2>5. StripeFits' /\ OursFit' /\ RequestsFit(req, sub', gone', ledger')
    BY <2>1, <2>2, <2>3, SubMoves
  <2>6. Proper(Rest(r), sub')
    BY <1>3, <2>4 DEF Proper, Stands
  <2>7. RequestsFit(req', sub', gone', ledger')
    BY <1>2, <1>3, <2>5, <2>6, AnyRead, GoFits DEF Loose
  <2> QED BY <2>5, <2>7 DEF BillingInv
<1> QED BY <1>4, <1>5

LEMMA RemoveAccountKeeps ==
  ASSUME BillingInv, NEW r \in Requests, RemoveAccount(r)
  PROVE  BillingInv'
<1>1. RequestsFit(req, sub, gone, ledger) /\ StripeFits /\ OursFit /\ At(r, "remove")
  BY DEF BillingInv, RemoveAccount
<1> DEFINE u == req[r].user
<1>2. req[r].todo # <<>> /\ u \in Users
  BY <1>1, AtHand
<1>3. Proper(Rest(r), sub) /\ Loose(Rest(r)) /\ Go(r, Rest(r), None)
  BY <1>1, RestProper DEF Leading, RemoveAccount
<1>4. /\ UNCHANGED <<now, session, sub, pending>> /\ gone' = gone \cup {u}
      /\ row' = [row EXCEPT ![u] = None] /\ ledger' = { e \in ledger : e.user # u }
  BY DEF RemoveAccount, stripe
<1>5. Book(ledger')
  BY <1>1, <1>4, FS_Subset DEF OursFit, Book
<1>6. StripeFits'
  BY <1>1, <1>4 DEF StripeFits
<1>7. OursFit'
  BY <1>1, <1>2, <1>4, <1>5 DEF OursFit
<1>8. Onward(sub, gone, ledger, sub', gone', ledger')
  BY <1>1, <1>4, <1>5 DEF Onward, OursFit
<1>9. RequestsFit(req, sub', gone', ledger')
  BY <1>1, <1>8, OnwardFits
<1>10. Proper(Rest(r), sub')
  BY <1>3, <1>4
<1>11. RequestsFit(req', sub', gone', ledger')
  BY <1>2, <1>3, <1>9, <1>10, AnyRead, GoFits DEF Loose
<1> QED BY <1>6, <1>7, <1>11 DEF BillingInv

-----------------------------------------------------------------------------
(* Grants, and the bonuses they book                                                   *)

LEMMA GrantBooks ==
  ASSUME BillingInv, NEW r \in Requests, NEW reason \in Reasons, NEW ref \in Sessions \cup Nat, NEW n \in Nat,
         req[r].user \in Users, Grant(r, reason, ref, n)
  PROVE  LET new == [user |-> req[r].user, reason |-> reason, ref |-> ref, n |-> n, month |-> now] IN
           /\ Book(ledger) /\ Book(ledger') /\ ledger \subseteq ledger'
           /\ \A e \in ledger' : e \in ledger \/ (e = new /\ n > 0 /\ req[r].user \notin gone)
           /\ req[r].user \in gone \/ n = 0
              \/ \E e \in ledger' : e.user = req[r].user /\ e.reason = reason /\ e.ref = ref
<1> DEFINE u == req[r].user
           new == [user |-> u, reason |-> reason, ref |-> ref, n |-> n, month |-> now]
           booked == \E e \in ledger : e.user = u /\ e.reason = reason /\ e.ref = ref
<1>1. Book(ledger) /\ now \in Nat
  BY BillingAssumption DEF BillingInv, OursFit, StripeFits
<1>2. ledger' = IF u \in gone \/ booked \/ n <= 0 THEN ledger ELSE ledger \cup {new}
  BY DEF Grant
<1>3. new.user = u /\ new.reason = reason /\ new.ref = ref
  OBVIOUS
<1>4. n > 0 => new \in Line
  BY <1>1 DEF Line
<1> HIDE DEF new
<1>5. CASE u \in gone \/ booked \/ n <= 0
  BY <1>1, <1>2, <1>5
<1>6. CASE ~(u \in gone \/ booked \/ n <= 0)
  <2>1. ledger' = ledger \cup {new} /\ n > 0 /\ u \notin gone
    BY <1>2, <1>6
  <2>2. Book(ledger')
    BY <1>1, <1>4, <2>1, FS_AddElement DEF Book
  <2> QED BY <1>1, <1>3, <2>1, <2>2 DEF new
<1> QED BY <1>5, <1>6 DEF new

LEMMA GrantLeads ==
  ASSUME BillingInv, NEW r \in Requests, NEW what, At(r, what), NEW reason \in Reasons,
         NEW ref \in Sessions \cup Nat, NEW n \in Nat, Grant(r, reason, ref, n),
         UNCHANGED <<now, session, sub, row, gone>>,
         req[r].user \notin gone /\ 1 < Len(req[r].todo) =>
           Reads(req[r].todo[1 + 1], req[r].user, None, sub, gone, ledger')
  PROVE  BillingInv'
<1> DEFINE s == req[r].todo
           u == req[r].user
<1>1. RequestsFit(req, sub, gone, ledger) /\ StripeFits /\ OursFit
  BY DEF BillingInv
<1>2. s # <<>> /\ Len(s) \in Nat \ {0} /\ u \in Users
  BY <1>1, AtHand
<1>3. Book(ledger) /\ Book(ledger') /\ ledger \subseteq ledger'
  BY <1>2, GrantBooks
<1>4. Onward(sub, gone, ledger, sub, gone, ledger')
  BY <1>3 DEF Onward
<1>5. RequestsFit(req, sub, gone, ledger')
  BY <1>1, <1>4, OnwardFits
<1>6. RequestsFit(req', sub, gone, ledger') /\ pending' \subseteq pending
  <2>1. CASE u \in gone
    <3>1. Skip(r, Len(s)) /\ Len(s) \in 0..Len(s) /\ ~(Len(s) < Len(s))
      BY <1>2, <2>1 DEF Grant
    <3> HIDE DEF s
    <3> QED BY <1>2, <1>5, <3>1, SkipFits DEF s
  <2>2. CASE u \notin gone
    <3>1. Skip(r, 1) /\ 1 \in 0..Len(s)
      BY <1>2, <2>2 DEF Grant
    <3> QED BY <1>2, <1>5, <2>2, <3>1, SkipFits
  <2> QED BY <2>1, <2>2
<1>7. StripeFits'
  BY <1>1, <1>6 DEF StripeFits
<1>8. OursFit'
  BY <1>1, <1>3 DEF OursFit
<1> QED BY <1>6, <1>7, <1>8 DEF BillingInv

\* A basket's bonus goes with the purchase of the basket, for whoever has an account.
LEMMA GrantsKeep ==
  ASSUME BillingInv, NEW r \in Requests, GrantPurchase(r) \/ GrantBasketBonus(r) \/ GrantVolumeBonus(r)
  PROVE  BillingInv'
<1> DEFINE s == req[r].todo
           u == req[r].user
<1>1. RequestsFit(req, sub, gone, ledger) /\ StripeFits /\ OursFit
  BY DEF BillingInv
<1>2. ASSUME NEW what, At(r, what), what \notin Leading, 1 < Len(s)
      PROVE  Reads(s[1 + 1], u, None, sub, gone, ledger')
  <2>1. Ordered(s) /\ Len(s) \in Nat /\ s[1].do = what
    BY <1>1, <1>2, AtHand DEF Proper
  <2>2. 1 \in 1..(Len(s) - 1)
    BY <1>2, <2>1
  <2> QED BY <1>2, <2>1, <2>2, FollowsOn, AnyRead
<1>3. CASE GrantPurchase(r)
  <2> DEFINE k == Head(s).id
  <2>1. At(r, "purchase") /\ Grant(r, "purchase", k, Credits[k])
    BY <1>3 DEF GrantPurchase
  <2>2. /\ s # <<>> /\ Ordered(s) /\ Len(s) \in Nat \ {0} /\ Head(s) = s[1] /\ s[1].do = "purchase"
        /\ k \in Sessions /\ u \in Users
    BY <1>1, <2>1, AtHand DEF Stands, Proper
  <2>3. Credits[k] \in Nat
    BY <2>2, BillingAssumption
  <2>4. u \in gone \/ Credits[k] = 0 \/ Bought(ledger', u, k)
    BY <2>1, <2>2, <2>3, GrantBooks DEF Reasons, Bought
  <2>5. ASSUME 1 < Len(s) PROVE Reads(s[1 + 1], u, None, sub, gone, ledger')
    <3>1. 2 \in 2..Len(s) /\ 2 - 1 = 1 /\ 1 + 1 = 2
      BY <2>2, <2>5
    <3>2. s[2].do \notin {"upsert", "seats", "volume", "stop"} /\ (s[2].do = "purchase_bonus" => s[2].id = k)
      BY <2>2, <3>1 DEF Ordered
    <3> QED BY <2>4, <3>1, <3>2 DEF Reads
  <2> HIDE DEF s, u, k
  <2> QED BY <1>3, <2>1, <2>2, <2>3, <2>5, GrantLeads DEF GrantPurchase, Reasons, s, u
<1>4. CASE GrantBasketBonus(r)
  <2> DEFINE k == Head(s).id
             n == bonusForPurchase(Credits[k])
  <2>1. At(r, "purchase_bonus") /\ Grant(r, "purchase_bonus", k, n)
    BY <1>4 DEF GrantBasketBonus
  <2>2. k \in Sessions
    BY <1>1, <2>1, AtHand DEF Stands
  <2>3. n \in Nat
    <3>1. Credits[k] \in Int
      BY <2>2, BillingAssumption
    <3> QED BY <3>1, BonusTable
  <2> HIDE DEF k, n
  <2> QED BY <1>2, <1>4, <2>1, <2>2, <2>3, GrantLeads DEF GrantBasketBonus, Reasons, Leading
<1>5. CASE GrantVolumeBonus(r)
  <2> DEFINE m == req[r].read.month
             n == IF req[r].read.due THEN VOLUME_BONUS_CREDITS ELSE 0
  <2>1. At(r, "volume") /\ Grant(r, "volume_bonus", m, n)
    BY <1>5 DEF GrantVolumeBonus
  <2>2. m \in Nat
    BY <1>1, <2>1, AtHand DEF Reads
  <2>3. n \in Nat
    BY DEF VOLUME_BONUS_CREDITS
  <2> HIDE DEF m, n
  <2> QED BY <1>2, <1>5, <2>1, <2>2, <2>3, GrantLeads DEF GrantVolumeBonus, Reasons, Leading
<1> QED BY <1>3, <1>4, <1>5

-----------------------------------------------------------------------------
(* Theorems                                                                            *)

LEMMA InitFits == Init => BillingInv
<1> SUFFICES ASSUME Init PROVE BillingInv
  OBVIOUS
<1>1. StripeFits
  BY BillingAssumption DEF Init, StripeFits
<1>2. OursFit
  BY FS_EmptySet DEF Init, OursFit, Book
<1>3. RequestsFit(req, sub, gone, ledger)
  BY IdleFits DEF Init, RequestsFit
<1> QED BY <1>1, <1>2, <1>3 DEF BillingInv

LEMMA StepFits == BillingInv /\ [Next]_vars => BillingInv'
<1> SUFFICES ASSUME BillingInv, [Next]_vars PROVE BillingInv'
  OBVIOUS
<1>1. ASSUME NEW r \in Requests, Work(r) PROVE BillingInv'
  BY <1>1, RetrieveKeeps, ListsKeep, ReadSubscriptionKeeps, WriteSubscriptionKeeps, WriteSeatsKeeps, GrantsKeep,
     ReadMonthKeeps, SetQuantityKeeps, FindSubscriptionKeeps, StopSubscriptionKeeps, RemoveAccountKeeps DEF Work
<1>2. CASE UNCHANGED vars
  BY <1>2, Quiet DEF vars, stripe, ours, BillingInv
<1> QED BY <1>1, <1>2, StripeKeeps, ThrowKeeps, WebhookKeeps, VisitsKeep DEF Next

\* Every request's list is one the code can have: a subscription is written from the answer
\* that was read right before it, and its seats next; a bonus comes right after the purchase
\* it goes with or the total it is judged by; what a step is about exists at Stripe.  Our
\* tables name users and subscriptions that exist, and every row of the ledger counts
\* something (handleCheckoutCompleted, syncSubscription, deleteAccount).
THEOREM RequestsAreInOrder == Spec => []BillingInv
BY InitFits, StepFits, PTL DEF Spec

Earned(e, book) ==
  /\ e.reason = "volume_bonus" => SumOf(BoughtIn(book, e.user, e.ref)) >= VOLUME_BONUS_MIN_CREDITS
  /\ e.reason = "purchase_bonus" => Bought(book, e.user, e.ref)

LEMMA EarnedIs == BonusEarned <=> \A e \in ledger : Earned(e, ledger)
<1>1. \A u, m : Purchased(u, m) = SumOf(BoughtIn(ledger, u, m))
  BY DEF Purchased, BoughtIn
<1> QED BY <1>1 DEF BonusEarned, Earned, Bought

\* A bonus earned stays earned while the rows of its account stay.
LEMMA StaysEarned ==
  ASSUME NEW book, NEW after, Book(book), Book(after), Kept(book, after), NEW e \in after, Earned(e, book)
  PROVE  Earned(e, after)
<1>1. \A p \in book : p.user = e.user => p \in after
  BY DEF Kept
<1>2. ASSUME e.reason = "volume_bonus" PROVE SumOf(BoughtIn(after, e.user, e.ref)) >= VOLUME_BONUS_MIN_CREDITS
  <2>1. BoughtIn(book, e.user, e.ref) \in SUBSET BoughtIn(after, e.user, e.ref)
    BY <1>1 DEF BoughtIn
  <2>2. Counted(BoughtIn(book, e.user, e.ref)) /\ Counted(BoughtIn(after, e.user, e.ref))
    BY FS_Subset DEF Counted, BoughtIn, Book, Line
  <2>3. SumOf(BoughtIn(book, e.user, e.ref)) <= SumOf(BoughtIn(after, e.user, e.ref))
    BY <2>1, <2>2, SumGrows
  <2>4. SumOf(BoughtIn(book, e.user, e.ref)) \in Nat /\ SumOf(BoughtIn(after, e.user, e.ref)) \in Nat
    BY <2>2, SumIsNat
  <2> QED BY <1>2, <2>3, <2>4 DEF Earned, VOLUME_BONUS_MIN_CREDITS
<1>3. e.reason = "purchase_bonus" => Bought(after, e.user, e.ref)
  BY <1>1 DEF Earned, Bought
<1> QED BY <1>2, <1>3 DEF Earned

\* What a grant books is earned: its account is there, and the request read the month's total,
\* or granted the purchase, right before.
LEMMA GrantEarns ==
  ASSUME BillingInv, BonusEarned, NEW r \in Requests, GrantPurchase(r) \/ GrantBasketBonus(r) \/ GrantVolumeBonus(r)
  PROVE  BonusEarned'
<1> DEFINE u == req[r].user
<1>1. RequestsFit(req, sub, gone, ledger) /\ \A e \in ledger : Earned(e, ledger)
  BY EarnedIs DEF BillingInv
<1>2. ASSUME NEW reason \in Reasons, NEW ref \in Sessions \cup Nat, NEW n \in Nat, u \in Users, Grant(r, reason, ref, n),
             u \notin gone /\ n > 0 => \A e : e.user = u /\ e.reason = reason /\ e.ref = ref => Earned(e, ledger)
      PROVE  BonusEarned'
  <2> DEFINE new == [user |-> u, reason |-> reason, ref |-> ref, n |-> n, month |-> now]
  <2>1. /\ Book(ledger) /\ Book(ledger') /\ ledger \subseteq ledger'
        /\ \A e \in ledger' : e \in ledger \/ (e = new /\ n > 0 /\ u \notin gone)
    BY <1>2, GrantBooks
  <2>2. new.user = u /\ new.reason = reason /\ new.ref = ref
    OBVIOUS
  <2> HIDE DEF new
  <2>3. \A e \in ledger' : Earned(e, ledger)
    BY <1>1, <1>2, <2>1, <2>2
  <2>4. Kept(ledger, ledger')
    BY <2>1 DEF Kept
  <2>5. \A e \in ledger' : Earned(e, ledger')
    BY <2>1, <2>3, <2>4, StaysEarned
  <2>6. BonusEarned' <=> \A e \in ledger' : Earned(e, ledger')
    <3>1. \A v, m : Purchased(v, m)' = SumOf(BoughtIn(ledger', v, m))
      BY DEF Purchased, BoughtIn
    <3> QED BY <3>1 DEF BonusEarned, Earned, Bought
  <2> QED BY <2>5, <2>6
<1>3. CASE GrantPurchase(r)
  <2> DEFINE k == Head(req[r].todo).id
  <2>1. At(r, "purchase") /\ Grant(r, "purchase", k, Credits[k])
    BY <1>3 DEF GrantPurchase
  <2>2. k \in Sessions /\ u \in Users
    BY <1>1, <2>1, AtHand DEF Stands
  <2>3. Credits[k] \in Nat
    BY <2>2, BillingAssumption
  <2>4. \A e : e.reason = "purchase" => Earned(e, ledger)
    BY DEF Earned
  <2> HIDE DEF k
  <2> QED BY <1>2, <2>1, <2>2, <2>3, <2>4 DEF Reasons
<1>4. CASE GrantBasketBonus(r)
  <2> DEFINE k == Head(req[r].todo).id
             n == bonusForPurchase(Credits[k])
  <2>1. At(r, "purchase_bonus") /\ Grant(r, "purchase_bonus", k, n)
    BY <1>4 DEF GrantBasketBonus
  <2>2. k \in Sessions /\ u \in Users /\ (u \in gone \/ Credits[k] = 0 \/ Bought(ledger, u, k))
    BY <1>1, <2>1, AtHand DEF Stands, Reads
  <2>3. n \in Nat /\ (Credits[k] = 0 => n = 0)
    <3>1. Credits[k] \in Int
      BY <2>2, BillingAssumption
    <3> QED BY <3>1, BonusTable
  <2>4. u \notin gone /\ n > 0 => Bought(ledger, u, k)
    BY <2>2, <2>3
  <2> HIDE DEF k, n
  <2>5. u \notin gone /\ n > 0 => \A e : e.user = u /\ e.reason = "purchase_bonus" /\ e.ref = k => Earned(e, ledger)
    BY <2>4 DEF Earned
  <2> QED BY <1>2, <2>1, <2>2, <2>3, <2>5 DEF Reasons
<1>5. CASE GrantVolumeBonus(r)
  <2> DEFINE m == req[r].read.month
             n == IF req[r].read.due THEN VOLUME_BONUS_CREDITS ELSE 0
  <2>1. At(r, "volume") /\ Grant(r, "volume_bonus", m, n)
    BY <1>5 DEF GrantVolumeBonus
  <2>2. /\ m \in Nat /\ u \in Users
        /\ req[r].read.due => u \in gone \/ SumOf(BoughtIn(ledger, u, m)) >= VOLUME_BONUS_MIN_CREDITS
    BY <1>1, <2>1, AtHand DEF Reads
  <2>3. n \in Nat /\ (n > 0 => req[r].read.due)
    BY DEF VOLUME_BONUS_CREDITS
  <2>4. u \notin gone /\ n > 0 => SumOf(BoughtIn(ledger, u, m)) >= VOLUME_BONUS_MIN_CREDITS
    BY <2>2, <2>3
  <2> HIDE DEF m, n
  <2>5. u \notin gone /\ n > 0 => \A e : e.user = u /\ e.reason = "volume_bonus" /\ e.ref = m => Earned(e, ledger)
    BY <2>4 DEF Earned
  <2> QED BY <1>2, <2>1, <2>2, <2>3, <2>5 DEF Reasons
<1> QED BY <1>3, <1>4, <1>5

LEMMA StepEarns == BillingInv /\ BonusEarned /\ [Next]_vars => BonusEarned'
<1> SUFFICES ASSUME BillingInv, BonusEarned, [Next]_vars PROVE BonusEarned'
  OBVIOUS
<1>1. ASSUME UNCHANGED ledger PROVE BonusEarned'
  <2>1. \A u, m : Purchased(u, m)' = Purchased(u, m)
    BY <1>1 DEF Purchased
  <2> QED BY <1>1, <2>1 DEF BonusEarned
<1>2. ASSUME NEW r \in Requests, RemoveAccount(r) PROVE BonusEarned'
  <2> DEFINE u == req[r].user
  <2>1. ledger' = { e \in ledger : e.user # u }
    BY <1>2 DEF RemoveAccount
  <2>2. Book(ledger)
    BY DEF BillingInv, OursFit
  <2>3. Book(ledger') /\ Kept(ledger, ledger') /\ ledger' \subseteq ledger
    BY <2>1, <2>2, FS_Subset DEF Book, Kept
  <2>4. \A e \in ledger' : Earned(e, ledger')
    BY <2>2, <2>3, EarnedIs, StaysEarned
  <2>5. \A v, m : Purchased(v, m)' = SumOf(BoughtIn(ledger', v, m))
    BY DEF Purchased, BoughtIn
  <2> QED BY <2>4, <2>5 DEF BonusEarned, Earned, Bought
<1>3. ASSUME NEW r \in Requests, Work(r) PROVE BonusEarned'
  <2>1. CASE GrantPurchase(r) \/ GrantBasketBonus(r) \/ GrantVolumeBonus(r)
    BY <2>1, GrantEarns
  <2>2. CASE RemoveAccount(r)
    BY <1>2, <2>2
  <2>3. CASE Retrieve(r) \/ ListSubscriptions(r) \/ ListSessions(r) \/ ReadSubscription(r) \/ WriteSubscription(r)
             \/ WriteSeats(r) \/ ReadMonth(r) \/ SetQuantity(r) \/ FindSubscription(r) \/ StopSubscription(r)
    BY <1>1, <2>3 DEF Retrieve, ListSubscriptions, ListSessions, ReadSubscription, WriteSubscription, WriteSeats,
                      ReadMonth, SetQuantity, FindSubscription, StopSubscription, ours
  <2> QED BY <1>3, <2>1, <2>2, <2>3 DEF Work
<1>4. ASSUME StripeStep PROVE UNCHANGED ledger
  BY <1>4 DEF StripeStep, OpenCheckout, Complete, PeriodEnds, CancelAtPeriodEnd, SubChanges, LoseEvent, Tick, ours
<1>5. ASSUME NEW r \in Requests, Throw(r) PROVE UNCHANGED ledger
  BY <1>5 DEF Throw, ours
<1>6. ASSUME NEW r \in Requests, NEW e \in Event, Webhook(r, e) PROVE UNCHANGED ledger
  BY <1>6 DEF Webhook, ours
<1>7. ASSUME NEW r \in Requests, NEW u \in Users, Reconcile(r, u) \/ ChangeSeats(r, u) \/ DeleteAccount(r, u)
      PROVE  UNCHANGED ledger
  BY <1>7 DEF Reconcile, ChangeSeats, DeleteAccount, ours
<1>8. CASE UNCHANGED vars
  BY <1>1, <1>8 DEF vars, ours
<1> QED BY <1>1, <1>3, <1>4, <1>5, <1>6, <1>7, <1>8 DEF Next

\* A month's bonus was earned: the purchases booked in that month come to the minimum at
\* every moment after it, whatever runs between the reading of the total and the grant, and
\* a basket's bonus has its purchase beside it (maybeGrantVolumeBonus, grant).
THEOREM BonusesAreEarned == Spec => []BonusEarned
<1>1. Init => BonusEarned
  BY DEF Init, BonusEarned
<1> QED BY <1>1, StepEarns, RequestsAreInOrder, PTL DEF Spec

\* A row written over keeps the later date, and a status that pays unless the charge failed.
LEMMA OverwritesLast ==
  ASSUME BillingInv, NEW r \in Requests, WriteSubscription(r), NEW u \in Users, CutShort(u)
  PROVE  row'[u].status = "past_due"
<1> DEFINE s == Head(req[r].todo).id
           read == req[r].read
           new == Upserted(u, s, read)
<1>1. RequestsFit(req, sub, gone, ledger) /\ OursFit /\ StripeFits /\ At(r, "upsert")
  BY DEF BillingInv, WriteSubscription
<1>2. read \in Subscription
  BY <1>1, AtHand DEF Reads
<1>3. row[u] # None /\ row[u] \in Row /\ row[u].period > now /\ now' = now
  BY <1>1 DEF OursFit, CutShort, Active, activeUntil
<1>4. ~(row'[u] # None /\ activeUntil(row'[u].status, row'[u].period, now))
  BY <1>3 DEF CutShort, Active
<1>5. row'[u] # row[u]
  BY <1>3, <1>4 DEF CutShort, Active
<1>6. req[r].user = u /\ row'[u] = new
  BY <1>1, <1>5 DEF WriteSubscription, OursFit
<1>7. s \in Subs
  BY <1>1, AtHand DEF Stands, Known
<1>8. now \in Int /\ read.period \in Int /\ row[u].period \in Int /\ MaxNow \in Nat /\ Year \in Nat
  BY <1>1, <1>2, <1>3, BillingAssumption DEF StripeFits, Subscription, Row
<1>9. /\ new.status = read.status
      /\ new.period = IF row[u].period > read.period THEN row[u].period ELSE read.period
  BY <1>3 DEF Upserted
<1>10. new.period > now
  BY <1>3, <1>8, <1>9
<1>11. new # None
  <2>1. new \in Row
    BY <1>2, <1>3, <1>7, BillingAssumption DEF Upserted, Row, Subscription
  <2> QED BY <2>1, BillingAssumption
<1>12. new.status \in {"active", "past_due", "canceled"}
  BY <1>2, <1>9 DEF Subscription
<1> HIDE DEF new
<1> QED BY <1>4, <1>6, <1>10, <1>11, <1>12 DEF activeUntil, PayingStatus

\* Nobody's paid access is cut short by an answer of Stripe that is written late, is about
\* another subscription or finds half of its write failed: whatever is in flight, a row only
\* gains time, and only a charge that failed shuts an account before its date (upsert_subscription).
THEOREM AccessLastsItsTerm == Spec => NeverCutShort
<1> DEFINE Lasts == \A u \in Users : CutShort(u) => row'[u].status = "past_due"
<1>1. BillingInv /\ [Next]_vars => [Lasts]_vars
  <2> SUFFICES ASSUME BillingInv, Next, NEW u \in Users, CutShort(u) PROVE row'[u].status = "past_due"
    BY DEF vars
  <2>1. OursFit
    BY DEF BillingInv
  <2>2. row[u] # None /\ row[u] \in Row /\ now' = now /\ u \notin gone'
    BY <2>1 DEF OursFit, CutShort, Active
  <2>3. ASSUME row'[u] = row[u] PROVE FALSE
    BY <2>2, <2>3 DEF CutShort, Active
  <2>4. ASSUME NEW r \in Requests, WriteSeats(r) PROVE FALSE
    <3>1. /\ row'[u] # None
          /\ row'[u].status = row[u].status /\ row'[u].period = row[u].period
      <4>1. row' = row \/ row' = [row EXCEPT ![req[r].user].seats = req[r].read.seats]
        BY <2>4 DEF WriteSeats
      <4>2. CASE row' = row
        BY <2>2, <4>2
      <4>3. CASE row' = [row EXCEPT ![req[r].user].seats = req[r].read.seats] /\ req[r].user # u
        BY <2>1, <2>2, <4>3 DEF OursFit
      <4>4. CASE row' = [row EXCEPT ![req[r].user].seats = req[r].read.seats] /\ req[r].user = u
        <5>1. row'[u] = [row[u] EXCEPT !.seats = req[r].read.seats]
          BY <2>1, <4>4 DEF OursFit
        <5>2. row'[u].id = row[u].id /\ row'[u].status = row[u].status /\ row'[u].period = row[u].period
          BY <2>2, <5>1 DEF Row
        <5>3. RequestsFit(req, sub, gone, ledger) /\ At(r, "seats")
          BY <2>4 DEF BillingInv, WriteSeats
        <5>4. req[r].read \in Subscription
          BY <5>3, AtHand DEF Reads
        <5>5. row'[u] \in Row
          BY <2>2, <5>1, <5>4 DEF Row, Subscription
        <5> QED BY <5>2, <5>5, BillingAssumption
      <4> QED BY <4>1, <4>2, <4>3, <4>4
    <3> QED BY <2>2, <3>1 DEF CutShort, Active
  <2>5. ASSUME NEW r \in Requests, RemoveAccount(r) PROVE FALSE
    <3>1. req[r].user # u
      BY <2>2, <2>5 DEF RemoveAccount
    <3> QED BY <2>1, <2>3, <2>5, <3>1 DEF RemoveAccount, OursFit
  <2>6. ASSUME NEW r \in Requests, Work(r) PROVE row'[u].status = "past_due"
    <3>1. CASE WriteSubscription(r)
      BY <3>1, OverwritesLast
    <3>2. CASE Retrieve(r) \/ ListSubscriptions(r) \/ ListSessions(r) \/ ReadSubscription(r)
               \/ GrantPurchase(r) \/ GrantBasketBonus(r) \/ GrantVolumeBonus(r)
               \/ ReadMonth(r) \/ SetQuantity(r) \/ FindSubscription(r) \/ StopSubscription(r)
      BY <2>3, <3>2 DEF Retrieve, ListSubscriptions, ListSessions, ReadSubscription, GrantPurchase, GrantBasketBonus,
                        GrantVolumeBonus, ReadMonth, SetQuantity, FindSubscription, StopSubscription, ours
    <3> QED BY <2>4, <2>5, <2>6, <3>1, <3>2 DEF Work
  <2>7. ASSUME StripeStep PROVE FALSE
    <3>1. UNCHANGED row
      BY <2>7 DEF StripeStep, OpenCheckout, Complete, PeriodEnds, CancelAtPeriodEnd, SubChanges, LoseEvent, Tick, ours
    <3> QED BY <2>3, <3>1
  <2>8. ASSUME NEW r \in Requests, Throw(r) PROVE FALSE
    BY <2>3, <2>8 DEF Throw, ours
  <2>9. ASSUME NEW r \in Requests, NEW e \in Event, Webhook(r, e) PROVE FALSE
    BY <2>3, <2>9 DEF Webhook, ours
  <2>10. ASSUME NEW r \in Requests, NEW v \in Users, Reconcile(r, v) \/ ChangeSeats(r, v) \/ DeleteAccount(r, v)
         PROVE  FALSE
    BY <2>3, <2>10 DEF Reconcile, ChangeSeats, DeleteAccount, ours
  <2> QED BY <2>6, <2>7, <2>8, <2>9, <2>10 DEF Next
<1> QED BY <1>1, RequestsAreInOrder, PTL DEF Spec, NeverCutShort
=============================================================================
