------------------------------- MODULE Grades -------------------------------
(***************************************************************************)
(* How a lead is graded for what the buyer sells: the factors that fire,   *)
(* the most this lead could have scored given what could be checked, and   *)
(* the tier. A lead starts as a listing and is learnt about one check at a *)
(* time, in any order, as sources, crawls and searches bring them in.      *)
(***************************************************************************)
EXTENDS Integers, FiniteSets, FiniteSetsExt

CONSTANT MaxLearnt   \* bound on the checks that come back for one lead

VARIABLES lead, playbook, learnt
vars == <<lead, playbook, learnt>>

\* FACTOR_CATALOG: the points of a factor, and the factors that share a slot.
Points(key) ==
  [no_website |-> 55, site_down |-> 50, social_only |-> 45, no_ssl |-> 8, not_mobile |-> 10, outdated |-> 10,
   hiring |-> 24, just_broke |-> 30, recently_changed |-> 16, slow_site |-> 18, thin_content |-> 12,
   no_schema |-> 8, no_analytics |-> 8, no_reviews |-> 16, low_rating |-> 14, few_reviews |-> 9,
   uses_switchable_vendor |-> 40, high_volume |-> 22, no_online_ordering |-> 18, no_booking |-> 10,
   no_hours |-> 6, phone |-> 18, email |-> 12][key]
Presence == {"no_website", "site_down", "social_only"}
Reputation == {"no_reviews", "low_rating", "few_reviews"}
Reach == {"phone", "email"}
Website == Presence \cup {"no_ssl", "not_mobile", "outdated"}

Changing == {"just_broke", "recently_changed", "hiring"} \cup Reach
PLAYBOOKS == [
  web_design |-> Website \cup {"slow_site", "thin_content"} \cup Changing,
  payments_pos |-> {"uses_switchable_vendor", "high_volume", "no_online_ordering"} \cup Changing,
  marketing_seo |-> {"no_schema", "no_analytics", "thin_content", "slow_site", "no_hours"} \cup Reputation \cup Changing,
  booking_software |-> {"no_online_ordering", "no_booking", "uses_switchable_vendor", "high_volume"} \cup Changing,
  general_smb |-> ({"high_volume", "no_hours"} \cup Reputation \cup Changing) \ {"just_broke"}]
allowed == PLAYBOOKS[playbook]

\* What is known of a lead. A check that never ran is "unknown", never "fine". `reviews` stands for the
\* count and rating together, in the classes the factors tell apart.
Checks == {"ssl", "mobile", "outdated", "speed", "content", "schema", "analytics", "booking", "hours", "hiring"}
Verdicts == {"unknown", "fine", "fault"}
Reviews == {"unknown", "none", "few", "fewLow", "some", "someLow", "busy", "busyLow"}
Vendors == {"unknown", "none", "ordering", "switchable"}
Listing == [c \in Checks \cup {"presence", "reviews", "vendors", "changes", "phone", "email"} |->
              IF c = "changes" THEN "none" ELSE IF c \in Reach THEN "missing" ELSE "unknown"]
SiteChecks == {"ssl", "mobile", "outdated", "speed", "content", "schema", "analytics", "booking", "vendors"}

Init == lead = Listing /\ playbook \in DOMAIN PLAYBOOKS /\ learnt = 0

\* applyAudit and the sources: one more thing is known. What only a page can tell is known of a page.
Learn(field, value) ==
  /\ learnt < MaxLearnt /\ learnt' = learnt + 1
  /\ lead[field] \in {"unknown", "missing", "none", "unaudited"} /\ lead[field] # value
  /\ field \in SiteChecks => lead["presence"] = "live"
  /\ lead' = [lead EXCEPT ![field] = value]
  /\ UNCHANGED playbook

Next ==
  \/ \E c \in Checks, v \in {"fine", "fault"} : Learn(c, v)
  \/ \E v \in {"none", "social", "unaudited", "down", "live"} : lead["presence"] \in {"unknown", "unaudited"} /\ Learn("presence", v)
  \/ \E v \in Reviews \ {"unknown"} : lead["reviews"] = "unknown" /\ Learn("reviews", v)
  \/ \E v \in Vendors \ {"unknown"} : lead["vendors"] = "unknown" /\ Learn("vendors", v)
  \/ \E v \in {"some", "broke"} : Learn("changes", v)
  \/ \E c \in Reach : Learn(c, "held")
Spec == Init /\ [][Next]_vars

----------------------------------------------------------------------------

\* The change factor a lead's history earns: one rule for the score and for the ceiling.
changeFactorKey(l) ==
  IF l["changes"] = "none" THEN {}
  ELSE IF l["changes"] = "broke" /\ "just_broke" \in allowed THEN {"just_broke"} ELSE {"recently_changed"} \cap allowed

When(condition, key) == IF condition THEN {key} ELSE {}
Fault(l, c) == l[c] = "fault"
Audited(l) == l["presence"] \in {"down", "live"}

\* The website branches are exclusive; every other factor stands by itself.
PresenceFactors(l) ==
  When(l["presence"] = "social", "social_only") \cup When(l["presence"] = "none", "no_website")
  \cup When(l["presence"] = "down", "site_down")
  \cup (IF l["presence"] # "live" THEN {}
        ELSE When(Fault(l, "ssl"), "no_ssl") \cup When(Fault(l, "mobile"), "not_mobile") \cup When(Fault(l, "outdated"), "outdated"))

ReputationFactors(l) ==
  When(l["reviews"] = "none", "no_reviews") \cup When(l["reviews"] \in {"fewLow", "someLow", "busyLow"}, "low_rating")
  \cup When(l["reviews"] = "few", "few_reviews") \cup When(l["reviews"] \in {"busy", "busyLow"}, "high_volume")

scoreFactors(l) ==
  allowed \cap
    (PresenceFactors(l) \cup ReputationFactors(l) \cup changeFactorKey(l)
     \cup When(Fault(l, "hiring"), "hiring") \cup When(Fault(l, "booking"), "no_booking")
     \cup When(Fault(l, "speed"), "slow_site") \cup When(Fault(l, "content"), "thin_content")
     \cup When(Fault(l, "schema"), "no_schema") \cup When(Fault(l, "analytics"), "no_analytics")
     \cup When(l["vendors"] = "switchable", "uses_switchable_vendor")
     \cup When(Audited(l) /\ l["vendors"] # "ordering" /\ Fault(l, "booking"), "no_online_ordering")
     \cup When(Fault(l, "hours"), "no_hours")
     \cup When(l["phone"] = "held", "phone") \cup When(l["email"] = "held", "email"))

\* The points of some factors together, a term for each factor of the catalog.
Total(keys) ==
  LET P(key) == IF key \in keys THEN Points(key) ELSE 0 IN
    P("no_website") + P("site_down") + P("social_only") + P("no_ssl") + P("not_mobile") + P("outdated")
    + P("hiring") + P("just_broke") + P("recently_changed") + P("slow_site") + P("thin_content")
    + P("no_schema") + P("no_analytics") + P("no_reviews") + P("low_rating") + P("few_reviews")
    + P("uses_switchable_vendor") + P("high_volume") + P("no_online_ordering") + P("no_booking")
    + P("no_hours") + P("phone") + P("email")
score(l) == Total(scoreFactors(l))
needPoints(l) == Total(scoreFactors(l) \ Reach)

\* attainableParts: only what could be checked counts, by the best factor of its slot for this buyer.
slotMax(keys) == Max({0} \cup { Points(k) : k \in keys \cap allowed })
Known(l, c) == l[c] # "unknown"
If(condition, n) == IF condition THEN n ELSE 0

\* Mutant: the ceiling takes the change slot's maximum.
SlotCeiling(l) == If(l["changes"] # "none", slotMax({"just_broke", "recently_changed"}))
ChangeCeiling(l) == Total(changeFactorKey(l))
OrderingKnown(l) == Known(l, "vendors") \/ Known(l, "booking")

attainableNeed(l) ==
  (CASE l["presence"] = "social" -> slotMax({"social_only"})
     [] l["presence"] = "none"   -> slotMax({"no_website"})
     [] l["presence"] = "down"   -> slotMax({"site_down"})
     [] l["presence"] = "live"   -> If(Known(l, "ssl"), slotMax({"no_ssl"})) + If(Known(l, "mobile"), slotMax({"not_mobile"}))
                                    + If(Known(l, "outdated"), slotMax({"outdated"}))
     [] OTHER -> 0)
  + ChangeCeiling(l) + If(Known(l, "hiring"), slotMax({"hiring"}))
  + If(Known(l, "reviews"), slotMax(Reputation) + slotMax({"high_volume"}))
  + If(Known(l, "booking"), slotMax({"no_booking"})) + If(Known(l, "hours"), slotMax({"no_hours"}))
  + If(Known(l, "speed"), slotMax({"slow_site"})) + If(Known(l, "content"), slotMax({"thin_content"}))
  + If(Known(l, "schema"), slotMax({"no_schema"})) + If(Known(l, "analytics"), slotMax({"no_analytics"}))
  + If(Known(l, "vendors"), slotMax({"uses_switchable_vendor"})) + If(OrderingKnown(l), slotMax({"no_online_ordering"}))
scoreMax(l) == attainableNeed(l) + Total(Reach \cap allowed)

\* Math.round of the share, by halves upwards.
gradePct(l) == (200 * score(l) + scoreMax(l)) \div (2 * scoreMax(l))
tierFor(l) == IF gradePct(l) >= 70 THEN "HOT" ELSE IF gradePct(l) >= 40 THEN "WARM" ELSE "COOL"

HOT_MIN_NEED_POINTS == 25
hotNeedFloor(need) == Min({HOT_MIN_NEED_POINTS, need})

\* Hot has to be earned by evidence of a need, not by a phone number.
Unproven(l) == needPoints(l) <= 0 \/ needPoints(l) < hotNeedFloor(attainableNeed(l))
tier(l) ==
  IF tierFor(l) = "HOT" /\ Unproven(l)
  THEN IF needPoints(l) > 0 \/ attainableNeed(l) = 0 THEN "WARM" ELSE "COOL"
  ELSE tierFor(l)
TIER_RANK(t) == [HOT |-> 3, WARM |-> 2, COOL |-> 1][t]

----------------------------------------------------------------------------

\* A ceiling computed from a different rule than the score is not a ceiling: no lead scores more
\* than could be attained for it, on any playbook and whatever could be checked.
CeilingHolds == score(lead) <= scoreMax(lead)

\* Having been seen before never costs a lead anything: the change slot only ever raises a grade.
ChangeRaises ==
  LET before == [lead EXCEPT !["changes"] = "none"] IN
    gradePct(lead) >= gradePct(before) /\ TIER_RANK(tier(lead)) >= TIER_RANK(tier(before))

\* The top of the scale can be reached: whatever little could be checked, when all of it speaks
\* for the sale and both ways to reach them are known, the lead is Hot, for every buyer.
TopIsReachable ==
  (score(lead) = scoreMax(lead) /\ attainableNeed(lead) > 0) => tier(lead) = "HOT"

\* The words above the demotion: nothing found at all, or nothing checkable, is Warm too, because
\* "reachable but unqualified" is what Warm means.
UnqualifiedIsWarm == tierFor(lead) = "HOT" /\ Unproven(lead) => tier(lead) = "WARM"
=============================================================================
