------------------------------ MODULE MCRules ------------------------------
(* What the parts a lead passes through are checked on (rules.cfg).        *)
EXTENDS Rules

Unread == [siteAudited |-> FALSE, siteReachable |-> FALSE, site |-> {}, websiteKnown |-> FALSE, web |-> "nowhere",
           reviews |-> {}, words |-> {"Italian"}, phone |-> TRUE, email |-> FALSE, factors |-> {"phone"},
           deliverable |-> TRUE, tier |-> 2, pct |-> 60]
Read == [Unread EXCEPT !.siteAudited = TRUE, !.siteReachable = TRUE, !.websiteKnown = TRUE, !.web = "site"]
\* A listing nobody could check; a slow site on Toast; a busy place with a social page; a page that is
\* down; and a listing that cannot be reached at all.
SomeProfiles == {
  Unread,
  [Read EXCEPT !.site = {"slow", "Toast", "ordering"}, !.reviews = {60}, !.factors = {"phone", "slow_site"}],
  [Unread EXCEPT !.websiteKnown = TRUE, !.web = "social", !.reviews = {80}, !.words = {"chain"}, !.tier = 3, !.pct = 75],
  [Read EXCEPT !.siteReachable = FALSE, !.deliverable = FALSE, !.tier = 3, !.pct = 90],
  [Unread EXCEPT !.phone = FALSE] }

Rule(says, negated) == [kind |-> "rule", says |-> says, negated |-> negated]
Word(says, negated) == [kind |-> "word", says |-> says, negated |-> negated]
ReviewBar(n) == [kind |-> "reviews", bar |-> n]
Nothing == [criteria |-> {}, excludes |-> {}, factors |-> {}, minReviews |-> 0, web |-> "any"]
\* A search of one word; one described in detail; one that rules out; and the filters beside the form.
SomeAsks == {
  Nothing,
  [Nothing EXCEPT !.criteria = {Rule("slow", FALSE), Word("Toast", FALSE), Word("Italian", FALSE), Rule("website", TRUE)}],
  [Nothing EXCEPT !.criteria = {Rule("busy", FALSE), ReviewBar(70)}, !.excludes = {Word("chain", FALSE)}],
  [Nothing EXCEPT !.excludes = {Rule("ordering", FALSE)}],
  [Nothing EXCEPT !.factors = {"slow_site"}], [Nothing EXCEPT !.minReviews = 70],
  [Nothing EXCEPT !.web = "none"], [Nothing EXCEPT !.web = "social_only"], [Nothing EXCEPT !.web = "has_site"] }
Blank == [owner |-> {}, doctor |-> {}, footer |-> {}, mail |-> FALSE, hiring |-> FALSE]
SomeContents == { Blank, [Blank EXCEPT !.owner = {"Ann"}, !.hiring = TRUE], [Blank EXCEPT !.doctor = {"Dee"}],
                  [Blank EXCEPT !.footer = {"Fay"}], [Blank EXCEPT !.mail = TRUE] }
RankOf == [about |-> 1, team |-> 2, contact |-> 3, menu |-> 0]
TheOwner == [person |-> TRUE, title |-> "owner", confidence |-> 90, runsIt |-> TRUE]
SomeContacts == { TheOwner, [TheOwner EXCEPT !.title = "president", !.confidence = 80],
  [TheOwner EXCEPT !.confidence = 40, !.runsIt = FALSE],
  [TheOwner EXCEPT !.title = "marketing director", !.runsIt = FALSE],
  [TheOwner EXCEPT !.person = FALSE, !.runsIt = FALSE] }
Filing == [extraWords |-> 0, city |-> "Salem", agent |-> "person"]
SomeFilings == { Filing, [Filing EXCEPT !.extraWords = 1, !.city = ""], [Filing EXCEPT !.extraWords = 3],
  [Filing EXCEPT !.city = "Bend"], [Filing EXCEPT !.agent = "service"] }
Shop == [website |-> TRUE, phone |-> TRUE, reviewCount |-> 1, up |-> TRUE, named |-> TRUE, sound |-> TRUE, tier |-> 1]
SomeKinds == { Shop, [Shop EXCEPT !.website = FALSE, !.reviewCount = 2], [Shop EXCEPT !.up = FALSE, !.reviewCount = 2],
  [Shop EXCEPT !.sound = FALSE, !.tier = 2], [Shop EXCEPT !.named = FALSE], [Shop EXCEPT !.website = FALSE, !.phone = FALSE] }
=============================================================================
