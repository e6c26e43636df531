-------------------------------- MODULE Contact --------------------------------
(***************************************************************************)
(* Whether a business can be reached, and what the customer is told of how *)
(* we know. Calls to verifyContact run side by side in one instance and    *)
(* share its caches; a search makes them for free, an opened or exported   *)
(* lead is verified once by the vendors, in batches.                       *)
(***************************************************************************)
EXTENDS Integers, FiniteSets

CONSTANTS
  Shops,      \* leads of one trading name: they print one number and one address
  Calls,      \* verifications that may run at once
  MaxBad,     \* bound on lookups that fail and instances that are replaced
  MaxCalls    \* bound on verifications

VARIABLES truth, lead, call, phoneCache, mailCache, mxCache, dialled, bad, made
vars == <<truth, lead, call, phoneCache, mailCache, mxCache, dialled, bad, made>>

\* What is so of the line and of the mailbox.
Truths == [line : {"live", "dead"}, box : {"valid", "invalid", "catchall"}]

\* A lead before a search has verified it. `heard` remembers what the vendors said.
NotYet == [found |-> FALSE, heard |-> "nothing", emailStatus |-> "unknown", deliverable |-> FALSE,
           verifiedAt |-> FALSE]
Idle == [pc |-> "idle", shop |-> "none", paid |-> FALSE, reachable |-> "nothing", status |-> "unknown"]

Init ==
  /\ truth \in Truths /\ lead = [s \in Shops |-> NotYet] /\ call = [c \in Calls |-> Idle]
  /\ phoneCache = {} /\ mailCache = {} /\ mxCache = {}
  /\ dialled = 0 /\ bad = 0 /\ made = 0

Goes(c, pc) == call' = [call EXCEPT ![c].pc = pc]
CallOnly == UNCHANGED <<truth, lead, phoneCache, mailCache, mxCache, dialled, bad, made>>
Misbehave == bad < MaxBad /\ bad' = bad + 1

\* A search verifies for free what it found, before it is a row; a paid call is of a row that never had one.
verifyContact(c, s, paid) ==
  /\ call[c].pc = "idle" /\ made < MaxCalls /\ made' = made + 1
  /\ IF paid THEN lead[s].found /\ ~lead[s].verifiedAt ELSE ~lead[s].found /\ \A d \in Calls : call[d].shop # s
  /\ call' = [call EXCEPT ![c] = [Idle EXCEPT !.pc = "phone", !.shop = s, !.paid = paid]]
  /\ UNCHANGED <<truth, lead, phoneCache, mailCache, mxCache, dialled, bad>>

\* Mutant: a verdict that is held is the verdict.
PhoneFinal(paid, hit) == TRUE
phoneHit(paid, hit) == ~(paid /\ hit = "heuristic")
mailHit(paid, hit) == ~(paid /\ hit = "risky_free")

\* verifyPhone: what the caches hold, the offline parse, or the carrier.
verifyPhone(c) ==
  /\ call[c].pc = "phone"
  /\ \/ \E hit \in phoneCache :
          /\ phoneHit(call[c].paid, hit)
          /\ call' = [call EXCEPT ![c].pc = "mail", ![c].reachable = hit]
          /\ UNCHANGED <<phoneCache, dialled>>
     \/ /\ { hit \in phoneCache : phoneHit(call[c].paid, hit) } = {}
        /\ IF call[c].paid
           THEN /\ dialled' = dialled + 1 /\ Goes(c, "dialling") /\ UNCHANGED phoneCache
           ELSE /\ phoneCache' = {"heuristic"} /\ UNCHANGED dialled
                /\ call' = [call EXCEPT ![c].pc = "mail", ![c].reachable = "heuristic"]
  /\ UNCHANGED <<truth, lead, mailCache, mxCache, bad, made>>

twilioLookup(c) ==
  /\ call[c].pc = "dialling"
  /\ \E said \in {truth.line, "heuristic"} :
       /\ IF said = "heuristic" THEN Misbehave ELSE UNCHANGED bad
       /\ phoneCache' = {said}
       /\ call' = [call EXCEPT ![c].pc = "mail", ![c].reachable = said]
  /\ UNCHANGED <<truth, lead, mailCache, mxCache, dialled, made>>

Finish(c, status) ==
  /\ mailCache' = {status}
  /\ call' = [call EXCEPT ![c].pc = "assess", ![c].status = status]

\* verifyEmail: the caches, the mail server of the domain, and then the vendor.
verifyEmail(c) ==
  /\ call[c].pc = "mail"
  /\ IF \E hit \in mailCache : mailHit(call[c].paid, hit)
     THEN call' = [call EXCEPT ![c].pc = "assess", ![c].status = CHOOSE hit \in mailCache : TRUE]
     ELSE Goes(c, "mx")
  /\ CallOnly

hasMx(c) ==
  /\ call[c].pc = "mx"
  /\ \E ok \in (IF mxCache = {} THEN BOOLEAN ELSE mxCache) :
       /\ IF mxCache = {} /\ ~ok THEN Misbehave ELSE UNCHANGED bad
       /\ mxCache' = {ok}
       /\ IF ~ok THEN Finish(c, "undeliverable")
          ELSE IF ~call[c].paid THEN Finish(c, "risky_free")
          ELSE Goes(c, "asking") /\ UNCHANGED mailCache
  /\ UNCHANGED <<truth, lead, phoneCache, dialled, made>>

BoxSays == [valid |-> "deliverable", invalid |-> "undeliverable", catchall |-> "risky"][truth.box]
zeroBounce(c) ==
  /\ call[c].pc = "asking"
  /\ \/ Finish(c, BoxSays) /\ UNCHANGED bad
     \/ Misbehave /\ Finish(c, "risky_free")
  /\ UNCHANGED <<truth, lead, phoneCache, mxCache, dialled, made>>

phoneUsable(reachable) == reachable # "dead"

\* The end of verifyContact: the verdicts are filled in, and the lead can be reached or not.
Assess(c) ==
  /\ call[c].pc = "assess"
  /\ LET k == call[c] IN
       /\ lead' = [lead EXCEPT ![k.shop] =
            [lead[k.shop] EXCEPT !.found = TRUE, !.heard = k.reachable, !.emailStatus = k.status,
                      !.deliverable = phoneUsable(k.reachable) \/ k.status \in {"deliverable", "risky", "risky_free"},
                      !.verifiedAt = (lead[k.shop].verifiedAt \/ k.paid)]]
       /\ call' = [call EXCEPT ![c] = Idle]
  /\ UNCHANGED <<truth, phoneCache, mailCache, mxCache, dialled, bad, made>>

\* The instance is replaced: its caches and the calls it was making are gone.
Restart ==
  /\ Misbehave /\ phoneCache' = {} /\ mailCache' = {} /\ mxCache' = {}
  /\ call' = [c \in Calls |-> Idle]
  /\ UNCHANGED <<truth, lead, dialled, made>>

Next ==
  \/ \E c \in Calls, s \in Shops, paid \in BOOLEAN : verifyContact(c, s, paid)
  \/ \E c \in Calls : verifyPhone(c) \/ twilioLookup(c) \/ verifyEmail(c) \/ hasMx(c) \/ zeroBounce(c) \/ Assess(c)
  \/ Restart
Spec == Init /\ [][Next]_vars

----------------------------------------------------------------------------
\* evidenceFor: how the customer is told we know.
phoneRow(l) == IF l.verifiedAt THEN "confirmed live with the carrier" ELSE "checked for a valid format only"
mailRow(l) ==
  IF ~l.verifiedAt \/ l.emailStatus = "unknown" THEN "checked for syntax and a mail server only"
  ELSE CASE l.emailStatus = "deliverable"   -> "the mailbox was confirmed to exist"
         [] l.emailStatus = "undeliverable" -> "the mailbox was rejected"
         [] OTHER                           -> "the mailbox could not be confirmed"

\* The cache must not silently defeat the check a customer pays for: a number and an address that a
\* search verified for free are still put to the carrier and the mailbox vendor when a lead is
\* opened, so that with every vendor answering no lead is sold that nobody can be reached at.
SoldMeansReachable ==
  bad = 0 => \A s \in Shops :
    lead[s].verifiedAt /\ lead[s].deliverable => truth.line = "live" \/ truth.box # "invalid"

\* What the customer reads of the mailbox is never better than what the vendor said of it, whatever
\* calls shared the caches and whichever lookups failed.
MailboxToldTruly ==
  \A s \in Shops :
    /\ mailRow(lead[s]) = "the mailbox was confirmed to exist" => truth.box = "valid"
    /\ mailRow(lead[s]) = "the mailbox was rejected" /\ bad = 0 => truth.box = "invalid"

\* The words over the phone's row: a free check only proves a number is well formed, and presenting
\* that as a line that exists is the overclaim the receipt is there to prevent.
CarrierSaidSo == \A s \in Shops : phoneRow(lead[s]) = "confirmed live with the carrier" => lead[s].heard = "live"

\* The words over the cache: repeated numbers in a batch should not each cost a lookup.
OneLookupPerNumber == bad = 0 => dialled <= 1
=============================================================================
