-------------------------------- MODULE Mfa --------------------------------
(***************************************************************************)
(* The second step of signing in: factors, the codes that are sent, the    *)
(* recovery codes, the pass a browser keeps, and "sign out everywhere".    *)
(* A browser may be signed in as a customer and as the operator at once.   *)
(* Its page has one request in flight at a time (its buttons are off), and *)
(* a request is a list of steps, between which other browsers act.         *)
(***************************************************************************)
EXTENDS Integers, Sequences, FiniteSets

CONSTANTS
  Browsers,
  Ids,           \* a subset of {"user", "admin"}
  Factors, Kind, Owner,   \* what may be enrolled, of which kind, by whom
  Challenges,    \* rows of mfa_challenges (spent ones are used again)
  Sets,          \* sets of recovery codes, of which one code is ever typed
  Patient,       \* the browsers whose person keeps trying
  Settings,      \* the factors a deployment offers, the browsers in use, the factors
                 \* confirmed before, and a bound on what goes wrong: mails lost,
                 \* codes expired or mistyped, calls that fail
  MAX_ATTEMPTS,
  MaxEpoch,      \* bound: times everybody is signed out
  None

VARIABLES
  session,       \* per browser and identity: the epoch it signed in under
  pass,          \* per browser and identity: the second factor cookie
  epoch,         \* per identity: the number "sign out everywhere" moves
  factor,        \* mfa_factors: "none", "pending" or "confirmed"
  chal,          \* mfa_challenges
  codes,         \* mfa_recovery_codes: the sets stored, and those used
  shown,         \* per identity: the set last shown
  held,          \* per browser: the factor and challenge its page is about
  req,           \* per browser: the request in flight
  granted,       \* challenges and codes that have earned a pass
  setting, faults

cookies == <<session, pass>>
rows == <<epoch, factor, chal, codes>>
moving == <<cookies, rows, shown, held, req, granted, faults>>
vars == <<moving, setting>>
Offered == setting[1]

Idle == [todo |-> <<>>]
InFlight(b) == req[b].todo # <<>>
Row == [who : Ids, f : Factors \cup {None}, tries : 0..MAX_ATTEMPTS, consumed : BOOLEAN, fresh : BOOLEAN]
Pass == [epoch : Nat, trusted : BOOLEAN, ended : BOOLEAN]

\* None stands for nothing, and the codes somebody starts with are among the sets.
ASSUME MfaAssumption ==
  /\ Ids \subseteq {"user", "admin"} /\ MAX_ATTEMPTS \in Nat /\ MaxEpoch \in Nat
  /\ None \notin Ids \cup Factors \cup Challenges \cup Sets \cup Row
  /\ Challenges \cap Sets = {} /\ \A i \in Ids : <<i, 1>> \in Sets

Init ==
  /\ session = [b \in Browsers |-> [i \in Ids |-> None]]
  /\ pass = [b \in Browsers |-> [i \in Ids |-> None]]
  /\ epoch = [i \in Ids |-> 0]
  /\ setting \in Settings
  /\ factor = [f \in Factors |-> IF f \in setting[3] THEN "confirmed" ELSE "none"]
  /\ chal = [c \in Challenges |-> None]
  /\ shown = [i \in Ids |-> IF \E f \in setting[3] : Owner[f] = i THEN <<i, 1>> ELSE None]
  /\ codes = [stored |-> { shown[i] : i \in Ids } \ {None}, used |-> {}]
  /\ held = [b \in Browsers |-> None]
  /\ req = [b \in Browsers |-> Idle]
  /\ granted = {}
  /\ faults = 0

Confirmed(i) == { f \in Factors : Owner[f] = i /\ factor[f] = "confirmed" }

\* getAdminSession checks the epoch of its cookie, a customer's session has none.
SignedIn(b, i) == session[b][i] # None /\ (i = "admin" => session[b][i] = epoch[i])

\* currentIdentity, as the two factor route calls it: the customer first.
currentIdentity(b) ==
  IF "user" \in Ids /\ SignedIn(b, "user") THEN "user"
  ELSE IF "admin" \in Ids /\ SignedIn(b, "admin") THEN "admin" ELSE None

\* The middleware: a customer's pass must be of the current epoch, the operator's
\* is checked with the default.
AcceptsDefault(p, i) == p # None /\ p.epoch = 0
Accepts(p, i) == p # None /\ p.epoch = (IF i = "admin" THEN 0 ELSE epoch[i])
LetIn(b, i) == SignedIn(b, i) /\ Accepts(pass[b][i], i)

\* The pages that enrol and remove: before there is a factor, and once inside.
MayManage(b, i) == SignedIn(b, i) /\ (Confirmed(i) = {} \/ LetIn(b, i))

\* A challenge row no other page or request can name any more.
Free(b, c) ==
  /\ \A a \in Browsers \ {b} : (held[a] # None => held[a].c # c) /\ (InFlight(a) => req[a].c # c)
\* A set of codes nobody can type any more.
FreeSet(s) ==
  /\ s \notin codes.stored
  /\ \A i \in Ids : shown[i] # s
  /\ \A b \in Browsers : InFlight(b) => req[b].c # s

Fault == faults < setting[4] /\ faults' = faults + 1

-----------------------------------------------------------------------------
(* Sessions *)
SignIn(b, i) ==
  /\ ~SignedIn(b, i) /\ ~InFlight(b) /\ b \in setting[2]
  /\ session' = [session EXCEPT ![b][i] = IF i = "admin" THEN epoch[i] ELSE 0]
  /\ held' = [held EXCEPT ![b] = None]
  /\ UNCHANGED <<pass, rows, shown, req, granted, faults>>

\* Signing out leaves a trusted pass in the browser.
SignOut(b, i) ==
  /\ session[b][i] # None /\ ~InFlight(b)
  /\ session' = [session EXCEPT ![b][i] = None]
  /\ pass' = [pass EXCEPT ![b][i] = IF @ # None /\ @.trusted THEN @ ELSE None]
  /\ held' = [held EXCEPT ![b] = None]
  /\ UNCHANGED <<rows, shown, req, granted, faults>>

PassExpires(b, i) ==
  /\ pass[b][i] # None
  /\ pass' = [pass EXCEPT ![b][i] = None]
  /\ UNCHANGED <<session, rows, shown, held, req, granted, faults>>

CodeExpires(c) ==
  /\ chal[c] # None /\ chal[c].fresh /\ ~chal[c].consumed
  /\ chal' = [chal EXCEPT ![c].fresh = FALSE]
  /\ Fault
  /\ UNCHANGED <<cookies, epoch, factor, codes, shown, held, req, granted>>

-----------------------------------------------------------------------------
(* What a page asks for *)
NewRow(i, f) == [who |-> i, f |-> f, tries |-> 0, consumed |-> FALSE, fresh |-> TRUE]

\* createChallenge and the mail or text: one that is not delivered leaves its row,
\* and leaves the page where it was.
Send(b, i, f) ==
  \E c \in Challenges :
    /\ Free(b, c)
    /\ chal' = [chal EXCEPT ![c] = NewRow(i, f)]
    /\ granted' = granted \ {c}
    /\ \/ held' = [held EXCEPT ![b] = [f |-> f, c |-> c]] /\ UNCHANGED faults
       \/ Fault /\ UNCHANGED held

\* start_totp, start_sms and start_email write an unconfirmed factor.
StartFactor(b, f) ==
  LET i == currentIdentity(b)
  IN  /\ i # None /\ ~InFlight(b) /\ MayManage(b, i)
      /\ f \in Offered /\ Owner[f] = i /\ Kind[f] # "passkey" /\ factor[f] # "confirmed"
      /\ \A a \in Browsers \ {b} : held[a] # None => held[a].f # f
      /\ factor' = [factor EXCEPT ![f] = "pending"]
      /\ IF Kind[f] = "totp"
         THEN /\ held' = [held EXCEPT ![b] = [f |-> f, c |-> None]]
              /\ UNCHANGED <<chal, granted, faults>>
         ELSE Send(b, i, f)
  /\ UNCHANGED <<cookies, epoch, codes, shown, req>>

\* send_code, from the page that challenges identity i
SendCode(b, i, f) ==
  /\ SignedIn(b, i) /\ ~LetIn(b, i) /\ ~InFlight(b)
  /\ f \in Confirmed(currentIdentity(b)) /\ Owner[f] = i /\ Kind[f] \in {"email", "sms"}
  /\ Send(b, i, f)
  /\ UNCHANGED <<cookies, epoch, factor, codes, shown, req>>

\* passkey_register_start and passkey_auth_start: a challenge of no factor
StartPasskey(b, f) ==
  LET i == currentIdentity(b)
  IN  /\ i # None /\ ~InFlight(b) /\ f \in Offered /\ Owner[f] = i /\ Kind[f] = "passkey"
      /\ IF factor[f] = "confirmed" THEN ~LetIn(b, i) ELSE MayManage(b, i)
      /\ \E c \in Challenges :
           /\ Free(b, c)
           /\ chal' = [chal EXCEPT ![c] = NewRow(i, None)]
           /\ granted' = granted \ {c}
           /\ held' = [held EXCEPT ![b] = [f |-> f, c |-> c]]
  /\ UNCHANGED <<cookies, epoch, factor, codes, shown, req, faults>>

-----------------------------------------------------------------------------
(* Requests *)
Begin(b, steps, f, c, right, trust) ==
  /\ currentIdentity(b) # None /\ ~InFlight(b)
  /\ req' = [ a \in Browsers |->
       IF a = b THEN [ todo |-> steps, who |-> currentIdentity(b), epoch |-> epoch[currentIdentity(b)],
                       f |-> f, c |-> c, right |-> right, trust |-> trust, saw |-> 0,
                       alone |-> FALSE, late |-> c \in granted ]
       ELSE IF InFlight(a) THEN [req[a] EXCEPT !.alone = FALSE] ELSE req[a] ]
  /\ UNCHANGED <<cookies, rows, shown, held, granted>>

Answer(c) == IF c = None THEN <<"totp">> ELSE <<"read", "count", "consume">>
Enrolled == <<"confirm", "list", "pass">>
IssuedThenCleared == <<"insert", "delete">>
issueRecoveryCodes == <<"delete", "insert">>

\* A code may be mistyped, which the bound counts.
Typed(right) == IF right THEN UNCHANGED faults ELSE Fault

\* confirm, for the factor the page started
Confirm(b, right) ==
  /\ held[b] # None /\ Kind[held[b].f] # "passkey" /\ factor[held[b].f] # "confirmed"
  /\ Typed(right)
  /\ Begin(b, Answer(held[b].c) \o Enrolled, held[b].f, held[b].c, right, FALSE)

\* verify: the code of an app, or the one that was sent
Verify(b, i, right, trust) ==
  /\ SignedIn(b, i)
  /\ Typed(right)
  /\ \/ \E f \in Confirmed(i) :
          ~LetIn(b, i) /\ Kind[f] = "totp" /\ Begin(b, Answer(None) \o <<"pass">>, f, None, right, trust)
     \/ /\ held[b] # None /\ held[b].c # None
        /\ held[b].f \in Confirmed(i) /\ Kind[held[b].f] # "passkey"
        /\ Begin(b, Answer(held[b].c) \o <<"pass">>, held[b].f, held[b].c, right, trust)

\* passkey_register_finish and passkey_auth_finish
FinishPasskey(b, right, trust) ==
  /\ held[b] # None /\ Kind[held[b].f] = "passkey"
  /\ Typed(right)
  /\ IF factor[held[b].f] = "confirmed"
     THEN Begin(b, <<"read", "consume", "match", "pass">>, held[b].f, held[b].c, right, trust)
     ELSE Begin(b, <<"read", "consume", "save">> \o Enrolled, held[b].f, held[b].c, right, FALSE)

Recover(b, i) ==
  /\ SignedIn(b, i) /\ ~LetIn(b, i) /\ shown[i] # None
  /\ Begin(b, <<"find", "use", "pass">>, None, shown[i], TRUE, FALSE)
  /\ UNCHANGED faults

NewRecoveryCodes(b, i) ==
  /\ LetIn(b, i)
  /\ Begin(b, issueRecoveryCodes, None, None, TRUE, FALSE)
  /\ UNCHANGED faults

Remove(b, i, f) ==
  /\ LetIn(b, i) /\ f \in Confirmed(i)
  /\ Begin(b, <<"last", "drop">>, f, None, TRUE, FALSE)
  /\ UNCHANGED faults

\* The route looks for the operator first, unlike currentIdentity.
SignOutEverywhere(b, i) ==
  /\ SignedIn(b, i) /\ LetIn(b, i) /\ ~InFlight(b) /\ epoch[i] < MaxEpoch
  /\ i = "user" /\ "admin" \in Ids => ~SignedIn(b, "admin")
  /\ req' = [ a \in Browsers |->
       IF a = b THEN [ todo |-> IF i = "admin" THEN <<"bump", "end">> ELSE <<"epoch", "bump", "end">>,
                       who |-> i, epoch |-> epoch[i], f |-> None, c |-> None, right |-> TRUE,
                       trust |-> FALSE, saw |-> 0, late |-> FALSE,
                       alone |-> \A x \in Browsers : ~InFlight(x) ]
       ELSE IF InFlight(a) THEN [req[a] EXCEPT !.alone = FALSE] ELSE req[a] ]
  /\ UNCHANGED <<cookies, rows, shown, held, granted, faults>>

-----------------------------------------------------------------------------
(* The steps of a request *)
At(b, step) == InFlight(b) /\ Head(req[b].todo) = step
Go(b, then, saw) ==
  req' = [req EXCEPT ![b] = IF then = <<>> THEN Idle ELSE [@ EXCEPT !.todo = then, !.saw = saw]]
On(b) == Go(b, Tail(req[b].todo), 0)
Stop(b) == req' = [req EXCEPT ![b] = Idle]

\* answerChallenge and consumePasskeyChallenge read the row
ReadChallenge(b) ==
  LET row == chal[req[b].c]
  IN  /\ At(b, "read")
      /\ IF row.who # req[b].who \/ row.consumed \/ ~row.fresh \/ row.tries >= MAX_ATTEMPTS
         THEN Stop(b) ELSE Go(b, Tail(req[b].todo), row.tries)
  /\ UNCHANGED <<cookies, rows, shown, held, granted, faults>>

\* The try is counted, then the code compared.
CountTry(b) ==
  /\ At(b, "count")
  /\ chal' = [chal EXCEPT ![req[b].c].tries = req[b].saw + 1]
  /\ IF req[b].right THEN On(b) ELSE Stop(b)
  /\ UNCHANGED <<cookies, epoch, factor, codes, shown, held, granted, faults>>

ConsumedLater(b) ==
  /\ At(b, "consume")
  /\ On(b)
  /\ UNCHANGED <<cookies, rows, shown, held, granted, faults>>

ConsumeChallenge(b) ==
  /\ At(b, "consume")
  /\ chal' = [chal EXCEPT ![req[b].c].consumed = TRUE]
  /\ IF req[b].right THEN On(b) ELSE Stop(b)
  /\ UNCHANGED <<cookies, epoch, factor, codes, shown, held, granted, faults>>

\* answerTotp finds the secret by factor and owner.
CheckTotp(b) ==
  /\ At(b, "totp")
  /\ IF req[b].right /\ Owner[req[b].f] = req[b].who /\ factor[req[b].f] # "none"
     THEN On(b) ELSE Stop(b)
  /\ UNCHANGED <<cookies, rows, shown, held, granted, faults>>

MatchPasskey(b) ==
  /\ At(b, "match")
  /\ IF req[b].f \in Confirmed(req[b].who) THEN On(b) ELSE Stop(b)
  /\ UNCHANGED <<cookies, rows, shown, held, granted, faults>>

\* A credential is kept once.
SavePasskey(b) ==
  /\ At(b, "save")
  /\ IF factor[req[b].f] = "none"
     THEN factor' = [factor EXCEPT ![req[b].f] = "pending"] /\ On(b)
     ELSE Stop(b) /\ UNCHANGED factor
  /\ UNCHANGED <<cookies, epoch, chal, codes, shown, held, granted, faults>>

ConfirmFactor(b) ==
  /\ At(b, "confirm")
  /\ factor' = [factor EXCEPT ![req[b].f] = IF @ = "none" THEN @ ELSE "confirmed"]
  /\ held' = [held EXCEPT ![b] = None]
  /\ On(b)
  /\ UNCHANGED <<cookies, epoch, chal, codes, shown, granted, faults>>

\* The first confirmed factor comes with recovery codes.
ListConfirmed(b) ==
  /\ At(b, "list")
  /\ Go(b, (IF Cardinality(Confirmed(req[b].who)) = 1 THEN issueRecoveryCodes ELSE <<>>)
             \o Tail(req[b].todo), 0)
  /\ UNCHANGED <<cookies, rows, shown, held, granted, faults>>

SetOwner(s) == s[1]
DeleteCodes(b) ==
  /\ At(b, "delete")
  /\ LET kept == { s \in Sets : SetOwner(s) # req[b].who }
     IN  codes' = [stored |-> codes.stored \cap kept, used |-> codes.used \cap kept]
  /\ On(b)
  /\ UNCHANGED <<cookies, epoch, factor, chal, shown, held, granted, faults>>

\* The codes are shown whether or not they were stored.
InsertCodes(b) ==
  /\ At(b, "insert")
  /\ \E s \in Sets :
       /\ SetOwner(s) = req[b].who /\ FreeSet(s)
       /\ granted' = granted \ {s}
       /\ shown' = [shown EXCEPT ![req[b].who] = s]
       /\ codes' = [codes EXCEPT !.stored = @ \cup {s}]
  /\ On(b)
  /\ UNCHANGED <<cookies, epoch, factor, chal, held, faults>>

FindCode(b) ==
  /\ At(b, "find")
  /\ IF SetOwner(req[b].c) = req[b].who /\ req[b].c \in codes.stored \ codes.used THEN On(b) ELSE Stop(b)
  /\ UNCHANGED <<cookies, rows, shown, held, granted, faults>>

\* An update that finds no row is no error.
UseCode(b) ==
  /\ At(b, "use")
  /\ codes' = [codes EXCEPT !.used = @ \cup ({req[b].c} \cap codes.stored)]
  /\ On(b)
  /\ UNCHANGED <<cookies, epoch, factor, chal, shown, held, granted, faults>>

\* applyPass, under the epoch the request read when it began
GivePass(b) ==
  /\ At(b, "pass")
  /\ pass' = [pass EXCEPT ![b][req[b].who] =
                [epoch |-> req[b].epoch, trusted |-> req[b].trust, ended |-> FALSE]]
  /\ granted' = granted \cup ({req[b].c} \ {None})
  /\ On(b)
  /\ UNCHANGED <<session, rows, shown, held, faults>>

\* removeFactor counts, then deletes.
ReadLast(b) ==
  /\ At(b, "last")
  /\ IF Confirmed(req[b].who) = {req[b].f} THEN Stop(b) ELSE On(b)
  /\ UNCHANGED <<cookies, rows, shown, held, granted, faults>>

DropFactor(b) ==
  /\ At(b, "drop")
  /\ factor' = [factor EXCEPT ![req[b].f] = IF Owner[req[b].f] = req[b].who THEN "none" ELSE @]
  /\ chal' = [c \in Challenges |-> IF chal[c] # None /\ chal[c].f = req[b].f
                                   THEN [chal[c] EXCEPT !.fresh = FALSE] ELSE chal[c]]
  /\ On(b)
  /\ UNCHANGED <<cookies, epoch, codes, shown, held, granted, faults>>

\* bumpUserEpoch reads and writes, bump_admin_session_epoch is one statement. Noted is
\* which passes it ends: of the epoch in force or an earlier one. (A pass of a later
\* epoch is there when a stale write took the number back.)
ReadEpoch(b) ==
  /\ At(b, "epoch")
  /\ Go(b, Tail(req[b].todo), epoch[req[b].who])
  /\ UNCHANGED <<cookies, rows, shown, held, granted, faults>>

BumpEpoch(b) ==
  LET i == req[b].who
  IN  /\ At(b, "bump")
      /\ epoch' = [epoch EXCEPT ![i] = IF i = "admin" THEN @ + 1 ELSE req[b].saw + 1]
      /\ pass' = IF req[b].alone
                 THEN [a \in Browsers |-> [pass[a] EXCEPT ![i] =
                         IF @ = None \/ @.epoch > epoch[i] THEN @ ELSE [@ EXCEPT !.ended = TRUE]]]
                 ELSE pass
      /\ On(b)
  /\ UNCHANGED <<session, factor, chal, codes, shown, held, granted, faults>>

\* The other browsers of a customer are signed out if Supabase answers.
EndSessions(b) ==
  LET i == req[b].who
  IN  /\ At(b, "end")
      /\ pass' = [pass EXCEPT ![b][i] = None]
      /\ held' = [held EXCEPT ![b] = None]
      /\ \/ /\ session' = [a \in Browsers |->
                 IF a = b \/ i = "user" THEN [session[a] EXCEPT ![i] = None] ELSE session[a]]
            /\ UNCHANGED faults
         \/ /\ i = "user" /\ Fault
            /\ session' = [session EXCEPT ![b][i] = None]
      /\ On(b)
  /\ UNCHANGED <<rows, shown, granted>>

Work(b) ==
  \/ ReadChallenge(b) \/ CountTry(b) \/ ConsumeChallenge(b) \/ CheckTotp(b)
  \/ MatchPasskey(b) \/ SavePasskey(b) \/ ConfirmFactor(b) \/ ListConfirmed(b)
  \/ DeleteCodes(b) \/ InsertCodes(b) \/ FindCode(b) \/ UseCode(b) \/ GivePass(b)
  \/ ReadLast(b) \/ DropFactor(b) \/ ReadEpoch(b) \/ BumpEpoch(b) \/ EndSessions(b)

\* The two pages: one enrols and removes, the other asks for the second step.
MfaSetup(b) ==
  \/ \E f \in Factors : StartFactor(b, f) \/ StartPasskey(b, f)
  \/ \E right \in BOOLEAN : Confirm(b, right) \/ FinishPasskey(b, right, FALSE)
  \/ \E i \in Ids : NewRecoveryCodes(b, i) \/ \E f \in Factors : Remove(b, i, f)

MfaChallenge(b, i) ==
  \/ \E f \in Factors : SendCode(b, i, f) \/ StartPasskey(b, f)
  \/ \E right, trust \in BOOLEAN : Verify(b, i, right, trust) \/ FinishPasskey(b, right, trust)
  \/ Recover(b, i)

\* What somebody who wants in asks for, and answers.
Ask(b, i) ==
  /\ SignedIn(b, i) /\ ~LetIn(b, i)
  /\ \E f \in Factors :
       SendCode(b, i, f) \/ StartPasskey(b, f) \/ (Confirmed(i) = {} /\ StartFactor(b, f))
GetIn(b, i) ==
  \/ SignedIn(b, i) /\ Confirmed(i) = {} /\ Confirm(b, TRUE)
  \/ \E trust \in BOOLEAN : Verify(b, i, TRUE, trust)
  \/ Confirmed(i) # {} /\ FinishPasskey(b, TRUE, FALSE)

Step ==
  \/ \E b \in Browsers : Work(b) \/ MfaSetup(b)
  \/ \E b \in Browsers, i \in Ids :
       \/ MfaChallenge(b, i)
       \/ SignIn(b, i) \/ SignOut(b, i) \/ PassExpires(b, i) \/ SignOutEverywhere(b, i)
  \/ \E c \in Challenges : CodeExpires(c)
Next == Step /\ UNCHANGED setting

\* Requests end, and whoever is signed in asks for what they need and answers.
Spec ==
  /\ Init /\ [][Next]_vars
  /\ \A b \in Browsers : WF_moving(Work(b))
  /\ \A b \in Patient, i \in Ids : SF_moving(Ask(b, i)) /\ SF_moving(GetIn(b, i))

-----------------------------------------------------------------------------
(* Properties *)

\* A code that has let somebody in does not let a later request in: the answer of
\* answerChallenge, consumePasskeyChallenge or useRecoveryCode is spent, except
\* between requests that overlap.
NotAnsweredTwice == \A b \in Browsers : At(b, "pass") => ~req[b].late

\* The recovery codes shown last are the ones stored (issueRecoveryCodes), unless a
\* new set is being made at this moment.
CodesShownWork ==
  \A i \in Ids :
    \/ shown[i] = None \/ shown[i] \in codes.stored
    \/ \E b \in Browsers : At(b, "insert") /\ req[b].who = i

\* After a customer's "sign out everywhere" that no other request overlapped, no pass of
\* the epoch it ended or of an earlier one is accepted again, whatever is signed out
\* or in later and however the writes of later bumps race (verifyMfaToken against the
\* epoch). The operator's pass is checked with the default, and comes back.
RetiredForGood ==
  \A b \in Browsers, i \in Ids \ {"admin"} : LetIn(b, i) => ~pass[b][i].ended

\* Whoever is let in has answered once, with what is still asked for.
PassesEarned == NotAnsweredTwice /\ RetiredForGood

\* Somebody signed in who answers what is asked gets in (middleware and verify).
LetBackIn ==
  \A b \in Patient, i \in Ids : SignedIn(b, i) ~> (LetIn(b, i) \/ ~SignedIn(b, i))
=============================================================================
