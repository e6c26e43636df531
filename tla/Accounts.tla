------------------------------ MODULE Accounts ------------------------------
(***************************************************************************)
(* One account between its customer, who signs up, subscribes and searches,*)
(* and the operators of the console, who suspend it, lift that, sign it    *)
(* out, move its credits and delete it. Every action of the console is     *)
(* several calls: to the profiles table, to the authentication service, to *)
(* Stripe, and last to the audit log. Beside it, the throttle of the       *)
(* operator's own sign-in, which one server instance keeps in memory.      *)
(***************************************************************************)
EXTENDS Naturals, FiniteSets, SequencesExt, TLC

CONSTANTS
  Consoles, Visits,           \* requests of operators and of customers in flight at once
  MAX_FAILS, WINDOW, LOCK,    \* the throttle
  MaxTime, MaxAttempts,       \* bounds on its clock and on the tries
  MaxDisruptions, MaxActions  \* bounds on calls that fail, and on actions of the console

VARIABLES
  realm,                 \* what a behaviour looks at: "console", "feed" or "throttle"
  account,               \* [exists, suspended, banned, session, key, bonus, gone]
  subscription,          \* at Stripe, and whether our row names it
  filled,                \* tables that hold rows of the account
  admin_audit_log, tried,   \* actions logged, and actions that came to their end
  console, visit,        \* each request and the step it is at
  screen,                \* what the operator's last overview or feed showed
  entwined,              \* two actions on the locks overlapped, or a call of one was lost
  lateSale,              \* a subscription began after a deletion had looked for one
  wronglyServed,         \* a visit that began under a suspension was served under it
  clock, buckets, tries, overlapped,   \* the throttle: its bucket, the times of the failures,
                                       \* and whether two tries were ever in flight at once
  disruptions, actions

consoleVars == <<account, subscription, filled, admin_audit_log, tried, console, visit, screen,
                 entwined, lateSale, wronglyServed, actions>>
throttle == <<clock, buckets, tries, overlapped>>
vars == <<realm, consoleVars, throttle, disruptions>>

Idle == [at |-> "idle"]
ConsoleAt(c, step) == console[c].at = step
Step(c, step) == console' = [console EXCEPT ![c].at = step]
Disrupt == disruptions < MaxDisruptions /\ disruptions' = disruptions + 1
Undisturbed == UNCHANGED disruptions

\* What each table can be asked for, of the columns the console orders by.
Stamp == [searches |-> {"scanned_at"}, lead_unlocks |-> {"unlocked_at"}, credit_ledger |-> {"created_at"},
          support_tickets |-> {"created_at"}, admin_audit_log |-> {"created_at"}]
\* Rows are kept track of only where the console's screens are looked at.
\* A select that names a column its table lacks is refused, and counts as no rows.
Fill(table) == filled' = IF realm = "feed" /\ account.exists THEN filled \cup {table} ELSE filled
Selected(table, column) == IF column \in Stamp[table] /\ table \in filled THEN {table} ELSE {}

Init ==
  /\ realm \in {"console", "feed", "throttle"}
  /\ account = [exists |-> FALSE, suspended |-> FALSE, banned |-> FALSE, session |-> FALSE, key |-> FALSE, bonus |-> 0, gone |-> FALSE]
  /\ subscription = [stripe |-> "none", row |-> FALSE]
  /\ filled = {} /\ admin_audit_log = {} /\ tried = {}
  /\ console = [c \in Consoles |-> Idle] /\ visit = [v \in Visits |-> Idle]
  /\ screen = [on |-> FALSE]
  /\ entwined = FALSE /\ lateSale = FALSE /\ wronglyServed = FALSE
  /\ clock = 0 /\ buckets = [fails |-> 0, firstAt |-> 0, lockedUntil |-> 0] /\ tries = <<>> /\ overlapped = FALSE
  /\ disruptions = 0 /\ actions = 0

----------------------------------------------------------------------------
(* The customer. *)

\* The account is made, then the bonus granted; a grant that fails is only logged.
SignUp ==
  /\ realm # "throttle" /\ ~account.exists /\ ~account.gone
  /\ \/ account' = [account EXCEPT !.exists = TRUE, !.session = TRUE, !.bonus = 1] /\ Undisturbed
     \/ account' = [account EXCEPT !.exists = TRUE, !.session = TRUE] /\ Disrupt
  /\ filled' = IF realm = "feed" /\ account'.bonus = 1 THEN {"credit_ledger"} ELSE {}
  /\ UNCHANGED <<realm, subscription, admin_audit_log, tried, console, visit, screen, entwined, lateSale, wronglyServed, actions, throttle>>

Subscribe ==
  /\ account.exists /\ account.session /\ subscription.stripe = "none"
  /\ subscription' = [stripe |-> "live", row |-> TRUE]
  /\ lateSale' = (\E c \in Consoles : console[c].at \in {"cancel", "deleteUser"})
  /\ UNCHANGED <<realm, account, filled, admin_audit_log, tried, console, visit, screen, entwined, wronglyServed, actions, throttle, disruptions>>

LogIn ==
  /\ account.exists /\ ~account.banned /\ ~account.session
  /\ account' = [account EXCEPT !.session = TRUE]
  /\ UNCHANGED <<realm, subscription, filled, admin_audit_log, tried, console, visit, screen, entwined, lateSale, wronglyServed, actions, throttle, disruptions>>

\* Keys are made and revoked by a session whose account may use the tools.
MayUseTools == account.exists /\ subscription.stripe = "live" /\ ~account.suspended
ChangeKey ==
  /\ MayUseTools /\ account.session
  /\ account' = [account EXCEPT !.key = ~@]
  /\ UNCHANGED <<realm, subscription, filled, admin_audit_log, tried, console, visit, screen, entwined, lateSale, wronglyServed, actions, throttle, disruptions>>

\* A search, an export or a tool: who asks, by session or key, then what they may.
Authenticate(v) ==
  /\ visit[v] = Idle /\ account.exists /\ (account.session \/ account.key)
  /\ visit' = [visit EXCEPT ![v] = [at |-> "known", locked |-> account.suspended]]
  /\ UNCHANGED <<realm, account, subscription, filled, admin_audit_log, tried, console, screen, entwined, lateSale, wronglyServed, actions, throttle, disruptions>>

ReadAccess(v) ==
  /\ visit[v].at = "known"
  /\ visit' = [visit EXCEPT ![v] = IF account.suspended THEN Idle ELSE [at |-> "granted", locked |-> visit[v].locked]]
  /\ UNCHANGED <<realm, account, subscription, filled, admin_audit_log, tried, console, screen, entwined, lateSale, wronglyServed, actions, throttle, disruptions>>

Serve(v) ==
  /\ visit[v].at = "granted"
  /\ \E table \in {"searches", "lead_unlocks", "support_tickets"} : Fill(table)
  /\ wronglyServed' = (wronglyServed \/ (visit[v].locked /\ account.exists))
  /\ visit' = [visit EXCEPT ![v] = Idle]
  /\ UNCHANGED <<realm, account, subscription, admin_audit_log, tried, console, screen, entwined, lateSale, actions, throttle, disruptions>>

----------------------------------------------------------------------------
(* The console. *)

Locks == {"suspend", "unsuspend"}
FirstStep == [suspend |-> "flag", unsuspend |-> "flag", signout |-> "signout", delete |-> "cancel",
              credits |-> "credits", note |-> "note", entitlement |-> "entitlement"]
OnLocks == { c \in Consoles : ~ConsoleAt(c, "idle") /\ console[c].do \in Locks }

\* The target must exist. A deletion reads at once whether a subscription is known.
Begin(c, do) ==
  /\ ConsoleAt(c, "idle") /\ account.exists /\ (realm = "feed" => do \notin {"suspend", "unsuspend", "delete"})
  /\ actions < MaxActions /\ actions' = actions + 1
  /\ console' = [console EXCEPT ![c] = [at |-> FirstStep[do], do |-> do, row |-> subscription.row]]
  /\ entwined' = (entwined \/ (do \in Locks /\ OnLocks # {}))
  /\ UNCHANGED <<realm, account, subscription, filled, admin_audit_log, tried, visit, screen, lateSale, wronglyServed, throttle, disruptions>>

\* suspendUser and unsuspendUser: the flag first; if that fails, nothing else.
WriteFlag(c) ==
  /\ ConsoleAt(c, "flag")
  /\ LET on == console[c].do = "suspend" IN
     \/ /\ account' = [account EXCEPT !.suspended = account.exists /\ on]
        /\ visit' = IF on THEN visit ELSE [v \in Visits |-> IF visit[v] = Idle THEN Idle ELSE [visit[v] EXCEPT !.locked = FALSE]]
        /\ Step(c, "ban") /\ Undisturbed
     \/ Disrupt /\ Step(c, "log") /\ UNCHANGED <<account, visit>>
  /\ UNCHANGED <<realm, subscription, filled, admin_audit_log, tried, screen, entwined, lateSale, wronglyServed, actions, throttle>>

\* Mutant: lifting a suspension leaves the ban.
BanOnly(c) == account.exists /\ (console[c].do = "suspend" \/ account.banned)
Banned(c) == account.exists /\ console[c].do = "suspend"
\* Whether the ban was set or lifted is not looked at.
WriteBan(c) ==
  /\ ConsoleAt(c, "ban")
  /\ \/ account' = [account EXCEPT !.banned = Banned(c)] /\ Undisturbed /\ UNCHANGED entwined
     \/ Disrupt /\ entwined' = TRUE /\ UNCHANGED account
  /\ Step(c, IF console[c].do = "suspend" THEN "signout" ELSE "log")
  /\ UNCHANGED <<realm, subscription, filled, admin_audit_log, tried, visit, screen, lateSale, wronglyServed, actions, throttle>>

\* Whether the sessions really end is the authentication service's affair.
forceSignOut(c) ==
  /\ ConsoleAt(c, "signout")
  /\ account' \in {account, [account EXCEPT !.session = FALSE]}
  /\ Step(c, "log")
  /\ UNCHANGED <<realm, subscription, filled, admin_audit_log, tried, visit, screen, entwined, lateSale, wronglyServed, actions, throttle, disruptions>>

\* Mutant: what Stripe answers is not looked at.
CancelRegardless(c) ==
  /\ ConsoleAt(c, "cancel")
  /\ \/ /\ subscription' = [subscription EXCEPT !.stripe = IF console[c].row /\ @ = "live" THEN "canceled" ELSE @]
        /\ Undisturbed
     \/ Disrupt /\ UNCHANGED subscription
  /\ Step(c, "deleteUser")
  /\ UNCHANGED <<realm, account, filled, admin_audit_log, tried, visit, screen, entwined, lateSale, wronglyServed, actions, throttle>>

\* deleteUserAsAdmin stops the billing first; an answer that it is already gone will do.
CancelSubscription(c) ==
  /\ ConsoleAt(c, "cancel")
  /\ \/ /\ subscription' = [subscription EXCEPT !.stripe = IF console[c].row /\ @ = "live" THEN "canceled" ELSE @]
        /\ Step(c, "deleteUser") /\ Undisturbed
     \/ console[c].row /\ Disrupt /\ Step(c, "log") /\ UNCHANGED subscription
  /\ UNCHANGED <<realm, account, filled, admin_audit_log, tried, visit, screen, entwined, lateSale, wronglyServed, actions, throttle>>

\* With the user go the rows of every table that hangs on it.
DeleteUser(c) ==
  /\ ConsoleAt(c, "deleteUser")
  /\ \/ /\ account' = [exists |-> FALSE, suspended |-> FALSE, banned |-> FALSE, session |-> FALSE, key |-> FALSE, bonus |-> 0, gone |-> TRUE]
        /\ filled' = {} /\ subscription' = [subscription EXCEPT !.row = FALSE] /\ Undisturbed
     \/ Disrupt /\ UNCHANGED <<account, filled, subscription>>
  /\ Step(c, "log")
  /\ UNCHANGED <<realm, admin_audit_log, tried, visit, screen, entwined, lateSale, wronglyServed, actions, throttle>>

\* A grant that fails throws, past the log.
MoveCredits(c) ==
  /\ ConsoleAt(c, "credits")
  /\ \/ Fill("credit_ledger") /\ Step(c, "log") /\ Undisturbed /\ UNCHANGED tried
     \/ Disrupt /\ console' = [console EXCEPT ![c] = Idle] /\ tried' = tried \cup {"credits"} /\ UNCHANGED filled
  /\ UNCHANGED <<realm, account, subscription, admin_audit_log, visit, screen, entwined, lateSale, wronglyServed, actions, throttle>>

setAdminNote(c) ==
  /\ ConsoleAt(c, "note")
  /\ Step(c, "log")
  /\ UNCHANGED <<realm, account, subscription, filled, admin_audit_log, tried, visit, screen, entwined, lateSale, wronglyServed, actions, throttle, disruptions>>

\* The older route for credits and comped access answers without a word to the log.
Entitle(c) ==
  /\ ConsoleAt(c, "entitlement")
  /\ Fill("credit_ledger")
  /\ tried' = tried \cup {"entitlement"}
  /\ console' = [console EXCEPT ![c] = Idle]
  /\ UNCHANGED <<realm, account, subscription, admin_audit_log, visit, screen, entwined, lateSale, wronglyServed, actions, throttle, disruptions>>

logAdminAction(c) ==
  /\ ConsoleAt(c, "log")
  /\ \/ /\ admin_audit_log' = admin_audit_log \cup {console[c].do} /\ Undisturbed
        /\ Fill("admin_audit_log")
     \/ Disrupt /\ UNCHANGED <<admin_audit_log, filled>>
  /\ tried' = tried \cup {console[c].do}
  /\ console' = [console EXCEPT ![c] = Idle]
  /\ UNCHANGED <<realm, account, subscription, visit, screen, entwined, lateSale, wronglyServed, actions, throttle>>

Abandoned(c) ==
  /\ ~ConsoleAt(c, "idle") /\ Disrupt
  /\ entwined' = (entwined \/ console[c].do \in Locks)
  /\ console' = [console EXCEPT ![c] = Idle]
  /\ UNCHANGED <<realm, account, subscription, filled, admin_audit_log, tried, visit, screen, lateSale, wronglyServed, actions, throttle>>

\* The overview of one account and the feed of all of them ask the same tables, and for
\* unlocks both name a column that only the other tables have.
getUserOverview ==
  UNION { Selected("searches", "scanned_at"), Selected("lead_unlocks", "created_at"),
          Selected("credit_ledger", "created_at"), Selected("support_tickets", "created_at"),
          Selected("admin_audit_log", "created_at") }
LookAt ==
  /\ realm = "feed" /\ account.exists /\ (screen.on => screen.rows # getUserOverview)
  /\ screen' = [on |-> TRUE, rows |-> getUserOverview, held |-> filled]
  /\ UNCHANGED <<realm, account, subscription, filled, admin_audit_log, tried, console, visit, entwined, lateSale, wronglyServed, actions, throttle, disruptions>>

----------------------------------------------------------------------------
(* The throttle of the operator's sign-in. A try passes the gate, its password is looked   *)
(* up and hashed, and only then is its failure counted.                                    *)

InTry == { c \in Consoles : ConsoleAt(c, "password") }

checkRateLimit(c) ==
  /\ realm = "throttle" /\ ConsoleAt(c, "idle")
  /\ Len(tries) + Cardinality(InTry) < MaxAttempts
  /\ buckets.lockedUntil <= clock
  /\ console' = [console EXCEPT ![c] = [at |-> "password", do |-> "login", row |-> FALSE]]
  /\ overlapped' = (overlapped \/ InTry # {})
  /\ UNCHANGED <<realm, account, subscription, filled, admin_audit_log, tried, visit, screen, entwined, lateSale, wronglyServed, actions, clock, buckets, tries, disruptions>>

Counted ==
  LET b == IF (buckets.fails = 0 /\ buckets.lockedUntil = 0) \/ clock - buckets.firstAt > WINDOW
           THEN [fails |-> 0, firstAt |-> clock, lockedUntil |-> 0] ELSE buckets
  IN IF b.fails + 1 >= MAX_FAILS THEN [fails |-> 0, firstAt |-> clock, lockedUntil |-> clock + LOCK]
     ELSE [b EXCEPT !.fails = @ + 1]

recordFailure(c) ==
  /\ ConsoleAt(c, "password")
  /\ buckets' = Counted /\ tries' = Append(tries, clock)
  /\ console' = [console EXCEPT ![c] = Idle]
  /\ UNCHANGED <<realm, account, subscription, filled, admin_audit_log, tried, visit, screen, entwined, lateSale, wronglyServed, actions, clock, overlapped, disruptions>>

\* The right password forgets the failures.
recordSuccess(c) ==
  /\ ConsoleAt(c, "password")
  /\ buckets' = [fails |-> 0, firstAt |-> 0, lockedUntil |-> 0] /\ tries' = <<>>
  /\ console' = [console EXCEPT ![c] = Idle]
  /\ UNCHANGED <<realm, account, subscription, filled, admin_audit_log, tried, visit, screen, entwined, lateSale, wronglyServed, actions, clock, overlapped, disruptions>>

Wait ==
  /\ realm = "throttle" /\ clock < MaxTime /\ clock' = clock + 1
  /\ UNCHANGED <<realm, consoleVars, buckets, tries, overlapped, disruptions>>

Next ==
  \/ SignUp \/ Subscribe \/ LogIn \/ ChangeKey \/ LookAt \/ Wait
  \/ \E v \in Visits : Authenticate(v) \/ ReadAccess(v) \/ Serve(v)
  \/ \E c \in Consoles, do \in DOMAIN FirstStep : Begin(c, do)
  \/ \E c \in Consoles : WriteFlag(c) \/ WriteBan(c) \/ forceSignOut(c) \/ CancelSubscription(c) \/ DeleteUser(c)
                         \/ MoveCredits(c) \/ setAdminNote(c) \/ Entitle(c) \/ logAdminAction(c) \/ Abandoned(c)
                         \/ checkRateLimit(c) \/ recordFailure(c) \/ recordSuccess(c)
Spec == Init /\ [][Next]_vars

----------------------------------------------------------------------------

\* A suspension is two locks, the flag and the ban, because either one alone leaks; and an
\* account that is let back in is not left half locked. The two agree whenever no action on
\* them is under way, unless two overlapped or a call was lost.
LocksAgree == ~entwined /\ OnLocks = {} => account.suspended = account.banned

\* Whoever comes under a suspension is not served under it, by a session the sign-out did
\* not end as little as by a key.
NotServedSuspended == ~wronglyServed

\* Nobody without an account is charged: when an operator's deletion goes through, no
\* subscription stays live, unless it began after the deletion had looked for one.
NothingBilledAfter == account.gone /\ ~lateSale => subscription.stripe # "live"

\* The throttle counts from the first failure of a window, so two windows may meet; but no
\* WINDOW of time holds more failures than that, however the tries are spread, as long as
\* they come one at a time.
FailuresBounded ==
  ~overlapped => \A i, j \in DOMAIN tries :
    i <= j /\ tries[j] - tries[i] <= WINDOW => j - i + 1 <= 2 * MAX_FAILS - 2

\* The words of the audit log: every action an operator takes on somebody else's account.
EveryActionLogged == disruptions = 0 => tried \subseteq admin_audit_log

\* The words of the feed: it shows searches, unlocks, money and support.
FeedShowsUnlocks == screen.on => screen.rows = screen.held
=============================================================================
