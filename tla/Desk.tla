-------------------------------- MODULE Desk --------------------------------
(***************************************************************************)
(* The desk: support tickets that the customer and the operator both write *)
(* to, the contact form, and the mailing list with its two links. A        *)
(* handler reads a row, then writes it in one or two further calls, and    *)
(* another handler may come in between.                                    *)
(***************************************************************************)
EXTENDS Naturals, FiniteSets, SequencesExt, TLC

CONSTANTS
  Tickets,            \* rows of support_tickets
  Handlers,           \* requests in flight at once
  MAX_OPEN_TICKETS,
  MaxMessages, MaxSignUps,   \* bounds on a thread, and on the forms sent in
  MaxFaults

VARIABLES
  tickets,            \* [status, thread], or NoRow
  subscriber,         \* one address: [confirmed, left], or NoRow
  contact_messages,   \* unread and handled messages of the form
  mail,               \* notifications waiting to be read, and the confirmations sent
  work,               \* the request of each handler
  entangled,          \* tickets two requests worked on at once, or that lost a call
  clicked, raced,     \* the last link the holder of the address followed, and whether
                      \* a form of the same address was in flight then
  part,               \* what a behaviour looks at: the three share no row
  sent, faults

vars == <<part, tickets, subscriber, contact_messages, mail, work, entangled, clicked, raced, sent, faults>>

NoRow == [status |-> "none"]
Idle == [at |-> "idle"]
At(h, step) == work[h].at = step
Become(h, w) == work' = [work EXCEPT ![h] = w]
Fault == faults < MaxFaults /\ faults' = faults + 1
NoFault == UNCHANGED faults
Status == {"open", "answered", "closed"}
Exists(t) == tickets[t] # NoRow
OnTicket(t) == { h \in Handlers : "ticket" \in DOMAIN work[h] /\ work[h].ticket = t }
Entangle(t) == entangled' = IF OnTicket(t) # {} THEN entangled \cup {t} ELSE entangled

\* A notice goes out, or does not: nothing waits for it, and a failure is only logged.
Notify(whom) == mail' \in {mail, mail \cup {whom}}

Init ==
  /\ part \in {"tickets", "list", "form"}
  /\ tickets = [t \in Tickets |-> NoRow]
  /\ subscriber = NoRow
  /\ contact_messages = [new |-> 0, handled |-> 0]
  /\ mail = {}
  /\ work = [h \in Handlers |-> Idle]
  /\ entangled = {} /\ clicked = "none" /\ raced = FALSE
  /\ sent = 0 /\ faults = 0

----------------------------------------------------------------------------
(* Tickets. *)

\* createTicket counts what is not closed, then inserts the row, then its first message.
CountTickets(h) ==
  /\ part = "tickets" /\ At(h, "idle")
  /\ Cardinality({ t \in Tickets : tickets[t].status \in {"open", "answered"} }) < MAX_OPEN_TICKETS
  /\ Become(h, [at |-> "counted"])
  /\ UNCHANGED <<tickets, subscriber, contact_messages, mail, entangled, clicked, raced, sent, faults, part>>

InsertTicket(h, t) ==
  /\ At(h, "counted") /\ ~Exists(t) /\ t \notin entangled
  /\ tickets' = [tickets EXCEPT ![t] = [status |-> "open", thread |-> <<>>]]
  /\ Become(h, [at |-> "inserted", ticket |-> t])
  /\ UNCHANGED <<subscriber, contact_messages, mail, entangled, clicked, raced, sent, faults, part>>

\* Without its first message the ticket is taken back, if that call gets through.
TakeBack(h) ==
  /\ At(h, "empty")
  /\ \/ tickets' = [tickets EXCEPT ![work[h].ticket] = NoRow] /\ NoFault /\ UNCHANGED entangled
     \/ Fault /\ entangled' = entangled \cup {work[h].ticket} /\ UNCHANGED tickets
  /\ Become(h, Idle)
  /\ UNCHANGED <<subscriber, contact_messages, mail, clicked, raced, sent, part>>

FirstMessage(h) ==
  /\ At(h, "inserted")
  /\ LET t == work[h].ticket IN
     \/ /\ tickets' = [tickets EXCEPT ![t].thread = Append(@, "customer")]
        /\ Become(h, Idle) /\ NoFault
        /\ Notify("operator")
     \/ Fault /\ Become(h, [at |-> "empty", ticket |-> t]) /\ UNCHANGED <<tickets, mail>>
  /\ UNCHANGED <<subscriber, contact_messages, entangled, clicked, raced, sent, part>>

\* replyToTicket and answerTicket: the ticket is looked up, then the message goes in, then
\* the status follows from who wrote it.
Find(h, t, who) ==
  /\ At(h, "idle") /\ Exists(t)
  /\ Len(tickets[t].thread) < MaxMessages
  /\ Become(h, [at |-> "found", ticket |-> t, who |-> who])
  /\ Entangle(t)
  /\ UNCHANGED <<tickets, subscriber, contact_messages, mail, clicked, raced, sent, faults, part>>

\* A message into a ticket that was taken back meanwhile is refused.
InsertMessage(h) ==
  /\ At(h, "found")
  /\ LET t == work[h].ticket IN
     IF Exists(t)
     THEN /\ tickets' = [tickets EXCEPT ![t].thread = Append(@, work[h].who)]
          /\ Become(h, [at |-> "written", ticket |-> t, who |-> work[h].who])
     ELSE Become(h, Idle) /\ UNCHANGED tickets
  /\ UNCHANGED <<subscriber, contact_messages, mail, entangled, clicked, raced, sent, faults, part>>

\* Mutant: a reply leaves the ticket as it was.
statusAfterKept(t, who) == IF who = "support" THEN "answered" ELSE tickets[t].status
\* Whoever writes again has not had their answer, whatever the status said.
statusAfter(t, who) == IF who = "support" THEN "answered" ELSE "open"

\* Whether the status was written is not looked at. The other side is told.
SetStatus(h) ==
  /\ At(h, "written")
  /\ LET t == work[h].ticket IN
     /\ \/ /\ NoFault /\ UNCHANGED entangled
           /\ tickets' = IF ~Exists(t) THEN tickets
                         ELSE [tickets EXCEPT ![t].status = statusAfter(t, work[h].who)]
        \/ Fault /\ entangled' = entangled \cup {t} /\ UNCHANGED tickets
     /\ Notify(IF work[h].who = "support" THEN "customer" ELSE "operator")
  /\ Become(h, Idle)
  /\ UNCHANGED <<subscriber, contact_messages, clicked, raced, sent, part>>

\* closeTicket, and the operator's close and reopen: one update.
Set(t, status) ==
  /\ Exists(t) /\ status \in {"open", "closed"} /\ tickets[t].status # status
  /\ tickets' = [tickets EXCEPT ![t].status = status]
  /\ Entangle(t)
  /\ UNCHANGED <<subscriber, contact_messages, mail, work, clicked, raced, sent, faults, part>>

----------------------------------------------------------------------------
(* The mailing list. *)

Forms == { h \in Handlers : work[h].at \in {"new", "known"} }

\* The sign-up form looks the address up. One that is confirmed hears nothing.
SignUp(h) ==
  /\ part = "list" /\ At(h, "idle") /\ sent < MaxSignUps /\ sent' = sent + 1
  /\ IF subscriber = NoRow THEN Become(h, [at |-> "new"])
     ELSE IF subscriber.confirmed THEN UNCHANGED work
     ELSE Become(h, [at |-> "known"])
  /\ UNCHANGED <<tickets, subscriber, contact_messages, mail, entangled, clicked, raced, faults, part>>

\* The address is unique: of two first sign-ups one is refused. Then the link is mailed.
InsertSubscriber(h) ==
  /\ At(h, "new")
  /\ IF subscriber = NoRow
     THEN subscriber' = [status |-> "row", confirmed |-> FALSE, left |-> FALSE] /\ mail' = mail \cup {"links"}
     ELSE UNCHANGED <<subscriber, mail>>
  /\ Become(h, Idle)
  /\ UNCHANGED <<tickets, contact_messages, entangled, clicked, raced, sent, faults, part>>

\* An address that asked before and never confirmed loses its unsubscribe stamp.
ClearStamp(h) ==
  /\ At(h, "known")
  /\ subscriber' = [subscriber EXCEPT !.left = FALSE]
  /\ mail' = mail \cup {"links"}
  /\ Become(h, Idle)
  /\ UNCHANGED <<tickets, contact_messages, entangled, clicked, raced, sent, faults, part>>

\* Both links carry the same token, which never changes.
Confirm ==
  /\ "links" \in mail /\ clicked # "confirm"
  /\ subscriber' = [subscriber EXCEPT !.confirmed = TRUE, !.left = FALSE]
  /\ clicked' = "confirm" /\ raced' = (raced \/ Forms # {})
  /\ UNCHANGED <<tickets, contact_messages, mail, work, entangled, sent, faults, part>>

Unsubscribe ==
  /\ "links" \in mail /\ clicked # "leave"
  /\ subscriber' = [subscriber EXCEPT !.left = TRUE]
  /\ clicked' = "leave" /\ raced' = (raced \/ Forms # {})
  /\ UNCHANGED <<tickets, contact_messages, mail, work, entangled, sent, faults, part>>

----------------------------------------------------------------------------
(* The contact form, and the operator's list of messages. *)

Contact ==
  /\ part = "form" /\ sent < MaxSignUps /\ sent' = sent + 1
  /\ contact_messages' = [contact_messages EXCEPT !.new = @ + 1]
  /\ Notify("operator")
  /\ UNCHANGED <<tickets, subscriber, work, entangled, clicked, raced, faults, part>>

\* The mark is read, then turned over: two at once turn it over once.
ReadMark(h, mark) ==
  /\ At(h, "idle") /\ contact_messages[mark] > 0
  /\ Become(h, [at |-> "mark", was |-> mark])
  /\ UNCHANGED <<tickets, subscriber, contact_messages, mail, entangled, clicked, raced, sent, faults, part>>
Toggle(h) ==
  /\ At(h, "mark")
  /\ LET was == work[h].was  now == IF was = "new" THEN "handled" ELSE "new" IN
     contact_messages' = IF contact_messages[was] = 0 THEN contact_messages
                         ELSE [contact_messages EXCEPT ![was] = @ - 1, ![now] = @ + 1]
  /\ Become(h, Idle)
  /\ UNCHANGED <<tickets, subscriber, mail, entangled, clicked, raced, sent, faults, part>>
DeleteMessage(mark) ==
  /\ contact_messages[mark] > 0
  /\ contact_messages' = [contact_messages EXCEPT ![mark] = @ - 1]
  /\ UNCHANGED <<tickets, subscriber, mail, work, entangled, clicked, raced, sent, faults, part>>

\* A function that is ended leaves what it wrote.
Ended(h) ==
  /\ ~At(h, "idle") /\ Fault
  /\ entangled' = entangled \cup { t \in Tickets : h \in OnTicket(t) }
  /\ Become(h, Idle)
  /\ UNCHANGED <<tickets, subscriber, contact_messages, mail, clicked, raced, sent, part>>

Next ==
  \/ \E h \in Handlers : CountTickets(h) \/ FirstMessage(h) \/ TakeBack(h) \/ InsertMessage(h)
                         \/ SetStatus(h) \/ SignUp(h) \/ InsertSubscriber(h) \/ ClearStamp(h) \/ Toggle(h) \/ Ended(h)
  \/ \E h \in Handlers, t \in Tickets : InsertTicket(h, t)
  \/ \E h \in Handlers, t \in Tickets, who \in {"customer", "support"} : Find(h, t, who)
  \/ \E t \in Tickets, status \in Status : Set(t, status)
  \/ \E mark \in {"new", "handled"}, h \in Handlers : ReadMark(h, mark)
  \/ \E mark \in {"new", "handled"} : DeleteMessage(mark)
  \/ Confirm \/ Unsubscribe \/ Contact
Spec == Init /\ [][Next]_vars

----------------------------------------------------------------------------

\* Nobody is left waiting unseen: a ticket whose last word is the customer's is in the
\* operator's queue, or was closed after it, unless two people wrote at once or a write was
\* lost.
NobodyForgotten ==
  \A t \in Tickets \ entangled :
    OnTicket(t) = {} /\ Exists(t) /\ tickets[t].status = "answered" => Last(tickets[t].thread) = "support"

\* A thread nobody can answer is not left in the queue: a ticket without a message is being
\* opened, or the call that takes it back was lost.
NoEmptyTicket ==
  \A t \in Tickets \ entangled : Exists(t) /\ OnTicket(t) = {} => tickets[t].thread # <<>>

\* Whoever left the list is on it again only by a click of their own, whatever forms are
\* sent in with the address, unless one was in flight at the click.
LeftStaysLeft ==
  ~raced /\ clicked = "leave" => subscriber.left \/ ~subscriber.confirmed

=============================================================================
