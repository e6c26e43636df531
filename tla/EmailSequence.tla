--------------------------- MODULE EmailSequence ---------------------------
(***************************************************************************)
(* The mail of one sequence of one sender (lib/email/send.ts,              *)
(* lib/email/suppression.ts, supabase/014, and the routes and the page     *)
(* that write the same tables).                                            *)
(*                                                                         *)
(* A run of the scheduler takes the enrollments that are due, reads the    *)
(* suppression list once, and then works through its batch: claim a        *)
(* message row, call the provider, write the outcome, move the enrollment  *)
(* on.  Each of those is an await, so runs that overlap, a provider event, *)
(* an unsubscribe and the sender's own requests interleave between any     *)
(* two, and a run may be cut off there.                                    *)
(***************************************************************************)
EXTENDS Integers, FiniteSets

CONSTANTS
  Enrolls,      \* email_enrollments.id, one per lead put into the sequence
  Addresses, Address,  \* the addresses, and the one each enrollment writes to
  Length,       \* the number of the sequence's steps
  Blocked,      \* the enrollments whose message sendBlockers refuses
  Runs,         \* runs of the scheduler that may overlap
  Tasks,        \* concurrent requests to the routes and the unsubscribe page
  Kinds,        \* the provider's events an instance lets happen
  Timeouts,     \* whether a provider call may be lost after the mail went out
  MaxFaults,    \* how often the provider fails or the domain is not verified
  MaxLosses,    \* how many runs are cut off and how many calls fail unnoticed
  NoEnroll

ASSUME EmailAssumption ==
  /\ Address \in [Enrolls -> Addresses]
  /\ Length \in Nat \ {0}
  /\ Blocked \subseteq Enrolls
  /\ Kinds \subseteq {"delivered", "bounced", "complained"}
  /\ Timeouts \in BOOLEAN
  /\ MaxFaults \in Nat /\ MaxLosses \in Nat
  /\ NoEnroll \notin Enrolls

VARIABLES
  sequence,     \* email_sequences.status, or "deleted"
  status,       \* email_enrollments.status, "none" before the row and "deleted" after
  lastStep,     \* email_enrollments.last_step
  nextRun,      \* email_enrollments.next_run_at: null, in the future, or due
  message,      \* email_messages.status of each enrollment and step, or "none"
  suppressed,   \* email_suppressions
  copies,       \* how many copies of each step the provider sent out
  run,          \* the runs of the scheduler
  task,         \* the requests in flight
  faults,       \* how many failures of the provider there were; only the bound reads it
  cuts, lost    \* how many runs were cut off, and calls to the database lost

enrollments == <<status, lastStep, nextRun>>
counters == <<faults, cuts, lost>>
vars == <<sequence, status, lastStep, nextRun, message, suppressed, copies, run, task,
          faults, cuts, lost>>

Positions == 1..Length
Slots == Enrolls \X Positions
Free == [at |-> "free"]

\* The states of a message row that carries the provider's id
Identified == {"sent", "delivered", "bounced", "complained"}
EventKinds == {"delivered", "bounced", "complained"}

RunRecords ==
  [at: {"sender", "next", "send", "sent", "advance", "failed", "unclaim", "refused", "stop"},
   todo: SUBSET Enrolls, read: [Enrolls -> 0..Length], listed: SUBSET Addresses,
   began: SUBSET Addresses, now: Enrolls \cup {NoEnroll}]
TaskRecords ==
  [at: {"list", "insert"}, enroll: Enrolls, step: {1}, to: {"draft", "active", "paused"}]
    \cup [at: {"queue"}, enroll: {NoEnroll}, step: {1}, to: {"active", "paused"}]
    \cup [at: {"mark"}, enroll: Enrolls, step: Positions, to: EventKinds]
    \cup [at: {"suppress", "stop"}, enroll: Enrolls, step: Positions,
          to: {"unsubscribed", "bounced", "complained"}]

Init ==
  /\ sequence = "draft"
  /\ status = [e \in Enrolls |-> "none"]
  /\ lastStep = [e \in Enrolls |-> 0]
  /\ nextRun = [e \in Enrolls |-> "null"]
  /\ message = [s \in Slots |-> "none"]
  /\ suppressed = {}
  /\ copies = [s \in Slots |-> 0]
  /\ run = [r \in Runs |-> Free]
  /\ task = [t \in Tasks |-> Free]
  /\ faults = 0 /\ cuts = 0 /\ lost = 0

-----------------------------------------------------------------------------
(* Building blocks *)

HasRow(e) == status[e] \notin {"none", "deleted"}
Due(e) == status[e] = "active" /\ nextRun[e] = "due"

\* UPDATE email_enrollments ... WHERE id: no row, no effect, and no look at the status.
EndEnrollment(e, newStatus) ==
  /\ status' = IF HasRow(e) THEN [status EXCEPT ![e] = newStatus] ELSE status
  /\ nextRun' = IF HasRow(e) THEN [nextRun EXCEPT ![e] = "null"] ELSE nextRun
  /\ UNCHANGED lastStep

\* UPDATE email_messages ... WHERE enrollment_id AND step_position
SetMessage(s, newStatus) ==
  message' = IF message[s] = "none" THEN message ELSE [message EXCEPT ![s] = newStatus]

Slot(r) == <<run[r].now, run[r].read[run[r].now] + 1>>

\* On to the next enrollment of the batch, or out of the loop when there is none.
Leave(r, e) ==
  IF run[r].todo = {e} THEN run' = [run EXCEPT ![r] = Free]
  ELSE run' = [run EXCEPT ![r].at = "next", ![r].todo = run[r].todo \ {e},
                          ![r].read[e] = 0, ![r].now = NoEnroll]

Goto(r, at) == run' = [run EXCEPT ![r].at = at]

Fail == faults < MaxFaults /\ faults' = faults + 1 /\ UNCHANGED <<cuts, lost>>
NoFault == UNCHANGED counters

\* supabase-js reports a failed call in a field most of these calls do not look at: a read
\* is then empty, and a write did nothing.
Lose == cuts + lost < MaxLosses /\ lost' = lost + 1 /\ UNCHANGED <<faults, cuts>>

-----------------------------------------------------------------------------
(* runDueSteps *)

RunStart(r) ==
  LET due == {e \in Enrolls : Due(e)} IN
  /\ run[r] = Free
  /\ due # {}
  /\ run' = [run EXCEPT ![r] =
               [at |-> "sender", todo |-> due,
                read |-> [e \in Enrolls |-> IF e \in due THEN lastStep[e] ELSE 0],
                listed |-> {}, began |-> suppressed, now |-> NoEnroll]]
  /\ UNCHANGED <<sequence, enrollments, message, suppressed, copies, task, counters>>

\* The sender's identity, which ends the batch when its domain is not verified, and the
\* suppression list, once for the whole batch; a list that cannot be read lists nobody.
ListNobody(r) ==
  /\ run[r].at = "sender"
  /\ Goto(r, "next") /\ NoFault
  /\ UNCHANGED <<sequence, enrollments, message, suppressed, copies, task>>

ReadSender(r) ==
  /\ run[r].at = "sender"
  /\ \/ /\ run' = [run EXCEPT ![r].at = "next",
                     ![r].listed = {Address[e] : e \in run[r].todo} \cap suppressed]
        /\ NoFault
     \/ Goto(r, "next") /\ Lose
     \/ /\ run' = [run EXCEPT ![r] = Free]
        /\ Fail
  /\ UNCHANGED <<sequence, enrollments, message, suppressed, copies, task>>

Listed(r, e) == Address[e] \in run[r].listed
Over(r, e) == run[r].read[e] = Length

\* An enrollment that is not to be mailed: suppressed, out of steps, or with a blocker
SkipStatus(r, e) ==
  IF Listed(r, e) THEN "unsubscribed" ELSE IF Over(r, e) THEN "finished" ELSE "stopped"

Skip(r, e) ==
  /\ run[r].at = "next" /\ e \in run[r].todo
  /\ Listed(r, e) \/ Over(r, e) \/ e \in Blocked
  /\ EndEnrollment(e, SkipStatus(r, e))
  /\ Leave(r, e)
  /\ UNCHANGED <<sequence, message, suppressed, copies, task, counters>>

\* A step that cannot be read is taken for the end of the sequence.
SkipUnread(r, e) ==
  /\ run[r].at = "next" /\ e \in run[r].todo
  /\ ~Listed(r, e)
  /\ EndEnrollment(e, "finished")
  /\ Leave(r, e)
  /\ Lose
  /\ UNCHANGED <<sequence, message, suppressed, copies, task>>

\* The claim: an insert that the unique index on (enrollment, step) refuses when there
\* is a row, and the foreign key when there is no enrollment.
ClaimableAgain(s) == HasRow(s[1])
Claimable(s) == message[s] = "none" /\ HasRow(s[1])

Claim(r, e) ==
  LET s == <<e, run[r].read[e] + 1>> IN
  /\ run[r].at = "next" /\ e \in run[r].todo
  /\ ~(Listed(r, e) \/ Over(r, e) \/ e \in Blocked)
  /\ IF Claimable(s)
     THEN /\ message' = [message EXCEPT ![s] = "queued"]
          /\ run' = [run EXCEPT ![r].at = "send", ![r].now = e]
     ELSE Leave(r, e) /\ UNCHANGED message
  /\ UNCHANGED <<sequence, enrollments, suppressed, copies, task, counters>>

\* providerSend: accepted; refused for good; worth another try, and then the mail may
\* have gone out all the same when no answer came.
SendOut(r, n) == copies' = [copies EXCEPT ![Slot(r)] = copies[Slot(r)] + n]

Send(r) ==
  /\ run[r].at = "send"
  /\ \/ Goto(r, "sent") /\ SendOut(r, 1) /\ NoFault
     \/ Goto(r, "refused") /\ SendOut(r, 0) /\ Fail
     \/ Goto(r, "failed") /\ SendOut(r, 0) /\ Fail
     \/ Timeouts /\ Goto(r, "failed") /\ SendOut(r, 1) /\ Fail
  /\ UNCHANGED <<sequence, enrollments, message, suppressed, task>>

MarkSent(r) ==
  /\ run[r].at = "sent"
  /\ SetMessage(Slot(r), "sent")
  /\ Goto(r, "advance")
  /\ UNCHANGED <<sequence, enrollments, suppressed, copies, task, counters>>

\* The enrollment moves on, whatever became of it since the batch was read, and is finished
\* when no next step is found.
MoveOn(e, p, next) ==
  IF HasRow(e)
  THEN /\ lastStep' = [lastStep EXCEPT ![e] = p]
       /\ status' = [status EXCEPT ![e] = IF next THEN "active" ELSE "finished"]
       /\ nextRun' = [nextRun EXCEPT ![e] = IF next THEN "later" ELSE "null"]
  ELSE UNCHANGED enrollments

Advance(r) ==
  LET e == run[r].now
      p == Slot(r)[2] IN
  /\ run[r].at = "advance"
  /\ \/ MoveOn(e, p, p < Length) /\ NoFault
     \/ MoveOn(e, p, FALSE) /\ Lose
  /\ Leave(r, e)
  /\ UNCHANGED <<sequence, message, suppressed, copies, task>>

MoveOnFailed(r) ==
  /\ run[r].at \in {"failed", "refused"}
  /\ SetMessage(Slot(r), "failed")
  /\ Goto(r, IF run[r].at = "failed" THEN "advance" ELSE "stop")
  /\ UNCHANGED <<sequence, enrollments, suppressed, copies, task, counters>>

MarkFailed(r) ==
  /\ run[r].at \in {"failed", "refused"}
  /\ SetMessage(Slot(r), "failed")
  /\ Goto(r, IF run[r].at = "failed" THEN "unclaim" ELSE "stop")
  /\ UNCHANGED <<sequence, enrollments, suppressed, copies, task, counters>>

KeepClaim(r) ==
  /\ run[r].at = "unclaim"
  /\ Leave(r, run[r].now)
  /\ UNCHANGED <<sequence, enrollments, message, suppressed, copies, task, counters>>

\* Worth another try: the claim is deleted, so that the next run tries again.
Unclaim(r) ==
  /\ run[r].at = "unclaim"
  /\ message' = [message EXCEPT ![Slot(r)] = "none"]
  /\ Leave(r, run[r].now)
  /\ UNCHANGED <<sequence, enrollments, suppressed, copies, task, counters>>

Stop(r) ==
  /\ run[r].at = "stop"
  /\ EndEnrollment(run[r].now, "stopped")
  /\ Leave(r, run[r].now)
  /\ UNCHANGED <<sequence, message, suppressed, copies, task, counters>>

AfterRecord(at) == IF at = "sent" THEN "advance" ELSE IF at = "failed" THEN "unclaim" ELSE "stop"

\* A write that fails: the run goes on as after one that did not, except from a claim.
LoseWrite(r) ==
  /\ \/ run[r].at = "next" /\ \E e \in run[r].todo : Leave(r, e)
     \/ run[r].at \in {"sent", "failed", "refused"} /\ Goto(r, AfterRecord(run[r].at))
     \/ run[r].at \in {"advance", "unclaim", "stop"} /\ Leave(r, run[r].now)
  /\ Lose
  /\ UNCHANGED <<sequence, enrollments, message, suppressed, copies, task>>

\* The platform ends a run at its time limit, wherever it is.
Cut(r) ==
  /\ run[r] # Free
  /\ cuts + lost < MaxLosses
  /\ cuts' = cuts + 1
  /\ run' = [run EXCEPT ![r] = Free]
  /\ UNCHANGED <<sequence, enrollments, message, suppressed, copies, task, faults, lost>>

Proceed(r) ==
  \/ ReadSender(r)
  \/ \E e \in Enrolls : Skip(r, e) \/ SkipUnread(r, e) \/ Claim(r, e)
  \/ Send(r)
  \/ MarkSent(r)
  \/ Advance(r)
  \/ MarkFailed(r)
  \/ Unclaim(r)
  \/ Stop(r)
-----------------------------------------------------------------------------
(* The sender's requests: app/api/email/enroll and app/api/email/sequences *)

Begin(t, at, e, p, to) ==
  /\ task[t] = Free
  /\ task' = [task EXCEPT ![t] = [at |-> at, enroll |-> e, step |-> p, to |-> to]]

Then(t, at) == task' = [task EXCEPT ![t].at = at]
Answered(t) == task' = [task EXCEPT ![t] = Free]

\* enroll: the sequence, the suppression list, then an insert that ignores a lead that
\* is in the sequence already and that a deleted sequence refuses.
EnrollRead(t, e) ==
  /\ sequence # "deleted"
  /\ Begin(t, "list", e, 1, sequence)
  /\ UNCHANGED <<sequence, enrollments, message, suppressed, copies, run, counters>>

EnrollList(t) ==
  /\ task[t].at = "list"
  /\ \/ /\ IF Address[task[t].enroll] \in suppressed THEN Answered(t) ELSE Then(t, "insert")
        /\ NoFault
     \/ Then(t, "insert") /\ Lose
  /\ UNCHANGED <<sequence, enrollments, message, suppressed, copies, run>>

EnrollInsert(t) ==
  LET e == task[t].enroll IN
  /\ task[t].at = "insert"
  /\ IF sequence # "deleted" /\ status[e] = "none"
     THEN /\ status' = [status EXCEPT ![e] = "active"]
          /\ nextRun' = [nextRun EXCEPT ![e] = IF task[t].to = "active" THEN "due" ELSE "null"]
     ELSE UNCHANGED <<status, nextRun>>
  /\ Answered(t)
  /\ UNCHANGED <<sequence, lastStep, message, suppressed, copies, run, counters>>

\* PATCH: the sequence, then its queue.
Patch(t, to) ==
  /\ sequence # "deleted"
  /\ sequence' = to
  /\ IF to = "draft" THEN task[t] = Free /\ UNCHANGED task
     ELSE Begin(t, "queue", NoEnroll, 1, to)
  /\ UNCHANGED <<enrollments, message, suppressed, copies, run, counters>>

PatchQueue(t) ==
  /\ task[t].at = "queue"
  /\ nextRun' = [e \in Enrolls |->
                   IF status[e] # "active" THEN nextRun[e]
                   ELSE IF task[t].to = "paused" THEN "null"
                   ELSE IF nextRun[e] = "null" THEN "due" ELSE nextRun[e]]
  /\ Answered(t)
  /\ UNCHANGED <<sequence, status, lastStep, message, suppressed, copies, run, counters>>

\* DELETE: enrollments and messages cascade, suppressions do not.
DeleteSequence ==
  /\ sequence # "deleted"
  /\ sequence' = "deleted"
  /\ status' = [e \in Enrolls |-> IF HasRow(e) THEN "deleted" ELSE status[e]]
  /\ lastStep' = [e \in Enrolls |-> 0]
  /\ nextRun' = [e \in Enrolls |-> "null"]
  /\ message' = [s \in Slots |-> "none"]
  /\ UNCHANGED <<suppressed, copies, run, task, counters>>

-----------------------------------------------------------------------------
(* The other side: the unsubscribe page, opened from a mail that arrived, and the *)
(* provider's events.  An event finds its row by the provider's id or is dropped. *)

Unsubscribe(t, e) ==
  /\ \E p \in Positions : copies[<<e, p>>] > 0
  /\ HasRow(e)
  /\ Begin(t, "suppress", e, 1, "unsubscribed")
  /\ UNCHANGED <<sequence, enrollments, message, suppressed, copies, run, counters>>

Event(t, e, p, kind) ==
  /\ message[<<e, p>>] \in Identified
  /\ Begin(t, "mark", e, p, kind)
  /\ UNCHANGED <<sequence, enrollments, message, suppressed, copies, run, counters>>

EventMark(t) ==
  /\ task[t].at = "mark"
  /\ SetMessage(<<task[t].enroll, task[t].step>>, task[t].to)
  /\ IF task[t].to = "delivered" THEN Answered(t) ELSE Then(t, "suppress")
  /\ UNCHANGED <<sequence, enrollments, suppressed, copies, run, counters>>

\* The list first: it is what the runs check.
Suppress(t) ==
  /\ task[t].at = "suppress"
  /\ suppressed' = suppressed \cup {Address[task[t].enroll]}
  /\ Then(t, "stop")
  /\ UNCHANGED <<sequence, enrollments, message, copies, run, counters>>

StopEnrollment(t) ==
  /\ task[t].at = "stop"
  /\ EndEnrollment(task[t].enroll, IF task[t].to = "bounced" THEN "bounced" ELSE "unsubscribed")
  /\ Answered(t)
  /\ UNCHANGED <<sequence, message, suppressed, copies, run, counters>>

\* A request that is cut off, or whose write fails
TaskCut(t) ==
  /\ task[t] # Free
  /\ Answered(t)
  /\ UNCHANGED <<sequence, enrollments, message, suppressed, copies, run, counters>>

TaskStep(t) ==
  \/ \E e \in Enrolls :
       \/ EnrollRead(t, e)
       \/ Unsubscribe(t, e)
       \/ \E p \in Positions, kind \in Kinds : Event(t, e, p, kind)
  \/ \E to \in {"draft", "active", "paused"} : Patch(t, to)
  \/ EnrollList(t)
  \/ EnrollInsert(t)
  \/ PatchQueue(t)
  \/ EventMark(t)
  \/ Suppress(t)
  \/ StopEnrollment(t)
  \/ TaskCut(t)

\* next_run_at comes.
Ripen(e) ==
  /\ nextRun[e] = "later"
  /\ nextRun' = [nextRun EXCEPT ![e] = "due"]
  /\ UNCHANGED <<sequence, status, lastStep, message, suppressed, copies, run, task, counters>>

Next ==
  \/ \E r \in Runs : RunStart(r) \/ Proceed(r) \/ LoseWrite(r) \/ Cut(r)
  \/ \E t \in Tasks : TaskStep(t)
  \/ DeleteSequence
  \/ \E e \in Enrolls : Ripen(e)

Spec == Init /\ [][Next]_vars

\* The scheduler calls every day, a run that was not cut off goes on, and days pass.
FairSpec ==
  /\ Spec
  /\ WF_vars(\E r \in Runs : RunStart(r))
  /\ \A r \in Runs : WF_vars(Proceed(r))
  /\ \A e \in Enrolls : WF_vars(Ripen(e))

-----------------------------------------------------------------------------
(* Properties *)

EmailTypeOK ==
  /\ sequence \in {"draft", "active", "paused", "deleted"}
  /\ status \in [Enrolls -> {"none", "active", "finished", "stopped", "bounced",
                             "unsubscribed", "deleted"}]
  /\ lastStep \in [Enrolls -> 0..Length]
  /\ nextRun \in [Enrolls -> {"null", "later", "due"}]
  /\ message \in [Slots -> Identified \cup {"none", "queued", "failed"}]
  /\ suppressed \subseteq Addresses
  /\ copies \in [Slots -> Nat]
  /\ run \in [Runs -> RunRecords \cup {Free}]
  /\ task \in [Tasks -> TaskRecords \cup {Free}]
  /\ faults \in 0..MaxFaults /\ cuts \in Nat /\ lost \in Nat /\ cuts + lost <= MaxLosses

\* "NEVER send twice" (014:15): whatever runs overlap and wherever they are cut off,
\* nobody gets the same step of a sequence twice.
SentOnce == \A s \in Slots : copies[s] <= 1

\* The steps arrive in order and none is left out: an enrollment that is past a step has
\* mailed it, no step is mailed before the one in front of it (014:128-130), and unless a
\* read was lost an enrollment is finished after its last step only (send.ts:133).
StepsInOrder ==
  \A e \in Enrolls : \A p \in Positions :
    /\ lastStep[e] >= p => copies[<<e, p>>] > 0
    /\ HasRow(e) /\ copies[<<e, p>>] > 0 => lastStep[e] >= p - 1
    /\ status[e] = "finished" /\ lost = 0 => lastStep[e] = Length

\* "NEVER send to a suppressed address" (014:11): a run mails nobody who was on the
\* list before the run began, whatever the enrollments say, unless a read was lost.
Mails(r, e) == run[r].at = "send" /\ run[r].now = e /\ copies' # copies /\ run'[r] # run[r]
MailStops ==
  [][\A r \in Runs : \A e \in Enrolls : Mails(r, e) /\ lost = 0 => Address[e] \notin run[r].began]_vars

\* "A permanent failure stops the enrollment. Retrying a rejected address forever is how
\* a sender ends up on a blocklist" (send.ts:16-17): once no run is busy with it, an
\* enrollment with a refused message is not active, unless a run was cut off or lost a write.
RefusalEnds ==
  \A s \in Slots :
    message[s] = "failed" /\ (\A r \in Runs : run[r] = Free \/ run[r].now # s[1]) /\ cuts + lost = 0
    => status[s[1]] # "active"

\* What SentOnce and StepsInOrder rest on.  A run at work on an enrollment holds a claim
\* that no other run holds, for the step after the one the enrollment is at, and the mail
\* of that step has gone out or not according to where the run is; whatever has gone out
\* for an enrollment that is still there is claimed (send.ts:173-175); and the position a
\* batch was read with is never ahead of the enrollment or of the mail.
Working(r) == run[r].at \in {"send", "sent", "advance", "failed", "unclaim", "refused", "stop"}

Placed ==
  \A r \in Runs : Working(r) => run[r].now \in run[r].todo /\ Slot(r) \in Slots

BatchBehind ==
  \A r \in Runs : run[r].at # "free" => \A e \in run[r].todo :
    /\ status[e] # "none"
    /\ HasRow(e) => run[r].read[e] <= lastStep[e]
    /\ \A p \in Positions : p <= run[r].read[e] => copies[<<e, p>>] > 0

ClaimHeld ==
  \A r \in Runs : Working(r) =>
    /\ HasRow(run[r].now) =>
         message[Slot(r)] # "none" /\ lastStep[run[r].now] = run[r].read[run[r].now]
    /\ run[r].at \in {"send", "failed", "unclaim"} => copies[Slot(r)] = 0
    /\ run[r].at \in {"sent", "advance"} => copies[Slot(r)] > 0

ClaimsApart ==
  \A r, q \in Runs : Working(r) /\ Working(q) /\ Slot(r) = Slot(q) => r = q

CopiesClaimed ==
  \A s \in Slots : copies[s] > 0 => status[s[1]] # "none" /\ (HasRow(s[1]) => message[s] # "none")

MailInv ==
  EmailTypeOK /\ Placed /\ SentOnce /\ StepsInOrder /\ BatchBehind /\ ClaimHeld
    /\ ClaimsApart /\ CopiesClaimed

\* "Runs on a schedule, takes whatever is due, and sends it" (send.ts:8): while the
\* sequence is not paused, an enrollment comes to an end, provided no run is cut off or
\* loses a write.
Waiting(e) == status[e] = "active" /\ nextRun[e] # "null"
SequenceEnds == \A e \in Enrolls : Waiting(e) ~> ~Waiting(e) \/ cuts + lost > 0
=============================================================================
