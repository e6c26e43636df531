------------------------ MODULE EmailSequenceProofs ------------------------
(***************************************************************************)
(* Theorems about EmailSequence, for any enrollments, steps, overlapping   *)
(* runs and requests, and any number of failures and cuts.                 *)
(***************************************************************************)
EXTENDS EmailSequence, TLAPS

-----------------------------------------------------------------------------
(* What the steps of a run do to its record *)

RunKeys == {"at", "todo", "read", "listed", "began", "now"}

LEMMA RunRecord ==
  ASSUME EmailTypeOK, NEW r \in Runs, run[r].at # "free"
  PROVE  /\ run[r] \in RunRecords
         /\ run[r] # Free
BY DEF EmailTypeOK, Free, RunRecords

LEMMA TaskRecord ==
  ASSUME EmailTypeOK, NEW t \in Tasks, task[t].at # "free"
  PROVE  /\ task[t] \in TaskRecords
         /\ task[t] # Free
BY DEF EmailTypeOK, Free, TaskRecords

\* Going on with the same enrollment changes nothing but the place.
LEMMA GotoEffect ==
  ASSUME EmailTypeOK, NEW r \in Runs, run[r].at # "free", NEW at, Goto(r, at)
  PROVE  /\ \A q \in Runs \ {r} : run'[q] = run[q]
         /\ run'[r] = [run[r] EXCEPT !.at = at]
         /\ at \in {"next", "send", "sent", "advance", "failed", "unclaim", "refused", "stop"}
              => run' \in [Runs -> RunRecords \cup {Free}]
<1> USE RunRecord
<1>1. run \in [Runs -> RunRecords \cup {Free}]
  BY DEF EmailTypeOK
<1>2. run' = [run EXCEPT ![r].at = at]
  BY DEF Goto
<1>3. [run[r] EXCEPT !.at = at] \in RunRecords \/
      at \notin {"next", "send", "sent", "advance", "failed", "unclaim", "refused", "stop"}
  BY DEF RunRecords
<1> QED
  BY <1>1, <1>2, <1>3

\* Leaving an enrollment takes it off the batch.
LEMMA LeaveEffect ==
  ASSUME EmailTypeOK, NEW r \in Runs, run[r].at # "free",
         NEW e \in Enrolls, Leave(r, e)
  PROVE  /\ \A q \in Runs \ {r} : run'[q] = run[q]
         /\ run' \in [Runs -> RunRecords \cup {Free}]
         /\ \/ run'[r] = Free
            \/ /\ run'[r].at = "next"
               /\ run'[r].todo = run[r].todo \ {e}
               /\ \A f \in Enrolls \ {e} : run'[r].read[f] = run[r].read[f]
               /\ run'[r].listed = run[r].listed
               /\ run'[r].began = run[r].began
<1>1. run \in [Runs -> RunRecords \cup {Free}] /\ run[r] \in RunRecords
  BY RunRecord DEF EmailTypeOK
<1>2. CASE run[r].todo = {e}
  BY <1>1, <1>2 DEF Leave
<1>3. CASE run[r].todo # {e}
  <2> DEFINE read == [run[r].read EXCEPT ![e] = 0]
             next == [at |-> "next", todo |-> run[r].todo \ {e}, read |-> read,
                      listed |-> run[r].listed, began |-> run[r].began, now |-> NoEnroll]
  <2>1. run' = [run EXCEPT ![r] = next]
    BY <1>1, <1>3 DEF Leave, RunRecords
  <2>0. read \in [Enrolls -> 0..Length] /\ run[r].todo \ {e} \in SUBSET Enrolls
    BY <1>1, EmailAssumption DEF RunRecords
  <2>2. next \in RunRecords
    <3> HIDE DEF read
    <3> QED
      BY <1>1, <2>0 DEF RunRecords
  <2>3. /\ next.at = "next"
        /\ next.todo = run[r].todo \ {e}
        /\ \A f \in Enrolls \ {e} : next.read[f] = run[r].read[f]
        /\ next.listed = run[r].listed
        /\ next.began = run[r].began
    BY <1>1 DEF RunRecords
  <2> HIDE DEF next
  <2> QED
    BY <1>1, <2>1, <2>2, <2>3
<1> QED
  BY <1>2, <1>3

\* A request enters, goes on and is answered with well-typed fields.
LEMMA TaskEffect ==
  ASSUME EmailTypeOK, NEW t \in Tasks
  PROVE  /\ \A at, e, p, to :
              /\ Begin(t, at, e, p, to)
              /\ [at |-> at, enroll |-> e, step |-> p, to |-> to] \in TaskRecords
              => task' \in [Tasks -> TaskRecords \cup {Free}]
         /\ \A at :
              /\ Then(t, at)
              /\ task[t].at # "free"
              /\ [task[t] EXCEPT !.at = at] \in TaskRecords
              => task' \in [Tasks -> TaskRecords \cup {Free}]
         /\ Answered(t) => task' \in [Tasks -> TaskRecords \cup {Free}]
<1>1. task \in [Tasks -> TaskRecords \cup {Free}]
  BY DEF EmailTypeOK
<1>2. ASSUME NEW at, Then(t, at), [task[t] EXCEPT !.at = at] \in TaskRecords
      PROVE  task' \in [Tasks -> TaskRecords \cup {Free}]
  BY <1>1, <1>2 DEF Then
<1>3. ASSUME NEW at, NEW e, NEW p, NEW to, Begin(t, at, e, p, to),
             [at |-> at, enroll |-> e, step |-> p, to |-> to] \in TaskRecords
      PROVE  task' \in [Tasks -> TaskRecords \cup {Free}]
  BY <1>1, <1>3 DEF Begin
<1>4. Answered(t) => task' \in [Tasks -> TaskRecords \cup {Free}]
  BY <1>1 DEF Answered
<1> QED
  BY <1>2, <1>3, <1>4

-----------------------------------------------------------------------------
(* Type correctness *)

Counted == faults \in 0..MaxFaults /\ cuts \in Nat /\ lost \in Nat /\ cuts + lost <= MaxLosses

LEMMA TypeInit == Init => EmailTypeOK
BY EmailAssumption DEF Init, EmailTypeOK, Slots

\* The steps of a run keep the types.
LEMMA ProceedType ==
  ASSUME EmailTypeOK, Placed, NEW r \in Runs, RunStart(r) \/ Proceed(r) \/ LoseWrite(r) \/ Cut(r)
  PROVE  EmailTypeOK'
<1> USE EmailAssumption DEF Identified
<1>a. Working(r) => run[r].now \in Enrolls /\ Slot(r) \in Slots
  BY RunRecord DEF Placed, Working, RunRecords
<1>b. NoFault \/ Fail \/ Lose => Counted'
  BY DEF NoFault, Fail, Lose, counters, Counted, EmailTypeOK
<1>1. CASE RunStart(r)
  <2> DEFINE due == {e \in Enrolls : Due(e)}
             new == [at |-> "sender", todo |-> due,
                     read |-> [e \in Enrolls |-> IF e \in due THEN lastStep[e] ELSE 0],
                     listed |-> {}, began |-> suppressed, now |-> NoEnroll]
  <2>1. new \in RunRecords
    BY DEF EmailTypeOK, RunRecords
  <2>2. run' = [run EXCEPT ![r] = new]
    BY <1>1 DEF RunStart
  <2> HIDE DEF new
  <2> QED
    BY <1>1, <2>1, <2>2 DEF RunStart, EmailTypeOK, enrollments, counters
<1>2. CASE ReadSender(r)
  <2> DEFINE listed == {Address[e] : e \in run[r].todo} \cap suppressed
             new == [run[r] EXCEPT !.at = "next", !.listed = listed]
  <2>1. run[r] \in RunRecords
    BY <1>2, RunRecord DEF ReadSender
  <2>2. new \in RunRecords
    BY <2>1 DEF EmailTypeOK, RunRecords
  <2>3. \/ run' = [run EXCEPT ![r] = new] \/ run' = [run EXCEPT ![r] = Free]
        \/ Goto(r, "next")
    BY <1>2, <2>1 DEF ReadSender, EmailTypeOK
  <2>4. run' \in [Runs -> RunRecords \cup {Free}]
    <3>1. Goto(r, "next") => run' \in [Runs -> RunRecords \cup {Free}]
      BY <1>2, GotoEffect DEF ReadSender
    <3> HIDE DEF new
    <3> QED
      BY <2>2, <2>3, <3>1 DEF EmailTypeOK
  <2>5. Counted'
    BY <1>2, <1>b DEF ReadSender
  <2> QED
    BY <1>2, <2>4, <2>5 DEF ReadSender, EmailTypeOK, enrollments, Counted
<1>3. ASSUME NEW e \in Enrolls, Skip(r, e)
      PROVE  EmailTypeOK'
  <2>1. run' \in [Runs -> RunRecords \cup {Free}]
    BY <1>3, LeaveEffect DEF Skip
  <2>2. SkipStatus(r, e) \in {"unsubscribed", "finished", "stopped"}
    BY DEF SkipStatus
  <2> QED
    BY <1>3, <2>1, <2>2 DEF Skip, EndEnrollment, EmailTypeOK, counters
<1>4. ASSUME NEW e \in Enrolls, Claim(r, e)
      PROVE  EmailTypeOK'
  <2>1. run[r] \in RunRecords
    BY <1>4, RunRecord DEF Claim
  <2>2. [run[r] EXCEPT !.at = "send", !.now = e] \in RunRecords
    BY <2>1 DEF RunRecords
  <2>3. run' \in [Runs -> RunRecords \cup {Free}]
    <3>1. Leave(r, e) => run' \in [Runs -> RunRecords \cup {Free}]
      BY <1>4, LeaveEffect DEF Claim
    <3>2. [run EXCEPT ![r].at = "send", ![r].now = e]
            = [run EXCEPT ![r] = [run[r] EXCEPT !.at = "send", !.now = e]]
      BY <2>1 DEF EmailTypeOK
    <3>3. [run EXCEPT ![r] = [run[r] EXCEPT !.at = "send", !.now = e]]
            \in [Runs -> RunRecords \cup {Free}]
      BY <2>2 DEF EmailTypeOK
    <3> QED
      BY <1>4, <3>1, <3>2, <3>3 DEF Claim
  <2> QED
    BY <1>4, <2>3 DEF Claim, EmailTypeOK, enrollments, counters
<1>5. CASE Send(r)
  <2>1. run' \in [Runs -> RunRecords \cup {Free}]
    BY <1>5, GotoEffect DEF Send
  <2>2. copies' \in [Slots -> Nat]
    BY <1>5 DEF Send, SendOut, EmailTypeOK
  <2>3. Counted'
    BY <1>5, <1>b DEF Send
  <2> QED
    BY <1>5, <2>1, <2>2, <2>3 DEF Send, EmailTypeOK, enrollments, Counted
<1>6. CASE MarkSent(r)
  <2>1. run' \in [Runs -> RunRecords \cup {Free}]
    BY <1>6, GotoEffect DEF MarkSent
  <2> QED
    BY <1>6, <2>1 DEF MarkSent, SetMessage, EmailTypeOK, enrollments, counters
<1>7. CASE Advance(r)
  <2>1. run' \in [Runs -> RunRecords \cup {Free}]
    BY <1>7, <1>a, LeaveEffect DEF Advance, Working
  <2>2. Slot(r)[2] \in 0..Length
    BY <1>7, <1>a DEF Advance, Working, Slot, Slots, Positions
  <2>3. Counted'
    BY <1>7, <1>b DEF Advance
  <2>4. UNCHANGED enrollments \/ \E next \in BOOLEAN :
          /\ lastStep' = [lastStep EXCEPT ![run[r].now] = Slot(r)[2]]
          /\ status' = [status EXCEPT ![run[r].now] = IF next THEN "active" ELSE "finished"]
          /\ nextRun' = [nextRun EXCEPT ![run[r].now] = IF next THEN "later" ELSE "null"]
    BY <1>7, Zenon DEF Advance, MoveOn
  <2>5. UNCHANGED <<sequence, message, suppressed, copies, task>>
    BY <1>7 DEF Advance
  <2> QED
    BY <2>1, <2>2, <2>3, <2>4, <2>5 DEF EmailTypeOK, enrollments, Counted
<1>8. CASE MarkFailed(r)
  <2>1. run' \in [Runs -> RunRecords \cup {Free}]
    BY <1>8, GotoEffect DEF MarkFailed
  <2> QED
    BY <1>8, <2>1 DEF MarkFailed, SetMessage, EmailTypeOK, enrollments, counters
<1>9. CASE Unclaim(r)
  <2>1. run' \in [Runs -> RunRecords \cup {Free}]
    BY <1>9, <1>a, LeaveEffect DEF Unclaim, Working
  <2> QED
    BY <1>9, <2>1 DEF Unclaim, EmailTypeOK, enrollments, counters
<1>10. CASE Stop(r)
  <2>1. run' \in [Runs -> RunRecords \cup {Free}]
    BY <1>10, <1>a, LeaveEffect DEF Stop, Working
  <2> QED
    BY <1>10, <2>1 DEF Stop, EndEnrollment, EmailTypeOK, counters
<1>11. CASE Cut(r)
  BY <1>11 DEF Cut, EmailTypeOK, enrollments
<1>12. ASSUME NEW e \in Enrolls, SkipUnread(r, e)
       PROVE  EmailTypeOK'
  <2>1. run' \in [Runs -> RunRecords \cup {Free}]
    BY <1>12, LeaveEffect DEF SkipUnread
  <2>2. Counted'
    BY <1>12, <1>b DEF SkipUnread
  <2> QED
    BY <1>12, <2>1, <2>2 DEF SkipUnread, EndEnrollment, EmailTypeOK, Counted
<1>13. CASE LoseWrite(r)
  <2>1. run' \in [Runs -> RunRecords \cup {Free}]
    <3>1. run[r].at # "free"
      BY <1>13 DEF LoseWrite
    <3>2. \/ \E e \in Enrolls : Leave(r, e)
          \/ Goto(r, AfterRecord(run[r].at))
      BY <1>13, <1>a, <3>1, RunRecord DEF LoseWrite, RunRecords, Working
    <3>3. AfterRecord(run[r].at) \in {"advance", "unclaim", "stop"}
      BY DEF AfterRecord
    <3> QED
      BY <3>1, <3>2, <3>3, LeaveEffect, GotoEffect
  <2>2. Counted'
    BY <1>13, <1>b DEF LoseWrite
  <2> QED
    BY <1>13, <2>1, <2>2 DEF LoseWrite, EmailTypeOK, enrollments, Counted
<1> QED
  BY <1>1, <1>2, <1>3, <1>4, <1>5, <1>6, <1>7, <1>8, <1>9, <1>10, <1>11, <1>12, <1>13
  DEF Proceed

\* So do requests, the deletion of the sequence and the passing of time.
LEMMA OtherType ==
  ASSUME EmailTypeOK,
         (\E t \in Tasks : TaskStep(t)) \/ DeleteSequence \/ (\E e \in Enrolls : Ripen(e))
  PROVE  EmailTypeOK'
<1> USE EmailAssumption DEF EventKinds
<1>a. 1 \in Positions
  BY DEF Positions
<1>1. ASSUME NEW t \in Tasks, NEW e \in Enrolls, EnrollRead(t, e)
      PROVE  EmailTypeOK'
  <2>1. sequence \in {"draft", "active", "paused"}
    BY <1>1 DEF EnrollRead, EmailTypeOK
  <2>2. [at |-> "list", enroll |-> e, step |-> 1, to |-> sequence] \in TaskRecords
    BY <2>1 DEF TaskRecords
  <2>3. task' \in [Tasks -> TaskRecords \cup {Free}]
    BY <1>1, <2>2, TaskEffect DEF EnrollRead
  <2> QED
    BY <1>1, <2>3 DEF EnrollRead, EmailTypeOK, enrollments, counters
<1>2. ASSUME NEW t \in Tasks, NEW e \in Enrolls, Unsubscribe(t, e)
      PROVE  EmailTypeOK'
  <2>1. [at |-> "suppress", enroll |-> e, step |-> 1, to |-> "unsubscribed"] \in TaskRecords
    BY <1>a DEF TaskRecords
  <2>2. task' \in [Tasks -> TaskRecords \cup {Free}]
    BY <1>2, <2>1, TaskEffect DEF Unsubscribe
  <2> QED
    BY <1>2, <2>2 DEF Unsubscribe, EmailTypeOK, enrollments, counters
<1>3. ASSUME NEW t \in Tasks, NEW e \in Enrolls, NEW p \in Positions,
             NEW kind \in Kinds, Event(t, e, p, kind)
      PROVE  EmailTypeOK'
  <2>1. [at |-> "mark", enroll |-> e, step |-> p, to |-> kind] \in TaskRecords
    BY <1>3, EmailAssumption DEF TaskRecords
  <2>2. task' \in [Tasks -> TaskRecords \cup {Free}]
    BY <1>3, <2>1, TaskEffect DEF Event
  <2> QED
    BY <1>3, <2>2 DEF Event, EmailTypeOK, enrollments, counters
<1>4. ASSUME NEW t \in Tasks, NEW to \in {"draft", "active", "paused"}, Patch(t, to)
      PROVE  EmailTypeOK'
  <2>1. to # "draft" => [at |-> "queue", enroll |-> NoEnroll, step |-> 1, to |-> to] \in TaskRecords
    BY DEF TaskRecords
  <2>2. task' \in [Tasks -> TaskRecords \cup {Free}]
    BY <1>4, <2>1, TaskEffect DEF Patch, EmailTypeOK
  <2> QED
    BY <1>4, <2>2 DEF Patch, EmailTypeOK, enrollments, counters
<1>5. ASSUME NEW t \in Tasks, EnrollList(t)
      PROVE  EmailTypeOK'
  <2>1. task[t] \in TaskRecords
    BY <1>5, TaskRecord DEF EnrollList
  <2>2. [task[t] EXCEPT !.at = "insert"] \in TaskRecords
    BY <1>5, <2>1 DEF EnrollList, TaskRecords
  <2>3. task' \in [Tasks -> TaskRecords \cup {Free}]
    BY <1>5, <2>2, TaskEffect DEF EnrollList
  <2>4. Counted'
    BY <1>5 DEF EnrollList, NoFault, Lose, counters, Counted, EmailTypeOK
  <2> QED
    BY <1>5, <2>3, <2>4 DEF EnrollList, EmailTypeOK, enrollments, Counted
<1>6. ASSUME NEW t \in Tasks, EnrollInsert(t)
      PROVE  EmailTypeOK'
  <2>1. task' \in [Tasks -> TaskRecords \cup {Free}]
    BY <1>6, TaskEffect DEF EnrollInsert
  <2> QED
    BY <1>6, <2>1 DEF EnrollInsert, EmailTypeOK, counters
<1>7. ASSUME NEW t \in Tasks, PatchQueue(t)
      PROVE  EmailTypeOK'
  <2>1. task' \in [Tasks -> TaskRecords \cup {Free}]
    BY <1>7, TaskEffect DEF PatchQueue
  <2> QED
    BY <1>7, <2>1 DEF PatchQueue, EmailTypeOK, counters
<1>8. ASSUME NEW t \in Tasks, EventMark(t)
      PROVE  EmailTypeOK'
  <2>1. task[t] \in TaskRecords
    BY <1>8, TaskRecord DEF EventMark
  <2>2. /\ task[t].to \in {"delivered", "bounced", "complained"}
        /\ task[t].to # "delivered" => [task[t] EXCEPT !.at = "suppress"] \in TaskRecords
    BY <1>8, <2>1 DEF EventMark, TaskRecords
  <2>3. task' \in [Tasks -> TaskRecords \cup {Free}]
    BY <1>8, <2>2, TaskEffect DEF EventMark
  <2>4. message' \in [Slots -> Identified \cup {"none", "queued", "failed"}]
    <3> DEFINE s == <<task[t].enroll, task[t].step>>
    <3>1. task[t].to \in Identified
      BY <2>2 DEF Identified
    <3>2. message' = IF message[s] = "none" THEN message
                     ELSE [message EXCEPT ![s] = task[t].to]
      BY <1>8 DEF EventMark, SetMessage
    <3> HIDE DEF s
    <3> QED
      BY <3>1, <3>2 DEF EmailTypeOK
  <2> QED
    BY <1>8, <2>3, <2>4 DEF EventMark, EmailTypeOK, enrollments, counters
<1>9. ASSUME NEW t \in Tasks, Suppress(t)
      PROVE  EmailTypeOK'
  <2>1. task[t] \in TaskRecords
    BY <1>9, TaskRecord DEF Suppress
  <2>2. task[t].enroll \in Enrolls /\ [task[t] EXCEPT !.at = "stop"] \in TaskRecords
    BY <1>9, <2>1 DEF Suppress, TaskRecords
  <2>3. task' \in [Tasks -> TaskRecords \cup {Free}]
    BY <1>9, <2>2, TaskEffect DEF Suppress
  <2> QED
    BY <1>9, <2>2, <2>3 DEF Suppress, EmailTypeOK, enrollments, counters
<1>10. ASSUME NEW t \in Tasks, StopEnrollment(t)
       PROVE  EmailTypeOK'
  <2>1. task' \in [Tasks -> TaskRecords \cup {Free}]
    BY <1>10, TaskEffect DEF StopEnrollment
  <2> QED
    BY <1>10, <2>1 DEF StopEnrollment, EndEnrollment, EmailTypeOK, counters
<1>11. ASSUME NEW t \in Tasks, TaskCut(t)
       PROVE  EmailTypeOK'
  <2>1. task' \in [Tasks -> TaskRecords \cup {Free}]
    BY <1>11, TaskEffect DEF TaskCut
  <2> QED
    BY <1>11, <2>1 DEF TaskCut, EmailTypeOK, enrollments, counters
<1>12. CASE DeleteSequence
  BY <1>12 DEF DeleteSequence, EmailTypeOK, counters
<1>13. ASSUME NEW e \in Enrolls, Ripen(e)
       PROVE  EmailTypeOK'
  BY <1>13 DEF Ripen, EmailTypeOK, counters
<1> QED
  BY <1>1, <1>2, <1>3, <1>4, <1>5, <1>6, <1>7, <1>8, <1>9, <1>10, <1>11, <1>12, <1>13
  DEF TaskStep

-----------------------------------------------------------------------------
(* The steps that send nothing, claim nothing and move no enrollment on *)

Core == Placed /\ SentOnce /\ StepsInOrder /\ BatchBehind /\ ClaimHeld /\ ClaimsApart
          /\ CopiesClaimed

\* Rows stay what they are or go; none comes back.
RowsKept ==
  /\ copies' = copies
  /\ \A e \in Enrolls : status[e] # "none" => status'[e] # "none"
  /\ \A e \in Enrolls : HasRow(e)' /\ status[e] # "none" => HasRow(e) /\ lastStep'[e] = lastStep[e]
  /\ \A e \in Enrolls : lastStep'[e] <= lastStep[e]
  /\ \A s \in Slots : HasRow(s[1])' /\ message[s] # "none" => message'[s] # "none"
  /\ lost' = 0 => lost = 0 /\ \A e \in Enrolls :
       status'[e] = "finished" => status[e] = "finished" \/ (HasRow(e) /\ lastStep[e] = Length)

\* A run takes enrollments off its batch, or goes on with the one it holds.
Drops(r) ==
  /\ run'[r].at \in {"free", "next"}
  /\ run'[r].at = "next" =>
       /\ run[r].at # "free" /\ run'[r].todo \subseteq run[r].todo
       /\ \A e \in run'[r].todo : run'[r].read[e] = run[r].read[e]

Unsent == {"send", "failed", "unclaim"}
Out == {"sent", "advance"}
GoesOn(r) ==
  /\ Working(r) /\ Working(r)'
  /\ run'[r].todo = run[r].todo /\ run'[r].read = run[r].read /\ run'[r].now = run[r].now
  /\ run'[r].at \in Unsent => run[r].at \in Unsent
  /\ run'[r].at \in Out => run[r].at \in Out

RunKept(r) == run'[r] = run[r] \/ Drops(r) \/ GoesOn(r)

\* A lost call is never undone.
LEMMA LostGrows ==
  ASSUME EmailTypeOK, NoFault \/ Fail \/ Lose \/ lost' = lost
  PROVE  lost' = 0 => lost = 0
BY DEF EmailTypeOK, NoFault, Fail, Lose, counters

\* Such a step keeps everything.
LEMMA KeepsCore ==
  ASSUME EmailTypeOK, EmailTypeOK', Core, RowsKept, \A r \in Runs : RunKept(r)
  PROVE  Core'
<1>1. \A r \in Runs : Working(r)' => Working(r) /\ Slot(r)' = Slot(r) /\ run'[r].now = run[r].now
                                     /\ run'[r].todo = run[r].todo /\ run'[r].read = run[r].read
  BY DEF RunKept, Drops, GoesOn, Working, Slot
<1>2. \A r \in Runs : Working(r) => run[r].now \in Enrolls /\ Slot(r) \in Slots
                                    /\ status[run[r].now] # "none"
  <2>1. \A r \in Runs : Working(r) => run[r].at # "free" /\ run[r].todo \subseteq Enrolls
    BY RunRecord DEF Working, RunRecords
  <2> QED
    BY <2>1 DEF Core, Placed, BatchBehind
<1>3. Placed'
  BY <1>1 DEF Core, Placed
<1>4. SentOnce'
  BY DEF Core, SentOnce, RowsKept
<1>5. StepsInOrder'
  <2> SUFFICES ASSUME NEW e \in Enrolls, NEW p \in Positions
               PROVE  /\ lastStep'[e] >= p => copies[<<e, p>>] > 0
                      /\ HasRow(e)' /\ copies[<<e, p>>] > 0 => lastStep'[e] >= p - 1
                      /\ status'[e] = "finished" /\ lost' = 0 => lastStep'[e] = Length
    BY DEF StepsInOrder, RowsKept
  <2>0. p \in Int /\ lastStep[e] \in Int /\ lastStep'[e] \in Int /\ lastStep'[e] <= lastStep[e]
    BY EmailAssumption DEF EmailTypeOK, Positions, RowsKept
  <2>1. /\ lastStep[e] >= p => copies[<<e, p>>] > 0
        /\ HasRow(e) /\ copies[<<e, p>>] > 0 => lastStep[e] >= p - 1
    BY DEF Core, StepsInOrder
  <2>2. copies[<<e, p>>] > 0 => status[e] # "none"
    BY DEF Core, CopiesClaimed, Slots
  <2>3. HasRow(e)' /\ status[e] # "none" => HasRow(e) /\ lastStep'[e] = lastStep[e]
    BY DEF RowsKept
  <2>4. ASSUME status'[e] = "finished", lost' = 0
        PROVE  lastStep'[e] = Length
    <3>1. HasRow(e)' /\ (status[e] = "finished" \/ (HasRow(e) /\ lastStep[e] = Length)) /\ lost = 0
      BY <2>4 DEF RowsKept, HasRow
    <3>2. status[e] # "none" /\ lastStep[e] = Length
      BY <3>1 DEF HasRow, Core, StepsInOrder
    <3> QED
      BY <2>3, <3>1, <3>2
  <2> QED
    BY <2>0, <2>1, <2>2, <2>3, <2>4
<1>6. BatchBehind'
  <2> SUFFICES ASSUME NEW r \in Runs, run'[r].at # "free", NEW e \in run'[r].todo
               PROVE  /\ status'[e] # "none"
                      /\ HasRow(e)' => run'[r].read[e] <= lastStep'[e]
                      /\ \A p \in Positions : p <= run'[r].read[e] => copies[<<e, p>>] > 0
    BY DEF BatchBehind, RowsKept
  <2>1. run[r].at # "free" /\ e \in run[r].todo /\ run'[r].read[e] = run[r].read[e]
    BY DEF RunKept, Drops, GoesOn, Working
  <2>2. e \in Enrolls
    BY <2>1, RunRecord DEF RunRecords
  <2>3. /\ status[e] # "none"
        /\ HasRow(e) => run[r].read[e] <= lastStep[e]
        /\ \A p \in Positions : p <= run[r].read[e] => copies[<<e, p>>] > 0
    BY <2>1 DEF Core, BatchBehind
  <2> QED
    BY <2>1, <2>2, <2>3 DEF RowsKept
<1>7. ClaimHeld'
  <2> SUFFICES ASSUME NEW r \in Runs, Working(r)'
               PROVE  /\ HasRow(run[r].now)' =>
                           message'[Slot(r)'] # "none" /\ lastStep'[run'[r].now] = run'[r].read[run'[r].now]
                      /\ run'[r].at \in {"send", "failed", "unclaim"} => copies[Slot(r)'] = 0
                      /\ run'[r].at \in {"sent", "advance"} => copies[Slot(r)'] > 0
    BY DEF ClaimHeld, RowsKept
  <2>0. PICK e \in Enrolls : e = run[r].now
    BY <1>1, <1>2
  <2>1. /\ HasRow(e) => message[Slot(r)] # "none" /\ lastStep[e] = run[r].read[e]
        /\ run[r].at \in {"send", "failed", "unclaim"} => copies[Slot(r)] = 0
        /\ run[r].at \in {"sent", "advance"} => copies[Slot(r)] > 0
    BY <1>1, <2>0 DEF Core, ClaimHeld
  <2>2. Slot(r)[1] = e /\ Slot(r) \in Slots /\ status[e] # "none"
    BY <1>1, <1>2, <2>0 DEF Slot
  <2>3. /\ run'[r].at \in Unsent => run[r].at \in Unsent
        /\ run'[r].at \in Out => run[r].at \in Out
    BY DEF RunKept, Drops, GoesOn, Working
  <2>4. HasRow(e)' => HasRow(e) /\ lastStep'[e] = lastStep[e]
    BY <2>2 DEF RowsKept
  <2>5. HasRow(e)' => message'[Slot(r)] # "none"
    BY <2>1, <2>2, <2>4 DEF RowsKept
  <2>6. run'[r].now = e /\ Slot(r)' = Slot(r) /\ run'[r].read = run[r].read
    BY <1>1, <2>0
  <2>7. HasRow(run[r].now)' <=> HasRow(e)'
    BY <2>6 DEF HasRow
  <2> QED
    BY <2>1, <2>3, <2>4, <2>5, <2>6, <2>7 DEF Unsent, Out
<1>8. ClaimsApart'
  BY <1>1 DEF Core, ClaimsApart
<1>9. CopiesClaimed'
  <2> SUFFICES ASSUME NEW s \in Slots, copies[s] > 0
               PROVE  status'[s[1]] # "none" /\ (HasRow(s[1])' => message'[s] # "none")
    BY DEF CopiesClaimed, RowsKept
  <2>1. s[1] \in Enrolls
    BY DEF Slots
  <2>2. status[s[1]] # "none" /\ (HasRow(s[1]) => message[s] # "none")
    BY DEF Core, CopiesClaimed
  <2> QED
    BY <2>1, <2>2 DEF RowsKept
<1> QED
  BY <1>3, <1>4, <1>5, <1>6, <1>7, <1>8, <1>9 DEF Core

\* A run that leaves an enrollment is at work on none.
LEMMA LeaveKept ==
  ASSUME EmailTypeOK, NEW r \in Runs, run[r].at # "free", NEW e \in Enrolls, Leave(r, e)
  PROVE  /\ \A q \in Runs : RunKept(q)
         /\ ~Working(r)'
         /\ Drops(r)
<1>1. Drops(r)
  <2>1. CASE run'[r] = Free
    BY <2>1 DEF Drops, Free
  <2>2. CASE /\ run'[r].at = "next"
             /\ run'[r].todo = run[r].todo \ {e}
             /\ \A f \in Enrolls \ {e} : run'[r].read[f] = run[r].read[f]
    <3>1. run[r].todo \subseteq Enrolls
      BY RunRecord DEF RunRecords
    <3> QED
      BY <2>2, <3>1 DEF Drops
  <2> QED
    BY <2>1, <2>2, LeaveEffect
<1>2. \A q \in Runs \ {r} : run'[q] = run[q]
  BY LeaveEffect
<1> QED
  BY <1>1, <1>2 DEF RunKept, Drops, Working

\* Who works on what.
LEMMA WorkedOn ==
  ASSUME EmailTypeOK, Core, NEW r \in Runs, Working(r)
  PROVE  /\ run[r].at # "free" /\ run[r] \in RunRecords
         /\ run[r].now \in Enrolls /\ run[r].now \in run[r].todo
         /\ Slot(r) \in Slots /\ Slot(r) = <<run[r].now, run[r].read[run[r].now] + 1>>
         /\ Slot(r)[1] = run[r].now /\ Slot(r)[2] \in Positions
         /\ run[r].read[run[r].now] \in 0..Length
         /\ Slot(r)[2] = run[r].read[run[r].now] + 1
         /\ status[run[r].now] # "none"
<1>1. run[r].at # "free"
  BY DEF Working
<1>2. run[r] \in RunRecords
  BY <1>1, RunRecord
<1>3. run[r].now \in run[r].todo /\ Slot(r) \in Slots
  BY DEF Core, Placed
<1>4. run[r].now \in Enrolls /\ run[r].read[run[r].now] \in 0..Length
  BY <1>2, <1>3 DEF RunRecords
<1>5. status[run[r].now] # "none"
  BY <1>1, <1>3 DEF Core, BatchBehind
<1> QED
  BY <1>1, <1>2, <1>3, <1>4, <1>5 DEF Slot, Slots

\* Starting a run reads the batch as it is.
LEMMA StartCore ==
  ASSUME EmailTypeOK, Core, NEW r \in Runs, RunStart(r)
  PROVE  Core'
<1> DEFINE due == {e \in Enrolls : Due(e)}
           new == [at |-> "sender", todo |-> due,
                   read |-> [e \in Enrolls |-> IF e \in due THEN lastStep[e] ELSE 0],
                   listed |-> {}, began |-> suppressed, now |-> NoEnroll]
<1>1. run' = [run EXCEPT ![r] = new]
  BY DEF RunStart
<1>2. /\ run'[r] = new
      /\ \A q \in Runs \ {r} : run'[q] = run[q]
  BY <1>1 DEF EmailTypeOK
<1>3. UNCHANGED <<status, lastStep, message, copies, lost>>
  BY DEF RunStart, enrollments, counters
<1>4. ~Working(r)' /\ \A q \in Runs \ {r} : (Working(q)' <=> Working(q)) /\ Slot(q)' = Slot(q)
  BY <1>2 DEF Working, Slot
<1>5. \A e \in Enrolls : HasRow(e)' <=> HasRow(e)
  BY <1>3 DEF HasRow
<1>6. Placed'
  BY <1>2, <1>4 DEF Core, Placed
<1>7. SentOnce' /\ StepsInOrder' /\ CopiesClaimed'
  BY <1>3 DEF Core, SentOnce, StepsInOrder, CopiesClaimed, HasRow
<1>8. BatchBehind'
  <2> SUFFICES ASSUME NEW q \in Runs, run'[q].at # "free", NEW e \in run'[q].todo
               PROVE  /\ status'[e] # "none"
                      /\ HasRow(e)' => run'[q].read[e] <= lastStep'[e]
                      /\ \A p \in Positions : p <= run'[q].read[e] => copies'[<<e, p>>] > 0
    BY DEF BatchBehind
  <2>1. CASE q = r
    <3>1. e \in due /\ run'[q].read[e] = lastStep[e]
      BY <1>2, <2>1
    <3>2. status[e] # "none" /\ e \in Enrolls /\ lastStep[e] \in Int
      BY <3>1, EmailAssumption DEF Due, EmailTypeOK
    <3>3. \A p \in Positions : p <= lastStep[e] => copies[<<e, p>>] > 0
      BY <3>2 DEF Core, StepsInOrder, Positions
    <3> QED
      BY <1>3, <3>1, <3>2, <3>3
  <2>2. CASE q # r
    BY <1>2, <1>3, <2>2 DEF Core, BatchBehind, HasRow
  <2> QED
    BY <2>1, <2>2
<1>9. ClaimHeld'
  BY <1>2, <1>3, <1>4 DEF Core, ClaimHeld, HasRow
<1>10. ClaimsApart'
  BY <1>4 DEF Core, ClaimsApart
<1> QED
  BY <1>6, <1>7, <1>8, <1>9, <1>10 DEF Core

\* A claim is for the step after the one the enrollment is at, and nobody else's.
LEMMA ClaimCore ==
  ASSUME EmailTypeOK, EmailTypeOK', Core, NEW r \in Runs, NEW e \in Enrolls, Claim(r, e)
  PROVE  Core'
<1> DEFINE s == <<e, run[r].read[e] + 1>>
<1>0. UNCHANGED <<status, lastStep, copies, lost>>
  BY DEF Claim, enrollments, counters
<1>1. CASE ~Claimable(s)
  <2>1. Leave(r, e) /\ message' = message
    BY <1>1 DEF Claim
  <2>2. run[r].at # "free"
    BY DEF Claim
  <2>3. RowsKept
    BY <1>0, <2>1, EmailAssumption DEF RowsKept, HasRow, EmailTypeOK
  <2> QED
    BY <2>1, <2>2, <2>3, LeaveKept, KeepsCore
<1>2. CASE Claimable(s)
  <2>1. /\ message' = [message EXCEPT ![s] = "queued"]
        /\ run' = [run EXCEPT ![r].at = "send", ![r].now = e]
        /\ run[r].at = "next" /\ e \in run[r].todo /\ run[r].read[e] # Length
    BY <1>2 DEF Claim, Over
  <2>2. run[r] \in RunRecords /\ ~Working(r)
    BY <2>1, RunRecord DEF Working
  <2>3. /\ \A q \in Runs \ {r} : run'[q] = run[q]
        /\ run'[r].at = "send" /\ run'[r].now = e
        /\ run'[r].todo = run[r].todo /\ run'[r].read = run[r].read
    BY <2>1, <2>2 DEF EmailTypeOK, RunRecords
  <2>4. run[r].read[e] \in 0..Length /\ s \in Slots /\ s[1] = e
    BY <2>1, <2>2, EmailAssumption DEF RunRecords, Slots, Positions
  <2>5. message[s] = "none" /\ HasRow(e)
    BY <1>2, <2>4 DEF Claimable
  <2>6. copies[s] = 0
    BY <2>4, <2>5 DEF Core, CopiesClaimed, EmailTypeOK
  <2>7. lastStep[e] = run[r].read[e]
    <3>1. run[r].read[e] <= lastStep[e]
      BY <2>1, <2>5 DEF Core, BatchBehind
    <3>2. s[2] \in Positions /\ s[2] = run[r].read[e] + 1
      BY <2>4 DEF Slots
    <3>3. lastStep[e] >= s[2] => copies[s] > 0
      BY <3>2 DEF Core, StepsInOrder
    <3>4. lastStep[e] \in Int
      BY DEF EmailTypeOK
    <3> QED
      BY <2>4, <2>6, <3>1, <3>2, <3>3, <3>4
  <2>8. \A q \in Runs \ {r} : Working(q) => Slot(q) # s
    <3> SUFFICES ASSUME NEW q \in Runs \ {r}, Working(q), Slot(q) = s
                 PROVE  FALSE
      OBVIOUS
    <3>1. run[q].now = e
      BY <2>4, WorkedOn
    <3> QED
      BY <2>5, <3>1 DEF Core, ClaimHeld
  <2>9. /\ Working(r)' /\ Slot(r)' = s
        /\ \A q \in Runs \ {r} : (Working(q)' <=> Working(q)) /\ Slot(q)' = Slot(q)
    BY <2>3 DEF Working, Slot
  <2>10. /\ message'[s] = "queued"
         /\ \A m \in Slots \ {s} : message'[m] = message[m]
    BY <2>1, <2>4 DEF EmailTypeOK
  <2>11. Placed'
    BY <2>1, <2>3, <2>4, <2>9 DEF Core, Placed
  <2>12. SentOnce' /\ StepsInOrder'
    BY <1>0 DEF Core, SentOnce, StepsInOrder, HasRow
  <2>13. BatchBehind'
    <3> SUFFICES ASSUME NEW q \in Runs, run'[q].at # "free", NEW f \in run'[q].todo
                 PROVE  /\ status[f] # "none"
                        /\ HasRow(f) => run'[q].read[f] <= lastStep[f]
                        /\ \A p \in Positions : p <= run'[q].read[f] => copies[<<f, p>>] > 0
      BY <1>0 DEF BatchBehind, HasRow
    <3>1. run[q].at # "free" /\ f \in run[q].todo /\ run'[q].read[f] = run[q].read[f]
      BY <2>1, <2>3
    <3> QED
      BY <3>1 DEF Core, BatchBehind
  <2>14. ClaimHeld'
    <3> SUFFICES ASSUME NEW q \in Runs, Working(q)'
                 PROVE  /\ HasRow(run[q].now)' =>
                             message'[Slot(q)'] # "none" /\ lastStep'[run'[q].now] = run'[q].read[run'[q].now]
                        /\ run'[q].at \in {"send", "failed", "unclaim"} => copies'[Slot(q)'] = 0
                        /\ run'[q].at \in {"sent", "advance"} => copies'[Slot(q)'] > 0
      BY DEF ClaimHeld
    <3>1. CASE q = r
      BY <1>0, <2>3, <2>6, <2>7, <2>9, <2>10, <3>1
    <3>2. CASE q # r
      <4>1. Working(q) /\ run'[q] = run[q] /\ Slot(q)' = Slot(q) /\ Slot(q) \in Slots
        BY <2>3, <2>9, <3>2, WorkedOn
      <4>2. message'[Slot(q)] = message[Slot(q)]
        BY <2>8, <2>10, <3>2, <4>1
      <4>3. HasRow(run[q].now)' <=> HasRow(run[q].now)
        BY <1>0, <4>1 DEF HasRow
      <4> QED
        BY <1>0, <4>1, <4>2, <4>3 DEF Core, ClaimHeld
    <3> QED
      BY <3>1, <3>2
  <2>15. ClaimsApart'
    BY <2>8, <2>9 DEF Core, ClaimsApart
  <2>16. CopiesClaimed'
    BY <1>0, <2>10 DEF Core, CopiesClaimed, HasRow
  <2> QED
    BY <2>11, <2>12, <2>13, <2>14, <2>15, <2>16 DEF Core
<1> QED
  BY <1>1, <1>2

\* The provider's answer, when none is lost.
LEMMA SendCore ==
  ASSUME EmailTypeOK, EmailTypeOK', Core, NEW r \in Runs, ~Timeouts, Send(r)
  PROVE  Core'
<1> DEFINE s == Slot(r)
           e == run[r].now
<1>1. UNCHANGED <<status, lastStep, message>> /\ run[r].at = "send" /\ Working(r)
  BY DEF Send, enrollments, Working
<1>0. lost' = 0 => lost = 0
  BY LostGrows DEF Send
<1>2. PICK n \in {0, 1}, at \in {"sent", "refused", "failed"} :
        /\ copies' = [copies EXCEPT ![s] = copies[s] + n]
        /\ Goto(r, at)
        /\ (at = "sent" => n = 1) /\ (at = "failed" => n = 0)
  BY DEF Send, SendOut
<1>3. /\ \A q \in Runs \ {r} : run'[q] = run[q]
      /\ run'[r].at = at /\ run'[r].todo = run[r].todo /\ run'[r].read = run[r].read
      /\ run'[r].now = run[r].now
  <2>1. run[r] \in RunRecords /\ run[r].at # "free"
    BY <1>1, RunRecord
  <2>2. run'[r] = [run[r] EXCEPT !.at = at] /\ \A q \in Runs \ {r} : run'[q] = run[q]
    BY <1>2, <2>1, GotoEffect
  <2> QED
    BY <2>1, <2>2 DEF RunRecords
<1>4. \A q \in Runs : (Working(q)' <=> Working(q)) /\ Slot(q)' = Slot(q)
                        /\ run'[q].now = run[q].now /\ run'[q].todo = run[q].todo
                        /\ run'[q].read = run[q].read
  BY <1>1, <1>2, <1>3 DEF Working, Slot
<1>5. s \in Slots /\ s[1] = e /\ s = <<e, run[r].read[e] + 1>> /\ e \in Enrolls
      /\ s[2] = run[r].read[e] + 1 /\ run[r].read[e] \in Int
  BY <1>1, WorkedOn
<1>6. copies[s] = 0 /\ (HasRow(e) => message[s] # "none" /\ lastStep[e] = run[r].read[e])
      /\ status[e] # "none"
  BY <1>1, WorkedOn DEF Core, ClaimHeld
<1>7. copies'[s] = n /\ \A m \in Slots \ {s} : copies'[m] = copies[m]
  BY <1>2, <1>5, <1>6 DEF EmailTypeOK
<1>8. \A m \in Slots : copies[m] > 0 => copies'[m] > 0
  BY <1>6, <1>7
<1>9. Placed'
  BY <1>4 DEF Core, Placed
<1>10. SentOnce'
  BY <1>7 DEF Core, SentOnce
<1>11. StepsInOrder'
  <2> SUFFICES ASSUME NEW f \in Enrolls, NEW p \in Positions
               PROVE  /\ lastStep[f] >= p => copies'[<<f, p>>] > 0
                      /\ HasRow(f) /\ copies'[<<f, p>>] > 0 => lastStep[f] >= p - 1
                      /\ status[f] = "finished" /\ lost' = 0 => lastStep[f] = Length
    BY <1>1 DEF StepsInOrder, HasRow
  <2>1. <<f, p>> \in Slots
    BY DEF Slots
  <2>2. /\ lastStep[f] >= p => copies[<<f, p>>] > 0
        /\ HasRow(f) /\ copies[<<f, p>>] > 0 => lastStep[f] >= p - 1
        /\ status[f] = "finished" /\ lost' = 0 => lastStep[f] = Length
    BY <1>0 DEF Core, StepsInOrder
  <2>3. CASE <<f, p>> = s
    <3>1. f = e /\ p = run[r].read[e] + 1
      BY <1>5, <2>3
    <3> QED
      BY <1>5, <1>6, <1>8, <2>1, <2>2, <3>1
  <2>4. CASE <<f, p>> # s
    BY <1>7, <2>1, <2>2, <2>4
  <2> QED
    BY <2>3, <2>4
<1>12. BatchBehind'
  <2> SUFFICES ASSUME NEW q \in Runs, run'[q].at # "free", NEW f \in run'[q].todo
               PROVE  /\ status[f] # "none"
                      /\ HasRow(f) => run'[q].read[f] <= lastStep[f]
                      /\ \A p \in Positions : p <= run'[q].read[f] => copies'[<<f, p>>] > 0
    BY <1>1 DEF BatchBehind, HasRow
  <2>1. run[q].at # "free" /\ f \in run[q].todo /\ run'[q].read[f] = run[q].read[f]
    BY <1>1, <1>3, <1>4
  <2>2. f \in Enrolls
    BY <2>1, RunRecord DEF RunRecords
  <2>3. \A p \in Positions : <<f, p>> \in Slots
    BY <2>2 DEF Slots
  <2> QED
    BY <1>8, <2>1, <2>3 DEF Core, BatchBehind
<1>13. ClaimHeld'
  <2> SUFFICES ASSUME NEW q \in Runs, Working(q)'
               PROVE  /\ HasRow(run[q].now)' =>
                           message'[Slot(q)'] # "none" /\ lastStep'[run'[q].now] = run'[q].read[run'[q].now]
                      /\ run'[q].at \in {"send", "failed", "unclaim"} => copies'[Slot(q)'] = 0
                      /\ run'[q].at \in {"sent", "advance"} => copies'[Slot(q)'] > 0
    BY DEF ClaimHeld
  <2>1. Working(q) /\ Slot(q)' = Slot(q) /\ Slot(q) \in Slots
    BY <1>4, WorkedOn
  <2>2. HasRow(run[q].now)' <=> HasRow(run[q].now)
    BY <1>1, <1>4 DEF HasRow
  <2>3. CASE q = r
    BY <1>1, <1>2, <1>3, <1>4, <1>6, <1>7, <2>1, <2>2, <2>3
  <2>4. CASE q # r
    <3>1. Slot(q) # s
      BY <1>1, <2>1, <2>4 DEF Core, ClaimsApart
    <3>2. copies'[Slot(q)] = copies[Slot(q)] /\ run'[q] = run[q]
      BY <1>3, <1>7, <2>1, <2>4, <3>1
    <3> QED
      BY <1>1, <2>1, <2>2, <3>2 DEF Core, ClaimHeld
  <2> QED
    BY <2>3, <2>4
<1>14. ClaimsApart'
  BY <1>4 DEF Core, ClaimsApart
<1>15. CopiesClaimed'
  <2> SUFFICES ASSUME NEW m \in Slots, copies'[m] > 0
               PROVE  status[m[1]] # "none" /\ (HasRow(m[1]) => message[m] # "none")
    BY <1>1 DEF CopiesClaimed, HasRow
  <2>1. CASE m = s
    BY <1>5, <1>6, <2>1
  <2>2. CASE m # s
    BY <1>7, <2>2 DEF Core, CopiesClaimed
  <2> QED
    BY <2>1, <2>2
<1> QED
  BY <1>9, <1>10, <1>11, <1>12, <1>13, <1>14, <1>15 DEF Core

\* Others at work on the enrollment that moves on would hold the same claim.
LEMMA AdvanceCore ==
  ASSUME EmailTypeOK, EmailTypeOK', Core, NEW r \in Runs, Advance(r)
  PROVE  Core'
<1> DEFINE s == Slot(r)
           e == run[r].now
<1>1. run[r].at = "advance" /\ Working(r) /\ UNCHANGED <<message, copies>> /\ Leave(r, e)
  BY DEF Advance, Working
<1>2. /\ run[r].at # "free" /\ e \in Enrolls /\ s \in Slots /\ s[1] = e /\ s[2] \in Positions
      /\ s = <<e, run[r].read[e] + 1>> /\ s[2] = run[r].read[e] + 1
      /\ run[r].read[e] \in 0..Length
  BY <1>1, WorkedOn
<1>3. (\A q \in Runs : RunKept(q)) /\ ~Working(r)' /\ Drops(r)
  BY <1>1, <1>2, LeaveKept
<1>4. \A q \in Runs \ {r} : run'[q] = run[q]
  BY <1>1, <1>2, LeaveEffect
<1>a. lost' = 0 => lost = 0
  BY LostGrows DEF Advance
<1>b. /\ HasRow(e) =>
           /\ lastStep' = [lastStep EXCEPT ![e] = s[2]]
           /\ \/ s[2] < Length /\ status' = [status EXCEPT ![e] = "active"]
              \/ (s[2] >= Length \/ lost' # 0) /\ status' = [status EXCEPT ![e] = "finished"]
      /\ ~HasRow(e) => UNCHANGED <<status, lastStep>>
  <2>1. Lose => lost' # 0
    BY DEF Lose, EmailTypeOK
  <2>2. \/ MoveOn(e, s[2], s[2] < Length)
        \/ MoveOn(e, s[2], FALSE) /\ lost' # 0
    BY <2>1 DEF Advance
  <2>3. s[2] < Length \/ s[2] >= Length
    BY <1>2, EmailAssumption DEF Positions
  <2> QED
    BY <2>2, <2>3 DEF MoveOn, enrollments
<1>5. CASE ~HasRow(e)
  <2>1. UNCHANGED <<status, lastStep>>
    BY <1>b, <1>5
  <2>2. RowsKept
    BY <1>1, <1>a, <2>1, EmailAssumption DEF RowsKept, HasRow, EmailTypeOK
  <2> QED
    BY <1>3, <2>2, KeepsCore
<1>6. CASE HasRow(e)
  <2>1. /\ lastStep' = [lastStep EXCEPT ![e] = s[2]]
        /\ \/ s[2] < Length /\ status' = [status EXCEPT ![e] = "active"]
           \/ (s[2] >= Length \/ lost' # 0) /\ status' = [status EXCEPT ![e] = "finished"]
    BY <1>b, <1>6
  <2>2. /\ lastStep'[e] = run[r].read[e] + 1 /\ lastStep[e] = run[r].read[e]
        /\ copies[s] > 0 /\ message[s] # "none"
    BY <1>1, <1>2, <1>6, <2>1 DEF Core, ClaimHeld, EmailTypeOK
  <2>3. /\ \A f \in Enrolls \ {e} : lastStep'[f] = lastStep[f] /\ status'[f] = status[f]
        /\ status'[e] \in {"active", "finished"}
    BY <1>2, <2>1 DEF EmailTypeOK
  <2>4. \A f \in Enrolls : /\ lastStep'[f] >= lastStep[f] /\ lastStep[f] \in Int /\ lastStep'[f] \in Int
                           /\ (status[f] # "none" <=> status'[f] # "none")
                           /\ (HasRow(f)' <=> HasRow(f))
    BY <1>2, <1>6, <2>2, <2>3, EmailAssumption DEF HasRow, EmailTypeOK
  <2>5. Placed'
    BY <1>3, <1>4 DEF Core, Placed, Working, Slot
  <2>6. SentOnce'
    BY <1>1 DEF Core, SentOnce
  <2>7. StepsInOrder'
    <3> SUFFICES ASSUME NEW f \in Enrolls, NEW p \in Positions
                 PROVE  /\ lastStep'[f] >= p => copies[<<f, p>>] > 0
                        /\ HasRow(f) /\ copies[<<f, p>>] > 0 => lastStep'[f] >= p - 1
                        /\ status'[f] = "finished" /\ lost' = 0 => lastStep'[f] = Length
      BY <1>1, <2>4 DEF StepsInOrder
    <3>1. /\ lastStep[f] >= p => copies[<<f, p>>] > 0
          /\ HasRow(f) /\ copies[<<f, p>>] > 0 => lastStep[f] >= p - 1
          /\ status[f] = "finished" /\ lost' = 0 => lastStep[f] = Length
      BY <1>a DEF Core, StepsInOrder
    <3>2. p \in Int
      BY DEF Positions
    <3>0. ASSUME f = e, status'[e] = "finished", lost' = 0
          PROVE  lastStep'[f] = Length
      <4>1. s[2] >= Length
        BY <1>2, <2>1, <3>0 DEF EmailTypeOK
      <4> QED
        BY <1>2, <2>2, <3>0, <4>1, EmailAssumption DEF Positions
    <3>3. CASE f = e /\ p = run[r].read[e] + 1
      BY <1>2, <2>2, <2>4, <3>0, <3>1, <3>2, <3>3
    <3>4. CASE f = e /\ p # run[r].read[e] + 1
      BY <1>2, <2>2, <2>4, <3>0, <3>1, <3>2, <3>4
    <3>5. CASE f # e
      BY <2>3, <3>1, <3>5
    <3> QED
      BY <3>3, <3>4, <3>5
  <2>8. BatchBehind'
    <3> SUFFICES ASSUME NEW q \in Runs, run'[q].at # "free", NEW f \in run'[q].todo
                 PROVE  /\ status'[f] # "none"
                        /\ HasRow(f)' => run'[q].read[f] <= lastStep'[f]
                        /\ \A p \in Positions : p <= run'[q].read[f] => copies[<<f, p>>] > 0
      BY <1>1 DEF BatchBehind
    <3>1. run[q].at # "free" /\ f \in run[q].todo /\ run'[q].read[f] = run[q].read[f]
      BY <1>3 DEF RunKept, Drops, GoesOn, Working
    <3>2. f \in Enrolls /\ run[q].read[f] \in Int
      BY <3>1, RunRecord, EmailAssumption DEF RunRecords
    <3>3. /\ status[f] # "none"
          /\ HasRow(f) => run[q].read[f] <= lastStep[f]
          /\ \A p \in Positions : p <= run[q].read[f] => copies[<<f, p>>] > 0
      BY <3>1 DEF Core, BatchBehind
    <3> QED
      BY <2>4, <3>1, <3>2, <3>3
  <2>9. ClaimHeld'
    <3> SUFFICES ASSUME NEW q \in Runs, Working(q)'
                 PROVE  /\ HasRow(run[q].now)' =>
                             message'[Slot(q)'] # "none" /\ lastStep'[run'[q].now] = run'[q].read[run'[q].now]
                        /\ run'[q].at \in {"send", "failed", "unclaim"} => copies'[Slot(q)'] = 0
                        /\ run'[q].at \in {"sent", "advance"} => copies'[Slot(q)'] > 0
      BY DEF ClaimHeld
    <3>1. q # r
      BY <1>3
    <3>2. run'[q] = run[q] /\ Slot(q)' = Slot(q) /\ Working(q)
      BY <1>4, <3>1 DEF Working, Slot
    <3>3. PICK f \in Enrolls : f = run[q].now
      BY <3>2, WorkedOn
    <3>4. Slot(q) # s
      BY <1>1, <3>1, <3>2 DEF Core, ClaimsApart
    <3>5. /\ HasRow(f) => message[Slot(q)] # "none" /\ lastStep[f] = run[q].read[f]
          /\ run[q].at \in {"send", "failed", "unclaim"} => copies[Slot(q)] = 0
          /\ run[q].at \in {"sent", "advance"} => copies[Slot(q)] > 0
      BY <3>2, <3>3 DEF Core, ClaimHeld
    <3>6. Slot(q) = <<f, run[q].read[f] + 1>>
      BY <3>3 DEF Slot
    <3>7. HasRow(f) => f # e
      BY <1>2, <2>2, <3>4, <3>5, <3>6
    <3>8. HasRow(run[q].now)' <=> HasRow(f)'
      BY <3>2, <3>3 DEF HasRow
    <3> QED
      BY <1>1, <2>3, <2>4, <3>2, <3>3, <3>5, <3>7, <3>8
  <2>10. ClaimsApart'
    BY <1>3, <1>4 DEF Core, ClaimsApart, Working, Slot
  <2>11. CopiesClaimed'
    BY <1>1, <2>4 DEF Core, CopiesClaimed, Slots
  <2> QED
    BY <2>5, <2>6, <2>7, <2>8, <2>9, <2>10, <2>11 DEF Core
<1> QED
  BY <1>5, <1>6

\* A claim is given up by its holder only, and when nothing went out on it.
LEMMA UnclaimCore ==
  ASSUME EmailTypeOK, EmailTypeOK', Core, NEW r \in Runs, Unclaim(r)
  PROVE  Core'
<1> DEFINE s == Slot(r)
           e == run[r].now
<1>1. /\ run[r].at = "unclaim" /\ Working(r) /\ UNCHANGED <<status, lastStep, copies, lost>>
      /\ message' = [message EXCEPT ![s] = "none"] /\ Leave(r, e)
  BY DEF Unclaim, Working, enrollments, counters
<1>2. run[r].at # "free" /\ e \in Enrolls /\ s \in Slots
  BY <1>1, WorkedOn
<1>3. (\A q \in Runs : RunKept(q)) /\ ~Working(r)' /\ Drops(r)
  BY <1>1, <1>2, LeaveKept
<1>4. \A q \in Runs \ {r} : run'[q] = run[q]
  BY <1>1, <1>2, LeaveEffect
<1>5. copies[s] = 0
  BY <1>1 DEF Core, ClaimHeld
<1>6. \A m \in Slots \ {s} : message'[m] = message[m]
  BY <1>1, <1>2 DEF EmailTypeOK
<1>7. Placed'
  BY <1>3, <1>4 DEF Core, Placed, Working, Slot
<1>8. SentOnce' /\ StepsInOrder'
  BY <1>1 DEF Core, SentOnce, StepsInOrder, HasRow
<1>9. BatchBehind'
  <2> SUFFICES ASSUME NEW q \in Runs, run'[q].at # "free", NEW f \in run'[q].todo
               PROVE  /\ status[f] # "none"
                      /\ HasRow(f) => run'[q].read[f] <= lastStep[f]
                      /\ \A p \in Positions : p <= run'[q].read[f] => copies[<<f, p>>] > 0
    BY <1>1 DEF BatchBehind, HasRow
  <2>1. run[q].at # "free" /\ f \in run[q].todo /\ run'[q].read[f] = run[q].read[f]
    BY <1>3 DEF RunKept, Drops, GoesOn, Working
  <2> QED
    BY <2>1 DEF Core, BatchBehind
<1>10. ClaimHeld'
  <2> SUFFICES ASSUME NEW q \in Runs, Working(q)'
               PROVE  /\ HasRow(run[q].now)' =>
                           message'[Slot(q)'] # "none" /\ lastStep'[run'[q].now] = run'[q].read[run'[q].now]
                      /\ run'[q].at \in {"send", "failed", "unclaim"} => copies'[Slot(q)'] = 0
                      /\ run'[q].at \in {"sent", "advance"} => copies'[Slot(q)'] > 0
    BY DEF ClaimHeld
  <2>1. q # r
    BY <1>3
  <2>2. run'[q] = run[q] /\ Slot(q)' = Slot(q) /\ Working(q) /\ Slot(q) \in Slots
    BY <1>4, <2>1, WorkedOn DEF Working, Slot
  <2>3. Slot(q) # s
    BY <1>1, <2>1, <2>2 DEF Core, ClaimsApart
  <2>4. HasRow(run[q].now)' <=> HasRow(run[q].now)
    BY <1>1, <2>2 DEF HasRow
  <2> QED
    BY <1>1, <1>6, <2>2, <2>3, <2>4 DEF Core, ClaimHeld
<1>11. ClaimsApart'
  BY <1>3, <1>4 DEF Core, ClaimsApart, Working, Slot
<1>12. CopiesClaimed'
  BY <1>1, <1>5, <1>6 DEF Core, CopiesClaimed, HasRow
<1> QED
  BY <1>7, <1>8, <1>9, <1>10, <1>11, <1>12 DEF Core

\* Reading the sender, skipping, recording an outcome, stopping, a lost write and a cut.
LEMMA RunKeeps ==
  ASSUME EmailTypeOK, EmailTypeOK', Core, NEW r \in Runs,
         \/ ReadSender(r)
         \/ \E e \in Enrolls : Skip(r, e) \/ SkipUnread(r, e)
         \/ MarkSent(r) \/ MarkFailed(r) \/ Stop(r) \/ LoseWrite(r) \/ Cut(r)
  PROVE  Core'
<1> DEFINE Same == UNCHANGED <<status, lastStep, message, copies>>
<1>0. lost' = 0 => lost = 0
  BY LostGrows
  DEF ReadSender, Skip, SkipUnread, MarkSent, MarkFailed, Stop, LoseWrite, Cut, counters
<1>a. Same => RowsKept
  BY <1>0, EmailAssumption DEF RowsKept, HasRow, EmailTypeOK
<1>b. ASSUME NEW e \in Enrolls, NEW new, new # "none", EndEnrollment(e, new),
             UNCHANGED <<message, copies>>,
             lost' = 0 /\ HasRow(e) /\ new = "finished" => lastStep[e] = Length
      PROVE  RowsKept
  <2>1. CASE ~HasRow(e)
    BY <1>a, <1>b, <2>1 DEF EndEnrollment
  <2>2. CASE HasRow(e)
    <3>1. status' = [status EXCEPT ![e] = new] /\ lastStep' = lastStep
      BY <1>b, <2>2 DEF EndEnrollment
    <3>2. status'[e] = new /\ \A f \in Enrolls \ {e} : status'[f] = status[f]
      BY <3>1 DEF EmailTypeOK
    <3>3. \A f \in Enrolls :
            /\ HasRow(f)' => HasRow(f)
            /\ status[f] # "none" => status'[f] # "none"
      BY <1>b, <2>2, <3>2 DEF HasRow
    <3>4. \A f \in Enrolls : lastStep'[f] <= lastStep[f]
      BY <3>1, EmailAssumption DEF EmailTypeOK
    <3>5. \A f \in Enrolls : status'[f] = "finished" /\ lost' = 0 =>
             status[f] = "finished" \/ (HasRow(f) /\ lastStep[f] = Length)
      BY <1>b, <2>2, <3>2
    <3> QED
      BY <1>0, <1>b, <3>1, <3>3, <3>4, <3>5 DEF RowsKept
  <2> QED
    BY <2>1, <2>2
<1>c. ASSUME NEW s, NEW new, new # "none", SetMessage(s, new),
             UNCHANGED <<status, lastStep, copies>>
      PROVE  RowsKept
  BY <1>0, <1>c, EmailAssumption DEF SetMessage, RowsKept, HasRow, EmailTypeOK
<1>d. ASSUME RowsKept, NEW at \in {"advance", "unclaim", "stop"}, Goto(r, at), Working(r),
             at = "advance" => run[r].at = "sent", at = "unclaim" => run[r].at = "failed"
      PROVE  Core'
  <2>1. run[r].at # "free" /\ run[r] \in RunRecords
    BY <1>d, WorkedOn
  <2>2. run'[r] = [run[r] EXCEPT !.at = at] /\ \A q \in Runs \ {r} : run'[q] = run[q]
    BY <1>d, <2>1, GotoEffect
  <2>3. /\ run'[r].at = at /\ run'[r].todo = run[r].todo /\ run'[r].read = run[r].read
        /\ run'[r].now = run[r].now
    BY <2>1, <2>2 DEF RunRecords
  <2>4. GoesOn(r)
    BY <1>d, <2>3 DEF GoesOn, Working, Unsent, Out
  <2> QED
    BY <1>d, <2>2, <2>4, KeepsCore DEF RunKept
<1>e. ASSUME RowsKept, NEW e \in Enrolls, Leave(r, e), run[r].at # "free"
      PROVE  Core'
  BY <1>e, LeaveKept, KeepsCore
<1>1. CASE ReadSender(r)
  <2>1. Same
    BY <1>1 DEF ReadSender, enrollments
  <2>2. run[r] \in RunRecords /\ run[r].at # "free"
    BY <1>1, RunRecord DEF ReadSender
  <2>3. \A q \in Runs \ {r} : run'[q] = run[q]
    BY <1>1, <2>2 DEF ReadSender, Goto, EmailTypeOK
  <2>4. Drops(r)
    BY <1>1, <2>2 DEF ReadSender, Goto, Drops, Free, EmailTypeOK, RunRecords
  <2> QED
    BY <1>a, <2>1, <2>3, <2>4, KeepsCore DEF RunKept
<1>2. ASSUME NEW e \in Enrolls, Skip(r, e)
      PROVE  Core'
  <2>1. SkipStatus(r, e) # "none"
    BY DEF SkipStatus
  <2>2. ASSUME HasRow(e), SkipStatus(r, e) = "finished"
        PROVE  lastStep[e] = Length
    <3>1. run[r].read[e] = Length /\ e \in run[r].todo /\ run[r].at # "free"
      BY <1>2, <2>2 DEF Skip, SkipStatus, Over
    <3>2. Length <= lastStep[e]
      BY <2>2, <3>1 DEF Core, BatchBehind
    <3> QED
      BY <3>2, EmailAssumption DEF EmailTypeOK
  <2>3. RowsKept
    BY <1>2, <1>b, <2>1, <2>2 DEF Skip
  <2> QED
    BY <1>2, <1>e, <2>3 DEF Skip
<1>3. ASSUME NEW e \in Enrolls, SkipUnread(r, e)
      PROVE  Core'
  <2>1. lost' # 0
    BY <1>3 DEF SkipUnread, Lose, EmailTypeOK
  <2>2. RowsKept
    BY <1>3, <1>b, <2>1 DEF SkipUnread
  <2> QED
    BY <1>3, <1>e, <2>2 DEF SkipUnread
<1>4. CASE MarkSent(r)
  <2>1. RowsKept
    BY <1>4, <1>c DEF MarkSent, enrollments
  <2> QED
    BY <1>4, <1>d, <2>1 DEF MarkSent, Working
<1>5. CASE MarkFailed(r)
  <2>1. RowsKept
    BY <1>5, <1>c DEF MarkFailed, enrollments
  <2> QED
    BY <1>5, <1>d, <2>1 DEF MarkFailed, Working
<1>6. CASE Stop(r)
  <2>1. Working(r) /\ run[r].at # "free" /\ run[r].now \in Enrolls
    BY <1>6, WorkedOn DEF Stop, Working
  <2>2. RowsKept
    BY <1>6, <1>b, <2>1 DEF Stop
  <2> QED
    BY <1>6, <1>e, <2>1, <2>2 DEF Stop
<1>7. CASE LoseWrite(r)
  <2>1. RowsKept
    BY <1>7, <1>a DEF LoseWrite, enrollments
  <2>2. CASE run[r].at = "next" /\ \E e \in run[r].todo : Leave(r, e)
    <3>1. run[r].todo \subseteq Enrolls
      BY <2>2, RunRecord DEF RunRecords
    <3> QED
      BY <1>e, <2>1, <2>2, <3>1
  <2>3. CASE run[r].at \in {"sent", "failed", "refused"} /\ Goto(r, AfterRecord(run[r].at))
    <3> DEFINE at == AfterRecord(run[r].at)
    <3>1. /\ at \in {"advance", "unclaim", "stop"} /\ Working(r)
          /\ at = "advance" => run[r].at = "sent"
          /\ at = "unclaim" => run[r].at = "failed"
      BY <2>3 DEF AfterRecord, Working
    <3> QED
      BY <1>d, <2>1, <2>3, <3>1
  <2>4. CASE run[r].at \in {"advance", "unclaim", "stop"} /\ Leave(r, run[r].now)
    <3>1. run[r].at # "free" /\ run[r].now \in Enrolls
      BY <2>4, WorkedOn DEF Working
    <3> QED
      BY <1>e, <2>1, <2>4, <3>1
  <2> QED
    BY <1>7, <2>2, <2>3, <2>4 DEF LoseWrite
<1>8. CASE Cut(r)
  <2>1. Same
    BY <1>8 DEF Cut, enrollments
  <2>2. \A q \in Runs : run'[q] = run[q] \/ Drops(q)
    BY <1>8 DEF Cut, Drops, Free, EmailTypeOK
  <2> QED
    BY <1>a, <2>1, <2>2, KeepsCore DEF RunKept
<1> QED
  BY <1>1, <1>2, <1>3, <1>4, <1>5, <1>6, <1>7, <1>8

\* Requests, events, the deletion of the sequence and time.
LEMMA OthersKeep ==
  ASSUME EmailTypeOK, EmailTypeOK', Core,
         (\E t \in Tasks : TaskStep(t)) \/ DeleteSequence \/ (\E e \in Enrolls : Ripen(e))
  PROVE  Core'
<1>0. lost' = 0 => lost = 0
  <2>1. NoFault \/ Lose \/ lost' = lost
    BY DEF TaskStep, EnrollRead, Unsubscribe, Event, Patch, EnrollList, EnrollInsert, PatchQueue,
           EventMark, Suppress, StopEnrollment, TaskCut, DeleteSequence, Ripen, counters
  <2> QED
    BY <2>1, LostGrows
<1>a. ASSUME UNCHANGED <<status, lastStep, message, copies>>
      PROVE  RowsKept
  BY <1>0, <1>a, EmailAssumption DEF RowsKept, HasRow, EmailTypeOK
<1>b. run' = run
  BY DEF TaskStep, EnrollRead, Unsubscribe, Event, Patch, EnrollList, EnrollInsert, PatchQueue,
         EventMark, Suppress, StopEnrollment, TaskCut, DeleteSequence, Ripen
<1>1. ASSUME NEW t \in Tasks, TaskStep(t)
      PROVE  RowsKept
  <2>1. CASE \/ \E e \in Enrolls :
                  \/ EnrollRead(t, e)
                  \/ Unsubscribe(t, e)
                  \/ \E p \in Positions, kind \in Kinds : Event(t, e, p, kind)
             \/ \E to \in {"draft", "active", "paused"} : Patch(t, to)
             \/ EnrollList(t) \/ PatchQueue(t) \/ Suppress(t) \/ TaskCut(t)
    BY <1>a, <2>1 DEF EnrollRead, Unsubscribe, Event, Patch, EnrollList, PatchQueue, Suppress,
                      TaskCut, enrollments
  <2>2. CASE EnrollInsert(t)
    BY <1>0, <2>2, EmailAssumption DEF EnrollInsert, RowsKept, HasRow, EmailTypeOK, Slots
  <2>3. CASE EventMark(t)
    <3>1. task[t] \in TaskRecords
      BY <2>3, TaskRecord DEF EventMark
    <3>2. task[t].to # "none"
      BY <2>3, <3>1 DEF EventMark, TaskRecords, EventKinds
    <3> QED
      BY <1>0, <2>3, <3>2, EmailAssumption
      DEF EventMark, SetMessage, RowsKept, HasRow, EmailTypeOK, enrollments
  <2>4. CASE StopEnrollment(t)
    BY <1>0, <2>4, EmailAssumption DEF StopEnrollment, EndEnrollment, RowsKept, HasRow, EmailTypeOK
  <2> QED
    BY <1>1, <2>1, <2>2, <2>3, <2>4 DEF TaskStep
<1>2. ASSUME DeleteSequence
      PROVE  RowsKept
  <2>1. \A e \in Enrolls : ~HasRow(e)' /\ (status[e] # "none" => status'[e] # "none")
                           /\ lastStep'[e] <= lastStep[e]
    BY <1>2, EmailAssumption DEF DeleteSequence, HasRow, EmailTypeOK
  <2>2. \A s \in Slots : ~HasRow(s[1])'
    <3> SUFFICES ASSUME NEW s \in Slots
                 PROVE  ~HasRow(s[1])'
      OBVIOUS
    <3>1. s[1] \in Enrolls
      BY DEF Slots
    <3> QED
      BY <1>2, <3>1 DEF DeleteSequence, HasRow, EmailTypeOK
  <2> QED
    BY <1>0, <1>2, <2>1, <2>2 DEF DeleteSequence, RowsKept, HasRow
<1>3. ASSUME NEW e \in Enrolls, Ripen(e)
      PROVE  RowsKept
  BY <1>3, <1>a DEF Ripen
<1>4. RowsKept
  BY <1>1, <1>2, <1>3
<1> QED
  BY <1>b, <1>4, KeepsCore DEF RunKept

-----------------------------------------------------------------------------
(* What a run knows of the suppression list *)

\* As long as no call was lost, an address of a run's batch that was on the list when the run
\* began is on the list it read, and it works on no enrollment whose address is.
Warned ==
  \A r \in Runs :
    /\ run[r].at # "free" => run[r].began \subseteq suppressed
    /\ lost = 0 /\ run[r].at \notin {"free", "sender"} =>
         \A e \in run[r].todo : Address[e] \in run[r].began => Address[e] \in run[r].listed
    /\ Working(r) => Address[run[r].now] \notin run[r].listed

Known == EmailTypeOK /\ Placed /\ Warned

\* A run that keeps its lists and what is left of its batch stays warned.
LEMMA WarnedKept ==
  ASSUME Placed, Warned, suppressed \subseteq suppressed', lost' = 0 => lost = 0,
         \A r \in Runs :
           \/ run'[r] = run[r]
           \/ run'[r] = Free
           \/ /\ run[r].at \notin {"free", "sender"}
              /\ run'[r].todo \subseteq run[r].todo
              /\ run'[r].listed = run[r].listed /\ run'[r].began = run[r].began
              /\ \/ run'[r].at = "next"
                 \/ /\ Working(r) /\ Working(r)' /\ Slot(r)' = Slot(r)
                    /\ run'[r].now = run[r].now /\ run'[r].todo = run[r].todo
  PROVE  Placed' /\ Warned'
<1>1. Placed'
  BY DEF Placed, Working, Slot, Free
<1>2. Warned'
  BY DEF Warned, Working, Free
<1> QED
  BY <1>1, <1>2

LEMMA KnownStep == Known /\ [Next]_vars => Known'
<1> SUFFICES ASSUME Known, [Next]_vars
             PROVE  Known'
  OBVIOUS
<1> USE DEF Known
<1>1. ASSUME NEW r \in Runs, RunStart(r) \/ Proceed(r) \/ LoseWrite(r) \/ Cut(r)
      PROVE  Known'
  <2>0. EmailTypeOK'
    BY <1>1, ProceedType
  <2>a. lost' = 0 => lost = 0
    <3>1. NoFault \/ Fail \/ Lose \/ lost' = lost
      BY <1>1
      DEF Proceed, RunStart, ReadSender, Skip, SkipUnread, Claim, Send, MarkSent, Advance,
          MarkFailed, Unclaim, Stop, LoseWrite, Cut, counters
    <3> QED
      BY <3>1, LostGrows
  <2>1. CASE RunStart(r)
    <3> DEFINE due == {e \in Enrolls : Due(e)}
               new == [at |-> "sender", todo |-> due,
                       read |-> [e \in Enrolls |-> IF e \in due THEN lastStep[e] ELSE 0],
                       listed |-> {}, began |-> suppressed, now |-> NoEnroll]
    <3>1. run' = [run EXCEPT ![r] = new] /\ suppressed' = suppressed
      BY <2>1 DEF RunStart
    <3>2. /\ run'[r].at = "sender" /\ run'[r].began = suppressed
          /\ \A q \in Runs \ {r} : run'[q] = run[q]
      BY <3>1 DEF EmailTypeOK
    <3>3. Placed'
      BY <3>2 DEF Placed, Working, Slot
    <3>4. Warned'
      BY <2>a, <3>1, <3>2 DEF Warned, Working
    <3> QED
      BY <2>0, <3>3, <3>4
  <2>2. CASE ReadSender(r)
    <3>1. run[r] \in RunRecords /\ run[r].at = "sender" /\ suppressed' = suppressed
      BY <2>2, RunRecord DEF ReadSender
    <3>2. \A q \in Runs \ {r} : run'[q] = run[q]
      BY <2>2, <3>1 DEF ReadSender, Goto, EmailTypeOK
    <3>3. CASE run' = [run EXCEPT ![r] = Free]
      BY <2>0, <2>a, <3>1, <3>3, WarnedKept DEF EmailTypeOK
    <3>4. CASE run' = [run EXCEPT ![r].at = "next",
                         ![r].listed = {Address[e] : e \in run[r].todo} \cap suppressed]
      <4>1. /\ run'[r].at = "next" /\ run'[r].began = run[r].began /\ run'[r].todo = run[r].todo
            /\ run'[r].listed = {Address[e] : e \in run[r].todo} \cap suppressed
        BY <3>1, <3>4 DEF EmailTypeOK, RunRecords
      <4>2. \A e \in run'[r].todo : Address[e] \in run'[r].began => Address[e] \in run'[r].listed
        BY <3>1, <4>1 DEF Warned
      <4>3. Placed'
        BY <3>2, <4>1 DEF Placed, Working, Slot
      <4>4. Warned'
        BY <2>a, <3>1, <3>2, <4>1, <4>2 DEF Warned, Working
      <4> QED
        BY <2>0, <4>3, <4>4
    <3>5. CASE Goto(r, "next") /\ Lose
      <4>1. run'[r].at = "next" /\ run'[r].began = run[r].began
        BY <3>1, <3>5 DEF Goto, EmailTypeOK, RunRecords
      <4>2. lost' # 0
        BY <3>5 DEF Lose, EmailTypeOK
      <4>3. Placed'
        BY <3>2, <4>1 DEF Placed, Working, Slot
      <4>4. Warned'
        BY <3>1, <3>2, <4>1, <4>2 DEF Warned, Working
      <4> QED
        BY <2>0, <4>3, <4>4
    <3> QED
      BY <2>2, <3>3, <3>4, <3>5 DEF ReadSender
  <2>3. ASSUME NEW e \in Enrolls, Leave(r, e), run[r].at \notin {"free", "sender"},
               suppressed' = suppressed
        PROVE  Known'
    <3>1. /\ \A q \in Runs \ {r} : run'[q] = run[q]
          /\ \/ run'[r] = Free
             \/ /\ run'[r].at = "next" /\ run'[r].todo = run[r].todo \ {e}
                /\ run'[r].listed = run[r].listed /\ run'[r].began = run[r].began
      BY <2>3, LeaveEffect
    <3> QED
      BY <2>0, <2>a, <2>3, <3>1, WarnedKept
  <2>4. ASSUME NEW e \in Enrolls, Claim(r, e), ~Leave(r, e)
        PROVE  Known'
    <3>1. /\ run' = [run EXCEPT ![r].at = "send", ![r].now = e]
          /\ run[r].at = "next" /\ e \in run[r].todo /\ run[r].read[e] # Length
          /\ Address[e] \notin run[r].listed /\ suppressed' = suppressed
      BY <2>4 DEF Claim, Over, Listed
    <3>2. run[r] \in RunRecords
      BY <3>1, RunRecord
    <3>3. /\ \A q \in Runs \ {r} : run'[q] = run[q]
          /\ run'[r].at = "send" /\ run'[r].now = e /\ run'[r].todo = run[r].todo
          /\ run'[r].read = run[r].read /\ run'[r].listed = run[r].listed
          /\ run'[r].began = run[r].began
      BY <3>1, <3>2 DEF EmailTypeOK, RunRecords
    <3>4. <<e, run[r].read[e] + 1>> \in Slots
      BY <3>1, <3>2, EmailAssumption DEF RunRecords, Slots, Positions
    <3>5. Placed'
      BY <3>1, <3>3, <3>4 DEF Placed, Working, Slot
    <3>6. Warned'
      BY <2>a, <3>1, <3>3 DEF Warned, Working
    <3> QED
      BY <2>0, <3>5, <3>6
  <2>5. ASSUME NEW at \in {"sent", "failed", "refused", "advance", "unclaim", "stop"},
               Goto(r, at), Working(r), suppressed' = suppressed
        PROVE  Known'
    <3>1. run[r].at \notin {"free", "sender"}
      BY <2>5 DEF Working
    <3>2. run[r] \in RunRecords
      BY <3>1, RunRecord
    <3>4. run'[r] = [run[r] EXCEPT !.at = at] /\ \A q \in Runs \ {r} : run'[q] = run[q]
      BY <2>5, <3>1, GotoEffect
    <3>5. /\ run'[r].at = at /\ run'[r].todo = run[r].todo /\ run'[r].read = run[r].read
          /\ run'[r].now = run[r].now /\ run'[r].listed = run[r].listed
          /\ run'[r].began = run[r].began
      BY <3>2, <3>4 DEF RunRecords
    <3>6. Working(r)' /\ Slot(r)' = Slot(r)
      BY <3>5 DEF Working, Slot
    <3> QED
      BY <2>0, <2>5, <2>a, <3>1, <3>4, <3>5, <3>6, WarnedKept
  <2>6. CASE Cut(r)
    BY <2>0, <2>6, <2>a, WarnedKept DEF Cut, EmailTypeOK
  <2>7. Working(r) => run[r].now \in Enrolls
    BY RunRecord DEF Placed, Working, RunRecords
  <2>8. CASE Send(r) \/ MarkSent(r) \/ MarkFailed(r)
    <3>1. Working(r) /\ suppressed' = suppressed
      BY <2>8 DEF Send, MarkSent, MarkFailed, Working
    <3>2. PICK at \in {"sent", "failed", "refused", "advance", "unclaim", "stop"} : Goto(r, at)
      BY <2>8 DEF Send, MarkSent, MarkFailed
    <3> QED
      BY <2>5, <3>1, <3>2
  <2>9. CASE LoseWrite(r)
    <3>1. CASE run[r].at = "next" /\ \E e \in run[r].todo : Leave(r, e)
      <4>1. run[r].todo \subseteq Enrolls
        BY <3>1, RunRecord DEF RunRecords
      <4> QED
        BY <2>3, <2>9, <3>1, <4>1 DEF LoseWrite
    <3>2. CASE run[r].at \in {"sent", "failed", "refused"} /\ Goto(r, AfterRecord(run[r].at))
      BY <2>5, <2>9, <3>2 DEF LoseWrite, AfterRecord, Working
    <3>3. CASE run[r].at \in {"advance", "unclaim", "stop"} /\ Leave(r, run[r].now)
      BY <2>3, <2>7, <2>9, <3>3 DEF LoseWrite, Working
    <3> QED
      BY <2>9, <3>1, <3>2, <3>3 DEF LoseWrite
  <2>10. CASE Advance(r) \/ Unclaim(r) \/ Stop(r)
    BY <2>3, <2>7, <2>10 DEF Advance, Unclaim, Stop, Working
  <2>11. CASE \E e \in Enrolls : Skip(r, e) \/ SkipUnread(r, e) \/ Claim(r, e)
    BY <2>3, <2>4, <2>11 DEF Skip, SkipUnread, Claim
  <2> QED
    BY <1>1, <2>1, <2>2, <2>6, <2>8, <2>9, <2>10, <2>11 DEF Proceed
<1>2. ASSUME (\E t \in Tasks : TaskStep(t)) \/ DeleteSequence \/ (\E e \in Enrolls : Ripen(e))
      PROVE  Known'
  <2>1. run' = run /\ suppressed \subseteq suppressed'
    BY <1>2
    DEF TaskStep, EnrollRead, Unsubscribe, Event, Patch, EnrollList, EnrollInsert, PatchQueue,
        EventMark, Suppress, StopEnrollment, TaskCut, DeleteSequence, Ripen
  <2>2. NoFault \/ Lose \/ lost' = lost
    BY <1>2
    DEF TaskStep, EnrollRead, Unsubscribe, Event, Patch, EnrollList, EnrollInsert, PatchQueue,
        EventMark, Suppress, StopEnrollment, TaskCut, DeleteSequence, Ripen, counters
  <2>3. lost' = 0 => lost = 0
    BY <2>2, LostGrows
  <2> QED
    BY <1>2, <2>1, <2>3, OtherType, WarnedKept
<1>3. CASE UNCHANGED vars
  BY <1>3 DEF vars, EmailTypeOK, Placed, Warned, Working, Slot, Identified
<1> QED
  BY <1>1, <1>2, <1>3 DEF Next

THEOREM KnownAlways == Spec => []Known
<1>1. Init => Known
  BY TypeInit DEF Init, Known, Placed, Warned, Working, Free
<1> QED
  BY <1>1, KnownStep, PTL DEF Spec

\* Type correctness: every field of every run and request stays in its range, whatever
\* overlaps, fails or is cut off in runDueSteps and the routes (send.ts:46-256).
THEOREM EmailTypeCorrect == Spec => []EmailTypeOK
BY KnownAlways, PTL DEF Known

\* "NEVER send to a suppressed address" (014:11): a run of runDueSteps mails nobody whose
\* address was on email_suppressions before the run began, unless a read of
\* the database failed: suppressedAmong takes a list it cannot read for an empty one.
THEOREM NobodyListedIsMailed == Spec => MailStops
<1>1. Known => \A r \in Runs : \A e \in Enrolls :
           Mails(r, e) /\ lost = 0 => Address[e] \notin run[r].began
  BY DEF Known, Placed, Warned, Working, Mails
<1> QED
  BY <1>1, KnownAlways, PTL DEF MailStops

-----------------------------------------------------------------------------
(* One copy of each step, in order *)

LEMMA MailStep == ~Timeouts /\ MailInv /\ [Next]_vars => MailInv'
<1> SUFFICES ASSUME ~Timeouts, MailInv, [Next]_vars
             PROVE  MailInv'
  OBVIOUS
<1>0. EmailTypeOK /\ Core
  BY DEF MailInv, Core
<1>1. ASSUME NEW r \in Runs, RunStart(r) \/ Proceed(r) \/ LoseWrite(r) \/ Cut(r)
      PROVE  EmailTypeOK' /\ Core'
  <2>1. EmailTypeOK'
    BY <1>0, <1>1, ProceedType DEF Core
  <2> QED
    BY <1>0, <1>1, <2>1, StartCore, ClaimCore, SendCore, AdvanceCore, UnclaimCore, RunKeeps
    DEF Proceed
<1>2. ASSUME (\E t \in Tasks : TaskStep(t)) \/ DeleteSequence \/ (\E e \in Enrolls : Ripen(e))
      PROVE  EmailTypeOK' /\ Core'
  <2>1. EmailTypeOK'
    BY <1>0, <1>2, OtherType
  <2> QED
    BY <1>0, <1>2, <2>1, OthersKeep
<1>3. ASSUME UNCHANGED vars
      PROVE  EmailTypeOK' /\ Core'
  <2>1. EmailTypeOK'
    BY <1>0, <1>3 DEF vars, EmailTypeOK, Identified
  <2>2. RowsKept
    BY <1>0, <1>3, EmailAssumption DEF vars, RowsKept, HasRow, EmailTypeOK
  <2> QED
    BY <1>0, <1>3, <2>1, <2>2, KeepsCore DEF vars, RunKept
<1>4. EmailTypeOK' /\ Core'
  BY <1>1, <1>2, <1>3 DEF Next
<1> QED
  BY <1>4 DEF MailInv, Core

LEMMA MailInit == Init => MailInv
<1> SUFFICES ASSUME Init
             PROVE  MailInv
  OBVIOUS
<1>1. EmailTypeOK
  BY TypeInit
<1>2. \A r \in Runs : run[r].at = "free" /\ ~Working(r)
  BY DEF Init, Free, Working
<1>3. (\A s \in Slots : copies[s] = 0) /\ (\A e \in Enrolls : lastStep[e] = 0 /\ status[e] = "none")
  BY DEF Init
<1>4. StepsInOrder
  BY <1>3 DEF StepsInOrder, HasRow, Positions
<1> QED
  BY <1>1, <1>2, <1>3, <1>4
  DEF MailInv, Placed, SentOnce, BatchBehind, ClaimHeld, ClaimsApart, CopiesClaimed

\* The claim is exclusive, and what has gone out stays claimed: what the unique index on
\* email_messages (014:212) and the order claim, send, record, advance (send.ts:46-256) give.
THEOREM MailInvariant ==
  ASSUME ~Timeouts
  PROVE  Spec => []MailInv
<1>1. MailInv /\ [Next]_vars => MailInv'
  BY MailStep
<1> QED
  BY <1>1, MailInit, PTL DEF Spec

\* "NEVER send twice" (014:15), for any overlapping runs, refusals, retries, lost
\* database calls and cuts, as long as the provider never sends a mail whose call it does not answer.
THEOREM EachStepOnce ==
  ASSUME ~Timeouts
  PROVE  Spec => []SentOnce
BY MailInvariant, PTL DEF MailInv

\* The steps arrive in order and none is left out (014:128-130), on the same condition.
THEOREM InOrder ==
  ASSUME ~Timeouts
  PROVE  Spec => []StepsInOrder
BY MailInvariant, PTL DEF MailInv

-----------------------------------------------------------------------------
(* A refusal ends an enrollment *)

Unbroken == cuts + lost = 0
Pending(r, s) == run[r].at \in {"unclaim", "stop"} /\ run[r].now = s[1] /\ Slot(r) = s

\* While nothing is lost or cut off, a failed message is the one of the step its enrollment
\* is at, and as long as the enrollment is active a run is about to stop it or to give the
\* claim back; and no run moves an enrollment past a failed message.
Refusals ==
  Unbroken =>
    /\ \A s \in Slots : message[s] = "failed" =>
         /\ status[s[1]] # "none"
         /\ HasRow(s[1]) => s[2] = lastStep[s[1]] + 1
         /\ status[s[1]] = "active" => \E r \in Runs : Pending(r, s)
    /\ \A r \in Runs : run[r].at = "advance" => message[Slot(r)] # "failed"

\* A step that fails no message, moves no enrollment on, and leaves alone whoever is about to
\* stop one.
LEMMA QuietKeeps ==
  ASSUME EmailTypeOK, Core, Refusals, Unbroken,
         \A s \in Slots : message'[s] = "failed" => message[s] = "failed",
         \A e \in Enrolls : status[e] # "none" =>
           /\ status'[e] # "none"
           /\ status'[e] = "active" => status[e] = "active"
           /\ HasRow(e)' => HasRow(e) /\ lastStep'[e] = lastStep[e],
         \A r \in Runs : run'[r].at = "advance" => run'[r] = run[r],
         \A r \in Runs : \A s \in Slots :
           Pending(r, s) /\ message'[s] = "failed" /\ status'[s[1]] = "active" => run'[r] = run[r]
  PROVE  Refusals'
<1>1. ASSUME NEW s \in Slots, message'[s] = "failed"
      PROVE  /\ status'[s[1]] # "none"
             /\ HasRow(s[1])' => s[2] = lastStep'[s[1]] + 1
             /\ status'[s[1]] = "active" => \E r \in Runs : Pending(r, s)'
  <2>1. s[1] \in Enrolls
    BY DEF Slots
  <2>2. /\ status[s[1]] # "none"
        /\ HasRow(s[1]) => s[2] = lastStep[s[1]] + 1
        /\ status[s[1]] = "active" => \E r \in Runs : Pending(r, s)
    BY <1>1 DEF Refusals
  <2>3. ASSUME status'[s[1]] = "active"
        PROVE  \E r \in Runs : Pending(r, s)'
    <3>1. PICK r \in Runs : Pending(r, s)
      BY <2>1, <2>2, <2>3
    <3>2. run'[r] = run[r]
      BY <1>1, <2>3, <3>1
    <3>3. Pending(r, s)'
      BY <3>1, <3>2 DEF Pending, Slot
    <3> QED
      BY <3>3
  <2> QED
    BY <2>1, <2>2, <2>3
<1>2. ASSUME NEW r \in Runs, run'[r].at = "advance"
      PROVE  message'[Slot(r)'] # "failed"
  <2>1. run'[r] = run[r] /\ Slot(r)' = Slot(r) /\ run[r].at = "advance"
    BY <1>2 DEF Slot
  <2>2. Slot(r) \in Slots
    BY <2>1 DEF Core, Placed, Working
  <2> QED
    BY <2>1, <2>2 DEF Refusals
<1> QED
  BY <1>1, <1>2 DEF Refusals

\* The steps of a run.
LEMMA RunRefusals ==
  ASSUME EmailTypeOK, Core, Refusals, Unbroken, Unbroken',
         NEW r \in Runs, RunStart(r) \/ Proceed(r) \/ LoseWrite(r) \/ Cut(r)
  PROVE  Refusals'
<1>0. ~Lose /\ ~Cut(r)
  BY DEF Unbroken, Lose, Cut, EmailTypeOK
<1> DEFINE e == run[r].now
           s == Slot(r)
           Others == \A q \in Runs \ {r} : run'[q] = run[q]
           RowsStand == UNCHANGED <<status, lastStep>>
\* A step of a run that is neither about to stop an enrollment nor to move one on.
<1>a. ASSUME Others, run[r].at \notin {"unclaim", "stop"}, run'[r].at # "advance",
             \A m \in Slots : message'[m] = "failed" => message[m] = "failed",
             \A f \in Enrolls : status[f] # "none" =>
               /\ status'[f] # "none"
               /\ status'[f] = "active" => status[f] = "active"
               /\ HasRow(f)' => HasRow(f) /\ lastStep'[f] = lastStep[f]
      PROVE  Refusals'
  <2>1. \A q \in Runs : run'[q].at = "advance" => run'[q] = run[q]
    BY <1>a
  <2>2. \A q \in Runs : \A m \in Slots : Pending(q, m) => run'[q] = run[q]
    BY <1>a DEF Pending
  <2> QED
    BY <1>a, <2>1, <2>2, QuietKeeps
<1>b. RowsStand => \A f \in Enrolls : status[f] # "none" =>
               /\ status'[f] # "none"
               /\ status'[f] = "active" => status[f] = "active"
               /\ HasRow(f)' => HasRow(f) /\ lastStep'[f] = lastStep[f]
  BY DEF HasRow
<1>c. ASSUME NEW f \in Enrolls, NEW new \in {"unsubscribed", "finished", "stopped"}, EndEnrollment(f, new)
      PROVE  \A g \in Enrolls : status[g] # "none" =>
               /\ status'[g] # "none"
               /\ status'[g] = "active" => status[g] = "active" /\ g # f
               /\ HasRow(g)' => HasRow(g) /\ lastStep'[g] = lastStep[g]
  BY <1>c DEF EndEnrollment, HasRow, EmailTypeOK
<1>d. ASSUME NEW f \in Enrolls, Leave(r, f), run[r].at # "free"
      PROVE  Others /\ run'[r].at \in {"free", "next"}
  BY <1>d, LeaveEffect DEF Free
<1>e. ASSUME NEW at, Goto(r, at), run[r].at # "free"
      PROVE  /\ Others /\ run'[r].at = at /\ run'[r].now = run[r].now /\ Slot(r)' = Slot(r)
  <2>1. Others /\ run'[r] = [run[r] EXCEPT !.at = at] /\ run[r] \in RunRecords
    BY <1>e, GotoEffect, RunRecord
  <2> QED
    BY <2>1 DEF RunRecords, Slot
<1>1. CASE RunStart(r)
  <2>1. Others /\ run'[r].at = "sender" /\ run[r].at = "free" /\ RowsStand /\ message' = message
    BY <1>1 DEF RunStart, EmailTypeOK, enrollments, Free
  <2> QED
    BY <1>a, <1>b, <2>1
<1>2. CASE ReadSender(r)
  <2>1. run[r].at = "sender" /\ RowsStand /\ message' = message
    BY <1>2 DEF ReadSender, enrollments
  <2>2. Others /\ run'[r].at \in {"next", "free"}
    <3>1. run[r] \in RunRecords
      BY <2>1, RunRecord
    <3>2. CASE Goto(r, "next")
      BY <1>e, <2>1, <3>2
    <3>3. CASE run' = [run EXCEPT ![r] = Free]
      BY <3>3 DEF EmailTypeOK, Free
    <3>4. CASE run' = [run EXCEPT ![r].at = "next",
                         ![r].listed = {Address[f] : f \in run[r].todo} \cap suppressed]
      BY <3>1, <3>4 DEF EmailTypeOK, RunRecords
    <3> QED
      BY <1>2, <3>2, <3>3, <3>4 DEF ReadSender
  <2> QED
    BY <1>a, <1>b, <2>1, <2>2
<1>3. ASSUME NEW f \in Enrolls, Skip(r, f)
      PROVE  Refusals'
  <2>1. SkipStatus(r, f) \in {"unsubscribed", "finished", "stopped"}
    BY DEF SkipStatus
  <2>2. run[r].at = "next" /\ EndEnrollment(f, SkipStatus(r, f)) /\ Leave(r, f) /\ message' = message
    BY <1>3 DEF Skip
  <2> QED
    BY <1>a, <1>c, <1>d, <2>1, <2>2
<1>4. ASSUME NEW f \in Enrolls, Claim(r, f)
      PROVE  Refusals'
  <2>1. run[r].at = "next" /\ RowsStand
    BY <1>4 DEF Claim, enrollments
  <2>2. run[r] \in RunRecords
    BY <2>1, RunRecord
  <2>3. Others /\ run'[r].at # "advance"
    <3>1. CASE Leave(r, f)
      BY <1>d, <2>1, <3>1
    <3>2. CASE run' = [run EXCEPT ![r].at = "send", ![r].now = f]
      BY <2>2, <3>2 DEF EmailTypeOK, RunRecords
    <3> QED
      BY <1>4, <3>1, <3>2 DEF Claim
  <2>4. \A m \in Slots : message'[m] = "failed" => message[m] = "failed"
    <3>1. message' = message \/ message' = [message EXCEPT ![<<f, run[r].read[f] + 1>>] = "queued"]
      BY <1>4 DEF Claim
    <3> QED
      BY <3>1 DEF EmailTypeOK
  <2> QED
    BY <1>a, <1>b, <2>1, <2>3, <2>4
<1>5. CASE Send(r)
  <2>1. run[r].at = "send" /\ RowsStand /\ message' = message
    BY <1>5 DEF Send, enrollments
  <2>2. \E at \in {"sent", "refused", "failed"} : Goto(r, at)
    BY <1>5 DEF Send
  <2> QED
    BY <1>a, <1>b, <1>e, <2>1, <2>2
<1>6. CASE MarkSent(r)
  <2>1. run[r].at = "sent" /\ Working(r) /\ RowsStand /\ SetMessage(s, "sent") /\ Goto(r, "advance")
    BY <1>6 DEF MarkSent, Working, enrollments
  <2>2. Others /\ run'[r].at = "advance" /\ Slot(r)' = s
    BY <1>e, <2>1
  <2>3. s \in Slots
    BY <2>1, WorkedOn
  <2>4. message'[s] # "failed" /\ \A m \in Slots : message'[m] = "failed" => message[m] = "failed"
    BY <2>1, <2>3 DEF SetMessage, EmailTypeOK
  <2>5. ASSUME NEW m \in Slots, message'[m] = "failed"
        PROVE  /\ status'[m[1]] # "none"
               /\ HasRow(m[1])' => m[2] = lastStep'[m[1]] + 1
               /\ status'[m[1]] = "active" => \E q \in Runs : Pending(q, m)'
    <3>1. /\ status[m[1]] # "none"
          /\ HasRow(m[1]) => m[2] = lastStep[m[1]] + 1
          /\ status[m[1]] = "active" => \E q \in Runs : Pending(q, m)
      BY <2>4, <2>5 DEF Refusals
    <3>2. \A q \in Runs : Pending(q, m) => Pending(q, m)'
      BY <2>1, <2>2 DEF Pending, Slot
    <3> QED
      BY <2>1, <3>1, <3>2 DEF HasRow
  <2>6. ASSUME NEW q \in Runs, run'[q].at = "advance"
        PROVE  message'[Slot(q)'] # "failed"
    <3>1. CASE q = r
      BY <2>2, <2>4, <3>1
    <3>2. CASE q # r
      <4>1. run'[q] = run[q] /\ Slot(q)' = Slot(q) /\ Slot(q) \in Slots
        BY <2>2, <2>6, <3>2 DEF Slot, Core, Placed, Working
      <4> QED
        BY <2>4, <2>6, <4>1 DEF Refusals
    <3> QED
      BY <3>1, <3>2
  <2> QED
    BY <2>5, <2>6 DEF Refusals
<1>7. CASE MarkFailed(r)
  <2>1. /\ run[r].at \in {"failed", "refused"} /\ Working(r) /\ RowsStand /\ SetMessage(s, "failed")
        /\ \E at \in {"unclaim", "stop"} : Goto(r, at)
    BY <1>7 DEF MarkFailed, Working, enrollments
  <2>2. Others /\ run'[r].at \in {"unclaim", "stop"} /\ run'[r].now = e /\ Slot(r)' = s
    BY <1>e, <2>1
  <2>3. /\ s \in Slots /\ s[1] = e /\ e \in Enrolls /\ status[e] # "none"
        /\ s[2] = run[r].read[e] + 1
    BY <2>1, WorkedOn
  <2>4. HasRow(e) => s[2] = lastStep[e] + 1
    BY <2>1, <2>3 DEF Core, ClaimHeld
  <2>5. \A m \in Slots \ {s} : message'[m] = message[m]
    BY <2>1 DEF SetMessage, EmailTypeOK
  <2>6. ASSUME NEW m \in Slots, m = s
        PROVE  Pending(r, m)'
    BY <2>2, <2>3, <2>6 DEF Pending
  <2>7. ASSUME NEW m \in Slots, message'[m] = "failed"
        PROVE  /\ status'[m[1]] # "none"
               /\ HasRow(m[1])' => m[2] = lastStep'[m[1]] + 1
               /\ status'[m[1]] = "active" => \E q \in Runs : Pending(q, m)'
    <3>1. CASE m = s
      <4>1. status'[m[1]] = status[e] /\ lastStep'[m[1]] = lastStep[e] /\ (HasRow(m[1])' => HasRow(e))
        BY <2>1, <2>3, <3>1 DEF HasRow
      <4> QED
        BY <2>3, <2>4, <2>6, <3>1, <4>1
    <3>2. CASE m # s
      <4>1. /\ status[m[1]] # "none"
            /\ HasRow(m[1]) => m[2] = lastStep[m[1]] + 1
            /\ status[m[1]] = "active" => \E q \in Runs : Pending(q, m)
        BY <2>5, <2>7, <3>2 DEF Refusals
      <4>2. \A q \in Runs : Pending(q, m) => Pending(q, m)'
        BY <2>1, <2>2 DEF Pending, Slot
      <4> QED
        BY <2>1, <4>1, <4>2 DEF HasRow
    <3> QED
      BY <3>1, <3>2
  <2>8. ASSUME NEW q \in Runs, run'[q].at = "advance"
        PROVE  message'[Slot(q)'] # "failed"
    <3>1. q # r
      BY <2>2, <2>8
    <3>2. run'[q] = run[q] /\ Slot(q)' = Slot(q) /\ Slot(q) \in Slots /\ Working(q)
      BY <2>2, <2>8, <3>1 DEF Slot, Core, Placed, Working
    <3>3. Slot(q) # s
      BY <2>1, <3>1, <3>2 DEF Core, ClaimsApart
    <3> QED
      BY <2>5, <2>8, <3>2, <3>3 DEF Refusals
  <2> QED
    BY <2>7, <2>8 DEF Refusals
<1>8. CASE Advance(r)
  <2>1. run[r].at = "advance" /\ Working(r) /\ message' = message /\ Leave(r, e)
    BY <1>8 DEF Advance, Working
  <2>2. /\ s \in Slots /\ s = <<e, run[r].read[e] + 1>> /\ e \in Enrolls /\ run[r].at # "free"
        /\ s[2] = run[r].read[e] + 1
    BY <2>1, WorkedOn
  <2>3. Others /\ run'[r].at \in {"free", "next"}
    BY <1>d, <2>1, <2>2
  <2>4. MoveOn(e, s[2], s[2] < Length)
    BY <1>0, <1>8 DEF Advance
  \* The message of the step is not a failed one, and there is no other for this enrollment.
  <2>5. ASSUME NEW m \in Slots, message[m] = "failed"
        PROVE  m[1] # e \/ ~HasRow(e)
    <3> SUFFICES ASSUME m[1] = e, HasRow(e)
                 PROVE  FALSE
      OBVIOUS
    <3>1. m[2] = lastStep[e] + 1
      BY <2>5 DEF Refusals
    <3>2. lastStep[e] = run[r].read[e]
      BY <2>1 DEF Core, ClaimHeld
    <3>3. m = s
      BY <2>2, <3>1, <3>2 DEF Slots
    <3> QED
      BY <2>1, <2>5, <3>3 DEF Refusals
  <2>6. \A f \in Enrolls : f # e \/ ~HasRow(e) =>
          status'[f] = status[f] /\ lastStep'[f] = lastStep[f]
    BY <2>4 DEF MoveOn, enrollments, EmailTypeOK
  <2>7. ASSUME NEW m \in Slots, message'[m] = "failed"
        PROVE  /\ status'[m[1]] # "none"
               /\ HasRow(m[1])' => m[2] = lastStep'[m[1]] + 1
               /\ status'[m[1]] = "active" => \E q \in Runs : Pending(q, m)'
    <3>1. /\ status[m[1]] # "none"
          /\ HasRow(m[1]) => m[2] = lastStep[m[1]] + 1
          /\ status[m[1]] = "active" => \E q \in Runs : Pending(q, m)
      BY <2>1, <2>7 DEF Refusals
    <3>2. \A q \in Runs : Pending(q, m) => Pending(q, m)'
      BY <2>1, <2>3 DEF Pending, Slot
    <3>3. m[1] \in Enrolls
      BY DEF Slots
    <3>4. status'[m[1]] = status[m[1]] /\ lastStep'[m[1]] = lastStep[m[1]]
      BY <2>1, <2>5, <2>6, <2>7, <3>3
    <3> QED
      BY <3>1, <3>2, <3>4 DEF HasRow
  <2>8. ASSUME NEW q \in Runs, run'[q].at = "advance"
        PROVE  message'[Slot(q)'] # "failed"
    BY <2>1, <2>3, <2>8 DEF Refusals, Slot
  <2> QED
    BY <2>7, <2>8 DEF Refusals
<1>9. CASE Unclaim(r)
  <2>1. /\ run[r].at = "unclaim" /\ Working(r) /\ RowsStand /\ Leave(r, e)
        /\ message' = [message EXCEPT ![s] = "none"]
    BY <1>9 DEF Unclaim, Working, enrollments
  <2>2. s \in Slots /\ e \in Enrolls /\ run[r].at # "free"
    BY <2>1, WorkedOn
  <2>3. Others /\ run'[r].at \in {"free", "next"}
    BY <1>d, <2>1, <2>2
  <2>4. message'[s] # "failed" /\ \A m \in Slots : message'[m] = "failed" => message[m] = "failed"
    BY <2>1, <2>2 DEF EmailTypeOK
  <2>5. \A q \in Runs : \A m \in Slots : Pending(q, m) /\ message'[m] = "failed" => run'[q] = run[q]
    BY <2>3, <2>4 DEF Pending
  <2>6. \A q \in Runs : run'[q].at = "advance" => run'[q] = run[q]
    BY <2>3
  <2> QED
    BY <1>b, <2>1, <2>4, <2>5, <2>6, QuietKeeps
<1>10. CASE Stop(r)
  <2>1. /\ run[r].at = "stop" /\ Working(r) /\ EndEnrollment(e, "stopped") /\ Leave(r, e)
        /\ message' = message
    BY <1>10 DEF Stop, Working
  <2>2. s \in Slots /\ e \in Enrolls /\ run[r].at # "free" /\ status[e] # "none"
    BY <2>1, WorkedOn
  <2>3. Others /\ run'[r].at \in {"free", "next"}
    BY <1>d, <2>1, <2>2
  <2>4. \A f \in Enrolls : status[f] # "none" =>
               /\ status'[f] # "none"
               /\ status'[f] = "active" => status[f] = "active" /\ f # e
               /\ HasRow(f)' => HasRow(f) /\ lastStep'[f] = lastStep[f]
    BY <1>c, <2>1, <2>2
  <2>5. \A q \in Runs : \A m \in Slots : Pending(q, m) /\ status'[m[1]] = "active" => run'[q] = run[q]
    BY <2>2, <2>3, <2>4 DEF Pending
  <2>6. \A q \in Runs : run'[q].at = "advance" => run'[q] = run[q]
    BY <2>3
  <2> QED
    BY <2>1, <2>4, <2>5, <2>6, QuietKeeps
<1> QED
  BY <1>0, <1>1, <1>2, <1>3, <1>4, <1>5, <1>6, <1>7, <1>8, <1>9, <1>10
  DEF Proceed, SkipUnread, LoseWrite

\* The steps of everybody else.
LEMMA OtherRefusals ==
  ASSUME EmailTypeOK, Core, Refusals, Unbroken,
         (\E t \in Tasks : TaskStep(t)) \/ DeleteSequence \/ (\E e \in Enrolls : Ripen(e))
  PROVE  Refusals'
<1> DEFINE Rows == \A e \in Enrolls : status[e] # "none" =>
                     /\ status'[e] # "none"
                     /\ status'[e] = "active" => status[e] = "active"
                     /\ HasRow(e)' => HasRow(e) /\ lastStep'[e] = lastStep[e]
           Mail == \A s \in Slots : message'[s] = "failed" => message[s] = "failed"
<1>1. run' = run
  BY DEF TaskStep, EnrollRead, Unsubscribe, Event, Patch, EnrollList, EnrollInsert, PatchQueue,
         EventMark, Suppress, StopEnrollment, TaskCut, DeleteSequence, Ripen
<1>a. UNCHANGED <<status, lastStep>> => Rows
  BY DEF HasRow
<1>2. ASSUME NEW t \in Tasks, TaskStep(t)
      PROVE  Rows /\ Mail
  <2>1. CASE \/ \E e \in Enrolls :
                  \/ EnrollRead(t, e)
                  \/ Unsubscribe(t, e)
                  \/ \E p \in Positions, kind \in Kinds : Event(t, e, p, kind)
             \/ \E to \in {"draft", "active", "paused"} : Patch(t, to)
             \/ EnrollList(t) \/ PatchQueue(t) \/ Suppress(t) \/ TaskCut(t)
    <3>1. UNCHANGED <<status, lastStep, message>>
      BY <2>1 DEF EnrollRead, Unsubscribe, Event, Patch, EnrollList, PatchQueue, Suppress,
                  TaskCut, enrollments
    <3> QED
      BY <1>a, <3>1
  <2>2. CASE EnrollInsert(t)
    BY <2>2 DEF EnrollInsert, HasRow, EmailTypeOK
  <2>3. CASE EventMark(t)
    <3>1. task[t] \in TaskRecords
      BY <2>3, TaskRecord DEF EventMark
    <3>2. task[t].to # "failed"
      BY <2>3, <3>1 DEF EventMark, TaskRecords, EventKinds
    <3>3. Mail
      BY <2>3, <3>2 DEF EventMark, SetMessage, EmailTypeOK
    <3> QED
      BY <1>a, <2>3, <3>3 DEF EventMark, enrollments
  <2>4. CASE StopEnrollment(t)
    <3>1. message' = message
      BY <2>4 DEF StopEnrollment
    <3>2. Rows
      BY <2>4 DEF StopEnrollment, EndEnrollment, HasRow, EmailTypeOK
    <3> QED
      BY <3>1, <3>2
  <2> QED
    BY <1>2, <2>1, <2>2, <2>3, <2>4 DEF TaskStep
<1>3. DeleteSequence => Rows /\ Mail
  BY DEF DeleteSequence, HasRow
<1>4. ASSUME NEW e \in Enrolls, Ripen(e)
      PROVE  Rows /\ Mail
  BY <1>a, <1>4 DEF Ripen
<1>5. Rows /\ Mail
  BY <1>2, <1>3, <1>4
<1> QED
  BY <1>1, <1>5, QuietKeeps

\* What is lost or cut off is counted for good.
LEMMA UnbrokenBefore ==
  ASSUME EmailTypeOK, Unbroken', NoFault \/ Fail \/ Lose \/ \E r \in Runs : Cut(r)
  PROVE  Unbroken
<1>1. cuts \in Nat /\ lost \in Nat
  BY DEF EmailTypeOK
<1>2. cuts' + lost' = 0
  BY DEF Unbroken
<1>3. \/ cuts' = cuts /\ lost' = lost
      \/ cuts' = cuts /\ lost' = lost + 1
      \/ cuts' = cuts + 1 /\ lost' = lost
  BY DEF NoFault, Fail, Lose, Cut, counters
<1> QED
  BY <1>1, <1>2, <1>3 DEF Unbroken

\* "A permanent failure stops the enrollment" (send.ts:16-17): once no run is busy with it, an
\* enrollment with a refused message is not active, whatever runs, requests, events and
\* deletions overlapped, unless a run was cut off or a call was lost; for providers as in EachStepOnce.
THEOREM RefusedIsStopped ==
  ASSUME ~Timeouts
  PROVE  Spec => []RefusalEnds
<1>1. Init => Refusals
  BY DEF Init, Refusals, Free
<1>2. MailInv /\ MailInv' /\ Refusals /\ [Next]_vars => Refusals'
  <2> SUFFICES ASSUME MailInv, MailInv', Refusals, [Next]_vars
               PROVE  Refusals'
    OBVIOUS
  <2>0. EmailTypeOK /\ EmailTypeOK' /\ Core
    BY DEF MailInv, Core
  <2>1. CASE ~Unbroken'
    BY <2>1 DEF Refusals, Unbroken
  <2>2. CASE Unbroken'
    <3>1. Unbroken
      <4>1. NoFault \/ Fail \/ Lose \/ \E r \in Runs : Cut(r)
        <5>1. ASSUME NEW r \in Runs, RunStart(r) \/ Proceed(r) \/ LoseWrite(r)
              PROVE  NoFault \/ Fail \/ Lose
          BY <5>1 DEF RunStart, Proceed, ReadSender, Skip, SkipUnread, Claim, Send, MarkSent,
            Advance, MarkFailed, Unclaim, Stop, LoseWrite, NoFault
        <5>2. ASSUME (\E t \in Tasks : TaskStep(t)) \/ DeleteSequence \/ (\E e \in Enrolls : Ripen(e))
              PROVE  NoFault \/ Fail \/ Lose
          BY <5>2 DEF TaskStep, EnrollRead, Unsubscribe, Event, Patch, EnrollList, EnrollInsert,
            PatchQueue, EventMark, Suppress, StopEnrollment, TaskCut, DeleteSequence, Ripen, NoFault
        <5>3. UNCHANGED vars => NoFault
          BY DEF vars, NoFault, counters
        <5> QED
          BY <5>1, <5>2, <5>3 DEF Next
      <4> QED
        BY <2>0, <2>2, <4>1, UnbrokenBefore
    <3>2. CASE \E r \in Runs : RunStart(r) \/ Proceed(r) \/ LoseWrite(r) \/ Cut(r)
      BY <2>0, <2>2, <3>1, <3>2, RunRefusals
    <3>3. CASE (\E t \in Tasks : TaskStep(t)) \/ DeleteSequence \/ (\E e \in Enrolls : Ripen(e))
      BY <2>0, <3>1, <3>3, OtherRefusals
    <3>4. CASE UNCHANGED vars
      BY <3>4 DEF vars, Refusals, Unbroken, Pending, Slot, HasRow
    <3> QED
      BY <3>2, <3>3, <3>4 DEF Next
  <2> QED
    BY <2>1, <2>2
<1>3. Refusals => RefusalEnds
  <2> SUFFICES ASSUME Refusals, NEW s \in Slots, message[s] = "failed",
                      \A r \in Runs : run[r] = Free \/ run[r].now # s[1], Unbroken
               PROVE  status[s[1]] # "active"
    BY DEF RefusalEnds, Unbroken
  <2>1. \A r \in Runs : ~Pending(r, s)
    BY DEF Pending, Free
  <2> QED
    BY <2>1 DEF Refusals
<1> QED
  BY <1>1, <1>2, <1>3, MailInvariant, PTL DEF Spec
=============================================================================
