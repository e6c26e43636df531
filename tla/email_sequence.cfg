\* Overlapping runs, cut off or losing a call once, with a refusal or a retry and any request.
\* A deleted sequence is the end of it, so the instance may stop.
SPECIFICATION FairSpec
CONSTANTS
  a1 = a1
  Enrolls = {e1}
  Addresses = {a1}
  Address <- OneAddress
  Length = 2
  Blocked = {}
  Runs = {r1, r2}
  Tasks = {t1}
  Kinds = {"delivered", "bounced"}
  Timeouts = FALSE
  MaxFaults = 1
  MaxLosses = 1
  NoEnroll = NoEnroll
CHECK_DEADLOCK FALSE
INVARIANTS
  SentOnce
  StepsInOrder
PROPERTIES
  MailStops
  SequenceEnds
