----------------------------- MODULE MfaProofs -----------------------------
(***************************************************************************)
(* Theorems about Mfa, for any browsers, factors, challenges and settings. *)
(***************************************************************************)
EXTENDS Mfa, TLAPS

-----------------------------------------------------------------------------
(* The steps of a request.                                                             *)

\* Every first of s is followed by a second; every second but one at the head
\* follows a first; step is still to be taken.
Followed(s, first, second) == \A k \in 1..Len(s) : s[k] = first => k < Len(s) /\ s[k + 1] = second
Led(s, first, second) == \A k \in 2..Len(s) : s[k] = second => s[k - 1] = first
Owes(s, step) == \E k \in 1..Len(s) : s[k] = step

Steps ==
  {"read", "count", "consume", "totp", "match", "save", "confirm", "list", "delete", "insert",
   "find", "use", "pass", "last", "drop", "epoch", "bump", "end"}
Proper(s) ==
  /\ s \in Seq(Steps)
  /\ Followed(s, "delete", "insert")
  /\ Led(s, "epoch", "bump")
  /\ Led(s, "read", "count")
  /\ \A k \in 2..Len(s) : s[k] # "read"
  /\ \A k \in 1..(Len(s) - 1) : s[k] # "pass"

\* What Tail takes from a list of steps that is not empty.
LEMMA TailFacts ==
  ASSUME NEW s \in Seq(Steps), s # <<>>
  PROVE  /\ Tail(s) \in Seq(Steps) /\ Len(Tail(s)) = Len(s) - 1 /\ Head(s) = s[1]
         /\ \A k \in 1..(Len(s) - 1) : Tail(s)[k] = s[k + 1]
         /\ Tail(s) # <<>> => Len(s) > 1 /\ Head(Tail(s)) = s[2]
         /\ Len(s) \in Nat /\ Len(s) > 0
  OBVIOUS

\* Taking the first step leaves a proper list, whose new head says what the step was.
LEMMA ProperTail ==
  ASSUME NEW s, Proper(s), s # <<>>
  PROVE  /\ Proper(Tail(s))
         /\ Head(s) = "delete" => Tail(s) # <<>> /\ Head(Tail(s)) = "insert"
         /\ Tail(s) # <<>> /\ Head(Tail(s)) = "bump" => Head(s) = "epoch"
         /\ Tail(s) # <<>> /\ Head(Tail(s)) = "count" => Head(s) = "read"
         /\ Tail(s) # <<>> => Head(Tail(s)) # "read"
         /\ Head(s) = "pass" => \A step : Owes(s, step) => step = "pass"
         /\ \A step : Owes(s, step) /\ Head(s) # step => Owes(Tail(s), step)
<1> USE DEF Proper, Followed, Led, Owes
<1>1. s \in Seq(Steps)
  OBVIOUS
<1>2. /\ Tail(s) \in Seq(Steps) /\ Len(Tail(s)) = Len(s) - 1 /\ Head(s) = s[1]
      /\ \A k \in 1..(Len(s) - 1) : Tail(s)[k] = s[k + 1]
      /\ Tail(s) # <<>> => Len(s) > 1 /\ Head(Tail(s)) = s[2]
      /\ Len(s) \in Nat /\ Len(s) > 0
  BY <1>1, TailFacts
<1>3. Followed(Tail(s), "delete", "insert")
  BY <1>2
<1>4. /\ Led(Tail(s), "epoch", "bump") /\ Led(Tail(s), "read", "count")
      /\ \A k \in 2..Len(Tail(s)) : Tail(s)[k] # "read"
      /\ \A k \in 1..(Len(Tail(s)) - 1) : Tail(s)[k] # "pass"
      /\ Head(s) = "pass" => Len(s) = 1
  BY <1>2
<1>5. Head(s) = "delete" => Tail(s) # <<>> /\ Head(Tail(s)) = "insert"
  <2> SUFFICES ASSUME Head(s) = "delete" PROVE Tail(s) # <<>> /\ Head(Tail(s)) = "insert"
    OBVIOUS
  <2>1. 1 < Len(s) /\ s[2] = "insert"
    BY <1>2
  <2>2. Len(Tail(s)) # Len(<<>>)
    BY <1>2, <2>1
  <2>3. Tail(s) # <<>>
    BY <2>2, Zenon
  <2> QED BY <1>2, <2>1, <2>3
<1>6. /\ Tail(s) # <<>> /\ Head(Tail(s)) = "bump" => Head(s) = "epoch"
      /\ Tail(s) # <<>> /\ Head(Tail(s)) = "count" => Head(s) = "read"
      /\ Tail(s) # <<>> => Head(Tail(s)) # "read"
  BY <1>2
<1>7. ASSUME NEW step, Owes(s, step), Head(s) # step PROVE Owes(Tail(s), step)
  <2>1. PICK k \in 1..Len(s) : s[k] = step
    BY <1>7
  <2>2. k # 1
    BY <1>2, <1>7, <2>1
  <2>3. k - 1 \in 1..(Len(s) - 1) /\ Tail(s)[k - 1] = s[k]
    BY <1>2, <2>1, <2>2
  <2> QED BY <1>2, <2>1, <2>3
<1> QED BY <1>2, <1>3, <1>4, <1>5, <1>6, <1>7

\* Two proper lists make a proper one, unless the second begins in the middle of a pair.
LEMMA ProperJoin ==
  ASSUME NEW s, NEW u, Proper(s), Proper(u), s # <<>>,
         u # <<>> => Head(u) \notin {"bump", "count", "read"}, ~Owes(s, "pass")
  PROVE  /\ Proper(s \o u) /\ s \o u # <<>> /\ Head(s \o u) = Head(s)
         /\ \A step : Owes(s, step) \/ Owes(u, step) => Owes(s \o u, step)
<1> DEFINE t == s \o u
<1>1. s \in Seq(Steps) /\ u \in Seq(Steps)
  BY DEF Proper
<1>2. Len(s) \in Nat /\ Len(s) > 0 /\ Head(s) = s[1] /\ Len(u) \in Nat /\ (u # <<>> => Head(u) = u[1])
  BY <1>1
<1>3. t \in Seq(Steps) /\ Len(t) = Len(s) + Len(u)
  BY <1>1
<1>4. /\ \A k \in 1..Len(s) : t[k] = s[k]
      /\ \A k \in 1..Len(t) : k > Len(s) => t[k] = u[k - Len(s)]
      /\ \A k \in 1..Len(u) : t[k + Len(s)] = u[k]
  <2>1. \A k \in 1..Len(s) : t[k] = s[k]
    BY <1>1, <1>2, <1>3
  <2>2. \A k \in 1..Len(t) : k > Len(s) => t[k] = u[k - Len(s)]
    BY <1>1, <1>2, <1>3
  <2>3. \A k \in 1..Len(u) : t[k + Len(s)] = u[k]
    <3> TAKE k \in 1..Len(u)
    <3>1. k + Len(s) \in 1..Len(t) /\ k + Len(s) > Len(s) /\ k + Len(s) - Len(s) = k
      BY <1>2, <1>3
    <3> QED BY <3>1, <2>2
  <2> QED BY <2>1, <2>2, <2>3
<1>5. t # <<>> /\ Head(t) = Head(s)
  BY <1>2, <1>3, <1>4
<1> HIDE DEF t
<1>6. Followed(t, "delete", "insert")
  <2> SUFFICES ASSUME NEW k \in 1..Len(t), t[k] = "delete"
               PROVE  k < Len(t) /\ t[k + 1] = "insert"
    BY DEF Followed
  <2>1. CASE k <= Len(s)
    <3>1. k \in 1..Len(s) /\ s[k] = "delete"
      BY <2>1, <1>2, <1>4
    <3>2. k < Len(s) /\ s[k + 1] = "insert"
      BY <3>1 DEF Proper, Followed
    <3>3. k + 1 \in 1..Len(s) /\ k < Len(t)
      BY <3>1, <3>2, <1>2, <1>3
    <3> QED BY <3>2, <3>3, <1>4
  <2>2. CASE k > Len(s)
    <3>1. k - Len(s) \in 1..Len(u) /\ u[k - Len(s)] = "delete"
      BY <2>2, <1>2, <1>3, <1>4
    <3>2. k - Len(s) < Len(u) /\ u[k - Len(s) + 1] = "insert"
      BY <3>1 DEF Proper, Followed
    <3>3. /\ k + 1 \in 1..Len(t) /\ k + 1 > Len(s) /\ k + 1 - Len(s) = k - Len(s) + 1
          /\ k < Len(t)
      BY <3>2, <2>2, <1>2, <1>3
    <3> QED BY <3>2, <3>3, <1>4
  <2> QED BY <2>1, <2>2, <1>2
<1>7. ASSUME NEW x, NEW y, Led(s, x, y), Led(u, x, y), u # <<>> => Head(u) # y
      PROVE  Led(t, x, y)
  <2> SUFFICES ASSUME NEW k \in 2..Len(t), t[k] = y
               PROVE  t[k - 1] = x
    BY DEF Led
  <2>1. CASE k <= Len(s)
    <3>1. k \in 2..Len(s) /\ k \in 1..Len(s) /\ k - 1 \in 1..Len(s)
      BY <2>1, <1>2
    <3>2. s[k - 1] = x
      BY <3>1, <1>4, <1>7 DEF Led
    <3> QED BY <3>1, <3>2, <1>4
  <2>2. CASE k > Len(s)
    <3>1. k - Len(s) \in 1..Len(u) /\ u[k - Len(s)] = y
      BY <2>2, <1>2, <1>3, <1>4
    <3>2. k - Len(s) # 1
      BY <3>1, <1>2, <1>7
    <3>3. /\ k - Len(s) \in 2..Len(u) /\ k - 1 \in 1..Len(t) /\ k - 1 > Len(s)
          /\ k - 1 - Len(s) = k - Len(s) - 1
      BY <3>1, <3>2, <1>2, <1>3
    <3>4. u[k - Len(s) - 1] = x
      BY <3>1, <3>3, <1>7 DEF Led
    <3> QED BY <3>3, <3>4, <1>4
  <2> QED BY <2>1, <2>2, <1>2
<1>8. Led(t, "epoch", "bump") /\ Led(t, "read", "count")
  BY <1>7 DEF Proper
<1>12. ASSUME NEW k \in 2..Len(t) PROVE t[k] # "read"
  <2>1. CASE k <= Len(s)
    <3>1. k \in 2..Len(s) /\ k \in 1..Len(s)
      BY <2>1, <1>2
    <3> QED BY <3>1, <1>4 DEF Proper
  <2>2. CASE k = Len(s) + 1
    <3>1. 1 \in 1..Len(u) /\ k - Len(s) = 1 /\ k > Len(s) /\ k \in 1..Len(t)
      BY <2>2, <1>2, <1>3, <1>12
    <3>2. u # <<>>
      BY <3>1
    <3> QED BY <3>1, <3>2, <1>2, <1>4
  <2>3. CASE k > Len(s) + 1
    <3>1. k - Len(s) \in 2..Len(u) /\ k > Len(s) /\ k \in 1..Len(t)
      BY <2>3, <1>2, <1>3, <1>12
    <3> QED BY <3>1, <1>4 DEF Proper
  <2> QED BY <2>1, <2>2, <2>3, <1>2
<1>13. ASSUME NEW k \in 1..(Len(t) - 1) PROVE t[k] # "pass"
  <2>1. CASE k <= Len(s)
    <3>1. k \in 1..Len(s)
      BY <2>1, <1>2
    <3> QED BY <3>1, <1>4 DEF Owes
  <2>2. CASE k > Len(s)
    <3>1. k - Len(s) \in 1..(Len(u) - 1) /\ k \in 1..Len(t)
      BY <2>2, <1>2, <1>3, <1>13
    <3> QED BY <3>1, <2>2, <1>4 DEF Proper
  <2> QED BY <2>1, <2>2, <1>2
<1>9. ASSUME NEW step, Owes(s, step) PROVE Owes(t, step)
  <2>1. PICK k \in 1..Len(s) : s[k] = step
    BY <1>9 DEF Owes
  <2>2. k \in 1..Len(t) /\ t[k] = step
    BY <1>2, <1>3, <1>4, <2>1
  <2> QED BY <2>2 DEF Owes
<1>10. ASSUME NEW step, Owes(u, step) PROVE Owes(t, step)
  <2>1. PICK k \in 1..Len(u) : u[k] = step
    BY <1>10 DEF Owes
  <2>2. k + Len(s) \in 1..Len(t) /\ t[k + Len(s)] = step
    BY <1>2, <1>3, <1>4, <2>1
  <2> QED BY <2>2 DEF Owes
<1>11. /\ Proper(t) /\ t # <<>> /\ Head(t) = Head(s)
       /\ \A step : Owes(s, step) \/ Owes(u, step) => Owes(t, step)
  BY <1>3, <1>5, <1>6, <1>8, <1>9, <1>10, <1>12, <1>13 DEF Proper
<1> QED BY <1>11 DEF t

\* The lists the requests are put together from.
LEMMA ProperPieces ==
  /\ Proper(<<"totp">>) /\ Head(<<"totp">>) = "totp"
  /\ Proper(<<"read", "count", "consume">>) /\ Owes(<<"read", "count", "consume">>, "consume")
  /\ Head(<<"read", "count", "consume">>) = "read"
  /\ Proper(Enrolled) /\ Head(Enrolled) = "confirm"
  /\ Proper(<<"pass">>) /\ Head(<<"pass">>) = "pass"
  /\ Proper(<<"read", "consume", "match", "pass">>)
  /\ Owes(<<"read", "consume", "match", "pass">>, "consume")
  /\ Head(<<"read", "consume", "match", "pass">>) = "read"
  /\ Proper(<<"read", "consume", "save">>) /\ Owes(<<"read", "consume", "save">>, "consume")
  /\ Head(<<"read", "consume", "save">>) = "read"
  /\ Proper(<<"find", "use", "pass">>) /\ Owes(<<"find", "use", "pass">>, "use")
  /\ Head(<<"find", "use", "pass">>) = "find"
  /\ Proper(issueRecoveryCodes) /\ Head(issueRecoveryCodes) = "delete"
  /\ Proper(<<"last", "drop">>) /\ Head(<<"last", "drop">>) = "last"
  /\ Proper(<<"bump", "end">>) /\ Head(<<"bump", "end">>) = "bump"
  /\ Proper(<<"epoch", "bump", "end">>) /\ Head(<<"epoch", "bump", "end">>) = "epoch"
<1> USE DEF Proper, Followed, Led, Owes, Steps
<1>1. Proper(<<"totp">>) /\ Head(<<"totp">>) = "totp"
  OBVIOUS
<1>2. /\ Proper(<<"read", "count", "consume">>)
      /\ Owes(<<"read", "count", "consume">>, "consume")
      /\ Head(<<"read", "count", "consume">>) = "read"
  OBVIOUS
<1>3. Proper(Enrolled) /\ Head(Enrolled) = "confirm"
  BY DEF Enrolled
<1>4. Proper(<<"pass">>) /\ Head(<<"pass">>) = "pass"
  OBVIOUS
<1>5. /\ Proper(<<"read", "consume", "match", "pass">>)
      /\ Owes(<<"read", "consume", "match", "pass">>, "consume")
      /\ Head(<<"read", "consume", "match", "pass">>) = "read"
  OBVIOUS
<1>6. /\ Proper(<<"read", "consume", "save">>) /\ Owes(<<"read", "consume", "save">>, "consume")
      /\ Head(<<"read", "consume", "save">>) = "read"
  OBVIOUS
<1>7. /\ Proper(<<"find", "use", "pass">>) /\ Owes(<<"find", "use", "pass">>, "use")
      /\ Head(<<"find", "use", "pass">>) = "find"
  OBVIOUS
<1>8. Proper(issueRecoveryCodes) /\ Head(issueRecoveryCodes) = "delete"
  BY DEF issueRecoveryCodes
<1>9. Proper(<<"last", "drop">>) /\ Head(<<"last", "drop">>) = "last"
  OBVIOUS
<1>10. /\ Proper(<<"bump", "end">>) /\ Head(<<"bump", "end">>) = "bump"
       /\ Proper(<<"epoch", "bump", "end">>) /\ Head(<<"epoch", "bump", "end">>) = "epoch"
  OBVIOUS
<1> QED BY <1>1, <1>2, <1>3, <1>4, <1>5, <1>6, <1>7, <1>8, <1>9, <1>10

\* The steps a page asks for, by what the request is about: c is a challenge, a
\* recovery code or None.
Asked(s, c) ==
  /\ Proper(s) /\ s # <<>> /\ Head(s) # "count"
  /\ Head(s) = "read" => c \in Challenges
  /\ c \in Challenges => Head(s) = "read" /\ Owes(s, "consume")
  /\ c \in Sets => Head(s) = "find" /\ Owes(s, "use")

\* What comes before something else does not give a pass.
LEMMA NoPass ==
  /\ ~Owes(<<"totp">>, "pass") /\ ~Owes(<<"read", "count", "consume">>, "pass")
  /\ ~Owes(<<"read", "consume", "save">>, "pass") /\ ~Owes(issueRecoveryCodes, "pass")
  BY DEF Owes, issueRecoveryCodes

\* What the pages ask for is asked for properly.
LEMMA AskedPrograms ==
  /\ \A c \in Challenges \cup {None} :
       /\ Asked(Answer(c) \o Enrolled, c) /\ Head(Answer(c) \o Enrolled) # "bump"
       /\ Asked(Answer(c) \o <<"pass">>, c) /\ Head(Answer(c) \o <<"pass">>) # "bump"
  /\ \A c \in Challenges \cup {None} : c # None =>
       /\ Asked(<<"read", "consume", "match", "pass">>, c)
       /\ Asked(<<"read", "consume", "save">> \o Enrolled, c)
       /\ Head(<<"read", "consume", "save">> \o Enrolled) # "bump"
  /\ \A c \in Sets : Asked(<<"find", "use", "pass">>, c)
  /\ Asked(issueRecoveryCodes, None) /\ Asked(<<"last", "drop">>, None)
  /\ Asked(<<"bump", "end">>, None) /\ Asked(<<"epoch", "bump", "end">>, None)
<1>0. /\ None \notin Challenges /\ None \notin Sets
      /\ \A c \in Challenges : c \notin Sets
  BY MfaAssumption
<1>1. ASSUME NEW c \in Challenges \cup {None}, NEW u, Proper(u), u # <<>>,
             Head(u) \notin {"bump", "count", "read"}
      PROVE  Asked(Answer(c) \o u, c) /\ Head(Answer(c) \o u) # "bump"
  <2>1. CASE c = None
    <3>1. Answer(c) = <<"totp">> /\ <<"totp">> # <<>>
      BY <2>1 DEF Answer
    <3>2. Proper(<<"totp">> \o u) /\ <<"totp">> \o u # <<>> /\ Head(<<"totp">> \o u) = "totp"
      BY <1>1, <3>1, ProperJoin, ProperPieces, NoPass
    <3> QED BY <3>1, <3>2, <2>1, <1>0 DEF Asked
  <2>2. CASE c # None
    <3>1. Answer(c) = <<"read", "count", "consume">> /\ <<"read", "count", "consume">> # <<>>
      BY <2>2 DEF Answer
    <3>2. /\ Proper(Answer(c) \o u) /\ Answer(c) \o u # <<>> /\ Head(Answer(c) \o u) = "read"
          /\ Owes(Answer(c) \o u, "consume")
      BY <1>1, <3>1, ProperJoin, ProperPieces, NoPass
    <3> QED BY <3>2, <1>0, <2>2 DEF Asked
  <2> QED BY <2>1, <2>2
<1>2. ASSUME NEW c \in Challenges \cup {None}
      PROVE  /\ Asked(Answer(c) \o Enrolled, c) /\ Head(Answer(c) \o Enrolled) # "bump"
             /\ Asked(Answer(c) \o <<"pass">>, c) /\ Head(Answer(c) \o <<"pass">>) # "bump"
  <2>1. Enrolled # <<>> /\ <<"pass">> # <<>>
    BY DEF Enrolled
  <2> QED BY <1>1, <1>2, <2>1, ProperPieces
<1>3. ASSUME NEW c \in Challenges \cup {None}, c # None
      PROVE  /\ Asked(<<"read", "consume", "match", "pass">>, c)
             /\ Asked(<<"read", "consume", "save">> \o Enrolled, c)
             /\ Head(<<"read", "consume", "save">> \o Enrolled) # "bump"
  <2>1. <<"read", "consume", "save">> # <<>> /\ <<"read", "consume", "match", "pass">> # <<>>
    OBVIOUS
  <2> DEFINE t == <<"read", "consume", "save">> \o Enrolled
  <2>2. Proper(t) /\ t # <<>> /\ Head(t) = "read" /\ Owes(t, "consume")
    BY <2>1, ProperJoin, ProperPieces, NoPass
  <2>3. Asked(<<"read", "consume", "match", "pass">>, c)
    BY <2>1, <1>0, <1>3, ProperPieces DEF Asked
  <2> QED BY <2>2, <2>3, <1>0, <1>3 DEF Asked
<1>4. ASSUME NEW c \in Sets PROVE Asked(<<"find", "use", "pass">>, c)
  <2>1. <<"find", "use", "pass">> # <<>>
    OBVIOUS
  <2> QED BY <2>1, <1>0, ProperPieces DEF Asked
<1>5. Asked(issueRecoveryCodes, None) /\ Asked(<<"last", "drop">>, None)
  BY <1>0, ProperPieces DEF Asked, issueRecoveryCodes
<1>6. Asked(<<"bump", "end">>, None) /\ Asked(<<"epoch", "bump", "end">>, None)
  BY <1>0, ProperPieces DEF Asked
<1> QED BY <1>2, <1>3, <1>4, <1>5, <1>6

-----------------------------------------------------------------------------
(* What the state is made of.                                                          *)

Request ==
  [todo : Seq(Steps), who : Ids, epoch : Nat, f : Factors \cup {None},
   c : Challenges \cup Sets \cup {None}, right : BOOLEAN, trust : BOOLEAN, saw : Nat,
   alone : BOOLEAN, late : BOOLEAN]

MfaTypeOK ==
  /\ session \in [Browsers -> [Ids -> Nat \cup {None}]]
  /\ pass \in [Browsers -> [Ids -> Pass \cup {None}]]
  /\ epoch \in [Ids -> Nat]
  /\ factor \in [Factors -> {"none", "pending", "confirmed"}]
  /\ chal \in [Challenges -> Row \cup {None}]
  /\ codes \in [stored : SUBSET Sets, used : SUBSET Sets]
  /\ shown \in [Ids -> Sets \cup {None}]
  /\ held \in [Browsers -> [f : Factors, c : Challenges \cup {None}] \cup {None}]
  /\ req \in [Browsers -> Request \cup {Idle}]
  /\ granted \subseteq Challenges \cup Sets

\* What the steps rely on: the page about a passkey has a challenge, a challenge that
\* is named has its row, and a try is counted after the row was read.
HeldFits(h, rowOf) ==
  h # None => (Kind[h.f] = "passkey" => h.c # None) /\ (h.c # None => rowOf[h.c] # None)
RequestFits(r, rowOf) ==
  r.todo # <<>> =>
    /\ Proper(r.todo)
    /\ r.c \in Challenges => rowOf[r.c] # None
    /\ Head(r.todo) = "read" => r.c \in Challenges
    /\ Head(r.todo) = "count" => r.saw < MAX_ATTEMPTS

MfaShape ==
  /\ MfaTypeOK
  /\ \A b \in Browsers : HeldFits(held[b], chal) /\ RequestFits(req[b], chal)

\* A step that leaves every row a row, and the requests as they should be.
RowsStay == \A c \in Challenges : chal[c] # None => chal'[c] # None
RequestsKept ==
  /\ req' \in [Browsers -> Request \cup {Idle}]
  /\ \A a \in Browsers : RequestFits(req'[a], chal')

\* The request of a browser afterwards: a list of steps t, what was seen n.
Onward(r, t, n) == IF t = <<>> THEN Idle ELSE [r EXCEPT !.todo = t, !.saw = n]

\* What a browser has in flight is a request.
LEMMA FlightIsRequest ==
  ASSUME MfaShape, NEW b \in Browsers, InFlight(b)
  PROVE  /\ req[b] \in Request /\ req[b].todo # <<>> /\ Proper(req[b].todo)
         /\ RequestFits(req[b], chal)
<1>1. req[b] \in Request \cup {Idle} /\ RequestFits(req[b], chal)
  BY DEF MfaShape, MfaTypeOK
<1>2. req[b] # Idle
  BY DEF InFlight, Idle
<1>3. req[b].todo # <<>>
  BY DEF InFlight
<1> QED BY <1>1, <1>2, <1>3 DEF RequestFits

\* A request that is not touched fits, with or without the mark that it is alone.
LEMMA UntouchedFit ==
  ASSUME MfaShape, RowsStay, NEW a \in Browsers
  PROVE  /\ req[a] \in Request \cup {Idle} /\ RequestFits(req[a], chal')
         /\ InFlight(a) => /\ [req[a] EXCEPT !.alone = FALSE] \in Request
                           /\ RequestFits([req[a] EXCEPT !.alone = FALSE], chal')
<1>1. req[a] \in Request \cup {Idle} /\ RequestFits(req[a], chal)
  BY DEF MfaShape, MfaTypeOK
<1>2. RequestFits(req[a], chal')
  BY <1>1 DEF RequestFits, RowsStay
<1>3. ASSUME InFlight(a)
      PROVE  /\ [req[a] EXCEPT !.alone = FALSE] \in Request
             /\ RequestFits([req[a] EXCEPT !.alone = FALSE], chal')
  <2>1. req[a] \in Request
    BY <1>3, FlightIsRequest
  <2> DEFINE r == [req[a] EXCEPT !.alone = FALSE]
  <2>2. r \in Request /\ r.todo = req[a].todo /\ r.c = req[a].c /\ r.saw = req[a].saw
    BY <2>1 DEF Request
  <2> HIDE DEF r
  <2>3. RequestFits(r, chal')
    BY <1>2, <2>2 DEF RequestFits
  <2> QED BY <2>2, <2>3 DEF r
<1> QED BY <1>1, <1>2, <1>3

\* Going on with a proper list of steps.
LEMMA GoKeeps ==
  ASSUME MfaShape, RowsStay, NEW b \in Browsers, InFlight(b), NEW t, Proper(t), NEW n \in Nat,
         t # <<>> => Head(t) # "read" /\ (Head(t) = "count" => n < MAX_ATTEMPTS),
         Go(b, t, n)
  PROVE  RequestsKept /\ req' = [req EXCEPT ![b] = Onward(req[b], t, n)]
<1>1. req[b] \in Request /\ req[b].todo # <<>> /\ RequestFits(req[b], chal')
  BY FlightIsRequest, UntouchedFit
<1>2. req' = [req EXCEPT ![b] = Onward(req[b], t, n)]
  BY DEF Go, Onward
<1>3. Onward(req[b], t, n) \in Request \cup {Idle} /\ RequestFits(Onward(req[b], t, n), chal')
  <2>1. CASE t = <<>>
    BY <2>1 DEF Onward, RequestFits, Idle
  <2>2. CASE t # <<>>
    <3> DEFINE r == [req[b] EXCEPT !.todo = t, !.saw = n]
    <3>1. r \in Request
      BY <1>1 DEF Request, Proper
    <3>2. r.todo = t /\ r.saw = n /\ r.c = req[b].c
      BY <1>1 DEF Request
    <3> HIDE DEF r
    <3>3. RequestFits(r, chal')
      BY <3>2, <1>1, <2>2 DEF RequestFits
    <3> QED BY <2>2, <3>1, <3>3 DEF Onward, r
  <2> QED BY <2>1, <2>2
<1>4. req \in [Browsers -> Request \cup {Idle}]
  BY DEF MfaShape, MfaTypeOK
<1>5. \A a \in Browsers : req[a] \in Request \cup {Idle} /\ RequestFits(req[a], chal')
  BY UntouchedFit
<1> QED BY <1>2, <1>3, <1>4, <1>5 DEF RequestsKept

\* The next step, after one that did not read a challenge.
LEMMA OnKeeps ==
  ASSUME MfaShape, RowsStay, NEW b \in Browsers, InFlight(b), Head(req[b].todo) # "read", On(b)
  PROVE  RequestsKept /\ req' = [req EXCEPT ![b] = Onward(req[b], Tail(req[b].todo), 0)]
<1>1. Proper(req[b].todo) /\ req[b].todo # <<>>
  BY FlightIsRequest
<1>2. /\ Proper(Tail(req[b].todo))
      /\ Tail(req[b].todo) # <<>> => /\ Head(Tail(req[b].todo)) # "read"
                                     /\ Head(Tail(req[b].todo)) # "count"
  BY <1>1, ProperTail
<1>3. Go(b, Tail(req[b].todo), 0) /\ 0 \in Nat
  BY DEF On
<1> QED BY <1>2, <1>3, GoKeeps

\* A request that ends.
LEMMA StopKeeps ==
  ASSUME MfaShape, RowsStay, NEW b \in Browsers, Stop(b)
  PROVE  RequestsKept
<1>1. req \in [Browsers -> Request \cup {Idle}] /\ req' = [req EXCEPT ![b] = Idle]
  BY DEF MfaShape, MfaTypeOK, Stop
<1>2. RequestFits(Idle, chal')
  BY DEF RequestFits, Idle
<1>3. \A a \in Browsers : RequestFits(req[a], chal')
  BY UntouchedFit
<1> QED BY <1>1, <1>2, <1>3 DEF RequestsKept

\* Steps that leave the requests alone.
LEMMA SameKeeps ==
  ASSUME MfaShape, RowsStay, req' = req
  PROVE  RequestsKept
<1>1. req \in [Browsers -> Request \cup {Idle}]
  BY DEF MfaShape, MfaTypeOK
<1>2. \A a \in Browsers : RequestFits(req[a], chal')
  BY UntouchedFit
<1> QED BY <1>1, <1>2 DEF RequestsKept

\* A request that begins.
Started(b, r) ==
  req' = [ a \in Browsers |->
    IF a = b THEN r ELSE IF InFlight(a) THEN [req[a] EXCEPT !.alone = FALSE] ELSE req[a] ]
LEMMA StartKeeps ==
  ASSUME MfaShape, RowsStay, NEW b \in Browsers, NEW r \in Request, Started(b, r),
         RequestFits(r, chal')
  PROVE  RequestsKept
<1>1. \A a \in Browsers :
        /\ req[a] \in Request \cup {Idle} /\ RequestFits(req[a], chal')
        /\ InFlight(a) => /\ [req[a] EXCEPT !.alone = FALSE] \in Request
                          /\ RequestFits([req[a] EXCEPT !.alone = FALSE], chal')
  BY UntouchedFit
<1>2. ASSUME NEW a \in Browsers PROVE req'[a] \in Request \cup {Idle} /\ RequestFits(req'[a], chal')
  BY <1>1 DEF Started
<1>3. req' \in [Browsers -> Request \cup {Idle}]
  <2> DEFINE S == Request \cup {Idle}
  <2>1. \A a \in Browsers : req'[a] \in S
    BY <1>2
  <2> HIDE DEF S
  <2>2. req' = [a \in Browsers |-> req'[a]]
    BY DEF Started
  <2>3. req' \in [Browsers -> S]
    BY <2>1, <2>2
  <2> QED BY <2>3 DEF S
<1> QED BY <1>2, <1>3 DEF RequestsKept

\* What all requests have in common when they begin: nothing but the requests changes,
\* the new one notes whether its challenge or code has been good for a pass before, and
\* whether it is alone.
Newborn(b, r) ==
  /\ Asked(r.todo, r.c) /\ (r.c \in Challenges => chal[r.c] # None)
  /\ (r.late => r.c \in granted) /\ (r.alone => \A x \in Browsers : ~InFlight(x))
  /\ Head(r.todo) = "bump" => r.who = "admin"
Began(b) ==
  /\ ~InFlight(b)
  /\ UNCHANGED <<cookies, rows, shown, held, granted>>
  /\ \E r \in Request : Started(b, r) /\ Newborn(b, r)

LEMMA BeginBegan ==
  ASSUME MfaShape, NEW b \in Browsers, NEW steps, NEW f \in Factors \cup {None},
         NEW c \in Challenges \cup Sets \cup {None}, NEW right \in BOOLEAN, NEW trust \in BOOLEAN,
         Asked(steps, c), Head(steps) # "bump", c \in Challenges => chal[c] # None,
         Begin(b, steps, f, c, right, trust)
  PROVE  Began(b)
<1> DEFINE r == [ todo |-> steps, who |-> currentIdentity(b), epoch |-> epoch[currentIdentity(b)],
                  f |-> f, c |-> c, right |-> right, trust |-> trust, saw |-> 0,
                  alone |-> FALSE, late |-> c \in granted ]
<1>1. currentIdentity(b) \in Ids
  BY DEF Begin, currentIdentity
<1>2. epoch[currentIdentity(b)] \in Nat
  BY <1>1 DEF MfaShape, MfaTypeOK
<1>3. r \in Request
  BY <1>1, <1>2 DEF Request, Asked, Proper
<1>4. Newborn(b, r)
  BY DEF Newborn
<1>5. Started(b, r) /\ ~InFlight(b) /\ UNCHANGED <<cookies, rows, shown, held, granted>>
  BY DEF Begin, Started
<1> QED BY <1>3, <1>4, <1>5 DEF Began

\* What a page asks for that becomes a request.
Asks(b) ==
  \/ \E right \in BOOLEAN : Confirm(b, right)
  \/ \E right, trust \in BOOLEAN : FinishPasskey(b, right, trust)
  \/ \E i \in Ids, right, trust \in BOOLEAN : Verify(b, i, right, trust)
  \/ \E i \in Ids : Recover(b, i) \/ NewRecoveryCodes(b, i) \/ SignOutEverywhere(b, i)
  \/ \E i \in Ids, f \in Factors : Remove(b, i, f)

LEMMA AsksBegin ==
  ASSUME MfaShape, NEW b \in Browsers, Asks(b)
  PROVE  Began(b)
<1>1. held[b] # None => held[b].f \in Factors /\ held[b].c \in Challenges \cup {None}
  BY DEF MfaShape, MfaTypeOK
<1>2. held[b] # None => HeldFits(held[b], chal)
  BY DEF MfaShape
<1>3. None \notin Challenges /\ (\A c \in Sets : c \notin Challenges)
  BY MfaAssumption
<1>4. ASSUME NEW right \in BOOLEAN, Confirm(b, right) PROVE Began(b)
  <2> DEFINE c == held[b].c
  <2>1. /\ c \in Challenges \cup {None} /\ (c \in Challenges => chal[c] # None)
        /\ held[b].f \in Factors
    BY <1>1, <1>2, <1>3, <1>4 DEF Confirm, HeldFits
  <2>2. Begin(b, Answer(c) \o Enrolled, held[b].f, c, right, FALSE)
    BY <1>4 DEF Confirm
  <2>3. Asked(Answer(c) \o Enrolled, c) /\ Head(Answer(c) \o Enrolled) # "bump"
    BY <2>1, AskedPrograms
  <2> HIDE DEF c
  <2> QED BY <2>1, <2>2, <2>3, BeginBegan
<1>5. ASSUME NEW right \in BOOLEAN, NEW trust \in BOOLEAN, FinishPasskey(b, right, trust)
      PROVE Began(b)
  <2> DEFINE c == held[b].c
  <2>1. c \in Challenges /\ chal[c] # None /\ held[b].f \in Factors
    BY <1>1, <1>2, <1>3, <1>5 DEF FinishPasskey, HeldFits
  <2>2. \/ Begin(b, <<"read", "consume", "match", "pass">>, held[b].f, c, right, trust)
        \/ Begin(b, <<"read", "consume", "save">> \o Enrolled, held[b].f, c, right, FALSE)
    BY <1>5 DEF FinishPasskey
  <2>3. /\ Asked(<<"read", "consume", "match", "pass">>, c)
        /\ Head(<<"read", "consume", "match", "pass">>) # "bump"
        /\ Asked(<<"read", "consume", "save">> \o Enrolled, c)
        /\ Head(<<"read", "consume", "save">> \o Enrolled) # "bump"
    BY <2>1, <1>3, AskedPrograms
  <2> HIDE DEF c
  <2>4. CASE Begin(b, <<"read", "consume", "match", "pass">>, held[b].f, c, right, trust)
    BY <2>1, <2>3, <2>4, BeginBegan
  <2>5. CASE Begin(b, <<"read", "consume", "save">> \o Enrolled, held[b].f, c, right, FALSE)
    BY <2>1, <2>3, <2>5, BeginBegan
  <2> QED BY <2>2, <2>4, <2>5
<1>6. ASSUME NEW i \in Ids, NEW right \in BOOLEAN, NEW trust \in BOOLEAN, Verify(b, i, right, trust)
      PROVE  Began(b)
  <2>1. CASE \E f \in Confirmed(i) : Begin(b, Answer(None) \o <<"pass">>, f, None, right, trust)
    <3>1. PICK f \in Factors : Begin(b, Answer(None) \o <<"pass">>, f, None, right, trust)
      BY <2>1 DEF Confirmed
    <3>2. Asked(Answer(None) \o <<"pass">>, None) /\ Head(Answer(None) \o <<"pass">>) # "bump"
      BY AskedPrograms
    <3> QED BY <3>1, <3>2, <1>3, BeginBegan
  <2>2. CASE /\ held[b] # None /\ held[b].c # None
             /\ Begin(b, Answer(held[b].c) \o <<"pass">>, held[b].f, held[b].c, right, trust)
    <3> DEFINE c == held[b].c
    <3>1. c \in Challenges \cup {None} /\ chal[c] # None /\ held[b].f \in Factors
      BY <1>1, <1>2, <2>2 DEF HeldFits
    <3>2. Asked(Answer(c) \o <<"pass">>, c) /\ Head(Answer(c) \o <<"pass">>) # "bump"
      BY <3>1, AskedPrograms
    <3>3. Begin(b, Answer(c) \o <<"pass">>, held[b].f, c, right, trust)
      BY <2>2
    <3> HIDE DEF c
    <3> QED BY <3>1, <3>2, <3>3, BeginBegan
  <2> QED BY <1>6, <2>1, <2>2 DEF Verify
<1>7. ASSUME NEW i \in Ids, Recover(b, i) PROVE Began(b)
  <2>1. shown[i] \in Sets /\ shown[i] \notin Challenges
    BY <1>7, <1>3 DEF Recover, MfaShape, MfaTypeOK
  <2>2. Asked(<<"find", "use", "pass">>, shown[i]) /\ Head(<<"find", "use", "pass">>) # "bump"
    BY <2>1, AskedPrograms
  <2>3. Begin(b, <<"find", "use", "pass">>, None, shown[i], TRUE, FALSE)
    BY <1>7 DEF Recover
  <2> DEFINE c == shown[i]
  <2> HIDE DEF c
  <2>4. /\ c \in Sets /\ c \notin Challenges /\ Asked(<<"find", "use", "pass">>, c)
        /\ Begin(b, <<"find", "use", "pass">>, None, c, TRUE, FALSE)
    BY <2>1, <2>2, <2>3 DEF c
  <2> QED BY <2>2, <2>4, BeginBegan
<1>8. ASSUME NEW i \in Ids, NewRecoveryCodes(b, i) PROVE Began(b)
  <2>1. Asked(issueRecoveryCodes, None) /\ Head(issueRecoveryCodes) # "bump"
    BY AskedPrograms, ProperPieces
  <2>2. Begin(b, issueRecoveryCodes, None, None, TRUE, FALSE)
    BY <1>8 DEF NewRecoveryCodes
  <2> QED BY <2>1, <2>2, <1>3, BeginBegan
<1>9. ASSUME NEW i \in Ids, NEW f \in Factors, Remove(b, i, f) PROVE Began(b)
  <2>1. Asked(<<"last", "drop">>, None) /\ Head(<<"last", "drop">>) # "bump"
    BY AskedPrograms, ProperPieces
  <2>2. Begin(b, <<"last", "drop">>, f, None, TRUE, FALSE)
    BY <1>9 DEF Remove
  <2> QED BY <2>1, <2>2, <1>3, BeginBegan
<1>10. ASSUME NEW i \in Ids, SignOutEverywhere(b, i) PROVE Began(b)
  <2> DEFINE steps == IF i = "admin" THEN <<"bump", "end">> ELSE <<"epoch", "bump", "end">>
             nobody == \A x \in Browsers : ~InFlight(x)
             r == [ todo |-> steps,
                    who |-> i, epoch |-> epoch[i], f |-> None, c |-> None, right |-> TRUE,
                    trust |-> FALSE, saw |-> 0, late |-> FALSE, alone |-> nobody ]
  <2>1. Asked(steps, None) /\ (Head(steps) = "bump" => i = "admin")
    BY AskedPrograms, ProperPieces
  <2>2. epoch[i] \in Nat /\ None \notin granted
    BY MfaAssumption DEF MfaShape, MfaTypeOK
  <2>3. Started(b, r) /\ ~InFlight(b) /\ UNCHANGED <<cookies, rows, shown, held, granted>>
    BY <1>10 DEF SignOutEverywhere, Started
  <2>6. nobody \in BOOLEAN
    OBVIOUS
  <2> HIDE DEF steps, nobody
  <2>4. r \in Request
    BY <2>1, <2>2, <2>6 DEF Request, Asked, Proper
  <2>7. /\ r.todo = steps /\ r.c = None /\ ~r.late /\ r.who = i
        /\ r.alone => \A x \in Browsers : ~InFlight(x)
    BY DEF nobody
  <2> HIDE DEF r
  <2>5. Newborn(b, r)
    BY <2>1, <2>2, <2>7, <1>3 DEF Newborn
  <2> QED BY <2>3, <2>4, <2>5 DEF Began
<1> QED BY <1>4, <1>5, <1>6, <1>7, <1>8, <1>9, <1>10 DEF Asks

\* A page that starts a factor or has something sent: at most one row is written anew,
\* one no other browser names, and what it was good for before is forgotten.
Anew(b) ==
  \E c \in Challenges, i \in Ids, f \in Factors \cup {None} :
    /\ Free(b, c) /\ chal' = [chal EXCEPT ![c] = NewRow(i, f)] /\ granted' = granted \ {c}
    /\ \/ \E g \in Factors : held' = [held EXCEPT ![b] = [f |-> g, c |-> c]]
       \/ held' = held
Sent(b) ==
  /\ ~InFlight(b)
  /\ UNCHANGED <<cookies, epoch, codes, shown, req>>
  /\ \/ factor' = factor
     \/ \E f \in Factors : factor' = [factor EXCEPT ![f] = "pending"]
  /\ \/ Anew(b)
     \/ /\ UNCHANGED <<chal, granted>>
        /\ \E f \in Factors :
             Kind[f] # "passkey" /\ held' = [held EXCEPT ![b] = [f |-> f, c |-> None]]

LEMMA SendingsSend ==
  ASSUME MfaShape, NEW b \in Browsers, NEW f \in Factors,
         \/ StartFactor(b, f) \/ StartPasskey(b, f)
         \/ \E i \in Ids : SendCode(b, i, f)
  PROVE  Sent(b)
<1>1. ASSUME NEW i \in Ids, Send(b, i, f) PROVE Anew(b)
  BY <1>1 DEF Send, Anew
<1>2. currentIdentity(b) # None => currentIdentity(b) \in Ids
  BY DEF currentIdentity
<1>3. CASE StartFactor(b, f)
  <2>1. currentIdentity(b) \in Ids /\ ~InFlight(b) /\ factor' = [factor EXCEPT ![f] = "pending"]
    BY <1>2, <1>3 DEF StartFactor
  <2>2. UNCHANGED <<cookies, epoch, codes, shown, req>>
    BY <1>3 DEF StartFactor
  <2>3. \/ Send(b, currentIdentity(b), f)
        \/ UNCHANGED <<chal, granted>> /\ held' = [held EXCEPT ![b] = [f |-> f, c |-> None]]
    BY <1>3 DEF StartFactor
  <2>4. Kind[f] # "passkey"
    BY <1>3 DEF StartFactor
  <2> QED BY <1>1, <2>1, <2>2, <2>3, <2>4 DEF Sent
<1>4. CASE StartPasskey(b, f)
  <2>1. currentIdentity(b) \in Ids /\ ~InFlight(b)
    BY <1>2, <1>4 DEF StartPasskey
  <2>2. UNCHANGED <<cookies, epoch, factor, codes, shown, req>>
    BY <1>4 DEF StartPasskey
  <2>3. PICK c \in Challenges :
          /\ Free(b, c) /\ chal' = [chal EXCEPT ![c] = NewRow(currentIdentity(b), None)]
          /\ granted' = granted \ {c} /\ held' = [held EXCEPT ![b] = [f |-> f, c |-> c]]
    BY <1>4 DEF StartPasskey
  <2>4. Anew(b)
    BY <2>1, <2>3 DEF Anew
  <2> QED BY <2>1, <2>2, <2>4 DEF Sent
<1>5. ASSUME NEW i \in Ids, SendCode(b, i, f) PROVE Sent(b)
  <2>1. Send(b, i, f) /\ ~InFlight(b) /\ UNCHANGED <<cookies, epoch, factor, codes, shown, req>>
    BY <1>5 DEF SendCode
  <2> QED BY <1>1, <2>1 DEF Sent
<1> QED BY <1>3, <1>4, <1>5

\* What happens to a browser or a row without the second step's pages: somebody signs in
\* or out, a pass or a code expires.
Elsewhere ==
  /\ UNCHANGED <<epoch, factor, codes, shown, req, granted>>
  /\ session' \in [Browsers -> [Ids -> Nat \cup {None}]]
  /\ pass' \in [Browsers -> [Ids -> Pass \cup {None}]]
  /\ \A b \in Browsers, i \in Ids : pass'[b][i] = pass[b][i] \/ pass'[b][i] = None
  /\ held' = held \/ \E b \in Browsers : held' = [held EXCEPT ![b] = None]
  /\ chal' = chal \/ \E c \in Challenges :
       chal[c] # None /\ chal' = [chal EXCEPT ![c].fresh = FALSE]

LEMMA OthersElsewhere ==
  ASSUME MfaShape,
         \/ \E b \in Browsers, i \in Ids : SignIn(b, i) \/ SignOut(b, i) \/ PassExpires(b, i)
         \/ \E c \in Challenges : CodeExpires(c)
  PROVE  Elsewhere
<1>1. /\ session \in [Browsers -> [Ids -> Nat \cup {None}]]
      /\ pass \in [Browsers -> [Ids -> Pass \cup {None}]]
      /\ epoch \in [Ids -> Nat]
  BY DEF MfaShape, MfaTypeOK
<1>2. ASSUME NEW b \in Browsers, NEW i \in Ids, SignIn(b, i) PROVE Elsewhere
  BY <1>1, <1>2 DEF SignIn, Elsewhere, rows
<1>3. ASSUME NEW b \in Browsers, NEW i \in Ids, SignOut(b, i) PROVE Elsewhere
  <2>1. pass' \in [Browsers -> [Ids -> Pass \cup {None}]]
    BY <1>1, <1>3 DEF SignOut
  <2>2. \A a \in Browsers, j \in Ids : pass'[a][j] = pass[a][j] \/ pass'[a][j] = None
    BY <1>1, <1>3 DEF SignOut
  <2>3. session' \in [Browsers -> [Ids -> Nat \cup {None}]]
    BY <1>1, <1>3 DEF SignOut
  <2> QED BY <1>3, <2>1, <2>2, <2>3 DEF SignOut, Elsewhere, rows
<1>4. ASSUME NEW b \in Browsers, NEW i \in Ids, PassExpires(b, i) PROVE Elsewhere
  BY <1>1, <1>4 DEF PassExpires, Elsewhere, rows
<1>5. ASSUME NEW c \in Challenges, CodeExpires(c) PROVE Elsewhere
  BY <1>1, <1>5 DEF CodeExpires, Elsewhere, cookies
<1> QED BY <1>2, <1>3, <1>4, <1>5

\* Every step is one of these, or a step of a request.
LEMMA StepKinds ==
  ASSUME MfaShape, Step
  PROVE  Elsewhere \/ \E b \in Browsers : Began(b) \/ Sent(b) \/ (InFlight(b) /\ Work(b))
<1>1. ASSUME NEW b \in Browsers, Work(b) PROVE InFlight(b)
  BY <1>1 DEF Work, At, ReadChallenge, CountTry, ConsumeChallenge, CheckTotp, MatchPasskey,
     SavePasskey, ConfirmFactor, ListConfirmed, DeleteCodes, InsertCodes, FindCode, UseCode,
     GivePass, ReadLast, DropFactor, ReadEpoch, BumpEpoch, EndSessions
<1>2. ASSUME NEW b \in Browsers, MfaSetup(b) PROVE Began(b) \/ Sent(b)
  <2>1. CASE \E f \in Factors : StartFactor(b, f) \/ StartPasskey(b, f)
    BY <2>1, SendingsSend
  <2>2. CASE \E right \in BOOLEAN : Confirm(b, right) \/ FinishPasskey(b, right, FALSE)
    BY <2>2, AsksBegin DEF Asks
  <2>3. CASE \E i \in Ids : NewRecoveryCodes(b, i) \/ \E f \in Factors : Remove(b, i, f)
    BY <2>3, AsksBegin DEF Asks
  <2> QED BY <1>2, <2>1, <2>2, <2>3 DEF MfaSetup
<1>3. ASSUME NEW b \in Browsers, NEW i \in Ids, MfaChallenge(b, i) PROVE Began(b) \/ Sent(b)
  <2>1. CASE \E f \in Factors : SendCode(b, i, f) \/ StartPasskey(b, f)
    BY <2>1, SendingsSend
  <2>2. CASE \E right, trust \in BOOLEAN : Verify(b, i, right, trust) \/ FinishPasskey(b, right, trust)
    BY <2>2, AsksBegin DEF Asks
  <2>3. CASE Recover(b, i)
    BY <2>3, AsksBegin DEF Asks
  <2> QED BY <1>3, <2>1, <2>2, <2>3 DEF MfaChallenge
<1>4. ASSUME NEW b \in Browsers, NEW i \in Ids, SignOutEverywhere(b, i) PROVE Began(b)
  BY <1>4, AsksBegin DEF Asks
<1> QED BY <1>1, <1>2, <1>3, <1>4, OthersElsewhere DEF Step

-----------------------------------------------------------------------------
(* The shape is kept.                                                                  *)

\* Rows are changed one at a time, to rows, and tries are counted up to the limit.
LEMMA RowWritesStay ==
  ASSUME MfaShape, NEW c \in Challenges, NEW row \in Row, chal' = [chal EXCEPT ![c] = row]
  PROVE  chal' \in [Challenges -> Row \cup {None}] /\ RowsStay
  BY MfaAssumption DEF MfaShape, MfaTypeOK, RowsStay

LEMMA TriesFit ==
  ASSUME MfaShape, NEW b \in Browsers, At(b, "count")
  PROVE  req[b].saw + 1 \in 0..MAX_ATTEMPTS
<1>1. req[b] \in Request /\ RequestFits(req[b], chal) /\ req[b].todo # <<>>
  BY FlightIsRequest DEF At
<1>2. req[b].saw < MAX_ATTEMPTS /\ req[b].saw \in Nat
  BY <1>1 DEF At, RequestFits, Request
<1> QED BY <1>2, MfaAssumption

\* What the pages hold still fits when rows stay.
LEMMA HeldStays ==
  ASSUME MfaShape, RowsStay, NEW b \in Browsers
  PROVE  HeldFits(held[b], chal')
<1>1. held[b] # None => held[b].c \in Challenges \cup {None}
  BY DEF MfaShape, MfaTypeOK
<1> QED BY <1>1 DEF MfaShape, HeldFits, RowsStay

LEMMA HeldKept ==
  ASSUME MfaShape, RowsStay,
         held' = held \/ \E b \in Browsers : held' = [held EXCEPT ![b] = None]
  PROVE  /\ held' \in [Browsers -> [f : Factors, c : Challenges \cup {None}] \cup {None}]
         /\ \A a \in Browsers : HeldFits(held'[a], chal')
<1>1. \A a \in Browsers : HeldFits(held[a], chal')
  BY HeldStays
<1>2. HeldFits(None, chal')
  BY DEF HeldFits
<1>3. held \in [Browsers -> [f : Factors, c : Challenges \cup {None}] \cup {None}]
  BY DEF MfaShape, MfaTypeOK
<1> QED BY <1>1, <1>2, <1>3

\* The shape, put together again.
LEMMA ShapeAgain ==
  ASSUME MfaShape, RowsStay, RequestsKept,
         session' \in [Browsers -> [Ids -> Nat \cup {None}]],
         pass' \in [Browsers -> [Ids -> Pass \cup {None}]],
         epoch' \in [Ids -> Nat],
         factor' \in [Factors -> {"none", "pending", "confirmed"}],
         chal' \in [Challenges -> Row \cup {None}],
         codes' \in [stored : SUBSET Sets, used : SUBSET Sets],
         shown' \in [Ids -> Sets \cup {None}],
         held' \in [Browsers -> [f : Factors, c : Challenges \cup {None}] \cup {None}],
         \A a \in Browsers : HeldFits(held'[a], chal'),
         granted' \subseteq Challenges \cup Sets
  PROVE  MfaShape'
  BY DEF MfaShape, MfaTypeOK, RequestsKept

LEMMA BeganShape ==
  ASSUME MfaShape, NEW b \in Browsers, Began(b)
  PROVE  MfaShape'
<1>1. UNCHANGED <<cookies, rows, shown, held, granted>>
  BY DEF Began
<1>2. RowsStay
  BY <1>1 DEF RowsStay, rows
<1>3. PICK r \in Request : Started(b, r) /\ Newborn(b, r)
  BY DEF Began
<1>4. RequestFits(r, chal')
  BY <1>1, <1>3 DEF RequestFits, Newborn, Asked, rows
<1>5. RequestsKept
  BY <1>2, <1>3, <1>4, StartKeeps
<1>6. \A a \in Browsers : HeldFits(held'[a], chal')
  BY <1>1, <1>2, HeldKept
<1> QED BY <1>1, <1>2, <1>5, <1>6, ShapeAgain DEF MfaShape, MfaTypeOK, cookies, rows

LEMMA SentShape ==
  ASSUME MfaShape, NEW b \in Browsers, Sent(b)
  PROVE  MfaShape'
<1>1. /\ session' = session /\ pass' = pass /\ epoch' = epoch /\ codes' = codes
      /\ shown' = shown /\ req' = req
  BY DEF Sent, cookies
<1>2. factor' \in [Factors -> {"none", "pending", "confirmed"}]
  BY DEF Sent, MfaShape, MfaTypeOK
<1>3. CASE Anew(b)
  <2>1. PICK c \in Challenges, i \in Ids, f \in Factors \cup {None} :
          /\ chal' = [chal EXCEPT ![c] = NewRow(i, f)] /\ granted' = granted \ {c}
          /\ \/ \E g \in Factors : held' = [held EXCEPT ![b] = [f |-> g, c |-> c]]
             \/ held' = held
    BY <1>3 DEF Anew
  <2>2. NewRow(i, f) \in Row
    BY MfaAssumption DEF NewRow, Row
  <2>3. chal' \in [Challenges -> Row \cup {None}] /\ RowsStay /\ chal'[c] # None
    BY <2>1, <2>2, RowWritesStay, MfaAssumption DEF MfaShape, MfaTypeOK
  <2>4. RequestsKept
    BY <1>1, <2>3, SameKeeps
  <2>5. /\ held' \in [Browsers -> [f : Factors, c : Challenges \cup {None}] \cup {None}]
        /\ \A a \in Browsers : HeldFits(held'[a], chal')
    <3>1. CASE held' = held
      BY <2>3, <3>1, HeldKept
    <3>2. CASE \E g \in Factors : held' = [held EXCEPT ![b] = [f |-> g, c |-> c]]
      <4>1. PICK g \in Factors : held' = [held EXCEPT ![b] = [f |-> g, c |-> c]]
        BY <3>2
      <4>2. HeldFits([f |-> g, c |-> c], chal')
        BY <2>3, MfaAssumption DEF HeldFits
      <4>3. \A a \in Browsers : HeldFits(held[a], chal')
        BY <2>3, HeldStays
      <4>4. held \in [Browsers -> [f : Factors, c : Challenges \cup {None}] \cup {None}]
        BY DEF MfaShape, MfaTypeOK
      <4> QED BY <4>1, <4>2, <4>3, <4>4
    <3> QED BY <2>1, <3>1, <3>2
  <2>6. granted' \subseteq Challenges \cup Sets
    BY <2>1 DEF MfaShape, MfaTypeOK
  <2> QED BY <1>1, <1>2, <2>3, <2>4, <2>5, <2>6, ShapeAgain DEF MfaShape, MfaTypeOK
<1>4. CASE /\ UNCHANGED <<chal, granted>>
           /\ \E f \in Factors :
                Kind[f] # "passkey" /\ held' = [held EXCEPT ![b] = [f |-> f, c |-> None]]
  <2>1. PICK f \in Factors :
          Kind[f] # "passkey" /\ held' = [held EXCEPT ![b] = [f |-> f, c |-> None]]
    BY <1>4
  <2>2. RowsStay
    BY <1>4 DEF RowsStay
  <2>3. RequestsKept
    BY <1>1, <2>2, SameKeeps
  <2>4. HeldFits([f |-> f, c |-> None], chal')
    BY <2>1 DEF HeldFits
  <2>5. \A a \in Browsers : HeldFits(held[a], chal')
    BY <2>2, HeldStays
  <2>6. /\ held' \in [Browsers -> [f : Factors, c : Challenges \cup {None}] \cup {None}]
        /\ \A a \in Browsers : HeldFits(held'[a], chal')
    BY <2>1, <2>4, <2>5 DEF MfaShape, MfaTypeOK
  <2> QED BY <1>1, <1>2, <1>4, <2>2, <2>3, <2>6, ShapeAgain DEF MfaShape, MfaTypeOK
<1> QED BY <1>3, <1>4 DEF Sent

LEMMA ElsewhereShape ==
  ASSUME MfaShape, Elsewhere
  PROVE  MfaShape'
<1>1. chal' \in [Challenges -> Row \cup {None}] /\ RowsStay
  <2>1. CASE chal' = chal
    BY <2>1 DEF MfaShape, MfaTypeOK, RowsStay
  <2>2. CASE \E c \in Challenges : chal[c] # None /\ chal' = [chal EXCEPT ![c].fresh = FALSE]
    <3>1. PICK c \in Challenges : chal[c] # None /\ chal' = [chal EXCEPT ![c].fresh = FALSE]
      BY <2>2
    <3>2. chal[c] \in Row
      BY <3>1 DEF MfaShape, MfaTypeOK
    <3>3. [chal[c] EXCEPT !.fresh = FALSE] \in Row
      BY <3>2 DEF Row
    <3>4. chal' = [chal EXCEPT ![c] = [chal[c] EXCEPT !.fresh = FALSE]]
      BY <3>1
    <3> QED BY <3>3, <3>4, RowWritesStay
  <2> QED BY <2>1, <2>2 DEF Elsewhere
<1>2. RequestsKept
  BY <1>1, SameKeeps DEF Elsewhere
<1>3. /\ held' \in [Browsers -> [f : Factors, c : Challenges \cup {None}] \cup {None}]
      /\ \A a \in Browsers : HeldFits(held'[a], chal')
  BY <1>1, HeldKept DEF Elsewhere
<1> QED BY <1>1, <1>2, <1>3, ShapeAgain DEF Elsewhere, MfaShape, MfaTypeOK

\* The three ways a step leaves its own request.
Progress(b) ==
  \/ Stop(b)
  \/ /\ On(b) /\ Head(req[b].todo) # "read"
  \/ \E t \in Seq(Steps), n \in Nat :
       /\ Proper(t) /\ Go(b, t, n)
       /\ t # <<>> => Head(t) # "read" /\ (Head(t) = "count" => n < MAX_ATTEMPTS)

LEMMA ProgressKeeps ==
  ASSUME MfaShape, RowsStay, NEW b \in Browsers, InFlight(b), Progress(b)
  PROVE  RequestsKept
<1>1. CASE Stop(b)
  BY <1>1, StopKeeps
<1>2. CASE On(b) /\ Head(req[b].todo) # "read"
  BY <1>2, OnKeeps
<1>3. ASSUME NEW t \in Seq(Steps), NEW n \in Nat, Proper(t), Go(b, t, n),
             t # <<>> => Head(t) # "read" /\ (Head(t) = "count" => n < MAX_ATTEMPTS)
      PROVE  RequestsKept
  BY <1>3, GoKeeps
<1> QED BY <1>1, <1>2, <1>3 DEF Progress

\* Every step of a request makes progress in one of these ways.
LEMMA WorkProgresses ==
  ASSUME MfaShape, NEW b \in Browsers, InFlight(b), Work(b)
  PROVE  Progress(b)
<1>1. /\ req[b] \in Request /\ Proper(req[b].todo) /\ req[b].todo # <<>>
      /\ RequestFits(req[b], chal)
  BY FlightIsRequest
<1>2. /\ Proper(Tail(req[b].todo))
      /\ Tail(req[b].todo) # <<>> =>
           /\ Head(Tail(req[b].todo)) # "read"
           /\ Head(Tail(req[b].todo)) = "bump" => Head(req[b].todo) = "epoch"
           /\ Head(Tail(req[b].todo)) = "count" => Head(req[b].todo) = "read"
  BY <1>1, ProperTail
<1>3. Tail(req[b].todo) \in Seq(Steps)
  BY <1>2 DEF Proper
<1>4. CASE ReadChallenge(b)
  <2>1. CASE Stop(b)
    BY <2>1 DEF Progress
  <2>2. CASE ~Stop(b)
    <3> DEFINE row == chal[req[b].c]
    <3>1. /\ Head(req[b].todo) = "read" /\ ~(row.tries >= MAX_ATTEMPTS)
          /\ Go(b, Tail(req[b].todo), row.tries)
      BY <1>4, <2>2, Zenon DEF ReadChallenge, At
    <3>2. req[b].c \in Challenges /\ row # None
      BY <3>1, <1>1 DEF RequestFits
    <3>3. row \in Row
      BY <3>2 DEF MfaShape, MfaTypeOK
    <3>4. row.tries \in Nat /\ row.tries < MAX_ATTEMPTS
      BY <3>1, <3>3, MfaAssumption DEF Row
    <3> HIDE DEF row
    <3> QED BY <3>1, <3>4, <1>2, <1>3 DEF Progress
  <2> QED BY <2>1, <2>2
<1>5. CASE ListConfirmed(b)
  <2>1. Head(req[b].todo) = "list"
    BY <1>5 DEF ListConfirmed, At
  <2>2. CASE Go(b, issueRecoveryCodes \o Tail(req[b].todo), 0)
    <3> DEFINE t == issueRecoveryCodes \o Tail(req[b].todo)
    <3>1. issueRecoveryCodes # <<>>
      BY DEF issueRecoveryCodes
    <3>2. Proper(t) /\ Head(t) = "delete"
      BY <1>2, <2>1, <3>1, ProperJoin, ProperPieces, NoPass
    <3>3. t \in Seq(Steps) /\ Go(b, t, 0)
      BY <2>2, <3>2 DEF Proper
    <3> HIDE DEF t
    <3> QED BY <3>2, <3>3 DEF Progress
  <2>3. CASE Go(b, <<>> \o Tail(req[b].todo), 0)
    <3>1. <<>> \o Tail(req[b].todo) = Tail(req[b].todo)
      BY <1>3
    <3>2. On(b)
      BY <2>3, <3>1 DEF On
    <3> QED BY <2>1, <3>2 DEF Progress
  <2> QED BY <1>5, <2>2, <2>3 DEF ListConfirmed
<1>6. CASE ReadEpoch(b)
  <2>1. Head(req[b].todo) = "epoch" /\ Go(b, Tail(req[b].todo), epoch[req[b].who])
    BY <1>6 DEF ReadEpoch, At
  <2>2. epoch[req[b].who] \in Nat
    BY <1>1 DEF MfaShape, MfaTypeOK, Request
  <2> QED BY <2>1, <2>2, <1>2, <1>3 DEF Progress
<1>7. CASE \/ CountTry(b) \/ ConsumeChallenge(b) \/ CheckTotp(b) \/ MatchPasskey(b)
           \/ SavePasskey(b) \/ ConfirmFactor(b) \/ DeleteCodes(b)
  BY <1>7, Zenon DEF CountTry, ConsumeChallenge, CheckTotp, MatchPasskey, SavePasskey, ConfirmFactor,
     DeleteCodes, At, Progress
<1>8. CASE \/ InsertCodes(b) \/ FindCode(b) \/ UseCode(b) \/ GivePass(b) \/ ReadLast(b)
           \/ DropFactor(b) \/ BumpEpoch(b) \/ EndSessions(b)
  BY <1>8 DEF InsertCodes, FindCode, UseCode, GivePass, ReadLast, DropFactor, BumpEpoch,
     EndSessions, At, Progress
<1> QED BY <1>4, <1>5, <1>6, <1>7, <1>8 DEF Work

\* One entry changed in what browsers keep per identity.
LEMMA EntryTyped ==
  ASSUME NEW S, NEW g \in [Browsers -> [Ids -> S]], NEW b \in Browsers, NEW i \in Ids, NEW v \in S
  PROVE  [g EXCEPT ![b][i] = v] \in [Browsers -> [Ids -> S]]
  OBVIOUS

LEMMA EntriesTyped ==
  ASSUME NEW S, NEW g, g = [a \in Browsers |-> g[a]], \A a \in Browsers : g[a] \in [Ids -> S]
  PROVE  g \in [Browsers -> [Ids -> S]]
<1> DEFINE T == [Ids -> S]
<1>1. \A a \in Browsers : g[a] \in T
  OBVIOUS
<1> HIDE DEF T
<1>2. g \in [Browsers -> T]
  BY <1>1
<1> QED BY <1>2 DEF T

LEMMA WorkShape ==
  ASSUME MfaShape, NEW b \in Browsers, InFlight(b), Work(b)
  PROVE  MfaShape' /\ RowsStay
<1> DEFINE r == req[b]
<1>1. /\ r \in Request /\ r.todo # <<>> /\ RequestFits(r, chal)
  BY FlightIsRequest
<1>2. Progress(b)
  BY WorkProgresses
<1>3. /\ r.who \in Ids /\ r.epoch \in Nat /\ r.saw \in Nat /\ r.trust \in BOOLEAN
      /\ r.c \in Challenges \cup Sets \cup {None}
  BY <1>1 DEF Request
<1>4. /\ session \in [Browsers -> [Ids -> Nat \cup {None}]]
      /\ pass \in [Browsers -> [Ids -> Pass \cup {None}]]
      /\ epoch \in [Ids -> Nat]
      /\ factor \in [Factors -> {"none", "pending", "confirmed"}]
      /\ chal \in [Challenges -> Row \cup {None}]
      /\ codes \in [stored : SUBSET Sets, used : SUBSET Sets]
      /\ shown \in [Ids -> Sets \cup {None}]
      /\ held \in [Browsers -> [f : Factors, c : Challenges \cup {None}] \cup {None}]
      /\ granted \subseteq Challenges \cup Sets
  BY DEF MfaShape, MfaTypeOK
<1> HIDE DEF r
<1>5. RowsStay /\ chal' \in [Challenges -> Row \cup {None}]
  <2>1. CASE chal' = chal
    BY <2>1, <1>4 DEF RowsStay
  <2>2. CASE CountTry(b)
    <3>1. chal' = [chal EXCEPT ![r.c].tries = r.saw + 1] /\ r.saw + 1 \in 0..MAX_ATTEMPTS
      BY <2>2, TriesFit DEF CountTry, r
    <3>2. CASE r.c \in Challenges
      <4>1. chal[r.c] \in Row
        BY <3>2, <1>1, <1>4 DEF RequestFits
      <4>2. [chal[r.c] EXCEPT !.tries = r.saw + 1] \in Row
        BY <3>1, <4>1 DEF Row
      <4>3. chal' = [chal EXCEPT ![r.c] = [chal[r.c] EXCEPT !.tries = r.saw + 1]]
        BY <3>1
      <4> QED BY <3>2, <4>2, <4>3, RowWritesStay
    <3>3. CASE r.c \notin Challenges
      <4>1. chal' = chal
        BY <3>1, <3>3, <1>4
      <4> QED BY <4>1, <1>4 DEF RowsStay
    <3> QED BY <3>2, <3>3
  <2>3. CASE ConsumeChallenge(b)
    <3>1. chal' = [chal EXCEPT ![r.c].consumed = TRUE]
      BY <2>3 DEF ConsumeChallenge, r
    <3>2. CASE r.c \in Challenges
      <4>1. chal[r.c] \in Row
        BY <3>2, <1>1, <1>4 DEF RequestFits
      <4>2. [chal[r.c] EXCEPT !.consumed = TRUE] \in Row
        BY <3>1, <4>1 DEF Row
      <4>3. chal' = [chal EXCEPT ![r.c] = [chal[r.c] EXCEPT !.consumed = TRUE]]
        BY <3>1
      <4> QED BY <3>2, <4>2, <4>3, RowWritesStay
    <3>3. CASE r.c \notin Challenges
      <4>1. chal' = chal
        BY <3>1, <3>3, <1>4
      <4> QED BY <4>1, <1>4 DEF RowsStay
    <3> QED BY <3>2, <3>3
  <2>4. CASE DropFactor(b)
    <3>1. chal' = [c \in Challenges |-> IF chal[c] # None /\ chal[c].f = r.f
                                         THEN [chal[c] EXCEPT !.fresh = FALSE] ELSE chal[c]]
      BY <2>4 DEF DropFactor, r
    <3>2. ASSUME NEW c \in Challenges, chal[c] # None PROVE chal'[c] \in Row
      <4>1. chal[c] \in Row /\ [chal[c] EXCEPT !.fresh = FALSE] \in Row
        BY <3>2, <1>4 DEF Row
      <4> QED BY <3>1, <4>1
    <3>3. ASSUME NEW c \in Challenges, chal[c] = None PROVE chal'[c] = None
      BY <3>1, <3>3
    <3>4. \A c \in Challenges : chal'[c] \in Row \cup {None}
      BY <3>2, <3>3
    <3>5. chal' = [c \in Challenges |-> chal'[c]]
      BY <3>1
    <3>6. chal' \in [Challenges -> Row \cup {None}]
      BY <3>4, <3>5
    <3> QED BY <3>2, <3>6, MfaAssumption DEF RowsStay
  <2>5. \/ chal' = chal \/ CountTry(b) \/ ConsumeChallenge(b) \/ DropFactor(b)
    BY DEF Work, ReadChallenge, CheckTotp, MatchPasskey, SavePasskey, ConfirmFactor, ListConfirmed,
       DeleteCodes, InsertCodes, FindCode, UseCode, GivePass, ReadLast, ReadEpoch, BumpEpoch,
       EndSessions, rows
  <2> QED BY <2>1, <2>2, <2>3, <2>4, <2>5
<1>6. RequestsKept
  BY <1>2, <1>5, ProgressKeeps
<1>7. /\ held' \in [Browsers -> [f : Factors, c : Challenges \cup {None}] \cup {None}]
      /\ \A a \in Browsers : HeldFits(held'[a], chal')
  <2>1. held' = held \/ \E a \in Browsers : held' = [held EXCEPT ![a] = None]
    BY DEF Work, ReadChallenge, CountTry, ConsumeChallenge, CheckTotp, MatchPasskey, SavePasskey,
       ConfirmFactor, ListConfirmed, DeleteCodes, InsertCodes, FindCode, UseCode, GivePass, ReadLast,
       DropFactor, ReadEpoch, BumpEpoch, EndSessions
  <2> QED BY <1>5, <2>1, HeldKept
<1>8. factor' \in [Factors -> {"none", "pending", "confirmed"}]
  <2>1. CASE SavePasskey(b)
    BY <2>1, <1>4 DEF SavePasskey
  <2>2. CASE ConfirmFactor(b)
    BY <2>2, <1>4 DEF ConfirmFactor
  <2>3. CASE DropFactor(b)
    BY <2>3, <1>4 DEF DropFactor
  <2>4. factor' = factor \/ SavePasskey(b) \/ ConfirmFactor(b) \/ DropFactor(b)
    BY DEF Work, ReadChallenge, CountTry, ConsumeChallenge, CheckTotp, MatchPasskey, ListConfirmed,
       DeleteCodes, InsertCodes, FindCode, UseCode, GivePass, ReadLast, ReadEpoch, BumpEpoch,
       EndSessions, rows
  <2> QED BY <2>1, <2>2, <2>3, <2>4, <1>4
<1>9. /\ codes' \in [stored : SUBSET Sets, used : SUBSET Sets]
      /\ shown' \in [Ids -> Sets \cup {None}] /\ granted' \subseteq Challenges \cup Sets
  <2>1. CASE DeleteCodes(b)
    BY <2>1, <1>4 DEF DeleteCodes
  <2>2. CASE InsertCodes(b)
    BY <2>2, <1>3, <1>4 DEF InsertCodes, r
  <2>3. CASE UseCode(b)
    BY <2>3, <1>4 DEF UseCode
  <2>4. CASE GivePass(b)
    BY <2>4, <1>3, <1>4 DEF GivePass, r, rows
  <2>5. \/ UNCHANGED <<codes, shown, granted>>
        \/ DeleteCodes(b) \/ InsertCodes(b) \/ UseCode(b) \/ GivePass(b)
    BY DEF Work, ReadChallenge, CountTry, ConsumeChallenge, CheckTotp, MatchPasskey, SavePasskey,
       ConfirmFactor, ListConfirmed, FindCode, ReadLast, DropFactor, ReadEpoch, BumpEpoch,
       EndSessions, rows
  <2> QED BY <2>1, <2>2, <2>3, <2>4, <2>5, <1>4
<1>10. /\ session' \in [Browsers -> [Ids -> Nat \cup {None}]]
       /\ pass' \in [Browsers -> [Ids -> Pass \cup {None}]]
       /\ epoch' \in [Ids -> Nat]
  <2>1. CASE GivePass(b)
    <3>1. [epoch |-> r.epoch, trusted |-> r.trust, ended |-> FALSE] \in Pass
      BY <1>3 DEF Pass
    <3>2. pass' = [pass EXCEPT ![b][r.who] = [epoch |-> r.epoch, trusted |-> r.trust, ended |-> FALSE]]
      BY <2>1 DEF GivePass, r
    <3>3. pass' \in [Browsers -> [Ids -> Pass \cup {None}]]
      BY <3>1, <3>2, <1>3, <1>4, EntryTyped
    <3>4. session' = session /\ epoch' = epoch
      BY <2>1 DEF GivePass, rows
    <3> QED BY <3>3, <3>4, <1>4
  <2>2. CASE BumpEpoch(b)
    <3>1. session' = session /\ epoch' = [epoch EXCEPT ![r.who] = IF r.who = "admin" THEN @ + 1 ELSE r.saw + 1]
      BY <2>2 DEF BumpEpoch, r
    <3>2. epoch' \in [Ids -> Nat]
      BY <3>1, <1>3, <1>4
    <3>3. \/ pass' = pass
          \/ pass' = [a \in Browsers |-> [pass[a] EXCEPT ![r.who] =
               IF @ = None \/ @.epoch > epoch[r.who] THEN @ ELSE [@ EXCEPT !.ended = TRUE]]]
      BY <2>2, Zenon DEF BumpEpoch, r
    <3>4. \A p \in Pass : [p EXCEPT !.ended = TRUE] \in Pass
      BY DEF Pass
    <3>6. ASSUME pass' = [a \in Browsers |-> [pass[a] EXCEPT ![r.who] =
                   IF @ = None \/ @.epoch > epoch[r.who] THEN @ ELSE [@ EXCEPT !.ended = TRUE]]]
          PROVE  pass' \in [Browsers -> [Ids -> Pass \cup {None}]]
      <4> DEFINE v(a) == IF pass[a][r.who] = None \/ pass[a][r.who].epoch > epoch[r.who]
                         THEN pass[a][r.who] ELSE [pass[a][r.who] EXCEPT !.ended = TRUE]
      <4>1. \A a \in Browsers : v(a) \in Pass \cup {None}
        BY <3>4, <1>3, <1>4
      <4>2. pass' = [a \in Browsers |-> [pass[a] EXCEPT ![r.who] = v(a)]]
        BY <3>6
      <4> HIDE DEF v
      <4>3. \A a \in Browsers : [pass[a] EXCEPT ![r.who] = v(a)] \in [Ids -> Pass \cup {None}]
        BY <4>1, <1>3, <1>4
      <4>4. pass' = [a \in Browsers |-> pass'[a]] /\ \A a \in Browsers : pass'[a] \in [Ids -> Pass \cup {None}]
        BY <4>2, <4>3
      <4>5. PICK g : g = pass'
        OBVIOUS
      <4>6. g \in [Browsers -> [Ids -> Pass \cup {None}]]
        BY <4>4, <4>5, EntriesTyped, Zenon
      <4> QED BY <4>5, <4>6, Zenon
    <3>5. pass' \in [Browsers -> [Ids -> Pass \cup {None}]]
      BY <3>3, <3>6, <1>4
    <3> QED BY <3>1, <3>2, <3>5, <1>4
  <2>3. CASE EndSessions(b)
    <3>1. epoch' = epoch /\ pass' = [pass EXCEPT ![b][r.who] = None]
      BY <2>3 DEF EndSessions, rows, r
    <3>2. \/ session' = [a \in Browsers |->
               IF a = b \/ r.who = "user" THEN [session[a] EXCEPT ![r.who] = None] ELSE session[a]]
          \/ session' = [session EXCEPT ![b][r.who] = None]
      BY <2>3 DEF EndSessions, r
    <3>3. pass' \in [Browsers -> [Ids -> Pass \cup {None}]]
      BY <3>1, <1>3, <1>4, EntryTyped
    <3>4. ASSUME session' = [a \in Browsers |->
                   IF a = b \/ r.who = "user" THEN [session[a] EXCEPT ![r.who] = None] ELSE session[a]]
          PROVE  session' \in [Browsers -> [Ids -> Nat \cup {None}]]
      <4>1. \A a \in Browsers : session'[a] \in [Ids -> Nat \cup {None}]
        BY <3>4, <1>3, <1>4
      <4>2. session' = [a \in Browsers |-> session'[a]]
        BY <3>4
      <4> QED BY <4>1, <4>2, EntriesTyped, Zenon
    <3>5. ASSUME session' = [session EXCEPT ![b][r.who] = None]
          PROVE  session' \in [Browsers -> [Ids -> Nat \cup {None}]]
      <4>1. None \in Nat \cup {None}
        OBVIOUS
      <4>2. [session EXCEPT ![b][r.who] = None] \in [Browsers -> [Ids -> Nat \cup {None}]]
        BY <4>1, <1>3, <1>4, EntryTyped
      <4> QED BY <3>5, <4>2, Zenon
    <3> QED BY <3>1, <3>2, <3>3, <3>4, <3>5, <1>4
  <2>4. \/ UNCHANGED <<session, pass, epoch>> \/ GivePass(b) \/ BumpEpoch(b) \/ EndSessions(b)
    BY DEF Work, ReadChallenge, CountTry, ConsumeChallenge, CheckTotp, MatchPasskey, SavePasskey,
       ConfirmFactor, ListConfirmed, DeleteCodes, InsertCodes, FindCode, UseCode, ReadLast, DropFactor,
       ReadEpoch, rows, cookies
  <2> QED BY <2>1, <2>2, <2>3, <2>4, <1>4
<1> QED BY <1>5, <1>6, <1>7, <1>8, <1>9, <1>10, ShapeAgain

LEMMA ShapeStep == MfaShape /\ [Next]_vars => MfaShape'
<1> SUFFICES ASSUME MfaShape, [Next]_vars PROVE MfaShape'
  OBVIOUS
<1>1. CASE Step
  BY <1>1, StepKinds, ElsewhereShape, BeganShape, SentShape, WorkShape
<1>2. CASE UNCHANGED vars
  BY <1>2 DEF vars, moving, cookies, rows, MfaShape, MfaTypeOK
<1> QED BY <1>1, <1>2 DEF Next

LEMMA ShapeInit == Init => MfaShape
<1> SUFFICES ASSUME Init PROVE MfaShape
  OBVIOUS
<1>1. /\ session \in [Browsers -> [Ids -> Nat \cup {None}]]
      /\ pass \in [Browsers -> [Ids -> Pass \cup {None}]]
      /\ epoch \in [Ids -> Nat]
      /\ factor \in [Factors -> {"none", "pending", "confirmed"}]
      /\ chal \in [Challenges -> Row \cup {None}]
      /\ req \in [Browsers -> Request \cup {Idle}]
      /\ granted \subseteq Challenges \cup Sets
  BY DEF Init
<1>2. shown \in [Ids -> Sets \cup {None}]
  BY MfaAssumption DEF Init
<1>3. codes \in [stored : SUBSET Sets, used : SUBSET Sets]
  BY <1>2 DEF Init
<1>4. held \in [Browsers -> [f : Factors, c : Challenges \cup {None}] \cup {None}]
  BY DEF Init
<1>5. \A b \in Browsers : HeldFits(held[b], chal) /\ RequestFits(req[b], chal)
  BY DEF Init, HeldFits, RequestFits, Idle
<1> QED BY <1>1, <1>2, <1>3, <1>4, <1>5 DEF MfaShape, MfaTypeOK

\* Every variable keeps its form, tries stay within their limit, and what the steps of a
\* request rely on holds: whichever pages are open and whichever requests overlap.
THEOREM MfaTypes == Spec => [](MfaTypeOK /\ MfaShape)
<1>1. MfaShape => MfaTypeOK
  BY DEF MfaShape
<1> QED BY <1>1, ShapeInit, ShapeStep, PTL DEF Spec

-----------------------------------------------------------------------------
(* A pass is earned once.                                                              *)

\* What a step leaves of its own request when that goes on, and of the others.
Continues(b) ==
  /\ \A a \in Browsers \ {b} : req'[a] = req[a]
  /\ req'[b].todo # <<>> =>
       /\ req'[b].c = req[b].c /\ req'[b].who = req[b].who /\ req'[b].late = req[b].late
       /\ req'[b].alone = req[b].alone
       /\ \A step : Owes(req[b].todo, step) /\ step # Head(req[b].todo) /\ step # "list"
                      => Owes(req'[b].todo, step)
       /\ Head(req'[b].todo) = "bump" => Head(req[b].todo) = "epoch"

LEMMA WorkContinues ==
  ASSUME MfaShape, NEW b \in Browsers, InFlight(b), Work(b)
  PROVE  Continues(b)
<1>1. /\ req[b] \in Request /\ Proper(req[b].todo) /\ req[b].todo # <<>>
      /\ req \in [Browsers -> Request \cup {Idle}]
  BY FlightIsRequest DEF MfaShape, MfaTypeOK
<1> DEFINE tail == Tail(req[b].todo)
<1>2. /\ Proper(tail)
      /\ tail # <<>> /\ Head(tail) = "bump" => Head(req[b].todo) = "epoch"
      /\ \A step : Owes(req[b].todo, step) /\ Head(req[b].todo) # step => Owes(tail, step)
  BY <1>1, ProperTail
<1>3. ASSUME NEW t, NEW n, Go(b, t, n),
             t # <<>> /\ Head(t) = "bump" => Head(req[b].todo) = "epoch",
             \A step : Owes(req[b].todo, step) /\ step # Head(req[b].todo) /\ step # "list" => Owes(t, step)
      PROVE  Continues(b)
  <2>1. CASE t = <<>>
    BY <2>1, <1>1, <1>3 DEF Go, Continues, Idle
  <2>2. CASE t # <<>>
    <3>1. req' = [req EXCEPT ![b] = [req[b] EXCEPT !.todo = t, !.saw = n]]
      BY <2>2, <1>3 DEF Go
    <3>2. /\ req'[b].todo = t /\ req'[b].c = req[b].c /\ req'[b].who = req[b].who
          /\ req'[b].late = req[b].late /\ req'[b].alone = req[b].alone
          /\ \A a \in Browsers \ {b} : req'[a] = req[a]
      BY <3>1, <1>1 DEF Request
    <3> QED BY <3>2, <1>3 DEF Continues
  <2> QED BY <2>1, <2>2
<1>4. CASE Stop(b)
  BY <1>1, <1>4 DEF Stop, Continues, Idle
<1>5. ASSUME NEW n, Go(b, tail, n) PROVE Continues(b)
  <2> HIDE DEF tail
  <2> QED BY <1>2, <1>3, <1>5
<1>6. CASE On(b)
  BY <1>5, <1>6 DEF On
<1>7. CASE ListConfirmed(b)
  <2>1. Head(req[b].todo) = "list"
    BY <1>7 DEF ListConfirmed, At
  <2>2. CASE Go(b, issueRecoveryCodes \o tail, 0)
    <3> DEFINE t == issueRecoveryCodes \o tail
    <3>1. issueRecoveryCodes # <<>> /\ (tail # <<>> => Head(tail) \notin {"bump", "count", "read"})
      BY <1>1, <2>1, ProperTail DEF issueRecoveryCodes
    <3>2. Head(t) = "delete" /\ \A step : Owes(tail, step) => Owes(t, step)
      BY <1>2, <3>1, ProperJoin, ProperPieces, NoPass
    <3> HIDE DEF t, tail
    <3> QED BY <1>2, <1>3, <2>1, <2>2, <3>2 DEF t
  <2>3. CASE Go(b, <<>> \o tail, 0)
    <3>1. tail \in Seq(Steps)
      BY <1>2 DEF Proper
    <3> HIDE DEF tail
    <3>2. <<>> \o tail = tail
      BY <3>1
    <3> QED BY <1>5, <2>3, <3>2
  <2> QED BY <1>7, <2>2, <2>3 DEF ListConfirmed
<1>8. \/ Stop(b) \/ On(b) \/ (\E n : Go(b, tail, n)) \/ ListConfirmed(b)
  BY DEF Work, ReadChallenge, CountTry, ConsumeChallenge, CheckTotp, MatchPasskey, SavePasskey,
     ConfirmFactor, DeleteCodes, InsertCodes, FindCode, UseCode, GivePass, ReadLast, DropFactor,
     ReadEpoch, BumpEpoch, EndSessions
<1> QED BY <1>4, <1>5, <1>6, <1>7, <1>8

\* A challenge that was answered, a code that was used: neither is good again.
Spent(c, rowOf, sets) ==
  /\ c \in Challenges => rowOf[c] # None /\ rowOf[c].consumed
  /\ c \in Sets => c \notin sets.stored \ sets.used

\* Whatever earned a pass is spent.  A request has its challenge or code still to spend,
\* or has spent it; one whose challenge or code earned a pass before it began is at its
\* first step, which will find that out.
SpentFits(r, rowOf, sets, earned) ==
  r.todo # <<>> =>
    /\ Spent(r.c, rowOf, sets)
         \/ (r.c \in Challenges /\ Owes(r.todo, "consume")) \/ (r.c \in Sets /\ Owes(r.todo, "use"))
    /\ r.late => /\ r.c \in earned
                 /\ \/ r.c \in Challenges /\ Head(r.todo) = "read"
                    \/ r.c \in Sets /\ Head(r.todo) = "find"
EarnedOnce ==
  /\ \A c \in granted : Spent(c, chal, codes)
  /\ \A b \in Browsers : SpentFits(req[b], chal, codes, granted)

\* A step leaves c as spent as it was.
StaysSpent(c) == Spent(c, chal, codes) => Spent(c, chal', codes')

LEMMA SpentSame ==
  ASSUME chal' = chal, codes' = codes
  PROVE  \A c : StaysSpent(c)
  BY DEF StaysSpent, Spent

\* Only a challenge or a set of codes that no request in flight is about is made anew,
\* and then it has earned nothing.
LEMMA SpentStays ==
  ASSUME MfaShape, Step
  PROVE  /\ \A c \in granted' : (c \in granted /\ StaysSpent(c))
                                 \/ \E b \in Browsers : GivePass(b) /\ c = req[b].c
         /\ \A a \in Browsers : InFlight(a) =>
              StaysSpent(req[a].c) /\ (req[a].c \in granted => req[a].c \in granted')
<1>1. CASE Elsewhere
  <2>1. codes' = codes /\ granted' = granted
    BY <1>1 DEF Elsewhere
  <2>2. \A c : StaysSpent(c)
    <3>1. CASE chal' = chal
      BY <2>1, <3>1, SpentSame
    <3>2. ASSUME NEW d \in Challenges, chal[d] # None, chal' = [chal EXCEPT ![d].fresh = FALSE]
          PROVE  \A c : StaysSpent(c)
      <4>1. chal[d] \in Row
        BY <3>2 DEF MfaShape, MfaTypeOK
      <4>2. chal'[d] \in Row /\ chal'[d].consumed = chal[d].consumed
        BY <3>2, <4>1 DEF Row, MfaShape, MfaTypeOK
      <4>3. chal'[d] # None
        BY <4>2, MfaAssumption
      <4>4. \A c \in Challenges \ {d} : chal'[c] = chal[c]
        BY <3>2 DEF MfaShape, MfaTypeOK
      <4> QED BY <2>1, <4>2, <4>3, <4>4 DEF StaysSpent, Spent
    <3> QED BY <1>1, <3>1, <3>2 DEF Elsewhere
  <2> QED BY <2>1, <2>2
<1>2. ASSUME NEW b \in Browsers, Began(b)
      PROVE  (\A c : StaysSpent(c)) /\ granted' = granted
  BY <1>2, SpentSame DEF Began, rows
<1>3. ASSUME NEW b \in Browsers, Sent(b)
      PROVE  /\ \A c \in granted' : c \in granted /\ StaysSpent(c)
             /\ \A a \in Browsers : InFlight(a) =>
                  StaysSpent(req[a].c) /\ (req[a].c \in granted => req[a].c \in granted')
  <2>1. codes' = codes /\ ~InFlight(b)
    BY <1>3 DEF Sent
  <2>2. CASE UNCHANGED <<chal, granted>>
    BY <2>1, <2>2, SpentSame
  <2>3. CASE Anew(b)
    <3>1. PICK d \in Challenges, i \in Ids, f \in Factors \cup {None} :
            Free(b, d) /\ chal' = [chal EXCEPT ![d] = NewRow(i, f)] /\ granted' = granted \ {d}
      BY <2>3 DEF Anew
    <3>2. \A c : c # d => StaysSpent(c)
      BY <2>1, <3>1 DEF StaysSpent, Spent, MfaShape, MfaTypeOK
    <3>3. \A a \in Browsers : InFlight(a) => req[a].c # d
      BY <2>1, <3>1 DEF Free
    <3> QED BY <3>1, <3>2, <3>3
  <2> QED BY <1>3, <2>2, <2>3 DEF Sent
<1>4. ASSUME NEW b \in Browsers, InFlight(b), Work(b)
      PROVE  /\ \A c \in granted' : (c \in granted /\ StaysSpent(c)) \/ (GivePass(b) /\ c = req[b].c)
             /\ \A a \in Browsers : InFlight(a) =>
                  StaysSpent(req[a].c) /\ (req[a].c \in granted => req[a].c \in granted')
  <2>1. CASE InsertCodes(b)
    <3>1. PICK s \in Sets :
            FreeSet(s) /\ granted' = granted \ {s} /\ codes' = [codes EXCEPT !.stored = @ \cup {s}]
      BY <2>1 DEF InsertCodes
    <3>2. chal' = chal
      BY <2>1 DEF InsertCodes
    <3>3. \A c : c # s => StaysSpent(c)
      BY <3>1, <3>2 DEF StaysSpent, Spent, MfaShape, MfaTypeOK
    <3>4. \A a \in Browsers : InFlight(a) => req[a].c # s
      BY <3>1 DEF FreeSet
    <3> QED BY <3>1, <3>3, <3>4
  <2>2. CASE GivePass(b)
    <3>1. /\ chal' = chal /\ codes' = codes /\ granted \subseteq granted'
          /\ \A c \in granted' : c \in granted \/ c = req[b].c
      BY <2>2 DEF GivePass, rows
    <3> QED BY <2>2, <3>1, SpentSame
  <2>3. ASSUME granted' = granted, \A c : StaysSpent(c)
        PROVE  /\ \A c \in granted' : (c \in granted /\ StaysSpent(c)) \/ (GivePass(b) /\ c = req[b].c)
               /\ \A a \in Browsers : InFlight(a) =>
                    StaysSpent(req[a].c) /\ (req[a].c \in granted => req[a].c \in granted')
    BY <2>3
  <2>4. CASE CountTry(b) \/ ConsumeChallenge(b) \/ DropFactor(b)
    <3>1. codes' = codes /\ granted' = granted
      BY <2>4 DEF CountTry, ConsumeChallenge, DropFactor
    <3>2. ASSUME NEW c \in Challenges, chal[c] # None, chal[c].consumed
          PROVE  chal'[c] # None /\ chal'[c].consumed
      <4>1. chal[c] \in Row /\ chal \in [Challenges -> Row \cup {None}]
        BY <3>2 DEF MfaShape, MfaTypeOK
      <4>2. chal'[c] # None
        BY <1>4, <3>2, WorkShape DEF RowsStay
      <4>3. chal'[c].consumed
        BY <2>4, <4>1, <3>2 DEF CountTry, ConsumeChallenge, DropFactor, Row
      <4> QED BY <4>2, <4>3
    <3>3. \A c : StaysSpent(c)
      BY <3>1, <3>2 DEF StaysSpent, Spent
    <3> QED BY <2>3, <3>1, <3>3
  <2>5. CASE DeleteCodes(b) \/ UseCode(b)
    <3>1. chal' = chal /\ granted' = granted
      BY <2>5 DEF DeleteCodes, UseCode
    <3>2. codes \in [stored : SUBSET Sets, used : SUBSET Sets]
      BY DEF MfaShape, MfaTypeOK
    <3>3. \A c \in Sets : c \notin codes.stored \ codes.used => c \notin codes'.stored \ codes'.used
      BY <2>5, <3>2 DEF DeleteCodes, UseCode
    <3>4. \A c : StaysSpent(c)
      BY <3>1, <3>3 DEF StaysSpent, Spent
    <3> QED BY <2>3, <3>1, <3>4
  <2>6. \/ UNCHANGED <<chal, codes, granted>> \/ InsertCodes(b) \/ GivePass(b) \/ CountTry(b)
        \/ ConsumeChallenge(b) \/ DropFactor(b) \/ DeleteCodes(b) \/ UseCode(b)
    BY <1>4 DEF Work, ReadChallenge, CheckTotp, MatchPasskey, SavePasskey, ConfirmFactor, ListConfirmed,
       FindCode, ReadLast, ReadEpoch, BumpEpoch, EndSessions, rows
  <2>7. CASE UNCHANGED <<chal, codes, granted>>
    BY <2>3, <2>7, SpentSame
  <2> QED BY <2>1, <2>2, <2>4, <2>5, <2>6, <2>7
<1> QED BY <1>1, <1>2, <1>3, <1>4, StepKinds

\* A request that was not touched, or only ceased to be alone, still fits.
LEMMA SpentUntouched ==
  ASSUME MfaShape, EarnedOnce, Step, NEW a \in Browsers,
         req'[a].todo = req[a].todo, req'[a].c = req[a].c, req'[a].late = req[a].late
  PROVE  SpentFits(req'[a], chal', codes', granted')
<1>1. CASE req[a].todo = <<>>
  BY <1>1 DEF SpentFits
<1>2. CASE req[a].todo # <<>>
  <2>1. SpentFits(req[a], chal, codes, granted)
    BY DEF EarnedOnce
  <2>2. StaysSpent(req[a].c) /\ (req[a].c \in granted => req[a].c \in granted')
    BY <1>2, SpentStays DEF InFlight
  <2> QED BY <1>2, <2>1, <2>2 DEF SpentFits, StaysSpent
<1> QED BY <1>1, <1>2

\* A request that works spends what it is about before it forgets to, and ends at its
\* first step when that has earned a pass already.
LEMMA WorkSpends ==
  ASSUME MfaShape, EarnedOnce, Step, NEW b \in Browsers, InFlight(b), Work(b)
  PROVE  SpentFits(req'[b], chal', codes', granted')
<1> DEFINE r == req[b]
<1>1. /\ r \in Request /\ r.todo # <<>> /\ RequestFits(r, chal) /\ SpentFits(r, chal, codes, granted)
      /\ r.c \in Challenges \cup Sets \cup {None}
  BY FlightIsRequest DEF EarnedOnce, Request
<1>2. Continues(b)
  BY WorkContinues
<1>3. StaysSpent(r.c) /\ (r.c \in granted => r.c \in granted')
  BY SpentStays
<1> SUFFICES ASSUME req'[b].todo # <<>> PROVE SpentFits(req'[b], chal', codes', granted')
  BY DEF SpentFits
<1>4. /\ req'[b].c = r.c /\ req'[b].late = r.late
      /\ \A step : Owes(r.todo, step) /\ step # Head(r.todo) /\ step # "list"
                     => Owes(req'[b].todo, step)
  BY <1>2 DEF Continues
<1>5. Spent(r.c, chal', codes')
        \/ (r.c \in Challenges /\ Owes(req'[b].todo, "consume"))
        \/ (r.c \in Sets /\ Owes(req'[b].todo, "use"))
  <2>1. CASE Spent(r.c, chal, codes)
    BY <2>1, <1>3 DEF StaysSpent
  <2>2. CASE r.c \in Challenges /\ Owes(r.todo, "consume")
    <3>1. CASE Head(r.todo) = "consume"
      <4>1. ConsumeChallenge(b)
        BY <3>1, <1>1 DEF Work, At, ReadChallenge, CountTry, ConsumeChallenge, CheckTotp, MatchPasskey,
           SavePasskey, ConfirmFactor, ListConfirmed, DeleteCodes, InsertCodes, FindCode, UseCode,
           GivePass, ReadLast, DropFactor, ReadEpoch, BumpEpoch, EndSessions
      <4>2. chal[r.c] \in Row /\ chal' = [chal EXCEPT ![r.c].consumed = TRUE]
        BY <4>1, <2>2, <1>1 DEF ConsumeChallenge, RequestFits, MfaShape, MfaTypeOK
      <4>3. chal'[r.c] \in Row /\ chal'[r.c].consumed
        BY <4>2, <2>2 DEF Row, MfaShape, MfaTypeOK
      <4>4. chal'[r.c] # None /\ r.c \notin Sets
        BY <4>3, <2>2, MfaAssumption
      <4> QED BY <4>3, <4>4 DEF Spent
    <3>2. CASE Head(r.todo) # "consume"
      BY <3>2, <2>2, <1>4
    <3> QED BY <3>1, <3>2
  <2>3. CASE r.c \in Sets /\ Owes(r.todo, "use")
    <3>1. CASE Head(r.todo) = "use"
      <4>1. UseCode(b)
        BY <3>1, <1>1 DEF Work, At, ReadChallenge, CountTry, ConsumeChallenge, CheckTotp, MatchPasskey,
           SavePasskey, ConfirmFactor, ListConfirmed, DeleteCodes, InsertCodes, FindCode, UseCode,
           GivePass, ReadLast, DropFactor, ReadEpoch, BumpEpoch, EndSessions
      <4>2. codes' = [codes EXCEPT !.used = @ \cup ({r.c} \cap codes.stored)]
        BY <4>1 DEF UseCode
      <4>3. r.c \notin codes'.stored \ codes'.used
        BY <4>2 DEF MfaShape, MfaTypeOK
      <4>4. r.c \notin Challenges
        BY <2>3, MfaAssumption
      <4> QED BY <4>3, <4>4 DEF Spent
    <3>2. CASE Head(r.todo) # "use"
      BY <3>2, <2>3, <1>4
    <3> QED BY <3>1, <3>2
  <2> QED BY <2>1, <2>2, <2>3, <1>1 DEF SpentFits
<1>6. ~r.late
  <2> SUFFICES ASSUME r.late PROVE FALSE
    OBVIOUS
  <2>1. /\ Spent(r.c, chal, codes)
        /\ (r.c \in Challenges /\ Head(r.todo) = "read") \/ (r.c \in Sets /\ Head(r.todo) = "find")
    BY <1>1 DEF SpentFits, EarnedOnce
  <2>2. Stop(b)
    <3>1. CASE r.c \in Challenges /\ Head(r.todo) = "read"
      <4>1. ReadChallenge(b)
        BY <3>1, <1>1 DEF Work, At, ReadChallenge, CountTry, ConsumeChallenge, CheckTotp, MatchPasskey,
           SavePasskey, ConfirmFactor, ListConfirmed, DeleteCodes, InsertCodes, FindCode, UseCode,
           GivePass, ReadLast, DropFactor, ReadEpoch, BumpEpoch, EndSessions
      <4>2. chal[r.c].consumed
        BY <2>1, <3>1 DEF Spent
      <4> QED BY <4>1, <4>2, Zenon DEF ReadChallenge
    <3>2. CASE r.c \in Sets /\ Head(r.todo) = "find"
      <4>1. FindCode(b)
        BY <3>2, <1>1 DEF Work, At, ReadChallenge, CountTry, ConsumeChallenge, CheckTotp, MatchPasskey,
           SavePasskey, ConfirmFactor, ListConfirmed, DeleteCodes, InsertCodes, FindCode, UseCode,
           GivePass, ReadLast, DropFactor, ReadEpoch, BumpEpoch, EndSessions
      <4>2. r.c \notin codes.stored \ codes.used
        BY <2>1, <3>2 DEF Spent
      <4> QED BY <4>1, <4>2 DEF FindCode
    <3> QED BY <2>1, <3>1, <3>2
  <2>3. req'[b] = Idle
    BY <2>2 DEF Stop, MfaShape, MfaTypeOK
  <2> QED BY <2>3 DEF Idle
<1> QED BY <1>4, <1>5, <1>6 DEF SpentFits

LEMMA EarnedStep == MfaShape /\ EarnedOnce /\ [Next]_vars => EarnedOnce'
<1> SUFFICES ASSUME MfaShape, EarnedOnce, [Next]_vars PROVE EarnedOnce'
  OBVIOUS
<1>1. CASE UNCHANGED vars
  BY <1>1 DEF vars, moving, rows, EarnedOnce
<1>2. CASE Step
  <2>1. ASSUME NEW c \in granted' PROVE Spent(c, chal', codes')
    <3>1. CASE c \in granted /\ StaysSpent(c)
      BY <3>1 DEF EarnedOnce, StaysSpent
    <3>2. ASSUME NEW b \in Browsers, GivePass(b), c = req[b].c PROVE Spent(c, chal', codes')
      <4>1. Head(req[b].todo) = "pass" /\ req[b].todo # <<>> /\ InFlight(b)
        BY <3>2 DEF GivePass, At, InFlight
      <4>2. SpentFits(req[b], chal, codes, granted)
        BY DEF EarnedOnce
      <4>3. /\ chal' = chal /\ codes' = codes
            /\ req' = [req EXCEPT ![b] = Onward(req[b], Tail(req[b].todo), 0)]
        BY <3>2 DEF GivePass, rows, On, Go, Onward
      <4>4. Spent(c, chal, codes)
        <5>1. Proper(req[b].todo)
          BY <4>1, FlightIsRequest
        <5>2. ~Owes(req[b].todo, "consume") /\ ~Owes(req[b].todo, "use")
          BY <4>1, <5>1, ProperTail
        <5> QED BY <3>2, <4>1, <4>2, <5>2 DEF SpentFits
      <4> QED BY <4>3, <4>4
    <3> QED BY <2>1, <1>2, <3>1, <3>2, SpentStays
  <2>2. ASSUME NEW a \in Browsers PROVE SpentFits(req'[a], chal', codes', granted')
    <3>1. CASE req'[a] = req[a]
      BY <1>2, <3>1, SpentUntouched
    <3>2. ASSUME NEW b \in Browsers, Began(b)
          PROVE  SpentFits(req'[a], chal', codes', granted')
      <4>1. PICK r \in Request : Started(b, r) /\ Newborn(b, r)
        BY <3>2 DEF Began
      <4>2. CASE a = b
        <5>1. req'[a] = r
          BY <4>1, <4>2 DEF Started
        <5>2. r.c \in Challenges \cup Sets \cup {None} /\ None \notin Challenges \cup Sets
          BY MfaAssumption DEF Request
        <5>3. chal' = chal /\ codes' = codes /\ granted' = granted /\ granted \subseteq Challenges \cup Sets
          BY <3>2 DEF Began, rows, MfaShape, MfaTypeOK
        <5> QED BY <5>1, <5>2, <5>3, <4>1 DEF SpentFits, Newborn, Asked, Spent
      <4>3. CASE a # b /\ ~InFlight(a)
        <5>1. req'[a] = req[a]
          BY <4>1, <4>3 DEF Started
        <5> QED BY <5>1, <3>1
      <4>4. CASE a # b /\ InFlight(a)
        <5>1. req[a] \in Request /\ req'[a] = [req[a] EXCEPT !.alone = FALSE]
          BY <4>1, <4>4, FlightIsRequest DEF Started
        <5>2. req'[a].todo = req[a].todo /\ req'[a].c = req[a].c /\ req'[a].late = req[a].late
          BY <5>1 DEF Request
        <5> QED BY <5>2, <1>2, SpentUntouched
      <4> QED BY <4>2, <4>3, <4>4
    <3>3. ASSUME NEW b \in Browsers, InFlight(b), Work(b)
          PROVE  SpentFits(req'[a], chal', codes', granted')
      <4>1. CASE a = b
        BY <4>1, <3>3, <1>2, WorkSpends
      <4>2. CASE a # b
        <5>1. req'[a] = req[a]
          BY <4>2, <3>3, WorkContinues DEF Continues
        <5> QED BY <5>1, <3>1
      <4> QED BY <4>1, <4>2
    <3>4. ASSUME NEW b \in Browsers, Sent(b) PROVE req'[a] = req[a]
      BY <3>4 DEF Sent
    <3>5. Elsewhere => req'[a] = req[a]
      BY DEF Elsewhere
    <3> QED BY <1>2, <3>1, <3>2, <3>3, <3>4, <3>5, StepKinds
  <2> QED BY <2>1, <2>2 DEF EarnedOnce
<1> QED BY <1>1, <1>2 DEF Next

LEMMA EarnedInit == Init => EarnedOnce
  BY DEF Init, EarnedOnce, SpentFits, Idle

LEMMA EarnedGoal == EarnedOnce => NotAnsweredTwice
  BY DEF EarnedOnce, SpentFits, NotAnsweredTwice, At, InFlight

\* A challenge or a code that has earned a pass lets no later request in: whichever
\* browsers ask, whatever is mistyped, expires, is issued anew or removed meanwhile.
THEOREM AnsweredOnce == Spec => []NotAnsweredTwice
  BY ShapeInit, ShapeStep, EarnedInit, EarnedStep, EarnedGoal, PTL DEF Spec

-----------------------------------------------------------------------------
(* The codes that were shown work.                                                     *)

\* What a step leaves of the requests it is not a step of.
Untouched(a) ==
  /\ req'[a].todo = req[a].todo /\ req'[a].who = req[a].who /\ req'[a].saw = req[a].saw
  /\ req'[a].alone => req[a].alone

LEMMA WhoMoves ==
  ASSUME MfaShape, Step, NEW a \in Browsers
  PROVE  Untouched(a) \/ Began(a) \/ (InFlight(a) /\ Work(a))
<1>1. CASE req'[a] = req[a]
  BY <1>1 DEF Untouched
<1>2. ASSUME NEW b \in Browsers, Began(b) PROVE Untouched(a) \/ Began(a)
  <2>1. PICK r \in Request : Started(b, r)
    BY <1>2 DEF Began
  <2>2. CASE a = b
    BY <1>2, <2>2
  <2>3. CASE a # b /\ ~InFlight(a)
    BY <2>1, <2>3 DEF Started, Untouched
  <2>4. CASE a # b /\ InFlight(a)
    <3>1. req[a] \in Request /\ req'[a] = [req[a] EXCEPT !.alone = FALSE]
      BY <2>1, <2>4, FlightIsRequest DEF Started
    <3> QED BY <3>1 DEF Untouched, Request
  <2> QED BY <2>2, <2>3, <2>4
<1>3. ASSUME NEW b \in Browsers, InFlight(b), Work(b), a # b PROVE req'[a] = req[a]
  BY <1>3, WorkContinues DEF Continues
<1>4. (Elsewhere \/ \E b \in Browsers : Sent(b)) => req'[a] = req[a]
  BY DEF Elsewhere, Sent
<1> QED BY <1>1, <1>2, <1>3, <1>4, StepKinds

ShownOwn == \A i \in Ids : shown[i] # None => SetOwner(shown[i]) = i

\* Only the making of codes touches the sets and what is shown.
LEMMA CodesMoves ==
  ASSUME MfaShape, Step
  PROVE  (codes'.stored = codes.stored /\ shown' = shown)
         \/ \E b \in Browsers : InFlight(b) /\ (DeleteCodes(b) \/ InsertCodes(b))
<1>1. ASSUME NEW b \in Browsers, InFlight(b), Work(b), ~DeleteCodes(b), ~InsertCodes(b)
      PROVE  codes'.stored = codes.stored /\ shown' = shown
  <2>1. CASE UseCode(b)
    BY <2>1 DEF UseCode, MfaShape, MfaTypeOK
  <2>2. CASE ~UseCode(b)
    BY <1>1, <2>2 DEF Work, ReadChallenge, CountTry, ConsumeChallenge, CheckTotp, MatchPasskey,
       SavePasskey, ConfirmFactor, ListConfirmed, FindCode, GivePass, ReadLast, DropFactor,
       ReadEpoch, BumpEpoch, EndSessions, rows
  <2> QED BY <2>1, <2>2
<1>2. ASSUME NEW b \in Browsers, Began(b) PROVE codes'.stored = codes.stored /\ shown' = shown
  BY <1>2 DEF Began, rows
<1>3. ASSUME NEW b \in Browsers, Sent(b) PROVE codes'.stored = codes.stored /\ shown' = shown
  BY <1>3 DEF Sent
<1>4. Elsewhere => codes'.stored = codes.stored /\ shown' = shown
  BY DEF Elsewhere
<1> QED BY <1>1, <1>2, <1>3, <1>4, StepKinds

LEMMA CodesStep == MfaShape /\ ShownOwn /\ CodesShownWork /\ [Next]_vars => (ShownOwn /\ CodesShownWork)'
<1> SUFFICES ASSUME MfaShape, ShownOwn, CodesShownWork, [Next]_vars
             PROVE  (ShownOwn /\ CodesShownWork)'
  OBVIOUS
<1>1. CASE UNCHANGED vars
  BY <1>1 DEF vars, moving, rows, ShownOwn, CodesShownWork, At, InFlight
<1>2. CASE Step
  <2>1. /\ shown \in [Ids -> Sets \cup {None}] /\ codes \in [stored : SUBSET Sets, used : SUBSET Sets]
        /\ req \in [Browsers -> Request \cup {Idle}]
    BY DEF MfaShape, MfaTypeOK
  \* a browser about to store its codes stays so until it does
  <2>2. ASSUME NEW b \in Browsers, At(b, "insert"), ~InsertCodes(b)
        PROVE  At(b, "insert")' /\ req'[b].who = req[b].who
    <3>1. InFlight(b) /\ Head(req[b].todo) = "insert"
      BY <2>2 DEF At
    <3>2. ~Work(b)
      BY <3>1, <2>2 DEF Work, At, ReadChallenge, CountTry, ConsumeChallenge, CheckTotp, MatchPasskey,
         SavePasskey, ConfirmFactor, ListConfirmed, DeleteCodes, FindCode, UseCode, GivePass,
         ReadLast, DropFactor, ReadEpoch, BumpEpoch, EndSessions
    <3>3. Untouched(b)
      BY <3>1, <3>2, <1>2, WhoMoves DEF Began
    <3> QED BY <2>2, <3>3 DEF Untouched, At, InFlight
  <2>3. CASE codes'.stored = codes.stored /\ shown' = shown
    <3>1. ShownOwn'
      BY <2>3 DEF ShownOwn
    <3>2. ASSUME NEW i \in Ids, shown'[i] # None, shown'[i] \notin codes'.stored
          PROVE  \E b \in Browsers : At(b, "insert")' /\ req'[b].who = i
      <4>1. PICK b \in Browsers : At(b, "insert") /\ req[b].who = i
        BY <2>3, <3>2 DEF CodesShownWork
      <4>2. CASE InsertCodes(b)
        <5>1. PICK s \in Sets : shown' = [shown EXCEPT ![req[b].who] = s]
                                /\ codes' = [codes EXCEPT !.stored = @ \cup {s}]
          BY <4>2 DEF InsertCodes
        <5>2. shown'[i] = s /\ s \in codes'.stored
          BY <4>1, <5>1, <2>1
        <5> QED BY <5>2, <3>2
      <4>3. CASE ~InsertCodes(b)
        BY <4>1, <4>3, <2>2
      <4> QED BY <4>2, <4>3
    <3>3. CodesShownWork'
      BY <3>2 DEF CodesShownWork
    <3> QED BY <3>1, <3>3
  <2>4. ASSUME NEW b \in Browsers, InFlight(b), DeleteCodes(b) PROVE (ShownOwn /\ CodesShownWork)'
    <3>1. /\ req[b] \in Request /\ Proper(req[b].todo) /\ req[b].todo # <<>>
          /\ Head(req[b].todo) = "delete" /\ req[b].who \in Ids
      BY <2>4, FlightIsRequest DEF DeleteCodes, At, Request
    <3>2. Tail(req[b].todo) # <<>> /\ Head(Tail(req[b].todo)) = "insert"
      BY <3>1, ProperTail
    <3>3. req' = [req EXCEPT ![b] = [req[b] EXCEPT !.todo = Tail(req[b].todo), !.saw = 0]]
      BY <2>4, <3>2 DEF DeleteCodes, On, Go
    <3>4. req'[b].todo = Tail(req[b].todo) /\ req'[b].who = req[b].who
      BY <3>1, <3>3, <2>1 DEF Request
    <3>5. At(b, "insert")'
      BY <3>2, <3>4 DEF At, InFlight
    <3>6. shown' = shown /\ codes'.stored = codes.stored \cap { s \in Sets : SetOwner(s) # req[b].who }
      BY <2>4 DEF DeleteCodes
    <3>7. ShownOwn'
      BY <3>6 DEF ShownOwn
    <3>8. ASSUME NEW i \in Ids, shown'[i] # None, shown'[i] \notin codes'.stored, i # req[b].who
          PROVE  \E a \in Browsers : At(a, "insert")' /\ req'[a].who = i
      <4>1. shown[i] \in Sets /\ SetOwner(shown[i]) = i /\ shown[i] \notin codes.stored
        BY <3>6, <3>8, <2>1 DEF ShownOwn
      <4>2. PICK a \in Browsers : At(a, "insert") /\ req[a].who = i
        BY <4>1, <3>6, <3>8 DEF CodesShownWork
      <4>3. req'[a] = req[a]
        BY <4>2, <3>3, <3>8, <2>1
      <4> QED BY <4>2, <4>3 DEF At, InFlight
    <3>9. CodesShownWork'
      BY <3>4, <3>5, <3>8 DEF CodesShownWork
    <3> QED BY <3>7, <3>9
  <2>5. ASSUME NEW b \in Browsers, InFlight(b), InsertCodes(b) PROVE (ShownOwn /\ CodesShownWork)'
    <3>1. PICK s \in Sets : /\ SetOwner(s) = req[b].who
                            /\ shown' = [shown EXCEPT ![req[b].who] = s]
                            /\ codes' = [codes EXCEPT !.stored = @ \cup {s}]
      BY <2>5 DEF InsertCodes
    <3>2. req[b].who \in Ids
      BY <2>5, FlightIsRequest DEF Request
    <3>3. ShownOwn'
      BY <3>1, <3>2, <2>1 DEF ShownOwn
    <3>4. ASSUME NEW i \in Ids, shown'[i] # None, shown'[i] \notin codes'.stored
          PROVE  \E a \in Browsers : At(a, "insert")' /\ req'[a].who = i
      <4>1. i # req[b].who
        BY <3>1, <3>4, <3>2, <2>1
      <4>2. shown[i] = shown'[i] /\ shown[i] \notin codes.stored
        BY <3>1, <3>4, <4>1, <2>1
      <4>3. PICK a \in Browsers : At(a, "insert") /\ req[a].who = i
        BY <3>4, <4>2 DEF CodesShownWork
      <4>4. req'[a] = req[a]
        <5>1. a # b
          BY <4>1, <4>3
        <5> QED BY <5>1, <2>5, WorkContinues DEF Continues, Work
      <4> QED BY <4>3, <4>4 DEF At, InFlight
    <3>5. CodesShownWork'
      BY <3>4 DEF CodesShownWork
    <3> QED BY <3>3, <3>5
  <2> QED BY <1>2, <2>3, <2>4, <2>5, CodesMoves
<1> QED BY <1>1, <1>2 DEF Next

LEMMA CodesInit == Init => ShownOwn /\ CodesShownWork
<1> SUFFICES ASSUME Init PROVE ShownOwn /\ CodesShownWork
  OBVIOUS
<1>1. \A i \in Ids : shown[i] = <<i, 1>> \/ shown[i] = None
  BY DEF Init
<1>2. ShownOwn
  BY <1>1 DEF ShownOwn, SetOwner
<1>3. \A i \in Ids : shown[i] # None => shown[i] \in codes.stored
  BY DEF Init
<1> QED BY <1>2, <1>3 DEF CodesShownWork

\* Whoever looks at the recovery codes shown last can use them, except while a new set is
\* being made: however many pages make codes at once.
THEOREM CodesWork == Spec => []CodesShownWork
  BY ShapeInit, ShapeStep, CodesInit, CodesStep, PTL DEF Spec

-----------------------------------------------------------------------------
(* Sign out everywhere.                                                                *)

\* A request that is alone has the only word about the epoch; one about to move it has
\* seen no less than any pass that was ended.
AloneInFlight ==
  \A a, b \in Browsers : InFlight(b) /\ req[b].alone /\ InFlight(a) => a = b
AloneSaw ==
  \A b \in Browsers : At(b, "bump") /\ req[b].alone /\ req[b].who # "admin"
                        => req[b].saw = epoch[req[b].who]
\* Once n has been the epoch of i and was moved, no write can bring it back.
Over(n, i) ==
  /\ n < epoch[i]
  /\ \A a \in Browsers : At(a, "bump") /\ req[a].who = i => n <= req[a].saw
EndedIsOver ==
  \A b \in Browsers, i \in Ids \ {"admin"}, n \in Nat :
    pass[b][i] # None /\ pass[b][i].ended /\ pass[b][i].epoch = n => Over(n, i)

RetiredInv == AloneInFlight /\ AloneSaw /\ EndedIsOver

LEMMA AloneStep ==
  ASSUME MfaShape, AloneInFlight, Step
  PROVE  AloneInFlight'
<1> SUFFICES ASSUME NEW a \in Browsers, NEW b \in Browsers,
                    InFlight(b)', req'[b].alone, InFlight(a)', a # b
             PROVE  FALSE
  BY DEF AloneInFlight
<1>1. req \in [Browsers -> Request \cup {Idle}]
  BY DEF MfaShape, MfaTypeOK
<1>2. ASSUME NEW x \in Browsers, Work(x), InFlight(x) PROVE FALSE
  <2>1. \A y \in Browsers : InFlight(y)' => InFlight(y) /\ (req'[y].alone => req[y].alone)
    BY <1>2, WorkContinues DEF Continues, InFlight
  <2> QED BY <2>1 DEF AloneInFlight
<1>3. ASSUME NEW x \in Browsers, Began(x) PROVE FALSE
  <2>1. PICK r \in Request : Started(x, r) /\ Newborn(x, r)
    BY <1>3 DEF Began
  <2>2. CASE b = x
    <3>1. \A y \in Browsers : ~InFlight(y)
      BY <2>1, <2>2 DEF Started, Newborn
    <3>2. req'[a] = req[a]
      BY <2>1, <2>2, <3>1 DEF Started
    <3> QED BY <3>1, <3>2 DEF InFlight
  <2>3. CASE b # x /\ InFlight(b)
    <3>1. req[b] \in Request /\ req'[b] = [req[b] EXCEPT !.alone = FALSE]
      BY <2>1, <2>3, FlightIsRequest DEF Started
    <3> QED BY <3>1 DEF Request
  <2>4. CASE b # x /\ ~InFlight(b)
    BY <2>1, <2>4 DEF Started, InFlight
  <2> QED BY <2>2, <2>3, <2>4
<1>4. ASSUME req' = req PROVE FALSE
  BY <1>4 DEF AloneInFlight, InFlight
<1> QED BY <1>2, <1>3, <1>4, StepKinds DEF Sent, Elsewhere

\* The epoch of an identity moves by a bump alone.
LEMMA EpochMoves ==
  ASSUME MfaShape, Step
  PROVE  epoch' = epoch \/ \E b \in Browsers : InFlight(b) /\ BumpEpoch(b)
<1>1. ASSUME NEW b \in Browsers, InFlight(b), Work(b), ~BumpEpoch(b) PROVE epoch' = epoch
  BY <1>1 DEF Work, ReadChallenge, CountTry, ConsumeChallenge, CheckTotp, MatchPasskey,
     SavePasskey, ConfirmFactor, ListConfirmed, DeleteCodes, InsertCodes, FindCode, UseCode, GivePass,
     ReadLast, DropFactor, ReadEpoch, EndSessions, rows
<1>2. ASSUME NEW b \in Browsers, Began(b) \/ Sent(b) PROVE epoch' = epoch
  BY <1>2 DEF Began, Sent, rows
<1>3. Elsewhere => epoch' = epoch
  BY DEF Elsewhere
<1> QED BY <1>1, <1>2, <1>3, StepKinds

\* Whoever is about to move a customer's epoch was so before, or has read it just now.
LEMMA BumpersSaw ==
  ASSUME MfaShape, Step, NEW a \in Browsers, At(a, "bump")', req'[a].who # "admin"
  PROVE  \/ /\ At(a, "bump") /\ req'[a].who = req[a].who /\ req'[a].saw = req[a].saw
            /\ req'[a].alone => req[a].alone
         \/ /\ ReadEpoch(a) /\ InFlight(a) /\ req'[a].who = req[a].who
            /\ req'[a].saw = epoch[req[a].who]
<1>1. CASE Untouched(a)
  BY <1>1 DEF Untouched, At, InFlight
<1>2. ~Began(a)
  <2> SUFFICES ASSUME Began(a) PROVE FALSE
    OBVIOUS
  <2>1. PICK r \in Request : Started(a, r) /\ Newborn(a, r)
    BY DEF Began
  <2>2. req'[a] = r
    BY <2>1 DEF Started
  <2> QED BY <2>1, <2>2 DEF Newborn, At
<1>3. CASE InFlight(a) /\ Work(a)
  <2>1. Continues(a) /\ req'[a].todo # <<>> /\ Head(req'[a].todo) = "bump"
    BY <1>3, WorkContinues DEF At, InFlight
  <2>2. Head(req[a].todo) = "epoch" /\ req'[a].who = req[a].who
    BY <2>1 DEF Continues
  <2>3. ReadEpoch(a)
    BY <1>3, <2>2 DEF Work, At, ReadChallenge, CountTry, ConsumeChallenge, CheckTotp, MatchPasskey,
       SavePasskey, ConfirmFactor, ListConfirmed, DeleteCodes, InsertCodes, FindCode, UseCode, GivePass,
       ReadLast, DropFactor, BumpEpoch, EndSessions
  <2>4. req' = [req EXCEPT ![a] = Onward(req[a], Tail(req[a].todo), epoch[req[a].who])]
    BY <2>3 DEF ReadEpoch, Go, Onward
  <2>5. req[a] \in Request /\ req \in [Browsers -> Request \cup {Idle}]
    BY <1>3, FlightIsRequest DEF MfaShape, MfaTypeOK
  <2>6. req'[a].saw = epoch[req[a].who]
    BY <2>1, <2>4, <2>5 DEF Onward, Idle, Request
  <2> QED BY <1>3, <2>2, <2>3, <2>6
<1> QED BY <1>1, <1>2, <1>3, WhoMoves

LEMMA AloneSawStep ==
  ASSUME MfaShape, AloneInFlight, AloneSaw, Step
  PROVE  AloneSaw'
<1> SUFFICES ASSUME NEW b \in Browsers, At(b, "bump")', req'[b].alone, req'[b].who # "admin"
             PROVE  req'[b].saw = epoch'[req'[b].who]
  BY DEF AloneSaw
<1>1. \/ /\ At(b, "bump") /\ req'[b].who = req[b].who /\ req'[b].saw = req[b].saw /\ req[b].alone
      \/ /\ ReadEpoch(b) /\ InFlight(b) /\ req'[b].who = req[b].who
         /\ req'[b].saw = epoch[req[b].who]
  BY BumpersSaw
<1>2. CASE ReadEpoch(b) /\ req'[b].who = req[b].who /\ req'[b].saw = epoch[req[b].who]
  BY <1>2 DEF ReadEpoch, rows
<1>3. CASE At(b, "bump") /\ req'[b].who = req[b].who /\ req'[b].saw = req[b].saw /\ req[b].alone
  <2>1. req[b].saw = epoch[req[b].who]
    BY <1>3 DEF AloneSaw
  <2>2. ASSUME NEW a \in Browsers, InFlight(a), BumpEpoch(a) PROVE FALSE
    <3>1. a = b
      BY <1>3, <2>2 DEF AloneInFlight, At
    <3>2. Continues(b) /\ Head(req[b].todo) = "bump"
      BY <3>1, <2>2, WorkContinues DEF Work, BumpEpoch, At
    <3> QED BY <3>2 DEF Continues, At, InFlight
  <2> QED BY <1>3, <2>1, <2>2, EpochMoves
<1> QED BY <1>1, <1>2, <1>3

\* What is over stays over, whichever bumps race.
LEMMA OverStays ==
  ASSUME MfaShape, Step, NEW n \in Nat, NEW i \in Ids \ {"admin"}, Over(n, i)
  PROVE  Over(n, i)'
<1>1. epoch \in [Ids -> Nat] /\ \A b \in Browsers : InFlight(b) => req[b].saw \in Nat /\ req[b].who \in Ids
  BY FlightIsRequest DEF MfaShape, MfaTypeOK, Request
<1>2. n < epoch'[i]
  <2>1. CASE epoch' = epoch
    BY <2>1 DEF Over
  <2>2. ASSUME NEW b \in Browsers, InFlight(b), BumpEpoch(b) PROVE n < epoch'[i]
    <3>1. epoch' = [epoch EXCEPT ![req[b].who] = IF req[b].who = "admin" THEN @ + 1 ELSE req[b].saw + 1]
      BY <2>2 DEF BumpEpoch
    <3>2. CASE req[b].who = i
      <4>1. n <= req[b].saw
        BY <2>2, <3>2 DEF Over, BumpEpoch
      <4>2. epoch'[i] = req[b].saw + 1
        BY <3>1, <3>2, <1>1
      <4> QED BY <4>1, <4>2, <1>1, <2>2
    <3>3. CASE req[b].who # i
      BY <3>1, <3>3, <1>1 DEF Over
    <3> QED BY <3>2, <3>3
  <2> QED BY <2>1, <2>2, EpochMoves
<1>3. ASSUME NEW a \in Browsers, At(a, "bump")', req'[a].who = i PROVE n <= req'[a].saw
  <2>1. \/ At(a, "bump") /\ req[a].who = i /\ req'[a].saw = req[a].saw
        \/ req'[a].saw = epoch[i]
    BY <1>3, BumpersSaw
  <2>2. n < epoch[i] /\ epoch[i] \in Nat
    BY <1>1 DEF Over
  <2>3. CASE At(a, "bump") /\ req[a].who = i /\ req'[a].saw = req[a].saw
    BY <2>3 DEF Over
  <2>4. CASE req'[a].saw = epoch[i]
    BY <2>2, <2>4
  <2> QED BY <2>1, <2>3, <2>4
<1> QED BY <1>2, <1>3 DEF Over

\* A pass is marked ended by a bump alone, which it was given before.
LEMMA PassMoves ==
  ASSUME MfaShape, Step, NEW b \in Browsers, NEW i \in Ids,
         pass'[b][i] # None, pass'[b][i].ended
  PROVE  \/ pass'[b][i] = pass[b][i]
         \/ /\ pass[b][i] # None /\ pass'[b][i].epoch = pass[b][i].epoch
            /\ pass[b][i].epoch <= epoch[i]
            /\ \E a \in Browsers : InFlight(a) /\ BumpEpoch(a) /\ req[a].alone /\ req[a].who = i
<1>1. /\ pass \in [Browsers -> [Ids -> Pass \cup {None}]] /\ epoch \in [Ids -> Nat]
  BY DEF MfaShape, MfaTypeOK
<1>2. ASSUME NEW a \in Browsers, InFlight(a), Work(a)
      PROVE  \/ pass'[b][i] = pass[b][i]
             \/ /\ pass[b][i] # None /\ pass'[b][i].epoch = pass[b][i].epoch
                /\ pass[b][i].epoch <= epoch[i]
                /\ BumpEpoch(a) /\ req[a].alone /\ req[a].who = i
  <2>1. req[a].who \in Ids
    BY <1>2, FlightIsRequest DEF Request
  <2>2. CASE GivePass(a)
    <3>1. pass' = [pass EXCEPT ![a][req[a].who] =
                     [epoch |-> req[a].epoch, trusted |-> req[a].trust, ended |-> FALSE]]
      BY <2>2 DEF GivePass
    <3>2. CASE a = b /\ req[a].who = i
      <4>1. pass'[b][i] = [epoch |-> req[a].epoch, trusted |-> req[a].trust, ended |-> FALSE]
        BY <3>1, <3>2, <1>1
      <4> QED BY <4>1
    <3>3. CASE ~(a = b /\ req[a].who = i)
      BY <3>1, <3>3, <1>1
    <3> QED BY <3>2, <3>3
  <2>3. CASE BumpEpoch(a)
    <3>1. CASE ~req[a].alone
      BY <2>3, <3>1 DEF BumpEpoch
    <3>2. CASE req[a].alone
      <4>1. pass' = [x \in Browsers |-> [pass[x] EXCEPT ![req[a].who] =
                       IF @ = None \/ @.epoch > epoch[req[a].who] THEN @ ELSE [@ EXCEPT !.ended = TRUE]]]
        BY <2>3, <3>2 DEF BumpEpoch
      <4>2. CASE req[a].who # i
        BY <4>1, <4>2, <1>1
      <4>3. CASE req[a].who = i
        <5>1. pass'[b][i] = IF pass[b][i] = None \/ pass[b][i].epoch > epoch[i]
                            THEN pass[b][i] ELSE [pass[b][i] EXCEPT !.ended = TRUE]
          BY <4>1, <4>3, <1>1
        <5>2. CASE pass[b][i] = None \/ pass[b][i].epoch > epoch[i]
          BY <5>1, <5>2
        <5>3. CASE ~(pass[b][i] = None \/ pass[b][i].epoch > epoch[i])
          <6>1. pass[b][i] \in Pass /\ pass'[b][i] = [pass[b][i] EXCEPT !.ended = TRUE]
            BY <5>1, <5>3, <1>1
          <6>2. pass'[b][i].epoch = pass[b][i].epoch /\ pass[b][i].epoch \in Nat
            BY <6>1 DEF Pass
          <6>3. pass[b][i].epoch <= epoch[i]
            BY <5>3, <6>2, <1>1
          <6> QED BY <2>3, <3>2, <4>3, <5>3, <6>2, <6>3
        <5> QED BY <5>2, <5>3
      <4> QED BY <4>2, <4>3
    <3> QED BY <3>1, <3>2
  <2>4. CASE EndSessions(a)
    <3>1. pass' = [pass EXCEPT ![a][req[a].who] = None]
      BY <2>4 DEF EndSessions
    <3> QED BY <3>1, <1>1, <2>1
  <2>5. CASE ~GivePass(a) /\ ~BumpEpoch(a) /\ ~EndSessions(a)
    BY <1>2, <2>5 DEF Work, ReadChallenge, CountTry, ConsumeChallenge, CheckTotp, MatchPasskey,
       SavePasskey, ConfirmFactor, ListConfirmed, DeleteCodes, InsertCodes, FindCode, UseCode,
       ReadLast, DropFactor, ReadEpoch, cookies
  <2> QED BY <2>2, <2>3, <2>4, <2>5
<1>3. ASSUME NEW a \in Browsers, Began(a) \/ Sent(a) PROVE pass'[b][i] = pass[b][i]
  BY <1>3 DEF Began, Sent, cookies
<1>4. Elsewhere => pass'[b][i] = pass[b][i]
  BY DEF Elsewhere
<1> QED BY <1>2, <1>3, <1>4, StepKinds

LEMMA EndedStep ==
  ASSUME MfaShape, RetiredInv, Step
  PROVE  EndedIsOver'
<1> SUFFICES ASSUME NEW b \in Browsers, NEW i \in Ids \ {"admin"}, NEW n \in Nat,
                    pass'[b][i] # None, pass'[b][i].ended, pass'[b][i].epoch = n
             PROVE  Over(n, i)'
  BY DEF EndedIsOver
<1>1. /\ pass \in [Browsers -> [Ids -> Pass \cup {None}]] /\ epoch \in [Ids -> Nat]
      /\ req \in [Browsers -> Request \cup {Idle}]
  BY DEF MfaShape, MfaTypeOK
<1>3. CASE pass'[b][i] = pass[b][i]
  <2>1. Over(n, i)
    BY <1>3 DEF RetiredInv, EndedIsOver
  <2> QED BY <2>1, OverStays
<1>4. CASE /\ pass[b][i] # None /\ pass'[b][i].epoch = pass[b][i].epoch /\ pass[b][i].epoch <= epoch[i]
           /\ \E a \in Browsers : InFlight(a) /\ BumpEpoch(a) /\ req[a].alone /\ req[a].who = i
  <2>1. PICK a \in Browsers : InFlight(a) /\ BumpEpoch(a) /\ req[a].alone /\ req[a].who = i
    BY <1>4
  <2>2. req[a].saw = epoch[i]
    BY <2>1 DEF RetiredInv, AloneSaw, BumpEpoch
  <2>3. epoch'[i] = epoch[i] + 1
    BY <2>1, <2>2, <1>1 DEF BumpEpoch
  <2>4. n < epoch'[i]
    BY <1>1, <1>4, <2>3
  <2>5. ASSUME NEW x \in Browsers, At(x, "bump")', req'[x].who = i PROVE FALSE
    <3>1. Continues(a) /\ Head(req[a].todo) = "bump"
      BY <2>1, WorkContinues DEF Work, BumpEpoch, At
    <3>2. CASE x = a
      BY <3>1, <3>2, <2>5 DEF Continues, At, InFlight
    <3>3. CASE x # a
      <4>1. InFlight(x)
        BY <3>1, <3>3, <2>5 DEF Continues, At, InFlight
      <4> QED BY <4>1, <3>3, <2>1 DEF RetiredInv, AloneInFlight
    <3> QED BY <3>2, <3>3
  <2> QED BY <2>4, <2>5 DEF Over
<1> QED BY <1>3, <1>4, PassMoves

LEMMA RetiredStep == MfaShape /\ RetiredInv /\ [Next]_vars => RetiredInv'
<1> SUFFICES ASSUME MfaShape, RetiredInv, [Next]_vars PROVE RetiredInv'
  OBVIOUS
<1>1. CASE UNCHANGED vars
  BY <1>1 DEF vars, moving, cookies, rows, RetiredInv, AloneInFlight, AloneSaw, EndedIsOver, Over, At, InFlight
<1>2. CASE Step
  BY <1>2, AloneStep, AloneSawStep, EndedStep DEF RetiredInv
<1> QED BY <1>1, <1>2 DEF Next

LEMMA RetiredInit == Init => RetiredInv
  BY DEF Init, RetiredInv, AloneInFlight, AloneSaw, EndedIsOver, At, InFlight, Idle

LEMMA RetiredGoal == MfaShape /\ RetiredInv => RetiredForGood
<1> SUFFICES ASSUME MfaShape, RetiredInv, NEW b \in Browsers, NEW i \in Ids \ {"admin"}, LetIn(b, i),
                    pass[b][i].ended
             PROVE  FALSE
  BY DEF RetiredForGood
<1>1. pass[b][i] # None /\ pass[b][i].epoch = epoch[i]
  BY DEF LetIn, Accepts
<1>3. epoch[i] \in Nat
  BY DEF MfaShape, MfaTypeOK
<1>2. Over(epoch[i], i)
  BY <1>1, <1>3 DEF RetiredInv, EndedIsOver
<1> QED BY <1>2, <1>3 DEF Over

\* Whoever is let in has answered once, with what is still asked for; and what a customer's
\* "sign out everywhere" has ended stays ended, whichever bumps race afterwards.
THEOREM PassesAreEarned == Spec => []PassesEarned
<1>1. NotAnsweredTwice /\ RetiredForGood => PassesEarned
  BY DEF PassesEarned
<1> QED BY <1>1, AnsweredOnce, ShapeInit, ShapeStep, RetiredInit, RetiredStep, RetiredGoal, PTL DEF Spec
=============================================================================
