----------------------------- MODULE TeamsProofs -----------------------------
(***************************************************************************)
(* Theorems about Teams, for any people, teams, invites, seats and         *)
(* requests, cut off anywhere.  MCTeams is the module extended because it  *)
(* says which requests are looked at together: everything but handovers,   *)
(* or handovers with nobody taken out.                                     *)
(***************************************************************************)
EXTENDS MCTeams, FiniteSetTheorems, TLAPS

-----------------------------------------------------------------------------
(* What a request in flight looks like.  TeamTypeOK alone does not keep itself: the    *)
(* writes rely on how each request was begun.                                          *)

Formed(q) ==
  /\ q \in TeamRequests
  /\ q.do = "create" => q.step \in {"insert_org", "insert_member", "undo"}
  /\ q.do = "create" /\ q.step # "insert_org" => q.org \in Orgs
  /\ q.do # "create" => q.org \in Orgs /\ q.role \in GivenRoles
  /\ q.do \in {"accept", "leave", "remove", "role", "transfer", "invite"}
       => q.target \in Users
  /\ q.do \in {"accept", "revoke_invite"} => q.inv \in Invites

TeamShape ==
  /\ TeamTypeOK
  /\ \A r \in Reqs : req[r] = Free \/ Formed(req[r])
  /\ \A r \in Reqs :
       req[r] # Free /\ req[r].do = "accept" => invite[req[r].inv] # Unsent

\* A row of org_invites stays, and stays its team's.
InvitesKept ==
  \A i \in Invites :
    invite[i] # Unsent => invite'[i] # Unsent /\ invite'[i].org = invite[i].org

\* What a step of request r leaves of the requests: the others, and r's own but for
\* where it stands.
OthersKept(r) == \A q \in Reqs \ {r} : req'[q] = req[q]
WhereOnly(r) ==
  /\ req[r] # Free /\ req'[r] # Free
  /\ req'[r].do = req[r].do /\ req'[r].who = req[r].who /\ req'[r].target = req[r].target
  /\ req'[r].role = req[r].role /\ req'[r].inv = req[r].inv

LEMMA RequestFormed ==
  ASSUME TeamShape, NEW r \in Reqs, req[r] # Free
  PROVE  /\ req[r] \in TeamRequests
         /\ Formed(req[r])
BY DEF TeamShape, Formed

LEMMA GotoEffect ==
  ASSUME TeamShape, NEW r \in Reqs, req[r] # Free, NEW step \in Steps, Goto(r, step),
         Formed([req[r] EXCEPT !.step = step])
  PROVE  /\ OthersKept(r) /\ WhereOnly(r)
         /\ req'[r].step = step /\ req'[r].org = req[r].org
         /\ req' \in [Reqs -> TeamRequests \cup {Free}]
         /\ Formed(req'[r])
<1>1. req[r] \in TeamRequests /\ req \in [Reqs -> TeamRequests \cup {Free}]
  BY RequestFormed DEF TeamShape, TeamTypeOK
<1>2. req' = [req EXCEPT ![r] = [req[r] EXCEPT !.step = step]]
  BY <1>1 DEF Goto
<1>3. [req[r] EXCEPT !.step = step] \in TeamRequests
  BY DEF Formed
<1>4. req'[r] = [req[r] EXCEPT !.step = step] /\ OthersKept(r)
  BY <1>1, <1>2 DEF OthersKept
<1>5. [req[r] EXCEPT !.step = step] # Free
  BY <1>3 DEF TeamRequests, Free, Actions, MemberActions, ManagerActions, OwnerActions
<1> QED
  BY <1>1, <1>2, <1>3, <1>4, <1>5 DEF WhereOnly, TeamRequests

LEMMA DoneEffect ==
  ASSUME TeamShape, NEW r \in Reqs, Done(r)
  PROVE  /\ OthersKept(r) /\ req'[r] = Free
         /\ req' \in [Reqs -> TeamRequests \cup {Free}]
BY DEF TeamShape, TeamTypeOK, Done, OthersKept

LEMMA BeginEffect ==
  ASSUME TeamShape, NEW r \in Reqs, NEW do, NEW who, NEW step, NEW o, NEW target,
         NEW newRole, NEW i, Begin(r, do, who, step, o, target, newRole, i),
         Formed([do |-> do, who |-> who, step |-> step, org |-> o, target |-> target,
                 role |-> newRole, inv |-> i])
  PROVE  /\ OthersKept(r) /\ req[r] = Free /\ req'[r] # Free
         /\ req'[r] = [do |-> do, who |-> who, step |-> step, org |-> o,
                       target |-> target, role |-> newRole, inv |-> i]
         /\ req' \in [Reqs -> TeamRequests \cup {Free}]
         /\ Formed(req'[r])
<1> DEFINE q == [do |-> do, who |-> who, step |-> step, org |-> o, target |-> target,
                 role |-> newRole, inv |-> i]
<1>1. req \in [Reqs -> TeamRequests \cup {Free}] /\ req' = [req EXCEPT ![r] = q]
  BY DEF Begin, TeamShape, TeamTypeOK
<1>2. q \in TeamRequests /\ Formed(q)
  BY DEF Formed
<1>3. q # Free
  BY <1>2 DEF TeamRequests, Free, Actions, MemberActions, ManagerActions, OwnerActions
<1> HIDE DEF q
<1>4. req'[r] = q /\ OthersKept(r) /\ req' \in [Reqs -> TeamRequests \cup {Free}]
  BY <1>1, <1>2 DEF OthersKept
<1> QED
  BY <1>2, <1>3, <1>4 DEF Begin, q

\* How one step of a request changes its own record: it ends, it goes on with what it
\* knew (a team being made learns its id), or it begins from what the tables say.
Moves(r) ==
  \/ req'[r] = Free
  \/ /\ WhereOnly(r)
     /\ \/ /\ req'[r].org = req[r].org /\ req'[r].step # "insert_org"
           /\ req[r].do = "create" => req[r].step # "insert_org"
        \/ /\ req[r].do = "create" /\ req[r].step = "insert_org"
           /\ req'[r].step = "insert_member"
           /\ owner[req'[r].org] = Unborn
           /\ owner' = [owner EXCEPT ![req'[r].org] = req'[r].who]
           /\ UNCHANGED <<member, role, invite>>
  \/ /\ req[r] = Free /\ UNCHANGED teamTables
     /\ \/ req'[r].do = "create" /\ req'[r].step = "insert_org"
        \/ /\ req'[r].do = "accept" /\ req'[r].step = "read_member"
           /\ invite[req'[r].inv] # Unsent
           /\ req'[r].org = invite[req'[r].inv].org
        \/ /\ req'[r].do \in MemberActions /\ req'[r].step = FirstStep(req'[r].do)
           /\ req'[r].org = member[req'[r].who]

\* With the tables well typed, one request changed and well formed, the shape is kept.
LEMMA ShapeFrame ==
  ASSUME TeamShape, NEW r \in Reqs, OthersKept(r), Moves(r), InvitesKept,
         req' \in [Reqs -> TeamRequests \cup {Free}], req'[r] = Free \/ Formed(req'[r]),
         owner' \in [Orgs -> Users \cup {Unborn, Gone}],
         member' \in [Users -> Orgs \cup {NoOrg}],
         role' \in [Users -> Roles],
         invite' \in [Invites -> InviteRows \cup {Unsent}]
  PROVE  TeamShape'
<1>1. \A q \in Reqs : req'[q] = Free \/ Formed(req'[q])
  BY DEF OthersKept, TeamShape
<1>2. TeamTypeOK'
  BY DEF TeamTypeOK
<1>3. ASSUME NEW q \in Reqs, req'[q] # Free, req'[q].do = "accept"
      PROVE  invite'[req'[q].inv] # Unsent
  <2>1. req'[q].inv \in Invites
    BY <1>1, <1>3 DEF Formed
  <2>2. CASE q # r
    BY <1>3, <2>1, <2>2 DEF OthersKept, TeamShape, InvitesKept
  <2>3. CASE q = r /\ WhereOnly(r)
    BY <1>3, <2>1, <2>3 DEF WhereOnly, TeamShape, InvitesKept
  <2>4. CASE q = r /\ ~WhereOnly(r)
    <3>1. invite[req'[r].inv] # Unsent
      BY <1>3, <2>4 DEF Moves, MemberActions, ManagerActions, OwnerActions
    <3> QED
      BY <2>1, <2>4, <3>1 DEF InvitesKept
  <2> QED
    BY <2>2, <2>3, <2>4
<1> QED
  BY <1>1, <1>2, <1>3 DEF TeamShape, Formed

LEMMA StartEffect ==
  ASSUME TeamShape, NEW r \in Reqs, StartStep(r)
  PROVE  /\ OthersKept(r) /\ Moves(r) /\ UNCHANGED teamTables
         /\ req[r] = Free /\ req'[r] # Free /\ Formed(req'[r])
         /\ req' \in [Reqs -> TeamRequests \cup {Free}]
<1> USE DEF TeamRequests, Roles, GivenRoles, Steps, Actions, MemberActions, ManagerActions,
            OwnerActions
<1>1. PICK a \in Users :
        \/ CreateStart(r, a)
        \/ \E i \in Invites : AcceptStart(r, a, i)
        \/ MemberStart(r, a, "leave", a, "member", NoInvite)
        \/ MemberStart(r, a, "close", NoUser, "member", NoInvite)
        \/ \E i \in Invites : MemberStart(r, a, "revoke_invite", NoUser, "member", i)
        \/ \E u \in Users :
             \/ \E do \in {"remove", "transfer"} :
                  MemberStart(r, a, do, u, "member", NoInvite)
             \/ \E do \in {"invite", "role"}, newRole \in GivenRoles :
                  MemberStart(r, a, do, u, newRole, NoInvite)
  BY DEF StartStep
<1>2. CASE CreateStart(r, a)
  <2>1. Formed([do |-> "create", who |-> a, step |-> "insert_org", org |-> NoOrg,
                target |-> NoUser, role |-> "owner", inv |-> NoInvite])
    BY DEF Formed
  <2> QED
    BY <1>2, <2>1, BeginEffect DEF CreateStart, Moves
<1>3. ASSUME NEW i \in Invites, AcceptStart(r, a, i)
      PROVE  /\ OthersKept(r) /\ Moves(r) /\ UNCHANGED teamTables
             /\ req[r] = Free /\ req'[r] # Free /\ Formed(req'[r])
             /\ req' \in [Reqs -> TeamRequests \cup {Free}]
  <2>1. invite[i] \in InviteRows
    BY <1>3 DEF AcceptStart, TeamShape, TeamTypeOK
  <2>2. Formed([do |-> "accept", who |-> a, step |-> "read_member", org |-> invite[i].org,
                target |-> a, role |-> invite[i].role, inv |-> i])
    BY <2>1 DEF Formed, InviteRows
  <2> QED
    BY <1>3, <2>2, BeginEffect DEF AcceptStart, Moves
<1>4. ASSUME NEW do \in MemberActions, NEW target \in Users \cup {NoUser},
             NEW newRole \in GivenRoles, NEW i \in Invites \cup {NoInvite},
             MemberStart(r, a, do, target, newRole, i),
             do \in {"leave", "remove", "role", "transfer", "invite"} => target \in Users,
             do = "revoke_invite" => i \in Invites
      PROVE  /\ OthersKept(r) /\ Moves(r) /\ UNCHANGED teamTables
             /\ req[r] = Free /\ req'[r] # Free /\ Formed(req'[r])
             /\ req' \in [Reqs -> TeamRequests \cup {Free}]
  <2>1. member[a] \in Orgs
    BY <1>4 DEF MemberStart, TeamShape, TeamTypeOK
  <2>2. FirstStep(do) \in Steps
    BY DEF FirstStep
  <2>3. Formed([do |-> do, who |-> a, step |-> FirstStep(do), org |-> member[a],
                target |-> target, role |-> newRole, inv |-> i])
    BY <1>4, <2>1, <2>2 DEF Formed
  <2>4. Begin(r, do, a, FirstStep(do), member[a], target, newRole, i)
        /\ UNCHANGED teamTables
    BY <1>4 DEF MemberStart
  <2> QED
    BY <1>4, <2>3, <2>4, BeginEffect DEF Moves
<1> QED
  BY <1>1, <1>2, <1>3, <1>4

LEMMA DeleteOrgTyped ==
  ASSUME TeamShape, NEW o \in Orgs, DeleteOrg(o)
  PROVE  /\ owner' \in [Orgs -> Users \cup {Unborn, Gone}]
         /\ member' \in [Users -> Orgs \cup {NoOrg}]
         /\ role' \in [Users -> Roles]
         /\ invite' \in [Invites -> InviteRows \cup {Unsent}]
         /\ InvitesKept
<1>1. \A i \in Invites : invite[i] # Unsent =>
        /\ [invite[i] EXCEPT !.state = "deleted"] \in InviteRows
        /\ [invite[i] EXCEPT !.state = "deleted"].org = invite[i].org
  BY DEF TeamShape, TeamTypeOK, InviteRows
<1>2. \A row \in InviteRows : row # Unsent
  BY DEF InviteRows, Unsent
<1> QED
  BY <1>1, <1>2 DEF TeamShape, TeamTypeOK, DeleteOrg, Roles, InvitesKept

\* Every step of a request that is under way.
OnTheWay(r) ==
  \/ \E o \in Orgs : CreateInsertOrg(r, o)
  \/ CreateInsertMember(r)
  \/ CreateUndo(r)
  \/ AcceptReadMember(r)
  \/ AcceptReadSeats(r)
  \/ AcceptInsert(r)
  \/ AcceptMark(r)
  \/ ReadOwner(r)
  \/ RemoveWrite(r)
  \/ RoleWrite(r)
  \/ \E i \in Invites : InviteWrite(r, i)
  \/ RevokeWrite(r)
  \/ TransferCheck(r)
  \/ CloseCheck(r)
  \/ CloseMove(r)
  \/ Crash(r)
  \/ TransferMove(r)

\* Going on to a step of its own kind keeps a request well formed.
LEMMA GotoFormed ==
  ASSUME TeamShape, NEW r \in Reqs, req[r] # Free, NEW step \in Steps, Goto(r, step),
         step # "insert_org",
         req[r].do = "create" => /\ step \in {"insert_member", "undo"}
                                 /\ req[r].org \in Orgs /\ req[r].step # "insert_org"
  PROVE  OthersKept(r) /\ Moves(r) /\ Formed(req'[r])
         /\ req' \in [Reqs -> TeamRequests \cup {Free}]
<1>1. Formed(req[r]) /\ req[r] \in TeamRequests
  BY RequestFormed
<1>2. Formed([req[r] EXCEPT !.step = step])
  BY <1>1 DEF Formed, TeamRequests
<1> QED
  BY <1>2, GotoEffect DEF Moves

LEMMA OnTheWayEffect ==
  ASSUME TeamShape, NEW r \in Reqs, OnTheWay(r)
  PROVE  OthersKept(r) /\ Moves(r) /\ TeamShape'
<1> DEFINE Kept == /\ OthersKept(r) /\ Moves(r)
                   /\ req' \in [Reqs -> TeamRequests \cup {Free}]
                   /\ req'[r] = Free \/ Formed(req'[r])
           Typed == /\ owner' \in [Orgs -> Users \cup {Unborn, Gone}]
                    /\ member' \in [Users -> Orgs \cup {NoOrg}]
                    /\ role' \in [Users -> Roles]
                    /\ invite' \in [Invites -> InviteRows \cup {Unsent}]
                    /\ InvitesKept
<1> USE DEF At
<1>1. Done(r) => Kept
  BY DoneEffect DEF Moves
<1>2. UNCHANGED teamTables => Typed
  BY DEF teamTables, TeamShape, TeamTypeOK, InvitesKept
<1>3. req[r] # Free
  BY DEF OnTheWay, CreateInsertOrg, CreateInsertMember, CreateUndo, AcceptReadMember,
         AcceptReadSeats, AcceptInsert, AcceptMark, ReadOwner, RemoveWrite, RoleWrite,
         InviteWrite, RevokeWrite, TransferCheck, CloseCheck, CloseMove, Crash, TransferMove
<1>4. Formed(req[r]) /\ req[r] \in TeamRequests
  BY <1>3, RequestFormed
<1>5. ASSUME NEW step \in Steps, Goto(r, step), step # "insert_org", req[r].do # "create"
      PROVE  Kept
  BY <1>3, <1>5, GotoFormed
<1>6. CASE \E o \in Orgs : CreateInsertOrg(r, o)
  <2>1. PICK o \in Orgs : CreateInsertOrg(r, o)
    BY <1>6
  <2>2. CASE Done(r) /\ UNCHANGED teamTables
    BY <2>2, <1>1, <1>2, ShapeFrame
  <2>3. CASE /\ owner[o] = Unborn
             /\ owner' = [owner EXCEPT ![o] = req[r].who]
             /\ req' = [req EXCEPT ![r].step = "insert_member", ![r].org = o]
             /\ UNCHANGED <<member, role, invite>>
    <3> DEFINE q == [req[r] EXCEPT !.step = "insert_member", !.org = o]
    <3>1. req \in [Reqs -> TeamRequests \cup {Free}]
      BY DEF TeamShape, TeamTypeOK
    <3>2. req' = [req EXCEPT ![r] = q]
      BY <2>3, <3>1, <1>3
    <3>3. q \in TeamRequests /\ q.do = "create"
      BY <1>4, <2>1 DEF TeamRequests, Steps, CreateInsertOrg
    <3>4. /\ Formed(q) /\ q # Free /\ q.org = o /\ q.step = "insert_member"
          /\ q.who = req[r].who /\ q.target = req[r].target /\ q.role = req[r].role
          /\ q.inv = req[r].inv /\ q.do = req[r].do
      BY <3>3, <1>4 DEF Formed, Free, TeamRequests
    <3> HIDE DEF q
    <3>5. req'[r] = q /\ OthersKept(r) /\ req' \in [Reqs -> TeamRequests \cup {Free}]
      BY <3>1, <3>2, <3>3 DEF OthersKept
    <3>6. Moves(r)
      BY <2>1, <2>3, <3>4, <3>5, <1>3 DEF Moves, WhereOnly, CreateInsertOrg
    <3>7. Typed
      BY <2>3, <1>4 DEF TeamShape, TeamTypeOK, TeamRequests, InvitesKept
    <3> QED
      BY <3>4, <3>5, <3>6, <3>7, ShapeFrame
  <2> QED
    BY <2>1, <2>2, <2>3, <1>1, <1>2, ShapeFrame DEF CreateInsertOrg
<1>7. CASE CreateInsertMember(r)
  <2>1. /\ req[r].org \in Orgs /\ req[r].who \in Users
        /\ req[r].do = "create" /\ req[r].step = "insert_member"
    BY <1>7, <1>4 DEF CreateInsertMember, Formed, TeamRequests
  <2>2. Goto(r, "undo") => Kept
    BY <1>3, <2>1, GotoFormed DEF Steps
  <2>3. SetMember(req[r].who, req[r].org, "owner") /\ UNCHANGED <<owner, invite>> => Typed
    BY <2>1 DEF SetMember, TeamShape, TeamTypeOK, Roles, InvitesKept
  <2> QED
    BY <1>7, <1>1, <1>2, <2>2, <2>3, ShapeFrame DEF CreateInsertMember
<1>8. CASE CreateUndo(r)
  <2>1. req[r].org \in Orgs
    BY <1>8, <1>4 DEF CreateUndo, Formed
  <2> QED
    BY <1>8, <1>1, <2>1, DeleteOrgTyped, ShapeFrame DEF CreateUndo
<1>9. CASE AcceptReadMember(r)
  BY <1>9, <1>1, <1>2, <1>5, ShapeFrame DEF AcceptReadMember, Steps
<1>10. CASE AcceptReadSeats(r)
  BY <1>10, <1>1, <1>2, <1>5, ShapeFrame DEF AcceptReadSeats, Steps
<1>11. CASE AcceptInsert(r)
  <2>1. req[r].org \in Orgs /\ req[r].who \in Users /\ req[r].role \in Roles
    BY <1>11, <1>4 DEF AcceptInsert, Formed, TeamRequests
  <2>2. Goto(r, "mark") => Kept
    BY <1>11, <1>5 DEF Steps, AcceptInsert
  <2>3. SetMember(req[r].who, req[r].org, req[r].role) /\ UNCHANGED <<owner, invite>> => Typed
    BY <2>1 DEF SetMember, TeamShape, TeamTypeOK, InvitesKept
  <2> QED
    BY <1>11, <1>1, <1>2, <2>2, <2>3, ShapeFrame DEF AcceptInsert
<1>12. ASSUME NEW i \in Invites, NEW state \in {"pending", "expired", "accepted", "deleted"},
              invite[i] # Unsent, invite' = [invite EXCEPT ![i].state = state],
              UNCHANGED <<owner, member, role>>
       PROVE  Typed
  <2>1. /\ [invite[i] EXCEPT !.state = state] \in InviteRows
        /\ [invite[i] EXCEPT !.state = state].org = invite[i].org
    BY <1>12 DEF TeamShape, TeamTypeOK, InviteRows
  <2>2. \A row \in InviteRows : row # Unsent
    BY DEF InviteRows, Unsent
  <2> QED
    BY <1>12, <2>1, <2>2 DEF TeamShape, TeamTypeOK, InvitesKept
<1>13. CASE AcceptMark(r)
  <2>1. req[r].inv \in Invites /\ invite[req[r].inv] # Unsent
    BY <1>13, <1>4 DEF AcceptMark, Formed, TeamShape
  <2>2. Typed
    <3>1. CASE invite[req[r].inv].state = "deleted"
      BY <3>1, <1>13, <1>2 DEF AcceptMark, teamTables
    <3>2. CASE invite[req[r].inv].state # "deleted"
      BY <3>2, <1>13, <2>1, <1>12 DEF AcceptMark
    <3> QED
      BY <3>1, <3>2
  <2>3. Kept
    BY <1>13, <1>1 DEF AcceptMark
  <2> QED
    BY <2>2, <2>3, ShapeFrame
<1>14. CASE ReadOwner(r)
  BY <1>14, <1>1, <1>2, <1>5, ShapeFrame DEF ReadOwner, Steps
<1>15. CASE RemoveWrite(r)
  <2>1. req[r].target \in Users
    BY <1>15, <1>4 DEF RemoveWrite, Formed
  <2>2. Typed
    BY <1>15, <2>1
    DEF RemoveWrite, SetMember, TeamShape, TeamTypeOK, InvitesKept, Roles
  <2> QED
    BY <1>15, <1>1, <2>2, ShapeFrame DEF RemoveWrite
<1>16. CASE RoleWrite(r)
  <2>1. req[r].target \in Users /\ req[r].role \in Roles
    BY <1>16, <1>4 DEF RoleWrite, Formed, TeamRequests
  <2>2. Typed
    BY <1>16, <2>1 DEF RoleWrite, TeamShape, TeamTypeOK, InvitesKept
  <2> QED
    BY <1>16, <1>1, <2>2, ShapeFrame DEF RoleWrite
<1>17. ASSUME NEW i \in Invites, InviteWrite(r, i)
       PROVE  OthersKept(r) /\ Moves(r) /\ TeamShape'
  <2>1. [state |-> "pending", org |-> req[r].org, email |-> req[r].target,
         role |-> req[r].role] \in InviteRows
    BY <1>17, <1>4 DEF InviteWrite, Formed, InviteRows, GivenRoles
  <2>2. \A row \in InviteRows : row # Unsent
    BY DEF InviteRows, Unsent
  <2>3. Typed
    BY <1>17, <2>1, <2>2 DEF InviteWrite, TeamShape, TeamTypeOK, InvitesKept
  <2> QED
    BY <1>17, <1>1, <2>3, ShapeFrame DEF InviteWrite
<1>18. CASE RevokeWrite(r)
  <2>1. req[r].inv \in Invites
    BY <1>18, <1>4 DEF RevokeWrite, Formed
  <2>2. Typed
    BY <1>18, <2>1, <1>2, <1>12 DEF RevokeWrite, teamTables
  <2> QED
    BY <1>18, <1>1, <2>2, ShapeFrame DEF RevokeWrite
<1>19. CASE TransferCheck(r)
  BY <1>19, <1>1, <1>2, <1>5, ShapeFrame DEF TransferCheck, Steps
<1>20. CASE CloseCheck(r)
  BY <1>20, <1>1, <1>2, <1>5, ShapeFrame DEF CloseCheck, Steps
<1>21. CASE CloseMove(r)
  <2>1. req[r].org \in Orgs
    BY <1>21, <1>4 DEF CloseMove, Formed
  <2> QED
    BY <1>21, <1>1, <2>1, DeleteOrgTyped, ShapeFrame DEF CloseMove
<1>22. CASE Crash(r)
  BY <1>22, <1>1, <1>2, ShapeFrame DEF Crash
<1>23. CASE TransferMove(r)
  <2>1. req[r].target \in Users
    BY <1>23, <1>4 DEF TransferMove, Formed
  <2>2. Typed
    BY <1>23, <2>1 DEF TransferMove, TeamShape, TeamTypeOK, InvitesKept, Roles
  <2> QED
    BY <1>23, <1>1, <2>2, ShapeFrame DEF TransferMove
<1> QED
  BY <1>6, <1>7, <1>8, <1>9, <1>10, <1>11, <1>13, <1>14, <1>15, <1>16, <1>17, <1>18, <1>19,
     <1>20, <1>21, <1>22, <1>23 DEF OnTheWay

LEMMA ShapeStep ==
  ASSUME TeamShape, [TeamNext]_teamVars
  PROVE  TeamShape'
<1>1. CASE UNCHANGED teamVars
  BY <1>1 DEF teamVars, TeamShape, TeamTypeOK, Formed
<1>2. ASSUME NEW r \in Reqs, RequestStep(r) \/ TransferMove(r)
      PROVE  TeamShape'
  <2>1. CASE StartStep(r)
    <3>1. StartStep(r) /\ UNCHANGED teamTables
      BY <2>1, StartEffect
    <3> QED
      BY <3>1, StartEffect, ShapeFrame DEF teamTables, TeamShape, TeamTypeOK, InvitesKept
  <2>2. CASE OnTheWay(r)
    BY <2>2, OnTheWayEffect
  <2> QED
    BY <1>2, <2>1, <2>2 DEF RequestStep, OnTheWay
<1>3. ASSUME NEW i \in Invites, Expire(i)
      PROVE  TeamShape'
  <2>1. /\ [invite[i] EXCEPT !.state = "expired"] \in InviteRows
        /\ [invite[i] EXCEPT !.state = "expired"] # Unsent
    BY <1>3 DEF Expire, TeamShape, TeamTypeOK, InviteRows, Unsent
  <2>2. invite' = [invite EXCEPT ![i] = [invite[i] EXCEPT !.state = "expired"]]
    BY <1>3 DEF Expire, TeamShape, TeamTypeOK
  <2> QED
    BY <1>3, <2>1, <2>2 DEF Expire, TeamShape, TeamTypeOK, Formed
<1> QED
  BY <1>1, <1>2, <1>3 DEF TeamNext

LEMMA ShapeInit == TeamInit => TeamShape
BY DEF TeamInit, TeamShape, TeamTypeOK, Roles

\* Whatever requests interleave or are cut off, and whatever reads are lost, every table
\* and every request in flight keeps its type: a role is one of the three, an invite asks
\* for a role the route gives away, and a team is handed to an account (org.ts).
THEOREM TeamTypes == TeamSpec => []TeamTypeOK
<1>1. TeamShape /\ [TeamNext]_teamVars => TeamShape'
  BY ShapeStep
<1>2. TeamShape => TeamTypeOK
  BY DEF TeamShape
<1> QED
  BY ShapeInit, <1>1, <1>2, PTL DEF TeamSpec

-----------------------------------------------------------------------------
(* The inductive invariant.  A team is settled once the account that pays for it is in *)
(* it, and stays so until it is gone; whatever refers to a team (a member, an invite,  *)
(* a request) refers to a settled one, but for the request that is making it.          *)

Settled(o) == owner[o] = Gone \/ (owner[o] \in Users /\ member[owner[o]] = o)

MembersSettled ==
  \A u \in Users : member[u] # NoOrg => Settled(member[u]) /\ owner[member[u]] # Gone
InvitesSettled == \A i \in Invites : invite[i] # Unsent => Settled(invite[i].org)
RequestsSettled ==
  \A r \in Reqs : req[r] # Free /\ req[r].do # "create" => Settled(req[r].org)

\* A team whose row is there and whose owner is not in it yet: nobody is, and one
\* request is making it.
Making(r) == req[r] # Free /\ req[r].do = "create" /\ req[r].step # "insert_org"
HalfMadeEmpty ==
  \A r \in Reqs : Making(r) =>
    \/ owner[req[r].org] = Gone
    \/ owner[req[r].org] = req[r].who /\ \A u \in Users : member[u] # req[r].org
MadeOnce ==
  \A r, q \in Reqs : Making(r) /\ Making(q) /\ r # q => req[r].org # req[q].org

\* What the checks of removeMember, setRole and transfer_org_ownership leave true until
\* they write, when handovers and removals are not mixed.
RemovalSafe ==
  \A r \in Reqs :
    At(r, "leave", "write") \/ At(r, "remove", "write") => owner[req[r].org] # req[r].target
RoleSafe ==
  \A r \in Reqs : At(r, "role", "write") => owner[req[r].org] # req[r].target
HandoverSafe ==
  \A r \in Reqs :
    At(r, "transfer", "move") =>
      owner[req[r].org] = Gone \/ member[req[r].target] = req[r].org

InMix ==
  /\ mix \in {NoTransfer, Handovers}
  /\ \A r \in Reqs : req[r] # Free => req[r].do \in mix

TeamInv ==
  /\ TeamShape /\ InMix
  /\ MembersSettled /\ InvitesSettled /\ RequestsSettled
  /\ HalfMadeEmpty /\ MadeOnce
  /\ RemovalSafe /\ HandoverSafe

\* The same of a team after the step.
SettledNext(o) == owner'[o] = Gone \/ (owner'[o] \in Users /\ member'[owner'[o]] = o)

\* Only the write of a removal takes the owner out of a team, and it is not let.
StaySettled ==
  \A o \in Orgs : /\ Settled(o) => SettledNext(o)
                  /\ owner[o] = Gone => owner'[o] = Gone

LEMMA SettledKept ==
  ASSUME TeamInv, NEW r \in Reqs, OnTheWay(r)
  PROVE  StaySettled
<1> USE TeamAssumption DEF At, SettledNext, StaySettled
<1>1. req[r] # Free
  BY DEF OnTheWay, CreateInsertOrg, CreateInsertMember, CreateUndo, AcceptReadMember,
         AcceptReadSeats, AcceptInsert, AcceptMark, ReadOwner, RemoveWrite, RoleWrite,
         InviteWrite, RevokeWrite, TransferCheck, CloseCheck, CloseMove, Crash, TransferMove
<1>2. Formed(req[r]) /\ req[r].who \in Users
  BY <1>1, RequestFormed DEF TeamInv, TeamRequests
<1>3. /\ owner \in [Orgs -> Users \cup {Unborn, Gone}]
      /\ member \in [Users -> Orgs \cup {NoOrg}]
  BY DEF TeamInv, TeamShape, TeamTypeOK
<1>4. UNCHANGED <<owner, member>> => StaySettled
  BY DEF Settled
<1>5. ASSUME NEW u \in Users, NEW o \in Orgs, NEW newRole, CanJoin(u, o),
             SetMember(u, o, newRole), UNCHANGED owner
      PROVE  StaySettled
  BY <1>3, <1>5 DEF CanJoin, SetMember, Settled
<1>6. ASSUME NEW o \in Orgs, DeleteOrg(o)
      PROVE  StaySettled
  BY <1>3, <1>6 DEF DeleteOrg, Settled
<1>7. CASE \E o \in Orgs : CreateInsertOrg(r, o)
  BY <1>7, <1>3, <1>4 DEF CreateInsertOrg, Settled, teamTables
<1>8. CASE CreateInsertMember(r)
  BY <1>8, <1>2, <1>4, <1>5 DEF CreateInsertMember, teamTables, Formed
<1>9. CASE CreateUndo(r) \/ CloseMove(r)
  BY <1>9, <1>2, <1>6 DEF CreateUndo, CloseMove, Formed
<1>10. CASE AcceptInsert(r)
  BY <1>10, <1>2, <1>4, <1>5 DEF AcceptInsert, teamTables, Formed
<1>11. CASE RemoveWrite(r)
  <2>1. req[r].org \in Orgs /\ owner[req[r].org] # req[r].target
        /\ req[r].target \in Users
    BY <1>11, <1>2 DEF RemoveWrite, TeamInv, RemovalSafe, Formed
  <2> QED
    BY <1>11, <2>1, <1>3, <1>4 DEF RemoveWrite, SetMember, Settled
<1>12. CASE TransferMove(r)
  <2>1. req[r].org \in Orgs /\ req[r].target \in Users
        /\ (owner[req[r].org] = Gone \/ member[req[r].target] = req[r].org)
    BY <1>12, <1>2 DEF TransferMove, TeamInv, HandoverSafe, Formed
  <2> QED
    BY <1>12, <2>1, <1>3, <1>4 DEF TransferMove, Settled, Exists
<1>13. CASE \/ AcceptReadMember(r) \/ AcceptReadSeats(r) \/ AcceptMark(r) \/ ReadOwner(r)
            \/ RoleWrite(r) \/ (\E i \in Invites : InviteWrite(r, i)) \/ RevokeWrite(r)
            \/ TransferCheck(r) \/ CloseCheck(r) \/ Crash(r)
  BY <1>13, <1>4 DEF AcceptReadMember, AcceptReadSeats, AcceptMark, ReadOwner, RoleWrite,
       InviteWrite, RevokeWrite, TransferCheck, CloseCheck, Crash, teamTables
<1> QED
  BY <1>7, <1>8, <1>9, <1>10, <1>11, <1>12, <1>13 DEF OnTheWay

\* What a step of a request does to who owns a team, and to who is in one.
OwnersMoved(r) ==
  \A o \in Orgs :
    /\ \/ owner'[o] = owner[o]
       \/ owner[o] = Unborn
       \/ owner'[o] = Gone
       \/ req[r].do = "transfer" /\ req[r].org = o
    /\ owner'[o] = Gone => owner[o] = Gone \/ \A u \in Users : member'[u] # o
MembersMoved(r) ==
  \A u \in Users :
    \/ member'[u] = member[u]
    \/ /\ u = req[r].who /\ member[u] = NoOrg /\ member'[u] = req[r].org
       /\ Exists(req[r].org) /\ UNCHANGED owner
       /\ req[r].do \in {"create", "accept"}
       /\ req[r].do = "create" => req[r].step # "insert_org"
    \/ member'[u] = NoOrg /\ owner'[member[u]] = Gone
    \/ member'[u] = NoOrg /\ req[r].do \in {"leave", "remove"} /\ req[r].target = u
InvitesMoved(r) ==
  \A i \in Invites : invite'[i] # Unsent =>
    \/ invite[i] # Unsent /\ invite'[i].org = invite[i].org
    \/ req[r].do = "invite" /\ invite'[i].org = req[r].org

LEMMA TablesMoved ==
  ASSUME TeamShape, NEW r \in Reqs, OnTheWay(r)
  PROVE  OwnersMoved(r) /\ MembersMoved(r)
<1> USE TeamAssumption DEF At
<1>1. req[r] # Free
  BY DEF OnTheWay, CreateInsertOrg, CreateInsertMember, CreateUndo, AcceptReadMember,
         AcceptReadSeats, AcceptInsert, AcceptMark, ReadOwner, RemoveWrite, RoleWrite,
         InviteWrite, RevokeWrite, TransferCheck, CloseCheck, CloseMove, Crash, TransferMove
<1>2. Formed(req[r]) /\ req[r].who \in Users
  BY <1>1, RequestFormed DEF TeamRequests
<1>3. /\ owner \in [Orgs -> Users \cup {Unborn, Gone}]
      /\ member \in [Users -> Orgs \cup {NoOrg}]
  BY DEF TeamShape, TeamTypeOK
<1>4. UNCHANGED <<owner, member>> => OwnersMoved(r) /\ MembersMoved(r)
  BY DEF OwnersMoved, MembersMoved
<1>5. ASSUME NEW o \in Orgs, DeleteOrg(o)
      PROVE  OwnersMoved(r) /\ MembersMoved(r)
  BY <1>3, <1>5 DEF DeleteOrg, OwnersMoved, MembersMoved
<1>6. ASSUME NEW newRole, CanJoin(req[r].who, req[r].org), req[r].do \in {"create", "accept"},
             req[r].do = "create" => req[r].step # "insert_org",
             SetMember(req[r].who, req[r].org, newRole), UNCHANGED owner
      PROVE  OwnersMoved(r) /\ MembersMoved(r)
  BY <1>2, <1>3, <1>6 DEF CanJoin, SetMember, OwnersMoved, MembersMoved
<1>7. CASE \E o \in Orgs : CreateInsertOrg(r, o)
  BY <1>7, <1>2, <1>3, <1>4 DEF CreateInsertOrg, teamTables, OwnersMoved, MembersMoved
<1>8. CASE CreateInsertMember(r) \/ AcceptInsert(r)
  BY <1>8, <1>2, <1>4, <1>6 DEF CreateInsertMember, AcceptInsert, teamTables
<1>9. CASE CreateUndo(r) \/ CloseMove(r)
  BY <1>9, <1>2, <1>5 DEF CreateUndo, CloseMove, Formed
<1>10. CASE RemoveWrite(r)
  BY <1>10, <1>2, <1>3 DEF RemoveWrite, SetMember, OwnersMoved, MembersMoved, Formed
<1>11. CASE TransferMove(r)
  BY <1>11, <1>2, <1>3 DEF TransferMove, OwnersMoved, MembersMoved, Formed
<1>12. CASE \/ AcceptReadMember(r) \/ AcceptReadSeats(r) \/ AcceptMark(r) \/ ReadOwner(r)
            \/ RoleWrite(r) \/ (\E i \in Invites : InviteWrite(r, i)) \/ RevokeWrite(r)
            \/ TransferCheck(r) \/ CloseCheck(r) \/ Crash(r)
  BY <1>12, <1>4 DEF AcceptReadMember, AcceptReadSeats, AcceptMark, ReadOwner, RoleWrite,
       InviteWrite, RevokeWrite, TransferCheck, CloseCheck, Crash, teamTables
<1> QED
  BY <1>7, <1>8, <1>9, <1>10, <1>11, <1>12 DEF OnTheWay

LEMMA InvitesFollow ==
  ASSUME TeamShape, NEW r \in Reqs, OnTheWay(r)
  PROVE  InvitesMoved(r)
<1> USE DEF At
<1>1. invite \in [Invites -> InviteRows \cup {Unsent}]
  BY DEF TeamShape, TeamTypeOK
<1>2. UNCHANGED invite => InvitesMoved(r)
  BY DEF InvitesMoved
<1>3. ASSUME NEW i \in Invites, NEW state, invite[i] # Unsent,
             invite' = [invite EXCEPT ![i].state = state]
      PROVE  InvitesMoved(r)
  BY <1>1, <1>3 DEF InvitesMoved, InviteRows
<1>4. ASSUME NEW o, DeleteOrg(o)
      PROVE  InvitesMoved(r)
  BY <1>1, <1>4 DEF DeleteOrg, InvitesMoved, InviteRows
<1>5. CASE CreateUndo(r) \/ CloseMove(r)
  BY <1>5, <1>4 DEF CreateUndo, CloseMove
<1>6. CASE AcceptMark(r)
  <2>1. req[r].inv \in Invites /\ invite[req[r].inv] # Unsent
    BY <1>6, RequestFormed DEF AcceptMark, Formed, TeamShape
  <2> QED
    BY <1>6, <2>1, <1>2, <1>3 DEF AcceptMark
<1>7. ASSUME NEW i \in Invites, InviteWrite(r, i)
      PROVE  InvitesMoved(r)
  BY <1>1, <1>7 DEF InviteWrite, InvitesMoved
<1>8. CASE RevokeWrite(r)
  <2>1. req[r].inv \in Invites
    BY <1>8, RequestFormed DEF RevokeWrite, Formed
  <2> QED
    BY <1>8, <2>1, <1>2, <1>3 DEF RevokeWrite
<1>9. CASE \/ (\E o \in Orgs : CreateInsertOrg(r, o)) \/ CreateInsertMember(r)
           \/ AcceptReadMember(r) \/ AcceptReadSeats(r) \/ AcceptInsert(r) \/ ReadOwner(r)
           \/ RemoveWrite(r) \/ RoleWrite(r) \/ TransferCheck(r) \/ CloseCheck(r)
           \/ Crash(r) \/ TransferMove(r)
  BY <1>9, <1>2 DEF CreateInsertOrg, CreateInsertMember, AcceptReadMember, AcceptReadSeats,
       AcceptInsert, ReadOwner, RemoveWrite, RoleWrite, TransferCheck, CloseCheck, Crash,
       TransferMove, teamTables
<1> QED
  BY <1>5, <1>6, <1>7, <1>8, <1>9 DEF OnTheWay

\* The only way to the write of a removal, a new role or a handover is its check.
LEMMA WritesAreChecked ==
  ASSUME TeamShape, NEW r \in Reqs, OnTheWay(r)
  PROVE  /\ \A do \in {"leave", "remove", "role"} : At(r, do, "write")' =>
              /\ req[r].do = do /\ ReadOwner(r)
              /\ \E lost \in Lost : ~Refused(do, req[r].org, req[r].target, lost)
         /\ At(r, "transfer", "move")' =>
              TransferCheck(r) /\ MayReceive(req[r].org, req[r].who, req[r].target)
         /\ At(r, "accept", "insert")' =>
              AcceptReadSeats(r) /\ \E lost \in Lost : HasRoom(req[r].org, lost)
<1> DEFINE Told ==
      /\ \A do \in {"leave", "remove", "role"} : At(r, do, "write")' =>
           /\ req[r].do = do /\ ReadOwner(r)
           /\ \E lost \in Lost : ~Refused(do, req[r].org, req[r].target, lost)
      /\ At(r, "transfer", "move")' =>
           TransferCheck(r) /\ MayReceive(req[r].org, req[r].who, req[r].target)
      /\ At(r, "accept", "insert")' =>
           AcceptReadSeats(r) /\ \E lost \in Lost : HasRoom(req[r].org, lost)
<1>1. req \in [Reqs -> TeamRequests \cup {Free}]
  BY DEF TeamShape, TeamTypeOK
<1>2. Done(r) => Told
  BY DoneEffect DEF At
<1>3. CASE \E o \in Orgs : CreateInsertOrg(r, o)
  <2>1. PICK o \in Orgs : CreateInsertOrg(r, o)
    BY <1>3
  <2>2. At(r, "create", "insert_org") /\ req[r] \in TeamRequests
    BY <2>1, RequestFormed DEF CreateInsertOrg, At
  <2>3. CASE req' = [req EXCEPT ![r].step = "insert_member", ![r].org = o]
    <3>1. req'[r].do = "create"
      BY <1>1, <2>2, <2>3 DEF At, TeamRequests
    <3> QED
      BY <3>1 DEF At
  <2> QED
    BY <2>1, <2>3, <1>2 DEF CreateInsertOrg
<1>4. ASSUME NEW do \in Actions, NEW from, NEW to, At(r, do, from), Goto(r, to)
      PROVE  req'[r].do = do /\ req'[r].step = to
  BY <1>1, <1>4, RequestFormed DEF At, Goto, TeamRequests
<1>5. CASE CreateInsertMember(r)
  BY <1>5, <1>2, <1>4 DEF CreateInsertMember, At, Actions
<1>6. CASE AcceptReadMember(r)
  BY <1>6, <1>2, <1>4 DEF AcceptReadMember, At, Actions
<1>7. CASE AcceptReadSeats(r)
  BY <1>7, <1>2, <1>4 DEF AcceptReadSeats, At, Actions
<1>8. CASE AcceptInsert(r)
  BY <1>8, <1>2, <1>4 DEF AcceptInsert, At, Actions
<1>9. CASE ReadOwner(r)
  <2>1. PICK do \in {"leave", "remove", "role"} : At(r, do, "read_owner")
    BY <1>9 DEF ReadOwner
  <2>2. PICK lost \in Lost : IF Refused(req[r].do, req[r].org, req[r].target, lost)
                             THEN Done(r) ELSE Goto(r, "write")
    BY <1>9 DEF ReadOwner
  <2>3. do \in Actions /\ req[r].do = do
    BY <2>1 DEF Actions, MemberActions, ManagerActions, At
  <2>4. CASE ~Refused(req[r].do, req[r].org, req[r].target, lost) /\ Goto(r, "write")
    <3>1. req'[r].do = do /\ req'[r].step = "write"
      BY <2>1, <2>3, <2>4, <1>4
    <3> QED
      BY <3>1, <2>3, <2>4, <1>9 DEF At
  <2> QED
    BY <2>2, <2>4, <1>2, Zenon
<1>10. CASE TransferCheck(r)
  BY <1>10, <1>2, <1>4 DEF TransferCheck, At, Actions, MemberActions, OwnerActions
<1>11. CASE CloseCheck(r)
  BY <1>11, <1>2, <1>4 DEF CloseCheck, At, Actions, MemberActions, OwnerActions
<1>12. CASE \/ CreateUndo(r) \/ AcceptMark(r) \/ RemoveWrite(r) \/ RoleWrite(r)
            \/ (\E i \in Invites : InviteWrite(r, i)) \/ RevokeWrite(r) \/ CloseMove(r)
            \/ Crash(r) \/ TransferMove(r)
  BY <1>12, <1>2 DEF CreateUndo, AcceptMark, RemoveWrite, RoleWrite, InviteWrite, RevokeWrite,
       CloseMove, Crash, TransferMove
<1> QED
  BY <1>3, <1>5, <1>6, <1>7, <1>8, <1>9, <1>10, <1>11, <1>12 DEF OnTheWay

LEMMA OnTheWayBasics ==
  ASSUME TeamInv, NEW r \in Reqs, OnTheWay(r)
  PROVE  /\ req[r] # Free /\ req[r].do \in mix /\ Formed(req[r])
         /\ req[r].do \in Actions /\ req[r].who \in Users
<1>1. req[r] # Free
  BY DEF OnTheWay, CreateInsertOrg, CreateInsertMember, CreateUndo, AcceptReadMember,
         AcceptReadSeats, AcceptInsert, AcceptMark, ReadOwner, RemoveWrite, RoleWrite,
         InviteWrite, RevokeWrite, TransferCheck, CloseCheck, CloseMove, Crash, TransferMove,
         At
<1> QED
  BY <1>1, RequestFormed DEF TeamInv, InMix, TeamRequests

LEMMA MembersStaySettled ==
  ASSUME TeamInv, NEW r \in Reqs, OnTheWay(r)
  PROVE  MembersSettled'
<1> SUFFICES ASSUME NEW u \in Users, member'[u] # NoOrg
             PROVE  SettledNext(member'[u]) /\ owner'[member'[u]] # Gone
  BY DEF MembersSettled, Settled, SettledNext
<1> USE TeamAssumption
<1>1. req[r] # Free /\ req[r].do \in mix /\ Formed(req[r]) /\ req[r].who \in Users
  BY OnTheWayBasics
<1>0. StaySettled
  BY SettledKept
<1>2. TeamShape' /\ OwnersMoved(r) /\ MembersMoved(r)
  BY OnTheWayEffect, TablesMoved DEF TeamInv
<1>3. member'[u] \in Orgs
  BY <1>2 DEF TeamShape, TeamTypeOK
<1>4. CASE member'[u] = member[u]
  <2>1. Settled(member[u]) /\ owner[member[u]] # Gone
    BY <1>4 DEF TeamInv, MembersSettled
  <2>2. SettledNext(member[u])
    BY <2>1, <1>0, <1>3, <1>4 DEF StaySettled, Settled, SettledNext
  <2>3. owner'[member[u]] # Gone
    BY <2>1, <1>2, <1>3, <1>4 DEF OwnersMoved
  <2> QED
    BY <2>2, <2>3, <1>4
<1>5. CASE /\ u = req[r].who /\ member[u] = NoOrg /\ member'[u] = req[r].org
           /\ Exists(req[r].org) /\ UNCHANGED owner
           /\ req[r].do \in {"create", "accept"}
           /\ req[r].do = "create" => req[r].step # "insert_org"
  <2>1. owner'[req[r].org] # Gone
    BY <1>5 DEF Exists
  <2>2. CASE req[r].do = "accept"
    BY <2>1, <2>2, <1>0, <1>1, <1>3, <1>5 DEF TeamInv, RequestsSettled, StaySettled, Settled, SettledNext
  <2>3. CASE req[r].do = "create"
    BY <2>1, <2>3, <1>1, <1>5 DEF TeamInv, HalfMadeEmpty, Making, SettledNext
  <2> QED
    BY <2>2, <2>3, <1>5
<1> QED
  BY <1>2, <1>4, <1>5 DEF MembersMoved

LEMMA RowsStaySettled ==
  ASSUME TeamInv, NEW r \in Reqs, OnTheWay(r)
  PROVE  InvitesSettled' /\ RequestsSettled'
<1>1. req[r] # Free /\ req[r].do \in mix /\ Formed(req[r])
  BY OnTheWayBasics
<1>2. OthersKept(r) /\ Moves(r) /\ TeamShape /\ TeamShape' /\ InvitesMoved(r)
  BY OnTheWayEffect, InvitesFollow DEF TeamInv
<1>3. \A o \in Orgs : Settled(o) => SettledNext(o)
  BY SettledKept DEF StaySettled, Settled, SettledNext
<1>4. ASSUME NEW i \in Invites, invite'[i] # Unsent
      PROVE  SettledNext(invite'[i].org)
  <2>1. invite'[i].org \in Orgs
    BY <1>2, <1>4 DEF TeamShape, TeamTypeOK, InviteRows
  <2>2. Settled(invite'[i].org)
    BY <1>1, <1>2, <1>4 DEF InvitesMoved, TeamInv, InvitesSettled, RequestsSettled
  <2> QED
    BY <2>1, <2>2, <1>3
<1>5. ASSUME NEW q \in Reqs, req'[q] # Free, req'[q].do # "create"
      PROVE  SettledNext(req'[q].org)
  <2>1. req'[q].org \in Orgs
    BY <1>2, <1>5, RequestFormed DEF TeamShape, Formed
  <2>2. Settled(req'[q].org)
    <3>1. CASE q # r
      BY <3>1, <1>2, <1>5 DEF OthersKept, TeamInv, RequestsSettled
    <3>2. CASE q = r
      BY <3>2, <1>1, <1>2, <1>5 DEF Moves, WhereOnly, TeamInv, RequestsSettled
    <3> QED
      BY <3>1, <3>2
  <2> QED
    BY <2>1, <2>2, <1>3
<1> QED
  BY <1>4, <1>5 DEF InvitesSettled, RequestsSettled, Settled, SettledNext

LEMMA MadeOnceKept ==
  ASSUME TeamInv, NEW r \in Reqs, OnTheWay(r)
  PROVE  HalfMadeEmpty' /\ MadeOnce'
<1> USE TeamAssumption
<1>1. /\ req[r] # Free /\ req[r].do \in mix /\ Formed(req[r]) /\ req[r].who \in Users
  BY OnTheWayBasics
<1>0. StaySettled
  BY SettledKept
<1>2. /\ OthersKept(r) /\ Moves(r) /\ TeamShape /\ TeamShape'
      /\ OwnersMoved(r) /\ MembersMoved(r)
  BY OnTheWayEffect, TablesMoved DEF TeamInv
<1>3. \A q \in Reqs : Making(q) => /\ req[q].org \in Orgs /\ req[q].who \in Users
                                   /\ owner[req[q].org] # Unborn
  BY <1>2, RequestFormed
  DEF Making, Formed, TeamRequests, TeamInv, HalfMadeEmpty
\* A team being made is nobody else's to hand over or to join.
<1>4. ASSUME NEW q \in Reqs, q # r, Making(q)
      PROVE  \/ owner'[req[q].org] = Gone
             \/ /\ owner'[req[q].org] = req[q].who
                /\ \A u \in Users : member'[u] # req[q].org
  <2> DEFINE o == req[q].org
  <2>1. o \in Orgs /\ owner[o] # Unborn /\ o # NoOrg
    BY <1>3, <1>4
  <2>2. CASE owner[o] = Gone
    BY <2>1, <2>2, <1>0 DEF StaySettled, Settled, SettledNext
  <2>3. CASE owner[o] = req[q].who /\ \A u \in Users : member[u] # o
    <3>1. ~Settled(o)
      BY <2>3, <1>3, <1>4 DEF Settled
    <3>2. req[r].do # "create" => req[r].org # o
      BY <3>1, <1>1 DEF TeamInv, RequestsSettled
    <3>3. Making(r) => req[r].org # o
      BY <1>4 DEF TeamInv, MadeOnce
    <3>4. \A u \in Users : member'[u] # o
      BY <2>1, <2>3, <3>2, <3>3, <1>1, <1>2 DEF MembersMoved, Making
    <3>5. owner'[o] = owner[o] \/ owner'[o] = Gone
      BY <2>1, <3>2, <1>2 DEF OwnersMoved
    <3> QED
      BY <2>3, <3>4, <3>5
  <2> QED
    BY <2>2, <2>3, <1>4 DEF TeamInv, HalfMadeEmpty
<1>5. ASSUME Making(r)'
      PROVE  \/ owner'[req'[r].org] = Gone
             \/ /\ owner'[req'[r].org] = req'[r].who
                /\ \A u \in Users : member'[u] # req'[r].org
  <2>1. WhereOnly(r) /\ req'[r].do = "create"
    BY <1>1, <1>2, <1>5 DEF Making, Moves
  <2>2. CASE req'[r].org = req[r].org /\ req[r].step # "insert_org"
    <3>1. Making(r) /\ req'[r].who = req[r].who
      BY <2>1, <2>2 DEF Making, WhereOnly
    <3>2. UNCHANGED teamTables
      BY <2>1, <2>2, DoneEffect, <1>2
      DEF OnTheWay, CreateInsertOrg, CreateInsertMember, CreateUndo, AcceptReadMember,
          AcceptReadSeats, AcceptInsert, AcceptMark, ReadOwner, RemoveWrite, RoleWrite,
          InviteWrite, RevokeWrite, TransferCheck, CloseCheck, CloseMove, Crash, TransferMove,
          At, WhereOnly
    <3> QED
      BY <3>1, <3>2, <2>2 DEF TeamInv, HalfMadeEmpty, teamTables
  <2>3. CASE req[r].step = "insert_org" /\ req'[r].step = "insert_member"
    <3>1. /\ owner[req'[r].org] = Unborn
          /\ owner' = [owner EXCEPT ![req'[r].org] = req'[r].who]
          /\ UNCHANGED <<member, role, invite>>
      BY <2>1, <2>3, <1>1, <1>2 DEF Moves, WhereOnly
    <3>2. req'[r].org \in Orgs /\ req'[r].who \in Users
      BY <2>1, <2>3, <1>2, RequestFormed DEF TeamShape, Formed, TeamRequests, WhereOnly
    <3>3. \A u \in Users : member[u] # req'[r].org
      BY <3>1, <3>2 DEF TeamInv, MembersSettled, Settled
    <3> QED
      BY <3>1, <3>2, <3>3, <1>2 DEF TeamShape, TeamTypeOK
  <2> QED
    BY <2>1, <2>2, <2>3, <1>1, <1>2, <1>5 DEF Moves, Making, WhereOnly
<1>6. HalfMadeEmpty'
  BY <1>2, <1>4, <1>5 DEF HalfMadeEmpty, Making, OthersKept
<1>7. ASSUME NEW q \in Reqs, q # r, Making(q), Making(r)'
      PROVE  req'[r].org # req[q].org
  <2>1. CASE Making(r) /\ req'[r].org = req[r].org
    BY <2>1, <1>7 DEF TeamInv, MadeOnce
  <2>2. CASE owner[req'[r].org] = Unborn
    BY <2>2, <1>3, <1>7
  <2> QED
    BY <2>1, <2>2, <1>1, <1>2, <1>7 DEF Moves, Making, WhereOnly
<1>8. MadeOnce'
  BY <1>2, <1>7 DEF MadeOnce, Making, OthersKept, TeamInv
<1> QED
  BY <1>6, <1>8

\* A settled team changes hands only in a handover, and loses an account only in a removal
\* or by being closed; handovers and removals are not of the same mix.
LEMMA ChecksHold ==
  ASSUME TeamInv, NEW r \in Reqs, OnTheWay(r)
  PROVE  RemovalSafe' /\ HandoverSafe'
<1> USE TeamAssumption
<1>1. /\ req[r] # Free /\ req[r].do \in mix /\ Formed(req[r])
  BY OnTheWayBasics
<1>2. /\ OthersKept(r) /\ TeamShape /\ TeamShape' /\ StaySettled
      /\ OwnersMoved(r) /\ MembersMoved(r)
  BY OnTheWayEffect, TablesMoved, SettledKept DEF TeamInv
<1>3. \A q \in Reqs : req[q] # Free /\ req[q].do # "create" =>
        /\ req[q].org \in Orgs /\ owner[req[q].org] # Unborn /\ Formed(req[q])
        /\ req[q].do \in mix
  BY <1>2, RequestFormed DEF Formed, TeamInv, RequestsSettled, Settled, InMix
<1>4. ASSUME NEW q \in Reqs, NEW do \in {"leave", "remove"}, At(q, do, "write")'
      PROVE  owner'[req'[q].org] # req'[q].target
  <2>1. CASE q # r
    <3>1. At(q, do, "write") /\ req'[q] = req[q]
      BY <2>1, <1>2, <1>4 DEF OthersKept, At
    <3>2. /\ owner[req[q].org] # req[q].target /\ req[q].target \in Users
          /\ owner[req[q].org] # Unborn /\ req[q].org \in Orgs
          /\ do \in mix
      BY <3>1, <1>3, <1>4 DEF TeamInv, RemovalSafe, At, Formed
    <3>3. req[r].do # "transfer"
      BY <3>2, <1>1 DEF TeamInv, InMix, NoTransfer, Handovers
    <3> QED
      BY <3>1, <3>2, <3>3, <1>2 DEF OwnersMoved
  <2>2. CASE q = r
    <3>1. /\ req[r].do = do /\ ReadOwner(r)
          /\ \E lost \in Lost : ~Refused(do, req[r].org, req[r].target, lost)
      BY <2>2, <1>2, <1>4, WritesAreChecked
    <3>2. owner[req[r].org] # req[r].target
      BY <3>1, <1>4 DEF Refused
    <3>3. req'[r].org = req[r].org /\ req'[r].target = req[r].target /\ UNCHANGED teamTables
      <4>1. Moves(r)
        BY OnTheWayEffect DEF TeamInv
      <4>2. req'[r] # Free
        BY <2>2, <1>4 DEF At
      <4> QED
        BY <4>1, <4>2, <3>1, <1>1, <1>4 DEF Moves, WhereOnly, ReadOwner
    <3> QED
      BY <3>2, <3>3, <2>2 DEF teamTables
  <2> QED
    BY <2>1, <2>2
<1>5. ASSUME NEW q \in Reqs, At(q, "transfer", "move")'
      PROVE  owner'[req'[q].org] = Gone \/ member'[req'[q].target] = req'[q].org
  <2>1. CASE q # r
    <3>1. At(q, "transfer", "move") /\ req'[q] = req[q]
      BY <2>1, <1>2, <1>5 DEF OthersKept, At
    <3>2. /\ owner[req[q].org] = Gone \/ member[req[q].target] = req[q].org
          /\ req[q].target \in Users /\ req[q].org \in Orgs /\ "transfer" \in mix
      BY <3>1, <1>3 DEF TeamInv, HandoverSafe, At, Formed
    <3>3. req[r].do \notin {"leave", "remove"}
      BY <3>2, <1>1 DEF TeamInv, InMix, NoTransfer, Handovers
    <3>4. owner[req[q].org] = Gone => owner'[req[q].org] = Gone
      BY <3>2, <1>2 DEF StaySettled
    <3> QED
      BY <3>1, <3>2, <3>3, <3>4, <1>2 DEF MembersMoved
  <2>2. CASE q = r
    <3>1. TransferCheck(r) /\ MayReceive(req[r].org, req[r].who, req[r].target)
      BY <2>2, <1>2, <1>5, WritesAreChecked
    <3>2. req'[r].org = req[r].org /\ req'[r].target = req[r].target /\ UNCHANGED teamTables
      <4>1. Moves(r)
        BY OnTheWayEffect DEF TeamInv
      <4>2. req'[r] # Free
        BY <2>2, <1>5 DEF At
      <4> QED
        BY <4>1, <4>2, <3>1, <1>1 DEF Moves, WhereOnly, TransferCheck, At
    <3> QED
      BY <3>1, <3>2, <2>2 DEF teamTables, MayReceive
  <2> QED
    BY <2>1, <2>2
<1>6. RemovalSafe'
  BY <1>4 DEF RemovalSafe, At
<1>7. HandoverSafe'
  BY <1>5 DEF HandoverSafe, At
<1> QED
  BY <1>6, <1>7

\* A request that begins refers to the team of a member or of an invite, if to any.
LEMMA StartKeeps ==
  ASSUME TeamInv, NEW r \in Reqs, StartStep(r)
  PROVE  /\ MembersSettled' /\ InvitesSettled' /\ RequestsSettled'
         /\ HalfMadeEmpty' /\ MadeOnce' /\ RemovalSafe' /\ HandoverSafe'
<1>1. /\ OthersKept(r) /\ Moves(r) /\ UNCHANGED teamTables
      /\ req[r] = Free /\ req'[r] # Free /\ Formed(req'[r])
  BY StartEffect DEF TeamInv
<1>2. UNCHANGED <<owner, member, role, invite>>
  BY <1>1 DEF teamTables
<1>3. \/ req'[r].do = "create" /\ req'[r].step = "insert_org"
      \/ /\ req'[r].do = "accept" /\ req'[r].step = "read_member"
         /\ invite[req'[r].inv] # Unsent
         /\ req'[r].org = invite[req'[r].inv].org
      \/ /\ req'[r].do \in MemberActions /\ req'[r].step = FirstStep(req'[r].do)
         /\ req'[r].org = member[req'[r].who]
  BY <1>1 DEF Moves, WhereOnly
<1>4. /\ req'[r].who \in Users
      /\ req'[r].do # "create" => req'[r].org \in Orgs
      /\ req'[r].do = "accept" => req'[r].inv \in Invites
  BY <1>1 DEF Formed, TeamRequests
<1>5. ~Making(r)'
  BY <1>3 DEF Making, MemberActions, ManagerActions, OwnerActions
<1>6. /\ ~At(r, "leave", "write")' /\ ~At(r, "remove", "write")'
      /\ ~At(r, "transfer", "move")'
  BY <1>3 DEF At, FirstStep, OwnerActions
<1>7. req'[r].do # "create" => SettledNext(req'[r].org)
  BY <1>2, <1>3, <1>4, TeamAssumption
  DEF TeamInv, InvitesSettled, MembersSettled, Settled, SettledNext
<1>8. MembersSettled' /\ InvitesSettled'
  BY <1>2 DEF TeamInv, MembersSettled, InvitesSettled, Settled
<1>9. RequestsSettled'
  BY <1>1, <1>2, <1>7
  DEF TeamInv, RequestsSettled, Settled, SettledNext, OthersKept
<1>10. HalfMadeEmpty' /\ MadeOnce'
  BY <1>1, <1>2, <1>5 DEF TeamInv, HalfMadeEmpty, MadeOnce, Making, OthersKept
<1>11. RemovalSafe' /\ HandoverSafe'
  BY <1>1, <1>2, <1>6 DEF TeamInv, RemovalSafe, HandoverSafe, At, OthersKept
<1> QED
  BY <1>8, <1>9, <1>10, <1>11

LEMMA TeamInvInit == MixInit => TeamInv
<1> SUFFICES ASSUME MixInit PROVE TeamInv
  OBVIOUS
<1>1. TeamShape
  BY ShapeInit DEF MixInit
<1> QED
  BY <1>1
  DEF MixInit, TeamInit, TeamInv, InMix, MembersSettled, InvitesSettled, RequestsSettled,
      HalfMadeEmpty, MadeOnce, Making, RemovalSafe, HandoverSafe, At

LEMMA TeamInvStep ==
  ASSUME TeamInv, [MixNext]_<<teamVars, mix>>
  PROVE  TeamInv'
<1>1. CASE UNCHANGED <<teamVars, mix>>
  BY <1>1
  DEF teamVars, TeamInv, TeamShape, TeamTypeOK, Formed, InMix, MembersSettled, Settled,
      InvitesSettled, RequestsSettled, HalfMadeEmpty, MadeOnce, Making, RemovalSafe,
      HandoverSafe, At
<1>2. CASE MixNext
  <2>1. TeamShape'
    BY <1>2, ShapeStep DEF MixNext, TeamInv
  <2>2. InMix'
    BY <1>2 DEF MixNext, TeamInv, InMix
  <2>3. ASSUME NEW r \in Reqs, RequestStep(r) \/ TransferMove(r)
        PROVE  /\ MembersSettled' /\ InvitesSettled' /\ RequestsSettled'
               /\ HalfMadeEmpty' /\ MadeOnce' /\ RemovalSafe' /\ HandoverSafe'
    <3>1. CASE StartStep(r)
      BY <3>1, StartKeeps
    <3>2. CASE OnTheWay(r)
      BY <3>2, MembersStaySettled, RowsStaySettled, MadeOnceKept, ChecksHold
    <3> QED
      BY <2>3, <3>1, <3>2 DEF RequestStep, OnTheWay
  <2>4. ASSUME NEW i \in Invites, Expire(i)
        PROVE  /\ MembersSettled' /\ InvitesSettled' /\ RequestsSettled'
               /\ HalfMadeEmpty' /\ MadeOnce' /\ RemovalSafe' /\ HandoverSafe'
    <3>1. UNCHANGED <<owner, member, role, req>>
      BY <2>4 DEF Expire
    <3>2. \A j \in Invites : invite'[j] # Unsent =>
            invite[j] # Unsent /\ invite'[j].org = invite[j].org
      BY <2>4 DEF Expire, TeamInv, TeamShape, TeamTypeOK, InviteRows
    <3>3. InvitesSettled'
      BY <3>1, <3>2 DEF TeamInv, InvitesSettled, Settled
    <3> QED
      BY <3>1, <3>3
      DEF TeamInv, MembersSettled, Settled, RequestsSettled, HalfMadeEmpty, MadeOnce, Making,
          RemovalSafe, HandoverSafe, At
  <2> QED
    BY <1>2, <2>1, <2>2, <2>3, <2>4 DEF MixNext, TeamNext, TeamInv
<1> QED
  BY <1>1, <1>2

\* Removals read the owner first, handovers and closings are checked first, and a team is
\* made empty: from these alone, whichever requests interleave or are cut off and whatever
\* reads are lost, nobody belongs to a team that is not there, and a team with anybody in
\* it has the account that pays for it inside (org.ts:139-140, 238).
THEOREM OwnersStayInside == MixSpec => [](MembersOfTeams /\ OwnerInside)
<1>1. TeamInv => MembersOfTeams /\ OwnerInside
  <2> SUFFICES ASSUME TeamInv PROVE MembersOfTeams /\ OwnerInside
    OBVIOUS
  <2>1. member \in [Users -> Orgs \cup {NoOrg}]
    BY DEF TeamInv, TeamShape, TeamTypeOK
  <2> QED
    BY <2>1, TeamAssumption
    DEF TeamInv, MembersSettled, Settled, MembersOfTeams, OwnerInside, Exists, MembersOf
<1>2. TeamInv /\ [MixNext]_<<teamVars, mix>> => TeamInv'
  BY TeamInvStep
<1> QED
  BY TeamInvInit, <1>1, <1>2, PTL DEF MixSpec

-----------------------------------------------------------------------------
(* The role of the owner.  setRole goes on when the team it asks about could not be    *)
(* read, and so the role is safe only where that read does not fail.                   *)

OwnersReadable == \A lost \in Lost : "org" \notin lost

RoleInv == RoleSafe /\ OwnerRoleKept

LEMMA RoleSafeKept ==
  ASSUME TeamInv, RoleSafe, OwnersReadable, NEW r \in Reqs, OnTheWay(r)
  PROVE  RoleSafe'
<1> SUFFICES ASSUME NEW q \in Reqs, At(q, "role", "write")'
             PROVE  owner'[req'[q].org] # req'[q].target
  BY DEF RoleSafe, At
<1> USE TeamAssumption
<1>1. /\ req[r] # Free /\ req[r].do \in mix /\ Formed(req[r])
  BY OnTheWayBasics
<1>2. OthersKept(r) /\ TeamShape /\ TeamShape' /\ OwnersMoved(r) /\ Moves(r)
  BY OnTheWayEffect, TablesMoved DEF TeamInv
<1>3. CASE q # r
  <2>1. At(q, "role", "write") /\ req'[q] = req[q]
    BY <1>2, <1>3 DEF OthersKept, At
  <2>2. /\ owner[req[q].org] # req[q].target /\ req[q].target \in Users
        /\ owner[req[q].org] # Unborn /\ req[q].org \in Orgs
        /\ "role" \in mix
    BY <2>1, <1>2, RequestFormed
    DEF RoleSafe, At, Formed, TeamInv, RequestsSettled, Settled, InMix
  <2>3. req[r].do # "transfer"
    BY <2>2, <1>1 DEF TeamInv, InMix, NoTransfer, Handovers
  <2> QED
    BY <2>1, <2>2, <2>3, <1>2 DEF OwnersMoved
<1>4. CASE q = r
  <2>1. /\ req[r].do = "role" /\ ReadOwner(r)
        /\ \E lost \in Lost : ~Refused("role", req[r].org, req[r].target, lost)
    BY <1>2, <1>4, WritesAreChecked
  <2>2. req[r].target \in Users /\ req[r].org \in Orgs /\ Settled(req[r].org)
    BY <2>1, <1>1 DEF Formed, TeamInv, RequestsSettled
  <2>3. owner[req[r].org] # req[r].target
    BY <2>1, <2>2 DEF Refused, OwnersReadable, Exists, Settled
  <2>4. req'[r].org = req[r].org /\ req'[r].target = req[r].target /\ UNCHANGED owner
    BY <1>1, <1>2, <1>4, <2>1 DEF Moves, WhereOnly, ReadOwner, teamTables, At
  <2> QED
    BY <2>3, <2>4, <1>4
<1> QED
  BY <1>3, <1>4

LEMMA OwnerRoleStep ==
  ASSUME TeamInv, TeamInv', RoleInv, NEW r \in Reqs, OnTheWay(r)
  PROVE  OwnerRoleKept'
<1> SUFFICES ASSUME NEW o \in Orgs, NEW u \in Users, owner'[o] = u, member'[u] = o
             PROVE  role'[u] = "owner"
  BY DEF OwnerRoleKept, Exists
<1> USE TeamAssumption DEF At
<1>1. /\ req[r] # Free /\ req[r].do \in mix /\ Formed(req[r]) /\ req[r].who \in Users
  BY OnTheWayBasics
<1>2. /\ owner \in [Orgs -> Users \cup {Unborn, Gone}]
      /\ member \in [Users -> Orgs \cup {NoOrg}] /\ role \in [Users -> Roles]
  BY DEF TeamInv, TeamShape, TeamTypeOK
<1>3. owner[o] = u /\ member[u] = o => role[u] = "owner"
  BY DEF RoleInv, OwnerRoleKept, Exists
<1>4. \A v \in Users : member[v] \in Orgs => owner[member[v]] \in Users
  BY <1>2 DEF TeamInv, MembersSettled, Settled
<1>5. UNCHANGED <<owner, member, role>> => role'[u] = "owner"
  BY <1>3
<1>6. ASSUME NEW oo \in Orgs, DeleteOrg(oo)
      PROVE  role'[u] = "owner"
  BY <1>2, <1>3, <1>6 DEF DeleteOrg
<1>7. CASE \E oo \in Orgs : CreateInsertOrg(r, oo)
  BY <1>7, <1>2, <1>3, <1>4, <1>5 DEF CreateInsertOrg, teamTables
<1>8. CASE CreateInsertMember(r)
  BY <1>8, <1>1, <1>2, <1>3, <1>5 DEF CreateInsertMember, teamTables, SetMember, Formed
<1>9. CASE CreateUndo(r) \/ CloseMove(r)
  BY <1>9, <1>1, <1>6 DEF CreateUndo, CloseMove, Formed
<1>10. CASE AcceptInsert(r)
  <2>1. req[r].org \in Orgs /\ Settled(req[r].org) /\ req[r].org # NoOrg
    BY <1>10, <1>1 DEF AcceptInsert, Formed, TeamInv, RequestsSettled
  <2> QED
    BY <1>10, <2>1, <1>1, <1>2, <1>3, <1>5
    DEF AcceptInsert, teamTables, SetMember, CanJoin, Exists, Settled
<1>11. CASE RemoveWrite(r)
  BY <1>11, <1>1, <1>2, <1>3 DEF RemoveWrite, SetMember, Formed
<1>12. CASE RoleWrite(r)
  <2>1. req[r].org \in Orgs /\ owner[req[r].org] # req[r].target
        /\ req[r].target \in Users
    BY <1>12, <1>1 DEF RoleWrite, RoleInv, RoleSafe, Formed
  <2> QED
    BY <1>12, <2>1, <1>2, <1>3 DEF RoleWrite
<1>13. CASE TransferMove(r)
  <2>1. req[r].org \in Orgs /\ req[r].target \in Users
    BY <1>13, <1>1 DEF TransferMove, Formed
  <2> QED
    BY <1>13, <2>1, <1>2, <1>3, <1>4 DEF TransferMove, Exists
<1>14. CASE \/ AcceptReadMember(r) \/ AcceptReadSeats(r) \/ AcceptMark(r) \/ ReadOwner(r)
            \/ (\E i \in Invites : InviteWrite(r, i)) \/ RevokeWrite(r)
            \/ TransferCheck(r) \/ CloseCheck(r) \/ Crash(r)
  BY <1>14, <1>5 DEF AcceptReadMember, AcceptReadSeats, AcceptMark, ReadOwner,
       InviteWrite, RevokeWrite, TransferCheck, CloseCheck, Crash, teamTables
<1> QED
  BY <1>7, <1>8, <1>9, <1>10, <1>11, <1>12, <1>13, <1>14 DEF OnTheWay

LEMMA OneOwnerStep ==
  ASSUME TeamInv, OneOwner, mix = NoTransfer, NEW r \in Reqs, OnTheWay(r)
  PROVE  OneOwner'
<1> SUFFICES ASSUME NEW u \in Users, member'[u] # NoOrg, role'[u] = "owner"
             PROVE  owner'[member'[u]] = u
  BY DEF OneOwner
<1> USE TeamAssumption DEF At
<1>1. /\ req[r] # Free /\ req[r].do \in mix /\ Formed(req[r]) /\ req[r].who \in Users
  BY OnTheWayBasics
<1>2. /\ owner \in [Orgs -> Users \cup {Unborn, Gone}]
      /\ member \in [Users -> Orgs \cup {NoOrg}] /\ role \in [Users -> Roles]
  BY DEF TeamInv, TeamShape, TeamTypeOK
<1>3. member[u] # NoOrg /\ role[u] = "owner" => owner[member[u]] = u
  BY DEF OneOwner
<1>4. UNCHANGED <<owner, member, role>> => owner'[member'[u]] = u
  BY <1>3
<1>5. ASSUME NEW oo \in Orgs, DeleteOrg(oo)
      PROVE  owner'[member'[u]] = u
  BY <1>2, <1>3, <1>5 DEF DeleteOrg
<1>6. CASE \E oo \in Orgs : CreateInsertOrg(r, oo)
  BY <1>6, <1>2, <1>3, <1>4 DEF CreateInsertOrg, teamTables
<1>7. CASE CreateInsertMember(r)
  <2>1. /\ req[r].org \in Orgs
        /\ owner[req[r].org] = Gone \/ owner[req[r].org] = req[r].who
    BY <1>7, <1>1 DEF CreateInsertMember, Formed, TeamInv, HalfMadeEmpty, Making
  <2> QED
    BY <1>7, <2>1, <1>1, <1>2, <1>3, <1>4
    DEF CreateInsertMember, teamTables, SetMember, CanJoin, Exists
<1>8. CASE CreateUndo(r) \/ CloseMove(r)
  BY <1>8, <1>1, <1>5 DEF CreateUndo, CloseMove, Formed
<1>9. CASE AcceptInsert(r)
  <2>1. req[r].org \in Orgs /\ req[r].role # "owner"
    BY <1>9, <1>1 DEF AcceptInsert, Formed, GivenRoles
  <2> QED
    BY <1>9, <2>1, <1>1, <1>2, <1>3, <1>4 DEF AcceptInsert, teamTables, SetMember
<1>10. CASE RemoveWrite(r)
  BY <1>10, <1>1, <1>2, <1>3 DEF RemoveWrite, SetMember, Formed
<1>11. CASE RoleWrite(r)
  <2>1. req[r].role # "owner" /\ req[r].target \in Users
    BY <1>11, <1>1 DEF RoleWrite, Formed, GivenRoles
  <2> QED
    BY <1>11, <2>1, <1>2, <1>3 DEF RoleWrite
<1>12. ~TransferMove(r)
  BY <1>1 DEF TransferMove, NoTransfer
<1>13. CASE \/ AcceptReadMember(r) \/ AcceptReadSeats(r) \/ AcceptMark(r) \/ ReadOwner(r)
            \/ (\E i \in Invites : InviteWrite(r, i)) \/ RevokeWrite(r)
            \/ TransferCheck(r) \/ CloseCheck(r) \/ Crash(r)
  BY <1>13, <1>4 DEF AcceptReadMember, AcceptReadSeats, AcceptMark, ReadOwner,
       InviteWrite, RevokeWrite, TransferCheck, CloseCheck, Crash, teamTables
<1> QED
  BY <1>6, <1>7, <1>8, <1>9, <1>10, <1>11, <1>12, <1>13 DEF OnTheWay

\* Every other step leaves who is in which team and in which role; a request that begins
\* does not begin at a write.
Quiet ==
  /\ UNCHANGED <<owner, member, role>>
  /\ \A q \in Reqs :
       \/ req'[q] = req[q]
       \/ ~At(q, "role", "write")' /\ ~At(q, "accept", "insert")'

LEMMA StepKinds ==
  ASSUME TeamInv, [MixNext]_<<teamVars, mix>>
  PROVE  /\ Quiet \/ \E r \in Reqs : OnTheWay(r)
         /\ UNCHANGED mix
<1>1. CASE UNCHANGED <<teamVars, mix>>
  BY <1>1 DEF teamVars, Quiet
<1>2. ASSUME NEW r \in Reqs, StartStep(r)
      PROVE  Quiet
  <2>1. /\ OthersKept(r) /\ Moves(r) /\ UNCHANGED teamTables
        /\ req[r] = Free /\ req'[r] # Free
    BY <1>2, StartEffect DEF TeamInv
  <2>2. ~At(r, "role", "write")' /\ ~At(r, "accept", "insert")'
    BY <2>1 DEF Moves, WhereOnly, At, FirstStep, MemberActions, ManagerActions, OwnerActions
  <2> QED
    BY <2>1, <2>2 DEF Quiet, OthersKept, teamTables
<1>3. ASSUME NEW i \in Invites, Expire(i)
      PROVE  Quiet
  BY <1>3 DEF Expire, Quiet
<1> QED
  BY <1>1, <1>2, <1>3 DEF MixNext, TeamNext, RequestStep, OnTheWay

\* "The owner's own role is not a thing anyone may edit" (org.ts:265), and with it what
\* the run checks: whoever belongs to a team belongs to one that is there, with the
\* account that pays for it inside and in the role of owner, whatever interleaves or is
\* cut off, as long as setRole can read who the owner is.
THEOREM TeamsAreWhole == OwnersReadable /\ MixSpec => []TeamsWhole
<1> DEFINE Whole == OwnersReadable /\ TeamInv /\ RoleInv
<1>1. OwnersReadable /\ MixInit => Whole
  BY TeamInvInit, TeamAssumption
  DEF MixInit, TeamInit, RoleInv, RoleSafe, OwnerRoleKept, Exists, At
<1>2. Whole /\ [MixNext]_<<teamVars, mix>> => Whole'
  <2> SUFFICES ASSUME OwnersReadable, TeamInv, RoleInv, [MixNext]_<<teamVars, mix>>
               PROVE  Whole'
    OBVIOUS
  <2>1. TeamInv'
    BY TeamInvStep
  <2>2. CASE Quiet
    BY <2>1, <2>2
    DEF Quiet, RoleInv, RoleSafe, OwnerRoleKept, Exists, At, OwnersReadable
  <2>3. ASSUME NEW r \in Reqs, OnTheWay(r)
        PROVE  RoleInv'
    BY <2>1, <2>3, RoleSafeKept, OwnerRoleStep DEF RoleInv
  <2> QED
    BY <2>1, <2>2, <2>3, StepKinds DEF OwnersReadable
<1>3. MixSpec => [](MembersOfTeams /\ OwnerInside)
  BY OwnersStayInside
<1>4. Whole /\ MembersOfTeams /\ OwnerInside => TeamsWhole
  BY DEF RoleInv, TeamsWhole
<1> QED
  BY <1>1, <1>2, <1>3, <1>4, PTL DEF MixSpec

\* Without handovers nobody but the billing owner ever holds the role of owner: invites
\* and role changes give the other two away, whatever reads are lost (org.ts:417).
THEOREM OneOwnerEver == MixSpec => []OneOwnerKept
<1>1. MixInit => TeamInv /\ OneOwnerKept
  BY TeamInvInit DEF MixInit, TeamInit, OneOwnerKept, OneOwner
<1>2. TeamInv /\ OneOwnerKept /\ [MixNext]_<<teamVars, mix>> => TeamInv' /\ OneOwnerKept'
  <2> SUFFICES ASSUME TeamInv, OneOwnerKept, [MixNext]_<<teamVars, mix>>
               PROVE  TeamInv' /\ OneOwnerKept'
    OBVIOUS
  <2>1. TeamInv' /\ UNCHANGED mix
    BY TeamInvStep, StepKinds
  <2>2. CASE Quiet
    BY <2>1, <2>2 DEF Quiet, OneOwnerKept, OneOwner
  <2>3. ASSUME NEW r \in Reqs, OnTheWay(r)
        PROVE  OneOwnerKept'
    BY <2>1, <2>3, OneOwnerStep DEF OneOwnerKept
  <2> QED
    BY <2>1, <2>2, <2>3, StepKinds
<1> QED
  BY <1>1, <1>2, PTL DEF MixSpec

-----------------------------------------------------------------------------
(* The seats.  A request that has found room and not joined yet counts as well: that   *)
(* makes the bound inductive.                                                          *)

\* Only the subscription may be unreadable: a team or a count that cannot be read lets
\* anybody in.
CountsReadable == \A lost \in Lost : lost \subseteq {"sub"}

Waiting(o) == {r \in Reqs : At(r, "accept", "insert") /\ req[r].org = o}
SeatsInv ==
  \A o \in Orgs :
    Exists(o) => Cardinality(MembersOf(o)) + Cardinality(Waiting(o))
                   <= Seats[owner[o]] + Cardinality(Reqs) - 1

LEMMA Counted ==
  ASSUME IsFiniteSet(Users), IsFiniteSet(Reqs), NEW o
  PROVE  /\ Cardinality(MembersOf(o)) \in Nat /\ IsFiniteSet(MembersOf(o))
         /\ Cardinality(Waiting(o)) \in Nat /\ IsFiniteSet(Waiting(o))
         /\ Cardinality(Waiting(o)) <= Cardinality(Reqs)
<1>1. MembersOf(o) \in SUBSET Users /\ Waiting(o) \in SUBSET Reqs
  BY DEF MembersOf, Waiting
<1> QED
  BY <1>1, FS_Subset, FS_CardinalityType

LEMMA OneMoreAtMost ==
  ASSUME NEW M, IsFiniteSet(M), NEW x, NEW MM \in SUBSET (M \cup {x})
  PROVE  /\ Cardinality(MM) \in Nat
         /\ Cardinality(MM) <= Cardinality(M) + 1
         /\ MM \subseteq M => Cardinality(MM) <= Cardinality(M)
<1>1. /\ IsFiniteSet(M \cup {x})
      /\ Cardinality(M \cup {x}) = IF x \in M THEN Cardinality(M) ELSE Cardinality(M) + 1
  BY FS_AddElement
<1>2. IsFiniteSet(MM) /\ Cardinality(MM) <= Cardinality(M \cup {x})
  BY <1>1, FS_Subset
<1>3. Cardinality(M) \in Nat /\ Cardinality(MM) \in Nat
  BY <1>2, FS_CardinalityType
<1>4. MM \subseteq M => Cardinality(MM) <= Cardinality(M)
  BY FS_Subset
<1> QED
  BY <1>1, <1>2, <1>3, <1>4

LEMMA OneLessAtLeast ==
  ASSUME NEW W, IsFiniteSet(W), NEW y, NEW WW \in SUBSET (W \ {y})
  PROVE  /\ Cardinality(WW) \in Nat
         /\ Cardinality(WW) <= Cardinality(W)
         /\ y \in W => Cardinality(WW) <= Cardinality(W) - 1
<1>1. /\ IsFiniteSet(W \ {y})
      /\ Cardinality(W \ {y}) = IF y \in W THEN Cardinality(W) - 1 ELSE Cardinality(W)
  BY FS_RemoveElement
<1>2. IsFiniteSet(WW) /\ Cardinality(WW) <= Cardinality(W \ {y})
  BY <1>1, FS_Subset
<1>3. Cardinality(W) \in Nat /\ Cardinality(WW) \in Nat
  BY <1>2, FS_CardinalityType
<1> QED
  BY <1>1, <1>2, <1>3

\* A team is joined by the request that is making it, or by one that found room in it.
LEMMA JoinsKnown ==
  ASSUME TeamInv, NEW r \in Reqs, OnTheWay(r), NEW o \in Orgs,
         ~(Making(r) /\ req[r].org = o), ~(AcceptInsert(r) /\ req[r].org = o)
  PROVE  \A u \in Users : member'[u] = o => member[u] = o
<1> USE TeamAssumption DEF At
<1>1. /\ req[r] # Free /\ Formed(req[r]) /\ req[r].who \in Users
      /\ member \in [Users -> Orgs \cup {NoOrg}]
  BY OnTheWayBasics DEF TeamInv, TeamShape, TeamTypeOK
<1>2. CASE CreateInsertMember(r) \/ AcceptInsert(r)
  BY <1>1, <1>2 DEF CreateInsertMember, AcceptInsert, SetMember, Making, teamTables
<1>3. CASE CreateUndo(r) \/ CloseMove(r)
  BY <1>1, <1>3 DEF CreateUndo, CloseMove, DeleteOrg
<1>4. CASE RemoveWrite(r)
  BY <1>1, <1>4 DEF RemoveWrite, SetMember, Formed
<1>5. CASE \/ (\E oo \in Orgs : CreateInsertOrg(r, oo)) \/ AcceptReadMember(r)
           \/ AcceptReadSeats(r) \/ AcceptMark(r) \/ ReadOwner(r) \/ RoleWrite(r)
           \/ (\E i \in Invites : InviteWrite(r, i)) \/ RevokeWrite(r) \/ TransferCheck(r)
           \/ CloseCheck(r) \/ Crash(r) \/ TransferMove(r)
  BY <1>5 DEF CreateInsertOrg, AcceptReadMember, AcceptReadSeats, AcceptMark, ReadOwner,
       RoleWrite, InviteWrite, RevokeWrite, TransferCheck, CloseCheck, Crash, TransferMove,
       teamTables
<1> QED
  BY <1>2, <1>3, <1>4, <1>5 DEF OnTheWay

LEMMA SeatsStep ==
  ASSUME TeamInv, TeamInv', SeatsInv, CountsReadable, IsFiniteSet(Users), IsFiniteSet(Reqs),
         mix = NoTransfer, NEW r \in Reqs, OnTheWay(r)
  PROVE  SeatsInv'
<1> SUFFICES ASSUME NEW o \in Orgs, Exists(o)'
             PROVE  Cardinality(MembersOf(o)') + Cardinality(Waiting(o)')
                      <= Seats[owner'[o]] + Cardinality(Reqs) - 1
  BY DEF SeatsInv
<1> USE TeamAssumption
<1>1. /\ req[r] # Free /\ req[r].do \in mix /\ Formed(req[r]) /\ req[r].who \in Users
  BY OnTheWayBasics
<1>2. /\ OthersKept(r) /\ Moves(r) /\ OwnersMoved(r) /\ MembersMoved(r)
      /\ owner \in [Orgs -> Users \cup {Unborn, Gone}]
      /\ member \in [Users -> Orgs \cup {NoOrg}]
  BY OnTheWayEffect, TablesMoved DEF TeamInv, TeamShape, TeamTypeOK
<1>3. Cardinality(Reqs) \in Nat \ {0}
  BY FS_CardinalityType, FS_EmptySet
<1>4. /\ owner'[o] \in Users /\ Seats[owner'[o]] \in Nat \ {0}
  BY DEF Exists
<1>5. ASSUME Exists(o), owner'[o] = owner[o]
      PROVE  /\ Cardinality(MembersOf(o)) + Cardinality(Waiting(o))
                  <= Seats[owner'[o]] + Cardinality(Reqs) - 1
             /\ IsFiniteSet(MembersOf(o)) /\ IsFiniteSet(Waiting(o))
             /\ Seats[owner'[o]] + Cardinality(Reqs) - 1 \in Int
  BY <1>3, <1>4, <1>5, Counted DEF SeatsInv
\* The request has just found room.
<1>6. CASE At(r, "accept", "insert")' /\ req'[r].org = o
  <2>1. AcceptReadSeats(r) /\ \E lost \in Lost : HasRoom(req[r].org, lost)
    BY <1>6, WritesAreChecked DEF TeamInv
  <2>2. req[r].org = o /\ UNCHANGED <<owner, member>>
    BY <1>1, <1>2, <1>6, <2>1 DEF Moves, WhereOnly, AcceptReadSeats, At, teamTables
  <2>3. Exists(o) /\ owner'[o] = owner[o] /\ MembersOf(o)' = MembersOf(o)
    BY <2>2 DEF Exists, MembersOf
  <2>4. PICK lost \in Lost : HasRoom(o, lost)
    BY <2>1, <2>2
  <2>5. Cardinality(MembersOf(o)) < Seats[owner[o]] \/ Cardinality(MembersOf(o)) < 1
    BY <2>3, <2>4 DEF HasRoom, CountsReadable
  <2>6. Cardinality(MembersOf(o)) \in Nat
    BY Counted
  <2>7. Waiting(o)' \in SUBSET Reqs
    BY DEF Waiting
  <2>8. Cardinality(Waiting(o)') <= Cardinality(Reqs) /\ Cardinality(Waiting(o)') \in Nat
    BY <2>7, FS_Subset, FS_CardinalityType
  <2> QED
    BY <2>3, <2>5, <2>6, <2>8, <1>3, <1>4
<1>7. CASE ~(At(r, "accept", "insert")' /\ req'[r].org = o)
  <2>1. Waiting(o)' \subseteq Waiting(o) \ {r}
    BY <1>2, <1>7 DEF Waiting, At, OthersKept
  \* The team is made.
  <2>2. CASE owner[o] = Unborn
    <3>1. \A u \in Users : member'[u] # o
      BY <2>2, <1>2, <1>4 DEF MembersMoved, Exists, TeamInv, MembersSettled, Settled
    <3>2. Waiting(o) = {}
      BY <2>2 DEF Waiting, At, TeamInv, RequestsSettled, Settled
    <3>3. MembersOf(o)' = {} /\ Waiting(o)' = {}
      BY <2>1, <3>1, <3>2 DEF MembersOf
    <3> QED
      BY <3>3, <1>3, <1>4, FS_EmptySet
  <2>3. CASE owner[o] # Unborn
    <3>1. owner'[o] = owner[o] /\ Exists(o)
      BY <2>3, <1>1, <1>2, <1>4 DEF OwnersMoved, NoTransfer, Exists
    \* Its owner joins it.
    <3>2. CASE Making(r) /\ req[r].org = o
      <4>1. \A u \in Users : member[u] # o
        BY <3>1, <3>2 DEF TeamInv, HalfMadeEmpty, Exists
      <4>2. ~Settled(o)
        BY <3>1, <4>1 DEF Settled, Exists
      <4>3. Waiting(o) = {}
        BY <4>2 DEF Waiting, At, TeamInv, RequestsSettled
      <4>4. MembersOf(o)' \in SUBSET {req[r].who} /\ Waiting(o)' = {}
        BY <2>1, <4>1, <4>3, <1>2, <3>1 DEF MembersOf, MembersMoved
      <4>5. Cardinality(MembersOf(o)') <= 1 /\ Cardinality(MembersOf(o)') \in Nat
        <5>1. IsFiniteSet({req[r].who}) /\ Cardinality({req[r].who}) = 1
          BY FS_Singleton
        <5>2. /\ IsFiniteSet(MembersOf(o)')
              /\ Cardinality(MembersOf(o)') <= Cardinality({req[r].who})
          BY <4>4, <5>1, FS_Subset
        <5> QED
          BY <5>1, <5>2, FS_CardinalityType
      <4> QED
        BY <4>4, <4>5, <1>3, <1>4, FS_EmptySet
    \* Somebody who found room joins it, or nobody does.
    <3>3. CASE ~(Making(r) /\ req[r].org = o)
      <4>1. MembersOf(o)' \subseteq MembersOf(o) \cup {req[r].who}
        BY <1>2 DEF MembersOf, MembersMoved
      <4>2. MembersOf(o)' \subseteq MembersOf(o) \/ r \in Waiting(o)
        <5>1. CASE AcceptInsert(r) /\ req[r].org = o
          BY <5>1 DEF AcceptInsert, Waiting, At
        <5>2. CASE ~(AcceptInsert(r) /\ req[r].org = o)
          <6>1. \A u \in Users : member'[u] = o => member[u] = o
            BY <5>2, <3>3, JoinsKnown
          <6> QED
            BY <6>1 DEF MembersOf
        <5> QED
          BY <5>1, <5>2
      <4> DEFINE b == Seats[owner'[o]] + Cardinality(Reqs) - 1
      <4>3. /\ IsFiniteSet(MembersOf(o)) /\ IsFiniteSet(Waiting(o)) /\ b \in Int
            /\ Cardinality(MembersOf(o)) + Cardinality(Waiting(o)) <= b
        BY <3>1, <1>5
      <4> HIDE DEF b
      <4>4. PICK M, W, MM, WW, x, c : /\ M = MembersOf(o) /\ MM = MembersOf(o)'
                                      /\ W = Waiting(o) /\ WW = Waiting(o)'
                                      /\ x = req[r].who /\ c = b
        OBVIOUS
      <4>5. /\ IsFiniteSet(M) /\ IsFiniteSet(W)
            /\ MM \subseteq M \cup {x} /\ WW \subseteq W \ {r} /\ c \in Int
            /\ MM \subseteq M \/ r \in W
            /\ Cardinality(M) + Cardinality(W) <= c
        BY <2>1, <4>1, <4>2, <4>3, <4>4
      <4>6. Cardinality(MM) + Cardinality(WW) <= c
        <5>1. /\ Cardinality(MM) \in Nat /\ Cardinality(MM) <= Cardinality(M) + 1
              /\ MM \subseteq M => Cardinality(MM) <= Cardinality(M)
          BY <4>5, OneMoreAtMost
        <5>2. /\ Cardinality(WW) \in Nat /\ Cardinality(WW) <= Cardinality(W)
              /\ r \in W => Cardinality(WW) <= Cardinality(W) - 1
          BY <4>5, OneLessAtLeast
        <5>3. Cardinality(M) \in Nat /\ Cardinality(W) \in Nat
          BY <4>5, FS_CardinalityType
        <5> QED
          BY <4>5, <5>1, <5>2, <5>3
      <4> QED
        BY <4>4, <4>6 DEF b
    <3> QED
      BY <3>2, <3>3
  <2> QED
    BY <2>2, <2>3
<1> QED
  BY <1>6, <1>7

\* "Accepting consumes a seat" (org.ts:209-211): however many people and requests there
\* are, joins that race overshoot the seats the owner pays for by no more than the other
\* requests in flight, as long as the team and its members can be read.
THEOREM SeatsAreBounded ==
  ASSUME CountsReadable, IsFiniteSet(Users), IsFiniteSet(Reqs)
  PROVE  MixSpec => []SeatsKept
<1> DEFINE Bounded == TeamInv /\ (mix = NoTransfer => SeatsInv)
<1>1. MixInit => Bounded
  BY TeamInvInit, TeamAssumption DEF MixInit, TeamInit, SeatsInv, Exists
<1>2. Bounded /\ [MixNext]_<<teamVars, mix>> => Bounded'
  <2> SUFFICES ASSUME TeamInv, mix = NoTransfer => SeatsInv, [MixNext]_<<teamVars, mix>>
               PROVE  TeamInv' /\ (mix' = NoTransfer => SeatsInv')
    BY DEF SeatsInv
  <2>1. TeamInv' /\ UNCHANGED mix
    BY TeamInvStep, StepKinds
  <2>2. ASSUME NEW r \in Reqs, OnTheWay(r), mix = NoTransfer
        PROVE  SeatsInv'
    BY <2>1, <2>2, SeatsStep
  <2>3. ASSUME Quiet, mix = NoTransfer
        PROVE  SeatsInv'
    <3> SUFFICES ASSUME NEW o \in Orgs, Exists(o)'
                 PROVE  Cardinality(MembersOf(o)') + Cardinality(Waiting(o)')
                          <= Seats[owner'[o]] + Cardinality(Reqs) - 1
      BY DEF SeatsInv
    <3>1. Exists(o) /\ owner'[o] = owner[o] /\ MembersOf(o)' = MembersOf(o)
      BY <2>3 DEF Quiet, Exists, MembersOf
    <3>2. Waiting(o)' \in SUBSET (Waiting(o) \ {})
      BY <2>3 DEF Quiet, Waiting, At
    <3>3. /\ Cardinality(Waiting(o)') <= Cardinality(Waiting(o))
          /\ Cardinality(Waiting(o)') \in Nat
      BY <3>2, Counted, FS_Subset, FS_CardinalityType
    <3>4. /\ Cardinality(MembersOf(o)) \in Nat /\ Cardinality(Waiting(o)) \in Nat
          /\ Cardinality(MembersOf(o)) + Cardinality(Waiting(o))
               <= Seats[owner[o]] + Cardinality(Reqs) - 1
      BY <2>3, <3>1, Counted DEF SeatsInv
    <3>5. Seats[owner[o]] \in Nat /\ Cardinality(Reqs) \in Nat
      BY <3>1, TeamAssumption, FS_CardinalityType DEF Exists
    <3> QED
      BY <3>1, <3>3, <3>4, <3>5
  <2> QED
    BY <2>1, <2>2, <2>3, StepKinds
<1>3. Bounded => SeatsKept
  <2> SUFFICES ASSUME SeatsInv, NEW o \in Orgs, Exists(o)
               PROVE  Cardinality(MembersOf(o)) <= Seats[owner[o]] + Cardinality(Reqs) - 1
    BY DEF SeatsKept, SeatsBounded
  <2>1. /\ Cardinality(MembersOf(o)) \in Nat /\ Cardinality(Waiting(o)) \in Nat
        /\ Seats[owner[o]] \in Nat /\ Cardinality(Reqs) \in Nat
    BY Counted, TeamAssumption, FS_CardinalityType DEF Exists
  <2> QED
    BY <2>1 DEF SeatsInv
<1> QED
  BY <1>1, <1>2, <1>3, PTL DEF MixSpec
-----------------------------------------------------------------------------
(* Whatever is mixed, a member's team is there: what removes a team empties it, and    *)
(* what fills one finds it there.                                                      *)

LEMMA MembersExistStep ==
  ASSUME TeamShape, MembersOfTeams, [TeamNext]_teamVars
  PROVE  MembersOfTeams'
<1>1. ASSUME UNCHANGED <<owner, member>>
      PROVE  MembersOfTeams'
  BY <1>1 DEF MembersOfTeams, Exists
<1>2. ASSUME NEW r \in Reqs, OnTheWay(r)
      PROVE  MembersOfTeams'
  <2> SUFFICES ASSUME NEW u \in Users, member'[u] # NoOrg
               PROVE  member'[u] \in Orgs /\ owner'[member'[u]] \in Users
    BY DEF MembersOfTeams, Exists
  <2>1. OwnersMoved(r) /\ MembersMoved(r) /\ TeamShape'
    BY <1>2, TablesMoved, OnTheWayEffect
  <2>2. CASE member'[u] # member[u]
    BY <2>1, <2>2 DEF MembersMoved, Exists
  <2> DEFINE o == member[u]
  <2>3. CASE member'[u] = member[u]
    <3>1. o \in Orgs /\ owner[o] \in Users
      BY <2>3 DEF MembersOfTeams, Exists
    <3> HIDE DEF o
    <3>2. CASE TransferMove(r)
      <4>1. req[r].target \in Users
        BY <3>2, RequestFormed DEF TransferMove, At, Formed
      <4>2. owner \in [Orgs -> Users \cup {Unborn, Gone}]
        BY DEF TeamShape, TeamTypeOK
      <4>3. owner'[o] \in Users
        BY <3>1, <3>2, <4>1, <4>2 DEF TransferMove, Exists
      <4> QED BY <2>3, <3>1, <4>3 DEF o
    <3>3. CASE ~TransferMove(r)
      <4>1. owner'[o] = owner[o]
        <5>1. owner[o] # Unborn /\ owner[o] # Gone
          BY <3>1, TeamAssumption
        <5>2. member'[u] = o
          BY <2>3 DEF o
        <5>3. owner'[o] # Gone
          BY <2>1, <3>1, <5>1, <5>2 DEF OwnersMoved
        <5>4. CASE req[r].do = "transfer"
          BY <1>2, <3>3, <5>4 DEF OnTheWay, CreateInsertOrg, CreateInsertMember, CreateUndo,
               AcceptReadMember, AcceptReadSeats, AcceptInsert, AcceptMark, ReadOwner,
               RemoveWrite, RoleWrite, InviteWrite, RevokeWrite, TransferCheck, CloseCheck,
               CloseMove, Crash, At, teamTables
        <5> QED BY <2>1, <3>1, <5>1, <5>3, <5>4 DEF OwnersMoved
      <4> QED BY <2>3, <3>1, <4>1 DEF o
    <3> QED BY <3>2, <3>3
  <2> QED BY <2>2, <2>3
<1>3. ASSUME NEW r \in Reqs, StartStep(r)
      PROVE  UNCHANGED teamTables
  BY <1>3, StartEffect
<1>4. CASE UNCHANGED teamVars
  BY <1>1, <1>4 DEF teamVars
<1>5. CASE \E i \in Invites : Expire(i)
  BY <1>1, <1>5 DEF Expire
<1>6. CASE \E r \in Reqs : RequestStep(r) \/ TransferMove(r)
  <2>1. PICK r \in Reqs : RequestStep(r) \/ TransferMove(r)
    BY <1>6
  <2>2. StartStep(r) \/ OnTheWay(r)
    BY <2>1 DEF RequestStep, OnTheWay
  <2> QED BY <1>1, <1>2, <1>3, <2>2 DEF teamTables
<1> QED BY <1>4, <1>5, <1>6 DEF TeamNext

\* Nobody belongs to a team that is not there, whatever requests interleave, handovers
\* and removals together: closing a team empties it, and joining finds it there
\* (org.ts:209-236, 025).
THEOREM NobodyOutside == TeamSpec => []MembersOfTeams
<1>1. TeamInit => MembersOfTeams
  BY DEF TeamInit, MembersOfTeams
<1>2. TeamShape /\ [TeamNext]_teamVars => TeamShape'
  BY ShapeStep
<1>3. TeamShape /\ MembersOfTeams /\ [TeamNext]_teamVars => MembersOfTeams'
  BY MembersExistStep
<1> QED BY ShapeInit, <1>1, <1>2, <1>3, PTL DEF TeamSpec

-----------------------------------------------------------------------------
(* A handover that is about to move the wallet moves it to somebody else. *)

ToAnother ==
  \A r \in Reqs : At(r, "transfer", "move") => req[r].target # req[r].who

LEMMA ToAnotherStep ==
  ASSUME TeamShape, ToAnother, [TeamNext]_teamVars
  PROVE  ToAnother'
<1>1. ASSUME UNCHANGED req
      PROVE  ToAnother'
  BY <1>1 DEF ToAnother, At
<1>2. ASSUME NEW r \in Reqs, OthersKept(r),
             At(r, "transfer", "move")' => req'[r].target # req'[r].who
      PROVE  ToAnother'
  BY <1>2 DEF ToAnother, OthersKept, At
<1>3. ASSUME NEW r \in Reqs, OnTheWay(r)
      PROVE  ToAnother'
  <2>1. OthersKept(r) /\ Moves(r)
    BY <1>3, OnTheWayEffect
  <2>2. ASSUME At(r, "transfer", "move")'
        PROVE  req'[r].target # req'[r].who
    <3>1. TransferCheck(r) /\ MayReceive(req[r].org, req[r].who, req[r].target)
      BY <1>3, <2>2, WritesAreChecked
    <3>2. req'[r] # Free /\ req[r] # Free
      BY <2>2, <3>1 DEF At, TransferCheck
    <3> QED BY <2>1, <3>1, <3>2 DEF MayReceive, Moves, WhereOnly
  <2> QED BY <1>2, <2>1, <2>2
<1>4. ASSUME NEW r \in Reqs, StartStep(r)
      PROVE  ToAnother'
  <2>1. OthersKept(r) /\ Moves(r) /\ req[r] = Free
    BY <1>4, StartEffect
  <2>2. ~At(r, "transfer", "move")'
    BY <2>1 DEF Moves, WhereOnly, At, FirstStep, OwnerActions
  <2> QED BY <1>2, <2>1, <2>2
<1>5. CASE UNCHANGED teamVars
  BY <1>1, <1>5 DEF teamVars
<1>6. CASE \E i \in Invites : Expire(i)
  BY <1>1, <1>6 DEF Expire
<1>7. CASE \E r \in Reqs : RequestStep(r) \/ TransferMove(r)
  <2>1. PICK r \in Reqs : RequestStep(r) \/ TransferMove(r)
    BY <1>7
  <2>2. StartStep(r) \/ OnTheWay(r)
    BY <2>1 DEF RequestStep, OnTheWay
  <2> QED BY <1>3, <1>4, <2>2
<1> QED BY <1>5, <1>6, <1>7 DEF TeamNext

\* Only a handover gives a team that is there another owner.
LEMMA OwnerStays ==
  ASSUME TeamShape, NEW r \in Reqs, RequestStep(r), NEW o \in Orgs,
         owner[o] \in Users, owner'[o] \in Users
  PROVE  owner'[o] = owner[o]
<1>1. CASE StartStep(r)
  <2>1. UNCHANGED teamTables
    BY <1>1, StartEffect
  <2> QED BY <2>1 DEF teamTables
<1>2. CASE ~StartStep(r)
  <2>1. OnTheWay(r)
    BY <1>2 DEF RequestStep, OnTheWay
  <2>2. CASE req[r].do = "transfer"
    BY <1>2, <2>2 DEF RequestStep, CreateInsertOrg, CreateInsertMember, CreateUndo,
         AcceptReadMember, AcceptReadSeats, AcceptInsert, AcceptMark, ReadOwner, RemoveWrite,
         RoleWrite, InviteWrite, RevokeWrite, TransferCheck, CloseCheck, CloseMove, Crash, At,
         teamTables
  <2>3. CASE req[r].do # "transfer"
    BY <2>1, <2>3, TablesMoved, TeamAssumption DEF OwnersMoved
  <2> QED BY <2>2, <2>3
<1> QED BY <1>1, <1>2

-----------------------------------------------------------------------------
(* One request at a time, whatever it asks for, and none cut off: then every check of  *)
(* the route still holds when it writes, handovers and removals in any order.          *)

OneAtATime == ~Crashes /\ \A r, q \in Reqs : r = q

MadeByWho == \A r \in Reqs : Making(r) => owner[req[r].org] = req[r].who
HandoverAllowed ==
  \A r \in Reqs :
    At(r, "transfer", "move") => MayReceive(req[r].org, req[r].who, req[r].target)
HeldOnceMade ==
  \A o \in Orgs :
    Exists(o) => \/ member[owner[o]] = o
                 \/ \E r \in Reqs : Making(r) /\ req[r].org = o

AloneInv ==
  /\ TeamShape /\ MembersOfTeams
  /\ MadeByWho /\ RemovalSafe /\ HandoverAllowed /\ HeldOnceMade

LEMMA HeldOnceMadeKept ==
  ASSUME OneAtATime, AloneInv, NEW r \in Reqs, OnTheWay(r)
  PROVE  HeldOnceMade'
<1> USE TeamAssumption DEF At
<1>1. /\ req[r] # Free /\ Formed(req[r]) /\ req[r].who \in Users
      /\ owner \in [Orgs -> Users \cup {Unborn, Gone}]
      /\ member \in [Users -> Orgs \cup {NoOrg}]
  <2>1. req[r] # Free
    BY DEF OnTheWay, CreateInsertOrg, CreateInsertMember, CreateUndo, AcceptReadMember,
           AcceptReadSeats, AcceptInsert, AcceptMark, ReadOwner, RemoveWrite, RoleWrite,
           InviteWrite, RevokeWrite, TransferCheck, CloseCheck, CloseMove, Crash, TransferMove
  <2> QED BY <2>1, RequestFormed DEF TeamRequests, AloneInv, TeamShape, TeamTypeOK
<1>2. HeldOnceMade /\ \A o \in Orgs, q \in Reqs : Making(q) /\ req[q].org = o => q = r
  BY DEF AloneInv, OneAtATime
<1> DEFINE InMaking(o) == Making(r) /\ req[r].org = o
<1>3. \A o \in Orgs : Exists(o) => member[owner[o]] = o \/ InMaking(o)
  BY <1>2 DEF HeldOnceMade
<1>4. ASSUME UNCHANGED <<owner, member>>, ~Making(r)
      PROVE  HeldOnceMade'
  BY <1>3, <1>4 DEF HeldOnceMade, Exists
<1>5. ASSUME NEW o \in Orgs, DeleteOrg(o), InMaking(o) \/ ~Making(r)
      PROVE  HeldOnceMade'
  BY <1>1, <1>3, <1>5 DEF HeldOnceMade, DeleteOrg, Exists
<1>6. ASSUME NEW newRole, CanJoin(req[r].who, req[r].org), UNCHANGED owner,
             SetMember(req[r].who, req[r].org, newRole),
             Making(r) => owner[req[r].org] = req[r].who
      PROVE  HeldOnceMade'
  BY <1>1, <1>3, <1>6 DEF HeldOnceMade, CanJoin, SetMember, Exists
<1>7. CASE \E o \in Orgs : CreateInsertOrg(r, o)
  <2>1. PICK o \in Orgs : CreateInsertOrg(r, o)
    BY <1>7
  <2>2. ~Making(r)
    BY <2>1 DEF Making, CreateInsertOrg
  <2>3. CASE req' = [req EXCEPT ![r].step = "insert_member", ![r].org = o]
    <3>1. req'[r].do = "create" /\ req'[r].step = "insert_member" /\ req'[r].org = o /\ req'[r] # Free
      <4>1. req[r] \in TeamRequests /\ req \in [Reqs -> TeamRequests \cup {Free}] /\ req[r].do = "create"
        BY <1>1, <2>1 DEF AloneInv, TeamShape, TeamTypeOK, CreateInsertOrg
      <4>2. req'[r] = [req[r] EXCEPT !.step = "insert_member", !.org = o]
        BY <2>3, <4>1
      <4>3. req'[r].do = "create" /\ req'[r].step = "insert_member" /\ req'[r].org = o
        BY <4>1, <4>2 DEF TeamRequests
      <4> QED BY <4>3 DEF Free
    <3>2. Making(r)'
      BY <3>1 DEF Making
    <3>3. \A p \in Orgs \ {o} : owner'[p] = owner[p]
      BY <1>1, <2>1 DEF CreateInsertOrg, teamTables
    <3>4. member' = member
      BY <2>1 DEF CreateInsertOrg, teamTables
    <3> QED BY <1>3, <2>2, <3>1, <3>2, <3>3, <3>4 DEF HeldOnceMade, Exists
  <2>4. CASE Done(r) /\ UNCHANGED teamTables
    BY <1>4, <2>2, <2>4 DEF teamTables
  <2> QED BY <2>1, <2>3, <2>4 DEF CreateInsertOrg
<1>8. CASE CreateInsertMember(r)
  <2>1. Making(r) /\ owner[req[r].org] = req[r].who
    BY <1>8 DEF Making, CreateInsertMember, AloneInv, MadeByWho
  <2>2. CASE Goto(r, "undo") /\ UNCHANGED teamTables
    <3>1. req'[r].do = "create" /\ req'[r].step = "undo" /\ req'[r].org = req[r].org /\ req'[r] # Free
      BY <1>1, <1>8, <2>2 DEF AloneInv, TeamShape, TeamTypeOK, TeamRequests, Free, Goto,
         CreateInsertMember
    <3>2. Making(r)'
      BY <3>1 DEF Making
    <3> QED BY <1>3, <2>2, <3>1, <3>2 DEF HeldOnceMade, Exists, teamTables
  <2> QED BY <1>6, <1>8, <2>1, <2>2 DEF CreateInsertMember
<1>9. CASE AcceptInsert(r)
  BY <1>1, <1>4, <1>6, <1>9 DEF AcceptInsert, Making, teamTables
<1>10. CASE CreateUndo(r)
  <2>1. req[r].org \in Orgs /\ InMaking(req[r].org)
    BY <1>1, <1>10 DEF CreateUndo, Formed, Making
  <2> HIDE DEF InMaking
  <2> QED BY <1>5, <1>10, <2>1 DEF CreateUndo
<1>11. CASE CloseMove(r)
  <2>1. req[r].org \in Orgs /\ ~Making(r)
    BY <1>1, <1>11 DEF CloseMove, Formed, Making
  <2> QED BY <1>5, <1>11, <2>1 DEF CloseMove
<1>12. CASE RemoveWrite(r)
  <2>1. owner[req[r].org] # req[r].target /\ ~Making(r) /\ req[r].target \in Users
    BY <1>1, <1>12 DEF RemoveWrite, AloneInv, RemovalSafe, Making, Formed
  <2> QED BY <1>1, <1>3, <1>12, <2>1 DEF RemoveWrite, SetMember, HeldOnceMade, Exists
<1>13. CASE TransferMove(r)
  <2>1. /\ ~Making(r) /\ req[r].target \in Users /\ req[r].org \in Orgs
        /\ member[req[r].target] = req[r].org
    BY <1>1, <1>13 DEF TransferMove, AloneInv, HandoverAllowed, MayReceive, Making, Formed
  <2> QED BY <1>1, <1>3, <1>13, <2>1 DEF TransferMove, HeldOnceMade, Exists
<1>14. CASE \/ AcceptReadMember(r) \/ AcceptReadSeats(r) \/ AcceptMark(r) \/ ReadOwner(r)
            \/ RoleWrite(r) \/ (\E i \in Invites : InviteWrite(r, i)) \/ RevokeWrite(r)
            \/ TransferCheck(r) \/ CloseCheck(r)
  BY <1>4, <1>14 DEF AcceptReadMember, AcceptReadSeats, AcceptMark, ReadOwner, RoleWrite,
       InviteWrite, RevokeWrite, TransferCheck, CloseCheck, Making, teamTables
<1> QED
  BY <1>7, <1>8, <1>9, <1>10, <1>11, <1>12, <1>13, <1>14 DEF OnTheWay, Crash, OneAtATime

LEMMA AloneOnTheWay ==
  ASSUME OneAtATime, AloneInv, NEW r \in Reqs, OnTheWay(r)
  PROVE  AloneInv'
<1>1. /\ req[r] # Free /\ Formed(req[r]) /\ OthersKept(r) /\ Moves(r) /\ TeamShape'
      /\ \A q \in Reqs : q = r
  <2>1. req[r] # Free
    BY DEF OnTheWay, CreateInsertOrg, CreateInsertMember, CreateUndo, AcceptReadMember,
           AcceptReadSeats, AcceptInsert, AcceptMark, ReadOwner, RemoveWrite, RoleWrite,
           InviteWrite, RevokeWrite, TransferCheck, CloseCheck, CloseMove, Crash, TransferMove, At
  <2> QED BY <2>1, RequestFormed, OnTheWayEffect DEF AloneInv, OneAtATime
<1>2. MembersOfTeams'
  <2>1. [TeamNext]_teamVars
    BY DEF TeamNext, OnTheWay, RequestStep
  <2> QED BY <2>1, MembersExistStep DEF AloneInv
<1>3. HeldOnceMade'
  BY HeldOnceMadeKept
<1>4. MadeByWho'
  <2> SUFFICES ASSUME Making(r)' PROVE owner'[req'[r].org] = req'[r].who
    BY <1>1 DEF MadeByWho, Making
  <2>1. req'[r] # Free /\ req'[r].do = "create" /\ req'[r].step # "insert_org"
    BY DEF Making
  <2>2. CASE Making(r) /\ WhereOnly(r) /\ req'[r].org = req[r].org
    <3>1. UNCHANGED owner
      <4>1. CreateInsertMember(r)
        BY <2>1, <2>2, DoneEffect DEF Making, OnTheWay, CreateInsertOrg, CreateInsertMember, CreateUndo,
           AcceptReadMember, AcceptReadSeats, AcceptInsert, AcceptMark, ReadOwner, RemoveWrite,
           RoleWrite, InviteWrite, RevokeWrite, TransferCheck, CloseCheck, CloseMove, Crash,
           TransferMove, At, AloneInv
      <4> QED BY <4>1 DEF CreateInsertMember, teamTables
    <3> QED BY <2>2, <3>1 DEF AloneInv, MadeByWho, WhereOnly
  <2>3. CASE /\ req'[r].step = "insert_member"
             /\ owner[req'[r].org] = Unborn
             /\ owner' = [owner EXCEPT ![req'[r].org] = req'[r].who]
    <3>1. req'[r].org \in Orgs
      BY <1>1, <2>1 DEF TeamShape, Formed
    <3>2. owner \in [Orgs -> Users \cup {Unborn, Gone}]
      BY DEF AloneInv, TeamShape, TeamTypeOK
    <3> QED BY <2>3, <3>1, <3>2
  <2> QED BY <1>1, <2>1, <2>2, <2>3 DEF Moves, WhereOnly, Making
<1>5. req'[r] # Free /\ req'[r].do # "create" => /\ WhereOnly(r) /\ req'[r].org = req[r].org
  BY <1>1 DEF Moves, WhereOnly
<1>6. RemovalSafe'
  <2> SUFFICES ASSUME NEW do \in {"leave", "remove"}, At(r, do, "write")'
               PROVE  owner'[req'[r].org] # req'[r].target
    BY <1>1 DEF RemovalSafe
  <2>1. PICK lost \in Lost : ~Refused(do, req[r].org, req[r].target, lost)
    BY WritesAreChecked DEF AloneInv
  <2>2. ReadOwner(r)
    BY WritesAreChecked DEF AloneInv
  <2>3. owner[req[r].org] # req[r].target
    BY <2>1 DEF Refused
  <2>4. req'[r].org = req[r].org /\ req'[r].target = req[r].target
    BY <1>5 DEF At, WhereOnly
  <2> QED BY <2>2, <2>3, <2>4 DEF ReadOwner, teamTables
<1>7. HandoverAllowed'
  <2> SUFFICES ASSUME At(r, "transfer", "move")'
               PROVE  MayReceive(req[r].org, req[r].who, req[r].target)'
    BY <1>1 DEF HandoverAllowed
  <2>1. TransferCheck(r) /\ MayReceive(req[r].org, req[r].who, req[r].target)
    BY WritesAreChecked DEF AloneInv
  <2>2. /\ req'[r].org = req[r].org /\ req'[r].target = req[r].target
        /\ req'[r].who = req[r].who
    BY <1>5 DEF At, WhereOnly
  <2> QED BY <2>1, <2>2 DEF TransferCheck, teamTables, MayReceive
<1> QED BY <1>1, <1>2, <1>3, <1>4, <1>6, <1>7 DEF AloneInv

LEMMA AloneStart ==
  ASSUME OneAtATime, AloneInv, NEW r \in Reqs, StartStep(r)
  PROVE  AloneInv'
<1>1. /\ OthersKept(r) /\ Moves(r) /\ UNCHANGED teamTables
      /\ req[r] = Free /\ req'[r] # Free
  BY StartEffect DEF AloneInv
<1>2. \A q \in Reqs : q = r
  BY DEF OneAtATime
<1>3. [TeamNext]_teamVars
  BY DEF TeamNext, RequestStep
<1>4. TeamShape' /\ MembersOfTeams'
  BY <1>3, ShapeStep, MembersExistStep DEF AloneInv
<1>5. \/ req'[r].do = "create" /\ req'[r].step = "insert_org"
      \/ req'[r].do = "accept"
      \/ req'[r].do \in MemberActions /\ req'[r].step = FirstStep(req'[r].do)
  BY <1>1 DEF Moves, WhereOnly
<1>6. ~Making(r)'
  BY <1>5 DEF Making, MemberActions, ManagerActions, OwnerActions
<1>7. /\ ~At(r, "leave", "write")' /\ ~At(r, "remove", "write")'
      /\ ~At(r, "transfer", "move")'
  BY <1>5 DEF At, FirstStep, OwnerActions
<1>8. MadeByWho' /\ RemovalSafe' /\ HandoverAllowed'
  BY <1>2, <1>6, <1>7 DEF MadeByWho, RemovalSafe, HandoverAllowed
<1>9. \A q \in Reqs : ~Making(q)
  BY <1>1, <1>2 DEF Making
<1>10. HeldOnceMade'
  BY <1>1, <1>9 DEF AloneInv, HeldOnceMade, Exists, teamTables
<1> QED BY <1>4, <1>8, <1>10 DEF AloneInv

LEMMA AloneStep ==
  ASSUME OneAtATime, AloneInv, [TeamNext]_teamVars
  PROVE  AloneInv'
<1>1. TeamShape' /\ MembersOfTeams'
  BY ShapeStep, MembersExistStep DEF AloneInv
<1>2. ASSUME UNCHANGED <<owner, member, req>>
      PROVE  AloneInv'
  BY <1>1, <1>2 DEF AloneInv, MadeByWho, RemovalSafe, HandoverAllowed, HeldOnceMade, Making, At,
       MayReceive, Exists
<1>3. CASE UNCHANGED teamVars
  BY <1>2, <1>3 DEF teamVars
<1>4. CASE \E i \in Invites : Expire(i)
  BY <1>2, <1>4 DEF Expire
<1>5. CASE \E r \in Reqs : RequestStep(r) \/ TransferMove(r)
  <2>1. PICK r \in Reqs : RequestStep(r) \/ TransferMove(r)
    BY <1>5
  <2>2. StartStep(r) \/ OnTheWay(r)
    BY <2>1 DEF RequestStep, OnTheWay
  <2> QED BY <2>2, AloneStart, AloneOnTheWay
<1> QED BY <1>3, <1>4, <1>5 DEF TeamNext

LEMMA AloneInit == TeamInit => AloneInv
<1>1. TeamInit => TeamShape
  BY ShapeInit
<1> QED BY <1>1, TeamAssumption DEF TeamInit, AloneInv, MembersOfTeams, MadeByWho, RemovalSafe,
           HandoverAllowed, HeldOnceMade, Making, At, Exists

\* "The billing owner cannot be removed, by anyone" (org.ts:238), removals, closings and
\* handovers included, when the requests to the route do not overlap.  With two in flight
\* a removal that has read the owner takes out whoever the team was handed to meanwhile.
THEOREM OwnersHeldAlone ==
  ASSUME OneAtATime
  PROVE  TeamSpec => []OwnerHeld
<1>1. AloneInv /\ [TeamNext]_teamVars => AloneInv'
  BY AloneStep
<1>2. AloneInv => OwnerHeld
  BY DEF AloneInv, HeldOnceMade, OwnerHeld, BeingMade, Making
<1> QED BY AloneInit, <1>1, <1>2, PTL DEF TeamSpec
=============================================================================
