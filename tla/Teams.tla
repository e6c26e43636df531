------------------------------- MODULE Teams -------------------------------
(***************************************************************************)
(* Teams: who belongs to which one, in which role, and who owns it         *)
(* (lib/org.ts, the route app/api/org, supabase/025 and 027).              *)
(*                                                                         *)
(* Every action of the route is a sequence of awaited calls to the         *)
(* database.  A request here takes one step per call and carries what it   *)
(* has read so far, so two requests interleave between any two calls.      *)
(* transfer_org_ownership and close_org are single transactions that check *)
(* first and write later; under READ COMMITTED the check is not repeated   *)
(* once the write has waited for its row locks, so each is two steps.      *)
(***************************************************************************)
EXTENDS Integers, FiniteSets

CONSTANTS
  Users,        \* auth.users
  Orgs,         \* organisations.id; each is used once, as a uuid is
  Invites,      \* org_invites.id
  Reqs,         \* concurrent requests to the route
  Seats,        \* subscriptions.seats of each user, 1 for one who has no row
  TeamActions,  \* the actions of the route an instance lets happen
  Crashes,      \* whether a request may be cut off between two calls
  Lost,         \* the reads of organisations, members and subscriptions one call may
                \* lose, a set of subsets of {"org", "count", "sub"}; {{}} for none
  NoOrg, NoUser, NoInvite,
  Unborn, Gone  \* an organisations row not inserted yet, and one deleted

ASSUME TeamAssumption ==
  /\ Seats \in [Users -> Nat \ {0}]
  /\ Crashes \in BOOLEAN
  /\ Lost \subseteq SUBSET {"org", "count", "sub"}
  /\ {NoOrg} \cap Orgs = {}
  /\ {NoUser, Unborn, Gone} \cap Users = {}
  /\ Unborn # Gone

VARIABLES
  owner,     \* organisations.owner_user_id
  member,    \* org_members.org_id, by user: user_id is the primary key
  role,      \* org_members.role
  invite,    \* org_invites
  req        \* the requests in flight

teamTables == <<owner, member, role, invite>>
teamVars == <<owner, member, role, invite, req>>

Roles == {"owner", "admin", "member"}
ManagerActions == {"invite", "revoke_invite", "remove", "role"}
OwnerActions == {"transfer", "close"}
MemberActions == {"leave"} \cup ManagerActions \cup OwnerActions
Actions == {"create", "accept"} \cup MemberActions

\* The roles the route lets a caller ask for, in an invite or for a member
AnyRole == {"owner", "admin", "member"}
GivenRoles == {"admin", "member"}

Steps == {"insert_org", "insert_member", "undo", "read_member", "read_seats",
          "insert", "mark", "read_owner", "write", "check", "move"}

Free == [do |-> "none"]
Unsent == [state |-> "unsent"]

InviteRows == [state: {"pending", "expired", "accepted", "deleted"},
               org: Orgs, email: Users, role: {"admin", "member"}]
TeamRequests == [do: Actions, who: Users, step: Steps, org: Orgs \cup {NoOrg},
                 target: Users \cup {NoUser}, role: Roles, inv: Invites \cup {NoInvite}]

TeamInit ==
  /\ owner = [o \in Orgs |-> Unborn]
  /\ member = [u \in Users |-> NoOrg]
  /\ role = [u \in Users |-> "member"]
  /\ invite = [i \in Invites |-> Unsent]
  /\ req = [r \in Reqs |-> Free]

-----------------------------------------------------------------------------
(* Building blocks.  An insert can always fail for a reason of the database's own, *)
(* and the code treats every reason alike.                                         *)

Exists(o) == o \in Orgs /\ owner[o] \in Users
MembersOf(o) == {u \in Users : member[u] = o}

At(r, do, step) == req[r] # Free /\ req[r].do = do /\ req[r].step = step

Begin(r, do, who, step, o, target, newRole, i) ==
  /\ req[r] = Free
  /\ do \in TeamActions
  /\ req' = [req EXCEPT ![r] = [do |-> do, who |-> who, step |-> step, org |-> o,
                                target |-> target, role |-> newRole, inv |-> i]]

Goto(r, step) == req' = [req EXCEPT ![r].step = step]
Done(r) == req' = [req EXCEPT ![r] = Free]

\* INSERT INTO org_members: refused by the primary key on user_id, and by the foreign
\* key when the organisation is gone.
CanJoin(u, o) == member[u] = NoOrg /\ Exists(o)

\* DELETE FROM organisations: members and invites cascade.
DeleteOrg(o) ==
  /\ owner' = [owner EXCEPT ![o] = Gone]
  /\ member' = [u \in Users |-> IF member[u] = o THEN NoOrg ELSE member[u]]
  /\ role' = [u \in Users |-> IF member[u] = o THEN "member" ELSE role[u]]
  /\ invite' = [i \in Invites |->
                  IF invite[i] # Unsent /\ invite[i].org = o
                  THEN [invite[i] EXCEPT !.state = "deleted"] ELSE invite[i]]

SetMember(u, o, newRole) ==
  /\ member' = [member EXCEPT ![u] = o]
  /\ role' = [role EXCEPT ![u] = newRole]

-----------------------------------------------------------------------------
(* createOrg *)

CreateStart(r, a) ==
  /\ member[a] = NoOrg
  /\ Begin(r, "create", a, "insert_org", NoOrg, NoUser, "owner", NoInvite)
  /\ UNCHANGED teamTables

CreateInsertOrg(r, o) ==
  /\ At(r, "create", "insert_org")
  /\ \/ /\ owner[o] = Unborn
        /\ owner' = [owner EXCEPT ![o] = req[r].who]
        /\ req' = [req EXCEPT ![r].step = "insert_member", ![r].org = o]
        /\ UNCHANGED <<member, role, invite>>
     \/ /\ Done(r)
        /\ UNCHANGED teamTables

CreateInsertMember(r) ==
  /\ At(r, "create", "insert_member")
  /\ \/ /\ CanJoin(req[r].who, req[r].org)
        /\ SetMember(req[r].who, req[r].org, "owner")
        /\ Done(r)
        /\ UNCHANGED <<owner, invite>>
     \/ /\ Goto(r, "undo")
        /\ UNCHANGED teamTables

CreateUndo(r) ==
  /\ At(r, "create", "undo")
  /\ DeleteOrg(req[r].org)
  /\ Done(r)

-----------------------------------------------------------------------------
(* acceptInvite *)

AcceptStart(r, a, i) ==
  /\ invite[i] # Unsent
  /\ invite[i].state = "pending" /\ invite[i].email = a
  /\ Begin(r, "accept", a, "read_member", invite[i].org, a, invite[i].role, i)
  /\ UNCHANGED teamTables

AcceptReadMember(r) ==
  /\ At(r, "accept", "read_member")
  /\ IF member[req[r].who] # NoOrg THEN Done(r) ELSE Goto(r, "read_seats")
  /\ UNCHANGED teamTables

\* seatsAvailable: a team that cannot be read has room, members that cannot be counted
\* are none, and a subscription that cannot be read has the one seat.
HasRoomAlways(o, lost) == TRUE
HasRoom(o, lost) ==
  \/ ~Exists(o) \/ "org" \in lost
  \/ (IF "count" \in lost THEN 0 ELSE Cardinality(MembersOf(o)))
       < (IF "sub" \in lost THEN 1 ELSE Seats[owner[o]])

AcceptReadSeats(r) ==
  /\ At(r, "accept", "read_seats")
  /\ \E lost \in Lost : IF HasRoom(req[r].org, lost) THEN Goto(r, "insert") ELSE Done(r)
  /\ UNCHANGED teamTables

AcceptInsert(r) ==
  /\ At(r, "accept", "insert")
  /\ \/ /\ CanJoin(req[r].who, req[r].org)
        /\ SetMember(req[r].who, req[r].org, req[r].role)
        /\ Goto(r, "mark")
        /\ UNCHANGED <<owner, invite>>
     \/ /\ Done(r)
        /\ UNCHANGED teamTables

\* accepted_at is set only after the membership exists; a deleted row takes no update.
AcceptMark(r) ==
  LET i == req[r].inv IN
  /\ At(r, "accept", "mark")
  /\ invite' = IF invite[i].state = "deleted" THEN invite
               ELSE [invite EXCEPT ![i].state = "accepted"]
  /\ Done(r)
  /\ UNCHANGED <<owner, member, role>>

-----------------------------------------------------------------------------
(* The actions of a member: the route reads the membership of the caller, decides  *)
(* from the role it read, and goes on to the library call.                         *)

MayDo(do, callerRole) ==
  /\ do \in ManagerActions => callerRole \in {"owner", "admin"}
  /\ do \in OwnerActions => callerRole = "owner"

FirstStep(do) ==
  IF do \in {"leave", "remove", "role"} THEN "read_owner"
  ELSE IF do \in OwnerActions THEN "check" ELSE "write"

MemberStart(r, a, do, target, newRole, i) ==
  /\ do \in MemberActions
  /\ member[a] # NoOrg
  /\ MayDo(do, role[a])
  /\ do = "leave" => target = a
  /\ Begin(r, do, a, FirstStep(do), member[a], target, newRole, i)
  /\ UNCHANGED teamTables

\* removeMember and setRole read who owns the team before they write, and refuse to
\* touch that account.  A team that is gone, or that could not be read, stops
\* removeMember; setRole goes on to its update.
NeverRefused(do, o, target, lost) == FALSE
Refused(do, o, target, lost) ==
  IF Exists(o) /\ "org" \notin lost THEN owner[o] = target ELSE do # "role"

ReadOwner(r) ==
  /\ \E do \in {"leave", "remove", "role"} : At(r, do, "read_owner")
  /\ \E lost \in Lost :
       IF Refused(req[r].do, req[r].org, req[r].target, lost)
       THEN Done(r) ELSE Goto(r, "write")
  /\ UNCHANGED teamTables

\* DELETE FROM org_members WHERE org_id AND user_id
RemoveWrite(r) ==
  LET u == req[r].target IN
  /\ At(r, "leave", "write") \/ At(r, "remove", "write")
  /\ IF member[u] = req[r].org THEN SetMember(u, NoOrg, "member")
     ELSE UNCHANGED <<member, role>>
  /\ Done(r)
  /\ UNCHANGED <<owner, invite>>

RoleWrite(r) ==
  LET u == req[r].target IN
  /\ At(r, "role", "write")
  /\ role' = IF member[u] = req[r].org THEN [role EXCEPT ![u] = req[r].role] ELSE role
  /\ Done(r)
  /\ UNCHANGED <<owner, member, invite>>

\* inviteToOrg: the token is new, so the row is.  It needs a team.
InviteWrite(r, i) ==
  /\ At(r, "invite", "write")
  /\ \/ /\ invite[i] = Unsent
        /\ Exists(req[r].org)
        /\ invite' = [invite EXCEPT ![i] = [state |-> "pending", org |-> req[r].org,
                                            email |-> req[r].target, role |-> req[r].role]]
     \/ UNCHANGED invite
  /\ Done(r)
  /\ UNCHANGED <<owner, member, role>>

\* revokeInvite deletes a row of this team that was not accepted.
RevokeWrite(r) ==
  LET i == req[r].inv IN
  /\ At(r, "revoke_invite", "write")
  /\ IF /\ invite[i] # Unsent
        /\ invite[i].org = req[r].org
        /\ invite[i].state \in {"pending", "expired"}
     THEN invite' = [invite EXCEPT ![i].state = "deleted"]
     ELSE UNCHANGED invite
  /\ Done(r)
  /\ UNCHANGED <<owner, member, role>>

\* "the invariants are re-checked here because this is the function that moves the
\* money" (027)
MayReceive(o, from, to) == owner[o] = from /\ member[to] = o /\ to # from

\* transfer_org_ownership: the checks, then the locks and the writes.  The owner row is
\* written whether or not the checks still hold; a role is set on a row that is there.
TransferCheck(r) ==
  /\ At(r, "transfer", "check")
  /\ IF MayReceive(req[r].org, req[r].who, req[r].target)
     THEN Goto(r, "move") ELSE Done(r)
  /\ UNCHANGED teamTables

TransferMove(r) ==
  LET o == req[r].org
      from == req[r].who
      to == req[r].target IN
  /\ At(r, "transfer", "move")
  /\ owner' = IF Exists(o) THEN [owner EXCEPT ![o] = to] ELSE owner
  /\ role' = [u \in Users |->
                IF member[u] = o /\ u = to THEN "owner"
                ELSE IF member[u] = o /\ u = from THEN "admin" ELSE role[u]]
  /\ Done(r)
  /\ UNCHANGED <<member, invite>>

\* close_org
CloseCheck(r) ==
  /\ At(r, "close", "check")
  /\ IF owner[req[r].org] = req[r].who THEN Goto(r, "move") ELSE Done(r)
  /\ UNCHANGED teamTables

CloseMove(r) ==
  /\ At(r, "close", "move")
  /\ DeleteOrg(req[r].org)
  /\ Done(r)

-----------------------------------------------------------------------------
(* A request is cut off between two of its calls; an invite runs out. *)

Crash(r) ==
  /\ Crashes
  /\ req[r] # Free
  /\ Done(r)
  /\ UNCHANGED teamTables

Expire(i) ==
  /\ invite[i] # Unsent
  /\ invite[i].state = "pending"
  /\ invite' = [invite EXCEPT ![i].state = "expired"]
  /\ UNCHANGED <<owner, member, role, req>>

StartStep(r) ==
  \E a \in Users :
    \/ CreateStart(r, a)
    \/ \E i \in Invites : AcceptStart(r, a, i)
    \/ MemberStart(r, a, "leave", a, "member", NoInvite)
    \/ MemberStart(r, a, "close", NoUser, "member", NoInvite)
    \/ \E i \in Invites : MemberStart(r, a, "revoke_invite", NoUser, "member", i)
    \/ \E u \in Users :
         \/ \E do \in {"remove", "transfer"} :
              MemberStart(r, a, do, u, "member", NoInvite)
         \/ \E do \in {"invite", "role"}, newRole \in GivenRoles :
              MemberStart(r, a, do, u, newRole, NoInvite)

\* Every step of a request but the one that moves a wallet
RequestStep(r) ==
  \/ StartStep(r)
  \/ \E o \in Orgs : CreateInsertOrg(r, o)
  \/ CreateInsertMember(r)
  \/ CreateUndo(r)
  \/ AcceptReadMember(r)
  \/ AcceptReadSeats(r)
  \/ AcceptInsert(r)
  \/ AcceptMark(r)
  \/ ReadOwner(r)
  \/ RemoveWrite(r)
  \/ RoleWrite(r)
  \/ \E i \in Invites : InviteWrite(r, i)
  \/ RevokeWrite(r)
  \/ TransferCheck(r)
  \/ CloseCheck(r)
  \/ CloseMove(r)
  \/ Crash(r)

TeamNext ==
  \/ \E r \in Reqs : RequestStep(r) \/ TransferMove(r)
  \/ \E i \in Invites : Expire(i)

TeamSpec == TeamInit /\ [][TeamNext]_teamVars

-----------------------------------------------------------------------------
(* Properties *)

TeamTypeOK ==
  /\ owner \in [Orgs -> Users \cup {Unborn, Gone}]
  /\ member \in [Users -> Orgs \cup {NoOrg}]
  /\ role \in [Users -> Roles]
  /\ invite \in [Invites -> InviteRows \cup {Unsent}]
  /\ req \in [Reqs -> TeamRequests \cup {Free}]

\* A team being made has its row before its owner is in it.
BeingMade(o) == \E r \in Reqs : req[r] # Free /\ req[r].do = "create" /\ req[r].org = o

\* "The billing owner cannot be removed, by anyone, including themselves" (org.ts:238):
\* whatever requests interleave, the owner of a team is one of its members.
OwnerHeld ==
  \A o \in Orgs : Exists(o) /\ ~BeingMade(o) => member[owner[o]] = o

\* "The owner's own role is not a thing anyone may edit" (org.ts:265): who owns a team
\* holds the role of owner, without which the route lets nobody hand it over or close it.
OwnerRoleKept ==
  \A o \in Orgs : Exists(o) /\ member[owner[o]] = o => role[owner[o]] = "owner"

\* Nobody holds the role of owner but the billing owner: whoever the page offers to
\* close or hand over a team is who pays for it (org.ts:417).
OneOwner ==
  \A u \in Users : member[u] # NoOrg /\ role[u] = "owner" => owner[member[u]] = u

\* A team that has members has its owner among them, even when requests are cut off: a
\* half-made team is empty, and nobody is left spending an absent owner's credits
\* (org.ts:139-140).
OwnerInside ==
  \A o \in Orgs : Exists(o) /\ MembersOf(o) # {} => member[owner[o]] = o

\* Nobody belongs to a team that is not there, whatever was in flight when it closed.
MembersOfTeams == \A u \in Users : member[u] # NoOrg => Exists(member[u])

\* Whoever belongs to a team belongs to one that is there, with the account that pays
\* for it inside and in the role of owner, whatever interleaves or is cut off.
TeamsWhole == MembersOfTeams /\ OwnerInside /\ OwnerRoleKept

\* Joining consumes a paid seat (org.ts:209-211).  The check and the insert are two
\* calls, so concurrent joins may overshoot, by no more than the requests there are.
SeatsBounded ==
  \A o \in Orgs :
    Exists(o) => Cardinality(MembersOf(o)) <= Seats[owner[o]] + Cardinality(Reqs) - 1
=============================================================================
