----------------------------- MODULE Membership -----------------------------
(***************************************************************************)
(* The members, invites and custom roles of one organization: inviteMember, *)
(* acceptInvite, updateMemberRole and removeMember                         *)
(* (src/modules/organizations/organizations.service.ts), the role          *)
(* templates and their permissions (src/modules/roles/roles.service.ts),   *)
(* and what a member may do                                                *)
(* (src/modules/auth/authorization.service.ts).  Invites are for e-mail    *)
(* addresses, and an account may change its own at any time                *)
(* (updateUserDetails, src/modules/users/users.service.ts).                *)
(*                                                                         *)
(* Each handler first reads and then writes, with an await between: a      *)
(* request is a record of what it was asked and of where it is.  What the  *)
(* database does is modelled as PostgreSQL does it at READ COMMITTED.      *)
(***************************************************************************)
EXTENDS Naturals, Sequences, FiniteSets

CONSTANTS
  Users, Owner,  \* accounts, and the owner's
  Addresses,     \* e-mail addresses
  NoAddress,     \* of an account that has only a phone number
  Roles,         \* custom roles (RoleTemplate), each made at most once
  Permissions,   \* permissions a role can grant
  Granted,       \* what a predefined role grants (PREDEFINED_PERMISSIONS)
  NoRole, NoOne,
  Offers,        \* the predefined and custom roles that an invite or an update names
  Requests,      \* requests that can be in progress at once
  MaxMembers,    \* bound on the OrganizationMember rows ever made
  MaxInvites,    \* bound on the Invite rows ever made
  MaxFounding,   \* bound on those createOrg makes
  MaxMoves       \* bound on the changes of addresses

Predefined == {"OWNER", "ADMIN"}
NoPredefined == "none"

ASSUME MembershipAssumption ==
  /\ Owner \in Users /\ NoOne \notin Users /\ NoRole \notin Roles
  /\ NoAddress \notin Addresses
  /\ Granted \in [Predefined -> SUBSET Permissions]
  /\ Offers \in SUBSET ((Predefined \cup {NoPredefined}) \X (Roles \cup {NoRole}))
  /\ MaxMembers \in Nat \ {0} /\ MaxInvites \in Nat \ {0}
  /\ MaxFounding \in 0 .. MaxInvites /\ MaxMoves \in Nat

VARIABLES
  email,       \* the address of each account
  members,     \* the OrganizationMember rows, in the order they were made
  invites,     \* the Invite rows, in the order they were made
  roles,       \* what has become of each custom role
  permits,     \* the permissions of each custom role
  request,     \* where each request is
  joined,      \* how many members each invite has made (history)
  given,       \* the custom role each member was last given (history)
  meant,       \* the permissions each role was last given (history)
  held,        \* every <<account, address>> there has been (history)
  moved,       \* the members whose address changed since they joined (history)
  moves,       \* how many addresses changed (history)
  unchecked,   \* the invites createOrg made that inviteMember would not make (history)
  course       \* "alone": one request at a time.  "together": any number of them

mailVars == <<email, held, moved, moves, unchecked>>
memVars == <<members, invites, roles, permits, request, joined, given, meant, course, mailVars>>
history == <<joined, given, meant>>
rolesVars == <<roles, permits>>

Row(u, predefined, role) == [user |-> u, predefinedRole |-> predefined, roleId |-> role]
Removed == Row(NoOne, NoPredefined, NoRole)
Invite(a, predefined, role) ==
  [email |-> a, predefinedRole |-> predefined, roleId |-> role, status |-> "PENDING"]
Idle == [op |-> "none"]

\* createOrg makes the owner a member; it may invite others at once, by as many addresses
\* as it is given.  It does not look whether one is there twice, or is the owner's own.
MemInit ==
  /\ email \in [Users -> Addresses \cup {NoAddress}]
  /\ \A u, v \in Users : email[u] = email[v] => u = v \/ email[u] = NoAddress
  /\ members = <<Row(Owner, "OWNER", NoRole)>>
  /\ \E n \in 0 .. MaxFounding : \E to \in [1 .. n -> Addresses] :
       /\ invites = [i \in 1 .. n |-> Invite(to[i], "ADMIN", NoRole)]
       /\ unchecked = {i \in 1 .. n : to[i] = email[Owner]
                                       \/ \E j \in 1 .. n : j # i /\ to[j] = to[i]}
  /\ held = {<<u, email[u]>> : u \in Users} /\ moved = {} /\ moves = 0
  /\ roles = [r \in Roles |-> "unmade"] /\ permits = [r \in Roles |-> {}]
  /\ request = [q \in Requests |-> Idle]
  /\ joined = [i \in 1 .. MaxInvites |-> 0]
  /\ given = [m \in 1 .. MaxMembers |-> NoRole]
  /\ meant = [r \in Roles |-> {}]
  /\ course \in {"alone", "together"}

Present == {r \in Roles : roles[r] = "made"}
RowsOf(u) == {m \in DOMAIN members : members[m].user = u}
Pending(a) == {i \in DOMAIN invites : invites[i].email = a /\ invites[i].status = "PENDING"}
Member(m) == m \in DOMAIN members /\ members[m] # Removed
HasRole(r) == {m \in DOMAIN members : members[m].roleId = r}

\* assertOrgPermission, for a request of u that needs the permission p: the row is
\* any one of u's (findFirst).
MayAct(u, p) ==
  \/ u = Owner
  \/ \E m \in RowsOf(u) :
       \/ members[m].predefinedRole # NoPredefined /\ p \in Granted[members[m].predefinedRole]
       \/ members[m].roleId # NoRole /\ p \in permits[members[m].roleId]

Begin(q, next) ==
  /\ request[q] = Idle
  /\ course = "alone" => \A other \in Requests : request[other] = Idle
  /\ request' = [request EXCEPT ![q] = next]

End(q) == request' = [request EXCEPT ![q] = Idle]

\* A call fails, or the process dies: what the request has not written it never will.
Abandon(q) ==
  /\ request[q] # Idle
  /\ End(q)
  /\ UNCHANGED <<members, invites, rolesVars, history, mailVars, course>>

-----------------------------------------------------------------------------
\* Addresses.

\* updateUserDetails: any address that no other account has (unique); nobody verifies it.
ChangeEmail(u, a) ==
  /\ course = "alone" => \A q \in Requests : request[q] = Idle
  /\ moves < MaxMoves /\ moves' = moves + 1
  /\ a # email[u] /\ \A v \in Users : email[v] # a
  /\ email' = [email EXCEPT ![u] = a]
  /\ held' = held \cup {<<u, a>>}
  /\ moved' = moved \cup RowsOf(u)
  /\ UNCHANGED <<members, invites, rolesVars, request, history, unchecked, course>>

-----------------------------------------------------------------------------
\* Invites.

\* The account that has the address, if any.
AccountAt(a) == IF \E u \in Users : email[u] = a THEN CHOOSE u \in Users : email[u] = a ELSE NoOne

InviteMember(q, a, predefined, role) ==
  /\ Begin(q, [op |-> "invite", email |-> a, user |-> AccountAt(a), predefined |-> predefined,
               role |-> role])
  /\ UNCHANGED <<members, invites, rolesVars, history, mailVars, course>>

\* A mutant of CheckInvitee: the members are not looked at.
InviteAnybody(q) ==
  /\ request[q].op = "invite"
  /\ request' = [request EXCEPT ![q].op = "check invite"]
  /\ UNCHANGED <<members, invites, rolesVars, history, mailVars, course>>

\* 'User is already a member of this organization'.
CheckInvitee(q) ==
  /\ request[q].op = "invite"
  /\ IF request[q].user # NoOne /\ RowsOf(request[q].user) # {} THEN End(q)
     ELSE request' = [request EXCEPT ![q].op = "check invite"]
  /\ UNCHANGED <<members, invites, rolesVars, history, mailVars, course>>

\* 'Invite already sent to this email'.
CheckInvite(q) ==
  /\ request[q].op = "check invite"
  /\ IF Pending(request[q].email) # {} THEN End(q)
     ELSE request' = [request EXCEPT ![q].op = "create invite"]
  /\ UNCHANGED <<members, invites, rolesVars, history, mailVars, course>>

\* The role must exist (foreign key).
CreateInvite(q) ==
  /\ request[q].op = "create invite"
  /\ \/ /\ request[q].role \in Present \cup {NoRole} /\ Len(invites) < MaxInvites
        /\ invites' = Append(invites, Invite(request[q].email, request[q].predefined,
                                             request[q].role))
     \/ /\ request[q].role \notin Present \cup {NoRole}
        /\ UNCHANGED invites
  /\ End(q)
  /\ UNCHANGED <<members, rolesVars, history, mailVars, course>>

\* 'Invite has already been processed'.
AcceptInvite(q, u, i) ==
  /\ i \in DOMAIN invites
  /\ invites[i].status = "PENDING"
  /\ Begin(q, [op |-> "accept", user |-> u, invite |-> i, row |-> invites[i]])
  /\ UNCHANGED <<members, invites, rolesVars, history, mailVars, course>>

\* A mutant of CheckEmail: the token is enough.
AcceptWithToken(q) ==
  /\ request[q].op = "accept"
  /\ request' = [request EXCEPT ![q].op = "check member"]
  /\ UNCHANGED <<members, invites, rolesVars, history, mailVars, course>>

\* 'Email does not match invite'.
CheckEmail(q) ==
  /\ request[q].op = "accept"
  /\ IF email[request[q].user] # request[q].row.email THEN End(q)
     ELSE request' = [request EXCEPT ![q].op = "check member"]
  /\ UNCHANGED <<members, invites, rolesVars, history, mailVars, course>>

\* 'User is already a member'.
CheckMember(q) ==
  /\ request[q].op = "check member"
  /\ IF RowsOf(request[q].user) # {} THEN End(q)
     ELSE request' = [request EXCEPT ![q].op = "join"]
  /\ UNCHANGED <<members, invites, rolesVars, history, mailVars, course>>

\* A mutant of Join: two statements, of which the second is lost.
JoinOnly(q) ==
  /\ request[q].op = "join"
  /\ request[q].row.roleId \in Present \cup {NoRole} /\ Len(members) < MaxMembers
  /\ members' = Append(members, Row(request[q].user, request[q].row.predefinedRole,
                                    request[q].row.roleId))
  /\ joined' = [joined EXCEPT ![request[q].invite] = @ + 1]
  /\ given' = [given EXCEPT ![Len(members) + 1] = request[q].row.roleId]
  /\ End(q)
  /\ UNCHANGED <<invites, rolesVars, meant, mailVars, course>>

\* One transaction: the member, with the roles the invite had when it was read, and
\* the invite's status.
Join(q) ==
  /\ request[q].op = "join"
  /\ LET row == request[q].row
         i == request[q].invite
     IN \/ /\ row.roleId \in Present \cup {NoRole} /\ Len(members) < MaxMembers
           /\ members' = Append(members, Row(request[q].user, row.predefinedRole, row.roleId))
           /\ invites' = [invites EXCEPT ![i].status = "ACCEPTED"]
           /\ joined' = [joined EXCEPT ![i] = @ + 1]
           /\ given' = [given EXCEPT ![Len(members) + 1] = row.roleId]
        \/ /\ row.roleId \notin Present \cup {NoRole}
           /\ UNCHANGED <<members, invites, joined, given>>
  /\ End(q)
  /\ UNCHANGED <<rolesVars, meant, mailVars, course>>

-----------------------------------------------------------------------------
\* Members.

\* 'Cannot change owner role', 'Cannot remove organization owner'.
NotOwner(m) == Member(m) /\ members[m].predefinedRole # "OWNER"

\* A role that is not named in the request keeps its value.
UpdateMemberRole(q, m, predefined, role) ==
  /\ NotOwner(m)
  /\ Begin(q, [op |-> "update", member |-> m, predefined |-> predefined, role |-> role])
  /\ UNCHANGED <<members, invites, rolesVars, history, mailVars, course>>

WriteRole(q) ==
  /\ request[q].op = "update"
  /\ LET m == request[q].member
         predefined == request[q].predefined
         role == request[q].role
     IN \/ /\ Member(m) /\ role \in Present \cup {NoRole}
           /\ members' = [members EXCEPT
                ![m].predefinedRole = IF predefined = NoPredefined THEN @ ELSE predefined,
                ![m].roleId = IF role = NoRole THEN @ ELSE role]
           /\ given' = [given EXCEPT ![m] = IF role = NoRole THEN @ ELSE role]
        \/ /\ ~ (Member(m) /\ role \in Present \cup {NoRole})
           /\ UNCHANGED <<members, given>>
  /\ End(q)
  /\ UNCHANGED <<invites, rolesVars, joined, meant, mailVars, course>>

RemoveMember(q, m) ==
  /\ NotOwner(m)
  /\ Begin(q, [op |-> "remove", member |-> m])
  /\ UNCHANGED <<members, invites, rolesVars, history, mailVars, course>>

DeleteMember(q) ==
  /\ request[q].op = "remove"
  /\ members' = [members EXCEPT ![request[q].member] = Removed]
  /\ given' = [given EXCEPT ![request[q].member] = NoRole]
  /\ End(q)
  /\ UNCHANGED <<invites, rolesVars, joined, meant, mailVars, course>>

-----------------------------------------------------------------------------
\* Custom roles.

\* The name is unique: of two creations one fails.
CreateRoleTemplate(q, r) ==
  /\ roles[r] = "unmade"
  /\ Begin(q, [op |-> "create role", role |-> r])
  /\ UNCHANGED <<members, invites, rolesVars, history, mailVars, course>>

InsertRole(q) ==
  /\ request[q].op = "create role"
  /\ roles' = [roles EXCEPT ![request[q].role] = IF @ = "unmade" THEN "made" ELSE @]
  /\ End(q)
  /\ UNCHANGED <<members, invites, permits, history, mailVars, course>>

\* A mutant of DeleteRoleTemplate: members are not counted.
DeleteAnyRole(q, r) ==
  /\ r \in Present
  /\ Begin(q, [op |-> "delete role", role |-> r])
  /\ UNCHANGED <<members, invites, rolesVars, history, mailVars, course>>

\* 'Cannot delete role that is assigned to members'.
DeleteRoleTemplate(q, r) ==
  /\ r \in Present /\ HasRole(r) = {}
  /\ Begin(q, [op |-> "delete role", role |-> r])
  /\ UNCHANGED <<members, invites, rolesVars, history, mailVars, course>>

\* A mutant of DropRole: the keys of members and invites are left as they are.
DropRoleOnly(q) ==
  /\ request[q].op = "delete role"
  /\ roles' = [roles EXCEPT ![request[q].role] = "deleted"]
  /\ permits' = [permits EXCEPT ![request[q].role] = {}]
  /\ meant' = [meant EXCEPT ![request[q].role] = {}]
  /\ End(q)
  /\ UNCHANGED <<members, invites, joined, given, mailVars, course>>

\* The permissions go with the role, and members and invites that have it lose it.
Without(row, r) == [row EXCEPT !.roleId = IF @ = r THEN NoRole ELSE @]
DropRole(q) ==
  /\ request[q].op = "delete role"
  /\ LET r == request[q].role
     IN /\ roles' = [roles EXCEPT ![r] = "deleted"]
        /\ permits' = [permits EXCEPT ![r] = {}] /\ meant' = [meant EXCEPT ![r] = {}]
        /\ members' = [m \in DOMAIN members |-> Without(members[m], r)]
        /\ invites' = [i \in DOMAIN invites |-> Without(invites[i], r)]
  /\ End(q)
  /\ UNCHANGED <<joined, given, mailVars, course>>

\* A request that names a set of permissions for a role that exists.
AssignPermissionsToRole(q, r, set) ==
  /\ r \in Present
  /\ Begin(q, [op |-> "assign permissions", role |-> r, set |-> set])
  /\ UNCHANGED <<members, invites, rolesVars, history, mailVars, course>>

\* tx.deleteMany begins: the rows it sees are those it will delete.
StartReplace(q) ==
  /\ request[q].op = "assign permissions"
  /\ request' = [request EXCEPT ![q] =
       [op |-> "replace", role |-> @.role, set |-> @.set, old |-> permits[@.role]]]
  /\ UNCHANGED <<members, invites, rolesVars, history, mailVars, course>>

\* The transaction commits.  A row another transaction wrote since deleteMany began is
\* not deleted, and if it is one of the new ones its key makes createMany fail.
CommitReplace(q) ==
  /\ request[q].op = "replace"
  /\ LET r == request[q].role
         kept == permits[r] \ request[q].old
     IN \/ /\ r \in Present /\ request[q].set \cap kept = {}
           /\ permits' = [permits EXCEPT ![r] = kept \cup request[q].set]
           /\ meant' = [meant EXCEPT ![r] = request[q].set]
           /\ request' = [p \in Requests |->
                IF p = q THEN Idle
                ELSE IF request[p].op = "replace" /\ request[p].role = r
                THEN [request[p] EXCEPT !.old = {}] ELSE request[p]]
        \/ /\ ~ (r \in Present /\ request[q].set \cap kept = {})
           /\ End(q)
           /\ UNCHANGED <<permits, meant>>
  /\ UNCHANGED <<members, invites, roles, joined, given, mailVars, course>>

RemovePermissionsFromRole(q, r, set) ==
  /\ r \in Present
  /\ Begin(q, [op |-> "remove permissions", role |-> r, set |-> set])
  /\ UNCHANGED <<members, invites, rolesVars, history, mailVars, course>>

DeletePermissions(q) ==
  /\ request[q].op = "remove permissions"
  /\ LET r == request[q].role
     IN /\ permits' = [permits EXCEPT ![r] = @ \ request[q].set]
        /\ meant' = [meant EXCEPT ![r] = @ \ request[q].set]
  /\ End(q)
  /\ UNCHANGED <<members, invites, roles, joined, given, mailVars, course>>

\* The member and the role are in the organization.
AssignRoleToMember(q, m, r) ==
  /\ Member(m) /\ r \in Present
  /\ Begin(q, [op |-> "assign role", member |-> m, role |-> r])
  /\ UNCHANGED <<members, invites, rolesVars, history, mailVars, course>>

\* It takes the place of the predefined role.
WriteAssignment(q) ==
  /\ request[q].op = "assign role"
  /\ LET m == request[q].member
         r == request[q].role
     IN \/ /\ Member(m) /\ r \in Present
           /\ members' = [members EXCEPT ![m].predefinedRole = NoPredefined, ![m].roleId = r]
           /\ given' = [given EXCEPT ![m] = r]
        \/ /\ ~ (Member(m) /\ r \in Present)
           /\ UNCHANGED <<members, given>>
  /\ End(q)
  /\ UNCHANGED <<invites, rolesVars, joined, meant, mailVars, course>>

-----------------------------------------------------------------------------

Step(q) ==
  \/ CheckInvitee(q) \/ CheckInvite(q) \/ CreateInvite(q)
  \/ CheckEmail(q) \/ CheckMember(q) \/ Join(q)
  \/ WriteRole(q) \/ DeleteMember(q) \/ InsertRole(q) \/ DropRole(q)
  \/ StartReplace(q) \/ CommitReplace(q) \/ DeletePermissions(q) \/ WriteAssignment(q)
  \/ Abandon(q)

Ask(q) ==
  \/ \E a \in Addresses, offer \in Offers : InviteMember(q, a, offer[1], offer[2])
  \/ \E u \in Users, i \in 1 .. MaxInvites : AcceptInvite(q, u, i)
  \/ \E m \in 1 .. MaxMembers :
       \/ RemoveMember(q, m)
       \/ \E offer \in Offers : UpdateMemberRole(q, m, offer[1], offer[2])
       \/ \E r \in Roles : AssignRoleToMember(q, m, r)
  \/ \E r \in Roles :
       \/ CreateRoleTemplate(q, r) \/ DeleteRoleTemplate(q, r)
       \/ \E set \in SUBSET Permissions :
            AssignPermissionsToRole(q, r, set) \/ RemovePermissionsFromRole(q, r, set)

MemNext ==
  \/ \E q \in Requests : Ask(q) \/ Step(q)
  \/ \E u \in Users, a \in Addresses : ChangeEmail(u, a)

MemSpec == MemInit /\ [][MemNext]_memVars

-----------------------------------------------------------------------------
\* Properties.

Ops == {"none", "invite", "check invite", "create invite", "accept", "check member", "join",
        "update", "remove",
        "create role", "delete role", "assign permissions", "replace",
        "remove permissions", "assign role"}
RowType == [user : Users \cup {NoOne}, predefinedRole : Predefined \cup {NoPredefined},
            roleId : Roles \cup {NoRole}]
InviteType == [email : Addresses, predefinedRole : Predefined \cup {NoPredefined},
               roleId : Roles \cup {NoRole}, status : {"PENDING", "ACCEPTED"}]

\* A member or an invite refers to a role that exists: the keys of the schema.
MemTypeOK ==
  /\ email \in [Users -> Addresses \cup {NoAddress}]
  /\ members \in Seq(RowType) /\ Len(members) <= MaxMembers
  /\ invites \in Seq(InviteType) /\ Len(invites) <= MaxInvites
  /\ \A m \in DOMAIN members : members[m].roleId \in Present \cup {NoRole}
  /\ \A i \in DOMAIN invites : invites[i].roleId \in Present \cup {NoRole}
  /\ roles \in [Roles -> {"unmade", "made", "deleted"}]
  /\ permits \in [Roles -> SUBSET Permissions]
  /\ \A r \in Roles \ Present : permits[r] = {}
  /\ \A q \in Requests : request[q].op \in Ops

\* Nobody but the owner can do anything in the organization who has not accepted an
\* invite to an address of his own, whatever requests overlap and fail, and however
\* addresses change hands.
AccessIsInvited ==
  \A u \in Users \ {Owner} : \A p \in Permissions :
    MayAct(u, p) => \E i \in DOMAIN invites :
                       <<u, invites[i].email>> \in held /\ invites[i].status = "ACCEPTED"

\* An invite is ACCEPTED exactly when it has made a member, and as long as requests do
\* not overlap it has made just one.
AcceptedMadeMember ==
  \A i \in DOMAIN invites :
    /\ (invites[i].status = "ACCEPTED") <=> (joined[i] > 0)
    /\ course = "alone" => joined[i] <= 1

\* While requests do not overlap there is one way in.  A person has one member row at most,
\* so removing it ends the access.  An address has one pending invite at most, and none
\* while a member has it who has kept his address since he joined: his removal leaves no
\* invite to the address he has.  The exceptions are the invites of createOrg that
\* inviteMember would have refused.
OneWayIn ==
  course = "alone" =>
    /\ \A u \in Users : /\ Cardinality(RowsOf(u)) <= 1
                        /\ RowsOf(u) \subseteq moved \/ Pending(email[u]) \subseteq unchecked
    /\ \A a \in Addresses : Cardinality(Pending(a)) <= 1 \/ Pending(a) \subseteq unchecked

\* While requests do not overlap a member keeps the custom role it was last given, and
\* a role keeps the permissions it was last given, less those removed: neither is lost
\* to the deletion of a role in use, nor to an assignment that replaces half of them.
GivenIsKept ==
  course = "alone" =>
    /\ \A m \in DOMAIN members : members[m].roleId = given[m]
    /\ permits = meant

-----------------------------------------------------------------------------
\* What the source says of itself and the code does not keep.

\* "Check if already a member" (organizations.service.ts:617), also for two requests
\* at once: both find none, and the table has no unique key.
OneRowPerMember == \A u \in Users : Cardinality(RowsOf(u)) <= 1

\* "Invite already sent to this email" (organizations.service.ts:565), also for two
\* requests at once, and for createOrg given an address twice.
OnePendingInvite == \A a \in Addresses : Cardinality(Pending(a)) <= 1

\* 'User is already a member of this organization' (organizations.service.ts:556): a member
\* has no pending invite, so that removing him is final, also when he moved from the
\* address of one invite to that of another, or createOrg was given his address twice.
RemovalIsFinal ==
  course = "alone" => \A u \in Users : RowsOf(u) = {} \/ Pending(email[u]) = {}

\* "Cannot remove organization owner" (organizations.service.ts:742):
\* assignRoleToMember clears the predefined role the check looks at.
OwnerIsMember == RowsOf(Owner) # {}

\* "Cannot delete role that is assigned to members" (roles.service.ts:135): a member
\* that gets the role between the count and the delete loses it, and so does an
\* invite that names it.
RoleIsKept == \A m \in DOMAIN members : members[m].roleId = given[m]

\* "Remove existing permissions and add new ones" (roles.service.ts:166): of two
\* assignments at once neither removes what the other adds.
PermissionsAreReplaced == permits = meant
=============================================================================
