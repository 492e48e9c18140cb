------------------------ MODULE OrganizationMembership ------------------------
(***************************************************************************)
(* Organizations and their members: creating an organization, adding,      *)
(* updating and removing members, and deciding an authorization request.   *)
(*                                                                         *)
(* A management request reads the actor's membership, then the target's,   *)
(* and writes by the membership identifier it read; each of the three is a *)
(* transaction of its own. An authorization decision reads the role and    *)
(* the scopes of one membership with two statements.                       *)
(***************************************************************************)
EXTENDS OrganizationRoles, FiniteSets

CONSTANTS
  Users, Orgs,
  Nobody,          \* no user: the organization does not exist
  Requests,        \* concurrent requests
  OfferedRoles,    \* roles a command may name
  OfferedScopes,   \* sets of scopes a command may name
  MaxMemberships   \* bound on membership rows ever inserted

ASSUME MembershipAssumption ==
  /\ Nobody \notin Users
  /\ OfferedRoles \subseteq Roles
  /\ OfferedScopes \subseteq SUBSET Scopes
  /\ MaxMemberships \in Nat

VARIABLES
  creator,   \* organizations, with the actor of their organization.create event
  members,   \* rows of organization_memberships with their scope rows
  issued,    \* membership identifiers issued so far
  req        \* local state of each request

membershipVars == <<creator, members, issued, req>>

-----------------------------------------------------------------------------
Memberships == [id : Nat, org : Orgs, user : Users, role : Roles, scopes : SUBSET Scopes]

Kinds == {"add", "update", "remove", "authorize"}

Idle == [pc |-> "idle"]

\* actor and org come from the session and the path; target, role and scopes from
\* the command (for "authorize", scopes holds the one pair asked for); held is the
\* role read for the actor and row the membership identifier read.
RequestStates ==
  {Idle} \cup [pc : {"target", "write", "scopes", "allowed"}, kind : Kinds, actor : Users,
               org : Orgs, target : Users, role : Roles, scopes : SUBSET Scopes,
               held : Roles, row : Nat]

Init ==
  /\ creator = [o \in Orgs |-> Nobody]
  /\ members = {}
  /\ issued = 0
  /\ req = [r \in Requests |-> Idle]

-----------------------------------------------------------------------------
(* The repository.                                                           *)

\* Fault: the query forgets the organization.
MembershipAnywhere(user, org) == {m \in members : m.user = user}

\* get_membership: zero rows or one.
MembershipOf(user, org) == {m \in members : m.user = user /\ m.org = org}

\* Fault: the table has no unique constraint.
SeatAlwaysFree(user, org) == TRUE

\* The unique constraint on (organization_id, user_id) admits a new row.
SeatFree(user, org) == \A m \in members : ~(m.user = user /\ m.org = org)

\* Fault: the new role keeps the scopes of the old one.
RewriteRoleOnly(m, role, scopes) == [m EXCEPT !.role = role]

\* update_member gives the row a role and replaces its scopes.
Rewrite(m, role, scopes) == [m EXCEPT !.role = role, !.scopes = scopes]

\* Fault: the statement matches the member instead of the membership.
MatchesUser(m, q) == m.user = q.target /\ m.org = q.org

\* The WHERE clause of update_member and remove_member.
Matches(m, q) == m.id = q.row

\* A row with a new identifier.
InsertMember(org, user, role, scopes) ==
  /\ issued < MaxMemberships
  /\ issued' = issued + 1
  /\ members' = members \cup
       {[id |-> issued + 1, org |-> org, user |-> user, role |-> role, scopes |-> scopes]}

-----------------------------------------------------------------------------
(* CreateOrganization: the tenant, its owner and the audit event, atomically. *)

CreateOrganization(user, org) ==
  /\ creator[org] = Nobody
  /\ creator' = [creator EXCEPT ![org] = user]
  /\ InsertMember(org, user, "owner", {})
  /\ UNCHANGED req

-----------------------------------------------------------------------------
(* Member management. A request that is refused answers and changes nothing. *)

\* reject_scopes_not_supported_by_role.
ScopesSupported(role, scopes) == \A s \in scopes : RoleSupports(role, s)

\* require_actor_can_manage, on the membership just read.
ActorMayGrant(m, role) == CanManage(m.role) /\ MayAssign(m.role, role)

\* The part adding and updating share: read the actor, check role and scopes.
Grant(r, kind, pc, actor, org, target, role, scopes) ==
  \E m \in MembershipOf(actor, org) :
    /\ ActorMayGrant(m, role)
    /\ ScopesSupported(role, scopes)
    /\ req' = [req EXCEPT ![r] =
         [pc |-> pc, kind |-> kind, actor |-> actor, org |-> org, target |-> target,
          role |-> role, scopes |-> scopes, held |-> m.role, row |-> 0]]

\* AddOrganizationMember up to its write: the invitee is found by e-mail and is
\* active, or the request ends. Nothing refuses the actor's own e-mail.
BeginAdd(r) ==
  /\ req[r] = Idle
  /\ \E actor, target \in Users, org \in Orgs, role \in OfferedRoles, scopes \in OfferedScopes :
       Grant(r, "add", "write", actor, org, target, role, scopes)
  /\ UNCHANGED <<creator, members, issued>>

\* UpdateOrganizationMember up to the read of its target.
BeginUpdate(r) ==
  /\ req[r] = Idle
  /\ \E actor, target \in Users, org \in Orgs, role \in OfferedRoles, scopes \in OfferedScopes :
       Grant(r, "update", "target", actor, org, target, role, scopes)
  /\ UNCHANGED <<creator, members, issued>>

\* RemoveOrganizationMember reads the actor and judges it with the target.
BeginRemove(r) ==
  /\ req[r] = Idle
  /\ \E actor, target \in Users, org \in Orgs :
       \E m \in MembershipOf(actor, org) :
         req' = [req EXCEPT ![r] =
              [pc |-> "target", kind |-> "remove", actor |-> actor, org |-> org,
               target |-> target, role |-> "viewer", scopes |-> {},
               held |-> m.role, row |-> 0]]
  /\ UNCHANGED <<creator, members, issued>>

\* Fault: the target's own role is not compared.
TargetManageable(q, m) == m.user # q.actor /\ CanManage(q.held)

\* The condition both use cases put on the target they read.
MayChange(q, m) ==
  /\ m.user # q.actor
  /\ CanManage(q.held)
  /\ MayAssign(q.held, m.role)

\* Read the target; without one that may be changed the request is refused.
ReadTarget(r) ==
  LET q == req[r]
      found == {m \in MembershipOf(q.target, q.org) : MayChange(q, m)}
  IN
  /\ q.pc = "target"
  /\ \/ \E m \in found : req' = [req EXCEPT ![r] = [q EXCEPT !.pc = "write", !.row = m.id]]
     \/ found = {} /\ req' = [req EXCEPT ![r] = Idle]
  /\ UNCHANGED <<creator, members, issued>>

WriteAdd(r) ==
  LET q == req[r] IN
  /\ q.pc = "write" /\ q.kind = "add"
  /\ \/ SeatFree(q.target, q.org) /\ InsertMember(q.org, q.target, q.role, q.scopes)
     \/ ~SeatFree(q.target, q.org) /\ UNCHANGED <<members, issued>>
  /\ req' = [req EXCEPT ![r] = Idle]
  /\ UNCHANGED creator

\* No row with the identifier any more: rowcount 0, refused.
WriteUpdate(r) ==
  LET q == req[r] IN
  /\ q.pc = "write" /\ q.kind = "update"
  /\ members' = {IF Matches(m, q) THEN Rewrite(m, q.role, q.scopes) ELSE m : m \in members}
  /\ req' = [req EXCEPT ![r] = Idle]
  /\ UNCHANGED <<creator, issued>>

\* The scope rows go with the membership (ON DELETE CASCADE).
WriteRemove(r) ==
  LET q == req[r] IN
  /\ q.pc = "write" /\ q.kind = "remove"
  /\ members' = {m \in members : ~Matches(m, q)}
  /\ req' = [req EXCEPT ![r] = Idle]
  /\ UNCHANGED <<creator, issued>>

-----------------------------------------------------------------------------
(* MembershipOrganizationAuthorizer: every other use case asks it first.     *)

\* The first SELECT of get_membership: the role row.
BeginAuthorize(r) ==
  /\ req[r] = Idle
  /\ \E actor \in Users, org \in Orgs, wanted \in UNION OfferedScopes :
       \E m \in MembershipOf(actor, org) :
         req' = [req EXCEPT ![r] =
              [pc |-> "scopes", kind |-> "authorize", actor |-> actor, org |-> org,
               target |-> actor, role |-> "viewer", scopes |-> {wanted},
               held |-> m.role, row |-> m.id]]
  /\ UNCHANGED <<creator, members, issued>>

\* Fault: the second SELECT asks for the member's scopes, not the membership's.
GrantedToUser(q) == UNION {m.scopes : m \in {x \in members : x.user = q.actor}}

\* The second SELECT: the scopes of the membership read, none once it is gone.
GrantedTo(q) == UNION {m.scopes : m \in {x \in members : x.id = q.row}}

Decision(q) == \A s \in q.scopes : Allows(q.held, GrantedTo(q), s)

\* An allowed request goes on to the use case behind it; a denied one ends.
Decide(r) ==
  /\ req[r].pc = "scopes"
  /\ req' = [req EXCEPT ![r] =
       IF Decision(req[r]) THEN [req[r] EXCEPT !.pc = "allowed"] ELSE Idle]
  /\ UNCHANGED <<creator, members, issued>>

\* The client disconnects, the database fails or the process restarts; a request
\* whose target is unknown or inactive, or whose guarded work is done, ends here too.
Abandon(r) ==
  /\ req[r] # Idle
  /\ req' = [req EXCEPT ![r] = Idle]
  /\ UNCHANGED <<creator, members, issued>>

Step(r) ==
  \/ BeginAdd(r) \/ BeginUpdate(r) \/ BeginRemove(r) \/ BeginAuthorize(r)
  \/ ReadTarget(r)
  \/ WriteAdd(r) \/ WriteUpdate(r) \/ WriteRemove(r)
  \/ Decide(r) \/ Abandon(r)

Next ==
  \/ \E user \in Users, org \in Orgs : CreateOrganization(user, org)
  \/ \E r \in Requests : Step(r)

Spec == Init /\ [][Next]_membershipVars

-----------------------------------------------------------------------------
(* Properties.                                                               *)

\* Type invariant: rows and local states have the shape the code gives them, and
\* every identifier in use was issued.
TypeOK ==
  /\ creator \in [Orgs -> Users \cup {Nobody}]
  /\ members \subseteq Memberships
  /\ issued \in Nat
  /\ req \in [Requests -> RequestStates]
  /\ \A m \in members : m.id \in 1..issued
  /\ \A r \in Requests : req[r] # Idle => req[r].row \in 0..issued

\* Every organization keeps exactly one owner, the user who created it, and an
\* organization nobody created has no member: no request, however stale what it
\* read, promotes, demotes or removes an owner (may_assign, MayChange).
OneOwner ==
  /\ \A m \in members :
       creator[m.org] # Nobody /\ (m.role = "owner" <=> m.user = creator[m.org])
  /\ \A o \in Orgs : creator[o] # Nobody =>
       \E m \in members : m.org = o /\ m.user = creator[o]

\* A user has at most one membership in an organization, and a membership has its
\* identifier to itself, whichever adds and acceptances race.
OneSeat ==
  \A m, n \in members : m.id = n.id \/ (m.user = n.user /\ m.org = n.org) => m = n

\* No stored scope is one its stored role could not use: a demotion replaces the
\* scopes together with the role (update_member).
ScopesFitRole == \A m \in members : ScopesSupported(m.role, m.scopes)

\* What a suspended request may still rely on, whatever the others did since its
\* reads: it grants no ownership and no scope its role cannot use; the row it will
\* write, if still there, is its target's and not an owner's; the row an
\* authorization is reading is still its actor's, and an owner is still one.
StaleReadsHold ==
  \A r \in Requests :
    LET q == req[r] IN
    q # Idle =>
      /\ creator[q.org] # Nobody
      /\ q.kind \in {"add", "update"} => q.role # "owner" /\ ScopesSupported(q.role, q.scopes)
      /\ q.pc = "write" /\ q.kind # "add" =>
           \A m \in members : m.id = q.row =>
             m.role # "owner" /\ m.user = q.target /\ m.org = q.org
      /\ q.pc = "scopes" =>
           /\ \A m \in members : m.id = q.row => m.user = q.actor /\ m.org = q.org
           /\ q.held = "owner" => q.actor = creator[q.org]

\* The request r ends with this step, which is its write if it was to write.
Ends(r) == req[r] # Idle /\ req'[r] = Idle

\* A write by identifier changes only the membership the request read: a member
\* who was removed and added again meanwhile, and members of other organizations,
\* are left alone.
WritesHitWhatTheyRead ==
  [][\A r \in Requests : Ends(r) =>
       \A m \in members \ members' :
         m.id = req[r].row /\ m.user = req[r].target /\ m.org = req[r].org
    ]_membershipVars

\* The membership the user holds now, if any, allows the pair.
AllowedNow(user, org, wanted) ==
  \E m \in members : m.user = user /\ m.org = org /\
    (m.role = "owner" \/ (wanted \in m.scopes /\ RoleSupports(m.role, wanted)))

\* A decision made from a role and scopes read by two statements, with any change
\* of the membership between them, never allows what the membership does not
\* allow at the second.
TornReadsAreSafe ==
  [][\A r \in Requests : req[r].pc = "scopes" /\ req'[r].pc = "allowed" =>
       \A s \in req[r].scopes : AllowedNow(req[r].actor, req[r].org, s)
    ]_membershipVars
=============================================================================
