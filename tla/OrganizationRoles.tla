--------------------------- MODULE OrganizationRoles ---------------------------
(***************************************************************************)
(* The role hierarchy and the capability matrix of an organization. A      *)
(* membership allows a request when its role supports the resource/action  *)
(* pair and the pair was granted to it; the owner needs no grant.          *)
(***************************************************************************)
EXTENDS Integers

\* Rank of each role: the lower, the more privileged.
RoleRank == [owner |-> 0, admin |-> 1, moderator |-> 2, analyst |-> 3, viewer |-> 4]

Roles == {"owner", "admin", "moderator", "analyst", "viewer"}

\* Fault: a role may grant itself.
MayAssignEqual(role, target) == RoleRank[role] <= RoleRank[target]

\* may_assign: only a strictly less privileged role.
MayAssign(role, target) == RoleRank[role] < RoleRank[target]

\* can_manage_organization_members.
CanManage(role) == role \in {"owner", "admin"}

AuthorizationResources ==
  {"control_modules", "platform_connections", "audit_events", "organization_members"}

Scopes == AuthorizationResources \X {"read", "manage"}

\* _role_supports_pair: the most a role can ever be granted. The owner is absent
\* from two of the lines: it is decided before the matrix is consulted.
RoleSupports(role, scope) ==
  CASE scope[1] = "organization_members" -> role \in {"owner", "admin"}
    [] scope[1] = "control_modules" -> scope[2] = "read"
    [] scope[1] = "platform_connections" -> role = "admin"
    [] scope[1] = "audit_events" -> role \in {"admin", "analyst"} /\ scope[2] = "read"

\* OrganizationMembership.allows.
Allows(role, granted, wanted) ==
  \/ role = "owner"
  \/ RoleSupports(role, wanted) /\ wanted \in granted
=============================================================================
