---------------------- MODULE MCOrganizationMembership ----------------------
(* Instances of OrganizationMembership for TLC.                               *)
EXTENDS OrganizationMembership, TLC

CONSTANTS u1, u2, u3, o1, o2, q1, q2

ReadModules == {<<"control_modules", "read">>}
ManageConnections == {<<"platform_connections", "manage">>}

\* A grant every role supports and one only the administrator does.
TwoGrants == {ReadModules, ManageConnections}
NoGrant == {{}}

Symmetry == Permutations({u1, u2, u3}) \cup Permutations({q1, q2}) \cup Permutations({o1, o2})
=============================================================================
