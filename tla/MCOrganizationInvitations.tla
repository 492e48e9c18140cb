---------------------- MODULE MCOrganizationInvitations ----------------------
(* Instances of OrganizationInvitations for TLC.                              *)
EXTENDS OrganizationInvitations, TLC

CONSTANTS u1, u2, o1, q1, c1, c2, i1

\* A grant that every role supports, so that administrators may invite viewers.
EveryonesGrant == {{<<"control_modules", "read">>}}

Symmetry == Permutations({u1, u2}) \cup Permutations({c1, c2})
=============================================================================
