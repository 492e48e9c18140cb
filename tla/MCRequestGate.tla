----------------------------- MODULE MCRequestGate -----------------------------
(* Instances of RequestGate for TLC.                                          *)
EXTENDS RequestGate, TLC

CONSTANTS r1, r2, p1, p2, s1, s2

Symmetry == Permutations(Requests) \cup Permutations(Processes) \cup Permutations(Sessions)

\* One client: a key is a scope.
Scopes == LimitedScopes
=============================================================================
