-------------------------- MODULE MCEmailRegistration --------------------------
(* Instances of EmailRegistration for TLC.                                    *)
EXTENDS EmailRegistration, TLC

CONSTANTS e1, e2, t1, t2, r1, r2

Symmetry == Permutations(Emails) \cup Permutations(Tokens) \cup Permutations(Requests)
=============================================================================
