--------------------------- MODULE MCAccountSecurity ---------------------------
(* Instances of AccountSecurity for TLC.                                      *)
EXTENDS AccountSecurity, TLC

CONSTANTS u1, p1, p2, s1, s2, t1, t2, r1, r2

Symmetry == Permutations(Passwords) \cup Permutations(Sessions)
            \cup Permutations(Tokens) \cup Permutations(Requests)
=============================================================================
