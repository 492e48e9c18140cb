--------------------------- MODULE MCLoginIdentities ---------------------------
(* Instances of LoginIdentities for TLC.                                      *)
EXTENDS LoginIdentities, TLC

CONSTANTS u1, u2, x1, x2, discord, google, a1, a2, a3, i1, i2, r1, r2, b1, b2

OneBrowser == [r \in Requests |-> b1]
TwoBrowsers == [r \in Requests |-> IF r = r1 THEN b1 ELSE b2]

Symmetry == Permutations(Users) \cup Permutations(Subjects) \cup Permutations(Providers)
            \cup Permutations(States) \cup Permutations(Ids) \cup Permutations(Requests)
=============================================================================
