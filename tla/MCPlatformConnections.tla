------------------------ MODULE MCPlatformConnections ------------------------
(* Instances of PlatformConnections for TLC.                                  *)
EXTENDS PlatformConnections, TLC

CONSTANTS o1, o2, r1, r2, k1, n1, n2, l1, l2, m1, w1

OneConnection == {1}
TwoConnections == {1, 2}

Symmetry == Permutations({l1, l2})
=============================================================================
