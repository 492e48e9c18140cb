---------------------------- MODULE MCPlatformControl ----------------------------
(* Instances of PlatformControl for TLC.                                      *)
EXTENDS PlatformControl, TLC

CONSTANTS r1, r2, c1, c2, c3, o1, o2

TwoOwners == [c \in Connections |-> IF c = c1 THEN o1 ELSE o2]

DiscordAndTwitch == [c \in Connections |-> IF c = c3 THEN "twitch" ELSE "discord"]

Symmetry == Permutations(Requests)
=============================================================================
