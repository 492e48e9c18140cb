----------------------------- MODULE MCRateLimiter -----------------------------
(* Instances of RateLimiter for TLC.                                          *)
EXTENDS RateLimiter, TLC

CONSTANTS k1, k2, p1, p2
=============================================================================
