--------------------------- MODULE MCRateLimiter ---------------------------
(* An instance of RateLimiter for TLC.                                      *)
EXTENDS RateLimiter, TLC

CONSTANTS k1, k2

TwoKeys == {k1, k2}
Interchangeable == Permutations(Keys)
=============================================================================
