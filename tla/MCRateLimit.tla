----------------------------- MODULE MCRateLimit -----------------------------
(* RateLimit for TLC.  Addresses are alike.                                  *)
EXTENDS RateLimit, TLC

Symmetry == Permutations(IPs)
=============================================================================
