---------------------------- MODULE MCHoneypots ----------------------------
(* Honeypots for TLC.  Connections are alike, and so are addresses.          *)
EXTENDS Honeypots, TLC

Symmetry == Permutations(Conns) \cup Permutations(IPs)
=============================================================================
