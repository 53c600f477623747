------------------------------ MODULE MCDefense -----------------------------
(* Defense for TLC: two addresses, a low score and one above the threshold.  *)
EXTENDS Defense, TLC

Symmetry == Permutations(Ips)
=============================================================================
