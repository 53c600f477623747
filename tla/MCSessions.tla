----------------------------- MODULE MCSessions -----------------------------
(* Sessions for TLC.  Connections are alike: where only safety is checked,   *)
(* it is checked up to a permutation of them.                                *)
EXTENDS Sessions, TLC

Symmetry == Permutations(Conns)
=============================================================================
