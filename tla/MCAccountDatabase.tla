-------------------------- MODULE MCAccountDatabase --------------------------
(* One genesis delegate and one more account, three keys besides the null  *)
(* key: enough for a key to be given up, to be wanted again, and to be     *)
(* left behind by a popped block.                                          *)
EXTENDS AccountDatabase

CONSTANTS n1, n2, k1, k2, k3

MCSymmetry == Permutations({n1, n2}) \cup Permutations({k1, k2, k3})
=============================================================================
