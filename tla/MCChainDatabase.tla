-------------------------- MODULE MCChainDatabase --------------------------
(* A tree of eight blocks for ChainDatabase:                               *)
(*                                                                         *)
(*     genesis - a1 - a2 - a3                                              *)
(*                  \                                                      *)
(*                   b2 - b3 - b4 - b5                                     *)
(*                                                                         *)
(* b5 fails its checks, b3 may arrive too early, x3 extends b2 with a      *)
(* wrong number.  a3 and b4 carry the same update_account.                 *)
EXTENDS ChainDatabase

CONSTANTS k, a1, a2, a3, b2, b3, b4, b5, x3

MCBlock == {a1, a2, a3, b2, b3, b4, b5, x3}
MCprevious ==
    [b \in MCBlock |->
        CASE b = a1 -> Genesis [] b \in {a2, b2} -> a1 [] b = a3 -> a2
          [] b \in {b3, x3} -> b2 [] b = b4 -> b3 [] b = b5 -> b4]
MCblock_num ==
    [b \in MCBlock |->
        CASE b = a1 -> 1 [] b \in {a2, b2} -> 2 [] b \in {a3, b3} -> 3
          [] b \in {b4, x3} -> 4 [] b = b5 -> 5]
MCBad == {b5}
MCFuture == {b3}
MCnew_keys == [b \in MCBlock |-> IF b \in {a3, b4} THEN {k} ELSE {}]
=============================================================================
