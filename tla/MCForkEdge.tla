----------------------------- MODULE MCForkEdge -----------------------------
(* ChainDatabase where undo states run out (MaxUndo = 1) and where forks   *)
(* part at genesis:                                                        *)
(*                                                                         *)
(*     genesis - a1 - a2                                                   *)
(*          \       \                                                      *)
(*           g1 - g2  b2 - b3 - b4 - b5                                    *)
(*                                                                         *)
(* b5 fails its checks, b2 may arrive too early, a1 sets a key.            *)
EXTENDS ChainDatabase

CONSTANTS k, a1, a2, b2, b3, b4, b5, g1, g2

MCBlock == {a1, a2, b2, b3, b4, b5, g1, g2}
MCprevious ==
    [b \in MCBlock |->
        CASE b \in {a1, g1} -> Genesis [] b \in {a2, b2} -> a1 [] b = g2 -> g1
          [] b = b3 -> b2 [] b = b4 -> b3 [] b = b5 -> b4]
MCblock_num ==
    [b \in MCBlock |->
        CASE b \in {a1, g1} -> 1 [] b \in {a2, b2, g2} -> 2 [] b = b3 -> 3
          [] b = b4 -> 4 [] b = b5 -> 5]
MCBad == {b5}
MCFuture == {b2}
MCnew_keys == [b \in MCBlock |-> IF b = a1 THEN {k} ELSE {}]
=============================================================================
