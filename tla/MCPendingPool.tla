---------------------------- MODULE MCPendingPool ----------------------------
(* A spend, a rival spend of the same coin, a spend of the first one's     *)
(* output with a lower digest and a higher fee, and a large independent    *)
(* transaction that takes the owner key of this node's delegate.           *)
EXTENDS PendingPool

MCTrx ==
    {[needs |-> {"a"}, makes |-> {"b"}, takes |-> {}, fee |-> 2, size |-> 1, expiration |-> 3, digest |-> 2],
     [needs |-> {"a"}, makes |-> {"d"}, takes |-> {}, fee |-> 3, size |-> 1, expiration |-> 4, digest |-> 3],
     [needs |-> {"b"}, makes |-> {"d"}, takes |-> {}, fee |-> 4, size |-> 1, expiration |-> 4, digest |-> 1],
     [needs |-> {"c"}, makes |-> {}, takes |-> {"me"}, fee |-> 1, size |-> 2, expiration |-> 3, digest |-> 4]}
MCDelegate == {"me"}
MCCoin == {"a", "b", "c", "d"}
MCGenesis == {"a", "c"}
=============================================================================
