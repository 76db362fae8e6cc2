------------------------- MODULE MCBlockProduction -------------------------
(* Three delegates, one of them in the wallet, and two orders of a round.  *)
EXTENDS BlockProduction

CONSTANTS m, o, p

MCOrders == {<<m, o, p>>, <<p, m, o>>}
MCOffsets == {-1, 0}
=============================================================================
