------------------------------ MODULE MCWallet ------------------------------
(* A wallet that follows a chain of two blocks and the switch to a fork of *)
(* three, each branch with deposits.                                       *)
EXTENDS Wallet

MCRanges == {<<0, 9>>, <<2, 0>>}

CONSTANTS a1, a2, b2, b3

MCParent == [b \in Blocks |-> CASE b = a1 -> Root [] b = a2 -> a1
                                [] b = b2 -> a1 [] OTHER -> b2]
=============================================================================
