-------------------------- MODULE MCWalletDatabase --------------------------
(* Two local names and one that can be registered on the chain, with the   *)
(* first key of this wallet as its owner key (the user's own registration) *)
(* and the key of a contact as its active key; a foreign private key and a *)
(* change of the password.                                                 *)
EXTENDS WalletDatabase, TLC

CONSTANTS n1, n2, r, contact, imported
MCContacts == {<<"contact", contact>>}
MCOwnerKey == [n \in {r} |-> Child(1)]
MCActiveKey == [n \in {r} |-> <<"contact", contact>>]
MCImports == {<<"foreign", imported>>}
MCSymmetry == Permutations({n1, n2})
=============================================================================
