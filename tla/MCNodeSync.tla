---------------------------- MODULE MCNodeSync ----------------------------
(* Two peers: the first on a chain of three blocks, the second on a fork   *)
(* whose first block is invalid or, later, too old, until it moves to the  *)
(* first chain or to a second block of the fork.  It may lack blocks it    *)
(* has announced.                                                          *)
EXTENDS NodeSync

CONSTANTS p1, p2, a1, a2, a3, b2, b3

MCPrevious == (a1 :> None) @@ (a2 :> a1) @@ (a3 :> a2) @@ (b2 :> a1) @@ (b3 :> b2)
MCFirstHead == (p1 :> a3) @@ (p2 :> b2)
MCLaterHeads == (p1 :> {}) @@ (p2 :> {a3, b3})
=============================================================================
