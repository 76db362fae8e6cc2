------------------------- MODULE MCPeerConnections -------------------------
(* Two nodes that connect to each other at the same time, or two nodes that *)
(* connect to the same third one; and a connection with a node of another  *)
(* chain, or with nodes that are shut down.                                *)
EXTENDS PeerConnections, TLC

CONSTANTS A, B, C, ab, ba, cb

MCFrom == [c \in Conns |-> CASE c = ab -> A [] c = ba -> B [] OTHER -> C]
MCTo == [c \in Conns |-> IF c = ba THEN A ELSE B]
MCMaximum == [n \in Nodes |-> IF n = B THEN 1 ELSE 2]

Peers(pairs) == [n \in Nodes |-> {p[2] : p \in {q \in pairs : q[1] = n}}]
Crossing == [potential_peers |-> Peers({<<A, B>>, <<B, A>>}), foreign |-> {}, stopping |-> {}]
Crowded == [Crossing EXCEPT !.potential_peers = Peers({<<A, B>>, <<C, B>>})]
Strangers == [potential_peers |-> Peers({<<A, B>>}), foreign |-> {B}, stopping |-> {}]
Stopped == [Strangers EXCEPT !.foreign = {}, !.stopping = {A, B}]
MCSettings == {Crossing, Crowded, Strangers, Stopped}
=============================================================================
