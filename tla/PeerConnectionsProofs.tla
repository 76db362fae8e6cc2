----------------------- MODULE PeerConnectionsProofs -----------------------
(***************************************************************************)
(* Proofs about PeerConnections, for any nodes and connections: a node     *)
(* accepts one connection with each other node, and no more than its       *)
(* maximum.  Then about Inventory, what is sent through such connections:  *)
(* every request is answered once.                                         *)
(***************************************************************************)
EXTENDS PeerConnections, Inventory, FiniteSetTheorems, TLAPS

InUse(e) == e.list \in {"handshaking", "active"} /\ e.their_state = "accepted"

(* Every connection has its two ends, and an end that has accepted knows   *)
(* who the other one is.                                                   *)
EndsOK ==
  /\ DOMAIN end = Conns
  /\ \A c \in Conns :
       /\ DOMAIN end[c] = Ends(c)
       /\ \A n \in Ends(c) :
            end[c][n] \in End /\ (end[c][n].their_state = "accepted" => end[c][n].node_id)

IInv == EndsOK /\ AcceptedOnce /\ WithinMaximum

(* No end is accepted in this step.                                        *)
NoneAccepted == \A c \in Conns : \A n \in Ends(c) : InUse(end'[c][n]) => InUse(end[c][n])

-----------------------------------------------------------------------------
(* The connections that a node has accepted and uses.                      *)
LEMMA AcceptedForm ==
    /\ \A n : Accepted(n) = {c \in Conns : n \in Ends(c) /\ InUse(end[c][n])}
    /\ \A n : Accepted(n)' = {c \in Conns : n \in Ends(c) /\ InUse(end'[c][n])}
BY DEF Accepted, Listed, InUse, Ends

(* They are finitely many.                                                 *)
LEMMA AcceptedFinite == \A n : IsFiniteSet(Accepted(n))
<1>1. \A n : Accepted(n) \in SUBSET Conns
  BY AcceptedForm
<1> QED
  BY <1>1, FS_Subset, ConnsAssumption

(* A step in which no end is accepted keeps both properties.               *)
LEMMA NoneAcceptedInv == IInv /\ EndsOK' /\ NoneAccepted => IInv'
<1> SUFFICES ASSUME IInv, EndsOK', NoneAccepted PROVE IInv'
  OBVIOUS
<1>1. \A n : Accepted(n)' \subseteq Accepted(n)
  BY AcceptedForm DEF NoneAccepted
<1>2. AcceptedOnce'
  BY <1>1 DEF IInv, AcceptedOnce, Other
<1>3. WithinMaximum'
  <2> SUFFICES ASSUME NEW n \in Nodes PROVE Cardinality(Accepted(n)') <= Maximum[n]
    BY DEF WithinMaximum
  <2>1. /\ Cardinality(Accepted(n)') <= Cardinality(Accepted(n))
        /\ Cardinality(Accepted(n)) <= Maximum[n]
    BY <1>1, AcceptedFinite, FS_Subset DEF IInv, WithinMaximum
  <2>2. Cardinality(Accepted(n)') \in Nat /\ Cardinality(Accepted(n)) \in Nat /\ Maximum[n] \in Nat
    BY <1>1, AcceptedFinite, FS_Subset, FS_CardinalityType, LimitsAssumption
  <2> QED
    BY <2>1, <2>2
<1> QED
  BY <1>2, <1>3 DEF IInv

(* One end changes.                                                        *)
LEMMA PutEnds ==
    ASSUME EndsOK, NEW c \in Conns, NEW n \in Ends(c), NEW e \in End, Put(c, n, e),
           e.their_state = "accepted" => e.node_id
    PROVE  /\ EndsOK' /\ end'[c][n] = e
           /\ \A d \in Conns : \A k \in Ends(d) : <<d, k>> # <<c, n>> => end'[d][k] = end[d][k]
<1>1. end' = [end EXCEPT ![c][n] = e]
  BY DEF Put
<1>2. DOMAIN end = Conns /\ \A d \in Conns : DOMAIN end[d] = Ends(d)
  BY DEF EndsOK
<1>3. /\ end'[c][n] = e
      /\ \A d \in Conns : \A k \in Ends(d) : d # c \/ k # n => end'[d][k] = end[d][k]
      /\ DOMAIN end' = Conns /\ \A d \in Conns : DOMAIN end'[d] = Ends(d)
  BY <1>1, <1>2
<1>4. ASSUME NEW d \in Conns, NEW k \in Ends(d)
      PROVE  end'[d][k] \in End /\ (end'[d][k].their_state = "accepted" => end'[d][k].node_id)
  BY <1>3 DEF EndsOK
<1>5. EndsOK'
  BY <1>3, <1>4 DEF EndsOK, Ends
<1> QED
  BY <1>3, <1>5

(* One end changes and is not accepted by it.                              *)
LEMMA PutInv ==
    ASSUME IInv, NEW c \in Conns, NEW n \in Ends(c), NEW e \in End, Put(c, n, e),
           e.their_state = "accepted" => e.node_id, InUse(e) => InUse(end[c][n])
    PROVE  IInv'
<1>1. EndsOK' /\ NoneAccepted
  BY PutEnds DEF IInv, NoneAccepted
<1> QED
  BY <1>1, NoneAcceptedInv

(* The ends stay as they are.                                              *)
LEMMA SameInv == IInv /\ UNCHANGED end => IInv'
BY DEF IInv, EndsOK, AcceptedOnce, WithinMaximum, Accepted, Listed, Other, Ends

(* An end is closed, gone or new.                                          *)
LEMMA DisconnectInv ==
    ASSUME IInv, NEW c \in Conns, NEW n \in Ends(c), NEW e \in End, NEW q,
           e.their_state = "accepted" => e.node_id, disconnect_from_peer(c, n, e, q)
    PROVE  IInv'
<1> DEFINE f == [e EXCEPT !.list = "closing",
                          !.we_have_requested_close = @ \/ ~e.they_have_requested_close]
<1>1. Put(c, n, f)
  BY DEF disconnect_from_peer
<1>2. f \in End /\ f.list = "closing" /\ f.their_state = e.their_state /\ f.node_id = e.node_id
  BY DEF End
<1> HIDE DEF f
<1> QED
  BY <1>1, <1>2, PutInv DEF InUse

(* What a new end and one that is gone look like.                          *)
LEMMA FreshEnds ==
    /\ Gone \in End /\ Gone.their_state = "disconnected"
    /\ [NoEnd EXCEPT !.list = "handshaking"] \in End
    /\ [NoEnd EXCEPT !.list = "handshaking"].their_state = "disconnected"
    /\ NoEnd \in End /\ NoEnd.their_state = "disconnected"
BY DEF Gone, NoEnd, End

-----------------------------------------------------------------------------
(* The actions.                                                            *)

(* The initial state.                                                      *)
LEMMA InitInv == Init => IInv
<1> SUFFICES ASSUME Init PROVE IInv
  OBVIOUS
<1>1. end = [c \in Conns |-> [n \in Ends(c) |-> NoEnd]]
  BY DEF Init
<1>2. EndsOK
  BY <1>1, FreshEnds DEF EndsOK
<1>3. \A n : Accepted(n) = {}
  BY <1>1, FreshEnds, AcceptedForm DEF InUse
<1> QED
  BY <1>2, <1>3, FS_EmptySet, LimitsAssumption DEF IInv, AcceptedOnce, WithinMaximum

(* Both ends of a connection lie in Ends.                                  *)
LEMMA FromTo == \A c \in Conns : From[c] \in Ends(c) /\ To[c] \in Ends(c)
BY DEF Ends

(* Connecting, accepting a socket and giving up.                           *)
LEMMA ConnectInv ==
    ASSUME IInv, NEW c \in Conns, connect_to(c) \/ accept_loop(c) \/ connect_to_failed(c)
    PROVE  IInv'
<1>1. CASE connect_to(c) \/ accept_loop(c)
  <2>1. PICK n \in Ends(c) : Put(c, n, [NoEnd EXCEPT !.list = "handshaking"])
    BY <1>1, FromTo DEF connect_to, accept_loop
  <2> QED
    BY <2>1, FreshEnds, PutInv DEF InUse
<1>2. CASE connect_to_failed(c)
  BY <1>2, FromTo, FreshEnds, PutInv DEF connect_to_failed, InUse
<1> QED
  BY <1>1, <1>2

(* The keys are exchanged.                                                 *)
LEMMA EstablishedInv ==
    ASSUME IInv, NEW c \in Conns, connection_established(c)
    PROVE  IInv'
<1> DEFINE fresh(n) == [end[c][n] EXCEPT !.our_state = "just_connected",
                                         !.their_state = "just_connected"]
<1>1. end' = [end EXCEPT ![c] = [n \in Ends(c) |-> fresh(n)]]
  BY DEF connection_established
<1>2. DOMAIN end = Conns /\ \A d \in Conns : DOMAIN end[d] = Ends(d)
  BY DEF IInv, EndsOK
<1>3. ASSUME NEW n \in Ends(c)
      PROVE  fresh(n) \in End /\ fresh(n).their_state = "just_connected"
  <2>1. end[c][n] \in End
    BY DEF IInv, EndsOK
  <2> QED
    BY <2>1 DEF End
<1> HIDE DEF fresh
<1>4. /\ DOMAIN end' = Conns /\ \A d \in Conns : DOMAIN end'[d] = Ends(d)
      /\ \A n \in Ends(c) : end'[c][n] = fresh(n)
      /\ \A d \in Conns \ {c} : end'[d] = end[d]
  BY <1>1, <1>2
<1>5. ASSUME NEW d \in Conns, NEW n \in Ends(d)
      PROVE  /\ end'[d][n] \in End /\ (end'[d][n].their_state = "accepted" => end'[d][n].node_id)
             /\ InUse(end'[d][n]) => InUse(end[d][n])
  <2>1. CASE d = c
    BY <1>3, <1>4, <2>1 DEF InUse
  <2>2. CASE d # c
    BY <1>4, <2>2 DEF IInv, EndsOK
  <2> QED
    BY <2>1, <2>2
<1>6. EndsOK' /\ NoneAccepted
  BY <1>4, <1>5 DEF EndsOK, NoneAccepted, Ends
<1> QED
  BY <1>6, NoneAcceptedInv

(* A hello: the only step that accepts a connection.                       *)
LEMMA HelloInv ==
    ASSUME IInv, NEW c \in Conns, NEW n \in Ends(c), on_hello_message(c, n)
    PROVE  IInv'
<1> DEFINE m == Other(c, n)
           e == [end[c][n] EXCEPT !.node_id = TRUE]
           accepted == ~is_already_connected_to_id(n, m) /\ is_accepting_new_connections(n)
           answer == [e EXCEPT !.their_state = IF accepted THEN "accepted" ELSE "rejected"]
           rejected == [e EXCEPT !.their_state = "rejected"]
<1>1. end[c][n] \in End
  BY DEF IInv, EndsOK
<1>2. e \in End /\ e.node_id = TRUE /\ e.list = end[c][n].list
  BY <1>1 DEF End
<1> HIDE DEF e
<1>3. rejected \in End /\ rejected.their_state = "rejected"
  BY <1>2 DEF End
<1>4. /\ answer \in End /\ answer.node_id = TRUE /\ answer.list = end[c][n].list
      /\ answer.their_state = IF accepted THEN "accepted" ELSE "rejected"
  <2> HIDE DEF accepted
  <2> QED
    BY <1>2 DEF End
<1> HIDE DEF answer, rejected, m
<1>5. \/ \E q : disconnect_from_peer(c, n, e, q)
      \/ \E q : disconnect_from_peer(c, n, rejected, q)
      \/ Put(c, n, answer)
  BY DEF on_hello_message, e, answer, rejected, m
<1>6. CASE \E q : disconnect_from_peer(c, n, e, q) \/ disconnect_from_peer(c, n, rejected, q)
  BY <1>2, <1>3, <1>6, DisconnectInv
<1>7. CASE Put(c, n, answer) /\ ~(accepted /\ InUse(answer))
  <2>1. ~InUse(answer)
    BY <1>4, <1>7 DEF InUse
  <2> QED
    BY <1>4, <1>7, <2>1, PutInv
<1>8. CASE Put(c, n, answer) /\ accepted /\ InUse(answer)
  <2>1. /\ EndsOK' /\ end'[c][n] = answer
        /\ \A d \in Conns : \A k \in Ends(d) : <<d, k>> # <<c, n>> => end'[d][k] = end[d][k]
    BY <1>4, <1>8, PutEnds DEF IInv
  <2>2. /\ Accepted(n)' = Accepted(n) \cup {c}
        /\ \A k : k # n => Accepted(k)' = Accepted(k)
    <3>1. \A d \in Conns : \A k \in Ends(d) :
            InUse(end'[d][k]) <=> InUse(end[d][k]) \/ (d = c /\ k = n)
      BY <1>8, <2>1
    <3> QED
      BY <3>1, AcceptedForm
  <2>3. ASSUME NEW d \in Accepted(n) PROVE Other(d, n) # m
    <3>1. d \in Conns /\ n \in Ends(d) /\ InUse(end[d][n])
      BY AcceptedForm
    <3>2. end[d][n].node_id
      BY <3>1 DEF IInv, EndsOK, InUse
    <3>3. d \in Listed(n, "active") \cup Listed(n, "handshaking")
      BY <3>1 DEF InUse, Listed
    <3> QED
      BY <1>8, <3>2, <3>3 DEF is_already_connected_to_id
  <2>4. AcceptedOnce'
    <3> SUFFICES ASSUME NEW k \in Nodes, NEW d \in Accepted(k)', NEW f \in Accepted(k)', d # f
                 PROVE  Other(d, k) # Other(f, k)
      BY DEF AcceptedOnce, Other
    <3>1. CASE d \in Accepted(k) /\ f \in Accepted(k)
      BY <3>1 DEF IInv, AcceptedOnce
    <3>2. CASE d \notin Accepted(k) \/ f \notin Accepted(k)
      <4>1. k = n /\ ((d = c /\ f \in Accepted(n)) \/ (f = c /\ d \in Accepted(n)))
        BY <2>2, <3>2
      <4> QED
        BY <2>3, <4>1 DEF m
    <3> QED
      BY <3>1, <3>2
  <2>5. WithinMaximum'
    <3> SUFFICES ASSUME NEW k \in Nodes PROVE Cardinality(Accepted(k)') <= Maximum[k]
      BY DEF WithinMaximum
    <3>1. CASE k # n
      BY <2>2, <3>1 DEF IInv, WithinMaximum
    <3>2. CASE k = n
      <4> DEFINE L == Listed(n, "handshaking") \cup Listed(n, "active")
      <4>1. Accepted(n)' \subseteq L /\ L \in SUBSET Conns
        <5>1. c \in L
          BY <1>4, <1>8 DEF InUse, Listed
        <5>2. Accepted(n) \subseteq L /\ L \in SUBSET Conns
          BY DEF Accepted, Listed
        <5> QED
          BY <2>2, <5>1, <5>2
      <4>2. Cardinality(L) <= Maximum[n]
        BY <1>8 DEF is_accepting_new_connections, get_number_of_connections
      <4> HIDE DEF L
      <4>3. IsFiniteSet(L)
        BY <4>1, FS_Subset, ConnsAssumption
      <4>4. /\ Cardinality(Accepted(n)') <= Cardinality(L) /\ Cardinality(L) \in Nat
            /\ Cardinality(Accepted(n)') \in Nat /\ Maximum[n] \in Nat
        BY <3>2, <4>1, <4>3, FS_Subset, FS_CardinalityType, LimitsAssumption
      <4> QED
        BY <3>2, <4>2, <4>4
    <3> QED
      BY <3>1, <3>2
  <2> QED
    BY <2>1, <2>4, <2>5 DEF IInv
<1> QED
  BY <1>5, <1>6, <1>7, <1>8

(* The other messages and the sending of a hello.                          *)
LEMMA OtherMessagesInv ==
    ASSUME IInv, NEW c \in Conns, NEW n \in Ends(c),
           send_hello_message(c, n) \/ (Handle(c, n) /\ ~on_hello_message(c, n))
    PROVE  IInv'
<1> DEFINE e == end[c][n]
<1>1. e \in End /\ (e.their_state = "accepted" => e.node_id)
  BY DEF IInv, EndsOK
<1>2. ASSUME NEW f \in End, Put(c, n, f), f.their_state = e.their_state, f.node_id = e.node_id,
             f.list \in {"handshaking", "active"} => e.list \in {"handshaking", "active"}
      PROVE  IInv'
  BY <1>1, <1>2, PutInv DEF InUse
<1>3. CASE send_hello_message(c, n)
  <2>1. Put(c, n, [e EXCEPT !.hello_sent = TRUE])
    BY <1>3 DEF send_hello_message
  <2> HIDE DEF e
  <2> QED
    BY <1>1, <1>2, <2>1 DEF End
<1>4. CASE on_connection_accepted_message(c, n)
  <2>1. Put(c, n, [e EXCEPT !.our_state = "accepted"])
    BY <1>4 DEF on_connection_accepted_message
  <2> HIDE DEF e
  <2> QED
    BY <1>1, <1>2, <2>1 DEF End
<1>5. CASE on_connection_rejected_message(c, n)
  <2>1. CASE Put(c, n, [e EXCEPT !.our_state = "rejected"])
    <3> HIDE DEF e
    <3> QED
      BY <1>1, <1>2, <2>1 DEF End
  <2>2. CASE Put(c, n, Gone)
    BY <2>2, FreshEnds, PutInv DEF InUse
  <2> QED
    BY <1>5, <2>1, <2>2 DEF on_connection_rejected_message
<1>6. CASE on_address_request_message(c, n)
  BY <1>6, SameInv DEF on_address_request_message
<1>7. CASE on_address_message(c, n)
  <2>1. CASE UNCHANGED end
    BY <2>1, SameInv
  <2>2. CASE \E q : disconnect_from_peer(c, n, e, q)
    BY <1>1, <2>2, DisconnectInv
  <2>3. CASE e.list = "handshaking" /\ Put(c, n, [e EXCEPT !.list = "active"])
    <3> HIDE DEF e
    <3> QED
      BY <1>1, <1>2, <2>3 DEF End
  <2> QED
    BY <1>7, <2>1, <2>2, <2>3 DEF on_address_message
<1>8. CASE on_fetch_blockchain_item_ids_message(c, n)
  <2>1. CASE e.list = "handshaking" /\ Put(c, n, [e EXCEPT !.list = "active"])
    <3> HIDE DEF e
    <3> QED
      BY <1>1, <1>2, <2>1 DEF End
  <2>2. CASE Put(c, n, e)
    BY <1>1, <1>2, <2>2
  <2> QED
    BY <1>8, <2>1, <2>2 DEF on_fetch_blockchain_item_ids_message
<1>9. CASE on_closing_connection_message(c, n)
  <2>1. Put(c, n, [e EXCEPT !.they_have_requested_close = TRUE])
    BY <1>9 DEF on_closing_connection_message
  <2> HIDE DEF e
  <2> QED
    BY <1>1, <1>2, <2>1 DEF End
<1> QED
  BY <1>3, <1>4, <1>5, <1>6, <1>7, <1>8, <1>9 DEF Handle

(* The ends of connections.                                                *)
LEMMA TerminateInv ==
    ASSUME IInv, NEW c \in Conns, NEW n \in Ends(c),
           terminate_gently(c, n) \/ terminate_forcibly(c, n) \/ on_connection_closed(c, n)
    PROVE  IInv'
<1> DEFINE e == end[c][n]
<1>1. e \in End /\ (e.their_state = "accepted" => e.node_id)
  BY DEF IInv, EndsOK
<1>2. CASE terminate_gently(c, n)
  BY <1>1, <1>2, DisconnectInv DEF terminate_gently
<1>3. CASE terminate_forcibly(c, n)
  <2>1. Put(c, n, [e EXCEPT !.list = "terminating"])
    BY <1>3 DEF terminate_forcibly
  <2> HIDE DEF e
  <2>2. /\ [e EXCEPT !.list = "terminating"] \in End
        /\ [e EXCEPT !.list = "terminating"].list = "terminating"
        /\ [e EXCEPT !.list = "terminating"].their_state = e.their_state
        /\ [e EXCEPT !.list = "terminating"].node_id = e.node_id
    BY <1>1 DEF End
  <2> QED
    BY <1>1, <2>1, <2>2, PutInv DEF InUse
<1>4. CASE on_connection_closed(c, n)
  BY <1>4, FreshEnds, PutInv DEF on_connection_closed, InUse
<1> QED
  BY <1>2, <1>3, <1>4

(* A node is shut down.                                                    *)
LEMMA CloseInv ==
    ASSUME IInv, NEW n \in Nodes, close(n)
    PROVE  IInv'
<1>1. end' = [c \in Conns |-> [k \in Ends(c) |-> IF k = n /\ end[c][k].list # "none"
                                                   THEN Gone ELSE end[c][k]]]
  BY DEF close
<1>2. ASSUME NEW c \in Conns, NEW k \in Ends(c)
      PROVE  end'[c][k] = Gone \/ end'[c][k] = end[c][k]
  BY <1>1
<1>3. ASSUME NEW c \in Conns, NEW k \in Ends(c)
      PROVE  /\ end'[c][k] \in End /\ (end'[c][k].their_state = "accepted" => end'[c][k].node_id)
             /\ InUse(end'[c][k]) => InUse(end[c][k])
  <2>1. CASE end'[c][k] = Gone
    BY <2>1, FreshEnds DEF InUse
  <2>2. CASE end'[c][k] = end[c][k]
    BY <2>2 DEF IInv, EndsOK
  <2> QED
    BY <1>2, <2>1, <2>2
<1>4. DOMAIN end' = Conns /\ \A c \in Conns : DOMAIN end'[c] = Ends(c)
  BY <1>1
<1>5. EndsOK' /\ NoneAccepted
  BY <1>3, <1>4 DEF EndsOK, NoneAccepted, Ends
<1> QED
  BY <1>5, NoneAcceptedInv

(* The invariant holds in every reachable state.                           *)
THEOREM Invariance == Spec => []IInv
<1>1. IInv /\ [Next]_vars => IInv'
  <2> SUFFICES ASSUME IInv, [Next]_vars PROVE IInv'
    OBVIOUS
  <2>1. CASE UNCHANGED vars
    BY <2>1, SameInv DEF vars
  <2>2. ASSUME NEW c \in Conns, NEW n \in Ends(c), Handle(c, n) PROVE IInv'
    BY <2>2, HelloInv, OtherMessagesInv
  <2> QED
    BY <2>1, <2>2, ConnectInv, EstablishedInv, OtherMessagesInv, TerminateInv, CloseInv DEF Next
<1> QED
  BY <1>1, InitInv, PTL DEF Spec

(* A node never uses two connections with the same other node that it has  *)
(* accepted, for any number of nodes that connect to each other at once.   *)
THEOREM AcceptsOnce == Spec => []AcceptedOnce
<1>1. IInv => AcceptedOnce
  BY DEF IInv
<1> QED
  BY <1>1, Invariance, PTL

(* A node never uses more connections that it accepted than its maximum.   *)
THEOREM StaysWithinMaximum == Spec => []WithinMaximum
<1>1. IInv => WithinMaximum
  BY DEF IInv
<1> QED
  BY <1>1, Invariance, PTL

-----------------------------------------------------------------------------
(* The spread of items over active connections.                            *)

SpreadMessage == [type : {"item_ids_inventory"}, items : SUBSET Items]
             \cup [type : {"fetch_items", "item", "item_not_available"}, item : Items]
CacheState == [Items -> Nat \cup {None}]
NodeState == [items_to_fetch : SUBSET Items, items_to_fetch_updated : BOOLEAN,
              new_inventory : SUBSET Items, cache : CacheState, block_clock : Nat,
              accepted : SUBSET Items, handled : SUBSET Items]
SideState == [active : BOOLEAN, advertised_to_us : SUBSET Items, advertised_to_peer : SUBSET Items,
              old : SUBSET Items, requested : SUBSET Items, inhibited : BOOLEAN,
              handling : Items \cup {None}]

(* The records have their fields, both ends of a broken connection know of *)
(* it and nothing is on its way there; a node forgets a peer only after.   *)
SpreadTypes ==
  /\ node \in [Nodes -> NodeState] /\ side \in [Links -> SideState]
  /\ queue \in [Links -> Seq(SpreadMessage)] /\ broken \in SUBSET Links
  /\ situation \in Situations
  /\ \A l \in Links : l \in broken => Back(l) \in broken /\ queue[l] = <<>>
  /\ \A l \in Links \ broken : side[l].active

Asking == {"fetch_items"}
Answering == {"item", "item_not_available"}

NoneIn(q, types) == \A k \in DOMAIN q : q[k].type \notin types
OneIn(q, types, i) ==
  \E k \in DOMAIN q : /\ q[k].type \in types /\ q[k].item = i
                      /\ \A j \in DOMAIN q : q[j].type \in types => j = k

(* Of what is requested, through the queue to a peer and the one back: one *)
(* item at most, its request or its answer being under way.                *)
Balanced(requested, out, back) ==
  \/ requested = {} /\ NoneIn(out, Asking) /\ NoneIn(back, Answering)
  \/ \E i \in Items :
       /\ requested = {i}
       /\ \/ OneIn(out, Asking, i) /\ NoneIn(back, Answering)
          \/ NoneIn(out, Asking) /\ OneIn(back, Answering, i)

SpreadInv ==
  SpreadTypes /\ \A l \in Links \ broken : Balanced(side[l].requested, queue[l], queue[Back(l)])

-----------------------------------------------------------------------------
(* Queues.                                                                 *)

LEMMA BackLinks ==
    ASSUME NEW l \in Links
    PROVE  Back(l) \in Links /\ Back(Back(l)) = l /\ Back(l) # l /\ l[1] \in Nodes /\ l[2] \in Nodes
BY DEF Links, Back

LEMMA MessageType ==
    /\ \A items \in SUBSET Items : Inventory(items) \in SpreadMessage
    /\ \A i \in Items : /\ Fetch(i) \in SpreadMessage /\ Item(i) \in SpreadMessage
                       /\ NotAvailable(i) \in SpreadMessage
BY DEF SpreadMessage, Inventory, Fetch, Item, NotAvailable

LEMMA ItemOfMessage ==
    ASSUME NEW m \in SpreadMessage, m.type \in Asking \cup Answering
    PROVE  m.item \in Items
BY DEF SpreadMessage, Asking, Answering

LEMMA ItemsOfMessage ==
    ASSUME NEW m \in SpreadMessage, m.type = "item_ids_inventory"
    PROVE  m.items \in SUBSET Items
BY DEF SpreadMessage

(* A message at the end that is of another type changes nothing ...        *)
LEMMA AppendOther ==
    ASSUME NEW q \in Seq(SpreadMessage), NEW m \in SpreadMessage, NEW types, m.type \notin types
    PROVE  /\ NoneIn(q, types) => NoneIn(Append(q, m), types)
           /\ \A i : OneIn(q, types, i) => OneIn(Append(q, m), types, i)
<1> DEFINE r == Append(q, m)
<1>1. /\ DOMAIN r = 1 .. Len(q) + 1 /\ DOMAIN q = 1 .. Len(q) /\ Len(q) \in Nat
      /\ r[Len(q) + 1] = m /\ \A k \in 1 .. Len(q) : r[k] = q[k]
  OBVIOUS
<1> HIDE DEF r
<1>2. \A k \in DOMAIN r : r[k].type \in types => k \in DOMAIN q /\ r[k] = q[k]
  BY <1>1
<1>3. \A k \in DOMAIN q : k \in DOMAIN r /\ r[k] = q[k]
  BY <1>1
<1>4. NoneIn(q, types) => NoneIn(r, types)
  BY <1>2 DEF NoneIn
<1>5. ASSUME NEW i, OneIn(q, types, i) PROVE OneIn(r, types, i)
  <2>1. PICK k \in DOMAIN q : /\ q[k].type \in types /\ q[k].item = i
                              /\ \A j \in DOMAIN q : q[j].type \in types => j = k
    BY <1>5 DEF OneIn
  <2> QED
    BY <1>2, <1>3, <2>1 DEF OneIn
<1> QED
  BY <1>4, <1>5 DEF r

(* ... and the first one of the type is then the only one.                 *)
LEMMA AppendFirst ==
    ASSUME NEW q \in Seq(SpreadMessage), NEW m \in SpreadMessage, NEW types,
           m.type \in types, NoneIn(q, types)
    PROVE  OneIn(Append(q, m), types, m.item)
<1> DEFINE r == Append(q, m)
<1>1. /\ DOMAIN r = 1 .. Len(q) + 1 /\ DOMAIN q = 1 .. Len(q) /\ Len(q) \in Nat
      /\ r[Len(q) + 1] = m /\ \A k \in 1 .. Len(q) : r[k] = q[k]
  OBVIOUS
<1> HIDE DEF r
<1>2. \A k \in DOMAIN r : r[k].type \in types => k = Len(q) + 1
  BY <1>1 DEF NoneIn
<1>3. Len(q) + 1 \in DOMAIN r
  BY <1>1
<1> QED
  BY <1>1, <1>2, <1>3 DEF OneIn, r

(* Taking a message of another type off the front changes nothing ...      *)
LEMMA TailOther ==
    ASSUME NEW q \in Seq(SpreadMessage), q # <<>>, NEW types
    PROVE  /\ NoneIn(q, types) => NoneIn(Tail(q), types)
           /\ Head(q).type \notin types => \A i : OneIn(q, types, i) => OneIn(Tail(q), types, i)
<1> DEFINE r == Tail(q)
<1>1. /\ DOMAIN r = 1 .. Len(q) - 1 /\ DOMAIN q = 1 .. Len(q) /\ Len(q) \in Nat \ {0}
      /\ Head(q) = q[1] /\ \A k \in 1 .. Len(q) - 1 : r[k] = q[k + 1]
  OBVIOUS
<1> HIDE DEF r
<1>2. \A k \in DOMAIN r : k + 1 \in DOMAIN q /\ r[k] = q[k + 1]
  BY <1>1
<1>3. NoneIn(q, types) => NoneIn(r, types)
  BY <1>2 DEF NoneIn
<1>4. ASSUME NEW i, OneIn(q, types, i), Head(q).type \notin types PROVE OneIn(r, types, i)
  <2>1. PICK k \in DOMAIN q : /\ q[k].type \in types /\ q[k].item = i
                              /\ \A j \in DOMAIN q : q[j].type \in types => j = k
    BY <1>4 DEF OneIn
  <2>2. k # 1
    BY <1>1, <1>4, <2>1
  <2>3. k - 1 \in DOMAIN r /\ r[k - 1] = q[k]
    <3>1. k \in Nat /\ k - 1 \in 1 .. Len(q) - 1 /\ (k - 1) + 1 = k
      BY <1>1, <2>2
    <3> QED
      BY <1>1, <3>1
  <2>4. \A j \in DOMAIN r : r[j].type \in types => j = k - 1
    BY <1>1, <1>2, <2>1
  <2> QED
    BY <2>1, <2>3, <2>4 DEF OneIn
<1> QED
  BY <1>3, <1>4 DEF r

(* ... and when the one of the type is taken off there is none left.       *)
LEMMA TailOnly ==
    ASSUME NEW q \in Seq(SpreadMessage), q # <<>>, NEW types, NEW i, OneIn(q, types, i),
           Head(q).type \in types
    PROVE  NoneIn(Tail(q), types) /\ Head(q).item = i
<1> DEFINE r == Tail(q)
<1>1. /\ DOMAIN r = 1 .. Len(q) - 1 /\ DOMAIN q = 1 .. Len(q) /\ Len(q) \in Nat \ {0}
      /\ Head(q) = q[1] /\ \A k \in 1 .. Len(q) - 1 : r[k] = q[k + 1]
  OBVIOUS
<1> HIDE DEF r
<1>2. PICK k \in DOMAIN q : /\ q[k].type \in types /\ q[k].item = i
                            /\ \A j \in DOMAIN q : q[j].type \in types => j = k
  BY DEF OneIn
<1>3. k = 1
  BY <1>1, <1>2
<1>4. \A j \in DOMAIN r : j + 1 \in DOMAIN q /\ r[j] = q[j + 1] /\ j + 1 # 1
  BY <1>1
<1>5. NoneIn(r, types)
  BY <1>2, <1>3, <1>4 DEF NoneIn
<1> QED
  BY <1>1, <1>2, <1>3, <1>5 DEF r

(* What close_connection leaves of the queues.                             *)
LEMMA Closing ==
    ASSUME SpreadTypes, NEW links \in SUBSET Links, NEW q \in [Links -> Seq(SpreadMessage)],
           CloseConnections(links, q)
    PROVE  /\ queue' \in [Links -> Seq(SpreadMessage)] /\ broken' \in SUBSET Links
           /\ links \subseteq broken' /\ broken \subseteq broken'
           /\ \A l \in Links : l \in broken' => Back(l) \in broken' /\ queue'[l] = <<>>
           /\ \A l \in Links \ broken' : queue'[l] = q[l] /\ queue'[Back(l)] = q[Back(l)]
<1>1. /\ broken' = broken \cup links \cup {Back(l) : l \in links}
      /\ queue' = [l \in Links |-> IF l \in broken' THEN <<>> ELSE q[l]]
  BY DEF CloseConnections, Both
<1>2. broken' \in SUBSET Links
  BY <1>1, BackLinks DEF SpreadTypes
<1>3. \A l \in Links : l \in broken' <=> Back(l) \in broken'
  BY <1>1, BackLinks DEF SpreadTypes
<1>4. queue' \in [Links -> Seq(SpreadMessage)]
  <2>1. \A l \in Links : (IF l \in broken' THEN <<>> ELSE q[l]) \in Seq(SpreadMessage)
    OBVIOUS
  <2> QED
    BY <1>1, <2>1
<1> QED
  BY <1>1, <1>2, <1>3, <1>4, BackLinks

-----------------------------------------------------------------------------
(* Steps that leave the traffic as it is.                                  *)

(* r has the requests and answers that q has.                              *)
Carries(q, r) ==
  \A types \in {Asking, Answering} :
    /\ NoneIn(q, types) => NoneIn(r, types)
    /\ \A i : OneIn(q, types, i) => OneIn(r, types, i)

LEMMA StillBalanced ==
    ASSUME NEW requested, NEW out, NEW back, NEW out2, NEW back2,
           Balanced(requested, out, back), Carries(out, out2), Carries(back, back2)
    PROVE  Balanced(requested, out2, back2)
<1>1. /\ NoneIn(out, Asking) => NoneIn(out2, Asking)
      /\ \A i : OneIn(out, Asking, i) => OneIn(out2, Asking, i)
      /\ NoneIn(back, Answering) => NoneIn(back2, Answering)
      /\ \A i : OneIn(back, Answering, i) => OneIn(back2, Answering, i)
  BY DEF Carries
<1> QED
  BY <1>1 DEF Balanced

(* What has to be shown of a step that goes through close_connection and   *)
(* send_message ...                                                        *)
LEMMA SentStep ==
    ASSUME SpreadInv, NEW links \in SUBSET Links, NEW q \in [Links -> Seq(SpreadMessage)],
           CloseConnections(links, q), situation' = situation,
           node' \in [Nodes -> NodeState], side' \in [Links -> SideState],
           \A l \in Links \ broken' : /\ side'[l].active
                                      /\ Balanced(side'[l].requested, q[l], q[Back(l)])
    PROVE  SpreadInv'
<1>1. /\ queue' \in [Links -> Seq(SpreadMessage)] /\ broken' \in SUBSET Links
      /\ \A l \in Links : l \in broken' => Back(l) \in broken' /\ queue'[l] = <<>>
      /\ \A l \in Links \ broken' : queue'[l] = q[l] /\ queue'[Back(l)] = q[Back(l)]
  BY Closing DEF SpreadInv
<1>2. SpreadTypes'
  BY <1>1 DEF SpreadInv, SpreadTypes
<1>3. ASSUME NEW l \in Links \ broken'
      PROVE  Balanced(side'[l].requested, queue'[l], queue'[Back(l)])
  BY <1>1, <1>3
<1> QED
  BY <1>2, <1>3 DEF SpreadInv

(* ... and of one that sends nothing.                                      *)
LEMMA QuietStep ==
    ASSUME SpreadInv, queue' \in [Links -> Seq(SpreadMessage)], broken' = broken,
           situation' = situation,
           node' \in [Nodes -> NodeState], side' \in [Links -> SideState],
           \A l \in broken : queue'[l] = <<>>,
           \A l \in Links \ broken : /\ side'[l].active
                                     /\ Balanced(side'[l].requested, queue'[l], queue'[Back(l)])
    PROVE  SpreadInv'
BY DEF SpreadInv, SpreadTypes

LEMMA ListStep ==
    ASSUME SpreadInv, UNCHANGED <<queue, broken, situation>>,
           node' \in [Nodes -> NodeState], side' \in [Links -> SideState],
           \A l \in Links \ broken : /\ side'[l].active = side[l].active
                                     /\ side'[l].requested = side[l].requested
    PROVE  SpreadInv'
<1>1. \A l \in Links \ broken : /\ side'[l].active
                                /\ Balanced(side'[l].requested, queue'[l], queue'[Back(l)])
  BY DEF SpreadInv, SpreadTypes
<1>2. queue' \in [Links -> Seq(SpreadMessage)] /\ \A l \in broken : queue'[l] = <<>>
  BY DEF SpreadInv, SpreadTypes
<1> QED
  BY <1>1, <1>2, QuietStep

LEMMA CacheTypes ==
    ASSUME NEW s \in NodeState
    PROVE  /\ block_accepted(s) \in NodeState
           /\ \A i \in Items : /\ cache_message(s, i) \in NodeState /\ broadcast(s, i) \in NodeState
                           /\ taken_and_broadcast(s, i) \in NodeState
<1>1. \A i \in Items : cache_message(s, i) \in NodeState
  BY DEF NodeState, CacheState, cache_message
<1>2. \A i \in Items : broadcast(s, i) \in NodeState
  BY <1>1 DEF NodeState, broadcast
<1>3. \A i \in Items : taken_and_broadcast(s, i) \in NodeState
  BY <1>2 DEF NodeState, taken_and_broadcast
<1>4. block_accepted(s) \in NodeState
  <2> DEFINE clock == s.block_clock + 1
             kept == IF clock > CacheBlocks
                     THEN [i \in Items |-> IF Cached(s, i) /\ s.cache[i] >= clock - CacheBlocks
                                           THEN s.cache[i] ELSE None]
                     ELSE s.cache
  <2>1. clock \in Nat
    BY DEF NodeState
  <2>2. s.cache \in CacheState
    BY DEF NodeState
  <2>3. \A i \in Items : (IF Cached(s, i) /\ s.cache[i] >= clock - CacheBlocks
                          THEN s.cache[i] ELSE None) \in Nat \cup {None}
    BY <2>2 DEF CacheState
  <2>4. kept \in CacheState
    BY <2>2, <2>3, Zenon DEF CacheState
  <2>5. block_accepted(s) = [s EXCEPT !.block_clock = clock, !.cache = kept]
    BY DEF block_accepted
  <2> HIDE DEF clock, kept
  <2> QED
    BY <2>1, <2>4, <2>5 DEF NodeState
<1> QED
  BY <1>1, <1>2, <1>3, <1>4

LEMMA ClearedSide ==
    ASSUME NEW e \in SideState
    PROVE  /\ clear_old_inventory(e) \in SideState
           /\ clear_old_inventory(e).active = e.active
           /\ clear_old_inventory(e).requested = e.requested
BY DEF SideState, clear_old_inventory

LEMMA NodeUpdates ==
    ASSUME node \in [Nodes -> NodeState], NEW n \in Nodes, NEW items \in SUBSET Items,
           NEW flag \in BOOLEAN
    PROVE  /\ [node EXCEPT ![n].items_to_fetch_updated = flag] \in [Nodes -> NodeState]
           /\ [node EXCEPT ![n].handled = items] \in [Nodes -> NodeState]
           /\ [node EXCEPT ![n].new_inventory = items] \in [Nodes -> NodeState]
           /\ [node EXCEPT ![n].handled = items, ![n].items_to_fetch_updated = flag]
                \in [Nodes -> NodeState]
           /\ [node EXCEPT ![n].items_to_fetch = items, ![n].items_to_fetch_updated = flag]
                \in [Nodes -> NodeState]
           /\ \A cache \in CacheState :
                [node EXCEPT ![n].new_inventory = items, ![n].cache = cache] \in [Nodes -> NodeState]
<1>1. [node EXCEPT ![n].items_to_fetch_updated = flag] \in [Nodes -> NodeState]
  BY DEF NodeState
<1>2. [node EXCEPT ![n].handled = items] \in [Nodes -> NodeState]
  BY DEF NodeState
<1>3. [node EXCEPT ![n].new_inventory = items] \in [Nodes -> NodeState]
  BY DEF NodeState
<1>4. [node EXCEPT ![n].handled = items, ![n].items_to_fetch_updated = flag]
        \in [Nodes -> NodeState]
  BY DEF NodeState
<1>5. [node EXCEPT ![n].items_to_fetch = items, ![n].items_to_fetch_updated = flag]
        \in [Nodes -> NodeState]
  BY DEF NodeState
<1>6. ASSUME NEW cache \in CacheState
      PROVE  [node EXCEPT ![n].new_inventory = items, ![n].cache = cache] \in [Nodes -> NodeState]
  <2>1. [node[n] EXCEPT !.new_inventory = items, !.cache = cache] \in NodeState
    BY DEF NodeState
  <2> QED
    BY <2>1
<1> QED
  BY <1>1, <1>2, <1>3, <1>4, <1>5, <1>6

LEMMA SideUpdates ==
    ASSUME NEW e \in SideState, NEW items \in SUBSET Items
    PROVE  /\ [e EXCEPT !.requested = items] \in SideState
           /\ [e EXCEPT !.requested = items].active = e.active
           /\ [e EXCEPT !.advertised_to_peer = items] \in SideState
           /\ [e EXCEPT !.advertised_to_peer = items].active = e.active
           /\ [e EXCEPT !.advertised_to_peer = items].requested = e.requested
BY DEF SideState

LEMMA ClosedRequest ==
    ASSUME NEW e \in SideState, NEW items \in SUBSET Items
    PROVE  /\ \A more \in SUBSET Items :
                LET f == [e EXCEPT !.requested = items, !.advertised_to_us = more]
                IN  f \in SideState /\ f.active = e.active /\ f.requested = items
           /\ \A i \in Items :
                LET f == [e EXCEPT !.requested = items, !.handling = i]
                IN  f \in SideState /\ f.active = e.active /\ f.requested = items
BY DEF SideState

LEMMA SpreadFields ==
    ASSUME SpreadInv
    PROVE  /\ node \in [Nodes -> NodeState] /\ side \in [Links -> SideState]
           /\ queue \in [Links -> Seq(SpreadMessage)] /\ broken \in SUBSET Links
           /\ situation \in Situations
           /\ \A l \in Links : l \in broken => Back(l) \in broken /\ queue[l] = <<>>
           /\ \A l \in Links \ broken : /\ side[l].active
                                        /\ Balanced(side[l].requested, queue[l], queue[Back(l)])
BY DEF SpreadInv, SpreadTypes

LEMMA ClientSteps ==
    ASSUME SpreadInv, NEW n \in Nodes,
           \/ \E i \in Items : client_broadcast(n, i)
           \/ rebroadcast_pending_loop(n)
           \/ another_block_accepted(n)
    PROVE  SpreadInv'
<1> USE SpreadFields
<1>1. ASSUME NEW i \in Items, client_broadcast(n, i) PROVE SpreadInv'
  <2>1. /\ node' = [node EXCEPT ![n] = taken_and_broadcast(node[n], i)]
        /\ UNCHANGED <<side, queue, broken, situation>>
    BY <1>1 DEF client_broadcast
  <2>2. node' \in [Nodes -> NodeState]
    BY <2>1, CacheTypes
  <2> QED
    BY <2>1, <2>2, ListStep
<1>2. ASSUME rebroadcast_pending_loop(n) PROVE SpreadInv'
  <2> DEFINE pending == node[n].accepted \cap Transactions
             missing == {i \in pending : ~Cached(node[n], i)}
             stored == [i \in Items |-> IF i \in missing THEN node[n].block_clock
                                        ELSE node[n].cache[i]]
             listed == node[n].new_inventory \cup pending
  <2>1. node' = [node EXCEPT ![n].new_inventory = listed, ![n].cache = stored]
        /\ UNCHANGED <<side, queue, broken, situation>>
    BY <1>2 DEF rebroadcast_pending_loop
  <2>2. listed \in SUBSET Items
    BY DEF NodeState, Items
  <2>3. stored \in CacheState
    <3>1. node[n].cache \in CacheState /\ node[n].block_clock \in Nat
      BY DEF NodeState
    <3> QED
      BY <3>1 DEF CacheState
  <2> HIDE DEF listed, stored
  <2>4. node' \in [Nodes -> NodeState]
    BY <2>1, <2>2, <2>3, NodeUpdates
  <2> QED
    BY <2>1, <2>4, ListStep
<1>3. ASSUME another_block_accepted(n) PROVE SpreadInv'
  <2>1. /\ node' = [node EXCEPT ![n] = block_accepted(node[n])]
        /\ side' = [l \in Links |-> IF l \in Peers(n) THEN clear_old_inventory(side[l]) ELSE side[l]]
        /\ UNCHANGED <<queue, broken, situation>>
    BY <1>3 DEF another_block_accepted
  <2>2. node' \in [Nodes -> NodeState]
    BY <2>1, CacheTypes
  <2>3. \A l \in Links : /\ side'[l] \in SideState /\ side'[l].active = side[l].active
                         /\ side'[l].requested = side[l].requested
    BY <2>1, ClearedSide
  <2>4. side' \in [Links -> SideState]
    BY <2>1, <2>3
  <2> QED
    BY <2>1, <2>2, <2>3, <2>4, ListStep
<1> QED
  BY <1>1, <1>2, <1>3

LEMMA QuietSteps ==
    ASSUME SpreadInv, NEW l \in Links,
           \/ item_rejected(l) \/ item_throttled(l) \/ inhibition_ends(l)
           \/ connection_closed(l) \/ inventory_grows_old(l)
    PROVE  SpreadInv'
<1> USE SpreadFields
<1>0. l[1] \in Nodes
  BY BackLinks
<1>1. ASSUME item_rejected(l) PROVE SpreadInv'
  <2>1. side[l].handling \in Items
    BY <1>1 DEF item_rejected, SideState
  <2>2. side' \in [Links -> SideState]
    BY <1>1 DEF item_rejected, SideState
  <2> DEFINE seen == node[l[1]].handled \cup {side[l].handling}
             wake == node[l[1]].items_to_fetch_updated \/ (side[l].handling \in Blocks /\ idle(side[l]))
  <2>3. node' = [node EXCEPT ![l[1]].handled = seen, ![l[1]].items_to_fetch_updated = wake]
    BY <1>1 DEF item_rejected
  <2>5. seen \in SUBSET Items /\ wake \in BOOLEAN
    BY <1>0, <2>1 DEF NodeState
  <2> HIDE DEF seen, wake
  <2>6. node' \in [Nodes -> NodeState]
    BY <1>0, <2>3, <2>5, NodeUpdates
  <2>4. \A k \in Links : side'[k].active = side[k].active /\ side'[k].requested = side[k].requested
    BY <1>1 DEF item_rejected, SideState
  <2> QED
    BY <1>1, <2>2, <2>4, <2>6, ListStep DEF item_rejected
<1>2. ASSUME item_throttled(l) PROVE SpreadInv'
  <2>1. side[l].handling \in Items
    BY <1>2 DEF item_throttled, SideState
  <2>2. side' \in [Links -> SideState]
    <3>1. side' = [side EXCEPT ![l].handling = None, ![l].inhibited = TRUE]
      BY <1>2 DEF item_throttled
    <3>2. [side[l] EXCEPT !.handling = None, !.inhibited = TRUE] \in SideState
      BY DEF SideState
    <3> QED
      BY <3>1, <3>2
  <2>3. node' \in [Nodes -> NodeState]
    <3> DEFINE seen == node[l[1]].handled \cup {side[l].handling}
    <3>1. node' = [node EXCEPT ![l[1]].handled = seen]
      BY <1>2 DEF item_throttled
    <3>2. seen \in SUBSET Items
      BY <1>0, <2>1 DEF NodeState
    <3> HIDE DEF seen
    <3> QED
      BY <1>0, <3>1, <3>2, NodeUpdates
  <2>4. \A k \in Links : side'[k].active = side[k].active /\ side'[k].requested = side[k].requested
    BY <1>2 DEF item_throttled, SideState
  <2> QED
    BY <1>2, <2>2, <2>3, <2>4, ListStep DEF item_throttled
<1>3. ASSUME inhibition_ends(l) PROVE SpreadInv'
  <2>2. side' \in [Links -> SideState]
    BY <1>3 DEF inhibition_ends, SideState
  <2>3. node' \in [Nodes -> NodeState]
    <3> DEFINE wake == \/ node[l[1]].items_to_fetch_updated
                       \/ /\ side[l].active /\ idle(side[l])
                          /\ node[l[1]].items_to_fetch \cap side[l].advertised_to_us # {}
    <3>1. node' = [node EXCEPT ![l[1]].items_to_fetch_updated = wake]
      BY <1>3 DEF inhibition_ends
    <3>2. wake \in BOOLEAN
      BY <1>0 DEF NodeState
    <3> HIDE DEF wake
    <3> QED
      BY <1>0, <3>1, <3>2, NodeUpdates
  <2>4. \A k \in Links : side'[k].active = side[k].active /\ side'[k].requested = side[k].requested
    BY <1>3 DEF inhibition_ends, SideState
  <2> QED
    BY <1>3, <2>2, <2>3, <2>4, ListStep DEF inhibition_ends
<1>4. ASSUME connection_closed(l) PROVE SpreadInv'
  <2> DEFINE again == {i \in side[l].requested : is_item_in_any_peers_inventory(Peers(l[1]) \ {l}, i)}
  <2>1. /\ l \in broken /\ side' = [side EXCEPT ![l] = Closed]
        /\ node' = [node EXCEPT ![l[1]].items_to_fetch = @ \cup again,
                                ![l[1]].items_to_fetch_updated = @ \/ side[l].requested # {}]
        /\ UNCHANGED <<queue, broken, situation>>
    BY <1>4 DEF connection_closed
  <2>2. again \in SUBSET Items
    BY DEF SideState
  <2> HIDE DEF again
  <2>3. node' \in [Nodes -> NodeState]
    <3> DEFINE wanted == node[l[1]].items_to_fetch \cup again
               wake == node[l[1]].items_to_fetch_updated \/ side[l].requested # {}
    <3>1. node' = [node EXCEPT ![l[1]].items_to_fetch = wanted, ![l[1]].items_to_fetch_updated = wake]
      BY <2>1
    <3>2. wanted \in SUBSET Items /\ wake \in BOOLEAN
      BY <1>0, <2>2 DEF NodeState
    <3> HIDE DEF wanted, wake
    <3> QED
      BY <1>0, <3>1, <3>2, NodeUpdates
  <2>4. Closed \in SideState
    BY DEF Closed, NewSide, SideState
  <2>5. side' \in [Links -> SideState] /\ \A k \in Links \ broken : side'[k] = side[k]
    BY <2>1, <2>4
  <2> QED
    BY <2>1, <2>3, <2>5, ListStep
<1>5. ASSUME inventory_grows_old(l) PROVE SpreadInv'
  <2>2. side' \in [Links -> SideState]
    <3> DEFINE older == side[l].old \cup side[l].advertised_to_us \cup side[l].advertised_to_peer
    <3>1. side' = [side EXCEPT ![l].old = older]
      BY <1>5 DEF inventory_grows_old
    <3>2. older \in SUBSET Items
      BY DEF SideState
    <3> HIDE DEF older
    <3> QED
      BY <3>1, <3>2 DEF SideState
  <2>3. \A k \in Links : side'[k].active = side[k].active /\ side'[k].requested = side[k].requested
    BY <1>5 DEF inventory_grows_old, SideState
  <2> QED
    BY <1>5, <2>2, <2>3, ListStep DEF inventory_grows_old
<1> QED
  BY <1>1, <1>2, <1>3, <1>4, <1>5

-----------------------------------------------------------------------------
(* Steps that close connections.                                           *)

LEMMA ClosingSteps ==
    ASSUME SpreadInv, NEW l \in Links, item_accepted(l) \/ connection_fails(l)
    PROVE  SpreadInv'
<1> USE SpreadFields
<1>1. ASSUME connection_fails(l) PROVE SpreadInv'
  <2>1. CloseConnections({l}, queue) /\ UNCHANGED <<node, side, situation>>
    BY <1>1 DEF connection_fails
  <2>2. {l} \in SUBSET Links
    OBVIOUS
  <2>3. broken \subseteq broken'
    BY <2>1 DEF CloseConnections
  <2>4. \A k \in Links \ broken' : /\ side'[k].active
                                   /\ Balanced(side'[k].requested, queue[k], queue[Back(k)])
    BY <2>1, <2>3
  <2> QED
    BY <2>1, <2>2, <2>4, SentStep
<1>2. ASSUME item_accepted(l) PROVE SpreadInv'
  <2> DEFINE n == l[1]
             i == side[l].handling
             old == {k \in Peers(n) : <<k[2], i>> \in situation.outdated}
             kept(k) == IF i \in Blocks THEN clear_old_inventory(side[k]) ELSE side[k]
             told == taken_and_broadcast(node[n], i)
             before(k) == IF k \in Peers(n) THEN kept(k) ELSE side[k]
             after == IF i \in Transactions THEN told
                      ELSE [block_accepted(told) EXCEPT !.items_to_fetch_updated = @ \/ idle(side[l])]
  <2>1. /\ i # None /\ CloseConnections(old, queue) /\ situation' = situation
        /\ node' = [node EXCEPT ![n] = after]
        /\ side' = [k \in Links |-> [before(k) EXCEPT !.handling = IF k = l THEN None ELSE @,
                                                      !.active = @ /\ k \notin old]]
    BY <1>2 DEF item_accepted
  <2>2. i \in Items /\ n \in Nodes
    BY <2>1, BackLinks DEF SideState
  <2>3. \A k \in Links : /\ before(k) \in SideState /\ before(k).active = side[k].active
                         /\ before(k).requested = side[k].requested
    BY ClearedSide
  <2>4. told \in NodeState
    BY <2>2, CacheTypes
  <2>5. after \in NodeState
    <3>1. block_accepted(told) \in NodeState
      BY <2>4, CacheTypes
    <3> HIDE DEF told
    <3>2. [block_accepted(told) EXCEPT !.items_to_fetch_updated = @ \/ idle(side[l])] \in NodeState
      BY <3>1 DEF NodeState, idle
    <3> QED
      BY <2>4, <3>2
  <2>6. old \in SUBSET Links
    BY DEF Peers
  <2> HIDE DEF old, before, after, told
  <2>7. node' \in [Nodes -> NodeState]
    BY <2>1, <2>2, <2>5
  <2>8. \A k \in Links : /\ side'[k] \in SideState /\ side'[k].requested = side[k].requested
                         /\ (k \notin old => side'[k].active = side[k].active)
    <3> TAKE k \in Links
    <3>1. side'[k] = [before(k) EXCEPT !.handling = IF k = l THEN None ELSE @,
                                       !.active = @ /\ k \notin old]
      BY <2>1
    <3>2. before(k) \in SideState /\ before(k).active \in BOOLEAN
      BY <2>3 DEF SideState
    <3>3. (IF k = l THEN None ELSE before(k).handling) \in Items \cup {None}
      BY <2>3 DEF SideState
    <3> QED
      BY <2>3, <3>1, <3>2, <3>3 DEF SideState
  <2>9. side' \in [Links -> SideState]
    BY <2>1, <2>8
  <2>10. broken \subseteq broken' /\ old \subseteq broken'
    BY <2>1 DEF CloseConnections, Both
  <2>11. \A k \in Links \ broken' : /\ side'[k].active
                                    /\ Balanced(side'[k].requested, queue[k], queue[Back(k)])
    BY <2>8, <2>10
  <2> QED
    BY <2>1, <2>6, <2>7, <2>9, <2>11, SentStep
<1> QED
  BY <1>1, <1>2

-----------------------------------------------------------------------------
(* The loops.                                                              *)

LEMMA CarriesSelf ==
    ASSUME NEW q
    PROVE  Carries(q, q)
BY DEF Carries

LEMMA CarriesMore ==
    ASSUME NEW q, NEW r \in Seq(SpreadMessage), NEW m \in SpreadMessage, Carries(q, r),
           m.type \notin Asking \cup Answering
    PROVE  Carries(q, Append(r, m))
BY AppendOther DEF Carries

LEMMA InventoryAppended ==
    ASSUME NEW q, NEW r \in Seq(SpreadMessage), Carries(q, r), NEW items \in SUBSET Items, NEW type
    PROVE  /\ r \o InventoryOf(items, type) \in Seq(SpreadMessage)
           /\ Carries(q, r \o InventoryOf(items, type))
<1>1. CASE items \cap type = {}
  <2>1. r \o InventoryOf(items, type) = r
    BY <1>1 DEF InventoryOf
  <2> QED
    BY <2>1
<1>2. CASE items \cap type # {}
  <2> DEFINE m == Inventory(items \cap type)
  <2>1. m \in SpreadMessage
    BY MessageType
  <2>2. m.type \notin Asking \cup Answering
    BY DEF Inventory, Asking, Answering
  <2>3. InventoryOf(items, type) = <<m>>
    BY <1>2 DEF InventoryOf
  <2> HIDE DEF m
  <2>4. r \o <<m>> = Append(r, m)
    BY <2>1
  <2>5. Append(r, m) \in Seq(SpreadMessage) /\ Carries(q, Append(r, m))
    BY <2>1, <2>2, CarriesMore
  <2> QED
    BY <2>3, <2>4, <2>5
<1> QED
  BY <1>1, <1>2

LEMMA AdvertiseStep ==
    ASSUME SpreadInv, NEW n \in Nodes, advertise_inventory_loop(n)
    PROVE  SpreadInv'
<1> USE SpreadFields
<1> DEFINE told(l) == [side[l] EXCEPT !.advertised_to_peer = @ \cup NewTo(l)]
           q == [l \in Links |->
                   IF l \in Peers(n) THEN queue[l] \o InventoryOf(NewTo(l), Transactions)
                                                   \o InventoryOf(NewTo(l), Blocks)
                   ELSE queue[l]]
           links == {l \in Links : Len(q[l]) > situation.queue_limit}
<1>1. /\ node' = [node EXCEPT ![n].new_inventory = {}]
      /\ side' = [l \in Links |-> IF l \in Peers(n) THEN clear_old_inventory(told(l)) ELSE side[l]]
      /\ CloseConnections(links, q) /\ situation' = situation
  BY DEF advertise_inventory_loop, send_message
<1>2. node' \in [Nodes -> NodeState]
  BY <1>1, NodeUpdates
<1>3. ASSUME NEW l \in Links
      PROVE  /\ NewTo(l) \in SUBSET Items
             /\ told(l) \in SideState /\ told(l).active = side[l].active
             /\ told(l).requested = side[l].requested
  <2>1. NewTo(l) \in SUBSET Items
    BY BackLinks DEF NewTo, NodeState
  <2> DEFINE listed == side[l].advertised_to_peer \cup NewTo(l)
  <2>2. listed \in SUBSET Items
    BY <2>1 DEF SideState
  <2>3. told(l) = [side[l] EXCEPT !.advertised_to_peer = listed]
    OBVIOUS
  <2>4. side[l] \in SideState
    OBVIOUS
  <2> HIDE DEF listed, told
  <2> DEFINE f == [side[l] EXCEPT !.advertised_to_peer = listed]
  <2>5. f \in SideState /\ f.active = side[l].active /\ f.requested = side[l].requested
    BY ONLY <2>2, <2>4, SideUpdates
  <2> HIDE DEF f
  <2>6. told(l) \in SideState /\ told(l).active = side[l].active
        /\ told(l).requested = side[l].requested
    BY <2>3, <2>5 DEF f
  <2> QED
    BY <2>1, <2>6
<1>4. ASSUME NEW l \in Links
      PROVE  q[l] \in Seq(SpreadMessage) /\ Carries(queue[l], q[l])
  <2>1. CASE l \notin Peers(n)
    <3>1. q[l] = queue[l] /\ queue[l] \in Seq(SpreadMessage)
      BY <2>1
    <3> HIDE DEF q
    <3> QED
      BY <3>1, CarriesSelf
  <2>2. CASE l \in Peers(n)
    <3> DEFINE r == queue[l] \o InventoryOf(NewTo(l), Transactions)
    <3>1. r \in Seq(SpreadMessage) /\ Carries(queue[l], r)
      BY <1>3, CarriesSelf, InventoryAppended
    <3>2. q[l] = r \o InventoryOf(NewTo(l), Blocks)
      BY <2>2
    <3>3. NewTo(l) \in SUBSET Items
      BY <1>3
    <3> HIDE DEF r, q
    <3>4. /\ r \o InventoryOf(NewTo(l), Blocks) \in Seq(SpreadMessage)
          /\ Carries(queue[l], r \o InventoryOf(NewTo(l), Blocks))
      BY <3>1, <3>3, InventoryAppended
    <3> QED
      BY <3>2, <3>4
  <2> QED
    BY <2>1, <2>2
<1>5. q \in [Links -> Seq(SpreadMessage)] /\ links \in SUBSET Links
  <2>1. q = [l \in Links |-> q[l]]
    OBVIOUS
  <2> HIDE DEF q
  <2> QED
    BY <1>4, <2>1
<1> HIDE DEF q, links
<1>6. \A l \in Links : /\ side'[l] \in SideState /\ side'[l].active = side[l].active
                       /\ side'[l].requested = side[l].requested
  <2> HIDE DEF told
  <2> QED
    BY <1>1, <1>3, ClearedSide
<1>7. side' \in [Links -> SideState]
  BY <1>1, <1>6
<1>8. broken \subseteq broken'
  BY <1>1 DEF CloseConnections
<1>9. ASSUME NEW l \in Links \ broken'
      PROVE  side'[l].active /\ Balanced(side'[l].requested, q[l], q[Back(l)])
  <2>1. side[l].active /\ Balanced(side[l].requested, queue[l], queue[Back(l)])
    BY <1>8
  <2>2. Carries(queue[l], q[l]) /\ Carries(queue[Back(l)], q[Back(l)])
    BY <1>4, BackLinks
  <2> QED
    BY <1>6, <2>1, <2>2, StillBalanced
<1> QED
  BY <1>1, <1>2, <1>5, <1>7, <1>9, SentStep

LEMMA FetchStep ==
    ASSUME SpreadInv, NEW n \in Nodes, fetch_items_loop(n)
    PROVE  SpreadInv'
<1> USE SpreadFields
<1>1. PICK a \in Assignments(n) :
        /\ node' = [node EXCEPT ![n].items_to_fetch = @ \ DOMAIN a,
                                ![n].items_to_fetch_updated = FALSE]
        /\ side' = [l \in Links |->
                      [side[l] EXCEPT !.requested = @ \cup {i \in DOMAIN a : a[i] = l}]]
        /\ send_message([l \in Links |-> IF l \in Range(a)
                                         THEN Append(queue[l], Fetch(CHOOSE i \in DOMAIN a : a[i] = l))
                                         ELSE queue[l]])
        /\ situation' = situation
  BY DEF fetch_items_loop
<1> DEFINE asked(l) == {i \in DOMAIN a : a[i] = l}
           which(l) == CHOOSE i \in DOMAIN a : a[i] = l
           q == [l \in Links |-> IF l \in Range(a) THEN Append(queue[l], Fetch(which(l))) ELSE queue[l]]
           links == {l \in Links : Len(q[l]) > situation.queue_limit}
<1>2. CloseConnections(links, q)
  BY <1>1 DEF send_message
<1>3. /\ DOMAIN a \in SUBSET Items /\ IsInjective(a)
      /\ \A i \in DOMAIN a : side[a[i]].requested = {} /\ a[i] \in Links
  <2>1. PICK D \in SUBSET node[n].items_to_fetch : a \in [D -> Peers(n)]
    BY DEF Assignments
  <2>2. IsInjective(a) /\ \A i \in DOMAIN a : a[i] \in Willing(n, i)
    BY DEF Assignments
  <2>3. node[n].items_to_fetch \in SUBSET Items
    BY DEF NodeState
  <2> QED
    BY <2>1, <2>2, <2>3 DEF Willing, Peers, idle
<1>4. ASSUME NEW l \in Links, l \in Range(a)
      PROVE  /\ which(l) \in Items /\ asked(l) = {which(l)} /\ side[l].requested = {}
             /\ q[l] = Append(queue[l], Fetch(which(l)))
  <2>1. PICK i \in DOMAIN a : a[i] = l
    BY <1>4 DEF Range
  <2>2. which(l) \in DOMAIN a /\ a[which(l)] = l
    BY <2>1
  <2> HIDE DEF which
  <2>3. \A j \in DOMAIN a : a[j] = l => j = which(l)
    BY <1>3, <2>2 DEF IsInjective
  <2> QED
    BY <1>3, <1>4, <2>2, <2>3
<1>5. ASSUME NEW l \in Links, l \notin Range(a)
      PROVE  asked(l) = {} /\ q[l] = queue[l]
  BY <1>5 DEF Range
<1>6. ASSUME NEW l \in Links
      PROVE  /\ q[l] \in Seq(SpreadMessage) /\ asked(l) \in SUBSET Items
             /\ NoneIn(queue[l], Answering) => NoneIn(q[l], Answering)
             /\ \A i : OneIn(queue[l], Answering, i) => OneIn(q[l], Answering, i)
  <2>1. CASE l \notin Range(a)
    BY <1>5, <2>1
  <2>2. CASE l \in Range(a)
    <3>1. which(l) \in Items /\ q[l] = Append(queue[l], Fetch(which(l))) /\ asked(l) = {which(l)}
      BY <1>4, <2>2
    <3> DEFINE m == Fetch(which(l))
    <3>2. m \in SpreadMessage /\ m.type \notin Answering
      BY <3>1, MessageType DEF Answering, Fetch
    <3> HIDE DEF m, which, asked, q
    <3>3. q[l] = Append(queue[l], m)
      BY <3>1 DEF m
    <3>4. queue[l] \in Seq(SpreadMessage)
      OBVIOUS
    <3> QED
      BY <3>1, <3>2, <3>3, <3>4, AppendOther
  <2> QED
    BY <2>1, <2>2
<1>7. q \in [Links -> Seq(SpreadMessage)] /\ links \in SUBSET Links
  <2>1. q = [l \in Links |-> q[l]]
    OBVIOUS
  <2> HIDE DEF q, asked
  <2> QED
    BY <1>6, <2>1
<1>8. side' = [l \in Links |-> [side[l] EXCEPT !.requested = @ \cup asked(l)]]
  BY <1>1
<1> HIDE DEF q, links, asked, which
<1>9. \A l \in Links : /\ side'[l] \in SideState /\ side'[l].active = side[l].active
                       /\ side'[l].requested = side[l].requested \cup asked(l)
  <2> TAKE l \in Links
  <2> DEFINE r == side[l].requested \cup asked(l)
  <2>1. side'[l] = [side[l] EXCEPT !.requested = r]
    BY <1>8
  <2>2. r \in SUBSET Items
    BY <1>6 DEF SideState
  <2>3. side'[l].requested = r
    BY <2>1 DEF SideState
  <2> HIDE DEF r
  <2>4. side[l] \in SideState
    OBVIOUS
  <2>5. side'[l] \in SideState /\ side'[l].active = side[l].active
    BY ONLY <2>1, <2>2, <2>4, SideUpdates
  <2> QED
    BY <2>3, <2>5 DEF r
<1>10. side' \in [Links -> SideState]
  BY <1>8, <1>9
<1>11. node' \in [Nodes -> NodeState]
  <2> DEFINE rest == node[n].items_to_fetch \ DOMAIN a
  <2>1. node' = [node EXCEPT ![n].items_to_fetch = rest, ![n].items_to_fetch_updated = FALSE]
    BY <1>1
  <2>2. rest \in SUBSET Items
    BY DEF NodeState
  <2> HIDE DEF rest
  <2> QED
    BY <2>1, <2>2, NodeUpdates
<1>12. broken \subseteq broken'
  BY <1>2 DEF CloseConnections
<1>13. ASSUME NEW l \in Links \ broken'
       PROVE  side'[l].active /\ Balanced(side'[l].requested, q[l], q[Back(l)])
  <2>1. side[l].active /\ Balanced(side[l].requested, queue[l], queue[Back(l)])
    BY <1>12
  <2>2. /\ NoneIn(queue[Back(l)], Answering) => NoneIn(q[Back(l)], Answering)
        /\ \A i : OneIn(queue[Back(l)], Answering, i) => OneIn(q[Back(l)], Answering, i)
    BY <1>6, BackLinks
  <2>3. CASE l \notin Range(a)
    <3>1. side'[l].requested = side[l].requested /\ q[l] = queue[l]
      BY <1>5, <1>9, <2>3
    <3> QED
      BY <1>9, <2>1, <2>2, <3>1 DEF Balanced
  <2>4. CASE l \in Range(a)
    <3> DEFINE i == which(l)
               m == Fetch(i)
    <3>1. i \in Items /\ side[l].requested = {} /\ side'[l].requested = {i}
      BY <1>4, <1>9, <2>4
    <3>2. NoneIn(queue[l], Asking) /\ NoneIn(queue[Back(l)], Answering)
      BY <2>1, <3>1 DEF Balanced
    <3>3. q[l] = Append(queue[l], m)
      BY <1>4, <2>4
    <3>4. m \in SpreadMessage /\ m.type \in Asking /\ m.item = i
      BY <3>1, MessageType DEF Fetch, Asking
    <3> HIDE DEF i, m
    <3>5. OneIn(q[l], Asking, i)
      <4>1. queue[l] \in Seq(SpreadMessage)
        OBVIOUS
      <4> QED
        BY <3>2, <3>3, <3>4, <4>1, AppendFirst
    <3> QED
      BY <1>9, <2>1, <2>2, <3>1, <3>2, <3>5 DEF Balanced
  <2> QED
    BY <2>3, <2>4
<1> QED
  BY <1>1, <1>2, <1>7, <1>10, <1>11, <1>13, SentStep

-----------------------------------------------------------------------------
(* Messages.                                                               *)

(* What is handled comes through a connection that stands.                 *)
LEMMA ReceivedFacts ==
    ASSUME SpreadInv, NEW l \in Links, NEW type, Received(l, type)
    PROVE  /\ l \in Links \ broken /\ Back(l) \in Links \ broken
           /\ queue[Back(l)] \in Seq(SpreadMessage) /\ queue[Back(l)] # <<>>
           /\ Arrived(l) \in SpreadMessage /\ Arrived(l).type = type
           /\ queue[l] \in Seq(SpreadMessage)
           /\ Taken(l) \in [Links -> Seq(SpreadMessage)]
           /\ Taken(l)[Back(l)] = Tail(queue[Back(l)])
           /\ \A k \in Links : k # Back(l) => Taken(l)[k] = queue[k]
           /\ \A k \in broken : Taken(l)[k] = <<>>
<1> USE SpreadFields
<1>1. /\ Back(l) \in Links /\ Back(Back(l)) = l
      /\ queue[Back(l)] # <<>> /\ Head(queue[Back(l)]).type = type
  BY BackLinks DEF Received
<1>2. queue[Back(l)] \in Seq(SpreadMessage) /\ queue[l] \in Seq(SpreadMessage)
  BY <1>1
<1>3. l \notin broken /\ Back(l) \notin broken
  BY <1>1
<1> DEFINE q == queue[Back(l)]
<1>4. Head(q) \in SpreadMessage /\ Tail(q) \in Seq(SpreadMessage)
  BY <1>1, <1>2
<1>5. Taken(l) = [queue EXCEPT ![Back(l)] = Tail(q)]
  BY DEF Taken
<1> HIDE DEF q
<1>6. /\ Taken(l) \in [Links -> Seq(SpreadMessage)] /\ Taken(l)[Back(l)] = Tail(q)
      /\ \A k \in Links : k # Back(l) => Taken(l)[k] = queue[k]
  BY <1>1, <1>4, <1>5
<1>7. \A k \in broken : Taken(l)[k] = <<>>
  BY <1>3, <1>6
<1> QED
  BY <1>1, <1>2, <1>3, <1>4, <1>6, <1>7 DEF Arrived, q

LEMMA InventoryStep ==
    ASSUME SpreadInv, NEW l \in Links, on_item_ids_inventory_message(l)
    PROVE  SpreadInv'
<1> USE SpreadFields
<1> DEFINE n == l[1]
           b == Back(l)
           known == UNION {side[k].advertised_to_peer : k \in Peers(n)}
           asked == UNION {side[k].requested : k \in Peers(n)}
<1>1. /\ Received(l, "item_ids_inventory") /\ queue' = Taken(l)
      /\ UNCHANGED <<broken, situation>> /\ n \in Nodes
  BY BackLinks DEF on_item_ids_inventory_message
<1>2. PICK fresh \in Fitting(l, Arrived(l).items \ known) :
        /\ side' = [side EXCEPT ![l].advertised_to_us = @ \cup fresh]
        /\ node' = [node EXCEPT ![n].items_to_fetch = @ \cup ((fresh \ asked) \ node[n].items_to_fetch),
                                ![n].items_to_fetch_updated
                                  = @ \/ (fresh \ asked) \ node[n].items_to_fetch # {}]
  BY DEF on_item_ids_inventory_message
<1>3. fresh \in SUBSET Items
  <2>1. Arrived(l).items \in SUBSET Items
    BY <1>1, ReceivedFacts, ItemsOfMessage
  <2>2. fresh \in SUBSET (Arrived(l).items \ known)
    BY DEF Fitting
  <2> QED
    BY <2>1, <2>2
<1>4. node' \in [Nodes -> NodeState]
  <2> DEFINE wanted == node[n].items_to_fetch \cup ((fresh \ asked) \ node[n].items_to_fetch)
             wake == node[n].items_to_fetch_updated \/ (fresh \ asked) \ node[n].items_to_fetch # {}
  <2>1. node' = [node EXCEPT ![n].items_to_fetch = wanted, ![n].items_to_fetch_updated = wake]
    BY <1>2
  <2>2. wanted \in SUBSET Items /\ wake \in BOOLEAN
    BY <1>1, <1>3 DEF NodeState
  <2> HIDE DEF wanted, wake, n
  <2> QED
    BY <1>1, <2>1, <2>2, NodeUpdates
<1>5. /\ side' \in [Links -> SideState]
      /\ \A k \in Links : side'[k].active = side[k].active /\ side'[k].requested = side[k].requested
  <2> DEFINE offered == side[l].advertised_to_us \cup fresh
  <2>1. side' = [side EXCEPT ![l].advertised_to_us = offered]
    BY <1>2
  <2>2. offered \in SUBSET Items
    BY <1>3 DEF SideState
  <2> HIDE DEF offered
  <2>3. side' \in [Links -> SideState]
    BY <2>1, <2>2 DEF SideState
  <2>4. \A k \in Links : side'[k].active = side[k].active /\ side'[k].requested = side[k].requested
    BY <2>1 DEF SideState
  <2> QED
    BY <2>3, <2>4
<1>6. ASSUME NEW k \in Links
      PROVE  Carries(queue[k], queue'[k])
  <2>1. CASE k = b
    <3>1. /\ queue[b] \in Seq(SpreadMessage) /\ queue[b] # <<>> /\ queue'[b] = Tail(queue[b])
          /\ Head(queue[b]).type \notin Asking \cup Answering
      BY <1>1, ReceivedFacts DEF Arrived, Asking, Answering
    <3>2. Carries(queue[b], Tail(queue[b]))
      <4> DEFINE q == queue[b]
      <4> HIDE DEF q
      <4>1. Carries(q, Tail(q))
        BY <3>1, TailOther DEF Carries, q
      <4> QED
        BY <4>1 DEF q
    <3> QED
      BY <2>1, <3>1, <3>2
  <2>2. CASE k # b
    BY <1>1, <2>2, ReceivedFacts, CarriesSelf
  <2> QED
    BY <2>1, <2>2
<1>7. ASSUME NEW k \in Links \ broken
      PROVE  side'[k].active /\ Balanced(side'[k].requested, queue'[k], queue'[Back(k)])
  <2>1. side[k].active /\ Balanced(side[k].requested, queue[k], queue[Back(k)])
    OBVIOUS
  <2>2. Carries(queue[k], queue'[k]) /\ Carries(queue[Back(k)], queue'[Back(k)])
    BY <1>6, BackLinks
  <2> QED
    BY <1>5, <2>1, <2>2, StillBalanced
<1>8. queue' \in [Links -> Seq(SpreadMessage)] /\ \A k \in broken : queue'[k] = <<>>
  BY <1>1, ReceivedFacts
<1> QED
  BY <1>1, <1>4, <1>5, <1>7, <1>8, QuietStep

(* A request is answered.                                                  *)
LEMMA AnswerStep ==
    ASSUME SpreadInv, NEW l \in Links, on_fetch_items_message(l)
    PROVE  SpreadInv'
<1> USE SpreadFields
<1> DEFINE b == Back(l)
           i == Arrived(l).item
           reply == IF Cached(node[l[1]], i) THEN Item(i) ELSE NotAvailable(i)
           q == [Taken(l) EXCEPT ![l] = Append(@, reply)]
           links == {k \in Links : Len(q[k]) > situation.queue_limit}
<1>1. /\ Received(l, "fetch_items") /\ CloseConnections(links, q)
      /\ UNCHANGED <<node, side, situation>>
  BY DEF on_fetch_items_message, send_message
<1>2. /\ b \in Links \ broken /\ l \in Links \ broken /\ l # b /\ Back(b) = l
      /\ queue[b] \in Seq(SpreadMessage) /\ queue[b] # <<>> /\ queue[l] \in Seq(SpreadMessage)
      /\ Head(queue[b]).type = "fetch_items" /\ Head(queue[b]).item = i
      /\ Taken(l) \in [Links -> Seq(SpreadMessage)] /\ Taken(l)[b] = Tail(queue[b])
      /\ \A k \in Links : k # b => Taken(l)[k] = queue[k]
  BY <1>1, ReceivedFacts, BackLinks DEF Arrived
<1>3. i \in Items
  BY <1>1, ReceivedFacts, ItemOfMessage DEF Asking
<1>4. reply \in SpreadMessage /\ reply.type \in Answering /\ reply.item = i
  BY <1>3, MessageType DEF Item, NotAvailable, Answering
<1> HIDE DEF reply
<1>5. /\ q \in [Links -> Seq(SpreadMessage)]
      /\ q[b] = Tail(queue[b]) /\ q[l] = Append(queue[l], reply)
      /\ \A k \in Links \ {b, l} : q[k] = queue[k]
  BY <1>2, <1>4
<1>6. links \in SUBSET Links
  OBVIOUS
<1> HIDE DEF q, links, b, i
<1>7. broken \subseteq broken'
  BY <1>1 DEF CloseConnections
<1>8. Balanced(side[b].requested, q[b], q[l])
  <2>1. Balanced(side[b].requested, queue[b], queue[l])
    BY <1>2
  <2>2. 1 \in DOMAIN queue[b] /\ queue[b][1].type \in Asking
    BY <1>2 DEF Asking
  <2>3. ~NoneIn(queue[b], Asking)
    BY <2>2 DEF NoneIn
  <2>4. PICK j \in Items : /\ side[b].requested = {j} /\ OneIn(queue[b], Asking, j)
                           /\ NoneIn(queue[l], Answering)
    BY <2>1, <2>3 DEF Balanced
  <2>5. NoneIn(Tail(queue[b]), Asking) /\ i = j
    <3>1. Head(queue[b]).type \in Asking
      BY <1>2 DEF Asking
    <3> QED
      BY <1>2, <2>4, <3>1, TailOnly
  <2>6. OneIn(Append(queue[l], reply), Answering, i)
    BY <1>2, <1>4, <2>4, AppendFirst
  <2> QED
    BY <1>5, <2>4, <2>5, <2>6 DEF Balanced
<1>9. Balanced(side[l].requested, q[l], q[b])
  <2>1. Balanced(side[l].requested, queue[l], queue[b])
    BY <1>2 DEF b
  <2>2. reply.type \notin Asking /\ Head(queue[b]).type \notin Answering
    BY <1>2, <1>4 DEF Asking, Answering
  <2>3. /\ NoneIn(queue[l], Asking) => NoneIn(q[l], Asking)
        /\ \A j : OneIn(queue[l], Asking, j) => OneIn(q[l], Asking, j)
    BY <1>2, <1>4, <1>5, <2>2, AppendOther
  <2>4. /\ NoneIn(queue[b], Answering) => NoneIn(q[b], Answering)
        /\ \A j : OneIn(queue[b], Answering, j) => OneIn(q[b], Answering, j)
    <3>1. /\ NoneIn(queue[b], Answering) => NoneIn(Tail(queue[b]), Answering)
          /\ \A j : OneIn(queue[b], Answering, j) => OneIn(Tail(queue[b]), Answering, j)
      BY <1>2, <2>2, TailOther
    <3> QED
      BY <1>5, <3>1
  <2> QED
    BY <2>1, <2>3, <2>4 DEF Balanced
<1>10. ASSUME NEW k \in Links \ broken'
       PROVE  side'[k].active /\ Balanced(side'[k].requested, q[k], q[Back(k)])
  <2>1. side'[k] = side[k] /\ side[k].active /\ Balanced(side[k].requested, queue[k], queue[Back(k)])
    BY <1>1, <1>7
  <2>2. CASE k = b
    BY <1>2, <1>8, <2>1, <2>2
  <2>3. CASE k = l
    BY <1>9, <2>1, <2>3 DEF b
  <2>4. CASE k # b /\ k # l
    <3>1. Back(k) # b /\ Back(k) # l /\ Back(k) \in Links
      BY <2>4, BackLinks DEF b
    <3> QED
      BY <1>5, <2>1, <2>4, <3>1
  <2> QED
    BY <2>2, <2>3, <2>4
<1>11. node' \in [Nodes -> NodeState] /\ side' \in [Links -> SideState] /\ situation' = situation
  BY <1>1
<1> QED
  BY <1>1, <1>5, <1>6, <1>10, <1>11, SentStep

(* An answer arrives: it was asked for, and with it the request is closed. *)
LEMMA AnswerArrives ==
    ASSUME SpreadInv, NEW l \in Links, NEW type \in Answering, Received(l, type)
    PROVE  /\ Arrived(l).item \in Items /\ side[l].requested = {Arrived(l).item}
           /\ Balanced({}, Taken(l)[l], Taken(l)[Back(l)])
           /\ \A k \in Links \ broken :
                k # l => Balanced(side[k].requested, Taken(l)[k], Taken(l)[Back(k)])
<1> USE SpreadFields
<1> DEFINE b == Back(l)
           i == Arrived(l).item
           q == queue[b]
<1>1. /\ b \in Links \ broken /\ l \in Links \ broken /\ l # b /\ Back(b) = l
      /\ q \in Seq(SpreadMessage) /\ q # <<>> /\ Head(q).type = type /\ Head(q).item = i
      /\ Taken(l)[b] = Tail(q) /\ \A k \in Links : k # b => Taken(l)[k] = queue[k]
  BY ReceivedFacts, BackLinks DEF Arrived
<1>2. 1 \in DOMAIN q /\ q[1].type \in Answering
  BY <1>1
<1> HIDE DEF q, i
<1>3. ~NoneIn(q, Answering)
  BY <1>2 DEF NoneIn
<1>4. Balanced(side[l].requested, queue[l], q)
  BY <1>1 DEF q
<1>5. PICK j \in Items : /\ side[l].requested = {j} /\ OneIn(q, Answering, j)
                         /\ NoneIn(queue[l], Asking)
  BY <1>3, <1>4 DEF Balanced
<1>6. NoneIn(Tail(q), Answering) /\ i = j
  BY <1>1, <1>5, TailOnly
<1>7. Balanced({}, Taken(l)[l], Taken(l)[b])
  BY <1>1, <1>5, <1>6 DEF Balanced
<1>8. ASSUME NEW k \in Links \ broken, k # l
      PROVE  Balanced(side[k].requested, Taken(l)[k], Taken(l)[Back(k)])
  <2>1. Balanced(side[k].requested, queue[k], queue[Back(k)])
    OBVIOUS
  <2>2. Back(k) # b /\ Back(k) \in Links
    BY <1>8, BackLinks
  <2>3. CASE k # b
    BY <1>1, <2>1, <2>2, <2>3
  <2>4. CASE k = b
    <3>1. Head(q).type \notin Asking
      BY <1>1 DEF Asking, Answering
    <3>2. /\ NoneIn(q, Asking) => NoneIn(Tail(q), Asking)
          /\ \A x : OneIn(q, Asking, x) => OneIn(Tail(q), Asking, x)
      BY <1>1, <3>1, TailOther
    <3>3. Taken(l)[k] = Tail(q) /\ Taken(l)[Back(k)] = queue[Back(k)] /\ queue[k] = q
      BY <1>1, <2>2, <2>4 DEF q
    <3> QED
      BY <2>1, <3>2, <3>3 DEF Balanced
  <2> QED
    BY <2>3, <2>4
<1> QED
  BY <1>5, <1>6, <1>7, <1>8 DEF i

LEMMA AnswerHandled ==
    ASSUME SpreadInv, NEW l \in Links, NEW type \in Answering, Received(l, type),
           queue' = Taken(l), UNCHANGED <<broken, situation>>,
           node' \in [Nodes -> NodeState], side' \in [Links -> SideState],
           side'[l].active = side[l].active, side'[l].requested = {},
           \A k \in Links \ {l} : side'[k] = side[k]
    PROVE  SpreadInv'
<1> USE SpreadFields
<1>1. queue' \in [Links -> Seq(SpreadMessage)] /\ \A k \in broken : queue'[k] = <<>>
  BY ReceivedFacts
<1>2. ASSUME NEW k \in Links \ broken
      PROVE  side'[k].active /\ Balanced(side'[k].requested, queue'[k], queue'[Back(k)])
  <2>1. CASE k = l
    BY <2>1, AnswerArrives
  <2>2. CASE k # l
    BY <2>2, AnswerArrives
  <2> QED
    BY <2>1, <2>2
<1> QED
  BY <1>1, <1>2, QuietStep

LEMMA NotAvailableStep ==
    ASSUME SpreadInv, NEW l \in Links, on_item_not_available_message(l)
    PROVE  SpreadInv'
<1> USE SpreadFields
<1> DEFINE n == l[1]
           i == Arrived(l).item
           found == is_item_in_any_peers_inventory(Peers(n) \ {l}, i)
           wanted == IF found THEN node[n].items_to_fetch \cup {i} ELSE node[n].items_to_fetch
           left == side[l].requested \ {i}
           offered == side[l].advertised_to_us \ {i}
<1>1. /\ Received(l, "item_not_available") /\ queue' = Taken(l) /\ UNCHANGED <<broken, situation>>
      /\ side' = [side EXCEPT ![l].requested = left, ![l].advertised_to_us = offered]
      /\ node' = [node EXCEPT ![n].items_to_fetch = wanted, ![n].items_to_fetch_updated = TRUE]
  BY DEF on_item_not_available_message
<1>2. i \in Items /\ left = {} /\ "item_not_available" \in Answering
  BY <1>1, AnswerArrives DEF Answering
<1>3. n \in Nodes /\ wanted \in SUBSET Items /\ offered \in SUBSET Items /\ left \in SUBSET Items
  <2>1. n \in Nodes
    BY BackLinks
  <2>2. node[n].items_to_fetch \in SUBSET Items /\ side[l].advertised_to_us \in SUBSET Items
    BY <2>1 DEF NodeState, SideState
  <2> QED
    BY <1>2, <2>1, <2>2
<1> HIDE DEF wanted, left, offered, n
<1>4. node' \in [Nodes -> NodeState]
  BY <1>1, <1>3, NodeUpdates
<1>5. /\ side' \in [Links -> SideState] /\ side'[l].active = side[l].active /\ side'[l].requested = left
      /\ \A k \in Links \ {l} : side'[k] = side[k]
  <2> DEFINE f == [side[l] EXCEPT !.requested = left, !.advertised_to_us = offered]
  <2>1. side[l] \in SideState
    OBVIOUS
  <2>2. f \in SideState /\ f.active = side[l].active /\ f.requested = left
    BY ONLY <1>3, <2>1, ClosedRequest
  <2>3. side' = [side EXCEPT ![l] = f]
    BY <1>1
  <2> HIDE DEF f
  <2> QED
    BY <2>2, <2>3
<1> QED
  BY <1>1, <1>2, <1>4, <1>5, AnswerHandled

LEMMA ItemStep ==
    ASSUME SpreadInv, NEW l \in Links, process_item(l)
    PROVE  SpreadInv'
<1> USE SpreadFields
<1> DEFINE n == l[1]
           i == Arrived(l).item
           wake == node[n].items_to_fetch_updated \/ (i \in Transactions /\ side[l].requested = {i})
           left == side[l].requested \ {i}
<1>1. Received(l, "item") /\ UNCHANGED situation
  BY DEF process_item
<1>2. i \in Items /\ side[l].requested = {i} /\ "item" \in Answering
  BY <1>1, AnswerArrives DEF Answering
<1>3. /\ queue' = Taken(l) /\ UNCHANGED broken
      /\ side' = [side EXCEPT ![l].requested = left, ![l].handling = i]
      /\ node' = [node EXCEPT ![n].items_to_fetch_updated = wake]
  BY <1>2 DEF process_item
<1>4. n \in Nodes /\ wake \in BOOLEAN /\ left = {}
  BY <1>2, BackLinks DEF NodeState
<1> HIDE DEF wake, left, n, i
<1>5. node' \in [Nodes -> NodeState]
  BY <1>3, <1>4, NodeUpdates
<1>6. /\ side' \in [Links -> SideState] /\ side'[l].active = side[l].active /\ side'[l].requested = left
      /\ \A k \in Links \ {l} : side'[k] = side[k]
  <2> DEFINE f == [side[l] EXCEPT !.requested = left, !.handling = i]
  <2>1. side[l] \in SideState /\ left \in SUBSET Items /\ i \in Items
    BY <1>2, <1>4
  <2>2. f \in SideState /\ f.active = side[l].active /\ f.requested = left
    BY ONLY <2>1, ClosedRequest
  <2>3. side' = [side EXCEPT ![l] = f]
    BY <1>3
  <2> HIDE DEF f
  <2> QED
    BY <2>2, <2>3
<1> QED
  BY <1>1, <1>2, <1>3, <1>4, <1>5, <1>6, AnswerHandled

-----------------------------------------------------------------------------
LEMMA SpreadStarts ==
    ASSUME SpreadInit
    PROVE  SpreadInv
<1>1. /\ situation \in Situations /\ situation.links \in SUBSET Links
      /\ \A l \in Links : l \in situation.links => Back(l) \in situation.links
  BY SituationsAssumption DEF SpreadInit
<1>2. NewSide \in SideState /\ Closed \in SideState /\ NewSide.active /\ NewSide.requested = {}
  BY DEF NewSide, Closed, SideState
<1>3. NewNode \in NodeState
  <2>1. [i \in Items |-> None] \in CacheState
    BY DEF CacheState
  <2> QED
    BY <2>1 DEF NewNode, NodeState
<1>4. node \in [Nodes -> NodeState] /\ side \in [Links -> SideState]
  BY <1>2, <1>3 DEF SpreadInit
<1>5. queue \in [Links -> Seq(SpreadMessage)] /\ broken \in SUBSET Links
  BY DEF SpreadInit
<1>6. \A l \in Links : l \in broken => Back(l) \in broken /\ queue[l] = <<>>
  BY <1>1, BackLinks DEF SpreadInit
<1>7. \A l \in Links \ broken : side[l] = NewSide
  BY <1>1 DEF SpreadInit
<1>8. \A l \in Links : NoneIn(queue[l], Asking) /\ NoneIn(queue[l], Answering)
  BY DEF SpreadInit, NoneIn
<1>9. \A l \in Links \ broken : Balanced(side[l].requested, queue[l], queue[Back(l)])
  BY <1>2, <1>7, <1>8, BackLinks DEF Balanced
<1> QED
  BY <1>1, <1>2, <1>4, <1>5, <1>6, <1>7, <1>9 DEF SpreadInv, SpreadTypes

LEMMA SpreadStep ==
    ASSUME SpreadInv, [SpreadNext]_spread_vars
    PROVE  SpreadInv'
<1>1. ASSUME UNCHANGED spread_vars PROVE SpreadInv'
  BY <1>1, SpreadFields, ListStep DEF spread_vars
<1>2. ASSUME NEW n \in Nodes,
             \/ \E i \in Items : client_broadcast(n, i)
             \/ rebroadcast_pending_loop(n)
             \/ another_block_accepted(n)
             \/ NodeStep(n)
      PROVE  SpreadInv'
  BY <1>2, ClientSteps, AdvertiseStep, FetchStep DEF NodeStep
<1>3. ASSUME NEW l \in Links, LinkStep(l) \/ connection_fails(l) \/ inventory_grows_old(l)
      PROVE  SpreadInv'
  BY <1>3, QuietSteps, ClosingSteps, InventoryStep, AnswerStep, NotAvailableStep, ItemStep
     DEF LinkStep
<1> QED
  BY <1>1, <1>2, <1>3 DEF SpreadNext

(* A queue with one message of some types has one position of them.        *)
LEMMA OnePosition ==
    ASSUME NEW q, NEW types, NEW i, OneIn(q, types, i)
    PROVE  /\ Cardinality(Positions(q, types)) = 1
           /\ {q[k].item : k \in Positions(q, types)} = {i}
<1>1. PICK k \in DOMAIN q : /\ q[k].type \in types /\ q[k].item = i
                            /\ \A j \in DOMAIN q : q[j].type \in types => j = k
  BY DEF OneIn
<1>2. Positions(q, types) = {k}
  BY <1>1 DEF Positions
<1>3. Cardinality({k}) = 1
  BY FS_Singleton
<1> QED
  BY <1>1, <1>2, <1>3

LEMMA NoPosition ==
    ASSUME NEW q, NEW types, NoneIn(q, types)
    PROVE  Positions(q, types) = {} /\ Cardinality(Positions(q, types)) = 0
<1>1. Positions(q, types) = {}
  BY DEF Positions, NoneIn
<1> QED
  BY <1>1, FS_EmptySet

(* Every request that a node sent is on its way to the peer, or its answer *)
(* is on its way back, once; so no peer is ever disconnected for an item   *)
(* it was asked for, whatever is forgotten, refused, throttled, cut off or *)
(* dropped from the caches meanwhile.                                      *)
THEOREM RequestsAnsweredOnce == SpreadSpec => []AnsweredOnce
<1>1. SpreadInit => SpreadInv
  BY SpreadStarts
<1>2. SpreadInv /\ [SpreadNext]_spread_vars => SpreadInv'
  BY SpreadStep
<1>3. SpreadInv => AnsweredOnce
  <2> SUFFICES ASSUME SpreadInv, NEW l \in Links, l \notin broken
               PROVE  LET out == Positions(queue[l], {"fetch_items"})
                          back == Positions(queue[Back(l)], {"item", "item_not_available"})
                      IN  /\ Cardinality(out) + Cardinality(back) = Cardinality(side[l].requested)
                          /\ {queue[l][k].item : k \in out} \cup {queue[Back(l)][k].item : k \in back}
                               = side[l].requested
    BY DEF AnsweredOnce
  <2> DEFINE q == queue[l]
             r == queue[Back(l)]
             out == Positions(q, Asking)
             back == Positions(r, Answering)
             x == side[l].requested
  <2> HIDE DEF q, r, x
  <2>1. Balanced(x, q, r)
    BY SpreadFields DEF q, r, x
  <2>2. /\ Cardinality(out) + Cardinality(back) = Cardinality(x)
        /\ {q[k].item : k \in out} \cup {r[k].item : k \in back} = x
    <3>1. CASE x = {} /\ NoneIn(q, Asking) /\ NoneIn(r, Answering)
      BY <3>1, NoPosition, FS_EmptySet
    <3>2. ASSUME NEW i \in Items, x = {i}, OneIn(q, Asking, i), NoneIn(r, Answering)
          PROVE  /\ Cardinality(out) + Cardinality(back) = Cardinality(x)
                 /\ {q[k].item : k \in out} \cup {r[k].item : k \in back} = x
      <4>1. Cardinality(x) = 1
        BY <3>2, FS_Singleton
      <4>2. Cardinality(out) = 1 /\ {q[k].item : k \in out} = {i}
        BY <3>2, OnePosition
      <4>3. back = {} /\ Cardinality(back) = 0
        BY <3>2, NoPosition
      <4> QED
        BY <3>2, <4>1, <4>2, <4>3
    <3>3. ASSUME NEW i \in Items, x = {i}, NoneIn(q, Asking), OneIn(r, Answering, i)
          PROVE  /\ Cardinality(out) + Cardinality(back) = Cardinality(x)
                 /\ {q[k].item : k \in out} \cup {r[k].item : k \in back} = x
      <4>1. Cardinality(x) = 1
        BY <3>3, FS_Singleton
      <4>2. Cardinality(back) = 1 /\ {r[k].item : k \in back} = {i}
        BY <3>3, OnePosition
      <4>3. out = {} /\ Cardinality(out) = 0
        BY <3>3, NoPosition
      <4> QED
        BY <3>3, <4>1, <4>2, <4>3
    <3> QED
      BY <2>1, <3>1, <3>2, <3>3 DEF Balanced
  <2> QED
    BY <2>2 DEF q, r, x, Asking, Answering
<1> QED
  BY <1>1, <1>2, <1>3, PTL DEF SpreadSpec
=============================================================================
