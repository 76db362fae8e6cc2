-------------------------- MODULE PeerConnections --------------------------
(***************************************************************************)
(* The life of connections between nodes (net/node.cpp, peer_connection,   *)
(* message_oriented_connection): connecting and accepting, the exchange of *)
(* hello messages, the lists a connection passes through, and its end.     *)
(*                                                                         *)
(* Each node holds one end of a connection.  Messages to an end arrive in  *)
(* order until the socket is closed.  Sending a hello takes a call to the  *)
(* client, so an end may handle messages before its own hello is out.      *)
(* Timeouts are those of terminate_inactive_connections_loop.              *)
(***************************************************************************)
EXTENDS Network, Integers, Sequences, FiniteSets

CONSTANTS
  Conns,
  From, To,   \* [Conns -> Nodes]: who connects to whom
  Maximum,    \* [Nodes -> Nat], _maximum_number_of_connections
  Desired,    \* _desired_number_of_connections
  Slow,       \* connections on which messages may take longer than the timeouts
  Settings    \* the situations the nodes may be in, see setting

ASSUME ConnsAssumption == /\ From \in [Conns -> Nodes] /\ To \in [Conns -> Nodes]
                          /\ \A c \in Conns : From[c] # To[c]
                          /\ Slow \subseteq Conns /\ IsFiniteSet(Conns)
ASSUME SettingsAssumption ==
  Settings \subseteq [potential_peers : [Nodes -> SUBSET Nodes],
                     foreign : SUBSET Nodes, stopping : SUBSET Nodes]
ASSUME LimitsAssumption == Maximum \in [Nodes -> Nat] /\ Desired \in Nat

VARIABLES
  end,        \* [Conns -> [Nodes -> state of the peer_connection there]]
  pipe,       \* [Conns -> [Nodes -> Seq(message)]], on the way to that node
  closed_by,  \* [Conns -> SUBSET Nodes], who has closed its socket
  shutting_down, \* nodes with _node_is_shutting_down
  setting     \* potential_peers: each node's _potential_peer_db;
              \* foreign: nodes on another chain, or too old for a fork;
              \* stopping: nodes that may be shut down

vars == <<end, pipe, closed_by, shutting_down, setting>>

Ends(c) == {From[c], To[c]}
Other(c, n) == IF n = From[c] THEN To[c] ELSE From[c]

NoEnd == [list |-> "none", our_state |-> "disconnected", their_state |-> "disconnected",
          node_id |-> FALSE, hello_sent |-> FALSE, we_have_requested_close |-> FALSE,
          they_have_requested_close |-> FALSE]

Listed(n, list) == {c \in Conns : n \in Ends(c) /\ end[c][n].list = list}
get_number_of_connections(n) ==
  Cardinality(Listed(n, "handshaking") \cup Listed(n, "active"))
\* Faulty variant: one connection more than the maximum.
is_accepting_one_more(n) == get_number_of_connections(n) <= Maximum[n] + 1

is_accepting_new_connections(n) == get_number_of_connections(n) <= Maximum[n]
is_wanting_new_connections(n) == get_number_of_connections(n) < Desired

\* Faulty variant: only active connections are considered.
is_already_active_to_id(n, m) ==
  \E c \in Listed(n, "active") : Other(c, n) = m /\ end[c][n].node_id

is_already_connected_to_id(n, m) ==
  \E c \in Listed(n, "active") \cup Listed(n, "handshaking") :
    Other(c, n) = m /\ end[c][n].node_id

\* The remote endpoint of an inbound connection is a port of the system's
\* choice, so only connections this node made count.
is_connection_to_endpoint_in_progress(n, m) ==
  \E c \in Listed(n, "active") \cup Listed(n, "handshaking") : From[c] = n /\ To[c] = m

-----------------------------------------------------------------------------
Init ==
  /\ end = [c \in Conns |-> [n \in Ends(c) |-> NoEnd]]
  /\ pipe = [c \in Conns |-> [n \in Ends(c) |-> <<>>]]
  /\ closed_by = [c \in Conns |-> {}]
  /\ shutting_down = {}
  /\ setting \in Settings

Put(c, n, e) == end' = [end EXCEPT ![c][n] = e]
CloseSocket(c, n) == closed_by' = [closed_by EXCEPT ![c] = @ \cup {n}]

\* What is sent to a closed socket is lost, and so is what a node that closes
\* its own has not read.
Send(q, c, n, msgs) ==
  IF closed_by[c] # {} THEN q ELSE [q EXCEPT ![c][Other(c, n)] = @ \o msgs]
Unread(q, c, n) == [q EXCEPT ![c][n] = <<>>]

\* on_connection_closed, schedule_peer_for_deletion: nothing is kept.
Gone == [NoEnd EXCEPT !.list = "gone"]

\* disconnect_from_peer: the closing message, or at once the end of the
\* socket when the other side has already asked for it.
disconnect_from_peer(c, n, e, q) ==
  /\ Put(c, n, [e EXCEPT !.list = "closing",
                         !.we_have_requested_close = @ \/ ~e.they_have_requested_close])
  /\ IF e.they_have_requested_close
     THEN CloseSocket(c, n) /\ pipe' = Unread(q, c, n)
     ELSE pipe' = Send(q, c, n, <<"closing_connection">>) /\ UNCHANGED closed_by

-----------------------------------------------------------------------------
(* Connecting.                                                             *)

\* p2p_network_connect_loop, connect_to
connect_to(c) ==
  LET n == From[c] IN
  /\ n \notin shutting_down
  /\ end[c][n].list = "none"
  /\ To[c] \in setting.potential_peers[n]
  /\ is_wanting_new_connections(n)
  /\ ~is_connection_to_endpoint_in_progress(n, To[c])
  /\ Put(c, n, [NoEnd EXCEPT !.list = "handshaking"])
  /\ UNCHANGED <<pipe, closed_by, shutting_down, setting>>

accept_loop(c) ==
  /\ To[c] \notin shutting_down
  /\ end[c][From[c]].list = "handshaking" /\ end[c][To[c]].list = "none"
  /\ closed_by[c] = {}
  /\ Put(c, To[c], [NoEnd EXCEPT !.list = "handshaking"])
  /\ UNCHANGED <<pipe, closed_by, shutting_down, setting>>

Negotiating(c) == \A n \in Ends(c) : /\ end[c][n].list = "handshaking"
                                     /\ end[c][n].our_state = "disconnected"

\* The keys are exchanged; both ends start their read loops.
connection_established(c) ==
  /\ Negotiating(c) /\ closed_by[c] = {}
  /\ end' = [end EXCEPT ![c] = [n \in Ends(c) |->
               [@[n] EXCEPT !.our_state = "just_connected", !.their_state = "just_connected"]]]
  /\ UNCHANGED <<pipe, closed_by, shutting_down, setting>>

\* The exchange fails: connect_to_task forgets the connection; its other end,
\* if there is one, stays in the list of its node.
connect_to_failed(c) ==
  LET n == From[c] IN
  /\ end[c][n].list \in {"handshaking", "terminating"}
  /\ end[c][n].our_state = "disconnected"
  /\ Put(c, n, Gone)
  /\ CloseSocket(c, n)
  /\ pipe' = Unread(pipe, c, n)
  /\ UNCHANGED <<shutting_down, setting>>

send_hello_message(c, n) ==
  /\ end[c][n].our_state # "disconnected" /\ ~end[c][n].hello_sent
  /\ end[c][n].list # "gone"
  /\ Put(c, n, [end[c][n] EXCEPT !.hello_sent = TRUE])
  /\ pipe' = Send(pipe, c, n, <<"hello">>)
  /\ UNCHANGED <<closed_by, shutting_down, setting>>

-----------------------------------------------------------------------------
(* Messages.  The handler of a message m at end n of c.                    *)

CanRead(c, n) == /\ end[c][n].list \notin {"none", "gone"}
                 /\ n \notin closed_by[c]
                 /\ pipe[c][n] # <<>>
Rest(c, n) == [pipe EXCEPT ![c][n] = Tail(@)]

on_hello_message(c, n) ==
  LET m == Other(c, n)
      e == [end[c][n] EXCEPT !.node_id = TRUE]
      accepted == ~is_already_connected_to_id(n, m) /\ is_accepting_new_connections(n)
      answer == [e EXCEPT !.their_state = IF accepted THEN "accepted" ELSE "rejected"]
  IN
  /\ CanRead(c, n) /\ Head(pipe[c][n]) = "hello"
  /\ \/ /\ e.their_state # "just_connected"
        /\ disconnect_from_peer(c, n, e, Rest(c, n))
     \/ \* no use to each other
        /\ e.their_state = "just_connected" /\ m \in setting.foreign
        /\ disconnect_from_peer(c, n, [e EXCEPT !.their_state = "rejected"],
                                Send(Rest(c, n), c, n, <<"connection_rejected">>))
     \/ /\ e.their_state = "just_connected" /\ m \notin setting.foreign
        /\ Put(c, n, answer)
        /\ pipe' = Send(Rest(c, n), c, n,
                        <<IF accepted THEN "connection_accepted" ELSE "connection_rejected">>)
        /\ UNCHANGED closed_by
  /\ UNCHANGED <<shutting_down, setting>>

on_connection_accepted_message(c, n) ==
  /\ CanRead(c, n) /\ Head(pipe[c][n]) = "connection_accepted"
  /\ Put(c, n, [end[c][n] EXCEPT !.our_state = "accepted"])
  /\ pipe' = Send(Rest(c, n), c, n, <<"address_request">>)
  /\ UNCHANGED <<closed_by, shutting_down, setting>>

\* An unexpected rejection ends the read loop.
on_connection_rejected_message(c, n) ==
  /\ CanRead(c, n) /\ Head(pipe[c][n]) = "connection_rejected"
  /\ IF end[c][n].our_state = "just_connected"
     THEN /\ Put(c, n, [end[c][n] EXCEPT !.our_state = "rejected"])
          /\ pipe' = Send(Rest(c, n), c, n, <<"address_request">>)
          /\ UNCHANGED closed_by
     ELSE /\ Put(c, n, Gone)
          /\ pipe' = Unread(pipe, c, n)
          /\ CloseSocket(c, n)
  /\ UNCHANGED <<shutting_down, setting>>

on_address_request_message(c, n) ==
  /\ CanRead(c, n) /\ Head(pipe[c][n]) = "address_request"
  /\ pipe' = Send(Rest(c, n), c, n, <<"address">>)
  /\ UNCHANGED <<end, closed_by, shutting_down, setting>>

Rejected(e) == e.our_state = "rejected" \/ e.their_state = "rejected"

\* new_peer_just_added: synchronisation starts with a request for ids.
on_address_message(c, n) ==
  /\ CanRead(c, n) /\ Head(pipe[c][n]) = "address"
  /\ \/ /\ end[c][n].list # "handshaking"
        /\ pipe' = Rest(c, n)
        /\ UNCHANGED <<end, closed_by>>
     \/ /\ end[c][n].list = "handshaking" /\ Rejected(end[c][n])
        /\ disconnect_from_peer(c, n, end[c][n], Rest(c, n))
     \/ /\ end[c][n].list = "handshaking" /\ ~Rejected(end[c][n])
        /\ Put(c, n, [end[c][n] EXCEPT !.list = "active"])
        /\ pipe' = Send(Rest(c, n), c, n, <<"fetch_blockchain_item_ids">>)
        /\ UNCHANGED closed_by
  /\ UNCHANGED <<shutting_down, setting>>

on_fetch_blockchain_item_ids_message(c, n) ==
  LET e == end[c][n]
      promoted == n = To[c] /\ e.list = "handshaking"
  IN
  /\ CanRead(c, n) /\ Head(pipe[c][n]) = "fetch_blockchain_item_ids"
  /\ Put(c, n, IF promoted THEN [e EXCEPT !.list = "active"] ELSE e)
  /\ pipe' = IF promoted THEN Send(Rest(c, n), c, n, <<"fetch_blockchain_item_ids">>)
             ELSE Rest(c, n)
  /\ UNCHANGED <<closed_by, shutting_down, setting>>

on_closing_connection_message(c, n) ==
  /\ CanRead(c, n) /\ Head(pipe[c][n]) = "closing_connection"
  /\ Put(c, n, [end[c][n] EXCEPT !.they_have_requested_close = TRUE])
  /\ IF end[c][n].we_have_requested_close
     THEN CloseSocket(c, n) /\ pipe' = Unread(pipe, c, n)
     ELSE pipe' = Rest(c, n) /\ UNCHANGED closed_by
  /\ UNCHANGED <<shutting_down, setting>>

-----------------------------------------------------------------------------
(* The end of connections.                                                 *)

Quiet(c) == c \in Slow \/ \A n \in Ends(c) : pipe[c][n] = <<>>

\* terminate_inactive_connections_loop: an end that was quiet for too long.
\* An active one is asked to close, or dropped when it owes us an answer.
terminate_gently(c, n) ==
  /\ end[c][n].list = "active" /\ Quiet(c)
  /\ disconnect_from_peer(c, n, end[c][n], pipe)
  /\ UNCHANGED <<shutting_down, setting>>

\* Faulty variant: the list of closing connections is never looked at.
terminate_inactive(c, n) ==
  /\ end[c][n].list \in {"handshaking", "active"} /\ Quiet(c)
  /\ Put(c, n, [end[c][n] EXCEPT !.list = "terminating"])
  /\ CloseSocket(c, n)
  /\ pipe' = Unread(pipe, c, n)
  /\ UNCHANGED <<shutting_down, setting>>

terminate_forcibly(c, n) ==
  /\ \/ end[c][n].list \in {"handshaking", "active"} /\ Quiet(c)
     \/ end[c][n].list = "closing"
  /\ Put(c, n, [end[c][n] EXCEPT !.list = "terminating"])
  /\ CloseSocket(c, n)
  /\ pipe' = Unread(pipe, c, n)
  /\ UNCHANGED <<shutting_down, setting>>

\* The read loop meets the end of the stream.  An end whose keys were never
\* exchanged has no read loop.
on_connection_closed(c, n) ==
  /\ end[c][n].list \notin {"none", "gone"}
  /\ end[c][n].our_state # "disconnected"
  /\ \/ n \in closed_by[c]
     \/ Other(c, n) \in closed_by[c] /\ pipe[c][n] = <<>>
  /\ Put(c, n, Gone)
  /\ CloseSocket(c, n)
  /\ pipe' = Unread(pipe, c, n)
  /\ UNCHANGED <<shutting_down, setting>>

\* close: every loop is cancelled and every connection destroyed.
close(n) ==
  /\ n \in setting.stopping \ shutting_down
  /\ shutting_down' = shutting_down \cup {n}
  /\ end' = [c \in Conns |->
               [k \in Ends(c) |-> IF k = n /\ end[c][k].list # "none"
                                  THEN Gone ELSE end[c][k]]]
  /\ closed_by' = [c \in Conns |-> IF n \in Ends(c) /\ end[c][n].list # "none"
                                   THEN closed_by[c] \cup {n} ELSE closed_by[c]]
  /\ pipe' = [c \in Conns |-> [k \in Ends(c) |-> IF k = n THEN <<>> ELSE pipe[c][k]]]
  /\ UNCHANGED setting

-----------------------------------------------------------------------------
Handle(c, n) ==
  \/ on_hello_message(c, n)
  \/ on_connection_accepted_message(c, n)
  \/ on_connection_rejected_message(c, n)
  \/ on_address_request_message(c, n)
  \/ on_address_message(c, n)
  \/ on_fetch_blockchain_item_ids_message(c, n)
  \/ on_closing_connection_message(c, n)

Next ==
  \/ \E c \in Conns : \/ connect_to(c) \/ accept_loop(c)
                      \/ connection_established(c) \/ connect_to_failed(c)
                      \/ \E n \in Ends(c) : \/ send_hello_message(c, n)
                                            \/ Handle(c, n)
                                            \/ terminate_gently(c, n)
                                            \/ terminate_forcibly(c, n)
                                            \/ on_connection_closed(c, n)
  \/ \E n \in Nodes : close(n)

\* Fibres run, messages arrive, and the loop that terminates inactive
\* connections comes round: a handshake or a closing connection does not
\* stay for ever.
Progress ==
  \E c \in Conns : \E n \in Ends(c) :
    \/ Handle(c, n)
    \/ on_connection_closed(c, n)
    \/ end[c][n].list \in {"handshaking", "closing"} /\ terminate_forcibly(c, n)

Spec == Init /\ [][Next]_vars /\ WF_vars(Progress)

-----------------------------------------------------------------------------
(* Properties.                                                             *)

Message == {"hello", "connection_accepted", "connection_rejected", "address_request",
            "address", "fetch_blockchain_item_ids", "closing_connection"}

End ==
  [list : {"none", "handshaking", "active", "closing", "terminating", "gone"},
   our_state : {"disconnected", "just_connected", "accepted", "rejected"},
   their_state : {"disconnected", "just_connected", "accepted", "rejected"},
   node_id : BOOLEAN, hello_sent : BOOLEAN,
   we_have_requested_close : BOOLEAN, they_have_requested_close : BOOLEAN]

\* The shape of the two ends of a connection; nothing is on the way to an end
\* that is gone.
TypeOK ==
  /\ \A c \in Conns : \A n \in Ends(c) :
       /\ end[c][n] \in End
       /\ pipe[c][n] \in Seq(Message)
       /\ end[c][n].list = "gone" => pipe[c][n] = <<>>
       /\ closed_by[c] \subseteq Ends(c)
  /\ shutting_down \subseteq setting.stopping /\ setting \in Settings

\* Connections that a node accepted and still uses.
Accepted(n) == {c \in Listed(n, "handshaking") \cup Listed(n, "active") :
                  end[c][n].their_state = "accepted"}

\* Two nodes that connect to each other at the same moment: neither accepts
\* both connections, whatever order the hellos cross in.
AcceptedOnce ==
  \A n \in Nodes : \A c, d \in Accepted(n) : c # d => Other(c, n) # Other(d, n)

\* A node never uses more connections that it accepted than its maximum,
\* although the limit is checked when a hello arrives and other connections
\* are made in between.
WithinMaximum == \A n \in Nodes : Cardinality(Accepted(n)) <= Maximum[n]

\* Every connection ends up active at both ends or forgotten at both, however
\* hellos, rejections, closing messages, time-outs and shutdowns cross, except
\* one with an end that is listed and whose keys were never exchanged: it has
\* no read loop that would see the other end go.
Settles ==
  \A c \in Conns :
    <>[](\/ \A n \in Ends(c) : end[c][n].list = "active"
         \/ \A n \in Ends(c) : end[c][n].list \in {"none", "gone"}
         \/ \E n \in Ends(c) : /\ end[c][n].list \notin {"none", "gone"}
                              /\ end[c][n].our_state = "disconnected")

=============================================================================
