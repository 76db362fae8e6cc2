----------------------------- MODULE Inventory -----------------------------
(***************************************************************************)
(* How transactions and new blocks spread between nodes that are in sync   *)
(* (net/node.cpp): a node advertises what its client accepted, its peers   *)
(* fetch what they have not seen, hand it to their clients and advertise   *)
(* it in turn.                                                             *)
(*                                                                         *)
(* The loops run without yielding once they are woken, the client answers  *)
(* in a later step.  The queue to a peer holds what is waiting to be sent  *)
(* and what is on the wire.                                                *)
(***************************************************************************)
EXTENDS Network, Integers, Sequences, FiniteSets, Functions

CONSTANTS
  Transactions, Blocks,
  CacheBlocks,    \* cache_duration_in_blocks
  InventoryLimit, \* size of an inventory_advertised_to_us list that is full for transactions
  Situations,     \* the situations to look at, see situation
  None

Items == Transactions \cup Blocks
Links == {l \in Nodes \X Nodes : l[1] # l[2]}
Back(l) == <<l[2], l[1]>>

ASSUME InventoryLimitsAssumption == CacheBlocks \in Nat /\ InventoryLimit \in Nat
ASSUME NoneAssumption == None \notin Items
ASSUME SituationsAssumption ==
  /\ Situations \subseteq [links : SUBSET Links, fragile : SUBSET Links, items : SUBSET Items,
                        throttled : SUBSET (Nodes \X Transactions), refused : SUBSET (Nodes \X Items),
                        outdated : SUBSET (Nodes \X Blocks), other_blocks : Nat, expiries : Nat, queue_limit : Nat]
  /\ \A s \in Situations, l \in Links : l \in s.links => Back(l) \in s.links

VARIABLES
  node,      \* [Nodes -> the node's own lists, see NewNode]
  side,      \* [Links -> what the first node keeps about the second, see NewSide]
  queue,     \* [Links -> Seq(message)] from the first to the second
  broken,    \* links whose socket is closed
  expired,   \* number of times entries grew old
  situation  \* links: the active connections; fragile: those that may fail;
             \* items: what the clients may broadcast;
             \* throttled: <<n, t>> if n may find the relay fee of t too low;
             \* refused: <<n, i>> if the client of n refuses i;
             \* outdated: <<m, b>> if m does not know of the hard fork at b;
             \* other_blocks, expiries: bounds on these events;
             \* queue_limit: BTS_NET_MAXIMUM_QUEUED_MESSAGES_IN_BYTES, in messages

spread_vars == <<node, side, queue, broken, expired, situation>>

NewNode == [items_to_fetch |-> {}, items_to_fetch_updated |-> FALSE, new_inventory |-> {},
            cache |-> [i \in Items |-> None], block_clock |-> 0, accepted |-> {}, handled |-> {}]
NewSide == [active |-> TRUE, advertised_to_us |-> {}, advertised_to_peer |-> {}, old |-> {},
            requested |-> {}, inhibited |-> FALSE, handling |-> None]

Closed == [NewSide EXCEPT !.active = FALSE]

Peers(n) == {l \in Links : l[1] = n /\ side[l].active}

Inventory(items) == [type |-> "item_ids_inventory", items |-> items]
Fetch(i) == [type |-> "fetch_items", item |-> i]
Item(i) == [type |-> "item", item |-> i]
NotAvailable(i) == [type |-> "item_not_available", item |-> i]

SpreadInit ==
  /\ node = [n \in Nodes |-> NewNode]
  /\ situation \in Situations
  /\ side = [l \in Links |-> IF l \in situation.links THEN NewSide ELSE Closed]
  /\ queue = [l \in Links |-> <<>>]
  /\ broken = Links \ situation.links
  /\ expired = 0

-----------------------------------------------------------------------------
(* The message cache, and the queue to a peer.                             *)

Cached(s, i) == s.cache[i] # None

cache_message(s, i) ==
  [s EXCEPT !.cache[i] = IF @ = None THEN s.block_clock ELSE @]

block_accepted(s) ==
  LET clock == s.block_clock + 1 IN
  [s EXCEPT !.block_clock = clock,
            !.cache = IF clock > CacheBlocks
                      THEN [i \in Items |-> IF Cached(s, i) /\ s.cache[i] >= clock - CacheBlocks
                                            THEN s.cache[i] ELSE None]
                      ELSE @]

broadcast(s, i) == [cache_message(s, i) EXCEPT !.new_inventory = @ \cup {i}]

\* The client takes i, which is broadcast.
taken_and_broadcast(s, i) ==
  [broadcast(s, i) EXCEPT !.accepted = @ \cup {i}, !.handled = @ \cup {i}]

Both(links) == links \cup {Back(l) : l \in links}

\* The queues after close_connection on some links, and after send_message,
\* which closes a connection whose queue is too long.
CloseConnections(links, q) ==
  /\ broken' = broken \cup Both(links)
  /\ queue' = [l \in Links |-> IF l \in broken' THEN <<>> ELSE q[l]]
send_message(q) == CloseConnections({l \in Links : Len(q[l]) > situation.queue_limit}, q)

-----------------------------------------------------------------------------
(* What the client does.                                                   *)

\* network_broadcast_transaction, and a block the delegate loop produced: it
\* is broadcast, then handed to the own chain.
client_broadcast(n, i) ==
  /\ i \in situation.items /\ \A k \in Nodes : i \notin node[k].accepted
  /\ node' = [node EXCEPT ![n] = taken_and_broadcast(@, i)]
  /\ UNCHANGED <<side, queue, broken, expired, situation>>

rebroadcast_pending_loop(n) ==
  LET pending == node[n].accepted \cap Transactions
      missing == {i \in pending : ~Cached(node[n], i)}
  IN
  /\ pending # {}
  /\ node' = [node EXCEPT ![n].new_inventory = @ \cup pending,
                          ![n].cache = [i \in Items |-> IF i \in missing THEN node[n].block_clock
                                                        ELSE node[n].cache[i]]]
  /\ UNCHANGED <<side, queue, broken, expired, situation>>

-----------------------------------------------------------------------------
(* The loops.                                                              *)

clear_old_inventory(e) ==
  [e EXCEPT !.advertised_to_us = @ \ e.old, !.advertised_to_peer = @ \ e.old, !.old = {}]

\* What the node has and this peer is not known to have.
NewTo(l) == node[l[1]].new_inventory \ (side[l].advertised_to_us \cup side[l].advertised_to_peer)

InventoryOf(items, type) == IF items \cap type = {} THEN <<>> ELSE <<Inventory(items \cap type)>>

advertise_inventory_loop(n) ==
  /\ node[n].new_inventory # {}
  /\ node' = [node EXCEPT ![n].new_inventory = {}]
  /\ side' = [l \in Links |->
                IF l \in Peers(n)
                THEN clear_old_inventory([side[l] EXCEPT !.advertised_to_peer = @ \cup NewTo(l)])
                ELSE side[l]]
  /\ send_message([l \in Links |->
       IF l \in Peers(n) THEN queue[l] \o InventoryOf(NewTo(l), Transactions)
                                       \o InventoryOf(NewTo(l), Blocks)
       ELSE queue[l]])
  /\ UNCHANGED <<expired, situation>>

idle(e) == e.requested = {}

Willing(n, i) == {l \in Peers(n) : /\ idle(side[l]) /\ i \in side[l].advertised_to_us
                                   /\ ~(side[l].inhibited /\ i \in Transactions)}

\* Which items are asked of whom: one item of each peer, blocks before
\* transactions, and no item is passed over while a peer could serve it.
Assignments(n) ==
  LET wanted == node[n].items_to_fetch
      before(i) == IF i \in Blocks THEN Blocks ELSE Items
  IN  {a \in UNION {[D -> Peers(n)] : D \in SUBSET wanted} :
         /\ IsInjective(a)
         /\ \A i \in DOMAIN a : a[i] \in Willing(n, i)
         /\ \A i \in wanted \ DOMAIN a :
              Willing(n, i) \subseteq {a[j] : j \in DOMAIN a \cap before(i)}}

fetch_items_loop(n) ==
  /\ node[n].items_to_fetch_updated
  /\ \E a \in Assignments(n) :
       /\ node' = [node EXCEPT ![n].items_to_fetch = @ \ DOMAIN a,
                               ![n].items_to_fetch_updated = FALSE]
       /\ side' = [l \in Links |->
                     [side[l] EXCEPT !.requested = @ \cup {i \in DOMAIN a : a[i] = l}]]
       /\ send_message([l \in Links |-> IF l \in Range(a)
                                        THEN Append(queue[l], Fetch(CHOOSE i \in DOMAIN a : a[i] = l))
                                        ELSE queue[l]])
  /\ UNCHANGED <<expired, situation>>

\* The inhibition of a peer ends; the loop waits no longer than that when it
\* has something to fetch from the peer.
inhibition_ends(l) ==
  /\ side[l].inhibited
  /\ side' = [side EXCEPT ![l].inhibited = FALSE]
  /\ node' = [node EXCEPT ![l[1]].items_to_fetch_updated =
                @ \/ /\ side[l].active /\ idle(side[l])
                     /\ node[l[1]].items_to_fetch \cap side[l].advertised_to_us # {}]
  /\ UNCHANGED <<queue, broken, expired, situation>>

-----------------------------------------------------------------------------
(* Messages.  The first node of l handles what the second has sent.        *)

Received(l, type) ==
  /\ side[l].active /\ side[l].handling = None
  /\ queue[Back(l)] # <<>>
  /\ Head(queue[Back(l)]).type = type

Arrived(l) == Head(queue[Back(l)])
Taken(l) == [queue EXCEPT ![Back(l)] = Tail(@)]

\* The parts of the advertised items that fit in the list of the peer: it has
\* room for five more when they are blocks.
Fitting(l, items) ==
  LET full(k) == Cardinality(side[l].advertised_to_us \cup k)
                   > InventoryLimit + (IF items \subseteq Blocks THEN 5 ELSE 0)
  IN  {k \in SUBSET items : /\ k = items \/ full(k)
                            /\ k # {} => \E i \in k : ~full(k \ {i})}

on_item_ids_inventory_message(l) ==
  LET n == l[1]
      known == UNION {side[k].advertised_to_peer : k \in Peers(n)}
      asked == UNION {side[k].requested : k \in Peers(n)}
  IN
  /\ Received(l, "item_ids_inventory")
  /\ \E fresh \in Fitting(l, Arrived(l).items \ known) :
       LET wanted == (fresh \ asked) \ node[n].items_to_fetch IN
       /\ side' = [side EXCEPT ![l].advertised_to_us = @ \cup fresh]
       /\ node' = [node EXCEPT ![n].items_to_fetch = @ \cup wanted,
                               ![n].items_to_fetch_updated = @ \/ wanted # {}]
  /\ queue' = Taken(l)
  /\ UNCHANGED <<broken, expired, situation>>

\* get_item of the client finds neither a transaction nor a block by the id of
\* a message: what is not in the cache is not available.
on_fetch_items_message(l) ==
  LET i == Arrived(l).item
      reply == IF Cached(node[l[1]], i) THEN Item(i) ELSE NotAvailable(i)
  IN
  /\ Received(l, "fetch_items")
  /\ send_message([Taken(l) EXCEPT ![l] = Append(@, reply)])
  /\ UNCHANGED <<node, side, expired, situation>>

is_item_in_any_peers_inventory(links, i) == \E l \in links : i \in side[l].advertised_to_us

\* Faulty variant: the request stays open.
on_item_not_available_still_requested(l) ==
  LET n == l[1]
      i == Arrived(l).item
      others == Peers(n) \ {l}
  IN
  /\ Received(l, "item_not_available")
  /\ side' = [side EXCEPT ![l].advertised_to_us = @ \ {i}]
  /\ node' = [node EXCEPT
       ![n].items_to_fetch = IF is_item_in_any_peers_inventory(others, i) THEN @ \cup {i} ELSE @,
       ![n].items_to_fetch_updated = TRUE]
  /\ queue' = Taken(l)
  /\ UNCHANGED <<broken, expired, situation>>

on_item_not_available_message(l) ==
  LET n == l[1]
      i == Arrived(l).item
      others == Peers(n) \ {l}
  IN
  /\ Received(l, "item_not_available")
  /\ side' = [side EXCEPT ![l].requested = @ \ {i}, ![l].advertised_to_us = @ \ {i}]
  /\ node' = [node EXCEPT
       ![n].items_to_fetch = IF is_item_in_any_peers_inventory(others, i) THEN @ \cup {i} ELSE @,
       ![n].items_to_fetch_updated = TRUE]
  /\ queue' = Taken(l)
  /\ UNCHANGED <<broken, expired, situation>>

\* Faulty variant: the fetch loop is not told that the peer is idle again.
process_item_unwoken(l) ==
  LET i == Arrived(l).item IN
  /\ Received(l, "item")
  /\ IF i \in side[l].requested
     THEN /\ side' = [side EXCEPT ![l].requested = @ \ {i}, ![l].handling = i]
          /\ queue' = Taken(l)
          /\ UNCHANGED <<node, broken>>
     ELSE /\ side' = [side EXCEPT ![l].active = FALSE]
          /\ CloseConnections({l}, queue)
          /\ UNCHANGED node
  /\ UNCHANGED <<expired, situation>>

\* process_block_message and process_ordinary_message up to the client's
\* answer.  A peer that sends what was not asked for is disconnected.
process_item(l) ==
  LET i == Arrived(l).item IN
  /\ Received(l, "item")
  /\ IF i \in side[l].requested
     THEN /\ side' = [side EXCEPT ![l].requested = @ \ {i}, ![l].handling = i]
          /\ node' = [node EXCEPT ![l[1]].items_to_fetch_updated =
                        @ \/ (i \in Transactions /\ side[l].requested = {i})]
          /\ queue' = Taken(l)
          /\ UNCHANGED broken
     ELSE /\ side' = [side EXCEPT ![l].active = FALSE]
          /\ CloseConnections({l}, queue)
          /\ UNCHANGED node
  /\ UNCHANGED <<expired, situation>>

-----------------------------------------------------------------------------
(* The client's answer to the item that is being handled.                  *)

\* The item is good: it is broadcast, and a block moves the clock, expires
\* old entries, and ends the connections to clients too old for the fork.
item_accepted(l) ==
  LET n == l[1]
      i == side[l].handling
      old == {k \in Peers(n) : <<k[2], i>> \in situation.outdated}
      kept(k) == IF i \in Blocks THEN clear_old_inventory(side[k]) ELSE side[k]
      told == taken_and_broadcast(node[n], i)
  IN
  /\ i # None /\ <<n, i>> \notin situation.refused
  /\ side' = [k \in Links |->
       [(IF k \in Peers(n) THEN kept(k) ELSE side[k])
          EXCEPT !.handling = IF k = l THEN None ELSE @, !.active = @ /\ k \notin old]]
  /\ node' = [node EXCEPT ![n] =
       IF i \in Transactions THEN told
       ELSE [block_accepted(told) EXCEPT !.items_to_fetch_updated = @ \/ idle(side[l])]]
  /\ CloseConnections(old, queue)
  /\ UNCHANGED <<expired, situation>>

\* Another block, from a peer outside the model, moves the clock.
another_block_accepted(n) ==
  /\ node[n].block_clock < situation.other_blocks
  /\ node' = [node EXCEPT ![n] = block_accepted(@)]
  /\ side' = [l \in Links |-> IF l \in Peers(n) THEN clear_old_inventory(side[l]) ELSE side[l]]
  /\ UNCHANGED <<queue, broken, expired, situation>>

item_rejected(l) ==
  LET n == l[1]
      i == side[l].handling
  IN
  /\ i # None /\ <<n, i>> \in situation.refused
  /\ side' = [side EXCEPT ![l].handling = None]
  /\ node' = [node EXCEPT ![n].handled = @ \cup {i},
                          ![n].items_to_fetch_updated = @ \/ (i \in Blocks /\ idle(side[l]))]
  /\ UNCHANGED <<queue, broken, expired, situation>>

\* insufficient_relay_fee
item_throttled(l) ==
  LET n == l[1]
      i == side[l].handling
  IN
  /\ i # None /\ <<n, i>> \in situation.throttled
  /\ side' = [side EXCEPT ![l].handling = None, ![l].inhibited = TRUE]
  /\ node' = [node EXCEPT ![n].handled = @ \cup {i}]
  /\ UNCHANGED <<queue, broken, expired, situation>>

-----------------------------------------------------------------------------
(* Failures.                                                               *)

\* A socket fails, or terminate_inactive_connections_loop closes it.
connection_fails(l) ==
  /\ l \in situation.fragile \ broken
  /\ CloseConnections({l}, queue)
  /\ UNCHANGED <<node, side, expired, situation>>

connection_closed(l) ==
  LET n == l[1]
      others == Peers(n) \ {l}
      again == {i \in side[l].requested : is_item_in_any_peers_inventory(others, i)}
  IN
  /\ l \in broken /\ side[l].handling = None
  /\ side[l] # Closed
  /\ side' = [side EXCEPT ![l] = Closed]
  /\ node' = [node EXCEPT ![n].items_to_fetch = @ \cup again,
                          ![n].items_to_fetch_updated = @ \/ side[l].requested # {}]
  /\ UNCHANGED <<queue, broken, expired, situation>>

\* Two minutes pass on one side of a connection.
inventory_grows_old(l) ==
  /\ expired < situation.expiries /\ side[l].active
  /\ expired' = expired + 1
  /\ side' = [side EXCEPT ![l].old = @ \cup side[l].advertised_to_us \cup side[l].advertised_to_peer]
  /\ UNCHANGED <<node, queue, broken, situation>>

-----------------------------------------------------------------------------
NodeStep(n) == advertise_inventory_loop(n) \/ fetch_items_loop(n)

LinkStep(l) ==
  \/ on_item_ids_inventory_message(l) \/ on_fetch_items_message(l)
  \/ on_item_not_available_message(l) \/ process_item(l)
  \/ item_accepted(l) \/ item_rejected(l) \/ item_throttled(l)
  \/ inhibition_ends(l) \/ connection_closed(l)

SpreadNext ==
  \/ \E n \in Nodes : \/ \E i \in Items : client_broadcast(n, i)
                       \/ rebroadcast_pending_loop(n)
                       \/ another_block_accepted(n)
                       \/ NodeStep(n)
  \/ \E l \in Links : \/ LinkStep(l)
                       \/ connection_fails(l) \/ inventory_grows_old(l)

\* Woken fibres run, the client answers, messages arrive.
SpreadSpec ==
  /\ SpreadInit /\ [][SpreadNext]_spread_vars
  /\ \A n \in Nodes : /\ WF_spread_vars(advertise_inventory_loop(n))
                      /\ WF_spread_vars(fetch_items_loop(n))
  /\ \A l \in Links : WF_spread_vars(LinkStep(l))

-----------------------------------------------------------------------------
(* Properties.                                                             *)

\* The shape of the state; what is old in a list is in the list.
InventoryTypeOK ==
  /\ \A n \in Nodes :
       /\ DOMAIN node[n] = DOMAIN NewNode
       /\ node[n].items_to_fetch \subseteq Items /\ node[n].new_inventory \subseteq Items
       /\ \A i \in Items : Cached(node[n], i) => node[n].cache[i] \in 0 .. node[n].block_clock
       /\ node[n].accepted \subseteq node[n].handled
  /\ \A l \in Links :
       /\ DOMAIN side[l] = DOMAIN NewSide
       /\ side[l].requested \subseteq Items /\ side[l].handling \in Items \cup {None}
       /\ Len(queue[l]) <= situation.queue_limit
       /\ l \in broken <=> Back(l) \in broken

\* Where the messages of some types are in a queue.
Positions(q, types) == {k \in DOMAIN q : q[k].type \in types}

\* Every request is answered once: it is on its way, or its answer is, and
\* nothing else is ever sent, so no peer is disconnected for an item that
\* was not asked for.
AnsweredOnce ==
  \A l \in Links : side[l].active /\ l \notin broken =>
    LET out == Positions(queue[l], {"fetch_items"})
        back == Positions(queue[Back(l)], {"item", "item_not_available"})
    IN  /\ Cardinality(out) + Cardinality(back) = Cardinality(side[l].requested)
        /\ {queue[l][k].item : k \in out} \cup {queue[Back(l)][k].item : k \in back}
             = side[l].requested

\* An item stays in items_to_fetch when the last offer of it ends with a
\* connection or grows old; a later offer then finds it there and wakes
\* nothing.
Stranded(n, i) ==
  /\ i \in node[n].items_to_fetch
  /\ expired > 0 \/ \E l \in situation.links : l[1] = n /\ l \in broken

\* What a peer has offered and still has, and the client never saw.
UnservedTo(l) == {i \in side[l].advertised_to_us :
                    /\ Cached(node[l[2]], i) /\ i \notin node[l[1]].handled
                    /\ ~Stranded(l[1], i)}

\* In the end every item that a connected peer offers, and still has, was
\* handed to the client, whatever peers were busy, inhibited, failed or no
\* longer had it when it was asked for.
OfferedHandled == <>[](\A l \in Links \ broken : UnservedTo(l) = {})
=============================================================================
