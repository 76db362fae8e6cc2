------------------------------ MODULE NodeSync ------------------------------
(***************************************************************************)
(* Synchronisation of one node with its peers (net/node.cpp), together     *)
(* with what the client answers to it (client.cpp): lists of block ids,    *)
(* requests spread over several peers, the backlog of received blocks and  *)
(* their hand-over to the client.                                          *)
(*                                                                         *)
(* All handlers are fibres of one thread.  An action is the part of one    *)
(* between two points where it waits: for the client, which runs in        *)
(* another thread, or for the network.  Each peer has one reading fibre,   *)
(* so its next message is only handled when the last one is finished.      *)
(* Chains are paths in a constant tree of blocks; the client keeps the     *)
(* blocks it has been given and follows the highest one.                   *)
(***************************************************************************)
EXTENDS Integers, Sequences, FiniteSets, SequencesExt

CONSTANTS
  Peers, Blocks,
  None,         \* no block: the null hash
  previous,     \* [Blocks -> Blocks \cup {None}]
  FirstHead,    \* [Peers -> Blocks], the head of each peer when it connects
  LaterHeads,   \* [Peers -> SUBSET Blocks], heads it may move to afterwards
  Bad,          \* blocks that the client rejects
  MaxUndo,      \* BTS_BLOCKCHAIN_MAX_UNDO_HISTORY
  Lacking,      \* peers that may not have a block they announced
  Leaving,      \* peers that may close their connection
  Stored,       \* blocks of the client's chain at the start
  Limit,        \* most ids in one answer (2000)
  MaxPerPeer,   \* BTS_NET_MAX_BLOCKS_PER_PEER_DURING_SYNCING
  MaxAtOnce,    \* _maximum_number_of_blocks_to_handle_at_one_time
  MaxPrefetch   \* _maximum_number_of_sync_blocks_to_prefetch

ASSUME PreviousAssumption == previous \in [Blocks -> Blocks \cup {None}]
ASSUME PeersAssumption == /\ FirstHead \in [Peers -> Blocks]
                          /\ LaterHeads \in [Peers -> SUBSET Blocks]
                          /\ Lacking \cup Leaving \subseteq Peers
ASSUME LimitAssumption == {Limit, MaxUndo, MaxPerPeer, MaxAtOnce, MaxPrefetch} \subseteq Nat \ {0}
ASSUME NoneAssumption == None \notin Blocks

VARIABLES
  peer,      \* [Peers -> state of the peer_connection]
  chain,     \* [Peers -> Blocks], the peer's own head
  requests,  \* [Peers -> Seq], what we sent and the peer has not answered
  reply,     \* [Peers -> Seq], an answer with ids that is being handled
  asking,    \* calls of fetch_next_batch that wait for the client's synopsis
  active_sync_requests, received_sync_items, new_received_sync_items,
  handling,  \* blocks handed to the client, in order
  backlog,   \* task process_backlog_of_sync_blocks: idle, scheduled, running
  suspend_fetching_sync_blocks,
  sync_items_to_fetch_updated,  \* the fetch loop is or will be awake
  most_recent_blocks_accepted,
  known, head,  \* the client's blocks, and its head
  lacked,    \* history: blocks for which a peer answered item_not_available
  doubled    \* history: sync blocks already accepted as ordinary ones

vars == <<peer, chain, requests, reply, asking, active_sync_requests, received_sync_items,
          new_received_sync_items, handling, backlog, suspend_fetching_sync_blocks,
          sync_items_to_fetch_updated, most_recent_blocks_accepted, known, head,
          lacked, doubled>>

client == <<known, head, most_recent_blocks_accepted>>
history == <<lacked, doubled>>
items == <<active_sync_requests, received_sync_items, new_received_sync_items>>
tasks == <<handling, backlog, suspend_fetching_sync_blocks>>

-----------------------------------------------------------------------------
\* The chains of the block tree, from block 1, and the one that ends with b.
Chains == {s \in SeqOf(Blocks, Cardinality(Blocks)) :
             /\ s # <<>> /\ previous[s[1]] = None
             /\ \A i \in 1 .. Len(s) - 1 : previous[s[i + 1]] = s[i]}
Path == [b \in Blocks |-> CHOOSE s \in Chains : Last(s) = b]

\* An id is a hash over the previous one: every block has a chain.
ASSUME TreeAssumption == \A b \in Blocks : \E s \in Chains : Last(s) = b

BlockNum(b) == IF b = None THEN 0 ELSE Len(Path[b])
PathTo(b) == IF b = None THEN <<>> ELSE Path[b]

Connection(weNeed) ==
  [list |-> "active", ids_of_items_to_get |-> <<>>, ids_of_items_being_processed |-> {},
   number_of_unfetched_item_ids |-> 0, peer_needs_sync_items_from_us |-> TRUE,
   we_need_sync_items_from_peer |-> weNeed, item_ids_requested |-> FALSE,
   sync_items_requested |-> {}, last_block |-> None, last_block_number |-> 0,
   inhibit_fetching_sync_blocks |-> FALSE]

Active(p) == peer[p].list = "active"
ActivePeers == {p \in Peers : Active(p)}
idle(p) == /\ peer[p].sync_items_requested = {}
           /\ ~peer[p].item_ids_requested

\* process_backlog_of_sync_blocks runs to its end without waiting.
NotPreempting == backlog # "running"

\* The fibre that reads from the peer still handles an earlier message.
Reading(p) == /\ reply[p] = <<>>
              /\ \A t \in asking : t.peer = p => ~t.reader
              /\ peer[p].list # "closed"

-----------------------------------------------------------------------------
(* The client's side: summaries of a chain, and ids that follow one.       *)

\* Block numbers in a summary of a chain of length high: halving the
\* distance to the end at each step.
SummaryNumbers(high) ==
  LET from[n \in 1..(high + 1)] ==
        IF n > high THEN <<>> ELSE <<n>> \o from[n + ((high - n + 2) \div 2)]
  IN  from[1]

At(seq, numbers, offset) == [i \in DOMAIN numbers |-> seq[numbers[i] - offset]]

get_blockchain_synopsis(reference_point, after) ==
  LET path == IF reference_point = None THEN PathTo(head) ELSE Path[reference_point]
      UpTo(n) == n <= Len(path)
  IN  IF path = <<>> THEN <<>>
      ELSE At(path, SelectSeq(SummaryNumbers(Len(path) + after), UpTo), 0)

\* What a node with head h answers to a synopsis: the ids from the last
\* block of it on its chain onwards.
get_item_ids(h, synopsis) ==
  LET path == PathTo(h)
      LastSeen(n) == \E i \in DOMAIN synopsis :
                       /\ synopsis[i] = path[n]
                       /\ \A j \in DOMAIN synopsis : j > i => synopsis[j] \notin Range(path)
      first == Max({1} \cup {n \in DOMAIN path : LastSeen(n)})
      rest == SubSeq(path, first, Len(path))
      count == Min({Limit, Len(rest)})
  IN  [ids |-> SubSeq(rest, 1, count), remaining |-> Len(rest) - count]

\* on_new_block, as far as synchronisation sees it: how it ends ...
Outcome(b, sync_mode) ==
  LET parent == previous[b]
      unlinked == parent # None /\ parent \notin known
  IN  CASE b \in known -> IF sync_mode /\ unlinked THEN "rejected" ELSE "accepted"
        [] b \notin known /\ BlockNum(b) <= BlockNum(head) - MaxUndo -> "old"
        [] OTHER -> IF \/ parent = head /\ b \in Bad
                       \/ sync_mode /\ unlinked
                    THEN "rejected" ELSE "accepted"

\* ... and what it keeps; a higher chain becomes the current one when all of
\* it is here and valid.
on_new_block(b, sync_mode) ==
  LET kept == IF Outcome(b, sync_mode) = "old" THEN known ELSE known \cup {b}
      follows == /\ BlockNum(b) > BlockNum(head)
                 /\ Range(Path[b]) \subseteq kept \ Bad
  IN  /\ known' = kept
      /\ head' = IF follows THEN b ELSE head

-----------------------------------------------------------------------------
Init ==
  /\ chain = FirstHead
  /\ peer = [p \in Peers |-> Connection(TRUE)]
  /\ requests = [p \in Peers |-> <<>>]
  /\ reply = [p \in Peers |-> <<>>]
  /\ asking = {[peer |-> p, last_block |-> None, last_block_number |-> 0,
                ids |-> <<>>, reader |-> TRUE] : p \in Peers}
  /\ active_sync_requests = {} /\ received_sync_items = {} /\ new_received_sync_items = {}
  /\ handling = <<>> /\ backlog = "idle"
  /\ suspend_fetching_sync_blocks = FALSE
  /\ sync_items_to_fetch_updated = TRUE
  /\ known = Stored
  /\ head = IF Stored = {} THEN None
            ELSE CHOOSE b \in Stored : \A c \in Stored : BlockNum(c) <= BlockNum(b)
  /\ most_recent_blocks_accepted = {head}
  /\ lacked = {} /\ doubled = {}

\* A call of fetch_next_batch_of_item_ids_from_peer up to the point where it
\* waits: it keeps what the synopsis will be made of.
fetch_next_batch(pr, p, isReader) ==
  [peer |-> p, last_block |-> pr[p].last_block, last_block_number |-> pr[p].last_block_number,
   ids |-> pr[p].ids_of_items_to_get, reader |-> isReader]

start_synchronizing_with_peer(c) ==
  [c EXCEPT !.ids_of_items_to_get = <<>>, !.number_of_unfetched_item_ids = 0,
            !.we_need_sync_items_from_peer = TRUE, !.last_block = None,
            !.last_block_number = 0, !.inhibit_fetching_sync_blocks = FALSE]

disconnect_from_peer(c) == [c EXCEPT !.list = IF @ = "active" THEN "closing" ELSE @]

\* The rest of fetch_next_batch: the synopsis of the client's chain up to the
\* reference point, then of the ids that the peer announced beyond it.
create_blockchain_synopsis_for_peer(t) ==
  LET Beyond(n) == n > t.last_block_number
      numbers == SelectSeq(SummaryNumbers(t.last_block_number + Len(t.ids)), Beyond)
  IN  get_blockchain_synopsis(t.last_block, Len(t.ids)) \o At(t.ids, numbers, t.last_block_number)

send_fetch_ids(t) ==
  /\ NotPreempting
  /\ asking' = asking \ {t}
  /\ peer' = [peer EXCEPT ![t.peer].item_ids_requested = TRUE]
  /\ requests' = [requests EXCEPT ![t.peer] =
                    Append(@, [item |-> None, synopsis |-> create_blockchain_synopsis_for_peer(t)])]
  /\ UNCHANGED <<chain, reply, items, tasks, sync_items_to_fetch_updated, client, history>>

-----------------------------------------------------------------------------
(* Fetching blocks.                                                        *)

have_already_received_sync_item(b) == b \in received_sync_items \cup new_received_sync_items

\* Blocks to ask of each peer, taking the peers in the given order.
ItemsToRequest(order) ==
  LET Choose(chosen, p) ==
        LET Wanted(b) == /\ ~have_already_received_sync_item(b)
                         /\ b \notin active_sync_requests
                         /\ \A q \in Peers : b \notin Range(chosen[q])
            wanted == SelectSeq(peer[p].ids_of_items_to_get, Wanted)
        IN  [chosen EXCEPT ![p] = SubSeq(wanted, 1, Min({MaxPerPeer, Len(wanted)}))]
  IN  FoldLeft(Choose, [p \in Peers |-> <<>>], order)

ReadyPeers == {p \in ActivePeers : /\ peer[p].we_need_sync_items_from_peer
                                   /\ idle(p)
                                   /\ ~peer[p].inhibit_fetching_sync_blocks}

ItemRequests(seq) == [i \in DOMAIN seq |-> [item |-> seq[i], synopsis |-> <<>>]]

fetch_sync_items_loop ==
  /\ NotPreempting
  /\ sync_items_to_fetch_updated
  /\ sync_items_to_fetch_updated' = FALSE
  /\ IF suspend_fetching_sync_blocks
     THEN UNCHANGED <<peer, requests, active_sync_requests>>
     ELSE \E order \in SetToSeqs(ReadyPeers) :
            LET chosen == ItemsToRequest(order) IN
            /\ peer' = [p \in Peers |->
                          [peer[p] EXCEPT !.sync_items_requested = @ \cup Range(chosen[p])]]
            /\ requests' = [p \in Peers |-> requests[p] \o ItemRequests(chosen[p])]
            /\ active_sync_requests' = active_sync_requests \cup
                                         UNION {Range(chosen[p]) : p \in ReadyPeers}
  /\ UNCHANGED <<chain, reply, asking, received_sync_items, new_received_sync_items, tasks,
                 client, history>>

-----------------------------------------------------------------------------
(* Answers of the peers.                                                   *)

\* Faulty variant: the requests of the peer stay active.
ConnectionClosedKept(p) ==
  /\ peer' = [peer EXCEPT ![p].list = "closed"]
  /\ sync_items_to_fetch_updated' =
       (sync_items_to_fetch_updated \/ peer[p].sync_items_requested # {})
  /\ UNCHANGED active_sync_requests

\* on_connection_closed: what was asked of the peer may be asked of others.
ConnectionClosed(p) ==
  /\ peer' = [peer EXCEPT ![p].list = "closed"]
  /\ active_sync_requests' = active_sync_requests \ peer[p].sync_items_requested
  /\ sync_items_to_fetch_updated' =
       (sync_items_to_fetch_updated \/ peer[p].sync_items_requested # {})

\* The peer answers a request for ids from its chain at that moment; the
\* node takes the answer only if it still waits for one.
ReceiveIds(p) ==
  /\ NotPreempting /\ Reading(p)
  /\ requests[p] # <<>> /\ Head(requests[p]).item = None
  /\ requests' = [requests EXCEPT ![p] = Tail(@)]
  /\ IF peer[p].item_ids_requested
     THEN /\ peer' = [peer EXCEPT ![p].item_ids_requested = FALSE]
          /\ reply' = [reply EXCEPT ![p] =
                         <<get_item_ids(chain[p], Head(requests[p]).synopsis)>>]
     ELSE UNCHANGED <<peer, reply>>
  /\ UNCHANGED <<chain, asking, items, tasks, sync_items_to_fetch_updated, client, history>>

\* The peer has nothing that follows what we have.
SaysInSync(c, m) ==
  /\ m.remaining = 0
  /\ m.ids = <<>> \/ (Len(m.ids) = 1 /\ m.ids[1] \in known)
  /\ c.ids_of_items_to_get = <<>>
  /\ c.number_of_unfetched_item_ids = 0

\* A first list of ids: blocks that the client has are left out, unless
\* another peer is about to deliver the first of them.
FirstList(p, m) ==
  LET c == peer[p]
      for_other == \E q \in ActivePeers \ {p} :
                     /\ peer[q].ids_of_items_to_get # <<>>
                     /\ Head(peer[q].ids_of_items_to_get) = m.ids[1]
      seen == CHOOSE n \in 0..Len(m.ids) :
                /\ \A i \in 1..n : m.ids[i] \in known
                /\ n = Len(m.ids) \/ m.ids[n + 1] \notin known
  IN  IF m.ids = <<>> THEN c
      ELSE IF for_other \/ seen = 0 THEN [c EXCEPT !.ids_of_items_to_get = m.ids]
      ELSE [c EXCEPT !.ids_of_items_to_get = SubSeq(m.ids, seen + 1, Len(m.ids)),
                     !.last_block = m.ids[seen],
                     !.last_block_number = @ + seen]

\* Faulty variant: the new list is put after the old one.
AppendedList(c, m) == [c EXCEPT !.ids_of_items_to_get = @ \o m.ids]

\* A further list is joined to the old one at the block they share.
JoinedList(c, m) ==
  LET old == c.ids_of_items_to_get
      common == {i \in DOMAIN old : old[i] = m.ids[1]}
  IN  IF m.ids = <<>> THEN c
      ELSE IF common # {}
      THEN [c EXCEPT !.ids_of_items_to_get = SubSeq(old, 1, Max(common) - 1) \o m.ids]
      ELSE [c EXCEPT !.ids_of_items_to_get = Tail(m.ids),
                     !.last_block = m.ids[1],
                     !.last_block_number = BlockNum(m.ids[1])]

\* The old list and the new one have nothing in common.
Disjoint(c, m) ==
  /\ m.ids # <<>> /\ c.ids_of_items_to_get # <<>>
  /\ m.ids[1] \notin Range(c.ids_of_items_to_get)

on_blockchain_item_ids_inventory_message(p) ==
  /\ NotPreempting
  /\ reply[p] # <<>>
  /\ reply' = [reply EXCEPT ![p] = <<>>]
  /\ LET m == Head(reply[p])
         c == peer[p]
         listed == IF c.ids_of_items_to_get = <<>> THEN FirstList(p, m) ELSE JoinedList(c, m)
         pr == [peer EXCEPT ![p] = [listed EXCEPT !.number_of_unfetched_item_ids = m.remaining]]
     IN  \/ /\ SaysInSync(c, m)
            /\ peer' = [peer EXCEPT ![p].we_need_sync_items_from_peer = FALSE]
            /\ UNCHANGED <<asking, active_sync_requests, sync_items_to_fetch_updated>>
         \/ \* get_block_number of a block the client has not: the reading fibre ends
            /\ ~SaysInSync(c, m) /\ Disjoint(c, m) /\ m.ids[1] \notin known
            /\ ConnectionClosed(p)
            /\ UNCHANGED asking
         \/ /\ ~SaysInSync(c, m) /\ (Disjoint(c, m) => m.ids[1] \in known)
            /\ peer' = pr
            /\ UNCHANGED active_sync_requests
            /\ LET more == m.remaining # 0 \/ pr[p].ids_of_items_to_get = <<>> IN
               /\ asking' = IF more THEN asking \cup {fetch_next_batch(pr, p, TRUE)} ELSE asking
               /\ sync_items_to_fetch_updated' = (sync_items_to_fetch_updated \/ ~more)
  /\ UNCHANGED <<chain, requests, received_sync_items, new_received_sync_items, tasks, client,
                 history>>

\* process_block_message for a block asked for by the fetch loop.
process_block_during_sync(p) ==
  /\ NotPreempting /\ Reading(p)
  /\ requests[p] # <<>> /\ Head(requests[p]).item # None
  /\ LET b == Head(requests[p]).item
         pr == [peer EXCEPT ![p].sync_items_requested = @ \ {b}]
     IN  /\ peer' = pr
         /\ active_sync_requests' = active_sync_requests \ {b}
         /\ new_received_sync_items' = new_received_sync_items \cup {b}
         /\ sync_items_to_fetch_updated' = (\/ sync_items_to_fetch_updated
                                            \/ /\ pr[p].sync_items_requested = {}
                                               /\ ~pr[p].item_ids_requested)
  /\ requests' = [requests EXCEPT ![p] = Tail(@)]
  /\ backlog' = IF backlog = "idle" THEN "scheduled" ELSE backlog
  /\ UNCHANGED <<chain, reply, asking, received_sync_items, handling,
                 suspend_fetching_sync_blocks, client, history>>

on_item_not_available_message(p) ==
  /\ NotPreempting /\ Reading(p)
  /\ p \in Lacking
  /\ requests[p] # <<>> /\ Head(requests[p]).item # None
  /\ LET b == Head(requests[p]).item
         c == [peer[p] EXCEPT !.sync_items_requested = @ \ {b}]
     IN  /\ peer' = [peer EXCEPT ![p] =
                       IF c.peer_needs_sync_items_from_us
                       THEN [c EXCEPT !.inhibit_fetching_sync_blocks = TRUE]
                       ELSE disconnect_from_peer(c)]
         /\ lacked' = lacked \cup {b}
  /\ requests' = [requests EXCEPT ![p] = Tail(@)]
  /\ sync_items_to_fetch_updated' = TRUE
  /\ UNCHANGED <<chain, reply, asking, items, tasks, client, doubled>>

-----------------------------------------------------------------------------
(* The backlog of received blocks.                                         *)

\* The task begins, unless the client has enough to do.
process_backlog_start ==
  /\ backlog = "scheduled"
  /\ \/ /\ Len(handling) >= MaxAtOnce
        /\ backlog' = "idle"
        /\ UNCHANGED <<received_sync_items, new_received_sync_items, suspend_fetching_sync_blocks>>
     \/ /\ Len(handling) < MaxAtOnce
        /\ backlog' = "running"
        /\ suspend_fetching_sync_blocks' = FALSE
        /\ received_sync_items' = received_sync_items \cup new_received_sync_items
        /\ new_received_sync_items' = {}
  /\ UNCHANGED <<peer, chain, requests, reply, asking, active_sync_requests, handling,
                 sync_items_to_fetch_updated, client, history>>

\* Faulty variant: peers that wait for b, first or not.
ExpectingAnywhere(b) == {p \in ActivePeers : b \in Range(peer[p].ids_of_items_to_get)}

\* Peers that wait for b as their next block.
Expecting(b) == {p \in ActivePeers : /\ peer[p].ids_of_items_to_get # <<>>
                                     /\ Head(peer[p].ids_of_items_to_get) = b}

\* The next block on the chain of some peer goes to the client.
process_backlog_of_sync_blocks(b) ==
  /\ backlog = "running"
  /\ b \in received_sync_items /\ Expecting(b) # {}
  /\ peer' = [p \in Peers |->
                IF p \in Expecting(b)
                THEN [peer[p] EXCEPT !.ids_of_items_to_get = Tail(@),
                                     !.ids_of_items_being_processed = @ \cup {b}]
                ELSE peer[p]]
  /\ \/ /\ b \notin most_recent_blocks_accepted
        /\ received_sync_items' = received_sync_items \ {b}
        /\ handling' = Append(handling, b)
        /\ LET full == Len(handling') >= MaxAtOnce IN
           /\ backlog' = IF full THEN "idle" ELSE "running"
           /\ suspend_fetching_sync_blocks' =
                (full /\ Cardinality(received_sync_items') >= MaxPrefetch)
           /\ sync_items_to_fetch_updated' =
                (sync_items_to_fetch_updated \/ (full /\ ~suspend_fetching_sync_blocks'))
        /\ UNCHANGED doubled
     \/ /\ b \in most_recent_blocks_accepted
        /\ doubled' = doubled \cup {b}
        /\ backlog' = "idle"
        /\ sync_items_to_fetch_updated' = TRUE
        /\ UNCHANGED <<received_sync_items, handling, suspend_fetching_sync_blocks>>
  /\ UNCHANGED <<chain, requests, reply, asking, active_sync_requests, new_received_sync_items,
                 client, lacked>>

process_backlog_end ==
  /\ backlog = "running"
  /\ \A b \in received_sync_items : Expecting(b) = {}
  /\ backlog' = "idle"
  /\ sync_items_to_fetch_updated' = TRUE
  /\ UNCHANGED <<peer, chain, requests, reply, asking, items, handling,
                 suspend_fetching_sync_blocks, client, history>>

\* Faulty variant: the block is still being processed.
AfterAcceptingKept(c, b) ==
  IF b \in c.ids_of_items_being_processed
  THEN [c EXCEPT !.last_block = b, !.last_block_number = BlockNum(b)]
  ELSE c

\* The state of a peer after the client accepted b.
AfterAccepting(c, b) ==
  IF b \in c.ids_of_items_being_processed
  THEN [c EXCEPT !.last_block = b, !.last_block_number = BlockNum(b),
                 !.ids_of_items_being_processed = @ \ {b}]
  ELSE c

HasNoItems(c) == c.ids_of_items_to_get = <<>> /\ c.ids_of_items_being_processed = {}

\* The client is done with the first block handed to it.
send_sync_block_to_node_delegate ==
  /\ NotPreempting
  /\ handling # <<>>
  /\ handling' = Tail(handling)
  /\ LET b == Head(handling)
         processing == {p \in ActivePeers : b \in peer[p].ids_of_items_being_processed}
         in_sync == {p \in ActivePeers : /\ HasNoItems(peer[p])
                                         /\ ~peer[p].peer_needs_sync_items_from_us
                                         /\ ~peer[p].we_need_sync_items_from_peer}
         accepted == [p \in Peers |->
                        IF p \in in_sync THEN start_synchronizing_with_peer(peer[p])
                        ELSE IF p \in processing THEN AfterAccepting(peer[p], b)
                        ELSE peer[p]]
         emptied == {p \in processing : /\ HasNoItems(accepted[p])
                                        /\ peer[p].number_of_unfetched_item_ids = 0}
     IN  /\ on_new_block(b, TRUE)
         /\ \/ /\ Outcome(b, TRUE) = "accepted"
               /\ most_recent_blocks_accepted' = most_recent_blocks_accepted \cup {b}
               /\ peer' = accepted
               /\ asking' = asking \cup
                              {fetch_next_batch(accepted, p, FALSE) : p \in emptied \cup in_sync}
            \/ /\ Outcome(b, TRUE) = "old"
               /\ peer' = [p \in Peers |-> [peer[p] EXCEPT !.inhibit_fetching_sync_blocks =
                                              @ \/ p \in processing]]
               /\ UNCHANGED <<asking, most_recent_blocks_accepted>>
            \/ /\ Outcome(b, TRUE) = "rejected"
               /\ peer' = [p \in Peers |-> IF p \in processing THEN disconnect_from_peer(peer[p])
                                           ELSE peer[p]]
               /\ UNCHANGED <<asking, most_recent_blocks_accepted>>
  /\ backlog' = IF backlog = "idle" THEN "scheduled" ELSE backlog
  /\ UNCHANGED <<chain, requests, reply, items, suspend_fetching_sync_blocks,
                 sync_items_to_fetch_updated, history>>

-----------------------------------------------------------------------------
(* What the peers do.                                                      *)

\* A connection ends: the peer leaves, or the node ends one it is closing.
on_connection_closed(p) ==
  /\ NotPreempting /\ Reading(p)
  /\ p \in Leaving \/ ~Active(p)
  /\ ConnectionClosed(p)
  /\ UNCHANGED <<chain, requests, reply, asking, received_sync_items, new_received_sync_items,
                 tasks, client, history>>

\* The peer, whose synopsis ends with its head, asks for our ids.
on_fetch_blockchain_item_ids_message(p) ==
  /\ NotPreempting /\ Reading(p)
  /\ LET c == peer[p]
         needs == ~(head = None \/ head = chain[p])
         restart == ~c.we_need_sync_items_from_peer /\ chain[p] \notin known
         begun == [(IF restart THEN start_synchronizing_with_peer(c) ELSE c)
                     EXCEPT !.peer_needs_sync_items_from_us = needs]
         leave == head = chain[p] /\ c.inhibit_fetching_sync_blocks
     IN  /\ peer' = [peer EXCEPT ![p] = IF leave THEN disconnect_from_peer(begun) ELSE begun]
         /\ asking' = IF restart THEN asking \cup {fetch_next_batch(peer', p, TRUE)} ELSE asking
  /\ UNCHANGED <<chain, requests, reply, items, tasks, sync_items_to_fetch_updated, client,
                 history>>

\* A peer that is in sync with us sends its newest block.
process_block_during_normal_operation(p) ==
  LET b == chain[p]
      recent == b \in most_recent_blocks_accepted
      ok == recent \/ Outcome(b, FALSE) = "accepted"
  IN
  /\ NotPreempting /\ Reading(p) /\ Active(p)
  /\ ~peer[p].we_need_sync_items_from_peer
  /\ peer[p].last_block # b
  /\ IF recent THEN UNCHANGED <<known, head>> ELSE on_new_block(b, FALSE)
  /\ most_recent_blocks_accepted' = IF ok THEN most_recent_blocks_accepted \cup {b}
                                    ELSE most_recent_blocks_accepted
  /\ peer' = IF ok
             THEN [peer EXCEPT ![p].last_block = b, ![p].last_block_number = BlockNum(b)]
             ELSE [q \in Peers |-> IF q \in Expecting(b) THEN disconnect_from_peer(peer[q])
                                   ELSE peer[q]]
  /\ UNCHANGED <<chain, requests, reply, asking, items, tasks, sync_items_to_fetch_updated,
                 history>>

\* The peer follows a higher chain.
PeerAdvances(p) ==
  /\ NotPreempting
  /\ \E b \in LaterHeads[p] : /\ BlockNum(b) > BlockNum(chain[p])
                              /\ chain' = [chain EXCEPT ![p] = b]
  /\ UNCHANGED <<peer, requests, reply, asking, items, tasks, sync_items_to_fetch_updated,
                 client, history>>

-----------------------------------------------------------------------------
NodeStep ==
  \/ \E t \in asking : send_fetch_ids(t)
  \/ fetch_sync_items_loop
  \/ \E p \in Peers : on_blockchain_item_ids_inventory_message(p)
  \/ process_backlog_start \/ process_backlog_end
  \/ \E b \in Blocks : process_backlog_of_sync_blocks(b)
  \/ send_sync_block_to_node_delegate

PeerAnswers(p) ==
  \/ ReceiveIds(p)
  \/ process_block_during_sync(p)
  \/ on_item_not_available_message(p)

PeerStep(p) ==
  \/ PeerAnswers(p)
  \/ on_connection_closed(p)
  \/ on_fetch_blockchain_item_ids_message(p)
  \/ process_block_during_normal_operation(p)
  \/ PeerAdvances(p)

Next == NodeStep \/ \E p \in Peers : PeerStep(p)

\* The thread goes on as long as a fibre is ready, a peer that stays
\* connected answers what it is asked, and closing connections end.
Fairness ==
  /\ WF_vars(NodeStep)
  /\ \A p \in Peers :
       /\ WF_vars(PeerAnswers(p))
       /\ WF_vars(peer[p].list = "closing" /\ on_connection_closed(p))

Spec == Init /\ [][Next]_vars /\ Fairness

-----------------------------------------------------------------------------
(* Properties.                                                             *)

Request == [item : Blocks \cup {None}, synopsis : Seq(Blocks)]

\* The shape of the node's tables.
TypeOK ==
  /\ \A p \in Peers :
       /\ peer[p].list \in {"active", "closing", "closed"}
       /\ peer[p].ids_of_items_to_get \in Seq(Blocks)
       /\ peer[p].ids_of_items_being_processed \subseteq Blocks
       /\ peer[p].sync_items_requested \subseteq Blocks
       /\ peer[p].number_of_unfetched_item_ids \in Nat
       /\ peer[p].last_block_number \in Nat
       /\ requests[p] \in Seq(Request)
       /\ Len(reply[p]) <= 1
  /\ chain \in [Peers -> Blocks]
  /\ UNION {active_sync_requests, received_sync_items, new_received_sync_items} \subseteq Blocks
  /\ handling \in Seq(Blocks) /\ Len(handling) <= MaxAtOnce
  /\ known \subseteq Blocks /\ head \in known \cup {None}

\* A block counts as being fetched only while some connection that still
\* exists owes it to us; otherwise no peer would ever be asked for it again.
\* The one exception in the code is a block that a peer turned out to lack.
ActiveRequestsBacked ==
  active_sync_requests \subseteq
    lacked \cup UNION {peer[p].sync_items_requested : p \in {q \in Peers : peer[q].list # "closed"}}

\* Blocks reach the client parents first, whatever order the peers deliver
\* them in: a block that arrived before its parent would be rejected, and the
\* peers that offered it would be disconnected.  The exception is a parent
\* that has become too old for the client while it waited to be handled.
HandedInOrder ==
  \A i \in DOMAIN handling :
    LET parent == previous[handling[i]] IN
    \/ parent \in known \cup {None}
    \/ \E j \in 1..(i - 1) : handling[j] = parent
    \/ BlockNum(parent) <= BlockNum(head) - MaxUndo

\* The blocks still to get from a peer are one path, also when the peer
\* changed forks between two batches of ids.
ListsLinked ==
  \A p \in ActivePeers :
    LET ids == peer[p].ids_of_items_to_get IN
    \A i \in 1..(Len(ids) - 1) : previous[ids[i + 1]] = ids[i]

\* The next block of the peer came over a connection that has since ended;
\* nothing makes the backlog look at it again.
Stranded(p) ==
  /\ \E q \in Peers : ~Active(q)
  /\ peer[p].ids_of_items_to_get # <<>>
  /\ Head(peer[p].ids_of_items_to_get) \in received_sync_items

Excused(p) ==
  \/ ~Active(p) \/ peer[p].inhibit_fetching_sync_blocks
  \/ lacked # {} \/ doubled # {} \/ Stranded(p)

\* Synchronisation with a peer that stays connected comes to an end: the node
\* receives all blocks of its chain and is told that there are no more.
SyncEnds == \A p \in Peers : <>[](Excused(p) \/ ~peer[p].we_need_sync_items_from_peer)
=============================================================================
