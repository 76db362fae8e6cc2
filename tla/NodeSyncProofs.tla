--------------------------- MODULE NodeSyncProofs ---------------------------
(***************************************************************************)
(* Proofs about NodeSync, for any peers, block tree, client and limits:    *)
(* what counts as being fetched, and the lists of ids of the peers.        *)
(***************************************************************************)
EXTENDS NodeSync, SumTheorems

(* A list of ids in which every block is followed by one of its children.  *)
Linked(ids) ==
  /\ ids \in Seq(Blocks)
  /\ \A i \in 1 .. Len(ids) - 1 : previous[ids[i + 1]] = ids[i]

Fields == DOMAIN Connection(TRUE)

ConnectionOK(c) == DOMAIN c = Fields /\ Linked(c.ids_of_items_to_get)

(* The lists of the peers, and the answers that will be joined to them,    *)
(* are linked.                                                             *)
ListsInv ==
  /\ DOMAIN peer = Peers /\ DOMAIN reply = Peers
  /\ chain \in [Peers -> Blocks]
  /\ \A p \in Peers : ConnectionOK(peer[p])
  /\ \A p \in Peers : reply[p] # <<>> => Linked(Head(reply[p]).ids)

IInv == ListsInv /\ ActiveRequestsBacked

-----------------------------------------------------------------------------
(* Lists of ids.                                                           *)

LEMMA LinkedEmpty == Linked(<<>>)
BY DEF Linked

LEMMA LinkedTail ==
    ASSUME NEW s, Linked(s), s # <<>>
    PROVE  Linked(Tail(s))
<1>1. s \in Seq(Blocks) /\ \A i \in 1 .. Len(s) - 1 : previous[s[i + 1]] = s[i]
  BY DEF Linked
<1>2. Tail(s) \in Seq(Blocks) /\ Len(Tail(s)) = Len(s) - 1 /\ Len(s) \in Nat
      /\ \A i \in 1 .. Len(s) - 1 : Tail(s)[i] = s[i + 1]
  BY <1>1
<1>3. ASSUME NEW i \in 1 .. Len(Tail(s)) - 1 PROVE previous[Tail(s)[i + 1]] = Tail(s)[i]
  <2>1. i + 1 \in 1 .. Len(s) - 1 /\ i \in 1 .. Len(s) - 1
    BY <1>2
  <2> QED
    BY <1>1, <1>2, <2>1
<1> QED
  BY <1>2, <1>3 DEF Linked

LEMMA LinkedPart ==
    ASSUME NEW s, Linked(s), NEW m \in Nat \ {0}, NEW n \in Int, n <= Len(s)
    PROVE  /\ Linked(SubSeq(s, m, n))
           /\ Len(SubSeq(s, m, n)) = IF m <= n THEN n - m + 1 ELSE 0
<1>1. s \in Seq(Blocks) /\ \A i \in 1 .. Len(s) - 1 : previous[s[i + 1]] = s[i]
  BY DEF Linked
<1> DEFINE t == SubSeq(s, m, n)
<1>2. CASE m <= n
  <2>1. t \in Seq(Blocks) /\ Len(t) = n - m + 1 /\ \A i \in 1 .. n - m + 1 : t[i] = s[m + i - 1]
    BY <1>1, <1>2
  <2> HIDE DEF t
  <2>2. ASSUME NEW i \in 1 .. Len(t) - 1 PROVE previous[t[i + 1]] = t[i]
    <3>1. /\ m + i - 1 \in 1 .. Len(s) - 1 /\ m + (i + 1) - 1 = (m + i - 1) + 1
          /\ i \in 1 .. n - m + 1 /\ i + 1 \in 1 .. n - m + 1
      BY <1>1, <1>2, <2>1
    <3>2. t[i] = s[m + i - 1] /\ t[i + 1] = s[m + (i + 1) - 1]
      BY <2>1, <3>1
    <3>3. previous[s[(m + i - 1) + 1]] = s[m + i - 1]
      BY <1>1, <3>1
    <3> QED
      BY <3>1, <3>2, <3>3
  <2> QED
    BY <1>2, <2>1, <2>2 DEF Linked, t
<1>3. CASE ~(m <= n)
  <2>1. t = <<>>
    BY <1>1, <1>3
  <2> QED
    BY <1>3, <2>1, LinkedEmpty
<1> QED
  BY <1>2, <1>3

(* Two lists joined at a block they share.                                 *)
LEMMA LinkedJoin ==
    ASSUME NEW s, Linked(s), NEW t, Linked(t), t # <<>>,
           NEW k \in 1 .. Len(s), s[k] = t[1]
    PROVE  Linked(SubSeq(s, 1, k - 1) \o t)
<1>1. /\ s \in Seq(Blocks) /\ \A i \in 1 .. Len(s) - 1 : previous[s[i + 1]] = s[i]
      /\ t \in Seq(Blocks) /\ \A i \in 1 .. Len(t) - 1 : previous[t[i + 1]] = t[i]
      /\ Len(s) \in Nat /\ Len(t) \in Nat
  BY DEF Linked
<1> DEFINE u == SubSeq(s, 1, k - 1)
           r == u \o t
<1>2. u \in Seq(Blocks) /\ Len(u) = k - 1 /\ \A i \in 1 .. k - 1 : u[i] = s[i]
  BY <1>1
<1> HIDE DEF u
<1>3. /\ r \in Seq(Blocks) /\ Len(r) = k - 1 + Len(t)
      /\ \A i \in 1 .. k - 1 : r[i] = s[i]
      /\ \A i \in k .. Len(r) : r[i] = t[i - k + 1]
  <2>1. r \in Seq(Blocks) /\ Len(r) = Len(u) + Len(t)
    <3>1. u \in Seq(Blocks) /\ t \in Seq(Blocks)
      BY <1>1, <1>2
    <3>2. u \o t \in Seq(Blocks)
      BY <3>1
    <3>3. Len(u \o t) = Len(u) + Len(t)
      BY <3>1
    <3> QED
      BY <3>2, <3>3
  <2>2. ASSUME NEW i \in 1 .. k - 1 PROVE r[i] = s[i]
    <3>1. i \in 1 .. Len(u)
      BY <1>2
    <3>2. r[i] = u[i]
      BY <1>1, <1>2, <3>1
    <3> QED
      BY <1>2, <3>2
  <2>3. ASSUME NEW i \in k .. Len(r) PROVE r[i] = t[i - k + 1]
    <3>1. i \in Len(u) + 1 .. Len(u) + Len(t) /\ i - Len(u) = i - k + 1
      BY <1>1, <1>2, <2>1
    <3>2. r[i] = t[i - Len(u)]
      BY <1>1, <1>2, <3>1
    <3> QED
      BY <3>1, <3>2
  <2> QED
    BY <1>2, <2>1, <2>2, <2>3
<1> HIDE DEF r
<1>4. ASSUME NEW i \in 1 .. Len(r) - 1 PROVE previous[r[i + 1]] = r[i]
  <2>1. i \in Nat /\ k \in Nat /\ Len(r) \in Nat
    BY <1>1, <1>3
  <2>2. CASE i < k - 1
    <3>1. i \in 1 .. k - 1 /\ i + 1 \in 1 .. k - 1 /\ i \in 1 .. Len(s) - 1
      BY <1>1, <2>1, <2>2
    <3> QED
      BY <1>1, <1>3, <3>1
  <2>3. CASE i = k - 1
    <3>1. i \in 1 .. k - 1 /\ i + 1 = k /\ i \in 1 .. Len(s) - 1 /\ k \in k .. Len(r)
          /\ k - k + 1 = 1
      BY <1>1, <1>3, <2>1, <2>3
    <3>2. r[i + 1] = s[i + 1]
      BY <1>3, <3>1
    <3> QED
      BY <1>1, <1>3, <3>1, <3>2
  <2>4. CASE i > k - 1
    <3>1. /\ i \in k .. Len(r) /\ i + 1 \in k .. Len(r) /\ i - k + 1 \in 1 .. Len(t) - 1
          /\ (i + 1) - k + 1 = (i - k + 1) + 1
      BY <1>1, <1>3, <2>1, <2>4
    <3>2. r[i] = t[i - k + 1] /\ r[i + 1] = t[(i + 1) - k + 1]
      BY <1>3, <3>1
    <3>3. previous[t[(i - k + 1) + 1]] = t[i - k + 1]
      BY <1>1, <3>1
    <3> QED
      BY <3>1, <3>2, <3>3
  <2> QED
    BY <2>1, <2>2, <2>3, <2>4
<1> QED
  BY <1>3, <1>4 DEF Linked, r, u

(* The chain of a block is one of the tree's chains.                       *)
LEMMA PathLinked ==
    ASSUME NEW b \in Blocks
    PROVE  Linked(Path[b]) /\ Path[b] # <<>>
<1>1. Path[b] = CHOOSE s \in Chains : Last(s) = b
  BY DEF Path
<1>2. Path[b] \in Chains
  BY <1>1, TreeAssumption, Zenon
<1>3. PICK n \in 0 .. Cardinality(Blocks) : Path[b] \in [1 .. n -> Blocks]
  BY <1>2 DEF Chains, SeqOf
<1>4. Path[b] # <<>> /\ \A i \in 1 .. Len(Path[b]) - 1 : previous[Path[b][i + 1]] = Path[b][i]
  BY <1>2 DEF Chains
<1>5. Path[b] \in Seq(Blocks)
  <2> HIDE DEF Path
  <2> QED
    BY <1>3
<1> QED
  BY <1>4, <1>5 DEF Linked

(* The greatest element of a finite set.                                   *)
LEMMA MaxElement ==
    ASSUME NEW S \in SUBSET Int, IsFiniteSet(S), S # {}
    PROVE  Max(S) \in S /\ \A k \in S : k <= Max(S)
<1>1. PICK m \in S : \A k \in S : k <= m
  BY GreatestElement
<1>2. \E n \in S : \A k \in S : n >= k
  BY <1>1
<1>3. Max(S) \in S /\ \A k \in S : Max(S) >= k
  BY <1>2, Zenon DEF Max
<1> QED
  BY <1>3

(* What a peer answers is a part of its chain.                             *)
LEMMA ItemIdsLinked ==
    ASSUME NEW h \in Blocks, NEW synopsis
    PROVE  Linked(get_item_ids(h, synopsis).ids)
<1> DEFINE path == PathTo(h)
           LastSeen(n) == \E i \in DOMAIN synopsis :
                            /\ synopsis[i] = path[n]
                            /\ \A j \in DOMAIN synopsis : j > i => synopsis[j] \notin Range(path)
           S == {1} \cup {n \in DOMAIN path : LastSeen(n)}
           rest == SubSeq(path, Max(S), Len(path))
           count == Min({Limit, Len(rest)})
<1>1. get_item_ids(h, synopsis).ids = SubSeq(rest, 1, count)
  BY DEF get_item_ids
<1>2. Linked(path) /\ path \in Seq(Blocks)
  BY PathLinked, NoneAssumption DEF PathTo, Linked
<1> HIDE DEF path, LastSeen
<1>3. S \subseteq 1 .. (Len(path) + 1) /\ S \in SUBSET Int /\ S # {} /\ Len(path) \in Nat
  BY <1>2
<1>4. IsFiniteSet(S)
  <2>1. IsFiniteSet(1 .. (Len(path) + 1))
    BY <1>3, FS_Interval
  <2> HIDE DEF S
  <2> QED
    BY <1>3, <2>1, FS_Subset
<1> HIDE DEF S
<1>5. Max(S) \in Nat \ {0}
  <2>1. Max(S) \in S
    BY <1>3, <1>4, MaxElement
  <2>2. Max(S) \in 1 .. (Len(path) + 1)
    BY <1>3, <2>1, Zenon
  <2> QED
    BY <1>3, <2>2
<1>6. Linked(rest) /\ Len(rest) \in Nat
  <2> DEFINE first == Max(S)
  <2> HIDE DEF first
  <2>1. first \in Nat \ {0} /\ Len(path) \in Int /\ Len(path) <= Len(path)
    BY <1>3, <1>5 DEF first
  <2>2. Linked(SubSeq(path, first, Len(path)))
    BY <1>2, <2>1, LinkedPart
  <2>3. Linked(rest)
    BY <2>2 DEF first
  <2> HIDE DEF rest
  <2>4. rest \in Seq(Blocks)
    BY <2>3 DEF Linked
  <2> QED
    BY <2>3, <2>4
<1> HIDE DEF rest
<1>7. count \in Nat /\ count <= Len(rest)
  <2>1. Limit \in Nat
    BY LimitAssumption
  <2>2. \E x \in {Limit, Len(rest)} : \A y \in {Limit, Len(rest)} : x <= y
    BY <1>6, <2>1
  <2>3. count \in {Limit, Len(rest)} /\ \A y \in {Limit, Len(rest)} : count <= y
    BY <2>2, Zenon DEF Min
  <2> QED
    BY <1>6, <2>1, <2>3
<1> HIDE DEF count
<1> QED
  BY <1>1, <1>6, <1>7, LinkedPart

-----------------------------------------------------------------------------
(* Steps of the connections.                                               *)

FieldNames ==
  {"list", "ids_of_items_to_get", "ids_of_items_being_processed", "number_of_unfetched_item_ids",
   "peer_needs_sync_items_from_us", "we_need_sync_items_from_peer", "item_ids_requested",
   "sync_items_requested", "last_block", "last_block_number", "inhibit_fetching_sync_blocks"}

LEMMA FieldsAre == Fields = FieldNames
BY DEF Fields, FieldNames, Connection

(* d is c after a step that leaves what c owes us, and does not close it.  *)
Kept(c, d) ==
  /\ ConnectionOK(d)
  /\ d.sync_items_requested = c.sync_items_requested
  /\ d.list = "closed" => c.list = "closed"

LEMMA KeptSame ==
    ASSUME NEW c, ConnectionOK(c)
    PROVE  Kept(c, c)
BY DEF Kept

LEMMA KeptUpdates ==
    ASSUME NEW c, ConnectionOK(c), NEW x
    PROVE  /\ Kept(c, [c EXCEPT !.item_ids_requested = x])
           /\ Kept(c, [c EXCEPT !.inhibit_fetching_sync_blocks = x])
           /\ Kept(c, [c EXCEPT !.we_need_sync_items_from_peer = x])
           /\ Kept(c, [c EXCEPT !.peer_needs_sync_items_from_us = x])
           /\ Kept(c, [c EXCEPT !.number_of_unfetched_item_ids = x])
           /\ Kept(c, [c EXCEPT !.last_block = x])
           /\ Kept(c, [c EXCEPT !.last_block_number = x])
           /\ Kept(c, [c EXCEPT !.ids_of_items_being_processed = x])
           /\ Linked(x) => Kept(c, [c EXCEPT !.ids_of_items_to_get = x])
<1>1. DOMAIN c = FieldNames /\ Linked(c.ids_of_items_to_get)
  BY FieldsAre DEF ConnectionOK
<1> QED
  BY <1>1, FieldsAre DEF Kept, ConnectionOK, FieldNames

LEMMA KeptTransitive ==
    ASSUME NEW c, NEW d, NEW e, Kept(c, d), Kept(d, e)
    PROVE  Kept(c, e)
BY DEF Kept

(* disconnect_from_peer only starts to close a connection.                 *)
LEMMA DisconnectKeeps ==
    ASSUME NEW c, ConnectionOK(c)
    PROVE  Kept(c, disconnect_from_peer(c))
<1>1. DOMAIN c = FieldNames /\ Linked(c.ids_of_items_to_get)
  BY FieldsAre DEF ConnectionOK
<1> QED
  BY <1>1, FieldsAre DEF Kept, ConnectionOK, FieldNames, disconnect_from_peer

(* start_synchronizing_with_peer begins with an empty list.                *)
LEMMA StartKeeps ==
    ASSUME NEW c, ConnectionOK(c)
    PROVE  Kept(c, start_synchronizing_with_peer(c))
<1>1. DOMAIN c = FieldNames /\ Linked(c.ids_of_items_to_get)
  BY FieldsAre DEF ConnectionOK
<1> DEFINE d == start_synchronizing_with_peer(c)
<1>2. /\ DOMAIN d = FieldNames /\ d.ids_of_items_to_get = <<>>
      /\ d.sync_items_requested = c.sync_items_requested /\ d.list = c.list
  BY <1>1 DEF FieldNames, start_synchronizing_with_peer
<1> HIDE DEF d
<1>3. Kept(c, d)
  BY <1>2, LinkedEmpty, FieldsAre DEF Kept, ConnectionOK
<1> QED
  BY <1>3 DEF d

(* A step that keeps every connection and marks nothing as being fetched   *)
(* preserves the invariant.                                                *)
LEMMA KeepsAll ==
    ASSUME IInv, DOMAIN peer' = Peers, \A p \in Peers : Kept(peer[p], peer'[p]),
           chain' \in [Peers -> Blocks], DOMAIN reply' = Peers,
           \A p \in Peers : reply'[p] \in {reply[p], <<>>} \/ Linked(Head(reply'[p]).ids),
           active_sync_requests' \subseteq active_sync_requests, lacked \subseteq lacked'
    PROVE  IInv'
<1>1. ListsInv'
  <2>1. \A p \in Peers : ConnectionOK(peer'[p])
    BY DEF Kept
  <2>2. \A p \in Peers : reply'[p] # <<>> => Linked(Head(reply'[p]).ids)
    BY DEF IInv, ListsInv
  <2> QED
    BY <2>1, <2>2 DEF ListsInv, ConnectionOK, Linked, Fields, Connection
<1>2. ActiveRequestsBacked'
  BY DEF IInv, ActiveRequestsBacked, Kept
<1> QED
  BY <1>1, <1>2 DEF IInv

(* Steps that touch none of this.                                          *)
LEMMA KeepsUnchanged ==
    ASSUME IInv, UNCHANGED <<peer, chain, reply, active_sync_requests, lacked>>
    PROVE  IInv'
<1>1. \A p \in Peers : Kept(peer[p], peer'[p])
  BY KeptSame DEF IInv, ListsInv
<1> QED
  BY <1>1, KeepsAll DEF IInv, ListsInv

(* Steps that keep one connection and leave the others.                    *)
LEMMA KeepsOthers ==
    ASSUME IInv, NEW p, NEW d, p \in Peers => Kept(peer[p], d),
           peer' = [peer EXCEPT ![p] = d],
           UNCHANGED <<chain, reply, active_sync_requests>>, lacked \subseteq lacked'
    PROVE  IInv'
<1>1. DOMAIN peer = Peers /\ \A q \in Peers : ConnectionOK(peer[q])
  BY DEF IInv, ListsInv
<1>2. DOMAIN peer' = Peers /\ \A q \in Peers : Kept(peer[q], peer'[q])
  BY <1>1, KeptSame
<1> QED
  BY <1>2, KeepsAll DEF IInv, ListsInv

(* The peer no longer owes a block: it has delivered it, or lacks it.      *)
LEMMA NoLongerOwed ==
    ASSUME IInv, NEW p \in Peers, NEW b, NEW d,
           ConnectionOK(d), peer[p].list # "closed" => d.list # "closed",
           d.sync_items_requested = peer[p].sync_items_requested \ {b},
           peer' = [peer EXCEPT ![p] = d], UNCHANGED <<chain, reply>>,
           active_sync_requests' \subseteq active_sync_requests, lacked \subseteq lacked',
           b \in active_sync_requests' => b \in lacked'
    PROVE  IInv'
<1>1. DOMAIN peer = Peers /\ \A q \in Peers : ConnectionOK(peer[q])
  BY DEF IInv, ListsInv
<1>2. DOMAIN peer' = Peers /\ peer'[p] = d /\ \A q \in Peers \ {p} : peer'[q] = peer[q]
  BY <1>1
<1>3. ListsInv'
  <2>1. \A q \in Peers : ConnectionOK(peer'[q])
    BY <1>1, <1>2
  <2> QED
    BY <1>2, <2>1 DEF IInv, ListsInv, ConnectionOK, Linked, Fields, Connection
<1>4. ActiveRequestsBacked'
  <2> SUFFICES ASSUME NEW x \in active_sync_requests', x \notin lacked'
               PROVE  \E q \in Peers : peer'[q].list # "closed" /\ x \in peer'[q].sync_items_requested
    BY DEF ActiveRequestsBacked
  <2>1. x # b /\ x \in active_sync_requests /\ x \notin lacked
    OBVIOUS
  <2>2. PICK q \in Peers : peer[q].list # "closed" /\ x \in peer[q].sync_items_requested
    BY <2>1 DEF IInv, ActiveRequestsBacked
  <2>3. peer'[q].list # "closed" /\ x \in peer'[q].sync_items_requested
    BY <1>2, <2>1, <2>2
  <2> QED
    BY <2>3
<1> QED
  BY <1>3, <1>4 DEF IInv

(* A connection ends, and what it owed may be asked of others.             *)
LEMMA ClosedKeeps ==
    ASSUME IInv, NEW p \in Peers, ConnectionClosed(p),
           UNCHANGED <<chain, lacked>>, reply' = reply \/ reply' = [reply EXCEPT ![p] = <<>>]
    PROVE  IInv'
<1>1. DOMAIN peer = Peers /\ (\A q \in Peers : ConnectionOK(peer[q])) /\ DOMAIN reply = Peers
  BY DEF IInv, ListsInv
<1>2. /\ peer' = [peer EXCEPT ![p].list = "closed"]
      /\ active_sync_requests' = active_sync_requests \ peer[p].sync_items_requested
  BY DEF ConnectionClosed
<1>3. /\ DOMAIN peer' = Peers /\ peer'[p] = [peer[p] EXCEPT !.list = "closed"]
      /\ \A q \in Peers \ {p} : peer'[q] = peer[q]
  BY <1>1, <1>2
<1>4. ConnectionOK(peer'[p])
  <2>1. DOMAIN peer[p] = FieldNames
    BY <1>1, FieldsAre DEF ConnectionOK
  <2> QED
    BY <1>1, <1>3, <2>1, FieldsAre DEF ConnectionOK, FieldNames
<1>5. ListsInv'
  <2>1. \A q \in Peers : ConnectionOK(peer'[q])
    BY <1>1, <1>3, <1>4
  <2>2. DOMAIN reply' = Peers /\ \A q \in Peers : reply'[q] \in {reply[q], <<>>}
    BY <1>1
  <2>3. \A q \in Peers : reply'[q] # <<>> => Linked(Head(reply'[q]).ids)
    BY <2>2 DEF IInv, ListsInv
  <2> QED
    BY <1>3, <2>1, <2>2, <2>3 DEF IInv, ListsInv, ConnectionOK, Linked, Fields, Connection
<1>6. ActiveRequestsBacked'
  <2> SUFFICES ASSUME NEW x \in active_sync_requests', x \notin lacked'
               PROVE  \E q \in Peers : peer'[q].list # "closed" /\ x \in peer'[q].sync_items_requested
    BY DEF ActiveRequestsBacked
  <2>1. x \in active_sync_requests /\ x \notin peer[p].sync_items_requested /\ x \notin lacked
    BY <1>2
  <2>2. PICK q \in Peers : peer[q].list # "closed" /\ x \in peer[q].sync_items_requested
    BY <2>1 DEF IInv, ActiveRequestsBacked
  <2> QED
    BY <1>3, <2>1, <2>2
<1> QED
  BY <1>5, <1>6 DEF IInv

(* An answer with ids is joined to the list of the peer.                   *)
LEMMA ListedKeeps ==
    ASSUME IInv, NEW p \in Peers, reply[p] # <<>>
    PROVE  LET m == Head(reply[p])
               c == peer[p]
           IN  /\ c.ids_of_items_to_get = <<>> => Kept(c, FirstList(p, m))
               /\ Kept(c, JoinedList(c, m))
<1> DEFINE m == Head(reply[p])
           c == peer[p]
           ids == m.ids
           old == c.ids_of_items_to_get
<1>1. ConnectionOK(c) /\ Linked(ids) /\ Linked(old)
  BY DEF IInv, ListsInv, ConnectionOK
<1>2. ids \in Seq(Blocks) /\ old \in Seq(Blocks) /\ Len(ids) \in Nat /\ Len(old) \in Nat
  BY <1>1 DEF Linked
<1>3. Kept(c, c)
  BY <1>1, KeptSame
<1>4. Kept(c, FirstList(p, m))
  <2> DEFINE for_other == \E q \in ActivePeers \ {p} :
                            /\ peer[q].ids_of_items_to_get # <<>>
                            /\ Head(peer[q].ids_of_items_to_get) = m.ids[1]
             IsSeen(n) == /\ \A i \in 1..n : m.ids[i] \in known
                          /\ n = Len(m.ids) \/ m.ids[n + 1] \notin known
             seen == CHOOSE n \in 0..Len(m.ids) : IsSeen(n)
             rest == SubSeq(m.ids, seen + 1, Len(m.ids))
  <2>1. FirstList(p, m) =
          IF m.ids = <<>> THEN c
          ELSE IF for_other \/ seen = 0 THEN [c EXCEPT !.ids_of_items_to_get = m.ids]
          ELSE [c EXCEPT !.ids_of_items_to_get = rest,
                         !.last_block = m.ids[seen],
                         !.last_block_number = @ + seen]
    BY Zenon DEF FirstList
  <2> HIDE DEF for_other
  <2>2. seen \in 0 .. Len(ids)
    <3> DEFINE S == {n \in 0 .. Len(ids) : \A i \in 1 .. n : ids[i] \in known}
    <3>1. S \in SUBSET Int /\ 0 \in S /\ S \subseteq 0 .. Len(ids)
      BY <1>2
    <3>2. IsFiniteSet(S)
      <4>1. IsFiniteSet(0 .. Len(ids))
        <5>1. \A n \in Nat : IsFiniteSet(0 .. n)
          BY FS_Interval
        <5> QED
          BY <1>2, <5>1
      <4> QED
        BY <3>1, <4>1, FS_Subset
    <3>3. PICK n \in S : \A k \in S : k <= n
      <4> HIDE DEF S
      <4> QED
        BY <3>1, <3>2, GreatestElement
    <3>4. n \in 0 .. Len(ids) /\ \A i \in 1 .. n : ids[i] \in known
      OBVIOUS
    <3>5. n = Len(ids) \/ ids[n + 1] \notin known
      <4>1. SUFFICES ASSUME n # Len(ids), ids[n + 1] \in known PROVE FALSE
        OBVIOUS
      <4>2. n + 1 \in 0 .. Len(ids) /\ \A i \in 1 .. n + 1 : i \in 1 .. n \/ i = n + 1
        BY <1>2, <3>4, <4>1
      <4>3. n + 1 \in S
        BY <3>4, <4>1, <4>2
      <4> QED
        BY <3>3, <3>4, <4>3
    <3>6. \E k \in 0..Len(m.ids) : IsSeen(k)
      BY <3>4, <3>5
    <3> QED
      BY <3>6
  <2> HIDE DEF seen
  <2>3. Linked(rest)
    <3>1. seen + 1 \in Nat \ {0} /\ Len(ids) \in Int /\ Len(ids) <= Len(ids)
      BY <1>2, <2>2
    <3> QED
      BY <1>1, <3>1, LinkedPart
  <2>4. Kept(c, [c EXCEPT !.ids_of_items_to_get = ids])
    BY <1>1, KeptUpdates
  <2>5. Kept(c, [c EXCEPT !.ids_of_items_to_get = rest, !.last_block = m.ids[seen],
                          !.last_block_number = @ + seen])
    <3> HIDE DEF rest, c
    <3>1. DOMAIN c = FieldNames
      BY <1>1, FieldsAre DEF ConnectionOK
    <3> QED
      BY <2>3, <3>1, FieldsAre DEF Kept, ConnectionOK, FieldNames
  <2> QED
    BY <1>3, <2>1, <2>4, <2>5
<1>5. Kept(c, JoinedList(c, m))
  <2> DEFINE common == {i \in DOMAIN old : old[i] = m.ids[1]}
  <2>1. CASE m.ids = <<>>
    BY <1>3, <2>1 DEF JoinedList
  <2>2. CASE m.ids # <<>> /\ common # {}
    <3> DEFINE k == Max(common)
               join == SubSeq(old, 1, k - 1) \o m.ids
    <3>1. JoinedList(c, m) = [c EXCEPT !.ids_of_items_to_get = join]
      BY <2>2, Zenon DEF JoinedList
    <3>2. common \subseteq 1 .. Len(old) /\ common \in SUBSET Int
      BY <1>2
    <3>3. IsFiniteSet(common)
      <4>1. IsFiniteSet(1 .. Len(old))
        <5>1. \A n \in Nat : IsFiniteSet(1 .. n)
          BY FS_Interval
        <5> QED
          BY <1>2, <5>1
      <4> QED
        BY <3>2, <4>1, FS_Subset
    <3>4. k \in common
      <4> HIDE DEF common
      <4> QED
        BY <2>2, <3>2, <3>3, MaxElement
    <3>5. k \in 1 .. Len(old) /\ old[k] = m.ids[1]
      <4> HIDE DEF k
      <4> QED
        BY <3>2, <3>4
    <3> HIDE DEF k
    <3>6. Linked(join)
      BY <1>1, <2>2, <3>5, LinkedJoin
    <3> HIDE DEF join, c
    <3>7. Kept(c, [c EXCEPT !.ids_of_items_to_get = join])
      BY <1>1, <3>6, KeptUpdates
    <3> QED
      BY <3>1, <3>7
  <2>3. CASE m.ids # <<>> /\ common = {}
    <3> DEFINE rest == Tail(m.ids)
    <3>1. JoinedList(c, m) = [c EXCEPT !.ids_of_items_to_get = rest, !.last_block = m.ids[1],
                                       !.last_block_number = BlockNum(m.ids[1])]
      BY <2>3, Zenon DEF JoinedList
    <3>2. Linked(rest)
      BY <1>1, <2>3, LinkedTail
    <3> HIDE DEF rest, c
    <3>3. DOMAIN c = FieldNames
      BY <1>1, FieldsAre DEF ConnectionOK
    <3> QED
      BY <3>1, <3>2, <3>3, FieldsAre DEF Kept, ConnectionOK, FieldNames
  <2> QED
    BY <2>1, <2>2, <2>3
<1> QED
  BY <1>4, <1>5

-----------------------------------------------------------------------------
(* The actions.                                                            *)

LEMMA InitInv == Init => IInv
<1> SUFFICES ASSUME Init PROVE IInv
  OBVIOUS
<1> DEFINE c == Connection(TRUE)
<1>1. /\ peer = [p \in Peers |-> c] /\ reply = [p \in Peers |-> <<>>]
      /\ chain = FirstHead /\ active_sync_requests = {}
  BY DEF Init
<1>2. ConnectionOK(c)
  <2>1. c.ids_of_items_to_get = <<>>
    BY DEF Connection
  <2> QED
    BY <2>1, LinkedEmpty DEF ConnectionOK, Fields
<1> HIDE DEF c
<1> QED
  BY <1>1, <1>2, PeersAssumption DEF IInv, ListsInv, ActiveRequestsBacked

(* What the fetch loop marks as being fetched it asks of an active peer.   *)
LEMMA FetchKeeps ==
    ASSUME IInv, fetch_sync_items_loop
    PROVE  IInv'
<1>1. UNCHANGED <<chain, reply, lacked>>
  BY DEF fetch_sync_items_loop, history
<1>2. CASE UNCHANGED <<peer, active_sync_requests>>
  BY <1>1, <1>2, KeepsUnchanged
<1>3. CASE ~suspend_fetching_sync_blocks
  <2>1. PICK order \in SetToSeqs(ReadyPeers) :
          LET chosen == ItemsToRequest(order) IN
          /\ peer' = [p \in Peers |->
                        [peer[p] EXCEPT !.sync_items_requested = @ \cup Range(chosen[p])]]
          /\ active_sync_requests' = active_sync_requests \cup
                                       UNION {Range(chosen[p]) : p \in ReadyPeers}
    BY <1>3 DEF fetch_sync_items_loop
  <2> DEFINE chosen == ItemsToRequest(order)
  <2> HIDE DEF chosen
  <2>2. /\ peer' = [p \in Peers |->
                      [peer[p] EXCEPT !.sync_items_requested = @ \cup Range(chosen[p])]]
        /\ active_sync_requests' = active_sync_requests \cup
                                     UNION {Range(chosen[p]) : p \in ReadyPeers}
    BY <2>1 DEF chosen
  <2>3. ASSUME NEW p \in Peers
        PROVE  /\ ConnectionOK(peer'[p]) /\ peer'[p].list = peer[p].list
               /\ peer'[p].sync_items_requested =
                    peer[p].sync_items_requested \cup Range(chosen[p])
    <3>1. DOMAIN peer[p] = FieldNames /\ Linked(peer[p].ids_of_items_to_get)
      BY FieldsAre DEF IInv, ListsInv, ConnectionOK
    <3>2. peer'[p] = [peer[p] EXCEPT !.sync_items_requested =
                                       peer[p].sync_items_requested \cup Range(chosen[p])]
      BY <2>2
    <3> QED
      BY <3>1, <3>2, FieldsAre DEF ConnectionOK, FieldNames
  <2>4. ListsInv'
    <3>1. DOMAIN peer' = Peers
      BY <2>2
    <3> QED
      BY <1>1, <2>3, <3>1 DEF IInv, ListsInv, ConnectionOK, Linked, Fields, Connection
  <2>5. ActiveRequestsBacked'
    <3> SUFFICES ASSUME NEW x \in active_sync_requests', x \notin lacked
                 PROVE  \E q \in Peers : peer'[q].list # "closed" /\ x \in peer'[q].sync_items_requested
      BY <1>1 DEF ActiveRequestsBacked
    <3>1. CASE x \in active_sync_requests
      <4>1. PICK q \in Peers : peer[q].list # "closed" /\ x \in peer[q].sync_items_requested
        BY <3>1 DEF IInv, ActiveRequestsBacked
      <4> QED
        BY <2>3, <4>1
    <3>2. CASE x \notin active_sync_requests
      <4>1. PICK q \in ReadyPeers : x \in Range(chosen[q])
        BY <2>2, <3>2
      <4>2. q \in Peers /\ peer[q].list = "active"
        BY DEF ReadyPeers, ActivePeers, Active
      <4>3. peer'[q].list # "closed" /\ x \in peer'[q].sync_items_requested
        BY <2>3, <4>1, <4>2
      <4> QED
        BY <4>2, <4>3
    <3> QED
      BY <3>1, <3>2
  <2> QED
    BY <2>4, <2>5 DEF IInv
<1> QED
  BY <1>2, <1>3 DEF fetch_sync_items_loop

(* An answer with ids.                                                     *)
LEMMA InventoryKeeps ==
    ASSUME IInv, NEW p \in Peers, on_blockchain_item_ids_inventory_message(p)
    PROVE  IInv'
<1> DEFINE m == Head(reply[p])
           c == peer[p]
           listed == IF c.ids_of_items_to_get = <<>> THEN FirstList(p, m) ELSE JoinedList(c, m)
           d == [listed EXCEPT !.number_of_unfetched_item_ids = m.remaining]
<1>1. /\ reply[p] # <<>> /\ reply' = [reply EXCEPT ![p] = <<>>] /\ UNCHANGED <<chain, lacked>>
      /\ \/ /\ peer' = [peer EXCEPT ![p].we_need_sync_items_from_peer = FALSE]
            /\ UNCHANGED active_sync_requests
         \/ ConnectionClosed(p)
         \/ peer' = [peer EXCEPT ![p] = d] /\ UNCHANGED active_sync_requests
  BY DEF on_blockchain_item_ids_inventory_message, history
<1>2. DOMAIN peer = Peers /\ DOMAIN reply = Peers /\ \A q \in Peers : ConnectionOK(peer[q])
  BY DEF IInv, ListsInv
<1>3. DOMAIN reply' = Peers /\ \A q \in Peers : reply'[q] \in {reply[q], <<>>}
  BY <1>1, <1>2
<1>4. ASSUME NEW e, Kept(c, e), peer' = [peer EXCEPT ![p] = e], UNCHANGED active_sync_requests
      PROVE  IInv'
  <2>1. DOMAIN peer' = Peers /\ \A q \in Peers : Kept(peer[q], peer'[q])
    BY <1>2, <1>4, KeptSame
  <2> QED
    BY <1>1, <1>3, <1>4, <2>1, KeepsAll DEF IInv, ListsInv
<1>5. CASE peer' = [peer EXCEPT ![p].we_need_sync_items_from_peer = FALSE]
           /\ UNCHANGED active_sync_requests
  <2>1. Kept(c, [c EXCEPT !.we_need_sync_items_from_peer = FALSE])
    BY <1>2, KeptUpdates
  <2>2. peer' = [peer EXCEPT ![p] = [c EXCEPT !.we_need_sync_items_from_peer = FALSE]]
    BY <1>5
  <2> QED
    BY <1>4, <1>5, <2>1, <2>2
<1>6. CASE ConnectionClosed(p)
  BY <1>1, <1>6, ClosedKeeps
<1>7. CASE peer' = [peer EXCEPT ![p] = d] /\ UNCHANGED active_sync_requests
  <2>1. Kept(c, listed)
    BY <1>1, ListedKeeps
  <2> HIDE DEF listed, c, m
  <2>2. Kept(listed, d)
    <3>1. ConnectionOK(listed)
      BY <2>1 DEF Kept
    <3> QED
      BY <3>1, KeptUpdates
  <2>3. Kept(c, d)
    BY <2>1, <2>2, KeptTransitive
  <2> QED
    BY <1>4, <1>7, <2>3
<1> QED
  BY <1>1, <1>5, <1>6, <1>7

(* The peers that wait for a block have it taken off their lists.          *)
LEMMA BacklogKeeps ==
    ASSUME IInv, NEW b, process_backlog_of_sync_blocks(b)
    PROVE  IInv'
<1>1. /\ UNCHANGED <<chain, reply, active_sync_requests, lacked>>
      /\ peer' = [p \in Peers |->
                    IF p \in Expecting(b)
                    THEN [peer[p] EXCEPT !.ids_of_items_to_get = Tail(@),
                                         !.ids_of_items_being_processed = @ \cup {b}]
                    ELSE peer[p]]
  BY DEF process_backlog_of_sync_blocks
<1>2. ASSUME NEW p \in Peers PROVE Kept(peer[p], peer'[p])
  <2>1. ConnectionOK(peer[p])
    BY DEF IInv, ListsInv
  <2>2. CASE p \in Expecting(b)
    <3> DEFINE c == peer[p]
               rest == Tail(c.ids_of_items_to_get)
               taken == c.ids_of_items_being_processed \cup {b}
    <3>1. peer'[p] = [c EXCEPT !.ids_of_items_to_get = rest, !.ids_of_items_being_processed = taken]
      BY <1>1, <2>2
    <3>2. Linked(rest)
      BY <2>1, <2>2, LinkedTail DEF Expecting, ConnectionOK
    <3> HIDE DEF rest, taken, c
    <3>3. DOMAIN c = FieldNames
      BY <2>1, FieldsAre DEF ConnectionOK, c
    <3>4. Kept(c, [c EXCEPT !.ids_of_items_to_get = rest, !.ids_of_items_being_processed = taken])
      BY <3>2, <3>3, FieldsAre DEF Kept, ConnectionOK, FieldNames
    <3> QED
      BY <3>1, <3>4 DEF c
  <2>3. CASE p \notin Expecting(b)
    BY <1>1, <2>1, <2>3, KeptSame
  <2> QED
    BY <2>2, <2>3
<1>3. DOMAIN peer' = Peers
  BY <1>1
<1> QED
  BY <1>1, <1>2, <1>3, KeepsAll DEF IInv, ListsInv

(* The client has handled a block.                                         *)
LEMMA HandledKeeps ==
    ASSUME IInv, send_sync_block_to_node_delegate
    PROVE  IInv'
<1> DEFINE b == Head(handling)
           processing == {p \in ActivePeers : b \in peer[p].ids_of_items_being_processed}
           in_sync == {p \in ActivePeers : /\ HasNoItems(peer[p])
                                           /\ ~peer[p].peer_needs_sync_items_from_us
                                           /\ ~peer[p].we_need_sync_items_from_peer}
           accepted == [p \in Peers |->
                          IF p \in in_sync THEN start_synchronizing_with_peer(peer[p])
                          ELSE IF p \in processing THEN AfterAccepting(peer[p], b)
                          ELSE peer[p]]
<1>1. /\ UNCHANGED <<chain, reply, active_sync_requests, lacked>>
      /\ \/ peer' = accepted
         \/ peer' = [p \in Peers |-> [peer[p] EXCEPT !.inhibit_fetching_sync_blocks =
                                        @ \/ p \in processing]]
         \/ peer' = [p \in Peers |-> IF p \in processing THEN disconnect_from_peer(peer[p])
                                     ELSE peer[p]]
  BY DEF send_sync_block_to_node_delegate, history, items
<1> HIDE DEF processing, in_sync, b
<1>2. DOMAIN peer' = Peers
  BY <1>1
<1>3. ASSUME NEW p \in Peers PROVE Kept(peer[p], peer'[p])
  <2> DEFINE c == peer[p]
  <2>1. ConnectionOK(c)
    BY DEF IInv, ListsInv
  <2>2. Kept(c, AfterAccepting(c, b))
    <3>1. DOMAIN c = FieldNames /\ Linked(c.ids_of_items_to_get)
      BY <2>1, FieldsAre DEF ConnectionOK
    <3> HIDE DEF c
    <3>2. CASE b \in c.ids_of_items_being_processed
      <4> DEFINE left == c.ids_of_items_being_processed \ {b}
                 d == [c EXCEPT !.last_block = b, !.last_block_number = BlockNum(b),
                                !.ids_of_items_being_processed = left]
      <4>1. AfterAccepting(c, b) = d
        BY <3>2 DEF AfterAccepting
      <4>2. /\ DOMAIN d = FieldNames /\ d.ids_of_items_to_get = c.ids_of_items_to_get
            /\ d.sync_items_requested = c.sync_items_requested /\ d.list = c.list
        BY <3>1 DEF FieldNames
      <4> HIDE DEF d
      <4>3. Kept(c, d)
        BY <3>1, <4>2, FieldsAre DEF Kept, ConnectionOK
      <4> QED
        BY <4>1, <4>3
    <3>3. CASE b \notin c.ids_of_items_being_processed
      BY <2>1, <3>3, KeptSame DEF AfterAccepting
    <3> QED
      BY <3>2, <3>3
  <2>3. Kept(c, start_synchronizing_with_peer(c)) /\ Kept(c, disconnect_from_peer(c)) /\ Kept(c, c)
    BY <2>1, StartKeeps, DisconnectKeeps, KeptSame
  <2>4. Kept(c, [c EXCEPT !.inhibit_fetching_sync_blocks =
                            c.inhibit_fetching_sync_blocks \/ p \in processing])
    BY <2>1, KeptUpdates
  <2>5. CASE peer' = accepted
    BY <2>2, <2>3, <2>5
  <2>6. CASE peer' = [q \in Peers |-> [peer[q] EXCEPT !.inhibit_fetching_sync_blocks =
                                         @ \/ q \in processing]]
    BY <2>4, <2>6
  <2>7. CASE peer' = [q \in Peers |-> IF q \in processing THEN disconnect_from_peer(peer[q])
                                      ELSE peer[q]]
    BY <2>3, <2>7
  <2> QED
    BY <1>1, <2>5, <2>6, <2>7
<1> QED
  BY <1>1, <1>2, <1>3, KeepsAll DEF IInv, ListsInv

(* What a peer does.                                                       *)
LEMMA PeerKeeps ==
    ASSUME IInv, NEW p \in Peers, PeerStep(p)
    PROVE  IInv'
<1> DEFINE c == peer[p]
<1>1. /\ DOMAIN peer = Peers /\ DOMAIN reply = Peers /\ chain \in [Peers -> Blocks]
      /\ ConnectionOK(c) /\ \A q \in Peers : ConnectionOK(peer[q])
  BY DEF IInv, ListsInv
<1>2. CASE ReceiveIds(p)
  <2> DEFINE synopsis == Head(requests[p]).synopsis
  <2>1. /\ UNCHANGED <<chain, active_sync_requests, lacked>>
        /\ \/ /\ peer' = [peer EXCEPT ![p].item_ids_requested = FALSE]
              /\ reply' = [reply EXCEPT ![p] = <<get_item_ids(chain[p], synopsis)>>]
           \/ UNCHANGED <<peer, reply>>
    BY <1>2 DEF ReceiveIds, items, history
  <2>2. CASE UNCHANGED <<peer, reply>>
    BY <2>1, <2>2, KeepsUnchanged
  <2>3. CASE /\ peer' = [peer EXCEPT ![p].item_ids_requested = FALSE]
             /\ reply' = [reply EXCEPT ![p] = <<get_item_ids(chain[p], synopsis)>>]
    <3>1. Kept(c, [c EXCEPT !.item_ids_requested = FALSE])
      BY <1>1, KeptUpdates
    <3>2. DOMAIN peer' = Peers /\ \A q \in Peers : Kept(peer[q], peer'[q])
      BY <1>1, <2>3, <3>1, KeptSame
    <3> DEFINE r == get_item_ids(chain[p], synopsis)
    <3>3. Linked(r.ids)
      BY <1>1, ItemIdsLinked
    <3> HIDE DEF r, synopsis
    <3>4. reply' = [reply EXCEPT ![p] = <<r>>]
      BY <2>3 DEF r
    <3>5. DOMAIN reply' = Peers /\ \A q \in Peers :
                   reply'[q] \in {reply[q], <<>>} \/ Linked(Head(reply'[q]).ids)
      BY <1>1, <3>3, <3>4
    <3> QED
      BY <1>1, <2>1, <3>2, <3>5, KeepsAll
  <2> QED
    BY <2>1, <2>2, <2>3
<1>3. CASE process_block_during_sync(p)
  <2> DEFINE b == Head(requests[p]).item
             owed == c.sync_items_requested \ {b}
             d == [c EXCEPT !.sync_items_requested = owed]
  <2>1. /\ UNCHANGED <<chain, reply, lacked>> /\ peer' = [peer EXCEPT ![p] = d]
        /\ active_sync_requests' = active_sync_requests \ {b}
    BY <1>3 DEF process_block_during_sync, history
  <2> HIDE DEF b, owed, c
  <2>2. ConnectionOK(d) /\ d.list = c.list /\ d.sync_items_requested = owed
    <3>1. DOMAIN c = FieldNames /\ Linked(c.ids_of_items_to_get)
      BY <1>1, FieldsAre DEF ConnectionOK
    <3> QED
      BY <3>1, FieldsAre DEF ConnectionOK, FieldNames
  <2> HIDE DEF d
  <2>3. d.sync_items_requested = peer[p].sync_items_requested \ {b} /\ d.list = peer[p].list
    BY <2>2 DEF owed, c
  <2> QED
    BY <2>1, <2>2, <2>3, NoLongerOwed
<1>4. CASE on_item_not_available_message(p)
  <2> DEFINE b == Head(requests[p]).item
             owed == c.sync_items_requested \ {b}
             e == [c EXCEPT !.sync_items_requested = owed]
             d == IF e.peer_needs_sync_items_from_us
                  THEN [e EXCEPT !.inhibit_fetching_sync_blocks = TRUE]
                  ELSE disconnect_from_peer(e)
  <2>1. /\ UNCHANGED <<chain, reply, active_sync_requests>> /\ peer' = [peer EXCEPT ![p] = d]
        /\ lacked' = lacked \cup {b}
    BY <1>4 DEF on_item_not_available_message, items
  <2> HIDE DEF b, owed, c
  <2>2. ConnectionOK(e) /\ e.list = c.list /\ e.sync_items_requested = owed
    <3>1. DOMAIN c = FieldNames /\ Linked(c.ids_of_items_to_get)
      BY <1>1, FieldsAre DEF ConnectionOK
    <3> QED
      BY <3>1, FieldsAre DEF ConnectionOK, FieldNames
  <2> HIDE DEF e
  <2>3. Kept(e, d)
    BY <2>2, KeptUpdates, DisconnectKeeps
  <2> HIDE DEF d
  <2>4. /\ ConnectionOK(d) /\ d.sync_items_requested = peer[p].sync_items_requested \ {b}
        /\ peer[p].list # "closed" => d.list # "closed"
    BY <2>2, <2>3 DEF Kept, owed, c
  <2> QED
    BY <2>1, <2>4, NoLongerOwed
<1>5. CASE on_connection_closed(p)
  BY <1>5, ClosedKeeps DEF on_connection_closed, history
<1>6. CASE on_fetch_blockchain_item_ids_message(p)
  <2> DEFINE needs == ~(head = None \/ head = chain[p])
             restart == ~c.we_need_sync_items_from_peer /\ chain[p] \notin known
             e == IF restart THEN start_synchronizing_with_peer(c) ELSE c
             begun == [e EXCEPT !.peer_needs_sync_items_from_us = needs]
             leave == head = chain[p] /\ c.inhibit_fetching_sync_blocks
             d == IF leave THEN disconnect_from_peer(begun) ELSE begun
  <2>1. UNCHANGED <<chain, reply, active_sync_requests, lacked>> /\ peer' = [peer EXCEPT ![p] = d]
    BY <1>6 DEF on_fetch_blockchain_item_ids_message, history, items
  <2> HIDE DEF needs, restart, leave, c
  <2>2. Kept(c, e)
    BY <1>1, StartKeeps, KeptSame
  <2> HIDE DEF e
  <2>3. Kept(e, begun)
    BY <2>2, KeptUpdates DEF Kept
  <2> HIDE DEF begun
  <2>4. Kept(begun, d)
    BY <2>3, DisconnectKeeps, KeptSame DEF Kept
  <2> HIDE DEF d
  <2>5. Kept(c, d)
    BY <2>2, <2>3, <2>4, KeptTransitive
  <2> QED
    BY <2>1, <2>5, KeepsOthers DEF c
<1>7. CASE process_block_during_normal_operation(p)
  <2> DEFINE b == chain[p]
             d == [c EXCEPT !.last_block = b, !.last_block_number = BlockNum(b)]
  <2>1. /\ UNCHANGED <<chain, reply, active_sync_requests, lacked>>
        /\ \/ peer' = [peer EXCEPT ![p].last_block = b, ![p].last_block_number = BlockNum(b)]
           \/ peer' = [q \in Peers |-> IF q \in Expecting(b) THEN disconnect_from_peer(peer[q])
                                        ELSE peer[q]]
    BY <1>7 DEF process_block_during_normal_operation, items, history
  <2> HIDE DEF b
  <2>2. CASE peer' = [peer EXCEPT ![p].last_block = b, ![p].last_block_number = BlockNum(b)]
    <3>1. peer' = [peer EXCEPT ![p] = d]
      BY <1>1, <2>2
    <3> HIDE DEF c
    <3>2. Kept(c, d)
      <4>1. DOMAIN c = FieldNames /\ Linked(c.ids_of_items_to_get)
        BY <1>1, FieldsAre DEF ConnectionOK
      <4> QED
        BY <4>1, FieldsAre DEF Kept, ConnectionOK, FieldNames
    <3> HIDE DEF d
    <3> QED
      BY <2>1, <3>1, <3>2, KeepsOthers DEF c
  <2>3. CASE peer' = [q \in Peers |-> IF q \in Expecting(b) THEN disconnect_from_peer(peer[q])
                                       ELSE peer[q]]
    <3>1. DOMAIN peer' = Peers /\ \A q \in Peers : Kept(peer[q], peer'[q])
      BY <1>1, <2>3, DisconnectKeeps, KeptSame
    <3> QED
      BY <1>1, <2>1, <3>1, KeepsAll
  <2> QED
    BY <2>1, <2>2, <2>3
<1>8. CASE PeerAdvances(p)
  <2>1. PICK b \in LaterHeads[p] : chain' = [chain EXCEPT ![p] = b]
    BY <1>8 DEF PeerAdvances
  <2>2. b \in Blocks
    BY PeersAssumption
  <2>3. chain' \in [Peers -> Blocks] /\ UNCHANGED <<peer, reply, active_sync_requests, lacked>>
    BY <1>1, <1>8, <2>1, <2>2 DEF PeerAdvances, items, history
  <2>4. \A q \in Peers : Kept(peer[q], peer'[q])
    BY <1>1, <2>3, KeptSame
  <2> QED
    BY <1>1, <2>3, <2>4, KeepsAll
<1> QED
  BY <1>2, <1>3, <1>4, <1>5, <1>6, <1>7, <1>8 DEF PeerStep, PeerAnswers

LEMMA NextKeeps ==
    ASSUME IInv, [Next]_vars
    PROVE  IInv'
<1>1. ASSUME NEW t \in asking, send_fetch_ids(t) PROVE IInv'
  <2> DEFINE p == t.peer
             d == [peer[p] EXCEPT !.item_ids_requested = TRUE]
  <2>1. UNCHANGED <<chain, reply, active_sync_requests, lacked>> /\ peer' = [peer EXCEPT ![p] = d]
    BY <1>1 DEF send_fetch_ids, items, history
  <2>2. p \in Peers => Kept(peer[p], d)
    BY KeptUpdates DEF IInv, ListsInv
  <2> HIDE DEF d, p
  <2> QED
    BY <2>1, <2>2, KeepsOthers
<1>2. CASE process_backlog_start \/ process_backlog_end \/ UNCHANGED vars
  <2>1. UNCHANGED <<peer, chain, reply, active_sync_requests, lacked>>
    BY <1>2 DEF process_backlog_start, process_backlog_end, vars, items, history
  <2> QED
    BY <2>1, KeepsUnchanged
<1> QED
  BY <1>1, <1>2, FetchKeeps, InventoryKeeps, BacklogKeeps, HandledKeeps, PeerKeeps
  DEF Next, NodeStep

(* The invariant holds in every reachable state.                           *)
THEOREM Invariance == Spec => []IInv
<1>1. IInv /\ [Next]_vars => IInv'
  BY NextKeeps
<1> QED
  BY <1>1, InitInv, PTL DEF Spec

(* ActiveRequestsBacked: a block is marked as being fetched only while a   *)
(* connection that exists owes it, or a peer turned out to lack it.  So a  *)
(* block is never left to a connection that has gone, in whatever order    *)
(* requests, deliveries and disconnections come.                           *)
THEOREM RequestsAreBacked == Spec => []ActiveRequestsBacked
<1>1. IInv => ActiveRequestsBacked
  BY DEF IInv
<1> QED
  BY <1>1, Invariance, PTL

(* ListsLinked: what is still to be fetched from a peer is one path of the *)
(* block tree, also when answers are joined to older lists after the peer  *)
(* has changed forks.                                                      *)
THEOREM ListsAreLinked == Spec => []ListsLinked
<1>1. IInv => ListsLinked
  BY DEF IInv, ListsInv, ConnectionOK, Linked, ListsLinked, ActivePeers
<1> QED
  BY <1>1, Invariance, PTL
=============================================================================
