# LarkX: formal models

TLA+ models of the LarkX node (a BitShares-style delegated-proof-of-stake
chain in C++), checked with TLC on small instances, with theorems proved by
TLAPS for instances of any size. `PROJECT.json` holds the machine-readable
index: runs, the source lines behind every definition, mutants, findings,
hazards and theorems.

Each run is `tlc -config X.cfg M` in this directory; the proofs of a module are
checked by `tlapm M.tla` for `SumTheorems` and each `*Proofs` module.

## 1. The system

The node runs almost entirely as cooperative fibres (`fc::async`) on one
thread: code is only interrupted where it yields, and `push_block` asserts
that it never does (`ASSERT_TASK_NOT_PREEMPTED`). What is hard is therefore
less data races than the *order* of whole handlers, failures half-way through
one, state kept across a yield, and undoing.

| Component | State | Operations | Talks to |
|---|---|---|---|
| Block tree and fork choice (`chain_database.cpp`) | fork records, number index, undo states, head | `push_block`, `store_and_index`, `switch_to_fork`, `pop_block`, `extend_chain`, `open` | called by the client for blocks from the network or its own; calls evaluation; schedules revalidation |
| Transaction evaluation and ledger (`transaction_evaluation_state.cpp`, `*_operations.cpp`) | balances, pay, fees, votes, supply, slates | `evaluate` and one `evaluate` per operation, `pay_delegate` | reads and writes a `pending_chain_state` |
| Records, overlay and undo (`pending_chain_state.cpp`, `store_*` of `chain_database.cpp`) | account records and their indexes, slots | overlay reads, `apply_changes`, `get_undo_state` | over the database or another overlay |
| Pending transactions and block production (`chain_database.cpp`, `client.cpp`) | stored transactions, fee index, overlay state, revalidation task | `store_pending_transaction`, `clear_pending`, `revalidate_pending`, `generate_block`, `delegate_loop` | network and wallet hand in transactions; blocks clear the pool |
| Delegate schedule, secrets, time (`chain_database.cpp`, `time.cpp`, `client.cpp`, `wallet.cpp`) | active delegate list, secret hashes, counts per delegate, clock offset | `delegate_loop`, `sign_block`, `update_delegate_production_info`, `update_active_delegate_list` | decides who may sign a block, and when |
| Market engine and operations | bids, asks, shorts, collateral, feeds | `execute_markets`, order operations | runs inside `extend_chain` and `generate_block` |
| P2P node (`net/node.cpp`) | peers, sync lists, requests, received blocks, inventory, message cache | fetch and advertise loops, message handlers | delegates blocks and transactions to the client |
| Peer connection, framing, encryption | handshake state, send queue | `send_message`, negotiation | socket |
| Chain server and downloader | worker threads, socket | request and stream blocks | reads the chain database; pushes blocks |
| Key-value stores (`db/`) | leveldb, write-back cache, dirty sets | `store`, `remove`, `flush` | under every component |
| Client | loops, API | `on_new_block`, `on_new_transaction`, `delegate_loop`, rebroadcast | everything |
| Wallet (`wallet.cpp`, `wallet_db.cpp`) | keys, records, lock time, scan progress | unlock and relock, scan, accounts and keys, transaction builder | chain observer |
| Mail, rpc, cli, importers, utilities | jobs, sockets | | client |

What makes each correct, and where it is hard:

- *Fork choice*: included blocks are one chain that the number index lists; a
  failed switch ends where it started; a block once valid stays usable, and where
  neither holds the reason is known. Hard: blocks before their parents, failure in the middle of a switch, a
  key index that undo does not restore, undo history that runs out, forks that part
  at genesis, restarts.
- *Ledger*: no shares are created, lost or overdrawn, votes equal the shares
  behind them. Hard: transactions that fail after some operations, undo,
  integer division of pay.
- *Records and undo*: indexes agree with records after any apply and pop. Hard:
  several indexes per record, unordered application, keys that change hands.
- *Pending pool*: never two conflicting transactions, nothing lost without a
  reason, nothing kept forever, and blocks built from it are valid. Hard: the
  window between `clear_pending` and the revalidation task, forks, restarts.
- *Production*: at most one block per slot, which the chain accepts; every slot
  is charged to somebody. Hard: the loop waits for the network between choosing
  a slot and filling it, the clock is corrected, forks replace the own blocks.
- *Network*: every item that some peer has is fetched, from another peer if the
  first one fails; connections are accepted once and come to an end. Hard: loops
  woken by flags, state held across yields, two nodes that connect to each other.
- *Wallet*: no key is lost in a crash, the wallet locks itself, the scan misses
  no block. Hard: writes with and without sync, several indexes changed in
  place, accounts that share names or addresses, tasks that lock, close or switch
  forks under a scan.

## 2. What is modelled

### ChainDatabase (block tree and fork choice)

One set of block ids per flag of `block_fork_data`, the keys of the databases,
and the locals of a running `push_block` (`phase`, `mode`, `current_head_id`,
`history`, `rejoin`). Actions:

| Action | Code |
|---|---|
| `on_new_block(b)` | the client's check for known content, then `push_block` with `store_and_index` and the choice between extending, switching and leaving the head |
| `pop_block` | one `pop_block`, with its three endings: popped; no undo state; no header for the genesis id |
| `extend_chain(b)` | one `extend_chain`, successful, or failed with `mark_invalid` and the catch block of `push_block` that switches back |
| `Tick(b)` | the clock passes the time from which a block is no longer too early, or is set back behind it |
| `open` | the process stops between two of these steps and starts again |

Of the content of a block the model keeps what decides whether `extend_chain`
accepts it: `Bad` (it never passes), `Future` (its time may lie too far ahead) and
`new_keys`, the active keys that its `update_account` operations set. Balances,
votes and so on are restored by a pop, which is the subject of the next two models;
the index of keys is not (`store_account_record` removes no key of the record it
replaces), so `address_to_account` is part of the state: `extend_chain` adds to it,
`pop_block` leaves it alone, and `key_free` is the check that then throws
`account_key_in_use`. The keys are those of accounts that every fork has
registered; the key of a popped *registration* leaves the index with its record
(AccountDatabase).

So a valid block can become inapplicable in two ways: by a key that a pop has left
(`left_keys`) and by a clock that is set back (`Spoilt`). `ValidStaysApplicable`,
`ValidIsStable` and `HeadKeptOrHigher` say that there is no third. Two history
variables: `peak`, the highest head so far, and `broken`, set when an undo state is
missing, or when block 1 was popped and could not be put back. The code promises
nothing about its state after that (it logs and rethrows), so the invariants on the
chain assume `~broken`; the findings below show how it gets there. The tree of blocks is a constant. Its assumptions are that
links have no cycle (ids are hashes) and that a block numbered 1 has no parent.
The first is a property of the hash, the second of `generate_block`, not of a
check in `push_block`.

### Ledger (evaluation of blocks of transactions)

`chain` is the state of the database (balances, slates, accounts, pay rates, pay,
votes, collected fees, supply), `pending` the overlay of the block under
evaluation and `ev` the `transaction_evaluation_state`. A block is evaluated
one operation at a time (`evaluate_operation`), an operation either passes its
checks or throws, and a throw drops the overlay. The operations are deposit,
withdraw, claim, burn, withdraw_pay, define_delegate_slate, register_account
and update_account; withdraw_all, link_account and release_escrow always throw
in this build ("not enabled yet"), and asset operations are compiled out.
A slate is a vector in the code, in which a delegate may appear several times, and as
`id` or `-id`, which counts the same (negative votes are disabled,
`BTS_BLOCKCHAIN_ENABLE_NEGATIVE_VOTES`): `supported[s][d]` is how often slate `s`
names `d`, and its votes count that often. The limit on the size of a slate is left
out. Withdraw conditions are reduced to one signature; amounts are integers without
a width (the supply is far from 2^63). `pop_block` restores the state before
the block as a whole; whether the undo state really does that, record by
record, is the subject of AccountDatabase.

### AccountDatabase (records, indexes, overlay, undo)

Account records with their key history, the indexes by name, key and votes, and
slot records; `pending` is the block's overlay with its own key index. Blocks
are opened by `extend_chain(t, d, missed)`, which already touches the records
of the signing delegate and of those that missed slots, filled by account
operations and vote changes, and then applied or thrown away. `StoreAccounts`
applies records in any order, as the code iterates over an unordered map.
A record whose owner key is the null key is not stored (`NotNull`), although its
registration passes. `pop_block` applies the undo state that `get_undo_state`
computed. Each undo
entry also remembers, for the properties only, what was there before.

### PendingPool (pending transactions and block production)

A transaction is the set of records it consumes and the set it creates, the
delegates whose owner key it takes as an active key (`takes`), a fee, a size, an
expiration and a digest (the order in which the store iterates). `takes` is what
the pool and a block disagree about: `extend_chain` stores the records of the
producer and of the delegates that missed slots in its overlay before it evaluates
transactions, and that overlay indexes owner keys; the database, the pool and
`generate_block` know active keys only (`evaluate_block`, `counted`).
The state is the chain state, the head and one undo step, the stored
transactions (disk), fee index and overlay (memory), and whether the
revalidation task is scheduled. Actions: `store_pending_transaction`,
`revalidate_pending`, `own_block` (the part of `delegate_loop` that generates a
block and pushes it), `network_block` (`push_block` of one that arrives),
`fork_block` (the head is replaced by two blocks, or put back), `open`. Block
numbers saturate at `MaxBlockNum`, so that the fairness argument is not cut off by
the bound. Left out: keys that a pop leaves in the index (ChainDatabase has them),
and pending transactions that bring a delegate's own record into the overlay.

### BlockProduction (the delegate loop and the schedule)

A block is identified with the chain it ends: a sequence of headers with slot,
producer, the list after it and the delegates that change their active key in
it. `state` gives for every known block what the chain records of producers:
blocks produced and missed, number of the last block, the committed secret, the
key, the required confirmations. A secret is the pair of a key and the block
before the one it is for, as `get_secret` hashes them. The loop has two waits,
both calls into the network thread: `set_target_connections` on its first run
(`connecting`), and `network_get_connection_count` before a block is generated
(`counting`). In between blocks arrive on any fork (`on_new_block`), the wallet
is locked or unlocked, the clock ticks, NTP corrects it. `block_produced`
generates, signs and pushes on the head of that moment, `block_refused` is the
same when the chain throws, `slot_missed` stands for too few connections, a
locked wallet, a slot that is over, or a slot that has become another
delegate's. The random seed and the shuffle are a free choice among `Orders`.

### NodeSync (fetching the chain)

One node with several peers. An action is the part of a handler or loop between
two points where it waits; a handler that waits for the client while other
fibres run is split there (`fetch_next_batch` leaves an entry in `asking` until
`send_fetch_ids`; `handling` is the sequence of blocks handed to the client).
The client is part of the model: `get_blockchain_synopsis`, `get_item_ids`,
`on_new_block`, over a constant tree of blocks, with invalid ones (`Bad`) and
the undo limit. Peers answer requests in order, may lack a block they announced,
close, move to another head and offer a block through the inventory while it is
being fetched (`process_block_during_normal_operation`). `Path` is the chain that
ends with a block, chosen among the linked sequences of the tree (`Chains`); that
every block has one is `TreeAssumption` (ids are hashes over the previous id).
Simplified: the calls of the client inside `on_blockchain_item_ids_inventory_message`
and `handle_message` are no points of interleaving; when a handled block was the last
of a list, the next batch is asked for after the backlog has been scheduled, where
the code does it before; a peer is not disconnected for implausible numbers of items
or for a hard fork it has not followed; after an ordinary block only its sender's
`last_block` moves, not that of all who advertised it.

### PeerConnections (handshake, limits and closing)

Both ends of each connection: the list it is on (handshaking, active, closing,
terminating), what each has decided about the other, the messages on the way.
Every node may connect to those it has heard of, also to one that connects to
it; a hello is sent after a call to the client, so messages may be handled
before it. `terminate_gently` and `terminate_forcibly` are the two passes of
the periodic sweep, and `close` shuts a node down. Key exchange is one step.
Simplified: `on_hello_message` runs without its two waits, and peers the user adds
by hand and connections to oneself are left out.

### Inventory (spreading of items)

Nodes in sync, with their lists of items to fetch and to advertise, wake-up
flags, message cache with its clock of blocks, and per peer what was advertised
in both directions and requested. `queue` is the send queue of a connection,
which closes it when it is over its limit. Clients accept, reject or throttle
items, entries grow old, connections fail (`connection_closed` is what a node
does when it notices). `Settings` lists the situations with one kind of trouble
each, to keep the product of all of them out of the state space; `situation` is
the one chosen at the start. Handlers run without waiting, and a connection that is
closed gently breaks at once. `Network` declares the nodes for both models.

### Wallet (session and scan) and WalletDatabase (accounts, keys and the file)

`Wallet` follows an open wallet in its process: password, lock time and relock
timer, the login map whose cleaner `lock` waits for, the scan with its waits for
decrypted memos, the notifications of the chain, whether the delegate loop is
scheduled. A deposit is a block with a transfer to a new one-time key, whose
record is encrypted with the password of the moment. `push_block` notifies the wallet
only of the `young` blocks at the end of what it pushed, those within one block
interval; a rescan takes any first block and number of blocks (`Ranges`). The first
is why an unlocked wallet may stay behind (`deferred`), the second why it may have a
gap (`skipped`). `lock` has one waiting caller at a time.

`WalletDatabase` is about the records on disk. Accounts are local, registered or
contacts; names are registered and unregistered by the chain at any time
(`chain_changes`), so a local name can collide with a registered one, and a
contact's key can be the key of another account: records share names and addresses,
and `rename_account`, `remove_contact_account`, `add_contact_account` and
`scan_account` treat such records as the code does. Where the indexes can then
differ from what the file gives is collected in `inexact`. A password is stored
before it is validated and stays until `lock` has waited (`wrong_password`): keys
stored meanwhile are `mistaken`, and a later change of the password fails on them
half-way, as it does in a crash (`replaced` has the password that was being
replaced).

Each call is a sequence of writes,
with or without sync, and a crash leaves any prefix that includes the last
synced one. `file` is the file with all writes, `left` the set of files that a
crash can leave; a call under way adds to the files left `during` it and
determines those left `after` it (`Write`). A change of the password encrypts the
keys again in any order, as the code iterates over an unordered map
(`Reencrypted`). `load_generic_record` reads records back, `Loaded` all of them
in the order of their numbers. `KeyStore` is the abstract
promise (a stored private key stays), and `KeysKept` states that
`WalletDatabase` implements it, with `held` computed from memory or, when the
wallet is closed, from the file, and `running <- mem.open`.

Left out there: changes of active keys on the chain, a name registered with other
keys on another fork, records whose `account_address` is not their owner key, the
index by account id (it follows from the records; two records with one id make the
load throw, which `OnlyRecord` excludes), and calls on an index that leads nowhere,
on which `lookup_account` asserts (`Leads`). `get_account_record` of the chain finds
both keys of a registered account, as if it was registered with the owner key active
first.

## 3. Runs

| Run | Module | Shows | States |
|---|---|---|---|
| `fork_choice` | MCChainDatabase | two forks of different length, both with the same `update_account`, a block that fails, one too early, one with a wrong number, any order of arrival, a clock that goes back, restarts | 705 186 |
| `fork_edge` | MCForkEdge | forks that part at genesis and an undo history of one block; `push_block` always ends | 109 442 |
| `ledger` | MCLedger | eight transactions over three accounts, a slate that names a delegate twice, up to two blocks of two transactions, refused half-way, popped | 631 190 |
| `accounts` | MCAccountDatabase | two accounts, three keys and the null key, two blocks of two operations, missed slots, pops | 409 670 |
| `pending_pool` | MCPendingPool | a spend, its rival, its successor with a lower digest, a large transaction that takes the producer's owner key; forks, one restart, queue limit one | 1 516 |
| `production` | MCBlockProduction | three delegates, one of them ours, four blocks on any forks, a clock correction, a change of key, a lock | 702 820 |
| `net_sync` | MCNodeSync | two peers, one on a fork with an invalid block, which may extend it, change forks, lack blocks or leave; ids two at a time | 138 540 |
| `connections` | MCPeerConnections | two nodes that connect to each other, two that want the last place of a third, another chain, shutdown | 410 101 |
| `inventory` | MCInventory | three nodes in a ring or a line, a transaction and a block, seven kinds of trouble | 293 492 |
| `wallet` | MCWallet | a chain of two blocks and a fork of three with deposits on both, with and without notifications, four calls of the user, rescans from the start and from above the mark | 904 497 |
| `wallet_db` | MCWalletDatabase | two local names and one that may be registered with keys of the wallet and of a contact, a foreign key, two passwords, four calls with crashes after any write; the refinement of `KeyStore` | 457 777 |

Invariants and properties of these runs are defined at the end of each module,
with the statement in words above them. The `TypeOK` of the modules without one
in their configuration describes the state for the reader; it holds under the
same bounds when added.

Why the bounds are enough: a fork switch involves the old branch, the new one
and their meeting point, and every failure position in a branch of four is
covered; the undo limit is exercised below, at and above its value; the key that
both forks set is met on the way there and, after a failed switch, on the way back.
In the ledger each operation occurs, alone and after others in a transaction that
then fails, as the first or after another transaction of the block, and a
transaction expires after the first block. For the accounts,
two are needed for a key to be wanted by another account and two blocks for an
undo of an undo; three slots give a missed one between two blocks. In the pool
each pair of transactions stands in one of the relations that matter
(conflicting, dependent, independent), one of them can never be in a block of this
node, and the queue and block limits are both reached. A block of the network carries at most one transaction there; the
blocks of the node itself carry as many as fit. For the production, four blocks
and four slots are the least with which our block leaves the chain in its own
slot (two of the others on a fork) and the loop comes again; a delegate
produces twice on one chain, is refused after a change of key and after a block
that arrived during the wait, and a slot is signed twice after a correction:
all of these states are reached. In the network, one batch of ids is shorter
than the chains, one block is asked for at a time from a peer and at most two
are handled at once, so every limit is met; the fork has two blocks, so that one
of them can become too old while its child is on the way to the client. For the wallet, the two branches
with a common block give every position of a scan against a switch, and one young
block at most leaves others without a notification; four calls reach two records of
one name (a contact has it, and then the registration of a wallet's own account under
it is scanned) or of one address (a contact's key is the active key of a registered
account), of which one is then renamed or removed, a contact that is added, removed, added again
and given a key, and a key stored under a wrong password before a change of it.

`CHECK_DEADLOCK FALSE` is set where the system may really stop: all blocks of
the finite tree delivered, all slots used, all calls made, all items spread.

Fairness. In ChainDatabase, weak fairness of `pop_block` and `extend_chain`:
`push_block` does not yield, so a step that can be taken is taken. In
PendingPool, weak fairness of `own_block`: `delegate_loop` reschedules itself for
the next slot whatever happened, assuming an unlocked wallet with an active
delegate; and of `revalidate_pending`, an fc task that runs when its thread is
next free. In NodeSync, of the node's own steps, whose fibres run when they can;
of each peer's answers, because a peer that stays silent is disconnected after
a time-out; and of the end of a connection being closed. In PeerConnections, of
`Progress`: messages and closed sockets arrive, and the sweep is periodic. In
Inventory, of each loop and of the handling of messages of each connection; the
flags decide whether a loop has anything to do. In Wallet, of the scan task,
the notifications, the session's tasks and the clock, never of the user. No
fairness for what others do of their own accord; restarts are bounded.

Each property of a passing run has a mutant: a definition next to the original
(comment "Faulty variant") with the kind of slip the code could have had, under
which TLC finds the property violated.

## 4. Findings and observations

One run is expected to end with a violation: `transaction_unique`. Duplicate
checks wait for block number `FORK_25`, which is -1 as an unsigned number: a
transaction can be applied again until it expires.

What else the models show about the code, at the lines named. The properties of
the runs are stated so that they allow for it.

Chain (`blockchain/`):

- `chain_database.cpp:1186`: `pop_block` clears flag and index of the head before
  it fetches an undo state that may be gone; the head is then marked as not
  included. `:1195`: popping block 1 sets the head id to genesis and then throws
  looking for its header; id and header stay apart unless the way back puts the block
  there again (`broken` covers both).
- `chain_database.cpp:1704`: the missing link above the head is applied alone;
  the chain it links waits for the next block.
- `chain_database.cpp:786`: delegate pay is taken from collected fees that need
  not exist, so the comparison of `sanity_check` fails from the first paid block
  on (its call after each block is commented out).
- `chain_database.cpp:1874`: the key that a popped `update_account` gave an account
  still leads to it, and `account_operations.cpp:79` and `:129` refuse a key that is
  in use. So a block that was valid, popped and applied again is marked invalid with
  its descendants; after a failed switch the way back stops below the old head; and
  another fork that has the same update in one of its blocks cannot be followed by a
  node that has popped it. Nodes that have not seen the first fork do follow it. A
  clock that is set back has the same effect on a block near its time. These are the
  exceptions of `ValidIsStable`, `ValidStaysApplicable` and `HeadKeptOrHigher`.
- `pending_chain_state.cpp:208`: the slot record of a popped block remains.
- `pending_chain_state.cpp:346`: the overlay of `extend_chain` indexes owner keys of
  the delegates it counts, that of `generate_block` does not. A pending transaction
  that takes the owner key of the producer as an active key is put into each of its
  blocks, and each is refused, until another node's block or the expiration takes the
  transaction away (`Refused`, the exception of `ChainGrows` and
  `EventuallyResolved`).
- `delegate_slate.hpp:15`: a slate may name a delegate several times; each naming
  counts the shares again, so votes are not bounded by the shares.
- `chain_database.cpp:1848`: a registration with the null key as owner key passes, and
  nothing is stored for it.
- `account_operations.cpp:81`: retracting an account takes the null key, which is
  looked up like any other: a second account cannot retract.
- A pending transaction may be valid only on top of another one, though the
  comment of `get_pending_transactions` says "independent of each other", and
  revalidation, which goes by digest, discards it when its digest comes first.
- `wallet.cpp:1676` and `chain_database.cpp:893`: a delegate that has produced and
  then changes its active key can never produce again. The secret to reveal is
  derived from the new key, the commitment was made with the old one, and
  nothing resets it (second exception of `OwnBlockAccepted`).
- `client.cpp:593-597`: the wait for the number of connections lies between the
  choice of the slot and the block; the test "You missed your slot" uses the
  time from before it, so a block can be made after its slot.

Network (`net/node.cpp` unless named):

- `:2496`: a block that a peer turned out to lack stays in
  `_active_sync_requests` and is not asked of others. `:2916`: a sync block that
  was already accepted as an ordinary one is said to be treated as accepted, and
  is not. `:2933`: when the connection a block came over ends before its turn,
  nothing makes the backlog look at it again. These are what `SyncEnds` excuses
  (`lacked`, `doubled`, `Stranded`).
- `:2317`: the comment expects that after a change of forks the first id is a
  block the node knows; a synopsis that held ids not yet fetched makes it one
  that it does not. `:3054`: the comment says that the sender of a rejected block
  is disconnected; it is, only if the block is the first of its list.
- `:2907` and `chain_database.cpp:1678`: two blocks of a fork are handed to the
  client one after the other; when the first has become older than the undo
  history by then, it is turned away, and the second, whose parent the client
  never got, is rejected as an invalid block. `HandedInOrder` makes an exception
  for such a parent.
- `:425`, `:2545`: an item whose last offer ends stays in the list to fetch with
  its old time, so that a later offer does not wake the loop (`Stranded` in
  Inventory). The same happens when a full queue closes the connection
  (`peer_connection.cpp:294`).
- `:1214`: a connection whose keys were never exchanged has no read loop; an end that
  keeps it listed does not see the other end go (third case of `Settles`).
- `peer_connection.cpp:320`: the test is inverted, `connection_terminated_time` is
  never set and the sweep of terminating connections (`:1312`) never fires.
- `client.cpp:1078`: `get_item` never returns a transaction, only the message
  cache does. `network_api.cpp:12`: a transaction is broadcast before it is
  validated.

Wallet (`wallet/`):

- `wallet.cpp:194`: an unlock for a shorter time than an earlier one does not move
  the relock timer, which keeps the wallet open until the earlier time.
- `wallet.cpp:1092`: deposits in blocks that are scanned while the wallet is
  locked half-way are not found again without a rescan.
- `chain_database.cpp:1131`: blocks older than one interval (while the node catches
  up, or of a fork) come without a notification; an unlocked wallet is then behind
  until the next young block, unlock or rescan.
- `wallet_api.cpp:545`: a rescan that starts above the mark cancels the running scan,
  moves the mark, and leaves the blocks in between unscanned.
- `wallet_db.cpp:709`: `remove_contact_account` looks at the owner key only and
  erases the records of active keys too, private ones included; the file keeps
  them, so they come back when it is opened again, until a public record with a
  higher number hides them.
- `wallet_db.cpp:813`: a change of the password that is interrupted leaves keys
  that only the old password opens (`replaced`); it is interrupted by a crash, and by
  a key it cannot decrypt.
- `wallet.cpp:1080`: a wrong password is stored before it is validated; a one-time key
  or an imported key that is stored while the failing unlock waits in `lock` is
  encrypted with it (`mistaken`), and later changes of the password stop at that key.
- `wallet_db.cpp:721`: a contact removed under a name that its record has lost leaves
  the record's name in the index, leading nowhere. `wallet_db.cpp:732`:
  `rename_account` renames the record that the key leads to, which need not be the one
  that `wallet.cpp:1378` chose when two records share an address.
- `wallet.cpp:1449`: importing the active key of a contact whose key record is missing
  calls itself until the stack is full.

## 5. Theorems

Each theorem holds for every value of the constants that satisfies the named
assumptions of its module: any number of blocks, accounts, peers, delegates, any
tree, any bounds. 31 of the 40 properties of the passing runs are proved in this
way, among them every safety property but one; for them the run is a first test on a small instance.

| Module | Theorem | Property |
|---|---|---|
| ChainDatabaseProofs | `TypeCorrect`, `ChainIsConsistent`, `ValidApplicable`, `UndoKept`, `DeadEndNeverMet`, `LinksAreExact` | `TypeOK`, `ChainConsistent`, `ValidStaysApplicable`, `UndoAvailable`, `NoDeadEnd`, `LinkedExactly` |
| | `ValidNeverRevoked`, `HeadNeverLost` (action properties) | `ValidIsStable`, `HeadKeptOrHigher` |
| LedgerProofs | `NeverOverdrawn`, `SupplyConserved`, `VotesHaveShares` | `TypeOK`, `SupplyMatches`, `VotesBacked` |
| AccountDatabaseProofs | `IndexesStayExact`, `KeysStayFound`, `PopRestoresAccounts` (action property) | `IndexesExact`, `KeysFound`, `AccountsUndone` |
| BlockProductionProofs | `SignsOncePerSlot`, `SlotsAreAccounted`, `OwnBlocksAreAccepted` | `OneBlockPerSlot`, `SlotsAccounted`, `OwnBlockAccepted` |
| | `PoolTypeCorrect`, `PoolStaysConsistent`, `RevalidationKeepsUnconflicted` (action property) | `PoolTypeOK`, `PoolConsistent`, `UnconflictedKept` |
| NodeSyncProofs | `RequestsAreBacked`, `ListsAreLinked` | `ActiveRequestsBacked`, `ListsLinked` |
| PeerConnectionsProofs | `AcceptsOnce`, `StaysWithinMaximum` | `AcceptedOnce`, `WithinMaximum` |
| | `RequestsAnsweredOnce` | `AnsweredOnce` |
| WalletProofs | `ScansLeaveNoGap`, `DelegateLoopKeepsRunning` | `MissedOnlyIf`, `DelegateLoopRuns` |
| | `WalletTypeCorrect`, `RecordNumbersFresh`, `ReopeningGivesSame`, `KeysStayReadable`, `KeysNotReissued` | `DbTypeOK`, `IndexesFresh`, `ReopensSame`, `KeysReadable`, `NotReissued` |
| | `WalletKeepsKeys` (refinement) | `KeysKept` |

BlockProductionProofs, PeerConnectionsProofs and WalletProofs each prove about two
components (with PendingPool, Inventory and WalletDatabase) and extend both, which
is why the second one's `Init`, `Next` and `Spec` carry a prefix (`PoolSpec`,
`SpreadSpec`, `DbSpec`). The two have no variable in common.

The shape is the same everywhere: an inductive invariant (`IInv`; `PoolInv`,
`SpreadInv` and `DbInv` for the second components), lemmas about the operators, one lemma per action or group
of actions that touch the same conjuncts, the temporal step. Each was
checked with TLC on the instance of its run before it was proved.

### ChainDatabaseProofs

None of the invariants is inductive alone. That the included blocks are a chain
survives a pop only because the head's parent is filed, and an extension only
because a block is applied on the head with the next number. That the switch
back can fail only on a spoilt block needs every block on the old branch to be valid
(`CallInv`), that no valid block sets a key that one of its ancestors sets
(`KeysInv`: what is in the index besides the keys of included blocks was left by a
pop), that valid blocks have valid, filed, consecutively numbered
ancestors (`ValidChain`), and that the number index has no gap where
`save_undo_state` reads it (`IndexWithoutGap`). That `mark_invalid` reaches a
valid block only below a spoilt one follows because a block that fails for any other
reason is not valid, nor are its descendants: their ancestors would be. The links (`LinkedInv`) hold even after a
failed undo and are kept outside the condition. `IInv` is the conjunction. The
lemmas about `ancestors` (least closed set, transitive, antisymmetric),
`Descendants` and `ForkPath` come first.

`LinksAreExact` looks at the unlinked ancestors of a block whose ancestors are all
filed: if the block is one of them, so is the parent of each (the marking passes over
no filed child of a linked block), down to genesis, which is linked.
`HeadNeverLost` needs to know where a running
`push_block` will end: `TipInv` says that the blocks still to be applied are the
upper part of one branch, whose tip is higher than the old head (during a
switch) or is the old head (when going back); a way back that stops, stops below a
spoilt ancestor of the old head.

### SumTheorems

Sums over balances, pay and slots are folds of the library over a finite set, in
an unknown order. `SubsetInduction` is induction over the subsets of a finite
set, stated for a *set* G of subsets instead of a predicate, and proved from the
well-founded order of the library by taking a smallest counterexample. From it
follow that the function a fold is defined by exists and is unique, and then the
usual facts: the sum without an element, after an update, of equal functions.
AccountDatabaseProofs uses the same induction for the fold of `StoreInOrder`.

Folds that are not sums (the evaluation of the stored transactions, the choice of
those of a block, the records of a wallet file) go through `FoldOver`: a fold
whose next element is given by a function on sets (`Takes`) is a function on the
subsets that satisfies the recursive equation (`IsFold`), and about that function
`SubsetInduction` can be used.

### LedgerProofs

`Books(st, balance, votes)` states what a state owes when a transaction has taken
`balance` out of it and has not yet applied `votes`: supply, votes of every
delegate (each balance as often as its slate names it), and that slates name delegates, that only slates on record hold shares
and that only delegates have pay. (Without the last three an account that becomes
a delegate could already have shares behind it.) `IInv` says that the books are
in order in the chain, in every undo state and in the block under evaluation.

### AccountDatabaseProofs

The name index, the votes index and the keys are exact after *each*
`store_account_record` (`StoreStep`), so the unknown order does not matter,
provided that no account takes a name or key that another one has before or
after the block (`Compatible`). For the end of a block the condition comes from
the checks of the operations, which look into the overlay first (`OverlayOK`,
`FreshKey`), and records with a null owner key drop out before the order matters
(`KeptAccounts`). For a pop it has to be remembered with the undo state: `UndoOK`
relates each undo state to the accounts before and after its block. That the
records are restored follows from the same relation.

### BlockProductionProofs

`Produces` relates the loop to the clock: the slot it has chosen has begun at the
time it read, and the time it works with is past the slot of every block signed
since the last correction (`SlotsPassed`). `ChainInv` says of every known chain that
the secret committed to is the one of the delegate's last block with the key of
that time, unless the key changed since. `OwnBlocksAreAccepted` has a
hypothesis, `SteadyClock`: corrections differ by at most two intervals. A
clock that is set back further while the loop waits makes a block that
`verify_header` takes for one from the future.

`PoolInv` says that the indexed transactions apply to the head state one after the
other in *some* order and give the overlay (`PoolFits`). A transaction that is
stored comes last; a restart and a revalidation evaluate all of them afresh, by
digest, which `EvaluateAllIsFold` and an induction over the stored transactions
turn into such an order; a block empties index and overlay. `RevalidationKeepsUnconflicted` is
the same induction: what touches no record of the others is valid at its turn if
it is valid alone.

### NodeSyncProofs, PeerConnectionsProofs, WalletProofs

`ListsInv` adds to `ListsLinked` that the ids of an answer on its way are linked;
the joining of such an answer to an older list is the step that matters.
`ActiveRequestsBacked` is inductive with it: each step that ends a connection
also gives up its requests.

In PeerConnections the two properties are inductive once it is known that an
end that has accepted knows who the other one is (`EndsOK`).

In Inventory, `SpreadInv` follows each request around (`Balanced`): what a peer
has been asked for is in one message on the way there, or in one on the way back,
or nothing is asked and no such message exists. It holds for a connection until
it breaks. The lemmas about queues say what appending, taking the first and closing do to the
positions of the messages of a type.

In Wallet, `IInv` is about all blocks that count as scanned (`Scanned`): those
below the mark and those that the running scan has passed. A deposit in one of
them is found, or was passed locked, or came with a fork switch, or lies between the
mark and the start of a rescan. The scan keeps a
memo across its wait (`MemoOf`), and a block below the fork is the same on both
chains (`CommonAncestor`).

In WalletDatabase, `DbInv` has two halves. `Mirrors` relates the maps in memory to
the file, record type by record type: the key map has the record with the highest
number of each key (`IsTop`), the accounts are exactly the account records, and the
indexes by address and name are right but for what is in `inexact`. Two records have
a name or an address in common only there (`Distinct`). `Safe`
is what any file must satisfy that a crash can leave: the next number is above
all, at most one child counter, above all keys returned so far, account counters
likewise, keys encrypted for the master key or a password of `replaced`. `Keep` says that it has all private keys of memory. `InCall` states the
same of a call under way, for the files left during it and after it, and every
write is shown to preserve it, so that no call needs a case per crash. `LoadedMirrors`
proves from the fold that opening a file gives maps that mirror it exactly, with the
highest record of each shared name and address (`Image`), and `MirrorsUnique` that
they are then those of memory but for `inexact`. For the
refinement each step is classified as one that only adds keys (`Grows`), stops,
starts, changes none of it (`Rests`) or removes a contact (`Removes`), and each kind is a step of `KeyStore`.

### Assumptions

All are named, in the module that declares the constant, and TLC evaluates them
in the runs. Those that say something about the code: block links have no cycle,
or every block has a chain (ChainDatabase, NodeSync `TreeAssumption`, Wallet
`ChainsAssumption`: ids are hashes); the slates of the genesis balances name
delegates (Ledger `GenesisAssumption`, `initialize_genesis` builds them so);
registered names are among the names and have their keys (WalletDatabase
`NamesAssumption`: shared names and addresses are not excluded); FORK_25 is above every height; the clock is at least the largest error after the
epoch (BlockProduction `TimesAssumption`); the connections are finitely many;
`None` is not one of the values it stands beside.

### Only model-checked

- Liveness: `PushReturns`, `EventuallyResolved`, `ChainGrows`, `SyncEnds`,
  `Settles`, `OfferedHandled`, `LocksAgain`, `CatchesUp`. Fairness is beyond the
  prover.
- `HandedInOrder`. That the parent of the first id of each list is with the client,
  or on its way there, is kept by every step but one: a first list whose first id
  the client does not know. Its place comes from the synopsis that was sent, so
  the invariant would have to say what each outstanding request was made from.
  Two requests can be outstanding (one of the reading fibre, one of
  `send_sync_block_to_node_delegate`), the list may be restarted in between, and
  `last_block` may be a block that was accepted without its parent outside
  synchronisation. No inductive invariant was found for that. Random walks through
  larger instances (three peers, eight blocks on two branches, other limits; some
  50 million states) did not meet a violation.

## 6. Not modelled

- *Crashes inside a handler* of the chain: restarts fall between handlers, so the
  separate leveldb writes of one `extend_chain` count as one. Which of them a
  crash keeps depends on some twenty databases that are flushed on their own;
  the code re-indexes when it notices, which a model of one database would not
  show. The wallet's file, where single writes matter, is modelled.
- *Market engine and operations*. No market-issued asset exists in the built-in
  genesis and `create_asset` is refused in this build, so no order can be
  placed. Read without a model: dust of an ask matched by a short is paid to
  the fees of the other asset (`pay_current_ask` with `quote_asset`) or vanishes
  when `pay_current_short` returns early; `cover` and `add_collateral` store a
  position under its new call price and overwrite another one of the same owner
  at that price; `add_collateral` on a cover removed in the same block stores a
  record with a default interest rate that a later assertion refuses.
- *Simulated time* of the debug calls, the random seed's value, and the choice of
  the active delegates by votes (`next_round_active_delegates`).
- *Of the network*: firewall checks, bandwidth, address records and `potential_peers`
  bookkeeping, key exchange and framing (byte layout and third-party code).
- *Chain server and downloader* (off by default; what they deliver goes through
  `push_block`), *mail* (a service of its own beside the chain), `cached_level_map`.
- *Of the wallet*: the transaction builder and coin selection, which need the
  contents of balances and fees that the other models abstract; entries for
  display, settings, backups, upgrades of old files.
- *rpc, cli, importers, GUI, key formats, encodings*: sequential input and output
  that a model would only repeat; the delegate network is compiled out, and
  proposals and assets are refused by this build.

## 7. What is left

Of the theorems, `HandedInOrder`, with a history variable for the origin of
outstanding requests (see "Only model-checked"). Everything else that no theorem
states is liveness.

Models left: the write-back cache and the writes of one `extend_chain`; the
chain downloader's retries; mail's job queues; the market engine as an extension
of Ledger, if assets are enabled; compositions (PendingPool over the records of
AccountDatabase, BlockProduction over ChainDatabase), and an abstract chain with
append and pop that ChainDatabase implements.
