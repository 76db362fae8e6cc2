----------------------------- MODULE PendingPool -----------------------------
(***************************************************************************)
(* The pending transactions of chain_database: the stored set              *)
(* (_pending_transaction_db), the fee index, the overlay state they were   *)
(* evaluated in, and the task that revalidates them after every block;     *)
(* with block production from the pool (generate_block, delegate_loop).    *)
(*                                                                         *)
(* A transaction is abstracted to the records it consumes and creates,     *)
(* what two transactions can disagree about, and to the owner keys that it *)
(* takes for an account's active key, what the pool and a block's          *)
(* evaluation disagree about.                                              *)
(***************************************************************************)
EXTENDS Integers, SequencesExt

CONSTANTS
    Coin,           \* records of the chain that transactions touch
    Delegate,       \* the delegates whose owner keys transactions take
    self,           \* the delegate for which this node produces
    Trx,            \* records: needs, makes, takes, fee, size, expiration, digest
    genesis,        \* the coins of the genesis state
    RelayFee,       \* _relay_fee
    MaxQueue,       \* BTS_BLOCKCHAIN_MAX_PENDING_QUEUE_SIZE
    MaxBlockSize,   \* BTS_BLOCKCHAIN_MAX_BLOCK_SIZE
    MaxBlockNum,    \* bound: later blocks keep this number and time
    MaxTrxs,        \* bound: transactions in a block from the network
    MaxRestarts     \* bound: restarts of the node

ASSUME TrxAssumption ==
    /\ Trx \subseteq [needs : SUBSET Coin, makes : SUBSET Coin, takes : SUBSET Delegate,
                      fee : Nat, size : Nat, expiration : 0 .. MaxBlockNum, digest : Nat]
    /\ \A t, u \in Trx : t.digest = u.digest => t = u
ASSUME SelfAssumption == self \in Delegate
ASSUME GenesisAssumption == genesis \subseteq Coin
ASSUME PoolBoundsAssumption ==
    {RelayFee, MaxQueue, MaxBlockSize, MaxBlockNum, MaxTrxs, MaxRestarts} \subseteq Nat

VARIABLES
    coins,                   \* the chain database
    head_num,                \* number of the head block, also its time
    undo,                    \* the head block and the state before it
    pending_transaction_db,  \* _pending_transaction_db, on disk
    pending_fee_index,       \* _pending_fee_index, in memory
    pending_trx_state,       \* _pending_trx_state: what it overrides
    revalidate,              \* _revalidate_pending is scheduled
    restarts

pool_vars == <<coins, head_num, undo, pending_transaction_db, pending_fee_index,
          pending_trx_state, revalidate, restarts>>

NoChanges == [c \in {} |-> FALSE]

PoolInit ==
    /\ coins = genesis /\ head_num = 0
    /\ undo = [coins |-> genesis, num |-> 0, block |-> <<>>]
    /\ pending_transaction_db = {} /\ pending_fee_index = {}
    /\ pending_trx_state = NoChanges /\ revalidate = FALSE /\ restarts = 0

-----------------------------------------------------------------------------
(* A pending_chain_state over the chain state base.                        *)
View(base, changes) ==
    {c \in Coin : IF c \in DOMAIN changes THEN changes[c] ELSE c \in base}

(* transaction_evaluation_state::evaluate.                                 *)
Evaluates(view, num, t) ==
    num < t.expiration /\ t.needs \subseteq view /\ t.makes \cap view = {}

Changes(t) == [c \in t.needs \cup t.makes |-> c \in t.makes]

(* pending_chain_state::apply_changes: the later changes win.              *)
Over(changes, later) ==
    [c \in DOMAIN changes \cup DOMAIN later |->
        IF c \in DOMAIN later THEN later[c] ELSE changes[c]]

(* evaluate_transaction, on an accumulated pool p of changes and indexed   *)
(* transactions: a transaction that fails leaves it as it was.             *)
evaluate_transaction(p, base, num, t, fee) ==
    IF Evaluates(View(base, p.changes), num, t) /\ t.fee >= fee
      THEN [changes |-> Over(p.changes, Changes(t)), index |-> p.index \cup {t}]
      ELSE p

(* The last transaction in the order of _pending_transaction_db, and in    *)
(* that of _pending_fee_index.                                             *)
LastByDigest(S) == CHOOSE t \in S : \A u \in S : u.digest <= t.digest

FeeBefore(t, u) == t.fee > u.fee \/ (t.fee = u.fee /\ t.digest < u.digest)
LastByFee(S) == CHOOSE t \in S : \A u \in S \ {t} : FeeBefore(u, t)

NoPool == [changes |-> NoChanges, index |-> {}]

(* Faulty variant: every transaction is evaluated on the bare chain state. *)
EvaluateAllApart(base, num, db) ==
    MapThenFoldSet(LAMBDA t, p : evaluate_transaction([p EXCEPT !.changes = NoChanges],
                                                      base, num, t, RelayFee),
                   NoPool, LAMBDA t : t, LastByDigest, db)

(* The loop over the stored transactions, by their digests.                *)
EvaluateAll(base, num, db) ==
    MapThenFoldSet(LAMBDA t, p : evaluate_transaction(p, base, num, t, RelayFee),
                   NoPool, LAMBDA t : t, LastByDigest, db)

-----------------------------------------------------------------------------
(* The fee asked grows with the square of the overage of the index.        *)
relay_fee(override_limits) ==
    LET overage == Cardinality(pending_fee_index) - MaxQueue
    IN  IF ~override_limits /\ overage > 0 THEN RelayFee * overage * overage ELSE RelayFee

(* A transaction from the network or, with override_limits, the wallet.    *)
store_pending_transaction(t, override_limits) ==
    /\ t \notin pending_transaction_db
    /\ LET p == [changes |-> pending_trx_state, index |-> pending_fee_index]
           q == evaluate_transaction(p, coins, head_num, t, relay_fee(override_limits))
       IN  /\ q # p
           /\ pending_trx_state' = q.changes /\ pending_fee_index' = q.index
    /\ pending_transaction_db' = pending_transaction_db \cup {t}
    /\ UNCHANGED <<coins, head_num, undo, revalidate, restarts>>

(* Faulty variant: the new evaluation starts from the old overlay.         *)
revalidate_pendingOnOldState ==
    /\ revalidate
    /\ LET p == MapThenFoldSet(LAMBDA t, q : evaluate_transaction(q, coins, head_num, t, RelayFee),
                               [changes |-> pending_trx_state, index |-> {}],
                               LAMBDA t : t, LastByDigest, pending_transaction_db)
       IN  /\ pending_trx_state' = p.changes /\ pending_fee_index' = p.index
           /\ pending_transaction_db' = p.index
    /\ revalidate' = FALSE
    /\ UNCHANGED <<coins, head_num, undo, restarts>>

(* The revalidation task runs: transactions that fail are discarded.       *)
revalidate_pending ==
    /\ revalidate
    /\ \E p \in {EvaluateAll(coins, head_num, pending_transaction_db)} :
         /\ pending_trx_state' = p.changes /\ pending_fee_index' = p.index
         /\ pending_transaction_db' = p.index
    /\ revalidate' = FALSE
    /\ UNCHANGED <<coins, head_num, undo, restarts>>

-----------------------------------------------------------------------------
(* apply_transactions on a chain state: <<>> when one of them throws.      *)
apply_transactions(base, num, block) ==
    FoldLeft(LAMBDA s, t : IF s # <<>> /\ Evaluates(s[1], num, t)
                             THEN <<View(s[1], Changes(t))>> ELSE <<>>,
             <<base>>, block)

NextNum(num) == IF num < MaxBlockNum THEN num + 1 ELSE num

(* Faulty variant: revalidation is not scheduled.                          *)
clear_pendingUnscheduled(confirmed) ==
    /\ pending_transaction_db' = pending_transaction_db \ confirmed
    /\ pending_fee_index' = {} /\ pending_trx_state' = NoChanges
    /\ UNCHANGED revalidate

(* clear_pending, for the transactions of one or several new blocks.       *)
(* (CHECKPOINT_BLOCKS is empty: revalidation is scheduled after each.)     *)
clear_pending(confirmed) ==
    /\ pending_transaction_db' = pending_transaction_db \ confirmed
    /\ pending_fee_index' = {} /\ pending_trx_state' = NoChanges
    /\ revalidate' = TRUE

(* A block's transactions are evaluated after the records of the delegates *)
(* counted in it, its producer and those that missed their slots, are in   *)
(* the overlay, which then has their owner keys in its index of accounts:  *)
(* a transaction that takes such a key throws.  (The database indexes      *)
(* active keys only.)                                                      *)
evaluate_block(counted, base, num, block) ==
    IF \E t \in Range(block) : t.takes \cap counted # {} THEN <<>>
    ELSE apply_transactions(base, num, block)

(* extend_chain, on the head.                                              *)
extend_chain(counted, block) ==
    LET result == evaluate_block(counted, coins, head_num, block)
    IN  /\ result # <<>>
        /\ coins' = result[1] /\ head_num' = NextNum(head_num)
        /\ undo' = [coins |-> coins, num |-> head_num, block |-> block]
        /\ clear_pending(Range(block))
        /\ UNCHANGED restarts

(* push_block of a block of the network that replaces the head by blocks a *)
(* and b: extend_chain runs for each, and when b is invalid the old head   *)
(* is put back.                                                            *)
switch_to_fork(countedA, a, countedB, b) ==
    LET one == evaluate_block(countedA, undo.coins, undo.num, a)
        num == NextNum(undo.num)
        two == IF one = <<>> THEN <<>> ELSE evaluate_block(countedB, one[1], num, b)
    IN  /\ undo.num < head_num /\ one # <<>>
        /\ IF two # <<>>
             THEN /\ coins' = two[1] /\ head_num' = NextNum(num)
                  /\ undo' = [coins |-> one[1], num |-> num, block |-> b]
                  /\ clear_pending(Range(a) \cup Range(b))
             ELSE /\ clear_pending(Range(a) \cup Range(undo.block))
                  /\ UNCHANGED <<coins, head_num, undo>>
        /\ UNCHANGED restarts

-----------------------------------------------------------------------------
(* Faulty variant: a transaction that fails is not left out.               *)
generate_blockKeepInvalid(first) ==
    MapThenFoldSet(
        LAMBDA t, g :
            IF g.full \/ g.size + t.size > MaxBlockSize THEN [g EXCEPT !.full = TRUE]
            ELSE [view |-> View(g.view, Changes(t)), size |-> g.size + t.size, full |-> FALSE,
                  block |-> Append(g.block, t)],
        [view |-> coins, size |-> 0, full |-> FALSE, block |-> <<>>],
        LAMBDA t : t, LastByFee, first).block

(* One pending transaction is tried for the block g.                       *)
Included(g, t) ==
    IF g.full \/ g.size + t.size > MaxBlockSize THEN [g EXCEPT !.full = TRUE]
    ELSE IF Evaluates(g.view, head_num, t)
           THEN [view |-> View(g.view, Changes(t)), size |-> g.size + t.size, full |-> FALSE,
                 block |-> Append(g.block, t)]
           ELSE [g EXCEPT !.size = @ + t.size]

(* The pending transactions by fee, each evaluated after those before it,  *)
(* up to the first one that does not fit or, after the first ones, the     *)
(* limit on the time spent.                                                *)
generate_block(first) ==
    MapThenFoldSet(LAMBDA t, g : Included(g, t),
                   [view |-> coins, size |-> 0, full |-> FALSE, block |-> <<>>],
                   LAMBDA t : t, LastByFee, first).block

(* Those of Delegate that a block counts: as its producer, or because they *)
(* missed a slot before it.                                                *)
Counted == SUBSET Delegate

(* This node produces the block of its slot and pushes it.  (A block that  *)
(* its own chain refuses goes no further.)                                 *)
own_block ==
    \E first \in SUBSET pending_fee_index :
        /\ first = {} => pending_fee_index = {}
        /\ \A t \in first, u \in pending_fee_index \ first : FeeBefore(t, u)
        /\ \E block \in {generate_block(first)}, missed \in Counted :
             extend_chain({self} \cup missed, block)

(* A block of the network that extends the head.                           *)
network_block ==
    \E counted \in Counted, block \in BoundedSeq(Trx, MaxTrxs) : extend_chain(counted, block)

fork_block ==
    \E a, b \in BoundedSeq(Trx, MaxTrxs), countedA, countedB \in Counted :
        switch_to_fork(countedA, a, countedB, b)

(* A restart keeps what is on disk; a stored transaction that fails now    *)
(* stays on disk, unindexed.                                               *)
open ==
    /\ restarts < MaxRestarts
    /\ LET p == EvaluateAll(coins, head_num, pending_transaction_db)
       IN  pending_trx_state' = p.changes /\ pending_fee_index' = p.index
    /\ revalidate' = FALSE /\ restarts' = restarts + 1
    /\ UNCHANGED <<coins, head_num, undo, pending_transaction_db>>

PoolNext ==
    \/ \E t \in Trx, override_limits \in BOOLEAN : store_pending_transaction(t, override_limits)
    \/ revalidate_pending \/ own_block \/ network_block \/ fork_block \/ open

(* The delegate loop reschedules itself for every slot, and a scheduled    *)
(* fc task runs once its thread is free.                                   *)
Fairness == WF_pool_vars(own_block) /\ WF_pool_vars(revalidate_pending)

PoolSpec == PoolInit /\ [][PoolNext]_pool_vars /\ Fairness

-----------------------------------------------------------------------------
(* What is indexed is also on disk, so a restart loses nothing.            *)
PoolTypeOK ==
    /\ coins \subseteq Coin /\ head_num \in 0 .. MaxBlockNum
    /\ undo.coins \subseteq Coin /\ undo.num \in 0 .. MaxBlockNum /\ Range(undo.block) \subseteq Trx
    /\ pending_transaction_db \subseteq Trx /\ pending_fee_index \subseteq pending_transaction_db
    /\ \A c \in DOMAIN pending_trx_state : c \in Coin /\ pending_trx_state[c] \in BOOLEAN
    /\ revalidate \in BOOLEAN /\ restarts \in 0 .. MaxRestarts

(* No two of the indexed transactions conflict, and the overlay is what    *)
(* they make of the chain: in some order they all apply to the current     *)
(* chain state and give it.  (evaluate_transaction relies on it: nothing   *)
(* else is looked at when a transaction arrives.)                          *)
PoolConsistent ==
    \E order \in SetToSeqs(pending_fee_index) :
        apply_transactions(coins, head_num, order) = <<View(coins, pending_trx_state)>>

(* Revalidation keeps and indexes a transaction that is valid on the new   *)
(* chain and that no other stored transaction touches, however the blocks, *)
(* forks and restarts before it fell.                                      *)
UnconflictedKept ==
    [][revalidate_pending =>
        \A t \in pending_transaction_db :
            (/\ Evaluates(coins, head_num, t) /\ t.fee >= RelayFee
             /\ \A u \in pending_transaction_db \ {t} :
                  (t.needs \cup t.makes) \cap (u.needs \cup u.makes) = {})
            => t \in pending_fee_index']_pool_vars

(* Again and again the pool holds a valid transaction that takes the owner *)
(* key of this node's delegate: generate_block puts it into the block, and *)
(* extend_chain refuses every block that has it.                           *)
Refused == []<>(\E t \in pending_fee_index : self \in t.takes)

(* A pending transaction does not stay stored forever: it is included, or  *)
(* revalidation discards it, unless the blocks of this node are refused.   *)
EventuallyResolved ==
    Refused \/ \A t \in Trx : t \in pending_transaction_db ~> t \notin pending_transaction_db

(* The blocks that this node generates from its pool are accepted by its   *)
(* own chain, so the chain grows, unless a transaction stays in the pool   *)
(* that takes the owner key of the producer, the one case in which         *)
(* generate_block and extend_chain evaluate differently.                   *)
ChainGrows == Refused \/ <>(head_num = MaxBlockNum)
=============================================================================
