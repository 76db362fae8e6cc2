--------------------------- MODULE AccountDatabase ---------------------------
(***************************************************************************)
(* The account records of chain_database with their indexes by name, by    *)
(* active key and by votes, and the slot records, as blocks change them    *)
(* through a pending_chain_state and as pop_block undoes the blocks again  *)
(* (store_account_record of chain_database.cpp, pending_chain_state.cpp,   *)
(* account_operations.cpp).                                                *)
(***************************************************************************)
EXTENDS Integers, SequencesExt

CONSTANTS
    Key,        \* public keys
    NullKey,    \* public_key_type(), the active key of a retracted account
    Name,       \* account names
    MaxId,      \* bound: account ids
    MaxVotes,   \* bound: votes of a delegate
    MaxTime,    \* bound: slots
    MaxBlocks,  \* bound: height of the chain
    MaxOps,     \* bound: operations in a block
    None        \* no entry

Id == 1 .. MaxId
Time == 1 .. MaxTime

ASSUME BoundsAssumption == {MaxId, MaxVotes, MaxTime, MaxBlocks, MaxOps} \subseteq Nat \ {0}
ASSUME NullKeyAssumption == NullKey \in Key /\ None \notin Id \cup Key

(* The maps from some elements of S to T.                                  *)
Partial(S, T) == UNION {[A -> T] : A \in SUBSET S}

(* account_record: active_key_history maps times to keys; votes is None    *)
(* for an account that is not a delegate.                                  *)
Record == [name : Name, owner_key : Key,
           history : Partial(0 .. MaxTime, Key),
           votes : 0 .. MaxVotes \cup {None}]

ASSUME RecordAssumption == None \notin Record

VARIABLES
    account_db,               \* _account_db
    account_index_db,         \* _account_index_db, by name
    address_to_account_db,    \* _address_to_account_db, by active key
    delegate_vote_index_db,   \* _delegate_vote_index_db
    slot_record_db,           \* _slot_record_db: "produced" or "missed"
    last_account_id,          \* the property of that name
    head_time,                \* timestamp of the head block
    undo,                     \* undo states of the blocks on the chain
    pending,                  \* the block's pending_chain_state, or None
    ops                       \* operations evaluated in the block

dbVars == <<account_db, account_index_db, address_to_account_db, delegate_vote_index_db,
            slot_record_db, last_account_id, head_time>>
vars == <<dbVars, undo, pending, ops>>

Keys(rec) == Range(rec.history)
StoredKeys(rec) == Keys(rec) \cup {rec.owner_key}
LatestTime(T) == CHOOSE t \in T : \A s \in T : s <= t
active_key(rec) == rec.history[LatestTime(DOMAIN rec.history)]
is_retracted(rec) == active_key(rec) = NullKey

is_delegate(rec) == rec.votes # None

(* The map f with the entries of S set to v.                               *)
Put(f, S, v) == [x \in S \cup DOMAIN f |-> IF x \in S THEN v ELSE f[x]]

(* The record with its key history extended at the time now.  A second key *)
(* at the same time replaces the first.                                    *)
set_active_key(rec, t, k) == [rec EXCEPT !.history = Put(@, {t}, k)]

(* The genesis account: a delegate.                                        *)
Init ==
    /\ \E n \in Name, k \in Key \ {NullKey} :
         /\ account_db = [a \in Id |-> IF a = 1
               THEN [name |-> n, owner_key |-> k, history |-> [t \in {0} |-> k], votes |-> 1]
               ELSE None]
         /\ account_index_db = [m \in Name |-> IF m = n THEN 1 ELSE None]
         /\ address_to_account_db = [l \in Key |-> IF l = k THEN 1 ELSE None]
    /\ delegate_vote_index_db = {<<1, 1>>}
    /\ slot_record_db = [t \in Time |-> None]
    /\ last_account_id = 1 /\ head_time = 0
    /\ undo = <<>> /\ pending = None /\ ops = 0

-----------------------------------------------------------------------------
(* Reads through the pending state.                                        *)

get_account_record(a) ==
    IF a \in DOMAIN pending.accounts THEN pending.accounts[a] ELSE account_db[a]

(* Faulty variant: accounts that the block itself changes are not seen.    *)
KeyInUseBeforeBlock(k) ==
    address_to_account_db[k] # None /\ account_db[address_to_account_db[k]] # None

(* The account found by a key: key_to_account of the pending state first,  *)
(* which also holds owner keys, then the index of the database.            *)
KeyInUse(k) ==
    IF k \in DOMAIN pending.key_to_account
      THEN get_account_record(pending.key_to_account[k]) # None
      ELSE address_to_account_db[k] # None /\ account_db[address_to_account_db[k]] # None

NameInUse(n) ==
    \/ \E a \in DOMAIN pending.accounts : pending.accounts[a].name = n
    \/ account_index_db[n] # None

(* pending_chain_state::store_account_record.                              *)
PendingStore(a, rec) ==
    /\ pending' = [pending EXCEPT
            !.accounts = Put(@, {a}, rec),
            !.key_to_account = Put(@, StoredKeys(rec), a),
            !.last_account_id = IF a > @ THEN a ELSE @]
    /\ ops' = ops + 1
    /\ UNCHANGED <<dbVars, undo>>

-----------------------------------------------------------------------------
(* A block with timestamp t signed by delegate d: the slots since the head *)
(* are recorded, and the records of d and of the delegates that missed     *)
(* those slots are stored (update_delegate_production_info, pay_delegate). *)
(* Block 1 has no missed slots before it.                                  *)
extend_chain(t, d, missed) ==
    LET since == IF undo = <<>> THEN {} ELSE head_time + 1 .. t - 1
        touched == {d} \cup missed
    IN  /\ pending = None /\ t > head_time /\ Len(undo) < MaxBlocks
        /\ \A a \in touched : account_db[a] # None /\ is_delegate(account_db[a])
        /\ ~is_retracted(account_db[d])
        /\ missed = {} <=> since = {}
        /\ pending' = [accounts |-> [a \in touched |-> account_db[a]],
                       key_to_account |->
                         [k \in UNION {StoredKeys(account_db[a]) : a \in touched} |->
                            CHOOSE a \in touched : k \in StoredKeys(account_db[a])],
                       last_account_id |-> last_account_id, time |-> t,
                       slots |-> [s \in since \cup {t} |-> IF s = t THEN "produced" ELSE "missed"]]
        /\ ops' = 0
        /\ UNCHANGED <<dbVars, undo>>

InBlock == pending # None /\ ops < MaxOps

(* The operations, when they pass their checks.  (One that throws ends the *)
(* block: see throw.)                                                      *)
register_account(n, o, k, v) ==
    /\ InBlock /\ pending.last_account_id < MaxId
    /\ ~NameInUse(n) /\ ~KeyInUse(k)
    /\ PendingStore(pending.last_account_id + 1,
                    [name |-> n, owner_key |-> o, history |-> [t \in {head_time} |-> k], votes |-> v])

(* update_account looks the new key up twice, so it refuses the key the    *)
(* account already has.                                                    *)
update_active_key(a, k) ==
    /\ InBlock
    /\ LET rec == get_account_record(a) IN
         /\ rec # None /\ ~is_retracted(rec) /\ ~KeyInUse(k)
         /\ PendingStore(a, set_active_key(rec, head_time, k))

(* The account becomes a delegate.                                         *)
update_to_delegate(a) ==
    /\ InBlock
    /\ LET rec == get_account_record(a) IN
         /\ rec # None /\ ~is_retracted(rec) /\ ~is_delegate(rec)
         /\ PendingStore(a, [rec EXCEPT !.votes = 0])

(* update_delegate_votes after a deposit or a withdrawal.                  *)
update_delegate_votes(a, v) ==
    /\ InBlock
    /\ LET rec == get_account_record(a) IN
         /\ rec # None /\ is_delegate(rec) /\ v # rec.votes
         /\ PendingStore(a, [rec EXCEPT !.votes = v])

throw ==
    /\ pending # None
    /\ pending' = None /\ ops' = 0
    /\ UNCHANGED <<dbVars, undo>>

-----------------------------------------------------------------------------
(* Faulty variant: the entry of the old votes stays in the index.          *)
VoteIndexKeepOld(index, a, old, rec) ==
    index \cup (IF rec # None /\ is_delegate(rec) THEN {<<rec.votes, a>>} ELSE {})

VoteIndex(index, a, old, rec) ==
    (index \ (IF old # None /\ is_delegate(old) THEN {<<old.votes, a>>} ELSE {}))
      \cup (IF rec # None /\ is_delegate(rec) THEN {<<rec.votes, a>>} ELSE {})

KeyIndex(index, a, old, rec) ==
    IF rec = None
      THEN [k \in Key |-> IF old # None /\ k \in Keys(old) THEN None ELSE index[k]]
      ELSE [k \in Key |-> IF k \in Keys(rec) THEN a ELSE index[k]]

(* A record with a null owner key counts as no record (is_null).           *)
NotNull(rec) == IF rec.owner_key = NullKey THEN None ELSE rec

(* chain_database::store_account_record.  A null record (here None, with   *)
(* the name that make_null keeps) removes the account.                     *)
store_account_record(db, a, name, rec) ==
    LET old == db.account[a]
    IN  IF rec = None /\ old = None THEN db
        ELSE [account |-> [db.account EXCEPT ![a] = rec],
              name    |-> [db.name EXCEPT ![name] = IF rec = None THEN None ELSE a],
              key     |-> KeyIndex(db.key, a, old, rec),
              votes   |-> VoteIndex(db.votes, a, old, rec)]

StoreInOrder(db, order) ==
    FoldLeft(LAMBDA d, e : store_account_record(d, e.id, e.name, e.record), db, order)

(* apply_changes stores the accounts one by one, in the order of an        *)
(* unordered_map.                                                          *)
StoreAccounts(accounts) ==
    \E order \in SetToSeqs({accounts[i] : i \in DOMAIN accounts}) :
        LET db == StoreInOrder([account |-> account_db, name |-> account_index_db,
                                key |-> address_to_account_db, votes |-> delegate_vote_index_db],
                               order)
        IN  /\ account_db' = db.account /\ account_index_db' = db.name
            /\ address_to_account_db' = db.key /\ delegate_vote_index_db' = db.votes

(* Faulty variant: an account that the block registers is not undone.      *)
get_undo_stateKeepNew ==
    [accounts |-> [a \in {b \in DOMAIN pending.accounts : account_db[b] # None} |->
                     [id |-> a, name |-> pending.accounts[a].name, record |-> account_db[a]]],
     slots |-> {t \in DOMAIN pending.slots : slot_record_db[t] # None},
     last_account_id |-> last_account_id, head_time |-> head_time]

(* get_undo_state: the record before the block, or the null record.  The   *)
(* slot record of a slot without an earlier one is undone under time 0,    *)
(* that is not at all.                                                     *)
get_undo_state ==
    [accounts |-> [a \in DOMAIN pending.accounts |->
                     [id |-> a, name |-> pending.accounts[a].name, record |-> account_db[a]]],
     slots |-> {t \in DOMAIN pending.slots : slot_record_db[t] # None},
     last_account_id |-> last_account_id, head_time |-> head_time]

(* What the database held before the block: the slot records that the undo *)
(* state takes over and, for the properties, the accounts.                 *)
Before == [account |-> account_db, slots |-> slot_record_db]

(* The end of extend_chain: save_undo_state, apply_changes.                *)
apply_changes ==
    /\ pending # None
    /\ undo' = Append(undo, [state |-> get_undo_state, before |-> Before])
    /\ StoreAccounts([a \in DOMAIN pending.accounts |->
          [id |-> a, name |-> pending.accounts[a].name, record |-> NotNull(pending.accounts[a])]])
    /\ slot_record_db' = [t \in Time |->
          IF t \in DOMAIN pending.slots THEN pending.slots[t] ELSE slot_record_db[t]]
    /\ last_account_id' = pending.last_account_id /\ head_time' = pending.time
    /\ pending' = None /\ ops' = 0

pop_block ==
    /\ pending = None /\ undo # <<>>
    /\ LET state == Last(undo).state IN
         /\ StoreAccounts(state.accounts)
         /\ slot_record_db' = [t \in Time |->
               IF t \in state.slots THEN Last(undo).before.slots[t] ELSE slot_record_db[t]]
         /\ last_account_id' = state.last_account_id /\ head_time' = state.head_time
    /\ undo' = Front(undo)
    /\ UNCHANGED <<pending, ops>>

Next ==
    \/ \E t \in Time, d \in Id, missed \in SUBSET Id : extend_chain(t, d, missed)
    \/ \E n \in Name, o, k \in Key, v \in {0, None} : register_account(n, o, k, v)
    \/ \E a \in Id, k \in Key : update_active_key(a, k)
    \/ \E a \in Id : update_to_delegate(a)
    \/ \E a \in Id, v \in 0 .. MaxVotes : update_delegate_votes(a, v)
    \/ throw \/ apply_changes \/ pop_block

Spec == Init /\ [][Next]_vars

-----------------------------------------------------------------------------
Accounts == [Id -> Record \cup {None}]
Slots == [Time -> {"produced", "missed", None}]

TypeOK ==
    /\ account_db \in Accounts
    /\ account_index_db \in [Name -> Id \cup {None}]
    /\ address_to_account_db \in [Key -> Id \cup {None}]
    /\ delegate_vote_index_db \subseteq (0 .. MaxVotes) \X Id
    /\ slot_record_db \in Slots
    /\ last_account_id \in Id /\ head_time \in 0 .. MaxTime
    /\ ops \in 0 .. MaxOps

(* The votes index ranks exactly the delegates, each once and by its       *)
(* current votes, and the name index lists exactly the accounts, after any *)
(* sequence of blocks and pops (store_account_record).                     *)
IndexesExact ==
    /\ delegate_vote_index_db =
         {<<account_db[a].votes, a>> :
            a \in {b \in Id : account_db[b] # None /\ is_delegate(account_db[b])}}
    /\ \A n \in Name, a \in Id :
         account_index_db[n] = a <=> account_db[a] # None /\ account_db[a].name = n

(* Every key an account has had leads to that account, so no two accounts  *)
(* ever share one: a popped registration does not take another account's   *)
(* entry with it.                                                          *)
KeysFound ==
    \A a \in Id : account_db[a] # None =>
        \A k \in Keys(account_db[a]) : address_to_account_db[k] = a

(* pop_block brings the account records back as they were before the       *)
(* block.                                                                  *)
AccountsUndone == [][pop_block => account_db' = Last(undo).before.account]_vars
=============================================================================
