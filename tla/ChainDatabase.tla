--------------------------- MODULE ChainDatabase ---------------------------
(***************************************************************************)
(* The block tree of bts::blockchain::chain_database: how a node files the *)
(* blocks it receives, which fork it follows, and how it moves from one    *)
(* fork to another (libraries/blockchain/chain_database.cpp).              *)
(*                                                                         *)
(* push_block runs to completion in one fibre.  It is split here at the    *)
(* calls to pop_block and extend_chain, because each of them writes the    *)
(* database and the process can stop between two of them; `phase' says     *)
(* where the call is.  The fork records of the code are kept as one set    *)
(* per flag of block_fork_data; next_blocks of an id is the set of stored  *)
(* blocks whose `previous' it is, see next_blocks below.                   *)
(*                                                                         *)
(* Of the state that extend_chain changes and pop_block restores, only the *)
(* part that pop_block does not restore is kept: the key index.  The undo  *)
(* state puts the old account record back, but store_account_record        *)
(* removes no key of the record it replaces, so the key that a popped      *)
(* update_account has set still leads to the account, and the evaluation   *)
(* of any update_account that sets the same key then throws                *)
(* account_key_in_use.  The accounts concerned are those that every fork   *)
(* has registered.                                                         *)
(***************************************************************************)
EXTENDS Naturals, FiniteSets

CONSTANTS
    Block,       \* ids of the blocks the network may deliver
    Genesis,     \* block_id_type(), the id that stands before block 1
    previous,    \* signed_block_header::previous of each block
    block_num,   \* signed_block_header::block_num of each block
    Bad,         \* blocks that fail a check of extend_chain on any state
    Future,      \* blocks whose timestamp is about two intervals ahead of now()
    new_keys,    \* the active keys that a block's update_account operations set
    MaxUndo,     \* BTS_BLOCKCHAIN_MAX_UNDO_HISTORY
    None         \* no entry in the block number index

Ids == Block \cup {Genesis}

ASSUME GenesisAssumption == Genesis \notin Block /\ None \notin Ids
ASSUME TreeAssumption ==
    /\ previous \in [Block -> Ids]
    /\ block_num \in [Block -> Nat \ {0}]
(* generate_block numbers a block after its parent; a block that claims to *)
(* be the first one has no parent.                                         *)
ASSUME FirstBlockAssumption ==
    \A b \in Block : block_num[b] = 1 => previous[b] = Genesis
ASSUME BadAssumption == Bad \subseteq Block /\ Future \subseteq Block
ASSUME UndoAssumption == MaxUndo \in Nat \ {0}

(* The ids from which a block descends, itself and genesis included: the   *)
(* least set that holds it and the previous of each of its blocks.         *)
ancestors ==
    [b \in Ids |-> {a \in Ids : \A T \in SUBSET Ids :
        (b \in T /\ \A c \in T \ {Genesis} : previous[c] \in T) => a \in T}]

(* A block's id is a hash over its parent's, so the links have no cycle.   *)
ASSUME AcyclicAssumption ==
    \A b \in Block : Genesis \in ancestors[b] /\ b \notin ancestors[previous[b]]

Nums == {block_num[b] : b \in Block}
Keys == UNION {new_keys[b] : b \in Block}

(* _head_block_header of a fresh database has block_num 0.                 *)
BlockNum(b) == IF b = Genesis THEN 0 ELSE block_num[b]

VARIABLES
    block_data,       \* keys of _block_id_to_block_data_db and of the records
    fork_db,          \* keys of _fork_db: filed blocks and placeholders
    is_linked, is_known, is_included,  \* flags of block_fork_data
    is_valid,         \* ids whose is_valid holds true
    is_invalid,       \* ids whose is_valid holds false
    num_to_id,        \* _block_num_to_id_db
    undo_db,          \* keys of _undo_state_db
    address_to_account,  \* the keys of Keys that are in _address_to_account_db
    head_id,          \* _head_block_id
    head_header,      \* the block whose header is _head_block_header
    future,           \* blocks now more than two intervals ahead of now()
    phase,            \* where push_block is: "idle", "pop" or "apply"
    mode,             \* what it does: "extend", "switch" or "revert"
    current_head_id,  \* the local of push_block
    history,          \* get_fork_history without its last item
    rejoin,           \* its last item, as a singleton
    peak,             \* history variable: the highest head so far
    broken            \* history variable: an undo state was missing, or block 1
                      \* was popped and could not be put back

treeVars  == <<block_data, fork_db, is_linked, is_known>>
forkVars  == <<is_included, is_valid, is_invalid, num_to_id, undo_db, address_to_account>>
headVars  == <<head_id, head_header>>
callVars  == <<phase, mode, current_head_id, history, rejoin>>
ghostVars == <<peak, broken>>
vars == <<treeVars, forkVars, headVars, future, callVars, ghostVars>>

-----------------------------------------------------------------------------
(* The block tree.                                                         *)

(* block_fork_data::next_blocks of id when `data' are the filed blocks.    *)
next_blocks(id, data) == {b \in data : previous[b] = id}

(* Faulty variant: the loops do not go on to the next blocks.              *)
DescendantsOneLevel(ids, data) == ids

(* The blocks that the two recursive_mark_as_... loops visit: the blocks   *)
(* that lead back to one of `ids' over filed blocks.                       *)
Descendants(ids, data) ==
    {d \in data : \E a \in ids \cap ancestors[d] :
        \A c \in ancestors[d] : a \in ancestors[c] => c \in data}

(* The walk of get_fork_history from id: it goes back over the blocks that *)
(* are not included and stops where `previous' is included or genesis.     *)
StopsAt(id, inc) == id = Genesis \/ id \in inc

ForkPath(id, inc) ==
    {b \in ancestors[id] \ {Genesis} :
        \A c \in ancestors[id] \ {Genesis} :
            (b \in ancestors[c] /\ b # c) => ~StopsAt(previous[c], inc)}

ForkBase(path, inc) == {p \in {previous[c] : c \in path} : StopsAt(p, inc)}

(* get_fork_history throws when a header or a fork record is missing or    *)
(* when its assertion that every block on the way is linked fails.         *)
HistoryThrows(id, inc) ==
    \/ id \notin block_data'
    \/ \E c \in ForkPath(id, inc) :
          \/ c \notin block_data'
          \/ previous[c] # Genesis /\ previous[c] \notin is_linked'

-----------------------------------------------------------------------------
Init ==
    /\ block_data = {} /\ fork_db = {Genesis}
    /\ is_linked = {Genesis} /\ is_known = {Genesis}
    /\ is_included = {Genesis} /\ is_valid = {Genesis} /\ is_invalid = {}
    /\ num_to_id = [n \in Nums |-> None] /\ undo_db = {} /\ address_to_account = {}
    /\ head_id = Genesis /\ head_header = Genesis
    /\ future = Future
    /\ phase = "idle" /\ mode = "extend" /\ current_head_id = Genesis
    /\ history = {} /\ rejoin = {}
    /\ peak = 0 /\ broken = FALSE

(* Faulty variant: the extension loop starts at the last item of the       *)
(* history.                                                                *)
switch_to_forkFromBase(id, inc, m) ==
    /\ phase' = "pop" /\ mode' = m
    /\ history' = ForkPath(id, inc) \cup ForkBase(ForkPath(id, inc), inc)
    /\ rejoin' = ForkBase(ForkPath(id, inc), inc)

(* switch_to_fork(id) up to its first pop or extension.                    *)
switch_to_fork(id, inc, m) ==
    /\ phase' = "pop" /\ mode' = m
    /\ history' = ForkPath(id, inc)
    /\ rejoin' = ForkBase(ForkPath(id, inc), inc)

return == phase' = "idle" /\ UNCHANGED <<mode, history, rejoin>>

(* Faulty variant: the catch block does not switch back.                   *)
throwWithoutRevert(inc) == UNCHANGED current_head_id /\ return

(* An exception leaves push_block, except out of a switch: its catch block *)
(* switches back to the head the call started from.                        *)
throw(inc) ==
    /\ UNCHANGED current_head_id
    /\ IF mode = "switch" /\ ~HistoryThrows(current_head_id, inc)
         THEN switch_to_fork(current_head_id, inc, "revert")
         ELSE return

(* store_and_index: the effect on the tree.  A placeholder's record is     *)
(* kept as it is when its block arrives, is_known included.                *)
MissingLink(b) ==
    /\ b \in fork_db /\ b \notin is_linked
    /\ previous[b] \in is_linked

(* Faulty variant: the placeholder of an unknown previous is taken to be   *)
(* linked.                                                                 *)
store_and_indexLinkedPlaceholder(b) ==
    /\ block_data' = block_data \cup {b}
    /\ fork_db' = fork_db \cup {b, previous[b]}
    /\ is_known' = IF b \in fork_db THEN is_known ELSE is_known \cup {b}
    /\ is_linked' = is_linked \cup {b, previous[b]}

store_and_index(b) ==
    /\ block_data' = block_data \cup {b}
    /\ fork_db' = fork_db \cup {b, previous[b]}
    /\ is_known' = IF b \in fork_db THEN is_known ELSE is_known \cup {b}
    /\ is_linked' =
         IF MissingLink(b)
           THEN is_linked \cup {b}
                  \cup Descendants(next_blocks(b, block_data), block_data)
           ELSE IF b \notin fork_db /\ previous[b] \in is_linked
             THEN is_linked \cup {b}
             ELSE is_linked

(* The block whose fork record store_and_index returns: b itself, or the   *)
(* highest of the blocks that b has just linked (any of them on a tie).    *)
LongestFork(b) ==
    IF MissingLink(b)
      THEN LET linked == Descendants(next_blocks(b, block_data), block_data)
           IN  {c \in linked : \A d \in linked : block_num[d] <= block_num[c]}
      ELSE {b}

can_link(b) == b \in is_linked' /\ b \notin is_invalid

(* push_block, up to its first pop or extension.                           *)
push_block(b) ==
    /\ phase = "idle"
    /\ ~(/\ BlockNum(head_header) > MaxUndo
         /\ block_num[b] <= BlockNum(head_header) - MaxUndo)
    /\ store_and_index(b)
    /\ current_head_id' = head_id
    /\ \E longest \in LongestFork(b) :
         IF previous[b] = head_id
           THEN /\ phase' = "apply" /\ mode' = "extend"
                /\ history' = {b} /\ rejoin' = {head_id}
           ELSE IF ~can_link(longest) \/ block_num[longest] <= BlockNum(head_header)
             THEN return
             ELSE IF ~HistoryThrows(longest, is_included)
               THEN switch_to_fork(longest, is_included, "switch")
               ELSE IF ~HistoryThrows(head_id, is_included)
                 THEN switch_to_fork(head_id, is_included, "revert")
                 ELSE return
    /\ UNCHANGED <<forkVars, headVars, future, ghostVars>>

(* client_impl::on_new_block drops a block whose content is known.         *)
on_new_block(b) == b \notin is_known /\ push_block(b)

(* Faulty variant: the number index keeps the popped block.                *)
unindexNothing == UNCHANGED num_to_id

unindex == num_to_id' = [num_to_id EXCEPT ![block_num[head_header]] = None]

(* Faulty variant: block 1 is not popped either.                           *)
PoppableAboveOne == BlockNum(head_header) > 1

Poppable == BlockNum(head_header) # 0

(* pop_block.  The key index stays as it is.  Block 0 is not popped: the   *)
(* loop of switch_to_fork would spin.  There is no header for the genesis  *)
(* id, so popping block 1 moves the head id and then throws.               *)
pop_block ==
    /\ phase = "pop" /\ head_id \notin rejoin
    /\ Poppable
    /\ LET inc  == is_included \ {head_id}
           prev == previous[head_header]
       IN  /\ is_included' = inc
           /\ unindex
           /\ UNCHANGED <<treeVars, is_valid, is_invalid, undo_db, address_to_account>>
           /\ UNCHANGED <<future, peak>>
           /\ \/ /\ head_id \notin undo_db
                 /\ UNCHANGED headVars
                 /\ broken' = TRUE
                 /\ throw(inc)
              \/ /\ head_id \in undo_db /\ prev \in block_data
                 /\ head_id' = prev /\ head_header' = prev
                 /\ UNCHANGED <<callVars, broken>>
              \/ /\ head_id \in undo_db /\ prev \notin block_data
                 /\ head_id' = prev /\ UNCHANGED head_header
                 /\ broken' = (broken \/ mode = "revert")
                 /\ throw(inc)

(* verify_header and the other checks of extend_chain; save_undo_state     *)
(* throws when the number index has no entry for the undo state to drop.   *)
OldNum == BlockNum(head_header) - MaxUndo

verify_header(b) ==
    /\ block_num[b] > 1 => block_num[b] = BlockNum(head_header) + 1
    /\ previous[b] = head_id
    /\ b \notin future

(* Faulty variant: one undo state too many is dropped.                     *)
save_undo_stateOffByOne(b) ==
    undo_db' = (IF BlockNum(head_header) > MaxUndo
                  THEN undo_db \ {num_to_id[OldNum + 1]} ELSE undo_db) \cup {b}

save_undo_state(b) ==
    undo_db' = (IF BlockNum(head_header) > MaxUndo
                  THEN undo_db \ {num_to_id[OldNum]} ELSE undo_db) \cup {b}

(* update_account refuses a key that leads to an account.                  *)
key_free(b) == new_keys[b] \cap address_to_account = {}

Extends(b) ==
    /\ verify_header(b)
    /\ key_free(b)
    /\ b \notin Bad
    /\ BlockNum(head_header) > MaxUndo =>
         OldNum \in Nums /\ num_to_id[OldNum] # None

mark_included(b) ==
    /\ is_included' = is_included \cup {b}
    /\ is_valid' = is_valid \cup {b}
    /\ is_invalid' = is_invalid \ {b}

(* Faulty variant: the blocks next to b are marked too.                    *)
mark_invalidSiblings(b) ==
    LET marked == Descendants(next_blocks(previous[b], block_data), block_data)
    IN  /\ is_invalid' = is_invalid \cup marked
        /\ is_valid' = is_valid \ marked

(* Faulty variant: the descendants are not marked.                         *)
mark_invalidAlone(b) ==
    /\ is_invalid' = is_invalid \cup {b}
    /\ is_valid' = is_valid \ {b}

mark_invalid(b) ==
    LET marked == {b} \cup Descendants(next_blocks(b, block_data), block_data)
    IN  /\ is_invalid' = is_invalid \cup marked
        /\ is_valid' = is_valid \ marked

(* extend_chain for the next block of the history.                         *)
extend_chain(b) ==
    /\ phase = "apply" \/ (phase = "pop" /\ head_id \in rejoin)
    /\ b \in history /\ previous[b] = head_id
    /\ UNCHANGED <<treeVars, future>>
    /\ \/ /\ Extends(b)
          /\ save_undo_state(b)
          /\ address_to_account' = address_to_account \cup new_keys[b]
          /\ mark_included(b)
          /\ head_id' = b /\ head_header' = b
          /\ num_to_id' = [num_to_id EXCEPT ![block_num[b]] = b]
          /\ peak' = IF block_num[b] > peak THEN block_num[b] ELSE peak
          /\ UNCHANGED <<mode, current_head_id, history, rejoin, broken>>
          /\ phase' = IF \E c \in history : previous[c] = b THEN "apply" ELSE "idle"
       \/ /\ ~Extends(b)
          /\ mark_invalid(b)
          /\ UNCHANGED <<is_included, num_to_id, undo_db, address_to_account, headVars, peak>>
          /\ broken' = (broken \/ (mode = "revert" /\ head_id = Genesis))
          /\ throw(is_included)

(* The clock moves over the point from which a block's timestamp is within *)
(* two intervals of now(): forward with time, back when it is corrected.   *)
Tick(b) ==
    /\ b \in Future
    /\ future' = IF b \in future THEN future \ {b} ELSE future \cup {b}
    /\ UNCHANGED <<treeVars, forkVars, headVars, callVars, ghostVars>>

(* The process stops, between two of the handlers above or when idle, and  *)
(* open() takes the last entry of the number index as the head.  (With an  *)
(* empty index open() rebuilds the database instead.)                      *)
IsLast(n) ==
    /\ num_to_id[n] # None
    /\ \A m \in Nums : num_to_id[m] # None => m <= n

open ==
    /\ \E n \in Nums : IsLast(n) /\ head_id' = num_to_id[n] /\ head_header' = num_to_id[n]
    /\ return
    /\ UNCHANGED <<treeVars, forkVars, future, ghostVars, current_head_id>>

Next ==
    \/ \E b \in Block : on_new_block(b) \/ extend_chain(b) \/ Tick(b)
    \/ pop_block
    \/ open

(* push_block yields to no other fibre, so a step of it that can be taken  *)
(* is taken.                                                               *)
Spec == Init /\ [][Next]_vars
             /\ WF_vars(pop_block) /\ WF_vars(\E b \in Block : extend_chain(b))

-----------------------------------------------------------------------------
TypeOK ==
    /\ block_data \subseteq Block /\ fork_db \subseteq Ids
    /\ is_linked \subseteq fork_db /\ is_known \subseteq fork_db
    /\ is_included \subseteq fork_db
    /\ is_valid \subseteq fork_db /\ is_invalid \subseteq fork_db
    /\ num_to_id \in [Nums -> Block \cup {None}]
    /\ undo_db \subseteq Block /\ address_to_account \subseteq Keys
    /\ head_id \in Ids /\ head_header \in Ids
    /\ future \subseteq Block
    /\ phase \in {"idle", "pop", "apply"}
    /\ mode \in {"extend", "switch", "revert"}
    /\ current_head_id \in Ids
    /\ history \subseteq Block /\ rejoin \subseteq Ids
    /\ peak \in Nat /\ broken \in BOOLEAN

(* A block is linked exactly when the content of every block between it    *)
(* and genesis has arrived, in whatever order it came (store_and_index,    *)
(* recursive_mark_as_linked).                                              *)
LinkedExactly ==
    \A b \in Block : b \in is_linked <=> ancestors[b] \subseteq block_data \cup {Genesis}

(* "this shouldn't happen if the database invariants are properly          *)
(* maintained": get_fork_history meets neither an unlinked block nor one   *)
(* without a header, for any fork that can_link would let push_block       *)
(* switch to.                                                              *)
NoDeadEnd ==
    \A id \in is_linked \ {Genesis} :
        \A c \in ForkPath(id, is_included) :
            c \in block_data /\ previous[c] \in is_linked

(* As long as nothing has failed while undoing, the included blocks form   *)
(* one chain without gaps from genesis to the head, the number index       *)
(* lists exactly that chain, and the header in memory is the head's (but   *)
(* for the moment after the pop of block 1 has thrown).                    *)
IncludedChain ==
    /\ Genesis \in is_included /\ head_id \in is_included
    /\ \A b \in is_included \ {Genesis} :
         /\ previous[b] \in is_included
         /\ block_num[b] = BlockNum(previous[b]) + 1
         /\ block_num[b] <= BlockNum(head_id)
         /\ num_to_id[block_num[b]] = b
    /\ \A n \in Nums : num_to_id[n] # None =>
         num_to_id[n] \in is_included /\ block_num[num_to_id[n]] = n

HeaderOfHead ==
    \/ head_header = head_id
    \/ head_id = Genesis /\ mode = "revert" /\ phase # "idle"

ChainConsistent == ~broken => IncludedChain /\ HeaderOfHead

(* The keys that blocks left in the index when they were popped, and the   *)
(* blocks that cannot be applied again for one of them or because the      *)
(* clock was set back.                                                     *)
left_keys == address_to_account \ UNION {new_keys[c] : c \in is_included \ {Genesis}}
Spoilt(b) == b \in future \/ new_keys[b] \cap left_keys # {}

(* A block that was applied once can be applied again, on its parent,      *)
(* whatever blocks were applied and popped in between: so can all its      *)
(* ancestors, and extend_chain refuses it only if it sets a key that a pop *)
(* has left in the index or its time has come to lie in the future.        *)
ValidChain ==
    /\ is_included \subseteq is_valid /\ is_valid \cap is_invalid = {}
    /\ \A b \in is_valid \ {Genesis} :
         /\ b \in block_data /\ previous[b] \in is_valid
         /\ b \notin Bad
         /\ block_num[b] = BlockNum(previous[b]) + 1

StillApplies ==
    \A b \in is_valid \ {Genesis} :
        (previous[b] = head_id /\ head_header = head_id /\ ~Spoilt(b)) => Extends(b)

ValidStaysApplicable == ~broken => ValidChain /\ StillApplies

(* The undo state of an included block is there as long as the chain has   *)
(* never been more than MaxUndo blocks above it: save_undo_state drops     *)
(* none too early, whatever forks were tried and left in between.          *)
UndoWindow ==
    \A b \in is_included \ {Genesis} : block_num[b] + MaxUndo >= peak => b \in undo_db

UndoAvailable == ~broken => UndoWindow

-----------------------------------------------------------------------------
(* mark_invalid takes back that a block was found valid only when the      *)
(* block, or one of its ancestors, was refused for a key that a pop has    *)
(* left in the index or for the clock.                                     *)
ValidIsStable ==
    [][~broken' => \A b \in is_valid \ is_valid' :
                     \E a \in ancestors[b] \ {Genesis} : a \in is_invalid' /\ Spoilt(a)]_vars

(* When push_block ends, by return or by exception, the head is the one    *)
(* the call started from or a higher block: a switch that fails half way   *)
(* does not cost the node its chain, except when a block of the old branch *)
(* is refused on the way back for a key that popping it has left in the    *)
(* index, or for the clock.                                                *)
HeadKeptOrHigher ==
    [][(/\ pop_block \/ \E b \in Block : extend_chain(b)
        /\ phase' = "idle" /\ ~broken')
       => \/ head_id' = current_head_id
          \/ BlockNum(head_id') > BlockNum(current_head_id)
          \/ mode = "revert" /\ \E a \in ancestors[current_head_id] \ {Genesis} :
                                   previous[a] = head_id' /\ Spoilt(a)]_vars

(* Every push_block ends: the pops of switch_to_fork reach the point where *)
(* the forks part, the extensions reach the tip or fail.                   *)
PushReturns == (phase # "idle") ~> (phase = "idle")

-----------------------------------------------------------------------------
(* What makes the invariants above inductive.                              *)

(* is_linked follows the links, and a placeholder is never linked.         *)
LinkedInv ==
    /\ Genesis \in is_linked
    /\ block_data \subseteq fork_db
    /\ \A b \in is_linked \ {Genesis} : b \in block_data
    /\ \A b \in block_data :
         /\ previous[b] \in fork_db
         /\ b \in is_linked <=> previous[b] \in is_linked

(* The number index has no gap below the head.                             *)
IndexWithoutGap ==
    \A n \in 1 .. BlockNum(head_id) : n \in Nums /\ num_to_id[n] # None

(* The index holds the keys of the included blocks, and no block that was  *)
(* applied sets a key that one of its ancestors sets.                      *)
KeysInv ==
    /\ \A b \in is_included \ {Genesis} : new_keys[b] \subseteq address_to_account
    /\ \A b \in is_valid \ {Genesis} : \A a \in ancestors[previous[b]] \ {Genesis} :
         new_keys[b] \cap new_keys[a] = {}

(* What a push_block under way may rely on: the blocks it will apply are   *)
(* filed, a switch does not touch the branch it comes from, going back     *)
(* applies valid blocks of that branch only, and a switch from genesis     *)
(* pops nothing.                                                           *)
HistoryFiled == phase # "idle" => history \subseteq block_data

CallInv ==
    phase # "idle" =>
        /\ mode = "extend" => phase = "apply"
        /\ mode = "switch" =>
             current_head_id \in is_valid /\ history \cap ancestors[current_head_id] = {}
        /\ mode = "revert" => history \subseteq is_valid \cap ancestors[current_head_id]
        /\ phase = "pop" /\ mode = "switch" /\ current_head_id = Genesis =>
             head_id = Genesis /\ Genesis \in rejoin

ChainInv ==
    /\ IncludedChain /\ HeaderOfHead /\ IndexWithoutGap
    /\ ValidChain /\ KeysInv /\ is_valid \subseteq is_linked
    /\ CallInv /\ UndoWindow

IInv == TypeOK /\ LinkedInv /\ HistoryFiled /\ (~broken => ChainInv)
=============================================================================
