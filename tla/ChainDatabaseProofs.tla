------------------------ MODULE ChainDatabaseProofs ------------------------
(***************************************************************************)
(* Proofs about ChainDatabase, for every block tree and every MaxUndo.     *)
(***************************************************************************)
EXTENDS ChainDatabase, TLAPS

-----------------------------------------------------------------------------
(* Facts about ancestors, the closure of the hash links.                   *)

ClosedUnderPrevious(T) == \A c \in T \ {Genesis} : previous[c] \in T

(* The ancestors of an id are ids, and no closed set is smaller.           *)
LEMMA AncestorsMinimal ==
    ASSUME NEW b \in Ids, NEW T \in SUBSET Ids, b \in T, ClosedUnderPrevious(T)
    PROVE  ancestors[b] \subseteq T
BY DEF ancestors, ClosedUnderPrevious

(* The ancestors of an id hold it and lead back with every block to the    *)
(* block's previous.                                                       *)
LEMMA AncestorsClosed ==
    ASSUME NEW b \in Ids
    PROVE  /\ ancestors[b] \in SUBSET Ids
           /\ b \in ancestors[b]
           /\ ClosedUnderPrevious(ancestors[b])
<1>1. ancestors[b] \in SUBSET Ids /\ b \in ancestors[b]
  BY DEF ancestors
<1>2. ASSUME NEW c \in ancestors[b] \ {Genesis} PROVE previous[c] \in ancestors[b]
  <2>1. c \in Block /\ previous[c] \in Ids
    BY <1>1, TreeAssumption DEF Ids
  <2>2. ASSUME NEW T \in SUBSET Ids, b \in T, \A d \in T \ {Genesis} : previous[d] \in T
        PROVE  previous[c] \in T
    BY <2>2, AncestorsMinimal DEF ClosedUnderPrevious
  <2> QED
    BY <2>1, <2>2 DEF ancestors
<1> QED
  BY <1>1, <1>2 DEF ClosedUnderPrevious

(* An ancestor's ancestors are ancestors.                                  *)
LEMMA AncestorsTransitive ==
    ASSUME NEW b \in Ids, NEW a \in ancestors[b]
    PROVE  a \in Ids /\ ancestors[a] \subseteq ancestors[b]
BY AncestorsClosed, AncestorsMinimal

(* Genesis has no ancestor but itself.                                     *)
LEMMA AncestorsOfGenesis == ancestors[Genesis] = {Genesis}
<1>1. Genesis \in Ids /\ {Genesis} \in SUBSET Ids /\ ClosedUnderPrevious({Genesis})
  BY DEF Ids, ClosedUnderPrevious
<1> QED
  BY <1>1, AncestorsMinimal, AncestorsClosed

(* The ancestors of a block are the block and its previous' ancestors.     *)
LEMMA AncestorsStep ==
    ASSUME NEW b \in Block
    PROVE  /\ previous[b] \in Ids
           /\ ancestors[b] = {b} \cup ancestors[previous[b]]
<1>1. b \in Ids /\ previous[b] \in Ids /\ b # Genesis
  BY TreeAssumption, GenesisAssumption DEF Ids
<1>2. ancestors[previous[b]] \subseteq ancestors[b] /\ b \in ancestors[b]
  BY <1>1, AncestorsClosed, AncestorsTransitive DEF ClosedUnderPrevious
<1>3. /\ {b} \cup ancestors[previous[b]] \in SUBSET Ids
      /\ ClosedUnderPrevious({b} \cup ancestors[previous[b]])
  BY <1>1, AncestorsClosed DEF ClosedUnderPrevious
<1>4. ancestors[b] \subseteq {b} \cup ancestors[previous[b]]
  BY <1>1, <1>3, AncestorsMinimal
<1> QED
  BY <1>1, <1>2, <1>4

(* The links have no cycle: two ids that descend from each other are one.  *)
LEMMA AncestorsAntisymmetric ==
    ASSUME NEW b \in Block, NEW c \in ancestors[b], b \in ancestors[c]
    PROVE  c = b
<1>1. CASE c # b
  <2>1. c \in ancestors[previous[b]] /\ previous[b] \in Ids
    BY <1>1, AncestorsStep
  <2>2. b \in ancestors[previous[b]]
    BY <2>1, AncestorsTransitive
  <2> QED
    BY <2>2, AcyclicAssumption
<1> QED
  BY <1>1

-----------------------------------------------------------------------------
(* Facts about the loops over the tree.                                    *)

(* recursive_mark_as_... visits filed blocks only, reaches every block     *)
(* filed after one it visits, and reaches nothing else.                    *)
LEMMA DescendantsClosed ==
    ASSUME NEW data \in SUBSET Block, NEW ids \in SUBSET data
    PROVE  /\ Descendants(ids, data) \subseteq data
           /\ ids \subseteq Descendants(ids, data)
           /\ \A c \in data : previous[c] \in Descendants(ids, data)
                                => c \in Descendants(ids, data)
           /\ \A d \in Descendants(ids, data) :
                d \in ids \/ previous[d] \in Descendants(ids, data)
<1> DEFINE D == Descendants(ids, data)
<1>1. D \subseteq data
  BY DEF Descendants
<1>2. ASSUME NEW a \in ids PROVE a \in D
  <2>1. a \in Block /\ a \in ancestors[a]
    BY AncestorsClosed DEF Ids
  <2>2. \A c \in ancestors[a] : a \in ancestors[c] => c \in data
    BY <2>1, AncestorsAntisymmetric
  <2> QED
    BY <2>1, <2>2 DEF Descendants
<1>3. ASSUME NEW c \in data, previous[c] \in D PROVE c \in D
  <2>1. ancestors[c] = {c} \cup ancestors[previous[c]]
    BY AncestorsStep
  <2>2. PICK a \in ids \cap ancestors[previous[c]] :
          \A x \in ancestors[previous[c]] : a \in ancestors[x] => x \in data
    BY <1>3 DEF Descendants
  <2> QED
    BY <2>1, <2>2 DEF Descendants
<1>4. ASSUME NEW d \in D, d \notin ids PROVE previous[d] \in D
  <2>1. d \in Block
    BY <1>1
  <2>2. PICK a \in ids \cap ancestors[d] :
          \A x \in ancestors[d] : a \in ancestors[x] => x \in data
    BY DEF Descendants
  <2>3. /\ ancestors[d] = {d} \cup ancestors[previous[d]]
        /\ previous[d] \in Ids
    BY <2>1, AncestorsStep
  <2>4. a \in ancestors[previous[d]]
    BY <1>4, <2>2, <2>3
  <2>5. previous[d] \in ancestors[previous[d]]
    BY <2>3, AncestorsClosed
  <2>6. previous[d] \in data
    BY <2>2, <2>3, <2>4, <2>5
  <2> QED
    BY <2>2, <2>3, <2>4, <2>6 DEF Descendants
<1> QED
  BY <1>1, <1>2, <1>3, <1>4

(* The walk of get_fork_history stays among the ancestors of its start.    *)
LEMMA ForkPathAncestors ==
    ASSUME NEW id \in Ids, NEW inc
    PROVE  /\ ForkPath(id, inc) \subseteq ancestors[id] \ {Genesis}
           /\ ForkPath(id, inc) \subseteq Block
BY AncestorsClosed DEF ForkPath, Ids

(* If only genesis is included, the walk ends there.                       *)
LEMMA ForkPathReachesGenesis ==
    ASSUME NEW id \in Block
    PROVE  Genesis \in ForkBase(ForkPath(id, {Genesis}), {Genesis})
<1> DEFINE A == ancestors[id]
<1>0. id \in Ids /\ id # Genesis
  BY GenesisAssumption DEF Ids
<1>1. PICK c \in A \ {Genesis} : previous[c] = Genesis
  <2>1. SUFFICES ASSUME \A c \in A \ {Genesis} : previous[c] # Genesis
                 PROVE  FALSE
    OBVIOUS
  <2>2. /\ A \ {Genesis} \in SUBSET Ids /\ id \in A \ {Genesis}
        /\ ClosedUnderPrevious(A \ {Genesis})
    BY <1>0, <2>1, AncestorsClosed DEF ClosedUnderPrevious
  <2>3. A \subseteq A \ {Genesis}
    BY <1>0, <2>2, AncestorsMinimal
  <2> QED
    BY <2>3, AcyclicAssumption
<1>2. ASSUME NEW y \in A \ {Genesis}, c \in ancestors[y], c # y
      PROVE  ~StopsAt(previous[y], {Genesis})
  <2>1. y \in Block
    BY <1>0, AncestorsClosed DEF Ids
  <2>2. c \in ancestors[previous[y]]
    BY <1>2, <2>1, AncestorsStep
  <2>3. previous[y] # Genesis
    BY <2>2, <1>1, AncestorsOfGenesis
  <2> QED
    BY <2>3 DEF StopsAt
<1> QED
  BY <1>1, <1>2 DEF ForkPath, ForkBase, StopsAt

(* The history of a call ends in one block, its tip: the block to apply,   *)
(* the head of the fork to switch to, or the head to go back to.           *)
IsTip(tip, path) ==
  /\ tip \in path
  /\ \A c \in path \ {tip} : \E d \in path : previous[d] = c

(* get_fork_history ends in the block it was asked for.                    *)
LEMMA ForkPathTip ==
    ASSUME NEW id \in Block, NEW inc
    PROVE  IsTip(id, ForkPath(id, inc))
<1> DEFINE A == ancestors[id]
<1>1. id \in Ids /\ id # Genesis
  BY GenesisAssumption DEF Ids
<1>2. A \in SUBSET Ids /\ id \in A /\ ClosedUnderPrevious(A)
  BY <1>1, AncestorsClosed
<1>3. id \in ForkPath(id, inc)
  <2>1. \A c \in A \ {Genesis} : id \in ancestors[c] => c = id
    BY AncestorsAntisymmetric
  <2> QED
    BY <1>1, <1>2, <2>1 DEF ForkPath
<1>4. ASSUME NEW c \in ForkPath(id, inc), c # id
      PROVE  \E d \in ForkPath(id, inc) : previous[d] = c
  <2>1. c \in A \ {Genesis} /\ c \in Block
    BY <1>4, ForkPathAncestors, <1>1
  <2>2. PICK d \in A \ {Genesis} : previous[d] = c
    <3>1. SUFFICES ASSUME \A d \in A \ {Genesis} : previous[d] # c PROVE FALSE
      OBVIOUS
    <3> DEFINE T == A \ {c}
    <3>2. T \in SUBSET Ids /\ id \in T /\ ClosedUnderPrevious(T)
      BY <1>2, <1>4, <3>1 DEF ClosedUnderPrevious
    <3>3. A \subseteq T
      <4> HIDE DEF T
      <4> QED
        BY <1>1, <3>2, AncestorsMinimal
    <3> QED
      BY <2>1, <3>3
  <2>3. d \in Block
    BY <1>2, <2>2 DEF Ids
  <2>4. ASSUME NEW e \in A \ {Genesis}, d \in ancestors[e], d # e
        PROVE  ~StopsAt(previous[e], inc)
    <3>1. e \in Block /\ e \in Ids
      BY <1>2, <2>4 DEF Ids
    <3>2. c \in ancestors[e]
      BY <2>2, <2>3, <2>4, <3>1, AncestorsClosed, GenesisAssumption DEF ClosedUnderPrevious
    <3>3. c # e
      <4>1. e \notin ancestors[previous[e]] /\ c \in ancestors[d]
        BY <2>2, <2>3, <3>1, AcyclicAssumption, AncestorsStep, AncestorsClosed
      <4>2. SUFFICES ASSUME c = e PROVE FALSE
        OBVIOUS
      <4> QED
        BY <2>3, <2>4, <4>1, <4>2, AncestorsAntisymmetric
    <3> QED
      BY <1>4, <2>1, <2>4, <3>2, <3>3 DEF ForkPath
  <2>5. d \in ForkPath(id, inc)
    BY <2>2, <2>4 DEF ForkPath
  <2> QED
    BY <2>2, <2>5
<1> QED
  BY <1>3, <1>4 DEF IsTip

(* The walk from a block that is not included meets no included block.     *)
LEMMA ForkPathOutside ==
    ASSUME NEW id \in Block, NEW inc, id \notin inc
    PROVE  ForkPath(id, inc) \cap inc = {}
<1> SUFFICES ASSUME NEW c \in ForkPath(id, inc), c \in inc PROVE FALSE
  OBVIOUS
<1>1. PICK d \in ForkPath(id, inc) : previous[d] = c
  BY ForkPathTip DEF IsTip
<1>2. c \in ancestors[id] \ {Genesis} /\ d \in ancestors[id] \ {Genesis} /\ d \in Block
  BY ForkPathAncestors DEF Ids
<1>3. c \in ancestors[d] /\ c # d
  BY <1>1, <1>2, AncestorsStep, AncestorsClosed, AcyclicAssumption
<1> QED
  BY <1>1, <1>2, <1>3 DEF ForkPath, StopsAt

-----------------------------------------------------------------------------
(* Type correctness.                                                       *)

LEMMA BlockNumType == \A b \in Ids : /\ BlockNum(b) \in Nat
                                     /\ BlockNum(b) = 0 <=> b = Genesis
                                     /\ b # Genesis => b \in Block /\ BlockNum(b) = block_num[b]
                                                       /\ block_num[b] \in Nums
BY TreeAssumption, GenesisAssumption DEF BlockNum, Ids, Nums

LEMMA InitInv == Init => IInv
<1> SUFFICES ASSUME Init PROVE IInv
  OBVIOUS
<1>1. BlockNum(Genesis) = 0
  BY DEF BlockNum
<1>2. TypeOK
  BY BadAssumption, GenesisAssumption DEF Init, TypeOK, Ids
<1>3. LinkedInv /\ HistoryFiled
  BY DEF Init, LinkedInv, HistoryFiled
<1>4. ChainInv
  BY <1>1 DEF Init, ChainInv, IncludedChain, HeaderOfHead, IndexWithoutGap,
              ValidChain, KeysInv, CallInv, UndoWindow
<1> QED
  BY <1>2, <1>3, <1>4 DEF IInv

(* What switch_to_fork and throw do to the variables of the call.          *)
LEMMA SwitchType ==
    ASSUME NEW id \in Ids, NEW inc, NEW m \in {"switch", "revert"},
           ~HistoryThrows(id, inc), switch_to_fork(id, inc, m)
    PROVE  /\ phase' = "pop" /\ mode' = m
           /\ history' \subseteq Block /\ rejoin' \subseteq Ids
           /\ history' \subseteq block_data'
           /\ history' = ForkPath(id, inc)
           /\ rejoin' = ForkBase(ForkPath(id, inc), inc)
<1>1. ForkPath(id, inc) \subseteq Block
  BY ForkPathAncestors
<1>2. ForkBase(ForkPath(id, inc), inc) \subseteq Ids
  BY <1>1, TreeAssumption DEF ForkBase
<1>3. ForkPath(id, inc) \subseteq block_data'
  BY DEF HistoryThrows
<1> QED
  BY <1>1, <1>2, <1>3 DEF switch_to_fork

LEMMA ThrowType ==
    ASSUME TypeOK, HistoryFiled, NEW inc, throw(inc), block_data' = block_data
    PROVE  /\ phase' \in {"idle", "pop", "apply"} /\ mode' \in {"extend", "switch", "revert"}
           /\ current_head_id' \in Ids
           /\ history' \subseteq Block /\ rejoin' \subseteq Ids
           /\ HistoryFiled'
<1>1. CASE mode = "switch" /\ ~HistoryThrows(current_head_id, inc)
  <2>1. switch_to_fork(current_head_id, inc, "revert") /\ current_head_id' = current_head_id
    BY <1>1 DEF throw
  <2> QED
    BY <1>1, <2>1, SwitchType DEF TypeOK, HistoryFiled
<1>2. CASE ~(mode = "switch" /\ ~HistoryThrows(current_head_id, inc))
  <2>1. return /\ current_head_id' = current_head_id
    BY <1>2 DEF throw
  <2> QED
    BY <2>1 DEF return, TypeOK, HistoryFiled
<1> QED
  BY <1>1, <1>2

-----------------------------------------------------------------------------
(* The included blocks are the ancestors of the head.                      *)
LEMMA IncludedAreAncestors ==
    ASSUME TypeOK, IncludedChain
    PROVE  ancestors[head_id] = is_included
<1>1. /\ head_id \in is_included /\ head_id \in Ids /\ is_included \in SUBSET Ids
      /\ ClosedUnderPrevious(is_included)
  BY DEF TypeOK, IncludedChain, ClosedUnderPrevious
<1>2. ancestors[head_id] \subseteq is_included
  BY <1>1, AncestorsMinimal
<1>3. ASSUME NEW c \in is_included, c \notin ancestors[head_id] PROVE FALSE
  <2> DEFINE T == {a \in ancestors[head_id] : BlockNum(a) > BlockNum(c)}
  <2>1. /\ ancestors[head_id] \in SUBSET Ids /\ head_id \in ancestors[head_id]
        /\ ClosedUnderPrevious(ancestors[head_id])
    BY <1>1, AncestorsClosed
  <2>2. Genesis \in ancestors[head_id]
    BY <1>1, AcyclicAssumption, AncestorsOfGenesis DEF Ids
  <2>3. /\ c \in Block /\ c # Genesis /\ BlockNum(c) \in Nat /\ BlockNum(c) = block_num[c]
        /\ block_num[c] <= BlockNum(head_id) /\ num_to_id[block_num[c]] = c
    BY <1>1, <1>3, <2>2, BlockNumType DEF Ids, IncludedChain
  <2>4. ASSUME NEW a \in ancestors[head_id], BlockNum(a) = BlockNum(c) PROVE FALSE
    <3>1. a \in is_included /\ a # Genesis /\ BlockNum(a) = block_num[a]
      BY <1>1, <1>2, <2>3, <2>4, BlockNumType, GenesisAssumption
    <3>2. num_to_id[block_num[a]] = a
      BY <3>1 DEF IncludedChain
    <3> QED
      BY <1>3, <2>3, <2>4, <3>1, <3>2
  <2>5. head_id \in T
    BY <1>1, <2>1, <2>3, <2>4, BlockNumType
  <2>6. ASSUME NEW a \in T \ {Genesis} PROVE previous[a] \in T
    <3>1. /\ a \in is_included \ {Genesis} /\ previous[a] \in ancestors[head_id]
          /\ a \in Ids /\ previous[a] \in Ids
      BY <1>1, <1>2, <2>1, <2>6 DEF ClosedUnderPrevious
    <3>2. BlockNum(a) = BlockNum(previous[a]) + 1 /\ BlockNum(previous[a]) \in Nat
      BY <3>1, BlockNumType DEF IncludedChain
    <3>3. BlockNum(previous[a]) # BlockNum(c)
      BY <3>1, <2>4
    <3> QED
      BY <2>3, <2>6, <3>1, <3>2, <3>3
  <2>7. T \in SUBSET Ids /\ ClosedUnderPrevious(T)
    BY <2>1, <2>6 DEF ClosedUnderPrevious
  <2>8. ancestors[head_id] \subseteq T
    <3> HIDE DEF T
    <3> QED
      BY <1>1, <2>5, <2>7, AncestorsMinimal
  <2> QED
    BY <2>2, <2>3, <2>8 DEF BlockNum
<1> QED
  BY <1>2, <1>3

(* A block that was valid once extends the head, if it follows it and      *)
(* neither a key that was left in the index nor the clock speaks against.  *)
LEMMA AppliesAgain ==
    ASSUME TypeOK, ChainInv, NEW b \in is_valid \ {Genesis},
           previous[b] = head_id, head_header = head_id, ~Spoilt(b)
    PROVE  Extends(b)
<1>1. b \notin Bad /\ b \notin future /\ block_num[b] = BlockNum(head_id) + 1
  BY DEF ChainInv, ValidChain, Spoilt
<1>2. verify_header(b)
  BY <1>1 DEF verify_header
<1>3. BlockNum(head_header) > MaxUndo => OldNum \in Nums /\ num_to_id[OldNum] # None
  <2>1. ASSUME BlockNum(head_header) > MaxUndo
        PROVE  OldNum \in 1 .. BlockNum(head_id)
    BY <2>1, UndoAssumption, BlockNumType DEF OldNum, TypeOK
  <2> QED
    BY <2>1 DEF ChainInv, IndexWithoutGap
<1>4. key_free(b)
  <2>1. SUFFICES ASSUME NEW k \in new_keys[b], k \in address_to_account PROVE FALSE
    BY DEF key_free
  <2>2. PICK c \in is_included \ {Genesis} : k \in new_keys[c]
    BY <2>1 DEF Spoilt, left_keys
  <2>3. c \in ancestors[previous[b]] \ {Genesis}
    BY <2>2, IncludedAreAncestors DEF ChainInv
  <2> QED
    BY <2>1, <2>2, <2>3 DEF ChainInv, KeysInv
<1> QED
  BY <1>1, <1>2, <1>3, <1>4 DEF Extends

-----------------------------------------------------------------------------
(* push_block.                                                             *)

(* Filing a block keeps is_linked in step with the links, also when it is  *)
(* the missing link of blocks that arrived before it.                      *)
LEMMA StoreLinked ==
    ASSUME TypeOK, LinkedInv, NEW b \in Block, store_and_index(b)
    PROVE  LinkedInv' /\ is_linked' \subseteq fork_db' /\ is_linked \subseteq is_linked'
<1> DEFINE ids == next_blocks(b, block_data)
           D   == Descendants(ids, block_data)
<1>1. /\ block_data \in SUBSET Block /\ ids \in SUBSET block_data
      /\ previous[b] \in Ids /\ b # Genesis
  BY TreeAssumption, GenesisAssumption DEF TypeOK, next_blocks
<1>2. /\ D \subseteq block_data /\ ids \subseteq D
      /\ \A c \in block_data : previous[c] \in D => c \in D
      /\ \A d \in D : d \in ids \/ previous[d] \in D
  BY <1>1, DescendantsClosed
<1>3. block_data' = block_data \cup {b} /\ fork_db' = fork_db \cup {b, previous[b]}
  BY DEF store_and_index
<1>4. \A c \in block_data : c \in ids <=> previous[c] = b
  BY DEF next_blocks
<1> HIDE DEF ids, D
<1>5. CASE MissingLink(b)
  <2>1. is_linked' = is_linked \cup {b} \cup D
    BY <1>5 DEF store_and_index, D, ids
  <2>2. b \in fork_db /\ b \notin is_linked /\ previous[b] \in is_linked
    BY <1>5 DEF MissingLink
  <2>3. b \notin block_data
    BY <2>2 DEF LinkedInv
  <2>4. is_linked' \subseteq block_data' \cup {Genesis} /\ Genesis \in is_linked'
    BY <2>1, <1>2, <1>3 DEF LinkedInv
  <2>5. ASSUME NEW c \in block_data' PROVE c \in is_linked' <=> previous[c] \in is_linked'
    <3>1. CASE c = b
      BY <3>1, <2>1, <2>2
    <3>2. CASE c # b
      <4>1. c \in block_data /\ (c \in is_linked <=> previous[c] \in is_linked)
        BY <3>2, <1>3 DEF LinkedInv
      <4>2. CASE c \in is_linked
        BY <4>1, <4>2, <2>1
      <4>3. CASE c \notin is_linked
        BY <4>1, <4>3, <3>2, <2>1, <1>2, <1>4
      <4> QED
        BY <4>2, <4>3
    <3> QED
      BY <3>1, <3>2
  <2>6. \A c \in block_data' : c \in fork_db' /\ previous[c] \in fork_db'
    BY <1>3 DEF LinkedInv
  <2> QED
    BY <2>1, <2>4, <2>5, <2>6, <1>2, <1>3 DEF LinkedInv, TypeOK
<1>6. CASE ~MissingLink(b) /\ b \notin fork_db /\ previous[b] \in is_linked
  <2>1. is_linked' = is_linked \cup {b}
    BY <1>6 DEF store_and_index
  <2>2. \A c \in block_data : previous[c] # b /\ c # b
    BY <1>6 DEF LinkedInv
  <2>3. \A c \in block_data' : c \in is_linked' <=> previous[c] \in is_linked'
    BY <2>1, <2>2, <1>3, <1>6 DEF LinkedInv
  <2> QED
    BY <2>1, <2>3, <1>3 DEF LinkedInv, TypeOK
<1>7. CASE ~MissingLink(b) /\ ~(b \notin fork_db /\ previous[b] \in is_linked)
  <2>1. is_linked' = is_linked
    BY <1>7 DEF store_and_index
  <2>2. b \in is_linked <=> previous[b] \in is_linked
    BY <1>1, <1>7 DEF MissingLink, LinkedInv, TypeOK
  <2>3. \A c \in block_data' : c \in is_linked' <=> previous[c] \in is_linked'
    BY <2>1, <2>2, <1>3 DEF LinkedInv
  <2> QED
    BY <2>1, <2>3, <1>3 DEF LinkedInv, TypeOK
<1> QED
  BY <1>5, <1>6, <1>7

(* What push_block leaves in the variables of the call.                    *)
LEMMA PushCall ==
    ASSUME TypeOK, LinkedInv, NEW b \in Block, push_block(b)
    PROVE  /\ phase' \in {"idle", "pop", "apply"} /\ mode' \in {"extend", "switch", "revert"}
           /\ current_head_id' = head_id
           /\ history' \subseteq Block /\ rejoin' \subseteq Ids
           /\ HistoryFiled'
           /\ phase' = "pop" /\ mode' = "switch" =>
                \E id \in Block :
                  /\ rejoin' = ForkBase(ForkPath(id, is_included), is_included)
                  /\ history' = ForkPath(id, is_included)
                  /\ block_num[id] > BlockNum(head_header)
           /\ phase' # "idle" /\ mode' = "switch" => phase' = "pop"
           /\ phase' # "idle" /\ mode' = "revert" => history' \subseteq ancestors[head_id]
           /\ phase' # "idle" /\ mode' = "extend" => phase' = "apply"
<1>1. current_head_id' = head_id /\ block_data' = block_data \cup {b} /\ b \in Ids
      /\ head_id \in Ids /\ head_id \in ancestors[head_id]
  BY AncestorsClosed DEF push_block, store_and_index, Ids, TypeOK
<1>2. PICK longest \in LongestFork(b) :
         IF previous[b] = head_id
           THEN /\ phase' = "apply" /\ mode' = "extend"
                /\ history' = {b} /\ rejoin' = {head_id}
           ELSE IF ~can_link(longest) \/ block_num[longest] <= BlockNum(head_header)
             THEN return
             ELSE IF ~HistoryThrows(longest, is_included)
               THEN switch_to_fork(longest, is_included, "switch")
               ELSE IF ~HistoryThrows(head_id, is_included)
                 THEN switch_to_fork(head_id, is_included, "revert")
                 ELSE return
  BY DEF push_block
<1>3. longest \in Block
  BY DEF LongestFork, Descendants, TypeOK
<1>4. CASE phase' = "apply" /\ mode' = "extend" /\ history' = {b} /\ rejoin' = {head_id}
  BY <1>1, <1>4 DEF HistoryFiled
<1>5. CASE return
  BY <1>1, <1>5 DEF return, HistoryFiled, TypeOK
<1>6. CASE ~HistoryThrows(longest, is_included)
           /\ switch_to_fork(longest, is_included, "switch")
           /\ ~(block_num[longest] <= BlockNum(head_header))
  <2>1. block_num[longest] > BlockNum(head_header)
    BY <1>3, <1>6, BlockNumType, TreeAssumption DEF TypeOK
  <2> QED
    BY <1>1, <1>3, <1>6, <2>1, SwitchType DEF HistoryFiled, Ids
<1>7. CASE ~HistoryThrows(head_id, is_included)
           /\ switch_to_fork(head_id, is_included, "revert")
  BY <1>1, <1>7, SwitchType, ForkPathAncestors DEF HistoryFiled
<1> QED
  BY <1>2, <1>4, <1>5, <1>6, <1>7

LEMMA PushInv ==
    ASSUME IInv, NEW b \in Block, push_block(b)
    PROVE  IInv'
<1> USE DEF IInv
<1>1. store_and_index(b) /\ UNCHANGED <<forkVars, headVars, future, ghostVars>> /\ phase = "idle"
  BY DEF push_block
<1>2. LinkedInv' /\ is_linked' \subseteq fork_db' /\ is_linked \subseteq is_linked'
  BY <1>1, StoreLinked
<1>3. /\ phase' \in {"idle", "pop", "apply"} /\ mode' \in {"extend", "switch", "revert"}
      /\ current_head_id' = head_id
      /\ history' \subseteq Block /\ rejoin' \subseteq Ids
      /\ HistoryFiled'
  BY PushCall
<1>4. /\ block_data' = block_data \cup {b} /\ fork_db' = fork_db \cup {b, previous[b]}
      /\ is_known' \subseteq is_known \cup {b} /\ previous[b] \in Ids
  BY <1>1, TreeAssumption DEF store_and_index
<1>5. TypeOK'
  BY <1>1, <1>2, <1>3, <1>4 DEF TypeOK, forkVars, headVars, ghostVars, Ids
<1>6. ASSUME ~broken' PROVE ChainInv'
  <2>1. ChainInv
    BY <1>1, <1>6 DEF ghostVars
  <2>2. IncludedChain' /\ HeaderOfHead' /\ IndexWithoutGap' /\ UndoWindow'
    BY <1>1, <2>1 DEF ChainInv, IncludedChain, HeaderOfHead, IndexWithoutGap, UndoWindow,
                      forkVars, headVars, ghostVars
  <2>3. ValidChain' /\ KeysInv' /\ is_valid' \subseteq is_linked'
    BY <1>1, <1>2, <1>3, <1>4, <2>1 DEF ChainInv, ValidChain, KeysInv, IncludedChain, forkVars
  <2>4. ASSUME phase' # "idle", mode' = "revert"
        PROVE  history' \subseteq is_valid' \cap ancestors[current_head_id']
    <3>1. head_id \in is_valid /\ is_valid \in SUBSET Ids /\ ClosedUnderPrevious(is_valid)
      BY <2>1 DEF ChainInv, ValidChain, IncludedChain, ClosedUnderPrevious, TypeOK
    <3>2. ancestors[head_id] \subseteq is_valid
      BY <3>1, AncestorsMinimal
    <3> QED
      BY <2>4, <3>2, <1>1, <1>3, PushCall DEF forkVars
  <2>5. ASSUME phase' = "pop", mode' = "switch", current_head_id' = Genesis
        PROVE  head_id' = Genesis /\ Genesis \in rejoin'
    <3>1. head_id = Genesis /\ head_id' = Genesis
      BY <2>5, <1>1, <1>3 DEF headVars
    <3>2. is_included = {Genesis}
      <4>1. ASSUME NEW c \in is_included \ {Genesis} PROVE FALSE
        <5>1. c \in Ids /\ block_num[c] <= BlockNum(head_id)
          BY <2>1 DEF ChainInv, IncludedChain, TypeOK
        <5> QED
          BY <5>1, <3>1, BlockNumType, GenesisAssumption, TreeAssumption DEF Ids, BlockNum
      <4> QED
        BY <4>1, <2>1 DEF ChainInv, IncludedChain
    <3>3. PICK id \in Block : rejoin' = ForkBase(ForkPath(id, is_included), is_included)
      BY <2>5, PushCall
    <3> QED
      BY <3>1, <3>2, <3>3, ForkPathReachesGenesis
  <2>6. ASSUME phase' # "idle", mode' = "switch"
        PROVE  /\ phase' = "pop" /\ current_head_id' \in is_valid'
               /\ history' \cap ancestors[current_head_id'] = {}
    <3>1. PICK id \in Block : /\ history' = ForkPath(id, is_included)
                              /\ block_num[id] > BlockNum(head_header)
      BY <2>6, PushCall
    <3>2. head_header = head_id /\ head_id \in is_valid /\ ancestors[head_id] = is_included
      BY <1>1, <2>1, IncludedAreAncestors DEF ChainInv, HeaderOfHead, ValidChain, IncludedChain
    <3>3. id \notin is_included
      <4>1. SUFFICES ASSUME id \in is_included PROVE FALSE
        OBVIOUS
      <4>2. id # Genesis /\ block_num[id] <= BlockNum(head_id) /\ block_num[id] \in Nat
            /\ BlockNum(head_id) \in Nat
        BY <2>1, <4>1, GenesisAssumption, TreeAssumption, BlockNumType
           DEF ChainInv, IncludedChain, TypeOK
      <4> QED
        BY <3>1, <3>2, <4>2
    <3> QED
      BY <1>1, <1>3, <2>6, <3>1, <3>2, <3>3, ForkPathOutside, PushCall DEF forkVars
  <2> QED
    BY <2>2, <2>3, <2>4, <2>5, <2>6, PushCall DEF ChainInv, CallInv
<1> QED
  BY <1>2, <1>3, <1>5, <1>6

-----------------------------------------------------------------------------
(* pop_block.                                                              *)

(* The fork the node comes from can always be walked again: going back to  *)
(* it after a failed switch applies valid blocks only.                     *)
LEMMA RevertHistory ==
    ASSUME TypeOK, LinkedInv, ValidChain, is_valid \subseteq is_linked, NEW inc,
           current_head_id \in is_valid,
           block_data' = block_data, is_linked' = is_linked
    PROVE  /\ ForkPath(current_head_id, inc) \subseteq is_valid \cap ancestors[current_head_id]
           /\ current_head_id # Genesis => ~HistoryThrows(current_head_id, inc)
<1>1. /\ current_head_id \in is_valid /\ is_valid \in SUBSET Ids
      /\ ClosedUnderPrevious(is_valid)
  BY DEF ValidChain, ClosedUnderPrevious, TypeOK
<1>2. ancestors[current_head_id] \subseteq is_valid
  BY <1>1, AncestorsMinimal
<1>3. ForkPath(current_head_id, inc) \subseteq is_valid \ {Genesis}
  BY <1>1, <1>2, ForkPathAncestors
<1>4. \A c \in is_valid \ {Genesis} : c \in block_data /\ previous[c] \in is_linked
  BY DEF ValidChain
<1> QED
  BY <1>1, <1>3, <1>4, ForkPathAncestors DEF HistoryThrows

LEMMA PopInv ==
    ASSUME IInv, pop_block
    PROVE  IInv'
<1> USE DEF IInv
<1> DEFINE inc == is_included \ {head_id}
           prev == previous[head_header]
<1>1. /\ phase = "pop" /\ head_id \notin rejoin /\ BlockNum(head_header) # 0
      /\ is_included' = inc
      /\ num_to_id' = [num_to_id EXCEPT ![block_num[head_header]] = None]
      /\ UNCHANGED <<treeVars, is_valid, is_invalid, undo_db, address_to_account>>
      /\ UNCHANGED <<future, peak>>
  BY DEF pop_block, Poppable, unindex
<1>2. head_header \in Block /\ prev \in Ids
  BY <1>1, TreeAssumption, BlockNumType DEF TypeOK
<1>3. LinkedInv'
  BY <1>1 DEF LinkedInv, treeVars
<1>4. CASE /\ head_id \in undo_db /\ prev \in block_data
           /\ head_id' = prev /\ head_header' = prev
           /\ UNCHANGED <<callVars, broken>>
  <2>1. TypeOK' /\ HistoryFiled'
    BY <1>1, <1>2, <1>4 DEF TypeOK, HistoryFiled, treeVars, callVars
  <2>2. ASSUME ~broken' PROVE ChainInv'
    <3>1. ChainInv
      BY <1>4, <2>2
    <3>2. head_id \in Block /\ head_header = head_id
      BY <1>4, <3>1, GenesisAssumption DEF ChainInv, HeaderOfHead, TypeOK, Ids
    <3>3. /\ head_id \in is_included /\ head_id # Genesis /\ prev \in is_included
          /\ prev # Genesis /\ prev \in Block /\ prev # head_id
          /\ block_num[head_id] = block_num[prev] + 1
          /\ block_num[prev] \in Nat
      BY <3>1, <3>2, <1>2, <1>4, GenesisAssumption, TreeAssumption
         DEF ChainInv, IncludedChain, TypeOK, BlockNum
    <3>4. IncludedChain'
      <4>1. Genesis \in inc /\ head_id' \in inc
        BY <3>1, <3>3, <1>4 DEF ChainInv, IncludedChain
      <4>2. ASSUME NEW c \in inc \ {Genesis}
            PROVE  /\ previous[c] \in inc
                   /\ block_num[c] = BlockNum(previous[c]) + 1
                   /\ block_num[c] <= BlockNum(head_id')
                   /\ num_to_id'[block_num[c]] = c
        <5>1. /\ c \in Block /\ c # head_id /\ previous[c] \in is_included
              /\ previous[c] \in Ids
              /\ block_num[c] = BlockNum(previous[c]) + 1
              /\ block_num[c] <= BlockNum(head_id)
              /\ num_to_id[block_num[c]] = c
              /\ num_to_id[block_num[head_id]] = head_id
              /\ block_num[c] \in Nat /\ block_num[c] \in Nums
          BY <3>1, <3>2, <3>3, TreeAssumption DEF ChainInv, IncludedChain, TypeOK, Ids, Nums
        <5>2. block_num[c] # block_num[head_id]
          BY <5>1
        <5>3. BlockNum(head_id) = block_num[head_id] /\ BlockNum(prev) = block_num[prev]
          BY <3>2, <3>3, BlockNumType DEF Ids
        <5>4. block_num[c] <= block_num[prev]
          BY <5>1, <5>2, <5>3, <3>3
        <5>5. previous[c] # head_id
          BY <5>1, <5>3, <5>4, <3>3
        <5>6. num_to_id'[block_num[c]] = c
          BY <5>1, <5>2, <1>1, <3>2 DEF TypeOK
        <5> QED
          BY <5>1, <5>3, <5>4, <5>5, <5>6, <1>4
      <4>3. ASSUME NEW n \in Nums, num_to_id'[n] # None
            PROVE  num_to_id'[n] \in inc /\ block_num[num_to_id'[n]] = n
        <5>1. n # block_num[head_id] /\ num_to_id'[n] = num_to_id[n]
          BY <4>3, <1>1, <3>2 DEF TypeOK
        <5>2. num_to_id[n] \in is_included /\ block_num[num_to_id[n]] = n
          BY <5>1, <4>3, <3>1 DEF ChainInv, IncludedChain
        <5> QED
          BY <5>1, <5>2
      <4> QED
        BY <4>1, <4>2, <4>3, <1>1 DEF IncludedChain
    <3>5. IndexWithoutGap'
      <4>1. BlockNum(head_id) = BlockNum(prev) + 1 /\ BlockNum(prev) \in Nat
            /\ BlockNum(head_id) = block_num[head_id]
        BY <3>2, <3>3, BlockNumType DEF Ids
      <4>2. ASSUME NEW n \in 1 .. BlockNum(prev) PROVE n \in Nums /\ num_to_id'[n] # None
        <5>1. n \in 1 .. BlockNum(head_id) /\ n # block_num[head_id]
          BY <4>1
        <5> QED
          BY <5>1, <1>1, <3>1, <3>2 DEF ChainInv, IndexWithoutGap, TypeOK
      <4> QED
        BY <4>2, <1>4 DEF IndexWithoutGap
    <3>6. HeaderOfHead'
      BY <1>4 DEF HeaderOfHead
    <3>7. ValidChain' /\ KeysInv' /\ is_valid' \subseteq is_linked'
      BY <1>1, <1>4, <3>1 DEF ChainInv, ValidChain, KeysInv, treeVars, callVars
    <3>8. UndoWindow' /\ CallInv'
      BY <1>1, <1>4, <3>1, <3>2, <3>3 DEF ChainInv, UndoWindow, CallInv, callVars
    <3> QED
      BY <3>4, <3>5, <3>6, <3>7, <3>8 DEF ChainInv
  <2> QED
    BY <1>3, <2>1, <2>2
<1>5. CASE /\ head_id \notin undo_db
           /\ UNCHANGED headVars /\ broken' = TRUE /\ throw(inc)
  <2>1. TypeOK' /\ HistoryFiled'
    BY <1>1, <1>2, <1>5, ThrowType DEF TypeOK, treeVars, headVars
  <2> QED
    BY <1>3, <1>5, <2>1
<1>6. CASE /\ head_id \in undo_db /\ prev \notin block_data
           /\ head_id' = prev /\ UNCHANGED head_header
           /\ broken' = (broken \/ mode = "revert")
           /\ throw(inc)
  <2>1. TypeOK' /\ HistoryFiled'
    <3>1. broken' \in BOOLEAN
      BY <1>6
    <3>2. HistoryFiled' /\ phase' \in {"idle", "pop", "apply"}
          /\ mode' \in {"extend", "switch", "revert"}
          /\ current_head_id' \in Ids
          /\ history' \subseteq Block /\ rejoin' \subseteq Ids
      BY <1>1, <1>6, ThrowType DEF treeVars
    <3> QED
      BY <1>1, <1>2, <1>6, <3>1, <3>2 DEF TypeOK, treeVars
  <2>2. ASSUME ~broken' PROVE ChainInv'
    <3>1. ChainInv /\ mode # "revert"
      BY <1>6, <2>2
    <3>2. head_id \in Block /\ head_header = head_id /\ head_id # Genesis
      BY <1>6, <3>1, GenesisAssumption DEF ChainInv, HeaderOfHead, TypeOK, Ids
    <3>3. prev = Genesis /\ block_num[head_id] = 1
      BY <1>6, <3>1, <3>2 DEF ChainInv, IncludedChain, ValidChain, BlockNum
    <3>4. is_included = {head_id, Genesis}
      <4>1. ASSUME NEW c \in is_included \ {Genesis} PROVE c = head_id
        <5>1. c \in Block /\ block_num[c] \in Nat \ {0} /\ block_num[c] <= BlockNum(head_id)
              /\ num_to_id[block_num[c]] = c
              /\ num_to_id[block_num[head_id]] = head_id
          BY <3>1, <3>2, TreeAssumption DEF ChainInv, IncludedChain, TypeOK, Ids
        <5>2. BlockNum(head_id) = 1
          BY <3>2, <3>3 DEF BlockNum
        <5>3. block_num[c] = 1
          BY <5>1, <5>2
        <5> QED
          BY <5>1, <5>3, <3>3
      <4> QED
        BY <4>1, <3>1 DEF ChainInv, IncludedChain
    <3>5. inc = {Genesis}
      BY <3>2, <3>4
    <3>6. \A n \in Nums : num_to_id'[n] = None
      <4>1. ASSUME NEW n \in Nums, num_to_id'[n] # None PROVE FALSE
        <5>1. n # block_num[head_id] /\ num_to_id'[n] = num_to_id[n]
          BY <4>1, <1>1, <3>2 DEF TypeOK
        <5>2. num_to_id[n] \in {head_id, Genesis} /\ block_num[num_to_id[n]] = n
          BY <5>1, <4>1, <3>1, <3>4 DEF ChainInv, IncludedChain
        <5>3. num_to_id[n] \in Block
          BY <5>1, <4>1 DEF TypeOK
        <5> QED
          BY <5>1, <5>2, <5>3, GenesisAssumption
      <4> QED
        BY <4>1
    <3>7. BlockNum(Genesis) = 0 /\ head_id' = Genesis
      BY <1>6, <3>3 DEF BlockNum
    <3>8. IncludedChain' /\ IndexWithoutGap' /\ UndoWindow'
      BY <1>1, <3>5, <3>6, <3>7 DEF IncludedChain, IndexWithoutGap, UndoWindow
    <3>9. mode = "switch" /\ current_head_id # Genesis
      <4>1. mode # "extend"
        BY <1>1, <3>1 DEF ChainInv, CallInv
      <4> QED
        BY <4>1, <1>1, <3>1, <3>2 DEF ChainInv, CallInv, TypeOK
    <3>10. ~HistoryThrows(current_head_id, inc)
           /\ ForkPath(current_head_id, inc) \subseteq is_valid \cap ancestors[current_head_id]
      BY <1>1, <3>1, <3>9, RevertHistory DEF ChainInv, CallInv, treeVars
    <3>11. switch_to_fork(current_head_id, inc, "revert") /\ current_head_id' = current_head_id
      BY <1>6, <3>9, <3>10 DEF throw
    <3>12. HeaderOfHead' /\ CallInv'
      BY <3>7, <3>10, <3>11, <1>1 DEF HeaderOfHead, CallInv, switch_to_fork
    <3>13. ValidChain' /\ KeysInv' /\ is_valid' \subseteq is_linked'
      BY <1>1, <3>1, <3>11 DEF ChainInv, ValidChain, KeysInv, treeVars
    <3> QED
      BY <3>8, <3>12, <3>13 DEF ChainInv
  <2> QED
    BY <1>3, <2>1, <2>2
<1> QED
  BY <1>4, <1>5, <1>6 DEF pop_block

-----------------------------------------------------------------------------
(* extend_chain.                                                           *)

(* A block that extends the head is numbered after it.                     *)
LEMMA ExtendNumber ==
    ASSUME TypeOK, ChainInv, NEW b \in history, phase # "idle",
           previous[b] = head_id, Extends(b)
    PROVE  block_num[b] = BlockNum(head_id) + 1
<1>1. b \in Block /\ block_num[b] \in Nat \ {0}
  BY TreeAssumption DEF TypeOK
<1>2. CASE head_header = head_id
  <2>1. CASE block_num[b] > 1
    BY <1>2, <2>1 DEF Extends, verify_header
  <2>2. CASE block_num[b] = 1
    BY <1>1, <2>2, FirstBlockAssumption DEF BlockNum
  <2> QED
    BY <1>1, <2>1, <2>2
<1>3. CASE head_id = Genesis /\ mode = "revert"
  <2>1. b \in is_valid \ {Genesis}
    BY <1>1, <1>3, GenesisAssumption DEF ChainInv, CallInv
  <2> QED
    BY <2>1 DEF ChainInv, ValidChain
<1> QED
  BY <1>2, <1>3 DEF ChainInv, HeaderOfHead

(* Applying a block keeps the chain in order.                              *)
LEMMA ExtendChain ==
    ASSUME IInv, ~broken, NEW b \in history,
           phase # "idle", previous[b] = head_id, Extends(b),
           UNCHANGED <<treeVars, future>>, save_undo_state(b), mark_included(b),
           address_to_account' = address_to_account \cup new_keys[b],
           head_id' = b, head_header' = b,
           num_to_id' = [num_to_id EXCEPT ![block_num[b]] = b],
           peak' = IF block_num[b] > peak THEN block_num[b] ELSE peak,
           UNCHANGED <<mode, current_head_id, history, rejoin, broken>>,
           phase' \in {"apply", "idle"}
    PROVE  ChainInv'
<1> USE DEF IInv
<1>1. /\ ChainInv /\ b \in Block /\ b # Genesis /\ b \in block_data
      /\ block_num[b] \in Nat \ {0} /\ block_num[b] \in Nums
      /\ BlockNum(head_id) \in Nat /\ BlockNum(b) = block_num[b] /\ head_id \in Ids
  BY BlockNumType, GenesisAssumption, TreeAssumption DEF TypeOK, HistoryFiled, Ids
<1>2. block_num[b] = BlockNum(head_id) + 1
  BY <1>1, ExtendNumber
<1>3. \A c \in is_included \ {Genesis} :
        /\ c \in Block /\ block_num[c] \in Nat \ {0} /\ block_num[c] \in Nums
        /\ block_num[c] <= BlockNum(head_id) /\ block_num[c] < block_num[b]
        /\ num_to_id[block_num[c]] = c
  BY <1>1, <1>2, TreeAssumption, BlockNumType DEF ChainInv, IncludedChain, TypeOK, Ids
<1>4. is_included' = is_included \cup {b} /\ is_valid' = is_valid \cup {b}
      /\ is_invalid' = is_invalid \ {b}
  BY DEF mark_included
<1>5. IncludedChain'
  <2>1. Genesis \in is_included' /\ head_id' \in is_included'
    BY <1>1, <1>4 DEF ChainInv, IncludedChain
  <2>2. ASSUME NEW c \in is_included' \ {Genesis}
        PROVE  /\ previous[c] \in is_included'
               /\ block_num[c] = BlockNum(previous[c]) + 1
               /\ block_num[c] <= BlockNum(head_id')
               /\ num_to_id'[block_num[c]] = c
    <3>1. CASE c = b
      BY <3>1, <1>1, <1>2, <1>4 DEF ChainInv, IncludedChain, TypeOK
    <3>2. CASE c # b
      BY <3>2, <1>1, <1>2, <1>3, <1>4 DEF ChainInv, IncludedChain, TypeOK
    <3> QED
      BY <3>1, <3>2
  <2>3. ASSUME NEW n \in Nums, num_to_id'[n] # None
        PROVE  num_to_id'[n] \in is_included' /\ block_num[num_to_id'[n]] = n
    BY <2>3, <1>1, <1>4 DEF ChainInv, IncludedChain, TypeOK
  <2> QED
    BY <2>1, <2>2, <2>3 DEF IncludedChain
<1>6. HeaderOfHead'
  BY DEF HeaderOfHead
<1>7. IndexWithoutGap'
  <2>1. ASSUME NEW n \in 1 .. BlockNum(b) PROVE n \in Nums /\ num_to_id'[n] # None
    <3>1. CASE n = block_num[b]
      BY <3>1, <1>1, GenesisAssumption DEF TypeOK, Ids
    <3>2. CASE n # block_num[b]
      <4>1. n \in 1 .. BlockNum(head_id)
        BY <3>2, <1>1, <1>2
      <4> QED
        BY <3>2, <4>1, <1>1 DEF ChainInv, IndexWithoutGap, TypeOK
    <3> QED
      BY <3>1, <3>2
  <2> QED
    BY <2>1 DEF IndexWithoutGap
<1>8. ValidChain' /\ is_valid' \subseteq is_linked'
  <2>1. head_id \in is_valid /\ b \in is_linked
    BY <1>1 DEF ChainInv, ValidChain, IncludedChain, LinkedInv
  <2>2. b \notin Bad
    BY DEF Extends
  <2> QED
    BY <1>1, <1>2, <1>4, <2>1, <2>2 DEF ChainInv, ValidChain, treeVars
<1>9. CallInv' /\ KeysInv'
  <2>1. CallInv'
    BY <1>1, <1>4 DEF ChainInv, CallInv
  <2>2. \A c \in is_included' \ {Genesis} : new_keys[c] \subseteq address_to_account'
    BY <1>1, <1>4 DEF ChainInv, KeysInv
  <2>3. ASSUME NEW c \in is_valid' \ {Genesis}, NEW a \in ancestors[previous[c]] \ {Genesis}
        PROVE  new_keys[c] \cap new_keys[a] = {}
    <3>1. CASE c \in is_valid
      BY <1>1, <3>1, <2>3 DEF ChainInv, KeysInv
    <3>2. CASE c = b
      <4>1. a \in is_included \ {Genesis}
        BY <1>1, <3>2, <2>3, IncludedAreAncestors DEF ChainInv
      <4>2. new_keys[a] \subseteq address_to_account
        BY <1>1, <4>1 DEF ChainInv, KeysInv
      <4> QED
        BY <3>2, <4>2 DEF Extends, key_free
    <3> QED
      BY <1>4, <2>3, <3>1, <3>2
  <2> QED
    BY <2>1, <2>2, <2>3 DEF KeysInv
<1>10. UndoWindow'
  <2>1. SUFFICES ASSUME NEW c \in is_included, c # Genesis, c # b,
                        block_num[c] + MaxUndo >= peak'
                 PROVE  c \in undo_db'
    BY <1>4 DEF UndoWindow, save_undo_state
  <2>2. peak \in Nat /\ peak' >= peak /\ peak' >= block_num[b] /\ peak' \in Nat
        /\ MaxUndo \in Nat \ {0}
    BY <1>1, UndoAssumption DEF TypeOK
  <2>3. c \in undo_db
    BY <1>1, <1>3, <2>1, <2>2 DEF ChainInv, UndoWindow
  <2>4. head_header = head_id
    <3>1. CASE head_id = Genesis
      BY <3>1, <1>3, <2>1 DEF BlockNum
    <3> QED
      BY <3>1, <1>1 DEF ChainInv, HeaderOfHead
  <2>5. CASE BlockNum(head_header) > MaxUndo
    <3>1. OldNum \in Nums /\ num_to_id[OldNum] # None
      BY <2>5 DEF Extends
    <3>2. block_num[num_to_id[OldNum]] = OldNum
      BY <1>1, <3>1 DEF ChainInv, IncludedChain
    <3>3. OldNum + MaxUndo = BlockNum(head_id) /\ OldNum \in Nat
      BY <2>2, <2>4, <2>5, <1>1 DEF OldNum
    <3>4. c # num_to_id[OldNum]
      BY <3>2, <3>3, <2>1, <2>2, <1>1, <1>2, <1>3
    <3> QED
      BY <2>3, <3>4 DEF save_undo_state
  <2>6. CASE ~(BlockNum(head_header) > MaxUndo)
    BY <2>3, <2>6 DEF save_undo_state
  <2> QED
    BY <2>5, <2>6
<1> QED
  BY <1>5, <1>6, <1>7, <1>8, <1>9, <1>10 DEF ChainInv

(* What mark_invalid marks descends from the block that failed.            *)
LEMMA MarkedDescend ==
    ASSUME TypeOK, NEW b \in block_data,
           NEW d \in {b} \cup Descendants(next_blocks(b, block_data), block_data)
    PROVE  d \in Block /\ b \in ancestors[d] /\ b # Genesis
<1>1. b \in Block /\ b # Genesis /\ b \in ancestors[b]
  BY GenesisAssumption, AncestorsClosed DEF TypeOK, Ids
<1>2. CASE d # b
  <2>1. d \in Block /\ \E a \in next_blocks(b, block_data) : a \in ancestors[d]
    BY <1>2 DEF Descendants, TypeOK
  <2>2. PICK a \in next_blocks(b, block_data) : a \in ancestors[d]
    BY <2>1
  <2>3. a \in Block /\ previous[a] = b /\ d \in Ids /\ a # Genesis
    BY <2>1, GenesisAssumption DEF next_blocks, TypeOK, Ids
  <2> QED
    BY <1>1, <2>1, <2>2, <2>3, AncestorsClosed DEF ClosedUnderPrevious
<1> QED
  BY <1>1, <1>2

(* It is neither included nor, in a switch, on the branch to go back to,   *)
(* and it holds every block filed after one that it holds.                 *)
LEMMA MarkedElsewhere ==
    ASSUME IInv, ~broken, NEW b \in history, phase # "idle", previous[b] = head_id
    PROVE  LET marked == {b} \cup Descendants(next_blocks(b, block_data), block_data) IN
           /\ marked \cap is_included = {}
           /\ mode = "switch" => marked \cap ancestors[current_head_id] = {}
           /\ \A c \in block_data : previous[c] \in marked => c \in marked
<1> DEFINE marked == {b} \cup Descendants(next_blocks(b, block_data), block_data)
<1>1. /\ TypeOK /\ ChainInv /\ b \in block_data /\ b \in Block /\ head_id \in Ids
      /\ next_blocks(b, block_data) \in SUBSET block_data /\ block_data \in SUBSET Block
      /\ is_included \in SUBSET Ids /\ current_head_id \in Ids
  BY DEF IInv, HistoryFiled, TypeOK, next_blocks
<1>2. b \notin is_included
  <2>1. BlockNum(head_id) \in Nat /\ b # Genesis
    BY <1>1, BlockNumType, GenesisAssumption
  <2> QED
    BY <1>1, <2>1 DEF ChainInv, IncludedChain
<1>3. ClosedUnderPrevious(is_included)
  BY <1>1 DEF ChainInv, IncludedChain, ClosedUnderPrevious
<1>4. ASSUME NEW d \in marked, d \in is_included PROVE FALSE
  <2>1. d \in Ids /\ b \in ancestors[d]
    BY <1>1, <1>4, MarkedDescend
  <2> QED
    BY <1>1, <1>2, <1>3, <1>4, <2>1, AncestorsMinimal
<1>5. ASSUME NEW d \in marked, d \in ancestors[current_head_id], mode = "switch" PROVE FALSE
  <2>1. d \in Ids /\ b \in ancestors[d]
    BY <1>1, <1>5, MarkedDescend DEF Ids
  <2>2. b \in ancestors[current_head_id]
    BY <1>1, <1>5, <2>1, AncestorsTransitive
  <2> QED
    BY <1>1, <1>5, <2>2 DEF ChainInv, CallInv
<1>6. ASSUME NEW c \in block_data, previous[c] \in marked PROVE c \in marked
  BY <1>1, <1>6, DescendantsClosed DEF next_blocks
<1> QED
  BY <1>4, <1>5, <1>6

LEMMA ExtendInv ==
    ASSUME IInv, NEW b \in Block, extend_chain(b)
    PROVE  IInv'
<1> USE DEF IInv
<1>1. /\ phase # "idle" /\ b \in history /\ previous[b] = head_id
      /\ UNCHANGED <<treeVars, future>> /\ b \in block_data /\ b \in fork_db
      /\ block_num[b] \in Nums /\ block_num[b] \in Nat
  BY TreeAssumption DEF extend_chain, HistoryFiled, LinkedInv, Nums
<1>2. LinkedInv'
  BY <1>1 DEF LinkedInv, treeVars
<1>3. CASE /\ Extends(b)
           /\ save_undo_state(b)
           /\ address_to_account' = address_to_account \cup new_keys[b]
           /\ mark_included(b)
           /\ head_id' = b /\ head_header' = b
           /\ num_to_id' = [num_to_id EXCEPT ![block_num[b]] = b]
           /\ peak' = IF block_num[b] > peak THEN block_num[b] ELSE peak
           /\ UNCHANGED <<mode, current_head_id, history, rejoin, broken>>
           /\ phase' = IF \E c \in history : previous[c] = b THEN "apply" ELSE "idle"
  <2>1. phase' \in {"apply", "idle"}
    BY <1>3
  <2>2. undo_db' \subseteq Block /\ b \in Ids /\ address_to_account' \subseteq Keys
    BY <1>3 DEF save_undo_state, TypeOK, Ids, Keys
  <2>3. num_to_id' \in [Nums -> Block \cup {None}] /\ peak' \in Nat
    BY <1>1, <1>3 DEF TypeOK
  <2>4. TypeOK'
    BY <1>1, <1>3, <2>1, <2>2, <2>3 DEF TypeOK, treeVars, mark_included
  <2>5. HistoryFiled'
    BY <1>1, <1>3, <2>1 DEF HistoryFiled, treeVars
  <2>6. ~broken' => ChainInv'
    BY <1>1, <1>3, <2>1, ExtendChain
  <2> QED
    BY <1>2, <2>4, <2>5, <2>6
<1>4. CASE /\ ~Extends(b)
           /\ mark_invalid(b)
           /\ UNCHANGED <<is_included, num_to_id, undo_db, address_to_account, headVars, peak>>
           /\ broken' = (broken \/ (mode = "revert" /\ head_id = Genesis))
           /\ throw(is_included)
  <2> DEFINE marked == {b} \cup Descendants(next_blocks(b, block_data), block_data)
  <2>1. marked \subseteq fork_db
    BY <1>1 DEF Descendants, LinkedInv
  <2>2. is_invalid' = is_invalid \cup marked /\ is_valid' = is_valid \ marked
    BY <1>4 DEF mark_invalid
  <2>3. /\ HistoryFiled' /\ phase' \in {"idle", "pop", "apply"}
        /\ mode' \in {"extend", "switch", "revert"} /\ current_head_id' \in Ids
        /\ history' \subseteq Block /\ rejoin' \subseteq Ids
    BY <1>1, <1>4, ThrowType DEF treeVars
  <2>4. broken' \in BOOLEAN
    BY <1>4
  <2>5. TypeOK'
    BY <1>1, <1>4, <2>1, <2>2, <2>3, <2>4 DEF TypeOK, treeVars, headVars
  <2>6. ASSUME ~broken' PROVE ChainInv'
    <3>1. ~broken /\ ~(mode = "revert" /\ head_id = Genesis) /\ ChainInv
      BY <1>4, <2>6
    <3>2. /\ marked \cap is_included = {}
          /\ mode = "switch" => marked \cap ancestors[current_head_id] = {}
          /\ \A c \in block_data : previous[c] \in marked => c \in marked
      BY <1>1, <3>1, MarkedElsewhere DEF IInv
    <3>3. head_header = head_id
      BY <3>1 DEF ChainInv, HeaderOfHead
    <3> HIDE DEF marked
    <3>4. IncludedChain' /\ HeaderOfHead' /\ IndexWithoutGap' /\ UndoWindow'
      BY <1>4, <3>1, <3>3 DEF ChainInv, IncludedChain, HeaderOfHead, IndexWithoutGap,
                              UndoWindow, headVars
    <3>5. ValidChain' /\ KeysInv' /\ is_valid' \subseteq is_linked'
      BY <1>1, <1>4, <2>2, <3>1, <3>2 DEF ChainInv, ValidChain, KeysInv, treeVars
    <3>6. CallInv'
      <4>1. CASE switch_to_fork(current_head_id, is_included, "revert") /\ mode = "switch"
        <5>1. /\ ForkPath(current_head_id, is_included)
                    \subseteq is_valid \cap ancestors[current_head_id]
          BY <1>1, <3>1, <4>1, RevertHistory DEF ChainInv, CallInv, treeVars
        <5>2. ForkPath(current_head_id, is_included) \subseteq is_valid'
          BY <2>2, <3>2, <4>1, <5>1
        <5>3. current_head_id' = current_head_id
          BY <1>4 DEF throw
        <5> QED
          BY <4>1, <5>1, <5>2, <5>3 DEF switch_to_fork, CallInv
      <4>2. CASE return
        BY <4>2 DEF return, CallInv
      <4> QED
        BY <1>4, <4>1, <4>2 DEF throw
    <3> QED
      BY <3>4, <3>5, <3>6 DEF ChainInv
  <2> QED
    BY <1>2, <2>3, <2>5, <2>6
<1> QED
  BY <1>3, <1>4 DEF extend_chain

-----------------------------------------------------------------------------
(* Time and restarts.                                                      *)

LEMMA TickInv ==
    ASSUME IInv, NEW b \in Block, Tick(b)
    PROVE  IInv'
<1> USE DEF IInv, Tick, treeVars, forkVars, headVars, callVars, ghostVars
<1>1. TypeOK' /\ LinkedInv' /\ HistoryFiled'
  BY DEF TypeOK, LinkedInv, HistoryFiled
<1>2. ASSUME ~broken' PROVE ChainInv'
  <2>1. ChainInv
    BY <1>2
  <2>2. IncludedChain' /\ HeaderOfHead' /\ IndexWithoutGap' /\ CallInv' /\ UndoWindow'
    BY <2>1 DEF ChainInv, IncludedChain, HeaderOfHead, IndexWithoutGap, CallInv, UndoWindow
  <2>3. ValidChain' /\ KeysInv' /\ is_valid' \subseteq is_linked'
    BY <2>1 DEF ChainInv, ValidChain, KeysInv
  <2> QED
    BY <2>2, <2>3 DEF ChainInv
<1> QED
  BY <1>1, <1>2

(* open() finds the head that was in memory when the process stopped.      *)
LEMMA OpenHead ==
    ASSUME TypeOK, ChainInv, NEW n \in Nums, IsLast(n)
    PROVE  num_to_id[n] = head_id
<1>1. num_to_id[n] \in Block /\ num_to_id[n] \in is_included /\ block_num[num_to_id[n]] = n
  BY GenesisAssumption DEF IsLast, TypeOK, ChainInv, IncludedChain
<1>2. n \in Nat \ {0} /\ n <= BlockNum(head_id) /\ BlockNum(head_id) \in Nat
  BY <1>1, TreeAssumption, GenesisAssumption, BlockNumType DEF ChainInv, IncludedChain, TypeOK
<1>3. head_id # Genesis /\ head_id \in Block /\ BlockNum(head_id) = block_num[head_id]
      /\ block_num[head_id] \in Nums
  BY <1>2, BlockNumType DEF TypeOK
<1>4. num_to_id[block_num[head_id]] = head_id
  BY <1>3 DEF ChainInv, IncludedChain
<1>5. block_num[head_id] <= n
  BY <1>3, <1>4, GenesisAssumption DEF IsLast, Ids
<1>6. block_num[head_id] = n
  BY <1>2, <1>3, <1>5
<1> QED
  BY <1>4, <1>6

LEMMA OpenInv ==
    ASSUME IInv, open
    PROVE  IInv'
<1> USE DEF IInv
<1>1. PICK n \in Nums : IsLast(n) /\ head_id' = num_to_id[n] /\ head_header' = num_to_id[n]
  BY DEF open
<1>2. /\ UNCHANGED <<treeVars, forkVars, future, ghostVars, current_head_id>>
      /\ phase' = "idle" /\ UNCHANGED <<mode, history, rejoin>>
  BY DEF open, return
<1>3. TypeOK' /\ LinkedInv' /\ HistoryFiled'
  BY <1>1, <1>2 DEF TypeOK, LinkedInv, HistoryFiled, treeVars, forkVars, ghostVars, IsLast, Ids
<1>4. ASSUME ~broken' PROVE ChainInv'
  <2>1. ChainInv /\ head_id' = head_id /\ head_header' = head_id
    BY <1>1, <1>2, <1>4, OpenHead DEF ghostVars
  <2>2. IncludedChain' /\ HeaderOfHead' /\ IndexWithoutGap' /\ CallInv' /\ UndoWindow'
    BY <1>2, <2>1 DEF ChainInv, IncludedChain, HeaderOfHead, IndexWithoutGap, CallInv,
                      UndoWindow, forkVars, ghostVars
  <2>3. ValidChain' /\ KeysInv' /\ is_valid' \subseteq is_linked'
    BY <1>2, <2>1 DEF ChainInv, ValidChain, KeysInv, treeVars, forkVars
  <2> QED
    BY <2>2, <2>3 DEF ChainInv
<1> QED
  BY <1>3, <1>4

LEMMA StutterInv ==
    ASSUME IInv, UNCHANGED vars
    PROVE  IInv'
<1> USE DEF vars, treeVars, forkVars, headVars, callVars, ghostVars
<1>1. TypeOK' /\ LinkedInv' /\ HistoryFiled'
  BY DEF IInv, TypeOK, LinkedInv, HistoryFiled
<1>2. ChainInv => ChainInv'
  BY DEF ChainInv, IncludedChain, HeaderOfHead, IndexWithoutGap, ValidChain, KeysInv, CallInv,
         UndoWindow
<1> QED
  BY <1>1, <1>2 DEF IInv

-----------------------------------------------------------------------------
(* IInv is an inductive invariant of the specification.                    *)
THEOREM Invariance == Spec => []IInv
<1>1. Init => IInv
  BY InitInv
<1>2. IInv /\ [Next]_vars => IInv'
  <2> SUFFICES ASSUME IInv, [Next]_vars PROVE IInv'
    OBVIOUS
  <2>1. ASSUME NEW b \in Block, on_new_block(b) PROVE IInv'
    BY <2>1, PushInv DEF on_new_block
  <2>2. ASSUME NEW b \in Block, extend_chain(b) PROVE IInv'
    BY <2>2, ExtendInv
  <2>3. ASSUME NEW b \in Block, Tick(b) PROVE IInv'
    BY <2>3, TickInv
  <2>4. CASE pop_block
    BY <2>4, PopInv
  <2>5. CASE open
    BY <2>5, OpenInv
  <2>6. CASE UNCHANGED vars
    BY <2>6, StutterInv
  <2> QED
    BY <2>1, <2>2, <2>3, <2>4, <2>5, <2>6 DEF Next
<1> QED
  BY <1>1, <1>2, PTL DEF Spec

(* Every reachable state of the block tree is well typed.                  *)
THEOREM TypeCorrect == Spec => []TypeOK
<1>1. IInv => TypeOK
  BY DEF IInv
<1> QED
  BY <1>1, Invariance, PTL

(* For every tree of blocks, every order of arrival and every point of     *)
(* restart, the included blocks are one gapless chain up to the head that  *)
(* the number index lists, unless an undo has failed.                      *)
THEOREM ChainIsConsistent == Spec => []ChainConsistent
<1>1. IInv => ChainConsistent
  BY DEF IInv, ChainInv, ChainConsistent
<1> QED
  BY <1>1, Invariance, PTL

(* Applied blocks stay applicable, with all their ancestors, for every     *)
(* tree of blocks, whatever keys they set and however the clock moves:     *)
(* only a key left in the index by a pop, or the clock, can have a block   *)
(* refused that was applied before.                                        *)
THEOREM ValidApplicable == Spec => []ValidStaysApplicable
<1>1. IInv => ValidStaysApplicable
  BY AppliesAgain DEF IInv, ChainInv, ValidStaysApplicable, StillApplies
<1> QED
  BY <1>1, Invariance, PTL

(* The undo states of the last MaxUndo blocks below the highest head are   *)
(* kept, whatever switches were tried.                                     *)
THEOREM UndoKept == Spec => []UndoAvailable
<1>1. IInv => UndoAvailable
  BY DEF IInv, ChainInv, UndoAvailable
<1> QED
  BY <1>1, Invariance, PTL

(* The assertion of get_fork_history holds for every linked block, also    *)
(* after a failed undo.                                                    *)
THEOREM DeadEndNeverMet == Spec => []NoDeadEnd
<1>1. IInv => NoDeadEnd
  <2> SUFFICES ASSUME IInv, NEW id \in is_linked \ {Genesis},
                      NEW c \in ForkPath(id, is_included)
               PROVE  c \in block_data /\ previous[c] \in is_linked
    BY DEF NoDeadEnd
  <2>1. is_linked \in SUBSET Ids /\ ClosedUnderPrevious(is_linked)
    BY DEF IInv, TypeOK, LinkedInv, ClosedUnderPrevious
  <2>2. id \in Ids /\ ancestors[id] \subseteq is_linked
    BY <2>1, AncestorsMinimal
  <2>3. c \in is_linked \ {Genesis}
    BY <2>2, ForkPathAncestors
  <2> QED
    BY <2>1, <2>3 DEF ClosedUnderPrevious, IInv, LinkedInv
<1> QED
  BY <1>1, Invariance, PTL

(* A block that was applied and fails now fails for one of two reasons.    *)
LEMMA FailedSpoilt ==
    ASSUME IInv, ~broken', NEW b \in Block, extend_chain(b), ~Extends(b), b \in is_valid
    PROVE  Spoilt(b)
<1>1. /\ previous[b] = head_id /\ phase # "idle"
      /\ broken' = (broken \/ (mode = "revert" /\ head_id = Genesis))
  BY DEF extend_chain
<1>2. TypeOK /\ ChainInv /\ b # Genesis
  BY <1>1, GenesisAssumption DEF IInv
<1>3. head_header = head_id
  BY <1>1, <1>2 DEF ChainInv, HeaderOfHead
<1> QED
  BY <1>1, <1>2, <1>3, AppliesAgain

(* A block found valid is marked invalid only when it or an ancestor has   *)
(* been refused for a key that a pop left in the index or for the clock.   *)
THEOREM ValidNeverRevoked == Spec => ValidIsStable
<1>1. IInv /\ [Next]_vars =>
        [~broken' => \A b \in is_valid \ is_valid' :
           \E a \in ancestors[b] \ {Genesis} : a \in is_invalid' /\ Spoilt(a)]_vars
  <2> SUFFICES ASSUME IInv, Next, ~broken', NEW d \in is_valid, d \notin is_valid'
               PROVE  \E a \in ancestors[d] \ {Genesis} : a \in is_invalid' /\ Spoilt(a)
    OBVIOUS
  <2>1. ASSUME NEW b \in Block, on_new_block(b) PROVE is_valid' = is_valid
    BY <2>1 DEF on_new_block, push_block, forkVars
  <2>2. ASSUME NEW b \in Block, extend_chain(b)
        PROVE  \E a \in ancestors[d] \ {Genesis} : a \in is_invalid' /\ Spoilt(a)
    <3>1. /\ phase # "idle" /\ b \in history /\ previous[b] = head_id /\ ~Extends(b)
          /\ mark_invalid(b) /\ ~broken
      BY <2>2 DEF extend_chain, mark_included
    <3>2. d \in {b} \cup Descendants(next_blocks(b, block_data), block_data) /\ b \in is_invalid'
      BY <3>1 DEF mark_invalid
    <3>3. TypeOK /\ ChainInv /\ b \in block_data
      BY <3>1 DEF IInv, HistoryFiled
    <3>4. d \in Block /\ b \in ancestors[d] /\ b # Genesis
      BY <3>2, <3>3, MarkedDescend
    <3>5. is_valid \in SUBSET Ids /\ ClosedUnderPrevious(is_valid)
      BY <3>3 DEF ChainInv, ValidChain, ClosedUnderPrevious, TypeOK
    <3>6. b \in is_valid
      BY <3>4, <3>5, AncestorsMinimal DEF Ids
    <3> QED
      BY <2>2, <3>1, <3>2, <3>4, <3>6, FailedSpoilt
  <2>3. ASSUME NEW b \in Block, Tick(b) PROVE is_valid' = is_valid
    BY <2>3 DEF Tick, forkVars
  <2>4. CASE pop_block
    BY <2>4 DEF pop_block
  <2>5. CASE open
    BY <2>5 DEF open, forkVars
  <2> QED
    BY <2>1, <2>2, <2>3, <2>4, <2>5 DEF Next
<1> QED
  BY <1>1, Invariance, PTL DEF Spec, ValidIsStable

-----------------------------------------------------------------------------
(* LinkedExactly: whatever the order in which blocks arrive, a block is    *)
(* linked exactly when the content of all its ancestors is there; the      *)
(* marking of the descendants in store_and_index forgets none of them.     *)
THEOREM LinksAreExact == Spec => []LinkedExactly
<1>1. IInv => LinkedExactly
  <2> SUFFICES ASSUME IInv, NEW b \in Block
               PROVE  b \in is_linked <=> ancestors[b] \subseteq block_data \cup {Genesis}
    BY DEF LinkedExactly
  <2>1. TypeOK /\ LinkedInv /\ b \in Ids
    BY DEF IInv, Ids
  <2>2. ASSUME b \in is_linked PROVE ancestors[b] \subseteq block_data \cup {Genesis}
    <3>1. is_linked \in SUBSET Ids /\ ClosedUnderPrevious(is_linked)
      BY <2>1 DEF LinkedInv, ClosedUnderPrevious, TypeOK
    <3>2. ancestors[b] \subseteq is_linked
      BY <2>1, <2>2, <3>1, AncestorsMinimal
    <3> QED
      BY <2>1, <3>2 DEF LinkedInv
  <2>3. ASSUME ancestors[b] \subseteq block_data \cup {Genesis}, b \notin is_linked PROVE FALSE
    <3> DEFINE T == ancestors[b] \ is_linked
    <3>1. /\ ancestors[b] \in SUBSET Ids /\ b \in ancestors[b]
          /\ ClosedUnderPrevious(ancestors[b])
      BY <2>1, AncestorsClosed
    <3>2. T \in SUBSET Ids /\ b \in T
      BY <2>3, <3>1
    <3>3. ClosedUnderPrevious(T)
      BY <2>1, <2>3, <3>1 DEF LinkedInv, ClosedUnderPrevious
    <3>4. ancestors[b] \subseteq T
      <4> HIDE DEF T
      <4> QED
        BY <2>1, <3>2, <3>3, AncestorsMinimal
    <3> QED
      BY <2>1, <3>4, AcyclicAssumption DEF LinkedInv
  <2> QED
    BY <2>2, <2>3
<1> QED
  BY <1>1, Invariance, PTL

-----------------------------------------------------------------------------
HistoryTip ==
  phase # "idle" =>
    \E tip \in Block :
      /\ IsTip(tip, history)
      /\ mode = "extend" => history = {tip} /\ head_id = current_head_id
      /\ mode = "switch" => BlockNum(tip) > BlockNum(current_head_id)
      /\ mode = "revert" => tip = current_head_id

TipInv == ~broken => HistoryTip

(* Going back to the old head: its history ends there.                     *)
LEMMA ThrowTip ==
    ASSUME TypeOK, NEW inc, throw(inc), phase' # "idle", UNCHANGED block_data
    PROVE  HistoryTip' /\ mode' = "revert"
<1>1. ~HistoryThrows(current_head_id, inc) /\ switch_to_fork(current_head_id, inc, "revert")
      /\ UNCHANGED current_head_id
  BY DEF throw, return
<1>2. current_head_id \in Block
  BY <1>1 DEF HistoryThrows, TypeOK
<1>3. IsTip(current_head_id, history') /\ mode' = "revert"
  BY <1>1, <1>2, ForkPathTip DEF switch_to_fork
<1> QED
  BY <1>1, <1>2, <1>3 DEF HistoryTip, IsTip

LEMMA TipPush ==
    ASSUME IInv, ~broken, NEW b \in Block, push_block(b)
    PROVE  HistoryTip'
<1>1. TypeOK /\ ChainInv /\ phase = "idle" /\ head_id \in Ids
  BY DEF IInv, push_block, TypeOK
<1>2. head_header = head_id
  BY <1>1 DEF ChainInv, HeaderOfHead
<1>3. UNCHANGED head_id /\ current_head_id' = head_id
      /\ block_data' = block_data \cup {b}
  BY DEF push_block, headVars, store_and_index
<1>4. PICK longest \in LongestFork(b) :
         IF previous[b] = head_id
           THEN /\ phase' = "apply" /\ mode' = "extend"
                /\ history' = {b} /\ rejoin' = {head_id}
           ELSE IF ~can_link(longest) \/ block_num[longest] <= BlockNum(head_header)
             THEN return
             ELSE IF ~HistoryThrows(longest, is_included)
               THEN switch_to_fork(longest, is_included, "switch")
               ELSE IF ~HistoryThrows(head_id, is_included)
                 THEN switch_to_fork(head_id, is_included, "revert")
                 ELSE return
  BY DEF push_block
<1>5. longest \in Block
  BY <1>1 DEF LongestFork, Descendants, TypeOK
<1>6. CASE phase' = "apply" /\ mode' = "extend" /\ history' = {b}
  BY <1>3, <1>6 DEF HistoryTip, IsTip
<1>7. CASE return
  BY <1>7 DEF return, HistoryTip
<1>8. CASE /\ ~(block_num[longest] <= BlockNum(head_header))
           /\ switch_to_fork(longest, is_included, "switch")
  <2>1. IsTip(longest, history') /\ mode' = "switch"
    BY <1>5, <1>8, ForkPathTip DEF switch_to_fork
  <2>2. BlockNum(longest) > BlockNum(head_id)
    <3>1. block_num[longest] \in Nat /\ BlockNum(head_id) \in Nat /\ longest # Genesis
      BY <1>1, <1>5, BlockNumType, TreeAssumption, GenesisAssumption
    <3> QED
      BY <1>2, <1>8, <3>1 DEF BlockNum
  <2>3. BlockNum(longest) > BlockNum(current_head_id')
    BY <1>3, <2>2
  <2> QED
    BY <1>5, <2>1, <2>3 DEF HistoryTip, IsTip
<1>9. CASE ~HistoryThrows(head_id, is_included)
           /\ switch_to_fork(head_id, is_included, "revert")
  <2>1. head_id \in Block
    BY <1>1, <1>3, <1>9 DEF HistoryThrows, TypeOK
  <2>2. IsTip(head_id, history') /\ mode' = "revert"
    BY <1>9, <2>1, ForkPathTip DEF switch_to_fork
  <2> QED
    BY <1>3, <2>1, <2>2 DEF HistoryTip, IsTip
<1> QED
  BY <1>4, <1>6, <1>7, <1>8, <1>9

(* A pop moves the head, but only switches and returns pop.                *)
LEMMA TipPop ==
    ASSUME IInv, TipInv, ~broken', pop_block
    PROVE  ~broken /\ phase' # "idle" /\ HistoryTip'
<1> DEFINE inc == is_included \ {head_id}
           prev == previous[head_header]
<1>1. /\ phase = "pop" /\ head_id \notin rejoin
      /\ UNCHANGED treeVars
      /\ \/ broken'
         \/ head_id' = prev /\ UNCHANGED <<callVars, broken>>
         \/ /\ head_id' = prev /\ throw(inc)
            /\ broken' = (broken \/ mode = "revert")
  BY DEF pop_block
<1>2. TypeOK /\ LinkedInv
  BY DEF IInv
<1>3. ~broken
  BY <1>1 DEF callVars
<1>4. ChainInv /\ HistoryTip /\ mode # "extend"
  BY <1>1, <1>3 DEF IInv, TipInv, ChainInv, CallInv
<1>5. CASE UNCHANGED <<callVars, broken>>
  <2>1. UNCHANGED <<phase, mode, current_head_id, history>>
    BY <1>5 DEF callVars
  <2>2. PICK tip \in Block :
           /\ IsTip(tip, history)
           /\ mode = "switch" => BlockNum(tip) > BlockNum(current_head_id)
           /\ mode = "revert" => tip = current_head_id
    BY <1>1, <1>4 DEF HistoryTip
  <2> QED
    BY <1>1, <1>3, <1>4, <2>1, <2>2 DEF HistoryTip, IsTip
<1>6. CASE throw(inc) /\ broken' = (broken \/ mode = "revert")
  <2>1. mode = "switch"
    BY <1>2, <1>4, <1>6 DEF TypeOK
  <2>2. current_head_id # Genesis
    BY <1>1, <1>4, <2>1 DEF ChainInv, CallInv
  <2>3. ~HistoryThrows(current_head_id, inc)
    BY <1>1, <1>2, <1>4, <2>1, <2>2, RevertHistory DEF ChainInv, CallInv, treeVars
  <2>4. phase' = "pop"
    BY <1>6, <2>1, <2>3 DEF throw, switch_to_fork
  <2>5. HistoryTip'
    BY <1>1, <1>2, <1>6, <2>4, ThrowTip DEF treeVars
  <2> QED
    BY <1>3, <2>4, <2>5
<1> QED
  BY <1>1, <1>5, <1>6

(* An extension that ends the call leaves the head it started from, a      *)
(* higher one, or the block below one that could not be put back.          *)
LEMMA TipExtend ==
    ASSUME IInv, TipInv, ~broken', NEW b \in Block, extend_chain(b)
    PROVE  /\ ~broken /\ HistoryTip'
           /\ phase' = "idle" => \/ head_id' = current_head_id
                                 \/ BlockNum(head_id') > BlockNum(current_head_id)
                                 \/ /\ mode = "revert"
                                    /\ \E a \in ancestors[current_head_id] \ {Genesis} :
                                         previous[a] = head_id' /\ Spoilt(a)
<1>1. /\ phase # "idle" /\ b \in history /\ previous[b] = head_id /\ UNCHANGED treeVars
  BY DEF extend_chain
<1>2. ~broken
  BY DEF extend_chain
<1>3. TypeOK /\ LinkedInv /\ ChainInv /\ HistoryTip
  BY <1>2 DEF IInv, TipInv
<1>4. PICK tip \in Block :
         /\ IsTip(tip, history)
         /\ mode = "extend" => history = {tip} /\ head_id = current_head_id
         /\ mode = "switch" => BlockNum(tip) > BlockNum(current_head_id)
         /\ mode = "revert" => tip = current_head_id
  BY <1>1, <1>3 DEF HistoryTip
<1>5. /\ mode \in {"extend", "switch", "revert"} /\ head_id \in Ids /\ current_head_id \in Ids
      /\ BlockNum(head_id) \in Nat /\ BlockNum(current_head_id) \in Nat
      /\ BlockNum(head_id) = 0 <=> head_id = Genesis
      /\ b # Genesis /\ previous[b] # b
  <2>1. b # Genesis /\ previous[b] # b
    BY AcyclicAssumption, AncestorsClosed, GenesisAssumption, TreeAssumption DEF Ids
  <2> QED
    BY <1>3, <2>1, BlockNumType DEF TypeOK
<1>6. CASE Extends(b)
  <2>1. /\ head_id' = b /\ UNCHANGED <<mode, current_head_id, history>>
        /\ phase' = IF \E c \in history : previous[c] = b THEN "apply" ELSE "idle"
    BY <1>6 DEF extend_chain
  <2>2. CASE \E c \in history : previous[c] = b
    <3>1. mode # "extend"
      BY <1>1, <1>4, <1>5, <2>2
    <3> QED
      BY <1>2, <1>4, <2>1, <2>2, <3>1 DEF HistoryTip, IsTip
  <2>3. CASE ~\E c \in history : previous[c] = b
    <3>1. b = tip /\ phase' = "idle"
      BY <1>1, <1>4, <2>1, <2>3 DEF IsTip
    <3>2. CASE mode = "extend"
      <4>1. BlockNum(b) = BlockNum(head_id) + 1
        BY <1>1, <1>3, <1>5, <1>6, ExtendNumber DEF BlockNum
      <4>2. BlockNum(b) > BlockNum(head_id)
        BY <1>5, <4>1
      <4> QED
        BY <1>2, <1>4, <2>1, <3>1, <3>2, <4>2 DEF HistoryTip
    <3> QED
      BY <1>2, <1>4, <1>5, <2>1, <3>1, <3>2 DEF HistoryTip
  <2> QED
    BY <2>2, <2>3
<1>7. CASE ~Extends(b)
  <2>1. head_id' = head_id /\ throw(is_included)
    BY <1>7 DEF extend_chain, headVars
  <2>2. CASE phase' # "idle"
    BY <1>1, <1>2, <1>3, <2>1, <2>2, ThrowTip DEF treeVars
  <2>3. CASE phase' = "idle"
    <3>1. HistoryTip'
      BY <2>3 DEF HistoryTip
    <3>2. CASE mode = "extend"
      BY <1>2, <1>4, <2>1, <3>1, <3>2
    <3>3. CASE mode = "switch"
      <4>1. HistoryThrows(current_head_id, is_included)
        BY <2>1, <2>3, <3>3 DEF throw, switch_to_fork
      <4>2. current_head_id = Genesis
        BY <1>1, <1>3, <3>3, <4>1, RevertHistory DEF ChainInv, CallInv, treeVars
      <4>3. BlockNum(current_head_id) = 0
        BY <4>2 DEF BlockNum
      <4> QED
        BY <1>2, <1>5, <2>1, <3>1, <4>2, <4>3
    <3>4. CASE mode = "revert"
      <4>1. b \in is_valid /\ b \in ancestors[current_head_id] \ {Genesis}
        BY <1>1, <1>3, <1>5, <3>4 DEF ChainInv, CallInv
      <4>2. Spoilt(b)
        BY <1>7, <4>1, FailedSpoilt
      <4> QED
        BY <1>1, <1>2, <2>1, <3>1, <3>4, <4>1, <4>2
    <3> QED
      BY <1>5, <2>1, <3>2, <3>3, <3>4
  <2> QED
    BY <2>2, <2>3
<1> QED
  BY <1>6, <1>7

(* HeadKeptOrHigher: for every tree of blocks and every failure, a         *)
(* push_block that ends leaves the head it started from or a higher one:   *)
(* a switch that fails half way goes back over the old branch, and stops   *)
(* below the old head only at a block that sets a key which popping it has *)
(* left in the index, or that the clock has put in the future again.       *)
THEOREM HeadNeverLost == Spec => HeadKeptOrHigher
<1>1. Init => TipInv
  BY DEF Init, TipInv, HistoryTip
<1>2. IInv /\ TipInv /\ [Next]_vars => TipInv'
  <2> SUFFICES ASSUME IInv, TipInv, [Next]_vars, ~broken' PROVE HistoryTip'
    BY DEF TipInv
  <2>1. ASSUME NEW b \in Block, on_new_block(b) PROVE HistoryTip'
    BY <2>1, TipPush DEF on_new_block, push_block, ghostVars
  <2>2. ASSUME NEW b \in Block, extend_chain(b) PROVE HistoryTip'
    BY <2>2, TipExtend
  <2>3. CASE pop_block
    BY <2>3, TipPop
  <2>4. CASE open
    BY <2>4 DEF open, return, HistoryTip
  <2>5. ASSUME UNCHANGED <<headVars, callVars, ghostVars>> PROVE HistoryTip'
    BY <2>5 DEF TipInv, HistoryTip, IsTip, headVars, callVars, ghostVars
  <2> QED
    BY <2>1, <2>2, <2>3, <2>4, <2>5 DEF Next, Tick, vars
<1>3. IInv /\ TipInv /\ [Next]_vars =>
        [(/\ pop_block \/ \E b \in Block : extend_chain(b)
          /\ phase' = "idle" /\ ~broken')
         => \/ head_id' = current_head_id
            \/ BlockNum(head_id') > BlockNum(current_head_id)
            \/ mode = "revert" /\ \E a \in ancestors[current_head_id] \ {Genesis} :
                                     previous[a] = head_id' /\ Spoilt(a)]_vars
  BY TipPop, TipExtend
<1> QED
  BY <1>1, <1>2, <1>3, Invariance, PTL DEF Spec, HeadKeptOrHigher
=============================================================================
