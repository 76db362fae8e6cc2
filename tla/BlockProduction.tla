-------------------------- MODULE BlockProduction --------------------------
(***************************************************************************)
(* The production of blocks by a delegate's client: the delegate loop      *)
(* (client/client.cpp), the signing of a block by the wallet, and what the *)
(* chain checks and records of each block's producer (verify_header,       *)
(* update_delegate_production_info and update_active_delegate_list).       *)
(*                                                                         *)
(* Time is cut into slots of Interval ticks, and the list of active        *)
(* delegates, ordered anew each round, says who may produce in a slot.     *)
(* The loop runs in the main thread and gives up control while it waits    *)
(* for the network thread: blocks arrive, the wallet is locked and the     *)
(* clock is corrected in between.                                          *)
(*                                                                         *)
(* A block is identified with the chain that it ends, a sequence of        *)
(* headers.  A header names its slot and producer, the list of delegates   *)
(* after it and the delegates who change their active key in it.           *)
(***************************************************************************)
EXTENDS Integers, Sequences, FiniteSets, SequencesExt, FiniteSetsExt

CONSTANTS
  Delegates,     \* the delegates
  Mine,          \* those whose keys are in the wallet, enabled for production
  Orders,        \* the orders a round can have, sequences of delegates
  Interval,      \* BTS_BLOCKCHAIN_BLOCK_INTERVAL_SEC
  Offsets,       \* what ntp_error() can be
  MaxTime,       \* bound: the system clock stops here
  MaxSlot,       \* bound: the last slot of the other delegates
  MaxBlocks,     \* bound: blocks other than refused ones
  Rekeying,      \* bound: the delegates that change their active key, once
  MaxCorrections,\* bound: corrections of the clock
  MaxLocks       \* bound: how often the wallet is locked

ASSUME DelegatesAssumption == IsFiniteSet(Delegates) /\ Mine \cup Rekeying \subseteq Delegates
ASSUME OrdersAssumption ==
  /\ Orders # {} /\ Orders \subseteq Seq(Delegates)
  /\ \A o, p \in Orders : Len(o) = Len(p) /\ Len(o) > 0
\* The clock starts late enough for every error: it counts from the epoch.
ASSUME TimesAssumption ==
  /\ Interval \in Nat \ {0} /\ Offsets \subseteq Int /\ 0 \in Offsets
  /\ \A o \in Offsets : Interval + o >= 0
ASSUME BoundsAssumption == {MaxTime, MaxSlot, MaxBlocks, MaxCorrections, MaxLocks} \subseteq Nat

VARIABLES
  clock,     \* the system's clock
  offset,    \* ntp_error(): what NTP adds to the clock
  unlocked,  \* the wallet is unlocked
  loop,      \* the delegate loop: where it is, and what it has read
  first_run, \* _delegate_loop_first_run
  state,     \* of every block: the chain's state after it, [chain -> state]
  head,      \* the head block
  signed,    \* history: the blocks this client has produced
  refused,   \* history: its blocks that the chain refused
  corrections, locks \* how often the clock was corrected and the wallet locked

wallet == <<unlocked, locks>>
time == <<clock, offset, corrections>>
chain == <<state, head>>
history == <<signed, refused>>
vars == <<time, wallet, loop, first_run, chain, history>>

None == -1
N == Len(CHOOSE o \in Orders : TRUE)
get_slot_number(t) == t \div Interval
get_slot_start_time(s) == s * Interval
now == clock + offset

\* The producer's part of the chain's state before the first block.
Genesis(order) ==
  [list |-> order,
   info |-> [d \in Delegates |->
               [produced |-> 0, missed |-> 0, last_num |-> 0, committed |-> <<>>, key |-> 0]],
   required_confirmations |-> 2 * N]

Header == [slot : Nat, by : Delegates, list : Orders, rekeyed : SUBSET Delegates]
Secret == Nat \X Seq(Header)
Info == [produced : Nat, missed : Nat, last_num : Nat, committed : Secret \cup {<<>>}, key : Nat]
State == [list : Orders, info : [Delegates -> Info], required_confirmations : 1 .. 3 * N]

ChainTypeOK ==
  /\ head \in DOMAIN state /\ <<>> \in DOMAIN state
  /\ \A b \in DOMAIN state :
       b \in Seq(Header) /\ state[b] \in State /\ (b # <<>> => Front(b) \in DOMAIN state)

TypeOK ==
  /\ clock \in Nat /\ clock >= Interval /\ offset \in Offsets /\ corrections \in 0 .. MaxCorrections
  /\ unlocked \in BOOLEAN /\ locks \in 0 .. MaxLocks
  /\ first_run \in BOOLEAN
  /\ loop \in [at : {"idle", "scheduled", "connecting", "counting"}, time : Int, slot : Int]
  /\ ChainTypeOK
  /\ signed \subseteq [block : DOMAIN state \ {<<>>}, corrections : 0 .. MaxCorrections]
  /\ refused \subseteq [on : DOMAIN state, slot : Nat, by : Mine]

Idle == [at |-> "idle", time |-> 0, slot |-> None]
Scheduled(t) == [at |-> "scheduled", time |-> t, slot |-> None]

Init ==
  /\ clock = Interval /\ offset = 0 /\ corrections = 0
  /\ unlocked = TRUE /\ locks = 0
  /\ loop = Scheduled(clock) /\ first_run = TRUE
  /\ \E o \in Orders : state = [b \in {<<>>} |-> Genesis(o)]
  /\ head = <<>>
  /\ signed = {} /\ refused = {}

-----------------------------------------------------------------------------
(* What the chain makes of a block.                                        *)

get_slot_signee(slot, list) == list[(slot % N) + 1]
slot_of(b) == Last(b).slot

\* The secret a delegate commits to with block number num of chain b: it is
\* made of its key and of the id of the block before it.
get_secret(b, num, key) == <<key, IF num > 1 THEN SubSeq(b, 1, num - 1) ELSE <<>> >>

\* verify_header, for a block with the right number, parent, digest and
\* signature: it comes after its parent and not too far in the future, and
\* its slot's delegate signed it.
verify_header(parent, slot, by) ==
  /\ parent # <<>> => slot > slot_of(parent)
  /\ get_slot_start_time(slot) <= now + 2 * Interval
  /\ by = get_slot_signee(slot, state[parent].list)

\* Faulty variant: the parent's own slot counts as missed.
MissedSlotsFromParent(parent, slot) ==
  IF parent = <<>> THEN {} ELSE slot_of(parent) .. slot - 1

\* The slots between a block and its parent, which nobody used.
MissedSlots(parent, slot) ==
  IF parent = <<>> THEN {} ELSE slot_of(parent) + 1 .. slot - 1

\* update_delegate_production_info when its assertion on the secret holds
Produced(parent, slot, by, next_secret) ==
  LET s == state[parent]
      missing(d) == {m \in MissedSlots(parent, slot) : get_slot_signee(m, s.list) = d}
      unbounded == s.required_confirmations + 2 * Cardinality(MissedSlots(parent, slot)) - 1
  IN  [s EXCEPT
         !.info = [d \in Delegates |->
           LET i == [s.info[d] EXCEPT !.missed = @ + Cardinality(missing(d))]
           IN  IF d = by
               THEN [i EXCEPT !.produced = @ + 1, !.committed = next_secret,
                              !.last_num = Len(parent) + 1]
               ELSE i],
         !.required_confirmations = Max({1, Min({unbounded, 3 * N})})]

SecretMatches(parent, by, previous_secret) ==
  LET i == state[parent].info[by] IN i.produced > 0 => previous_secret = i.committed

\* The lists that can follow: the delegates are shuffled at the end of a round.
update_active_delegate_list(parent) ==
  IF (Len(parent) + 1) % N = 0 THEN Orders ELSE {state[parent].list}

\* A transaction of the block changes the active key of a delegate.
Rekeyed(s, ds) == [s EXCEPT !.info = [d \in Delegates |->
                     IF d \in ds THEN [s.info[d] EXCEPT !.key = @ + 1] ELSE s.info[d]]]

\* Faulty variant: the next secret is that of the head.
sign_block_early(parent, by) ==
  LET i == state[parent].info[by]
  IN  [previous_secret |-> get_secret(parent, i.last_num, i.key),
       next_secret |-> get_secret(parent, Len(parent), i.key)]

\* sign_block: the secrets of a block of delegate `by' on parent.
sign_block(parent, by) ==
  LET i == state[parent].info[by]
  IN  [previous_secret |-> get_secret(parent, i.last_num, i.key),
       next_secret |-> get_secret(parent, Len(parent) + 1, i.key)]

\* push_block with a block that passes the checks: it becomes the head when
\* its chain is longer.
push_block(parent, slot, by, next_secret) ==
  \E list \in update_active_delegate_list(parent) :
  \E rekeyed \in SUBSET {d \in Rekeying : state[parent].info[d].key = 0} :
    LET b == Append(parent, [slot |-> slot, by |-> by, list |-> list, rekeyed |-> rekeyed])
        after == Rekeyed([Produced(parent, slot, by, next_secret) EXCEPT !.list = list], rekeyed)
    IN  /\ b \notin DOMAIN state
        /\ state' = [c \in DOMAIN state \cup {b} |-> IF c = b THEN after ELSE state[c]]
        /\ head' = IF Len(b) > Len(head) THEN b ELSE head

-----------------------------------------------------------------------------
(* The delegate loop.                                                      *)

\* get_next_producible_block_timestamp, as a slot: the first one of the
\* wallet's delegates, from this slot on unless it is already used.
get_next_producible_block_timestamp ==
  LET this == get_slot_number(now)
      used == IF head = <<>> THEN this - 1 ELSE slot_of(head)
      first == IF this <= used THEN this + 1 ELSE this
      own == {s \in first .. first + N - 1 : get_slot_signee(s, state[head].list) \in Mine}
  IN  IF unlocked /\ own # {} THEN Min(own) ELSE None

\* Faulty variant: the loop is scheduled for the slot it was read in.
RescheduleThisSlot(read) ==
  LET t == get_slot_start_time(get_slot_number(read)) - offset
  IN  loop' = Scheduled(IF t <= clock THEN clock + 1 ELSE t)

\* The end of the loop's body: it is scheduled for the next slot, in the
\* time of the system's clock, or in a while if that has passed.
Reschedule(read) ==
  LET t == get_slot_start_time(get_slot_number(read) + 1) - offset
  IN  loop' = Scheduled(IF t <= clock THEN clock + 1 ELSE t)

\* A slot of the wallet's delegates has come: the loop asks the network for
\* the number of connections, and waits for the answer.
Decide(read) ==
  LET slot == get_next_producible_block_timestamp
  IN  IF slot # None /\ get_slot_start_time(slot) <= read
      THEN loop' = [at |-> "counting", time |-> read, slot |-> slot]
      ELSE Reschedule(read)

delegate_loop ==
  /\ loop.at = "scheduled" /\ loop.time <= clock
  /\ first_run' = (first_run /\ ~unlocked)
  /\ CASE ~unlocked -> loop' = Idle
       [] unlocked /\ first_run -> loop' = [at |-> "connecting", time |-> now, slot |-> None]
       [] OTHER -> Decide(now)
  /\ UNCHANGED <<time, wallet, chain, history>>

\* set_target_connections has returned.
connections_set ==
  /\ loop.at = "connecting"
  /\ Decide(loop.time)
  /\ UNCHANGED <<time, wallet, first_run, chain, history>>

\* There are too few connections, the wallet has been locked or the slot is
\* over: the exception is stored.
slot_missed ==
  /\ loop.at = "counting"
  /\ Reschedule(loop.time)
  /\ UNCHANGED <<time, wallet, first_run, chain, history>>

InTime == unlocked /\ loop.time - get_slot_start_time(loop.slot) < Interval

\* The block is generated on the head of this moment, signed for its slot's
\* delegate and pushed; then it is broadcast.
block_produced ==
  LET by == get_slot_signee(loop.slot, state[head].list)
      secrets == sign_block(head, by)
  IN  /\ loop.at = "counting" /\ InTime /\ by \in Mine
      /\ verify_header(head, loop.slot, by) /\ SecretMatches(head, by, secrets.previous_secret)
      /\ push_block(head, loop.slot, by, secrets.next_secret)
      /\ signed' = signed \cup {[block |-> head', corrections |-> corrections]}
      /\ Reschedule(loop.time)
      /\ UNCHANGED <<time, wallet, first_run, refused>>

\* push_block throws, and the exception is stored.
block_refused ==
  LET by == get_slot_signee(loop.slot, state[head].list)
  IN  /\ loop.at = "counting" /\ InTime /\ by \in Mine
      /\ ~(/\ verify_header(head, loop.slot, by)
           /\ SecretMatches(head, by, sign_block(head, by).previous_secret))
      /\ refused' = refused \cup {[on |-> head, slot |-> loop.slot, by |-> by]}
      /\ Reschedule(loop.time)
      /\ UNCHANGED <<time, wallet, first_run, chain, signed>>

-----------------------------------------------------------------------------
(* The rest of the world.                                                  *)

\* A block of another delegate arrives, on any block: it was produced by the
\* same code on another node.
on_new_block(parent, slot) ==
  LET by == get_slot_signee(slot, state[parent].list)
      secrets == sign_block(parent, by)
  IN  /\ by \notin Mine
      /\ verify_header(parent, slot, by) /\ SecretMatches(parent, by, secrets.previous_secret)
      /\ push_block(parent, slot, by, secrets.next_secret)
      /\ UNCHANGED <<time, wallet, loop, first_run, history>>

wallet_lock ==
  /\ unlocked /\ locks < MaxLocks
  /\ unlocked' = FALSE /\ locks' = locks + 1
  /\ UNCHANGED <<time, loop, first_run, chain, history>>

\* Unlocking starts a loop that has returned.
wallet_unlock ==
  /\ ~unlocked
  /\ unlocked' = TRUE
  /\ loop' = IF loop = Idle THEN Scheduled(clock) ELSE loop
  /\ UNCHANGED <<time, locks, first_run, chain, history>>

clock_ticks ==
  /\ clock < MaxTime
  /\ clock' = clock + 1
  /\ UNCHANGED <<offset, corrections, wallet, loop, first_run, chain, history>>

\* NTP corrects the clock, or stops answering.
ntp_corrects(o) ==
  /\ corrections < MaxCorrections /\ o # offset
  /\ offset' = o /\ corrections' = corrections + 1
  /\ UNCHANGED <<clock, wallet, loop, first_run, chain, history>>

Room == Cardinality(DOMAIN state) <= MaxBlocks

Next ==
  \/ delegate_loop \/ connections_set \/ slot_missed \/ block_refused
  \/ Room /\ block_produced
  \/ Room /\ \E parent \in DOMAIN state, slot \in 1 .. MaxSlot :
       on_new_block(parent, slot)
  \/ wallet_lock \/ wallet_unlock \/ clock_ticks
  \/ \E o \in Offsets : ntp_corrects(o)

Spec == Init /\ [][Next]_vars

-----------------------------------------------------------------------------
(* Properties.                                                             *)

(* A delegate signs at most one block for a slot, on whatever forks its    *)
(* client was, unless the clock was corrected between the two: only then   *)
(* the loop comes twice to one slot.                                       *)
OneBlockPerSlot ==
  \A p, q \in signed : slot_of(p.block) = slot_of(q.block) /\ p # q => p.corrections # q.corrections

(* The chain accepts what the client signs: on every fork the secret that  *)
(* the wallet reveals is the one committed to on that fork.  The           *)
(* exceptions: a block for the slot, or a later one, arrived while the     *)
(* loop waited for the network; or the delegate has changed its active key *)
(* since its last block, after which its blocks are refused for ever.  (A  *)
(* clock set back by more than two intervals during the wait would be a    *)
(* third one.)                                                             *)
OwnBlockAccepted ==
  \A r \in refused :
    \/ r.on # <<>> /\ r.slot <= slot_of(r.on)
    \/ \E i, j \in DOMAIN r.on : i <= j /\ r.on[i].by = r.by /\ r.by \in r.on[j].rekeyed

(* Every slot from the first block to a block is counted once, as produced *)
(* or as missed, also across rounds, and a delegate's count of blocks is   *)
(* that of its blocks on the chain.                                        *)
SlotsAccounted ==
  \A b \in DOMAIN state \ {<<>>} :
    LET info == state[b].info
        by(d) == {i \in DOMAIN b : b[i].by = d}
    IN  /\ \A d \in Delegates : info[d].produced = Cardinality(by(d))
        /\ SumFunction([d \in Delegates |-> info[d].produced + info[d].missed])
             = slot_of(b) - b[1].slot + 1
=============================================================================
