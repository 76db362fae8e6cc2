----------------------- MODULE BlockProductionProofs -----------------------
(***************************************************************************)
(* Proofs about BlockProduction, for all delegates, orders of the rounds,  *)
(* block intervals and corrections of the clock.                           *)
(* Then about PendingPool, the pool its blocks are made of, for all        *)
(* transactions, fees, sizes and numbers of restarts.                      *)
(***************************************************************************)
EXTENDS BlockProduction, PendingPool, SumTheorems

(* The time that the loop has read or is scheduled for, in corrected time, *)
(* or the current one when the loop has returned.                          *)
LoopTime ==
  CASE loop.at = "idle" -> now
    [] loop.at = "scheduled" -> loop.time + offset
    [] OTHER -> loop.time

(* The loop is past the slot of every block signed since the clock was     *)
(* last corrected, also when it has returned and is started again.         *)
SlotsPassed ==
  \A p \in signed :
    /\ p.corrections <= corrections
    /\ p.corrections = corrections =>
         get_slot_start_time(slot_of(p.block) + 1) <= LoopTime

(* What the loop has read is a time that was current under some correction *)
(* of the clock, and the slot it has chosen has begun by then.             *)
Waiting ==
  /\ loop.at \in {"connecting", "counting"} => \E o \in Offsets : loop.time <= clock + o
  /\ loop.at = "counting" => loop.slot \in Nat /\ get_slot_start_time(loop.slot) <= loop.time

Produces == TypeOK /\ Waiting /\ SlotsPassed /\ OneBlockPerSlot

(* The secret that a delegate has committed to on a chain is that of its   *)
(* last block there, with the key of that time.                            *)
Committed(b) ==
  \A d \in Delegates :
    LET i == state[b].info[d]
    IN  i.produced > 0 =>
          /\ i.last_num \in DOMAIN b /\ b[i.last_num].by = d
          /\ \/ i.committed = get_secret(b, i.last_num, i.key)
             \/ \E j \in DOMAIN b : i.last_num <= j /\ d \in b[j].rekeyed

(* Nothing is counted before the first block.                              *)
Unused == \A d \in Delegates : state[<<>>].info[d].produced = 0 /\ state[<<>>].info[d].missed = 0

SteadyClock == \A o, p \in Offsets : o - p <= 2 * Interval

ChainInv == (\A b \in DOMAIN state : Committed(b)) /\ Unused /\ SlotsAccounted

-----------------------------------------------------------------------------
(* The operators.                                                          *)

(* All rounds are of the same length.                                      *)
LEMMA RoundLength == N \in Nat \ {0} /\ \A o \in Orders : Len(o) = N
BY OrdersAssumption DEF N

(* Every slot has a delegate.                                              *)
LEMMA SigneeType ==
    ASSUME NEW list \in Orders, NEW slot \in Int
    PROVE  get_slot_signee(slot, list) \in Delegates
<1>1. list \in Seq(Delegates) /\ Len(list) = N /\ N \in Nat \ {0}
  BY RoundLength, OrdersAssumption
<1>2. slot % N \in 0 .. N - 1
  BY <1>1
<1>3. (slot % N) + 1 \in 1 .. N
  BY <1>1, <1>2
<1> QED
  BY <1>1, <1>3 DEF get_slot_signee

(* The number of required confirmations stays within its bounds.           *)
LEMMA ConfirmationsType ==
    ASSUME NEW x \in Int
    PROVE  Max({1, Min({x, 3 * N})}) \in 1 .. 3 * N
<1>1. N \in Nat \ {0}
  BY RoundLength
<1> DEFINE y == Min({x, 3 * N})
<1>2. y \in {x, 3 * N} /\ y <= 3 * N
  <2>1. \E m \in {x, 3 * N} : \A k \in {x, 3 * N} : m <= k
    BY <1>1
  <2> QED
    BY <2>1 DEF Min
<1>3. y \in Int /\ y <= 3 * N
  BY <1>1, <1>2
<1> HIDE DEF y
<1> DEFINE z == Max({1, y})
<1>4. z \in {1, y} /\ z >= 1
  <2>1. \E m \in {1, y} : \A k \in {1, y} : m >= k
    BY <1>3
  <2> QED
    BY <2>1 DEF Max
<1> HIDE DEF z
<1>5. z \in 1 .. 3 * N
  BY <1>1, <1>3, <1>4
<1> QED
  BY <1>5 DEF y, z

(* A number of slots is a natural number.                                  *)
LEMMA MissedSlotsType ==
    ASSUME NEW parent \in Seq(Header), NEW slot \in Nat
    PROVE  /\ MissedSlots(parent, slot) \in SUBSET Int
           /\ IsFiniteSet(MissedSlots(parent, slot))
           /\ \A S \in SUBSET MissedSlots(parent, slot) : Cardinality(S) \in Nat
<1>1. parent # <<>> => slot_of(parent) \in Nat
  <2> SUFFICES ASSUME parent # <<>> PROVE slot_of(parent) \in Nat
    OBVIOUS
  <2>1. parent[Len(parent)] \in Header
    OBVIOUS
  <2> QED
    BY <2>1 DEF slot_of, Last, Header
<1>2. MissedSlots(parent, slot) \in SUBSET Int /\ IsFiniteSet(MissedSlots(parent, slot))
  <2>1. CASE parent = <<>>
    BY <2>1, FS_EmptySet DEF MissedSlots
  <2>2. CASE parent # <<>>
    <3>1. /\ MissedSlots(parent, slot) = slot_of(parent) + 1 .. slot - 1
          /\ slot_of(parent) + 1 \in Int /\ slot - 1 \in Int
      BY <1>1, <2>2 DEF MissedSlots
    <3> QED
      BY <3>1, FS_Interval
  <2> QED
    BY <2>1, <2>2
<1> QED
  BY <1>2, FS_Subset, FS_CardinalityType

(* The secrets of a block.                                                 *)
LEMMA SecretsType ==
    ASSUME TypeOK, NEW parent \in DOMAIN state, NEW by \in Delegates
    PROVE  sign_block(parent, by).next_secret \in Secret
<1>1. parent \in Seq(Header) /\ state[parent].info[by].key \in Nat
  BY DEF TypeOK, ChainTypeOK, State, Info
<1>2. \A k \in Nat : get_secret(parent, Len(parent) + 1, k) \in Secret
  <2>1. SubSeq(parent, 1, Len(parent) + 1 - 1) \in Seq(Header) /\ <<>> \in Seq(Header)
    BY <1>1
  <2> QED
    <3> SUFFICES ASSUME NEW k \in Nat PROVE get_secret(parent, Len(parent) + 1, k) \in Secret
      OBVIOUS
    <3> DEFINE id == IF Len(parent) + 1 > 1 THEN SubSeq(parent, 1, Len(parent) + 1 - 1) ELSE <<>>
    <3>1. id \in Seq(Header)
      BY <2>1
    <3>2. get_secret(parent, Len(parent) + 1, k) = <<k, id>>
      BY DEF get_secret
    <3> HIDE DEF id
    <3> QED
      BY <3>1, <3>2 DEF Secret
<1> QED
  BY <1>1, <1>2 DEF sign_block

-----------------------------------------------------------------------------
(* What a block changes.                                                   *)

missing(parent, slot, d) ==
  {m \in MissedSlots(parent, slot) : get_slot_signee(m, state[parent].list) = d}

(* The record of delegate d after a block.                                 *)
After(parent, slot, by, next_secret, rekeyed, d) ==
  LET i == state[parent].info[d]
  IN  [produced |-> i.produced + (IF d = by THEN 1 ELSE 0),
       missed |-> i.missed + Cardinality(missing(parent, slot, d)),
       last_num |-> IF d = by THEN Len(parent) + 1 ELSE i.last_num,
       committed |-> IF d = by THEN next_secret ELSE i.committed,
       key |-> i.key + (IF d \in rekeyed THEN 1 ELSE 0)]

Added(parent, slot, by, next_secret, list, rekeyed) ==
  LET b == Append(parent, [slot |-> slot, by |-> by, list |-> list, rekeyed |-> rekeyed])
  IN  /\ b \in Seq(Header) /\ b \notin DOMAIN state
      /\ DOMAIN state' = DOMAIN state \cup {b}
      /\ \A c \in DOMAIN state : state'[c] = state[c]
      /\ state'[b] \in State
      /\ state'[b].info
           = [d \in Delegates |-> After(parent, slot, by, next_secret, rekeyed, d)]
      /\ head' = IF Len(b) > Len(head) THEN b ELSE head

(* push_block, whatever list and changes of keys come with the block.      *)
LEMMA PushBlockAdds ==
    ASSUME TypeOK, NEW parent \in DOMAIN state, NEW slot \in Nat, NEW by \in Delegates,
           NEW next_secret \in Secret, push_block(parent, slot, by, next_secret)
    PROVE  \E list \in Orders, rekeyed \in SUBSET Delegates :
              Added(parent, slot, by, next_secret, list, rekeyed)
<1>1. parent \in Seq(Header) /\ state[parent] \in State
  BY DEF TypeOK, ChainTypeOK
<1>2. PICK list \in update_active_delegate_list(parent),
           rekeyed \in SUBSET {d \in Rekeying : state[parent].info[d].key = 0} :
        LET b == Append(parent, [slot |-> slot, by |-> by, list |-> list, rekeyed |-> rekeyed])
            after == Rekeyed([Produced(parent, slot, by, next_secret) EXCEPT !.list = list], rekeyed)
        IN  /\ b \notin DOMAIN state
            /\ state' = [c \in DOMAIN state \cup {b} |-> IF c = b THEN after ELSE state[c]]
            /\ head' = IF Len(b) > Len(head) THEN b ELSE head
  BY DEF push_block
<1>3. list \in Orders /\ rekeyed \in SUBSET Delegates
  BY <1>1, DelegatesAssumption DEF update_active_delegate_list, State
<1> DEFINE s == state[parent]
           h == [slot |-> slot, by |-> by, list |-> list, rekeyed |-> rekeyed]
           b == Append(parent, h)
           confirmations == Max({1, Min({s.required_confirmations
                              + 2 * Cardinality(MissedSlots(parent, slot)) - 1, 3 * N})})
           changed(d) == [s.info[d] EXCEPT !.missed = @ + Cardinality(missing(parent, slot, d))]
           produced == [d \in Delegates |->
                          IF d = by
                          THEN [changed(d) EXCEPT !.produced = @ + 1, !.committed = next_secret,
                                                  !.last_num = Len(parent) + 1]
                          ELSE changed(d)]
           infos == [d \in Delegates |->
                       IF d \in rekeyed THEN [produced[d] EXCEPT !.key = @ + 1] ELSE produced[d]]
           after == Rekeyed([Produced(parent, slot, by, next_secret) EXCEPT !.list = list], rekeyed)
<1>4. h \in Header /\ b \in Seq(Header)
  BY <1>1, <1>3 DEF Header
<1>5. after = [s EXCEPT !.info = infos, !.required_confirmations = confirmations, !.list = list]
  <2> DEFINE new == [s EXCEPT !.info = produced, !.required_confirmations = confirmations]
  <2>1. Produced(parent, slot, by, next_secret) = new
    BY DEF Produced, missing
  <2>2. after = [[new EXCEPT !.list = list] EXCEPT !.info = infos]
    <3>1. [new EXCEPT !.list = list].info = produced
      <4> HIDE DEF produced, confirmations
      <4> QED
        BY <1>1 DEF State
    <3> QED
      BY <2>1, <3>1 DEF Rekeyed
  <2> HIDE DEF produced, confirmations, infos
  <2>3. [[new EXCEPT !.list = list] EXCEPT !.info = infos]
          = [s EXCEPT !.info = infos, !.required_confirmations = confirmations, !.list = list]
    BY <1>1 DEF State
  <2> QED
    BY <2>2, <2>3
<1>6. infos = [d \in Delegates |-> After(parent, slot, by, next_secret, rekeyed, d)]
      /\ infos \in [Delegates -> Info]
  <2>1. ASSUME NEW d \in Delegates
        PROVE  /\ infos[d] = After(parent, slot, by, next_secret, rekeyed, d)
               /\ infos[d] \in Info
    <3>1. /\ s.info[d] \in Info
          /\ Cardinality(missing(parent, slot, d)) \in Nat
      BY <1>1, MissedSlotsType DEF State, missing
    <3>2. Len(parent) + 1 \in Nat
      BY <1>1
    <3> DEFINE i == s.info[d]
               m == i.missed + Cardinality(missing(parent, slot, d))
               c == [i EXCEPT !.missed = m]
               q == IF d = by THEN [c EXCEPT !.produced = @ + 1, !.committed = next_secret,
                                             !.last_num = Len(parent) + 1]
                    ELSE c
    <3>3. i \in Info /\ m \in Nat /\ next_secret \in Secret
      BY <3>1 DEF Info
    <3>4. infos[d] = IF d \in rekeyed THEN [q EXCEPT !.key = @ + 1] ELSE q
      OBVIOUS
    <3> HIDE DEF m, i
    <3>5. c \in Info /\ c.produced = i.produced /\ c.missed = m /\ c.last_num = i.last_num
          /\ c.committed = i.committed /\ c.key = i.key
      BY <3>3 DEF Info
    <3> HIDE DEF c
    <3>6. /\ q \in Info /\ q.produced = i.produced + (IF d = by THEN 1 ELSE 0) /\ q.missed = m
          /\ q.last_num = IF d = by THEN Len(parent) + 1 ELSE i.last_num
          /\ q.committed = IF d = by THEN next_secret ELSE i.committed
          /\ q.key = i.key
      <4>1. CASE d = by
        <5> DEFINE k == Len(parent) + 1
                   e == [c EXCEPT !.produced = @ + 1, !.committed = next_secret, !.last_num = k]
        <5>1. k \in Nat /\ c.produced + 1 \in Nat
          BY <3>2, <3>5 DEF Info
        <5>2. q = e
          BY <4>1
        <5> HIDE DEF k
        <5>3. /\ e \in Info /\ e.produced = c.produced + 1 /\ e.missed = c.missed
              /\ e.last_num = k /\ e.committed = next_secret /\ e.key = c.key
          BY <3>3, <3>5, <5>1 DEF Info
        <5> HIDE DEF e
        <5> QED
          BY <3>5, <4>1, <5>2, <5>3 DEF k
      <4>2. CASE d # by
        <5>1. i.produced \in Nat
          BY <3>3 DEF Info
        <5> QED
          BY <3>5, <4>2, <5>1
      <4> QED
        BY <4>1, <4>2
    <3> HIDE DEF q
    <3> DEFINE r == IF d \in rekeyed THEN [q EXCEPT !.key = @ + 1] ELSE q
    <3>7. /\ r \in Info /\ r.produced = q.produced /\ r.missed = q.missed
          /\ r.last_num = q.last_num /\ r.committed = q.committed
          /\ r.key = q.key + (IF d \in rekeyed THEN 1 ELSE 0)
      BY <3>6 DEF Info
    <3> HIDE DEF r
    <3>8. r = [produced |-> r.produced, missed |-> r.missed, last_num |-> r.last_num,
               committed |-> r.committed, key |-> r.key]
      BY <3>7 DEF Info
    <3>9. r = After(parent, slot, by, next_secret, rekeyed, d)
      BY <3>6, <3>7, <3>8 DEF After, i, m
    <3> QED
      BY <3>4, <3>7, <3>9 DEF r
  <2> QED
    BY <2>1
<1>7. confirmations \in 1 .. 3 * N
  <2>1. s.required_confirmations \in Int /\ Cardinality(MissedSlots(parent, slot)) \in Nat
    BY <1>1, MissedSlotsType, RoundLength DEF State
  <2>2. s.required_confirmations + 2 * Cardinality(MissedSlots(parent, slot)) - 1 \in Int
    BY <2>1
  <2> QED
    BY <2>2, ConfirmationsType
<1>8. after \in State /\ after.info = infos
  <2> HIDE DEF infos, confirmations, after
  <2> QED
    BY <1>1, <1>3, <1>5, <1>6, <1>7 DEF State
<1>9. /\ b \notin DOMAIN state
      /\ state' = [c \in DOMAIN state \cup {b} |-> IF c = b THEN after ELSE state[c]]
      /\ head' = IF Len(b) > Len(head) THEN b ELSE head
  BY <1>2
<1>10. Added(parent, slot, by, next_secret, list, rekeyed)
  <2> HIDE DEF after, infos
  <2> QED
    BY <1>4, <1>6, <1>8, <1>9 DEF Added
<1> QED
  BY <1>3, <1>10

-----------------------------------------------------------------------------
(* The loop.                                                               *)

Loop == [at : {"idle", "scheduled", "connecting", "counting"}, time : Int, slot : Int]

(* A finite set of numbers has a least element.                            *)
LEMMA LeastElement ==
    ASSUME NEW S \in SUBSET Int, IsFiniteSet(S), S # {}
    PROVE  Min(S) \in S
<1> DEFINE G == {s \in SUBSET S : s # {} => \E m \in s : \A k \in s : m <= k}
<1>1. ASSUME NEW t \in SUBSET S, \A u \in SUBSET t : u # t => u \in G
      PROVE  t \in G
  <2>1. ASSUME t # {} PROVE \E m \in t : \A k \in t : m <= k
    <3>1. PICK x \in t : TRUE
      BY <2>1
    <3>2. t \ {x} \in G
      BY <1>1, <3>1
    <3>3. CASE t \ {x} = {}
      BY <3>1, <3>3
    <3>4. CASE t \ {x} # {}
      <4>1. PICK m \in t \ {x} : \A k \in t \ {x} : m <= k
        BY <3>2, <3>4
      <4>2. m \in Int /\ x \in Int /\ \A k \in t : k \in Int
        OBVIOUS
      <4>3. CASE m <= x
        BY <4>1, <4>2, <4>3
      <4>4. CASE x <= m
        <5>1. \A k \in t : x <= k
          BY <4>1, <4>2, <4>4
        <5> QED
          BY <5>1
      <4> QED
        BY <4>2, <4>3, <4>4
    <3> QED
      BY <3>3, <3>4
  <2> QED
    BY <2>1
<1>2. S \in G
  <2> HIDE DEF G
  <2> QED
    BY <1>1, SubsetInduction
<1> QED
  BY <1>2 DEF Min

(* The slot of a time, and the order of slots.                             *)
LEMMA SlotArithmetic ==
    ASSUME NEW t \in Int, NEW a \in Int
    PROVE  /\ get_slot_number(t) \in Int /\ get_slot_start_time(a) \in Int
           /\ t < get_slot_start_time(get_slot_number(t) + 1)
           /\ get_slot_start_time(a) <= t /\ t - get_slot_start_time(a) < Interval =>
                /\ get_slot_number(t) = a
                /\ \A b \in Int : get_slot_start_time(b + 1) <= t => b < a
<1>1. Interval \in Nat \ {0}
  BY TimesAssumption
<1> DEFINE q == t \div Interval
<1>2. q \in Int /\ q * Interval <= t /\ t < q * Interval + Interval
  BY <1>1
<1> HIDE DEF q
<1>3. \A x, y \in Int : x * Interval < y * Interval + Interval => x <= y
  <2> SUFFICES ASSUME NEW x \in Int, NEW y \in Int, x * Interval < y * Interval + Interval, x > y
               PROVE  FALSE
    BY Z3
  <2>1. x - y - 1 \in Nat /\ (x - y - 1) * Interval \in Nat
    BY <1>1
  <2>2. (x - y - 1) * Interval = x * Interval - y * Interval - Interval
    BY <1>1
  <2>3. x * Interval \in Int /\ y * Interval \in Int
    BY <1>1
  <2> QED
    BY <1>1, <2>1, <2>2, <2>3
<1>4. (q + 1) * Interval = q * Interval + Interval
  BY <1>1, <1>2
<1>5. ASSUME a * Interval <= t, t - a * Interval < Interval PROVE q = a
  <2>1. a * Interval \in Int /\ q * Interval \in Int
    BY <1>1, <1>2
  <2>2. a * Interval < q * Interval + Interval /\ q * Interval < a * Interval + Interval
    BY <1>1, <1>2, <1>5, <2>1
  <2>3. a <= q /\ q <= a
    BY <1>2, <1>3, <2>2
  <2> QED
    BY <1>2, <2>3
<1>6. ASSUME a * Interval <= t, t - a * Interval < Interval,
             NEW b \in Int, (b + 1) * Interval <= t
      PROVE  b < a
  <2>1. a * Interval \in Int /\ (b + 1) * Interval \in Int /\ b + 1 \in Int
    BY <1>1
  <2>2. (b + 1) * Interval < a * Interval + Interval
    BY <1>1, <1>6, <2>1
  <2>3. b + 1 <= a
    BY <1>3, <2>1, <2>2
  <2> QED
    BY <2>3
<1>7. a * Interval \in Int
  BY <1>1
<1> QED
  BY <1>2, <1>4, <1>5, <1>6, <1>7 DEF get_slot_number, get_slot_start_time, q

(* The current time is not before the epoch.                               *)
LEMMA NowType == TypeOK => now \in Nat
BY TimesAssumption DEF TypeOK, now

(* The slot that the loop may choose.                                      *)
LEMMA NextSlotType ==
    ASSUME TypeOK, get_next_producible_block_timestamp # None
    PROVE  get_next_producible_block_timestamp \in Nat
<1> DEFINE this == get_slot_number(now)
           used == IF head = <<>> THEN this - 1 ELSE slot_of(head)
           first == IF this <= used THEN this + 1 ELSE this
           own == {s \in first .. first + N - 1 : get_slot_signee(s, state[head].list) \in Mine}
<1>1. this \in Nat
  <2>1. now \in Nat /\ Interval \in Nat \ {0}
    BY NowType, TimesAssumption
  <2> QED
    BY <2>1 DEF get_slot_number
<1>2. first \in Nat
  <2> HIDE DEF this, used
  <2> QED
    BY <1>1
<1>3. N \in Nat \ {0}
  BY RoundLength
<1> HIDE DEF first
<1>4. first + N - 1 \in Int /\ IsFiniteSet(first .. first + N - 1)
  BY <1>2, <1>3, FS_Interval
<1>5. own \in SUBSET Nat /\ IsFiniteSet(own)
  BY <1>2, <1>4, FS_Subset
<1>6. get_next_producible_block_timestamp = IF unlocked /\ own # {} THEN Min(own) ELSE None
  BY DEF get_next_producible_block_timestamp, first
<1> HIDE DEF own
<1>7. CASE unlocked /\ own # {}
  <2>1. own \in SUBSET Int
    BY <1>5
  <2> QED
    BY <1>5, <1>6, <1>7, <2>1, LeastElement
<1> QED
  BY <1>6, <1>7

(* The loop is scheduled for the next slot, or for a later time.           *)
LEMMA RescheduleType ==
    ASSUME TypeOK, NEW read \in Int, Reschedule(read)
    PROVE  /\ loop' \in Loop /\ loop'.at = "scheduled"
           /\ get_slot_start_time(get_slot_number(read) + 1) <= loop'.time + offset
           /\ read <= loop'.time + offset
<1> DEFINE s == get_slot_start_time(get_slot_number(read) + 1)
           t == s - offset
<1>1. clock \in Int /\ offset \in Int
  BY TimesAssumption DEF TypeOK
<1>2. s \in Int
  <2>1. read \div Interval \in Int /\ Interval \in Int
    BY TimesAssumption
  <2>2. get_slot_number(read) + 1 \in Int
    BY <2>1 DEF get_slot_number
  <2> QED
    BY <2>1, <2>2 DEF get_slot_start_time
<1>3. loop' = Scheduled(IF s - offset <= clock THEN clock + 1 ELSE s - offset)
  BY DEF Reschedule
<1> HIDE DEF s
<1>4. loop' \in Loop /\ loop'.at = "scheduled" /\ s <= loop'.time + offset /\ loop'.time \in Int
  <2> DEFINE u == IF s - offset <= clock THEN clock + 1 ELSE s - offset
  <2>1. u \in Int /\ s <= u + offset
    BY <1>1, <1>2
  <2> HIDE DEF u
  <2>2. loop' = [at |-> "scheduled", time |-> u, slot |-> None]
    BY <1>3 DEF Scheduled, u
  <2> QED
    BY <2>1, <2>2 DEF Loop, None
<1>5. read <= s
  BY SlotArithmetic, <1>2 DEF s
<1> QED
  BY <1>1, <1>2, <1>4, <1>5 DEF s

(* The loop decides: it waits for the network with a slot that has begun,  *)
(* or is scheduled again.                                                  *)
LEMMA DecideType ==
    ASSUME TypeOK, NEW read \in Int, Decide(read)
    PROVE  /\ loop' \in Loop
           /\ \/ /\ loop'.at = "counting" /\ loop'.time = read /\ loop'.slot \in Nat
                 /\ get_slot_start_time(loop'.slot) <= read
              \/ Reschedule(read)
<1> DEFINE slot == get_next_producible_block_timestamp
<1>1. CASE slot # None /\ get_slot_start_time(slot) <= read
  <2>1. slot \in Nat
    BY <1>1, NextSlotType
  <2>2. loop' = [at |-> "counting", time |-> read, slot |-> slot]
    BY <1>1 DEF Decide
  <2> HIDE DEF slot
  <2> QED
    BY <1>1, <2>1, <2>2 DEF Loop
<1>2. CASE ~(slot # None /\ get_slot_start_time(slot) <= read)
  BY <1>2, RescheduleType DEF Decide
<1> QED
  BY <1>1, <1>2

-----------------------------------------------------------------------------
(* One block per slot.                                                     *)

(* The initial state.                                                      *)
LEMMA InitProduces == Init => Produces
<1> SUFFICES ASSUME Init PROVE Produces
  OBVIOUS
<1>1. PICK o \in Orders : state = [b \in {<<>>} |-> Genesis(o)]
  BY DEF Init
<1>2. Genesis(o) \in State
  <2>1. 2 * N \in 1 .. 3 * N
    BY RoundLength
  <2>2. [d \in Delegates |->
           [produced |-> 0, missed |-> 0, last_num |-> 0, committed |-> <<>>, key |-> 0]]
             \in [Delegates -> Info]
    BY DEF Info
  <2> QED
    BY <2>1, <2>2 DEF Genesis, State
<1>3. ChainTypeOK
  <2>1. DOMAIN state = {<<>>} /\ state[<<>>] = Genesis(o) /\ head = <<>> /\ <<>> \in Seq(Header)
    BY <1>1 DEF Init
  <2> HIDE DEF Genesis
  <2> QED
    BY <1>2, <2>1 DEF ChainTypeOK
<1>4. loop \in Loop /\ loop.at = "scheduled"
  BY TimesAssumption DEF Init, Scheduled, Loop, None
<1>5. TypeOK
  BY <1>3, <1>4, TimesAssumption, BoundsAssumption DEF Init, TypeOK, Loop
<1> QED
  BY <1>4, <1>5 DEF Init, Produces, Waiting, SlotsPassed, OneBlockPerSlot

(* Times are numbers.                                                      *)
LEMMA LoopTimeType ==
    /\ TypeOK => LoopTime \in Int /\ clock \in Int /\ offset \in Int /\ loop \in Loop
                 /\ loop.time \in Int /\ now \in Int /\ corrections \in Nat
    /\ TypeOK' => LoopTime' \in Int
<1>1. Offsets \subseteq Int /\ MaxCorrections \in Nat
  BY TimesAssumption, BoundsAssumption
<1>2. TypeOK => LoopTime \in Int /\ clock \in Int /\ offset \in Int /\ loop \in Loop
                /\ loop.time \in Int /\ now \in Int /\ corrections \in Nat
  BY <1>1 DEF TypeOK, LoopTime, now, Loop
<1>3. TypeOK' => LoopTime' \in Int
  BY <1>1 DEF TypeOK, LoopTime, now
<1> QED
  BY <1>2, <1>3

(* A block other than the first state has a slot.                          *)
LEMMA SlotType == TypeOK => \A b \in DOMAIN state \ {<<>>} : slot_of(b) \in Nat
<1> SUFFICES ASSUME TypeOK, NEW b \in DOMAIN state \ {<<>>} PROVE slot_of(b) \in Nat
  OBVIOUS
<1>1. b \in Seq(Header) /\ b # <<>>
  BY DEF TypeOK, ChainTypeOK
<1>2. b[Len(b)] \in Header
  BY <1>1
<1> QED
  BY <1>2 DEF slot_of, Last, Header

(* The loop never goes back.                                               *)
LEMMA Forward ==
    ASSUME Produces, TypeOK', Waiting', UNCHANGED <<signed, corrections>>, LoopTime <= LoopTime'
    PROVE  Produces'
<1>1. LoopTime \in Int /\ LoopTime' \in Int
  BY LoopTimeType DEF Produces
<1>2. \A p \in signed : get_slot_start_time(slot_of(p.block) + 1) \in Int
  <2> SUFFICES ASSUME NEW p \in signed PROVE get_slot_start_time(slot_of(p.block) + 1) \in Int
    OBVIOUS
  <2>1. slot_of(p.block) + 1 \in Int
    BY SlotType DEF Produces, TypeOK
  <2> QED
    BY <2>1, SlotArithmetic
<1>3. SlotsPassed'
  <2> SUFFICES ASSUME NEW p \in signed
               PROVE  /\ p.corrections <= corrections'
                      /\ p.corrections = corrections' =>
                           get_slot_start_time(slot_of(p.block) + 1) <= LoopTime'
    BY DEF SlotsPassed, slot_of, get_slot_start_time
  <2>1. /\ p.corrections <= corrections
        /\ p.corrections = corrections => get_slot_start_time(slot_of(p.block) + 1) <= LoopTime
    BY DEF Produces, SlotsPassed
  <2>2. get_slot_start_time(slot_of(p.block) + 1) \in Int
    BY <1>2
  <2> QED
    BY <1>1, <2>1, <2>2
<1>4. OneBlockPerSlot'
  BY DEF Produces, OneBlockPerSlot, slot_of
<1> QED
  BY <1>3, <1>4 DEF Produces

(* The loop runs, and returns, asks for connections or decides.            *)
LEMMA DelegateLoopProduces == Produces /\ delegate_loop => Produces'
<1> SUFFICES ASSUME Produces, delegate_loop PROVE Produces'
  OBVIOUS
<1>1. TypeOK /\ now \in Nat
  BY NowType DEF Produces
<1>2. /\ UNCHANGED <<time, wallet, chain, history>> /\ loop.at = "scheduled" /\ loop.time <= clock
      /\ first_run' = (first_run /\ ~unlocked)
  BY DEF delegate_loop
<1>3. /\ clock \in Int /\ offset \in Int /\ loop.time \in Int
      /\ offset' = offset /\ clock' = clock /\ now = clock + offset
      /\ LoopTime = loop.time + offset /\ LoopTime <= now /\ now \in Int /\ LoopTime \in Int
  BY <1>1, <1>2, LoopTimeType DEF time, LoopTime, now
<1>4. loop' \in Loop /\ Waiting' /\ LoopTime <= LoopTime'
  <2>1. CASE loop' = Idle
    <3>1. loop' \in Loop /\ loop'.at = "idle"
      BY <2>1 DEF Idle, Loop, None
    <3>2. LoopTime' = now
      BY <1>3, <3>1 DEF LoopTime, now
    <3> QED
      BY <1>3, <3>1, <3>2 DEF Waiting
  <2>2. CASE loop' = [at |-> "connecting", time |-> now, slot |-> None]
    <3>1. loop' \in Loop /\ loop'.at = "connecting" /\ loop'.time = now
      BY <1>1, <2>2 DEF Loop, None
    <3>2. LoopTime' = now
      BY <3>1 DEF LoopTime
    <3>3. offset \in Offsets /\ now <= clock' + offset
      BY <1>1, <1>3 DEF TypeOK
    <3> QED
      BY <1>3, <3>1, <3>2, <3>3 DEF Waiting
  <2>3. CASE Decide(now)
    <3>1. loop' \in Loop
      BY <1>1, <2>3, DecideType
    <3>2. CASE /\ loop'.at = "counting" /\ loop'.time = now /\ loop'.slot \in Nat
               /\ get_slot_start_time(loop'.slot) <= now
      <4>1. LoopTime' = now
        BY <3>2 DEF LoopTime
      <4>2. offset \in Offsets /\ now <= clock' + offset
        BY <1>1, <1>3 DEF TypeOK
      <4> QED
        BY <1>3, <3>1, <3>2, <4>1, <4>2 DEF Waiting, get_slot_start_time
    <3>3. CASE Reschedule(now)
      <4>1. loop' \in Loop /\ loop'.at = "scheduled" /\ now <= loop'.time + offset
        BY <1>1, <3>3, RescheduleType
      <4>2. LoopTime' = loop'.time + offset /\ loop'.time \in Int
        BY <1>3, <4>1 DEF LoopTime, Loop
      <4> QED
        BY <1>3, <4>1, <4>2 DEF Waiting
    <3> QED
      BY <1>1, <2>3, <3>2, <3>3, DecideType
  <2> QED
    BY <2>1, <2>2, <2>3 DEF delegate_loop
<1>5. TypeOK'
  BY <1>1, <1>2, <1>4 DEF TypeOK, ChainTypeOK, Loop, time, wallet, chain, history
<1>6. UNCHANGED <<signed, corrections>>
  BY <1>2 DEF time, history
<1> QED
  BY <1>4, <1>5, <1>6, Forward

(* The loop decides once the number of connections is set.                 *)
LEMMA ConnectionsSetProduces == Produces /\ connections_set => Produces'
<1> SUFFICES ASSUME Produces, connections_set PROVE Produces'
  OBVIOUS
<1>1. TypeOK /\ loop.at = "connecting" /\ Decide(loop.time)
      /\ UNCHANGED <<time, wallet, first_run, chain, history>>
  BY DEF connections_set, Produces
<1>2. /\ loop.time \in Int /\ offset \in Int /\ offset' = offset /\ clock' = clock
      /\ LoopTime = loop.time
  BY <1>1, LoopTimeType DEF time, LoopTime
<1>3. PICK o \in Offsets : loop.time <= clock + o
  BY <1>1 DEF Produces, Waiting
<1>4. loop' \in Loop /\ Waiting' /\ LoopTime <= LoopTime'
  <2>1. CASE /\ loop'.at = "counting" /\ loop'.time = loop.time /\ loop'.slot \in Nat
             /\ get_slot_start_time(loop'.slot) <= loop.time
    <3>1. LoopTime' = loop.time
      BY <2>1 DEF LoopTime
    <3> QED
      BY <1>1, <1>2, <1>3, <2>1, <3>1, DecideType DEF Waiting, get_slot_start_time
  <2>2. CASE Reschedule(loop.time)
    <3>1. loop' \in Loop /\ loop'.at = "scheduled" /\ loop.time <= loop'.time + offset
      BY <1>1, <1>2, <2>2, RescheduleType
    <3>2. LoopTime' = loop'.time + offset
      BY <1>2, <3>1 DEF LoopTime
    <3> QED
      BY <1>2, <3>1, <3>2 DEF Waiting
  <2> QED
    BY <1>1, <1>2, <2>1, <2>2, DecideType
<1>5. TypeOK'
  BY <1>1, <1>4 DEF TypeOK, ChainTypeOK, Loop, time, wallet, chain, history
<1>6. UNCHANGED <<signed, corrections>>
  BY <1>1 DEF time, history
<1> QED
  BY <1>4, <1>5, <1>6, Forward

(* A loop that is scheduled again has gone forward.                        *)
LEMMA RescheduleForward ==
    ASSUME Produces, loop.at = "counting", Reschedule(loop.time), UNCHANGED time
    PROVE  loop' \in Loop /\ Waiting' /\ LoopTime <= LoopTime'
<1>1. TypeOK
  BY DEF Produces
<1>2. loop.time \in Int /\ offset' = offset /\ LoopTime = loop.time
  BY <1>1, LoopTimeType DEF time, LoopTime
<1>3. loop' \in Loop /\ loop'.at = "scheduled" /\ loop.time <= loop'.time + offset
  BY <1>1, <1>2, RescheduleType
<1>4. LoopTime' = loop'.time + offset
  BY <1>2, <1>3 DEF LoopTime
<1> QED
  BY <1>2, <1>3, <1>4 DEF Waiting

(* A slot is given up.                                                     *)
LEMMA SlotMissedProduces == Produces /\ slot_missed => Produces'
<1> SUFFICES ASSUME Produces, slot_missed PROVE Produces'
  OBVIOUS
<1>1. /\ loop.at = "counting" /\ Reschedule(loop.time)
      /\ UNCHANGED <<time, wallet, first_run, chain, history>>
  BY DEF slot_missed
<1>2. loop' \in Loop /\ Waiting' /\ LoopTime <= LoopTime'
  BY <1>1, RescheduleForward
<1>3. TypeOK'
  BY <1>1, <1>2 DEF Produces, TypeOK, ChainTypeOK, Loop, time, wallet, chain, history
<1>4. UNCHANGED <<signed, corrections>>
  BY <1>1 DEF time, history
<1> QED
  BY <1>2, <1>3, <1>4, Forward

(* A block is refused.                                                     *)
LEMMA BlockRefusedProduces == Produces /\ block_refused => Produces'
<1> SUFFICES ASSUME Produces, block_refused PROVE Produces'
  OBVIOUS
<1> DEFINE by == get_slot_signee(loop.slot, state[head].list)
<1>1. /\ loop.at = "counting" /\ by \in Mine /\ Reschedule(loop.time)
      /\ refused' = refused \cup {[on |-> head, slot |-> loop.slot, by |-> by]}
      /\ UNCHANGED <<time, wallet, first_run, chain, signed>>
  BY DEF block_refused
<1>2. loop' \in Loop /\ Waiting' /\ LoopTime <= LoopTime'
  BY <1>1, RescheduleForward
<1>3. loop.slot \in Nat /\ head \in DOMAIN state
  BY <1>1 DEF Produces, Waiting, TypeOK, ChainTypeOK
<1> HIDE DEF by
<1>4. TypeOK'
  BY <1>1, <1>2, <1>3 DEF Produces, TypeOK, ChainTypeOK, Loop, time, wallet, chain
<1>5. UNCHANGED <<signed, corrections>>
  BY <1>1 DEF time
<1> QED
  BY <1>2, <1>4, <1>5, Forward

(* A block is added to the known ones.                                     *)
LEMMA AddedType ==
    ASSUME TypeOK, NEW parent \in DOMAIN state, NEW slot \in Nat, NEW by \in Delegates,
           NEW next_secret \in Secret, NEW list \in Orders, NEW rekeyed \in SUBSET Delegates,
           Added(parent, slot, by, next_secret, list, rekeyed)
    PROVE  LET b == Append(parent, [slot |-> slot, by |-> by, list |-> list, rekeyed |-> rekeyed])
           IN  /\ ChainTypeOK' /\ DOMAIN state \subseteq DOMAIN state' /\ b \in DOMAIN state'
               /\ b # <<>> /\ Len(b) = Len(parent) + 1 /\ slot_of(b) = slot
               /\ parent = head => head' = b
<1> DEFINE h == [slot |-> slot, by |-> by, list |-> list, rekeyed |-> rekeyed]
           b == Append(parent, h)
<1>1. parent \in Seq(Header) /\ h \in Header /\ head \in Seq(Header)
  BY DEF TypeOK, ChainTypeOK, Header
<1>2. /\ b \in Seq(Header) /\ b \notin DOMAIN state /\ DOMAIN state' = DOMAIN state \cup {b}
      /\ \A c \in DOMAIN state : state'[c] = state[c]
      /\ state'[b] \in State /\ head' = IF Len(b) > Len(head) THEN b ELSE head
  BY DEF Added
<1>3. h.slot = slot
  OBVIOUS
<1> HIDE DEF h
<1>4. b # <<>> /\ Len(b) = Len(parent) + 1 /\ Front(b) = parent /\ Last(b) = h
  BY <1>1 DEF Front, Last
<1> HIDE DEF b
<1>5. ChainTypeOK'
  BY <1>2, <1>4 DEF TypeOK, ChainTypeOK
<1>6. parent = head => head' = b
  BY <1>1, <1>2, <1>4
<1> QED
  BY <1>2, <1>3, <1>4, <1>5, <1>6 DEF slot_of, b, h

(* A block of another delegate arrives.                                    *)
LEMMA OnNewBlockProduces ==
    ASSUME Produces, NEW parent \in DOMAIN state, NEW slot \in Nat, on_new_block(parent, slot)
    PROVE  Produces'
<1> DEFINE by == get_slot_signee(slot, state[parent].list)
           next_secret == sign_block(parent, by).next_secret
<1>1. TypeOK /\ parent \in Seq(Header) /\ state[parent].list \in Orders
  BY DEF Produces, TypeOK, ChainTypeOK, State
<1>2. by \in Delegates /\ next_secret \in Secret
  BY <1>1, SigneeType, SecretsType
<1>3. push_block(parent, slot, by, next_secret) /\ UNCHANGED <<time, wallet, loop, first_run, history>>
  BY DEF on_new_block
<1> HIDE DEF by, next_secret
<1>4. ChainTypeOK' /\ DOMAIN state \subseteq DOMAIN state'
  BY <1>1, <1>2, <1>3, PushBlockAdds, AddedType
<1>5. TypeOK'
  BY <1>1, <1>3, <1>4 DEF TypeOK, time, wallet, history
<1>6. Waiting' /\ LoopTime' = LoopTime /\ LoopTime \in Int
  BY <1>1, <1>3, LoopTimeType
     DEF Produces, Waiting, LoopTime, time, now, get_slot_start_time
<1>7. UNCHANGED <<signed, corrections>> /\ LoopTime <= LoopTime'
  BY <1>3, <1>6 DEF time, history
<1> QED
  BY <1>5, <1>6, <1>7, Forward

(* A block is produced: the loop is past the slots of the earlier ones.    *)
LEMMA BlockProducedProduces == Produces /\ block_produced => Produces'
<1> SUFFICES ASSUME Produces, block_produced PROVE Produces'
  OBVIOUS
<1> DEFINE by == get_slot_signee(loop.slot, state[head].list)
           next_secret == sign_block(head, by).next_secret
           q == [block |-> head', corrections |-> corrections]
<1>1. /\ TypeOK /\ head \in DOMAIN state /\ state[head].list \in Orders
      /\ loop.at = "counting" /\ InTime /\ Reschedule(loop.time)
      /\ push_block(head, loop.slot, by, next_secret) /\ signed' = signed \cup {q}
      /\ UNCHANGED <<time, wallet, first_run, refused>>
  BY DEF block_produced, Produces, TypeOK, ChainTypeOK, State
<1>2. loop.slot \in Nat /\ get_slot_start_time(loop.slot) <= loop.time
  BY <1>1 DEF Produces, Waiting
<1>3. by \in Delegates /\ next_secret \in Secret
  <2>1. by \in Delegates
    BY <1>1, <1>2, SigneeType
  <2> HIDE DEF by
  <2> QED
    BY <1>1, <2>1, SecretsType
<1> HIDE DEF by, next_secret
<1>4. /\ ChainTypeOK' /\ DOMAIN state \subseteq DOMAIN state'
      /\ head' \in DOMAIN state' /\ head' # <<>> /\ slot_of(head') = loop.slot
  <2>1. PICK list \in Orders, rekeyed \in SUBSET Delegates :
          Added(head, loop.slot, by, next_secret, list, rekeyed)
    BY <1>1, <1>2, <1>3, PushBlockAdds
  <2>2. LET b == Append(head, [slot |-> loop.slot, by |-> by, list |-> list, rekeyed |-> rekeyed])
        IN  /\ ChainTypeOK' /\ DOMAIN state \subseteq DOMAIN state' /\ b \in DOMAIN state'
            /\ b # <<>> /\ slot_of(b) = loop.slot /\ head' = b
    BY <1>1, <1>2, <1>3, <2>1, AddedType
  <2> QED
    BY <2>2
<1>5. loop' \in Loop /\ Waiting' /\ LoopTime <= LoopTime'
  BY <1>1, RescheduleForward
<1>6. TypeOK'
  <2>1. q \in [block : DOMAIN state' \ {<<>>}, corrections : 0 .. MaxCorrections]
    BY <1>1, <1>4 DEF TypeOK
  <2> HIDE DEF q
  <2> QED
    BY <1>1, <1>4, <1>5, <2>1 DEF TypeOK, Loop, time, wallet
<1>7. /\ loop.time \in Int /\ offset \in Int /\ LoopTime = loop.time /\ LoopTime' \in Int
      /\ corrections \in Nat
  BY <1>1, <1>6, LoopTimeType DEF LoopTime
<1>8. get_slot_number(loop.time) = loop.slot
      /\ \A b \in Int : get_slot_start_time(b + 1) <= loop.time => b < loop.slot
  <2>1. loop.time - get_slot_start_time(loop.slot) < Interval /\ loop.slot \in Int
    BY <1>1, <1>2 DEF InTime
  <2> QED
    BY <1>2, <1>7, <2>1, SlotArithmetic
<1>9. get_slot_start_time(loop.slot + 1) <= LoopTime'
  <2>1. loop'.at = "scheduled" /\ offset' = offset
        /\ get_slot_start_time(get_slot_number(loop.time) + 1) <= loop'.time + offset
    BY <1>1, <1>7, RescheduleType DEF time
  <2> QED
    BY <1>8, <2>1 DEF LoopTime
<1>10. ASSUME NEW p \in signed
       PROVE  /\ p.corrections <= corrections
              /\ slot_of(p.block) \in Nat
              /\ p.corrections = corrections =>
                   /\ get_slot_start_time(slot_of(p.block) + 1) <= LoopTime'
                   /\ slot_of(p.block) < loop.slot
  <2>1. slot_of(p.block) \in Nat
    BY <1>1, SlotType DEF TypeOK
  <2>2. get_slot_start_time(slot_of(p.block) + 1) \in Int
    BY <2>1, SlotArithmetic
  <2>3. /\ p.corrections <= corrections
        /\ p.corrections = corrections => get_slot_start_time(slot_of(p.block) + 1) <= loop.time
    BY <1>7 DEF Produces, SlotsPassed
  <2> QED
    BY <1>5, <1>7, <1>8, <2>1, <2>2, <2>3
<1>11. SlotsPassed'
  <2> SUFFICES ASSUME NEW p \in signed'
               PROVE  /\ p.corrections <= corrections
                      /\ p.corrections = corrections =>
                           get_slot_start_time(slot_of(p.block) + 1) <= LoopTime'
    BY <1>1 DEF SlotsPassed, time, slot_of, get_slot_start_time
  <2>1. CASE p \in signed
    BY <1>10, <2>1
  <2>2. CASE p = q
    BY <1>4, <1>7, <1>9, <2>2
  <2> QED
    BY <1>1, <2>1, <2>2
<1>12. OneBlockPerSlot'
  <2> SUFFICES ASSUME NEW p \in signed', NEW r \in signed',
                      slot_of(p.block) = slot_of(r.block), p # r
               PROVE  p.corrections # r.corrections
    BY DEF OneBlockPerSlot, slot_of
  <2>1. slot_of(q.block) = loop.slot /\ q.corrections = corrections
    BY <1>4
  <2> HIDE DEF q
  <2>2. CASE p \in signed /\ r \in signed
    BY <2>2 DEF Produces, OneBlockPerSlot
  <2>3. CASE p \in signed /\ r = q
    BY <1>2, <1>10, <2>1, <2>3
  <2>4. CASE p = q /\ r \in signed
    BY <1>2, <1>10, <2>1, <2>4
  <2> QED
    BY <1>1, <2>2, <2>3, <2>4
<1> QED
  BY <1>5, <1>6, <1>11, <1>12 DEF Produces

(* The wallet is locked or unlocked; unlocking starts the loop at once.    *)
LEMMA WalletProduces == Produces /\ (wallet_lock \/ wallet_unlock) => Produces'
<1> SUFFICES ASSUME Produces, wallet_lock \/ wallet_unlock PROVE Produces'
  OBVIOUS
<1>1. /\ TypeOK /\ UNCHANGED <<time, first_run, chain, history>>
      /\ loop' = loop \/ (loop = Idle /\ loop' = Scheduled(clock))
  BY DEF wallet_lock, wallet_unlock, Produces
<1>2. unlocked' \in BOOLEAN /\ locks' \in 0 .. MaxLocks
  <2>1. unlocked' \in BOOLEAN
    BY DEF wallet_lock, wallet_unlock
  <2>2. locks \in 0 .. MaxLocks /\ MaxLocks \in Nat
    BY BoundsAssumption DEF Produces, TypeOK
  <2>3. locks' = locks \/ (locks < MaxLocks /\ locks' = locks + 1)
    BY DEF wallet_lock, wallet_unlock
  <2> QED
    BY <2>1, <2>2, <2>3
<1>3. /\ loop \in Loop /\ clock \in Int /\ LoopTime \in Int /\ clock' = clock /\ offset' = offset
      /\ corrections' = corrections
  BY <1>1, LoopTimeType DEF time
<1>4. loop' \in Loop /\ Waiting' /\ LoopTime <= LoopTime'
  <2>1. CASE loop' = loop
    BY <1>3, <2>1 DEF Produces, Waiting, LoopTime, now, get_slot_start_time
  <2>2. CASE loop = Idle /\ loop' = Scheduled(clock)
    <3>1. /\ loop' \in Loop /\ loop'.at = "scheduled" /\ loop'.time = clock /\ loop.at = "idle"
      BY <1>3, <2>2 DEF Scheduled, Idle, Loop, None
    <3>2. LoopTime' = clock + offset /\ LoopTime = clock + offset
      BY <1>3, <3>1 DEF LoopTime, now
    <3> QED
      BY <1>3, <3>1, <3>2 DEF Waiting
  <2> QED
    BY <1>1, <2>1, <2>2
<1>5. TypeOK'
  BY <1>1, <1>2, <1>4 DEF TypeOK, ChainTypeOK, Loop, time, chain, history
<1> QED
  BY <1>1, <1>3, <1>4, <1>5, Forward DEF history

(* Time passes.                                                            *)
LEMMA ClockProduces == Produces /\ clock_ticks => Produces'
<1> SUFFICES ASSUME Produces, clock_ticks PROVE Produces'
  OBVIOUS
<1>1. /\ TypeOK /\ clock' = clock + 1
      /\ UNCHANGED <<offset, corrections, wallet, loop, first_run, chain, history>>
  BY DEF clock_ticks, Produces
<1>2. /\ clock \in Int /\ offset \in Int /\ loop \in Loop /\ LoopTime \in Int /\ loop.time \in Int
  BY <1>1, LoopTimeType
<1>3. TypeOK'
  BY <1>1, TimesAssumption DEF TypeOK, ChainTypeOK, wallet, chain, history
<1>4. LoopTime <= LoopTime'
  BY <1>1, <1>2 DEF LoopTime, now
<1>5. Waiting'
  <2>1. ASSUME NEW o \in Offsets, loop.time <= clock + o PROVE loop'.time <= clock' + o
    BY <1>1, <1>2, <2>1, TimesAssumption
  <2> QED
    BY <1>1, <2>1 DEF Produces, Waiting, get_slot_start_time
<1> QED
  BY <1>1, <1>3, <1>4, <1>5, Forward DEF history

(* The clock is corrected: earlier blocks no longer count.                 *)
LEMMA NtpProduces == \A o \in Offsets : Produces /\ ntp_corrects(o) => Produces'
<1> SUFFICES ASSUME NEW o \in Offsets, Produces, ntp_corrects(o) PROVE Produces'
  OBVIOUS
<1>1. /\ TypeOK /\ offset' = o /\ corrections' = corrections + 1 /\ corrections < MaxCorrections
      /\ UNCHANGED <<clock, wallet, loop, first_run, chain, history>>
  BY DEF ntp_corrects, Produces
<1>2. TypeOK'
  BY <1>1, BoundsAssumption DEF TypeOK, ChainTypeOK, wallet, chain, history
<1>3. Waiting'
  BY <1>1 DEF Produces, Waiting, get_slot_start_time
<1>4. SlotsPassed'
  <2>1. signed' = signed /\ \A p \in signed : p.corrections \in Int
    BY <1>1, BoundsAssumption DEF TypeOK, history
  <2>2. \A p \in signed : p.corrections < corrections'
    BY <1>1, <2>1 DEF Produces, SlotsPassed, TypeOK
  <2>3. corrections' \in Int
    BY <1>1 DEF TypeOK
  <2> QED
    BY <2>1, <2>2, <2>3 DEF SlotsPassed
<1>5. OneBlockPerSlot'
  BY <1>1 DEF Produces, OneBlockPerSlot, slot_of, history
<1> QED
  BY <1>2, <1>3, <1>4, <1>5 DEF Produces

(* Every step of the client keeps it.                                      *)
LEMMA NextProduces == Produces /\ [Next]_vars => Produces'
<1> SUFFICES ASSUME Produces, [Next]_vars PROVE Produces'
  OBVIOUS
<1>1. CASE UNCHANGED vars
  BY <1>1 DEF vars, time, wallet, chain, history, Produces, TypeOK, ChainTypeOK, Waiting, SlotsPassed,
              OneBlockPerSlot, LoopTime, now, slot_of, get_slot_start_time
<1>2. ASSUME NEW parent \in DOMAIN state, NEW slot \in 1 .. MaxSlot, on_new_block(parent, slot)
      PROVE  Produces'
  BY <1>2, OnNewBlockProduces, BoundsAssumption
<1> QED
  BY <1>1, <1>2, DelegateLoopProduces, ConnectionsSetProduces, SlotMissedProduces,
     BlockRefusedProduces, BlockProducedProduces, WalletProduces, ClockProduces, NtpProduces DEF Next

(* A delegate signs at most one block for a slot, on whatever forks, while *)
(* its clock is not corrected.                                             *)
THEOREM SignsOncePerSlot == Spec => []OneBlockPerSlot
<1>1. Produces => OneBlockPerSlot
  BY DEF Produces
<1> QED
  BY <1>1, InitProduces, NextProduces, PTL DEF Spec

-----------------------------------------------------------------------------
(* The secrets that delegates have committed to.                           *)

(* A later block does not change what a secret is made of.                 *)
LEMMA SecretExtended ==
    ASSUME NEW parent \in Seq(Header), NEW h \in Header, NEW num \in 1 .. Len(parent) + 1, NEW key
    PROVE  get_secret(Append(parent, h), num, key) = get_secret(parent, num, key)
<1>1. SubSeq(Append(parent, h), 1, num - 1) = SubSeq(parent, 1, num - 1)
  OBVIOUS
<1> QED
  BY <1>1 DEF get_secret

(* A delegate that signs commits to the secret of its next block.          *)
LEMMA AddedCommitted ==
    ASSUME TypeOK, NEW parent \in DOMAIN state, NEW slot \in Nat, NEW by \in Delegates,
           NEW next_secret \in Secret, next_secret = sign_block(parent, by).next_secret,
           NEW list \in Orders, NEW rekeyed \in SUBSET Delegates,
           Added(parent, slot, by, next_secret, list, rekeyed),
           \A c \in DOMAIN state : Committed(c)
    PROVE  \A c \in DOMAIN state' : Committed(c)'
<1> DEFINE h == [slot |-> slot, by |-> by, list |-> list, rekeyed |-> rekeyed]
           b == Append(parent, h)
<1>1. parent \in Seq(Header) /\ h \in Header /\ h.by = by /\ h.rekeyed = rekeyed
      /\ state[parent].info \in [Delegates -> Info]
  BY DEF TypeOK, ChainTypeOK, Header, State
<1>2. /\ b \in Seq(Header) /\ b \notin DOMAIN state /\ DOMAIN state' = DOMAIN state \cup {b}
      /\ \A c \in DOMAIN state : state'[c] = state[c]
      /\ state'[b].info = [d \in Delegates |-> After(parent, slot, by, next_secret, rekeyed, d)]
  BY DEF Added
<1> HIDE DEF h
<1>3. /\ DOMAIN b = 1 .. Len(parent) + 1 /\ DOMAIN parent = 1 .. Len(parent)
      /\ b[Len(parent) + 1] = h /\ \A k \in DOMAIN parent : b[k] = parent[k] /\ k \in DOMAIN b
  BY <1>1
<1>4. ASSUME NEW num \in 1 .. Len(parent) + 1, NEW key
      PROVE  get_secret(b, num, key) = get_secret(parent, num, key)
  BY <1>1, SecretExtended
<1> HIDE DEF b
<1>5. ASSUME NEW d \in Delegates, state'[b].info[d].produced > 0
      PROVE  LET i == state'[b].info[d]
             IN  /\ i.last_num \in DOMAIN b /\ b[i.last_num].by = d
                 /\ \/ i.committed = get_secret(b, i.last_num, i.key)
                    \/ \E j \in DOMAIN b : i.last_num <= j /\ d \in b[j].rekeyed
  <2> DEFINE i == state[parent].info[d]
             n == state'[b].info[d]
  <2>1. /\ n.produced = i.produced + (IF d = by THEN 1 ELSE 0)
        /\ n.last_num = IF d = by THEN Len(parent) + 1 ELSE i.last_num
        /\ n.committed = IF d = by THEN next_secret ELSE i.committed
        /\ n.key = i.key + (IF d \in rekeyed THEN 1 ELSE 0)
    BY <1>2 DEF After
  <2>2. i \in Info /\ Len(parent) \in Nat
    BY <1>1
  <2>3. i.produced \in Nat /\ i.key \in Nat /\ i.last_num \in Nat
    BY <2>2 DEF Info
  <2>4. CASE d = by
    <3>1. n.last_num = Len(parent) + 1 /\ n.last_num \in DOMAIN b /\ b[n.last_num].by = d
      BY <1>1, <1>3, <2>1, <2>2, <2>4
    <3>2. CASE d \in rekeyed
      <4>1. n.last_num \in DOMAIN b /\ n.last_num <= n.last_num /\ d \in b[n.last_num].rekeyed
        BY <1>1, <1>3, <2>2, <3>1, <3>2
      <4> QED
        BY <3>1, <4>1
    <3>3. CASE d \notin rekeyed
      <4>1. n.key = i.key
        BY <2>1, <2>3, <3>3
      <4>2. n.committed = get_secret(parent, Len(parent) + 1, i.key)
        BY <2>1, <2>4 DEF sign_block
      <4>3. n.committed = get_secret(b, n.last_num, n.key)
        BY <1>4, <2>2, <3>1, <4>1, <4>2
      <4> QED
        BY <3>1, <4>3
    <3> QED
      BY <3>2, <3>3
  <2>5. CASE d # by
    <3>1. /\ n.produced = i.produced /\ n.last_num = i.last_num /\ n.committed = i.committed
          /\ i.produced > 0
      BY <1>5, <2>1, <2>3, <2>5
    <3>2. /\ i.last_num \in DOMAIN parent /\ parent[i.last_num].by = d
          /\ \/ i.committed = get_secret(parent, i.last_num, i.key)
             \/ \E j \in DOMAIN parent : i.last_num <= j /\ d \in parent[j].rekeyed
      BY <3>1 DEF Committed
    <3>3. n.last_num \in DOMAIN b /\ b[n.last_num].by = d
      BY <1>3, <3>1, <3>2
    <3>4. CASE d \in rekeyed
      <4>1. Len(parent) + 1 \in DOMAIN b /\ n.last_num <= Len(parent) + 1
            /\ d \in b[Len(parent) + 1].rekeyed
        BY <1>1, <1>3, <2>2, <2>3, <3>1, <3>2, <3>4
      <4> QED
        BY <3>3, <4>1
    <3>5. CASE d \notin rekeyed
      <4>1. n.key = i.key
        BY <2>1, <2>3, <3>5
      <4>2. get_secret(b, i.last_num, i.key) = get_secret(parent, i.last_num, i.key)
        BY <1>3, <1>4, <2>2, <3>2
      <4>3. \A j \in DOMAIN parent : i.last_num <= j /\ d \in parent[j].rekeyed =>
              j \in DOMAIN b /\ n.last_num <= j /\ d \in b[j].rekeyed
        BY <1>3, <3>1
      <4> HIDE DEF i, n
      <4> QED
        BY <3>1, <3>2, <3>3, <4>1, <4>2, <4>3 DEF n
    <3> QED
      BY <3>4, <3>5
  <2> QED
    BY <2>4, <2>5
<1>6. Committed(b)'
  BY <1>5 DEF Committed, get_secret
<1>7. ASSUME NEW c \in DOMAIN state PROVE Committed(c)'
  <2>1. Committed(c) /\ state'[c] = state[c]
    BY <1>2
  <2> QED
    BY <2>1 DEF Committed, get_secret
<1> QED
  BY <1>2, <1>6, <1>7

-----------------------------------------------------------------------------
(* The count of slots.                                                     *)

BlocksBy(b, d) == {i \in DOMAIN b : b[i].by = d}
Counts(info) == [d \in Delegates |-> info[d].produced + info[d].missed]

Accounted(b) ==
  /\ \A d \in Delegates : state[b].info[d].produced = Cardinality(BlocksBy(b, d))
  /\ SumFunction(Counts(state[b].info)) = slot_of(b) - b[1].slot + 1

(* The counts of a delegate and of the slots go up by what a block uses.   *)
LEMMA AddedAccounted ==
    ASSUME TypeOK, NEW parent \in DOMAIN state, NEW slot \in Nat, NEW by \in Delegates,
           parent # <<>> => slot > slot_of(parent),
           NEW next_secret \in Secret, NEW list \in Orders, NEW rekeyed \in SUBSET Delegates,
           Added(parent, slot, by, next_secret, list, rekeyed),
           Unused, parent # <<>> => Accounted(parent),
           NEW b, b = Append(parent, [slot |-> slot, by |-> by, list |-> list, rekeyed |-> rekeyed])
    PROVE  Accounted(b)'
<1> DEFINE h == [slot |-> slot, by |-> by, list |-> list, rekeyed |-> rekeyed]
           old == state[parent].info
           new == state'[b].info
<1>1. parent \in Seq(Header) /\ h \in Header /\ h.by = by /\ h.slot = slot
      /\ old \in [Delegates -> Info] /\ state[parent].list \in Orders
  BY DEF TypeOK, ChainTypeOK, Header, State
<1>2. b = Append(parent, h)
  OBVIOUS
<1>3. /\ b \in Seq(Header) /\ state'[b] \in State
      /\ new = [d \in Delegates |-> After(parent, slot, by, next_secret, rekeyed, d)]
  BY DEF Added
<1> HIDE DEF h
<1>4. /\ DOMAIN b = 1 .. Len(parent) + 1 /\ DOMAIN parent = 1 .. Len(parent) /\ Len(parent) \in Nat
      /\ b[Len(parent) + 1] = h /\ \A k \in DOMAIN parent : b[k] = parent[k]
      /\ Len(b) = Len(parent) + 1
  BY <1>1, <1>2
<1>5. ASSUME NEW d \in Delegates
      PROVE  /\ new[d].produced = old[d].produced + (IF d = by THEN 1 ELSE 0)
             /\ new[d].missed = old[d].missed + Cardinality(missing(parent, slot, d))
             /\ old[d].produced \in Nat /\ old[d].missed \in Nat
             /\ Cardinality(missing(parent, slot, d)) \in Nat
  <2>1. old[d] \in Info
    BY <1>1
  <2>2. Cardinality(missing(parent, slot, d)) \in Nat
    BY <1>1, MissedSlotsType DEF missing
  <2> QED
    BY <1>3, <2>1, <2>2 DEF After, Info
<1>6. ASSUME NEW d \in Delegates
      PROVE  new[d].produced = Cardinality(BlocksBy(b, d))
  <2>1. IsFiniteSet(BlocksBy(parent, d))
    <3>1. IsFiniteSet(1 .. Len(parent)) /\ BlocksBy(parent, d) \in SUBSET (1 .. Len(parent))
      BY <1>4, FS_Interval DEF BlocksBy
    <3> QED
      BY <3>1, FS_Subset
  <2>2. old[d].produced = Cardinality(BlocksBy(parent, d))
    <3>1. CASE parent = <<>>
      <4>1. BlocksBy(parent, d) = {}
        BY <3>1 DEF BlocksBy
      <4> QED
        BY <3>1, <4>1, FS_EmptySet DEF Unused
    <3>2. CASE parent # <<>>
      BY <3>2 DEF Accounted
    <3> QED
      BY <3>1, <3>2
  <2>3. CASE d = by
    <3>1. /\ BlocksBy(b, d) = BlocksBy(parent, d) \cup {Len(parent) + 1}
          /\ Len(parent) + 1 \notin BlocksBy(parent, d)
      BY <1>1, <1>4, <2>3 DEF BlocksBy
    <3>2. Cardinality(BlocksBy(parent, d) \cup {Len(parent) + 1}) = Cardinality(BlocksBy(parent, d)) + 1
      BY <2>1, <3>1, FS_AddElement
    <3> QED
      BY <1>5, <2>2, <2>3, <3>1, <3>2
  <2>4. CASE d # by
    <3>1. BlocksBy(b, d) = BlocksBy(parent, d)
      BY <1>1, <1>4, <2>4 DEF BlocksBy
    <3> QED
      BY <1>5, <2>2, <2>4, <3>1
  <2> QED
    BY <2>3, <2>4
<1>7. SumFunction(Counts(new))
        = SumFunction(Counts(old)) + Cardinality(MissedSlots(parent, slot)) + 1
      /\ SumFunction(Counts(old)) \in Int
  <2> DEFINE M == MissedSlots(parent, slot)
             c == [m \in M |-> get_slot_signee(m, state[parent].list)]
             g == [d \in Delegates |-> Cardinality({m \in M : c[m] = d})]
             f == Counts(old)
             k == [d \in Delegates |-> f[d] + g[d]]
             n == Counts(new)
  <2>1. IsFiniteSet(Delegates) /\ IsFiniteSet(M) /\ M \in SUBSET Int
    BY <1>1, MissedSlotsType, DelegatesAssumption
  <2>2. \A m \in M : c[m] \in Delegates
    BY <1>1, <2>1, SigneeType
  <2>3. SumFunctionOnSet(g, Delegates) = Cardinality(M)
    <3> HIDE DEF M, c
    <3> QED
      BY <2>1, <2>2, SumClasses
  <2>4. \A d \in Delegates : g[d] = Cardinality(missing(parent, slot, d))
    BY DEF missing
  <2> HIDE DEF c, M
  <2>5. /\ f \in [Delegates -> Int] /\ k \in [Delegates -> Int] /\ n \in [Delegates -> Int]
        /\ \A d \in Delegates : g[d] \in Int /\ n[d] = k[d] + (IF d = by THEN 1 ELSE 0)
    <3>1. ASSUME NEW d \in Delegates
          PROVE  /\ f[d] \in Int /\ g[d] \in Int /\ k[d] \in Int /\ n[d] \in Int
                 /\ n[d] = k[d] + (IF d = by THEN 1 ELSE 0)
      <4>1. f[d] = old[d].produced + old[d].missed /\ n[d] = new[d].produced + new[d].missed
            /\ k[d] = f[d] + Cardinality(missing(parent, slot, d))
        BY <2>4 DEF Counts
      <4>2. g[d] = Cardinality(missing(parent, slot, d))
        BY <2>4
      <4> DEFINE one == IF d = by THEN 1 ELSE 0
      <4>3. /\ new[d].produced = old[d].produced + one
            /\ new[d].missed = old[d].missed + g[d]
            /\ old[d].produced \in Nat /\ old[d].missed \in Nat /\ g[d] \in Nat /\ one \in Nat
        BY <1>5, <4>2
      <4>4. k[d] = f[d] + g[d]
        BY <4>1, <4>2
      <4> HIDE DEF f, g, k, n, old, new, one
      <4>5. f[d] \in Nat /\ f[d] = old[d].produced + old[d].missed
        BY <4>1, <4>3
      <4>6. n[d] = (old[d].produced + one) + (old[d].missed + g[d])
        BY <4>1, <4>3
      <4>7. n[d] = (f[d] + g[d]) + one
        BY <4>3, <4>5, <4>6
      <4>8. /\ f[d] \in Int /\ g[d] \in Int /\ k[d] \in Int /\ n[d] \in Int /\ n[d] = k[d] + one
        BY <4>3, <4>4, <4>5, <4>7
      <4> QED
        BY <4>8 DEF one
    <3> QED
      BY <3>1 DEF Counts
  <2>6. k[by] = f[by] + g[by] /\ \A d \in Delegates : k[d] = f[d] + g[d]
    OBVIOUS
  <2> HIDE DEF f, g, k, n
  <2>7. SumFunctionOnSet(k, Delegates) = SumFunctionOnSet(f, Delegates) + SumFunctionOnSet(g, Delegates)
    <3>1. \A d \in Delegates : f[d] \in Int /\ g[d] \in Int /\ k[d] = f[d] + g[d]
      BY <2>5, <2>6
    <3> QED
      BY <2>1, <3>1, SumAdd
  <2>8. SumFunctionOnSet(n, Delegates) = SumFunctionOnSet(k, Delegates) + (n[by] - k[by])
    <3>1. /\ \A d \in Delegates : k[d] \in Int /\ n[d] \in Int
          /\ \A d \in Delegates \ {by} : n[d] = k[d]
      BY <2>5
    <3> QED
      BY <2>1, <3>1, SumUpdate
  <2>9. n[by] - k[by] = 1
    BY <2>5
  <2>10. SumFunctionOnSet(f, Delegates) \in Int /\ Cardinality(M) \in Nat
    BY <2>1, <2>5, SumType, FS_CardinalityType
  <2>11. /\ SumFunction(f) = SumFunctionOnSet(f, Delegates)
         /\ SumFunction(n) = SumFunctionOnSet(n, Delegates)
    BY <2>5 DEF SumFunction
  <2>12. /\ SumFunction(n) = SumFunction(f) + Cardinality(M) + 1 /\ SumFunction(f) \in Int
    BY <2>3, <2>7, <2>8, <2>9, <2>10, <2>11
  <2> QED
    BY <2>12 DEF f, n, M
<1>8. slot_of(b) = slot
  BY <1>1, <1>4 DEF slot_of, Last
<1>9. SumFunction(Counts(new)) = slot_of(b) - b[1].slot + 1
  <2>1. CASE parent = <<>>
    <3>1. MissedSlots(parent, slot) = {} /\ Cardinality(MissedSlots(parent, slot)) = 0
      BY <2>1, FS_EmptySet DEF MissedSlots
    <3>2. SumFunction(Counts(old)) = 0
      <4>1. \A d \in Delegates : Counts(old)[d] = 0
        BY <2>1 DEF Unused, Counts
      <4>2. SumFunctionOnSet(Counts(old), Delegates) = 0
        BY <4>1, DelegatesAssumption, SumZero
      <4> QED
        BY <4>2 DEF SumFunction, Counts
    <3>3. b[1].slot = slot
      BY <1>1, <1>4, <2>1
    <3> QED
      BY <1>7, <1>8, <3>1, <3>2, <3>3
  <2>2. CASE parent # <<>>
    <3>1. parent[Len(parent)] \in Header /\ parent[1] \in Header /\ 1 \in DOMAIN parent
      BY <1>1, <2>2
    <3>2. slot_of(parent) \in Nat /\ parent[1].slot \in Nat
      BY <3>1 DEF slot_of, Last, Header
    <3>3. Cardinality(MissedSlots(parent, slot)) = slot - slot_of(parent) - 1
      <4>1. slot > slot_of(parent) /\ MissedSlots(parent, slot) = slot_of(parent) + 1 .. slot - 1
        BY <2>2 DEF MissedSlots
      <4>2. Cardinality(slot_of(parent) + 1 .. slot - 1)
              = IF slot_of(parent) + 1 > slot - 1 THEN 0
                ELSE slot - 1 - (slot_of(parent) + 1) + 1
        <5>1. slot_of(parent) + 1 \in Int /\ slot - 1 \in Int
          BY <3>2
        <5> QED
          BY <5>1, FS_Interval
      <4> QED
        BY <3>2, <4>1, <4>2
    <3>4. SumFunction(Counts(old)) = slot_of(parent) - parent[1].slot + 1
      BY <2>2 DEF Accounted
    <3>5. b[1] = parent[1]
      BY <1>4, <3>1
    <3> HIDE DEF old, new
    <3> QED
      BY <1>7, <1>8, <3>2, <3>3, <3>4, <3>5
  <2> QED
    BY <2>1, <2>2
<1> QED
  BY <1>6, <1>9 DEF Accounted, slot_of, BlocksBy, Counts

-----------------------------------------------------------------------------
(* The state of every chain.                                               *)

(* SlotsAccounted says that every chain is accounted for.                  *)
LEMMA SlotsAccountedForm ==
    /\ SlotsAccounted <=> \A b \in DOMAIN state \ {<<>>} : Accounted(b)
    /\ SlotsAccounted' <=> \A b \in DOMAIN state' \ {<<>>} : Accounted(b)'
BY DEF SlotsAccounted, Accounted, BlocksBy, Counts, slot_of

(* A block of any delegate, signed as sign_block does, on any chain.       *)
LEMMA AddedChainInv ==
    ASSUME TypeOK, ChainInv, NEW parent \in DOMAIN state, NEW slot \in Nat, NEW by \in Delegates,
           verify_header(parent, slot, by),
           push_block(parent, slot, by, sign_block(parent, by).next_secret)
    PROVE  ChainInv'
<1>1. PICK next_secret \in Secret : next_secret = sign_block(parent, by).next_secret
  BY SecretsType
<1>2. push_block(parent, slot, by, next_secret)
  BY <1>1
<1>3. PICK list \in Orders, rekeyed \in SUBSET Delegates :
        Added(parent, slot, by, next_secret, list, rekeyed)
  BY <1>2, PushBlockAdds
<1>4. \A c \in DOMAIN state' : Committed(c)'
  BY <1>1, <1>3, AddedCommitted DEF ChainInv
<1>5. PICK b : b = Append(parent, [slot |-> slot, by |-> by, list |-> list, rekeyed |-> rekeyed])
  OBVIOUS
<1>6. parent # <<>> => slot > slot_of(parent) /\ Accounted(parent)
  BY SlotsAccountedForm DEF verify_header, ChainInv
<1>7. Accounted(b)'
  BY <1>3, <1>5, <1>6, AddedAccounted DEF ChainInv
<1>8. DOMAIN state' = DOMAIN state \cup {b} /\ \A c \in DOMAIN state : state'[c] = state[c]
  BY <1>3, <1>5 DEF Added
<1>9. Unused'
  BY <1>8 DEF ChainInv, Unused, TypeOK, ChainTypeOK
<1>10. ASSUME NEW c \in DOMAIN state \ {<<>>} PROVE Accounted(c)'
  <2>1. Accounted(c) /\ state'[c] = state[c]
    BY <1>8, SlotsAccountedForm DEF ChainInv
  <2> QED
    BY <2>1 DEF Accounted, BlocksBy, Counts, slot_of
<1>11. SlotsAccounted'
  BY <1>7, <1>8, <1>10, SlotsAccountedForm
<1> QED
  BY <1>4, <1>9, <1>11 DEF ChainInv

(* Steps that add no block.                                                *)
LEMMA SameChainInv == ChainInv /\ UNCHANGED state => ChainInv'
BY DEF ChainInv, Committed, Unused, SlotsAccounted, get_secret, slot_of

(* Before the first block.                                                 *)
LEMMA InitChainInv == Init => ChainInv
<1> SUFFICES ASSUME Init PROVE ChainInv
  OBVIOUS
<1>1. PICK o \in Orders : state = [b \in {<<>>} |-> Genesis(o)]
  BY DEF Init
<1>2. DOMAIN state = {<<>>} /\ state[<<>>].info
        = [d \in Delegates |->
             [produced |-> 0, missed |-> 0, last_num |-> 0, committed |-> <<>>, key |-> 0]]
  BY <1>1 DEF Genesis
<1>3. Unused /\ SlotsAccounted
  BY <1>2 DEF Unused, SlotsAccounted
<1>4. Committed(<<>>)
  <2>1. \A d \in Delegates : ~(state[<<>>].info[d].produced > 0)
    BY <1>3 DEF Unused
  <2> QED
    BY <2>1 DEF Committed
<1> QED
  BY <1>2, <1>3, <1>4 DEF ChainInv

(* Every step keeps it.                                                    *)
LEMMA NextChainInv == Produces /\ ChainInv /\ [Next]_vars => ChainInv'
<1> SUFFICES ASSUME Produces, ChainInv, [Next]_vars PROVE ChainInv'
  OBVIOUS
<1>1. TypeOK
  BY DEF Produces
<1>2. CASE block_produced
  <2> DEFINE by == get_slot_signee(loop.slot, state[head].list)
  <2>1. head \in DOMAIN state /\ loop.slot \in Nat /\ state[head].list \in Orders
    BY <1>2 DEF block_produced, Produces, Waiting, TypeOK, ChainTypeOK, State
  <2>2. by \in Delegates
    BY <2>1, SigneeType
  <2>3. verify_header(head, loop.slot, by)
        /\ push_block(head, loop.slot, by, sign_block(head, by).next_secret)
    BY <1>2 DEF block_produced
  <2> HIDE DEF by
  <2> QED
    BY <1>1, <2>1, <2>2, <2>3, AddedChainInv
<1>3. ASSUME NEW parent \in DOMAIN state, NEW slot \in 1 .. MaxSlot, on_new_block(parent, slot)
      PROVE  ChainInv'
  <2> DEFINE by == get_slot_signee(slot, state[parent].list)
  <2>1. slot \in Nat /\ state[parent].list \in Orders
    BY <1>1, BoundsAssumption DEF TypeOK, ChainTypeOK, State
  <2>2. by \in Delegates
    BY <2>1, SigneeType
  <2>3. verify_header(parent, slot, by)
        /\ push_block(parent, slot, by, sign_block(parent, by).next_secret)
    BY <1>3 DEF on_new_block
  <2> HIDE DEF by
  <2> QED
    BY <1>1, <2>1, <2>2, <2>3, AddedChainInv
<1>4. CASE UNCHANGED state
  BY <1>4, SameChainInv
<1> QED
  BY <1>2, <1>3, <1>4 DEF Next, vars, chain, delegate_loop, connections_set, slot_missed, block_refused,
     wallet_lock, wallet_unlock, clock_ticks, ntp_corrects

(* Every slot from the first block of a chain to its last is counted once, *)
(* as produced or as missed, for any length and orders of the rounds.      *)
THEOREM SlotsAreAccounted == Spec => []SlotsAccounted
<1>1. Init => Produces /\ ChainInv
  BY InitProduces, InitChainInv
<1>2. Produces /\ ChainInv /\ [Next]_vars => (Produces /\ ChainInv)'
  BY NextProduces, NextChainInv
<1>3. Produces /\ ChainInv => SlotsAccounted
  BY DEF ChainInv
<1> QED
  BY <1>1, <1>2, <1>3, PTL DEF Spec

-----------------------------------------------------------------------------
(* What the chain refuses.                                                 *)

(* A block that is refused is late, or its producer has a new key.         *)
LEMMA RefusedForReason ==
    ASSUME SteadyClock, Produces, ChainInv, block_refused
    PROVE  LET by == get_slot_signee(loop.slot, state[head].list)
           IN  \/ head # <<>> /\ loop.slot <= slot_of(head)
               \/ \E i, j \in DOMAIN head : i <= j /\ head[i].by = by /\ by \in head[j].rekeyed
<1> DEFINE by == get_slot_signee(loop.slot, state[head].list)
<1>1. /\ TypeOK /\ loop.at = "counting" /\ head \in DOMAIN state /\ head \in Seq(Header)
      /\ state[head] \in State
      /\ ~(/\ verify_header(head, loop.slot, by)
           /\ SecretMatches(head, by, sign_block(head, by).previous_secret))
  BY DEF Produces, TypeOK, ChainTypeOK, block_refused
<1>2. loop.slot \in Nat /\ get_slot_start_time(loop.slot) <= loop.time
  BY <1>1 DEF Produces, Waiting
<1>3. by \in Delegates
  BY <1>1, <1>2, SigneeType DEF State
<1>4. get_slot_start_time(loop.slot) <= now + 2 * Interval
  <2>1. PICK o \in Offsets : loop.time <= clock + o
    BY <1>1 DEF Produces, Waiting
  <2>2. o - offset <= 2 * Interval /\ o \in Int /\ Interval \in Nat
    BY <1>1, TimesAssumption DEF SteadyClock, TypeOK
  <2>3. /\ clock \in Int /\ offset \in Int /\ loop.time \in Int
        /\ get_slot_start_time(loop.slot) \in Int
    <3>1. clock \in Int /\ offset \in Int /\ loop.time \in Int
      BY <1>1, LoopTimeType
    <3> QED
      BY <1>2, <3>1, SlotArithmetic
  <2> QED
    BY <1>2, <2>1, <2>2, <2>3 DEF now
<1>5. CASE head # <<>> /\ loop.slot <= slot_of(head)
  BY <1>5
<1>6. CASE ~(head # <<>> /\ loop.slot <= slot_of(head))
  <2>1. verify_header(head, loop.slot, by)
    <3>1. head # <<>> => slot_of(head) \in Nat
      BY <1>1, SlotType
    <3> QED
      BY <1>2, <1>4, <1>6, <3>1 DEF verify_header
  <2> DEFINE i == state[head].info[by]
  <2>2. i.produced > 0 /\ get_secret(head, i.last_num, i.key) # i.committed
    BY <1>1, <2>1 DEF SecretMatches, sign_block
  <2>3. /\ i.last_num \in DOMAIN head /\ head[i.last_num].by = by
        /\ \E j \in DOMAIN head : i.last_num <= j /\ by \in head[j].rekeyed
    BY <1>1, <1>3, <2>2 DEF ChainInv, Committed
  <2> QED
    BY <2>3
<1> QED
  BY <1>5, <1>6

(* The chain accepts every block that the client signs, unless a block for *)
(* its slot or a later one came first, or the delegate has changed its key *)
(* since its last block.  This needs a clock whose corrections stay within *)
(* two intervals: the margin of verify_header for blocks of the future.    *)
THEOREM OwnBlocksAreAccepted == SteadyClock => (Spec => []OwnBlockAccepted)
<1> SUFFICES ASSUME SteadyClock PROVE Spec => []OwnBlockAccepted
  OBVIOUS
<1> DEFINE I == Produces /\ ChainInv /\ OwnBlockAccepted
<1>1. Init => I
  BY InitProduces, InitChainInv DEF Init, OwnBlockAccepted
<1>2. I /\ [Next]_vars => I'
  <2> SUFFICES ASSUME I, [Next]_vars PROVE I'
    OBVIOUS
  <2>1. Produces' /\ ChainInv'
    BY NextProduces, NextChainInv
  <2>2. CASE block_refused
    <3> DEFINE by == get_slot_signee(loop.slot, state[head].list)
               r == [on |-> head, slot |-> loop.slot, by |-> by]
    <3>1. refused' = refused \cup {r}
      BY <2>2 DEF block_refused
    <3>2. \/ r.on # <<>> /\ r.slot <= slot_of(r.on)
          \/ \E i, j \in DOMAIN r.on : i <= j /\ r.on[i].by = r.by /\ r.by \in r.on[j].rekeyed
      BY <2>2, RefusedForReason
    <3> HIDE DEF r
    <3>3. OwnBlockAccepted'
      BY <3>1, <3>2 DEF OwnBlockAccepted, slot_of
    <3> QED
      BY <2>1, <3>3
  <2>3. CASE UNCHANGED refused
    BY <2>1, <2>3 DEF OwnBlockAccepted, slot_of
  <2> QED
    BY <2>2, <2>3 DEF Next, vars, history, delegate_loop, connections_set, slot_missed,
       block_produced, on_new_block, wallet_lock, wallet_unlock, clock_ticks, ntp_corrects
<1>3. I => OwnBlockAccepted
  OBVIOUS
<1> HIDE DEF I
<1> QED
  BY <1>1, <1>2, <1>3, PTL DEF Spec

-----------------------------------------------------------------------------
(* The pending transactions of chain_database.                             *)

PoolChanges == UNION {[D -> BOOLEAN] : D \in SUBSET Coin}
Pools == [changes : PoolChanges, index : SUBSET Trx]

LEMMA TrxFields ==
    ASSUME NEW t \in Trx
    PROVE  /\ t.needs \subseteq Coin /\ t.makes \subseteq Coin
           /\ t.fee \in Nat /\ t.size \in Nat /\ t.digest \in Nat
           /\ \A u \in Trx : t.digest = u.digest => t = u
BY TrxAssumption

(* A sequence of a set has each of its elements once.                      *)
LEMMA PoolSeqs ==
    ASSUME NEW S
    PROVE  SetToSeqs(S) = {f \in [1 .. Cardinality(S) -> S] :
                             \A i, j \in 1 .. Cardinality(S) : i # j => f[i] # f[j]}
BY DEF SetToSeqs

-----------------------------------------------------------------------------
(* Applying a sequence of transactions, one after the other.               *)

Applied(r, num, t) ==
  IF r # <<>> /\ Evaluates(r[1], num, t) THEN <<View(r[1], Changes(t))>> ELSE <<>>

Applications == {<<>>} \cup {<<c>> : c \in SUBSET Coin}

Applies(g, base, num, block, n) ==
  g = [s \in SUBSET (1 .. n) |->
         IF s = {} THEN <<base>> ELSE Applied(g[s \ {Max(s)}], num, block[Max(s)])]

applying(base, num, block, n) == CHOOSE g : Applies(g, base, num, block, n)

LEMMA ApplyIsFold ==
    ASSUME NEW base, NEW num, NEW block \in Seq(Trx)
    PROVE  apply_transactions(base, num, block)
             = applying(base, num, block, Len(block))[1 .. Len(block)]
<1>1. DOMAIN block = 1 .. Len(block)
  OBVIOUS
<1> QED
  BY <1>1 DEF apply_transactions, FoldLeft, MapThenFoldSet, applying, Applies, Applied

LEMMA AppliedType ==
    ASSUME NEW r \in Applications, NEW num, NEW t
    PROVE  Applied(r, num, t) \in Applications
BY DEF Applied, Applications, View

LEMMA PoolMax ==
    ASSUME NEW n \in Nat, NEW s \in SUBSET (1 .. n), s # {}
    PROVE  Max(s) \in s /\ \A k \in s : k <= Max(s)
<1>0. IsFiniteSet(1 .. n)
  BY FS_Interval
<1>1. IsFiniteSet(s) /\ s \in SUBSET Int
  <2> DEFINE I == 1 .. n
  <2>1. s \in SUBSET Int
    OBVIOUS
  <2>2. s \in SUBSET I /\ IsFiniteSet(I)
    BY <1>0
  <2> HIDE DEF I
  <2> QED
    BY <2>1, <2>2, FS_Subset
<1>2. PICK m \in s : \A k \in s : k <= m
  BY <1>1, GreatestElement
<1>3. \A k \in s : m >= k
  BY <1>1, <1>2
<1>4. Max(s) \in s /\ \A k \in s : Max(s) >= k
  BY <1>2, <1>3 DEF Max
<1> QED
  BY <1>1, <1>4

LEMMA AppliesExists ==
    ASSUME NEW base \in SUBSET Coin, NEW num, NEW n \in Nat, NEW block
    PROVE  Applies(applying(base, num, block, n), base, num, block, n)
<1> DEFINE S == 1 .. n
           V == Applications
           ch == [s \in SUBSET S |-> Max(s)]
           step == [i \in S |-> [r \in V |-> Applied(r, num, block[i])]]
<1>1. IsFiniteSet(S)
  BY FS_Interval
<1>2. Takes(ch, S)
  BY PoolMax DEF Takes
<1>3. <<base>> \in V
  BY DEF Applications
<1>4. step \in [S -> [V -> V]]
  BY AppliedType
<1>5. \E g \in [SUBSET S -> V] : IsFold(g, S, ch, step, <<base>>)
  <2> HIDE DEF S, V, ch, step
  <2> QED
    BY <1>1, <1>2, <1>3, <1>4, FoldOver
<1>6. PICK g \in [SUBSET S -> V] : IsFold(g, S, ch, step, <<base>>)
  BY <1>5
<1>7. ASSUME NEW s \in SUBSET S, s # {}
      PROVE  g[s] = Applied(g[s \ {Max(s)}], num, block[Max(s)])
  <2>1. Max(s) \in S /\ s \ {Max(s)} \in SUBSET S /\ ch[s] = Max(s)
    BY <1>7, PoolMax
  <2>2. g[s \ {Max(s)}] \in V
    BY <2>1
  <2>3. g[s] = step[ch[s]][g[s \ {ch[s]}]]
    BY <1>6, <1>7 DEF IsFold
  <2> HIDE DEF S, V
  <2> QED
    BY <2>1, <2>2, <2>3
<1>8. \A s \in SUBSET S : s = {} => g[s] = <<base>>
  BY <1>6 DEF IsFold
<1>9. Applies(g, base, num, block, n)
  <2>1. g = [s \in SUBSET S |-> g[s]]
    OBVIOUS
  <2> QED
    BY <1>7, <1>8, <2>1 DEF Applies
<1> QED
  BY <1>9 DEF applying

LEMMA ApplyEmpty ==
    ASSUME NEW base \in SUBSET Coin, NEW num
    PROVE  apply_transactions(base, num, <<>>) = <<base>>
<1>1. <<>> \in Seq(Trx) /\ Len(<<>>) = 0 /\ 1 .. 0 = {}
  OBVIOUS
<1>2. Applies(applying(base, num, <<>>, 0), base, num, <<>>, 0)
  BY AppliesExists
<1>3. applying(base, num, <<>>, 0)[1 .. 0] = <<base>>
  BY <1>1, <1>2 DEF Applies
<1> QED
  BY <1>1, <1>3, ApplyIsFold

LEMMA ApplyAppend ==
    ASSUME NEW base \in SUBSET Coin, NEW num, NEW block \in Seq(Trx), NEW t \in Trx
    PROVE  apply_transactions(base, num, Append(block, t))
             = Applied(apply_transactions(base, num, block), num, t)
<1> DEFINE n == Len(block)
           longer == Append(block, t)
           g == applying(base, num, block, n)
           h == applying(base, num, longer, n + 1)
           G == {s \in SUBSET (1 .. n) : h[s] = g[s]}
<1>1. n \in Nat /\ longer \in Seq(Trx) /\ Len(longer) = n + 1 /\ longer[n + 1] = t
      /\ \A i \in 1 .. n : longer[i] = block[i]
  OBVIOUS
<1>2. Applies(g, base, num, block, n) /\ Applies(h, base, num, longer, n + 1)
  BY <1>1, AppliesExists
<1> HIDE DEF n, longer, g, h
<1>3. ASSUME NEW s \in SUBSET (1 .. n), \A u \in SUBSET s : u # s => u \in G
      PROVE  s \in G
  <2>0. s \in SUBSET (1 .. n + 1)
    BY <1>1
  <2>1. CASE s = {}
    BY <1>2, <2>0, <2>1 DEF Applies
  <2>2. CASE s # {}
    <3> DEFINE m == Max(s)
    <3>1. m \in s
      BY <1>1, <2>2, PoolMax
    <3>2. h[s \ {m}] = g[s \ {m}]
      BY <1>3, <3>1
    <3>3. g[s] = Applied(g[s \ {m}], num, block[m])
      BY <1>2, <2>2 DEF Applies
    <3>4. h[s] = Applied(h[s \ {m}], num, longer[m])
      BY <1>2, <2>0, <2>2 DEF Applies
    <3> QED
      BY <1>1, <3>1, <3>2, <3>3, <3>4
  <2> QED
    BY <2>1, <2>2
<1>4. h[1 .. n] = g[1 .. n]
  <2>1. IsFiniteSet(1 .. n)
    BY <1>1, FS_Interval
  <2> DEFINE I == 1 .. n
  <2>2. IsFiniteSet(I) /\ \A s \in SUBSET I : (\A u \in SUBSET s : u # s => u \in G) => s \in G
    BY <1>3, <2>1
  <2> HIDE DEF G, I
  <2>3. I \in G
    BY <2>2, SubsetInduction
  <2> QED
    BY <2>3 DEF G, I
<1>5. h[1 .. n + 1] = Applied(h[1 .. n], num, t)
  <2>0. n + 1 \in 1 .. n + 1
    BY <1>1
  <2>1. 1 .. n + 1 # {} /\ n + 1 \in 1 .. n + 1 /\ 1 .. n + 1 \in SUBSET (1 .. n + 1)
    BY <2>0
  <2>2. Max(1 .. n + 1) = n + 1
    <3>1. n + 1 \in Nat
      BY <1>1
    <3>2. Max(1 .. n + 1) \in 1 .. n + 1 /\ n + 1 <= Max(1 .. n + 1)
      BY <2>1, <3>1, PoolMax
    <3> QED
      BY <1>1, <3>2
  <2>3. (1 .. n + 1) \ {n + 1} = 1 .. n
    BY <1>1
  <2> DEFINE s == 1 .. n + 1
  <2>4. h[s] = Applied(h[s \ {Max(s)}], num, longer[Max(s)])
    <3> HIDE DEF s
    <3>1. s \in SUBSET (1 .. n + 1) /\ s # {}
      BY <2>1 DEF s
    <3> QED
      BY <1>2, <3>1 DEF Applies
  <2> QED
    BY <1>1, <2>2, <2>3, <2>4
<1>6. apply_transactions(base, num, block) = g[1 .. n]
  BY ApplyIsFold DEF g, n
<1>7. apply_transactions(base, num, longer) = h[1 .. n + 1]
  BY <1>1, ApplyIsFold DEF h
<1> QED
  BY <1>4, <1>5, <1>6, <1>7 DEF longer

(* The result is a chain state, or nothing.                                *)
LEMMA ApplyType ==
    ASSUME NEW base \in SUBSET Coin, NEW num, NEW block \in Seq(Trx)
    PROVE  apply_transactions(base, num, block) \in Applications
<1> DEFINE n == Len(block)
           g == applying(base, num, block, n)
           G == {s \in SUBSET (1 .. n) : g[s] \in Applications}
<1>1. n \in Nat
  OBVIOUS
<1>2. Applies(g, base, num, block, n)
  BY <1>1, AppliesExists
<1> HIDE DEF n, g
<1>3. ASSUME NEW s \in SUBSET (1 .. n), \A u \in SUBSET s : u # s => u \in G
      PROVE  s \in G
  <2>1. CASE s = {}
    BY <1>2, <2>1 DEF Applies, Applications
  <2>2. CASE s # {}
    <3> DEFINE m == Max(s)
    <3>1. m \in s
      BY <1>1, <2>2, PoolMax
    <3>2. g[s \ {m}] \in Applications
      BY <1>3, <3>1
    <3>3. g[s] = Applied(g[s \ {m}], num, block[m])
      BY <1>2, <2>2 DEF Applies
    <3> QED
      BY <3>2, <3>3, AppliedType
  <2> QED
    BY <2>1, <2>2
<1>4. 1 .. n \in G
  <2>1. IsFiniteSet(1 .. n)
    BY <1>1, FS_Interval
  <2> DEFINE I == 1 .. n
  <2>2. IsFiniteSet(I) /\ \A s \in SUBSET I : (\A u \in SUBSET s : u # s => u \in G) => s \in G
    BY <1>3, <2>1
  <2> HIDE DEF G, I
  <2>3. I \in G
    BY <2>2, SubsetInduction
  <2> QED
    BY <2>3 DEF I
<1> QED
  BY <1>4, ApplyIsFold DEF g, n

-----------------------------------------------------------------------------
(* Evaluating transactions into the pool.                                  *)

PoolFits(p, base, num) ==
  \E order \in SetToSeqs(p.index) :
    apply_transactions(base, num, order) = <<View(base, p.changes)>>

LEMMA ChangesType ==
    ASSUME NEW t \in Trx
    PROVE  Changes(t) \in PoolChanges
<1>1. t.needs \cup t.makes \in SUBSET Coin
  BY TrxFields
<1>2. Changes(t) \in [t.needs \cup t.makes -> BOOLEAN]
  BY DEF Changes
<1> QED
  BY <1>1, <1>2 DEF PoolChanges

LEMMA OverType ==
    ASSUME NEW a \in PoolChanges, NEW b \in PoolChanges
    PROVE  Over(a, b) \in PoolChanges
<1>1. PICK D \in SUBSET Coin : a \in [D -> BOOLEAN]
  BY DEF PoolChanges
<1>2. PICK E \in SUBSET Coin : b \in [E -> BOOLEAN]
  BY DEF PoolChanges
<1>3. DOMAIN a = D /\ DOMAIN b = E
  BY <1>1, <1>2
<1>4. \A c \in D \cup E : (IF c \in E THEN b[c] ELSE a[c]) \in BOOLEAN
  BY <1>1, <1>2
<1>5. Over(a, b) = [c \in D \cup E |-> IF c \in E THEN b[c] ELSE a[c]]
  BY <1>3 DEF Over
<1>6. Over(a, b) \in [D \cup E -> BOOLEAN]
  BY <1>4, <1>5, Zenon
<1> QED
  BY <1>6 DEF PoolChanges

(* The overlay over an overlay is the overlay of both.                     *)
LEMMA ViewOver ==
    ASSUME NEW base, NEW a, NEW b
    PROVE  View(base, Over(a, b)) = View(View(base, a), b)
<1>1. DOMAIN Over(a, b) = DOMAIN a \cup DOMAIN b
  BY DEF Over
<1>2. ASSUME NEW c \in Coin
      PROVE  c \in View(base, Over(a, b)) <=> c \in View(View(base, a), b)
  <2>1. CASE c \in DOMAIN b
    BY <1>1, <2>1 DEF View, Over
  <2>2. CASE c \notin DOMAIN b /\ c \in DOMAIN a
    BY <1>1, <2>2 DEF View, Over
  <2>3. CASE c \notin DOMAIN b /\ c \notin DOMAIN a
    BY <1>1, <2>3 DEF View, Over
  <2> QED
    BY <2>1, <2>2, <2>3
<1> QED
  BY <1>2 DEF View

(* An order of a set, and a new element at its end.                        *)
LEMMA AppendOrder ==
    ASSUME NEW I \in SUBSET Trx, IsFiniteSet(I), NEW order \in SetToSeqs(I), NEW t \in Trx \ I
    PROVE  order \in Seq(Trx) /\ Append(order, t) \in SetToSeqs(I \cup {t})
<1> DEFINE n == Cardinality(I)
           J == I \cup {t}
           longer == Append(order, t)
<1>1. n \in Nat /\ Cardinality(J) = n + 1
  BY FS_CardinalityType, FS_AddElement
<1>2. order \in [1 .. n -> I] /\ \A i, j \in 1 .. n : i # j => order[i] # order[j]
  BY PoolSeqs
<1> HIDE DEF n, J
<1>3. order \in Seq(Trx) /\ Len(order) = n
  BY <1>1, <1>2
<1>4. /\ longer \in [1 .. n + 1 -> Trx] /\ longer[n + 1] = t
      /\ \A i \in 1 .. n : longer[i] = order[i]
  <2>1. longer \in Seq(Trx) /\ Len(longer) = Len(order) + 1
    BY <1>3
  <2>2. longer[Len(order) + 1] = t /\ \A i \in 1 .. Len(order) : longer[i] = order[i]
    BY <1>3
  <2>3. longer \in [1 .. Len(longer) -> Trx]
    <3> HIDE DEF longer
    <3> QED
      BY <2>1
  <2> HIDE DEF longer
  <2> QED
    BY <1>3, <2>1, <2>2, <2>3
<1> HIDE DEF longer
<1>5. ASSUME NEW i \in 1 .. n + 1 PROVE longer[i] \in J /\ (i # n + 1 => i \in 1 .. n)
  BY <1>1, <1>2, <1>4 DEF J
<1>6. longer \in [1 .. n + 1 -> J]
  BY <1>4, <1>5
<1>7. ASSUME NEW i \in 1 .. n + 1, NEW j \in 1 .. n + 1, i # j PROVE longer[i] # longer[j]
  <2>1. \A k \in 1 .. n : order[k] # t
    BY <1>2
  <2> QED
    BY <1>2, <1>4, <1>5, <1>7, <2>1
<1>8. longer \in SetToSeqs(J)
  BY <1>1, <1>6, <1>7, PoolSeqs
<1> QED
  BY <1>3, <1>8 DEF longer, J

LEMMA NoPoolFits ==
    ASSUME NEW base \in SUBSET Coin, NEW num
    PROVE  /\ NoPool \in Pools /\ IsFiniteSet(NoPool.index)
           /\ PoolFits(NoPool, base, num)
<1>1. NoPool.index = {} /\ NoPool.changes = NoChanges
  BY DEF NoPool
<1>2. NoChanges \in [{} -> BOOLEAN]
  BY DEF NoChanges
<1>3. NoPool \in Pools
  BY <1>2 DEF NoPool, Pools, PoolChanges
<1>4. View(base, NoChanges) = base
  BY <1>2 DEF View
<1>5. <<>> \in SetToSeqs({})
  <2>1. Cardinality({}) = 0 /\ 1 .. 0 = {}
    BY FS_EmptySet
  <2>2. <<>> \in [1 .. 0 -> {}]
    BY <2>1
  <2> QED
    BY <2>1, <2>2, PoolSeqs
<1> QED
  BY <1>1, <1>3, <1>4, <1>5, ApplyEmpty, FS_EmptySet DEF PoolFits

(* A transaction that evaluates on the overlay goes at the end of the      *)
(* order, and one that fails changes nothing.                              *)
LEMMA EvaluateStep ==
    ASSUME NEW base \in SUBSET Coin, NEW num, NEW p \in Pools,
           IsFiniteSet(p.index), PoolFits(p, base, num), NEW t \in Trx, t \notin p.index, NEW fee,
           NEW q, q = evaluate_transaction(p, base, num, t, fee)
    PROVE  /\ q \in Pools /\ IsFiniteSet(q.index) /\ PoolFits(q, base, num)
           /\ \A u \in q.index : u \in p.index \/ u = t
<1> DEFINE v == View(base, p.changes)
<1>1. CASE Evaluates(v, num, t) /\ t.fee >= fee
  <2>1. q = [changes |-> Over(p.changes, Changes(t)), index |-> p.index \cup {t}]
    BY <1>1 DEF evaluate_transaction
  <2>2. q.changes = Over(p.changes, Changes(t)) /\ q.index = p.index \cup {t}
    BY <2>1
  <2>3. p.changes \in PoolChanges /\ p.index \in SUBSET Trx
    BY DEF Pools
  <2>4. q.changes \in PoolChanges
    BY <2>2, <2>3, ChangesType, OverType
  <2>5. q \in Pools
    BY <2>1, <2>2, <2>3, <2>4 DEF Pools
  <2>6. PICK order \in SetToSeqs(p.index) :
               apply_transactions(base, num, order) = <<v>>
    BY DEF PoolFits
  <2>7. order \in Seq(Trx) /\ Append(order, t) \in SetToSeqs(q.index)
    BY <2>2, <2>3, AppendOrder
  <2>8. apply_transactions(base, num, Append(order, t)) = <<View(v, Changes(t))>>
    <3>1. apply_transactions(base, num, Append(order, t)) = Applied(<<v>>, num, t)
      BY <2>6, <2>7, ApplyAppend
    <3> HIDE DEF v
    <3>2. <<v>> # <<>> /\ <<v>>[1] = v
      OBVIOUS
    <3> QED
      BY <1>1, <3>1, <3>2 DEF Applied
  <2>9. View(v, Changes(t)) = View(base, q.changes)
    BY <2>2, ViewOver
  <2>10. PoolFits(q, base, num)
    BY <2>7, <2>8, <2>9 DEF PoolFits
  <2>11. IsFiniteSet(q.index)
    BY <2>2, FS_AddElement
  <2> QED
    BY <2>2, <2>5, <2>10, <2>11
<1>2. CASE ~(Evaluates(v, num, t) /\ t.fee >= fee)
  <2>1. q = p
    BY <1>2 DEF evaluate_transaction
  <2> QED
    BY <2>1
<1> QED
  BY <1>1, <1>2

(* The transaction with the greatest digest.                               *)
LEMMA LastByDigestIn ==
    ASSUME NEW s \in SUBSET Trx, IsFiniteSet(s), s # {}
    PROVE  LastByDigest(s) \in s
<1> DEFINE D == {t.digest : t \in s}
<1>1. IsFiniteSet(D)
  <2>1. [t \in s |-> t.digest] \in Surjection(s, D)
    BY DEF Surjection
  <2> HIDE DEF D
  <2> QED
    BY <2>1, FS_Surjection
<1>2. D \in SUBSET Int /\ D # {}
  BY TrxFields
<1>3. PICK m \in D : \A k \in D : k <= m
  <2> HIDE DEF D
  <2> QED
    BY <1>1, <1>2, GreatestElement
<1>4. PICK t \in s : t.digest = m
  BY <1>3
<1>5. \A u \in s : u.digest <= t.digest
  BY <1>3, <1>4
<1> QED
  BY <1>5 DEF LastByDigest

LEMMA EvaluateType ==
    ASSUME NEW base, NEW num, NEW p \in Pools, NEW t \in Trx, NEW fee
    PROVE  evaluate_transaction(p, base, num, t, fee) \in Pools
<1>1. p.changes \in PoolChanges /\ p.index \in SUBSET Trx
  BY DEF Pools
<1>2. Over(p.changes, Changes(t)) \in PoolChanges
  BY <1>1, ChangesType, OverType
<1>3. [changes |-> Over(p.changes, Changes(t)), index |-> p.index \cup {t}] \in Pools
  BY <1>1, <1>2 DEF Pools
<1> QED
  BY <1>3 DEF evaluate_transaction

(* The loop of revalidate_pending and open over the stored transactions.   *)
PoolFolds(g, base, num, db) ==
  g = [s \in SUBSET db |->
         IF s = {} THEN NoPool
         ELSE evaluate_transaction(g[s \ {LastByDigest(s)}], base, num,
                                        LastByDigest(s), RelayFee)]

evaluating(base, num, db) == CHOOSE g : PoolFolds(g, base, num, db)

LEMMA EvaluateAllIsFold ==
    ASSUME NEW base, NEW num, NEW db
    PROVE  EvaluateAll(base, num, db) = evaluating(base, num, db)[db]
BY DEF EvaluateAll, MapThenFoldSet, evaluating, PoolFolds

LEMMA PoolFoldsExists ==
    ASSUME NEW base \in SUBSET Coin, NEW num, NEW db \in SUBSET Trx, IsFiniteSet(db)
    PROVE  PoolFolds(evaluating(base, num, db), base, num, db)
<1> DEFINE ch == [s \in SUBSET db |-> LastByDigest(s)]
           step == [t \in db |-> [p \in Pools |->
                     evaluate_transaction(p, base, num, t, RelayFee)]]
<1>1. ASSUME NEW s \in SUBSET db, s # {} PROVE LastByDigest(s) \in s
  BY <1>1, FS_Subset, LastByDigestIn
<1>2. Takes(ch, db)
  BY <1>1 DEF Takes
<1>3. NoPool \in Pools
  BY NoPoolFits
<1>4. step \in [db -> [Pools -> Pools]]
  BY EvaluateType
<1>5. PICK g \in [SUBSET db -> Pools] : IsFold(g, db, ch, step, NoPool)
  <2> HIDE DEF ch, step
  <2> QED
    BY <1>2, <1>3, <1>4, FoldOver
<1>6. ASSUME NEW s \in SUBSET db, s # {}
      PROVE  g[s] = evaluate_transaction(g[s \ {LastByDigest(s)}], base, num,
                                              LastByDigest(s), RelayFee)
  <2>1. LastByDigest(s) \in db /\ s \ {LastByDigest(s)} \in SUBSET db
        /\ ch[s] = LastByDigest(s)
    BY <1>1, <1>6
  <2>2. g[s \ {LastByDigest(s)}] \in Pools
    BY <2>1
  <2>3. g[s] = step[ch[s]][g[s \ {ch[s]}]]
    BY <1>5, <1>6 DEF IsFold
  <2> QED
    BY <2>1, <2>2, <2>3
<1>7. \A s \in SUBSET db : s = {} => g[s] = NoPool
  BY <1>5 DEF IsFold
<1>8. PoolFolds(g, base, num, db)
  <2>1. g = [s \in SUBSET db |-> g[s]]
    OBVIOUS
  <2> QED
    BY <1>6, <1>7, <2>1 DEF PoolFolds
<1> QED
  BY <1>8 DEF evaluating

(* After the loop the indexed transactions are stored ones that all apply, *)
(* and the overlay is what they make of the chain.                         *)
LEMMA EvaluateAllFits ==
    ASSUME NEW base \in SUBSET Coin, NEW num, NEW db \in SUBSET Trx, IsFiniteSet(db),
           NEW p, p = EvaluateAll(base, num, db)
    PROVE  p \in Pools /\ p.index \subseteq db /\ PoolFits(p, base, num)
<1> DEFINE g == evaluating(base, num, db)
           P(s) == /\ g[s] \in Pools /\ IsFiniteSet(g[s].index) /\ PoolFits(g[s], base, num)
                   /\ g[s].index \subseteq s
           G == {s \in SUBSET db : P(s)}
<1>1. PoolFolds(g, base, num, db)
  BY PoolFoldsExists
<1> HIDE DEF g
<1>2. ASSUME NEW s \in SUBSET db, \A u \in SUBSET s : u # s => u \in G
      PROVE  s \in G
  <2>1. CASE s = {}
    <3>1. g[s] = NoPool
      BY <1>1, <2>1 DEF PoolFolds
    <3>2. NoPool.index = {}
      BY DEF NoPool
    <3> QED
      BY <3>1, <3>2, NoPoolFits
  <2>2. CASE s # {}
    <3> DEFINE t == LastByDigest(s)
               r == s \ {t}
    <3>1. t \in s
      BY <2>2, FS_Subset, LastByDigestIn
    <3>2. P(r)
      BY <1>2, <3>1
    <3>3. g[s] = evaluate_transaction(g[r], base, num, t, RelayFee)
      BY <1>1, <2>2 DEF PoolFolds
    <3>4. t \in Trx \ g[r].index
      BY <3>1, <3>2
    <3>5. /\ g[s] \in Pools /\ IsFiniteSet(g[s].index) /\ PoolFits(g[s], base, num)
          /\ \A u \in g[s].index : u \in g[r].index \/ u = t
      <4>1. g[r] \in Pools /\ IsFiniteSet(g[r].index) /\ PoolFits(g[r], base, num)
        BY <3>2
      <4> DEFINE a == g[r]
                 q == g[s]
      <4>2. /\ a \in Pools /\ IsFiniteSet(a.index) /\ PoolFits(a, base, num) /\ t \in Trx /\ t \notin a.index
            /\ q = evaluate_transaction(a, base, num, t, RelayFee)
        BY <3>3, <3>4, <4>1
      <4> HIDE DEF t, r, a, q
      <4>3. q \in Pools /\ IsFiniteSet(q.index) /\ PoolFits(q, base, num)
        BY <4>2, EvaluateStep
      <4>4. \A u \in q.index : u \in a.index \/ u = t
        BY <4>2, EvaluateStep
      <4> QED
        BY <4>3, <4>4 DEF a, q
    <3>6. g[s].index \subseteq s
      BY <3>1, <3>2, <3>5
    <3> QED
      BY <3>5, <3>6
  <2> QED
    BY <2>1, <2>2
<1>3. db \in G
  <2> HIDE DEF G
  <2> QED
    BY <1>2, SubsetInduction
<1> QED
  BY <1>3, EvaluateAllIsFold DEF g

Touched(t) == t.needs \cup t.makes

(* A transaction that is valid on the chain and that no other touches is   *)
(* indexed: the overlay says nothing of its records when its turn comes.   *)
LEMMA EvaluateAllKeeps ==
    ASSUME NEW base \in SUBSET Coin, NEW num, NEW db \in SUBSET Trx, IsFiniteSet(db),
           NEW t \in db, Evaluates(base, num, t), t.fee >= RelayFee,
           \A u \in db \ {t} : Touched(t) \cap Touched(u) = {}
    PROVE  t \in EvaluateAll(base, num, db).index
<1> DEFINE g == evaluating(base, num, db)
           P(s) == /\ t \notin s => \A c \in DOMAIN g[s].changes : c \notin Touched(t)
                   /\ t \in s => t \in g[s].index
           G == {s \in SUBSET db : P(s)}
<1>1. PoolFolds(g, base, num, db)
  BY PoolFoldsExists
<1> HIDE DEF g
<1>2. ASSUME NEW s \in SUBSET db, \A u \in SUBSET s : u # s => u \in G
      PROVE  s \in G
  <2>1. CASE s = {}
    <3>1. g[s] = NoPool
      BY <1>1, <2>1 DEF PoolFolds
    <3>2. DOMAIN g[s].changes = {}
      BY <3>1 DEF NoPool, NoChanges
    <3> QED
      BY <2>1, <3>2
  <2>2. CASE s # {}
    <3> DEFINE u == LastByDigest(s)
               r == s \ {u}
               v == View(base, g[r].changes)
    <3>1. u \in s
      BY <2>2, FS_Subset, LastByDigestIn
    <3>2. P(r)
      BY <1>2, <3>1
    <3>3. g[s] = evaluate_transaction(g[r], base, num, u, RelayFee)
      BY <1>1, <2>2 DEF PoolFolds
    <3> HIDE DEF u
    <3>4. CASE Evaluates(v, num, u) /\ u.fee >= RelayFee
      <4>1. g[s] = [changes |-> Over(g[r].changes, Changes(u)), index |-> g[r].index \cup {u}]
        BY <3>3, <3>4 DEF evaluate_transaction
      <4>2. g[s].changes = Over(g[r].changes, Changes(u)) /\ g[s].index = g[r].index \cup {u}
        BY <4>1
      <4>3. DOMAIN g[s].changes = DOMAIN g[r].changes \cup Touched(u)
        BY <4>2 DEF Over, Changes, Touched
      <4>4. ASSUME t \notin s PROVE \A c \in DOMAIN g[s].changes : c \notin Touched(t)
        <5>1. u \in db \ {t}
          BY <3>1, <4>4
        <5>2. Touched(t) \cap Touched(u) = {}
          BY <5>1
        <5> QED
          BY <3>2, <4>3, <4>4, <5>2
      <4>5. ASSUME t \in s PROVE t \in g[s].index
        BY <3>2, <4>2, <4>5
      <4> QED
        BY <4>4, <4>5
    <3>5. CASE ~(Evaluates(v, num, u) /\ u.fee >= RelayFee)
      <4>1. g[s] = g[r]
        BY <3>3, <3>5 DEF evaluate_transaction
      <4>2. u # t
        <5> SUFFICES ASSUME u = t PROVE FALSE
          OBVIOUS
        <5>1. t \notin r
          OBVIOUS
        <5>2. \A c \in Touched(t) : c \in Coin /\ c \notin DOMAIN g[r].changes
          BY <3>2, <5>1, TrxFields DEF Touched
        <5>3. \A c \in Touched(t) : c \in v <=> c \in base
          BY <5>2 DEF View
        <5>4. Evaluates(v, num, t)
          <6> HIDE DEF v
          <6> QED
            BY <5>3 DEF Evaluates, Touched
        <5> QED
          BY <3>5, <5>4
      <4> QED
        BY <3>2, <4>1, <4>2
    <3> QED
      BY <3>4, <3>5
  <2> QED
    BY <2>1, <2>2
<1>3. db \in G
  <2> HIDE DEF G
  <2> QED
    BY <1>2, SubsetInduction
<1> QED
  BY <1>3, EvaluateAllIsFold DEF g

-----------------------------------------------------------------------------
(* The block that is generated is a sequence of transactions.              *)

LEMMA LastByFeeIn ==
    ASSUME NEW s \in SUBSET Trx, IsFiniteSet(s), s # {}
    PROVE  LastByFee(s) \in s
<1> DEFINE F == {-(t.fee) : t \in s}
<1>1. IsFiniteSet(F)
  <2>1. [t \in s |-> -(t.fee)] \in Surjection(s, F)
    BY DEF Surjection
  <2> HIDE DEF F
  <2> QED
    BY <2>1, FS_Surjection
<1>2. F \in SUBSET Int /\ F # {}
  BY TrxFields
<1>3. PICK m \in F : \A k \in F : k <= m
  <2> HIDE DEF F
  <2> QED
    BY <1>1, <1>2, GreatestElement
<1>4. PICK w \in s : -(w.fee) = m
  BY <1>3
<1>5. \A u \in s : u.fee >= w.fee
  <2>1. \A u \in s : -(u.fee) <= -(w.fee)
    BY <1>3, <1>4
  <2> QED
    BY <2>1, TrxFields
<1> DEFINE low == {t \in s : t.fee = w.fee}
<1>6. PICK t \in low : \A u \in low : u.digest <= t.digest
  <2>1. IsFiniteSet(low) /\ low \in SUBSET Trx /\ low # {}
    BY FS_Subset
  <2> DEFINE D == {t.digest : t \in low}
  <2>3. IsFiniteSet(D)
    <3>1. [t \in low |-> t.digest] \in Surjection(low, D)
      BY DEF Surjection
    <3> HIDE DEF D, low
    <3> QED
      BY <2>1, <3>1, FS_Surjection
  <2>4. D \in SUBSET Int /\ D # {}
    BY TrxFields
  <2>5. PICK d \in D : \A k \in D : k <= d
    <3> HIDE DEF D
    <3> QED
      BY <2>3, <2>4, GreatestElement
  <2> QED
    BY <2>5
<1>7. \A u \in s \ {t} : FeeBefore(u, t)
  <2> SUFFICES ASSUME NEW u \in s \ {t} PROVE FeeBefore(u, t)
    OBVIOUS
  <2>1. /\ u.fee \in Nat /\ u.digest \in Nat /\ t.fee \in Nat /\ t.digest \in Nat
        /\ t.digest = u.digest => t = u
    BY TrxFields
  <2>2. t.fee = w.fee /\ u.fee >= t.fee
    BY <1>5
  <2>3. CASE u.fee = t.fee
    <3>1. u.digest <= t.digest
      BY <1>6, <2>2, <2>3
    <3> QED
      BY <2>1, <2>3, <3>1 DEF FeeBefore
  <2>4. CASE u.fee # t.fee
    BY <2>1, <2>2, <2>4 DEF FeeBefore
  <2> QED
    BY <2>3, <2>4
<1> QED
  BY <1>7 DEF LastByFee

Generations == [view : SUBSET Coin, size : Nat, full : BOOLEAN, block : Seq(Trx)]

LEMMA IncludedType ==
    ASSUME NEW g \in Generations, NEW t \in Trx
    PROVE  Included(g, t) \in Generations
<1>1. t.size \in Nat
  BY TrxFields
<1>2. g.view \in SUBSET Coin /\ g.size \in Nat /\ g.full \in BOOLEAN /\ g.block \in Seq(Trx)
  BY DEF Generations
<1>3. [g EXCEPT !.full = TRUE] \in Generations
  BY DEF Generations
<1>4. g.size + t.size \in Nat
  BY <1>1, <1>2
<1>5. [g EXCEPT !.size = g.size + t.size] \in Generations
  BY <1>4 DEF Generations
<1>6. View(g.view, Changes(t)) \in SUBSET Coin
  BY DEF View
<1>7. Append(g.block, t) \in Seq(Trx)
  BY <1>2
<1>8. [view |-> View(g.view, Changes(t)), size |-> g.size + t.size, full |-> FALSE,
       block |-> Append(g.block, t)] \in Generations
  BY <1>4, <1>6, <1>7 DEF Generations
<1> QED
  BY <1>3, <1>5, <1>8 DEF Included

Generates(g, first) ==
  g = [s \in SUBSET first |->
         IF s = {} THEN [view |-> coins, size |-> 0, full |-> FALSE, block |-> <<>>]
         ELSE Included(g[s \ {LastByFee(s)}], LastByFee(s))]

generating(first) == CHOOSE g : Generates(g, first)

LEMMA GenerateIsFold ==
    ASSUME NEW first
    PROVE  generate_block(first) = generating(first)[first].block
BY DEF generate_block, MapThenFoldSet, generating, Generates

LEMMA GenerateType ==
    ASSUME coins \in SUBSET Coin, NEW first \in SUBSET Trx, IsFiniteSet(first)
    PROVE  generate_block(first) \in Seq(Trx)
<1> DEFINE b == [view |-> coins, size |-> 0, full |-> FALSE, block |-> <<>>]
           ch == [s \in SUBSET first |-> LastByFee(s)]
           step == [t \in first |-> [g \in Generations |-> Included(g, t)]]
<1>1. ASSUME NEW s \in SUBSET first, s # {} PROVE LastByFee(s) \in s
  BY <1>1, FS_Subset, LastByFeeIn
<1>2. Takes(ch, first)
  BY <1>1 DEF Takes
<1>3. b \in Generations
  BY DEF Generations
<1>4. step \in [first -> [Generations -> Generations]]
  BY IncludedType
<1>5. PICK g \in [SUBSET first -> Generations] : IsFold(g, first, ch, step, b)
  <2> HIDE DEF ch, step, b
  <2> QED
    BY <1>2, <1>3, <1>4, FoldOver
<1>6. ASSUME NEW s \in SUBSET first, s # {}
      PROVE  g[s] = Included(g[s \ {LastByFee(s)}], LastByFee(s))
  <2>1. LastByFee(s) \in first /\ s \ {LastByFee(s)} \in SUBSET first
        /\ ch[s] = LastByFee(s)
    BY <1>1, <1>6
  <2>2. g[s \ {LastByFee(s)}] \in Generations
    BY <2>1
  <2>3. g[s] = step[ch[s]][g[s \ {ch[s]}]]
    BY <1>5, <1>6 DEF IsFold
  <2> QED
    BY <2>1, <2>2, <2>3
<1>7. \A s \in SUBSET first : s = {} => g[s] = b
  BY <1>5 DEF IsFold
<1>8. Generates(g, first)
  <2>1. g = [s \in SUBSET first |-> g[s]]
    OBVIOUS
  <2> QED
    BY <1>6, <1>7, <2>1 DEF Generates
<1> DEFINE h == generating(first)
           G == {s \in SUBSET first : h[s] \in Generations}
<1>9. Generates(h, first)
  BY <1>8 DEF generating
<1> HIDE DEF h
<1>10. ASSUME NEW s \in SUBSET first, \A u \in SUBSET s : u # s => u \in G
       PROVE  s \in G
  <2>1. CASE s = {}
    BY <1>3, <1>9, <2>1 DEF Generates
  <2>2. CASE s # {}
    <3> DEFINE t == LastByFee(s)
    <3>1. t \in s
      BY <1>1, <2>2
    <3>2. h[s \ {t}] \in Generations
      BY <1>10, <3>1
    <3>3. h[s] = Included(h[s \ {t}], t)
      BY <1>9, <2>2 DEF Generates
    <3>4. t \in Trx
      BY <3>1
    <3> HIDE DEF t
    <3> QED
      BY <3>2, <3>3, <3>4, IncludedType
  <2> QED
    BY <2>1, <2>2
<1>11. first \in G
  <2> HIDE DEF G
  <2> QED
    BY <1>10, SubsetInduction
<1>12. h[first].block \in Seq(Trx)
  BY <1>11 DEF Generations
<1> QED
  BY <1>12, GenerateIsFold DEF h

-----------------------------------------------------------------------------
(* The inductive invariant of the pool: what is stored is finite and typed *)
(* as the code has it, and what is indexed applies to the chain.           *)
ThePool == [changes |-> pending_trx_state, index |-> pending_fee_index]

PoolInv ==
  /\ coins \in SUBSET Coin /\ head_num \in 0 .. MaxBlockNum
  /\ undo.coins \in SUBSET Coin /\ undo.num \in 0 .. MaxBlockNum /\ undo.block \in Seq(Trx)
  /\ pending_transaction_db \in SUBSET Trx /\ IsFiniteSet(pending_transaction_db)
  /\ pending_fee_index \in SUBSET pending_transaction_db
  /\ pending_trx_state \in PoolChanges
  /\ revalidate \in BOOLEAN /\ restarts \in 0 .. MaxRestarts
  /\ PoolFits(ThePool, coins, head_num)

LEMMA PoolBounds ==
    MaxBlockNum \in Nat /\ MaxRestarts \in Nat /\ MaxTrxs \in Nat /\ genesis \in SUBSET Coin
BY PoolBoundsAssumption, GenesisAssumption

LEMMA PoolStarts ==
    ASSUME PoolInit
    PROVE  PoolInv
<1>1. ThePool = NoPool
  BY DEF ThePool, PoolInit, NoPool
<1>2. PoolFits(ThePool, coins, head_num) /\ pending_trx_state \in PoolChanges
  <2>1. coins \in SUBSET Coin
    BY PoolBounds DEF PoolInit
  <2>2. PoolFits(NoPool, coins, head_num) /\ NoPool.changes \in PoolChanges
    BY <2>1, NoPoolFits DEF Pools
  <2> QED
    BY <1>1, <2>2 DEF PoolInit, NoPool
<1>3. undo.coins = genesis /\ undo.num = 0 /\ undo.block = <<>>
  BY DEF PoolInit
<1>4. 0 \in 0 .. MaxBlockNum /\ 0 \in 0 .. MaxRestarts /\ <<>> \in Seq(Trx)
  BY PoolBounds
<1>5. IsFiniteSet(pending_transaction_db)
  BY FS_EmptySet DEF PoolInit
<1> QED
  BY <1>2, <1>3, <1>4, <1>5, PoolBounds DEF PoolInit, PoolInv

(* The pool after clear_pending, on whatever chain state.                  *)
LEMMA ClearedPool ==
    ASSUME PoolInv, NEW confirmed, clear_pending(confirmed), coins' \in SUBSET Coin
    PROVE  /\ (pending_transaction_db \in SUBSET Trx)' /\ (IsFiniteSet(pending_transaction_db))'
           /\ (pending_fee_index \in SUBSET pending_transaction_db)'
           /\ (pending_trx_state \in PoolChanges)' /\ (revalidate \in BOOLEAN)'
           /\ (PoolFits(ThePool, coins, head_num))'
<1>1. ThePool' = NoPool
  BY DEF clear_pending, NoPool, ThePool
<1>2. PoolFits(NoPool, coins', head_num') /\ NoPool \in Pools
  BY NoPoolFits
<1>3. PoolFits(ThePool', coins', head_num')
  BY <1>1, <1>2
<1>4. NoChanges \in PoolChanges
  BY <1>2 DEF NoPool, Pools
<1>5. pending_transaction_db' \in SUBSET pending_transaction_db
  BY DEF clear_pending
<1>6. IsFiniteSet(pending_transaction_db')
  BY <1>5, FS_Subset DEF PoolInv
<1> QED
  BY <1>3, <1>4, <1>5, <1>6 DEF PoolInv, clear_pending, PoolFits

LEMMA NextNumType ==
    ASSUME NEW n \in 0 .. MaxBlockNum
    PROVE  NextNum(n) \in 0 .. MaxBlockNum
BY PoolBounds DEF NextNum

LEMMA EvaluateBlockType ==
    ASSUME NEW counted, NEW base \in SUBSET Coin, NEW num, NEW block \in Seq(Trx)
    PROVE  evaluate_block(counted, base, num, block) \in Applications
BY ApplyType DEF evaluate_block, Applications

LEMMA ExtendPool ==
    ASSUME PoolInv, NEW counted, NEW block \in Seq(Trx), extend_chain(counted, block)
    PROVE  PoolInv'
<1> DEFINE r == evaluate_block(counted, coins, head_num, block)
<1>1. r \in Applications /\ r # <<>>
  BY EvaluateBlockType DEF PoolInv, extend_chain
<1>2. r[1] \in SUBSET Coin
  <2> HIDE DEF r
  <2> QED
    BY <1>1 DEF Applications
<1>3. /\ coins' = r[1] /\ head_num' = NextNum(head_num)
      /\ undo' = [coins |-> coins, num |-> head_num, block |-> block]
      /\ clear_pending(Range(block)) /\ restarts' = restarts
  BY DEF extend_chain
<1>4. /\ coins' \in SUBSET Coin /\ head_num' \in 0 .. MaxBlockNum
      /\ undo'.coins \in SUBSET Coin /\ undo'.num \in 0 .. MaxBlockNum /\ undo'.block \in Seq(Trx)
      /\ restarts' \in 0 .. MaxRestarts
  <2> HIDE DEF r
  <2> QED
    BY <1>2, <1>3, NextNumType DEF PoolInv
<1> QED
  BY <1>3, <1>4, ClearedPool DEF PoolInv

LEMMA ForkPool ==
    ASSUME PoolInv, NEW a \in Seq(Trx), NEW b \in Seq(Trx), NEW countedA, NEW countedB,
           switch_to_fork(countedA, a, countedB, b)
    PROVE  PoolInv'
<1> DEFINE one == evaluate_block(countedA, undo.coins, undo.num, a)
           num == NextNum(undo.num)
           two == IF one = <<>> THEN <<>> ELSE evaluate_block(countedB, one[1], num, b)
<1>1. one \in Applications /\ one # <<>>
  BY EvaluateBlockType DEF PoolInv, switch_to_fork
<1>2. one[1] \in SUBSET Coin
  <2> HIDE DEF one
  <2> QED
    BY <1>1 DEF Applications
<1>3. two \in Applications
  <2>1. two = evaluate_block(countedB, one[1], num, b)
    BY <1>1
  <2> HIDE DEF one, two
  <2> QED
    BY <1>2, <2>1, EvaluateBlockType
<1>4. num \in 0 .. MaxBlockNum /\ NextNum(num) \in 0 .. MaxBlockNum
  BY NextNumType DEF PoolInv
<1>5. /\ \/ /\ two # <<>>
            /\ coins' = two[1] /\ head_num' = NextNum(num)
            /\ undo' = [coins |-> one[1], num |-> num, block |-> b]
            /\ clear_pending(Range(a) \cup Range(b))
         \/ /\ clear_pending(Range(a) \cup Range(undo.block))
            /\ coins' = coins /\ head_num' = head_num /\ undo' = undo
      /\ restarts' = restarts
  BY DEF switch_to_fork
<1> HIDE DEF one, num, two
<1>6. CASE two # <<>> /\ coins' = two[1] /\ head_num' = NextNum(num)
           /\ undo' = [coins |-> one[1], num |-> num, block |-> b]
           /\ clear_pending(Range(a) \cup Range(b))
  <2>1. two[1] \in SUBSET Coin
    BY <1>3, <1>6 DEF Applications
  <2>2. /\ coins' \in SUBSET Coin /\ head_num' \in 0 .. MaxBlockNum
        /\ undo'.coins \in SUBSET Coin /\ undo'.num \in 0 .. MaxBlockNum /\ undo'.block \in Seq(Trx)
        /\ restarts' \in 0 .. MaxRestarts
    BY <1>2, <1>4, <1>5, <1>6, <2>1 DEF PoolInv
  <2> QED
    BY <1>6, <2>2, ClearedPool DEF PoolInv
<1>7. CASE clear_pending(Range(a) \cup Range(undo.block))
           /\ coins' = coins /\ head_num' = head_num /\ undo' = undo
  <2>1. coins' \in SUBSET Coin
    BY <1>7 DEF PoolInv
  <2> QED
    BY <1>5, <1>7, <2>1, ClearedPool DEF PoolInv
<1> QED
  BY <1>5, <1>6, <1>7

LEMMA BoundedSeqType ==
    ASSUME NEW block \in BoundedSeq(Trx, MaxTrxs)
    PROVE  block \in Seq(Trx)
<1>1. PICK m \in 0 .. MaxTrxs : block \in [1 .. m -> Trx]
  BY DEF BoundedSeq, SeqOf
<1>2. m \in Nat
  BY PoolBounds
<1> QED
  BY <1>1, <1>2

(* The stored transactions evaluated again, on the same chain.             *)
LEMMA ReevaluatedPool ==
    ASSUME PoolInv, NEW p, p = EvaluateAll(coins, head_num, pending_transaction_db),
           pending_trx_state' = p.changes, pending_fee_index' = p.index,
           coins' = coins, head_num' = head_num
    PROVE  /\ p.index \in SUBSET pending_transaction_db /\ pending_trx_state' \in PoolChanges
           /\ (PoolFits(ThePool, coins, head_num))'
<1>1. p \in Pools /\ p.index \subseteq pending_transaction_db /\ PoolFits(p, coins, head_num)
  BY EvaluateAllFits DEF PoolInv
<1>2. ThePool' = p
  BY <1>1 DEF ThePool, Pools
<1> QED
  BY <1>1, <1>2 DEF Pools, PoolFits

LEMMA StorePool ==
    ASSUME PoolInv, NEW t \in Trx, NEW limits,
           store_pending_transaction(t, limits)
    PROVE  PoolInv'
<1> DEFINE p == ThePool
           fee == relay_fee(limits)
           q == evaluate_transaction(p, coins, head_num, t, fee)
<1>1. /\ t \notin pending_transaction_db /\ q # p
      /\ pending_trx_state' = q.changes /\ pending_fee_index' = q.index
      /\ pending_transaction_db' = pending_transaction_db \cup {t}
      /\ UNCHANGED <<coins, head_num, undo, revalidate, restarts>>
  BY DEF store_pending_transaction, ThePool
<1>2. p \in Pools /\ p.index = pending_fee_index
  BY DEF ThePool, Pools, PoolInv
<1>3. IsFiniteSet(p.index) /\ t \notin p.index /\ PoolFits(p, coins, head_num)
  BY <1>1, <1>2, FS_Subset DEF PoolInv
<1>4. coins \in SUBSET Coin
  BY DEF PoolInv
<1> HIDE DEF p, fee
<1>5. q \in Pools /\ PoolFits(q, coins, head_num)
  BY <1>2, <1>3, <1>4, EvaluateStep
<1>6. \A u \in q.index : u \in p.index \/ u = t
  BY <1>2, <1>3, <1>4, EvaluateStep
<1> HIDE DEF q
<1>7. ThePool' = q
  BY <1>1, <1>5 DEF ThePool, Pools
<1>8. IsFiniteSet(pending_transaction_db')
  BY <1>1, FS_AddElement DEF PoolInv
<1>9. q.changes \in PoolChanges
  BY <1>5 DEF Pools
<1>10. pending_fee_index' \in SUBSET pending_transaction_db'
  BY <1>1, <1>2, <1>6 DEF PoolInv
<1>11. (PoolFits(ThePool, coins, head_num))'
  BY <1>1, <1>5, <1>7 DEF PoolFits
<1> QED
  BY <1>1, <1>8, <1>9, <1>10, <1>11 DEF PoolInv

LEMMA PoolStep ==
    ASSUME PoolInv, [PoolNext]_pool_vars
    PROVE  PoolInv'
<1>1. ASSUME NEW t \in Trx, NEW limits \in BOOLEAN, store_pending_transaction(t, limits)
      PROVE  PoolInv'
  BY <1>1, StorePool
<1>2. ASSUME revalidate_pending PROVE PoolInv'
  <2> DEFINE p == EvaluateAll(coins, head_num, pending_transaction_db)
  <2>1. /\ pending_trx_state' = p.changes /\ pending_fee_index' = p.index
        /\ pending_transaction_db' = p.index /\ revalidate' = FALSE
        /\ UNCHANGED <<coins, head_num, undo, restarts>>
    BY <1>2 DEF revalidate_pending
  <2> HIDE DEF p
  <2>2. p.index \in SUBSET pending_transaction_db /\ pending_trx_state' \in PoolChanges
        /\ (PoolFits(ThePool, coins, head_num))'
    BY <2>1, ReevaluatedPool DEF p
  <2>3. IsFiniteSet(p.index)
    BY <2>2, FS_Subset DEF PoolInv
  <2> QED
    BY <2>1, <2>2, <2>3 DEF PoolInv
<1>3. ASSUME own_block PROVE PoolInv'
  <2>1. PICK first \in SUBSET pending_fee_index, missed \in Counted :
               extend_chain({self} \cup missed, generate_block(first))
    BY <1>3 DEF own_block
  <2>2. first \in SUBSET Trx /\ IsFiniteSet(first)
    BY FS_Subset DEF PoolInv
  <2>3. generate_block(first) \in Seq(Trx)
    BY <2>2, GenerateType DEF PoolInv
  <2> QED
    BY <2>1, <2>3, ExtendPool
<1>4. ASSUME network_block PROVE PoolInv'
  BY <1>4, BoundedSeqType, ExtendPool DEF network_block
<1>5. ASSUME fork_block PROVE PoolInv'
  BY <1>5, BoundedSeqType, ForkPool DEF fork_block
<1>6. ASSUME open PROVE PoolInv'
  <2> DEFINE p == EvaluateAll(coins, head_num, pending_transaction_db)
  <2>1. /\ restarts < MaxRestarts /\ pending_trx_state' = p.changes /\ pending_fee_index' = p.index
        /\ revalidate' = FALSE /\ restarts' = restarts + 1
        /\ UNCHANGED <<coins, head_num, undo, pending_transaction_db>>
    BY <1>6 DEF open
  <2> HIDE DEF p
  <2>2. p.index \in SUBSET pending_transaction_db /\ pending_trx_state' \in PoolChanges
        /\ (PoolFits(ThePool, coins, head_num))'
    BY <2>1, ReevaluatedPool DEF p
  <2>3. restarts' \in 0 .. MaxRestarts
    BY <2>1, PoolBounds DEF PoolInv
  <2> QED
    BY <2>1, <2>2, <2>3 DEF PoolInv
<1>7. ASSUME UNCHANGED pool_vars PROVE PoolInv'
  BY <1>7 DEF pool_vars, PoolInv, PoolFits, ThePool
<1> QED
  BY <1>1, <1>2, <1>3, <1>4, <1>5, <1>6, <1>7 DEF PoolNext

LEMMA PoolInvariant ==
    PoolSpec => []PoolInv
<1>1. PoolInit => PoolInv
  BY PoolStarts
<1>2. PoolInv /\ [PoolNext]_pool_vars => PoolInv'
  BY PoolStep
<1> QED
  BY <1>1, <1>2, PTL DEF PoolSpec

(* The pool keeps its types: what is indexed is stored, so a restart finds *)
(* it, and the overlay is about records of the chain.                      *)
THEOREM PoolTypeCorrect ==
    PoolSpec => []PoolTypeOK
<1>1. PoolInv => PoolTypeOK
  <2> SUFFICES ASSUME PoolInv PROVE PoolTypeOK
    OBVIOUS
  <2>1. Range(undo.block) \subseteq Trx
    <3>1. undo.block \in Seq(Trx)
      BY DEF PoolInv
    <3> QED
      BY <3>1 DEF Range
  <2>2. \A c \in DOMAIN pending_trx_state : c \in Coin /\ pending_trx_state[c] \in BOOLEAN
    BY DEF PoolInv, PoolChanges
  <2> QED
    BY <2>1, <2>2 DEF PoolInv, PoolTypeOK
<1> QED
  BY <1>1, PoolInvariant, PTL

(* No two indexed transactions conflict: in some order they all apply to   *)
(* the head state, and the overlay is the result, however transactions,    *)
(* blocks, forks, restarts and the revalidation task interleave.           *)
THEOREM PoolStaysConsistent ==
    PoolSpec => []PoolConsistent
<1>1. PoolInv => PoolConsistent
  BY DEF PoolInv, PoolFits, ThePool, PoolConsistent
<1> QED
  BY <1>1, PoolInvariant, PTL

(* revalidate_pending never drops a transaction that is valid on the new   *)
(* chain and that no other stored transaction touches.                     *)
THEOREM RevalidationKeepsUnconflicted ==
    PoolSpec => UnconflictedKept
<1> DEFINE Kept(t) ==
      (/\ Evaluates(coins, head_num, t) /\ t.fee >= RelayFee
       /\ \A u \in pending_transaction_db \ {t} :
            (t.needs \cup t.makes) \cap (u.needs \cup u.makes) = {})
      => t \in pending_fee_index'
<1>1. PoolInv /\ [PoolNext]_pool_vars
        => [revalidate_pending => \A t \in pending_transaction_db : Kept(t)]_pool_vars
  <2> SUFFICES ASSUME PoolInv, revalidate_pending, NEW t \in pending_transaction_db,
                      Evaluates(coins, head_num, t), t.fee >= RelayFee,
                      \A u \in pending_transaction_db \ {t} :
                        (t.needs \cup t.makes) \cap (u.needs \cup u.makes) = {}
               PROVE  t \in pending_fee_index'
    BY DEF Kept
  <2>1. pending_fee_index' = EvaluateAll(coins, head_num, pending_transaction_db).index
    BY DEF revalidate_pending
  <2>2. \A u \in pending_transaction_db \ {t} : Touched(t) \cap Touched(u) = {}
    BY DEF Touched
  <2> QED
    BY <2>1, <2>2, EvaluateAllKeeps DEF PoolInv
<1> QED
  BY <1>1, PoolInvariant, PTL DEF PoolSpec, UnconflictedKept, Kept
=============================================================================
