---------------------------- MODULE WalletProofs ----------------------------
(***************************************************************************)
(* Proofs about Wallet, for any block tree, deposits and timeouts: what a  *)
(* scan can miss, and the delegate loop of an unlocked wallet.  And about  *)
(* WalletDatabase, for any names, keys, passwords and number of calls:     *)
(* what the file and the maps in memory hold after any call and any crash, *)
(* and that the wallet implements KeyStore.                                *)
(***************************************************************************)
EXTENDS Wallet, WalletDatabase, SumTheorems

(* The deposit in block n has been found, or there is a reason why not.    *)
Found(n) ==
  chain[n] \in Deposits => keys[chain[n]] = "right" \/ chain[n] \in blind \cup passed \cup skipped

(* What the scan is past: the blocks below its mark and those below the    *)
(* block it is at, or will start with.                                     *)
Scanned == 1 .. (IF scan.block - 1 < last_scanned THEN last_scanned - 1 ELSE scan.block - 1)

(* A memo that is being decrypted is that of the chain's block, unless a   *)
(* fork switch has come in between.                                        *)
MemoOf ==
  scan.state = "memo" =>
    /\ scan.memo_of \in Deposits
    /\ scan.block <= head => chain[scan.block] = scan.memo_of \/ chain[scan.block] \in passed

ScanTasks == [state : {"off", "async", "block", "memo"}, block : Nat, end : Nat,
              keyed : BOOLEAN, memo_of : Blocks \cup {Root}]

ScanTypeOK ==
  /\ chain \in Seq(Blocks) /\ last_scanned \in Nat
  /\ observers \in Seq([kind : {"changed", "applied"}, block_num : Nat])
  /\ scan \in ScanTasks
  /\ (scan.state = "off" <=> scan.block = 0)
  /\ DOMAIN keys = Deposits

IInv ==
  /\ ScanTypeOK /\ MemoOf
  /\ \A n \in Scanned \cap (1 .. head) : Found(n)

-----------------------------------------------------------------------------
(* The chain of the target block agrees with the present chain up to the   *)
(* block that push_block takes as their common ancestor.                   *)
LEMMA CommonAncestor ==
    ASSUME NEW s \in Seq(Blocks), NEW t \in Seq(Blocks),
           NEW common, common = Len(LongestCommonPrefix({s, t}))
    PROVE  /\ common \in Nat /\ common <= Len(s) /\ common <= Len(t)
           /\ \A i \in 1 .. common : s[i] = t[i]
<1> DEFINE C == CommonPrefixes({s, t})
           L == {Len(p) : p \in C}
<1>1. ASSUME NEW p \in C
      PROVE  /\ p \in Seq(Blocks) /\ Len(p) <= Len(s) /\ Len(p) <= Len(t)
             /\ \A i \in 1 .. Len(p) : p[i] = s[i] /\ p[i] = t[i]
  <2>1. PICK q \in {s, t} : \E l \in 0 .. Len(q) : p = SubSeq(q, 1, l)
    BY DEF CommonPrefixes, Prefixes
  <2>2. p \in Seq(Blocks)
    BY <2>1
  <2>3. IsPrefix(p, s) /\ IsPrefix(p, t)
    BY DEF CommonPrefixes
  <2>4. Len(p) <= Len(s) /\ Len(p) <= Len(t)
    BY <2>3 DEF IsPrefix
  <2>5. SubSeq(p, 1, Len(p)) = SubSeq(s, 1, Len(p)) /\ SubSeq(p, 1, Len(p)) = SubSeq(t, 1, Len(p))
    BY <2>3 DEF IsPrefix
  <2>6. ASSUME NEW i \in 1 .. Len(p)
        PROVE  /\ SubSeq(p, 1, Len(p))[i] = p[i] /\ SubSeq(s, 1, Len(p))[i] = s[i]
               /\ SubSeq(t, 1, Len(p))[i] = t[i]
    BY <2>2, <2>4
  <2> QED
    BY <2>2, <2>4, <2>5, <2>6
<1>2. C # {}
  <2>1. SubSeq(s, 1, 0) = <<>> /\ SubSeq(t, 1, 0) = <<>> /\ 0 \in 0 .. Len(s)
    OBVIOUS
  <2>2. <<>> \in Prefixes(s)
    BY <2>1 DEF Prefixes
  <2>3. IsPrefix(<<>>, s) /\ IsPrefix(<<>>, t)
    BY <2>1 DEF IsPrefix
  <2> QED
    BY <2>2, <2>3 DEF CommonPrefixes
<1> HIDE DEF C
<1>3. L \subseteq 0 .. Len(s)
  <2> SUFFICES ASSUME NEW p \in C PROVE Len(p) \in 0 .. Len(s)
    OBVIOUS
  <2>1. p \in Seq(Blocks) /\ Len(p) <= Len(s)
    BY <1>1
  <2> QED
    BY <2>1
<1>4. L # {} /\ L \in SUBSET Int
  <2>1. 0 .. Len(s) \subseteq Int
    OBVIOUS
  <2> HIDE DEF L
  <2>2. L \in SUBSET Int
    BY <1>3, <2>1
  <2>3. L # {}
    BY <1>2 DEF L
  <2> QED
    BY <2>2, <2>3
<1>5. IsFiniteSet(L)
  <2>1. IsFiniteSet(0 .. Len(s))
    BY FS_Interval
  <2> QED
    BY <1>3, <2>1, FS_Subset
<1>6. PICK m \in L : \A k \in L : k <= m
  BY <1>4, <1>5, GreatestElement
<1>7. PICK p \in C : \A q \in C : Len(q) <= Len(p)
  BY <1>6
<1>8. LongestCommonPrefix({s, t}) \in C
  BY <1>7, Zenon DEF LongestCommonPrefix, C
<1> DEFINE lcp == LongestCommonPrefix({s, t})
<1> HIDE DEF lcp
<1>9. common = Len(lcp) /\ lcp \in C
  BY <1>8 DEF lcp
<1>10. /\ lcp \in Seq(Blocks) /\ Len(lcp) <= Len(s) /\ Len(lcp) <= Len(t)
       /\ \A i \in 1 .. Len(lcp) : lcp[i] = s[i] /\ lcp[i] = t[i]
  BY <1>1, <1>9
<1>11. Len(lcp) \in Nat /\ \A i \in 1 .. Len(lcp) : s[i] = t[i]
  BY <1>10
<1> QED
  BY <1>9, <1>10, <1>11, Zenon

-----------------------------------------------------------------------------
(* A step that leaves the chain and what has been found alone keeps the    *)
(* invariant when everything it adds to the scanned blocks has been found. *)
LEMMA KeepsFound ==
    ASSUME IInv, ScanTypeOK', MemoOf', UNCHANGED <<chain, keys, blind, passed>>,
           skipped \subseteq skipped',
           \A n \in Scanned' : n \in Scanned \/ ~(n \in 1 .. head) \/ chain[n] \in skipped'
    PROVE  IInv'
<1>1. \A n \in (Scanned \cap (1 .. head))' : Found(n)'
  BY DEF IInv, Found, head
<1> QED
  BY <1>1 DEF IInv

(* A step that leaves all this and the scan alone keeps the invariant.     *)
LEMMA Unscanned ==
    ASSUME IInv, UNCHANGED <<chain, observers, results, history>>
    PROVE  IInv'
<1>1. UNCHANGED <<chain, observers, last_scanned, scan, keys, blind, passed, skipped>>
  BY DEF results, history
<1> QED
  BY <1>1 DEF IInv, ScanTypeOK, MemoOf, Scanned, Found, head

(* A scan that is cancelled, and one that is started, never count a block  *)
(* as scanned that was not: what lies between the mark and the start of    *)
(* the new scan is remembered.                                             *)
LEMMA ScanChain ==
    ASSUME IInv, NEW start \in Nat, NEW end \in Nat, scan_chain(start, end),
           observers' \in Seq([kind : {"changed", "applied"}, block_num : Nat]),
           UNCHANGED <<chain, keys, blind, passed>>, skipped \subseteq skipped',
           \/ start = last_scanned
           \/ \A n \in 1 .. head : last_scanned' <= n /\ n < start => chain[n] \in skipped'
    PROVE  IInv'
<1>1. /\ last_scanned \in Nat /\ scan.block \in Nat /\ start \in Nat
      /\ scan.state \in {"off", "async", "block", "memo"}
  BY DEF IInv, ScanTypeOK, ScanTasks
<1>2. CASE scanning
  <2>1. /\ scan' = ScanTask(start, end)
        /\ last_scanned' = IF scan.state = "memo" THEN scan.block ELSE last_scanned
    BY <1>2 DEF scan_chain, CancelScan
  <2>2. scan' \in ScanTasks /\ scan'.state = "async"
        /\ scan'.block = IF start = 0 THEN 1 ELSE start
    BY <1>1, <2>1 DEF ScanTask, ScanTasks
  <2>3. ScanTypeOK' /\ MemoOf'
    BY <1>1, <2>1, <2>2 DEF IInv, ScanTypeOK, MemoOf
  <2>4. \A n \in Scanned' : n \in Scanned \/ ~(n \in 1 .. head) \/ chain[n] \in skipped'
    <3> SUFFICES ASSUME NEW n \in Scanned', n \notin Scanned, n \in 1 .. head
                 PROVE  chain[n] \in skipped'
      OBVIOUS
    <3>1. n \in Nat /\ start # last_scanned /\ last_scanned' <= n /\ n < start
      BY <1>1, <2>1, <2>2 DEF Scanned
    <3> QED
      BY <3>1
  <2> QED
    BY <2>3, <2>4, KeepsFound
<1>3. CASE ~scanning
  <2>1. UNCHANGED <<scan, last_scanned>>
    BY <1>3 DEF scan_chain
  <2>2. ScanTypeOK' /\ MemoOf' /\ Scanned' = Scanned
    BY <2>1 DEF IInv, ScanTypeOK, MemoOf, Scanned, head
  <2> QED
    BY <2>2, KeepsFound
<1> QED
  BY <1>2, <1>3

(* The same for a scan that ends.                                          *)
LEMMA ScanStops ==
    ASSUME IInv, scan' = NoScan, CancelScan \/ UNCHANGED last_scanned,
           UNCHANGED <<chain, observers, keys, blind, passed, skipped>>
    PROVE  IInv'
<1>1. last_scanned \in Nat /\ scan.block \in Nat
  BY DEF IInv, ScanTypeOK, ScanTasks
<1>2. scan' \in ScanTasks
      /\ scan'.state = "off" /\ scan'.block = 0
  BY DEF NoScan, ScanTasks
<1>3. \/ last_scanned' = last_scanned
      \/ last_scanned' = scan.block /\ scan.state = "memo"
  BY DEF CancelScan
<1>4. ScanTypeOK' /\ MemoOf'
  BY <1>1, <1>2, <1>3 DEF IInv, ScanTypeOK, MemoOf
<1>5. \A n \in Scanned' : n \in Scanned
  BY <1>1, <1>2, <1>3 DEF Scanned
<1> QED
  BY <1>4, <1>5, KeepsFound

(* A block after which the scan goes on to the next has been found.        *)
LEMMA ScansOn ==
    ASSUME IInv, scan' = NextBlock, last_scanned' = scan.block, scan.state # "off"
    PROVE  /\ scan' \in ScanTasks
           /\ scan'.state = "block" /\ scan'.block # 0 /\ last_scanned' \in Nat
           /\ \A n \in Scanned' : n \in Scanned \/ n = scan.block
<1>1. last_scanned \in Nat /\ scan.block \in Nat
  BY DEF IInv, ScanTypeOK, ScanTasks
<1>2. /\ scan' \in ScanTasks
      /\ scan'.state = "block" /\ scan'.block = scan.block + 1
  <2>1. scan \in ScanTasks
    BY DEF IInv, ScanTypeOK
  <2>2. scan' = [scan EXCEPT !.state = "block", !.block = scan.block + 1, !.memo_of = Root]
    BY DEF NextBlock
  <2>3. scan' = [state |-> "block", block |-> scan.block + 1, end |-> scan.end,
                 keyed |-> scan.keyed, memo_of |-> Root]
    BY <2>1, <2>2 DEF ScanTasks
  <2>4. scan.end \in Nat /\ scan.keyed \in BOOLEAN
    BY <2>1 DEF ScanTasks
  <2> QED
    BY <1>1, <2>3, <2>4 DEF ScanTasks
<1>3. \A n \in Scanned' : n \in Scanned \/ n = scan.block
  BY <1>1, <1>2 DEF Scanned
<1> QED
  BY <1>1, <1>2, <1>3

(* The four steps of a scan.                                               *)
LEMMA ScanKeeps ==
    ASSUME IInv, ScanStep
    PROVE  IInv'
<1>1. /\ scan \in ScanTasks /\ scan.block \in Nat /\ last_scanned \in Nat
      /\ chain \in Seq(Blocks) /\ head \in Nat
      /\ (scan.state = "off" <=> scan.block = 0)
  BY DEF IInv, ScanTypeOK, ScanTasks, head
<1>2. CASE scan_chain_task
  <2>1. UNCHANGED <<chain, observers, last_scanned, keys, blind, passed, skipped>> /\ scan.state = "async"
    BY <1>2 DEF scan_chain_task, history
  <2>2. CASE open
    <3> DEFINE last == IF scan.end < head THEN scan.end ELSE head
    <3>1. scan' = [scan EXCEPT !.state = "block", !.keyed = (password = "right"), !.end = last]
      BY <1>2, <2>2 DEF scan_chain_task
    <3>2. scan.end \in Nat /\ last \in Nat /\ scan.memo_of \in Blocks \cup {Root}
      BY <1>1 DEF ScanTasks
    <3> HIDE DEF last
    <3>3. scan' = [state |-> "block", block |-> scan.block, end |-> last,
                   keyed |-> password = "right", memo_of |-> scan.memo_of]
      BY <1>1, <3>1 DEF ScanTasks
    <3>4. scan' \in ScanTasks /\ scan'.state = "block" /\ scan'.block = scan.block
      BY <1>1, <3>2, <3>3 DEF ScanTasks
    <3>5. ScanTypeOK' /\ MemoOf' /\ Scanned' = Scanned
      BY <2>1, <3>4 DEF IInv, ScanTypeOK, MemoOf, Scanned
    <3> QED
      BY <2>1, <3>5, KeepsFound
  <2>3. CASE ~open
    BY <1>2, <2>1, <2>3, ScanStops DEF scan_chain_task
  <2> QED
    BY <2>2, <2>3
<1>3. CASE scan_block
  <2>1. UNCHANGED <<chain, observers, keys, passed, skipped>> /\ scan.state = "block"
    BY <1>3 DEF scan_block, history
  <2> DEFINE mine == scan.block <= head /\ chain[scan.block] \in Deposits
  <2>2. CASE mine /\ scan.keyed
    <3>1. /\ scan' = [scan EXCEPT !.state = "memo", !.memo_of = chain[scan.block]]
          /\ UNCHANGED <<last_scanned, blind>>
      BY <1>3, <2>2 DEF scan_block
    <3>2. scan'.state = "memo" /\ scan'.block = scan.block /\ scan'.memo_of = chain[scan.block]
      BY <1>1, <3>1 DEF ScanTasks
    <3>3. scan' \in ScanTasks
      BY <1>1, <2>2, <3>1, DepositsAssumption DEF ScanTasks
    <3>4. ScanTypeOK' /\ Scanned' = Scanned
      BY <2>1, <3>1, <3>2, <3>3 DEF IInv, ScanTypeOK, Scanned
    <3>5. MemoOf'
      BY <2>1, <2>2, <3>2 DEF MemoOf
    <3> QED
      BY <2>1, <3>1, <3>4, <3>5, KeepsFound
  <2>3. CASE ~(mine /\ scan.keyed)
    <3>1. /\ scan' = NextBlock /\ last_scanned' = scan.block
          /\ blind' = IF mine THEN blind \cup {chain[scan.block]} ELSE blind
      BY <1>3, <2>3 DEF scan_block
    <3>2. /\ scan' \in ScanTasks /\ scan'.state = "block" /\ scan'.block # 0 /\ last_scanned' \in Nat
          /\ \A n \in Scanned' : n \in Scanned \/ n = scan.block
      BY <2>1, <3>1, ScansOn
    <3>3. ScanTypeOK' /\ MemoOf'
      BY <2>1, <3>2 DEF IInv, ScanTypeOK, MemoOf
    <3>4. ASSUME NEW n \in (Scanned \cap (1 .. head))' PROVE Found(n)'
      <4>1. n \in 1 .. head /\ (n \in Scanned \/ n = scan.block)
        BY <2>1, <3>2 DEF head
      <4>2. CASE n \in Scanned
        <5>1. Found(n)
          BY <4>1, <4>2 DEF IInv
        <5> QED
          BY <2>1, <3>1, <5>1 DEF Found
      <4>3. CASE n = scan.block
        <5>1. n <= head
          BY <1>1, <4>1
        <5> QED
          BY <2>1, <3>1, <4>3, <5>1 DEF Found
      <4> QED
        BY <4>1, <4>2, <4>3
    <3> QED
      BY <3>3, <3>4 DEF IInv
  <2> QED
    BY <2>2, <2>3
<1>4. CASE scan_deposit
  <2>1. /\ UNCHANGED <<chain, observers, passed, skipped>> /\ scan.state = "memo"
        /\ keys' = IF password = None THEN keys ELSE [keys EXCEPT ![scan.memo_of] = password]
        /\ blind' = IF password = "right" THEN blind ELSE blind \cup {scan.memo_of}
        /\ last_scanned' = scan.block /\ scan' = NextBlock
    BY <1>4 DEF scan_deposit, history
  <2>2. /\ scan' \in ScanTasks /\ scan'.state = "block" /\ scan'.block # 0 /\ last_scanned' \in Nat
        /\ \A n \in Scanned' : n \in Scanned \/ n = scan.block
    BY <2>1, ScansOn
  <2>3. DOMAIN keys = Deposits /\ scan.memo_of \in Deposits
    BY <2>1 DEF IInv, ScanTypeOK, MemoOf
  <2>4. DOMAIN keys' = Deposits
    BY <2>1, <2>3
  <2>5. ScanTypeOK' /\ MemoOf'
    BY <2>1, <2>2, <2>4 DEF IInv, ScanTypeOK, MemoOf
  <2>6. keys'[scan.memo_of] = "right" \/ scan.memo_of \in blind'
    BY <2>1, <2>3 DEF None
  <2>7. ASSUME NEW d \in Deposits, keys[d] = "right" \/ d \in blind \cup passed \cup skipped
        PROVE  keys'[d] = "right" \/ d \in blind' \cup passed' \cup skipped'
    <3>1. CASE d = scan.memo_of
      BY <2>6, <3>1
    <3>2. CASE d # scan.memo_of
      <4>1. keys'[d] = keys[d] /\ blind \subseteq blind' /\ passed' = passed /\ skipped' = skipped
        BY <2>1, <2>3, <3>2
      <4> QED
        BY <2>7, <4>1
    <3> QED
      BY <3>1, <3>2
  <2>8. ASSUME NEW n \in (Scanned \cap (1 .. head))' PROVE Found(n)'
    <3>1. n \in 1 .. head /\ (n \in Scanned \/ n = scan.block)
      BY <2>1, <2>2 DEF head
    <3>2. CASE n \in Scanned
      <4>1. Found(n)
        BY <3>1, <3>2 DEF IInv
      <4> QED
        BY <2>1, <2>7, <4>1 DEF Found
    <3>3. CASE n = scan.block
      <4>1. chain[n] = scan.memo_of \/ chain[n] \in passed
        BY <1>1, <2>1, <3>1, <3>3 DEF IInv, MemoOf
      <4> QED
        BY <2>1, <2>6, <4>1 DEF Found
    <3> QED
      BY <3>1, <3>2, <3>3
  <2> QED
    BY <2>5, <2>8 DEF IInv
<1>5. CASE scan_ends
  BY <1>5, ScanStops DEF scan_ends, history
<1> QED
  BY <1>2, <1>3, <1>4, <1>5 DEF ScanStep

(* A fork switch: the blocks above the common ancestor that the scan is    *)
(* past are remembered, those below are the same as before.                *)
LEMMA PushKeeps ==
    ASSUME IInv, NEW b \in Blocks, NEW young \in 0 .. MaxYoung, push_block(b, young)
    PROVE  IInv'
<1> DEFINE target == ChainTo[b]
           common == Len(LongestCommonPrefix({chain, target}))
           popped == [i \in 1 .. head - common |-> [kind |-> "changed", block_num |-> 0]]
           pushed == [i \in 1 .. young |->
                        [kind |-> "applied", block_num |-> Len(target) - young + i]]
<1>1. /\ chain' = target /\ observers' = observers \o popped \o pushed
      /\ passed' = passed \cup {target[n] : n \in (common + 1 .. Len(target)) \cap Behind}
      /\ young <= Len(target) - common
      /\ UNCHANGED <<last_scanned, scan, keys, blind, skipped>>
  BY DEF push_block
<1>2. chain \in Seq(Blocks) /\ target \in Seq(Blocks)
  BY ChainsAssumption DEF IInv, ScanTypeOK
<1> HIDE DEF target, common
<1>3. /\ common \in Nat /\ common <= Len(chain) /\ common <= Len(target)
      /\ \A i \in 1 .. common : chain[i] = target[i]
  BY <1>2, CommonAncestor DEF common
<1>4. /\ scan.block \in Nat /\ last_scanned \in Nat /\ Len(target) \in Nat /\ head \in Nat
      /\ scan.state \in {"off", "async", "block", "memo"}
      /\ (scan.state = "off" <=> scan.block = 0)
  BY <1>2 DEF IInv, ScanTypeOK, ScanTasks, head
<1>5. observers' \in Seq([kind : {"changed", "applied"}, block_num : Nat])
  <2> DEFINE N == [kind : {"changed", "applied"}, block_num : Nat]
  <2>1. observers \in Seq(N)
    BY DEF IInv, ScanTypeOK
  <2>2. popped \in Seq(N) /\ pushed \in Seq(N)
    <3>1. head - common \in Nat /\ Len(target) - young \in Nat /\ young \in Nat
      BY <1>1, <1>3, <1>4, TimesAssumption DEF head
    <3>2. [kind |-> "changed", block_num |-> 0] \in N
      OBVIOUS
    <3>3. ASSUME NEW i \in 1 .. young
          PROVE  [kind |-> "applied", block_num |-> Len(target) - young + i] \in N
      BY <3>1
    <3> HIDE DEF N
    <3>4. popped \in Seq(N)
      BY <3>1, <3>2
    <3>5. pushed \in [1 .. young -> N]
      BY <3>3
    <3> HIDE DEF pushed
    <3>6. pushed \in Seq(N)
      BY <3>1, <3>5
    <3> QED
      BY <3>4, <3>6
  <2> HIDE DEF N, popped, pushed
  <2> QED
    BY <1>1, <2>1, <2>2 DEF N
<1>6. ScanTypeOK'
  BY <1>1, <1>2, <1>5 DEF IInv, ScanTypeOK
<1>7. ASSUME NEW n \in 1 .. Len(target), n > common, n \in Behind PROVE target[n] \in passed'
  <2>1. n \in common + 1 .. Len(target)
    BY <1>3, <1>4, <1>7
  <2> QED
    BY <1>1, <1>7, <2>1
<1>8. /\ \A n \in Scanned : n \in Behind
      /\ scan.state = "memo" /\ scan.block > common => scan.block \in Behind
  <2>1. CASE scan.state = "memo"
    BY <1>3, <1>4, <2>1 DEF Scanned, Behind
  <2>2. CASE scan.state = "off"
    BY <1>4, <2>2 DEF Scanned, Behind
  <2>3. CASE scan.state \in {"async", "block"}
    <3>1. Behind = 1 .. (IF scan.block - 1 < last_scanned THEN last_scanned - 1 ELSE scan.block - 1)
      BY <2>3 DEF Behind
    <3> QED
      BY <2>3, <3>1 DEF Scanned
  <2> QED
    BY <1>4, <2>1, <2>2, <2>3
<1>9. MemoOf'
  <2> SUFFICES ASSUME scan.state = "memo"
               PROVE  /\ scan.memo_of \in Deposits
                      /\ scan.block <= Len(target) =>
                           target[scan.block] = scan.memo_of \/ target[scan.block] \in passed'
    BY <1>1 DEF MemoOf, head
  <2>1. scan.memo_of \in Deposits
    BY DEF IInv, MemoOf
  <2>2. ASSUME scan.block <= Len(target)
        PROVE  target[scan.block] = scan.memo_of \/ target[scan.block] \in passed'
    <3>1. CASE scan.block > common
      <4>1. scan.block \in 1 .. Len(target)
        BY <1>3, <1>4, <2>2, <3>1
      <4> QED
        BY <1>7, <1>8, <3>1, <4>1
    <3>2. CASE scan.block <= common /\ scan.block # 0
      <4>1. scan.block \in 1 .. common /\ scan.block <= head
        BY <1>3, <1>4, <3>2 DEF head
      <4>2. chain[scan.block] = scan.memo_of \/ chain[scan.block] \in passed
        BY <4>1 DEF IInv, MemoOf
      <4> QED
        BY <1>1, <1>3, <4>1, <4>2
    <3> QED
      BY <1>3, <1>4, <3>1, <3>2
  <2> QED
    BY <2>1, <2>2
<1>10. ASSUME NEW n \in (Scanned \cap (1 .. head))' PROVE Found(n)'
  <2>1. n \in Scanned /\ n \in 1 .. Len(target)
    BY <1>1 DEF Scanned, head
  <2>2. CASE n > common
    <3>1. target[n] \in passed'
      BY <1>7, <1>8, <2>1, <2>2
    <3> QED
      BY <1>1, <3>1 DEF Found
  <2>3. CASE n <= common
    <3>1. n \in 1 .. common /\ n \in 1 .. head
      BY <1>3, <1>4, <2>1, <2>3 DEF head
    <3>2. Found(n)
      BY <2>1, <3>1 DEF IInv
    <3>3. chain'[n] = chain[n]
      BY <1>1, <1>3, <3>1
    <3> QED
      BY <1>1, <3>2, <3>3 DEF Found
  <2> QED
    BY <1>3, <1>4, <2>1, <2>2, <2>3
<1> QED
  BY <1>6, <1>9, <1>10 DEF IInv

(* The notifications: the mark is set back, or a scan is started at it.    *)
LEMMA NotificationKeeps ==
    ASSUME IInv, Notification
    PROVE  IInv'
<1> DEFINE N == [kind : {"changed", "applied"}, block_num : Nat]
<1>1. /\ observers \in Seq(N) /\ chain \in Seq(Blocks) /\ head \in Nat
      /\ scan \in ScanTasks /\ scan.block \in Nat /\ last_scanned \in Nat
  BY DEF IInv, ScanTypeOK, ScanTasks, head
<1>2. observers # <<>> /\ observers' = Tail(observers)
  BY DEF Notification, state_changed, block_applied, Notified
<1>3. Head(observers) \in N /\ observers' \in Seq(N)
  <2> HIDE DEF N
  <2> QED
    BY <1>1, <1>2
<1>4. CASE state_changed
  <2>1. /\ last_scanned' = IF is_unlocked /\ head < last_scanned THEN head ELSE last_scanned
        /\ UNCHANGED <<chain, scan, keys, blind, passed, skipped>>
    BY <1>4 DEF state_changed, history
  <2>2. last_scanned' = last_scanned \/ (last_scanned' = head /\ head < last_scanned)
    BY <2>1
  <2>3. ScanTypeOK' /\ MemoOf'
    BY <1>1, <1>3, <2>1, <2>2 DEF IInv, ScanTypeOK, MemoOf, head
  <2>4. \A n \in Scanned' : n \in Scanned
    BY <1>1, <2>1, <2>2 DEF Scanned
  <2> QED
    BY <2>1, <2>3, <2>4, KeepsFound
<1>5. CASE block_applied
  <2> DEFINE n == Head(observers).block_num
  <2>1. /\ UNCHANGED <<chain, keys, blind, passed, skipped>> /\ n \in Nat
        /\ scan_chain(last_scanned, n) \/ UNCHANGED <<scan, last_scanned>>
    BY <1>3, <1>5 DEF block_applied, history
  <2> HIDE DEF n
  <2>2. CASE scan_chain(last_scanned, n)
    BY <1>1, <1>3, <2>1, <2>2, ScanChain
  <2>3. CASE UNCHANGED <<scan, last_scanned>>
    <3>1. ScanTypeOK' /\ MemoOf' /\ Scanned' = Scanned
      BY <1>3, <2>1, <2>3 DEF IInv, ScanTypeOK, MemoOf, Scanned, head
    <3> QED
      BY <2>1, <3>1, KeepsFound
  <2> QED
    BY <2>1, <2>2, <2>3
<1> QED
  BY <1>4, <1>5 DEF Notification

(* What the user does: only unlock, rescan and close touch the scan.       *)
LEMMA CallKeeps ==
    ASSUME IInv, Call
    PROVE  IInv'
<1>1. /\ head \in Nat /\ last_scanned \in Nat
      /\ observers \in Seq([kind : {"changed", "applied"}, block_num : Nat])
  BY DEF IInv, ScanTypeOK, head
<1>2. CASE wallet_close
  BY <1>2, ScanStops DEF wallet_close, history
<1>3. ASSUME NEW t \in Timeouts, wallet_unlock(t) PROVE IInv'
  <2>1. /\ UNCHANGED <<chain, observers, keys, blind, passed, skipped>>
        /\ scan_chain(last_scanned, head) \/ UNCHANGED <<scan, last_scanned>>
    BY <1>3 DEF wallet_unlock, history
  <2>2. CASE scan_chain(last_scanned, head)
    BY <1>1, <2>1, <2>2, ScanChain
  <2>3. CASE UNCHANGED <<scan, last_scanned>>
    <3>1. ScanTypeOK' /\ MemoOf' /\ Scanned' = Scanned
      BY <2>1, <2>3 DEF IInv, ScanTypeOK, MemoOf, Scanned, head
    <3> QED
      BY <2>1, <3>1, KeepsFound
  <2> QED
    BY <2>1, <2>2, <2>3
<1>4. ASSUME NEW start \in Nat, NEW count \in Nat, wallet_rescan_blockchain(start, count)
      PROVE  IInv'
  <2>1. /\ UNCHANGED <<chain, observers, keys, blind, passed>> /\ scan_chain(start, start + count)
        /\ skipped' = skipped \cup {chain[n] : n \in (last_scanned' .. start - 1) \cap (1 .. head)}
        /\ CancelScan
    BY <1>4 DEF wallet_rescan_blockchain, scan_chain
  <2>2. last_scanned' \in Nat /\ start + count \in Nat
    BY <2>1 DEF CancelScan, IInv, ScanTypeOK, ScanTasks
  <2>3. \A n \in 1 .. head : last_scanned' <= n /\ n < start => chain[n] \in skipped'
    <3> SUFFICES ASSUME NEW n \in 1 .. head, last_scanned' <= n, n < start
                 PROVE  chain[n] \in skipped'
      OBVIOUS
    <3>1. n \in last_scanned' .. start - 1
      BY <1>1, <2>2
    <3> QED
      BY <2>1, <3>1
  <2> QED
    BY <1>1, <2>1, <2>2, <2>3, ScanChain
<1>5. CASE wallet_open \/ wallet_lock \/ wallet_unlock_fails \/ login_start
           \/ set_delegate_block_production
  <2>1. UNCHANGED <<chain, observers, results, history>>
    BY <1>5 DEF wallet_open, wallet_lock, wallet_unlock_fails, login_start,
                set_delegate_block_production
  <2> QED
    BY <2>1, Unscanned
<1> QED
  <2>1. ASSUME NEW range \in Ranges PROVE range[1] \in Nat /\ range[2] \in Nat
    BY RangesAssumption
  <2> QED
    BY <1>2, <1>3, <1>4, <1>5, <2>1 DEF Call

LEMMA NextKeeps ==
    ASSUME IInv, [Next]_vars
    PROVE  IInv'
<1>1. CASE UserStep
  BY <1>1, CallKeeps DEF UserStep
<1>2. CASE Step
  <2>1. CASE ScanStep
    BY <2>1, ScanKeeps
  <2>2. CASE Notification
    BY <2>2, NotificationKeeps
  <2>3. CASE SessionStep \/ OtherStep
    <3>1. UNCHANGED <<chain, observers, results, history>>
      BY <2>3 DEF SessionStep, OtherStep, lock_resumes, relocker_runs, login_map_cleaner_task,
                  delegate_loop_returns, clock_ticks
    <3> QED
      BY <3>1, Unscanned
  <2>4. CASE \E b \in Blocks, young \in 0 .. MaxYoung : push_block(b, young)
    BY <2>4, PushKeeps
  <2> QED
    BY <1>2, <2>1, <2>2, <2>3, <2>4 DEF Step
<1>3. CASE UNCHANGED vars
  BY <1>3, Unscanned DEF vars
<1> QED
  BY <1>1, <1>2, <1>3 DEF Next

(* MissedOnlyIf: a scan of the wallet leaves no gap.  A deposit below the  *)
(* mark whose key is not known was scanned while the wallet was locked or  *)
(* had a wrong password, came to the chain below the scan, or was passed   *)
(* over by a rescan that the user started above the mark; scans that are   *)
(* cancelled, resumed, started over or set back by the notifications,      *)
(* notifications that are not sent, and memos that arrive late, miss none. *)
THEOREM ScansLeaveNoGap == Spec => []MissedOnlyIf
<1>1. Init => IInv
  <2> SUFFICES ASSUME Init PROVE IInv
    OBVIOUS
  <2>1. ScanTypeOK /\ MemoOf
    BY DEF Init, ScanTypeOK, MemoOf, NoScan, ScanTasks
  <2>2. 1 .. head = {}
    BY DEF Init, head
  <2> QED
    BY <2>1, <2>2 DEF IInv
<1>2. IInv /\ [Next]_vars => IInv'
  BY NextKeeps
<1>3. IInv => MissedOnlyIf
  <2> SUFFICES ASSUME IInv,
                      NEW n \in 1 .. (IF last_scanned <= head THEN last_scanned - 1 ELSE head)
               PROVE  Found(n)
    BY DEF MissedOnlyIf, Found
  <2>1. last_scanned \in Nat /\ scan.block \in Nat /\ head \in Nat
    BY DEF IInv, ScanTypeOK, ScanTasks, head
  <2>2. n \in Scanned /\ n \in 1 .. head
    BY <2>1 DEF Scanned
  <2> QED
    BY <2>2 DEF IInv
<1> QED
  BY <1>1, <1>2, <1>3, PTL DEF Spec

-----------------------------------------------------------------------------
(* DelegateLoopRuns: the delegate loop of an unlocked wallet with an       *)
(* enabled delegate is always scheduled.  The loop returns only when it    *)
(* has nothing to do, and each of the calls that can give it something to  *)
(* do again - open, unlock and set_delegate_block_production - starts it;  *)
(* a lock that waits for the login map cleaner ends locked.                *)
THEOREM DelegateLoopKeepsRunning == Spec => []DelegateLoopRuns
<1>1. Init => DelegateLoopRuns
  BY DEF Init, DelegateLoopRuns, is_unlocked
<1>2. ASSUME DelegateLoopRuns, [Next]_vars PROVE DelegateLoopRuns'
  <2>1. ASSUME UNCHANGED <<session, settings, delegate_loop>> PROVE DelegateLoopRuns'
    BY <1>2, <2>1 DEF DelegateLoopRuns, is_unlocked, session, settings
  <2>2. ASSUME NEW caller \in {"lock", "close", "unlock", "relock"}, NEW typed,
               lock(caller, typed)
        PROVE  DelegateLoopRuns'
    <3>1. CASE login
      BY <2>2, <3>1, Zenon DEF lock, DelegateLoopRuns, None
    <3>2. CASE ~login
      BY <2>2, <3>2, Zenon DEF lock, Locked, DelegateLoopRuns, is_unlocked
    <3> QED
      BY <3>1, <3>2
  <2>3. ASSUME delegate_loop' PROVE DelegateLoopRuns'
    BY <2>3 DEF DelegateLoopRuns
  <2>4. CASE UserStep
    <3>1. CASE wallet_close
      BY <2>2, <3>1 DEF wallet_close
    <3>2. CASE wallet_lock
      BY <2>2, <3>2 DEF wallet_lock
    <3>3. CASE wallet_unlock_fails
      BY <2>2, <3>3 DEF wallet_unlock_fails
    <3>4. CASE wallet_open \/ set_delegate_block_production \/ \E t \in Timeouts : wallet_unlock(t)
      BY <2>3, <3>4 DEF wallet_open, set_delegate_block_production, wallet_unlock
    <3>5. CASE login_start
      BY <1>2, <3>5 DEF login_start, DelegateLoopRuns, is_unlocked, settings
    <3>6. CASE \E range \in Ranges : wallet_rescan_blockchain(range[1], range[2])
      BY <2>1, <3>6 DEF wallet_rescan_blockchain
    <3> QED
      BY <2>4, <3>1, <3>2, <3>3, <3>4, <3>5, <3>6 DEF UserStep, Call
  <2>5. CASE Step
    <3>1. CASE ScanStep
      BY <2>1, <3>1 DEF ScanStep, scan_chain_task, scan_block, scan_deposit, scan_ends
    <3>2. CASE Notification
      BY <2>1, <3>2 DEF Notification, state_changed, block_applied
    <3>3. CASE lock_resumes
      BY <3>3, Zenon DEF lock_resumes, Locked, DelegateLoopRuns, is_unlocked
    <3>4. CASE relocker_runs
      <4>1. CASE lock("relock", password)
        BY <2>2, <4>1
      <4>2. CASE UNCHANGED <<open, password, locking, delegate_loop, settings>>
        BY <1>2, <4>2 DEF DelegateLoopRuns, is_unlocked, settings
      <4> QED
        BY <3>4, <4>1, <4>2 DEF relocker_runs
    <3>5. CASE login_map_cleaner_task
      BY <1>2, <3>5 DEF login_map_cleaner_task, DelegateLoopRuns, is_unlocked, settings
    <3>6. CASE delegate_loop_returns
      BY <3>6, Zenon DEF delegate_loop_returns, DelegateLoopRuns, is_unlocked, session, settings
    <3>7. CASE clock_ticks \/ \E b \in Blocks, young \in 0 .. MaxYoung : push_block(b, young)
      BY <2>1, <3>7 DEF clock_ticks, push_block
    <3> QED
      BY <2>5, <3>1, <3>2, <3>3, <3>4, <3>5, <3>6, <3>7 DEF Step, SessionStep, OtherStep
  <2>6. CASE UNCHANGED vars
    BY <2>1, <2>6 DEF vars
  <2> QED
    BY <1>2, <2>4, <2>5, <2>6 DEF Next
<1> QED
  BY <1>1, <1>2, PTL DEF Spec

-----------------------------------------------------------------------------
(* The wallet's file.  A file is described aspect by aspect: by its        *)
(* records of one type, which records of other types leave alone.          *)

Of(f, type) == {i \in DOMAIN f : f[i].type = type}
Same(f, g, type) == Of(f, type) = Of(g, type) /\ \A i \in Of(f, type) : f[i] = g[i]

MasterRecords == [type : {"master"}, password : Passwords]
NextRecords == [type : {"next"}, value : Nat]
ChildRecords == [type : {"child"}, value : Nat]
TransactionRecords == {[type |-> "transaction"]}
KeyRecords == [type : {"key"}, key : Keys, account : Keys, private : Passwords \cup {NoPassword}]
AccountRecords ==
  [type : {"account"}, name : Names, owner : Accounts, actives : SUBSET Keys, mine : BOOLEAN,
   seq : 0 .. MaxDbCalls]
Records == ChildRecords \cup TransactionRecords \cup KeyRecords \cup AccountRecords

Valid(i, r) ==
  \/ i = -1 /\ r \in MasterRecords
  \/ i = 1 /\ r \in NextRecords
  \/ i \in Nat /\ i >= 2 /\ r \in Records

Shape(f) ==
  /\ f = [i \in DOMAIN f |-> f[i]] /\ IsFiniteSet(DOMAIN f)
  /\ \A i \in DOMAIN f : Valid(i, f[i])

NextIn(f) == IF 1 \in DOMAIN f THEN f[1].value ELSE 2
Fresh(f) == \A i \in DOMAIN f : i < NextIn(f)

\* Records of accounts share only the names and addresses in S.
Distinct(f, S) ==
  \A i, j \in Of(f, "account") :
    i # j => (f[i].name = f[j].name => f[i].name \in S) /\ Addresses(f[i]) \cap Addresses(f[j]) \subseteq S
OneChild(f) == \A i, j \in Of(f, "child") : i = j

\* The keys that calls have returned will not be returned again.
ChildCounts(f, I, n) ==
  /\ \A i \in Of(f, "child") : f[i].value >= 1 /\ f[i].value <= n + 1
  /\ \A j \in 1 .. MaxDbCalls : Child(j) \in I => \E i \in Of(f, "child") : j < f[i].value
AccountCounts(f, D, I) ==
  \A k \in Accounts \ D, j \in 1 .. MaxDbCalls :
    Derived(k, j) \in I => \E i \in Of(f, "account") : f[i].owner = k /\ j <= f[i].seq

\* The record of k with the highest number: the one that counts
IsTop(f, k, i) ==
  /\ i \in Of(f, "key") /\ f[i].key = k
  /\ \A j \in Of(f, "key") : f[j].key = k => j <= i

Readable(f, X, P) ==
  \A i \in Of(f, "key") : f[i].key \notin X /\ IsTop(f, f[i].key, i) => f[i].private \in P \cup {NoPassword}

Keep(f, P) == \A k \in P : \E i \in Of(f, "key") : IsTop(f, k, i) /\ f[i].private # NoPassword

\* A file that a crash can leave: D are the accounts whose keys may be returned
\* again, X the keys that may not be readable, I the keys that calls have
\* returned, and P the passwords whose change did not come to its end.
Safe(f, D, X, I, P, n) ==
  /\ Shape(f) /\ -1 \in DOMAIN f /\ Fresh(f)
  /\ OneChild(f) /\ ChildCounts(f, I, n) /\ AccountCounts(f, D, I)
  /\ Readable(f, X, {f[-1].password} \cup P)

-----------------------------------------------------------------------------
(* The maps in memory are those of the file; of the keys in R, a record in *)
(* the file may be left over, and the indexes may be wrong about the names *)
(* and addresses in S.                                                     *)

MirrorChild(ch, f) ==
  \/ Of(f, "child") = {} /\ ch = [index |-> 0, value |-> 1]
  \/ ch.index \in Of(f, "child") /\ ch = [index |-> ch.index, value |-> f[ch.index].value]
MirrorKeys(ks, f, R) ==
  /\ ks = [k \in DOMAIN ks |-> ks[k]]
  /\ \A k \in DOMAIN ks :
       /\ IsTop(f, k, ks[k].index)
       /\ ks[k] = [record |-> f[ks[k].index], index |-> ks[k].index]
  /\ \A i \in Of(f, "key") : f[i].key \in DOMAIN ks \cup R
MirrorAddresses(by_address, f, S) ==
  /\ by_address = [k \in DOMAIN by_address |-> by_address[k]]
  /\ \A k \in DOMAIN by_address \ S : by_address[k] \in Of(f, "account") /\ k \in Addresses(f[by_address[k]])
  /\ \A i \in Of(f, "account") : Addresses(f[i]) \subseteq DOMAIN by_address \cup S
MirrorNames(by_name, f, S) ==
  /\ by_name = [n \in DOMAIN by_name |-> by_name[n]]
  /\ \A n \in DOMAIN by_name \ S : by_name[n] \in Of(f, "account") /\ f[by_name[n]].name = n
  /\ \A i \in Of(f, "account") : f[i].name \in DOMAIN by_name \cup S
MirrorAccounts(accounts, by_address, by_name, f, S) ==
  /\ accounts = [i \in Of(f, "account") |-> f[i]]
  /\ MirrorAddresses(by_address, f, S) /\ MirrorNames(by_name, f, S)

Fields == {"open", "keys", "accounts", "by_address", "by_name", "next", "child", "master"}
Maps(m) == m = [x \in Fields |-> m[x]] /\ m.open = TRUE

MasterIn(f) == IF -1 \in DOMAIN f THEN f[-1].password ELSE NoPassword

Mirrors(m, f, R, S) ==
  /\ Maps(m) /\ m.next = NextIn(f) /\ m.master = MasterIn(f)
  /\ MirrorChild(m.child, f) /\ MirrorKeys(m.keys, f, R)
  /\ MirrorAccounts(m.accounts, m.by_address, m.by_name, f, S)

Private(ks) == {k \in DOMAIN ks : ks[k].record.private # NoPassword}

Issuable == {Child(j) : j \in 1 .. MaxDbCalls} \cup {Derived(k, j) : k \in Accounts, j \in 1 .. MaxDbCalls}

IssuedOnce == NotReissued /\ reused \subseteq issued

StateInv ==
  /\ mem.open =>
       /\ Mirrors(mem, file, removed, inexact)
       /\ \A f \in left : Keep(f, Private(mem.keys))
  /\ ~mem.open => mem = Closed /\ left = {file} /\ wallet_password = NoPassword
  /\ mem.open \in BOOLEAN /\ wallet_password \in Passwords \cup {NoPassword}
  /\ file \in left /\ Distinct(file, inexact)
  /\ \A f \in left : Safe(f, removed \cup inexact, removed \cup mistaken, issued, replaced, db_calls)
  /\ issued \subseteq Issuable /\ IssuedOnce /\ replaced \subseteq Passwords /\ mistaken \subseteq Keys
  /\ on_chain \subseteq Registered /\ db_calls \in 0 .. MaxDbCalls

DbInv == StateInv /\ held = Levels(IF mem.open THEN mem.keys ELSE Loaded(file).keys)

-----------------------------------------------------------------------------
(* What a record put into a file changes.                                  *)

(* A record changes no aspect of the file but that of its type.            *)
LEMMA PutElsewhere ==
    ASSUME NEW f, NEW i, NEW r, i \in DOMAIN f => f[i].type = r.type, NEW type, r.type # type
    PROVE  Same(f, Put(f, {i}, r), type)
<1> DEFINE g == Put(f, {i}, r)
<1>1. DOMAIN g = DOMAIN f \cup {i} /\ g[i] = r /\ \A j \in DOMAIN f : j # i => g[j] = f[j]
  BY DEF Put
<1> HIDE DEF g
<1>2. Same(f, g, type)
  BY <1>1 DEF Same, Of
<1> QED
  BY <1>2 DEF g

\* What records of each type hold.
LEMMA RecordTypes ==
    /\ \A r \in MasterRecords : r.type = "master" /\ r = [type |-> "master", password |-> r.password]
    /\ \A r \in NextRecords : r.type = "next" /\ r.value \in Nat
    /\ \A r \in ChildRecords : r.type = "child" /\ r.value \in Nat
    /\ \A r \in TransactionRecords : r.type = "transaction"
    /\ \A r \in KeyRecords : /\ r.type = "key" /\ r.key \in Keys /\ r.account \in Keys
                             /\ r.private \in Passwords \cup {NoPassword}
    /\ \A r \in AccountRecords : /\ r.type = "account" /\ r.name \in Names /\ r.owner \in Accounts
                                 /\ r.actives \in SUBSET Keys /\ r.seq \in 0 .. MaxDbCalls
  BY DEF MasterRecords, NextRecords, ChildRecords, TransactionRecords, KeyRecords, AccountRecords

\* The type of a record says which number it can have, and what it holds.
LEMMA ValidTypes ==
    ASSUME NEW i, NEW r, Valid(i, r)
    PROVE  /\ i \in Int /\ i >= -1 /\ i # 0
           /\ r.type = "master" <=> i = -1
           /\ r.type = "next" <=> i = 1
           /\ r.type = "master" => r \in MasterRecords
           /\ r.type = "next" => r \in NextRecords
           /\ r.type = "child" => r \in ChildRecords
           /\ r.type = "key" => r \in KeyRecords
           /\ r.type = "account" => r \in AccountRecords
  BY RecordTypes DEF Valid, Records

\* The same for the records of a file.
LEMMA FileTypes ==
    ASSUME NEW f, Shape(f)
    PROVE  /\ DOMAIN f \subseteq Int
           /\ \A i \in DOMAIN f : i >= -1 /\ i # 0 /\ Valid(i, f[i])
           /\ Of(f, "master") = DOMAIN f \cap {-1}
           /\ Of(f, "next") = DOMAIN f \cap {1}
           /\ \A i \in Of(f, "master") : f[i] \in MasterRecords
           /\ \A i \in Of(f, "next") : f[i] \in NextRecords
           /\ \A i \in Of(f, "child") : f[i] \in ChildRecords
           /\ \A i \in Of(f, "key") : f[i] \in KeyRecords
           /\ \A i \in Of(f, "account") : f[i] \in AccountRecords
<1>1. \A i \in DOMAIN f : Valid(i, f[i])
  BY DEF Shape
<1>2. \A i \in DOMAIN f : f[i].type = "master" <=> i = -1
  BY <1>1, ValidTypes
<1>3. \A i \in DOMAIN f : f[i].type = "next" <=> i = 1
  BY <1>1, ValidTypes
<1>4. \A i \in DOMAIN f : i \in Int /\ i >= -1 /\ i # 0
  BY <1>1, ValidTypes
<1>5. /\ \A i \in Of(f, "master") : f[i] \in MasterRecords
      /\ \A i \in Of(f, "next") : f[i] \in NextRecords
      /\ \A i \in Of(f, "child") : f[i] \in ChildRecords
      /\ \A i \in Of(f, "key") : f[i] \in KeyRecords
      /\ \A i \in Of(f, "account") : f[i] \in AccountRecords
  BY <1>1, ValidTypes DEF Of
<1> QED
  BY <1>1, <1>2, <1>3, <1>4, <1>5 DEF Of

\* A valid record keeps the shape of a file.
LEMMA PutShape ==
    ASSUME NEW f, Shape(f), NEW i, NEW r, Valid(i, r)
    PROVE  Shape(Put(f, {i}, r))
<1> DEFINE g == Put(f, {i}, r)
<1>1. /\ DOMAIN g = DOMAIN f \cup {i} /\ g[i] = r /\ \A j \in DOMAIN f : j # i => g[j] = f[j]
      /\ g = [j \in DOMAIN g |-> g[j]]
  BY DEF Put
<1> HIDE DEF g
<1>2. IsFiniteSet(DOMAIN g)
  BY <1>1, FS_AddElement DEF Shape
<1>3. \A j \in DOMAIN g : Valid(j, g[j])
  BY <1>1 DEF Shape
<1>4. Shape(g)
  BY <1>1, <1>2, <1>3 DEF Shape
<1> QED
  BY <1>4 DEF g

-----------------------------------------------------------------------------
(* The aspects: what stays when the records of a type stay the same.       *)

\* A file and another with the same records of a type have the same aspect.
LEMMA SameMaster ==
    ASSUME NEW f, NEW g, Shape(f), Shape(g), Same(f, g, "master")
    PROVE  MasterIn(f) = MasterIn(g) /\ (-1 \in DOMAIN f => -1 \in DOMAIN g /\ g[-1].password = f[-1].password)
<1>1. Of(f, "master") = DOMAIN f \cap {-1} /\ Of(g, "master") = DOMAIN g \cap {-1}
  BY FileTypes
<1> QED
  BY <1>1 DEF Same, MasterIn

LEMMA SameNext ==
    ASSUME NEW f, NEW g, Shape(f), Shape(g), Same(f, g, "next")
    PROVE  NextIn(f) = NextIn(g)
<1>1. Of(f, "next") = DOMAIN f \cap {1} /\ Of(g, "next") = DOMAIN g \cap {1}
  BY FileTypes
<1> QED
  BY <1>1 DEF Same, NextIn

LEMMA SameChild ==
    ASSUME NEW f, NEW g, Same(f, g, "child"), NEW ch, NEW I, NEW n
    PROVE  /\ MirrorChild(ch, f) => MirrorChild(ch, g)
           /\ OneChild(f) => OneChild(g)
           /\ ChildCounts(f, I, n) => ChildCounts(g, I, n)
<1>1. MirrorChild(ch, f) => MirrorChild(ch, g)
  BY DEF Same, MirrorChild
<1>2. OneChild(f) => OneChild(g)
  BY DEF Same, OneChild
<1>3. ChildCounts(f, I, n) => ChildCounts(g, I, n)
  BY DEF Same, ChildCounts
<1> QED
  BY <1>1, <1>2, <1>3

LEMMA SameTop ==
    ASSUME NEW f, NEW g, Same(f, g, "key"), NEW k, NEW i, IsTop(f, k, i)
    PROVE  IsTop(g, k, i)
  BY DEF Same, IsTop

LEMMA SameIs ==
    ASSUME NEW f, NEW g, NEW type, Same(f, g, type)
    PROVE  Same(g, f, type)
  BY DEF Same

LEMMA SameKeys ==
    ASSUME NEW f, NEW g, Same(f, g, "key"), NEW ks, NEW R, NEW P
    PROVE  /\ MirrorKeys(ks, f, R) => MirrorKeys(ks, g, R)
           /\ Readable(f, R, P) => Readable(g, R, P)
           /\ Keep(f, P) => Keep(g, P)
<1>1. \A k, i : IsTop(f, k, i) => IsTop(g, k, i)
  BY SameTop
<1>2. \A k, i : IsTop(g, k, i) => IsTop(f, k, i)
  BY SameTop, SameIs
<1>3. Of(f, "key") = Of(g, "key") /\ \A i \in Of(f, "key") : f[i] = g[i]
  BY DEF Same
<1>4. \A k, i : IsTop(f, k, i) => i \in Of(f, "key")
  BY DEF IsTop
<1>5. MirrorKeys(ks, f, R) => MirrorKeys(ks, g, R)
  <2> SUFFICES ASSUME MirrorKeys(ks, f, R) PROVE MirrorKeys(ks, g, R)
    OBVIOUS
  <2>1. \A k \in DOMAIN ks : /\ IsTop(g, k, ks[k].index)
                               /\ ks[k] = [record |-> g[ks[k].index], index |-> ks[k].index]
    BY <1>1, <1>3, <1>4 DEF MirrorKeys
  <2> QED
    BY <1>3, <2>1 DEF MirrorKeys
<1>6. Readable(f, R, P) => Readable(g, R, P)
  BY <1>2, <1>3 DEF Readable
<1>7. Keep(f, P) => Keep(g, P)
  BY <1>1, <1>3 DEF Keep
<1> QED
  BY <1>5, <1>6, <1>7

LEMMA SameAccounts ==
    ASSUME NEW f, NEW g, Same(f, g, "account"), NEW D, NEW I, NEW S,
           NEW accounts, NEW by_address, NEW by_name
    PROVE  /\ MirrorAccounts(accounts, by_address, by_name, f, S) =>
                MirrorAccounts(accounts, by_address, by_name, g, S)
           /\ AccountCounts(f, D, I) => AccountCounts(g, D, I)
<1>1. Of(f, "account") = Of(g, "account") /\ \A i \in Of(f, "account") : f[i] = g[i]
  BY DEF Same
<1>2. MirrorAccounts(accounts, by_address, by_name, f, S) => MirrorAccounts(accounts, by_address, by_name, g, S)
  <2>1. MirrorAddresses(by_address, f, S) => MirrorAddresses(by_address, g, S)
    BY <1>1 DEF MirrorAddresses
  <2>2. MirrorNames(by_name, f, S) => MirrorNames(by_name, g, S)
    BY <1>1 DEF MirrorNames
  <2> QED
    BY <1>1, <2>1, <2>2 DEF MirrorAccounts
<1>3. AccountCounts(f, D, I) => AccountCounts(g, D, I)
  BY <1>1 DEF AccountCounts
<1> QED
  BY <1>2, <1>3

-----------------------------------------------------------------------------
(* The aspect that a record does change.  g is f with r at i.              *)

IsPut(g, f, i, r) ==
  DOMAIN g = DOMAIN f \cup {i} /\ g[i] = r /\ \A j \in DOMAIN f : j # i => g[j] = f[j]

\* The number i is new, or that of a record of the type of r.
Above(f, i) == i \notin DOMAIN f /\ \A j \in DOMAIN f : j < i

\* A key record that is new, or takes the place of the one that counts, is the one that counts.
LEMMA KeyPut ==
    ASSUME NEW f, NEW g, NEW i \in Int, NEW r, Shape(f), IsPut(g, f, i, r), r.type = "key",
           Above(f, i) \/ IsTop(f, r.key, i)
    PROVE  /\ IsTop(g, r.key, i)
           /\ \A k, j : k # r.key => (IsTop(f, k, j) <=> IsTop(g, k, j))
           /\ \A k, j : k # r.key /\ IsTop(f, k, j) => j # i /\ j \in DOMAIN f
           /\ Of(g, "key") = Of(f, "key") \cup {i}
           /\ \A j \in Of(f, "key") : j # i => g[j] = f[j]
           /\ \A j \in Of(f, "key") : j = i => f[j].key = r.key
<1>1. /\ DOMAIN g = DOMAIN f \cup {i} /\ g[i] = r /\ \A j \in DOMAIN f : j # i => g[j] = f[j]
      /\ DOMAIN f \subseteq Int
  BY FileTypes DEF IsPut
<1>2. Of(g, "key") = Of(f, "key") \cup {i}
  BY <1>1 DEF Of
<1>3. \A j \in Of(f, "key") : j # i => g[j] = f[j]
  BY <1>1 DEF Of
<1>4. \A j \in Of(f, "key") : j = i => f[j].key = r.key
  BY <1>1 DEF Of, IsTop, Above
<1>5. \A j \in Of(g, "key") : j # i => j \in Of(f, "key") /\ g[j] = f[j] /\ j \in DOMAIN f /\ j \in Int
  BY <1>1, <1>2, <1>3 DEF Of
<1>6. \A j \in Of(f, "key") : f[j].key = r.key => j <= i
  <2>1. CASE Above(f, i)
    BY <1>1, <2>1 DEF Above, Of
  <2>2. CASE IsTop(f, r.key, i)
    BY <2>2 DEF IsTop
  <2> QED
    BY <2>1, <2>2
<1>7. IsTop(g, r.key, i)
  <2>1. i \in Of(g, "key") /\ g[i].key = r.key
    BY <1>1, <1>2
  <2>2. \A j \in Of(g, "key") : g[j].key = r.key => j <= i
    BY <1>5, <1>6
  <2> QED
    BY <2>1, <2>2 DEF IsTop
<1>8. ASSUME NEW k, NEW j, k # r.key, IsTop(f, k, j) PROVE IsTop(g, k, j) /\ j # i /\ j \in DOMAIN f
  <2>1. j \in Of(f, "key") /\ f[j].key = k /\ \A l \in Of(f, "key") : f[l].key = k => l <= j
    BY <1>8 DEF IsTop
  <2>2. j # i
    BY <1>4, <1>8, <2>1
  <2>3. j \in Of(g, "key") /\ g[j].key = k
    BY <1>2, <1>3, <2>1, <2>2
  <2>4. \A l \in Of(g, "key") : g[l].key = k => l <= j
    BY <1>1, <1>5, <1>8, <2>1
  <2> QED
    BY <2>1, <2>2, <2>3, <2>4 DEF IsTop, Of
<1>9. ASSUME NEW k, NEW j, k # r.key, IsTop(g, k, j) PROVE IsTop(f, k, j)
  <2>1. j \in Of(g, "key") /\ g[j].key = k /\ \A l \in Of(g, "key") : g[l].key = k => l <= j
    BY <1>9 DEF IsTop
  <2>2. j # i
    BY <1>1, <1>9, <2>1
  <2>3. j \in Of(f, "key") /\ f[j].key = k
    BY <1>5, <2>1, <2>2
  <2>4. ASSUME NEW l \in Of(f, "key"), f[l].key = k PROVE l <= j
    <3>1. l # i
      BY <1>4, <1>9, <2>4
    <3> QED
      BY <1>2, <1>3, <2>1, <2>4, <3>1
  <2> QED
    BY <2>3, <2>4 DEF IsTop
<1> QED
  BY <1>2, <1>3, <1>4, <1>7, <1>8, <1>9

\* The map of keys follows.
LEMMA KeyPutMirrors ==
    ASSUME NEW f, NEW g, NEW i \in Int, NEW r, Shape(f), IsPut(g, f, i, r), r.type = "key",
           Above(f, i) \/ IsTop(f, r.key, i), NEW ks, NEW R, MirrorKeys(ks, f, R)
    PROVE  MirrorKeys(Put(ks, {r.key}, [record |-> r, index |-> i]), g, R)
<1> DEFINE e == [record |-> r, index |-> i]
           n == Put(ks, {r.key}, e)
<1>1. /\ DOMAIN n = DOMAIN ks \cup {r.key} /\ n[r.key] = e
      /\ \A k \in DOMAIN ks : k # r.key => n[k] = ks[k]
      /\ n = [k \in DOMAIN n |-> n[k]]
  BY DEF Put
<1>2. e.record = r /\ e.index = i /\ e = [record |-> r, index |-> i]
  OBVIOUS
<1> HIDE DEF n, e
<1>3. /\ IsTop(g, r.key, i)
      /\ \A k, j : k # r.key /\ IsTop(f, k, j) => IsTop(g, k, j) /\ j # i /\ j \in DOMAIN f
      /\ Of(g, "key") = Of(f, "key") \cup {i}
      /\ \A j \in Of(f, "key") : j # i => g[j] = f[j]
  BY KeyPut
<1>4. g[i] = r /\ \A j \in DOMAIN f : j # i => g[j] = f[j]
  BY DEF IsPut
<1>5. ASSUME NEW k \in DOMAIN n
      PROVE  IsTop(g, k, n[k].index) /\ n[k] = [record |-> g[n[k].index], index |-> n[k].index]
  <2>1. CASE k = r.key
    BY <1>1, <1>2, <1>3, <1>4, <2>1
  <2>2. CASE k # r.key
    <3>1. k \in DOMAIN ks /\ n[k] = ks[k]
      BY <1>1, <2>2
    <3>2. IsTop(f, k, ks[k].index) /\ ks[k] = [record |-> f[ks[k].index], index |-> ks[k].index]
      BY <3>1 DEF MirrorKeys
    <3>3. IsTop(g, k, ks[k].index) /\ g[ks[k].index] = f[ks[k].index]
      BY <1>3, <1>4, <2>2, <3>2
    <3> QED
      BY <3>1, <3>2, <3>3
  <2> QED
    BY <2>1, <2>2
<1>6. \A j \in Of(g, "key") : g[j].key \in DOMAIN n \cup R
  BY <1>1, <1>3, <1>4 DEF MirrorKeys
<1>7. MirrorKeys(n, g, R)
  BY <1>1, <1>5, <1>6 DEF MirrorKeys
<1> QED
  BY <1>7 DEF n, e

\* Keys stay readable if the new one is.
LEMMA KeyPutReadable ==
    ASSUME NEW f, NEW g, NEW i \in Int, NEW r, Shape(f), IsPut(g, f, i, r), r.type = "key",
           Above(f, i) \/ IsTop(f, r.key, i), NEW R, NEW P, Readable(f, R, P),
           r.key \notin R => r.private \in P \cup {NoPassword}
    PROVE  Readable(g, R, P)
<1>1. /\ \A k, j : k # r.key => (IsTop(f, k, j) <=> IsTop(g, k, j))
      /\ Of(g, "key") = Of(f, "key") \cup {i}
      /\ \A j \in Of(f, "key") : j # i => g[j] = f[j]
      /\ IsTop(g, r.key, i)
  BY KeyPut
<1>2. g[i] = r
  BY DEF IsPut
<1>3. ASSUME NEW j \in Of(g, "key"), g[j].key \notin R, IsTop(g, g[j].key, j)
      PROVE  g[j].private \in P \cup {NoPassword}
  <2>1. CASE g[j].key = r.key
    <3>1. i <= j /\ j <= i
      BY <1>1, <1>2, <1>3, <2>1 DEF IsTop
    <3>2. j \in Int
      BY <1>1, FileTypes DEF Of
    <3>3. j = i
      BY <3>1, <3>2
    <3> QED
      BY <1>2, <1>3, <3>3
  <2>2. CASE g[j].key # r.key
    <3>1. j # i
      BY <1>2, <2>2
    <3>2. j \in Of(f, "key") /\ g[j] = f[j]
      BY <1>1, <3>1
    <3>3. IsTop(f, f[j].key, j)
      BY <1>1, <1>3, <2>2, <3>2
    <3> QED
      BY <1>3, <3>2, <3>3 DEF Readable
  <2> QED
    BY <2>1, <2>2
<1> QED
  BY <1>3 DEF Readable

\* The record of an account, a new one or one that loses only entries in S.
LEMMA AccountPut ==
    ASSUME NEW f, NEW g, NEW i, NEW r, IsPut(g, f, i, r), r.type = "account", NEW S,
           NEW accounts, NEW by_address, NEW by_name,
           MirrorAccounts(accounts, by_address, by_name, f, S),
           i \notin DOMAIN f \/ (i \in Of(f, "account") /\ LostBy(f[i], r) \subseteq S)
    PROVE  MirrorAccounts(Put(accounts, {i}, r), Put(by_address, Addresses(r), i), Put(by_name, {r.name}, i), g, S)
<1>1. DOMAIN g = DOMAIN f \cup {i} /\ g[i] = r /\ \A j \in DOMAIN f : j # i => g[j] = f[j]
  BY DEF IsPut
<1>2. Of(g, "account") = Of(f, "account") \cup {i}
  BY <1>1 DEF Of
<1>3. \A j \in Of(f, "account") : j # i => g[j] = f[j]
  BY <1>1 DEF Of
<1>4. /\ accounts = [j \in Of(f, "account") |-> f[j]]
      /\ MirrorAddresses(by_address, f, S) /\ MirrorNames(by_name, f, S)
  BY DEF MirrorAccounts
<1>5. i \in Of(f, "account") => (Addresses(f[i]) \ Addresses(r)) \cup ({f[i].name} \ {r.name}) \subseteq S
  BY DEF LostBy, Of
<1>6. Put(accounts, {i}, r) = [j \in Of(g, "account") |-> g[j]]
  BY <1>1, <1>2, <1>3, <1>4 DEF Put
<1>7. MirrorAddresses(Put(by_address, Addresses(r), i), g, S)
  <2> DEFINE A == Addresses(r)
             n == Put(by_address, A, i)
  <2>1. /\ DOMAIN n = DOMAIN by_address \cup A /\ \A k \in A : n[k] = i
        /\ \A k \in DOMAIN by_address : k \notin A => n[k] = by_address[k]
        /\ n = [k \in DOMAIN n |-> n[k]]
    BY DEF Put
  <2>2. A = Addresses(r)
    OBVIOUS
  <2> HIDE DEF n, A
  <2>3. ASSUME NEW k \in DOMAIN n \ S PROVE n[k] \in Of(g, "account") /\ k \in Addresses(g[n[k]])
    <3>1. CASE k \in A
      BY <1>1, <1>2, <2>1, <2>2, <3>1
    <3>2. CASE k \notin A
      <4>1. k \in DOMAIN by_address \ S /\ n[k] = by_address[k]
        BY <2>1, <3>2
      <4>2. n[k] \in Of(f, "account") /\ k \in Addresses(f[n[k]])
        BY <1>4, <4>1 DEF MirrorAddresses
      <4>3. n[k] # i
        BY <1>5, <2>2, <2>3, <3>2, <4>2
      <4> QED
        BY <1>2, <1>3, <4>2, <4>3
    <3> QED
      BY <3>1, <3>2
  <2>4. \A j \in Of(g, "account") : Addresses(g[j]) \subseteq DOMAIN n \cup S
    BY <1>1, <1>2, <1>3, <1>4, <2>1, <2>2 DEF MirrorAddresses
  <2>5. MirrorAddresses(n, g, S)
    BY <2>1, <2>3, <2>4 DEF MirrorAddresses
  <2> QED
    BY <2>5 DEF n, A
<1>8. MirrorNames(Put(by_name, {r.name}, i), g, S)
  <2> DEFINE n == Put(by_name, {r.name}, i)
  <2>1. /\ DOMAIN n = DOMAIN by_name \cup {r.name} /\ n[r.name] = i
        /\ \A k \in DOMAIN by_name : k # r.name => n[k] = by_name[k]
        /\ n = [k \in DOMAIN n |-> n[k]]
    BY DEF Put
  <2> HIDE DEF n
  <2>3. ASSUME NEW k \in DOMAIN n \ S PROVE n[k] \in Of(g, "account") /\ g[n[k]].name = k
    <3>1. CASE k = r.name
      BY <1>1, <1>2, <2>1, <3>1
    <3>2. CASE k # r.name
      <4>1. k \in DOMAIN by_name \ S /\ n[k] = by_name[k]
        BY <2>1, <3>2
      <4>2. n[k] \in Of(f, "account") /\ k = f[n[k]].name
        BY <1>4, <4>1 DEF MirrorNames
      <4>3. n[k] # i
        BY <1>5, <2>3, <3>2, <4>2
      <4> QED
        BY <1>2, <1>3, <4>2, <4>3
    <3> QED
      BY <3>1, <3>2
  <2>4. \A j \in Of(g, "account") : g[j].name \in DOMAIN n \cup S
    BY <1>1, <1>2, <1>3, <1>4, <2>1 DEF MirrorNames
  <2>5. MirrorNames(n, g, S)
    BY <2>1, <2>3, <2>4 DEF MirrorNames
  <2> QED
    BY <2>5 DEF n
<1> QED
  BY <1>6, <1>7, <1>8 DEF MirrorAccounts

\* The keys that accounts have returned stay accounted for, and one more is.
LEMMA AccountCounted ==
    ASSUME NEW f, NEW g, NEW i, NEW r, IsPut(g, f, i, r), r.type = "account", Shape(f), r.seq \in Nat,
           i \notin DOMAIN f \/ (i \in Of(f, "account") /\ r.owner = f[i].owner /\ f[i].seq <= r.seq),
           NEW D, NEW I, NEW J, AccountCounts(f, D, I),
           J = I \/ \E k \in D \cup {r.owner} : J = I \cup {Derived(k, r.seq)}
    PROVE  AccountCounts(g, D, J)
<1>1. DOMAIN g = DOMAIN f \cup {i} /\ g[i] = r /\ \A j \in DOMAIN f : j # i => g[j] = f[j]
  BY DEF IsPut
<1>2. Of(g, "account") = Of(f, "account") \cup {i}
  BY <1>1 DEF Of
<1>3. \A j \in Of(f, "account") : j # i => g[j] = f[j]
  BY <1>1 DEF Of
<1> SUFFICES ASSUME NEW k \in Accounts \ D, NEW j \in 1 .. MaxDbCalls, Derived(k, j) \in J
             PROVE  \E a \in Of(g, "account") : g[a].owner = k /\ j <= g[a].seq
  BY DEF AccountCounts
<1>4. CASE Derived(k, j) \in I
  <2>1. PICK a \in Of(f, "account") : f[a].owner = k /\ j <= f[a].seq
    BY <1>4 DEF AccountCounts
  <2>2. CASE a # i
    BY <1>2, <1>3, <2>1, <2>2
  <2>3. CASE a = i
    <3>1. i \in Of(f, "account") /\ r.owner = f[i].owner /\ f[i].seq <= r.seq
      BY <2>1, <2>3 DEF Of
    <3>2. f[i].seq \in Int /\ j \in Int
      BY <3>1, FileTypes, RecordTypes
    <3>3. j <= r.seq
      BY <2>1, <2>3, <3>1, <3>2
    <3> QED
      BY <1>1, <1>2, <2>1, <2>3, <3>1, <3>3
  <2> QED
    BY <2>2, <2>3
<1>5. CASE Derived(k, j) \notin I
  <2>1. PICK a \in D \cup {r.owner} : J = I \cup {Derived(a, r.seq)}
    BY <1>5
  <2>2. Derived(k, j) = Derived(a, r.seq)
    BY <1>5, <2>1
  <2>3. k = a /\ j = r.seq
    BY <2>2 DEF Derived
  <2> QED
    BY <1>1, <1>2, <2>1, <2>3
<1> QED
  BY <1>4, <1>5

\* The counter of child keys goes up by one.
LEMMA ChildPut ==
    ASSUME NEW f, NEW g, NEW i, NEW v \in Nat, NEW ch, Shape(f), OneChild(f), MirrorChild(ch, f),
           IsPut(g, f, i, [type |-> "child", value |-> v + 1]), v = ch.value,
           (Of(f, "child") = {} /\ i \notin DOMAIN f) \/ i \in Of(f, "child")
    PROVE  /\ MirrorChild([index |-> i, value |-> v + 1], g) /\ OneChild(g)
           /\ \A I : \A n \in Nat : ChildCounts(f, I, n) /\ v <= n => ChildCounts(g, I \cup {Child(v)}, n)
<1> DEFINE r == [type |-> "child", value |-> v + 1]
<1>1. /\ DOMAIN g = DOMAIN f \cup {i} /\ g[i] = r /\ \A j \in DOMAIN f : j # i => g[j] = f[j]
  BY DEF IsPut
<1>2. r.type = "child" /\ r.value = v + 1
  OBVIOUS
<1> HIDE DEF r
<1>3. Of(g, "child") = {i}
  BY <1>1, <1>2 DEF Of, OneChild
<1>4. MirrorChild([index |-> i, value |-> v + 1], g)
  BY <1>1, <1>2, <1>3 DEF MirrorChild
<1>5. OneChild(g)
  BY <1>3 DEF OneChild
<1>6. ASSUME NEW I, NEW n \in Nat, ChildCounts(f, I, n), v <= n
      PROVE  ChildCounts(g, I \cup {Child(v)}, n)
  <2>1. \A a \in Of(f, "child") : f[a].value = v /\ v >= 1
    BY <1>6 DEF MirrorChild, OneChild, ChildCounts
  <2>2. ASSUME NEW j \in 1 .. MaxDbCalls, Child(j) \in I \cup {Child(v)} PROVE j < v + 1
    <3>1. CASE Child(j) \in I
      <4>1. PICK a \in Of(f, "child") : j < f[a].value
        BY <1>6, <3>1 DEF ChildCounts
      <4> QED
        BY <2>1, <4>1
    <3>2. CASE Child(j) = Child(v)
      BY <3>2 DEF Child
    <3> QED
      BY <2>2, <3>1, <3>2
  <2> QED
    BY <1>1, <1>2, <1>3, <1>6, <2>2 DEF ChildCounts
<1> QED
  BY <1>4, <1>5, <1>6

-----------------------------------------------------------------------------
(* load_generic_record changes the maps of one aspect.                     *)

SameMaps(m, n, aspects) ==
  /\ Maps(n)
  /\ "next" \notin aspects => n.next = m.next
  /\ "master" \notin aspects => n.master = m.master
  /\ "child" \notin aspects => n.child = m.child
  /\ "key" \notin aspects => n.keys = m.keys
  /\ "account" \notin aspects =>
       n.accounts = m.accounts /\ n.by_address = m.by_address /\ n.by_name = m.by_name

\* load_generic_record changes the maps for the type of the record, and no others.
LEMMA Loads ==
    ASSUME NEW m, Maps(m), NEW i, NEW r
    PROVE  /\ SameMaps(m, load_generic_record(m, i, r), {r.type})
           /\ r.type = "master" => load_generic_record(m, i, r).master = r.password
           /\ r.type = "next" => load_generic_record(m, i, r).next = r.value
           /\ r.type = "child" => load_generic_record(m, i, r).child = [index |-> i, value |-> r.value]
           /\ r.type = "key" =>
                load_generic_record(m, i, r).keys = Put(m.keys, {r.key}, [record |-> r, index |-> i])
           /\ r.type = "account" =>
                /\ load_generic_record(m, i, r).accounts = Put(m.accounts, {i}, r)
                /\ load_generic_record(m, i, r).by_address = Put(m.by_address, Addresses(r), i)
                /\ load_generic_record(m, i, r).by_name = Put(m.by_name, {r.name}, i)
<1> DEFINE n == load_generic_record(m, i, r)
           ks == Put(m.keys, {r.key}, [record |-> r, index |-> i])
           accounts == Put(m.accounts, {i}, r)
           by_address == Put(m.by_address, Addresses(r), i)
           by_name == Put(m.by_name, {r.name}, i)
           child == [index |-> i, value |-> r.value]
<1>0. /\ r.type = "master" => n = [m EXCEPT !.master = r.password]
      /\ r.type = "next" => n = [m EXCEPT !.next = r.value]
      /\ r.type = "child" => n = [m EXCEPT !.child = child]
      /\ r.type = "key" => n = [m EXCEPT !.keys = ks]
      /\ r.type = "account" => n = [m EXCEPT !.accounts = accounts, !.by_address = by_address, !.by_name = by_name]
      /\ r.type \notin {"master", "next", "child", "key", "account"} => n = m
  BY DEF load_generic_record, Addresses
<1> HIDE DEF n, ks, accounts, by_address, by_name, child
<1>1. CASE r.type = "master"
  <2>1. n = [m EXCEPT !.master = r.password]
    BY <1>0, <1>1
  <2>2. SameMaps(m, n, {r.type}) /\ n.master = r.password
    BY <1>1, <2>1 DEF Maps, Fields, SameMaps
  <2> QED
    BY <1>1, <2>2 DEF n
<1>2. CASE r.type = "next"
  <2>1. n = [m EXCEPT !.next = r.value]
    BY <1>0, <1>2
  <2>2. SameMaps(m, n, {r.type}) /\ n.next = r.value
    BY <1>2, <2>1 DEF Maps, Fields, SameMaps
  <2> QED
    BY <1>2, <2>2 DEF n
<1>3. CASE r.type = "child"
  <2>1. n = [m EXCEPT !.child = child]
    BY <1>0, <1>3
  <2>2. SameMaps(m, n, {r.type}) /\ n.child = child
    BY <1>3, <2>1 DEF Maps, Fields, SameMaps
  <2> QED
    BY <1>3, <2>2 DEF n, child
<1>4. CASE r.type = "key"
  <2>1. n = [m EXCEPT !.keys = ks]
    BY <1>0, <1>4
  <2>2. SameMaps(m, n, {r.type}) /\ n.keys = ks
    BY <1>4, <2>1 DEF Maps, Fields, SameMaps
  <2> QED
    BY <1>4, <2>2 DEF n, ks
<1>5. CASE r.type = "account"
  <2>1. n = [m EXCEPT !.accounts = accounts, !.by_address = by_address, !.by_name = by_name]
    BY <1>0, <1>5
  <2>2. SameMaps(m, n, {r.type}) /\ n.accounts = accounts /\ n.by_address = by_address /\ n.by_name = by_name
    BY <1>5, <2>1 DEF Maps, Fields, SameMaps
  <2> QED
    BY <1>5, <2>2 DEF n, accounts, by_address, by_name
<1>6. CASE r.type \notin {"master", "next", "child", "key", "account"}
  <2>1. n = m
    BY <1>0, <1>6
  <2> QED
    BY <1>6, <2>1 DEF SameMaps, n
<1> QED
  BY <1>1, <1>2, <1>3, <1>4, <1>5, <1>6

\* A record of the counter is the only one.
LEMMA ChildIs ==
    ASSUME NEW f, NEW g, NEW i, NEW r, IsPut(g, f, i, r), r.type = "child", OneChild(f),
           (Of(f, "child") = {} /\ i \notin DOMAIN f) \/ i \in Of(f, "child")
    PROVE  Of(g, "child") = {i} /\ MirrorChild([index |-> i, value |-> r.value], g) /\ OneChild(g)
<1>1. DOMAIN g = DOMAIN f \cup {i} /\ g[i] = r /\ \A j \in DOMAIN f : j # i => g[j] = f[j]
  BY DEF IsPut
<1>2. Of(g, "child") = {i}
  BY <1>1 DEF Of, OneChild
<1> QED
  BY <1>1, <1>2 DEF MirrorChild, OneChild

\* A record can be put at i: the number is new or that of a record of the
\* same type, key or account.
Fits(S, f, i, r) ==
  /\ Valid(i, r) /\ (i \in DOMAIN f => f[i].type = r.type)
  /\ r.type = "child" => (Of(f, "child") = {} /\ i \notin DOMAIN f) \/ i \in Of(f, "child")
  /\ r.type = "key" => Above(f, i) \/ IsTop(f, r.key, i)
  /\ r.type = "account" =>
       \/ i \notin DOMAIN f
       \/ /\ i \in Of(f, "account") /\ r.owner = f[i].owner /\ f[i].seq <= r.seq
          /\ LostBy(f[i], r) \subseteq S

\* What a record that fits does to the file.
LEMMA PutSame ==
    ASSUME NEW f, NEW i, NEW r, NEW S, Shape(f), Fits(S, f, i, r)
    PROVE  /\ IsPut(Put(f, {i}, r), f, i, r) /\ Shape(Put(f, {i}, r)) /\ i \in Int
           /\ \A type : r.type # type => Same(f, Put(f, {i}, r), type)
<1> DEFINE g == Put(f, {i}, r)
<1>1. IsPut(g, f, i, r)
  BY DEF Put, IsPut
<1>2. Shape(g)
  BY PutShape DEF Fits
<1>3. i \in Int
  BY ValidTypes DEF Fits
<1>4. \A type : r.type # type => Same(f, g, type)
  BY PutElsewhere DEF Fits
<1> QED
  BY <1>1, <1>2, <1>3, <1>4

\* The maps with the record loaded mirror the file with the record in it.
LEMMA PutMirrors ==
    ASSUME NEW f, NEW m, NEW R, NEW S, NEW i, NEW r, Shape(f), OneChild(f),
           Mirrors(m, f, R, S), Fits(S, f, i, r)
    PROVE  Mirrors(load_generic_record(m, i, r), Put(f, {i}, r), R, S)
<1> DEFINE g == Put(f, {i}, r)
           n == load_generic_record(m, i, r)
<1>1. IsPut(g, f, i, r) /\ Shape(g) /\ i \in Int /\ \A type : r.type # type => Same(f, g, type)
  BY PutSame
<1>2. /\ SameMaps(m, n, {r.type})
      /\ r.type = "master" => n.master = r.password
      /\ r.type = "next" => n.next = r.value
      /\ r.type = "child" => n.child = [index |-> i, value |-> r.value]
      /\ r.type = "key" => n.keys = Put(m.keys, {r.key}, [record |-> r, index |-> i])
      /\ r.type = "account" =>
           /\ n.accounts = Put(m.accounts, {i}, r)
           /\ n.by_address = Put(m.by_address, Addresses(r), i)
           /\ n.by_name = Put(m.by_name, {r.name}, i)
  <2>1. Maps(m)
    BY DEF Mirrors
  <2> QED
    BY <2>1, Loads
<1>3. DOMAIN g = DOMAIN f \cup {i} /\ g[i] = r
  BY <1>1 DEF IsPut
<1>4. /\ Maps(m) /\ m.next = NextIn(f) /\ m.master = MasterIn(f) /\ MirrorChild(m.child, f)
      /\ MirrorKeys(m.keys, f, R) /\ MirrorAccounts(m.accounts, m.by_address, m.by_name, f, S)
  BY DEF Mirrors
<1> HIDE DEF g, n
<1>5. n.next = NextIn(g)
  <2>1. CASE r.type = "next"
    <3>1. i = 1
      BY <2>1, ValidTypes DEF Fits
    <3> QED
      BY <1>2, <1>3, <2>1, <3>1 DEF NextIn
  <2>2. CASE r.type # "next"
    BY <1>1, <1>2, <1>4, <2>2, SameNext DEF SameMaps
  <2> QED
    BY <2>1, <2>2
<1>6. n.master = MasterIn(g)
  <2>1. CASE r.type = "master"
    <3>1. i = -1
      BY <2>1, ValidTypes DEF Fits
    <3> QED
      BY <1>2, <1>3, <2>1, <3>1 DEF MasterIn
  <2>2. CASE r.type # "master"
    <3>1. Same(f, g, "master") /\ Shape(g)
      BY <1>1, <2>2
    <3>2. MasterIn(f) = MasterIn(g)
      BY <3>1, SameMaster
    <3> QED
      BY <1>2, <1>4, <2>2, <3>2 DEF SameMaps
  <2> QED
    BY <2>1, <2>2
<1>7. MirrorChild(n.child, g)
  <2>1. CASE r.type = "child"
    BY <1>1, <1>2, <2>1, ChildIs DEF Fits
  <2>2. CASE r.type # "child"
    BY <1>1, <1>2, <1>4, <2>2, SameChild DEF SameMaps
  <2> QED
    BY <2>1, <2>2
<1>8. MirrorKeys(n.keys, g, R)
  <2>1. CASE r.type = "key"
    BY <1>1, <1>2, <1>4, <2>1, KeyPutMirrors DEF Fits
  <2>2. CASE r.type # "key"
    BY <1>1, <1>2, <1>4, <2>2, SameKeys DEF SameMaps
  <2> QED
    BY <2>1, <2>2
<1>9. MirrorAccounts(n.accounts, n.by_address, n.by_name, g, S)
  <2> DEFINE accounts == m.accounts
             by_address == m.by_address
             by_name == m.by_name
  <2>0. MirrorAccounts(accounts, by_address, by_name, f, S)
    BY <1>4
  <2>1. CASE r.type = "account"
    <3>1. i \notin DOMAIN f \/ (i \in Of(f, "account") /\ LostBy(f[i], r) \subseteq S)
      BY <2>1 DEF Fits
    <3>2. /\ n.accounts = Put(accounts, {i}, r) /\ n.by_address = Put(by_address, Addresses(r), i)
          /\ n.by_name = Put(by_name, {r.name}, i)
      BY <1>2, <2>1
    <3> HIDE DEF accounts, by_address, by_name
    <3>3. MirrorAccounts(Put(accounts, {i}, r), Put(by_address, Addresses(r), i), Put(by_name, {r.name}, i), g, S)
      BY <1>1, <2>0, <2>1, <3>1, AccountPut
    <3> QED
      BY <3>2, <3>3
  <2>2. CASE r.type # "account"
    <3>1. n.accounts = accounts /\ n.by_address = by_address /\ n.by_name = by_name
      BY <1>2, <2>2 DEF SameMaps
    <3>2. Same(f, g, "account")
      BY <1>1, <2>2
    <3> HIDE DEF accounts, by_address, by_name
    <3>3. MirrorAccounts(accounts, by_address, by_name, g, S)
      BY <2>0, <3>2, SameAccounts
    <3> QED
      BY <3>1, <3>3
  <2> QED
    BY <2>1, <2>2
<1>10. Maps(n)
  BY <1>2 DEF SameMaps
<1>11. Mirrors(n, g, R, S)
  BY <1>5, <1>6, <1>7, <1>8, <1>9, <1>10 DEF Mirrors
<1> QED
  BY <1>11 DEF g, n

-----------------------------------------------------------------------------
(* Opening a file gives its maps.                                          *)

\* A set of record numbers has a highest one.
LEMMA HighestNumber ==
    ASSUME NEW s \in SUBSET Int, IsFiniteSet(s), s # {}
    PROVE  Max(s) \in s /\ \A k \in s : k <= Max(s)
<1>1. PICK m \in s : \A k \in s : k <= m
  BY GreatestElement
<1>2. \A k \in s : m >= k
  BY <1>1
<1>3. Max(s) \in s /\ \A k \in s : Max(s) >= k
  BY <1>1, <1>2 DEF Max
<1> QED
  BY <1>3

Part(f, s) == [i \in s |-> f[i]]
Formed(f) == Shape(f) /\ OneChild(f)

\* Part of a well formed file is well formed.
LEMMA PartFormed ==
    ASSUME NEW f, Formed(f), NEW s \in SUBSET DOMAIN f
    PROVE  Formed(Part(f, s)) /\ IsFiniteSet(s) /\ s \in SUBSET Int
<1> DEFINE g == Part(f, s)
<1>1. DOMAIN g = s /\ g = [i \in DOMAIN g |-> g[i]] /\ \A i \in s : g[i] = f[i]
  BY DEF Part
<1> HIDE DEF g
<1>2. IsFiniteSet(s)
  BY FS_Subset DEF Formed, Shape
<1>3. Shape(g)
  BY <1>1, <1>2 DEF Formed, Shape
<1>4. \A type : Of(g, type) \subseteq Of(f, type) /\ \A i \in Of(g, type) : g[i] = f[i]
  BY <1>1 DEF Of
<1>5. OneChild(g)
  BY <1>4 DEF Formed, OneChild
<1>7. s \in SUBSET Int
  BY FileTypes DEF Formed
<1> QED
  BY <1>2, <1>3, <1>5, <1>7 DEF Formed, g

\* What opening a file gives: of two records with a name or an address, the
\* index leads to the one with the higher number.
HighestAddresses(by_address, f) ==
  \A i \in Of(f, "account") : \A k \in Addresses(f[i]) : i <= by_address[k]
HighestNames(by_name, f) == \A i \in Of(f, "account") : i <= by_name[f[i].name]
Image(m, f) ==
  Mirrors(m, f, {}, {}) /\ HighestAddresses(m.by_address, f) /\ HighestNames(m.by_name, f)

\* The maps of an empty file.
LEMMA LoadsNothing ==
    ASSUME NEW f
    PROVE  Image([Closed EXCEPT !.open = TRUE], Part(f, {}))
<1> DEFINE m == [Closed EXCEPT !.open = TRUE]
           g == Part(f, {})
<1>1. /\ Maps(m) /\ m.next = 2 /\ m.master = NoPassword /\ m.child = [index |-> 0, value |-> 1]
      /\ m.keys = <<>> /\ m.accounts = <<>> /\ m.by_address = <<>> /\ m.by_name = <<>>
  BY DEF Maps, Fields, Closed
<1>2. DOMAIN g = {} /\ \A type : Of(g, type) = {}
  BY DEF Part, Of
<1>3. DOMAIN <<>> = {} /\ <<>> = [x \in {} |-> <<>>[x]]
  OBVIOUS
<1> HIDE DEF m, g
<1>4. m.next = NextIn(g) /\ m.master = MasterIn(g)
  BY <1>1, <1>2 DEF NextIn, MasterIn
<1>5. MirrorChild(m.child, g)
  BY <1>1, <1>2 DEF MirrorChild
<1>6. MirrorKeys(m.keys, g, {})
  BY <1>1, <1>2, <1>3 DEF MirrorKeys
<1>7. MirrorAccounts(m.accounts, m.by_address, m.by_name, g, {})
  <2>1. <<>> = [i \in {} |-> g[i]]
    OBVIOUS
  <2> QED
    BY <1>1, <1>2, <1>3, <2>1 DEF MirrorAccounts, MirrorAddresses, MirrorNames
<1>8. HighestAddresses(m.by_address, g) /\ HighestNames(m.by_name, g)
  BY <1>2 DEF HighestAddresses, HighestNames
<1> QED
  BY <1>1, <1>4, <1>5, <1>6, <1>7, <1>8 DEF Mirrors, Image, m, g

\* A record with a higher number takes its addresses and its name.
LEMMA HighestPut ==
    ASSUME NEW f, NEW g, NEW i, NEW r, IsPut(g, f, i, r), Shape(f), Above(f, i), i \in Int, NEW m, Image(m, f)
    PROVE  /\ r.type = "account" => /\ HighestAddresses(Put(m.by_address, Addresses(r), i), g)
                                    /\ HighestNames(Put(m.by_name, {r.name}, i), g)
           /\ r.type # "account" => HighestAddresses(m.by_address, g) /\ HighestNames(m.by_name, g)
<1>1. /\ DOMAIN g = DOMAIN f \cup {i} /\ g[i] = r /\ \A j \in DOMAIN f : j # i => g[j] = f[j]
      /\ DOMAIN f \subseteq Int /\ i \notin DOMAIN f /\ \A j \in DOMAIN f : j < i
  BY FileTypes DEF IsPut, Above
<1>2. \A j \in Of(g, "account") : j # i => j \in Of(f, "account") /\ g[j] = f[j] /\ j \in Int /\ j < i
  BY <1>1 DEF Of
<1>3. r.type # "account" => i \notin Of(g, "account")
  BY <1>1 DEF Of
<1>4. HighestAddresses(m.by_address, f) /\ HighestNames(m.by_name, f)
  BY DEF Image
<1>5. /\ \A j \in Of(f, "account") : Addresses(f[j]) \subseteq DOMAIN m.by_address
      /\ \A j \in Of(f, "account") : f[j].name \in DOMAIN m.by_name
  BY DEF Image, Mirrors, MirrorAccounts, MirrorAddresses, MirrorNames
<1>6. ASSUME r.type = "account" PROVE HighestAddresses(Put(m.by_address, Addresses(r), i), g)
  <2> DEFINE n == Put(m.by_address, Addresses(r), i)
  <2>1. /\ \A k \in Addresses(r) : n[k] = i
        /\ \A k \in DOMAIN m.by_address : k \notin Addresses(r) => n[k] = m.by_address[k]
    BY DEF Put
  <2> HIDE DEF n
  <2>2. ASSUME NEW j \in Of(g, "account"), NEW k \in Addresses(g[j]) PROVE j <= n[k]
    <3>1. CASE j = i
      BY <1>1, <2>1, <2>2, <3>1
    <3>2. CASE j # i /\ k \in Addresses(r)
      BY <1>2, <2>1, <3>2
    <3>3. CASE j # i /\ k \notin Addresses(r)
      <4>1. j \in Of(f, "account") /\ k \in Addresses(f[j])
        BY <1>2, <2>2, <3>3
      <4>2. j <= m.by_address[k] /\ k \in DOMAIN m.by_address
        BY <1>4, <1>5, <4>1 DEF HighestAddresses
      <4> QED
        BY <2>1, <3>3, <4>2
    <3> QED
      BY <3>1, <3>2, <3>3
  <2> QED
    BY <2>2 DEF HighestAddresses, n
<1>7. ASSUME r.type = "account" PROVE HighestNames(Put(m.by_name, {r.name}, i), g)
  <2> DEFINE n == Put(m.by_name, {r.name}, i)
  <2>1. n[r.name] = i /\ \A k \in DOMAIN m.by_name : k # r.name => n[k] = m.by_name[k]
    BY DEF Put
  <2> HIDE DEF n
  <2>2. ASSUME NEW j \in Of(g, "account") PROVE j <= n[g[j].name]
    <3>1. CASE j = i
      BY <1>1, <2>1, <3>1
    <3>2. CASE j # i /\ g[j].name = r.name
      BY <1>2, <2>1, <3>2
    <3>3. CASE j # i /\ g[j].name # r.name
      <4>1. j \in Of(f, "account") /\ g[j] = f[j]
        BY <1>2, <3>3
      <4>2. j <= m.by_name[f[j].name] /\ f[j].name \in DOMAIN m.by_name
        BY <1>4, <1>5, <4>1 DEF HighestNames
      <4> QED
        BY <2>1, <3>3, <4>1, <4>2
    <3> QED
      BY <3>1, <3>2, <3>3
  <2> QED
    BY <2>2 DEF HighestNames, n
<1>8. ASSUME r.type # "account" PROVE HighestAddresses(m.by_address, g) /\ HighestNames(m.by_name, g)
  BY <1>2, <1>3, <1>4, <1>8 DEF HighestAddresses, HighestNames
<1> QED
  BY <1>6, <1>7, <1>8

\* The record with the highest number is loaded last.
LEMMA LoadsNext ==
    ASSUME NEW f, Formed(f), NEW s \in SUBSET DOMAIN f, NEW x \in s, \A y \in s : y <= x,
           NEW m, Image(m, Part(f, s \ {x}))
    PROVE  Image(load_generic_record(m, x, f[x]), Part(f, s))
<1> DEFINE t == s \ {x}
           g == Part(f, t)
           r == f[x]
<1>1. Formed(g)
  BY PartFormed
<1>2. DOMAIN g = t /\ \A i \in t : g[i] = f[i]
  BY DEF Part
<1>3. Put(g, {x}, r) = Part(f, s)
  BY DEF Put, Part
<1>4. \A type : Of(g, type) \subseteq Of(f, type) /\ x \notin Of(g, type)
  BY <1>2 DEF Of
<1>5. Valid(x, r) /\ x \notin DOMAIN g
  BY <1>2 DEF Formed, Shape
<1>6. r.type = "child" => Of(g, "child") = {}
  <2>1. r.type = "child" => x \in Of(f, "child")
    BY DEF Of
  <2> QED
    BY <1>4, <2>1 DEF Formed, OneChild
<1>7. Above(g, x) /\ x \in Int
  <2>1. s \subseteq Int
    BY FileTypes DEF Formed
  <2> QED
    BY <1>2, <2>1 DEF Above
<1> HIDE DEF g, r
<1>9. Fits({}, g, x, r)
  BY <1>5, <1>6, <1>7 DEF Fits
<1> DEFINE n == load_generic_record(m, x, r)
           h == Put(g, {x}, r)
<1>10. Mirrors(m, g, {}, {}) /\ Image(m, g)
  BY DEF Image, g
<1>11. Mirrors(n, h, {}, {})
  BY <1>1, <1>9, <1>10, PutMirrors DEF Formed
<1>12. IsPut(h, g, x, r)
  BY <1>1, <1>9, PutSame DEF Formed
<1>13. /\ SameMaps(m, n, {r.type})
       /\ r.type = "account" => n.by_address = Put(m.by_address, Addresses(r), x) /\ n.by_name = Put(m.by_name, {r.name}, x)
  <2>1. Maps(m)
    BY <1>10 DEF Mirrors
  <2>2. SameMaps(m, n, {r.type})
    BY <2>1, Loads, Zenon
  <2>3. ASSUME r.type = "account"
        PROVE  n.by_address = Put(m.by_address, Addresses(r), x) /\ n.by_name = Put(m.by_name, {r.name}, x)
    <3>1. n = [m EXCEPT !.accounts = Put(m.accounts, {x}, r), !.by_address = Put(m.by_address, Addresses(r), x),
                        !.by_name = Put(m.by_name, {r.name}, x)]
      BY <2>3 DEF load_generic_record, Addresses
    <3> QED
      BY <2>1, <3>1 DEF Maps, Fields
  <2> QED
    BY <2>2, <2>3
<1> HIDE DEF n, h
<1>14. HighestAddresses(n.by_address, h) /\ HighestNames(n.by_name, h)
  <2>1. /\ r.type = "account" => /\ HighestAddresses(Put(m.by_address, Addresses(r), x), h)
                                 /\ HighestNames(Put(m.by_name, {r.name}, x), h)
        /\ r.type # "account" => HighestAddresses(m.by_address, h) /\ HighestNames(m.by_name, h)
    BY <1>1, <1>7, <1>10, <1>12, HighestPut DEF Formed
  <2> QED
    BY <1>13, <2>1 DEF SameMaps
<1>15. Image(n, h)
  BY <1>11, <1>14 DEF Image
<1> QED
  BY <1>3, <1>15 DEF n, h, r

(* The maps are determined by the file, those of the keys up to leftovers  *)
(* and the indexes up to what is shared.                                   *)
LEMMA MirrorsUnique ==
    ASSUME NEW f, Formed(f), NEW m, NEW n, NEW R, NEW Q, NEW S, NEW T, Mirrors(m, f, R, S), Mirrors(n, f, Q, T)
    PROVE  /\ m.open = n.open /\ m.next = n.next /\ m.master = n.master /\ m.child = n.child
           /\ m.accounts = n.accounts
           /\ \A k \in DOMAIN m.keys : k \in DOMAIN n.keys => m.keys[k] = n.keys[k]
           /\ \A k \in DOMAIN m.keys : k \in DOMAIN n.keys \cup Q
<1>1. m.next = n.next /\ m.master = n.master /\ m.accounts = n.accounts
  BY DEF Mirrors, MirrorAccounts
<1>2. m.child = n.child
  BY DEF Mirrors, MirrorChild, Formed, OneChild
<1>7. MirrorKeys(m.keys, f, R) /\ MirrorKeys(n.keys, f, Q)
  BY DEF Mirrors
<1>8. ASSUME NEW k \in DOMAIN m.keys, k \in DOMAIN n.keys PROVE m.keys[k] = n.keys[k]
  <2> DEFINE i == m.keys[k].index
             j == n.keys[k].index
  <2>1. /\ IsTop(f, k, i) /\ m.keys[k] = [record |-> f[i], index |-> i]
        /\ IsTop(f, k, j) /\ n.keys[k] = [record |-> f[j], index |-> j]
    BY <1>7, <1>8 DEF MirrorKeys
  <2> HIDE DEF i, j
  <2>2. i \in Int /\ j \in Int
    BY <2>1, FileTypes DEF IsTop, Of, Formed
  <2>3. i = j
    BY <2>1, <2>2 DEF IsTop
  <2> QED
    BY <2>1, <2>3
<1>9. ASSUME NEW k \in DOMAIN m.keys PROVE k \in DOMAIN n.keys \cup Q
  <2>1. IsTop(f, k, m.keys[k].index)
    BY <1>7 DEF MirrorKeys
  <2>2. m.keys[k].index \in Of(f, "key") /\ f[m.keys[k].index].key = k
    BY <2>1 DEF IsTop
  <2> QED
    BY <1>7, <2>2 DEF MirrorKeys
<1>10. m.open = n.open
  BY DEF Mirrors, Maps
<1> QED
  BY <1>1, <1>2, <1>8, <1>9, <1>10

\* Indexes that mirror a file agree on what accounts do not share.
LEMMA IndexesAgree ==
    ASSUME NEW f, NEW S, Distinct(f, S), NEW m, NEW n, NEW R, NEW Q, Mirrors(m, f, R, {}), Mirrors(n, f, Q, S)
    PROVE  Without(m.by_address, S) = Without(n.by_address, S) /\ Without(m.by_name, S) = Without(n.by_name, S)
<1>1. /\ MirrorAddresses(m.by_address, f, {}) /\ MirrorAddresses(n.by_address, f, S)
      /\ MirrorNames(m.by_name, f, {}) /\ MirrorNames(n.by_name, f, S)
  BY DEF Mirrors, MirrorAccounts
<1>2. ASSUME NEW a, NEW b, MirrorAddresses(a, f, {}), MirrorAddresses(b, f, S) PROVE Without(a, S) = Without(b, S)
  <2>1. ASSUME NEW k, k \notin S, k \in DOMAIN a
        PROVE  a[k] \in Of(f, "account") /\ k \in Addresses(f[a[k]]) /\ k \in DOMAIN b
    BY <1>2, <2>1 DEF MirrorAddresses
  <2>2. ASSUME NEW k, k \notin S, k \in DOMAIN b
        PROVE  b[k] \in Of(f, "account") /\ k \in Addresses(f[b[k]]) /\ k \in DOMAIN a
    BY <1>2, <2>2 DEF MirrorAddresses
  <2>3. DOMAIN a \ S = DOMAIN b \ S
    BY <2>1, <2>2
  <2>4. \A k \in DOMAIN a \ S : a[k] = b[k]
    BY <2>1, <2>2 DEF Distinct
  <2> QED
    BY <2>3, <2>4 DEF Without, Restrict
<1>3. ASSUME NEW a, NEW b, MirrorNames(a, f, {}), MirrorNames(b, f, S) PROVE Without(a, S) = Without(b, S)
  <2>1. ASSUME NEW k, k \notin S, k \in DOMAIN a
        PROVE  a[k] \in Of(f, "account") /\ k = f[a[k]].name /\ k \in DOMAIN b
    BY <1>3, <2>1 DEF MirrorNames
  <2>2. ASSUME NEW k, k \notin S, k \in DOMAIN b
        PROVE  b[k] \in Of(f, "account") /\ k = f[b[k]].name /\ k \in DOMAIN a
    BY <1>3, <2>2 DEF MirrorNames
  <2>3. DOMAIN a \ S = DOMAIN b \ S
    BY <2>1, <2>2
  <2>4. \A k \in DOMAIN a \ S : a[k] = b[k]
    BY <2>1, <2>2 DEF Distinct
  <2> QED
    BY <2>3, <2>4 DEF Without, Restrict
<1> QED
  BY <1>1, <1>2, <1>3

\* The indexes that opening gives are determined by the file.
LEMMA IndexesSame ==
    ASSUME NEW f, Formed(f), NEW m, NEW n, Image(m, f), Image(n, f)
    PROVE  m.by_address = n.by_address /\ m.by_name = n.by_name
<1>0. Of(f, "account") \subseteq Int
  BY FileTypes DEF Formed, Of
<1>1. /\ MirrorAddresses(m.by_address, f, {}) /\ MirrorAddresses(n.by_address, f, {})
      /\ MirrorNames(m.by_name, f, {}) /\ MirrorNames(n.by_name, f, {})
      /\ HighestAddresses(m.by_address, f) /\ HighestAddresses(n.by_address, f)
      /\ HighestNames(m.by_name, f) /\ HighestNames(n.by_name, f)
  BY DEF Image, Mirrors, MirrorAccounts
<1>2. ASSUME NEW a, NEW b, MirrorAddresses(a, f, {}), MirrorAddresses(b, f, {}),
             HighestAddresses(a, f), HighestAddresses(b, f)
      PROVE  a = b
  <2>1. ASSUME NEW k \in DOMAIN a PROVE a[k] \in Of(f, "account") /\ k \in Addresses(f[a[k]]) /\ k \in DOMAIN b
    BY <1>2, <2>1 DEF MirrorAddresses
  <2>2. ASSUME NEW k \in DOMAIN b PROVE b[k] \in Of(f, "account") /\ k \in Addresses(f[b[k]]) /\ k \in DOMAIN a
    BY <1>2, <2>2 DEF MirrorAddresses
  <2>3. DOMAIN a = DOMAIN b /\ a = [k \in DOMAIN a |-> a[k]] /\ b = [k \in DOMAIN b |-> b[k]]
    BY <1>2, <2>1, <2>2 DEF MirrorAddresses
  <2>4. ASSUME NEW k \in DOMAIN a PROVE a[k] = b[k]
    <3>1. a[k] <= b[k] /\ b[k] <= a[k] /\ a[k] \in Int /\ b[k] \in Int
      BY <1>0, <1>2, <2>1, <2>2 DEF HighestAddresses
    <3> QED
      BY <3>1
  <2> QED
    BY <2>3, <2>4
<1>3. ASSUME NEW a, NEW b, MirrorNames(a, f, {}), MirrorNames(b, f, {}),
             HighestNames(a, f), HighestNames(b, f)
      PROVE  a = b
  <2>1. ASSUME NEW k \in DOMAIN a PROVE a[k] \in Of(f, "account") /\ k = f[a[k]].name /\ k \in DOMAIN b
    BY <1>3, <2>1 DEF MirrorNames
  <2>2. ASSUME NEW k \in DOMAIN b PROVE b[k] \in Of(f, "account") /\ k = f[b[k]].name /\ k \in DOMAIN a
    BY <1>3, <2>2 DEF MirrorNames
  <2>3. DOMAIN a = DOMAIN b /\ a = [k \in DOMAIN a |-> a[k]] /\ b = [k \in DOMAIN b |-> b[k]]
    BY <1>3, <2>1, <2>2 DEF MirrorNames
  <2>4. ASSUME NEW k \in DOMAIN a PROVE a[k] = b[k]
    <3>1. a[k] <= b[k] /\ b[k] <= a[k] /\ a[k] \in Int /\ b[k] \in Int
      BY <1>0, <1>3, <2>1, <2>2 DEF HighestNames
    <3> QED
      BY <3>1
  <2> QED
    BY <2>3, <2>4
<1> QED
  BY <1>1, <1>2, <1>3

LEMMA ImageUnique ==
    ASSUME NEW f, Formed(f), NEW m, NEW n, Image(m, f), Image(n, f)
    PROVE  m = n
<1>0. Mirrors(m, f, {}, {}) /\ Mirrors(n, f, {}, {}) /\ m.by_address = n.by_address /\ m.by_name = n.by_name
  BY IndexesSame DEF Image
<1>1. /\ m.open = n.open /\ m.next = n.next /\ m.master = n.master /\ m.child = n.child
      /\ m.accounts = n.accounts
      /\ \A k \in DOMAIN m.keys : k \in DOMAIN n.keys => m.keys[k] = n.keys[k]
      /\ \A k \in DOMAIN m.keys : k \in DOMAIN n.keys
  BY <1>0, MirrorsUnique
<1>2. \A k \in DOMAIN n.keys : k \in DOMAIN m.keys
  BY <1>0, MirrorsUnique
<1>3. m.keys = n.keys
  <2>1. m.keys = [k \in DOMAIN m.keys |-> m.keys[k]] /\ n.keys = [k \in DOMAIN n.keys |-> n.keys[k]]
    BY <1>0 DEF Mirrors, MirrorKeys
  <2>2. DOMAIN m.keys = DOMAIN n.keys
    BY <1>1, <1>2
  <2> DEFINE a == m.keys
             b == n.keys
  <2>3. \A k \in DOMAIN a : a[k] = b[k]
    BY <1>1, <2>2
  <2> HIDE DEF a, b
  <2>4. a = b
    BY <2>1, <2>2, <2>3 DEF a, b
  <2> QED
    BY <2>4 DEF a, b
<1>4. m = [x \in Fields |-> m[x]] /\ n = [x \in Fields |-> n[x]]
  BY <1>0 DEF Mirrors, Maps
<1>5. \A x \in Fields : m[x] = n[x]
  BY <1>0, <1>1, <1>3 DEF Fields
<1> QED
  BY <1>4, <1>5

Loading(g, f) ==
  g = [s \in SUBSET DOMAIN f |->
         IF s = {} THEN [Closed EXCEPT !.open = TRUE]
         ELSE load_generic_record(g[s \ {Max(s)}], Max(s), f[Max(s)])]
loading(f) == CHOOSE g : Loading(g, f)

\* wallet_db::open as a recursive function on sets of record numbers.
LEMMA LoadedIsFold ==
    ASSUME NEW f
    PROVE  Loaded(f) = loading(f)[DOMAIN f]
  BY DEF Loaded, MapThenFoldSet, loading, Loading

\* That function exists: it is the one that gives the mirror of each part of the file.
LEMMA LoadingExists ==
    ASSUME NEW f, Formed(f)
    PROVE  Loading(loading(f), f)
<1> DEFINE D == DOMAIN f
           M(s) == CHOOSE m : Image(m, Part(f, s))
           G == {s \in SUBSET D : \E m : Image(m, Part(f, s))}
           h == [s \in SUBSET D |-> M(s)]
           base == [Closed EXCEPT !.open = TRUE]
<1>1. \A s \in SUBSET D : s \in SUBSET Int /\ IsFiniteSet(s) /\ Formed(Part(f, s))
  BY PartFormed
<1>2. ASSUME NEW t \in SUBSET D, \A u \in SUBSET t : u # t => u \in G
      PROVE  t \in G
  <2>1. CASE t = {}
    BY <2>1, LoadsNothing
  <2>2. CASE t # {}
    <3>1. Max(t) \in t /\ \A k \in t : k <= Max(t)
      BY <1>1, <2>2, HighestNumber
    <3>2. PICK m : Image(m, Part(f, t \ {Max(t)}))
      BY <1>2, <3>1
    <3>3. Image(load_generic_record(m, Max(t), f[Max(t)]), Part(f, t))
      BY <3>1, <3>2, LoadsNext
    <3> QED
      BY <3>3
  <2> QED
    BY <2>1, <2>2
<1>3. ASSUME NEW s \in SUBSET D PROVE Image(M(s), Part(f, s))
  <2>1. ASSUME NEW t \in SUBSET s, \A u \in SUBSET t : u # t => u \in G PROVE t \in G
    BY <1>2, <2>1
  <2>2. IsFiniteSet(s)
    BY <1>1
  <2>3. s \in G
    <3> HIDE DEF G
    <3> QED
      BY <2>1, <2>2, SubsetInduction
  <2> QED
    BY <2>3
<1> HIDE DEF M
<1>4. ASSUME NEW s \in SUBSET D PROVE h[s] = IF s = {} THEN base ELSE load_generic_record(h[s \ {Max(s)}], Max(s), f[Max(s)])
  <2>0. Image(M(s), Part(f, s)) /\ Formed(Part(f, s)) /\ h[s] = M(s)
    BY <1>1, <1>3
  <2>1. CASE s = {}
    <3>1. Image(base, Part(f, s))
      BY <2>1, LoadsNothing
    <3>2. M(s) = base
      <4> DEFINE p == Part(f, s)
      <4> HIDE DEF p, base
      <4>1. Image(M(s), p) /\ Image(base, p) /\ Formed(p)
        BY <2>0, <3>1 DEF p
      <4> QED
        BY <4>1, ImageUnique
    <3> QED
      BY <2>0, <2>1, <3>2
  <2>2. CASE s # {}
    <3> DEFINE x == Max(s)
               n == load_generic_record(M(s \ {x}), x, f[x])
    <3>1. x \in s /\ \A k \in s : k <= x
      BY <1>1, <2>2, HighestNumber
    <3>2. s \ {x} \in SUBSET D /\ h[s \ {x}] = M(s \ {x})
      BY <3>1
    <3>3. Image(M(s \ {x}), Part(f, s \ {x}))
      BY <1>3, <3>2
    <3>4. Image(n, Part(f, s))
      <4> HIDE DEF x
      <4> QED
        BY <3>1, <3>3, LoadsNext
    <3>5. M(s) = n
      <4> DEFINE p == Part(f, s)
      <4> HIDE DEF p, n
      <4>1. Image(M(s), p) /\ Image(n, p) /\ Formed(p)
        BY <2>0, <3>4 DEF p
      <4> QED
        BY <4>1, ImageUnique
    <3> QED
      BY <2>0, <2>2, <3>2, <3>5
  <2> QED
    BY <2>1, <2>2
<1>5. Loading(h, f)
  <2>1. h = [s \in SUBSET D |-> h[s]]
    OBVIOUS
  <2> HIDE DEF h
  <2> QED
    BY <1>4, <2>1 DEF Loading
<1> HIDE DEF h
<1> QED
  BY <1>5 DEF loading

(* Opening a file that is in order gives maps that mirror it.              *)
LEMMA LoadedMirrors ==
    ASSUME NEW f, Formed(f)
    PROVE  Image(Loaded(f), f)
<1> DEFINE D == DOMAIN f
           g == loading(f)
           G == {s \in SUBSET D : Image(g[s], Part(f, s))}
<1>0. Loading(g, f)
  BY LoadingExists
<1>1. \A s \in SUBSET D : s \in SUBSET Int /\ IsFiniteSet(s)
  BY PartFormed
<1> HIDE DEF g
<1>2. ASSUME NEW t \in SUBSET D, \A u \in SUBSET t : u # t => u \in G
      PROVE  t \in G
  <2>1. CASE t = {}
    <3>1. g[t] = [Closed EXCEPT !.open = TRUE]
      BY <1>0, <2>1 DEF Loading
    <3> QED
      BY <2>1, <3>1, LoadsNothing
  <2>2. CASE t # {}
    <3>1. Max(t) \in t /\ \A k \in t : k <= Max(t)
      BY <1>1, <2>2, HighestNumber
    <3>2. Image(g[t \ {Max(t)}], Part(f, t \ {Max(t)}))
      BY <1>2, <3>1
    <3>3. Image(load_generic_record(g[t \ {Max(t)}], Max(t), f[Max(t)]), Part(f, t))
      BY <3>1, <3>2, LoadsNext
    <3>4. g[t] = load_generic_record(g[t \ {Max(t)}], Max(t), f[Max(t)])
      BY <1>0, <2>2 DEF Loading
    <3> QED
      BY <3>3, <3>4
  <2> QED
    BY <2>1, <2>2
<1>3. D \in G
  <2>1. IsFiniteSet(D)
    BY <1>1
  <2> HIDE DEF G
  <2> QED
    BY <1>2, <2>1, SubsetInduction
<1>4. Part(f, D) = f
  BY DEF Part, Formed, Shape
<1> QED
  BY <1>3, <1>4, LoadedIsFold DEF g

-----------------------------------------------------------------------------
(* A file stays safe when a record is put into it.                         *)

\* The condition on a record that is stored in f
Storable(m, f, i, r, S, X, P, n) ==
  /\ Fits(S, f, i, r) /\ r.type # "master"
  /\ IF r.type = "next" THEN \A j \in DOMAIN f \cup {1} : j < r.value ELSE i < NextIn(f)
  /\ r.type = "child" => r = [type |-> "child", value |-> m.child.value + 1] /\ m.child.value <= n
  /\ r.type = "key" => r.key \in X \/ r.private \in {NoPassword, f[-1].password} \cup P

\* Child keys and derived keys are counted apart.
LEMMA IssuedApart ==
    ASSUME NEW I, NEW f, NEW R, NEW n, NEW k, NEW j
    PROVE  /\ ChildCounts(f, I, n) => ChildCounts(f, I \cup {Derived(k, j)}, n)
           /\ AccountCounts(f, R, I) => AccountCounts(f, R, I \cup {Child(j)})
<1>1. \A x, y, z : Child(x) # Derived(y, z)
  BY DEF Child, Derived
<1> QED
  BY <1>1 DEF ChildCounts, AccountCounts

\* The aspects that a stored record leaves alone.
LEMMA PutRest ==
    ASSUME NEW m, NEW f, NEW i, NEW r, NEW S, NEW D, NEW X, NEW I, NEW P, NEW n,
           Safe(f, D, X, I, P, n), Storable(m, f, i, r, S, X, P, n)
    PROVE  LET g == Put(f, {i}, r)
           IN  /\ Shape(g) /\ -1 \in DOMAIN g /\ Fresh(g) /\ g[-1].password = f[-1].password
               /\ r.type # "child" => OneChild(g) /\ ChildCounts(g, I, n)
               /\ r.type # "account" => AccountCounts(g, D, I)
               /\ Readable(g, X, {g[-1].password} \cup P)
<1> DEFINE g == Put(f, {i}, r)
<1>0. Shape(f) /\ Fits(S, f, i, r) /\ -1 \in DOMAIN f /\ r.type # "master"
  BY DEF Safe, Storable
<1>1. IsPut(g, f, i, r) /\ Shape(g) /\ i \in Int /\ \A type : r.type # type => Same(f, g, type)
  BY <1>0, PutSame
<1> HIDE DEF g
<1>2. -1 \in DOMAIN g /\ g[-1].password = f[-1].password
  <2>1. Same(f, g, "master")
    BY <1>0, <1>1
  <2> QED
    BY <1>0, <1>1, <2>1, SameMaster
<1>3. DOMAIN g = DOMAIN f \cup {i} /\ g[i] = r
  BY <1>1 DEF IsPut
<1>4. Fresh(g)
  <2>1. CASE r.type = "next"
    <3>1. i = 1
      BY <1>0, <2>1, ValidTypes DEF Fits
    <3> QED
      BY <1>3, <2>1, <3>1 DEF Fresh, NextIn, Storable
  <2>2. CASE r.type # "next"
    <3>1. NextIn(g) = NextIn(f)
      BY <1>0, <1>1, <2>2, SameNext
    <3> QED
      BY <1>3, <2>2, <3>1 DEF Safe, Fresh, Storable
  <2> QED
    BY <2>1, <2>2
<1>5. r.type # "child" => OneChild(g) /\ ChildCounts(g, I, n)
  <2> SUFFICES ASSUME r.type # "child" PROVE OneChild(g) /\ ChildCounts(g, I, n)
    OBVIOUS
  <2>1. Same(f, g, "child")
    BY <1>1
  <2> QED
    BY <2>1, SameChild DEF Safe
<1>6. r.type # "account" => AccountCounts(g, D, I)
  <2> SUFFICES ASSUME r.type # "account" PROVE AccountCounts(g, D, I)
    OBVIOUS
  <2>1. Same(f, g, "account")
    BY <1>1
  <2> QED
    BY <2>1, SameAccounts DEF Safe
<1>7. Readable(g, X, {f[-1].password} \cup P)
  <2>0. Readable(f, X, {f[-1].password} \cup P)
    BY DEF Safe
  <2>1. CASE r.type = "key"
    <3>1. Above(f, i) \/ IsTop(f, r.key, i)
      BY <1>0, <2>1 DEF Fits
    <3>2. r.key \notin X => r.private \in {NoPassword, f[-1].password} \cup P
      BY <2>1 DEF Storable
    <3> DEFINE p == {f[-1].password} \cup P
    <3>3. Readable(f, X, p) /\ (r.key \notin X => r.private \in p \cup {NoPassword})
      BY <2>0, <3>2
    <3> HIDE DEF p
    <3>4. Readable(g, X, p)
      BY <1>0, <1>1, <2>1, <3>1, <3>3, KeyPutReadable
    <3> QED
      BY <3>4 DEF p
  <2>2. CASE r.type # "key"
    <3>1. Same(f, g, "key")
      BY <1>1, <2>2
    <3> QED
      BY <2>0, <3>1, SameKeys
  <2> QED
    BY <2>1, <2>2
<1> QED
  BY <1>1, <1>2, <1>4, <1>5, <1>6, <1>7 DEF g

\* A file stays safe, and a counter that is stored accounts for one more key.
LEMMA PutSafe ==
    ASSUME NEW m, NEW f, NEW i, NEW r, NEW R, NEW S, NEW D, NEW X, NEW I, NEW P, NEW n \in Nat,
           Safe(f, D, X, I, P, n), Mirrors(m, f, R, S), Storable(m, f, i, r, S, X, P, n)
    PROVE  LET g == Put(f, {i}, r)
           IN  /\ r.type = "child" => Safe(g, D, X, I \cup {Child(m.child.value)}, P, n)
               /\ r.type = "account" =>
                    \A k \in D \cup {r.owner} : Safe(g, D, X, I \cup {Derived(k, r.seq)}, P, n)
               /\ r.type \notin {"child", "account"} => Safe(g, D, X, I, P, n)
<1> DEFINE g == Put(f, {i}, r)
<1>0. /\ Shape(f) /\ Fits(S, f, i, r) /\ OneChild(f) /\ ChildCounts(f, I, n)
      /\ AccountCounts(f, D, I) /\ MirrorChild(m.child, f)
  BY DEF Safe, Storable, Mirrors
<1>1. /\ Shape(g) /\ -1 \in DOMAIN g /\ Fresh(g)
      /\ r.type # "child" => OneChild(g) /\ ChildCounts(g, I, n)
      /\ r.type # "account" => AccountCounts(g, D, I)
      /\ Readable(g, X, {g[-1].password} \cup P)
  BY PutRest
<1>2. IsPut(g, f, i, r)
  BY <1>0, PutSame
<1> HIDE DEF g
<1>3. ASSUME r.type = "child" PROVE Safe(g, D, X, I \cup {Child(m.child.value)}, P, n)
  <2> DEFINE v == m.child.value
             ch == m.child
  <2>1. r = [type |-> "child", value |-> v + 1] /\ v <= n
    BY <1>3 DEF Storable
  <2>2. v \in Nat
    <3>1. Of(f, "child") = {} \/ (ch.index \in Of(f, "child") /\ v = f[ch.index].value)
      BY <1>0 DEF MirrorChild
    <3>2. CASE Of(f, "child") = {}
      BY <1>0, <3>2 DEF MirrorChild
    <3>3. CASE ch.index \in Of(f, "child") /\ v = f[ch.index].value
      <4>1. f[ch.index] \in ChildRecords
        BY <1>0, <3>3, FileTypes
      <4> QED
        BY <3>3, <4>1, RecordTypes
    <3> QED
      BY <3>1, <3>2, <3>3
  <2>3. (Of(f, "child") = {} /\ i \notin DOMAIN f) \/ i \in Of(f, "child")
    BY <1>0, <1>3 DEF Fits
  <2>4. v = ch.value /\ MirrorChild(ch, f)
    BY <1>0
  <2> HIDE DEF v, ch
  <2>5. /\ OneChild(g)
        /\ \A K : \A a \in Nat : ChildCounts(f, K, a) /\ v <= a => ChildCounts(g, K \cup {Child(v)}, a)
    BY <1>0, <1>2, <2>1, <2>2, <2>3, <2>4, ChildPut
  <2>6. ChildCounts(g, I \cup {Child(v)}, n)
    BY <1>0, <2>1, <2>5
  <2>7. AccountCounts(g, D, I \cup {Child(v)})
    BY <1>1, <1>3, IssuedApart
  <2>8. Safe(g, D, X, I \cup {Child(v)}, P, n)
    BY <1>1, <1>3, <2>5, <2>6, <2>7 DEF Safe
  <2> QED
    BY <2>8 DEF v
<1>4. ASSUME r.type = "account", NEW k \in D \cup {r.owner} PROVE Safe(g, D, X, I \cup {Derived(k, r.seq)}, P, n)
  <2>1. i \notin DOMAIN f \/ (i \in Of(f, "account") /\ r.owner = f[i].owner /\ f[i].seq <= r.seq)
    BY <1>0, <1>4 DEF Fits
  <2>2. r.seq \in Nat
    BY <1>0, <1>4, ValidTypes, RecordTypes, MaxDbCallsAssumption DEF Fits
  <2> DEFINE J == I \cup {Derived(k, r.seq)}
  <2>3. \E a \in D \cup {r.owner} : J = I \cup {Derived(a, r.seq)}
    BY <1>4
  <2>4. ChildCounts(g, J, n)
    BY <1>1, <1>4, IssuedApart
  <2> HIDE DEF J
  <2>5. AccountCounts(g, D, J)
    BY <1>0, <1>2, <1>4, <2>1, <2>2, <2>3, AccountCounted
  <2>6. Safe(g, D, X, J, P, n)
    BY <1>1, <1>4, <2>4, <2>5 DEF Safe
  <2> QED
    BY <2>6 DEF J
<1>5. ASSUME r.type \notin {"child", "account"} PROVE Safe(g, D, X, I, P, n)
  BY <1>1, <1>5 DEF Safe
<1> QED
  BY <1>3, <1>4, <1>5 DEF g

\* A file that accounts for some keys accounts for fewer.
LEMMA SafeFewer ==
    ASSUME NEW f, NEW D, NEW X, NEW I, NEW P, NEW n, NEW J \in SUBSET I, Safe(f, D, X, I, P, n)
    PROVE  Safe(f, D, X, J, P, n)
<1>1. ChildCounts(f, J, n) /\ AccountCounts(f, D, J)
  BY DEF Safe, ChildCounts, AccountCounts
<1> QED
  BY <1>1 DEF Safe

-----------------------------------------------------------------------------
(* A call under way keeps every file that a crash can leave safe, and the  *)
(* private keys in it; I are the keys that calls have returned once this   *)
(* one has, and S the names and addresses that the indexes may be wrong    *)
(* about.                                                                  *)

CallFile(f, I) == Safe(f, removed \cup inexact, removed \cup mistaken', I, replaced, db_calls + 1)

CallSafe(c, I, S) ==
  /\ Mirrors(c.m, c.file, removed, S) /\ c.m.master = mem.master
  /\ \A f \in c.during : CallFile(f, issued) /\ Keep(f, Private(mem.keys))
  /\ c.file \in c.after
  /\ \A f \in c.after : CallFile(f, I) /\ Keep(f, Private(c.m.keys))
  /\ DOMAIN mem.keys \subseteq DOMAIN c.m.keys /\ Private(mem.keys) \subseteq Private(c.m.keys)
  /\ issued \subseteq I

InCall(c, I, S) == CallSafe(c, I, S) /\ Leads(c.m)

CanStore(c, i, r, S) == Storable(c.m, c.file, i, r, S, removed \cup mistaken', replaced, db_calls + 1)

\* A file that the maps mirror has their private keys.
LEMMA MirrorsKeep ==
    ASSUME NEW m, NEW f, NEW R, NEW S, Mirrors(m, f, R, S)
    PROVE  Keep(f, Private(m.keys))
<1> SUFFICES ASSUME NEW k \in Private(m.keys)
             PROVE  \E i \in Of(f, "key") : IsTop(f, k, i) /\ f[i].private # NoPassword
  BY DEF Keep
<1>1. k \in DOMAIN m.keys /\ m.keys[k].record.private # NoPassword
  BY DEF Private
<1>2. /\ IsTop(f, k, m.keys[k].index)
      /\ m.keys[k] = [record |-> f[m.keys[k].index], index |-> m.keys[k].index]
  BY <1>1 DEF Mirrors, MirrorKeys
<1>3. m.keys[k].record = f[m.keys[k].index]
  BY <1>2
<1> QED
  BY <1>1, <1>2, <1>3 DEF IsTop

LEMMA KeepFewer ==
    ASSUME NEW f, NEW P, NEW Q \in SUBSET P, Keep(f, P)
    PROVE  Keep(f, Q)
  BY DEF Keep

\* load_generic_record takes no key away, and none of the private parts.
LEMMA LoadKeepsKeys ==
    ASSUME NEW m, Maps(m), NEW i, NEW r,
           r.type = "key" => (r.key \in Private(m.keys) => r.private # NoPassword)
    PROVE  LET n == load_generic_record(m, i, r)
           IN  /\ DOMAIN m.keys \subseteq DOMAIN n.keys /\ Private(m.keys) \subseteq Private(n.keys)
               /\ r.type # "key" => n.keys = m.keys
<1> DEFINE n == load_generic_record(m, i, r)
<1>0. SameMaps(m, n, {r.type})
  BY Loads, Zenon
<1>1. r.type # "key" => n.keys = m.keys
  BY <1>0 DEF SameMaps
<1>2. ASSUME r.type = "key" PROVE n.keys = Put(m.keys, {r.key}, [record |-> r, index |-> i])
  <2>1. n = [m EXCEPT !.keys = Put(m.keys, {r.key}, [record |-> r, index |-> i])]
    BY <1>2 DEF load_generic_record
  <2> QED
    BY <2>1 DEF Maps, Fields
<1> HIDE DEF n
<1>3. CASE r.type = "key"
  <2> DEFINE e == [record |-> r, index |-> i]
             a == m.keys
             b == n.keys
  <2>1. /\ DOMAIN b = DOMAIN a \cup {r.key} /\ b[r.key] = e
        /\ \A k \in DOMAIN a : k # r.key => b[k] = a[k]
    BY <1>2, <1>3 DEF Put
  <2>2. e.record = r
    OBVIOUS
  <2>3. r.key \in Private(a) => r.private # NoPassword
    BY <1>3
  <2> HIDE DEF e, a, b
  <2>4. DOMAIN a \subseteq DOMAIN b /\ Private(a) \subseteq Private(b)
    BY <2>1, <2>2, <2>3 DEF Private
  <2> QED
    BY <1>3, <2>4 DEF a, b, n
<1> QED
  BY <1>1, <1>3 DEF n

\* load_generic_record leaves no index without a record.
LEMMA LoadLeads ==
    ASSUME NEW m, Maps(m), Leads(m), NEW i, NEW r
    PROVE  Leads(load_generic_record(m, i, r))
<1> DEFINE n == load_generic_record(m, i, r)
<1>1. CASE r.type = "account"
  <2> DEFINE accounts == Put(m.accounts, {i}, r)
             by_address == Put(m.by_address, Addresses(r), i)
             by_name == Put(m.by_name, {r.name}, i)
  <2>1. n = [m EXCEPT !.accounts = accounts, !.by_address = by_address, !.by_name = by_name]
    BY <1>1 DEF load_generic_record, Addresses
  <2>2. /\ DOMAIN accounts = DOMAIN m.accounts \cup {i}
        /\ \A k \in DOMAIN by_address : by_address[k] = i \/ (k \in DOMAIN m.by_address /\ by_address[k] = m.by_address[k])
        /\ \A k \in DOMAIN by_name : by_name[k] = i \/ (k \in DOMAIN m.by_name /\ by_name[k] = m.by_name[k])
    BY DEF Put
  <2> HIDE DEF accounts, by_address, by_name, n
  <2>3. n.accounts = accounts /\ n.by_address = by_address /\ n.by_name = by_name
    BY <2>1 DEF Maps, Fields
  <2> QED
    BY <2>2, <2>3 DEF Leads, n
<1>2. CASE r.type # "account"
  <2>1. SameMaps(m, n, {r.type})
    BY Loads, Zenon
  <2> HIDE DEF n
  <2>2. n.accounts = m.accounts /\ n.by_address = m.by_address /\ n.by_name = m.by_name
    BY <1>2, <2>1 DEF SameMaps
  <2> QED
    BY <2>2 DEF Leads, n
<1> QED
  BY <1>1, <1>2

(* A stored record keeps a call in order.                                  *)
LEMMA Stores ==
    ASSUME NEW c, NEW I, NEW S, NEW J, NEW i, NEW r, NEW s \in BOOLEAN, db_calls \in Nat,
           CallSafe(c, I, S), CanStore(c, i, r, S),
           r.type = "key" => s = TRUE /\ (r.key \in Private(c.m.keys) => r.private # NoPassword),
           \/ J = I
           \/ s = TRUE /\ r.type = "child" /\ J = I \cup {Child(c.m.child.value)}
           \/ /\ s = TRUE /\ r.type = "account"
              /\ \E k \in (removed \cup inexact) \cup {r.owner} : J = I \cup {Derived(k, r.seq)}
    PROVE  /\ CallSafe(store_record(c, i, r, s), J, S)
           /\ Leads(c.m) => InCall(store_record(c, i, r, s), J, S)
<1> DEFINE d == store_record(c, i, r, s)
           f == Put(c.file, {i}, r)
           m == c.m
           n == load_generic_record(m, i, r)
           D == removed \cup inexact
           X == removed \cup mistaken'
           Y(g, K) == CallFile(g, K)
<1>1. d.m = n /\ d.file = f /\ d.during = c.during \cup {f} /\ d.after = (IF s THEN {f} ELSE c.after \cup {f})
  BY DEF store_record, Write
<1>2. /\ Mirrors(m, c.file, removed, S) /\ m.master = mem.master /\ Maps(m)
      /\ Y(c.file, I) /\ I \subseteq J /\ issued \subseteq I
      /\ DOMAIN mem.keys \subseteq DOMAIN m.keys /\ Private(mem.keys) \subseteq Private(m.keys)
  BY DEF CallSafe, Mirrors
<1>3. Fits(S, c.file, i, r) /\ Shape(c.file) /\ OneChild(c.file) /\ r.type # "master"
  BY <1>2 DEF CanStore, Storable, CallFile, Safe
<1>4. Y(f, J)
  <2>0. db_calls + 1 \in Nat
    OBVIOUS
  <2> DEFINE g == c.file
             num == db_calls + 1
             P == replaced
  <2>a. Safe(g, D, X, I, P, num) /\ Storable(m, g, i, r, S, X, P, num) /\ Mirrors(m, g, removed, S) /\ num \in Nat
    BY <1>2, <2>0 DEF CallFile, CanStore
  <2>e. /\ \A K : Y(f, K) <=> Safe(Put(g, {i}, r), D, X, K, P, num)
        /\ \/ J = I
           \/ r.type = "child" /\ J = I \cup {Child(m.child.value)}
           \/ r.type = "account" /\ \E k \in D \cup {r.owner} : J = I \cup {Derived(k, r.seq)}
    BY DEF CallFile
  <2> HIDE DEF Y, f, m, g, num, P, X, D
  <2>b. /\ r.type = "child" => Safe(Put(g, {i}, r), D, X, I \cup {Child(m.child.value)}, P, num)
        /\ r.type = "account" =>
             \A k \in D \cup {r.owner} : Safe(Put(g, {i}, r), D, X, I \cup {Derived(k, r.seq)}, P, num)
        /\ r.type \notin {"child", "account"} => Safe(Put(g, {i}, r), D, X, I, P, num)
    BY <2>a, PutSafe
  <2>1. /\ r.type = "child" => Y(f, I \cup {Child(m.child.value)})
        /\ r.type = "account" => \A k \in D \cup {r.owner} : Y(f, I \cup {Derived(k, r.seq)})
        /\ r.type \notin {"child", "account"} => Y(f, I)
    BY <2>b, <2>e
  <2>2. ASSUME NEW K, Y(f, K), I \subseteq K PROVE Y(f, I)
    BY <2>2, <2>e, SafeFewer
  <2>3. Y(f, I)
    BY <2>1, <2>2
  <2> QED
    BY <2>e, <2>1, <2>3
<1>5. Mirrors(n, f, removed, S)
  BY <1>2, <1>3, PutMirrors
<1>6. n.master = m.master
  <2>1. SameMaps(m, n, {r.type})
    BY <1>2, Loads, Zenon
  <2> QED
    BY <1>3, <2>1 DEF SameMaps
<1>7. /\ DOMAIN m.keys \subseteq DOMAIN n.keys /\ Private(m.keys) \subseteq Private(n.keys)
      /\ r.type # "key" => n.keys = m.keys
  BY <1>2, LoadKeepsKeys
<1>8. Keep(f, Private(n.keys))
  BY <1>5, MirrorsKeep
<1> HIDE DEF n, f, d
<1>9. DOMAIN mem.keys \subseteq DOMAIN n.keys /\ Private(mem.keys) \subseteq Private(n.keys)
  BY <1>2, <1>7
<1>10. Y(f, issued) /\ Keep(f, Private(mem.keys))
  <2>1. Y(f, issued)
    BY <1>2, <1>4, SafeFewer DEF CallFile
  <2> QED
    BY <1>8, <1>9, <2>1, KeepFewer
<1>11. ASSUME NEW g \in d.after PROVE Y(g, J) /\ Keep(g, Private(n.keys))
  <2>1. CASE g = f
    BY <1>4, <1>8, <2>1
  <2>2. CASE g # f
    <3>1. s = FALSE /\ g \in c.after
      BY <1>1, <1>11, <2>2
    <3>2. J = I /\ n.keys = m.keys
      BY <1>7, <3>1
    <3> QED
      BY <3>1, <3>2 DEF CallSafe
  <2> QED
    BY <2>1, <2>2
<1>12. \A g \in d.during : Y(g, issued) /\ Keep(g, Private(mem.keys))
  BY <1>1, <1>10 DEF CallSafe
<1>13. d.file \in d.after
  BY <1>1
<1>14. CallSafe(d, J, S)
  BY <1>1, <1>2, <1>5, <1>6, <1>9, <1>11, <1>12, <1>13 DEF CallSafe
<1>15. Leads(c.m) => InCall(d, J, S)
  <2>1. Leads(m) => Leads(n)
    BY <1>2, LoadLeads DEF n
  <2> QED
    BY <1>1, <1>14, <2>1 DEF InCall
<1> QED
  BY <1>14, <1>15 DEF d

-----------------------------------------------------------------------------
(* The records that calls store.                                           *)

Ready == db_calls \in Nat

\* A password opens the key, unless it need not be readable.
Opened(r) == r.key \in removed \cup mistaken' \/ r.private \in {NoPassword, mem.master} \cup replaced

Room(f, i) == i \in Nat /\ i >= 2 /\ Above(f, i) /\ i < NextIn(f)

\* The parts of CallSafe that are about the file and the maps.
LEMMA CallFacts ==
    ASSUME NEW c, NEW I, NEW S, CallSafe(c, I, S)
    PROVE  /\ CallFile(c.file, I) /\ Mirrors(c.m, c.file, removed, S)
           /\ Shape(c.file) /\ -1 \in DOMAIN c.file /\ Fresh(c.file) /\ OneChild(c.file)
           /\ c.m.next = NextIn(c.file) /\ c.m.master = c.file[-1].password /\ c.m.master = mem.master
           /\ Maps(c.m) /\ MirrorKeys(c.m.keys, c.file, removed) /\ MirrorChild(c.m.child, c.file)
           /\ MirrorAccounts(c.m.accounts, c.m.by_address, c.m.by_name, c.file, S)
<1>1. CallFile(c.file, I) /\ Mirrors(c.m, c.file, removed, S) /\ c.m.master = mem.master
  BY DEF CallSafe
<1> DEFINE f == c.file
           m == c.m
<1>2. CallFile(f, I) /\ Mirrors(m, f, removed, S) /\ m.master = mem.master
  BY <1>1
<1> HIDE DEF f, m
<1>3. Shape(f) /\ -1 \in DOMAIN f /\ Fresh(f) /\ OneChild(f)
  BY <1>2 DEF CallFile, Safe
<1>4. /\ m.next = NextIn(f) /\ m.master = MasterIn(f) /\ Maps(m) /\ MirrorKeys(m.keys, f, removed)
      /\ MirrorChild(m.child, f) /\ MirrorAccounts(m.accounts, m.by_address, m.by_name, f, S)
  BY <1>2 DEF Mirrors
<1>5. m.master = f[-1].password
  BY <1>3, <1>4 DEF MasterIn
<1> QED
  BY <1>2, <1>3, <1>4, <1>5 DEF f, m

LEMMA LoadSame ==
    ASSUME NEW m, Maps(m), NEW i, NEW r
    PROVE  SameMaps(m, load_generic_record(m, i, r), {r.type})
  BY Loads, Zenon

LEMMA SameMapsTwo ==
    ASSUME NEW m, NEW n, NEW o, NEW A, NEW B, SameMaps(m, n, A), SameMaps(n, o, B)
    PROVE  SameMaps(m, o, A \cup B)
  BY DEF SameMaps

\* The number of the next record.
LEMMA NextNumber ==
    ASSUME NEW f, Shape(f), Fresh(f)
    PROVE  NextIn(f) \in Nat /\ NextIn(f) >= 2
<1>1. CASE 1 \in DOMAIN f
  <2>1. f[1] \in NextRecords
    BY <1>1, FileTypes
  <2>2. f[1].value \in Nat
    BY <2>1, RecordTypes
  <2> QED
    BY <1>1, <2>2 DEF Fresh, NextIn
<1>2. CASE 1 \notin DOMAIN f
  BY <1>2 DEF NextIn
<1> QED
  BY <1>1, <1>2

(* new_wallet_record_index makes room for a record.                        *)
LEMMA NewIndex ==
    ASSUME NEW c, NEW I, NEW S, InCall(c, I, S), Ready
    PROVE  LET d == new_wallet_record_index(c)
           IN  InCall(d, I, S) /\ Room(d.file, c.m.next) /\ SameMaps(c.m, d.m, {"next"})
<1> DEFINE f == c.file
           m == c.m
           v == c.m.next
           r == [type |-> "next", value |-> v + 1]
           d == store_record(c, 1, r, FALSE)
           g == Put(f, {1}, r)
<1>1. new_wallet_record_index(c) = d
  BY DEF new_wallet_record_index
<1>2. Shape(f) /\ Fresh(f) /\ v = NextIn(f) /\ Maps(m)
  BY CallFacts DEF InCall
<1>3. v \in Nat /\ v >= 2
  BY <1>2, NextNumber
<1>4. r.type = "next" /\ r.value = v + 1 /\ r \in NextRecords
  BY <1>3 DEF NextRecords
<1>5. d.m = load_generic_record(m, 1, r) /\ d.file = g
  BY DEF store_record, Write
<1>6. DOMAIN g = DOMAIN f \cup {1} /\ g[1] = r
  BY DEF Put
<1> HIDE DEF f, r, d, g, v
<1>7. Fits(S, f, 1, r)
  <2>1. 1 \in DOMAIN f => f[1].type = "next"
    BY <1>2, FileTypes DEF Of
  <2> QED
    BY <1>4, <2>1 DEF Fits, Valid
<1>8. \A j \in DOMAIN f : j < v /\ j \in Int
  BY <1>2, FileTypes DEF Fresh
<1>10. InCall(d, I, S)
  <2>1. CanStore(c, 1, r, S)
    BY <1>3, <1>4, <1>7, <1>8 DEF CanStore, Storable, f
  <2>2. InCall(store_record(c, 1, r, FALSE), I, S)
    BY <1>4, <2>1, Stores DEF Ready, InCall
  <2> QED
    BY <2>2 DEF d
<1>11. Room(d.file, v)
  <2>1. NextIn(g) = v + 1
    BY <1>4, <1>6 DEF NextIn
  <2>2. \A j \in DOMAIN g : j < v
    BY <1>3, <1>6, <1>8
  <2>3. v \notin DOMAIN g
    BY <1>3, <2>2
  <2> QED
    BY <1>3, <1>5, <2>1, <2>2, <2>3 DEF Room, Above
<1>12. SameMaps(m, d.m, {"next"})
  BY <1>2, <1>4, <1>5, LoadSame
<1> QED
  BY <1>1, <1>10, <1>11, <1>12 DEF v

(* A record stored under a new number.                                     *)
LEMMA NewRecord ==
    ASSUME NEW c, NEW I, NEW S, NEW J, InCall(c, I, S), Ready, NEW r \in Records, NEW s \in BOOLEAN,
           r.type = "key" =>
             s = TRUE /\ r.key \notin DOMAIN c.m.keys /\ Opened(r),
           r.type = "child" =>
             /\ c.m.child.index = 0 /\ c.m.child.value <= db_calls + 1
             /\ r = [type |-> "child", value |-> c.m.child.value + 1],
           J = I \/ (s = TRUE /\ r.type = "child" /\ J = I \cup {Child(c.m.child.value)})
    PROVE  LET e == store_new_record(c, r, s)
           IN  /\ InCall(e, J, S) /\ SameMaps(c.m, e.m, {"next", r.type})
               /\ r.type = "key" => e.m.keys = Put(c.m.keys, {r.key}, [record |-> r, index |-> c.m.next])
<1> DEFINE d == new_wallet_record_index(c)
           i == c.m.next
           e == store_record(d, i, r, s)
           f == d.file
           m == d.m
<1>1. InCall(d, I, S) /\ Room(f, i) /\ SameMaps(c.m, m, {"next"})
  BY NewIndex
<1>2. store_new_record(c, r, s) = e
  BY DEF store_new_record
<1>3. e.m = load_generic_record(m, i, r)
  BY DEF store_record, Write
<1>4. /\ Shape(f) /\ -1 \in DOMAIN f /\ m.master = f[-1].password /\ m.master = mem.master /\ Maps(m)
      /\ MirrorChild(m.child, f)
  BY <1>1, CallFacts DEF InCall
<1>5. m.keys = c.m.keys /\ m.child = c.m.child
  BY <1>1 DEF SameMaps
<1>i. i = c.m.next
  OBVIOUS
<1> HIDE DEF d, e, f, m, i
<1>6. Valid(i, r) /\ r.type \notin {"master", "next"}
  <2>1. r.type \notin {"master", "next"}
    BY RecordTypes DEF Records
  <2> QED
    BY <1>1, <2>1 DEF Valid, Room
<1>7. r.type = "child" => Of(f, "child") = {}
  <2> SUFFICES ASSUME r.type = "child" PROVE Of(f, "child") = {}
    OBVIOUS
  <2>1. m.child.index = 0
    BY <1>5
  <2>2. 0 \notin Of(f, "child")
    BY <1>4, FileTypes DEF Of
  <2> QED
    BY <1>4, <2>1, <2>2 DEF MirrorChild
<1>8. Fits(S, f, i, r)
  BY <1>1, <1>5, <1>6, <1>7 DEF Fits, Room, Above
<1>9. r.type = "key" => r.key \in removed \cup mistaken' \/ r.private \in {NoPassword, f[-1].password} \cup replaced
  BY <1>4 DEF Opened
<1>10. CanStore(d, i, r, S)
  BY <1>1, <1>5, <1>6, <1>8, <1>9 DEF CanStore, Storable, Room, m, f
<1>11. InCall(e, J, S)
  <2>2. r.type = "key" => s = TRUE /\ (r.key \in Private(d.m.keys) => r.private # NoPassword)
    BY <1>5 DEF m, Private
  <2>3. J = I \/ (s = TRUE /\ r.type = "child" /\ J = I \cup {Child(d.m.child.value)})
    BY <1>5 DEF m
  <2>4. InCall(store_record(d, i, r, s), J, S)
    BY <1>1, <1>10, <2>2, <2>3, Stores DEF Ready, InCall
  <2> QED
    BY <2>4 DEF e
<1>12. SameMaps(c.m, e.m, {"next", r.type})
  <2>1. SameMaps(m, e.m, {r.type})
    BY <1>3, <1>4, LoadSame
  <2>2. SameMaps(c.m, e.m, {"next"} \cup {r.type})
    BY <1>1, <2>1, SameMapsTwo
  <2>3. {"next"} \cup {r.type} = {"next", r.type}
    OBVIOUS
  <2> QED
    BY <2>2, <2>3
<1>13. ASSUME r.type = "key" PROVE e.m.keys = Put(c.m.keys, {r.key}, [record |-> r, index |-> i])
  <2>1. e.m = [m EXCEPT !.keys = Put(m.keys, {r.key}, [record |-> r, index |-> i])]
    BY <1>3, <1>13 DEF load_generic_record
  <2>2. e.m.keys = Put(m.keys, {r.key}, [record |-> r, index |-> i])
    BY <1>4, <2>1 DEF Maps, Fields
  <2> QED
    BY <1>5, <2>2
<1> QED
  BY <1>2, <1>11, <1>12, <1>13 DEF i

(* The record of a key stored again.                                       *)
LEMMA OldKey ==
    ASSUME NEW c, NEW I, NEW S, InCall(c, I, S), Ready, NEW r \in KeyRecords, r.key \in DOMAIN c.m.keys,
           r.private = c.m.keys[r.key].record.private \/ (r.private \in Passwords /\ Opened(r))
    PROVE  LET e == store_record(c, c.m.keys[r.key].index, r, TRUE)
           IN  InCall(e, I, S) /\ SameMaps(c.m, e.m, {"key"}) /\ DOMAIN e.m.keys = DOMAIN c.m.keys
<1> DEFINE f == c.file
           m == c.m
           k == r.key
           i == m.keys[k].index
           old == m.keys[k].record
           e == store_record(c, i, r, TRUE)
<1>1. /\ Shape(f) /\ -1 \in DOMAIN f /\ Fresh(f) /\ m.master = f[-1].password /\ m.master = mem.master /\ Maps(m)
      /\ MirrorKeys(m.keys, f, removed) /\ CallFile(f, I)
  BY CallFacts DEF InCall
<1>2. IsTop(f, k, i) /\ m.keys[k] = [record |-> f[i], index |-> i]
  BY <1>1 DEF MirrorKeys
<1>3. e.m = load_generic_record(m, i, r)
  BY DEF store_record, Write
<1>4. old = f[i]
  BY <1>2
<1>5. (r.private = old.private \/ (r.private \in Passwords /\ Opened(r))) /\ k \in DOMAIN m.keys /\ r.key = k
  OBVIOUS
<1>k. i = c.m.keys[r.key].index /\ m = c.m /\ f = c.file
  OBVIOUS
<1>6. r.key \in Private(c.m.keys) <=> old.private # NoPassword
  BY DEF Private
<1> HIDE DEF e, f, m, i, old, k
<1>7. r.type = "key" /\ NoPassword \notin Passwords
  BY RecordTypes, PasswordsAssumption
<1>8. i \in DOMAIN f /\ f[i].type = "key" /\ f[i].key = k
  BY <1>2 DEF IsTop, Of
<1>9. Valid(i, r)
  <2>1. Valid(i, f[i])
    BY <1>1, <1>8 DEF Shape
  <2>2. f[i] \notin MasterRecords /\ f[i] \notin NextRecords
    BY <1>8, RecordTypes
  <2>3. i \in Nat /\ i >= 2
    BY <2>1, <2>2 DEF Valid
  <2> QED
    BY <2>3 DEF Valid, Records
<1>10. Fits(S, f, i, r)
  BY <1>2, <1>5, <1>7, <1>8, <1>9 DEF Fits
<1>11. k \in removed \cup mistaken' \/ r.private \in {NoPassword, f[-1].password} \cup replaced
  <2>1. k \in removed \cup mistaken' \/ old.private \in {NoPassword, f[-1].password} \cup replaced
    BY <1>1, <1>2, <1>4, <1>8 DEF CallFile, Safe, Readable, IsTop
  <2> QED
    BY <1>1, <1>5, <2>1 DEF Opened
<1>13. InCall(e, I, S)
  <2>1. CanStore(c, i, r, S)
    BY <1>1, <1>5, <1>7, <1>8, <1>10, <1>11, <1>k DEF CanStore, Storable, Fresh
  <2>2. r.key \in Private(c.m.keys) => r.private # NoPassword
    BY <1>5, <1>6, <1>7
  <2>3. InCall(store_record(c, i, r, TRUE), I, S)
    BY <1>7, <2>1, <2>2, Stores DEF Ready, InCall
  <2> QED
    BY <2>3 DEF e
<1>14. SameMaps(m, e.m, {"key"})
  BY <1>1, <1>3, <1>7, LoadSame
<1>15. DOMAIN e.m.keys = DOMAIN m.keys
  <2>1. e.m = [m EXCEPT !.keys = Put(m.keys, {r.key}, [record |-> r, index |-> i])]
    BY <1>3, <1>7 DEF load_generic_record
  <2>2. e.m.keys = Put(m.keys, {r.key}, [record |-> r, index |-> i])
    BY <1>1, <2>1 DEF Maps, Fields
  <2> QED
    BY <1>5, <2>2 DEF Put
<1> QED
  BY <1>13, <1>14, <1>15, <1>k DEF e

(* The record of an account stored again.                                  *)
LEMMA OldAccountRecord ==
    ASSUME NEW c, NEW I, NEW S, NEW J, InCall(c, I, S), Ready, NEW i \in Of(c.file, "account"),
           NEW r \in AccountRecords, NEW s \in BOOLEAN, LostBy(c.file[i], r) \subseteq S,
           r.owner = c.file[i].owner, c.file[i].seq <= r.seq,
           \/ J = I
           \/ s = TRUE /\ \E k \in (removed \cup inexact) \cup {r.owner} : J = I \cup {Derived(k, r.seq)}
    PROVE  LET e == store_record(c, i, r, s)
           IN  InCall(e, J, S) /\ SameMaps(c.m, e.m, {"account"}) /\ e.file = Put(c.file, {i}, r)
<1> DEFINE f == c.file
           m == c.m
           e == store_record(c, i, r, s)
<1>1. Shape(f) /\ Fresh(f) /\ Maps(m)
  BY CallFacts DEF InCall
<1>2. e.m = load_generic_record(m, i, r) /\ e.file = Put(f, {i}, r)
  BY DEF store_record, Write
<1>3. r.type = "account"
  BY RecordTypes
<1>4. i \in DOMAIN f /\ f[i].type = "account"
  BY DEF Of
<1>5. Valid(i, r)
  <2>1. Valid(i, f[i])
    BY <1>1, <1>4 DEF Shape
  <2>2. f[i] \notin MasterRecords /\ f[i] \notin NextRecords
    BY <1>4, RecordTypes
  <2>3. i \in Nat /\ i >= 2
    BY <2>1, <2>2 DEF Valid
  <2> QED
    BY <2>3 DEF Valid, Records
<1>6. Fits(S, f, i, r)
  BY <1>3, <1>4, <1>5 DEF Fits
<1>7. CanStore(c, i, r, S)
  BY <1>1, <1>3, <1>4, <1>6 DEF CanStore, Storable, Fresh
<1>8. InCall(e, J, S)
  BY <1>3, <1>4, <1>7, Stores DEF Ready, InCall
<1>9. SameMaps(m, e.m, {"account"})
  BY <1>1, <1>2, <1>3, LoadSame
<1> QED
  BY <1>2, <1>8, <1>9

(* The number of the last generated key stored again.                      *)
LEMMA OldChild ==
    ASSUME NEW c, NEW I, NEW S, InCall(c, I, S), Ready, c.m.child.index # 0, c.m.child.value <= db_calls + 1
    PROVE  LET e == store_record(c, c.m.child.index, [type |-> "child", value |-> c.m.child.value + 1], TRUE)
           IN  InCall(e, I \cup {Child(c.m.child.value)}, S) /\ SameMaps(c.m, e.m, {"child"})
<1> DEFINE f == c.file
           m == c.m
           i == m.child.index
           v == m.child.value
           r == [type |-> "child", value |-> v + 1]
           e == store_record(c, i, r, TRUE)
<1>1. Shape(f) /\ Fresh(f) /\ Maps(m) /\ MirrorChild(m.child, f)
  BY CallFacts DEF InCall
<1>2. e.m = load_generic_record(m, i, r)
  BY DEF store_record, Write
<1>3. r.type = "child" /\ r.value = v + 1
  OBVIOUS
<1>4. i \in Of(f, "child") /\ v = f[i].value
  BY <1>1 DEF MirrorChild
<1>5. v \in Nat
  BY <1>1, <1>4, FileTypes, RecordTypes
<1>6. r \in ChildRecords
  BY <1>5 DEF ChildRecords
<1>7. r = [type |-> "child", value |-> m.child.value + 1] /\ v <= db_calls + 1 /\ m = c.m /\ f = c.file /\ v = m.child.value
  OBVIOUS
<1> HIDE DEF e, r, i, f, m, v
<1>8. i \in DOMAIN f /\ f[i].type = "child"
  BY <1>4 DEF Of
<1>9. Valid(i, r)
  <2>1. Valid(i, f[i])
    BY <1>1, <1>8 DEF Shape
  <2>2. f[i] \notin MasterRecords /\ f[i] \notin NextRecords
    BY <1>8, RecordTypes
  <2>3. i \in Nat /\ i >= 2
    BY <2>1, <2>2 DEF Valid
  <2> QED
    BY <1>6, <2>3 DEF Valid, Records
<1>10. Fits(S, f, i, r)
  BY <1>3, <1>4, <1>8, <1>9 DEF Fits
<1>11. CanStore(c, i, r, S)
  BY <1>1, <1>3, <1>7, <1>8, <1>10 DEF CanStore, Storable, Fresh
<1>12. InCall(e, I \cup {Child(v)}, S)
  <2>1. CanStore(c, i, r, S)
    BY <1>7, <1>11
  <2>2. InCall(store_record(c, i, r, TRUE), I \cup {Child(c.m.child.value)}, S)
    BY <1>3, <2>1, Stores DEF Ready, InCall
  <2> QED
    BY <1>7, <2>2 DEF e
<1>13. SameMaps(m, e.m, {"child"})
  BY <1>1, <1>2, <1>3, LoadSame
<1> QED
  BY <1>12, <1>13, <1>7 DEF e, r, i, v, m

-----------------------------------------------------------------------------
(* The operations of wallet_db keep a call in order.                       *)

\* The changes that calls make to an account record.
LEMMA AccountUpdates ==
    ASSUME NEW r \in AccountRecords
    PROVE  /\ LET q == [r EXCEPT !.mine = TRUE]
              IN  q \in AccountRecords /\ q.owner = r.owner /\ q.seq = r.seq /\ LostBy(r, q) = {}
           /\ r.seq < MaxDbCalls =>
                LET q == [r EXCEPT !.seq = r.seq + 1]
                IN  q \in AccountRecords /\ q.owner = r.owner /\ q.seq = r.seq + 1 /\ LostBy(r, q) = {}
           /\ \A n \in Names :
                LET q == [r EXCEPT !.name = n]
                IN  /\ q \in AccountRecords /\ q.owner = r.owner /\ q.seq = r.seq /\ q.name = n
                    /\ q.actives = r.actives
<1>0. r.seq \in 0 .. MaxDbCalls /\ MaxDbCalls \in Nat
  BY MaxDbCallsAssumption DEF AccountRecords
<1>1. LET q == [r EXCEPT !.mine = TRUE]
      IN  q \in AccountRecords /\ q.owner = r.owner /\ q.seq = r.seq /\ LostBy(r, q) = {}
  <2> DEFINE q == [r EXCEPT !.mine = TRUE]
  <2>1. q \in AccountRecords /\ q.name = r.name /\ q.owner = r.owner /\ q.actives = r.actives /\ q.seq = r.seq
    BY DEF AccountRecords
  <2> QED
    BY <2>1 DEF LostBy, Addresses
<1>2. ASSUME r.seq < MaxDbCalls
      PROVE  LET q == [r EXCEPT !.seq = r.seq + 1]
             IN  q \in AccountRecords /\ q.owner = r.owner /\ q.seq = r.seq + 1 /\ LostBy(r, q) = {}
  <2> DEFINE q == [r EXCEPT !.seq = r.seq + 1]
  <2>1. r.seq + 1 \in 0 .. MaxDbCalls
    BY <1>0, <1>2
  <2>2. q \in AccountRecords /\ q.name = r.name /\ q.owner = r.owner /\ q.actives = r.actives /\ q.seq = r.seq + 1
    BY <2>1 DEF AccountRecords
  <2> QED
    BY <2>2 DEF LostBy, Addresses
<1>3. ASSUME NEW n \in Names
      PROVE  LET q == [r EXCEPT !.name = n]
             IN  /\ q \in AccountRecords /\ q.owner = r.owner /\ q.seq = r.seq /\ q.name = n
                 /\ q.actives = r.actives
  BY DEF AccountRecords
<1> QED
  BY <1>1, <1>2, <1>3

\* The changes that calls make to a key record.
LEMMA KeyUpdates ==
    ASSUME NEW r \in KeyRecords
    PROVE  /\ \A k \in Keys : [r EXCEPT !.account = k] \in KeyRecords /\ [r EXCEPT !.account = k].key = r.key
                              /\ [r EXCEPT !.account = k].private = r.private
           /\ \A p \in Passwords : [r EXCEPT !.private = p] \in KeyRecords /\ [r EXCEPT !.private = p].key = r.key
                              /\ [r EXCEPT !.private = p].private = p
  BY DEF KeyRecords

LEMMA KeyRecordIs ==
    ASSUME NEW k \in Keys, NEW a \in Keys, NEW p \in Passwords \cup {NoPassword}
    PROVE  /\ KeyRecord(k, a, p) \in KeyRecords /\ KeyRecord(k, a, p).key = k /\ KeyRecord(k, a, p).private = p
           /\ KeyRecord(k, a, p).account = a
  BY DEF KeyRecord, KeyRecords

LEMMA AccountsAreKeys == Accounts \subseteq Keys
  BY DEF Keys

LEMMA RegisteredKeys ==
    ASSUME NEW n \in Registered
    PROVE  owner_key[n] \in Accounts /\ owner_key[n] \in Keys /\ active_key[n] \in Keys /\ n \in Names
  BY NamesAssumption DEF Accounts, Keys

\* The record of a known key.
LEMMA KeyAt ==
    ASSUME NEW c, NEW I, NEW S, InCall(c, I, S), NEW k \in DOMAIN c.m.keys
    PROVE  c.m.keys[k].record \in KeyRecords /\ c.m.keys[k].record.key = k
<1> DEFINE f == c.file
           i == c.m.keys[k].index
<1>1. Shape(f) /\ MirrorKeys(c.m.keys, f, removed)
  BY CallFacts DEF InCall
<1>2. IsTop(f, k, i) /\ c.m.keys[k] = [record |-> f[i], index |-> i]
  BY <1>1 DEF MirrorKeys
<1>3. c.m.keys[k].record = f[i]
  BY <1>2
<1> HIDE DEF f, i
<1>4. i \in Of(f, "key") /\ f[i].key = k
  BY <1>2 DEF IsTop
<1> QED
  BY <1>1, <1>3, <1>4, FileTypes

\* The records of accounts, to which the indexes lead.
LEMMA AccountAt ==
    ASSUME NEW c, NEW I, NEW S, InCall(c, I, S)
    PROVE  /\ DOMAIN c.m.accounts = Of(c.file, "account")
           /\ \A i \in DOMAIN c.m.accounts : c.m.accounts[i] = c.file[i] /\ c.file[i] \in AccountRecords
           /\ \A k \in DOMAIN c.m.by_address : c.m.by_address[k] \in DOMAIN c.m.accounts
           /\ \A n \in DOMAIN c.m.by_name : c.m.by_name[n] \in DOMAIN c.m.accounts
<1> DEFINE f == c.file
           accounts == c.m.accounts
<1>1. Shape(f) /\ accounts = [i \in Of(f, "account") |-> f[i]]
  BY CallFacts DEF InCall, MirrorAccounts
<1>2. Leads(c.m)
  BY DEF InCall
<1> HIDE DEF f, accounts
<1>3. \A i \in Of(f, "account") : f[i] \in AccountRecords
  BY <1>1, FileTypes
<1>4. DOMAIN accounts = Of(f, "account") /\ \A i \in DOMAIN accounts : accounts[i] = f[i] /\ f[i] \in AccountRecords
  BY <1>1, <1>3
<1> QED
  BY <1>2, <1>4 DEF Leads, f, accounts

\* Records of keys and accounts stored under a new number.
LEMMA NewKeyRecord ==
    ASSUME NEW c, NEW I, NEW S, InCall(c, I, S), Ready, NEW r \in KeyRecords, r.key \notin DOMAIN c.m.keys, Opened(r)
    PROVE  LET e == store_new_record(c, r, TRUE)
           IN  InCall(e, I, S) /\ e.m.keys = Put(c.m.keys, {r.key}, [record |-> r, index |-> c.m.next])
<1>1. r \in Records /\ r.type = "key" /\ r.type # "child" /\ TRUE \in BOOLEAN
  BY RecordTypes DEF Records
<1>2. LET e == store_new_record(c, r, TRUE)
      IN  /\ InCall(e, I, S) /\ SameMaps(c.m, e.m, {"next", r.type})
          /\ r.type = "key" => e.m.keys = Put(c.m.keys, {r.key}, [record |-> r, index |-> c.m.next])
  BY <1>1, NewRecord, Zenon
<1> QED
  BY <1>1, <1>2

LEMMA NewAccountRecord ==
    ASSUME NEW c, NEW I, NEW S, InCall(c, I, S), Ready, NEW r \in AccountRecords, NEW s \in BOOLEAN
    PROVE  LET e == store_new_record(c, r, s)
           IN  InCall(e, I, S) /\ e.m.keys = c.m.keys
<1>1. r \in Records /\ r.type = "account" /\ r.type # "key" /\ r.type # "child"
  BY RecordTypes DEF Records
<1> DEFINE e == store_new_record(c, r, s)
<1>2. /\ InCall(e, I, S) /\ SameMaps(c.m, e.m, {"next", r.type})
      /\ r.type = "key" => e.m.keys = Put(c.m.keys, {r.key}, [record |-> r, index |-> c.m.next])
  BY <1>1, NewRecord, Zenon
<1> HIDE DEF e
<1>3. e.m.keys = c.m.keys
  BY <1>1, <1>2 DEF SameMaps
<1> QED
  BY <1>2, <1>3 DEF e

\* store_key, of a key that a password opens.
LEMMA StoreKey ==
    ASSUME NEW c, NEW I, NEW S, InCall(c, I, S), Ready, NEW r \in KeyRecords, r.private \in Passwords, Opened(r)
    PROVE  InCall(store_key(c, r), I, S)
<1> DEFINE e == store_key(c, r)
<1>0. r.type = "key" /\ r \in Records
  BY RecordTypes DEF Records
<1>1. CASE r.key \notin DOMAIN c.m.keys
  <2>1. e = store_new_record(c, r, TRUE)
    BY <1>1 DEF store_key, HasKey
  <2> HIDE DEF e
  <2>2. InCall(e, I, S)
    BY <1>1, <2>1, NewKeyRecord
  <2> QED
    BY <2>2 DEF e
<1>2. CASE r.key \in DOMAIN c.m.keys
  <2> DEFINE mine == r.private # NoPassword /\ HasAccount(c.m, r.account)
             a == c.m.by_address[r.account]
             q == [AccountOf(c.m, r.account) EXCEPT !.mine = TRUE]
             marked == IF mine THEN store_record(c, a, q, FALSE) ELSE c
  <2>1. e = store_record(marked, c.m.keys[r.key].index, r, TRUE)
    BY <1>2 DEF store_key, HasKey
  <2>2. InCall(marked, I, S) /\ marked.m.keys = c.m.keys
    <3>1. CASE ~mine
      BY <3>1
    <3>2. CASE mine
      <4>1. r.account \in DOMAIN c.m.by_address
        BY <3>2 DEF HasAccount
      <4>2. a \in Of(c.file, "account") /\ c.m.accounts[a] = c.file[a] /\ c.file[a] \in AccountRecords
        BY <4>1, AccountAt
      <4>3. AccountOf(c.m, r.account) = c.file[a]
        BY <4>2 DEF AccountOf
      <4>4. /\ q \in AccountRecords /\ q.owner = c.file[a].owner /\ q.seq = c.file[a].seq
            /\ LostBy(c.file[a], q) = {}
        BY <4>2, <4>3, AccountUpdates
      <4> DEFINE d == store_record(c, a, q, FALSE)
      <4>6. marked = d
        BY <3>2
      <4> HIDE DEF a, q, mine, marked
      <4>5. c.file[a].seq <= q.seq
        BY <4>2, <4>4, RecordTypes, MaxDbCallsAssumption
      <4>7. InCall(d, I, S) /\ SameMaps(c.m, d.m, {"account"})
        BY <4>2, <4>4, <4>5, OldAccountRecord
      <4> HIDE DEF d
      <4>9. d.m.keys = c.m.keys
        BY <4>7 DEF SameMaps
      <4> QED
        BY <4>6, <4>7, <4>9
    <3> QED
      BY <3>1, <3>2
  <2> HIDE DEF e, marked
  <2>3. e = store_record(marked, marked.m.keys[r.key].index, r, TRUE)
    BY <2>1, <2>2
  <2>4. InCall(e, I, S)
    BY <1>2, <2>2, <2>3, OldKey
  <2> QED
    BY <2>4 DEF e
<1> QED
  BY <1>1, <1>2

\* The records that add_account makes.
LEMMA AccountRecordIs ==
    ASSUME NEW n \in Names, NEW owner \in Accounts, NEW actives \in SUBSET Keys, NEW mine \in BOOLEAN
    PROVE  LET r == AccountRecord(n, owner, actives, mine)
           IN  r \in AccountRecords /\ r \in Records /\ r.type = "account"
  BY MaxDbCallsAssumption DEF AccountRecord, AccountRecords, Records

(* The second half of add_account: the record of the owner key.            *)
LEMMA OwnerKey ==
    ASSUME NEW c, NEW I, NEW S, InCall(c, I, S), Ready, NEW k \in Keys
    PROVE  /\ k \in DOMAIN c.m.keys =>
                InCall(store_record(c, c.m.keys[k].index, [c.m.keys[k].record EXCEPT !.account = k], TRUE), I, S)
           /\ k \notin DOMAIN c.m.keys =>
                LET e == store_new_record(c, KeyRecord(k, k, NoPassword), TRUE)
                IN  InCall(e, I, S) /\ DOMAIN e.m.keys = DOMAIN c.m.keys \cup {k}
<1>1. ASSUME k \in DOMAIN c.m.keys
      PROVE  InCall(store_record(c, c.m.keys[k].index, [c.m.keys[k].record EXCEPT !.account = k], TRUE), I, S)
  <2> DEFINE old == c.m.keys[k].record
             r == [old EXCEPT !.account = k]
  <2>1. old \in KeyRecords /\ old.key = k
    BY <1>1, KeyAt
  <2>2. r \in KeyRecords /\ r.key = k /\ r.private = old.private
    BY <2>1, KeyUpdates
  <2>3. r.private = c.m.keys[k].record.private
    BY <2>2
  <2> HIDE DEF r
  <2>4. InCall(store_record(c, c.m.keys[r.key].index, r, TRUE), I, S)
    BY <1>1, <2>2, <2>3, OldKey
  <2> QED
    BY <2>2, <2>4 DEF r
<1>2. ASSUME k \notin DOMAIN c.m.keys
      PROVE  LET e == store_new_record(c, KeyRecord(k, k, NoPassword), TRUE)
             IN  InCall(e, I, S) /\ DOMAIN e.m.keys = DOMAIN c.m.keys \cup {k}
  <2> DEFINE r == KeyRecord(k, k, NoPassword)
             e == store_new_record(c, r, TRUE)
  <2>1. r \in KeyRecords /\ r.key = k /\ r.private = NoPassword
    BY KeyRecordIs
  <2>2. r.type = "key" /\ r \in Records /\ Opened(r)
    BY <2>1, RecordTypes DEF Records, Opened
  <2> HIDE DEF r
  <2>3. InCall(e, I, S) /\ e.m.keys = Put(c.m.keys, {r.key}, [record |-> r, index |-> c.m.next])
    BY <1>2, <2>1, <2>2, NewKeyRecord
  <2>4. DOMAIN e.m.keys = DOMAIN c.m.keys \cup {k}
    BY <2>1, <2>3 DEF Put
  <2> QED
    BY <2>3, <2>4 DEF r
<1> QED
  BY <1>1, <1>2

\* add_account, of a local and of a registered account.
LEMMA AddLocal ==
    ASSUME NEW c, NEW I, NEW S, InCall(c, I, S), Ready, NEW n \in Names, NEW k \in Accounts
    PROVE  InCall(add_local_account(c, n, k), I, S)
<1> DEFINE mine == has_private_key(c.m, k)
           r == AccountRecord(n, k, {k}, mine)
           stored == store_new_record(c, r, TRUE)
<1>1. mine \in BOOLEAN /\ k \in Keys /\ {k} \in SUBSET Keys
  BY AccountsAreKeys DEF has_private_key
<1>2. r \in AccountRecords /\ r \in Records /\ r.type = "account"
  <2> HIDE DEF mine
  <2> QED
    BY <1>1, AccountRecordIs
<1>3. add_local_account(c, n, k) =
        IF k \in DOMAIN c.m.keys
        THEN store_record(stored, c.m.keys[k].index, [c.m.keys[k].record EXCEPT !.account = k], TRUE)
        ELSE store_new_record(stored, KeyRecord(k, k, NoPassword), TRUE)
  BY DEF add_local_account, HasKey
<1> HIDE DEF r
<1>5. InCall(stored, I, S) /\ stored.m.keys = c.m.keys
  BY <1>2, NewAccountRecord
<1> HIDE DEF stored
<1>6. stored.m.keys = c.m.keys
  BY <1>5
<1>8. CASE k \in DOMAIN c.m.keys
  <2>1. InCall(store_record(stored, stored.m.keys[k].index, [stored.m.keys[k].record EXCEPT !.account = k], TRUE), I, S)
    BY <1>1, <1>5, <1>6, <1>8, OwnerKey
  <2> QED
    BY <1>3, <1>6, <1>8, <2>1
<1>9. CASE k \notin DOMAIN c.m.keys
  <2>1. InCall(store_new_record(stored, KeyRecord(k, k, NoPassword), TRUE), I, S)
    BY <1>1, <1>5, <1>6, <1>9, OwnerKey
  <2> QED
    BY <1>3, <1>9, <2>1
<1> QED
  BY <1>8, <1>9

LEMMA AddRegistered ==
    ASSUME NEW c, NEW I, NEW S, InCall(c, I, S), Ready, NEW n \in Registered
    PROVE  InCall(add_registered_account(c, n), I, S)
<1> DEFINE k == owner_key[n]
           x == active_key[n]
           mine == has_private_key(c.m, k)
           r == AccountRecord(n, k, {x}, mine)
           stored == store_new_record(c, r, FALSE)
           owned == store_new_record(stored, KeyRecord(k, k, NoPassword), TRUE)
           q == KeyRecord(x, k, NoPassword)
<1>0. k \in Accounts /\ k \in Keys /\ x \in Keys /\ {x} \in SUBSET Keys /\ n \in Names
  BY RegisteredKeys
<1>1. mine \in BOOLEAN
  BY DEF has_private_key
<1>2. r \in AccountRecords /\ r \in Records /\ r.type = "account"
  <2> HIDE DEF mine, k, x
  <2> QED
    BY <1>0, <1>1, AccountRecordIs
<1>3. add_registered_account(c, n) =
        IF k \in DOMAIN c.m.keys
        THEN store_record(stored, c.m.keys[k].index, [c.m.keys[k].record EXCEPT !.account = k], TRUE)
        ELSE IF x = k THEN owned
        ELSE IF x \in DOMAIN c.m.keys THEN new_wallet_record_index(owned)
        ELSE store_new_record(owned, q, TRUE)
  BY DEF add_registered_account, HasKey, AddThrows
<1> HIDE DEF r, k, x
<1>6. InCall(stored, I, S) /\ stored.m.keys = c.m.keys
  BY <1>2, NewAccountRecord
<1> HIDE DEF stored
<1>7. stored.m.keys = c.m.keys
  BY <1>6
<1>8. CASE k \in DOMAIN c.m.keys
  <2>1. InCall(store_record(stored, stored.m.keys[k].index, [stored.m.keys[k].record EXCEPT !.account = k], TRUE), I, S)
    BY <1>0, <1>6, <1>7, <1>8, OwnerKey
  <2> QED
    BY <1>3, <1>7, <1>8, <2>1
<1>9. CASE k \notin DOMAIN c.m.keys
  <2>1. InCall(owned, I, S) /\ DOMAIN owned.m.keys = DOMAIN c.m.keys \cup {k}
    BY <1>0, <1>6, <1>7, <1>9, OwnerKey
  <2> HIDE DEF owned
  <2>0. CASE x = k
    BY <1>3, <1>9, <2>0, <2>1
  <2>2. CASE x # k /\ x \in DOMAIN c.m.keys
    <3>1. InCall(new_wallet_record_index(owned), I, S)
      BY <2>1, NewIndex
    <3> QED
      BY <1>3, <1>9, <2>2, <3>1
  <2>3. CASE x # k /\ x \notin DOMAIN c.m.keys
    <3>1. q \in KeyRecords /\ q.key = x /\ q.private = NoPassword
      BY <1>0, KeyRecordIs
    <3> HIDE DEF q
    <3>2. q.type = "key" /\ q \in Records /\ Opened(q)
      BY <3>1, RecordTypes DEF Records, Opened
    <3>3. q.key \notin DOMAIN owned.m.keys
      BY <2>1, <2>3, <3>1
    <3>4. InCall(store_new_record(owned, q, TRUE), I, S)
      BY <2>1, <3>1, <3>2, <3>3, NewKeyRecord
    <3> QED
      BY <1>3, <1>9, <2>3, <3>4
  <2> QED
    BY <2>0, <2>2, <2>3
<1> QED
  BY <1>8, <1>9

\* cache_account: the record on the chain takes names and addresses away.
LEMMA RefreshedInCall ==
    ASSUME NEW c, NEW I, NEW S, InCall(c, I, S), Ready, on_chain \subseteq Registered,
           NEW i \in DOMAIN c.m.accounts, NEW n,
           Lost(c.m.accounts, Refreshed(c, i, n).m.accounts) \subseteq S
    PROVE  InCall(Refreshed(c, i, n), I, S) /\ Refreshed(c, i, n).m.keys = c.m.keys
<1> DEFINE old == c.m.accounts[i]
           r == IF n \in on_chain THEN [old EXCEPT !.name = n, !.actives = {active_key[n]}] ELSE old
           e == store_record(c, i, r, TRUE)
<1>1. i \in Of(c.file, "account") /\ old = c.file[i] /\ old \in AccountRecords
  BY AccountAt
<1>2. r \in AccountRecords /\ r.owner = old.owner /\ r.seq = old.seq
  <2>1. CASE n \in on_chain
    <3>1. n \in Names /\ {active_key[n]} \in SUBSET Keys
      BY <2>1, RegisteredKeys
    <3> DEFINE x == {active_key[n]}
               q == [old EXCEPT !.name = n, !.actives = x]
    <3>2. r = q /\ x \in SUBSET Keys
      BY <2>1, <3>1
    <3> HIDE DEF old, x, r
    <3>3. q \in AccountRecords /\ q.owner = old.owner /\ q.seq = old.seq
      BY <1>1, <3>1, <3>2 DEF AccountRecords
    <3> QED
      BY <3>2, <3>3
  <2>2. CASE n \notin on_chain
    BY <1>1, <2>2
  <2> QED
    BY <2>1, <2>2
<1>3. Refreshed(c, i, n) = e
  BY DEF Refreshed
<1>4. e.m = load_generic_record(c.m, i, r) /\ Maps(c.m)
  BY CallFacts DEF store_record, Write, InCall
<1> HIDE DEF r, old, e
<1>5. r.type = "account"
  BY <1>2, RecordTypes
<1>6. e.m.accounts = Put(c.m.accounts, {i}, r)
  <2>1. e.m = [c.m EXCEPT !.accounts = Put(c.m.accounts, {i}, r), !.by_address = Put(c.m.by_address, Addresses(r), i),
                          !.by_name = Put(c.m.by_name, {r.name}, i)]
    BY <1>4, <1>5 DEF load_generic_record, Addresses
  <2> QED
    BY <1>4, <2>1 DEF Maps, Fields
<1>7. i \in DOMAIN e.m.accounts /\ e.m.accounts[i] = r
  BY <1>6 DEF Put
<1>8. LostBy(old, r) \subseteq S
  <2>1. LostBy(c.m.accounts[i], e.m.accounts[i]) \subseteq Lost(c.m.accounts, e.m.accounts)
    BY <1>7 DEF Lost
  <2> QED
    BY <1>3, <1>7, <2>1 DEF old
<1>9. old.seq <= r.seq
  BY <1>1, <1>2, RecordTypes, MaxDbCallsAssumption
<1>10. InCall(e, I, S) /\ SameMaps(c.m, e.m, {"account"})
  <2>1. /\ LostBy(c.file[i], r) \subseteq S /\ r.owner = c.file[i].owner /\ c.file[i].seq <= r.seq
        /\ i \in Of(c.file, "account")
    BY <1>1, <1>2, <1>8, <1>9
  <2>2. LET d == store_record(c, i, r, TRUE)
        IN  InCall(d, I, S) /\ SameMaps(c.m, d.m, {"account"})
    BY <1>2, <2>1, OldAccountRecord
  <2> QED
    BY <2>2 DEF e
<1>11. e.m.keys = c.m.keys
  BY <1>10 DEF SameMaps
<1> QED
  BY <1>3, <1>10, <1>11

\* The calls that add a contact and import a key.
LEMMA AddContactInCall ==
    ASSUME NEW c, NEW I, NEW S, InCall(c, I, S), Ready, on_chain \subseteq Registered,
           NEW n \in Names, NEW k \in Accounts,
           Known(c.m, n, k) => Lost(c.m.accounts, AddContact(c, n, k).m.accounts) \subseteq S
    PROVE  /\ InCall(AddContact(c, n, k), I, S)
           /\ Known(c.m, n, k) => AddContact(c, n, k).m.keys = c.m.keys
<1>1. CASE Known(c.m, n, k)
  <2> DEFINE i == Place(c.m, n, k)
  <2>1. i \in DOMAIN c.m.accounts
    BY <1>1, AccountAt DEF Known, Place, HasAccount
  <2>2. AddContact(c, n, k) = Refreshed(c, i, n)
    BY <1>1 DEF AddContact
  <2> HIDE DEF i
  <2> QED
    BY <1>1, <2>1, <2>2, RefreshedInCall
<1>2. CASE ~Known(c.m, n, k)
  <2>1. CASE n \in on_chain
    BY <1>2, <2>1, AddRegistered DEF AddContact
  <2>2. CASE n \notin on_chain
    BY <1>2, <2>2, AddLocal DEF AddContact
  <2> QED
    BY <1>2, <2>1, <2>2
<1> QED
  BY <1>1, <1>2

LEMMA SetPrivateInCall ==
    ASSUME NEW c, NEW I, NEW S, InCall(c, I, S), Ready, NEW k \in DOMAIN c.m.keys,
           wallet_password \in Passwords, k \in mistaken' \/ wallet_password = mem.master
    PROVE  InCall(SetPrivate(c, k), I, S)
<1> DEFINE r == [c.m.keys[k].record EXCEPT !.private = wallet_password]
<1>1. c.m.keys[k].record \in KeyRecords /\ c.m.keys[k].record.key = k
  BY KeyAt
<1>2. r \in KeyRecords /\ r.private = wallet_password /\ r.key = k
  BY <1>1, KeyUpdates
<1> HIDE DEF r
<1>3. Opened(r)
  BY <1>2 DEF Opened
<1>4. InCall(store_key(c, r), I, S)
  BY <1>2, <1>3, StoreKey
<1> QED
  BY <1>4 DEF SetPrivate, r

\* new_private_key stores the counter before the key, and accounts for it.
LEMMA NewPrivateKey ==
    ASSUME NEW c, NEW I, NEW S, InCall(c, I, S), Ready, NEW account \in Keys, wallet_password \in Passwords,
           wallet_password = mem.master, c.m.child.value \in 1 .. MaxDbCalls, c.m.child.value <= db_calls + 1
    PROVE  InCall(new_private_key(c, account), I \cup {Child(c.m.child.value)}, S)
<1> DEFINE v == c.m.child.value
           r == [type |-> "child", value |-> v + 1]
           counted == IF c.m.child.index = 0 THEN store_new_record(c, r, TRUE)
                      ELSE store_record(c, c.m.child.index, r, TRUE)
           J == I \cup {Child(v)}
           q == KeyRecord(Child(v), account, wallet_password)
           e == store_key(counted, q)
<1>1. new_private_key(c, account) = e
  BY DEF new_private_key
<1>2. Child(v) \in Keys
  BY DEF Keys, Accounts, Generated
<1>3. q \in KeyRecords /\ q.private = wallet_password
  BY <1>2, KeyRecordIs
<1>4. InCall(counted, J, S)
  <2>1. CASE c.m.child.index = 0
    <3>0. v \in Nat
      BY MaxDbCallsAssumption
    <3>1. r.type = "child" /\ r \in Records /\ r = [type |-> "child", value |-> c.m.child.value + 1]
      BY <3>0 DEF Records, ChildRecords
    <3>2. counted = store_new_record(c, r, TRUE) /\ J = I \cup {Child(c.m.child.value)}
      BY <2>1
    <3> HIDE DEF counted, r, J, v
    <3> QED
      BY <2>1, <3>1, <3>2, NewRecord
  <2>2. CASE c.m.child.index # 0
    BY <2>2, OldChild
  <2> QED
    BY <2>1, <2>2
<1> HIDE DEF counted, q, J
<1>5. Opened(q)
  BY <1>3 DEF Opened
<1>6. InCall(e, J, S)
  BY <1>3, <1>4, <1>5, StoreKey
<1> QED
  BY <1>1, <1>6 DEF J

\* The same for the key of an account, if the address leads to the account.
LEMMA NewAccountKey ==
    ASSUME NEW c, NEW I, NEW S, InCall(c, I, S), Ready, NEW k \in DOMAIN c.m.by_address, k \in Accounts,
           wallet_password \in Passwords, wallet_password = mem.master,
           AccountOf(c.m, k).owner = k \/ k \in removed \cup inexact, AccountOf(c.m, k).seq < MaxDbCalls
    PROVE  InCall(new_account_key(c, k), I \cup {NextOf(c.m, k)}, S)
<1> DEFINE i == c.m.by_address[k]
           r == c.file[i]
           q == [r EXCEPT !.seq = r.seq + 1]
           counted == store_record(c, i, q, TRUE)
           key == KeyRecord(NextOf(c.m, k), k, wallet_password)
           J == I \cup {NextOf(c.m, k)}
<1>1. i \in Of(c.file, "account") /\ c.m.accounts[i] = r /\ r \in AccountRecords
  BY AccountAt
<1>2. AccountOf(c.m, k) = r /\ NextOf(c.m, k) = Derived(k, r.seq + 1)
  BY <1>1 DEF AccountOf, NextOf
<1>3. (r.owner = k \/ k \in removed \cup inexact) /\ r.seq < MaxDbCalls
  BY <1>2
<1>4. r.seq \in 0 .. MaxDbCalls
  BY <1>1, RecordTypes
<1>5. q \in AccountRecords /\ q.owner = r.owner /\ q.seq = r.seq + 1 /\ LostBy(r, q) = {}
  BY <1>1, <1>3, AccountUpdates
<1>6. new_account_key(c, k) = store_key(counted, key)
  BY <1>2 DEF new_account_key
<1>7. NextOf(c.m, k) \in Keys /\ k \in Keys
  <2>1. r.seq + 1 \in 1 .. MaxDbCalls
    BY <1>3, <1>4, MaxDbCallsAssumption
  <2> HIDE DEF r
  <2> QED
    BY <1>2, <2>1, AccountsAreKeys DEF Keys
<1>8. key \in KeyRecords /\ key.private = wallet_password
  BY <1>7, KeyRecordIs
<1>9. \E a \in (removed \cup inexact) \cup {q.owner} : J = I \cup {Derived(a, q.seq)}
  <2>1. J = I \cup {Derived(k, q.seq)} /\ k \in (removed \cup inexact) \cup {q.owner}
    BY <1>2, <1>3, <1>5
  <2> HIDE DEF J, q
  <2> QED
    BY <2>1
<1>10. r = c.file[i]
  OBVIOUS
<1> HIDE DEF i, r, q, key, J
<1>11. c.file[i].seq <= q.seq /\ LostBy(c.file[i], q) \subseteq S
  BY <1>4, <1>5, <1>10, MaxDbCallsAssumption
<1>12. InCall(counted, J, S)
  BY <1>1, <1>5, <1>9, <1>10, <1>11, OldAccountRecord
<1> HIDE DEF counted
<1>13. Opened(key)
  BY <1>8 DEF Opened
<1>14. InCall(store_key(counted, key), J, S)
  BY <1>8, <1>12, <1>13, StoreKey
<1> QED
  BY <1>6, <1>14 DEF J

-----------------------------------------------------------------------------
(* Calls that come to their end, and crashes.                              *)

\* A file stays safe when more is excused, or a call is counted.
LEMMA SafeLater ==
    ASSUME NEW f, NEW D, NEW X, NEW I, NEW P, NEW E, NEW Y, NEW Q, NEW n \in Nat,
           Safe(f, D, X, I, P, n), D \subseteq E, X \subseteq Y, P \subseteq Q
    PROVE  Safe(f, E, Y, I, Q, n + 1) /\ Safe(f, E, Y, I, Q, n)
<1>1. ChildCounts(f, I, n + 1)
  <2>1. \A i \in Of(f, "child") : f[i].value \in Nat
    BY FileTypes, RecordTypes DEF Safe
  <2> QED
    BY <2>1 DEF Safe, ChildCounts
<1>2. AccountCounts(f, E, I)
  BY DEF Safe, AccountCounts
<1>3. Readable(f, Y, {f[-1].password} \cup Q)
  BY DEF Safe, Readable
<1> QED
  BY <1>1, <1>2, <1>3 DEF Safe

LEMMA MirrorsMore ==
    ASSUME NEW m, NEW f, NEW R, NEW S, NEW Q, NEW T, Mirrors(m, f, R, S), R \subseteq Q, S \subseteq T
    PROVE  Mirrors(m, f, Q, T)
<1>1. MirrorKeys(m.keys, f, Q)
  BY DEF Mirrors, MirrorKeys
<1>2. MirrorAddresses(m.by_address, f, T)
  BY DEF Mirrors, MirrorAccounts, MirrorAddresses
<1>3. MirrorNames(m.by_name, f, T)
  BY DEF Mirrors, MirrorAccounts, MirrorNames
<1> QED
  BY <1>1, <1>2, <1>3 DEF Mirrors, MirrorAccounts

\* What accounts share is counted among what the indexes may be wrong about.
LEMMA SharedDistinct ==
    ASSUME NEW f, NEW S, Shared(f) \subseteq S
    PROVE  Distinct(f, S)
<1> SUFFICES ASSUME NEW i \in Of(f, "account"), NEW j \in Of(f, "account"), i # j
             PROVE  Entries(f[i]) \cap Entries(f[j]) \subseteq S
  BY DEF Distinct, Entries
<1> DEFINE x == <<i, j>>
           pairs == {y \in AccountsIn(f) \X AccountsIn(f) : y[1] # y[2]}
<1>1. x \in pairs /\ x[1] = i /\ x[2] = j
  BY DEF AccountsIn, Of
<1>2. Entries(f[x[1]]) \cap Entries(f[x[2]]) \in {Entries(f[y[1]]) \cap Entries(f[y[2]]) : y \in pairs}
  BY <1>1
<1> QED
  BY <1>1, <1>2 DEF Shared

\* A step that is counted
Counted ==
  /\ db_calls < MaxDbCalls /\ db_calls' = db_calls + 1 /\ UNCHANGED on_chain
  /\ inexact \cup Shared(file') \subseteq inexact' /\ mistaken \subseteq mistaken' /\ mistaken' \subseteq Keys

\* What becomes of the keys in a step
Grows ==
  /\ mem.open /\ mem'.open
  /\ DOMAIN mem.keys \subseteq DOMAIN mem'.keys /\ Private(mem.keys) \subseteq Private(mem'.keys)
Stops == mem.open /\ ~mem'.open /\ Keep(file', Private(mem.keys))
Removes ==
  /\ mem.open /\ mem'.open
  /\ DOMAIN mem'.keys \subseteq DOMAIN mem.keys /\ \A k \in DOMAIN mem'.keys : mem'.keys[k] = mem.keys[k]
  /\ \E owner \in Keys : owner \notin Private(mem.keys) /\ owner \notin DOMAIN mem'.keys

\* A call begins in order.
LEMMA Begins ==
    ASSUME StateInv, mem.open, Counted, NEW S, inexact \subseteq S
    PROVE  /\ CallSafe(NewCall, issued, S) /\ (Leads(mem) => InCall(NewCall, issued, S)) /\ Ready
           /\ NewCall.m = mem /\ NewCall.file = file /\ NewCall.during = left /\ NewCall.after = left
<1>1. db_calls \in Nat /\ file \in left /\ Mirrors(mem, file, removed, inexact)
  BY MaxDbCallsAssumption DEF StateInv
<1>2. \A f \in left : CallFile(f, issued) /\ Keep(f, Private(mem.keys))
  <2>1. \A f \in left : Safe(f, removed \cup inexact, removed \cup mistaken, issued, replaced, db_calls)
                        /\ Keep(f, Private(mem.keys))
    BY DEF StateInv
  <2>2. removed \cup mistaken \subseteq removed \cup mistaken'
    BY DEF Counted
  <2> QED
    BY <1>1, <2>1, <2>2, SafeLater DEF CallFile
<1>3. NewCall.m = mem /\ NewCall.file = file /\ NewCall.during = left /\ NewCall.after = left
  BY DEF NewCall
<1>4. Mirrors(mem, file, removed, S)
  BY <1>1, MirrorsMore
<1> QED
  BY <1>1, <1>2, <1>3, <1>4 DEF CallSafe, InCall, Ready

\* The state after a call, and after a crash.
LEMMA Ends ==
    ASSUME NEW c, Finishes(c), StateInv, Counted, Mirrors(c.m, c.file, removed', inexact'),
           wallet_password' \in Passwords \cup {NoPassword}, replaced' \subseteq Passwords,
           c.file \in c.after,
           \A f \in c.after :
             /\ Safe(f, removed' \cup inexact', removed' \cup mistaken', issued', replaced', db_calls + 1)
             /\ Keep(f, Private(c.m.keys)),
           issued' \subseteq Issuable, IssuedOnce'
    PROVE  StateInv' /\ mem'.open
<1>1. mem' = c.m /\ file' = c.file /\ left' = c.after
  BY DEF Finishes
<1>2. c.m.open = TRUE
  BY DEF Mirrors, Maps
<1>3. db_calls' = db_calls + 1 /\ db_calls + 1 \in 0 .. MaxDbCalls
  BY MaxDbCallsAssumption DEF Counted, StateInv
<1>4. Distinct(file', inexact') /\ mistaken' \subseteq Keys /\ on_chain' \subseteq Registered
  BY SharedDistinct DEF Counted, StateInv
<1> QED
  BY <1>1, <1>2, <1>3, <1>4 DEF StateInv

LEMMA Breaks ==
    ASSUME NEW c, Crashes(c), StateInv, Counted, mem.open,
           \A f \in c.during : Keep(f, Private(mem.keys)),
           Safe(file', removed' \cup inexact', removed' \cup mistaken', issued', replaced', db_calls + 1),
           replaced' \subseteq Passwords, issued' \subseteq Issuable, IssuedOnce'
    PROVE  StateInv' /\ Stops
<1>1. mem' = Closed /\ file' \in c.during /\ left' = {file'} /\ wallet_password' = NoPassword
  BY DEF Crashes
<1>2. Closed.open = FALSE
  BY DEF Closed
<1>3. db_calls' = db_calls + 1 /\ db_calls + 1 \in 0 .. MaxDbCalls
  BY MaxDbCallsAssumption DEF Counted, StateInv
<1>4. Distinct(file', inexact') /\ mistaken' \subseteq Keys /\ on_chain' \subseteq Registered
  BY SharedDistinct DEF Counted, StateInv
<1> QED
  BY <1>1, <1>2, <1>3, <1>4 DEF StateInv, Stops

\* What was returned twice stays excused.
LEMMA OnceLater ==
    ASSUME StateInv, inexact \subseteq inexact', removed \subseteq removed', UNCHANGED <<issued, reused>>
    PROVE  IssuedOnce' /\ issued' \subseteq Issuable
  BY DEF StateInv, IssuedOnce, NotReissued

LEMMA CallFileLater ==
    ASSUME StateInv, Counted, removed \subseteq removed', replaced \subseteq replaced', NEW f, NEW I, CallFile(f, I)
    PROVE  Safe(f, removed' \cup inexact', removed' \cup mistaken', I, replaced', db_calls + 1)
<1>1. db_calls + 1 \in Nat /\ removed \cup inexact \subseteq removed' \cup inexact'
      /\ removed \cup mistaken' \subseteq removed' \cup mistaken'
  BY MaxDbCallsAssumption DEF Counted, StateInv
<1> QED
  BY <1>1, SafeLater DEF CallFile

\* A call in order ends in order, and so does one that crashes.
LEMMA CallEnds ==
    ASSUME StateInv, mem.open, Counted, NEW c, NEW I, NEW S, CallSafe(c, I, S), Finishes(c), S \subseteq inexact',
           UNCHANGED <<wallet_password, removed, replaced>>, issued' = I, I \subseteq Issuable, IssuedOnce'
    PROVE  StateInv' /\ Grows
<1>1. /\ Mirrors(c.m, c.file, removed, S) /\ c.file \in c.after
      /\ \A f \in c.after : CallFile(f, issued') /\ Keep(f, Private(c.m.keys))
      /\ DOMAIN mem.keys \subseteq DOMAIN c.m.keys /\ Private(mem.keys) \subseteq Private(c.m.keys)
  BY DEF CallSafe
<1>2. Mirrors(c.m, c.file, removed', inexact')
  BY <1>1, MirrorsMore
<1>3. \A f \in c.after : Safe(f, removed' \cup inexact', removed' \cup mistaken', issued', replaced', db_calls + 1)
  BY <1>1, CallFileLater
<1>4. wallet_password' \in Passwords \cup {NoPassword} /\ replaced' \subseteq Passwords
  BY DEF StateInv
<1>5. StateInv' /\ mem'.open
  BY <1>1, <1>2, <1>3, <1>4, Ends
<1> QED
  BY <1>1, <1>5 DEF Grows, Finishes

LEMMA CallBreaks ==
    ASSUME StateInv, mem.open, Counted, NEW c, NEW I, NEW S, CallSafe(c, I, S), Crashes(c),
           UNCHANGED <<removed, replaced, issued, reused>>
    PROVE  StateInv' /\ Stops
<1>1. \A f \in c.during : CallFile(f, issued) /\ Keep(f, Private(mem.keys))
  BY DEF CallSafe
<1>2. file' \in c.during
  BY DEF Crashes
<1>3. Safe(file', removed' \cup inexact', removed' \cup mistaken', issued', replaced', db_calls + 1)
  BY <1>1, <1>2, CallFileLater
<1>4. IssuedOnce' /\ issued' \subseteq Issuable /\ replaced' \subseteq Passwords
  BY OnceLater DEF Counted, StateInv
<1> QED
  BY <1>1, <1>3, <1>4, Breaks

LEMMA DoneStep ==
    ASSUME StateInv, mem.open, Counted, NEW c, NEW S, CallSafe(c, issued, S), Done(c),
           Finishes(c) => S \subseteq inexact', UNCHANGED <<removed, replaced>>
    PROVE  StateInv' /\ (Grows \/ Stops)
<1>1. CASE Finishes(c) /\ UNCHANGED <<wallet_password, issued, reused>>
  <2>1. IssuedOnce' /\ issued \subseteq Issuable
    BY <1>1, OnceLater DEF Counted
  <2> QED
    BY <1>1, <2>1, CallEnds
<1>2. CASE Crashes(c) /\ UNCHANGED <<issued, reused>>
  BY <1>2, CallBreaks
<1> QED
  BY <1>1, <1>2 DEF Done

\* A call that returns a key that is new, or belongs to an account that was
\* removed or shares its address.
LEMMA ReturnsStep ==
    ASSUME StateInv, mem.open, Counted, NEW k \in Issuable, NEW c, NEW S, CallSafe(c, issued \cup {k}, S),
           Returns(c, k), Finishes(c) => S \subseteq inexact', UNCHANGED <<removed, replaced>>,
           k \in issued => k \in {Derived(a, i) : a \in removed \cup inexact, i \in 1 .. MaxDbCalls}
    PROVE  StateInv' /\ (Grows \/ Stops)
<1>1. CASE Finishes(c) /\ Issue(k) /\ UNCHANGED wallet_password
  <2>1. IssuedOnce' /\ issued' = issued \cup {k} /\ issued \cup {k} \subseteq Issuable
    BY <1>1 DEF IssuedOnce, NotReissued, StateInv, Issue, Counted
  <2> QED
    BY <1>1, <2>1, CallEnds
<1>2. CASE Crashes(c) /\ UNCHANGED <<issued, reused>>
  BY <1>2, CallBreaks
<1> QED
  BY <1>1, <1>2 DEF Returns

-----------------------------------------------------------------------------
(* The calls.                                                              *)

\* The next child key has not been returned yet.
LEMMA NextChild ==
    ASSUME StateInv, mem.open, Counted
    PROVE  /\ mem.child.value \in 1 .. MaxDbCalls /\ mem.child.value <= db_calls + 1
           /\ Child(mem.child.value) \notin issued
<1> DEFINE ch == mem.child
           v == ch.value
<1>1. /\ Safe(file, removed \cup inexact, removed \cup mistaken, issued, replaced, db_calls)
      /\ MirrorChild(ch, file) /\ db_calls \in Nat
      /\ db_calls + 1 <= MaxDbCalls /\ MaxDbCalls \in Nat
  <2>1. db_calls \in Nat /\ db_calls + 1 <= MaxDbCalls /\ MaxDbCalls \in Nat
    BY MaxDbCallsAssumption DEF StateInv, Counted
  <2>2. MirrorChild(ch, file)
    BY DEF StateInv, Mirrors
  <2>3. Safe(file, removed \cup inexact, removed \cup mistaken, issued, replaced, db_calls)
    BY DEF StateInv
  <2> QED
    BY <2>1, <2>2, <2>3
<1>2. /\ Shape(file) /\ OneChild(file) /\ ChildCounts(file, issued, db_calls)
  BY <1>1 DEF Safe
<1> HIDE DEF ch
<1>3. v \in 1 .. MaxDbCalls /\ v <= db_calls + 1
  <2>1. CASE Of(file, "child") = {}
    <3>1. v = 1
      BY <1>1, <2>1 DEF MirrorChild
    <3> QED
      BY <1>1, <3>1
  <2>2. CASE Of(file, "child") # {}
    <3>1. ch.index \in Of(file, "child") /\ v = file[ch.index].value
      BY <1>1, <2>2 DEF MirrorChild
    <3>2. v \in Nat
      BY <1>2, <3>1, FileTypes, RecordTypes
    <3>3. v >= 1 /\ v <= db_calls + 1
      BY <1>2, <3>1 DEF ChildCounts
    <3> QED
      BY <1>1, <3>2, <3>3
  <2> QED
    BY <2>1, <2>2
<1>4. ASSUME Child(v) \in issued PROVE FALSE
  <2>1. PICK i \in Of(file, "child") : v < file[i].value
    BY <1>2, <1>3, <1>4 DEF ChildCounts
  <2>2. i = ch.index /\ v = file[i].value
    BY <1>1, <1>2, <2>1 DEF MirrorChild, OneChild
  <2> QED
    BY <1>3, <2>1, <2>2
<1> QED
  BY <1>3, <1>4 DEF ch

\* A call that generates the next key of the wallet.
LEMMA NextKey ==
    ASSUME StateInv, Counted, trusted, Leads(mem), NEW a \in Keys
    PROVE  LET k == Child(mem.child.value)
           IN  /\ InCall(new_private_key(NewCall, a), issued \cup {k}, inexact) /\ Ready
               /\ k \in Accounts /\ k \in Issuable /\ k \notin issued
<1> DEFINE new == NewCall
<1>1. mem.open /\ wallet_password = mem.master /\ wallet_password \in Passwords
  BY DEF trusted, unlocked, StateInv
<1>2. /\ mem.child.value \in 1 .. MaxDbCalls /\ mem.child.value <= db_calls + 1
      /\ Child(mem.child.value) \notin issued
  BY <1>1, NextChild
<1>3. InCall(new, issued, inexact) /\ Ready /\ new.m = mem
  BY <1>1, Begins
<1> HIDE DEF new
<1>4. InCall(new_private_key(new, a), issued \cup {Child(new.m.child.value)}, inexact)
  BY <1>1, <1>2, <1>3, NewPrivateKey
<1> QED
  BY <1>2, <1>3, <1>4 DEF Accounts, Generated, Issuable, new

LEMMA CreateAccount ==
    ASSUME StateInv, Counted, Leads(mem), UNCHANGED <<removed, replaced>>, NEW n \in Names, create_account(n)
    PROVE  StateInv' /\ (Grows \/ Stops)
<1> DEFINE k == Child(mem.child.value)
           c == new_private_key(NewCall, k)
           e == add_local_account(c, n, k)
<1>1. trusted /\ mem.open /\ IF HasAccount(mem, k) THEN Returns(c, k) ELSE Returns(e, k)
  BY DEF create_account, trusted, unlocked
<1>2. k \in Keys
  <2>1. mem.child.value \in 1 .. MaxDbCalls
    BY <1>1, NextChild
  <2> QED
    BY <2>1 DEF Keys, Accounts, Generated
<1>3. /\ InCall(c, issued \cup {k}, inexact) /\ Ready
      /\ k \in Accounts /\ k \in Issuable /\ k \notin issued
  BY <1>1, <1>2, NextKey
<1>4. inexact \subseteq inexact'
  BY DEF Counted
<1> HIDE DEF k, c
<1>5. CASE HasAccount(mem, k)
  <2>1. Returns(c, k) /\ CallSafe(c, issued \cup {k}, inexact)
    BY <1>1, <1>3, <1>5 DEF InCall
  <2> QED
    BY <1>1, <1>3, <1>4, <2>1, ReturnsStep
<1>6. CASE ~HasAccount(mem, k)
  <2>1. InCall(e, issued \cup {k}, inexact)
    BY <1>3, AddLocal
  <2>2. Returns(e, k) /\ CallSafe(e, issued \cup {k}, inexact)
    BY <1>1, <1>6, <2>1 DEF InCall
  <2> HIDE DEF e
  <2> QED
    BY <1>1, <1>3, <1>4, <2>2, ReturnsStep
<1> QED
  BY <1>5, <1>6

\* An address that is not shared leads to its account.
LEMMA AddressLeads ==
    ASSUME StateInv, mem.open, NEW a \in DOMAIN mem.accounts, NEW k, k \in Addresses(file[a]), k \notin inexact
    PROVE  k \in DOMAIN mem.by_address /\ mem.by_address[k] = a
<1>1. MirrorAccounts(mem.accounts, mem.by_address, mem.by_name, file, inexact) /\ Distinct(file, inexact)
  BY DEF StateInv, Mirrors
<1>2. a \in Of(file, "account") /\ k \in DOMAIN mem.by_address
  BY <1>1 DEF MirrorAccounts, MirrorAddresses
<1>3. mem.by_address[k] \in Of(file, "account") /\ k \in Addresses(file[mem.by_address[k]])
  BY <1>1, <1>2 DEF MirrorAccounts, MirrorAddresses
<1> QED
  BY <1>1, <1>2, <1>3 DEF Distinct

\* The next key of an account has not been returned yet, unless the account
\* had been removed or shares its address.
LEMMA GetNewAddress ==
    ASSUME StateInv, Counted, Leads(mem), UNCHANGED <<removed, replaced>>, NEW n, get_new_address(n)
    PROVE  StateInv' /\ (Grows \/ Stops)
<1> DEFINE k == Named(mem, n).owner
           a == mem.by_name[n]
           b == mem.by_address[k]
           r == mem.accounts[b]
           x == NextOf(mem, k)
           c == new_account_key(NewCall, k)
           e == new_private_key(NewCall, k)
           new == NewCall
<1>1. /\ trusted /\ mem.open /\ n \in DOMAIN mem.by_name /\ inexact \subseteq inexact'
      /\ wallet_password = mem.master /\ wallet_password \in Passwords
      /\ HasAccount(mem, k) => AccountOf(mem, k).seq < MaxDbCalls /\ Returns(c, x)
      /\ ~HasAccount(mem, k) => Returns(e, Child(mem.child.value))
  BY DEF get_new_address, is_receive_account, trusted, unlocked, StateInv, Counted
<1>2. InCall(new, issued, inexact) /\ Ready /\ new.m = mem /\ new.file = file
  BY <1>1, Begins
<1> HIDE DEF new
<1>3. /\ DOMAIN mem.accounts = Of(file, "account")
      /\ \A i \in DOMAIN mem.accounts : mem.accounts[i] = file[i] /\ file[i] \in AccountRecords
      /\ \A z \in DOMAIN mem.by_address : mem.by_address[z] \in DOMAIN mem.accounts
      /\ \A z \in DOMAIN mem.by_name : mem.by_name[z] \in DOMAIN mem.accounts
  BY <1>2, AccountAt
<1>4. a \in Of(file, "account") /\ mem.accounts[a] = file[a] /\ k = file[a].owner /\ k \in Accounts /\ k \in Keys
  BY <1>1, <1>3, RecordTypes, AccountsAreKeys DEF Named
<1>5. CASE ~HasAccount(mem, k)
  <2> DEFINE y == Child(mem.child.value)
  <2>1. InCall(e, issued \cup {y}, inexact) /\ y \in Issuable /\ y \notin issued
    BY <1>1, <1>4, NextKey
  <2>2. Returns(e, y)
    BY <1>1, <1>5
  <2> HIDE DEF y, e
  <2>3. /\ mem.open /\ y \in Issuable /\ CallSafe(e, issued \cup {y}, inexact) /\ Returns(e, y)
        /\ Finishes(e) => inexact \subseteq inexact'
        /\ y \in issued => y \in {Derived(z, i) : z \in removed \cup inexact, i \in 1 .. MaxDbCalls}
    BY <1>1, <2>1, <2>2 DEF InCall
  <2> QED
    BY <2>3, ReturnsStep
<1>6. CASE HasAccount(mem, k)
  <2>1. /\ k \in DOMAIN mem.by_address /\ b \in Of(file, "account") /\ r = file[b] /\ AccountOf(mem, k) = r
        /\ r \in AccountRecords
    BY <1>3, <1>6 DEF HasAccount, AccountOf
  <2>2. x = Derived(k, r.seq + 1)
    BY <2>1 DEF NextOf
  <2>3. r.seq + 1 \in 1 .. MaxDbCalls /\ r.seq \in Nat
    BY <1>1, <1>6, <2>1, RecordTypes, MaxDbCallsAssumption
  <2>4. x \in Issuable
    <3> HIDE DEF k, x, r
    <3> QED
      BY <1>4, <2>2, <2>3 DEF Issuable
  <2>5. b = a \/ k \in removed \cup inexact
    BY <1>1, <1>3, <1>4, AddressLeads DEF Addresses
  <2>6. x \in issued => x \in {Derived(z, i) : z \in removed \cup inexact, i \in 1 .. MaxDbCalls}
    <3>1. CASE k \in removed \cup inexact
      BY <2>2, <2>3, <3>1
    <3>2. ASSUME k \notin removed \cup inexact, x \in issued PROVE FALSE
      <4>1. AccountCounts(file, removed \cup inexact, issued) /\ Distinct(file, inexact)
        BY DEF StateInv, Safe
      <4> HIDE DEF k, r, x, a, b
      <4>2. PICK i \in Of(file, "account") : file[i].owner = k /\ r.seq + 1 <= file[i].seq
        BY <1>4, <2>2, <2>3, <3>2, <4>1 DEF AccountCounts
      <4>3. i = a
        <5>1. k \in Addresses(file[i]) /\ k \in Addresses(file[a])
          BY <1>4, <4>2 DEF Addresses
        <5> QED
          BY <1>4, <3>2, <4>1, <5>1 DEF Distinct
      <4>4. i = b
        BY <2>5, <3>2, <4>3
      <4> QED
        BY <2>1, <2>3, <4>2, <4>4
    <3> QED
      BY <3>1, <3>2
  <2>7. InCall(c, issued \cup {x}, inexact)
    <3>1. /\ AccountOf(new.m, k).owner = k \/ k \in removed \cup inexact
          /\ AccountOf(new.m, k).seq < MaxDbCalls /\ k \in DOMAIN new.m.by_address
      BY <1>1, <1>2, <1>4, <1>6, <2>1, <2>5
    <3> HIDE DEF k
    <3>2. InCall(new_account_key(new, k), issued \cup {NextOf(new.m, k)}, inexact)
      BY <1>1, <1>2, <1>4, <3>1, NewAccountKey
    <3> QED
      BY <1>2, <3>2 DEF new
  <2>8. Returns(c, x) /\ CallSafe(c, issued \cup {x}, inexact)
    BY <1>1, <1>6, <2>7 DEF InCall
  <2> HIDE DEF x, c, k, r, a, b
  <2> QED
    BY <1>1, <2>4, <2>6, <2>8, ReturnsStep
<1> QED
  BY <1>5, <1>6

LEMMA CloseWallet ==
    ASSUME StateInv, Counted, UNCHANGED <<removed, replaced>>, close_wallet
    PROVE  StateInv' /\ Stops
<1>1. CallSafe(NewCall, issued, inexact) /\ NewCall.during = left /\ file \in left
  BY Begins DEF close_wallet, StateInv
<1>2. Crashes(NewCall) /\ UNCHANGED <<removed, replaced, issued, reused>>
  BY <1>1 DEF close_wallet, Crashes
<1> QED
  BY <1>1, <1>2, CallBreaks DEF close_wallet

LEMMA Crash ==
    ASSUME StateInv, Counted, UNCHANGED <<removed, replaced>>, crash
    PROVE  StateInv' /\ Stops
<1>1. mem.open /\ Crashes(NewCall) /\ UNCHANGED <<issued, reused>>
  BY DEF crash
<1>2. CallSafe(NewCall, issued, inexact)
  BY <1>1, Begins
<1> QED
  BY <1>1, <1>2, CallBreaks

\* The password changes, and nothing else.
LEMMA PasswordStep ==
    ASSUME StateInv, Counted, mem.open, wallet_password' \in Passwords \cup {NoPassword},
           UNCHANGED <<file, left, mem, issued, reused, removed, replaced>>
    PROVE  StateInv' /\ Grows
<1> DEFINE c == NewCall
<1>1. CallSafe(c, issued, inexact) /\ c.m = mem /\ c.file = file /\ c.after = left
  BY Begins
<1> HIDE DEF c
<1>2. Finishes(c) /\ c.file \in c.after
  BY <1>1 DEF Finishes, StateInv
<1>3. Mirrors(c.m, c.file, removed', inexact')
  BY <1>1, MirrorsMore DEF CallSafe, Counted
<1>4. \A f \in c.after : /\ Safe(f, removed' \cup inexact', removed' \cup mistaken', issued', replaced', db_calls + 1)
                         /\ Keep(f, Private(c.m.keys))
  BY <1>1, CallFileLater DEF CallSafe
<1>5. IssuedOnce' /\ issued' \subseteq Issuable /\ replaced' \subseteq Passwords
  BY OnceLater DEF Counted, StateInv
<1>6. StateInv' /\ mem'.open
  BY <1>2, <1>3, <1>4, <1>5, Ends
<1> QED
  BY <1>6 DEF Grows

LEMMA LockAndUnlock ==
    ASSUME StateInv, Counted, lock_wallet \/ wrong_password,
           UNCHANGED <<file, left, mem, issued, reused, removed, replaced>>
    PROVE  StateInv' /\ Grows
<1>1. mem.open /\ wallet_password' \in Passwords \cup {NoPassword}
  BY DEF lock_wallet, wrong_password, unlock_wallet
<1> QED
  BY <1>1, PasswordStep

LEMMA StoreTransaction ==
    ASSUME StateInv, Counted, Leads(mem), UNCHANGED <<removed, replaced>>, store_transaction
    PROVE  StateInv' /\ (Grows \/ Stops)
<1> DEFINE r == [type |-> "transaction"]
           c == store_new_record(NewCall, r, FALSE)
<1>1. mem.open /\ Done(c) /\ inexact \subseteq inexact'
  BY DEF store_transaction, Counted
<1>2. r \in Records /\ r.type = "transaction"
  BY DEF Records, TransactionRecords
<1>3. InCall(NewCall, issued, inexact) /\ Ready
  BY <1>1, Begins
<1> HIDE DEF r
<1>4. InCall(c, issued, inexact)
  <2>1. FALSE \in BOOLEAN /\ r.type # "key" /\ r.type # "child"
    BY <1>2
  <2> QED
    BY <1>2, <1>3, <2>1, NewRecord, Zenon
<1> HIDE DEF c
<1> QED
  BY <1>1, <1>4, DoneStep DEF InCall

LEMMA AddContactAccount ==
    ASSUME StateInv, Counted, Leads(mem), UNCHANGED <<removed, replaced>>, NEW n \in Names, NEW k \in Accounts,
           add_contact_account(n, k), Lost(mem.accounts, mem'.accounts) \subseteq inexact'
    PROVE  StateInv' /\ (Grows \/ Stops)
<1> DEFINE new == NewCall
           c == AddContact(new, n, k)
           S == inexact \cup Lost(mem.accounts, c.m.accounts)
<1>1. mem.open /\ Done(c)
  BY DEF add_contact_account
<1>2. InCall(new, issued, S) /\ Ready /\ new.m = mem
  BY <1>1, Begins
<1>3. on_chain \subseteq Registered
  BY DEF StateInv
<1> HIDE DEF new
<1>4. Lost(new.m.accounts, c.m.accounts) \subseteq S
  BY <1>2
<1>5. Finishes(c) => S \subseteq inexact'
  BY DEF Finishes, Counted
<1> HIDE DEF S
<1>6. InCall(c, issued, S)
  BY <1>2, <1>3, <1>4, AddContactInCall
<1> HIDE DEF c
<1> QED
  BY <1>1, <1>5, <1>6, DoneStep DEF InCall

LEMMA ScanAccount ==
    ASSUME StateInv, Counted, Leads(mem), UNCHANGED <<removed, replaced>>, NEW n, scan_account(n),
           Lost(mem.accounts, mem'.accounts) \subseteq inexact'
    PROVE  StateInv' /\ (Grows \/ Stops)
<1> DEFINE new == NewCall
           i == mem.by_address[owner_key[n]]
           c == Refreshed(new, i, n)
           S == inexact \cup Lost(mem.accounts, c.m.accounts)
<1>1. mem.open /\ Done(c) /\ i \in DOMAIN mem.accounts
  BY DEF scan_account, HasAccount, Leads
<1>2. InCall(new, issued, S) /\ Ready /\ new.m = mem
  BY <1>1, Begins
<1>3. on_chain \subseteq Registered
  BY DEF StateInv
<1> HIDE DEF new, i
<1>4. Lost(new.m.accounts, c.m.accounts) \subseteq S /\ i \in DOMAIN new.m.accounts
  BY <1>1, <1>2
<1>5. Finishes(c) => S \subseteq inexact'
  BY DEF Finishes, Counted
<1> HIDE DEF S
<1>6. InCall(c, issued, S)
  BY <1>2, <1>3, <1>4, RefreshedInCall
<1> HIDE DEF c
<1> QED
  BY <1>1, <1>5, <1>6, DoneStep DEF InCall

\* A private key is stored with the right password, or is counted as one that was not.
LEMMA KeyOpens ==
    ASSUME StateInv, unlocked, NEW k, StoredNow(k)
    PROVE  mem.open /\ wallet_password \in Passwords /\ (k \in mistaken' \/ wallet_password = mem.master)
  BY DEF unlocked, StoredNow, StateInv

LEMMA StoreForeignKey ==
    ASSUME StateInv, Counted, Leads(mem), UNCHANGED <<removed, replaced>>, NEW k \in Imports, NEW n,
           store_foreign_key(k, n)
    PROVE  StateInv' /\ (Grows \/ Stops)
<1> DEFINE new == NewCall
<1>1. mem.open /\ wallet_password \in Passwords /\ (k \in mistaken' \/ wallet_password = mem.master)
  BY KeyOpens DEF store_foreign_key
<1>2. n \in DOMAIN mem.by_name /\ inexact \subseteq inexact'
  BY DEF store_foreign_key, is_receive_account, Counted
<1>3. PICK a \in Addresses(Named(mem, n)) : Done(store_key(new, KeyRecord(k, a, wallet_password)))
  BY DEF store_foreign_key
<1>4. InCall(new, issued, inexact) /\ Ready /\ new.m = mem
  BY <1>1, Begins
<1> HIDE DEF new
<1>5. Named(mem, n) \in AccountRecords
  BY <1>2, <1>4, AccountAt DEF Named
<1>6. a \in Keys /\ k \in Keys
  BY <1>3, <1>5, RecordTypes, AccountsAreKeys DEF Addresses, Keys
<1> DEFINE r == KeyRecord(k, a, wallet_password)
<1>7. r \in KeyRecords /\ r.key = k /\ r.private = wallet_password
  BY <1>1, <1>6, KeyRecordIs
<1> HIDE DEF r
<1>8. Opened(r) /\ r.private \in Passwords
  BY <1>1, <1>7 DEF Opened
<1>9. InCall(store_key(new, r), issued, inexact)
  BY <1>4, <1>7, <1>8, StoreKey
<1>10. Done(store_key(new, r))
  BY <1>3 DEF r
<1> QED
  BY <1>1, <1>2, <1>9, <1>10, DoneStep DEF InCall

LEMMA ImportPrivateKey ==
    ASSUME StateInv, Counted, Leads(mem), UNCHANGED <<removed, replaced>>, NEW k, import_private_key(k)
    PROVE  StateInv' /\ (Grows \/ Stops)
<1> DEFINE new == NewCall
<1>1. mem.open /\ wallet_password \in Passwords /\ (k \in mistaken' \/ wallet_password = mem.master)
  BY KeyOpens DEF import_private_key
<1>2. inexact \subseteq inexact' /\ on_chain \subseteq Registered
  BY DEF Counted, StateInv
<1>3. \A S : inexact \subseteq S => InCall(new, issued, S) /\ Ready /\ new.m = mem
  BY <1>1, Begins
<1>4. CASE HasKey(mem, k) /\ Done(SetPrivate(new, k))
  <2> HIDE DEF new
  <2>1. InCall(SetPrivate(new, k), issued, inexact)
    BY <1>1, <1>3, <1>4, SetPrivateInCall DEF HasKey
  <2> QED
    BY <1>1, <1>2, <1>4, <2>1, DoneStep DEF InCall
<1>5. ASSUME NEW n \in on_chain, ~HasKey(mem, k),
             LET c == AddContact(new, n, owner_key[n])
             IN  \/ ~Known(mem, n, owner_key[n]) /\ Done(c)
                 \/ HasKey(c.m, k) /\ Done(SetPrivate(c, k))
                 \/ Crashes(c) /\ UNCHANGED <<issued, reused>>
      PROVE  StateInv' /\ (Grows \/ Stops)
  <2> DEFINE o == owner_key[n]
             c == AddContact(new, n, o)
             S == inexact \cup Lost(mem.accounts, c.m.accounts)
  <2>1. /\ n \in Names /\ o \in Accounts /\ inexact \subseteq S
        /\ \/ ~Known(mem, n, o) /\ Done(c)
           \/ HasKey(c.m, k) /\ Done(SetPrivate(c, k))
           \/ Crashes(c) /\ UNCHANGED <<issued, reused>>
    BY <1>2, <1>5, RegisteredKeys
  <2>2. new.m = mem /\ Ready /\ InCall(new, issued, inexact) /\ InCall(new, issued, S)
    BY <1>3, <2>1
  <2> HIDE DEF new, o
  <2>3. Known(new.m, n, o) => Lost(new.m.accounts, c.m.accounts) \subseteq S
    BY <2>2
  <2> HIDE DEF S
  <2>4. InCall(c, issued, S) /\ (Known(new.m, n, o) => c.m.keys = new.m.keys)
    BY <1>2, <2>1, <2>2, <2>3, AddContactInCall
  <2>5. CASE ~Known(mem, n, o)
    <3>1. InCall(c, issued, inexact)
      BY <1>2, <2>1, <2>2, <2>5, AddContactInCall
    <3> HIDE DEF c
    <3>2. CASE Done(c)
      BY <1>1, <1>2, <3>1, <3>2, DoneStep DEF InCall
    <3>3. CASE HasKey(c.m, k) /\ Done(SetPrivate(c, k))
      <4>1. InCall(SetPrivate(c, k), issued, inexact)
        BY <1>1, <2>2, <3>1, <3>3, SetPrivateInCall DEF HasKey
      <4> QED
        BY <1>1, <1>2, <3>3, <4>1, DoneStep DEF InCall
    <3>4. CASE Crashes(c) /\ UNCHANGED <<issued, reused>>
      BY <1>1, <3>1, <3>4, CallBreaks DEF InCall
    <3> QED
      BY <2>1, <3>2, <3>3, <3>4
  <2>6. CASE Known(mem, n, o)
    <3>1. ~HasKey(c.m, k)
      BY <1>5, <2>2, <2>4, <2>6 DEF HasKey
    <3>2. Crashes(c) /\ UNCHANGED <<issued, reused>> /\ CallSafe(c, issued, S)
      BY <2>1, <2>4, <2>6, <3>1 DEF InCall
    <3> HIDE DEF c
    <3> QED
      BY <1>1, <3>2, CallBreaks
  <2> QED
    BY <2>5, <2>6
<1>6. \/ HasKey(mem, k) /\ Done(SetPrivate(new, k))
      \/ \E n \in on_chain :
           /\ ~HasKey(mem, k)
           /\ LET c == AddContact(new, n, owner_key[n])
              IN  \/ ~Known(mem, n, owner_key[n]) /\ Done(c)
                  \/ HasKey(c.m, k) /\ Done(SetPrivate(c, k))
                  \/ Crashes(c) /\ UNCHANGED <<issued, reused>>
  BY DEF import_private_key
<1> HIDE DEF new
<1> QED
  BY <1>4, <1>5, <1>6

-----------------------------------------------------------------------------
(* An account that is renamed or removed.                                  *)

\* A file stays safe when only accounts change.
LEMMA AccountsChange ==
    ASSUME NEW f, NEW g, NEW D, NEW E, NEW X, NEW I, NEW P, NEW n, Safe(f, D, X, I, P, n), Shape(g),
           DOMAIN g \subseteq DOMAIN f, \A type : type # "account" => Same(f, g, type), AccountCounts(g, E, I)
    PROVE  Safe(g, E, X, I, P, n)
<1>1. Shape(f) /\ -1 \in DOMAIN f /\ Fresh(f) /\ OneChild(f) /\ ChildCounts(f, I, n)
  BY DEF Safe
<1>2. -1 \in DOMAIN g /\ g[-1].password = f[-1].password
  <2>1. Same(f, g, "master")
    OBVIOUS
  <2> QED
    BY <1>1, <2>1, SameMaster
<1>3. Fresh(g)
  <2>1. Same(f, g, "next")
    OBVIOUS
  <2>2. NextIn(f) = NextIn(g)
    BY <1>1, <2>1, SameNext
  <2> QED
    BY <1>1, <2>2 DEF Fresh
<1>4. OneChild(g) /\ ChildCounts(g, I, n)
  <2>1. Same(f, g, "child")
    OBVIOUS
  <2> QED
    BY <1>1, <2>1, SameChild
<1>5. Readable(g, X, {g[-1].password} \cup P)
  <2>1. Same(f, g, "key")
    OBVIOUS
  <2>2. Readable(f, X, {g[-1].password} \cup P)
    BY <1>2 DEF Safe
  <2> QED
    BY <2>1, <2>2, SameKeys
<1> QED
  BY <1>2, <1>3, <1>4, <1>5 DEF Safe

LEMMA AccountsMirrored ==
    ASSUME NEW f, NEW g, NEW R, NEW S, NEW Q, NEW T, NEW m, NEW n, Mirrors(m, f, R, S), Shape(f), Shape(g),
           \A type : type # "account" => Same(f, g, type), Maps(n), n.next = m.next,
           n.master = m.master, n.child = m.child, MirrorKeys(n.keys, f, Q),
           MirrorAccounts(n.accounts, n.by_address, n.by_name, g, T)
    PROVE  Mirrors(n, g, Q, T)
<1>1. Same(f, g, "master") /\ Same(f, g, "next") /\ Same(f, g, "child") /\ Same(f, g, "key")
  OBVIOUS
<1>2. NextIn(g) = NextIn(f) /\ MasterIn(g) = MasterIn(f)
  BY <1>1, SameNext, SameMaster
<1>3. MirrorKeys(n.keys, g, Q)
  <2> DEFINE ks == n.keys
  <2>1. MirrorKeys(ks, f, Q)
    OBVIOUS
  <2> HIDE DEF ks
  <2>2. MirrorKeys(ks, g, Q)
    BY <1>1, <2>1, SameKeys
  <2> QED
    BY <2>2 DEF ks
<1>4. MirrorChild(n.child, g)
  <2> DEFINE ch == m.child
  <2>1. MirrorChild(ch, f)
    BY DEF Mirrors
  <2> HIDE DEF ch
  <2>2. MirrorChild(ch, g)
    BY <1>1, <2>1, SameChild
  <2> QED
    BY <2>2 DEF ch
<1> QED
  BY <1>2, <1>3, <1>4 DEF Mirrors

\* An account with another, free, name.  The old name leaves the index if it
\* led to the account; if it did not, it was one that the index may be wrong
\* about.
LEMMA Renamed ==
    ASSUME NEW f, NEW g, NEW i, NEW r, IsPut(g, f, i, r), i \in Of(f, "account"), r.type = "account",
           NEW S, Distinct(f, S), NEW accounts, NEW by_address, NEW by_name,
           MirrorAccounts(accounts, by_address, by_name, f, S), NEW n, n = f[i].name,
           r.name \notin DOMAIN by_name, Addresses(r) = Addresses(f[i]), r.owner = f[i].owner,
           r.seq = f[i].seq
    PROVE  /\ MirrorAccounts(Put(accounts, {i}, r), Put(by_address, Addresses(r), i),
                             Put(NamesWithout(Put(by_name, {r.name}, i), n, i), {r.name}, i), g, S)
           /\ \A D, I : AccountCounts(f, D, I) => AccountCounts(g, D, I)
<1> DEFINE A == Of(f, "account")
<1>1. Of(g, "account") = A /\ g[i] = r /\ \A j \in A : j # i => g[j] = f[j]
  BY DEF Of, IsPut
<1>2. \A j \in A : Addresses(g[j]) = Addresses(f[j]) /\ g[j].owner = f[j].owner /\ g[j].seq = f[j].seq
  BY <1>1
<1>3. \A D, I : AccountCounts(f, D, I) => AccountCounts(g, D, I)
  BY <1>1, <1>2 DEF AccountCounts
<1>4. Put(accounts, {i}, r) = [j \in Of(g, "account") |-> g[j]]
  BY <1>1 DEF MirrorAccounts, Put
<1>5. MirrorAddresses(Put(by_address, Addresses(r), i), g, S)
  <2> DEFINE b == Put(by_address, Addresses(r), i)
  <2>1. DOMAIN b = DOMAIN by_address \cup Addresses(r) /\ b = [k \in DOMAIN b |-> b[k]]
    BY DEF Put
  <2>2. \A k \in DOMAIN b : b[k] = IF k \in Addresses(r) THEN i ELSE by_address[k]
    BY DEF Put
  <2> HIDE DEF b
  <2>3. \A k \in DOMAIN by_address \ S : by_address[k] \in A /\ k \in Addresses(f[by_address[k]])
    BY DEF MirrorAccounts, MirrorAddresses
  <2>4. \A j \in A : Addresses(f[j]) \subseteq DOMAIN by_address \cup S
    BY DEF MirrorAccounts, MirrorAddresses
  <2>5. ASSUME NEW k \in DOMAIN b \ S PROVE b[k] \in Of(g, "account") /\ k \in Addresses(g[b[k]])
    BY <1>1, <1>2, <2>1, <2>2, <2>3
  <2>6. \A j \in Of(g, "account") : Addresses(g[j]) \subseteq DOMAIN b \cup S
    BY <1>1, <1>2, <2>1, <2>4
  <2>7. MirrorAddresses(b, g, S)
    BY <2>1, <2>5, <2>6 DEF MirrorAddresses
  <2> QED
    BY <2>7 DEF b
<1>6. MirrorNames(Put(NamesWithout(Put(by_name, {r.name}, i), n, i), {r.name}, i), g, S)
  <2> DEFINE new == r.name
             with == Put(by_name, {new}, i)
             rest == NamesWithout(with, n, i)
             b == Put(rest, {new}, i)
  <2>1. /\ \A k \in DOMAIN by_name \ S : by_name[k] \in A /\ f[by_name[k]].name = k
        /\ \A j \in A : f[j].name \in DOMAIN by_name \cup S
    BY DEF MirrorAccounts, MirrorNames
  <2>2. /\ DOMAIN with = DOMAIN by_name \cup {new} /\ with[new] = i
        /\ \A k \in DOMAIN by_name : k # new => with[k] = by_name[k]
    BY DEF Put
  <2> HIDE DEF with
  <2>3. /\ n \notin DOMAIN with => DOMAIN rest = DOMAIN with \cup {n} /\ \A k \in DOMAIN with : rest[k] = with[k]
        /\ n \in DOMAIN with /\ with[n] = i => DOMAIN rest = DOMAIN with \ {n} /\ \A k \in DOMAIN rest : rest[k] = with[k]
        /\ n \in DOMAIN with /\ with[n] # i => rest = with
    BY DEF NamesWithout, Put, Without, Restrict
  <2> HIDE DEF rest
  <2>4. /\ DOMAIN b = DOMAIN rest \cup {new} /\ b[new] = i /\ b = [k \in DOMAIN b |-> b[k]]
        /\ \A k \in DOMAIN rest : k # new => b[k] = rest[k]
    BY DEF Put
  <2> HIDE DEF b
  <2>5. n \in DOMAIN by_name \cup S /\ new \notin DOMAIN by_name
    BY <2>1
  <2>6. ASSUME NEW k \in DOMAIN b \ S PROVE b[k] \in Of(g, "account") /\ g[b[k]].name = k
    <3>1. CASE k = new
      BY <1>1, <2>4, <3>1
    <3>2. CASE k # new
      <4>1. k \in DOMAIN rest /\ b[k] = rest[k]
        BY <2>4, <3>2
      <4>2. k \in DOMAIN with /\ rest[k] = with[k]
        BY <2>2, <2>3, <2>5, <4>1
      <4>3. k \in DOMAIN by_name /\ b[k] = by_name[k]
        BY <2>2, <3>2, <4>1, <4>2
      <4>4. b[k] \in A /\ f[b[k]].name = k
        BY <2>1, <4>3
      <4>5. b[k] # i
        <5> SUFFICES ASSUME b[k] = i PROVE FALSE
          OBVIOUS
        <5>1. k = n /\ with[n] = i /\ n \in DOMAIN with
          BY <4>1, <4>2, <4>4
        <5> QED
          BY <2>3, <4>1, <5>1
      <4> QED
        BY <1>1, <4>4, <4>5
    <3> QED
      BY <3>1, <3>2
  <2>7. ASSUME NEW j \in Of(g, "account") PROVE g[j].name \in DOMAIN b \cup S
    <3>1. CASE j = i
      BY <1>1, <2>4, <3>1
    <3>2. CASE j # i
      <4>1. j \in A /\ g[j] = f[j] /\ f[j].name \in DOMAIN by_name \cup S
        BY <1>1, <2>1, <3>2
      <4>2. f[j].name = n => n \in S
        BY <3>2, <4>1 DEF Distinct
      <4>3. f[j].name # n /\ f[j].name \in DOMAIN by_name => f[j].name \in DOMAIN rest
        BY <2>2, <2>3
      <4> QED
        BY <2>4, <4>1, <4>2, <4>3
    <3> QED
      BY <3>1, <3>2
  <2>8. MirrorNames(b, g, S)
    BY <2>4, <2>6, <2>7 DEF MirrorNames
  <2> QED
    BY <2>8 DEF b, rest, with
<1> QED
  BY <1>3, <1>4, <1>5, <1>6 DEF MirrorAccounts

\* An account whose record is removed, under a name that the index has for it.
LEMMA TakenOutFile ==
    ASSUME NEW f, Shape(f), NEW i \in Of(f, "account")
    PROVE  LET g == Without(f, {i}) IN
           /\ Shape(g) /\ DOMAIN g \subseteq DOMAIN f
           /\ \A type : type # "account" => Same(f, g, type)
           /\ \A D, I : AccountCounts(f, D, I) => AccountCounts(g, D \cup Addresses(f[i]), I)
<1> DEFINE g == Without(f, {i})
           gone == Addresses(f[i])
           A == Of(f, "account")
<1>1. DOMAIN g = DOMAIN f \ {i} /\ \A j \in DOMAIN g : g[j] = f[j]
  BY DEF Without, Restrict
<1>2. g = [j \in DOMAIN g |-> g[j]]
  BY DEF Without, Restrict
<1> HIDE DEF g
<1>3. Shape(g)
  <2>1. IsFiniteSet(DOMAIN g)
    BY <1>1, FS_Subset DEF Shape
  <2> QED
    BY <1>1, <1>2, <2>1 DEF Shape
<1>4. ASSUME NEW type, type # "account" PROVE Same(f, g, type)
  BY <1>1, <1>4 DEF Same, Of
<1>5. Of(g, "account") = A \ {i} /\ \A j \in A : j # i => g[j] = f[j]
  BY <1>1 DEF Of
<1>6. \A D, I : AccountCounts(f, D, I) => AccountCounts(g, D \cup gone, I)
  <2>1. f[i].owner \in gone
    BY DEF Addresses
  <2> SUFFICES ASSUME NEW D, NEW I, AccountCounts(f, D, I), NEW k \in Accounts \ (D \cup gone),
                      NEW j \in 1 .. MaxDbCalls, Derived(k, j) \in I
               PROVE  \E a \in Of(g, "account") : g[a].owner = k /\ j <= g[a].seq
    BY DEF AccountCounts
  <2>2. PICK a \in A : f[a].owner = k /\ j <= f[a].seq
    BY DEF AccountCounts
  <2>3. a # i
    BY <2>1, <2>2
  <2> QED
    BY <1>5, <2>2, <2>3
<1> QED
  BY <1>1, <1>3, <1>4, <1>6 DEF g

\* The maps without the record, its name n and its addresses mirror the file without it.
LEMMA TakenOut ==
    ASSUME NEW f, NEW g, NEW i, g = Without(f, {i}), i \in Of(f, "account"),
           Shape(f), NEW S, Distinct(f, S), NEW accounts, NEW by_address, NEW by_name,
           MirrorAccounts(accounts, by_address, by_name, f, S),
           NEW n \in DOMAIN by_name, by_name[n] = i, NEW gone, gone = Addresses(f[i]),
           NEW T, S \cup ({f[i].name} \ {n}) \subseteq T
    PROVE  MirrorAccounts(Without(accounts, {i}), Without(by_address, gone), Without(by_name, {n}), g, T)
<1> DEFINE A == Of(f, "account")
<1>1. DOMAIN g = DOMAIN f \ {i} /\ \A j \in DOMAIN g : g[j] = f[j]
  BY DEF Without, Restrict
<1>2. Of(g, "account") = A \ {i} /\ \A j \in A : j # i => g[j] = f[j]
  BY <1>1 DEF Of
<1>3. Without(accounts, {i}) = [j \in Of(g, "account") |-> g[j]]
  BY <1>2 DEF MirrorAccounts, Without, Restrict
<1>4. MirrorAddresses(Without(by_address, gone), g, T)
  <2> DEFINE b == Without(by_address, gone)
  <2>1. /\ DOMAIN b = DOMAIN by_address \ gone /\ b = [k \in DOMAIN b |-> b[k]]
        /\ \A k \in DOMAIN b : b[k] = by_address[k]
    BY DEF Without, Restrict
  <2> HIDE DEF b
  <2>2. \A k \in DOMAIN by_address \ S : by_address[k] \in A /\ k \in Addresses(f[by_address[k]])
    BY DEF MirrorAccounts, MirrorAddresses
  <2>3. \A j \in A : Addresses(f[j]) \subseteq DOMAIN by_address \cup S
    BY DEF MirrorAccounts, MirrorAddresses
  <2>4. \A j \in A : j # i => Addresses(f[j]) \cap gone \subseteq S
    BY DEF Distinct
  <2>5. ASSUME NEW k \in DOMAIN b \ T PROVE b[k] \in A \ {i} /\ k \in Addresses(g[b[k]])
    BY <1>2, <2>1, <2>2
  <2>6. \A j \in A \ {i} : Addresses(g[j]) \subseteq DOMAIN b \cup T
    BY <1>2, <2>1, <2>3, <2>4
  <2>7. MirrorAddresses(b, g, T)
    BY <1>2, <2>1, <2>5, <2>6 DEF MirrorAddresses
  <2> QED
    BY <2>7 DEF b
<1>5. MirrorNames(Without(by_name, {n}), g, T)
  <2> DEFINE b == Without(by_name, {n})
  <2>1. /\ DOMAIN b = DOMAIN by_name \ {n} /\ b = [k \in DOMAIN b |-> b[k]]
        /\ \A k \in DOMAIN b : b[k] = by_name[k]
    BY DEF Without, Restrict
  <2> HIDE DEF b
  <2>2. \A k \in DOMAIN by_name \ S : by_name[k] \in A /\ f[by_name[k]].name = k
    BY DEF MirrorAccounts, MirrorNames
  <2>3. \A j \in A : f[j].name \in DOMAIN by_name \cup S
    BY DEF MirrorAccounts, MirrorNames
  <2>4. \A j \in A : j # i /\ f[j].name = n => n \in S
    BY <2>2 DEF Distinct
  <2>5. ASSUME NEW k \in DOMAIN b \ T PROVE b[k] \in A \ {i} /\ g[b[k]].name = k
    <3>1. k \in DOMAIN by_name /\ k # n /\ b[k] = by_name[k] /\ k \notin S /\ k # f[i].name
      BY <2>1
    <3>2. b[k] \in A /\ f[b[k]].name = k
      BY <2>2, <3>1
    <3>3. b[k] # i
      BY <3>1, <3>2
    <3> QED
      BY <1>2, <3>2, <3>3
  <2>6. \A j \in A \ {i} : g[j].name \in DOMAIN b \cup T
    BY <1>2, <2>1, <2>3, <2>4
  <2>7. MirrorNames(b, g, T)
    BY <1>2, <2>1, <2>5, <2>6 DEF MirrorNames
  <2> QED
    BY <2>7 DEF b
<1> QED
  BY <1>3, <1>4, <1>5 DEF MirrorAccounts


LEMMA RenameAccount ==
    ASSUME StateInv, Counted, Leads(mem), UNCHANGED <<removed, replaced>>, NEW n, NEW new \in Names,
           rename_account(n, new)
    PROVE  StateInv' /\ (Grows \/ Stops)
<1> DEFINE i == RenamedRecord(n)
           f == file
           old == mem.accounts[i].name
           r == [mem.accounts[i] EXCEPT !.name = new]
           names == NamesWithout(Put(mem.by_name, {new}, i), old, i)
           m == [mem EXCEPT !.by_name = names]
           loaded == load_generic_record(m, i, r)
           e == store_record([NewCall EXCEPT !.m = m], i, r, TRUE)
           g == Put(f, {i}, r)
<1>1. mem.open /\ new \notin DOMAIN mem.by_name /\ Done(e) /\ i \in DOMAIN mem.accounts /\ inexact \subseteq inexact'
  <2>1. CanRename(n, new) /\ Done(e)
    BY DEF rename_account
  <2> HIDE DEF e
  <2>2. mem.open /\ new \notin DOMAIN mem.by_name /\ HasAccount(mem, mem.accounts[Min(Renamable(n))].owner)
    BY <2>1 DEF CanRename
  <2>3. i \in DOMAIN mem.accounts
    BY <2>2 DEF HasAccount, Leads, RenamedRecord
  <2> QED
    BY <2>1, <2>2, <2>3 DEF Counted
<1>2. /\ CallSafe(NewCall, issued, inexact) /\ Ready /\ InCall(NewCall, issued, inexact)
      /\ NewCall.m = mem /\ NewCall.file = f /\ NewCall.during = left /\ NewCall.after = left
  BY <1>1, Begins
<1>3. e.m = loaded /\ e.file = g /\ e.during = left \cup {g} /\ e.after = {g}
  <2> DEFINE d == [NewCall EXCEPT !.m = m]
  <2>1. d.m = m /\ d.file = f /\ d.during = left /\ d.after = left
    BY DEF NewCall
  <2> HIDE DEF d, m, i, r
  <2>2. LET s == store_record(d, i, r, TRUE)
        IN  s.m = loaded /\ s.file = g /\ s.during = left \cup {g} /\ s.after = {g}
    BY <2>1 DEF store_record, Write
  <2> QED
    BY <2>2 DEF d
<1>4. i \in Of(f, "account") /\ mem.accounts[i] = f[i] /\ f[i] \in AccountRecords
  <2> DEFINE d == NewCall
  <2>1. InCall(d, issued, inexact) /\ d.m = mem /\ d.file = f
    BY <1>2
  <2> HIDE DEF d, i, f
  <2> QED
    BY <1>1, <2>1, AccountAt
<1>5. /\ r \in AccountRecords /\ r.name = new /\ r.owner = f[i].owner /\ r.actives = f[i].actives
      /\ r.seq = f[i].seq /\ old = f[i].name
  <2> DEFINE a == f[i]
             q == [a EXCEPT !.name = new]
  <2>1. r = q /\ a \in AccountRecords /\ old = a.name
    BY <1>4
  <2> HIDE DEF a, r, old
  <2>2. q \in AccountRecords /\ q.name = new /\ q.owner = a.owner /\ q.actives = a.actives /\ q.seq = a.seq
    BY <2>1, AccountUpdates
  <2> QED
    BY <2>1, <2>2 DEF a
<1> DEFINE accounts == mem.accounts
           by_address == mem.by_address
           by_name == mem.by_name
<1>6. /\ Mirrors(mem, f, removed, inexact) /\ Maps(mem)
      /\ MirrorAccounts(accounts, by_address, by_name, f, inexact)
      /\ CallFile(f, issued) /\ Shape(f) /\ Distinct(f, inexact) /\ f \in left
  BY <1>2 DEF CallSafe, CallFile, Mirrors, Safe, StateInv
<1>7. r.name \notin DOMAIN by_name
  BY <1>1, <1>5
<1>8. /\ Maps(m) /\ m.next = mem.next /\ m.master = mem.master /\ m.child = mem.child /\ m.keys = mem.keys
      /\ m.accounts = accounts /\ m.by_address = by_address /\ m.by_name = names
  <2>1. mem = [x \in Fields |-> mem[x]] /\ mem.open = TRUE
    BY <1>6 DEF Maps
  <2> HIDE DEF names
  <2> QED
    BY <2>1 DEF Maps, Fields
<1>9. names = NamesWithout(Put(by_name, {r.name}, i), f[i].name, i)
  BY <1>5
<1> HIDE DEF i, r, f, e, m, names, old
<1>10. r.type = "account" /\ Addresses(r) = Addresses(f[i]) /\ i \in DOMAIN f /\ f[i].type = "account"
  BY <1>4, <1>5, RecordTypes DEF Addresses, Of
<1>11. IsPut(g, f, i, r) /\ DOMAIN g = DOMAIN f
  <2>1. /\ DOMAIN g = DOMAIN f \cup {i} /\ g[i] = r
        /\ \A j \in DOMAIN f : j # i => g[j] = f[j]
    BY DEF Put
  <2> HIDE DEF g
  <2> QED
    BY <1>10, <2>1 DEF IsPut
<1>12. Shape(g)
  <2>1. Valid(i, f[i])
    BY <1>6, <1>10 DEF Shape
  <2>2. i \in Nat /\ i >= 2
    BY <1>10, <2>1, RecordTypes DEF Valid
  <2>3. Valid(i, r)
    BY <1>5, <2>2 DEF Valid, Records
  <2> QED
    BY <1>6, <2>3, PutShape
<1>13. \A type : type # "account" => Same(f, g, type)
  BY <1>10, PutElsewhere
<1>14. /\ SameMaps(m, loaded, {"account"}) /\ loaded.accounts = Put(accounts, {i}, r)
       /\ loaded.by_address = Put(by_address, Addresses(r), i)
       /\ loaded.by_name = Put(names, {r.name}, i)
  <2>1. SameMaps(m, loaded, {r.type})
    BY <1>8, LoadSame
  <2> DEFINE x == Put(m.accounts, {i}, r)
             y == Put(m.by_address, {r.owner} \cup r.actives, i)
             z == Put(m.by_name, {r.name}, i)
  <2>2. loaded = [m EXCEPT !.accounts = x, !.by_address = y, !.by_name = z]
    BY <1>10 DEF load_generic_record
  <2> HIDE DEF x, y, z, loaded
  <2>3. loaded.accounts = x /\ loaded.by_address = y /\ loaded.by_name = z
    BY <1>8, <2>2 DEF Maps, Fields
  <2> QED
    BY <1>8, <1>10, <2>1, <2>3 DEF x, y, z, Addresses
<1> HIDE DEF loaded, g, accounts, by_address, by_name
<1>15. /\ MirrorAccounts(loaded.accounts, loaded.by_address, loaded.by_name, g, inexact)
       /\ \A D, I : AccountCounts(f, D, I) => AccountCounts(g, D, I)
  <2>1. /\ MirrorAccounts(Put(accounts, {i}, r), Put(by_address, Addresses(r), i),
                          Put(NamesWithout(Put(by_name, {r.name}, i), f[i].name, i), {r.name}, i), g, inexact)
        /\ \A D, I : AccountCounts(f, D, I) => AccountCounts(g, D, I)
    BY <1>4, <1>5, <1>6, <1>7, <1>10, <1>11, Renamed
  <2> QED
    BY <1>9, <1>14, <2>1
<1>16. CallFile(g, issued)
  <2>1. AccountCounts(g, removed \cup inexact, issued)
    BY <1>6, <1>15 DEF CallFile, Safe
  <2> QED
    BY <1>6, <1>11, <1>12, <1>13, <2>1, AccountsChange DEF CallFile
<1>17. /\ Maps(loaded) /\ loaded.next = mem.next /\ loaded.master = mem.master /\ loaded.child = mem.child
       /\ loaded.keys = mem.keys
  BY <1>8, <1>14 DEF SameMaps
<1>18. Mirrors(loaded, g, removed, inexact)
  <2>1. MirrorKeys(loaded.keys, f, removed)
    BY <1>6, <1>17 DEF Mirrors
  <2> QED
    BY <1>6, <1>12, <1>13, <1>15, <1>17, <2>1, AccountsMirrored
<1>19. Keep(g, Private(mem.keys))
  BY <1>17, <1>18, MirrorsKeep
<1>20. CallSafe(e, issued, inexact)
  <2>1. \A h \in left : CallFile(h, issued) /\ Keep(h, Private(mem.keys))
    BY <1>2 DEF CallSafe
  <2> QED
    BY <1>3, <1>16, <1>17, <1>18, <1>19, <2>1 DEF CallSafe
<1> QED
  BY <1>1, <1>20, DoneStep

\* The keys of the contact leave the map, and their records stay in the file.
LEMMA RemoveContactAccount ==
    ASSUME StateInv, Counted, Leads(mem), UNCHANGED replaced, NEW n, remove_contact_account(n),
           {Named(mem, n).name} \ {n} \subseteq inexact'
    PROVE  StateInv' /\ (Removes \/ Stops)
<1> DEFINE i == mem.by_name[n]
           gone == Addresses(mem.accounts[i])
           m == [mem EXCEPT !.keys = Without(mem.keys, gone),
                            !.by_address = Without(mem.by_address, gone),
                            !.by_name = Without(mem.by_name, {n}),
                            !.accounts = Without(mem.accounts, {i})]
           c == [NewCall EXCEPT !.m = m]
           e == remove_item(c, i)
           f == file
           g == Without(f, {i})
           owner == mem.accounts[i].owner
<1>1. /\ mem.open /\ n \in DOMAIN mem.by_name /\ ~has_private_key(mem, owner)
      /\ removed' = removed \cup gone /\ Done(e) /\ inexact \subseteq inexact'
  BY DEF remove_contact_account, Counted, Named
<1>2. /\ CallSafe(NewCall, issued, inexact) /\ Ready /\ InCall(NewCall, issued, inexact)
      /\ NewCall.m = mem /\ NewCall.file = f /\ NewCall.during = left /\ NewCall.after = left
  BY <1>1, Begins
<1>3. e.m = m /\ e.file = g /\ e.during = left \cup {g} /\ e.after = {g}
  <2>1. c.m = m /\ c.file = f /\ c.during = left /\ c.after = left
    BY DEF NewCall
  <2> HIDE DEF c, m
  <2> QED
    BY <2>1 DEF remove_item, Write
<1>4. i \in Of(f, "account") /\ mem.accounts[i] = f[i] /\ f[i] \in AccountRecords
  <2> DEFINE d == NewCall
  <2>1. InCall(d, issued, inexact) /\ d.m = mem /\ d.file = f
    BY <1>2
  <2> HIDE DEF d
  <2> QED
    BY <1>1, <2>1, AccountAt
<1>5. /\ gone = Addresses(f[i]) /\ owner \in Keys /\ owner \in gone
      /\ inexact \cup ({f[i].name} \ {n}) \subseteq inexact'
  BY <1>1, <1>4, RecordTypes, AccountsAreKeys DEF Named, Addresses
<1> DEFINE accounts == mem.accounts
           by_address == mem.by_address
           by_name == mem.by_name
           ks == mem.keys
<1>6. /\ Mirrors(mem, f, removed, inexact) /\ Maps(mem)
      /\ MirrorAccounts(accounts, by_address, by_name, f, inexact)
      /\ CallFile(f, issued) /\ Shape(f) /\ Distinct(f, inexact) /\ f \in left
      /\ MirrorKeys(ks, f, removed)
  BY <1>2 DEF CallSafe, CallFile, Mirrors, Safe, StateInv
<1>7. owner \notin Private(ks) /\ n \in DOMAIN by_name /\ by_name[n] = i
  BY <1>1 DEF has_private_key, HasKey, Private
<1> HIDE DEF e, owner, gone, i, f
<1>8. /\ Maps(m) /\ m.next = mem.next /\ m.master = mem.master /\ m.child = mem.child
      /\ m.keys = Without(ks, gone) /\ m.accounts = Without(accounts, {i})
      /\ m.by_address = Without(by_address, gone) /\ m.by_name = Without(by_name, {n})
  <2>1. mem = [x \in Fields |-> mem[x]] /\ mem.open = TRUE
    BY <1>6 DEF Maps
  <2> DEFINE w == Without(mem.keys, gone)
             x == Without(mem.by_address, gone)
             y == Without(mem.by_name, {n})
             z == Without(mem.accounts, {i})
  <2> HIDE DEF w, x, y, z
  <2>2. LET o == [mem EXCEPT !.keys = w, !.by_address = x, !.by_name = y, !.accounts = z]
        IN  /\ o = [a \in Fields |-> o[a]] /\ o.open = TRUE /\ o.next = mem.next /\ o.master = mem.master
            /\ o.child = mem.child /\ o.keys = w /\ o.accounts = z /\ o.by_address = x /\ o.by_name = y
    BY <2>1 DEF Fields
  <2> QED
    BY <2>2 DEF Maps, w, x, y, z
<1> HIDE DEF m, g, accounts, by_address, by_name, ks
<1>9. /\ MirrorAccounts(Without(accounts, {i}), Without(by_address, gone), Without(by_name, {n}), g, inexact')
      /\ Shape(g) /\ DOMAIN g \subseteq DOMAIN f
      /\ \A type : type # "account" => Same(f, g, type)
      /\ \A D, I : AccountCounts(f, D, I) => AccountCounts(g, D \cup gone, I)
  <2> DEFINE T == inexact'
             S == inexact
  <2>1. /\ g = Without(f, {i}) /\ S \cup ({f[i].name} \ {n}) \subseteq T
        /\ MirrorAccounts(accounts, by_address, by_name, f, S) /\ Distinct(f, S)
    BY <1>5, <1>6 DEF g
  <2> HIDE DEF S, T
  <2>2. /\ MirrorAccounts(Without(accounts, {i}), Without(by_address, gone), Without(by_name, {n}), g, T)
        /\ Shape(g) /\ DOMAIN g \subseteq DOMAIN f
        /\ \A type : type # "account" => Same(f, g, type)
        /\ \A D, I : AccountCounts(f, D, I) => AccountCounts(g, D \cup gone, I)
    <3>1. /\ g = Without(f, {i}) /\ i \in Of(f, "account") /\ Shape(f) /\ Distinct(f, S)
          /\ MirrorAccounts(accounts, by_address, by_name, f, S) /\ n \in DOMAIN by_name
          /\ by_name[n] = i /\ gone = Addresses(f[i]) /\ S \cup ({f[i].name} \ {n}) \subseteq T
      BY <1>4, <1>5, <1>6, <1>7, <2>1
    <3> HIDE DEF g
    <3>2. MirrorAccounts(Without(accounts, {i}), Without(by_address, gone), Without(by_name, {n}), g, T)
      BY <3>1, TakenOut, Zenon
    <3>3. /\ Shape(g) /\ DOMAIN g \subseteq DOMAIN f
          /\ \A type : type # "account" => Same(f, g, type)
          /\ \A D, I : AccountCounts(f, D, I) => AccountCounts(g, D \cup gone, I)
      BY <3>1, TakenOutFile, Zenon
    <3> QED
      BY <3>2, <3>3
  <2> QED
    BY <2>2 DEF T
<1>10. Safe(g, (removed \cup inexact) \cup gone, removed \cup mistaken', issued, replaced, db_calls + 1)
  <2>1. AccountCounts(g, (removed \cup inexact) \cup gone, issued)
    BY <1>6, <1>9 DEF CallFile, Safe
  <2> QED
    BY <1>6, <1>9, <2>1, AccountsChange DEF CallFile
<1>11. /\ MirrorKeys(Without(ks, gone), f, removed \cup gone)
       /\ DOMAIN Without(ks, gone) = DOMAIN ks \ gone
       /\ \A k \in DOMAIN Without(ks, gone) : Without(ks, gone)[k] = ks[k]
  <2> DEFINE b == Without(ks, gone)
  <2>1. /\ DOMAIN b = DOMAIN ks \ gone /\ b = [k \in DOMAIN b |-> b[k]]
        /\ \A k \in DOMAIN b : b[k] = ks[k]
    BY DEF Without, Restrict
  <2> HIDE DEF b
  <2>2. MirrorKeys(b, f, removed \cup gone)
    BY <1>6, <2>1 DEF MirrorKeys
  <2> QED
    BY <2>1, <2>2 DEF b
<1>12. Mirrors(m, g, removed', inexact')
  <2>1. MirrorAccounts(m.accounts, m.by_address, m.by_name, g, inexact')
    BY <1>8, <1>9
  <2>2. MirrorKeys(m.keys, f, removed')
    BY <1>1, <1>8, <1>11
  <2> QED
    BY <1>6, <1>8, <1>9, <2>1, <2>2, AccountsMirrored
<1>13. Keep(g, Private(m.keys)) /\ Keep(g, Private(mem.keys))
  <2>1. Same(f, g, "key")
    BY <1>9
  <2>2. Keep(f, Private(mem.keys))
    BY <1>6, MirrorsKeep
  <2> QED
    BY <1>12, <2>1, <2>2, MirrorsKeep, SameKeys
<1> DEFINE SafeLate(h) == Safe(h, removed' \cup inexact', removed' \cup mistaken', issued, replaced', db_calls + 1)
<1>14. \A h \in left : SafeLate(h) /\ Keep(h, Private(mem.keys))
  <2>1. \A h \in left : CallFile(h, issued) /\ Keep(h, Private(mem.keys))
    BY <1>2 DEF CallSafe
  <2> QED
    BY <1>1, <2>1, CallFileLater
<1>15. SafeLate(g)
  <2>1. /\ (removed \cup inexact) \cup gone \subseteq removed' \cup inexact' /\ replaced \subseteq replaced'
        /\ removed \cup mistaken' \subseteq removed' \cup mistaken' /\ db_calls + 1 \in Nat
    BY <1>1, <1>2 DEF Ready
  <2> QED
    BY <1>10, <2>1, SafeLater
<1>16. IssuedOnce /\ issued \subseteq Issuable /\ replaced' \subseteq Passwords
       /\ wallet_password \in Passwords \cup {NoPassword}
  BY DEF StateInv
<1>17. CASE Finishes(e) /\ UNCHANGED <<wallet_password, issued, reused>>
  <2>1. IssuedOnce' /\ issued' \subseteq Issuable
    BY <1>1, <1>17, OnceLater
  <2>2. StateInv' /\ mem'.open
    BY <1>3, <1>12, <1>13, <1>15, <1>16, <1>17, <2>1, Ends
  <2>3. mem' = m
    BY <1>3, <1>17 DEF Finishes
  <2>4. Removes
    <3>1. mem'.keys = Without(ks, gone)
      BY <1>8, <2>3
    <3>2. DOMAIN mem'.keys \subseteq DOMAIN ks /\ \A k \in DOMAIN mem'.keys : mem'.keys[k] = ks[k]
      BY <1>11, <3>1
    <3>3. owner \notin DOMAIN mem'.keys
      BY <1>5, <1>11, <3>1
    <3> QED
      BY <1>1, <1>5, <1>7, <2>2, <3>2, <3>3 DEF Removes, ks
  <2> QED
    BY <2>2, <2>4
<1>18. CASE Crashes(e) /\ UNCHANGED <<issued, reused>>
  <2>1. IssuedOnce' /\ issued' \subseteq Issuable
    BY <1>1, <1>18, OnceLater
  <2>2. SafeLate(file')
    BY <1>3, <1>14, <1>15, <1>18 DEF Crashes
  <2>3. \A h \in e.during : Keep(h, Private(mem.keys))
    BY <1>3, <1>13, <1>14
  <2> QED
    BY <1>1, <1>16, <1>18, <2>1, <2>2, <2>3, Breaks
<1> QED
  BY <1>1, <1>17, <1>18 DEF Done

-----------------------------------------------------------------------------
(* A change of the password.                                               *)

Numbers(ks, part) == {ks[k].index : k \in part}

IsEncrypted(g, f, ks, part, new) ==
  /\ g = [i \in DOMAIN f |-> g[i]]
  /\ g[-1] = MasterRecord(new)
  /\ \A i \in DOMAIN f : i # -1 =>
       g[i] = IF i \in Numbers(ks, part) THEN [f[i] EXCEPT !.private = new] ELSE f[i]

KeysNumbered(ks, f, part) ==
  /\ Numbers(ks, part) \subseteq Of(f, "key") /\ -1 \notin Numbers(ks, part)
  /\ \A k \in DOMAIN ks : /\ ks[k].index \in Of(f, "key") /\ f[ks[k].index].key = k
                            /\ ks[k].record = f[ks[k].index]
  /\ \A k \in DOMAIN ks : ks[k].index \in Numbers(ks, part) <=> k \in part

\* Each key that counts has a number of its own.
LEMMA KeyNumbers ==
    ASSUME NEW f, NEW ks, NEW R, NEW part \in SUBSET DOMAIN ks, Shape(f), MirrorKeys(ks, f, R)
    PROVE  KeysNumbered(ks, f, part)
<1>1. ASSUME NEW k \in DOMAIN ks
      PROVE  ks[k].index \in Of(f, "key") /\ f[ks[k].index].key = k /\ ks[k].record = f[ks[k].index]
  <2>1. IsTop(f, k, ks[k].index) /\ ks[k] = [record |-> f[ks[k].index], index |-> ks[k].index]
    BY DEF MirrorKeys
  <2>2. ks[k].record = f[ks[k].index]
    BY <2>1
  <2> QED
    BY <2>1, <2>2 DEF IsTop
<1>2. Numbers(ks, part) \subseteq Of(f, "key")
  BY <1>1 DEF Numbers
<1>3. -1 \notin Of(f, "key")
  <2> SUFFICES ASSUME -1 \in Of(f, "key") PROVE FALSE
    OBVIOUS
  <2>1. Of(f, "master") = DOMAIN f \cap {-1} /\ -1 \in DOMAIN f /\ f[-1].type = "key"
    BY FileTypes DEF Of
  <2>2. -1 \in Of(f, "master")
    BY <2>1
  <2> QED
    BY <2>1, <2>2 DEF Of
<1>4. \A k \in DOMAIN ks : ks[k].index \in Numbers(ks, part) <=> k \in part
  <2> SUFFICES ASSUME NEW k \in DOMAIN ks, ks[k].index \in Numbers(ks, part) PROVE k \in part
    BY DEF Numbers
  <2>1. PICK x \in part : ks[x].index = ks[k].index
    BY DEF Numbers
  <2>2. f[ks[x].index].key = x /\ f[ks[k].index].key = k
    BY <1>1
  <2> QED
    BY <2>1, <2>2
<1> QED
  BY <1>1, <1>2, <1>3, <1>4 DEF KeysNumbered

\* Encrypted replaces the master key and the records of the keys that are done.
LEMMA EncryptedIs ==
    ASSUME NEW c, NEW I, NEW S, CallSafe(c, I, S), NEW part \in SUBSET DOMAIN c.m.keys, NEW new
    PROVE  IsEncrypted(Encrypted(c, part, new), c.file, c.m.keys, part, new)
<1> DEFINE f == c.file
           ks == c.m.keys
           key(i) == CHOOSE k \in part : ks[k].index = i
           p == Put(f, {-1}, MasterRecord(new))
           numbers == Numbers(ks, part)
           g == [i \in DOMAIN p \cup numbers |->
                   IF i \in numbers THEN [ks[key(i)].record EXCEPT !.private = new] ELSE p[i]]
<1>1. Encrypted(c, part, new) = g
  BY DEF Encrypted, Numbers
<1>2. Shape(f) /\ -1 \in DOMAIN f /\ MirrorKeys(ks, f, removed)
  BY CallFacts
<1>3. DOMAIN p = DOMAIN f /\ p[-1] = MasterRecord(new) /\ \A j \in DOMAIN f : j # -1 => p[j] = f[j]
  BY <1>2 DEF Put
<1>4. part \in SUBSET DOMAIN ks
  OBVIOUS
<1> HIDE DEF f, ks, p
<1>5. /\ numbers \subseteq Of(f, "key") /\ -1 \notin numbers
      /\ \A k \in DOMAIN ks : ks[k].record = f[ks[k].index]
  <2>1. KeysNumbered(ks, f, part)
    BY <1>2, <1>4, KeyNumbers
  <2> QED
    BY <2>1 DEF KeysNumbered
<1>6. DOMAIN p \cup numbers = DOMAIN f
  BY <1>3, <1>5 DEF Of
<1>7. ASSUME NEW i \in numbers PROVE ks[key(i)].record = f[i]
  <2>1. \E k \in part : ks[k].index = i
    BY <1>7 DEF Numbers
  <2>2. key(i) \in part /\ ks[key(i)].index = i
    BY <2>1
  <2> HIDE DEF key
  <2> QED
    BY <1>4, <1>5, <2>2
<1> HIDE DEF key, numbers
<1>8. g = [i \in DOMAIN f |-> g[i]] /\ g[-1] = MasterRecord(new)
  BY <1>2, <1>3, <1>5, <1>6
<1>9. ASSUME NEW i \in DOMAIN f, i # -1
      PROVE  g[i] = IF i \in numbers THEN [f[i] EXCEPT !.private = new] ELSE f[i]
  <2>1. CASE i \in numbers
    BY <1>6, <1>7, <2>1
  <2>2. CASE i \notin numbers
    BY <1>3, <1>6, <1>9, <2>2
  <2> QED
    BY <2>1, <2>2
<1> HIDE DEF g
<1>10. IsEncrypted(g, f, ks, part, new)
  BY <1>8, <1>9 DEF IsEncrypted, numbers
<1> QED
  BY <1>1, <1>10 DEF f, ks

EncryptedAs(g, f, ks, part, new) ==
  /\ DOMAIN g = DOMAIN f /\ Shape(g) /\ g[-1].password = new
  /\ \A type : type \notin {"master", "key"} => Same(f, g, type)
  /\ Of(g, "key") = Of(f, "key")
  /\ \A i \in Of(f, "key") :
       /\ g[i].key = f[i].key
       /\ i \in Numbers(ks, part) => g[i] = [f[i] EXCEPT !.private = new] /\ g[i].private = new
       /\ i \notin Numbers(ks, part) => g[i] = f[i]
  /\ \A k, i : IsTop(g, k, i) <=> IsTop(f, k, i)

\* What that leaves alone.
LEMMA EncryptedRecords ==
    ASSUME NEW f, NEW g, NEW ks, NEW R, NEW part \in SUBSET DOMAIN ks, NEW new \in Passwords,
           Shape(f), -1 \in DOMAIN f, MirrorKeys(ks, f, R), IsEncrypted(g, f, ks, part, new)
    PROVE  EncryptedAs(g, f, ks, part, new)
<1> DEFINE numbers == Numbers(ks, part)
<1>1. numbers \subseteq Of(f, "key") /\ -1 \notin numbers
  <2>1. KeysNumbered(ks, f, part)
    BY KeyNumbers
  <2> QED
    BY <2>1 DEF KeysNumbered
<1>2. DOMAIN g = DOMAIN f /\ g = [i \in DOMAIN g |-> g[i]] /\ g[-1] = MasterRecord(new)
  BY DEF IsEncrypted
<1>3. \A i \in DOMAIN f : i # -1 => g[i] = IF i \in numbers THEN [f[i] EXCEPT !.private = new] ELSE f[i]
  BY DEF IsEncrypted
<1> HIDE DEF numbers
<1>4. \A i \in Of(f, "key") : f[i] \in KeyRecords
  BY FileTypes
<1>5. ASSUME NEW i \in numbers
      PROVE  g[i] = [f[i] EXCEPT !.private = new] /\ g[i] \in KeyRecords /\ g[i].key = f[i].key /\ g[i].private = new
  <2> DEFINE r == f[i]
             q == [r EXCEPT !.private = new]
  <2>1. i \in Of(f, "key") /\ i \in DOMAIN f /\ i # -1
    BY <1>1, <1>5 DEF Of
  <2>2. r \in KeyRecords /\ g[i] = q
    BY <1>3, <1>4, <2>1
  <2> HIDE DEF r
  <2>3. q \in KeyRecords /\ q.key = r.key /\ q.private = new
    BY <2>2, KeyUpdates
  <2> HIDE DEF q
  <2> QED
    BY <2>2, <2>3 DEF r, q
<1>6. \A i \in DOMAIN f : i \notin numbers /\ i # -1 => g[i] = f[i]
  BY <1>3
<1>7. g[-1].type = "master" /\ g[-1].password = new /\ g[-1] \in MasterRecords
  BY <1>2 DEF MasterRecord, MasterRecords
<1>8. f[-1].type = "master"
  BY FileTypes, RecordTypes DEF Of
<1>9. ASSUME NEW i \in DOMAIN f PROVE g[i].type = f[i].type /\ Valid(i, g[i])
  <2>1. CASE i = -1
    BY <1>7, <1>8, <2>1 DEF Valid
  <2>2. CASE i \in numbers
    <3>1. g[i] \in KeyRecords /\ g[i].type = "key" /\ f[i].type = "key"
      BY <1>1, <1>5, <2>2, RecordTypes DEF Of
    <3>2. Valid(i, f[i])
      BY DEF Shape
    <3>3. i \in Nat /\ i >= 2
      BY <3>1, <3>2, RecordTypes DEF Valid
    <3> QED
      BY <3>1, <3>3 DEF Valid, Records
  <2>3. CASE i # -1 /\ i \notin numbers
    BY <1>6, <2>3 DEF Shape
  <2> QED
    BY <2>1, <2>2, <2>3
<1>10. Shape(g)
  BY <1>2, <1>9 DEF Shape
<1>11. \A type : Of(g, type) = Of(f, type)
  BY <1>2, <1>9 DEF Of
<1>12. ASSUME NEW type, type \notin {"master", "key"} PROVE Same(f, g, type)
  <2>1. \A i \in Of(f, type) : i \in DOMAIN f /\ i # -1 /\ i \notin numbers
    BY <1>1, <1>8, <1>12 DEF Of
  <2> QED
    BY <1>6, <1>11, <2>1 DEF Same
<1>13. ASSUME NEW i \in Of(f, "key")
       PROVE  /\ g[i].key = f[i].key
              /\ i \in numbers => g[i] = [f[i] EXCEPT !.private = new] /\ g[i].private = new
              /\ i \notin numbers => g[i] = f[i]
  <2>1. i \in DOMAIN f /\ i # -1
    BY <1>8 DEF Of
  <2> QED
    BY <1>5, <1>6, <2>1
<1>14. \A k, i : IsTop(g, k, i) <=> IsTop(f, k, i)
  BY <1>11, <1>13 DEF IsTop
<1> QED
  BY <1>2, <1>7, <1>10, <1>11, <1>12, <1>13, <1>14 DEF numbers, EncryptedAs

LEMMA EncryptedKeep ==
    ASSUME NEW f, NEW g, NEW ks, NEW R, NEW part \in SUBSET DOMAIN ks, NEW new \in Passwords,
           Shape(f), -1 \in DOMAIN f, MirrorKeys(ks, f, R), IsEncrypted(g, f, ks, part, new),
           NEW P, Keep(f, P)
    PROVE  Keep(g, P)
<1> SUFFICES ASSUME NEW k \in P PROVE \E i \in Of(g, "key") : IsTop(g, k, i) /\ g[i].private # NoPassword
  BY DEF Keep
<1>1. PICK i \in Of(f, "key") : IsTop(f, k, i) /\ f[i].private # NoPassword
  BY DEF Keep
<1>2. /\ Of(g, "key") = Of(f, "key") /\ IsTop(g, k, i)
      /\ i \in Numbers(ks, part) => g[i].private = new
      /\ i \notin Numbers(ks, part) => g[i] = f[i]
  <2>1. EncryptedAs(g, f, ks, part, new)
    BY EncryptedRecords
  <2> QED
    BY <1>1, <2>1 DEF EncryptedAs
<1> QED
  BY <1>1, <1>2, PasswordsAssumption

\* A file with all private keys encrypted again is readable with the new
\* password, and one with some of them is if the old one counts as well.
LEMMA EncryptedSafe ==
    ASSUME NEW f, NEW g, NEW ks, NEW R, NEW part \in SUBSET DOMAIN ks, NEW new \in Passwords,
           NEW D, NEW X, NEW I, NEW P, NEW Q, NEW n, Safe(f, D, X, I, P, n), MirrorKeys(ks, f, R), R \subseteq X,
           IsEncrypted(g, f, ks, part, new), P \subseteq Q, f[-1].password \in Q \/ part = Private(ks)
    PROVE  Safe(g, D, X, I, Q, n)
<1>1. /\ Shape(f) /\ -1 \in DOMAIN f /\ Fresh(f) /\ OneChild(f) /\ ChildCounts(f, I, n)
      /\ AccountCounts(f, D, I) /\ Readable(f, X, {f[-1].password} \cup P)
  BY DEF Safe
<1>2. /\ DOMAIN g = DOMAIN f /\ Shape(g) /\ g[-1].password = new
      /\ Same(f, g, "next") /\ Same(f, g, "child") /\ Same(f, g, "account")
      /\ Of(g, "key") = Of(f, "key")
      /\ \A k, i : IsTop(g, k, i) => IsTop(f, k, i)
      /\ \A i \in Of(f, "key") : /\ g[i].key = f[i].key
                                 /\ i \in Numbers(ks, part) => g[i].private = new
                                 /\ i \notin Numbers(ks, part) => g[i] = f[i]
  <2>1. EncryptedAs(g, f, ks, part, new)
    BY <1>1, EncryptedRecords
  <2> QED
    BY <1>1, <2>1 DEF EncryptedAs
<1>3. NextIn(g) = NextIn(f)
  BY <1>1, <1>2, SameNext
<1>4. Fresh(g)
  BY <1>1, <1>2, <1>3 DEF Fresh
<1>5. OneChild(g) /\ ChildCounts(g, I, n)
  BY <1>1, <1>2, SameChild
<1>6. AccountCounts(g, D, I)
  BY <1>1, <1>2, SameAccounts
<1>7. Readable(g, X, {new} \cup Q)
  <2> SUFFICES ASSUME NEW i \in Of(g, "key"), g[i].key \notin X, IsTop(g, g[i].key, i)
               PROVE  g[i].private \in ({new} \cup Q) \cup {NoPassword}
    BY DEF Readable
  <2> DEFINE k == g[i].key
             j == ks[k].index
  <2>1. i \in Of(f, "key") /\ IsTop(f, k, i) /\ k = f[i].key /\ k \notin X
    BY <1>2
  <2>2. k \in DOMAIN ks
    BY <2>1 DEF MirrorKeys
  <2>3. IsTop(f, k, j)
    BY <2>2 DEF MirrorKeys
  <2>4. ks[k].record = f[j] /\ (j \in Numbers(ks, part) <=> k \in part)
    <3>1. KeysNumbered(ks, f, part)
      BY <1>1, KeyNumbers
    <3> QED
      BY <2>2, <3>1 DEF KeysNumbered
  <2> HIDE DEF k, j
  <2>5. i = j
    <3>1. Of(f, "key") \subseteq Int
      BY <1>1, FileTypes DEF Of
    <3>2. i <= j /\ j <= i /\ i \in Int /\ j \in Int
      BY <2>1, <2>3, <3>1 DEF IsTop
    <3> QED
      BY <3>2
  <2>6. CASE k \in part
    BY <1>2, <2>1, <2>4, <2>5, <2>6
  <2>7. CASE k \notin part
    <3>1. g[i] = f[i]
      BY <1>2, <2>1, <2>4, <2>5, <2>7
    <3>2. f[i].private \in ({f[-1].password} \cup P) \cup {NoPassword}
      BY <1>1, <2>1 DEF Readable
    <3>3. part = Private(ks) => f[i].private = NoPassword
      BY <2>2, <2>4, <2>5, <2>7 DEF Private
    <3> QED
      BY <3>1, <3>2, <3>3
  <2> QED
    BY <2>6, <2>7
<1> QED
  BY <1>1, <1>2, <1>4, <1>5, <1>6, <1>7 DEF Safe

\* The keys in memory follow.
LEMMA EncryptedMirrors ==
    ASSUME NEW f, NEW g, NEW ks, NEW R, NEW part \in SUBSET DOMAIN ks, NEW new \in Passwords,
           Shape(f), -1 \in DOMAIN f, MirrorKeys(ks, f, R), IsEncrypted(g, f, ks, part, new)
    PROVE  /\ MirrorKeys(EncryptedKeys(ks, part, new), g, R)
           /\ DOMAIN EncryptedKeys(ks, part, new) = DOMAIN ks
           /\ Private(ks) \subseteq Private(EncryptedKeys(ks, part, new))
<1> DEFINE b == EncryptedKeys(ks, part, new)
<1>0. EncryptedAs(g, f, ks, part, new)
  BY EncryptedRecords
<1>1. DOMAIN b = DOMAIN ks /\ b = [k \in DOMAIN b |-> b[k]]
  BY DEF EncryptedKeys
<1>2. \A k \in DOMAIN ks :
        b[k] = IF k \in part
               THEN [record |-> [ks[k].record EXCEPT !.private = new], index |-> ks[k].index]
               ELSE ks[k]
  BY DEF EncryptedKeys
<1> HIDE DEF b
<1>3. ASSUME NEW k \in DOMAIN ks
      PROVE  /\ IsTop(g, k, b[k].index) /\ b[k] = [record |-> g[b[k].index], index |-> b[k].index]
             /\ k \in Private(ks) => k \in Private(b)
  <2> DEFINE i == ks[k].index
  <2>1. /\ i \in Of(f, "key") /\ ks[k].record = f[i] /\ (i \in Numbers(ks, part) <=> k \in part)
    <3>1. KeysNumbered(ks, f, part)
      BY KeyNumbers
    <3> QED
      BY <3>1 DEF KeysNumbered
  <2>2. IsTop(f, k, i) /\ ks[k] = [record |-> f[i], index |-> i]
    BY DEF MirrorKeys
  <2>3. /\ IsTop(g, k, i)
        /\ i \in Numbers(ks, part) => g[i] = [f[i] EXCEPT !.private = new] /\ g[i].private = new
        /\ i \notin Numbers(ks, part) => g[i] = f[i]
    BY <1>0, <2>1, <2>2 DEF EncryptedAs
  <2> HIDE DEF i
  <2>4. b[k] = [record |-> g[i], index |-> i]
    <3>1. CASE k \in part
      BY <1>2, <2>1, <2>3, <3>1 DEF i
    <3>2. CASE k \notin part
      BY <1>2, <2>1, <2>2, <2>3, <3>2
    <3> QED
      BY <3>1, <3>2
  <2>5. b[k].index = i /\ b[k].record = g[i]
    BY <2>4
  <2>6. k \in Private(ks) => k \in Private(b)
    BY <1>1, <2>1, <2>3, <2>5, PasswordsAssumption DEF Private
  <2> QED
    BY <2>3, <2>4, <2>5, <2>6
<1>4. ASSUME NEW i \in Of(g, "key") PROVE g[i].key \in DOMAIN b \cup R
  <2>1. i \in Of(f, "key") /\ g[i].key = f[i].key
    BY <1>0 DEF EncryptedAs
  <2> QED
    BY <1>1, <2>1 DEF MirrorKeys
<1>5. MirrorKeys(b, g, R)
  BY <1>1, <1>3, <1>4 DEF MirrorKeys
<1>6. Private(ks) \subseteq Private(b)
  BY <1>3 DEF Private
<1> QED
  BY <1>1, <1>5, <1>6 DEF b

LEMMA EncryptedCall ==
    ASSUME NEW c, NEW I, NEW S, CallSafe(c, I, S), NEW part \in SUBSET DOMAIN c.m.keys, NEW new \in Passwords
    PROVE  LET g == Encrypted(c, part, new)
               b == EncryptedKeys(c.m.keys, part, new)
           IN  /\ Shape(g) /\ g[-1].password = new /\ -1 \in DOMAIN g
               /\ \A type : type \notin {"master", "key"} => Same(c.file, g, type)
               /\ \A Q : replaced \subseteq Q /\ (mem.master \in Q \/ part = Private(c.m.keys)) =>
                    Safe(g, removed \cup inexact, removed \cup mistaken', I, Q, db_calls + 1)
               /\ Keep(g, Private(c.m.keys))
               /\ MirrorKeys(b, g, removed) /\ DOMAIN b = DOMAIN c.m.keys
               /\ Private(c.m.keys) \subseteq Private(b)
<1> DEFINE g == Encrypted(c, part, new)
           b == EncryptedKeys(c.m.keys, part, new)
           f == c.file
           ks == c.m.keys
<1>1. IsEncrypted(g, f, ks, part, new)
  BY EncryptedIs
<1>2. /\ Safe(f, removed \cup inexact, removed \cup mistaken', I, replaced, db_calls + 1)
      /\ Shape(f) /\ -1 \in DOMAIN f /\ f[-1].password = mem.master
      /\ MirrorKeys(ks, f, removed) /\ part \in SUBSET DOMAIN ks
  BY CallFacts DEF CallFile
<1>3. Keep(f, Private(ks))
  BY CallFacts, MirrorsKeep
<1> HIDE DEF g, f, ks
<1>4. EncryptedAs(g, f, ks, part, new)
  BY <1>1, <1>2, EncryptedRecords
<1>5. ASSUME NEW Q, replaced \subseteq Q, mem.master \in Q \/ part = Private(ks)
      PROVE  Safe(g, removed \cup inexact, removed \cup mistaken', I, Q, db_calls + 1)
  <2>1. f[-1].password \in Q \/ part = Private(ks)
    BY <1>2, <1>5
  <2>2. removed \subseteq removed \cup mistaken'
    OBVIOUS
  <2> QED
    BY <1>1, <1>2, <1>5, <2>1, <2>2, EncryptedSafe
<1>6. Keep(g, Private(ks))
  BY <1>1, <1>2, <1>3, EncryptedKeep
<1>7. /\ MirrorKeys(EncryptedKeys(ks, part, new), g, removed)
      /\ DOMAIN EncryptedKeys(ks, part, new) = DOMAIN ks
      /\ Private(ks) \subseteq Private(EncryptedKeys(ks, part, new))
  BY <1>1, <1>2, EncryptedMirrors
<1>8. /\ Shape(g) /\ g[-1].password = new /\ -1 \in DOMAIN g
      /\ \A type : type \notin {"master", "key"} => Same(f, g, type)
  BY <1>2, <1>4 DEF EncryptedAs
<1> QED
  BY <1>5, <1>6, <1>7, <1>8 DEF g, f, ks

WithMaster(o, new, b) == [o EXCEPT !.master = new, !.keys = b]

LEMMA ReencryptedMirrors ==
    ASSUME NEW c, NEW I, NEW S, CallSafe(c, I, S), NEW done \in SUBSET DOMAIN c.m.keys, NEW new \in Passwords,
           NEW o, NEW b, NEW m, o = c.m, b = EncryptedKeys(c.m.keys, done, new),
           m = WithMaster(o, new, b)
    PROVE  Mirrors(m, Encrypted(c, done, new), removed, S) /\ m.master = new /\ m.keys = b
<1> DEFINE g == Encrypted(c, done, new)
           f == c.file
<1>1. /\ Shape(g) /\ g[-1].password = new /\ -1 \in DOMAIN g
      /\ \A type : type \notin {"master", "key"} => Same(f, g, type)
      /\ MirrorKeys(b, g, removed)
  BY EncryptedCall
<1>2. /\ Shape(f) /\ Maps(o) /\ o.next = NextIn(f) /\ MirrorChild(o.child, f)
      /\ MirrorAccounts(o.accounts, o.by_address, o.by_name, f, S)
  BY CallFacts
<1> HIDE DEF g, f
<1>3. /\ Maps(m) /\ m.next = o.next /\ m.child = o.child /\ m.accounts = o.accounts
      /\ m.by_address = o.by_address /\ m.by_name = o.by_name /\ m.master = new /\ m.keys = b
  <2>1. m = [o EXCEPT !.master = new, !.keys = b]
    BY DEF WithMaster
  <2> QED
    BY <1>2, <2>1 DEF Maps, Fields
<1>4. NextIn(g) = NextIn(f)
  <2>1. Same(f, g, "next")
    BY <1>1
  <2> QED
    BY <1>1, <1>2, <2>1, SameNext
<1>5. MirrorChild(m.child, g)
  <2> DEFINE ch == o.child
  <2>1. Same(f, g, "child") /\ MirrorChild(ch, f)
    BY <1>1, <1>2
  <2> HIDE DEF ch
  <2>2. MirrorChild(ch, g)
    BY <2>1, SameChild
  <2> QED
    BY <1>3, <2>2 DEF ch
<1>6. MirrorAccounts(m.accounts, m.by_address, m.by_name, g, S)
  <2> DEFINE x == o.accounts
             y == o.by_address
             z == o.by_name
  <2>1. Same(f, g, "account") /\ MirrorAccounts(x, y, z, f, S)
    BY <1>1, <1>2
  <2> HIDE DEF x, y, z
  <2>2. MirrorAccounts(x, y, z, g, S)
    BY <2>1, SameAccounts
  <2> QED
    BY <1>3, <2>2 DEF x, y, z
<1>7. Mirrors(m, g, removed, S)
  BY <1>1, <1>2, <1>3, <1>4, <1>5, <1>6 DEF Mirrors, MasterIn
<1> QED
  BY <1>3, <1>7 DEF g

\* A crash leaves an old file, one with all private keys done, or one that
\* the old password counts for as well.
LEMMA ChangePassphrase ==
    ASSUME StateInv, Counted, UNCHANGED removed, NEW new \in Passwords, change_passphrase(new)
    PROVE  StateInv' /\ (Grows \/ Stops)
<1> DEFINE private == {k \in DOMAIN mem.keys : has_private_key(mem, k)}
           fit == {k \in private : mem.keys[k].record.private = wallet_password}
           fits == fit = private
           more == replaced \cup {wallet_password}
           call == NewCall
<1>1. /\ mem.open /\ UNCHANGED <<issued, reused>> /\ inexact \subseteq inexact'
      /\ wallet_password = mem.master /\ wallet_password \in Passwords /\ replaced \subseteq Passwords
  BY DEF change_passphrase, trusted, unlocked, StateInv, Counted
<1>2. PICK done \in IF fits THEN {private} ELSE SUBSET fit :
        \E c \in {Reencrypted(call, done, new)} :
          \/ /\ Finishes(c) /\ wallet_password' = IF fits THEN new ELSE wallet_password
             /\ replaced' = IF fits THEN replaced ELSE more
          \/ /\ Crashes(c)
             /\ replaced' = IF file' \in left \/ (fits /\ file' = c.file) THEN replaced ELSE more
  BY DEF change_passphrase
<1>3. private = Private(mem.keys) /\ done \subseteq private /\ done \subseteq DOMAIN mem.keys /\ (fits => done = private)
  BY DEF has_private_key, HasKey, Private
<1>4. /\ CallSafe(call, issued, inexact) /\ Ready /\ call.m = mem /\ call.during = left
  BY <1>1, Begins
<1> DEFINE c == Reencrypted(call, done, new)
           g == Encrypted(call, done, new)
           m == [mem EXCEPT !.master = new, !.keys = EncryptedKeys(mem.keys, done, new)]
<1> HIDE DEF call
<1>5. c.m = m /\ c.file = g /\ c.after = {g} /\ c.during = left \cup {Encrypted(call, part, new) : part \in SUBSET done}
  BY <1>4 DEF Reencrypted
<1>6. \/ /\ Finishes(c) /\ wallet_password' = IF fits THEN new ELSE wallet_password
         /\ replaced' = IF fits THEN replaced ELSE more
      \/ /\ Crashes(c)
         /\ replaced' = IF file' \in left \/ (fits /\ file' = c.file) THEN replaced ELSE more
  BY <1>2
<1> DEFINE SafeWith(h, Q) == Safe(h, removed \cup inexact, removed \cup mistaken', issued, Q, db_calls + 1)
           SafeLate(h) == Safe(h, removed' \cup inexact', removed' \cup mistaken', issued', replaced', db_calls + 1)
<1> HIDE DEF c, private, fit, fits
<1>7. ASSUME NEW h, SafeWith(h, replaced') PROVE SafeLate(h)
  <2>1. removed \cup inexact \subseteq removed' \cup inexact' /\ db_calls + 1 \in Nat
        /\ removed \cup mistaken' \subseteq removed' \cup mistaken'
    BY <1>1, <1>4 DEF Ready
  <2>2. Safe(h, removed' \cup inexact', removed' \cup mistaken', issued, replaced', db_calls + 1)
    BY <1>7, <2>1, SafeLater
  <2> QED
    BY <1>1, <2>2
<1>8. ASSUME NEW part \in SUBSET done
      PROVE  LET h == Encrypted(call, part, new)
             IN  /\ part = private => SafeWith(h, replaced)
                 /\ SafeWith(h, more) /\ Keep(h, Private(mem.keys))
  <2>1. part \in SUBSET DOMAIN call.m.keys
    BY <1>3, <1>4
  <2> DEFINE h == Encrypted(call, part, new)
  <2>2. /\ \A Q : replaced \subseteq Q /\ (mem.master \in Q \/ part = Private(call.m.keys)) => SafeWith(h, Q)
        /\ Keep(h, Private(call.m.keys))
    BY <1>4, <2>1, EncryptedCall
  <2> HIDE DEF h
  <2>3. part = private => SafeWith(h, replaced)
    BY <1>3, <1>4, <2>2
  <2>4. SafeWith(h, more)
    BY <1>1, <2>2
  <2> QED
    BY <1>4, <2>2, <2>3, <2>4 DEF h
<1>9. /\ Mirrors(m, g, removed, inexact) /\ DOMAIN mem.keys \subseteq DOMAIN m.keys
      /\ Private(mem.keys) \subseteq Private(m.keys)
  <2>1. done \in SUBSET DOMAIN call.m.keys
    BY <1>3, <1>4
  <2> DEFINE b == EncryptedKeys(mem.keys, done, new)
  <2>2. b = EncryptedKeys(call.m.keys, done, new) /\ m = WithMaster(mem, new, b)
    BY <1>4 DEF WithMaster
  <2> HIDE DEF b, m
  <2>3. Mirrors(m, Encrypted(call, done, new), removed, inexact) /\ m.keys = b
    BY <1>4, <2>1, <2>2, ReencryptedMirrors
  <2>4. DOMAIN b = DOMAIN call.m.keys /\ Private(call.m.keys) \subseteq Private(b)
    BY <1>4, <2>1, <2>2, EncryptedCall
  <2> QED
    BY <1>4, <2>3, <2>4 DEF g
<1> HIDE DEF m
<1>10. IssuedOnce' /\ issued' \subseteq Issuable
  BY <1>1, OnceLater
<1>11. more \subseteq Passwords /\ replaced' \subseteq Passwords
  BY <1>1, <1>6
<1>12. CASE /\ Finishes(c) /\ wallet_password' = IF fits THEN new ELSE wallet_password
            /\ replaced' = IF fits THEN replaced ELSE more
  <2>1. SafeLate(g)
    BY <1>3, <1>7, <1>8, <1>12
  <2> HIDE DEF g
  <2>2. Keep(g, Private(m.keys))
    BY <1>9, MirrorsKeep
  <2>3. Mirrors(c.m, c.file, removed', inexact')
    BY <1>1, <1>5, <1>9, MirrorsMore
  <2>4. wallet_password' \in Passwords \cup {NoPassword}
    BY <1>1, <1>12
  <2>5. StateInv' /\ mem'.open
    BY <1>5, <1>10, <1>11, <1>12, <2>1, <2>2, <2>3, <2>4, Ends
  <2>6. Grows
    BY <1>1, <1>5, <1>9, <1>12, <2>5 DEF Grows, Finishes
  <2> QED
    BY <2>5, <2>6
<1>13. CASE /\ Crashes(c)
            /\ replaced' = IF file' \in left \/ (fits /\ file' = c.file) THEN replaced ELSE more
  <2>1. file' \in c.during
    BY <1>13 DEF Crashes
  <2>2. \A h \in left : SafeWith(h, replaced) /\ Keep(h, Private(mem.keys))
    BY <1>4 DEF CallSafe, CallFile
  <2>3. \A h \in c.during : Keep(h, Private(mem.keys))
    BY <1>5, <1>8, <2>2
  <2>4. SafeLate(file')
    <3>1. CASE file' \in left
      <4>1. SafeWith(file', replaced')
        BY <1>13, <2>2, <3>1
      <4> QED
        BY <1>7, <4>1
    <3>2. CASE file' \notin left /\ fits /\ file' = c.file
      <4>1. file' = Encrypted(call, done, new) /\ done = private /\ replaced' = replaced
        BY <1>3, <1>5, <1>13, <3>2
      <4>2. SafeWith(file', replaced')
        BY <1>8, <4>1
      <4> QED
        BY <1>7, <4>2
    <3>3. CASE file' \notin left /\ ~(fits /\ file' = c.file)
      <4>1. replaced' = more
        BY <1>13, <3>3
      <4>2. PICK part \in SUBSET done : file' = Encrypted(call, part, new)
        BY <1>5, <2>1, <3>3
      <4>3. SafeWith(file', replaced')
        BY <1>8, <4>1, <4>2
      <4> QED
        BY <1>7, <4>3
    <3> QED
      BY <3>1, <3>2, <3>3
  <2> QED
    BY <1>1, <1>10, <1>11, <1>13, <2>3, <2>4, Breaks
<1> QED
  BY <1>6, <1>12, <1>13

-----------------------------------------------------------------------------
(* The invariant.                                                          *)

\* The steps that are not counted: the wallet is opened, or what they change
\* is neither in the file nor in the maps.
Starts == ~mem.open /\ mem'.open /\ mem' = Loaded(file) /\ UNCHANGED <<file, held>>
Rests == UNCHANGED <<mem, file, held>>

Uncounted ==
  /\ \/ open_wallet /\ UNCHANGED <<on_chain, wallet_password>>
     \/ unlock_wallet(mem.master) /\ UNCHANGED <<on_chain, mem>>
     \/ chain_changes /\ UNCHANGED <<wallet_password, mem>>
  /\ UNCHANGED <<file, left, held, removed, issued, reused, inexact, replaced, mistaken, db_calls>>

LEMMA OpenWallet ==
    ASSUME StateInv, open_wallet,
           UNCHANGED <<file, left, held, removed, issued, reused, inexact, replaced, mistaken, db_calls,
                       on_chain, wallet_password>>
    PROVE  StateInv' /\ Starts
<1>1. ~mem.open /\ mem' = Loaded(file)
  BY DEF open_wallet
<1>2. left = {file} /\ Safe(file, removed \cup inexact, removed \cup mistaken, issued, replaced, db_calls)
  BY <1>1 DEF StateInv
<1>3. Formed(file)
  BY <1>2 DEF Safe, Formed
<1> DEFINE m == Loaded(file)
<1>4. mem' = m /\ Mirrors(m, file, {}, {})
  BY <1>1, <1>3, LoadedMirrors DEF Image
<1> HIDE DEF m
<1>5. Mirrors(m, file, removed, inexact) /\ m.open = TRUE
  <2>1. Mirrors(m, file, removed, inexact)
    BY <1>4, MirrorsMore
  <2> QED
    BY <2>1 DEF Mirrors, Maps
<1>6. Keep(file, Private(m.keys))
  BY <1>5, MirrorsKeep
<1>7. IssuedOnce'
  BY DEF IssuedOnce, NotReissued, StateInv
<1>8. StateInv'
  BY <1>2, <1>4, <1>5, <1>6, <1>7 DEF StateInv
<1> QED
  BY <1>1, <1>4, <1>5, <1>8 DEF Starts

LEMMA MasterIs ==
    ASSUME StateInv, mem.open
    PROVE  mem.master \in Passwords
<1>1. Mirrors(mem, file, removed, inexact) /\ Shape(file) /\ -1 \in DOMAIN file
  BY DEF StateInv, Safe
<1>2. file[-1] \in MasterRecords
  BY <1>1 DEF Shape, Valid
<1> QED
  BY <1>1, <1>2 DEF Mirrors, MasterIn, MasterRecords

LEMMA UncountedStep ==
    ASSUME StateInv, Uncounted
    PROVE  StateInv' /\ (Starts \/ Rests)
<1>1. CASE open_wallet /\ UNCHANGED <<on_chain, wallet_password>>
  BY <1>1, OpenWallet DEF Uncounted
<1>2. CASE UNCHANGED mem /\ wallet_password' \in Passwords \cup {NoPassword} /\ on_chain' \subseteq Registered
           /\ (~mem.open => UNCHANGED wallet_password)
  <2>1. IssuedOnce'
    BY DEF IssuedOnce, NotReissued, StateInv, Uncounted
  <2> QED
    BY <1>2, <2>1 DEF StateInv, Uncounted, Rests
<1>3. CASE unlock_wallet(mem.master) /\ UNCHANGED <<on_chain, mem>>
  <2>1. wallet_password' \in Passwords /\ mem.open
    BY <1>3, MasterIs DEF unlock_wallet
  <2> QED
    BY <1>2, <1>3, <2>1 DEF StateInv
<1>4. CASE chain_changes /\ UNCHANGED <<wallet_password, mem>>
  BY <1>2, <1>4 DEF StateInv, chain_changes
<1> QED
  BY <1>1, <1>3, <1>4 DEF Uncounted

\* Every call keeps the state invariant.
LEMMA OperationStep ==
    ASSUME StateInv, Counted, Operation, Lost(mem.accounts, mem'.accounts) \subseteq inexact'
    PROVE  StateInv' /\ (Grows \/ Stops)
<1>1. CASE (close_wallet \/ crash) /\ UNCHANGED <<removed, replaced, mistaken>>
  BY <1>1, CloseWallet, Crash
<1>2. CASE /\ lock_wallet \/ wrong_password
           /\ UNCHANGED <<file, left, mem, issued, reused, removed, replaced, mistaken>>
  BY <1>2, LockAndUnlock
<1>3. CASE Leads(mem) /\ Storing /\ UNCHANGED <<removed, replaced, mistaken>>
  <2>1. CASE store_transaction
    BY <1>3, <2>1, StoreTransaction
  <2>2. ASSUME NEW n \in Names, create_account(n) PROVE StateInv' /\ (Grows \/ Stops)
    BY <1>3, <2>2, CreateAccount
  <2>3. ASSUME NEW n \in Names, get_new_address(n) PROVE StateInv' /\ (Grows \/ Stops)
    BY <1>3, <2>3, GetNewAddress
  <2>4. ASSUME NEW n \in Names, scan_account(n) PROVE StateInv' /\ (Grows \/ Stops)
    BY <1>3, <2>4, ScanAccount
  <2>5. ASSUME NEW n \in Names, NEW k \in Contacts \cup {owner_key[r] : r \in Registered}, add_contact_account(n, k)
        PROVE  StateInv' /\ (Grows \/ Stops)
    <3>1. k \in Accounts
      BY DEF Accounts
    <3> QED
      BY <1>3, <2>5, <3>1, AddContactAccount
  <2> QED
    BY <1>3, <2>1, <2>2, <2>3, <2>4, <2>5 DEF Storing
<1>4. ASSUME NEW k \in Keys, Leads(mem), import_private_key(k), UNCHANGED <<removed, replaced>>
      PROVE  StateInv' /\ (Grows \/ Stops)
  BY <1>4, ImportPrivateKey
<1>5. ASSUME NEW n \in Names, NEW k \in Imports, Leads(mem), store_foreign_key(k, n), UNCHANGED <<removed, replaced>>
      PROVE  StateInv' /\ (Grows \/ Stops)
  BY <1>5, StoreForeignKey
<1>6. ASSUME NEW new \in Passwords, change_passphrase(new), UNCHANGED <<removed, mistaken>>
      PROVE  StateInv' /\ (Grows \/ Stops)
  BY <1>6, ChangePassphrase
<1> QED
  BY <1>1, <1>2, <1>3, <1>4, <1>5, <1>6 DEF Operation

\* The counted steps, one by one
LEMMA CountedStep ==
    ASSUME StateInv, DbNext, ~Uncounted
    PROVE  Counted
<1>1. /\ db_calls < MaxDbCalls /\ db_calls' = db_calls + 1 /\ UNCHANGED on_chain
      /\ inexact \cup Shared(file') \subseteq inexact'
  BY DEF DbNext, Uncounted
<1>2. UNCHANGED mistaken \/ \E k \in Keys : StoredNow(k)
  <2>1. \A k : import_private_key(k) => StoredNow(k)
    BY DEF import_private_key
  <2>2. \A k, n : store_foreign_key(k, n) => StoredNow(k)
    BY DEF store_foreign_key
  <2>3. Operation => UNCHANGED mistaken \/ \E k \in Keys : StoredNow(k)
    <3>1. Imports \subseteq Keys
      BY DEF Keys
    <3> QED
      BY <2>1, <2>2, <3>1 DEF Operation
  <2> QED
    BY <2>3 DEF DbNext, Uncounted
<1>3. mistaken \subseteq mistaken' /\ mistaken' \subseteq Keys
  <2>1. mistaken \subseteq Keys
    BY DEF StateInv
  <2> QED
    BY <1>2, <2>1 DEF StoredNow
<1> QED
  BY <1>1, <1>3 DEF Counted

LEMMA StepKeepsState ==
    ASSUME StateInv, DbNext
    PROVE  StateInv' /\ (Grows \/ Stops \/ Starts \/ Removes \/ Rests)
<1>1. CASE Uncounted
  BY <1>1, UncountedStep
<1>2. CASE ~Uncounted
  <2>1. Counted
    BY <1>2, CountedStep
  <2>2. CASE Operation /\ inexact' = inexact \cup Shared(file') \cup Lost(mem.accounts, mem'.accounts)
    BY <2>1, <2>2, OperationStep
  <2>3. ASSUME NEW n \in Names, NEW new \in Names, Leads(mem), rename_account(n, new), UNCHANGED <<removed, replaced>>
        PROVE  StateInv' /\ (Grows \/ Stops)
    BY <2>1, <2>3, RenameAccount
  <2>4. ASSUME NEW n \in Names, Leads(mem), UNCHANGED replaced, remove_contact_account(n),
               inexact' = inexact \cup Shared(file') \cup ({Named(mem, n).name} \ {n})
        PROVE  StateInv' /\ (Removes \/ Stops)
    <3>1. {Named(mem, n).name} \ {n} \subseteq inexact'
      BY <2>4
    <3> QED
      BY <2>1, <2>4, <3>1, RemoveContactAccount
  <2> QED
    BY <1>2, <2>2, <2>3, <2>4 DEF DbNext, Uncounted
<1> QED
  BY <1>1, <1>2

LEMMA StutterKeepsState ==
    ASSUME StateInv, UNCHANGED db_vars
    PROVE  StateInv'
  BY DEF StateInv, db_vars, IssuedOnce, NotReissued

\* A new wallet.
LEMMA StateStarts ==
    ASSUME DbInit
    PROVE  StateInv /\ mem.open /\ DOMAIN mem.keys = {}
<1> DEFINE p == wallet_password
           f == file
           m == mem
<1>1. /\ p \in Passwords /\ f = [i \in {-1} |-> MasterRecord(p)] /\ left = {f} /\ m = Loaded(f)
      /\ removed = {} /\ issued = {} /\ reused = {} /\ db_calls = 0
      /\ inexact = {} /\ replaced = {} /\ mistaken = {} /\ on_chain \subseteq Registered
  BY PasswordsAssumption DEF DbInit
<1> HIDE DEF p, f, m
<1>2. DOMAIN f = {-1} /\ f[-1] = MasterRecord(p) /\ f[-1].type = "master" /\ f[-1] \in MasterRecords
  BY <1>1 DEF MasterRecord, MasterRecords
<1>3. Shape(f)
  <2>1. IsFiniteSet({-1})
    BY FS_Singleton
  <2> QED
    BY <1>1, <1>2, <2>1 DEF Shape, Valid
<1>4. Of(f, "child") = {} /\ Of(f, "account") = {} /\ Of(f, "key") = {}
  BY <1>2 DEF Of
<1>5. Formed(f) /\ Distinct(f, {})
  BY <1>3, <1>4 DEF Formed, OneChild, Distinct
<1>6. Safe(f, {}, {}, {}, {}, 0)
  BY <1>2, <1>3, <1>4, <1>5 DEF Safe, Formed, Fresh, NextIn, ChildCounts, AccountCounts, Readable
<1>7. Mirrors(m, f, {}, {})
  BY <1>1, <1>5, LoadedMirrors DEF Image
<1>8. m.open = TRUE
  BY <1>7 DEF Mirrors, Maps
<1>9. DOMAIN m.keys = {}
  BY <1>4, <1>7 DEF Mirrors, MirrorKeys, IsTop
<1>10. Keep(f, Private(m.keys))
  BY <1>9 DEF Keep, Private
<1>11. IssuedOnce
  BY <1>1 DEF IssuedOnce, NotReissued
<1>12. p = wallet_password /\ f = file /\ m = mem
  BY DEF p, f, m
<1>13. StateInv
  <2>1. Mirrors(mem, file, removed, inexact) /\ mem.open = TRUE
    BY <1>1, <1>7, <1>8, <1>12
  <2>2. /\ Safe(file, removed \cup inexact, removed \cup mistaken, issued, replaced, db_calls)
        /\ Keep(file, Private(mem.keys)) /\ left = {file} /\ Distinct(file, inexact)
    <3>1. removed \cup inexact = {} /\ removed \cup mistaken = {}
      BY <1>1
    <3> QED
      BY <1>1, <1>5, <1>6, <1>10, <1>12, <3>1
  <2>3. /\ wallet_password \in Passwords \cup {NoPassword} /\ issued \subseteq Issuable
        /\ replaced \subseteq Passwords /\ mistaken \subseteq Keys /\ on_chain \subseteq Registered
        /\ db_calls \in 0 .. MaxDbCalls
    BY <1>1, <1>12, MaxDbCallsAssumption
  <2> QED
    BY <1>11, <2>1, <2>2, <2>3 DEF StateInv
<1> QED
  BY <1>8, <1>9, <1>12, <1>13

\* What held says after a step.
LEMMA HeldAfter ==
    ASSUME DbInv, DbNext, StateInv', Grows \/ Stops \/ Starts \/ Removes \/ Rests
    PROVE  held' = Levels(IF mem'.open THEN mem'.keys ELSE Loaded(file').keys)
<1>1. CASE Uncounted
  <2>1. Starts \/ Rests
    BY <1>1, UncountedStep DEF DbInv
  <2> QED
    BY <2>1 DEF DbInv, Starts, Rests
<1>2. CASE ~Uncounted
  BY <1>2 DEF DbNext, Uncounted
<1> QED
  BY <1>1, <1>2

\* The invariant of the wallet database.
LEMMA DbInvariant == DbSpec => []DbInv
<1>1. DbInit => DbInv
  <2> SUFFICES ASSUME DbInit PROVE DbInv
    OBVIOUS
  <2>1. StateInv /\ mem.open /\ DOMAIN mem.keys = {}
    BY StateStarts
  <2>2. held = Levels(mem.keys)
    BY <2>1 DEF DbInit, Levels
  <2> QED
    BY <2>1, <2>2 DEF DbInv
<1>2. DbInv /\ [DbNext]_db_vars => DbInv'
  <2>1. ASSUME DbInv, DbNext PROVE DbInv'
    <3>1. StateInv' /\ (Grows \/ Stops \/ Starts \/ Removes \/ Rests)
      BY <2>1, StepKeepsState DEF DbInv
    <3>2. held' = Levels(IF mem'.open THEN mem'.keys ELSE Loaded(file').keys)
      BY <2>1, <3>1, HeldAfter
    <3> QED
      BY <3>1, <3>2 DEF DbInv
  <2>2. ASSUME DbInv, UNCHANGED db_vars PROVE DbInv'
    <3>1. StateInv'
      BY <2>2, StutterKeepsState DEF DbInv
    <3> QED
      BY <2>2, <3>1 DEF DbInv, db_vars
  <2> QED
    BY <2>1, <2>2
<1> QED
  BY <1>1, <1>2, PTL DEF DbSpec

(* What the theorems are drawn from.                                       *)
LEMMA StateLoads ==
    ASSUME StateInv, NEW f \in left
    PROVE  /\ Safe(f, removed \cup inexact, removed \cup mistaken, issued, replaced, db_calls)
           /\ Formed(f) /\ Mirrors(Loaded(f), f, {}, {}) /\ file \in left
<1>1. /\ Safe(f, removed \cup inexact, removed \cup mistaken, issued, replaced, db_calls) /\ file \in left
  BY DEF StateInv
<1>2. Formed(f)
  BY <1>1 DEF Safe, Formed
<1> QED
  BY <1>1, <1>2, LoadedMirrors DEF Image

(* Type correctness of the wallet's maps and file: an open wallet has a    *)
(* master key, passwords are those of the user or none, and what is in the *)
(* history variables is what they are named for.                           *)
THEOREM WalletTypeCorrect == DbSpec => []DbTypeOK
<1>1. DbInv => DbTypeOK
  <2> SUFFICES ASSUME DbInv PROVE DbTypeOK
    OBVIOUS
  <2>0. StateInv
    BY DEF DbInv
  <2>1. \A i \in DOMAIN file : i = -1 \/ i >= 1
    <3>1. Shape(file)
      BY <2>0, StateLoads DEF StateInv, Formed
    <3> QED
      BY <3>1, FileTypes
  <2>2. mem.open \/ (mem = Closed /\ wallet_password = NoPassword /\ left = {file})
    BY <2>0 DEF StateInv
  <2>3. /\ issued \subseteq Keys /\ reused \subseteq issued /\ replaced \subseteq Passwords /\ mistaken \subseteq Keys
        /\ on_chain \subseteq Registered /\ db_calls \in 0 .. MaxDbCalls
        /\ wallet_password \in Passwords \cup {NoPassword}
    <3>1. Issuable \subseteq Keys
      BY DEF Issuable, Keys, Accounts, Generated
    <3> QED
      BY <2>0, <3>1 DEF StateInv, IssuedOnce
  <2>4. CASE ~mem.open
    <3>1. DOMAIN mem.keys = {}
      BY <2>2, <2>4 DEF Closed
    <3> QED
      BY <2>1, <2>2, <2>3, <2>4, <3>1 DEF DbTypeOK
  <2>5. CASE mem.open
    <3> DEFINE m == mem
               f == file
    <3>1. Mirrors(m, f, removed, inexact) /\ Shape(f)
      BY <2>0, <2>5 DEF StateInv, Safe
    <3>2. m.master \in Passwords
      BY <2>0, <2>5, MasterIs
    <3> HIDE DEF m, f
    <3>3. ASSUME NEW k \in DOMAIN m.keys
          PROVE  k \in Keys /\ m.keys[k].record.private \in Passwords \cup {NoPassword}
      <4> DEFINE i == m.keys[k].index
      <4>1. IsTop(f, k, i) /\ m.keys[k] = [record |-> f[i], index |-> i]
        BY <3>1 DEF Mirrors, MirrorKeys
      <4>2. m.keys[k].record = f[i]
        BY <4>1
      <4> HIDE DEF i
      <4>3. i \in Of(f, "key") /\ f[i].key = k
        BY <4>1 DEF IsTop
      <4>4. f[i] \in KeyRecords
        BY <3>1, <4>3, FileTypes
      <4> QED
        BY <4>2, <4>3, <4>4, RecordTypes
    <3> QED
      BY <2>1, <2>2, <2>3, <2>5, <3>2, <3>3 DEF DbTypeOK, m
  <2> QED
    BY <2>4, <2>5
<1> QED
  BY <1>1, DbInvariant, PTL

(* No record is overwritten by another after a restart: wherever a crash   *)
(* stops the program, the number that new_wallet_record_index gives out    *)
(* next is higher than the number of every record in the file.             *)
THEOREM RecordNumbersFresh == DbSpec => []IndexesFresh
<1>1. DbInv => IndexesFresh
  <2> SUFFICES ASSUME DbInv, NEW f \in left PROVE \A i \in DOMAIN f : i < Loaded(f).next
    BY DEF IndexesFresh
  <2>1. /\ Safe(f, removed \cup inexact, removed \cup mistaken, issued, replaced, db_calls)
        /\ Mirrors(Loaded(f), f, {}, {})
    BY StateLoads DEF DbInv
  <2>2. Loaded(f).next = NextIn(f) /\ Fresh(f)
    BY <2>1 DEF Mirrors, Safe
  <2> QED
    BY <2>2 DEF Fresh
<1> QED
  BY <1>1, DbInvariant, PTL

(* The maps that the calls of wallet_db update in place are those that     *)
(* wallet_db::open reads from the file again.  The exceptions: keys of     *)
(* removed contacts, whose records stay in the file, and the index entries *)
(* of names and addresses that two accounts have shared or that an account *)
(* has lost to its record on the chain.                                    *)
THEOREM ReopeningGivesSame == DbSpec => []ReopensSame
<1>1. DbInv => ReopensSame
  <2> SUFFICES ASSUME DbInv, mem.open PROVE ReopensSame
    BY DEF ReopensSame
  <2> DEFINE m == Loaded(file)
             n == mem
             f == file
  <2>1. Formed(f) /\ Mirrors(m, f, {}, {})
    BY StateLoads DEF DbInv, StateInv
  <2>2. Mirrors(n, f, removed, inexact) /\ Distinct(f, inexact)
    BY DEF DbInv, StateInv
  <2> HIDE DEF m, n, f
  <2>3. /\ m.next = n.next /\ m.master = n.master /\ m.child = n.child /\ m.accounts = n.accounts
        /\ \A k \in DOMAIN m.keys : k \in DOMAIN n.keys => m.keys[k] = n.keys[k]
        /\ \A k \in DOMAIN m.keys : k \in DOMAIN n.keys \cup removed
    BY <2>1, <2>2, MirrorsUnique
  <2>4. \A k \in DOMAIN n.keys : k \in DOMAIN m.keys
    BY <2>1, <2>2, MirrorsUnique
  <2>5. /\ Without(m.by_address, inexact) = Without(n.by_address, inexact)
        /\ Without(m.by_name, inexact) = Without(n.by_name, inexact)
    BY <2>1, <2>2, IndexesAgree
  <2>6. \A k \in DOMAIN m.keys : IF HasKey(n, k) THEN m.keys[k] = n.keys[k] ELSE k \in removed
    BY <2>3 DEF HasKey
  <2> QED
    BY <2>3, <2>4, <2>5, <2>6 DEF ReopensSame, m, n
<1> QED
  BY <1>1, DbInvariant, PTL

(* Wherever a crash stops the program, also between the writes of          *)
(* change_passphrase, the password of the master key record opens every    *)
(* private key, or a password does whose change did not come to its end.   *)
(* The exceptions are keys that had gone with a contact and keys stored    *)
(* while unlock had a wrong password.                                      *)
THEOREM KeysStayReadable == DbSpec => []KeysReadable
<1>1. DbInv => KeysReadable
  <2> SUFFICES ASSUME DbInv, NEW f \in left, NEW k \in DOMAIN Loaded(f).keys \ (removed \cup mistaken)
               PROVE  Loaded(f).keys[k].record.private \in {NoPassword, Loaded(f).master} \cup replaced
    BY DEF KeysReadable
  <2> DEFINE m == Loaded(f)
             i == m.keys[k].index
  <2>1. /\ Safe(f, removed \cup inexact, removed \cup mistaken, issued, replaced, db_calls)
        /\ Mirrors(m, f, {}, {})
    BY StateLoads DEF DbInv
  <2>2. IsTop(f, k, i) /\ m.keys[k] = [record |-> f[i], index |-> i]
    BY <2>1 DEF Mirrors, MirrorKeys
  <2>3. m.keys[k].record = f[i]
    BY <2>2
  <2>4. m.master = f[-1].password /\ Readable(f, removed \cup mistaken, {f[-1].password} \cup replaced)
    BY <2>1 DEF Mirrors, MasterIn, Safe
  <2> HIDE DEF m, i
  <2>5. f[i].private \in {NoPassword, m.master} \cup replaced
    BY <2>2, <2>4 DEF Readable, IsTop
  <2> QED
    BY <2>3, <2>5 DEF m
<1> QED
  BY <1>1, DbInvariant, PTL

(* A generated key is returned once, also after crashes: the counter of    *)
(* child keys and the number used last of an account are written with sync *)
(* before the key that they count.  Only an account that was removed and   *)
(* added again starts its numbers anew, and accounts that share an address *)
(* count the keys derived from it separately.                              *)
THEOREM KeysNotReissued == DbSpec => []NotReissued
<1>1. DbInv => NotReissued
  BY DEF DbInv, StateInv, IssuedOnce
<1> QED
  BY <1>1, DbInvariant, PTL

-----------------------------------------------------------------------------
(* The wallet implements KeyStore.                                         *)

\* What held says of a map of keys.
LEMMA LevelsAre ==
    ASSUME NEW ks
    PROVE  /\ Levels(ks) \in [Keys -> {"none", "public", "private"}]
           /\ \A k \in Keys : Levels(ks)[k] = "none" <=> k \notin DOMAIN ks
           /\ \A k \in Keys : Levels(ks)[k] = "private" <=> k \in Private(ks)
           /\ \A k \in Keys : Levels(ks)[k] = "public" <=> k \in DOMAIN ks \ Private(ks)
  BY DEF Levels, Private

\* Each kind of step is one of KeyStore.
LEMMA StepKeepsKeys ==
    ASSUME DbInv, DbInv', DbNext, Grows \/ Stops \/ Starts \/ Removes
    PROVE  Store!Next
<1> DEFINE had == IF mem.open THEN mem.keys ELSE Loaded(file).keys
           has == IF mem'.open THEN mem'.keys ELSE Loaded(file').keys
<1>1. held = Levels(had) /\ held' = Levels(has)
  BY DEF DbInv
<1>2. /\ held \in [Keys -> {"none", "public", "private"}] /\ held' \in [Keys -> {"none", "public", "private"}]
      /\ \A k \in Keys : held[k] = "none" <=> k \notin DOMAIN had
      /\ \A k \in Keys : held[k] = "private" <=> k \in Private(had)
      /\ \A k \in Keys : held[k] = "public" <=> k \in DOMAIN had \ Private(had)
      /\ \A k \in Keys : held'[k] = "none" <=> k \notin DOMAIN has
      /\ \A k \in Keys : held'[k] = "private" <=> k \in Private(has)
      /\ \A k \in Keys : held'[k] = "public" <=> k \in DOMAIN has \ Private(has)
  <2> HIDE DEF had, has
  <2> QED
    BY <1>1, LevelsAre
<1>3. mem.open \in BOOLEAN /\ mem'.open \in BOOLEAN
  BY DEF DbInv, StateInv
<1>4. CASE Grows
  <2>1. mem.open /\ mem'.open /\ had = mem.keys /\ has = mem'.keys
    BY <1>4 DEF Grows
  <2>2. DOMAIN had \subseteq DOMAIN has /\ Private(had) \subseteq Private(has)
    BY <1>4, <2>1 DEF Grows
  <2> HIDE DEF had, has
  <2>3. \A k \in Keys : Store!AtLeast(held'[k], held[k])
    BY <1>2, <2>2 DEF Store!AtLeast
  <2>4. Store!Store
    BY <1>2, <1>3, <2>1, <2>3 DEF Store!Store, Store!Level
  <2> QED
    BY <2>4 DEF Store!Next
<1>5. CASE Stops
  <2>1. mem.open /\ ~mem'.open /\ had = mem.keys /\ has = Loaded(file').keys /\ Keep(file', Private(had))
    BY <1>5 DEF Stops
  <2> DEFINE f == file'
             m == Loaded(f)
  <2>2. Formed(f)
    BY DEF DbInv, StateInv, Safe, Formed
  <2>3. Mirrors(m, f, {}, {}) /\ has = m.keys /\ Keep(f, Private(had))
    BY <2>1, <2>2, LoadedMirrors DEF Image
  <2> HIDE DEF had, has, f, m
  <2>4. ASSUME NEW k \in Private(had) PROVE k \in Private(has)
    <3>1. PICK i \in Of(f, "key") : IsTop(f, k, i) /\ f[i].private # NoPassword
      BY <2>3, <2>4 DEF Keep
    <3>2. k \in DOMAIN m.keys
      BY <2>3, <3>1 DEF Mirrors, MirrorKeys, IsTop
    <3> DEFINE j == m.keys[k].index
    <3>3. IsTop(f, k, j) /\ m.keys[k] = [record |-> f[j], index |-> j]
      BY <2>3, <3>2 DEF Mirrors, MirrorKeys
    <3>4. m.keys[k].record = f[j]
      BY <3>3
    <3> HIDE DEF j
    <3>5. i = j
      <4>1. Of(f, "key") \subseteq Int
        BY <2>2, FileTypes DEF Of, Formed
      <4>2. i <= j /\ j <= i /\ i \in Int /\ j \in Int
        BY <3>1, <3>3, <4>1 DEF IsTop
      <4> QED
        BY <4>2
    <3> QED
      BY <2>3, <3>1, <3>2, <3>4, <3>5 DEF Private
  <2>5. Store!Stop
    BY <1>2, <1>3, <2>1, <2>4 DEF Store!Stop, Store!Level
  <2> QED
    BY <2>5 DEF Store!Next
<1>6. CASE Starts
  <2>1. ~mem.open /\ mem'.open /\ UNCHANGED held
    BY <1>6 DEF Starts
  <2>2. Store!Start
    BY <1>1, <1>3, <2>1 DEF Store!Start
  <2> QED
    BY <2>2 DEF Store!Next
<1>7. CASE Removes
  <2>1. mem.open /\ mem'.open /\ had = mem.keys /\ has = mem'.keys
    BY <1>7 DEF Removes
  <2>2. /\ DOMAIN has \subseteq DOMAIN had /\ \A k \in DOMAIN has : has[k] = had[k]
        /\ \E owner \in Keys : owner \notin Private(had) /\ owner \notin DOMAIN has
    BY <1>7, <2>1 DEF Removes
  <2> HIDE DEF had, has
  <2>3. \A k \in DOMAIN has : k \in Private(has) <=> k \in Private(had)
    BY <2>2 DEF Private
  <2>4. \A k \in Keys : held'[k] \in {held[k], "none"}
    BY <1>2, <2>2, <2>3
  <2>5. \E owner \in Keys : held[owner] # "private" /\ held'[owner] = "none"
    BY <1>2, <2>2
  <2>6. Store!Remove
    BY <1>2, <1>3, <2>1, <2>4, <2>5 DEF Store!Remove, Store!Level
  <2> QED
    BY <2>6 DEF Store!Next
<1> QED
  BY <1>4, <1>5, <1>6, <1>7

(* The wallet's file implements KeyStore: a private key that a call of     *)
(* wallet_db has stored is there after every later call, crash and         *)
(* restart, and only remove_contact_account takes keys away.               *)
THEOREM WalletKeepsKeys == DbSpec => KeysKept
<1>1. DbInit => Store!Init
  <2> SUFFICES ASSUME DbInit PROVE Store!Init
    OBVIOUS
  <2>1. StateInv /\ mem.open
    BY StateStarts
  <2> QED
    BY <2>1 DEF DbInit, Store!Init, StateInv
<1>2. DbInv /\ DbInv' /\ [DbNext]_db_vars => [Store!Next]_<<held, mem.open>>
  <2>1. ASSUME DbInv, DbInv', DbNext PROVE Store!Next \/ UNCHANGED <<held, mem.open>>
    <3>1. Grows \/ Stops \/ Starts \/ Removes \/ Rests
      BY <2>1, StepKeepsState DEF DbInv
    <3>2. Rests => UNCHANGED <<held, mem.open>>
      BY DEF Rests
    <3> QED
      BY <2>1, <3>1, <3>2, StepKeepsKeys
  <2>2. ASSUME UNCHANGED db_vars PROVE UNCHANGED <<held, mem.open>>
    BY <2>2 DEF db_vars
  <2> QED
    BY <2>1, <2>2
<1> QED
  BY <1>1, <1>2, DbInvariant, PTL DEF DbSpec, KeysKept, Store!Spec

=============================================================================
