------------------------------- MODULE Wallet -------------------------------
(***************************************************************************)
(* An open wallet and the chain it follows (wallet/wallet.cpp, the memo    *)
(* part of transaction_ledger.cpp, login.cpp, and the calls of             *)
(* client/wallet_api.cpp): unlocking and the relock timer, the scan of the *)
(* chain for deposits, and the loop that produces blocks for the wallet's  *)
(* delegates.                                                              *)
(*                                                                         *)
(* Everything runs in one thread.  Control passes to another task where    *)
(* the code waits: for the scanner threads to decrypt a memo, between      *)
(* blocks of a long scan, and in lock() for the task that cleans the login *)
(* map.  The chain notifies its observers in tasks of their own, in order, *)
(* after a whole push_block.                                               *)
(***************************************************************************)
EXTENDS Integers, Sequences, SequencesExt

CONSTANTS
  Blocks, Parent, Root, \* the block tree, Parent \in [Blocks -> Blocks \cup {Root}]
  Deposits,   \* blocks with a transfer to the wallet's account, to a new one-time key
  Timeouts,   \* for how long a user unlocks the wallet
  Ranges,     \* first blocks and numbers of blocks of a rescan
  MaxYoung,   \* how many blocks can be younger than one block interval
  MaxTime,    \* bound: the clock stops here
  MaxCalls    \* bound: how often the user calls

ASSUME TreeAssumption == Parent \in [Blocks -> Blocks \cup {Root}] /\ Root \notin Blocks
ASSUME DepositsAssumption == Deposits \subseteq Blocks
ASSUME RangesAssumption == Ranges \subseteq Nat \X Nat
ASSUME TimesAssumption == {MaxYoung, MaxTime, MaxCalls} \subseteq Nat /\ Timeouts \subseteq Nat \ {0}

VARIABLES
  chain,      \* the chain of the chain_database, Seq(Blocks)
  observers,  \* notifications on their way to the wallet
  open,       \* _wallet_db.is_open()
  password,   \* _wallet_password: none when locked, or the right or a wrong one
  lock_time,  \* _scheduled_lock_time
  relocker,   \* when relocker() runs next, _relocker_done
  unattended, \* relocker() ended because of an enabled delegate
  login,      \* the login map cleaner is scheduled, _login_map_cleaner_done
  locking,    \* who waits in lock() for the cleaner
  now,        \* the clock
  delegates,  \* a delegate is enabled for block production
  scanning,   \* the transaction_scanning property
  delegate_loop, \* the client's delegate loop is scheduled
  last_scanned,  \* last_unlocked_scanned_block_number
  scan,       \* the scan_chain_task
  keys,       \* [Deposits -> the password its key is encrypted with, or none]
  blind,      \* history: blocks scanned without the account keys or the password
  deferred,   \* history: a block was left to the next scan
  passed,     \* history: blocks that came to the chain below the scan
  skipped,    \* history: blocks between the mark and the start of a rescan
  calls       \* how often the user has called

session == <<open, password, lock_time, relocker, unattended, login, locking>>
settings == <<delegates, scanning>>
results == <<last_scanned, scan, keys, blind, deferred>>
history == <<passed, skipped>>
vars == <<chain, observers, session, now, settings, delegate_loop, results, history, calls>>

None == "none"
Never == MaxTime + 1
NoTime == -1
head == Len(chain)
is_unlocked == open /\ password # None
NoScan == [state |-> "off", block |-> 0, end |-> 0, keyed |-> FALSE, memo_of |-> Root]

TypeOK ==
  /\ chain \in Seq(Blocks)
  /\ observers \in Seq([kind : {"changed", "applied"}, block_num : Nat])
  /\ open \in BOOLEAN /\ password \in {None, "right", "wrong"}
  /\ {lock_time, relocker} \subseteq Nat \cup {NoTime}
  /\ (password = "right" /\ locking = None => lock_time # NoTime)
  /\ unattended \in BOOLEAN /\ login \in BOOLEAN /\ locking \in {None, "lock", "close", "unlock", "relock"}
  /\ now \in 0 .. MaxTime
  /\ delegates \in BOOLEAN /\ scanning \in BOOLEAN /\ delegate_loop \in BOOLEAN
  /\ last_scanned \in Nat
  /\ scan \in [state : {"off", "async", "block", "memo"}, block : Nat, end : Nat,
               keyed : BOOLEAN, memo_of : Blocks \cup {Root}]
  /\ keys \in [Deposits -> {None, "right", "wrong"}]
  /\ calls \in 0 .. MaxCalls
  /\ deferred \in BOOLEAN /\ {blind, passed, skipped} \subseteq SUBSET Blocks

ChainTo[b \in Blocks \cup {Root}] == IF b = Root THEN <<>> ELSE Append(ChainTo[Parent[b]], b)

\* Every block has a chain: its ancestors lead to the root.
ASSUME ChainsAssumption == \A b \in Blocks : ChainTo[b] \in Seq(Blocks)

Init ==
  /\ chain = <<>> /\ observers = <<>>
  /\ open = FALSE /\ password = None /\ lock_time = NoTime /\ relocker = NoTime
  /\ unattended = FALSE /\ login = FALSE /\ locking = None
  /\ now = 0 /\ delegates = FALSE /\ scanning = TRUE /\ delegate_loop = FALSE
  /\ last_scanned = 0 /\ scan = NoScan /\ keys = [d \in Deposits |-> None]
  /\ blind = {} /\ deferred = FALSE /\ passed = {} /\ skipped = {} /\ calls = 0

-----------------------------------------------------------------------------
(* The chain, the clock and the scan of the chain.                         *)

\* The blocks that have been scanned, by number: the block of the mark is
\* scanned once more when a scan is resumed.
Behind ==
  LET reached == CASE scan.state = "memo" -> scan.block
                   [] scan.state = "off" -> 0
                   [] OTHER -> scan.block - 1
  IN  1 .. (IF reached < last_scanned THEN last_scanned - 1 ELSE reached)

\* push_block with the head of a longer chain: it extends the chain or pops
\* and pushes blocks.  It schedules a notification for every block popped and
\* for the last ones pushed, those that are younger than one block interval.
push_block(b, young) ==
  LET target == ChainTo[b]
      common == Len(LongestCommonPrefix({chain, target}))
      popped == [i \in 1 .. head - common |-> [kind |-> "changed", block_num |-> 0]]
      pushed == [i \in 1 .. young |->
                   [kind |-> "applied", block_num |-> Len(target) - young + i]]
  IN  /\ Len(target) > head /\ young <= Len(target) - common
      /\ chain' = target
      /\ observers' = observers \o popped \o pushed
      /\ passed' = passed \cup {target[n] : n \in (common + 1 .. Len(target)) \cap Behind}
      /\ deferred' = (deferred \/ young = 0)
      /\ UNCHANGED <<session, now, settings, delegate_loop, last_scanned, scan, keys, blind,
                     skipped>>

clock_ticks ==
  /\ now < MaxTime
  /\ now' = now + 1
  /\ UNCHANGED <<chain, observers, session, settings, delegate_loop, results, history>>

\* What a cancelled scan still does: the memo it waits for is given up and
\* the block counts as scanned.
CancelScan == last_scanned' = IF scan.state = "memo" THEN scan.block ELSE last_scanned

ScanTask(start, end) ==
  [state |-> "async", block |-> IF start = 0 THEN 1 ELSE start, end |-> end, keyed |-> FALSE,
   memo_of |-> Root]

\* scan_chain for an unlocked wallet
scan_chain(start, end) ==
  IF scanning
  THEN /\ CancelScan
       /\ scan' = ScanTask(start, end)
       /\ deferred' = (end < head \/ start > head)
  ELSE deferred' = TRUE /\ UNCHANGED <<scan, last_scanned>>

\* The scan_chain_task begins: it decrypts the keys of the accounts.
scan_chain_task ==
  /\ scan.state = "async"
  /\ scan' = IF open
             THEN [scan EXCEPT !.state = "block", !.keyed = (password = "right"),
                               !.end = IF @ < head THEN @ ELSE head]
             ELSE NoScan
  /\ UNCHANGED <<chain, observers, session, now, settings, delegate_loop, last_scanned, keys,
                 blind, deferred, history>>

NextBlock == [scan EXCEPT !.state = "block", !.block = @ + 1, !.memo_of = Root]

\* A block of the scan: its memos are handed to the scanner threads.
scan_block ==
  /\ scan.state = "block" /\ open /\ scan.block <= scan.end
  /\ LET found == scan.block <= head
         mine == found /\ chain[scan.block] \in Deposits
     IN  IF mine /\ scan.keyed
         THEN /\ scan' = [scan EXCEPT !.state = "memo", !.memo_of = chain[scan.block]]
              /\ UNCHANGED <<last_scanned, blind>>
         ELSE /\ scan' = NextBlock
              /\ last_scanned' = scan.block
              /\ blind' = IF mine THEN blind \cup {chain[scan.block]} ELSE blind
  /\ UNCHANGED <<chain, observers, session, now, settings, delegate_loop, keys, deferred, history>>

\* A memo has been decrypted: the one-time key is stored, encrypted with the
\* password of this moment; without one encrypt_private_key throws.
scan_deposit ==
  /\ scan.state = "memo" /\ open
  /\ keys' = IF password = None THEN keys ELSE [keys EXCEPT ![scan.memo_of] = password]
  /\ blind' = IF password = "right" THEN blind ELSE blind \cup {scan.memo_of}
  /\ last_scanned' = scan.block
  /\ scan' = NextBlock
  /\ UNCHANGED <<chain, observers, session, now, settings, delegate_loop, deferred, history>>

\* The task ends after its last block, or when the wallet has been closed
\* under it.
scan_ends ==
  /\ \/ scan.state = "block" /\ (scan.block > scan.end \/ ~open)
     \/ scan.state = "memo" /\ ~open
  /\ scan' = NoScan
  /\ UNCHANGED <<chain, observers, session, now, settings, delegate_loop, last_scanned, keys,
                 blind, deferred, history>>

-----------------------------------------------------------------------------
(* The notifications of the chain.                                         *)

Notified(kind) == /\ observers # <<>> /\ Head(observers).kind = kind
                  /\ observers' = Tail(observers)

state_changed ==
  /\ Notified("changed")
  /\ last_scanned' = IF is_unlocked /\ head < last_scanned THEN head ELSE last_scanned
  /\ UNCHANGED <<chain, session, now, settings, delegate_loop, scan, keys, blind, deferred,
                 history>>

\* Faulty variant: only the new block is scanned.
block_applied_only ==
  /\ Notified("applied")
  /\ LET n == Head(observers).block_num
     IN  IF is_unlocked /\ scanning /\ n > last_scanned /\ scan.state = "off"
         THEN scan_chain(n, n)
         ELSE /\ deferred' = (deferred \/ (is_unlocked /\ n > last_scanned))
              /\ UNCHANGED <<scan, last_scanned>>
  /\ UNCHANGED <<chain, session, now, settings, delegate_loop, keys, blind, history>>

block_applied ==
  /\ Notified("applied")
  /\ LET n == Head(observers).block_num
     IN  IF is_unlocked /\ scanning /\ n > last_scanned /\ scan.state = "off"
         THEN scan_chain(last_scanned, n)
         ELSE /\ deferred' = (deferred \/ (is_unlocked /\ n > last_scanned))
              /\ UNCHANGED <<scan, last_scanned>>
  /\ UNCHANGED <<chain, session, now, settings, delegate_loop, keys, blind, history>>

-----------------------------------------------------------------------------
(* Locking and unlocking.                                                  *)

\* The end of lock(), and of what its caller does after it.
Locked(caller) ==
  /\ password' = None /\ lock_time' = NoTime
  /\ login' = FALSE /\ locking' = None
  /\ open' = (open /\ caller # "close")
  /\ relocker' = IF caller \in {"close", "relock"} THEN NoTime ELSE relocker
  /\ unattended' = (unattended /\ caller # "close")
  /\ delegate_loop' = (delegate_loop \/ caller \in {"lock", "close"})

\* lock() first cancels the login map cleaner and waits for it.
lock(caller, typed) ==
  /\ locking = None
  /\ IF login
     THEN /\ locking' = caller
          /\ password' = typed
          /\ UNCHANGED <<open, lock_time, relocker, unattended, login, delegate_loop>>
     ELSE Locked(caller)

lock_resumes ==
  /\ locking # None
  /\ Locked(locking)
  /\ UNCHANGED <<chain, observers, now, settings, results, history>>

wallet_lock ==
  /\ lock("lock", password)
  /\ UNCHANGED <<chain, observers, now, settings, results, history>>

wallet_close ==
  /\ open
  /\ CancelScan /\ scan' = NoScan
  /\ lock("close", password)
  /\ UNCHANGED <<chain, observers, now, settings, keys, blind, deferred, history>>

wallet_open ==
  /\ ~open
  /\ open' = TRUE /\ delegate_loop' = TRUE
  /\ UNCHANGED <<chain, observers, password, lock_time, relocker, unattended, login, locking,
                 now, settings, results, history>>

reschedule_relocker ==
  /\ relocker' = IF relocker = NoTime THEN lock_time' ELSE relocker
  /\ unattended' = (unattended /\ relocker # NoTime)

LaterBy(timeout) == IF now + timeout > MaxTime THEN Never ELSE now + timeout

\* Faulty variant: the blocks missed while locked are not scanned.
wallet_unlock_unscanned(timeout) ==
  /\ open
  /\ password' = "right" /\ lock_time' = LaterBy(timeout)
  /\ reschedule_relocker
  /\ delegate_loop' = TRUE
  /\ UNCHANGED <<chain, observers, open, login, locking, now, settings, results, history>>

\* Faulty variant: the delegate loop is not started again.
wallet_unlock_idle(timeout) ==
  /\ open
  /\ password' = "right" /\ lock_time' = LaterBy(timeout)
  /\ reschedule_relocker
  /\ IF last_scanned < head THEN scan_chain(last_scanned, head)
     ELSE UNCHANGED <<scan, last_scanned, deferred>>
  /\ UNCHANGED <<chain, observers, open, login, locking, now, settings, delegate_loop, keys,
                 blind, history>>

wallet_unlock(timeout) ==
  /\ open
  /\ password' = "right" /\ lock_time' = LaterBy(timeout)
  /\ reschedule_relocker
  /\ IF last_scanned < head THEN scan_chain(last_scanned, head)
     ELSE UNCHANGED <<scan, last_scanned, deferred>>
  /\ delegate_loop' = TRUE
  /\ UNCHANGED <<chain, observers, open, login, locking, now, settings, keys, blind, history>>

\* Every failure ends in lock().  The password typed is stored before it is
\* checked; a closed wallet, a bad timeout or a short password is found earlier.
wallet_unlock_fails ==
  /\ lock("unlock", password) \/ (open /\ lock("unlock", "wrong"))
  /\ UNCHANGED <<chain, observers, now, settings, results, history>>

\* Faulty variant: the timer is not set again when the lock time has moved.
relocker_runs_once ==
  /\ relocker # NoTime /\ now >= relocker /\ locking = None
  /\ IF lock_time # NoTime /\ now < lock_time
     THEN /\ relocker' = NoTime
          /\ UNCHANGED <<open, password, lock_time, unattended, login, locking, delegate_loop>>
     ELSE IF delegates
     THEN /\ relocker' = NoTime /\ unattended' = TRUE
          /\ UNCHANGED <<open, password, lock_time, login, locking, delegate_loop>>
     ELSE lock("relock", password)
  /\ UNCHANGED <<chain, observers, now, settings, results, history>>

relocker_runs ==
  /\ relocker # NoTime /\ now >= relocker /\ locking = None
  /\ IF lock_time # NoTime /\ now < lock_time
     THEN /\ relocker' = lock_time
          /\ UNCHANGED <<open, password, lock_time, unattended, login, locking, delegate_loop>>
     ELSE IF delegates
     THEN /\ relocker' = NoTime /\ unattended' = TRUE
          /\ UNCHANGED <<open, password, lock_time, login, locking, delegate_loop>>
     ELSE lock("relock", password)
  /\ UNCHANGED <<chain, observers, now, settings, results, history>>

login_start ==
  /\ is_unlocked /\ ~login /\ login' = TRUE
  /\ UNCHANGED <<chain, observers, open, password, lock_time, relocker, unattended, locking,
                 now, settings, delegate_loop, results, history>>

login_map_cleaner_task ==
  /\ login /\ locking = None /\ login' = FALSE
  /\ UNCHANGED <<chain, observers, open, password, lock_time, relocker, unattended, locking,
                 now, settings, delegate_loop, results, history>>

-----------------------------------------------------------------------------
(* Other calls of the user, and the client's delegate loop.                *)

set_delegate_block_production ==
  /\ open
  /\ delegates' = ~delegates /\ scanning' = delegates
  /\ delegate_loop' = TRUE
  /\ UNCHANGED <<chain, observers, session, now, results, history>>

\* A rescan of any range: it replaces the scan that is running, and what lies
\* between the mark and its first block is passed over.  (Nothing happens when
\* scanning is off.)
wallet_rescan_blockchain(start, count) ==
  /\ is_unlocked /\ scanning
  /\ scan_chain(start, start + count)
  /\ skipped' = skipped \cup {chain[n] : n \in (last_scanned' .. start - 1) \cap (1 .. head)}
  /\ UNCHANGED <<chain, observers, session, now, settings, delegate_loop, keys, blind, passed>>

\* The loop runs in every slot until it finds nothing to produce blocks for.
delegate_loop_returns ==
  /\ delegate_loop /\ ~(is_unlocked /\ delegates)
  /\ delegate_loop' = FALSE
  /\ UNCHANGED <<chain, observers, session, now, settings, results, history>>

-----------------------------------------------------------------------------
Call ==
  \/ wallet_open \/ wallet_close \/ wallet_lock \/ wallet_unlock_fails \/ login_start
  \/ \E t \in Timeouts : wallet_unlock(t)
  \/ set_delegate_block_production
  \/ \E range \in Ranges : wallet_rescan_blockchain(range[1], range[2])

UserStep == calls < MaxCalls /\ calls' = calls + 1 /\ Call

ScanStep == scan_chain_task \/ scan_block \/ scan_deposit \/ scan_ends
Notification == state_changed \/ block_applied
SessionStep == lock_resumes \/ relocker_runs
OtherStep == login_map_cleaner_task \/ delegate_loop_returns \/ clock_ticks

Step == ScanStep \/ Notification \/ SessionStep \/ OtherStep
        \/ \E b \in Blocks, young \in 0 .. MaxYoung : push_block(b, young)

Next == UserStep \/ (Step /\ UNCHANGED calls)

Fairness ==
  /\ WF_vars(ScanStep /\ UNCHANGED calls)
  /\ WF_vars(Notification /\ UNCHANGED calls)
  /\ WF_vars(SessionStep /\ UNCHANGED calls)
  /\ WF_vars(clock_ticks /\ UNCHANGED calls)

Spec == Init /\ [][Next]_vars /\ Fairness

-----------------------------------------------------------------------------
(* A block below the mark has been searched with the right password: the   *)
(* key of its deposit is known.  It is missed only if the wallet was       *)
(* locked, or given a wrong password, while the scan went on, if it came   *)
(* to the chain where the scan had already been, or if the user had the    *)
(* blocks scanned from one above the mark on.  Scans that are cancelled,   *)
(* resumed or started over, and notifications that are late or left out,   *)
(* do not leave gaps.                                                      *)
MissedOnlyIf ==
  \A n \in 1 .. (IF last_scanned <= head THEN last_scanned - 1 ELSE head) :
    chain[n] \in Deposits =>
      keys[chain[n]] = "right" \/ chain[n] \in blind \cup passed \cup skipped

(* An unlocked wallet with an enabled delegate has its delegate loop       *)
(* scheduled, whatever locked, closed or relocked it before.               *)
DelegateLoopRuns == is_unlocked /\ delegates /\ locking = None => delegate_loop

(* The wallet locks itself when the time it was unlocked for has passed,   *)
(* also if it was unlocked for longer meanwhile, unless the timer found an *)
(* enabled delegate or is still set to the time of an earlier unlock.      *)
LocksAgain == (is_unlocked /\ lock_time # Never /\ relocker # Never) ~>
                 (~is_unlocked \/ lock_time = Never \/ unattended)

(* Once the user leaves the wallet alone and no more blocks come, an       *)
(* unlocked wallet that scans has caught up with the chain, whatever       *)
(* locked, closed or cancelled its scans before.  Only the blocks that     *)
(* were an interval old when they were pushed, that came during a scan or  *)
(* while scanning was off, or that a rescan did not ask for, wait for the  *)
(* next scan.                                                              *)
CatchesUp == <>[](is_unlocked /\ scanning => last_scanned >= head \/ deferred)
=============================================================================
