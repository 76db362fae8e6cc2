------------------------------- MODULE Ledger -------------------------------
(***************************************************************************)
(* The base asset of the chain: balances, delegate pay, collected fees,    *)
(* votes and supply, as blocks are evaluated, applied and popped.          *)
(* (transaction_evaluation_state.cpp, balance_operations.cpp,              *)
(* account_operations.cpp and extend_chain of chain_database.cpp; the      *)
(* build defines PTS_SUPPRESS_ASSETS, so there are no user assets.)        *)
(*                                                                         *)
(* extend_chain works on a pending_chain_state that is thrown away when    *)
(* one of its transactions throws: `pending' here, evaluated one operation *)
(* at a time.                                                              *)
(***************************************************************************)
EXTENDS Integers, Sequences, FiniteSets, Functions

CONSTANTS
    Account,      \* accounts that are or may be registered
    God,          \* account id 0, to which anyone may burn
    Delegates,    \* those that genesis makes delegates, at full pay
    BalanceId,    \* ids of balance records (owner and slate of a condition)
    Slate,        \* ids of delegate slates
    NoSlate,      \* slate id 0
    slate_of,     \* the slate of each balance's withdraw_condition
    supported,    \* how often the supported_delegates of a slate name an account
    owner,        \* the account whose key a balance's condition names
    genesis,      \* balances of the genesis block
    Trx,          \* transactions: ops, signed (by accounts), expiration
    MaxPay,       \* BTS_MAX_DELEGATE_PAY_PER_BLOCK
    MinBurn,      \* BTS_BLOCKCHAIN_MIN_BURN_FEE
    RegFee,       \* get_account_registration_fee
    DelegateFee,  \* get_delegate_registration_fee
    MaxExpiration,\* BTS_BLOCKCHAIN_MAX_TRANSACTION_EXPIRATION_SEC, in blocks
    FORK_25,      \* -1 in the code, compared with the unsigned head number
    MaxBlocks,    \* bound: height of the chain
    MaxTrxs       \* bound: transactions in a block

NotDelegate == 255   \* a pay rate above 100 means: not a delegate

(* supported_delegates is a vector: an id may be in it more than once, and *)
(* as id or as -id, which counts the same (negative votes are disabled).   *)
Named(s) == {d \in Account : supported[s][d] > 0}

ASSUME DelegatesAssumption == Delegates \subseteq Account /\ God \notin Account
ASSUME ConditionAssumption ==
    /\ slate_of \in [BalanceId -> Slate \cup {NoSlate}]
    /\ supported \in [Slate -> [Account -> Nat]]
    /\ owner \in [BalanceId -> Account]
    /\ NoSlate \notin Slate
(* The slates of the genesis balances are drawn from the delegates.         *)
ASSUME GenesisAssumption ==
    /\ genesis \in [BalanceId -> Nat]
    /\ \A b \in BalanceId : genesis[b] > 0 /\ slate_of[b] \in Slate =>
                            Named(slate_of[b]) \subseteq Delegates
ASSUME FiniteAssumption == IsFiniteSet(BalanceId) /\ IsFiniteSet(Account)

Rate == 0 .. 100 \cup {NotDelegate}
Operation ==
    [type : {"deposit", "withdraw"}, id : BalanceId, amount : Int]
      \cup [type : {"claim"}, id : BalanceId, amount : Int, dest : Account]
      \cup [type : {"burn"}, id : Account \cup {God}, amount : Int]
      \cup [type : {"withdraw_pay"}, id : Account, amount : Int]
      \cup [type : {"define_delegate_slate"}, id : Slate]
      \cup [type : {"register_account", "update_account"}, id : Account, rate : Rate]

ASSUME TrxAssumption ==
    Trx \subseteq [ops : Seq(Operation), signed : SUBSET Account, expiration : Nat]
ASSUME AmountAssumption ==
    {MaxPay, MinBurn, RegFee, DelegateFee} \subseteq Nat \ {0}
(* The duplicate checks compare the head number with uint32_t(-1).         *)
ASSUME ForkAssumption == {FORK_25, MaxBlocks, MaxTrxs, MaxExpiration} \subseteq Nat /\ FORK_25 > MaxBlocks

VARIABLES
    chain,     \* the records of the chain database
    known,     \* _unique_transactions
    undo,      \* the undo states of the blocks on the chain
    phase,     \* "idle", "block" (in extend_chain) or "trx" (in evaluate)
    pending,   \* the block's pending_chain_state
    applied,   \* transactions of the block evaluated so far
    trx,       \* the transaction under evaluation
    op_index,  \* _current_op_index, from 1
    ev         \* transaction_evaluation_state: balance, required_fees, votes

vars == <<chain, known, undo, phase, pending, applied, trx, op_index, ev>>

head_num == Len(undo)
now == head_num         \* one time unit per block

(* The shares of the balances, each as often as its slate names d.         *)
times(b, d) == IF slate_of[b] \in Slate THEN supported[slate_of[b]][d] ELSE 0

Votes(st, d) == SumFunction([b \in BalanceId |-> st.balance[b] * times(b, d)])

(* reset of the evaluation state.                                          *)
reset == [balance |-> 0, required_fees |-> 0, votes |-> [d \in Account |-> 0]]

(* The genesis state: every delegate's votes are those of the balances     *)
(* whose slate names it, all slates in use are stored.                     *)
Genesis ==
    LET st == [balance  |-> genesis,
               slates   |-> {s \in Slate : Named(s) \subseteq Delegates},
               accounts |-> Delegates,
               rate     |-> [d \in Account |-> IF d \in Delegates THEN 100 ELSE NotDelegate],
               pay      |-> [d \in Account |-> 0],
               votes    |-> [d \in Account |-> 0],
               fees     |-> 0,
               supply   |-> SumFunction(genesis),
               trxs     |-> <<>>]
    IN  [st EXCEPT !.votes = [d \in Account |-> IF d \in Delegates THEN Votes(st, d) ELSE 0]]

Init ==
    /\ chain = Genesis /\ known = {} /\ undo = <<>>
    /\ phase = "idle" /\ pending = Genesis /\ applied = <<>>
    /\ trx \in Trx /\ op_index = 1 /\ ev = reset

-----------------------------------------------------------------------------
(* extend_chain.                                                           *)

is_delegate(st, d) == st.rate[d] <= 100

(* Faulty variant: the supply is not reduced by the part of the pay that   *)
(* the delegate does not accept.                                           *)
pay_delegateKeepSupply(st, d) ==
    LET accepted == (st.rate[d] * MaxPay) \div 100
    IN  [st EXCEPT !.fees = @ - MaxPay, !.pay[d] = @ + accepted, !.votes[d] = @ + accepted]

pay_delegate(st, d) ==
    LET accepted == (st.rate[d] * MaxPay) \div 100
    IN  [st EXCEPT !.fees = @ - MaxPay,
                   !.pay[d] = @ + accepted,
                   !.votes[d] = @ + accepted,
                   !.supply = @ - (MaxPay - accepted)]

(* A block signed by delegate d arrives: extend_chain up to its            *)
(* transactions.                                                           *)
extend_chain(d) ==
    /\ phase = "idle" /\ head_num < MaxBlocks
    /\ is_delegate(chain, d)
    /\ pending' = pay_delegate(chain, d)
    /\ phase' = "block" /\ applied' = <<>>
    /\ UNCHANGED <<chain, known, undo, trx, op_index, ev>>

(* An exception leaves extend_chain: the pending state is dropped.         *)
throw ==
    /\ phase' = "idle" /\ pending' = chain /\ applied' = <<>>
    /\ op_index' = 1 /\ ev' = reset
    /\ UNCHANGED <<chain, known, undo, trx>>

Duplicate(t) ==
    head_num >= FORK_25 /\ (t \in known \/ \E i \in DOMAIN applied : applied[i] = t)

(* evaluate, up to the first operation.                                    *)
evaluate(t) ==
    /\ phase = "block" /\ Len(applied) < MaxTrxs
    /\ IF now >= t.expiration \/ now + MaxExpiration < t.expiration \/ Duplicate(t)
         THEN throw
         ELSE /\ phase' = "trx" /\ trx' = t /\ op_index' = 1 /\ ev' = reset
              /\ UNCHANGED <<chain, known, undo, pending, applied>>

-----------------------------------------------------------------------------
(* The operations.  Each one either passes its checks, and changes the     *)
(* pending state and the evaluation state, or throws.                      *)

Op(passes, st, e) ==
    IF passes
      THEN /\ pending' = st /\ ev' = e /\ op_index' = op_index + 1
           /\ UNCHANGED <<chain, known, undo, phase, applied, trx>>
      ELSE throw

check_signature(a) == a \in trx.signed

(* adjust_vote adds the amount once per entry of the slate; it throws when *)
(* the slate is unknown.                                                   *)
SlateKnown(b) == slate_of[b] = NoSlate \/ slate_of[b] \in pending.slates

adjust_vote(votes, b, amount) ==
    IF slate_of[b] = NoSlate THEN votes
    ELSE [d \in Account |-> votes[d] + amount * supported[slate_of[b]][d]]

deposit(op) ==
    Op(op.amount > 0 /\ SlateKnown(op.id),
       [pending EXCEPT !.balance[op.id] = @ + op.amount],
       [ev EXCEPT !.balance = @ - op.amount, !.votes = adjust_vote(@, op.id, op.amount)])

(* Faulty variant: the balance is not compared with the amount.            *)
withdrawUnchecked(op) ==
    Op(op.amount > 0 /\ check_signature(owner[op.id]) /\ SlateKnown(op.id),
       [pending EXCEPT !.balance[op.id] = @ - op.amount],
       [ev EXCEPT !.balance = @ + op.amount, !.votes = adjust_vote(@, op.id, -op.amount)])

withdraw(op) ==
    Op(/\ op.amount > 0 /\ op.amount <= pending.balance[op.id]
       /\ check_signature(owner[op.id]) /\ SlateKnown(op.id),
       [pending EXCEPT !.balance[op.id] = @ - op.amount],
       [ev EXCEPT !.balance = @ + op.amount, !.votes = adjust_vote(@, op.id, -op.amount)])

(* claim takes the whole of a genesis balance.  (The signature that the    *)
(* operation itself carries is taken to be in order.)                      *)
claim(op) ==
    Op(/\ genesis[op.id] > 0
       /\ op.amount = pending.balance[op.id] /\ SlateKnown(op.id)
       /\ check_signature(op.dest),
       [pending EXCEPT !.balance[op.id] = 0],
       [ev EXCEPT !.balance = @ + op.amount, !.votes = adjust_vote(@, op.id, -op.amount)])

burn(op) ==
    Op(op.amount >= MinBurn /\ op.id \in pending.accounts \cup {God},
       [pending EXCEPT !.supply = @ - op.amount],
       [ev EXCEPT !.balance = @ - op.amount])

(* Faulty variant: the votes that the pay gave are kept.                   *)
withdraw_payKeepVotes(op) ==
    Op(/\ op.amount > 0 /\ op.id \in pending.accounts /\ is_delegate(pending, op.id)
       /\ check_signature(op.id) /\ pending.pay[op.id] >= op.amount,
       [pending EXCEPT !.pay[op.id] = @ - op.amount],
       [ev EXCEPT !.balance = @ + op.amount])

withdraw_pay(op) ==
    Op(/\ op.amount > 0 /\ op.id \in pending.accounts /\ is_delegate(pending, op.id)
       /\ check_signature(op.id) /\ pending.pay[op.id] >= op.amount,
       [pending EXCEPT !.pay[op.id] = @ - op.amount],
       [ev EXCEPT !.balance = @ + op.amount, !.votes[op.id] = @ - op.amount])

define_delegate_slate(op) ==
    Op(op.id \in pending.slates \/ \A d \in Named(op.id) : is_delegate(pending, d),
       [pending EXCEPT !.slates = @ \cup {op.id}],
       ev)

(* What an account pays to become a delegate at a pay rate.                *)
RateFee(rate) == IF rate <= 100 THEN (DelegateFee * rate) \div 100 ELSE 0

register_account(op) ==
    Op(op.id \notin pending.accounts,
       [pending EXCEPT !.accounts = @ \cup {op.id}, !.rate[op.id] = op.rate],
       [ev EXCEPT !.required_fees = @ + RegFee + RateFee(op.rate)])

(* A delegate stays one and may only lower its pay rate.                   *)
update_account(op) ==
    Op(/\ op.id \in pending.accounts /\ check_signature(op.id)
       /\ is_delegate(pending, op.id) => op.rate <= pending.rate[op.id],
       [pending EXCEPT !.rate[op.id] = op.rate],
       IF is_delegate(pending, op.id) THEN ev
         ELSE [ev EXCEPT !.required_fees = @ + RateFee(op.rate)])

evaluate_operation ==
    /\ phase = "trx" /\ op_index <= Len(trx.ops)
    /\ LET op == trx.ops[op_index] IN
         \/ op.type = "deposit" /\ deposit(op)
         \/ op.type = "withdraw" /\ withdraw(op)
         \/ op.type = "claim" /\ claim(op)
         \/ op.type = "burn" /\ burn(op)
         \/ op.type = "withdraw_pay" /\ withdraw_pay(op)
         \/ op.type = "define_delegate_slate" /\ define_delegate_slate(op)
         \/ op.type = "register_account" /\ register_account(op)
         \/ op.type = "update_account" /\ update_account(op)

-----------------------------------------------------------------------------
(* What the transaction leaves over goes to the collected fees.            *)
post_evaluate(st) == [st EXCEPT !.fees = @ + ev.balance]

update_delegate_votes(st) ==
    [st EXCEPT !.votes = [d \in Account |-> @[d] + ev.votes[d]]]

(* The end of evaluate: post_evaluate, validate_required_fee and           *)
(* update_delegate_votes; apply_transactions stores the transaction.       *)
store_transaction ==
    /\ phase = "trx" /\ op_index = Len(trx.ops) + 1
    /\ IF ev.balance < 0 \/ ev.required_fees > ev.balance
         THEN throw
         ELSE /\ pending' = update_delegate_votes(post_evaluate(pending))
              /\ applied' = Append(applied, trx)
              /\ phase' = "block" /\ op_index' = 1 /\ ev' = reset
              /\ UNCHANGED <<chain, known, undo, trx>>

(* The end of extend_chain: the undo state is saved, the pending state is  *)
(* applied, and transactions that expired before the new head are dropped  *)
(* from the ones known.                                                    *)
apply_changes ==
    /\ phase = "block"
    /\ undo' = Append(undo, chain)
    /\ chain' = [pending EXCEPT !.trxs = @ \o applied]
    /\ known' = {t \in known \cup {applied[i] : i \in DOMAIN applied} : t.expiration >= now + 1}
    /\ phase' = "idle" /\ pending' = chain' /\ applied' = <<>>
    /\ UNCHANGED <<trx, op_index, ev>>

(* pop_block applies the undo state of the head; the known transactions    *)
(* are not part of it.                                                     *)
pop_block ==
    /\ phase = "idle" /\ head_num > 0
    /\ chain' = undo[head_num]
    /\ undo' = SubSeq(undo, 1, head_num - 1)
    /\ pending' = chain'
    /\ UNCHANGED <<known, phase, applied, trx, op_index, ev>>

Next ==
    \/ \E d \in Account : extend_chain(d)
    \/ \E t \in Trx : evaluate(t)
    \/ evaluate_operation \/ store_transaction \/ apply_changes \/ pop_block

Spec == Init /\ [][Next]_vars

-----------------------------------------------------------------------------
State ==
    [balance : [BalanceId -> Nat], slates : SUBSET Slate, accounts : SUBSET Account,
     rate : [Account -> Rate], pay : [Account -> Nat], votes : [Account -> Int],
     fees : Int, supply : Int, trxs : Seq(Trx)]

(* Balances and pay are never overdrawn; collected fees may be.            *)
TypeOK ==
    /\ chain \in State /\ pending \in State /\ undo \in Seq(State)
    /\ known \subseteq Trx /\ applied \in Seq(Trx) /\ trx \in Trx
    /\ phase \in {"idle", "block", "trx"} /\ op_index \in Nat \ {0}
    /\ ev \in [balance : Int, required_fees : Nat, votes : [Account -> Int]]

(* calculate_supply: between two transactions, of the chain and of the     *)
(* block under evaluation, the balances, the pay held for delegates and    *)
(* the collected fees add up to current_share_supply, whatever was         *)
(* transferred, paid, burnt, registered or undone.                         *)
calculate_supply(st) == st.fees + SumFunction(st.balance) + SumFunction(st.pay)

SupplyMatches ==
    /\ chain.supply = calculate_supply(chain)
    /\ pending.supply = calculate_supply(pending) + ev.balance

(* votes_for of a delegate is what the balances that support it hold, as   *)
(* often as their slates name it, plus its own unclaimed pay: no vote      *)
(* outlives the shares that cast it, and none counts more than once per    *)
(* entry of a slate.                                                       *)
VotesBacked ==
    \A d \in Account :
        chain.votes[d] = IF is_delegate(chain, d) THEN Votes(chain, d) + chain.pay[d] ELSE 0

(* store_transaction asserts "transaction not unique": no transaction is   *)
(* on the chain twice.                                                     *)
TransactionUnique ==
    \A i, j \in DOMAIN chain.trxs : chain.trxs[i] = chain.trxs[j] => i = j
=============================================================================
