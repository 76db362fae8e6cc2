---------------------------- MODULE LedgerProofs ----------------------------
(***************************************************************************)
(* Proofs about Ledger, for all sets of accounts, balances, slates and     *)
(* transactions: no overdraft, a supply that matches, and no votes without *)
(* shares.                                                                 *)
(***************************************************************************)
EXTENDS Ledger, SumTheorems

(* The books of a state, when a transaction under evaluation has taken     *)
(* `balance' out of it and has not yet applied its changes to the votes.   *)
Books(st, balance, votes) ==
    /\ st.supply = calculate_supply(st) + balance
    /\ \A d \in Account :
         st.votes[d] + votes[d] = IF is_delegate(st, d) THEN Votes(st, d) + st.pay[d] ELSE 0
    \* Slates name delegates, and only slates on record hold shares: the
    \* votes of an account are zero when it becomes a delegate.
    /\ \A s \in st.slates : \A d \in Named(s) : is_delegate(st, d)
    /\ \A b \in BalanceId : slate_of[b] \in Slate \ st.slates => st.balance[b] = 0
    /\ \A d \in Account : ~is_delegate(st, d) => st.pay[d] = 0
    /\ \A d \in Account \ st.accounts : ~is_delegate(st, d)

NoVotes == [d \in Account |-> 0]

IInv ==
    /\ TypeOK
    /\ Books(chain, 0, NoVotes)
    /\ \A i \in DOMAIN undo : Books(undo[i], 0, NoVotes)
    /\ Books(pending, ev.balance, ev.votes)
    /\ phase = "idle" => pending = chain
    /\ phase # "trx" => ev = reset

(* The shares that are votes for d, by balance.                            *)
Weighted(st, d) == [b \in BalanceId |-> st.balance[b] * times(b, d)]

(* Products of integers.                                                   *)
LEMMA Products ==
    /\ \A i, j \in Int : i * j \in Int
    /\ \A i, n, j \in Int : (i + n) * j - i * j = n * j
    /\ \A i \in Int : i * 0 = 0 /\ 0 * i = 0
OBVIOUS

LEMMA TimesType ==
    ASSUME NEW b \in BalanceId, NEW d \in Account
    PROVE  times(b, d) \in Nat
BY ConditionAssumption DEF times

LEMMA WeightedType ==
    ASSUME NEW st, st.balance \in [BalanceId -> Nat], NEW d \in Account
    PROVE  /\ Weighted(st, d) \in [BalanceId -> Int]
           /\ \A b \in BalanceId :
                st.balance[b] = 0 \/ times(b, d) = 0 => Weighted(st, d)[b] = 0
<1>1. ASSUME NEW b \in BalanceId
      PROVE  /\ st.balance[b] * times(b, d) \in Int
             /\ st.balance[b] = 0 \/ times(b, d) = 0 => st.balance[b] * times(b, d) = 0
  <2> DEFINE i == st.balance[b]
             k == times(b, d)
  <2>1. i \in Int /\ k \in Int
    BY TimesType
  <2> HIDE DEF i, k
  <2>2. i * k \in Int /\ (i = 0 \/ k = 0 => i * k = 0)
    BY <2>1, Products
  <2> QED
    BY <2>2 DEF i, k
<1> QED
  BY <1>1 DEF Weighted

-----------------------------------------------------------------------------
(* Sums over a state are integers.                                         *)
LEMMA StateSums ==
    ASSUME NEW st \in State
    PROVE  /\ SumFunction(st.balance) = SumFunctionOnSet(st.balance, BalanceId)
           /\ SumFunction(st.pay) = SumFunctionOnSet(st.pay, Account)
           /\ SumFunction(st.balance) \in Int
           /\ SumFunction(st.pay) \in Int
           /\ \A d \in Account : Votes(st, d) \in Int
<1>1. st.balance \in [BalanceId -> Nat] /\ st.pay \in [Account -> Nat]
  BY DEF State
<1>2. /\ SumFunction(st.balance) = SumFunctionOnSet(st.balance, BalanceId)
      /\ SumFunction(st.pay) = SumFunctionOnSet(st.pay, Account)
  BY <1>1 DEF SumFunction
<1>3. SumFunctionOnSet(st.balance, BalanceId) \in Int /\ SumFunctionOnSet(st.pay, Account) \in Int
  BY <1>1, SumType, FiniteAssumption
<1>4. ASSUME NEW d \in Account PROVE Votes(st, d) \in Int
  <2>1. ASSUME NEW b \in BalanceId PROVE Weighted(st, d)[b] \in Int
    BY <1>1, WeightedType
  <2>2. SumFunctionOnSet(Weighted(st, d), BalanceId) \in Int
    BY <2>1, SumType, FiniteAssumption
  <2> QED
    BY <2>2 DEF Votes, SumFunction, Weighted
<1> QED
  BY <1>2, <1>3, <1>4

(* A deposit, a withdrawal or a claim: shares move between a balance and   *)
(* the transaction, and the votes of the balance's slate with them.        *)
LEMMA BalanceMoves ==
    ASSUME NEW st \in State, NEW balance \in Int, NEW votes \in [Account -> Int],
           Books(st, balance, votes),
           NEW b \in BalanceId, NEW n \in Int, st.balance[b] + n >= 0,
           slate_of[b] = NoSlate \/ slate_of[b] \in st.slates,
           NEW new, new = [st EXCEPT !.balance[b] = @ + n]
    PROVE  /\ new \in State
           /\ adjust_vote(votes, b, n) \in [Account -> Int]
           /\ Books(new, balance - n, adjust_vote(votes, b, n))
<1>1. /\ new.balance = [st.balance EXCEPT ![b] = @ + n]
      /\ new.balance \in [BalanceId -> Nat]
      /\ new.slates = st.slates /\ new.accounts = st.accounts /\ new.rate = st.rate
      /\ new.pay = st.pay /\ new.votes = st.votes /\ new.fees = st.fees
      /\ new.supply = st.supply /\ new.trxs = st.trxs
  BY DEF State
<1>2. new \in State
  BY <1>1 DEF State
<1>3. adjust_vote(votes, b, n) \in [Account -> Int]
  <2>1. CASE slate_of[b] = NoSlate
    BY <2>1 DEF adjust_vote
  <2>2. CASE slate_of[b] # NoSlate
    <3>1. ASSUME NEW d \in Account PROVE votes[d] + n * supported[slate_of[b]][d] \in Int
      <4> DEFINE k == supported[slate_of[b]][d]
      <4>1. k \in Int
        BY <2>2, ConditionAssumption
      <4> HIDE DEF k
      <4>2. n * k \in Int
        BY <4>1, Products
      <4> QED
        BY <4>2 DEF k
    <3> QED
      BY <2>2, <3>1 DEF adjust_vote
  <2> QED
    BY <2>1, <2>2
<1>4. /\ st.balance \in [BalanceId -> Nat] /\ st.pay \in [Account -> Nat]
      /\ st.votes \in [Account -> Int] /\ st.fees \in Int /\ st.supply \in Int
      /\ st.rate \in [Account -> Rate] /\ st.slates \in SUBSET Slate
  BY DEF State
<1>5. ASSUME NEW S \in SUBSET BalanceId
      PROVE  SumFunctionOnSet(new.balance, S)
               = SumFunctionOnSet(st.balance, S) + (IF b \in S THEN n ELSE 0)
  <2>1. IsFiniteSet(S)
    BY FS_Subset, FiniteAssumption
  <2>2. \A x \in S : st.balance[x] \in Int /\ new.balance[x] \in Int
    BY <1>1, <1>4
  <2>3. \A x \in S \ {b} : new.balance[x] = st.balance[x]
    BY <1>1, <1>4
  <2>4. new.balance[b] - st.balance[b] = n
    BY <1>1, <1>4
  <2>5. CASE b \in S
    <3>1. SumFunctionOnSet(new.balance, S)
            = SumFunctionOnSet(st.balance, S) + (new.balance[b] - st.balance[b])
      <4> DEFINE f == st.balance
                 g == new.balance
      <4>1. /\ \A x \in S : f[x] \in Int /\ g[x] \in Int
            /\ \A x \in S \ {b} : g[x] = f[x]
        BY <2>2, <2>3
      <4> HIDE DEF f, g
      <4>2. SumFunctionOnSet(g, S) = SumFunctionOnSet(f, S) + (g[b] - f[b])
        BY <2>1, <2>5, <4>1, SumUpdate
      <4> QED
        BY <4>2 DEF f, g
    <3> QED
      BY <2>4, <2>5, <3>1
  <2>6. CASE b \notin S
    <3>1. SumFunctionOnSet(new.balance, S) = SumFunctionOnSet(st.balance, S)
      BY <2>1, <2>3, <2>6, SumAgrees
    <3>2. SumFunctionOnSet(st.balance, S) \in Int
      BY <2>1, <2>2, SumType
    <3> QED
      BY <2>6, <3>1, <3>2
  <2> QED
    BY <2>5, <2>6
<1>6. new.supply = calculate_supply(new) + (balance - n)
  <2>1. SumFunction(new.balance) = SumFunction(st.balance) + n
    BY <1>2, <1>5, StateSums
  <2>2. st.supply = st.fees + SumFunction(st.balance) + SumFunction(st.pay) + balance
    BY DEF Books, calculate_supply
  <2>3. SumFunction(st.balance) \in Int /\ SumFunction(st.pay) \in Int
    BY StateSums
  <2> QED
    BY <1>1, <1>4, <2>1, <2>2, <2>3 DEF calculate_supply
<1>7. ASSUME NEW d \in Account
      PROVE  new.votes[d] + adjust_vote(votes, b, n)[d]
               = IF is_delegate(new, d) THEN Votes(new, d) + new.pay[d] ELSE 0
  <2>1. times(b, d) \in Int /\ n * times(b, d) \in Int
    BY TimesType, Products
  <2>2. Votes(new, d) = Votes(st, d) + n * times(b, d)
    <3> DEFINE f == Weighted(st, d)
               g == Weighted(new, d)
    <3>1. f \in [BalanceId -> Int] /\ g \in [BalanceId -> Int]
      BY <1>1, <1>4, WeightedType
    <3>2. \A x \in BalanceId \ {b} : g[x] = f[x]
      BY <1>1, <1>4 DEF Weighted
    <3>3. g[b] - f[b] = n * times(b, d)
      <4> DEFINE i == st.balance[b]
                 k == times(b, d)
      <4>1. i \in Int /\ k \in Int /\ new.balance[b] = i + n
        BY <1>1, <1>4, <2>1
      <4>2. g[b] = (i + n) * k /\ f[b] = i * k
        BY <4>1 DEF Weighted
      <4> HIDE DEF i, k, f, g
      <4>3. (i + n) * k - i * k = n * k
        BY <4>1, Products
      <4> QED
        BY <4>2, <4>3 DEF k
    <3>4. Votes(st, d) = SumFunction(f) /\ Votes(new, d) = SumFunction(g)
      BY DEF Votes, Weighted
    <3> HIDE DEF f, g
    <3>5. SumFunction(g) = SumFunction(f) + (g[b] - f[b])
      BY <3>1, <3>2, FiniteAssumption, SumFunctionUpdate
    <3> QED
      BY <3>3, <3>4, <3>5
  <2>3. adjust_vote(votes, b, n)[d] = votes[d] + n * times(b, d)
    <3>1. CASE slate_of[b] = NoSlate
      <4>1. times(b, d) = 0 /\ adjust_vote(votes, b, n) = votes
        BY <3>1, ConditionAssumption DEF times, adjust_vote
      <4> QED
        BY <4>1, Products
    <3>2. CASE slate_of[b] # NoSlate
      <4>1. times(b, d) = supported[slate_of[b]][d]
        BY <3>2, ConditionAssumption DEF times
      <4> QED
        BY <3>2, <4>1 DEF adjust_vote
    <3> QED
      BY <3>1, <3>2
  <2>4. ~is_delegate(st, d) => n * times(b, d) = 0
    <3>1. ASSUME ~is_delegate(st, d) PROVE times(b, d) = 0
      <4>1. CASE slate_of[b] \in Slate
        <5>1. slate_of[b] \in st.slates
          BY <4>1, ConditionAssumption
        <5>2. d \notin Named(slate_of[b]) /\ times(b, d) = supported[slate_of[b]][d]
          BY <3>1, <4>1, <5>1 DEF Books, times
        <5> QED
          BY <5>2, <4>1, ConditionAssumption DEF Named
      <4> QED
        BY <4>1 DEF times
    <3> QED
      BY <3>1, Products
  <2>5. st.votes[d] + votes[d] = IF is_delegate(st, d) THEN Votes(st, d) + st.pay[d] ELSE 0
    BY DEF Books
  <2>6. is_delegate(new, d) <=> is_delegate(st, d)
    BY <1>1 DEF is_delegate
  <2>7. Votes(st, d) \in Int /\ st.votes[d] \in Int /\ votes[d] \in Int /\ st.pay[d] \in Int
    BY <1>4, StateSums
  <2> DEFINE m == n * times(b, d)
             w == adjust_vote(votes, b, n)[d]
  <2>8. /\ m \in Int /\ Votes(new, d) = Votes(st, d) + m
        /\ w = votes[d] + m /\ (~is_delegate(st, d) => m = 0)
    BY <2>1, <2>2, <2>3, <2>4
  <2> HIDE DEF m, w
  <2>9. new.votes[d] + w = IF is_delegate(new, d) THEN Votes(new, d) + new.pay[d] ELSE 0
    <3>1. CASE is_delegate(st, d)
      BY <1>1, <2>5, <2>6, <2>7, <2>8, <3>1
    <3>2. CASE ~is_delegate(st, d)
      BY <1>1, <2>5, <2>6, <2>7, <2>8, <3>2
    <3> QED
      BY <3>1, <3>2
  <2> QED
    BY <2>9 DEF w
<1>8. \A c \in BalanceId : slate_of[c] \in Slate \ new.slates => new.balance[c] = 0
  BY <1>1, <1>4, ConditionAssumption DEF Books
<1>9. /\ \A s \in new.slates : \A d \in Named(s) : is_delegate(new, d)
      /\ \A d \in Account : ~is_delegate(new, d) => new.pay[d] = 0
      /\ \A d \in Account \ new.accounts : ~is_delegate(new, d)
  BY <1>1 DEF Books, is_delegate
<1> QED
  BY <1>2, <1>3, <1>6, <1>7, <1>8, <1>9 DEF Books

(* Pay that a delegate earns or withdraws moves the sum of pay.            *)
LEMMA PaySum ==
    ASSUME NEW st \in State, NEW d \in Account, NEW n \in Int, st.pay[d] + n >= 0,
           NEW pay, pay = [st.pay EXCEPT ![d] = @ + n]
    PROVE  /\ pay \in [Account -> Nat]
           /\ SumFunction(pay) = SumFunction(st.pay) + n
<1> DEFINE f == st.pay
<1>1. f \in [Account -> Nat] /\ pay \in [Account -> Nat] /\ pay[d] - f[d] = n
  BY DEF State
<1>2. f \in [Account -> Int] /\ pay \in [Account -> Int] /\ \A x \in Account \ {d} : pay[x] = f[x]
  BY <1>1
<1> HIDE DEF f
<1>3. ASSUME NEW g \in [Account -> Int], g = pay
      PROVE  SumFunction(g) = SumFunction(f) + (g[d] - f[d])
  <2>1. \A x \in Account \ {d} : g[x] = f[x]
    BY <1>2, <1>3
  <2> QED
    BY <1>2, <2>1, FiniteAssumption, SumFunctionUpdate
<1> QED
  BY <1>1, <1>2, <1>3 DEF f

(* A block's delegate is paid from the collected fees; what it does not    *)
(* accept leaves the supply.                                               *)
LEMMA PayDelegateBooks ==
    ASSUME NEW st \in State, Books(st, 0, NoVotes), NEW d \in Account, is_delegate(st, d)
    PROVE  pay_delegate(st, d) \in State /\ Books(pay_delegate(st, d), 0, NoVotes)
<1> DEFINE accepted == (st.rate[d] * MaxPay) \div 100
           new == pay_delegate(st, d)
<1>1. /\ st.balance \in [BalanceId -> Nat] /\ st.pay \in [Account -> Nat]
      /\ st.votes \in [Account -> Int] /\ st.fees \in Int /\ st.supply \in Int
      /\ st.rate \in [Account -> Rate] /\ st.slates \in SUBSET Slate
  BY DEF State
<1>2. accepted \in Nat
  <2>1. st.rate[d] \in Nat /\ MaxPay \in Nat
    BY <1>1, AmountAssumption DEF Rate, NotDelegate
  <2>2. st.rate[d] * MaxPay \in Nat
    BY <2>1
  <2> QED
    BY <2>2
<1> HIDE DEF accepted
<1>3. /\ new.balance = st.balance /\ new.slates = st.slates /\ new.accounts = st.accounts
      /\ new.rate = st.rate /\ new.trxs = st.trxs
      /\ new.pay = [st.pay EXCEPT ![d] = @ + accepted]
      /\ new.votes = [st.votes EXCEPT ![d] = @ + accepted]
      /\ new.fees = st.fees - MaxPay
      /\ new.supply = st.supply - (MaxPay - accepted)
  BY DEF State, pay_delegate, accepted
<1>4. new.pay \in [Account -> Nat] /\ SumFunction(new.pay) = SumFunction(st.pay) + accepted
  BY <1>1, <1>2, <1>3, PaySum
<1>5. new \in State
  <2>2. new.votes \in [Account -> Int] /\ new.fees \in Int /\ new.supply \in Int
    BY <1>1, <1>2, <1>3, AmountAssumption
  <2> QED
    BY <1>4, <2>2 DEF State, pay_delegate
<1> HIDE DEF new
<1>6. new.supply = calculate_supply(new) + 0
  <2>1. st.supply = st.fees + SumFunction(st.balance) + SumFunction(st.pay) + 0
    BY DEF Books, calculate_supply
  <2>2. SumFunction(st.balance) \in Int /\ SumFunction(st.pay) \in Int
    BY StateSums
  <2> QED
    BY <1>1, <1>2, <1>3, <1>4, <2>1, <2>2, AmountAssumption DEF calculate_supply
<1>7. ASSUME NEW e \in Account
      PROVE  new.votes[e] + NoVotes[e]
               = IF is_delegate(new, e) THEN Votes(new, e) + new.pay[e] ELSE 0
  <2>1. Votes(new, e) = Votes(st, e) /\ (is_delegate(new, e) <=> is_delegate(st, e))
    BY <1>3 DEF Votes, is_delegate
  <2>2. st.votes[e] + NoVotes[e] = IF is_delegate(st, e) THEN Votes(st, e) + st.pay[e] ELSE 0
    BY DEF Books
  <2>3. Votes(st, e) \in Int /\ st.votes[e] \in Int /\ st.pay[e] \in Int /\ NoVotes[e] = 0
    BY <1>1, StateSums DEF NoVotes
  <2> QED
    BY <1>1, <1>2, <1>3, <2>1, <2>2, <2>3
<1>8. /\ \A s \in new.slates : \A e \in Named(s) : is_delegate(new, e)
      /\ \A b \in BalanceId : slate_of[b] \in Slate \ new.slates => new.balance[b] = 0
      /\ \A e \in Account : ~is_delegate(new, e) => new.pay[e] = 0
      /\ \A e \in Account \ new.accounts : ~is_delegate(new, e)
  BY <1>1, <1>3 DEF Books, is_delegate
<1> QED
  BY <1>5, <1>6, <1>7, <1>8 DEF Books, new

(* A delegate withdraws pay and the votes that came with it.               *)
LEMMA WithdrawPayBooks ==
    ASSUME NEW st \in State, NEW balance \in Int, NEW votes \in [Account -> Int],
           Books(st, balance, votes),
           NEW d \in Account, is_delegate(st, d), NEW n \in Nat, st.pay[d] >= n,
           NEW new, new = [st EXCEPT !.pay[d] = @ - n]
    PROVE  /\ new \in State
           /\ Books(new, balance + n, [votes EXCEPT ![d] = @ - n])
<1>1. /\ st.balance \in [BalanceId -> Nat] /\ st.pay \in [Account -> Nat]
      /\ st.votes \in [Account -> Int] /\ st.fees \in Int /\ st.supply \in Int
      /\ st.rate \in [Account -> Rate] /\ st.slates \in SUBSET Slate
  BY DEF State
<1>2. /\ new.balance = st.balance /\ new.slates = st.slates /\ new.accounts = st.accounts
      /\ new.rate = st.rate /\ new.votes = st.votes /\ new.fees = st.fees
      /\ new.supply = st.supply /\ new.trxs = st.trxs
      /\ new.pay = [st.pay EXCEPT ![d] = @ + (-n)]
  BY DEF State
<1>3. new.pay \in [Account -> Nat] /\ SumFunction(new.pay) = SumFunction(st.pay) + (-n)
  BY <1>1, <1>2, PaySum
<1>4. new \in State
  BY <1>3 DEF State
<1>5. new.supply = calculate_supply(new) + (balance + n)
  <2>1. st.supply = st.fees + SumFunction(st.balance) + SumFunction(st.pay) + balance
    BY DEF Books, calculate_supply
  <2>2. SumFunction(st.balance) \in Int /\ SumFunction(st.pay) \in Int
    BY StateSums
  <2> QED
    BY <1>1, <1>2, <1>3, <2>1, <2>2 DEF calculate_supply
<1>6. ASSUME NEW e \in Account
      PROVE  new.votes[e] + [votes EXCEPT ![d] = @ - n][e]
               = IF is_delegate(new, e) THEN Votes(new, e) + new.pay[e] ELSE 0
  <2>1. Votes(new, e) = Votes(st, e) /\ (is_delegate(new, e) <=> is_delegate(st, e))
    BY <1>2 DEF Votes, is_delegate
  <2>2. st.votes[e] + votes[e] = IF is_delegate(st, e) THEN Votes(st, e) + st.pay[e] ELSE 0
    BY DEF Books
  <2>3. Votes(st, e) \in Int /\ st.votes[e] \in Int /\ st.pay[e] \in Int /\ votes[e] \in Int
    BY <1>1, StateSums
  <2> QED
    BY <1>1, <1>2, <2>1, <2>2, <2>3
<1>7. /\ \A s \in new.slates : \A e \in Named(s) : is_delegate(new, e)
      /\ \A b \in BalanceId : slate_of[b] \in Slate \ new.slates => new.balance[b] = 0
      /\ \A e \in Account : ~is_delegate(new, e) => new.pay[e] = 0
      /\ \A e \in Account \ new.accounts : ~is_delegate(new, e)
  BY <1>1, <1>2 DEF Books, is_delegate
<1> QED
  BY <1>4, <1>5, <1>6, <1>7 DEF Books

(* An account is registered or updated.  One that becomes a delegate has   *)
(* no votes yet: no slate on record names it.                              *)
LEMMA RateBooks ==
    ASSUME NEW st \in State, NEW balance \in Int, NEW votes \in [Account -> Int],
           Books(st, balance, votes),
           NEW a \in Account, NEW r \in Rate, is_delegate(st, a) => r <= 100,
           NEW new, new = [st EXCEPT !.accounts = @ \cup {a}, !.rate[a] = r]
    PROVE  new \in State /\ Books(new, balance, votes)
<1>1. /\ st.balance \in [BalanceId -> Nat] /\ st.pay \in [Account -> Nat]
      /\ st.votes \in [Account -> Int] /\ st.fees \in Int /\ st.supply \in Int
      /\ st.rate \in [Account -> Rate] /\ st.slates \in SUBSET Slate
      /\ st.accounts \in SUBSET Account
  BY DEF State
<1>2. /\ new.balance = st.balance /\ new.slates = st.slates /\ new.pay = st.pay
      /\ new.votes = st.votes /\ new.fees = st.fees
      /\ new.supply = st.supply /\ new.trxs = st.trxs
      /\ new.accounts = st.accounts \cup {a}
      /\ new.rate = [st.rate EXCEPT ![a] = r]
  BY DEF State
<1>3. new \in State
  BY <1>1 DEF State
<1>4. ASSUME NEW d \in Account
      PROVE  /\ is_delegate(st, d) => is_delegate(new, d)
             /\ d # a => (is_delegate(new, d) <=> is_delegate(st, d))
  BY <1>1, <1>2 DEF is_delegate
<1>5. new.supply = calculate_supply(new) + balance
  BY <1>2 DEF Books, calculate_supply
<1>6. ASSUME NEW d \in Account
      PROVE  new.votes[d] + votes[d]
               = IF is_delegate(new, d) THEN Votes(new, d) + new.pay[d] ELSE 0
  <2>1. Votes(new, d) = Votes(st, d)
    BY <1>2 DEF Votes
  <2>2. st.votes[d] + votes[d] = IF is_delegate(st, d) THEN Votes(st, d) + st.pay[d] ELSE 0
    BY DEF Books
  <2>3. CASE is_delegate(st, d)
    BY <1>2, <1>4, <2>1, <2>2, <2>3
  <2>4. CASE ~is_delegate(st, d)
    <3>1. ASSUME NEW b \in BalanceId PROVE Weighted(st, d)[b] = 0
      <4>1. CASE slate_of[b] \in Slate /\ slate_of[b] \notin st.slates
        <5>1. st.balance[b] = 0
          BY <4>1 DEF Books
        <5> QED
          BY <1>1, <5>1, WeightedType
      <4>2. CASE slate_of[b] \in st.slates
        <5>1. d \notin Named(slate_of[b]) /\ times(b, d) = supported[slate_of[b]][d]
              /\ slate_of[b] \in Slate
          BY <1>1, <2>4, <4>2 DEF Books, times
        <5>2. times(b, d) = 0
          BY <5>1, ConditionAssumption DEF Named
        <5> QED
          BY <1>1, <5>2, WeightedType
      <4>3. CASE slate_of[b] \notin Slate
        BY <1>1, <4>3, WeightedType DEF times
      <4> QED
        BY <4>1, <4>2, <4>3
    <3>2. SumFunctionOnSet(Weighted(st, d), BalanceId) = 0
      BY <3>1, FiniteAssumption, SumZero
    <3>4. Votes(st, d) = 0
      BY <3>2 DEF Votes, SumFunction, Weighted
    <3>5. st.pay[d] = 0
      BY <2>4 DEF Books
    <3> QED
      BY <1>2, <2>1, <2>2, <2>4, <3>4, <3>5
  <2> QED
    BY <2>3, <2>4
<1>7. /\ \A s \in new.slates : \A e \in Named(s) : is_delegate(new, e)
      /\ \A b \in BalanceId : slate_of[b] \in Slate \ new.slates => new.balance[b] = 0
      /\ \A e \in Account : ~is_delegate(new, e) => new.pay[e] = 0
      /\ \A e \in Account \ new.accounts : ~is_delegate(new, e)
  BY <1>1, <1>2, <1>4 DEF Books, Named
<1> QED
  BY <1>3, <1>5, <1>6, <1>7 DEF Books

(* A slate goes on record when all it names are delegates.                 *)
LEMMA SlateBooks ==
    ASSUME NEW st \in State, NEW balance \in Int, NEW votes \in [Account -> Int],
           Books(st, balance, votes),
           NEW s \in Slate, s \in st.slates \/ \A d \in Named(s) : is_delegate(st, d),
           NEW new, new = [st EXCEPT !.slates = @ \cup {s}]
    PROVE  new \in State /\ Books(new, balance, votes)
<1>1. /\ new.balance = st.balance /\ new.accounts = st.accounts /\ new.rate = st.rate
      /\ new.pay = st.pay /\ new.votes = st.votes /\ new.fees = st.fees
      /\ new.supply = st.supply /\ new.trxs = st.trxs
      /\ new.slates = st.slates \cup {s}
  BY DEF State
<1>2. new \in State
  BY DEF State
<1>3. /\ \A d \in Account : Votes(new, d) = Votes(st, d)
      /\ calculate_supply(new) = calculate_supply(st)
      /\ \A d : is_delegate(new, d) <=> is_delegate(st, d)
  BY <1>1 DEF Votes, calculate_supply, is_delegate
<1> QED
  BY <1>1, <1>2, <1>3 DEF Books

(* What is burnt leaves the supply.                                        *)
LEMMA BurnBooks ==
    ASSUME NEW st \in State, NEW balance \in Int, NEW votes \in [Account -> Int],
           Books(st, balance, votes), NEW n \in Int,
           NEW new, new = [st EXCEPT !.supply = @ - n]
    PROVE  new \in State /\ Books(new, balance - n, votes)
<1>1. /\ new.balance = st.balance /\ new.accounts = st.accounts /\ new.rate = st.rate
      /\ new.pay = st.pay /\ new.votes = st.votes /\ new.fees = st.fees
      /\ new.slates = st.slates /\ new.trxs = st.trxs
      /\ new.supply = st.supply - n
  BY DEF State
<1>2. new \in State
  <2>1. st.supply - n \in Int
    BY DEF State
  <2> QED
    BY <2>1 DEF State
<1>3. /\ \A d \in Account : Votes(new, d) = Votes(st, d)
      /\ calculate_supply(new) = calculate_supply(st)
      /\ \A d : is_delegate(new, d) <=> is_delegate(st, d)
  BY <1>1 DEF Votes, calculate_supply, is_delegate
<1>4. calculate_supply(st) \in Int /\ st.supply = calculate_supply(st) + balance
  <2>1. st.fees \in Int /\ SumFunction(st.balance) \in Int /\ SumFunction(st.pay) \in Int
    BY StateSums DEF State
  <2> QED
    BY <2>1 DEF calculate_supply, Books
<1>5. new.supply = calculate_supply(new) + (balance - n)
  BY <1>1, <1>3, <1>4
<1> QED
  BY <1>1, <1>2, <1>3, <1>5 DEF Books

(* The end of a transaction: what it leaves over goes to the fees, and its *)
(* changes to the votes are applied.                                       *)
LEMMA StoreBooks ==
    ASSUME NEW st \in State, NEW balance \in Int, NEW votes \in [Account -> Int],
           Books(st, balance, votes),
           NEW new, new = [st EXCEPT !.fees = @ + balance,
                                     !.votes = [d \in Account |-> @[d] + votes[d]]]
    PROVE  new \in State /\ Books(new, 0, NoVotes)
<1>1. /\ new.balance = st.balance /\ new.accounts = st.accounts /\ new.rate = st.rate
      /\ new.pay = st.pay /\ new.slates = st.slates /\ new.trxs = st.trxs
      /\ new.supply = st.supply
      /\ new.fees = st.fees + balance
      /\ new.votes = [d \in Account |-> st.votes[d] + votes[d]]
  BY DEF State
<1>2. new \in State
  <2>1. st.fees + balance \in Int /\ [d \in Account |-> st.votes[d] + votes[d]] \in [Account -> Int]
    BY DEF State
  <2> QED
    BY <2>1 DEF State
<1>3. /\ \A d \in Account : Votes(new, d) = Votes(st, d)
      /\ \A d : is_delegate(new, d) <=> is_delegate(st, d)
  BY <1>1 DEF Votes, is_delegate
<1>4. new.supply = calculate_supply(new) + 0
  <2>1. st.supply = st.fees + SumFunction(st.balance) + SumFunction(st.pay) + balance
    BY DEF Books, calculate_supply
  <2>2. SumFunction(st.balance) \in Int /\ SumFunction(st.pay) \in Int /\ st.fees \in Int
    BY StateSums DEF State
  <2> QED
    BY <1>1, <2>1, <2>2 DEF calculate_supply
<1>5. ASSUME NEW d \in Account PROVE new.votes[d] + NoVotes[d] = st.votes[d] + votes[d]
  BY <1>1 DEF NoVotes, State
<1> QED
  BY <1>1, <1>2, <1>3, <1>4, <1>5 DEF Books

(* The books of the genesis block.                                         *)
LEMMA GenesisBooks == Genesis \in State /\ Books(Genesis, 0, NoVotes)
<1> DEFINE st == [balance  |-> genesis,
                  slates   |-> {s \in Slate : Named(s) \subseteq Delegates},
                  accounts |-> Delegates,
                  rate     |-> [d \in Account |-> IF d \in Delegates THEN 100 ELSE NotDelegate],
                  pay      |-> [d \in Account |-> 0],
                  votes    |-> [d \in Account |-> 0],
                  fees     |-> 0,
                  supply   |-> SumFunction(genesis),
                  trxs     |-> <<>>]
<1>1. st \in State
  <2>1. SumFunction(genesis) \in Int
    <3>1. SumFunctionOnSet(genesis, BalanceId) \in Int
      BY GenesisAssumption, FiniteAssumption, SumType
    <3> QED
      BY <3>1, GenesisAssumption DEF SumFunction
  <2>2. [d \in Account |-> IF d \in Delegates THEN 100 ELSE NotDelegate] \in [Account -> Rate]
    BY DEF Rate
  <2> QED
    BY <2>1, <2>2, GenesisAssumption, DelegatesAssumption DEF State
<1>2. Genesis = [st EXCEPT !.votes = [d \in Account |-> IF d \in Delegates THEN Votes(st, d) ELSE 0]]
  BY DEF Genesis
<1>3. st.pay = [d \in Account |-> 0] /\ st.balance = genesis
  OBVIOUS
<1>4. /\ Genesis.balance = genesis /\ Genesis.fees = 0 /\ Genesis.accounts = Delegates
      /\ Genesis.slates = {s \in Slate : Named(s) \subseteq Delegates}
      /\ Genesis.rate = [d \in Account |-> IF d \in Delegates THEN 100 ELSE NotDelegate]
      /\ Genesis.pay = [d \in Account |-> 0] /\ Genesis.supply = SumFunction(genesis)
      /\ Genesis.votes = [d \in Account |-> IF d \in Delegates THEN Votes(st, d) ELSE 0]
  BY <1>2
<1>5. \A d \in Account : Votes(st, d) \in Int
  BY <1>1, StateSums
<1>6. \A d \in Account : Votes(Genesis, d) = Votes(st, d)
  BY <1>3, <1>4 DEF Votes
<1> HIDE DEF st
<1>7. Genesis \in State
  <2> DEFINE v == [d \in Account |-> IF d \in Delegates THEN Votes(st, d) ELSE 0]
  <2>1. v \in [Account -> Int] /\ Genesis = [st EXCEPT !.votes = v]
    BY <1>2, <1>5
  <2> HIDE DEF v
  <2> QED
    BY <1>1, <2>1 DEF State
<1>8. Genesis.supply = calculate_supply(Genesis) + 0
  <2>1. SumFunctionOnSet([d \in Account |-> 0], Account) = 0
    BY FiniteAssumption, SumZero
  <2>2. SumFunction(Genesis.pay) = 0
    BY <1>4, <2>1 DEF SumFunction
  <2>3. SumFunction(genesis) \in Int
    BY <1>4, <1>7, StateSums
  <2> QED
    BY <1>4, <2>2, <2>3 DEF calculate_supply
<1>9. \A d \in Account : is_delegate(Genesis, d) <=> d \in Delegates
  BY <1>4 DEF is_delegate, NotDelegate
<1>10. \A d \in Account :
         Genesis.votes[d] + NoVotes[d]
           = IF is_delegate(Genesis, d) THEN Votes(Genesis, d) + Genesis.pay[d] ELSE 0
  BY <1>4, <1>5, <1>6, <1>9 DEF NoVotes
<1>11. /\ \A s \in Genesis.slates : \A d \in Named(s) : is_delegate(Genesis, d)
       /\ \A b \in BalanceId : slate_of[b] \in Slate \ Genesis.slates => Genesis.balance[b] = 0
       /\ \A d \in Account : ~is_delegate(Genesis, d) => Genesis.pay[d] = 0
       /\ \A d \in Account \ Genesis.accounts : ~is_delegate(Genesis, d)
  BY <1>4, <1>9, GenesisAssumption, DelegatesAssumption
<1> QED
  BY <1>7, <1>8, <1>10, <1>11 DEF Books

-----------------------------------------------------------------------------
(* The actions.                                                            *)

Ev == [balance : Int, required_fees : Nat, votes : [Account -> Int]]

(* The state of an evaluation that has not begun.                          *)
LEMMA ResetShape == reset \in Ev /\ reset.balance = 0 /\ reset.votes = NoVotes
BY DEF reset, Ev, NoVotes

(* The initial state.                                                      *)
LEMMA InitInv == Init => IInv
BY GenesisBooks, ResetShape DEF Init, IInv, TypeOK, Ev

(* A dropped block leaves the books of the chain.                          *)
LEMMA ThrowInv == IInv /\ throw => IInv'
BY ResetShape DEF throw, IInv, TypeOK, Ev

(* An operation that leaves the books of the pending state in order.       *)
LEMMA OpInv ==
    ASSUME IInv, phase = "trx",
           pending' \in State, ev' \in Ev, Books(pending', ev'.balance, ev'.votes),
           op_index' = op_index + 1, UNCHANGED <<chain, known, undo, phase, applied, trx>>
    PROVE  IInv'
BY DEF IInv, TypeOK, Ev

(* The operations of a transaction, by type.                               *)
LEMMA OperationShape ==
    ASSUME NEW op \in Operation
    PROVE  /\ op.type \in {"deposit", "withdraw", "claim"} =>
                op.id \in BalanceId /\ op.amount \in Int
           /\ op.type = "burn" => op.amount \in Int
           /\ op.type = "withdraw_pay" => op.id \in Account /\ op.amount \in Int
           /\ op.type = "define_delegate_slate" => op.id \in Slate
           /\ op.type \in {"register_account", "update_account"} =>
                op.id \in Account /\ op.rate \in Rate
BY DEF Operation

(* What a new delegate pays is not negative.                               *)
LEMMA RateFeeType ==
    ASSUME NEW r \in Rate
    PROVE  RateFee(r) \in Nat
<1>1. r \in Nat /\ DelegateFee \in Nat
  BY AmountAssumption DEF Rate, NotDelegate
<1>2. DelegateFee * r \in Nat
  BY <1>1
<1> QED
  BY <1>2 DEF RateFee

(* Each operation keeps the books of the pending state.                   *)
LEMMA EvaluateOperationInv == IInv /\ evaluate_operation => IInv'
<1> SUFFICES ASSUME IInv, evaluate_operation PROVE IInv'
  OBVIOUS
<1> DEFINE op == trx.ops[op_index]
<1>1. phase = "trx" /\ trx \in Trx /\ op_index \in 1 .. Len(trx.ops)
  BY DEF evaluate_operation, IInv, TypeOK
<1>2. op \in Operation
  BY <1>1, TrxAssumption
<1>3. /\ pending \in State /\ ev \in Ev /\ Books(pending, ev.balance, ev.votes)
      /\ ev.balance \in Int /\ ev.votes \in [Account -> Int] /\ ev.required_fees \in Nat
  BY DEF IInv, TypeOK, Ev
<1> HIDE DEF op
<1>4. CASE op.type = "deposit" /\ deposit(op)
  <2>1. CASE throw
    BY <2>1, ThrowInv
  <2>2. CASE ~throw
    <3>1. /\ op.amount > 0 /\ SlateKnown(op.id)
          /\ pending' = [pending EXCEPT !.balance[op.id] = @ + op.amount]
          /\ ev' = [ev EXCEPT !.balance = @ - op.amount, !.votes = adjust_vote(@, op.id, op.amount)]
          /\ op_index' = op_index + 1 /\ UNCHANGED <<chain, known, undo, phase, applied, trx>>
      BY <1>4, <2>2 DEF deposit, Op
    <3>2. op.id \in BalanceId /\ op.amount \in Int
      BY <1>2, <1>4, OperationShape
    <3>3. pending.balance[op.id] + op.amount >= 0
      BY <1>3, <3>1, <3>2 DEF State
    <3>4. /\ pending' \in State
          /\ adjust_vote(ev.votes, op.id, op.amount) \in [Account -> Int]
          /\ Books(pending', ev.balance - op.amount, adjust_vote(ev.votes, op.id, op.amount))
      BY <1>3, <3>1, <3>2, <3>3, BalanceMoves DEF SlateKnown
    <3>5. /\ ev' \in Ev /\ ev'.balance = ev.balance - op.amount
          /\ ev'.votes = adjust_vote(ev.votes, op.id, op.amount)
      <4> DEFINE v == adjust_vote(ev.votes, op.id, op.amount)
      <4>1. ev' = [ev EXCEPT !.balance = @ - op.amount, !.votes = v]
        BY <3>1
      <4>2. v \in [Account -> Int] /\ ev.balance - op.amount \in Int
        BY <1>3, <3>2, <3>4
      <4> HIDE DEF v
      <4>3. /\ ev' \in Ev /\ ev'.balance = ev.balance - op.amount /\ ev'.votes = v
        BY <1>3, <4>1, <4>2 DEF Ev
      <4> QED
        BY <4>3 DEF v
    <3> QED
      BY <1>1, <3>1, <3>4, <3>5, OpInv
  <2> QED
    BY <2>1, <2>2
<1>5. CASE op.type = "withdraw" /\ withdraw(op)
  <2>1. CASE throw
    BY <2>1, ThrowInv
  <2>2. CASE ~throw
    <3>1. /\ op.amount > 0 /\ op.amount <= pending.balance[op.id] /\ SlateKnown(op.id)
          /\ pending' = [pending EXCEPT !.balance[op.id] = @ - op.amount]
          /\ ev' = [ev EXCEPT !.balance = @ + op.amount, !.votes = adjust_vote(@, op.id, -op.amount)]
          /\ op_index' = op_index + 1 /\ UNCHANGED <<chain, known, undo, phase, applied, trx>>
      BY <1>5, <2>2 DEF withdraw, Op
    <3>2. op.id \in BalanceId /\ op.amount \in Int
      BY <1>2, <1>5, OperationShape
    <3>3. /\ pending.balance[op.id] + (-op.amount) >= 0
          /\ pending' = [pending EXCEPT !.balance[op.id] = @ + (-op.amount)]
      <4>1. pending.balance[op.id] \in Nat
        BY <1>3, <3>2 DEF State
      <4>2. /\ pending.balance[op.id] + (-op.amount) >= 0
            /\ pending.balance[op.id] + (-op.amount) = pending.balance[op.id] - op.amount
        BY <3>1, <3>2, <4>1
      <4> QED
        BY <3>1, <4>2
    <3>4. /\ pending' \in State
          /\ adjust_vote(ev.votes, op.id, -op.amount) \in [Account -> Int]
          /\ Books(pending', ev.balance + op.amount, adjust_vote(ev.votes, op.id, -op.amount))
      <4>1. ev.balance - (-op.amount) = ev.balance + op.amount /\ -op.amount \in Int
        BY <1>3, <3>2
      <4>2. /\ pending' \in State
            /\ adjust_vote(ev.votes, op.id, -op.amount) \in [Account -> Int]
            /\ Books(pending', ev.balance - (-op.amount), adjust_vote(ev.votes, op.id, -op.amount))
        BY <1>3, <3>1, <3>2, <3>3, <4>1, BalanceMoves DEF SlateKnown
      <4> QED
        BY <4>1, <4>2
    <3>5. /\ ev' \in Ev /\ ev'.balance = ev.balance + op.amount
          /\ ev'.votes = adjust_vote(ev.votes, op.id, -op.amount)
      <4> DEFINE v == adjust_vote(ev.votes, op.id, -op.amount)
      <4>1. ev' = [ev EXCEPT !.balance = @ + op.amount, !.votes = v]
        BY <3>1
      <4>2. v \in [Account -> Int] /\ ev.balance + op.amount \in Int
        BY <1>3, <3>2, <3>4
      <4> HIDE DEF v
      <4>3. /\ ev' \in Ev /\ ev'.balance = ev.balance + op.amount /\ ev'.votes = v
        BY <1>3, <4>1, <4>2 DEF Ev
      <4> QED
        BY <4>3 DEF v
    <3> QED
      BY <1>1, <3>1, <3>4, <3>5, OpInv
  <2> QED
    BY <2>1, <2>2
<1>6. CASE op.type = "claim" /\ claim(op)
  <2>1. CASE throw
    BY <2>1, ThrowInv
  <2>2. CASE ~throw
    <3>1. /\ op.amount = pending.balance[op.id] /\ SlateKnown(op.id)
          /\ pending' = [pending EXCEPT !.balance[op.id] = 0]
          /\ ev' = [ev EXCEPT !.balance = @ + op.amount, !.votes = adjust_vote(@, op.id, -op.amount)]
          /\ op_index' = op_index + 1 /\ UNCHANGED <<chain, known, undo, phase, applied, trx>>
      BY <1>6, <2>2 DEF claim, Op
    <3>2. op.id \in BalanceId /\ op.amount \in Int
      BY <1>2, <1>6, OperationShape
    <3>3. /\ pending.balance[op.id] + (-op.amount) >= 0
          /\ pending' = [pending EXCEPT !.balance[op.id] = @ + (-op.amount)]
      <4>1. pending.balance[op.id] \in Nat
        BY <1>3, <3>2 DEF State
      <4>2. /\ pending.balance[op.id] + (-op.amount) >= 0
            /\ pending.balance[op.id] + (-op.amount) = 0
        BY <3>1, <3>2, <4>1
      <4> QED
        BY <3>1, <4>2
    <3>4. /\ pending' \in State
          /\ adjust_vote(ev.votes, op.id, -op.amount) \in [Account -> Int]
          /\ Books(pending', ev.balance + op.amount, adjust_vote(ev.votes, op.id, -op.amount))
      <4>1. ev.balance - (-op.amount) = ev.balance + op.amount /\ -op.amount \in Int
        BY <1>3, <3>2
      <4>2. /\ pending' \in State
            /\ adjust_vote(ev.votes, op.id, -op.amount) \in [Account -> Int]
            /\ Books(pending', ev.balance - (-op.amount), adjust_vote(ev.votes, op.id, -op.amount))
        BY <1>3, <3>1, <3>2, <3>3, <4>1, BalanceMoves DEF SlateKnown
      <4> QED
        BY <4>1, <4>2
    <3>5. /\ ev' \in Ev /\ ev'.balance = ev.balance + op.amount
          /\ ev'.votes = adjust_vote(ev.votes, op.id, -op.amount)
      <4> DEFINE v == adjust_vote(ev.votes, op.id, -op.amount)
      <4>1. ev' = [ev EXCEPT !.balance = @ + op.amount, !.votes = v]
        BY <3>1
      <4>2. v \in [Account -> Int] /\ ev.balance + op.amount \in Int
        BY <1>3, <3>2, <3>4
      <4> HIDE DEF v
      <4>3. /\ ev' \in Ev /\ ev'.balance = ev.balance + op.amount /\ ev'.votes = v
        BY <1>3, <4>1, <4>2 DEF Ev
      <4> QED
        BY <4>3 DEF v
    <3> QED
      BY <1>1, <3>1, <3>4, <3>5, OpInv
  <2> QED
    BY <2>1, <2>2
<1>7. CASE op.type = "burn" /\ burn(op)
  <2>1. CASE throw
    BY <2>1, ThrowInv
  <2>2. CASE ~throw
    <3>1. /\ op.amount >= MinBurn
          /\ pending' = [pending EXCEPT !.supply = @ - op.amount]
          /\ ev' = [ev EXCEPT !.balance = @ - op.amount]
          /\ op_index' = op_index + 1 /\ UNCHANGED <<chain, known, undo, phase, applied, trx>>
      BY <1>7, <2>2 DEF burn, Op
    <3>2. op.amount \in Int
      BY <1>2, <1>7, OperationShape
    <3>4. pending' \in State /\ Books(pending', ev.balance - op.amount, ev.votes)
      BY <1>3, <3>1, <3>2, BurnBooks
    <3>5. ev' \in Ev /\ ev'.balance = ev.balance - op.amount /\ ev'.votes = ev.votes
      BY <1>3, <3>1, <3>2 DEF Ev
    <3> QED
      BY <1>1, <3>1, <3>4, <3>5, OpInv
  <2> QED
    BY <2>1, <2>2
<1>8. CASE op.type = "withdraw_pay" /\ withdraw_pay(op)
  <2>1. CASE throw
    BY <2>1, ThrowInv
  <2>2. CASE ~throw
    <3>1. /\ op.amount > 0 /\ is_delegate(pending, op.id) /\ pending.pay[op.id] >= op.amount
          /\ pending' = [pending EXCEPT !.pay[op.id] = @ - op.amount]
          /\ ev' = [ev EXCEPT !.balance = @ + op.amount, !.votes[op.id] = @ - op.amount]
          /\ op_index' = op_index + 1 /\ UNCHANGED <<chain, known, undo, phase, applied, trx>>
      BY <1>8, <2>2 DEF withdraw_pay, Op
    <3>2. op.id \in Account /\ op.amount \in Int
      BY <1>2, <1>8, OperationShape
    <3>3. op.amount \in Nat
      BY <3>1, <3>2
    <3>4. /\ pending' \in State
          /\ Books(pending', ev.balance + op.amount, [ev.votes EXCEPT ![op.id] = @ - op.amount])
      BY <1>3, <3>1, <3>2, <3>3, WithdrawPayBooks
    <3>5. /\ ev' \in Ev /\ ev'.balance = ev.balance + op.amount
          /\ ev'.votes = [ev.votes EXCEPT ![op.id] = @ - op.amount]
      <4> DEFINE v == [ev.votes EXCEPT ![op.id] = @ - op.amount]
      <4>1. ev' = [ev EXCEPT !.balance = @ + op.amount, !.votes = v]
        BY <3>1
      <4>2. v \in [Account -> Int] /\ ev.balance + op.amount \in Int
        BY <1>3, <3>2
      <4> HIDE DEF v
      <4>3. /\ ev' \in Ev /\ ev'.balance = ev.balance + op.amount /\ ev'.votes = v
        BY <1>3, <4>1, <4>2 DEF Ev
      <4> QED
        BY <4>3 DEF v
    <3> QED
      BY <1>1, <3>1, <3>4, <3>5, OpInv
  <2> QED
    BY <2>1, <2>2
<1>9. CASE op.type = "define_delegate_slate" /\ define_delegate_slate(op)
  <2>1. CASE throw
    BY <2>1, ThrowInv
  <2>2. CASE ~throw
    <3>1. /\ op.id \in pending.slates \/ \A d \in Named(op.id) : is_delegate(pending, d)
          /\ pending' = [pending EXCEPT !.slates = @ \cup {op.id}]
          /\ ev' = ev
          /\ op_index' = op_index + 1 /\ UNCHANGED <<chain, known, undo, phase, applied, trx>>
      BY <1>9, <2>2 DEF define_delegate_slate, Op
    <3>2. op.id \in Slate
      BY <1>2, <1>9, OperationShape
    <3>4. pending' \in State /\ Books(pending', ev.balance, ev.votes)
      BY <1>3, <3>1, <3>2, SlateBooks
    <3>5. ev' \in Ev /\ ev'.balance = ev.balance /\ ev'.votes = ev.votes
      BY <1>3, <3>1 DEF Ev
    <3> QED
      BY <1>1, <3>1, <3>4, <3>5, OpInv
  <2> QED
    BY <2>1, <2>2
<1>10. CASE op.type = "register_account" /\ register_account(op)
  <2>1. CASE throw
    BY <2>1, ThrowInv
  <2>2. CASE ~throw
    <3>1. /\ op.id \notin pending.accounts
          /\ pending' = [pending EXCEPT !.accounts = @ \cup {op.id}, !.rate[op.id] = op.rate]
          /\ ev' = [ev EXCEPT !.required_fees = @ + RegFee + RateFee(op.rate)]
          /\ op_index' = op_index + 1 /\ UNCHANGED <<chain, known, undo, phase, applied, trx>>
      BY <1>10, <2>2 DEF register_account, Op
    <3>2. op.id \in Account /\ op.rate \in Rate
      BY <1>2, <1>10, OperationShape
    <3>3. ~is_delegate(pending, op.id)
      BY <1>3, <3>1, <3>2 DEF Books
    <3>4. pending' \in State /\ Books(pending', ev.balance, ev.votes)
      BY <1>3, <3>1, <3>2, <3>3, RateBooks
    <3>5. ev' \in Ev /\ ev'.balance = ev.balance /\ ev'.votes = ev.votes
      <4>1. ev.required_fees + RegFee + RateFee(op.rate) \in Nat
        BY <1>3, <3>2, RateFeeType, AmountAssumption
      <4> QED
        BY <1>3, <3>1, <4>1 DEF Ev
    <3> QED
      BY <1>1, <3>1, <3>4, <3>5, OpInv
  <2> QED
    BY <2>1, <2>2
<1>11. CASE op.type = "update_account" /\ update_account(op)
  <2>1. CASE throw
    BY <2>1, ThrowInv
  <2>2. CASE ~throw
    <3>1. /\ op.id \in pending.accounts
          /\ is_delegate(pending, op.id) => op.rate <= pending.rate[op.id]
          /\ pending' = [pending EXCEPT !.rate[op.id] = op.rate]
          /\ ev' = IF is_delegate(pending, op.id) THEN ev
                     ELSE [ev EXCEPT !.required_fees = @ + RateFee(op.rate)]
          /\ op_index' = op_index + 1 /\ UNCHANGED <<chain, known, undo, phase, applied, trx>>
      BY <1>11, <2>2 DEF update_account, Op
    <3>2. op.id \in Account /\ op.rate \in Rate
      BY <1>2, <1>11, OperationShape
    <3>3. /\ is_delegate(pending, op.id) => op.rate <= 100
          /\ pending' = [pending EXCEPT !.accounts = @ \cup {op.id}, !.rate[op.id] = op.rate]
      <4>1. pending.accounts \cup {op.id} = pending.accounts
        BY <3>1
      <4>2. is_delegate(pending, op.id) => op.rate <= 100
        <5>1. pending.rate[op.id] \in Int /\ op.rate \in Int
          <6>1. pending.rate \in [Account -> Rate]
            BY <1>3 DEF State
          <6>2. \A r \in Rate : r \in Int
            BY DEF Rate, NotDelegate
          <6> QED
            BY <3>2, <6>1, <6>2
        <5> QED
          BY <3>1, <5>1 DEF is_delegate
      <4> QED
        BY <1>3, <3>1, <4>1, <4>2 DEF State
    <3>4. pending' \in State /\ Books(pending', ev.balance, ev.votes)
      BY <1>3, <3>2, <3>3, RateBooks
    <3>5. ev' \in Ev /\ ev'.balance = ev.balance /\ ev'.votes = ev.votes
      <4>1. ev.required_fees + RateFee(op.rate) \in Nat
        BY <1>3, <3>2, RateFeeType
      <4> QED
        BY <1>3, <3>1, <4>1 DEF Ev
    <3> QED
      BY <1>1, <3>1, <3>4, <3>5, OpInv
  <2> QED
    BY <2>1, <2>2
<1> QED
  BY <1>4, <1>5, <1>6, <1>7, <1>8, <1>9, <1>10, <1>11 DEF evaluate_operation, op

-----------------------------------------------------------------------------
(* A block begins: its delegate is paid.                                   *)
LEMMA ExtendChainInv == \A d \in Account : IInv /\ extend_chain(d) => IInv'
<1> SUFFICES ASSUME NEW d \in Account, IInv, extend_chain(d) PROVE IInv'
  OBVIOUS
<1>1. chain \in State /\ Books(chain, 0, NoVotes) /\ is_delegate(chain, d)
  BY DEF IInv, TypeOK, extend_chain
<1>2. pending' \in State /\ Books(pending', 0, NoVotes)
  BY <1>1, PayDelegateBooks DEF extend_chain
<1>3. /\ ev = reset /\ ev' = reset /\ phase' = "block" /\ applied' = <<>>
      /\ UNCHANGED <<chain, known, undo, trx, op_index, ev>>
  BY DEF extend_chain, IInv
<1>4. Books(pending', ev'.balance, ev'.votes)
  BY <1>2, <1>3, ResetShape
<1> QED
  BY <1>2, <1>3, <1>4 DEF IInv, TypeOK

(* A transaction begins, or is refused.                                    *)
LEMMA EvaluateInv == \A t \in Trx : IInv /\ evaluate(t) => IInv'
<1> SUFFICES ASSUME NEW t \in Trx, IInv, evaluate(t) PROVE IInv'
  OBVIOUS
<1>1. CASE throw
  BY <1>1, ThrowInv
<1>2. CASE ~throw
  <2>1. /\ phase = "block" /\ phase' = "trx" /\ trx' = t /\ op_index' = 1 /\ ev' = reset
        /\ UNCHANGED <<chain, known, undo, pending, applied>>
    BY <1>2 DEF evaluate
  <2>2. ev = reset
    BY <2>1 DEF IInv
  <2> QED
    BY <2>1, <2>2 DEF IInv, TypeOK
<1> QED
  BY <1>1, <1>2

(* A transaction ends: what it left over and its votes are applied.        *)
LEMMA StoreTransactionInv == IInv /\ store_transaction => IInv'
<1> SUFFICES ASSUME IInv, store_transaction PROVE IInv'
  OBVIOUS
<1>1. CASE throw
  BY <1>1, ThrowInv
<1>2. CASE ~throw
  <2>1. /\ pending' = update_delegate_votes(post_evaluate(pending))
        /\ applied' = Append(applied, trx)
        /\ phase' = "block" /\ op_index' = 1 /\ ev' = reset
        /\ UNCHANGED <<chain, known, undo, trx>>
    BY <1>2 DEF store_transaction
  <2>2. pending' \in State /\ Books(pending', 0, NoVotes)
    <3>1. /\ pending \in State /\ Books(pending, ev.balance, ev.votes)
          /\ ev.balance \in Int /\ ev.votes \in [Account -> Int]
      BY DEF IInv, TypeOK
    <3>2. pending' = [pending EXCEPT !.fees = @ + ev.balance,
                                     !.votes = [d \in Account |-> @[d] + ev.votes[d]]]
      BY <2>1, <3>1 DEF post_evaluate, update_delegate_votes, State
    <3> QED
      BY <3>1, <3>2, StoreBooks
  <2>3. ev' \in Ev /\ Books(pending', ev'.balance, ev'.votes)
    BY <2>1, <2>2, ResetShape
  <2>4. applied' \in Seq(Trx)
    BY <2>1 DEF IInv, TypeOK
  <2> QED
    BY <2>1, <2>2, <2>3, <2>4 DEF IInv, TypeOK, Ev
<1> QED
  BY <1>1, <1>2

(* The books do not depend on the transactions on record.                  *)
LEMMA TrxsBooks ==
    ASSUME NEW st \in State, NEW balance, NEW votes, Books(st, balance, votes),
           NEW s \in Seq(Trx), NEW new, new = [st EXCEPT !.trxs = s]
    PROVE  new \in State /\ Books(new, balance, votes)
<1>1. /\ new \in State
      /\ new.balance = st.balance /\ new.slates = st.slates /\ new.accounts = st.accounts
      /\ new.rate = st.rate /\ new.pay = st.pay /\ new.votes = st.votes
      /\ new.fees = st.fees /\ new.supply = st.supply
  BY DEF State
<1> QED
  BY <1>1 DEF Books, calculate_supply, Votes, is_delegate

(* A block is applied; its undo state is the chain before it.              *)
LEMMA ApplyChangesInv == IInv /\ apply_changes => IInv'
<1> SUFFICES ASSUME IInv, apply_changes PROVE IInv'
  OBVIOUS
<1>1. /\ pending \in State /\ chain \in State /\ undo \in Seq(State)
      /\ applied \in Seq(Trx) /\ known \subseteq Trx
      /\ Books(chain, 0, NoVotes) /\ \A i \in DOMAIN undo : Books(undo[i], 0, NoVotes)
      /\ phase = "block" /\ ev = reset /\ Books(pending, 0, NoVotes)
  BY ResetShape DEF IInv, TypeOK, apply_changes
<1>2. /\ chain' = [pending EXCEPT !.trxs = pending.trxs \o applied]
      /\ undo' = Append(undo, chain) /\ pending' = chain'
      /\ phase' = "idle" /\ applied' = <<>> /\ UNCHANGED <<trx, op_index, ev>>
  BY DEF apply_changes
<1>3. pending.trxs \o applied \in Seq(Trx)
  BY <1>1 DEF State
<1>4. chain' \in State /\ Books(chain', 0, NoVotes)
  BY <1>1, <1>2, <1>3, TrxsBooks
<1>5. known' \subseteq Trx
  BY <1>1 DEF apply_changes
<1>6. undo' \in Seq(State) /\ \A i \in DOMAIN undo' : Books(undo'[i], 0, NoVotes)
  <2>1. undo' \in Seq(State) /\ DOMAIN undo' = 1 .. Len(undo) + 1
    BY <1>1, <1>2
  <2>2. ASSUME NEW i \in DOMAIN undo' PROVE Books(undo'[i], 0, NoVotes)
    <3>1. undo'[i] = IF i <= Len(undo) THEN undo[i] ELSE chain
      BY <1>1, <1>2, <2>1
    <3>2. i <= Len(undo) => i \in DOMAIN undo
      BY <1>1, <2>1
    <3> QED
      BY <1>1, <3>1, <3>2
  <2> QED
    BY <2>1, <2>2
<1>7. Books(pending', ev'.balance, ev'.votes)
  BY <1>1, <1>2, <1>4, ResetShape
<1> QED
  BY <1>1, <1>2, <1>4, <1>5, <1>6, <1>7 DEF IInv, TypeOK

(* The head block is popped: the chain is what it was before it.           *)
LEMMA PopBlockInv == IInv /\ pop_block => IInv'
<1> SUFFICES ASSUME IInv, pop_block PROVE IInv'
  OBVIOUS
<1>1. /\ undo \in Seq(State) /\ \A i \in DOMAIN undo : Books(undo[i], 0, NoVotes)
      /\ phase = "idle" /\ ev = reset /\ Len(undo) > 0
  BY DEF IInv, TypeOK, pop_block, head_num
<1>2. /\ chain' = undo[Len(undo)] /\ undo' = SubSeq(undo, 1, Len(undo) - 1)
      /\ pending' = chain' /\ UNCHANGED <<known, phase, applied, trx, op_index, ev>>
  BY DEF pop_block, head_num
<1>3. chain' \in State /\ Books(chain', 0, NoVotes)
  <2>1. Len(undo) \in DOMAIN undo /\ undo[Len(undo)] \in State
    BY <1>1
  <2> QED
    BY <1>1, <1>2, <2>1
<1>4. undo' \in Seq(State) /\ \A i \in DOMAIN undo' : Books(undo'[i], 0, NoVotes)
  <2>1. /\ undo' \in Seq(State) /\ DOMAIN undo' = 1 .. Len(undo) - 1
        /\ \A i \in DOMAIN undo' : undo'[i] = undo[i] /\ i \in DOMAIN undo
    BY <1>1, <1>2
  <2> QED
    BY <1>1, <2>1
<1>5. Books(pending', ev'.balance, ev'.votes)
  BY <1>1, <1>2, <1>3, ResetShape
<1> QED
  BY <1>1, <1>2, <1>3, <1>4, <1>5 DEF IInv, TypeOK

(* The books are in order in every reachable state.                        *)
THEOREM Invariance == Spec => []IInv
<1>1. Init => IInv
  BY InitInv
<1>2. IInv /\ [Next]_vars => IInv'
  <2>1. IInv /\ UNCHANGED vars => IInv'
    BY DEF vars, IInv, TypeOK
  <2> QED
    BY <2>1, ExtendChainInv, EvaluateInv, EvaluateOperationInv, StoreTransactionInv,
       ApplyChangesInv, PopBlockInv DEF Next
<1> QED
  BY <1>1, <1>2, PTL DEF Spec

(* Every balance and every delegate's pay stays a natural number, whatever *)
(* operations are applied or undone.                                       *)
THEOREM NeverOverdrawn == Spec => []TypeOK
<1>1. IInv => TypeOK
  BY DEF IInv
<1> QED
  BY <1>1, Invariance, PTL

(* calculate_supply equals the supply on record, of the chain and of the   *)
(* block under evaluation, for any genesis and any transactions.           *)
THEOREM SupplyConserved == Spec => []SupplyMatches
<1>1. IInv => SupplyMatches
  <2> SUFFICES ASSUME IInv PROVE SupplyMatches
    OBVIOUS
  <2>1. chain \in State /\ chain.supply = calculate_supply(chain) + 0
    BY DEF IInv, TypeOK, Books
  <2>2. calculate_supply(chain) \in Int
    <3>1. SumFunction(chain.balance) \in Int /\ SumFunction(chain.pay) \in Int
      BY <2>1, StateSums
    <3>2. chain.fees \in Int
      BY <2>1 DEF State
    <3> QED
      BY <3>1, <3>2 DEF calculate_supply
  <2>3. pending.supply = calculate_supply(pending) + ev.balance
    BY DEF IInv, Books
  <2> QED
    BY <2>1, <2>2, <2>3 DEF SupplyMatches
<1> QED
  BY <1>1, Invariance, PTL

(* The votes of every delegate are the shares that support it and its pay. *)
THEOREM VotesHaveShares == Spec => []VotesBacked
<1>1. IInv => VotesBacked
  <2> SUFFICES ASSUME IInv, NEW d \in Account
               PROVE  chain.votes[d] = IF is_delegate(chain, d)
                                         THEN Votes(chain, d) + chain.pay[d] ELSE 0
    BY DEF VotesBacked
  <2>1. chain.votes[d] + NoVotes[d]
          = IF is_delegate(chain, d) THEN Votes(chain, d) + chain.pay[d] ELSE 0
    BY DEF IInv, Books
  <2>2. chain.votes[d] \in Int /\ NoVotes[d] = 0
    BY DEF IInv, TypeOK, State, NoVotes
  <2> QED
    BY <2>1, <2>2
<1> QED
  BY <1>1, Invariance, PTL
=============================================================================
