------------------------------ MODULE MCLedger ------------------------------
(* Two genesis delegates and one account that registers as a delegate and  *)
(* gathers votes; balances without a slate, with one that names both       *)
(* delegates and with one that names one of them twice; transfers that     *)
(* change the vote, a claim, a burn, a pay withdrawal and transactions     *)
(* that fail after some of their operations have been evaluated.           *)
EXTENDS Ledger

CONSTANTS d1, d2, u, x, y, z, s1, s2

MCAccount == {d1, d2, u}
MCDelegates == {d1, d2}
MCBalanceId == {x, y, z}
MCSlate == {s1, s2}
MCslate_of == [b \in MCBalanceId |-> CASE b = x -> s1 [] b = y -> NoSlate [] b = z -> s2]
MCsupported == [s \in MCSlate |-> [d \in MCAccount |->
                  IF s = s1 THEN (IF d = u THEN 0 ELSE 1)
                            ELSE (CASE d = d1 -> 0 [] d = d2 -> 2 [] d = u -> 1)]]
MCowner == [b \in MCBalanceId |-> IF b = y THEN d1 ELSE u]
MCgenesis == [b \in MCBalanceId |-> IF b = x THEN 6 ELSE IF b = y THEN 5 ELSE 0]

Out(b, n) == [type |-> "withdraw", id |-> b, amount |-> n]
In(b, n)  == [type |-> "deposit", id |-> b, amount |-> n]
T(ops, signed, exp) == [ops |-> ops, signed |-> signed, expiration |-> exp]

MCTrx == {
    \* a transfer, possible more than once
    T(<<Out(x, 2), In(y, 1)>>, {u}, 2),
    \* the account registers and lowers its pay rate, and its slate is defined
    T(<<Out(y, 4), [type |-> "register_account", id |-> u, rate |-> 100],
        [type |-> "define_delegate_slate", id |-> s2]>>, {d1}, 3),
    T(<<Out(x, 3), In(z, 2), [type |-> "update_account", id |-> u, rate |-> 50]>>, {u}, 3),
    \* the claim of a whole genesis balance, part of it burnt
    T(<<[type |-> "claim", id |-> x, amount |-> 6, dest |-> u],
        [type |-> "burn", id |-> d2, amount |-> 2], In(y, 3)>>, {u}, 3),
    \* pay that is withdrawn, and part of it given back to voters
    T(<<[type |-> "withdraw_pay", id |-> d1, amount |-> 2], In(x, 1)>>, {d1}, 3),
    \* more is deposited than withdrawn
    T(<<Out(x, 1), In(y, 2)>>, {u}, 3),
    \* an offering to nobody, without a fee, that expires after the first block
    T(<<Out(y, 2), [type |-> "burn", id |-> God, amount |-> 2]>>, {d1}, 1),
    \* a delegate at half pay
    T(<<Out(x, 1), [type |-> "update_account", id |-> d2, rate |-> 50]>>, {u, d2}, 3)}
=============================================================================
