---------------------- MODULE AccountDatabaseProofs ----------------------
(***************************************************************************)
(* Proofs about AccountDatabase: after any blocks and pops the indexes are *)
(* exact, keys lead to their accounts, and pop_block restores the records, *)
(* whatever order apply_changes stores them in.                            *)
(***************************************************************************)
EXTENDS AccountDatabase, SumTheorems

(* The types, with those of the overlay and the undo states.               *)
Overlay == [accounts : Partial(Id, Record), key_to_account : Partial(Key, Id),
            last_account_id : Id, time : Time, slots : Partial(Time, {"produced", "missed"})]
UndoState == [accounts : Partial(Id, [id : Id, name : Name, record : Record \cup {None}]),
              slots : SUBSET Time, last_account_id : Id, head_time : 0 .. MaxTime]
UndoEntry == [state : UndoState, before : [account : Accounts, slots : Slots]]
StateOK == TypeOK /\ pending \in Overlay \cup {None} /\ undo \in Seq(UndoEntry)

(* Two maps of accounts, from before and after some changes, do not        *)
(* confuse two accounts: neither their names nor their keys.               *)
Apart(r, s) == r.name # s.name /\ Keys(r) \cap Keys(s) = {}
Compatible(C, D) ==
    \A a, b \in Id : a # b /\ C[a] # None /\ D[b] # None => Apart(C[a], D[b])
SameNames(C, D) ==
    \A a \in Id : C[a] # None /\ D[a] # None => C[a].name = D[a].name
NoneAbove(C, n) == \A a \in Id : a > n => C[a] = None

(* The accounts as the block under evaluation sees them.                   *)
Merged == [a \in Id |-> get_account_record(a)]

(* The overlay: its records are found by their keys, and apart from those  *)
(* of all other accounts, in the overlay and below it.                     *)
OverlayOK ==
    /\ \A a \in DOMAIN pending.accounts :
         Keys(pending.accounts[a]) \subseteq DOMAIN pending.key_to_account
    /\ \A k \in DOMAIN pending.key_to_account :
         pending.key_to_account[k] \in DOMAIN pending.accounts
    /\ NoneAbove(account_db, pending.last_account_id) /\ NoneAbove(Merged, pending.last_account_id)
    /\ SameNames(account_db, Merged) /\ Compatible(account_db, Merged) /\ Compatible(Merged, Merged)

(* The accounts that apply_changes stores.                                 *)
Kept == [a \in Id |-> IF a \in DOMAIN pending.accounts THEN NotNull(pending.accounts[a]) ELSE account_db[a]]

(* The undo state u leads back from the accounts D to the accounts C.      *)
Undoes(u, C, D) ==
    /\ Compatible(C, C) /\ Compatible(D, C) /\ SameNames(D, C)
    /\ \A a \in DOMAIN u.accounts :
         /\ u.accounts[a].id = a /\ u.accounts[a].record = C[a] /\ u.accounts[a].name \in Name
         /\ C[a] # None => u.accounts[a].name = C[a].name
         /\ D[a] # None => u.accounts[a].name = D[a].name
    /\ \A a \in Id \ DOMAIN u.accounts : C[a] = D[a]
    /\ NoneAbove(C, u.last_account_id)

(* The accounts after the block that undo state i undoes.                  *)
After(i) == IF i = Len(undo) THEN account_db ELSE undo[i + 1].before.account

UndoOK == \A i \in 1 .. Len(undo) : Undoes(undo[i].state, undo[i].before.account, After(i))

IInv ==
    /\ StateOK /\ IndexesExact /\ KeysFound
    /\ NoneAbove(account_db, last_account_id)
    /\ pending # None => OverlayOK
    /\ UndoOK

-----------------------------------------------------------------------------
(* Partial maps.                                                           *)
LEMMA PartialMap ==
    ASSUME NEW S, NEW T, NEW f
    PROVE  f \in Partial(S, T) <=>
             /\ f = [x \in DOMAIN f |-> f[x]]
             /\ DOMAIN f \subseteq S /\ \A x \in DOMAIN f : f[x] \in T
<1>1. ASSUME f \in Partial(S, T)
      PROVE  f = [x \in DOMAIN f |-> f[x]] /\ DOMAIN f \subseteq S /\ \A x \in DOMAIN f : f[x] \in T
  <2>1. PICK A \in SUBSET S : f \in [A -> T]
    BY <1>1 DEF Partial
  <2> QED
    BY <2>1
<1>2. ASSUME f = [x \in DOMAIN f |-> f[x]], DOMAIN f \subseteq S, \A x \in DOMAIN f : f[x] \in T
      PROVE  f \in Partial(S, T)
  <2>1. f \in [DOMAIN f -> T]
    BY <1>2
  <2> QED
    BY <1>2, <2>1 DEF Partial
<1> QED
  BY <1>1, <1>2

LEMMA PutPartial ==
    ASSUME NEW S, NEW T, NEW f \in Partial(S, T), NEW A \in SUBSET S, NEW v \in T
    PROVE  Put(f, A, v) \in Partial(S, T)
<1>1. DOMAIN f \subseteq S /\ \A x \in DOMAIN f : f[x] \in T
  BY PartialMap
<1>2. Put(f, A, v) = [x \in DOMAIN Put(f, A, v) |-> Put(f, A, v)[x]]
  BY DEF Put
<1>3. DOMAIN Put(f, A, v) \subseteq S /\ \A x \in DOMAIN Put(f, A, v) : Put(f, A, v)[x] \in T
  BY <1>1 DEF Put
<1> QED
  BY <1>2, <1>3, PartialMap

(* Keys of a record are keys, and a new active key adds only itself.       *)
LEMMA RecordKeys ==
    ASSUME NEW rec \in Record
    PROVE  Keys(rec) \subseteq Key
<1>1. \A x \in DOMAIN rec.history : rec.history[x] \in Key
  <2>1. rec.history \in Partial(0 .. MaxTime, Key)
    BY DEF Record
  <2> QED
    BY <2>1, PartialMap
<1> QED
  BY <1>1 DEF Keys, Range

LEMMA FirstKey ==
    ASSUME NEW n \in Name, NEW o \in Key, NEW t \in 0 .. MaxTime, NEW k \in Key,
           NEW v \in 0 .. MaxVotes \cup {None}, NEW rec,
           rec = [name |-> n, owner_key |-> o, history |-> [u \in {t} |-> k], votes |-> v]
    PROVE  rec \in Record /\ rec.name = n /\ rec.votes = v /\ Keys(rec) = {k}
<1> DEFINE h == [u \in {t} |-> k]
<1>1. h \in Partial(0 .. MaxTime, Key)
  <2>1. h \in [{t} -> Key] /\ {t} \in SUBSET (0 .. MaxTime)
    OBVIOUS
  <2> QED
    BY <2>1 DEF Partial
<1>2. Range(h) = {k}
  BY DEF Range
<1> HIDE DEF h
<1> QED
  BY <1>1, <1>2 DEF Record, Keys, h

LEMMA SetActiveKey ==
    ASSUME NEW rec \in Record, NEW t \in 0 .. MaxTime, NEW k \in Key
    PROVE  /\ set_active_key(rec, t, k) \in Record
           /\ set_active_key(rec, t, k).name = rec.name
           /\ Keys(set_active_key(rec, t, k)) \subseteq Keys(rec) \cup {k}
<1> DEFINE h == Put(rec.history, {t}, k)
<1>1. h \in Partial(0 .. MaxTime, Key)
  <2>1. rec.history \in Partial(0 .. MaxTime, Key)
    BY DEF Record
  <2> QED
    BY <2>1, PutPartial
<1>2. set_active_key(rec, t, k) = [rec EXCEPT !.history = h]
  BY DEF set_active_key
<1>3. Range(h) \subseteq Range(rec.history) \cup {k}
  BY DEF Range, Put
<1> HIDE DEF h
<1> QED
  BY <1>1, <1>2, <1>3 DEF Record, Keys

-----------------------------------------------------------------------------
(* One store_account_record keeps the indexes of the database exact.       *)
Db == [account : Accounts, name : [Name -> Id \cup {None}], key : [Key -> Id \cup {None}],
       votes : SUBSET ((0 .. MaxVotes) \X Id)]

NamesExact(db) ==
    \A n \in Name, a \in Id : db.name[n] = a <=> db.account[a] # None /\ db.account[a].name = n
Ranked(C) == {<<C[a].votes, a>> : a \in {b \in Id : C[b] # None /\ is_delegate(C[b])}}
VotesExact(db) == db.votes = Ranked(db.account)
KeysLead(db) ==
    \A a \in Id : db.account[a] # None => \A k \in Keys(db.account[a]) : db.key[k] = a
Exact(db) == NamesExact(db) /\ VotesExact(db) /\ KeysLead(db)

LEMMA NoneIsOther == None \notin Id /\ None \notin Record
BY NullKeyAssumption, RecordAssumption

LEMMA VoteIndexExact ==
    ASSUME NEW C \in Accounts, NEW a \in Id, NEW rec \in Record \cup {None}
    PROVE  VoteIndex(Ranked(C), a, C[a], rec) = Ranked([C EXCEPT ![a] = rec])
<1> DEFINE E == [C EXCEPT ![a] = rec]
           V == Ranked(C)
           W == Ranked(E)
<1>1. E[a] = rec /\ \A b \in Id : b # a => E[b] = C[b]
  BY DEF Accounts
<1> HIDE DEF E
<1>2. ASSUME NEW p \in VoteIndex(V, a, C[a], rec) PROVE p \in W
  <2>1. CASE p \in V /\ p \notin (IF C[a] # None /\ is_delegate(C[a]) THEN {<<C[a].votes, a>>} ELSE {})
    <3>1. PICK b \in Id : C[b] # None /\ is_delegate(C[b]) /\ p = <<C[b].votes, b>>
      BY <2>1 DEF Ranked
    <3>2. b # a
      BY <2>1, <3>1
    <3> QED
      BY <1>1, <3>1, <3>2 DEF Ranked
  <2>2. CASE rec # None /\ is_delegate(rec) /\ p = <<rec.votes, a>>
    BY <1>1, <2>2 DEF Ranked
  <2> QED
    BY <1>2, <2>1, <2>2 DEF VoteIndex
<1>3. ASSUME NEW p \in W PROVE p \in VoteIndex(V, a, C[a], rec)
  <2>1. PICK b \in Id : E[b] # None /\ is_delegate(E[b]) /\ p = <<E[b].votes, b>>
    BY <1>3 DEF Ranked
  <2>2. CASE b = a
    BY <1>1, <2>1, <2>2 DEF VoteIndex
  <2>3. CASE b # a
    <3>1. p \in V
      BY <1>1, <2>1, <2>3 DEF Ranked
    <3>2. p # <<C[a].votes, a>>
      BY <2>1, <2>3
    <3> QED
      BY <3>1, <3>2 DEF VoteIndex
  <2> QED
    BY <2>2, <2>3
<1> QED
  BY <1>2, <1>3 DEF E

LEMMA StoreStep ==
    ASSUME NEW db \in Db, Exact(db), NEW a \in Id, NEW name \in Name, NEW rec \in Record \cup {None},
           rec # None => rec.name = name,
           db.account[a] # None => db.account[a].name = name,
           \A b \in Id : b # a /\ db.account[b] # None /\ rec # None => Apart(db.account[b], rec)
    PROVE  /\ store_account_record(db, a, name, rec) \in Db
           /\ Exact(store_account_record(db, a, name, rec))
           /\ store_account_record(db, a, name, rec).account = [db.account EXCEPT ![a] = rec]
<1> DEFINE old == db.account[a]
           E == [db.account EXCEPT ![a] = rec]
           N == [db.name EXCEPT ![name] = IF rec = None THEN None ELSE a]
           K == KeyIndex(db.key, a, old, rec)
           V == VoteIndex(db.votes, a, old, rec)
           new == [account |-> E, name |-> N, key |-> K, votes |-> V]
<1>1. /\ db.account \in Accounts /\ db.name \in [Name -> Id \cup {None}]
      /\ db.key \in [Key -> Id \cup {None}] /\ db.votes \subseteq (0 .. MaxVotes) \X Id
      /\ old \in Record \cup {None}
  BY DEF Db, Accounts
<1>2. CASE rec = None /\ old = None
  <2>1. E = db.account
    BY <1>1, <1>2 DEF Accounts
  <2>2. store_account_record(db, a, name, rec) = db
    BY <1>2 DEF store_account_record
  <2> QED
    BY <2>1, <2>2
<1>3. CASE ~(rec = None /\ old = None)
  <2>1. store_account_record(db, a, name, rec) = new
    BY <1>3 DEF store_account_record
  <2>2. E \in Accounts /\ E[a] = rec /\ \A b \in Id : b # a => E[b] = db.account[b]
    BY <1>1 DEF Accounts
  <2>3. N \in [Name -> Id \cup {None}] /\ N[name] = (IF rec = None THEN None ELSE a)
          /\ \A n \in Name : n # name => N[n] = db.name[n]
    BY <1>1
  <2>4. V = Ranked(E)
    <3>1. db.votes = Ranked(db.account)
      BY DEF Exact, VotesExact
    <3> QED
      BY <1>1, <3>1, VoteIndexExact
  <2>5. V \in SUBSET ((0 .. MaxVotes) \X Id)
    <3>1. ASSUME NEW b \in Id, E[b] # None, is_delegate(E[b]) PROVE E[b].votes \in 0 .. MaxVotes
      BY <2>2, <3>1 DEF Accounts, Record, is_delegate
    <3> HIDE DEF V, E
    <3> QED
      BY <2>4, <3>1 DEF Ranked
  <2>6. K \in [Key -> Id \cup {None}]
    BY <1>1 DEF KeyIndex
  <2>7. \A b \in Id : E[b] # None => \A k \in Keys(E[b]) : K[k] = b
    <3> SUFFICES ASSUME NEW b \in Id, E[b] # None, NEW k \in Keys(E[b]) PROVE K[k] = b
      OBVIOUS
    <3>1. E[b] \in Record
      BY <2>2 DEF Accounts
    <3>2. k \in Key
      BY <3>1, RecordKeys
    <3>3. CASE b = a
      BY <2>2, <3>2, <3>3 DEF KeyIndex
    <3>4. CASE b # a
      <4>1. E[b] = db.account[b] /\ db.key[k] = b
        BY <2>2, <3>4 DEF Exact, KeysLead
      <4>2. rec # None => k \notin Keys(rec)
        BY <3>4, <4>1 DEF Apart
      <4>3. old # None => k \notin Keys(old)
        BY <3>4, <4>1 DEF Exact, KeysLead
      <4> QED
        BY <3>2, <4>1, <4>2, <4>3 DEF KeyIndex
    <3> QED
      BY <3>3, <3>4
  <2>8. \A n \in Name, b \in Id : N[n] = b <=> E[b] # None /\ E[b].name = n
    <3> SUFFICES ASSUME NEW n \in Name, NEW b \in Id
                 PROVE  N[n] = b <=> E[b] # None /\ E[b].name = n
      OBVIOUS
    <3>1. db.name[n] = b <=> db.account[b] # None /\ db.account[b].name = n
      BY DEF Exact, NamesExact
    <3>2. db.name[n] = a <=> old # None /\ old.name = n
      BY DEF Exact, NamesExact
    <3> HIDE DEF E, N, old
    <3>3. CASE n = name /\ b = a
      BY <2>2, <2>3, <3>3, NoneIsOther
    <3>4. CASE n = name /\ b # a
      <4>1. N[n] # b
        BY <2>3, <3>4, NoneIsOther
      <4>2. ASSUME db.account[b] # None, db.account[b].name = n PROVE FALSE
        <5>1. CASE rec # None
          BY <3>4, <4>2, <5>1 DEF Apart
        <5>2. CASE old # None
          BY <3>1, <3>2, <3>4, <4>2, <5>2 DEF old
        <5> QED
          BY <1>3, <5>1, <5>2
      <4> QED
        BY <2>2, <3>4, <4>1, <4>2
    <3>5. CASE n # name /\ b = a
      <4>1. N[n] # a
        BY <2>3, <3>2, <3>5 DEF old
      <4> QED
        BY <2>2, <3>5, <4>1
    <3>6. CASE n # name /\ b # a
      BY <2>2, <2>3, <3>1, <3>6
    <3> QED
      BY <3>3, <3>4, <3>5, <3>6
  <2> HIDE DEF E, N, K, V
  <2>9. new \in Db
    BY <2>2, <2>3, <2>5, <2>6 DEF Db
  <2>10. Exact(new)
    BY <2>4, <2>7, <2>8 DEF Exact, NamesExact, VotesExact, KeysLead
  <2> QED
    BY <2>1, <2>9, <2>10 DEF E
<1> QED
  BY <1>2, <1>3

-----------------------------------------------------------------------------
(* StoreInOrder is a fold.  The function g that it builds on the sets of   *)
(* positions exists, so that storing the records at the positions in a set *)
(* stores the last of them after the others.                               *)
Stored(d, e) == store_account_record(d, e.id, e.name, e.record)
Stores(g, db, order, S) ==
    g = [s \in SUBSET S |-> IF s = {} THEN db ELSE Stored(g[s \ {Max(s)}], order[Max(s)])]
storing(db, order, S) == CHOOSE g : Stores(g, db, order, S)

LEMMA StoreIsFold ==
    ASSUME NEW db, NEW order
    PROVE  StoreInOrder(db, order) = storing(db, order, DOMAIN order)[DOMAIN order]
BY DEF StoreInOrder, FoldLeft, MapThenFoldSet, storing, Stores, Stored

LEMMA MaxIn ==
    ASSUME NEW S \in SUBSET Int, IsFiniteSet(S), NEW s \in SUBSET S, s # {}
    PROVE  Max(s) \in s
<1>1. IsFiniteSet(s) /\ s \in SUBSET Int
  BY FS_Subset
<1>2. PICK m \in s : \A k \in s : k <= m
  BY <1>1, GreatestElement
<1>3. \A k \in s : m >= k
  BY <1>1, <1>2
<1> QED
  BY <1>2, <1>3 DEF Max

LEMMA StoresUnique ==
    ASSUME NEW db, NEW order, NEW S \in SUBSET Int, IsFiniteSet(S), NEW g, NEW h,
           Stores(g, db, order, S), Stores(h, db, order, S)
    PROVE  g = h
<1> DEFINE G == {s \in SUBSET S : \A u \in SUBSET s : g[u] = h[u]}
<1>1. ASSUME NEW t \in SUBSET S, \A u \in SUBSET t : u # t => u \in G
      PROVE  t \in G
  <2>1. ASSUME NEW u \in SUBSET t, u # t PROVE g[u] = h[u]
    BY <1>1, <2>1
  <2>2. CASE t = {}
    BY <2>1, <2>2 DEF Stores
  <2>3. CASE t # {}
    <3>1. Max(t) \in t
      BY <2>3, MaxIn
    <3>2. g[t \ {Max(t)}] = h[t \ {Max(t)}]
      BY <2>1, <3>1
    <3>3. /\ g[t] = Stored(g[t \ {Max(t)}], order[Max(t)])
          /\ h[t] = Stored(h[t \ {Max(t)}], order[Max(t)])
      BY <2>3 DEF Stores
    <3> QED
      BY <2>1, <3>2, <3>3
  <2> QED
    BY <2>2, <2>3
<1>2. S \in G
  <2> HIDE DEF G
  <2> QED
    BY <1>1, SubsetInduction
<1> QED
  BY <1>2 DEF Stores

LEMMA StoresOnSubset ==
    ASSUME NEW db, NEW order, NEW S \in SUBSET Int, IsFiniteSet(S), NEW T \in SUBSET S,
           Stores(storing(db, order, S), db, order, S), Stores(storing(db, order, T), db, order, T)
    PROVE  storing(db, order, S)[T] = storing(db, order, T)[T]
<1> DEFINE g == storing(db, order, S)
           r == [s \in SUBSET T |-> g[s]]
<1>1. Stores(r, db, order, T)
  <2>1. ASSUME NEW s \in SUBSET T, s # {} PROVE s \ {Max(s)} \in SUBSET T
    OBVIOUS
  <2> HIDE DEF g
  <2> QED
    BY <2>1 DEF Stores, g
<1>2. r = storing(db, order, T)
  BY <1>1, StoresUnique, FS_Subset
<1> QED
  BY <1>2

LEMMA StoresExists ==
    ASSUME NEW db, NEW order, NEW S \in SUBSET Int, IsFiniteSet(S)
    PROVE  Stores(storing(db, order, S), db, order, S)
<1> DEFINE st(s) == storing(db, order, s)
           G == {s \in SUBSET S : Stores(st(s), db, order, s)}
<1>1. ASSUME NEW t \in SUBSET S, \A u \in SUBSET t : u # t => u \in G
      PROVE  t \in G
  <2> DEFINE rest(s) == s \ {Max(s)}
             g == [s \in SUBSET t |-> IF s = {} THEN db ELSE Stored(st(rest(s))[rest(s)], order[Max(s)])]
  <2>1. ASSUME NEW s \in SUBSET t, s # t PROVE Stores(st(s), db, order, s)
    BY <1>1, <2>1
  <2>2. ASSUME NEW s \in SUBSET t, s # {}
        PROVE  rest(s) \in SUBSET s /\ rest(s) \in SUBSET t /\ rest(s) # t
    <3>1. Max(s) \in s
      BY <2>2, MaxIn
    <3> QED
      BY <3>1
  <2>3. ASSUME NEW s \in SUBSET t, s # t PROVE st(s)[s] = g[s]
    <3>1. CASE s = {}
      BY <2>1, <2>3, <3>1 DEF Stores
    <3>2. CASE s # {}
      <4>1. Stores(st(s), db, order, s) /\ Stores(st(rest(s)), db, order, rest(s))
        BY <2>1, <2>2, <2>3, <3>2
      <4>2. st(s)[rest(s)] = st(rest(s))[rest(s)]
        <5>1. IsFiniteSet(s) /\ s \in SUBSET Int /\ rest(s) \in SUBSET s
          BY <2>2, <3>2, FS_Subset
        <5> HIDE DEF rest
        <5> QED
          BY <4>1, <5>1, StoresOnSubset
      <4>3. st(s)[s] = Stored(st(s)[rest(s)], order[Max(s)])
        BY <3>2, <4>1 DEF Stores
      <4> QED
        BY <3>2, <4>2, <4>3
    <3> QED
      BY <3>1, <3>2
  <2>4. Stores(g, db, order, t)
    BY <2>2, <2>3 DEF Stores
  <2> QED
    BY <2>4 DEF storing
<1>2. S \in G
  <2> HIDE DEF G
  <2> QED
    BY <1>1, SubsetInduction
<1> QED
  BY <1>2

(* A set of records is stored in sequences that contain each of them.      *)
LEMMA OrderOfAll ==
    ASSUME NEW E, IsFiniteSet(DOMAIN E), NEW order \in SetToSeqs({E[a] : a \in DOMAIN E})
    PROVE  /\ DOMAIN order \in SUBSET Int /\ IsFiniteSet(DOMAIN order)
           /\ \A j \in DOMAIN order : \E a \in DOMAIN E : order[j] = E[a]
           /\ \A a \in DOMAIN E : \E j \in DOMAIN order : order[j] = E[a]
<1> DEFINE X == {E[a] : a \in DOMAIN E}
           n == Cardinality(X)
<1>1. IsFiniteSet(X)
  <2>1. [a \in DOMAIN E |-> E[a]] \in Surjection(DOMAIN E, X)
    BY DEF Surjection
  <2> QED
    BY <2>1, FS_Surjection
<1>2. n \in Nat
  BY <1>1, FS_CardinalityType
<1>3. order \in [1 .. n -> X] /\ \A i, j \in 1 .. n : i # j => order[i] # order[j]
  BY DEF SetToSeqs
<1> HIDE DEF n, X
<1>4. order \in Injection(1 .. n, X)
  BY <1>3 DEF Injection, IsInjective
<1>5. IsFiniteSet(1 .. n) /\ Cardinality(1 .. n) = n
  <2>1. 1 \in Int /\ n \in Int /\ (IF 1 <= n THEN n - 1 + 1 ELSE 0) = n
    BY <1>2
  <2> QED
    BY <1>2, <2>1, FS_Interval
<1>6. order \in Surjection(1 .. n, X)
  BY <1>1, <1>4, <1>5, FS_Injection DEF n
<1>7. DOMAIN order = 1 .. n /\ 1 .. n \in SUBSET Int
  BY <1>2, <1>3
<1>8. \A j \in 1 .. n : order[j] \in X
  BY <1>3
<1>9. \A x \in X : \E j \in 1 .. n : order[j] = x
  BY <1>6 DEF Surjection
<1> QED
  BY <1>5, <1>7, <1>8, <1>9 DEF X

(* Whatever the order, storing the records E leads from the accounts of a  *)
(* database with exact indexes to the accounts D, with exact indexes,      *)
(* when no account takes a name or a key that another has before or after. *)
LEMMA StoreAll ==
    ASSUME NEW db \in Db, Exact(db), NEW D \in Accounts, NEW E, DOMAIN E \subseteq Id,
           \A a \in DOMAIN E :
             /\ E[a].id = a /\ E[a].record = D[a] /\ E[a].name \in Name
             /\ D[a] # None => D[a].name = E[a].name
             /\ db.account[a] # None => db.account[a].name = E[a].name,
           \A a \in Id \ DOMAIN E : D[a] = db.account[a],
           Compatible(db.account, D), Compatible(D, D),
           NEW order \in SetToSeqs({E[a] : a \in DOMAIN E})
    PROVE  /\ StoreInOrder(db, order) \in Db /\ Exact(StoreInOrder(db, order))
           /\ StoreInOrder(db, order).account = D
<1> DEFINE S == DOMAIN order
           g == storing(db, order, S)
           C == db.account
           Mid(t) == [a \in Id |-> IF \E j \in t : order[j].id = a THEN D[a] ELSE C[a]]
           P(t) == g[t] \in Db /\ Exact(g[t]) /\ g[t].account = Mid(t)
           G == {t \in SUBSET S : P(t)}
<1>1. IsFiniteSet(DOMAIN E)
  <2>1. IsFiniteSet(Id)
    BY BoundsAssumption, FS_Interval DEF Id
  <2> QED
    BY <2>1, FS_Subset
<1>2. /\ S \in SUBSET Int /\ IsFiniteSet(S)
      /\ \A j \in S : \E a \in DOMAIN E : order[j] = E[a]
      /\ \A a \in DOMAIN E : \E j \in S : order[j] = E[a]
  BY <1>1, OrderOfAll
<1>3. Stores(g, db, order, S)
  BY <1>2, StoresExists
<1>4. C \in Accounts
  BY DEF Db
<1> HIDE DEF g, S
<1>5. ASSUME NEW t \in SUBSET S, \A u \in SUBSET t : u # t => u \in G
      PROVE  t \in G
  <2>1. CASE t = {}
    <3>1. g[t] = db
      BY <1>3, <2>1 DEF Stores
    <3>2. Mid(t) = C
      BY <1>4, <2>1 DEF Accounts
    <3> QED
      BY <3>1, <3>2
  <2>2. CASE t # {}
    <3> DEFINE m == Max(t)
               r == t \ {m}
    <3>1. m \in t
      BY <1>2, <2>2, MaxIn
    <3>2. P(r)
      BY <1>5, <3>1
    <3>3. g[t] = Stored(g[r], order[m])
      BY <1>3, <2>2 DEF Stores
    <3>4. PICK a \in DOMAIN E : order[m] = E[a]
      BY <1>2, <3>1
    <3> DEFINE name == E[a].name
    <3>5. g[t] = store_account_record(g[r], a, name, D[a])
      BY <3>3, <3>4 DEF Stored
    <3>6. a \in Id /\ name \in Name /\ D[a] \in Record \cup {None} /\ (D[a] # None => D[a].name = name)
      BY <3>4 DEF Accounts
    <3>7. g[r].account[a] # None => g[r].account[a].name = name
      BY <3>2, <3>4
    <3>8. \A b \in Id : b # a /\ g[r].account[b] # None /\ D[a] # None => Apart(g[r].account[b], D[a])
      <4> SUFFICES ASSUME NEW b \in Id, b # a, g[r].account[b] # None, D[a] # None
                   PROVE  Apart(g[r].account[b], D[a])
        OBVIOUS
      <4>1. g[r].account[b] = D[b] \/ g[r].account[b] = C[b]
        BY <3>2
      <4> QED
        BY <3>6, <4>1 DEF Compatible
    <3>9. /\ g[t] \in Db /\ Exact(g[t])
          /\ g[t].account = [g[r].account EXCEPT ![a] = D[a]]
      <4>1. g[r] \in Db /\ Exact(g[r])
        BY <3>2
      <4> HIDE DEF r, name
      <4> QED
        BY <3>5, <3>6, <3>7, <3>8, <4>1, StoreStep
    <3>10. [Mid(r) EXCEPT ![a] = D[a]] = Mid(t)
      <4>1. \A x \in Id : (\E j \in t : order[j].id = x) <=> x = a \/ \E j \in r : order[j].id = x
        BY <3>1, <3>4
      <4>2. \A x \in Id : [Mid(r) EXCEPT ![a] = D[a]][x] = Mid(t)[x]
        BY <3>6, <4>1
      <4> QED
        BY <4>2
    <3> QED
      BY <3>2, <3>9, <3>10
  <2> QED
    BY <2>1, <2>2
<1>6. S \in G
  <2> HIDE DEF G
  <2> QED
    BY <1>2, <1>5, SubsetInduction
<1>7. Mid(S) = D
  <2>1. \A a \in Id : (\E j \in S : order[j].id = a) <=> a \in DOMAIN E
    BY <1>2
  <2>2. \A a \in Id : Mid(S)[a] = D[a]
    BY <2>1
  <2> QED
    BY <2>2 DEF Accounts
<1>8. StoreInOrder(db, order) = g[S]
  BY StoreIsFold DEF g, S
<1> QED
  BY <1>6, <1>7, <1>8

-----------------------------------------------------------------------------
(* StoreAccounts on the databases of the chain.                            *)
LEMMA StoreAccountsExact ==
    ASSUME StateOK, IndexesExact, KeysFound, NEW D \in Accounts, NEW E, DOMAIN E \subseteq Id,
           \A a \in DOMAIN E :
             /\ E[a].id = a /\ E[a].record = D[a] /\ E[a].name \in Name
             /\ D[a] # None => D[a].name = E[a].name
             /\ account_db[a] # None => account_db[a].name = E[a].name,
           \A a \in Id \ DOMAIN E : D[a] = account_db[a],
           Compatible(account_db, D), Compatible(D, D), StoreAccounts(E)
    PROVE  /\ account_db' = D /\ IndexesExact' /\ KeysFound'
           /\ account_index_db' \in [Name -> Id \cup {None}]
           /\ address_to_account_db' \in [Key -> Id \cup {None}]
           /\ delegate_vote_index_db' \subseteq (0 .. MaxVotes) \X Id
<1> DEFINE db == [account |-> account_db, name |-> account_index_db,
                  key |-> address_to_account_db, votes |-> delegate_vote_index_db]
<1>1. PICK order \in SetToSeqs({E[a] : a \in DOMAIN E}) :
        /\ account_db' = StoreInOrder(db, order).account
        /\ account_index_db' = StoreInOrder(db, order).name
        /\ address_to_account_db' = StoreInOrder(db, order).key
        /\ delegate_vote_index_db' = StoreInOrder(db, order).votes
  BY DEF StoreAccounts
<1>2. db \in Db /\ db.account = account_db
  BY DEF Db, StateOK, TypeOK
<1>3. Exact(db)
  BY DEF Exact, NamesExact, VotesExact, Ranked, KeysLead, IndexesExact, KeysFound
<1> DEFINE new == StoreInOrder(db, order)
<1> HIDE DEF db
<1>4. new \in Db /\ Exact(new) /\ new.account = D
  BY <1>2, <1>3, StoreAll
<1> HIDE DEF new
<1>5. account_db' = new.account /\ account_index_db' = new.name
        /\ address_to_account_db' = new.key /\ delegate_vote_index_db' = new.votes
  BY <1>1 DEF new
<1>6. IndexesExact' /\ KeysFound'
  BY <1>4, <1>5 DEF Exact, NamesExact, VotesExact, Ranked, KeysLead, IndexesExact, KeysFound
<1> QED
  BY <1>4, <1>5, <1>6 DEF Db

LEMMA SelfCompatible ==
    ASSUME StateOK, IndexesExact, KeysFound
    PROVE  Compatible(account_db, account_db)
<1> SUFFICES ASSUME NEW a \in Id, NEW b \in Id, a # b, account_db[a] # None, account_db[b] # None
             PROVE  Apart(account_db[a], account_db[b])
  BY DEF Compatible
<1>1. account_db[a].name # account_db[b].name
  <2>1. account_db[a].name \in Name
    BY DEF StateOK, TypeOK, Accounts, Record
  <2> QED
    BY <2>1 DEF IndexesExact
<1>2. Keys(account_db[a]) \cap Keys(account_db[b]) = {}
  BY DEF KeysFound
<1> QED
  BY <1>1, <1>2 DEF Apart

LEMMA CompatibleSymmetric ==
    ASSUME NEW C, NEW D, Compatible(C, D)
    PROVE  Compatible(D, C)
BY DEF Compatible, Apart

LEMMA MergedType ==
    ASSUME StateOK, pending # None
    PROVE  Merged \in Accounts /\ \A a \in Id : Merged[a] = get_account_record(a)
<1>1. pending \in Overlay
  BY DEF StateOK, TypeOK
<1>2. \A a \in DOMAIN pending.accounts : pending.accounts[a] \in Record
  <2>1. pending.accounts \in Partial(Id, Record)
    BY <1>1 DEF Overlay
  <2> QED
    BY <2>1, PartialMap
<1> QED
  BY <1>2 DEF Merged, get_account_record, Accounts, StateOK, TypeOK

-----------------------------------------------------------------------------
(* The initial state.                                                      *)
LEMMA InitInv == Init => IInv
<1> SUFFICES ASSUME Init PROVE IInv
  OBVIOUS
<1>1. PICK n \in Name, k \in Key \ {NullKey} :
         /\ account_db = [a \in Id |-> IF a = 1
               THEN [name |-> n, owner_key |-> k, history |-> [t \in {0} |-> k], votes |-> 1]
               ELSE None]
         /\ account_index_db = [m \in Name |-> IF m = n THEN 1 ELSE None]
         /\ address_to_account_db = [l \in Key |-> IF l = k THEN 1 ELSE None]
  BY DEF Init
<1> DEFINE rec == [name |-> n, owner_key |-> k, history |-> [t \in {0} |-> k], votes |-> 1]
<1>2. 1 \in Id /\ 1 \in 0 .. MaxVotes /\ 0 \in 0 .. MaxTime
  BY BoundsAssumption DEF Id
<1>3. rec \in Record /\ rec.name = n /\ rec.votes = 1 /\ Keys(rec) = {k}
  BY <1>2, FirstKey
<1>4. rec # None /\ is_delegate(rec)
  BY <1>2, <1>3, NoneIsOther DEF is_delegate
<1> HIDE DEF rec
<1>5. account_db = [a \in Id |-> IF a = 1 THEN rec ELSE None]
  BY <1>1 DEF rec
<1>6. StateOK
  <2>1. account_db \in Accounts /\ slot_record_db \in Slots /\ undo = <<>> /\ pending = None
    BY <1>3, <1>5 DEF Init, Accounts, Slots
  <2>2. account_index_db \in [Name -> Id \cup {None}] /\ address_to_account_db \in [Key -> Id \cup {None}]
    BY <1>1, <1>2
  <2>3. delegate_vote_index_db \subseteq (0 .. MaxVotes) \X Id
    BY <1>2 DEF Init
  <2>4. last_account_id \in Id /\ head_time \in 0 .. MaxTime /\ ops \in 0 .. MaxOps
    BY <1>2, BoundsAssumption DEF Init
  <2> QED
    BY <2>1, <2>2, <2>3, <2>4 DEF StateOK, TypeOK
<1>7. IndexesExact
  <2>1. {b \in Id : account_db[b] # None /\ is_delegate(account_db[b])} = {1}
    BY <1>2, <1>3, <1>4, <1>5
  <2>2. account_db[1].votes = 1
    BY <1>2, <1>3, <1>4, <1>5
  <2>3. delegate_vote_index_db = {<<1, 1>>}
    BY DEF Init
  <2>4. \A m \in Name, a \in Id :
          account_index_db[m] = a <=> account_db[a] # None /\ account_db[a].name = m
    BY <1>1, <1>2, <1>3, <1>4, <1>5, NoneIsOther
  <2> QED
    BY <2>1, <2>2, <2>3, <2>4 DEF IndexesExact
<1>8. KeysFound
  BY <1>1, <1>2, <1>3, <1>4, <1>5 DEF KeysFound
<1>9. NoneAbove(account_db, last_account_id)
  BY <1>2, <1>5 DEF NoneAbove, Init
<1>10. pending = None /\ UndoOK
  BY DEF Init, UndoOK
<1> QED
  BY <1>6, <1>7, <1>8, <1>9, <1>10 DEF IInv

-----------------------------------------------------------------------------
(* Steps that change only the overlay.                                     *)
LEMMA OverlayStep ==
    ASSUME IInv, UNCHANGED <<dbVars, undo>>, pending' \in Overlay \cup {None}, ops' \in 0 .. MaxOps,
           pending' # None => OverlayOK'
    PROVE  IInv'
<1>1. StateOK'
  BY DEF IInv, StateOK, TypeOK, dbVars
<1>2. IndexesExact' /\ KeysFound' /\ NoneAbove(account_db, last_account_id)'
  BY DEF IInv, IndexesExact, KeysFound, NoneAbove, dbVars
<1>3. UndoOK'
  BY DEF IInv, UndoOK, After, dbVars
<1> QED
  BY <1>1, <1>2, <1>3 DEF IInv

LEMMA ExtendChainInv ==
    ASSUME IInv, NEW t \in Time, NEW d \in Id, NEW missed \in SUBSET Id, extend_chain(t, d, missed)
    PROVE  IInv'
<1> DEFINE touched == {d} \cup missed
           since == IF undo = <<>> THEN {} ELSE head_time + 1 .. t - 1
           accounts == [a \in touched |-> account_db[a]]
           keys == UNION {StoredKeys(account_db[a]) : a \in touched}
           found == [k \in keys |-> CHOOSE a \in touched : k \in StoredKeys(account_db[a])]
           slots == [s \in since \cup {t} |-> IF s = t THEN "produced" ELSE "missed"]
<1>1. \A a \in touched : a \in Id /\ account_db[a] \in Record /\ account_db[a] # None
  BY DEF extend_chain, IInv, StateOK, TypeOK, Accounts
<1>2. pending' = [accounts |-> accounts, key_to_account |-> found,
                  last_account_id |-> last_account_id, time |-> t, slots |-> slots]
  BY DEF extend_chain
<1>3. accounts \in Partial(Id, Record)
  <2>1. accounts \in [touched -> Record] /\ touched \in SUBSET Id
    BY <1>1
  <2> HIDE DEF accounts, touched
  <2> QED
    BY <2>1 DEF Partial
<1>4. \A k \in keys : found[k] \in touched
  <2> SUFFICES ASSUME NEW k \in keys PROVE found[k] \in touched
    OBVIOUS
  <2>1. \E a \in touched : k \in StoredKeys(account_db[a])
    OBVIOUS
  <2> QED
    BY <2>1
<1>5. found \in Partial(Key, Id)
  <2>1. \A a \in touched : StoredKeys(account_db[a]) \subseteq Key
    <3> SUFFICES ASSUME NEW a \in touched PROVE StoredKeys(account_db[a]) \subseteq Key
      OBVIOUS
    <3>1. account_db[a] \in Record
      BY <1>1
    <3>2. account_db[a].owner_key \in Key
      BY <3>1 DEF Record
    <3> QED
      BY <3>1, <3>2, RecordKeys DEF StoredKeys
  <2>2. found \in [keys -> Id] /\ keys \in SUBSET Key
    BY <1>1, <1>4, <2>1
  <2> HIDE DEF found, keys
  <2> QED
    BY <2>2 DEF Partial
<1>6. slots \in Partial(Time, {"produced", "missed"})
  <2>1. since \cup {t} \in SUBSET Time
    BY BoundsAssumption DEF Time, IInv, StateOK, TypeOK
  <2>2. slots \in [since \cup {t} -> {"produced", "missed"}]
    OBVIOUS
  <2> HIDE DEF slots, since
  <2> QED
    BY <2>1, <2>2 DEF Partial
<1> HIDE DEF slots, since, found, accounts
<1>7. pending' \in Overlay
  BY <1>2, <1>3, <1>5, <1>6 DEF Overlay, IInv, StateOK, TypeOK
<1>8. UNCHANGED <<dbVars, undo>> /\ ops' \in 0 .. MaxOps
  BY BoundsAssumption DEF extend_chain
<1>9. pending'.accounts = accounts /\ pending'.key_to_account = found
        /\ pending'.last_account_id = last_account_id
  BY <1>2
<1>10. Merged' = account_db
  <2>1. Merged' = [a \in Id |-> account_db[a]]
    BY <1>8, <1>9 DEF Merged, get_account_record, dbVars, accounts
  <2> QED
    BY <2>1 DEF IInv, StateOK, TypeOK, Accounts
<1>11. OverlayOK'
  <2>1. \A a \in DOMAIN accounts : Keys(accounts[a]) \subseteq DOMAIN found
    BY DEF accounts, found, StoredKeys
  <2>2. \A k \in DOMAIN found : found[k] \in DOMAIN accounts
    BY <1>4 DEF accounts, found
  <2>3. account_db' = account_db
    BY <1>8 DEF dbVars
  <2>4. Compatible(account_db, account_db) /\ SameNames(account_db, account_db)
    BY SelfCompatible DEF IInv, SameNames
  <2>5. NoneAbove(account_db, last_account_id)
    BY DEF IInv
  <2> QED
    BY <1>9, <1>10, <2>1, <2>2, <2>3, <2>4, <2>5 DEF OverlayOK
<1> QED
  BY <1>7, <1>8, <1>11, OverlayStep

(* The overlay with one more record, of an account that stays apart.       *)
LEMMA PendingStoreInv ==
    ASSUME IInv, pending # None, ops < MaxOps, NEW a \in Id, NEW rec \in Record, PendingStore(a, rec),
           account_db[a] # None => account_db[a].name = rec.name,
           \A b \in Id : b # a => /\ account_db[b] # None => Apart(account_db[b], rec)
                                  /\ Merged[b] # None => Apart(Merged[b], rec)
    PROVE  IInv'
<1> DEFINE accounts == Put(pending.accounts, {a}, rec)
           found == Put(pending.key_to_account, StoredKeys(rec), a)
           last == IF a > pending.last_account_id THEN a ELSE pending.last_account_id
<1>1. pending \in Overlay /\ OverlayOK
  BY DEF IInv, StateOK, TypeOK
<1>2. pending' = [pending EXCEPT !.accounts = accounts, !.key_to_account = found, !.last_account_id = last]
  BY DEF PendingStore
<1>3. accounts \in Partial(Id, Record)
  <2>1. pending.accounts \in Partial(Id, Record) /\ {a} \in SUBSET Id
    BY <1>1 DEF Overlay
  <2> QED
    BY <2>1, PutPartial
<1>4. found \in Partial(Key, Id)
  <2>1. pending.key_to_account \in Partial(Key, Id)
    BY <1>1 DEF Overlay
  <2>2. StoredKeys(rec) \in SUBSET Key
    BY RecordKeys DEF StoredKeys, Record
  <2> QED
    BY <2>1, <2>2, PutPartial
<1>5. last \in Id /\ pending.last_account_id \in Id
  BY <1>1 DEF Overlay
<1> HIDE DEF accounts, found, last
<1>6. pending' \in Overlay /\ pending'.accounts = accounts /\ pending'.key_to_account = found
        /\ pending'.last_account_id = last
  BY <1>1, <1>2, <1>3, <1>4, <1>5 DEF Overlay
<1>7. UNCHANGED <<dbVars, undo>> /\ ops' \in 0 .. MaxOps
  BY BoundsAssumption DEF PendingStore, IInv, StateOK, TypeOK
<1>8. account_db' = account_db
  BY <1>7 DEF dbVars
<1>9. Merged' = [Merged EXCEPT ![a] = rec] /\ Merged \in Accounts
  <2>1. DOMAIN accounts = {a} \cup DOMAIN pending.accounts /\ accounts[a] = rec
          /\ \A b \in DOMAIN pending.accounts : b # a => accounts[b] = pending.accounts[b]
    BY DEF accounts, Put
  <2>2. Merged \in Accounts
    BY MergedType DEF IInv
  <2>3. \A b \in Id : (IF b \in DOMAIN accounts THEN accounts[b] ELSE account_db[b])
                        = [Merged EXCEPT ![a] = rec][b]
    BY <2>1 DEF Merged, get_account_record
  <2>4. Merged' = [b \in Id |-> IF b \in DOMAIN accounts THEN accounts[b] ELSE account_db[b]]
    BY <1>6, <1>8 DEF Merged, get_account_record
  <2> QED
    BY <2>2, <2>3, <2>4 DEF Accounts
<1> DEFINE M == [Merged EXCEPT ![a] = rec]
<1>10. M[a] = rec /\ \A b \in Id : b # a => M[b] = Merged[b]
  BY <1>9 DEF Accounts
<1> HIDE DEF M
<1>11. OverlayOK'
  <2>1. \A b \in DOMAIN accounts : Keys(accounts[b]) \subseteq DOMAIN found
    BY <1>1 DEF OverlayOK, accounts, found, Put, StoredKeys
  <2>2. \A k \in DOMAIN found : found[k] \in DOMAIN accounts
    BY <1>1 DEF OverlayOK, accounts, found, Put
  <2>3. NoneAbove(account_db, last) /\ NoneAbove(M, last)
    <3> SUFFICES ASSUME NEW b \in Id, b > last PROVE account_db[b] = None /\ M[b] = None
      BY DEF NoneAbove
    <3>1. b \in Int /\ a \in Int /\ pending.last_account_id \in Int /\ last \in Int
      BY <1>5 DEF Id
    <3>2. b > pending.last_account_id /\ b # a
      BY <3>1 DEF last
    <3> QED
      BY <1>1, <1>10, <3>2 DEF OverlayOK, NoneAbove
  <2>4. SameNames(account_db, M)
    BY <1>1, <1>10 DEF OverlayOK, SameNames
  <2>5. Compatible(account_db, M)
    BY <1>1, <1>10 DEF OverlayOK, Compatible
  <2>6. Compatible(M, M)
    BY <1>1, <1>10 DEF OverlayOK, Compatible, Apart
  <2> QED
    BY <1>6, <1>8, <1>9, <2>1, <2>2, <2>3, <2>4, <2>5, <2>6 DEF OverlayOK, M
<1> QED
  BY <1>6, <1>7, <1>11, OverlayStep

(* A key that is not in use belongs to no account, in the block or below.  *)
LEMMA FreshKey ==
    ASSUME IInv, pending # None, NEW k \in Key, ~KeyInUse(k)
    PROVE  \A b \in Id : /\ account_db[b] # None => k \notin Keys(account_db[b])
                         /\ Merged[b] # None => k \notin Keys(Merged[b])
<1>1. OverlayOK /\ Merged \in Accounts /\ \A a \in Id : Merged[a] = get_account_record(a)
  BY MergedType DEF IInv
<1>2. \A a \in DOMAIN pending.accounts : pending.accounts[a] \in Record /\ pending.accounts[a] # None
  <2>1. pending.accounts \in Partial(Id, Record)
    BY DEF IInv, StateOK, TypeOK, Overlay
  <2>2. \A a \in DOMAIN pending.accounts : pending.accounts[a] \in Record
    BY <2>1, PartialMap
  <2> QED
    BY <2>2, RecordAssumption
<1>3. k \notin DOMAIN pending.key_to_account
  BY <1>1, <1>2 DEF KeyInUse, OverlayOK, get_account_record
<1>4. address_to_account_db[k] = None \/ account_db[address_to_account_db[k]] = None
  BY <1>3 DEF KeyInUse
<1>5. \A b \in Id : account_db[b] # None => k \notin Keys(account_db[b])
  BY <1>4, NoneIsOther DEF IInv, KeysFound
<1>6. \A b \in DOMAIN pending.accounts : k \notin Keys(pending.accounts[b])
  BY <1>1, <1>3 DEF OverlayOK
<1> QED
  BY <1>1, <1>5, <1>6 DEF get_account_record

LEMMA RegisterAccountInv ==
    ASSUME IInv, NEW n \in Name, NEW o \in Key, NEW k \in Key, NEW v \in {0, None},
           register_account(n, o, k, v)
    PROVE  IInv'
<1> DEFINE a == pending.last_account_id + 1
           rec == [name |-> n, owner_key |-> o, history |-> [t \in {head_time} |-> k], votes |-> v]
<1>1. pending # None /\ ops < MaxOps /\ PendingStore(a, rec) /\ ~NameInUse(n) /\ ~KeyInUse(k)
  BY DEF register_account, InBlock
<1>2. pending \in Overlay /\ OverlayOK
  BY <1>1 DEF IInv, StateOK, TypeOK
<1>3. a \in Id /\ a > pending.last_account_id
  <2>1. pending.last_account_id \in Id
    BY <1>2 DEF Overlay
  <2>2. pending.last_account_id < MaxId
    BY DEF register_account
  <2> QED
    BY <2>1, <2>2, BoundsAssumption DEF Id
<1>4. head_time \in 0 .. MaxTime /\ v \in 0 .. MaxVotes \cup {None}
  BY BoundsAssumption DEF IInv, StateOK, TypeOK
<1>5. rec \in Record /\ rec.name = n /\ Keys(rec) = {k}
  BY <1>4, FirstKey
<1>6. account_db[a] = None
  BY <1>2, <1>3 DEF OverlayOK, NoneAbove
<1>7. \A b \in Id : /\ account_db[b] # None => account_db[b].name # n
                    /\ Merged[b] # None => Merged[b].name # n
  <2>1. \A b \in Id : account_db[b] # None => account_db[b].name # n
    BY <1>1, NoneIsOther DEF NameInUse, IInv, IndexesExact
  <2>2. \A b \in DOMAIN pending.accounts : pending.accounts[b].name # n
    BY <1>1 DEF NameInUse
  <2> QED
    BY <1>1, <2>1, <2>2, MergedType DEF IInv, get_account_record
<1>8. \A b \in Id : b # a => /\ account_db[b] # None => Apart(account_db[b], rec)
                             /\ Merged[b] # None => Apart(Merged[b], rec)
  <2> HIDE DEF rec, a
  <2> QED
    BY <1>1, <1>5, <1>7, FreshKey DEF Apart
<1> HIDE DEF rec, a
<1> QED
  BY <1>1, <1>3, <1>5, <1>6, <1>8, PendingStoreInv

(* A changed record of an account that exists in the block.                *)
LEMMA ChangeInv ==
    ASSUME IInv, pending # None, ops < MaxOps, NEW a \in Id, get_account_record(a) # None,
           NEW rec \in Record, PendingStore(a, rec), rec.name = get_account_record(a).name,
           NEW K, Keys(rec) \subseteq Keys(get_account_record(a)) \cup K,
           \A b \in Id : /\ account_db[b] # None => Keys(account_db[b]) \cap K = {}
                         /\ Merged[b] # None => Keys(Merged[b]) \cap K = {}
    PROVE  IInv'
<1>1. OverlayOK /\ Merged[a] = get_account_record(a)
  BY MergedType DEF IInv
<1>2. account_db[a] # None => account_db[a].name = rec.name
  BY <1>1 DEF OverlayOK, SameNames
<1>3. \A b \in Id : b # a => /\ account_db[b] # None => Apart(account_db[b], rec)
                             /\ Merged[b] # None => Apart(Merged[b], rec)
  <2> SUFFICES ASSUME NEW b \in Id, b # a
               PROVE  /\ account_db[b] # None => Apart(account_db[b], rec)
                      /\ Merged[b] # None => Apart(Merged[b], rec)
    OBVIOUS
  <2>1. /\ account_db[b] # None => Apart(account_db[b], Merged[a])
        /\ Merged[b] # None => Apart(Merged[b], Merged[a])
    BY <1>1 DEF OverlayOK, Compatible
  <2> QED
    BY <1>1, <2>1 DEF Apart
<1> QED
  BY <1>2, <1>3, PendingStoreInv

LEMMA UpdateActiveKeyInv ==
    ASSUME IInv, NEW a \in Id, NEW k \in Key, update_active_key(a, k)
    PROVE  IInv'
<1> DEFINE old == get_account_record(a)
           rec == set_active_key(old, head_time, k)
<1>1. pending # None /\ ops < MaxOps /\ old # None /\ ~KeyInUse(k) /\ PendingStore(a, rec)
  BY DEF update_active_key, InBlock
<1>2. old \in Record
  BY <1>1, MergedType DEF IInv, Accounts
<1>3. rec \in Record /\ rec.name = old.name /\ Keys(rec) \subseteq Keys(old) \cup {k}
  <2>1. head_time \in 0 .. MaxTime
    BY DEF IInv, StateOK, TypeOK
  <2> HIDE DEF old
  <2> QED
    BY <1>2, <2>1, SetActiveKey
<1>4. \A b \in Id : /\ account_db[b] # None => Keys(account_db[b]) \cap {k} = {}
                    /\ Merged[b] # None => Keys(Merged[b]) \cap {k} = {}
  BY <1>1, FreshKey
<1> HIDE DEF rec
<1> QED
  BY <1>1, <1>3, <1>4, ChangeInv

(* Changes of the votes leave name and keys alone.                         *)
LEMMA VotesInv ==
    ASSUME IInv, pending # None, ops < MaxOps, NEW a \in Id, get_account_record(a) # None,
           NEW v \in 0 .. MaxVotes, PendingStore(a, [get_account_record(a) EXCEPT !.votes = v])
    PROVE  IInv'
<1> DEFINE old == get_account_record(a)
           rec == [old EXCEPT !.votes = v]
<1>1. old \in Record
  BY MergedType DEF IInv, Accounts
<1>2. rec \in Record /\ rec.name = old.name /\ Keys(rec) \subseteq Keys(old) \cup {}
  BY <1>1 DEF Record, Keys
<1>3. PendingStore(a, rec)
  OBVIOUS
<1>4. \A b \in Id : /\ account_db[b] # None => Keys(account_db[b]) \cap {} = {}
                    /\ Merged[b] # None => Keys(Merged[b]) \cap {} = {}
  OBVIOUS
<1> HIDE DEF rec
<1> QED
  BY <1>2, <1>3, <1>4, ChangeInv

LEMMA ThrowInv ==
    ASSUME IInv, throw
    PROVE  IInv'
<1>1. pending' = None /\ ops' \in 0 .. MaxOps /\ UNCHANGED <<dbVars, undo>>
  BY BoundsAssumption DEF throw
<1> QED
  BY <1>1, OverlayStep

-----------------------------------------------------------------------------
(* The accounts that are kept are the merged ones, but for null records.   *)
LEMMA KeptAccounts ==
    ASSUME OverlayOK, Merged \in Accounts, account_db \in Accounts,
           \A a \in DOMAIN pending.accounts : a \in Id /\ Merged[a] = pending.accounts[a],
           \A a \in Id \ DOMAIN pending.accounts : Merged[a] = account_db[a]
    PROVE  /\ Kept \in Accounts /\ \A a \in Id : Kept[a] \in {Merged[a], None}
           /\ NoneAbove(Kept, pending.last_account_id)
           /\ SameNames(account_db, Kept) /\ Compatible(account_db, Kept) /\ Compatible(Kept, Kept)
<1>1. \A a \in Id : Kept[a] \in {Merged[a], None}
  BY DEF Kept, NotNull
<1>2. Kept \in Accounts
  BY <1>1 DEF Kept, Accounts
<1>3. NoneAbove(Kept, pending.last_account_id)
  BY <1>1 DEF OverlayOK, NoneAbove
<1>4. SameNames(account_db, Kept)
  BY <1>1 DEF OverlayOK, SameNames
<1>5. Compatible(account_db, Kept)
  BY <1>1 DEF OverlayOK, Compatible
<1>6. Compatible(Kept, Kept)
  BY <1>1 DEF OverlayOK, Compatible
<1> QED
  BY <1>1, <1>2, <1>3, <1>4, <1>5, <1>6

(* The end of a block: the databases move to the kept accounts, and the    *)
(* undo state leads back.                                                  *)
LEMMA ApplyChangesInv ==
    ASSUME IInv, apply_changes
    PROVE  IInv'
<1> DEFINE accounts == pending.accounts
           E == [a \in DOMAIN accounts |-> [id |-> a, name |-> accounts[a].name, record |-> NotNull(accounts[a])]]
           u == get_undo_state
           entry == [state |-> u, before |-> Before]
<1>1. pending # None /\ pending \in Overlay /\ OverlayOK /\ StateOK
  BY DEF IInv, StateOK, TypeOK, apply_changes
<1>2. DOMAIN accounts \subseteq Id /\ \A a \in DOMAIN accounts : accounts[a] \in Record /\ accounts[a] # None
  <2>1. accounts \in Partial(Id, Record)
    BY <1>1 DEF Overlay
  <2> HIDE DEF accounts
  <2>2. DOMAIN accounts \subseteq Id /\ \A a \in DOMAIN accounts : accounts[a] \in Record
    BY <2>1, PartialMap
  <2> QED
    BY <2>2, RecordAssumption
<1>3. /\ Merged \in Accounts /\ \A a \in DOMAIN accounts : Merged[a] = accounts[a]
      /\ \A a \in Id \ DOMAIN accounts : Merged[a] = account_db[a]
      /\ Kept \in Accounts /\ \A a \in DOMAIN accounts : Kept[a] = NotNull(accounts[a])
      /\ \A a \in DOMAIN accounts : Kept[a] \in {accounts[a], None}
      /\ \A a \in Id \ DOMAIN accounts : Kept[a] = account_db[a]
      /\ NoneAbove(Kept, pending.last_account_id)
      /\ SameNames(account_db, Kept) /\ Compatible(account_db, Kept) /\ Compatible(Kept, Kept)
  <2>1. /\ Merged \in Accounts /\ \A a \in DOMAIN accounts : Merged[a] = accounts[a]
        /\ \A a \in Id \ DOMAIN accounts : Merged[a] = account_db[a]
    BY <1>1, <1>2, MergedType DEF get_account_record
  <2>2. account_db \in Accounts
    BY <1>1 DEF StateOK, TypeOK
  <2>3. /\ \A a \in DOMAIN accounts : Kept[a] = NotNull(accounts[a])
        /\ \A a \in Id \ DOMAIN accounts : Kept[a] = account_db[a]
    BY <1>2 DEF Kept
  <2> QED
    BY <1>1, <1>2, <2>1, <2>2, <2>3, KeptAccounts
<1>4. \A a \in DOMAIN accounts : accounts[a].name \in Name
  BY <1>2 DEF Record
<1>5. \A a \in DOMAIN accounts : account_db[a] # None => account_db[a].name = accounts[a].name
  BY <1>1, <1>2, <1>3 DEF OverlayOK, SameNames
<1>6. StoreAccounts(E)
  BY DEF apply_changes
<1>7. /\ DOMAIN E = DOMAIN accounts
      /\ \A a \in DOMAIN E : E[a].id = a /\ E[a].name = accounts[a].name /\ E[a].record = NotNull(accounts[a])
  OBVIOUS
<1>8. /\ account_db' = Kept /\ IndexesExact' /\ KeysFound'
      /\ account_index_db' \in [Name -> Id \cup {None}]
      /\ address_to_account_db' \in [Key -> Id \cup {None}]
      /\ delegate_vote_index_db' \subseteq (0 .. MaxVotes) \X Id
  <2>1. \A a \in DOMAIN E :
             /\ E[a].id = a /\ E[a].record = Kept[a] /\ E[a].name \in Name
             /\ Kept[a] # None => Kept[a].name = E[a].name
             /\ account_db[a] # None => account_db[a].name = E[a].name
    BY <1>3, <1>4, <1>5, <1>7
  <2>2. DOMAIN E \subseteq Id /\ \A a \in Id \ DOMAIN E : Kept[a] = account_db[a]
    BY <1>2, <1>3, <1>7
  <2>3. IndexesExact /\ KeysFound /\ Compatible(account_db, Kept) /\ Compatible(Kept, Kept)
    BY <1>3 DEF IInv
  <2> HIDE DEF E
  <2> QED
    BY <1>1, <1>3, <1>6, <2>1, <2>2, <2>3, StoreAccountsExact
<1>9. u \in UndoState
  <2> DEFINE f == [a \in DOMAIN accounts |-> [id |-> a, name |-> accounts[a].name, record |-> account_db[a]]]
             s == {t \in DOMAIN pending.slots : slot_record_db[t] # None}
  <2>1. u = [accounts |-> f, slots |-> s, last_account_id |-> last_account_id, head_time |-> head_time]
    BY DEF get_undo_state
  <2>2. f \in Partial(Id, [id : Id, name : Name, record : Record \cup {None}])
    <3>1. f \in [DOMAIN accounts -> [id : Id, name : Name, record : Record \cup {None}]]
      BY <1>1, <1>2, <1>4 DEF StateOK, TypeOK, Accounts
    <3> HIDE DEF f
    <3> QED
      BY <1>2, <3>1 DEF Partial
  <2>3. s \in SUBSET Time
    <3>1. pending.slots \in Partial(Time, {"produced", "missed"})
      BY <1>1 DEF Overlay
    <3> QED
      BY <3>1, PartialMap
  <2> HIDE DEF f, s, u
  <2> QED
    BY <1>1, <2>1, <2>2, <2>3 DEF UndoState, StateOK, TypeOK
<1>10. Undoes(u, account_db, Kept)
  <2>1. Compatible(account_db, account_db) /\ Compatible(Kept, account_db)
    BY <1>1, <1>3, SelfCompatible, CompatibleSymmetric DEF IInv
  <2>2. SameNames(Kept, account_db)
    BY <1>3 DEF SameNames
  <2>3. /\ DOMAIN u.accounts = DOMAIN accounts
        /\ \A a \in DOMAIN accounts :
             u.accounts[a] = [id |-> a, name |-> accounts[a].name, record |-> account_db[a]]
        /\ u.last_account_id = last_account_id
    BY DEF get_undo_state
  <2>4. NoneAbove(account_db, last_account_id)
    BY DEF IInv
  <2> HIDE DEF u
  <2>5. \A a \in DOMAIN u.accounts :
          /\ u.accounts[a].id = a /\ u.accounts[a].record = account_db[a] /\ u.accounts[a].name \in Name
          /\ account_db[a] # None => u.accounts[a].name = account_db[a].name
          /\ Kept[a] # None => u.accounts[a].name = Kept[a].name
    <3> SUFFICES ASSUME NEW a \in DOMAIN accounts
                 PROVE  /\ u.accounts[a].id = a /\ u.accounts[a].record = account_db[a]
                        /\ u.accounts[a].name \in Name
                        /\ account_db[a] # None => u.accounts[a].name = account_db[a].name
                        /\ Kept[a] # None => u.accounts[a].name = Kept[a].name
      BY <2>3
    <3>1. /\ accounts[a].name \in Name /\ Kept[a] \in {accounts[a], None}
          /\ account_db[a] # None => account_db[a].name = accounts[a].name
      BY <1>3, <1>4, <1>5
    <3>2. /\ u.accounts[a].id = a /\ u.accounts[a].record = account_db[a]
          /\ u.accounts[a].name = accounts[a].name
      <4>1. u.accounts[a] = [id |-> a, name |-> accounts[a].name, record |-> account_db[a]]
        BY <2>3
      <4> HIDE DEF accounts
      <4> QED
        BY <4>1
    <3> HIDE DEF accounts
    <3> QED
      BY <3>1, <3>2
  <2> QED
    BY <1>3, <2>1, <2>2, <2>3, <2>4, <2>5 DEF Undoes
<1>11. slot_record_db' \in Slots
  <2>1. slot_record_db' = [t \in Time |->
          IF t \in DOMAIN pending.slots THEN pending.slots[t] ELSE slot_record_db[t]]
    BY DEF apply_changes
  <2>2. \A t \in DOMAIN pending.slots : pending.slots[t] \in {"produced", "missed"}
    <3>1. pending.slots \in Partial(Time, {"produced", "missed"})
      BY <1>1 DEF Overlay
    <3> QED
      BY <3>1, PartialMap
  <2> QED
    BY <1>1, <2>1, <2>2 DEF Slots, StateOK, TypeOK
<1>12. /\ undo \in Seq(UndoEntry)
       /\ entry \in UndoEntry
       /\ entry.state = u /\ entry.before.account = account_db
  <2> HIDE DEF u
  <2> QED
    BY <1>1, <1>9 DEF StateOK, TypeOK, Before, UndoEntry
<1> HIDE DEF entry, u
<1>13. undo' = Append(undo, entry)
  BY DEF apply_changes, entry, u
<1>14. /\ undo' \in Seq(UndoEntry)
       /\ Len(undo') = Len(undo) + 1 /\ Len(undo) \in Nat /\ undo'[Len(undo) + 1] = entry
       /\ \A i \in 1 .. Len(undo) : undo'[i] = undo[i]
  BY <1>12, <1>13
<1>15. /\ last_account_id' = pending.last_account_id /\ last_account_id' \in Id
       /\ head_time' \in 0 .. MaxTime /\ pending' = None /\ ops' \in 0 .. MaxOps
  <2>1. /\ last_account_id' = pending.last_account_id /\ head_time' = pending.time
        /\ pending' = None /\ ops' = 0
    BY DEF apply_changes
  <2>2. pending.last_account_id \in Id /\ pending.time \in Time
    BY <1>1 DEF Overlay
  <2>3. Time \subseteq 0 .. MaxTime /\ 0 \in 0 .. MaxOps
    BY BoundsAssumption DEF Time
  <2> QED
    BY <2>1, <2>2, <2>3
<1>16. StateOK'
  BY <1>3, <1>8, <1>11, <1>14, <1>15 DEF StateOK, TypeOK
<1>17. NoneAbove(account_db, last_account_id)'
  BY <1>3, <1>8, <1>15 DEF NoneAbove
<1>18. UndoOK'
  <2> SUFFICES ASSUME NEW i \in 1 .. Len(undo')
               PROVE  Undoes(undo'[i].state, undo'[i].before.account, After(i)')
    BY DEF UndoOK
  <2>1. CASE i = Len(undo) + 1
    <3>1. After(i)' = Kept
      BY <1>8, <1>14, <2>1 DEF After
    <3> QED
      BY <1>10, <1>12, <1>14, <2>1, <3>1
  <2>2. CASE i \in 1 .. Len(undo)
    <3>1. After(i)' = After(i)
      <4>1. CASE i = Len(undo)
        BY <1>12, <1>14, <4>1 DEF After
      <4>2. CASE i # Len(undo)
        BY <1>14, <2>2, <4>2 DEF After
      <4> QED
        BY <4>1, <4>2
    <3> QED
      BY <1>14, <2>2, <3>1 DEF IInv, UndoOK
  <2> QED
    BY <1>14, <2>1, <2>2
<1> QED
  BY <1>8, <1>15, <1>16, <1>17, <1>18 DEF IInv

-----------------------------------------------------------------------------
(* pop_block: the databases move back to the accounts before the block.    *)
LEMMA PopAccounts ==
    ASSUME IInv, pop_block
    PROVE  /\ account_db' = Last(undo).before.account /\ IndexesExact' /\ KeysFound'
           /\ account_index_db' \in [Name -> Id \cup {None}]
           /\ address_to_account_db' \in [Key -> Id \cup {None}]
           /\ delegate_vote_index_db' \subseteq (0 .. MaxVotes) \X Id
<1> DEFINE n == Len(undo)
           u == undo[n].state
           C == undo[n].before.account
<1>1. /\ undo \in Seq(UndoEntry)
      /\ undo # <<>> /\ Last(undo) = undo[n] /\ n \in 1 .. Len(undo) /\ StateOK
  BY DEF IInv, StateOK, TypeOK, pop_block, Last
<1>2. u \in UndoState /\ C \in Accounts
  <2>1. undo[n] \in UndoEntry
    BY <1>1
  <2> QED
    BY <2>1 DEF UndoEntry
<1>3. Undoes(u, C, account_db)
  BY <1>1 DEF IInv, UndoOK, After
<1>4. StoreAccounts(u.accounts)
  BY <1>1 DEF pop_block
<1>5. DOMAIN u.accounts \subseteq Id
  <2>1. u.accounts \in Partial(Id, [id : Id, name : Name, record : Record \cup {None}])
    BY <1>2 DEF UndoState
  <2> QED
    BY <2>1, PartialMap
<1> HIDE DEF u, C, n
<1>6. \A a \in DOMAIN u.accounts :
        /\ u.accounts[a].id = a /\ u.accounts[a].record = C[a] /\ u.accounts[a].name \in Name
        /\ C[a] # None => C[a].name = u.accounts[a].name
        /\ account_db[a] # None => account_db[a].name = u.accounts[a].name
  <2> SUFFICES ASSUME NEW a \in DOMAIN u.accounts
               PROVE  /\ u.accounts[a].id = a /\ u.accounts[a].record = C[a]
                      /\ u.accounts[a].name \in Name
                      /\ C[a] # None => C[a].name = u.accounts[a].name
                      /\ account_db[a] # None => account_db[a].name = u.accounts[a].name
    OBVIOUS
  <2> QED
    BY <1>3 DEF Undoes
<1>7. \A a \in Id \ DOMAIN u.accounts : C[a] = account_db[a]
  BY <1>3 DEF Undoes
<1>8. Compatible(account_db, C) /\ Compatible(C, C) /\ IndexesExact /\ KeysFound
  BY <1>3 DEF Undoes, IInv
<1>9. Last(undo).before.account = C
  BY <1>1 DEF C
<1> QED
  BY <1>1, <1>2, <1>4, <1>5, <1>6, <1>7, <1>8, <1>9, StoreAccountsExact

LEMMA PopBlockInv ==
    ASSUME IInv, pop_block
    PROVE  IInv'
<1> DEFINE n == Len(undo)
           u == undo[n].state
           C == undo[n].before.account
<1>1. /\ undo \in Seq(UndoEntry) /\ undo # <<>> /\ Last(undo) = undo[n] /\ n \in Nat /\ n > 0
      /\ undo' = SubSeq(undo, 1, n - 1) /\ pending = None
  BY DEF IInv, StateOK, TypeOK, pop_block, Last, Front
<1>2. undo[n] \in UndoEntry
  BY <1>1
<1>3. /\ u \in UndoState /\ C \in Accounts /\ undo[n].before.slots \in Slots
  BY <1>2 DEF UndoEntry
<1>4. Undoes(u, C, account_db)
  BY <1>1 DEF IInv, UndoOK, After
<1>5. /\ undo' \in Seq(UndoEntry) /\ Len(undo') = n - 1 /\ \A i \in 1 .. n - 1 : undo'[i] = undo[i]
  <2> DEFINE m == n - 1
             front == SubSeq(undo, 1, m)
  <2>1. m \in 0 .. Len(undo) /\ m \in Nat
    BY <1>1
  <2> HIDE DEF m
  <2>2. Len(front) = m /\ \A i \in 1 .. m : front[i] = undo[i]
    BY <1>1, <2>1
  <2>3. front \in Seq(UndoEntry)
    BY <1>1, <2>1
  <2> QED
    BY <1>1, <2>2, <2>3 DEF m
<1>6. account_db' = C
  BY <1>1, PopAccounts
<1>7. last_account_id' = u.last_account_id /\ head_time' = u.head_time /\ pending' = None /\ ops' = ops
  BY <1>1 DEF pop_block
<1>8. slot_record_db' \in Slots
  <2>1. slot_record_db' = [t \in Time |->
          IF t \in u.slots THEN undo[n].before.slots[t] ELSE slot_record_db[t]]
    BY <1>1 DEF pop_block
  <2>2. slot_record_db \in Slots
    BY DEF IInv, StateOK, TypeOK
  <2> HIDE DEF u
  <2> QED
    BY <1>3, <2>1, <2>2 DEF Slots
<1> HIDE DEF u, C
<1>9. StateOK'
  <2>1. u.last_account_id \in Id /\ u.head_time \in 0 .. MaxTime
    BY <1>3 DEF UndoState
  <2>2. ops \in 0 .. MaxOps
    BY DEF IInv, StateOK, TypeOK
  <2> QED
    BY <1>3, <1>5, <1>6, <1>7, <1>8, <2>1, <2>2, PopAccounts DEF StateOK, TypeOK
<1>10. NoneAbove(account_db, last_account_id)'
  BY <1>4, <1>6, <1>7 DEF Undoes, NoneAbove
<1>11. UndoOK'
  <2> SUFFICES ASSUME NEW i \in 1 .. Len(undo')
               PROVE  Undoes(undo'[i].state, undo'[i].before.account, After(i)')
    BY DEF UndoOK
  <2>1. i \in 1 .. n - 1 /\ i \in 1 .. n /\ i # n
    BY <1>1, <1>5
  <2>2. After(i)' = After(i)
    <3>1. CASE i = n - 1
      <4>1. i = Len(undo') /\ i # Len(undo) /\ i + 1 = Len(undo)
        <5>1. n = Len(undo) /\ n \in Int /\ Len(undo') = n - 1
          BY <1>1, <1>5
        <5> HIDE DEF n
        <5> QED
          BY <3>1, <5>1
      <4>2. After(i)' = C
        BY <1>6, <4>1 DEF After
      <4>3. After(i) = C
        BY <4>1 DEF After, C
      <4> QED
        BY <4>2, <4>3
    <3>2. CASE i # n - 1
      <4>1. i + 1 \in 1 .. n - 1
        BY <1>1, <2>1, <3>2
      <4>2. undo'[i + 1] = undo[i + 1] /\ i # Len(undo') /\ i # Len(undo)
        BY <1>5, <2>1, <3>2, <4>1
      <4> QED
        BY <4>2 DEF After
    <3> QED
      BY <3>1, <3>2
  <2> QED
    BY <1>5, <2>1, <2>2 DEF IInv, UndoOK
<1> QED
  BY <1>7, <1>9, <1>10, <1>11, PopAccounts DEF IInv

-----------------------------------------------------------------------------
(* Every step keeps the invariant.                                         *)
LEMMA NextInv == IInv /\ [Next]_vars => IInv'
<1> SUFFICES ASSUME IInv, [Next]_vars PROVE IInv'
  OBVIOUS
<1>1. CASE UNCHANGED vars
  <2>1. pending' \in Overlay \cup {None} /\ ops' \in 0 .. MaxOps /\ UNCHANGED <<dbVars, undo>>
    BY <1>1 DEF IInv, StateOK, TypeOK, vars
  <2>2. pending' # None => OverlayOK'
    BY <1>1 DEF IInv, OverlayOK, Merged, get_account_record, vars, dbVars
  <2> QED
    BY <2>1, <2>2, OverlayStep
<1>2. ASSUME NEW a \in Id, update_to_delegate(a) PROVE IInv'
  <2>1. /\ pending # None /\ ops < MaxOps /\ get_account_record(a) # None /\ 0 \in 0 .. MaxVotes
        /\ PendingStore(a, [get_account_record(a) EXCEPT !.votes = 0])
    BY <1>2, BoundsAssumption DEF update_to_delegate, InBlock
  <2> QED
    BY <2>1, VotesInv
<1>3. ASSUME NEW a \in Id, NEW v \in 0 .. MaxVotes, update_delegate_votes(a, v) PROVE IInv'
  <2>1. /\ pending # None /\ ops < MaxOps /\ get_account_record(a) # None
        /\ PendingStore(a, [get_account_record(a) EXCEPT !.votes = v])
    BY <1>3 DEF update_delegate_votes, InBlock
  <2> QED
    BY <2>1, VotesInv
<1> QED
  BY <1>1, <1>2, <1>3, ExtendChainInv, RegisterAccountInv, UpdateActiveKeyInv, ThrowInv,
     ApplyChangesInv, PopBlockInv DEF Next

(* The invariant holds in every reachable state.                           *)
THEOREM Invariance == Spec => []IInv
BY InitInv, NextInv, PTL DEF Spec

(* IndexesExact: the votes index ranks exactly the delegates and the name  *)
(* index lists exactly the accounts, for any number of accounts, blocks    *)
(* and pops, and whatever order apply_changes stores the records in.       *)
THEOREM IndexesStayExact == Spec => []IndexesExact
<1>1. IInv => IndexesExact
  BY DEF IInv
<1> QED
  BY <1>1, Invariance, PTL

(* KeysFound: every key an account has had leads to it, though only the    *)
(* latest key of a time is kept, operations of one block see each other's  *)
(* keys through the overlay alone, and pops erase the keys of accounts     *)
(* that they remove.                                                       *)
THEOREM KeysStayFound == Spec => []KeysFound
<1>1. IInv => KeysFound
  BY DEF IInv
<1> QED
  BY <1>1, Invariance, PTL

(* AccountsUndone: pop_block restores the account records exactly, however *)
(* many operations of the block touched them.                              *)
THEOREM PopRestoresAccounts == Spec => AccountsUndone
<1>1. IInv /\ [Next]_vars => [pop_block => account_db' = Last(undo).before.account]_vars
  BY PopAccounts
<1> QED
  BY <1>1, Invariance, PTL DEF Spec, AccountsUndone
=============================================================================
