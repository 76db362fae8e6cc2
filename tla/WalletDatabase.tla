--------------------------- MODULE WalletDatabase ---------------------------
(***************************************************************************)
(* The accounts and keys of a wallet and the file that keeps them          *)
(* (wallet/wallet_db.cpp, with the calls of wallet/wallet.cpp that use     *)
(* it).  The file is a map from record numbers to records; a record that   *)
(* is written without sync reaches the disk with the next one that is      *)
(* written with it, or is lost in a crash together with all later ones:    *)
(* a crash leaves the file as it was after the last write with sync, or    *)
(* after any later write.  The program can crash between any two writes of *)
(* a call.                                                                 *)
(***************************************************************************)
EXTENDS Integers, FiniteSets, FiniteSetsExt, Functions, Folds

CONSTANTS
  Names,      \* names of accounts
  Registered, \* the names that can be registered on the chain
  owner_key,  \* the keys with which they are: of an account of this wallet,
  active_key, \* of a contact, or others
  Contacts,   \* keys that the user gives for contacts
  Imports,    \* private keys from elsewhere: files and memos
  Passwords,
  MaxDbCalls  \* bound: how many calls are made before the model stops

ASSUME NamesAssumption ==
  IsFiniteSet(Names) /\ Registered \subseteq Names /\ DOMAIN owner_key = Registered /\ DOMAIN active_key = Registered
NoPassword == "none"

ASSUME PasswordsAssumption == Passwords # {} /\ NoPassword \notin Passwords
ASSUME MaxDbCallsAssumption == MaxDbCalls \in Nat

VARIABLES
  file,     \* the records written: a function from record numbers to records
  left,     \* the files that a crash can leave
  mem,      \* the maps of wallet_db
  wallet_password, \* perhaps not the right one
  on_chain, \* the names that are registered on the chain now
  held,     \* history: what the wallet has, or will have when opened, of each key
  removed,  \* history: the keys that went with a removed contact
  issued,   \* history: the generated keys that calls have returned
  reused,   \* history: the keys that have been returned twice
  inexact,  \* history: names and addresses that two account records have had,
            \* or that one has lost to the account's record on the chain, and
            \* the names of accounts removed under a name they had lost
  replaced, \* history: passwords whose change did not come to its end
  mistaken, \* history: private keys stored while the password was wrong
  db_calls

db_vars == <<file, left, mem, wallet_password, on_chain, held, removed, issued, reused, inexact, replaced,
             mistaken, db_calls>>

\* Keys of the wallet are derived from its master key: by a number, or by an
\* account and a number.
Child(i) == <<"child", i>>
Derived(k, i) == <<"derived", k, i>>
Generated == {Child(i) : i \in 1 .. MaxDbCalls}
Accounts == {owner_key[n] : n \in Registered} \cup Contacts \cup Generated
Keys == Accounts \cup {active_key[n] : n \in Registered} \cup Imports
          \cup {Derived(k, i) : k \in Accounts, i \in 1 .. MaxDbCalls}

MasterRecord(p) == [type |-> "master", password |-> p]
KeyRecord(k, account, private) == [type |-> "key", key |-> k, account |-> account, private |-> private]
AccountRecord(n, owner, actives, mine) ==
  [type |-> "account", name |-> n, owner |-> owner, actives |-> actives, mine |-> mine, seq |-> 0]

-----------------------------------------------------------------------------
(* Reading and writing records.                                            *)

Put(f, S, v) == [x \in DOMAIN f \cup S |-> IF x \in S THEN v ELSE f[x]]
Without(f, S) == Restrict(f, DOMAIN f \ S)

Closed == [open |-> FALSE, keys |-> <<>>, accounts |-> <<>>, by_address |-> <<>>, by_name |-> <<>>,
           next |-> 2, child |-> [index |-> 0, value |-> 1], master |-> NoPassword]

load_generic_record(m, i, r) ==
  CASE r.type = "master"  -> [m EXCEPT !.master = r.password]
    [] r.type = "next"    -> [m EXCEPT !.next = r.value]
    [] r.type = "child"   -> [m EXCEPT !.child = [index |-> i, value |-> r.value]]
    [] r.type = "key"     -> [m EXCEPT !.keys = Put(m.keys, {r.key}, [record |-> r, index |-> i])]
    [] r.type = "account" -> [m EXCEPT !.accounts = Put(m.accounts, {i}, r),
                                       !.by_address = Put(m.by_address, {r.owner} \cup r.actives, i),
                                       !.by_name = Put(m.by_name, {r.name}, i)]
    [] OTHER -> m

\* wallet_db::open: the records are loaded in the order of their numbers.
Loaded(f) ==
  MapThenFoldSet(LAMBDA i, m : load_generic_record(m, i, f[i]), [Closed EXCEPT !.open = TRUE],
                 LAMBDA i : i, Max, DOMAIN f)

\* A call under way: the maps, the file so far, and the files that a crash
\* can leave during the call and after it.
NewCall == [m |-> mem, file |-> file, during |-> left, after |-> left]

Write(c, m, f, sync) ==
  [m |-> m, file |-> f, during |-> c.during \cup {f},
   after |-> IF sync THEN {f} ELSE c.after \cup {f}]

store_record(c, i, r, sync) ==
  Write(c, load_generic_record(c.m, i, r), Put(c.file, {i}, r), sync)

remove_item(c, i) == Write(c, c.m, Without(c.file, {i}), TRUE)

\* new_wallet_record_index: the number is the value of c.m.next before it.
new_wallet_record_index(c) ==
  store_record(c, 1, [type |-> "next", value |-> c.m.next + 1], FALSE)

\* Faulty variant: the record is written before the next number.
store_record_first(c, r, sync) == new_wallet_record_index(store_record(c, c.m.next, r, sync))

\* Storing a record under a new number.
store_new_record(c, r, sync) == store_record(new_wallet_record_index(c), c.m.next, r, sync)

-----------------------------------------------------------------------------
(* The operations of wallet_db.                                            *)

HasKey(m, k) == k \in DOMAIN m.keys
has_private_key(m, k) == HasKey(m, k) /\ m.keys[k].record.private # NoPassword
HasAccount(m, k) == k \in DOMAIN m.by_address
AccountOf(m, k) == m.accounts[m.by_address[k]]
Named(m, n) == m.accounts[m.by_name[n]]
Addresses(account) == {account.owner} \cup account.actives

\* Faulty variant: a new key is written without sync.
store_key_later(c, r) ==
  IF HasKey(c.m, r.key)
  THEN store_record(c, c.m.keys[r.key].index, r, TRUE)
  ELSE store_new_record(c, r, FALSE)

store_key(c, r) ==
  IF HasKey(c.m, r.key)
  THEN LET mine == r.private # NoPassword /\ HasAccount(c.m, r.account)
           marked == IF mine
                     THEN store_record(c, c.m.by_address[r.account],
                                       [AccountOf(c.m, r.account) EXCEPT !.mine = TRUE], FALSE)
                     ELSE c
       IN  store_record(marked, c.m.keys[r.key].index, r, TRUE)
  ELSE store_new_record(c, r, TRUE)

\* add_account of a key that is not on the chain
add_local_account(c, n, k) ==
  LET stored == store_new_record(c, AccountRecord(n, k, {k}, has_private_key(c.m, k)), TRUE)
  IN  IF HasKey(c.m, k)
      THEN store_record(stored, c.m.keys[k].index, [c.m.keys[k].record EXCEPT !.account = k], TRUE)
      ELSE store_new_record(stored, KeyRecord(k, k, NoPassword), TRUE)

\* add_account of a registered account.  With an unknown owner key, an active
\* key that is known already ends the call with an exception.
AddThrows(m, n) ==
  ~HasKey(m, owner_key[n]) /\ active_key[n] # owner_key[n] /\ HasKey(m, active_key[n])

add_registered_account(c, n) ==
  LET k == owner_key[n]
      stored == store_new_record(c, AccountRecord(n, k, {active_key[n]}, has_private_key(c.m, k)), FALSE)
      owned == store_new_record(stored, KeyRecord(k, k, NoPassword), TRUE)
  IN  IF HasKey(c.m, k)
      THEN store_record(stored, c.m.keys[k].index, [c.m.keys[k].record EXCEPT !.account = k], TRUE)
      ELSE IF active_key[n] = k THEN owned
      ELSE IF AddThrows(c.m, n) THEN new_wallet_record_index(owned)
      ELSE store_new_record(owned, KeyRecord(active_key[n], k, NoPassword), TRUE)

\* new_private_key with the next number of the wallet, and with that of an
\* account
new_private_key(c, account) ==
  LET i == c.m.child.value
      counted == IF c.m.child.index = 0
                 THEN store_new_record(c, [type |-> "child", value |-> i + 1], TRUE)
                 ELSE store_record(c, c.m.child.index, [type |-> "child", value |-> i + 1], TRUE)
  IN  store_key(counted, KeyRecord(Child(i), account, wallet_password))

NextOf(m, k) == Derived(k, AccountOf(m, k).seq + 1)

\* Faulty variant: the number used last is stored after the key, without sync.
new_account_key_first(c, k) ==
  LET keyed == store_key(c, KeyRecord(NextOf(c.m, k), k, wallet_password))
  IN  store_record(keyed, c.m.by_address[k], [AccountOf(keyed.m, k) EXCEPT !.seq = @ + 1], FALSE)

new_account_key(c, k) ==
  store_key(store_record(c, c.m.by_address[k], [AccountOf(c.m, k) EXCEPT !.seq = @ + 1], TRUE),
            KeyRecord(NextOf(c.m, k), k, wallet_password))

\* The file with the new master key and some of the private keys encrypted
\* again
Encrypted(c, some, new) ==
  LET key(i) == CHOOSE k \in some : c.m.keys[k].index = i
      f == Put(c.file, {-1}, MasterRecord(new))
      numbers == {c.m.keys[k].index : k \in some}
  IN  [i \in DOMAIN f \cup numbers |->
         IF i \in numbers THEN [c.m.keys[key(i)].record EXCEPT !.private = new] ELSE f[i]]

EncryptedKeys(keys, done, new) ==
  [k \in DOMAIN keys |->
     IF k \in done THEN [record |-> [keys[k].record EXCEPT !.private = new], index |-> keys[k].index]
     ELSE keys[k]]

\* Faulty variant: the keys are written without sync.
Reencrypted_unsynced(c, done, new) ==
  [m |-> [c.m EXCEPT !.master = new, !.keys = EncryptedKeys(c.m.keys, done, new)],
   file |-> Encrypted(c, done, new),
   during |-> c.during \cup {Encrypted(c, some, new) : some \in SUBSET done},
   after |-> {Encrypted(c, some, new) : some \in SUBSET done}]

\* set_master_key, and then the private keys one by one, in any order, each
\* with sync
Reencrypted(c, done, new) ==
  [m |-> [c.m EXCEPT !.master = new, !.keys = EncryptedKeys(c.m.keys, done, new)],
   file |-> Encrypted(c, done, new),
   during |-> c.during \cup {Encrypted(c, some, new) : some \in SUBSET done},
   after |-> {Encrypted(c, done, new)}]

-----------------------------------------------------------------------------
(* A call runs to its end, or the program crashes after some of its        *)
(* writes.                                                                 *)

Finishes(c) == file' = c.file /\ left' = c.after /\ mem' = c.m

Crashes(c) ==
  /\ file' \in c.during /\ left' = {file'}
  /\ mem' = Closed /\ wallet_password' = NoPassword

Issue(k) == issued' = issued \cup {k} /\ reused' = (IF k \in issued THEN reused \cup {k} ELSE reused)

Done(result) ==
  \E c \in {result} :
    \/ Finishes(c) /\ UNCHANGED <<wallet_password, issued, reused>>
    \/ Crashes(c) /\ UNCHANGED <<issued, reused>>

Returns(result, k) ==
  \E c \in {result} :
    \/ Finishes(c) /\ Issue(k) /\ UNCHANGED wallet_password
    \/ Crashes(c) /\ UNCHANGED <<issued, reused>>

-----------------------------------------------------------------------------
(* The calls of the wallet.                                                *)

unlocked == mem.open /\ wallet_password # NoPassword

\* The password opens the master key (decrypt_key).
trusted == unlocked /\ wallet_password = mem.master

open_wallet == ~mem.open /\ mem' = Loaded(file)

\* The file is closed: what was written stays.
close_wallet ==
  /\ mem.open
  /\ left' = {file} /\ mem' = Closed /\ wallet_password' = NoPassword
  /\ UNCHANGED <<file, issued, reused>>

crash == mem.open /\ Crashes(NewCall) /\ UNCHANGED <<issued, reused>>

\* A password is stored before it is validated, and a wrong one stays until
\* lock has waited for the login cleaner: other calls come in between.
unlock_wallet(p) == mem.open /\ wallet_password' = p
lock_wallet == mem.open /\ wallet_password' = NoPassword
wrong_password == \E p \in Passwords \ {mem.master} : unlock_wallet(p)

create_account(n) ==
  /\ trusted /\ n \notin DOMAIN mem.by_name /\ n \notin on_chain
  /\ LET k == Child(mem.child.value)
         c == new_private_key(NewCall, k)
     IN  IF HasAccount(mem, k) THEN Returns(c, k) ELSE Returns(add_local_account(c, n, k), k)

\* cache_account with the record on the chain, if the account is registered
Refreshed(c, i, n) ==
  LET account == c.m.accounts[i]
  IN  store_record(c, i, IF n \in on_chain THEN [account EXCEPT !.name = n, !.actives = {active_key[n]}]
                         ELSE account, TRUE)

\* Two records of one registered account make load_account_record throw.
OnlyRecord(m, i, n) == \A j \in DOMAIN m.accounts : m.accounts[j].owner = owner_key[n] => j = i

\* add_contact_account: the account is known by its name, or by its key.
Known(m, n, k) == n \in DOMAIN m.by_name \/ HasAccount(m, k)
Place(m, n, k) == IF n \in DOMAIN m.by_name THEN m.by_name[n] ELSE m.by_address[k]

AddContact(c, n, k) ==
  IF Known(c.m, n, k) THEN Refreshed(c, Place(c.m, n, k), n)
  ELSE IF n \in on_chain THEN add_registered_account(c, n)
  ELSE add_local_account(c, n, k)

CanAddContact(m, n, k) ==
  /\ n \in on_chain => k = owner_key[n]
  /\ Known(m, n, k) => LET account == m.accounts[Place(m, n, k)]
                       IN  account.owner = k /\ (n \in DOMAIN m.by_name \/ account.name = n)
  /\ n \in on_chain => OnlyRecord(m, IF Known(m, n, k) THEN Place(m, n, k) ELSE 0, n)

add_contact_account(n, k) ==
  /\ mem.open /\ CanAddContact(mem, n, k)
  /\ Done(AddContact(NewCall, n, k))

\* scan_register_account and scan_update_account: the account with the owner
\* key of the one on the chain gets its record, name included.
scan_account(n) ==
  /\ mem.open /\ n \in on_chain
  /\ LET k == owner_key[n]
     IN  /\ HasKey(mem, k) /\ HasAccount(mem, k) /\ AccountOf(mem, k).owner = k
         /\ OnlyRecord(mem, mem.by_address[k], n)
         /\ Done(Refreshed(NewCall, mem.by_address[k], n))

NamedSo(n) == {i \in DOMAIN mem.accounts : mem.accounts[i].name = n}

is_unique_account(n) ==
  NamedSo(n) # {} => Cardinality(NamedSo(n)) = 1 /\ (n \in on_chain => Named(mem, n).owner = owner_key[n])

remove_contact_account(n) ==
  /\ mem.open /\ n \in DOMAIN mem.by_name
  /\ is_unique_account(n) /\ ~has_private_key(mem, Named(mem, n).owner)
  /\ LET i == mem.by_name[n]
         gone == Addresses(mem.accounts[i])
         m == [mem EXCEPT !.keys = Without(mem.keys, gone),
                          !.by_address = Without(mem.by_address, gone),
                          !.by_name = Without(mem.by_name, {n}),
                          !.accounts = Without(mem.accounts, {i})]
     IN  /\ removed' = removed \cup gone
         /\ Done(remove_item([NewCall EXCEPT !.m = m], i))

\* wallet::rename_account takes the key of the first record of that name that
\* is not the registered account's, and wallet_db::rename_account the record
\* that the key leads to.
Renamable(n) == {i \in NamedSo(n) : n \in on_chain => mem.accounts[i].owner # owner_key[n]}
CanRename(n, new) ==
  /\ mem.open /\ Renamable(n) # {} /\ new \notin on_chain /\ new \notin DOMAIN mem.by_name
  /\ LET k == mem.accounts[Min(Renamable(n))].owner
     IN  HasAccount(mem, k) /\ \A r \in on_chain : k \notin {owner_key[r], active_key[r]}
RenamedRecord(n) == mem.by_address[mem.accounts[Min(Renamable(n))].owner]

\* Faulty variant: the old name stays in the index of names.
rename_account_both(n, new) ==
  /\ CanRename(n, new)
  /\ LET i == RenamedRecord(n)
     IN  Done(store_record(NewCall, i, [mem.accounts[i] EXCEPT !.name = new], TRUE))

\* The old name leaves the index if it led to the record; if it was not
\* there, looking it up has put it there.
NamesWithout(by_name, old, i) ==
  IF old \notin DOMAIN by_name THEN Put(by_name, {old}, 0)
  ELSE IF by_name[old] = i THEN Without(by_name, {old})
  ELSE by_name

rename_account(n, new) ==
  /\ CanRename(n, new)
  /\ LET i == RenamedRecord(n)
         m == [mem EXCEPT !.by_name = NamesWithout(Put(mem.by_name, {new}, i), mem.accounts[i].name, i)]
     IN  Done(store_record([NewCall EXCEPT !.m = m], i, [mem.accounts[i] EXCEPT !.name = new], TRUE))

\* A private key that is stored with a wrong password
StoredNow(k) == mistaken' = IF wallet_password = mem.master THEN mistaken ELSE mistaken \cup {k}

\* import_private_key of a key whose record is known, or that belongs to a
\* registered account, which becomes a contact first.  If the contact was
\* there, and its record of the key was not, the call calls itself until the
\* stack is full.
SetPrivate(c, k) == store_key(c, [c.m.keys[k].record EXCEPT !.private = wallet_password])

import_private_key(k) ==
  /\ unlocked /\ StoredNow(k)
  /\ \/ HasKey(mem, k) /\ Done(SetPrivate(NewCall, k))
     \/ \E n \in on_chain :
          /\ k \in {owner_key[n], active_key[n]} /\ ~HasKey(mem, k) /\ CanAddContact(mem, n, owner_key[n])
          /\ LET c == AddContact(NewCall, n, owner_key[n])
                 thrown == ~Known(mem, n, owner_key[n]) /\ AddThrows(mem, n)
             IN  IF thrown THEN Done(c)
                 ELSE IF HasKey(c.m, k) THEN Done(SetPrivate(c, k))
                 ELSE Crashes(c) /\ UNCHANGED <<issued, reused>>

is_receive_account(m, n) ==
  /\ n \in DOMAIN m.by_name
  /\ \E k \in Named(m, n).actives : has_private_key(m, k)

\* A private key from elsewhere for one of the wallet's accounts: imported
\* by the user, or the one-time key of a memo to one of the account's keys
\* (cache_memo).
store_foreign_key(k, n) ==
  /\ unlocked /\ is_receive_account(mem, n) /\ StoredNow(k)
  /\ \E account \in Addresses(Named(mem, n)) :
       Done(store_key(NewCall, KeyRecord(k, account, wallet_password)))

\* An account whose address is not in the index gets a key as the wallet does.
get_new_address(n) ==
  /\ trusted /\ is_receive_account(mem, n)
  /\ LET k == Named(mem, n).owner
     IN  IF HasAccount(mem, k)
         THEN AccountOf(mem, k).seq < MaxDbCalls /\ Returns(new_account_key(NewCall, k), NextOf(mem, k))
         ELSE Returns(new_private_key(NewCall, k), Child(mem.child.value))

store_transaction == mem.open /\ Done(store_new_record(NewCall, [type |-> "transaction"], FALSE))

\* A key that the old password does not open ends the call with an exception.
change_passphrase(new) ==
  /\ trusted /\ new # wallet_password
  /\ LET private == {k \in DOMAIN mem.keys : has_private_key(mem, k)}
         fit == {k \in private : mem.keys[k].record.private = wallet_password}
         fits == fit = private
     IN  \E done \in IF fits THEN {private} ELSE SUBSET fit :
           \E c \in {Reencrypted(NewCall, done, new)} :
             \/ /\ Finishes(c) /\ wallet_password' = IF fits THEN new ELSE wallet_password
                /\ replaced' = IF fits THEN replaced ELSE replaced \cup {wallet_password}
             \/ /\ Crashes(c)
                /\ replaced' = IF file' \in left \/ (fits /\ file' = c.file) THEN replaced
                               ELSE replaced \cup {wallet_password}
  /\ UNCHANGED <<issued, reused>>

-----------------------------------------------------------------------------
\* A wallet that has just been created
DbInit ==
  /\ wallet_password = CHOOSE p \in Passwords : TRUE
  /\ file = [i \in {-1} |-> MasterRecord(wallet_password)] /\ left = {file}
  /\ mem = Loaded(file) /\ on_chain \in SUBSET Registered
  /\ held = [k \in Keys |-> "none"] /\ removed = {}
  /\ issued = {} /\ reused = {} /\ inexact = {} /\ replaced = {} /\ mistaken = {} /\ db_calls = 0

\* Blocks are applied and popped.
chain_changes == on_chain' \in SUBSET Registered

Levels(keys) ==
  [k \in Keys |-> IF k \notin DOMAIN keys THEN "none"
                  ELSE IF keys[k].record.private = NoPassword THEN "public" ELSE "private"]

\* The indexes lead to records, which lookup_account asserts: what calls do
\* with an index that does not is left out.
Leads(m) ==
  /\ \A k \in DOMAIN m.by_address : m.by_address[k] \in DOMAIN m.accounts
  /\ \A n \in DOMAIN m.by_name : m.by_name[n] \in DOMAIN m.accounts

Entries(account) == {account.name} \cup Addresses(account)
AccountsIn(f) == {i \in DOMAIN f : f[i].type = "account"}
Shared(f) ==
  UNION {Entries(f[x[1]]) \cap Entries(f[x[2]]) : x \in {y \in AccountsIn(f) \X AccountsIn(f) : y[1] # y[2]}}
LostBy(account, now) == (Addresses(account) \ Addresses(now)) \cup ({account.name} \ {now.name})
Lost(before, after) == UNION {LostBy(before[i], after[i]) : i \in DOMAIN before \cap DOMAIN after}

Storing ==
  \/ store_transaction
  \/ \E n \in Names :
       \/ create_account(n) \/ get_new_address(n) \/ scan_account(n)
       \/ \E k \in Contacts \cup {owner_key[r] : r \in Registered} : add_contact_account(n, k)

Operation ==
  \/ (close_wallet \/ crash) /\ UNCHANGED <<removed, replaced, mistaken>>
  \/ (lock_wallet \/ wrong_password) /\ UNCHANGED <<file, left, mem, issued, reused, removed, replaced, mistaken>>
  \/ /\ Leads(mem)
     /\ \/ Storing /\ UNCHANGED <<removed, replaced, mistaken>>
        \/ /\ \/ \E k \in Keys : import_private_key(k)
              \/ \E n \in Names, k \in Imports : store_foreign_key(k, n)
           /\ UNCHANGED <<removed, replaced>>
        \/ \E new \in Passwords : change_passphrase(new) /\ UNCHANGED <<removed, mistaken>>

DbNext ==
  \/ /\ db_calls < MaxDbCalls /\ db_calls' = db_calls + 1 /\ UNCHANGED on_chain
     /\ \/ Operation /\ inexact' = inexact \cup Shared(file') \cup Lost(mem.accounts, mem'.accounts)
        \/ /\ Leads(mem) /\ \E n, new \in Names : rename_account(n, new)
           /\ inexact' = inexact \cup Shared(file') /\ UNCHANGED <<removed, replaced, mistaken>>
        \/ /\ Leads(mem) /\ UNCHANGED <<replaced, mistaken>>
           /\ \E n \in Names : /\ remove_contact_account(n)
                              /\ inexact' = inexact \cup Shared(file') \cup ({Named(mem, n).name} \ {n})
     /\ \E m \in {IF mem'.open THEN mem' ELSE Loaded(file')} : held' = Levels(m.keys)
  \/ /\ db_calls < MaxDbCalls
     /\ \/ open_wallet /\ UNCHANGED <<on_chain, wallet_password>>
        \/ unlock_wallet(mem.master) /\ UNCHANGED <<on_chain, mem>>
        \/ chain_changes /\ UNCHANGED <<wallet_password, mem>>
     /\ UNCHANGED <<file, left, held, removed, issued, reused, inexact, replaced, mistaken, db_calls>>

DbSpec == DbInit /\ [][DbNext]_db_vars

-----------------------------------------------------------------------------
DbTypeOK ==
  /\ \A i \in DOMAIN file : i = -1 \/ i >= 1
  /\ mem.open \/ (mem = Closed /\ wallet_password = NoPassword /\ left = {file})
  /\ wallet_password \in Passwords \cup {NoPassword} /\ (mem.open => mem.master \in Passwords)
  /\ \A k \in DOMAIN mem.keys : k \in Keys /\ mem.keys[k].record.private \in Passwords \cup {NoPassword}
  /\ issued \subseteq Keys /\ reused \subseteq issued /\ replaced \subseteq Passwords /\ mistaken \subseteq Keys
  /\ on_chain \subseteq Registered /\ db_calls \in 0 .. MaxDbCalls

(* Whenever the program crashes, the number that the next new record will  *)
(* get is higher than all numbers in the file: no record is overwritten by *)
(* another after a restart.                                                *)
IndexesFresh == \A f \in left : \A i \in DOMAIN f : i < Loaded(f).next

(* Opening the file again gives the maps that are in memory: the updates   *)
(* made in place by store_key, cache_account, rename_account and           *)
(* remove_contact_account agree with load_generic_record.  Only keys of    *)
(* removed contacts come back, and the indexes can differ only in names    *)
(* and addresses that two accounts have shared, or that an account has     *)
(* lost to its record on the chain.                                        *)
ReopensSame ==
  mem.open =>
    \A m \in {Loaded(file)} :
      /\ m.accounts = mem.accounts /\ m.next = mem.next /\ m.child = mem.child /\ m.master = mem.master
      /\ Without(m.by_address, inexact) = Without(mem.by_address, inexact)
      /\ Without(m.by_name, inexact) = Without(mem.by_name, inexact)
      /\ \A k \in DOMAIN m.keys :
           IF HasKey(mem, k) THEN m.keys[k] = mem.keys[k] ELSE k \in removed
      /\ DOMAIN mem.keys \subseteq DOMAIN m.keys

(* Whenever the program crashes, each private key opens with the password  *)
(* that opens the wallet, or with one whose change was interrupted.  The   *)
(* exceptions are keys that had gone with a contact, and keys stored while *)
(* an unlock with a wrong password was under way.                          *)
KeysReadable ==
  \A m \in {Loaded(f) : f \in left} :
    \A k \in DOMAIN m.keys \ (removed \cup mistaken) :
      m.keys[k].record.private \in {NoPassword, m.master} \cup replaced

(* No call returns a generated key that a call has returned before, also   *)
(* after crashes, unless its account had been removed as a contact and     *)
(* added again, or shares its address with another.                        *)
NotReissued == reused \subseteq {Derived(k, i) : k \in removed \cup inexact, i \in 1 .. MaxDbCalls}

Store == INSTANCE KeyStore WITH running <- mem.open

(* The wallet keeps the promise of KeyStore: a private key that has been   *)
(* stored is there after any crash and any later call.                     *)
KeysKept == Store!Spec

=============================================================================
