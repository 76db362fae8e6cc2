------------------------------ MODULE KeyStore ------------------------------
(***************************************************************************)
(* What a wallet promises about keys, whatever its files look like: a      *)
(* private key that a call has stored stays there through later calls,     *)
(* crashes and restarts.  Only the removal of a contact, an account whose  *)
(* owner key is not private, takes keys away.                              *)
(***************************************************************************)
CONSTANT Keys

VARIABLES
  held,   \* held[k]: what the wallet has, or will have when opened, of key k
  running \* the wallet is open

Level == {"none", "public", "private"}
AtLeast(now, before) ==
  \/ now = "private"
  \/ now = "public" /\ before # "private"
  \/ before = "none"

Init == held = [k \in Keys |-> "none"] /\ running = TRUE

(* A call stores keys and takes none away. *)
Store ==
  /\ running /\ UNCHANGED running
  /\ held' \in [Keys -> Level]
  /\ \A k \in Keys : AtLeast(held'[k], held[k])

(* The keys of a contact are removed. *)
Remove ==
  /\ running /\ UNCHANGED running
  /\ held' \in [Keys -> Level]
  /\ \A k \in Keys : held'[k] \in {held[k], "none"}
  /\ \E owner \in Keys : held[owner] # "private" /\ held'[owner] = "none"

(* The wallet is closed, or the program crashes, perhaps during a call.    *)
(* Public keys may be gone, and keys that were removed may be back.        *)
Stop ==
  /\ running /\ running' = FALSE
  /\ held' \in [Keys -> Level]
  /\ \A k \in Keys : held[k] = "private" => held'[k] = "private"

Start == ~running /\ running' = TRUE /\ UNCHANGED held

Next == Store \/ Remove \/ Stop \/ Start

Spec == Init /\ [][Next]_<<held, running>>
=============================================================================
