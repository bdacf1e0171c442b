------------------------------ MODULE TxStore ------------------------------
(***************************************************************************)
(* The commits inside WalletTransaction.store() and utxos_update()         *)
(* (wallets.py), for one transaction that several programs with the same   *)
(* database write: the row of the transaction, then each input and output. *)
(* A program may stop after each of them.                                  *)
(***************************************************************************)
EXTENDS Naturals, Sequences, FiniteSets, SequencesExt

CONSTANTS
  Program,   \* programs with the wallet open
  Key,       \* keys of the wallet
  Inputs,    \* the address of each input: a key, or another address
  Outputs,   \* that of each output
  NoKey      \* a NULL key_id

ASSUME StoreAssumption ==
  /\ Inputs \in Seq(Range(Inputs)) /\ Outputs \in Seq(Range(Outputs))
  /\ NoKey \notin Key

NRows == Len(Inputs) + Len(Outputs)
AddressAt == Inputs \o Outputs

(* Place 0 is the row of the transaction, the others its inputs and outputs.*)
Place == 0..NRows
IsOutput(x) == x > Len(Inputs)

VARIABLES
  known,    \* DbKey rows
  inUse,    \* those with used set
  keyId,    \* [places with a row -> key_id, or NoKey]
  storing   \* [Program -> the call in progress]

storage == <<known, inUse, keyId, storing>>

-----------------------------------------------------------------------------
NoStore == [kind |-> "idle", todo |-> <<>>, found |-> {}, keys |-> {}, at |-> "look", had |-> {}]

Stored == DOMAIN keyId

(* The spent column, which store() also writes, is left to WalletLedger.    *)
Store(p) ==
  /\ storing[p] = NoStore
  /\ storing' = [storing EXCEPT ![p] =
       [NoStore EXCEPT !.kind = "store", !.todo = [x \in 1..NRows + 1 |-> x - 1], !.had = known]]
  /\ UNCHANGED <<known, inUse, keyId>>

(* Slip: the output is written before its transaction. *)
OutputFirst(x) == <<x, 0>>

UtxoRows(x) == <<0, x>>

(* utxos_update() with one output of the wallet, which looks for both rows  *)
(* before it writes any.                                                    *)
Utxo(p, x) ==
  /\ storing[p] = NoStore
  /\ IsOutput(x) /\ AddressAt[x] \in known
  /\ storing' = [storing EXCEPT ![p] =
       [NoStore EXCEPT !.kind = "utxo", !.todo = UtxoRows(x), !.found = Stored, !.keys = known,
                      !.at = "write"]]
  /\ UNCHANGED <<known, inUse, keyId>>

(* store() looks for the key and the row before it writes each. *)
Look(p) ==
  /\ storing[p].at = "look" /\ storing[p].todo # <<>>
  /\ storing' = [storing EXCEPT ![p].found = Stored, ![p].keys = known,
                                ![p].at = "write"]
  /\ UNCHANGED <<known, inUse, keyId>>

(* store() looks again before the next row, utxos_update() does not.        *)
Onwards(c) == [c EXCEPT !.todo = Tail(@), !.at = IF c.kind = "store" THEN "look" ELSE "write"]

(* A commit: a new row, unless another program was first (IntegrityError),  *)
(* or what is new about one that is there.                                  *)
Write(p) ==
  LET c == storing[p]
      x == Head(c.todo)
      own == x > 0 /\ AddressAt[x] \in c.keys
      k == IF own THEN AddressAt[x] ELSE NoKey
      new == x \notin c.found
  IN  /\ c.at = "write" /\ c.todo # <<>>
      /\ IF new /\ x \in Stored
         THEN /\ storing' = [storing EXCEPT ![p] = NoStore]
              /\ UNCHANGED <<inUse, keyId>>
         ELSE /\ storing' = [storing EXCEPT ![p] = Onwards(c)]
              /\ inUse' = IF own THEN inUse \cup {k} ELSE inUse
              /\ keyId' = [y \in Stored \cup {x} |-> IF y = x /\ (new \/ own) THEN k ELSE keyId[y]]
      /\ UNCHANGED known

EndStore(p) ==
  /\ storing[p] # NoStore /\ storing[p].todo = <<>>
  /\ storing' = [storing EXCEPT ![p] = NoStore]
  /\ UNCHANGED <<known, inUse, keyId>>

(* The program stops. *)
Stop(p) ==
  /\ storing[p].todo # <<>>
  /\ storing' = [storing EXCEPT ![p] = NoStore]
  /\ UNCHANGED <<known, inUse, keyId>>

(* new_key() *)
AddKey(k) ==
  /\ k \in Key \ known
  /\ known' = known \cup {k}
  /\ UNCHANGED <<inUse, keyId, storing>>

StoreInit ==
  /\ known \in SUBSET Key
  /\ inUse = {} /\ keyId = [x \in {} |-> NoKey]
  /\ storing = [p \in Program |-> NoStore]

StoreNext ==
  \/ \E p \in Program : \/ Store(p)
                        \/ \E x \in 1..NRows : Utxo(p, x)
                        \/ Look(p) \/ Write(p) \/ EndStore(p) \/ Stop(p)
  \/ \E k \in Key : AddKey(k)

StoreSpec == StoreInit /\ [][StoreNext]_storage

-----------------------------------------------------------------------------
(* A store() that returns has left a row of every input and output, linked  *)
(* to its key if the wallet had it, and the key in use: whatever another    *)
(* program wrote meanwhile and wherever earlier calls stopped.              *)
StoreComplete ==
  \A p \in Program :
    storing[p].kind = "store" /\ storing[p].todo = <<>> =>
      /\ Stored = Place
      /\ \A x \in 1..NRows : AddressAt[x] \in storing[p].had => keyId[x] = AddressAt[x] /\ AddressAt[x] \in inUse

(* No input or output is stored without its transaction, nor for a key that *)
(* counts as unused: its address would be handed out again.                 *)
RowsTogether ==
  /\ Stored # {} => 0 \in Stored
  /\ \A x \in Stored : keyId[x] # NoKey => keyId[x] \in inUse

(* What counts as stored is stored, and as a whole: see both parts.         *)
StoredWhole == StoreComplete /\ RowsTogether
=============================================================================
