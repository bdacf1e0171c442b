---------------------------- MODULE WalletLedger ----------------------------
(***************************************************************************)
(* The transaction tables of one bitcoinlib wallet, the calls that change  *)
(* them (wallets.py), and the blockchain they follow.                      *)
(*                                                                         *)
(* A coin is a transaction output that pays an address of the wallet;      *)
(* outputs to foreign addresses never enter a query made here.  A balance  *)
(* is the set of coins it adds up.  A key is its DbKey.id: addresslist()   *)
(* returns the addresses in that order.                                    *)
(***************************************************************************)
EXTENDS Naturals, FiniteSets

CONSTANTS
  Tx,          \* transaction ids
  NoTx,        \* a NULL latest_txid, or no call to send() in progress
  Coin,        \* outputs of these transactions that pay the wallet
  NKeys,       \* number of keys of the wallet
  Creator,     \* [Coin -> Tx]: the transaction an output belongs to
  Owner,       \* [Coin -> Key]: the key whose address it pays
  Spends,      \* [Tx -> SUBSET Coin]: the wallet's coins a transaction spends
  Ancestor,    \* [Tx -> SUBSET Tx]: the transactions it descends from
  Dust,        \* the coins below the dust limit of the network
  Bumps,       \* {<<t, u>>}: u is what bumpfee() makes of t
  Shared,      \* does a second device spend with the same seed?
  SingleKey,   \* is transactions_update() also called for one key only?
  Deletes,     \* does the user delete transactions?
  Aborts,      \* may a provider fail in the middle of an update?
  Lag          \* may a provider not know yet what is in the mempool?

Key == 1..NKeys

ASSUME LedgerAssumption ==
  /\ NoTx \notin Tx
  /\ NKeys \in Nat
  /\ Creator \in [Coin -> Tx]
  /\ Owner \in [Coin -> Key]
  /\ Spends \in [Tx -> SUBSET Coin]
  /\ Ancestor \in [Tx -> SUBSET Tx]
  /\ \A t \in Tx : t \notin Ancestor[t]
  /\ \A t \in Tx : \A c \in Spends[t] :
       {Creator[c]} \cup Ancestor[Creator[c]] \subseteq Ancestor[t]
  /\ Dust \subseteq Coin
  /\ Bumps \subseteq Tx \X Tx
  /\ \A b \in Bumps : Spends[b[1]] \subseteq Spends[b[2]] /\ b[1] # b[2]
  /\ {Shared, SingleKey, Deletes, Aborts, Lag} \subseteq BOOLEAN

VARIABLES
  tip,       \* number of blocks; one transaction of the wallet in each
  height,    \* [Tx -> Nat]: the block of a transaction, 0 if in none
  mempool,   \* unconfirmed transactions of the network
  row,       \* transactions with a DbTransaction row
  full,      \* those whose DbTransactionInput rows are stored
  conf,      \* rows with confirmations > 0
  output,    \* coins with a DbTransactionOutput row
  spent,     \* those with spent set
  used,      \* keys with used set
  latest,    \* [Key -> Tx \cup {NoTx}]: DbKey.latest_txid
  keyBal,    \* [Key -> SUBSET Coin]: DbKey.balance
  accBal,    \* Wallet._balances of the one account
  object,    \* [Tx -> {"none", "new", "pushed"}]: WalletTransaction objects
  sending    \* transaction accepted by a provider and not stored yet

chain  == <<tip, height, mempool>>
db     == <<row, full, conf, output, spent, used, latest, keyBal>>
memory == <<accBal, object, sending>>
vars   == <<chain, db, memory>>

-----------------------------------------------------------------------------
(* The network, as the providers of services/ report it.                   *)

Mined == {t \in Tx : height[t] > 0}
Live  == Mined \cup mempool

Outputs(T)        == {c \in Coin : Creator[c] \in T}
SpentBy(T)        == {c \in Coin : \E t \in T : c \in Spends[t]}
Touches(t, k)     == \E c \in Coin : Owner[c] = k /\ (Creator[c] = t \/ c \in Spends[t])
Conflict(t, u)    == t # u /\ Spends[t] \cap Spends[u] # {}
ParentsIn(t, S)   == \A c \in Spends[t] : Creator[c] \in S

(* What t leaves in the mempool: nothing that conflicts with it and nothing *)
(* that descends from a transaction it removes.                             *)
Besides(t) ==
  {u \in mempool \ {t} : \A v \in ({u} \cup Ancestor[u]) \cap mempool : ~Conflict(t, v)}

(* Someone else broadcasts a transaction that pays this wallet or, from a   *)
(* second device with the same seed, spends from it.                        *)
Announce(t) ==
  /\ Shared \/ Spends[t] = {}
  /\ t \notin Live \cup full
  /\ ParentsIn(t, Live)
  /\ \A u \in Live : ~Conflict(t, u)
  /\ mempool' = mempool \cup {t}
  /\ UNCHANGED <<tip, height, db, memory>>

(* The next block confirms t. *)
Mine(t) ==
  /\ t \in mempool \ Mined
  /\ ParentsIn(t, Mined)
  /\ tip' = tip + 1
  /\ height' = [height EXCEPT ![t] = tip + 1]
  /\ mempool' = Besides(t)
  /\ UNCHANGED <<db, memory>>

(* What a provider knows when it is asked. *)
View(V) == IF Lag THEN Mined \subseteq V /\ V \subseteq Live ELSE V = Live

-----------------------------------------------------------------------------
(* Steps shared by the calls of the wallet.                                 *)

(* Slip: the spent column is not looked at. *)
CountedAll == {c \in output : c \notin Dust}

(* The outputs _balance_update() adds up. *)
Counted == {c \in output \ spent : c \notin Dust}

(* _balance_update(): key balances of the keys K, and the balance of the    *)
(* account unless one key was asked for; it leaves an account without       *)
(* unspent outputs as it was.                                               *)
BalanceUpdate(K) ==
  /\ keyBal' = [k \in Key |-> IF k \in K THEN {c \in Counted' : Owner[c] = k}
                                         ELSE keyBal[k]]
  /\ accBal' = IF K = Key /\ Counted' # {} THEN Counted' ELSE accBal

(* Slip: nothing is marked after storing. *)
MarkedNone(T, out) == {}

(* Slip: outputs are marked that are not stored. *)
MarkedUnstored(T, out) == SpentBy(T)

(* Of the outputs in out, those that an input of T refers to. *)
Marked(T, out) == SpentBy(T) \cap out

(* Slip: only keys of inputs become used. *)
UsedByInputs(T) == {Owner[c] : c \in SpentBy(T)}

(* The keys whose address is in an input or an output of T. *)
UsedBy(T) == {k \in Key : \E t \in T : Touches(t, k)}

(* WalletTransaction.store() of every transaction in T, whose objects say   *)
(* of some outputs that they are spent and of some that they are not (None  *)
(* of the others); then the outputs that T spends are marked.               *)
Store(T, saysSpent, saysUnspent) ==
  /\ row' = row \cup T
  /\ full' = full \cup T
  /\ conf' = conf \cup (T \cap Mined)
  /\ output' = output \cup Outputs(T)
  /\ spent' = ((spent \ (Outputs(T) \cap saysUnspent))
                 \cup (Outputs(T) \cap saysSpent)
                 \cup Marked(T, output'))
  /\ used' = used \cup UsedBy(T)

(* WalletTransaction.delete() of the rows in D. *)
DeleteRows(D) ==
  /\ row' = row \ D
  /\ full' = full \ D
  /\ conf' = conf \ D
  /\ output' = output \ Outputs(D)
  /\ spent' = (spent \ Outputs(D)) \ SpentBy(D \cap full)
  /\ used' = {k \in used : latest[k] \notin D}
  /\ latest' = [k \in Key |-> IF latest[k] \in D THEN NoTx ELSE latest[k]]
  /\ UNCHANGED keyBal

-----------------------------------------------------------------------------
(* Calls that ask the providers.                                            *)

(* Slip: of the confirmed transactions only the newest is returned. *)
AnswerNewest(k, V) ==
  {t \in V : Touches(t, k) /\ \A u \in V : Touches(u, k) /\ t \in Mined => height[u] <= height[t]}

(* Slip: the block after that of latest_txid is left out. *)
AnswerBlockLater(k, V) ==
  {t \in V : /\ Touches(t, k)
             /\ latest[k] = NoTx \/ t \notin Mined \/ height[t] > height[latest[k]] + 1}

(* Service.gettransactions(address, after_txid=latest_txid). *)
Answer(k, V) ==
  {t \in V : /\ Touches(t, k)
             /\ latest[k] = NoTx \/ t \notin Mined \/ height[t] > height[latest[k]]}

(* When key k was asked for, t is the last transaction of the list          *)
(* collected so far, and it is confirmed.                                   *)
LastOfList(t, k, K, V) ==
  \E j \in K :
    /\ j <= k
    /\ \A i \in K : (j < i /\ i <= k) => Answer(i, V) = {}
    /\ t \in Answer(j, V)
    /\ Answer(j, V) \subseteq Mined
    /\ \A u \in Answer(j, V) : height[u] <= height[t]

(* latest_txid of key k after transactions_update() asked for its address.  *)
Latest(k, K, V) ==
  IF \E t \in Tx : LastOfList(t, k, K, V)
  THEN CHOOSE t \in Tx : LastOfList(t, k, K, V)
  ELSE latest[k]

TransactionsUpdate(K) ==
  /\ sending = NoTx
  /\ K # {}
  /\ \E V \in SUBSET Live :
       /\ View(V)
       /\ LET own(c) == Answer(Owner[c], V)
              told   == {c \in Coin : Owner[c] \in K /\ Creator[c] \in own(c)}
              known  == {c \in told : \E t \in own(c) : c \in Spends[t]}
          IN  Store(UNION {Answer(k, V) : k \in K}, known, told \ known)
       /\ latest' = [k \in Key |-> IF k \in K THEN Latest(k, K, V) ELSE latest[k]]
  /\ BalanceUpdate(K)
  /\ UNCHANGED <<chain, object, sending>>

(* The providers fail when asked for key k: the latest_txid of the keys     *)
(* before it are committed, nothing that was downloaded is stored.          *)
TransactionsUpdateFails(k) ==
  /\ Aborts
  /\ sending = NoTx
  /\ \E V \in SUBSET Live :
       /\ View(V)
       /\ latest' = [j \in Key |-> IF j < k THEN Latest(j, Key, V) ELSE latest[j]]
  /\ UNCHANGED <<chain, row, full, conf, output, spent, used, keyBal, memory>>

(* transactions_update_by_txids(), as scan() calls it for every row without *)
(* confirmations; some providers report which outputs are spent.            *)
UpdateByTxid(t) ==
  /\ sending = NoTx
  /\ t \in row \ conf
  /\ \E V \in SUBSET Live, tells \in BOOLEAN :
       /\ View(V)
       /\ t \in V
       /\ Store({t}, IF tells THEN SpentBy(V) ELSE {}, IF tells THEN Coin \ SpentBy(V) ELSE {})
  /\ UNCHANGED <<chain, latest, keyBal, memory>>

(* Slip: a known output that is reported again is left as it is. *)
SpentAfterOld(U, rescan) ==
  (IF rescan THEN output ELSE spent) \cup (U \cap SpentBy(full))

(* The spent column when the outputs U were reported as unspent.            *)
SpentAfter(U, rescan) ==
  ((IF rescan THEN output ELSE spent) \ U) \cup (U \cap SpentBy(full))

(* utxos_update(): with rescan every known output counts as spent until it  *)
(* is reported again; without, only newer ones are asked for.               *)
UtxosUpdate(K, rescan) ==
  /\ sending = NoTx
  /\ rescan => K = Key
  /\ \E V \in SUBSET Live : \E U \in SUBSET Outputs(V) :
       LET unspent == {c \in Outputs(V) \ SpentBy(V) : Owner[c] \in K}
       IN  /\ View(V)
           /\ IF rescan THEN U = unspent ELSE U \subseteq unspent
           /\ row' = row \cup {Creator[c] : c \in U}
           /\ conf' = conf \cup {t \in Mined : \E c \in U : Creator[c] = t /\ (c \in output \/ t \notin row)}
           /\ output' = output \cup U
           /\ spent' = SpentAfter(U, rescan)
           /\ used' = used \cup {Owner[c] : c \in U}
  /\ BalanceUpdate(K)
  /\ UNCHANGED <<chain, full, latest, object, sending>>

(* The providers fail after a rescan has marked everything as spent.        *)
UtxosUpdateFails ==
  /\ Aborts
  /\ sending = NoTx
  /\ spent' = output
  /\ UNCHANGED <<chain, row, full, conf, output, used, latest, keyBal, memory>>

-----------------------------------------------------------------------------
(* Spending.                                                                *)

(* transaction_create() with inputs from select_inputs() (min_confirms=0).  *)
Create(t) ==
  /\ sending = NoTx
  /\ \A b \in Bumps : b[2] # t
  /\ object[t] = "none"
  /\ Spends[t] # {}
  /\ Spends[t] \subseteq Counted
  /\ object' = [object EXCEPT ![t] = "new"]
  /\ UNCHANGED <<chain, db, accBal, sending>>

(* Wallet.transaction(): an object read back from the database. *)
Load(t) ==
  /\ sending = NoTx
  /\ object[t] = "none"
  /\ t \in full
  /\ Spends[t] # {}
  /\ object' = [object EXCEPT ![t] = "new"]
  /\ UNCHANGED <<chain, db, accBal, sending>>

(* WalletTransaction.send(), up to the answer of sendrawtransaction().  A   *)
(* provider accepts a replacement only of the transaction it bumps.         *)
Broadcast(t) ==
  /\ sending = NoTx
  /\ object[t] # "none"
  /\ t \notin Live
  /\ ParentsIn(t, Live)
  /\ \A u \in Live : Conflict(t, u) => u \notin Mined /\ <<u, t>> \in Bumps
  /\ mempool' = Besides(t) \cup {t}
  /\ sending' = t
  /\ UNCHANGED <<tip, height, db, accBal, object>>

(* The rest of send(): store, mark the inputs, update the balance.          *)
FinishSend ==
  /\ sending # NoTx
  /\ Store({sending}, {}, Coin)
  /\ BalanceUpdate(Key)
  /\ object' = [object EXCEPT ![sending] = "pushed"]
  /\ sending' = NoTx
  /\ UNCHANGED <<chain, latest>>

(* The answer of the provider is lost: send() reports an error although the *)
(* network has the transaction, and nothing is stored.                      *)
SendFails ==
  /\ Aborts
  /\ sending # NoTx
  /\ sending' = NoTx
  /\ UNCHANGED <<chain, db, accBal, object>>

(* WalletTransaction.bumpfee(broadcast=False) turns the object into u; a    *)
(* pushed transaction is deleted, the flag stays set.  If its row is gone   *)
(* the call ends with an error, and the object has been changed all the     *)
(* same.                                                                    *)
BumpFee(t, u) ==
  /\ sending = NoTx
  /\ <<t, u>> \in Bumps
  /\ object[t] # "none"
  /\ object[u] = "none"
  /\ Spends[u] \ Spends[t] \subseteq output \ spent
  /\ object' = [object EXCEPT ![t] = "none", ![u] = object[t]]
  /\ IF object[t] = "pushed" /\ t \in row THEN DeleteRows({t}) ELSE UNCHANGED db
  /\ UNCHANGED <<chain, accBal, sending>>

-----------------------------------------------------------------------------
(* Housekeeping.                                                            *)

DeleteTransaction(t) ==
  /\ Deletes
  /\ sending = NoTx
  /\ t \in row
  /\ DeleteRows({t})
  /\ UNCHANGED <<chain, memory>>

RemoveUnconfirmed ==
  /\ Deletes
  /\ sending = NoTx
  /\ row \ conf # {}
  /\ DeleteRows(row \ conf)
  /\ UNCHANGED <<chain, memory>>

(* Wallet.balance() *)
ReadBalance ==
  /\ sending = NoTx
  /\ UNCHANGED <<chain, row, full, conf, output, spent, used, latest, object, sending>>
  /\ BalanceUpdate(Key)

(* The program ends, in the middle of send() or not, and starts again.      *)
Restart ==
  /\ object' = [t \in Tx |-> "none"]
  /\ sending' = NoTx
  /\ accBal' = {}
  /\ UNCHANGED <<chain, db>>

-----------------------------------------------------------------------------
Init ==
  /\ tip = 0
  /\ height = [t \in Tx |-> 0]
  /\ mempool = {}
  /\ row = {} /\ full = {} /\ conf = {} /\ output = {} /\ spent = {} /\ used = {}
  /\ latest = [k \in Key |-> NoTx]
  /\ keyBal = [k \in Key |-> {}]
  /\ accBal = {}
  /\ object = [t \in Tx |-> "none"]
  /\ sending = NoTx

Network == \E t \in Tx : Announce(t) \/ Mine(t)

Sync ==
  \/ TransactionsUpdate(Key)
  \/ SingleKey /\ \E k \in Key : TransactionsUpdate({k})
  \/ \E k \in Key : TransactionsUpdateFails(k)
  \/ \E t \in Tx : UpdateByTxid(t)
  \/ \E rescan \in BOOLEAN : UtxosUpdate(Key, rescan)
  \/ SingleKey /\ \E k \in Key : UtxosUpdate({k}, FALSE)
  \/ UtxosUpdateFails

Spend ==
  \/ \E t \in Tx : Create(t) \/ Load(t) \/ Broadcast(t)
  \/ \E t, u \in Tx : BumpFee(t, u)
  \/ FinishSend
  \/ SendFails

Housekeeping ==
  \/ \E t \in Tx : DeleteTransaction(t)
  \/ RemoveUnconfirmed
  \/ ReadBalance
  \/ Restart

Next == Network \/ Sync \/ Spend \/ Housekeeping

Spec == Init /\ [][Next]_vars

(* The user keeps calling transactions_update() or scan(), and a call of    *)
(* send() whose program is not stopped returns.                             *)
Fairness == WF_vars(TransactionsUpdate(Key)) /\ WF_vars(FinishSend)

FairSpec == Spec /\ Fairness

(* The user keeps calling utxos_update() with rescan_all, its default; a    *)
(* call now and then ends without an error of the providers.                *)
RescanFairness == WF_vars(UtxosUpdate(Key, TRUE)) /\ WF_vars(FinishSend)

RescanSpec == Spec /\ RescanFairness

-----------------------------------------------------------------------------
(* The types of the variables: every row of a child table has its parent    *)
(* row, what is spent is stored, what is in no block has height 0.          *)
TypeOK ==
  /\ tip \in Nat
  /\ height \in [Tx -> 0..tip]
  /\ mempool \subseteq Tx
  /\ row \subseteq Tx
  /\ full \subseteq row
  /\ conf \subseteq row
  /\ output \subseteq Coin
  /\ spent \subseteq output
  /\ \A c \in output : Creator[c] \in row
  /\ used \subseteq Key
  /\ latest \in [Key -> Tx \cup {NoTx}]
  /\ keyBal \in [Key -> SUBSET Coin]
  /\ accBal \subseteq Coin
  /\ object \in [Tx -> {"none", "new", "pushed"}]
  /\ sending \in Tx \cup {NoTx}

(* No double spend is prepared: an output that a stored transaction of the  *)
(* network spends is never offered as unspent (the queries of               *)
(* select_inputs(), utxos() and _balance_update() read the spent column).   *)
SpentWhenStored ==
  \A t \in (full \cap Live) \ {sending} : Spends[t] \cap output \subseteq spent

(* What the network accepts spends known outputs once, in block order.      *)
ChainOrder ==
  /\ \A t \in Live : ParentsIn(t, Live)
  /\ \A t \in Mined : ParentsIn(t, Mined) /\ \A c \in Spends[t] : height[Creator[c]] < height[t]
  /\ \A t, u \in Live : ~Conflict(t, u)

(* The network knows every row, and the wallet every output that a live     *)
(* transaction or one being built spends; send() stores a new row.          *)
Followed ==
  /\ row \subseteq Live
  /\ \A t \in Live : Spends[t] \subseteq output
  /\ \A t \in Tx : object[t] # "none" => Spends[t] \subseteq output
  /\ sending # NoTx => sending \in Live \ row

(* Why SpentWhenStored holds when only this wallet spends, the providers    *)
(* know the mempool and nothing is deleted.                                 *)
OwnWalletInv == ChainOrder /\ Followed /\ SpentWhenStored

(* DbKey.latest_txid is a promise that nothing older has to be asked for    *)
(* again: every confirmed transaction of a key up to it is stored.          *)
NothingSkipped ==
  \A k \in Key : latest[k] # NoTx =>
    \A t \in Mined : Touches(t, k) /\ height[t] <= height[latest[k]] => t \in full

(* A key with a stored output is never handed out again as unused.          *)
StoredKeysUsed == \A c \in output : Owner[c] \in used

(* DbKey.balance adds up the unspent outputs of the key.                    *)
KeyBalanceExact == \A k \in Key : keyBal[k] = {c \in Counted : Owner[c] = k}

(* Wallet.balance() returns the total of the unspent outputs.               *)
BalanceExact == [][ReadBalance => accBal' = Counted]_vars

(* What the wallet creates conflicts with nothing it has stored.            *)
CreateAvoidsStored ==
  [][\A t \in Tx : Create(t) => \A u \in full \cap Live : ~Conflict(t, u)]_vars

(* What the user relies on: see SpendOnce.  The calls of this module keep   *)
(* it for a wallet that is the only one to spend and deletes nothing.       *)
Promise ==
  INSTANCE SpendOnce WITH
    stored  <- full,
    offered <- output \ spent,
    drafts  <- {t \in Tx : object[t] # "none"}

SpendsOnce == Promise!Spec

(* latest_txid is never a transaction that could still leave the mempool.   *)
LatestIsMined == \A k \in Key : latest[k] # NoTx => latest[k] \in Mined

(* Two transactions that spend the same output are not stored both.         *)
NoStoredConflict == \A t, u \in full : ~Conflict(t, u)

(* Deleting a transaction does not release an output that another stored    *)
(* transaction spends.                                                      *)
DeleteReleasesFree ==
  [][\A t \in Tx : DeleteTransaction(t) =>
       \A u \in full' : Spends[u] \cap spent \cap output' \subseteq spent']_vars

(* A confirmed transaction of the wallet is stored in the end.              *)
ConfirmedIsStored ==
  \A t \in Tx : (t \in Mined /\ \E k \in Key : Touches(t, k)) ~> t \in full

(* No funds stay hidden: a confirmed output that neither the network nor a  *)
(* stored transaction spends does not count as spent for ever, although a   *)
(* rescan that fails marks all outputs as spent, and whatever is deleted,   *)
(* replaced, late or interrupted.                                           *)
FundsReturn ==
  LET free(c) == c \in output \cap Outputs(Mined) /\ c \notin SpentBy(Live \cup full)
  IN  \A c \in Coin : (free(c) /\ c \in spent) ~> (~free(c) \/ c \notin spent)

(* After a crash in send() the inputs that were broadcast do not stay       *)
(* available: known outputs that the network spends end up as spent.        *)
SpentInTheEnd ==
  \A t \in Tx : \A c \in Spends[t] :
    (t \in Live /\ c \in output) ~> (c \in spent \/ t \notin Live)

=============================================================================
