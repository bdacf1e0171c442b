------------------------ MODULE WalletLedger_proofs ------------------------
(* Theorems about WalletLedger, for every wallet and every set of           *)
(* transactions.                                                            *)
EXTENDS WalletLedger, TLAPS

(* Storing transactions keeps the tables well-formed: store() inserts the   *)
(* parent row of every output and marks only outputs it has.                *)
LEMMA StoreType ==
  ASSUME NEW T \in SUBSET Tx, NEW A, NEW B, TypeOK, Store(T, A, B)
  PROVE  /\ row' \subseteq Tx /\ full' \subseteq row' /\ conf' \subseteq row'
         /\ output' \subseteq Coin /\ spent' \subseteq output'
         /\ \A c \in output' : Creator[c] \in row'
         /\ used' \subseteq Key
  BY DEF TypeOK, Store, Outputs, Marked, UsedBy

(* Deleting rows keeps the tables well-formed.                              *)
LEMMA DeleteType ==
  ASSUME NEW D \in SUBSET Tx, TypeOK, DeleteRows(D)
  PROVE  /\ row' \subseteq Tx /\ full' \subseteq row' /\ conf' \subseteq row'
         /\ output' \subseteq Coin /\ spent' \subseteq output'
         /\ \A c \in output' : Creator[c] \in row'
         /\ used' \subseteq Key
         /\ latest' \in [Key -> Tx \cup {NoTx}]
         /\ keyBal' = keyBal
  BY DEF TypeOK, DeleteRows, Outputs

(* A balance only counts stored outputs.                                    *)
LEMMA BalanceType ==
  ASSUME NEW K, keyBal \in [Key -> SUBSET Coin], accBal \subseteq Coin,
         output' \subseteq Coin, BalanceUpdate(K)
  PROVE  keyBal' \in [Key -> SUBSET Coin] /\ accBal' \subseteq Coin
  <1>1. Counted' \subseteq Coin
    BY DEF Counted
  <1> QED
    BY <1>1 DEF BalanceUpdate

(* latest_txid after asking for a key: what it was, or a transaction of a   *)
(* list that is confirmed as a whole.                                       *)
LEMMA LatestChoice ==
  ASSUME NEW k, NEW K, NEW V
  PROVE  Latest(k, K, V) = latest[k] \/ Latest(k, K, V) \in Mined
  <1>1. CASE \E t \in Tx : LastOfList(t, k, K, V)
    <2>1. LastOfList(CHOOSE t \in Tx : LastOfList(t, k, K, V), k, K, V)
      BY <1>1, Zenon
    <2>2. Latest(k, K, V) = CHOOSE t \in Tx : LastOfList(t, k, K, V)
      BY <1>1, Zenon DEF Latest
    <2>3. LastOfList(Latest(k, K, V), k, K, V)
      BY <2>1, <2>2, Zenon
    <2> QED
      BY <2>3, Zenon DEF LastOfList
  <1>2. CASE ~ \E t \in Tx : LastOfList(t, k, K, V)
    BY <1>2, Zenon DEF Latest
  <1> QED
    BY <1>1, <1>2

-----------------------------------------------------------------------------
LEMMA TypeInit == Init => TypeOK
  BY LedgerAssumption DEF Init, TypeOK, Key

(* A step keeps the types; one part per call of the wallet.                 *)
LEMMA TypeNetwork == TypeOK /\ Network => TypeOK'
  <1> SUFFICES ASSUME TypeOK, NEW t \in Tx, Announce(t) \/ Mine(t) PROVE TypeOK'
    BY DEF Network
  <1>1. CASE Announce(t)
    BY <1>1 DEF TypeOK, Announce, db, memory
  <1>2. CASE Mine(t)
    <2>1. tip' \in Nat /\ height' \in [Tx -> 0..tip']
      BY <1>2 DEF TypeOK, Mine
    <2>2. mempool' \subseteq Tx
      BY <1>2 DEF TypeOK, Mine, Besides
    <2> QED
      BY <1>2, <2>1, <2>2 DEF TypeOK, Mine, db, memory
  <1> QED
    BY <1>1, <1>2

LEMMA TypeTransactionsUpdate ==
  ASSUME TypeOK, NEW K \in SUBSET Key, TransactionsUpdate(K)
  PROVE  TypeOK'
  <1>1. PICK V \in SUBSET Live : \E A, B :
           /\ Store(UNION {Answer(k, V) : k \in K}, A, B)
           /\ latest' = [k \in Key |-> IF k \in K THEN Latest(k, K, V) ELSE latest[k]]
    BY Zenon DEF TransactionsUpdate
  <1>2. PICK A, B : Store(UNION {Answer(k, V) : k \in K}, A, B)
    BY <1>1
  <1>3. UNION {Answer(k, V) : k \in K} \in SUBSET Tx
    BY DEF Answer, Live, Mined, TypeOK
  <1>4. latest' \in [Key -> Tx \cup {NoTx}]
    <2>1. \A k \in Key : Latest(k, K, V) = latest[k] \/ Latest(k, K, V) \in Mined
      BY LatestChoice
    <2> QED
      BY <1>1, <2>1 DEF TypeOK, Mined
  <1>5. /\ row' \subseteq Tx /\ full' \subseteq row' /\ conf' \subseteq row'
        /\ output' \subseteq Coin /\ spent' \subseteq output'
        /\ \A c \in output' : Creator[c] \in row'
        /\ used' \subseteq Key
    BY <1>2, <1>3, StoreType, Zenon
  <1>6. keyBal' \in [Key -> SUBSET Coin] /\ accBal' \subseteq Coin
    BY <1>5, BalanceType, Zenon DEF TransactionsUpdate, TypeOK
  <1> QED
    BY <1>4, <1>5, <1>6 DEF TypeOK, TransactionsUpdate, chain

LEMMA TypeTransactionsUpdateFails ==
  ASSUME TypeOK, NEW k \in Key, TransactionsUpdateFails(k)
  PROVE  TypeOK'
  <1>1. PICK V \in SUBSET Live :
           latest' = [j \in Key |-> IF j < k THEN Latest(j, Key, V) ELSE latest[j]]
    BY DEF TransactionsUpdateFails
  <1>2. \A j \in Key : Latest(j, Key, V) = latest[j] \/ Latest(j, Key, V) \in Mined
    BY LatestChoice
  <1>3. latest' \in [Key -> Tx \cup {NoTx}]
    BY <1>1, <1>2 DEF TypeOK, Mined
  <1> QED
    BY <1>3 DEF TypeOK, TransactionsUpdateFails, chain, memory

LEMMA TypeUpdateByTxid ==
  ASSUME TypeOK, NEW t \in Tx, UpdateByTxid(t)
  PROVE  TypeOK'
  <1>1. PICK A, B : Store({t}, A, B)
    BY DEF UpdateByTxid
  <1>2. {t} \in SUBSET Tx
    OBVIOUS
  <1>3. /\ row' \subseteq Tx /\ full' \subseteq row' /\ conf' \subseteq row'
        /\ output' \subseteq Coin /\ spent' \subseteq output'
        /\ \A c \in output' : Creator[c] \in row'
        /\ used' \subseteq Key
    BY <1>1, <1>2, StoreType, Zenon
  <1> QED
    BY <1>3 DEF TypeOK, UpdateByTxid, chain, memory

LEMMA TypeUtxosUpdate ==
  ASSUME TypeOK, NEW K \in SUBSET Key, NEW rescan \in BOOLEAN, UtxosUpdate(K, rescan)
  PROVE  TypeOK'
  <1>1. PICK U :
           /\ U \subseteq Coin
           /\ row' = row \cup {Creator[c] : c \in U}
           /\ conf' = conf \cup {t \in Mined : \E c \in U : Creator[c] = t /\ (c \in output \/ t \notin row)}
           /\ output' = output \cup U
           /\ spent' = ((IF rescan THEN output ELSE spent) \ U) \cup (U \cap SpentBy(full))
           /\ used' = used \cup {Owner[c] : c \in U}
    BY Zenon DEF UtxosUpdate, SpentAfter, Outputs
  <1>2. U \subseteq Coin /\ {Creator[c] : c \in U} \subseteq Tx /\ {Owner[c] : c \in U} \subseteq Key
    BY <1>1, LedgerAssumption
  <1>3. /\ row' \subseteq Tx /\ full \subseteq row' /\ conf' \subseteq row'
        /\ output' \subseteq Coin /\ \A c \in output' : Creator[c] \in row'
        /\ used' \subseteq Key
    BY <1>1, <1>2 DEF TypeOK
  <1>4. spent' \subseteq output'
    BY <1>1 DEF TypeOK
  <1>5. keyBal' \in [Key -> SUBSET Coin] /\ accBal' \subseteq Coin
    BY <1>3, BalanceType, Zenon DEF UtxosUpdate, TypeOK
  <1> QED
    BY <1>3, <1>4, <1>5 DEF TypeOK, UtxosUpdate, chain

LEMMA TypeFinishSend ==
  ASSUME TypeOK, FinishSend
  PROVE  TypeOK'
  <1>1. Store({sending}, {}, Coin) /\ {sending} \in SUBSET Tx
    BY DEF FinishSend, TypeOK
  <1>2. /\ row' \subseteq Tx /\ full' \subseteq row' /\ conf' \subseteq row'
        /\ output' \subseteq Coin /\ spent' \subseteq output'
        /\ \A c \in output' : Creator[c] \in row'
        /\ used' \subseteq Key
    BY <1>1, StoreType, Zenon
  <1>3. keyBal' \in [Key -> SUBSET Coin] /\ accBal' \subseteq Coin
    BY <1>2, BalanceType, Zenon DEF FinishSend, TypeOK
  <1> QED
    BY <1>2, <1>3 DEF TypeOK, FinishSend, chain

LEMMA TypeBumpFee ==
  ASSUME TypeOK, NEW t \in Tx, NEW u \in Tx, BumpFee(t, u)
  PROVE  TypeOK'
  <1>1. object' \in [Tx -> {"none", "new", "pushed"}]
    BY DEF TypeOK, BumpFee
  <1>2. CASE object[t] = "pushed" /\ t \in row
    <2>1. DeleteRows({t}) /\ {t} \in SUBSET Tx
      BY <1>2 DEF BumpFee
    <2> QED
      BY <1>1, <2>1, DeleteType DEF TypeOK, BumpFee, chain
  <1>3. CASE ~(object[t] = "pushed" /\ t \in row)
    BY <1>1, <1>3 DEF TypeOK, BumpFee, chain, db
  <1> QED
    BY <1>2, <1>3

LEMMA TypeSpend == TypeOK /\ Spend => TypeOK'
  <1> SUFFICES ASSUME TypeOK, Spend PROVE TypeOK'
    OBVIOUS
  <1>1. ASSUME NEW t \in Tx, Create(t) \/ Load(t) PROVE TypeOK'
    BY <1>1 DEF TypeOK, Create, Load, chain, db
  <1>2. ASSUME NEW t \in Tx, Broadcast(t) PROVE TypeOK'
    BY <1>2 DEF TypeOK, Broadcast, Besides, db
  <1>3. CASE SendFails
    BY <1>3 DEF TypeOK, SendFails, chain, db
  <1> QED
    BY <1>1, <1>2, <1>3, TypeBumpFee, TypeFinishSend DEF Spend

LEMMA TypeHousekeeping == TypeOK /\ Housekeeping => TypeOK'
  <1> SUFFICES ASSUME TypeOK, Housekeeping PROVE TypeOK'
    OBVIOUS
  <1>1. ASSUME NEW t \in Tx, DeleteTransaction(t) PROVE TypeOK'
    <2>1. DeleteRows({t}) /\ {t} \in SUBSET Tx
      BY <1>1 DEF DeleteTransaction
    <2> QED
      BY <1>1, <2>1, DeleteType DEF TypeOK, DeleteTransaction, chain, memory
  <1>2. CASE RemoveUnconfirmed
    <2>1. DeleteRows(row \ conf) /\ row \ conf \in SUBSET Tx
      BY <1>2 DEF RemoveUnconfirmed, TypeOK
    <2> QED
      BY <1>2, <2>1, DeleteType DEF TypeOK, RemoveUnconfirmed, chain, memory
  <1>3. CASE ReadBalance
    <2>1. keyBal' \in [Key -> SUBSET Coin] /\ accBal' \subseteq Coin
      BY <1>3, BalanceType DEF ReadBalance, TypeOK
    <2> QED
      BY <1>3, <2>1 DEF TypeOK, ReadBalance, chain
  <1>4. CASE Restart
    BY <1>4 DEF TypeOK, Restart, chain, db
  <1> QED
    BY <1>1, <1>2, <1>3, <1>4 DEF Housekeeping

LEMMA TypeSync == TypeOK /\ Sync => TypeOK'
  <1> SUFFICES ASSUME TypeOK, Sync PROVE TypeOK'
    OBVIOUS
  <1>1. CASE UtxosUpdateFails
    BY <1>1 DEF TypeOK, UtxosUpdateFails, chain, memory
  <1>2. ASSUME NEW k \in Key PROVE {k} \in SUBSET Key /\ Key \in SUBSET Key
    OBVIOUS
  <1> QED
    BY <1>1, <1>2, TypeTransactionsUpdate, TypeTransactionsUpdateFails,
       TypeUpdateByTxid, TypeUtxosUpdate DEF Sync

LEMMA TypeStep == TypeOK /\ [Next]_vars => TypeOK'
  <1>1. TypeOK /\ UNCHANGED vars => TypeOK'
    BY DEF TypeOK, vars, chain, db, memory
  <1> QED
    BY <1>1, TypeNetwork, TypeSync, TypeSpend, TypeHousekeeping DEF Next

(* The tables stay well-formed under every interleaving of the calls, with  *)
(* failing and lagging providers, deletions, crashes and a second device.   *)
THEOREM TypeCorrect == Spec => []TypeOK
  BY TypeInit, TypeStep, PTL DEF Spec

-----------------------------------------------------------------------------
(* No step takes a transaction out of the blockchain.                       *)
LEMMA MinedStays ==
  ASSUME TypeOK, [Next]_vars
  PROVE  Mined \subseteq Mined'
  <1>1. UNCHANGED height \/ \E t \in Tx : Mine(t)
    BY DEF Next, vars, chain, Network, Sync, Spend, Housekeeping, Announce,
           TransactionsUpdate, TransactionsUpdateFails, UpdateByTxid, UtxosUpdate,
           UtxosUpdateFails, Create, Load, Broadcast, BumpFee, FinishSend, SendFails,
           DeleteTransaction, RemoveUnconfirmed, ReadBalance, Restart
  <1> QED
    BY <1>1 DEF Mined, Mine, TypeOK

(* latest_txid changes only to NULL or to what an update chose.             *)
LEMMA LatestChanges ==
  ASSUME TypeOK, [Next]_vars
  PROVE  \A k \in Key : latest'[k] = latest[k] \/ latest'[k] = NoTx \/ latest'[k] \in Mined
  <1> TAKE k \in Key
  <1>1. ASSUME NEW K, TransactionsUpdate(K) PROVE latest'[k] = latest[k] \/ latest'[k] \in Mined
    <2>1. PICK V : latest' = [j \in Key |-> IF j \in K THEN Latest(j, K, V) ELSE latest[j]]
      BY <1>1 DEF TransactionsUpdate
    <2> QED
      BY <2>1, LatestChoice
  <1>2. ASSUME NEW j \in Key, TransactionsUpdateFails(j)
        PROVE latest'[k] = latest[k] \/ latest'[k] \in Mined
    <2>1. PICK V : latest' = [i \in Key |-> IF i < j THEN Latest(i, Key, V) ELSE latest[i]]
      BY <1>2 DEF TransactionsUpdateFails
    <2> QED
      BY <2>1, LatestChoice
  <1>3. ASSUME NEW D, DeleteRows(D) PROVE latest'[k] = latest[k] \/ latest'[k] = NoTx
    BY <1>3 DEF DeleteRows
  <1>4. \/ UNCHANGED latest
        \/ \E K : TransactionsUpdate(K)
        \/ \E j \in Key : TransactionsUpdateFails(j)
        \/ \E D : DeleteRows(D)
    BY DEF Next, vars, db, Network, Sync, Spend, Housekeeping, Announce, Mine,
           UpdateByTxid, UtxosUpdate, UtxosUpdateFails, Create, Load, Broadcast, BumpFee,
           FinishSend, SendFails, DeleteTransaction, RemoveUnconfirmed, ReadBalance, Restart
  <1> QED
    BY <1>1, <1>2, <1>3, <1>4

LEMMA LatestStep == TypeOK /\ LatestIsMined /\ [Next]_vars => LatestIsMined'
  <1> SUFFICES ASSUME TypeOK, LatestIsMined, [Next]_vars, NEW k \in Key, latest'[k] # NoTx
               PROVE  latest'[k] \in Mined'
    BY DEF LatestIsMined
  <1> QED
    BY MinedStays, LatestChanges DEF LatestIsMined

LEMMA LatestCorrect == Spec => []LatestIsMined
  <1>1. Init => LatestIsMined
    BY DEF Init, LatestIsMined
  <1> QED
    BY <1>1, TypeInit, TypeStep, LatestStep, PTL DEF Spec

-----------------------------------------------------------------------------
(* A wallet that is the only one to spend from its seed, whose providers    *)
(* know the mempool, and that deletes and replaces nothing.                 *)
OwnWallet == ~Shared /\ ~Lag /\ ~Deletes /\ Bumps = {}

LEMMA OwnInit == Init => OwnWalletInv
  BY DEF Init, OwnWalletInv, ChainOrder, Followed, SpentWhenStored, Live, Mined, ParentsIn

(* Without conflicts a new transaction evicts nothing from the mempool.     *)
LEMMA NothingEvicted ==
  ASSUME NEW t, \A u \in Live : ~Conflict(t, u)
  PROVE  Besides(t) = mempool \ {t}
  BY DEF Besides, Live

LEMMA OwnAnnounce ==
  ASSUME OwnWallet, TypeOK, OwnWalletInv, NEW t \in Tx, Announce(t)
  PROVE  OwnWalletInv'
  <1>1. Mined' = Mined /\ Live' = Live \cup {t} /\ Spends[t] = {}
    BY DEF OwnWallet, Announce, Mined, Live
  <1>2. ChainOrder'
    BY <1>1 DEF OwnWalletInv, ChainOrder, Announce, ParentsIn, Conflict
  <1>3. Followed'
    BY <1>1 DEF OwnWalletInv, Followed, Announce, db, memory
  <1>4. SpentWhenStored'
    BY <1>1 DEF OwnWalletInv, SpentWhenStored, Announce, db, memory
  <1> QED
    BY <1>2, <1>3, <1>4 DEF OwnWalletInv

LEMMA OwnMine ==
  ASSUME TypeOK, OwnWalletInv, NEW t \in Tx, Mine(t)
  PROVE  OwnWalletInv'
  <1>1. t \in Live /\ t \notin Mined
    BY DEF Mine, Live
  <1>2. mempool' = mempool \ {t}
    BY <1>1, NothingEvicted DEF Mine, OwnWalletInv, ChainOrder
  <1>3. Mined' = Mined \cup {t}
    BY DEF Mine, Mined, TypeOK
  <1>4. Live' = Live
    BY <1>1, <1>2, <1>3 DEF Live
  <1>5. ChainOrder'
    <2>1. \A u \in Mined : height'[u] = height[u] /\ height[u] \in 0..tip
      BY <1>1 DEF Mine, Mined, TypeOK
    <2>2. height'[t] = tip + 1 /\ tip \in Nat
      BY DEF Mine, TypeOK
    <2>3. \A u \in Mined' : ParentsIn(u, Mined')
      BY <1>3 DEF OwnWalletInv, ChainOrder, ParentsIn, Mine
    <2>4. ASSUME NEW u \in Mined', NEW c \in Spends[u] PROVE height'[Creator[c]] < height'[u]
      <3>1. CASE u = t
        <4>1. Creator[c] \in Mined
          BY <3>1, <2>4 DEF Mine, ParentsIn
        <4> QED
          BY <4>1, <3>1, <2>1, <2>2
      <3>2. CASE u \in Mined
        <4>1. Creator[c] \in Mined /\ height[Creator[c]] < height[u]
          BY <3>2, <2>4 DEF OwnWalletInv, ChainOrder, ParentsIn
        <4> QED
          BY <4>1, <3>2, <2>1
      <3> QED
        BY <1>3, <3>1, <3>2
    <2> QED
      BY <1>4, <2>3, <2>4 DEF OwnWalletInv, ChainOrder, ParentsIn, Conflict
  <1>6. Followed' /\ SpentWhenStored'
    BY <1>4 DEF OwnWalletInv, Followed, SpentWhenStored, Mine, db, memory
  <1> QED
    BY <1>5, <1>6 DEF OwnWalletInv

(* Storing what the network has keeps the wallet behind the network.        *)
LEMMA FollowedGrows ==
  ASSUME OwnWalletInv, UNCHANGED <<chain, object, sending>>, sending = NoTx,
         row' \subseteq row \cup Live, output \subseteq output'
  PROVE  ChainOrder' /\ Followed' /\ Live' = Live /\ Mined' = Mined
  <1>1. Live' = Live /\ Mined' = Mined
    BY DEF chain, Live, Mined
  <1>2. ChainOrder'
    BY <1>1 DEF OwnWalletInv, ChainOrder, ParentsIn, Conflict, chain
  <1>3. Followed'
    BY <1>1 DEF OwnWalletInv, Followed
  <1> QED
    BY <1>1, <1>2, <1>3

(* Storing live transactions leaves SpentWhenStored intact if no output is  *)
(* said to be unspent that a live stored transaction spends.                *)
LEMMA StoreKeepsSpent ==
  ASSUME OwnWalletInv, TypeOK, Live' = Live, sending' = NoTx,
         NEW T \in SUBSET Live, NEW A, NEW B, Store(T, A, B),
         \A t \in full \cap Live : t # sending => Spends[t] \cap Outputs(T) \cap B \subseteq A
  PROVE  SpentWhenStored'
  <1> SUFFICES ASSUME NEW t \in full' \cap Live, NEW c \in Spends[t] \cap output' PROVE c \in spent'
    BY DEF SpentWhenStored
  <1>0. T \subseteq Tx /\ t \in Tx /\ c \in Coin
    BY LedgerAssumption DEF Live, Mined, TypeOK
  <1>1. CASE t \in T
    BY <1>0, <1>1 DEF Store, Marked, SpentBy
  <1>2. CASE t \notin T
    <2>1. t \in full /\ t # sending
      BY <1>0, <1>2, LedgerAssumption DEF Store, OwnWalletInv, Followed, TypeOK
    <2>2. c \in spent
      BY <2>1 DEF OwnWalletInv, Followed, SpentWhenStored
    <2> QED
      BY <2>1, <2>2, <1>0 DEF Store
  <1> QED
    BY <1>1, <1>2

(* An output reported for key k is only reported unspent if nothing live    *)
(* spends it: blocks put the spender after the output.                      *)
LEMMA SpenderAnswered ==
  ASSUME TypeOK, OwnWalletInv, NEW k \in Key, NEW c \in Coin, Owner[c] = k,
         Creator[c] \in Answer(k, Live), NEW t \in Live, c \in Spends[t]
  PROVE  t \in Answer(k, Live)
  <1>1. Touches(t, k)
    BY DEF Touches
  <1>2. CASE latest[k] = NoTx \/ t \notin Mined
    BY <1>1, <1>2 DEF Answer
  <1>3. CASE latest[k] # NoTx /\ t \in Mined
    <2>1. Creator[c] \in Mined /\ height[Creator[c]] < height[t]
      BY <1>3 DEF OwnWalletInv, ChainOrder, ParentsIn
    <2>2. height[Creator[c]] > height[latest[k]]
      BY <2>1, <1>3 DEF Answer
    <2>3. height[Creator[c]] \in Nat /\ height[t] \in Nat /\ height[latest[k]] \in Nat
      BY <1>3, <2>1 DEF TypeOK, Mined
    <2>4. height[t] > height[latest[k]]
      BY <2>1, <2>2, <2>3
    <2> QED
      BY <1>1, <2>4 DEF Answer
  <1> QED
    BY <1>2, <1>3

LEMMA OwnTransactionsUpdate ==
  ASSUME OwnWallet, TypeOK, OwnWalletInv, NEW K \in SUBSET Key, TransactionsUpdate(K)
  PROVE  OwnWalletInv'
  <1> DEFINE own(c) == Answer(Owner[c], Live)
             told == {c \in Coin : Owner[c] \in K /\ Creator[c] \in own(c)}
             known == {c \in told : \E t \in own(c) : c \in Spends[t]}
             T == UNION {Answer(k, Live) : k \in K}
  <1>1. Store(T, known, told \ known)
    BY Zenon DEF TransactionsUpdate, View, OwnWallet
  <1>2. T \subseteq Live
    BY DEF Answer
  <1>3. ChainOrder' /\ Followed' /\ Live' = Live
    <2>1. row' \subseteq row \cup Live /\ output \subseteq output'
      BY <1>1, <1>2 DEF Store
    <2> QED
      BY <2>1, FollowedGrows DEF TransactionsUpdate
  <1>4. ASSUME NEW t \in full \cap Live, NEW c \in Spends[t], c \in told PROVE c \in known
    <2>1. c \in Coin /\ Owner[c] \in Key /\ Creator[c] \in Answer(Owner[c], Live)
      BY <1>4
    <2>2. t \in Answer(Owner[c], Live)
      BY <2>1, <1>4, SpenderAnswered
    <2> QED
      BY <2>2, <1>4
  <1>5. \A t \in full \cap Live : t # sending => Spends[t] \cap Outputs(T) \cap (told \ known) \subseteq known
    BY <1>4
  <1> HIDE DEF T, known, told
  <1>6. sending' = NoTx
    BY DEF TransactionsUpdate
  <1>7. SpentWhenStored'
    BY <1>1, <1>2, <1>3, <1>5, <1>6, StoreKeepsSpent
  <1> QED
    BY <1>3, <1>7 DEF OwnWalletInv

LEMMA OwnUpdateByTxid ==
  ASSUME OwnWallet, TypeOK, OwnWalletInv, NEW t \in Tx, UpdateByTxid(t)
  PROVE  OwnWalletInv'
  <1>1. PICK tells \in BOOLEAN : /\ t \in Live
                                 /\ Store({t}, IF tells THEN SpentBy(Live) ELSE {},
                                               IF tells THEN Coin \ SpentBy(Live) ELSE {})
    BY DEF UpdateByTxid, View, OwnWallet
  <1> DEFINE A == IF tells THEN SpentBy(Live) ELSE {}
             B == IF tells THEN Coin \ SpentBy(Live) ELSE {}
  <1>2. Store({t}, A, B) /\ {t} \subseteq Live
    BY <1>1
  <1>3. sending = NoTx /\ sending' = NoTx
    BY DEF UpdateByTxid, memory
  <1>4. ChainOrder' /\ Followed' /\ Live' = Live
    <2>1. row' \subseteq row \cup Live /\ output \subseteq output'
      BY <1>2 DEF Store
    <2> QED
      BY <2>1, <1>3, FollowedGrows DEF UpdateByTxid, memory
  <1>5. \A u \in full \cap Live : u # sending => Spends[u] \cap Outputs({t}) \cap B \subseteq A
    BY DEF SpentBy
  <1> HIDE DEF A, B
  <1>6. SpentWhenStored'
    BY <1>2, <1>3, <1>4, <1>5, StoreKeepsSpent
  <1> QED
    BY <1>4, <1>6 DEF OwnWalletInv

LEMMA OwnUtxosUpdate ==
  ASSUME OwnWallet, TypeOK, OwnWalletInv, NEW K \in SUBSET Key, NEW rescan \in BOOLEAN,
         UtxosUpdate(K, rescan)
  PROVE  OwnWalletInv'
  <1>1. PICK U : /\ U \subseteq Outputs(Live) \ SpentBy(Live)
                 /\ row' = row \cup {Creator[c] : c \in U}
                 /\ output' = output \cup U
                 /\ spent' = ((IF rescan THEN output ELSE spent) \ U) \cup (U \cap SpentBy(full))
    BY Zenon DEF UtxosUpdate, SpentAfter, View, OwnWallet
  <1>2. full' = full /\ sending = NoTx /\ sending' = NoTx
    BY DEF UtxosUpdate
  <1>3. ChainOrder' /\ Followed' /\ Live' = Live
    <2>1. row' \subseteq row \cup Live /\ output \subseteq output'
      BY <1>1 DEF Outputs
    <2> QED
      BY <2>1, FollowedGrows DEF UtxosUpdate
  <1>4. SpentWhenStored'
    <2> SUFFICES ASSUME NEW t \in (full \cap Live) \ {sending}, NEW c \in Spends[t] PROVE c \in spent'
      BY <1>2, <1>3 DEF SpentWhenStored
    <2>1. c \in spent /\ c \in output
      BY DEF OwnWalletInv, Followed, SpentWhenStored
    <2>2. c \notin U
      BY <1>1 DEF SpentBy, Outputs
    <2> QED
      BY <2>1, <2>2, <1>1
  <1> QED
    BY <1>3, <1>4 DEF OwnWalletInv

(* An update that was cut short, a balance that was read.                   *)
LEMMA OwnOther ==
  ASSUME TypeOK, OwnWalletInv,
         \/ UtxosUpdateFails
         \/ ReadBalance
         \/ \E k \in Key : TransactionsUpdateFails(k)
  PROVE  OwnWalletInv'
  <1>1. UNCHANGED <<chain, row, full, output, object, sending>> /\ sending = NoTx
    BY DEF UtxosUpdateFails, ReadBalance, TransactionsUpdateFails, memory
  <1>2. spent \subseteq spent'
    BY DEF UtxosUpdateFails, ReadBalance, TransactionsUpdateFails, TypeOK
  <1>3. ChainOrder' /\ Followed' /\ Live' = Live
    BY <1>1, FollowedGrows
  <1>4. SpentWhenStored'
    BY <1>1, <1>2, <1>3 DEF OwnWalletInv, SpentWhenStored
  <1> QED
    BY <1>3, <1>4 DEF OwnWalletInv

(* A call of send() that ends without storing leaves the tables alone.      *)
LEMMA OwnNothingSent ==
  ASSUME TypeOK, OwnWalletInv, UNCHANGED <<chain, row, full, output, spent>>, sending' = NoTx,
         \A t \in Tx : object'[t] # "none" => object[t] # "none"
  PROVE  OwnWalletInv'
  <1>1. Live' = Live /\ Mined' = Mined
    BY DEF chain, Live, Mined
  <1>2. ChainOrder'
    BY <1>1 DEF OwnWalletInv, ChainOrder, ParentsIn, Conflict, chain
  <1>3. Followed'
    BY <1>1 DEF OwnWalletInv, Followed
  <1>4. SpentWhenStored'
    <2>1. sending \notin full
      BY LedgerAssumption DEF OwnWalletInv, Followed, TypeOK
    <2> QED
      BY <1>1, <2>1 DEF OwnWalletInv, SpentWhenStored
  <1> QED
    BY <1>2, <1>3, <1>4 DEF OwnWalletInv

LEMMA OwnSpend ==
  ASSUME OwnWallet, TypeOK, OwnWalletInv, Spend
  PROVE  OwnWalletInv'
  <1>1. ASSUME NEW t \in Tx, Create(t) \/ Load(t) PROVE OwnWalletInv'
    <2>1. UNCHANGED <<chain, db, sending>>
      BY <1>1 DEF Create, Load
    <2>2. Spends[t] \subseteq output
      BY <1>1 DEF Create, Load, Counted, OwnWalletInv, Followed, TypeOK
    <2>3. \A u \in Tx : object'[u] # "none" => object[u] # "none" \/ u = t
      BY <1>1 DEF Create, Load, TypeOK
    <2>4. Live' = Live /\ Mined' = Mined
      BY <2>1 DEF chain, Live, Mined
    <2>5. ChainOrder'
      BY <2>1, <2>4 DEF OwnWalletInv, ChainOrder, ParentsIn, Conflict, chain
    <2>6. Followed'
      BY <2>1, <2>2, <2>3, <2>4 DEF OwnWalletInv, Followed, db
    <2>7. SpentWhenStored'
      BY <2>1, <2>4 DEF OwnWalletInv, SpentWhenStored, db
    <2> QED
      BY <2>5, <2>6, <2>7 DEF OwnWalletInv
  <1>2. ASSUME NEW t \in Tx, Broadcast(t) PROVE OwnWalletInv'
    <2>1. \A u \in Live : ~Conflict(t, u)
      BY <1>2 DEF Broadcast, OwnWallet
    <2>2. Mined' = Mined /\ Live' = Live \cup {t} /\ t \notin Live
      BY <1>2, <2>1, NothingEvicted DEF Broadcast, Live, Mined
    <2>3. ChainOrder'
      BY <1>2, <2>1, <2>2 DEF OwnWalletInv, ChainOrder, Broadcast, ParentsIn, Conflict
    <2>4. \A u \in Tx : object'[u] # "none" => object[u] # "none"
      BY <1>2 DEF Broadcast, TypeOK
    <2>5. Followed'
      BY <1>2, <2>2, <2>4 DEF OwnWalletInv, Followed, Broadcast, db
    <2>6. SpentWhenStored'
      BY <1>2, <2>2, LedgerAssumption DEF TypeOK, OwnWalletInv, SpentWhenStored, Broadcast, db
    <2> QED
      BY <2>3, <2>5, <2>6 DEF OwnWalletInv
  <1>3. CASE FinishSend
    <2>1. Store({sending}, {}, Coin) /\ sending # NoTx /\ sending' = NoTx
      BY <1>3 DEF FinishSend
    <2>2. sending \in Live \ row
      BY <2>1 DEF OwnWalletInv, Followed
    <2>3. Live' = Live /\ Mined' = Mined
      BY <1>3 DEF FinishSend, chain, Live, Mined
    <2>4. ChainOrder'
      BY <1>3, <2>3 DEF OwnWalletInv, ChainOrder, ParentsIn, Conflict, FinishSend, chain
    <2>5. Followed'
      BY <1>3, <2>1, <2>2, <2>3 DEF OwnWalletInv, Followed, FinishSend, Store
    <2>6. \A t \in full \cap Live : Spends[t] \cap Outputs({sending}) = {}
      BY <2>2 DEF OwnWalletInv, Followed, Outputs, TypeOK
    <2>7. SpentWhenStored'
      BY <2>1, <2>2, <2>3, <2>6, StoreKeepsSpent
    <2> QED
      BY <2>4, <2>5, <2>7 DEF OwnWalletInv
  <1>4. ~ \E t, u \in Tx : BumpFee(t, u)
    BY DEF BumpFee, OwnWallet
  <1>5. CASE SendFails
    <2>1. UNCHANGED <<chain, row, full, output, spent, object>> /\ sending' = NoTx
      BY <1>5 DEF SendFails, db
    <2> QED
      BY <2>1, OwnNothingSent
  <1> QED
    BY <1>1, <1>2, <1>3, <1>4, <1>5 DEF Spend

LEMMA OwnStep ==
  ASSUME OwnWallet
  PROVE  TypeOK /\ OwnWalletInv /\ [Next]_vars => OwnWalletInv'
  <1> SUFFICES ASSUME TypeOK, OwnWalletInv, [Next]_vars PROVE OwnWalletInv'
    OBVIOUS
  <1>1. CASE UNCHANGED vars
    <2>1. UNCHANGED <<chain, row, full, output, spent, object, sending>>
      BY <1>1 DEF vars, db, memory
    <2>2. Live' = Live /\ Mined' = Mined
      BY <2>1 DEF chain, Live, Mined
    <2>3. ChainOrder' /\ Followed' /\ SpentWhenStored'
      BY <2>1, <2>2 DEF OwnWalletInv, ChainOrder, Followed, SpentWhenStored, ParentsIn, Conflict, chain
    <2> QED
      BY <2>3 DEF OwnWalletInv
  <1>2. CASE Network
    BY <1>2, OwnAnnounce, OwnMine DEF Network
  <1>3. CASE Sync
    <2>1. ASSUME NEW k \in Key PROVE {k} \in SUBSET Key /\ Key \in SUBSET Key
      OBVIOUS
    <2> QED
      BY <1>3, <2>1, OwnTransactionsUpdate, OwnUpdateByTxid, OwnUtxosUpdate, OwnOther DEF Sync
  <1>4. CASE Spend
    BY <1>4, OwnSpend
  <1>5. CASE Housekeeping
    <2>1. CASE Restart
      BY <2>1, OwnNothingSent DEF Restart, db
    <2> QED
      BY <1>5, <2>1, OwnOther DEF Housekeeping, DeleteTransaction, RemoveUnconfirmed, OwnWallet
  <1> QED
    BY <1>1, <1>2, <1>3, <1>4, <1>5 DEF Next

(* The spent column is reliable for a wallet that is alone on its seed:     *)
(* an output that a stored transaction spends is never offered as unspent,  *)
(* whichever calls are mixed, with failing providers and crashes in send(). *)
THEOREM SpentCorrect ==
  ASSUME OwnWallet
  PROVE  Spec => []SpentWhenStored
  <1>1. OwnWalletInv => SpentWhenStored
    BY DEF OwnWalletInv
  <1> QED
    BY <1>1, OwnInit, OwnStep, TypeInit, TypeStep, PTL DEF Spec

LEMMA CreateStep ==
  ASSUME TypeOK, SpentWhenStored, [Next]_vars, NEW t \in Tx, Create(t)
  PROVE  \A u \in full \cap Live : ~Conflict(t, u)
  <1> SUFFICES ASSUME NEW u \in full \cap Live PROVE Spends[t] \cap Spends[u] = {}
    BY DEF Conflict
  <1>1. Spends[t] \subseteq output \ spent
    BY DEF Create, Counted
  <1>2. u # sending
    BY LedgerAssumption DEF Create, Live, Mined, TypeOK
  <1> QED
    BY <1>1, <1>2 DEF SpentWhenStored

(* transaction_create() never picks an input that a stored transaction of   *)
(* the network spends, so the wallet does not double spend with itself.     *)
THEOREM CreateCorrect ==
  ASSUME OwnWallet
  PROVE  Spec => CreateAvoidsStored
  <1>1. SpentWhenStored /\ TypeOK /\ [Next]_vars
          => [\A t \in Tx : Create(t) => \A u \in full \cap Live : ~Conflict(t, u)]_vars
    BY CreateStep
  <1> QED
    BY <1>1, SpentCorrect, TypeCorrect, PTL DEF Spec, CreateAvoidsStored

(* What send() has broadcast is an object, until it is stored or lost.      *)
SendsObject == sending # NoTx => object[sending] # "none"

LEMMA SendsStep == TypeOK /\ SendsObject /\ [Next]_vars => SendsObject'
  <1> SUFFICES ASSUME TypeOK, SendsObject, [Next]_vars PROVE SendsObject'
    OBVIOUS
  <1>1. CASE UNCHANGED <<object, sending>>
    BY <1>1 DEF SendsObject
  <1>2. ASSUME NEW t \in Tx, Broadcast(t) PROVE SendsObject'
    BY <1>2 DEF Broadcast, SendsObject
  <1>3. CASE sending' = NoTx
    BY <1>3 DEF SendsObject
  <1>4. sending = NoTx /\ UNCHANGED sending => sending' = NoTx
    OBVIOUS
  <1>5. CASE Network \/ Sync \/ Housekeeping \/ UNCHANGED vars
    BY <1>1, <1>3, <1>5 DEF Network, Announce, Mine, Sync, TransactionsUpdate, TransactionsUpdateFails,
       UpdateByTxid, UtxosUpdate, UtxosUpdateFails, Housekeeping, DeleteTransaction, RemoveUnconfirmed,
       ReadBalance, Restart, vars, memory
  <1>6. CASE Spend
    BY <1>2, <1>3, <1>6 DEF Spend, Create, Load, BumpFee, FinishSend, SendFails
  <1> QED
    BY <1>5, <1>6 DEF Next

Drafts == {t \in Tx : object[t] # "none"}

(* A step that stores transactions of the network and offers outputs that   *)
(* none of those stored spends.                                             *)
LEMMA LearnStep ==
  ASSUME TypeOK', OwnWalletInv', full \subseteq full', UNCHANGED Drafts
  PROVE  Promise!Learn
  <1>1. full' \subseteq row' /\ row' \subseteq Live' /\ row' \subseteq Tx
    BY DEF TypeOK, OwnWalletInv, Followed
  <1>2. ASSUME NEW t \in full', NEW u \in full', t # u
        PROVE  Spends[t] \cap Spends[u] = {}
    <2>1. t \in Live' /\ u \in Live'
      BY <1>1
    <2> QED
      BY <1>2, <2>1 DEF OwnWalletInv, ChainOrder, Conflict
  <1>3. ASSUME NEW t \in full'
        PROVE  Spends[t] \cap (output' \ spent') = {}
    <2>1. t \in Live' /\ t # sending'
      BY <1>1, LedgerAssumption DEF OwnWalletInv, Followed, TypeOK
    <2> QED
      BY <2>1 DEF OwnWalletInv, SpentWhenStored
  <1>4. output' \subseteq Coin
    BY DEF TypeOK
  <1>5. output' \ spent' \in SUBSET (Coin \ Promise!SpentIn(full'))
    BY <1>3, <1>4 DEF Promise!SpentIn
  <1>6. Promise!Agree(full')
    BY <1>2 DEF Promise!Agree
  <1> QED
    BY <1>1, <1>5, <1>6 DEF Promise!Learn, Drafts

LEMMA PromiseInit == Init => Promise!Init
  BY DEF Init, Promise!Init

LEMMA PromiseStep ==
  ASSUME OwnWallet, TypeOK, TypeOK', OwnWalletInv, OwnWalletInv', SendsObject, [Next]_vars
  PROVE  [Promise!Next]_<<full, output \ spent, Drafts>>
  <1>1. CASE UNCHANGED <<full, output, spent, object>>
    BY <1>1 DEF Drafts
  <1>2. CASE UNCHANGED object /\ full \subseteq full'
    BY <1>2, LearnStep DEF Drafts, Promise!Next
  <1>3. CASE Network \/ UNCHANGED vars
    BY <1>1, <1>3 DEF Network, Announce, Mine, vars, db, memory
  <1>4. CASE Sync
    <2>1. UNCHANGED object
      BY <1>4 DEF Sync, TransactionsUpdate, TransactionsUpdateFails, UpdateByTxid, UtxosUpdate,
         UtxosUpdateFails, memory
    <2>2. UNCHANGED full \/ \E T, A, B : Store(T, A, B)
      BY <1>4 DEF Sync, TransactionsUpdate, TransactionsUpdateFails, UpdateByTxid, UtxosUpdate,
         UtxosUpdateFails
    <2> QED
      BY <1>2, <2>1, <2>2 DEF Store
  <1>5. CASE Housekeeping
    <2>1. CASE Restart
      BY <2>1 DEF Restart, db, Drafts, Promise!Next, Promise!Forget
    <2>2. CASE ReadBalance
      BY <1>1, <2>2 DEF ReadBalance
    <2> QED
      BY <1>5, <2>1, <2>2 DEF Housekeeping, DeleteTransaction, RemoveUnconfirmed, OwnWallet
  <1>6. CASE Spend
    <2>1. ASSUME NEW t \in Tx, Create(t) \/ Load(t)
          PROVE  [Promise!Next]_<<full, output \ spent, Drafts>>
      <3>1. UNCHANGED <<full, output, spent>>
        BY <2>1 DEF Create, Load, db
      <3>2. Drafts' = Drafts \cup {t}
        BY <2>1 DEF Create, Load, Drafts, TypeOK
      <3>3. Spends[t] \subseteq output \ spent \/ t \in full
        BY <2>1 DEF Create, Load, Counted
      <3>4. Promise!Prepare(t)
        BY <3>1, <3>2, <3>3 DEF Promise!Prepare, Drafts
      <3> QED
        BY <3>4 DEF Promise!Next
    <2>2. CASE (\E t \in Tx : Broadcast(t)) \/ SendFails
      BY <1>1, <2>2 DEF Broadcast, SendFails, db
    <2>3. CASE FinishSend
      <3>1. full \subseteq full'
        BY <2>3 DEF FinishSend, Store
      <3>2. Drafts' = Drafts
        BY <2>3 DEF FinishSend, Drafts, SendsObject, TypeOK
      <3> QED
        BY <3>1, <3>2, LearnStep DEF Promise!Next
    <2>4. ~ \E t, u \in Tx : BumpFee(t, u)
      BY DEF BumpFee, OwnWallet
    <2> QED
      BY <1>6, <2>1, <2>2, <2>3, <2>4 DEF Spend
  <1> QED
    BY <1>3, <1>4, <1>5, <1>6 DEF Next

(* A wallet that is alone on its seed keeps what SpendOnce promises: the     *)
(* transactions it stores never spend an output twice and are never lost,    *)
(* and what it offers to spend next is spent by none of them, whatever is    *)
(* updated, broadcast, interrupted or lost in between.                       *)
THEOREM PromiseKept ==
  ASSUME OwnWallet
  PROVE  Spec => SpendsOnce
  <1>1. Init => Promise!Init /\ SendsObject
    BY PromiseInit DEF Init, SendsObject
  <1>2. TypeOK /\ TypeOK' /\ OwnWalletInv /\ OwnWalletInv' /\ SendsObject /\ [Next]_vars
          => [Promise!Next]_<<full, output \ spent, Drafts>>
    BY PromiseStep
  <1> QED
    BY <1>1, <1>2, OwnInit, OwnStep, SendsStep, TypeInit, TypeStep, PTL
       DEF Spec, SpendsOnce, Promise!Spec, Drafts

-----------------------------------------------------------------------------
(* A wallet that loses no row and whose updates are not cut short.          *)
KeepsRows == ~Deletes /\ ~Aborts /\ Bumps = {}

LEMMA FullStays ==
  ASSUME KeepsRows, TypeOK, [Next]_vars
  PROVE  full \subseteq full'
  <1>1. \/ UNCHANGED full
        \/ \E T, A, B : Store(T, A, B)
    BY DEF KeepsRows, Next, vars, db, memory, Network, Sync, Spend, Housekeeping, Announce,
           Mine, TransactionsUpdate, TransactionsUpdateFails, UpdateByTxid, UtxosUpdate,
           UtxosUpdateFails, Create, Load, Broadcast, BumpFee, FinishSend, SendFails,
           DeleteTransaction, RemoveUnconfirmed, ReadBalance, Restart
  <1> QED
    BY <1>1 DEF Store

LEMMA SkippedUpdate ==
  ASSUME TypeOK, LatestIsMined, NothingSkipped, NEW K \in SUBSET Key, TransactionsUpdate(K),
         NEW k \in Key, latest'[k] # NoTx, NEW t \in Mined, Touches(t, k),
         height[t] <= height[latest'[k]]
  PROVE  t \in full'
  <1>1. PICK V \in SUBSET Live : /\ View(V)
           /\ \E A, B : Store(UNION {Answer(j, V) : j \in K}, A, B)
           /\ latest' = [j \in Key |-> IF j \in K THEN Latest(j, K, V) ELSE latest[j]]
    BY Zenon DEF TransactionsUpdate
  <1>2. full' = full \cup UNION {Answer(j, V) : j \in K}
    BY <1>1 DEF Store
  <1>3. CASE k \in K
    <2>1. t \in V
      BY <1>1 DEF View, Live
    <2>2. CASE t \in Answer(k, V)
      BY <1>2, <1>3, <2>2
    <2>3. CASE t \notin Answer(k, V)
      <3>1. latest[k] # NoTx /\ ~(height[t] > height[latest[k]])
        BY <2>1, <2>3 DEF Answer
      <3>2. height[t] \in Nat /\ height[latest[k]] \in Nat
        BY <3>1 DEF TypeOK, Mined, LatestIsMined
      <3>3. height[t] <= height[latest[k]]
        BY <3>1, <3>2
      <3> QED
        BY <1>2, <3>1, <3>3 DEF NothingSkipped
    <2> QED
      BY <2>2, <2>3
  <1>4. CASE k \notin K
    BY <1>1, <1>2, <1>4 DEF NothingSkipped
  <1> QED
    BY <1>3, <1>4

LEMMA SkippedMine ==
  ASSUME TypeOK, LatestIsMined, NothingSkipped, NEW t \in Tx, Mine(t)
  PROVE  NothingSkipped'
  <1> SUFFICES ASSUME NEW k \in Key, latest[k] # NoTx, NEW u \in Mined', Touches(u, k),
                      height'[u] <= height'[latest[k]]
               PROVE  u \in full
    BY DEF NothingSkipped, Mine, db, Touches
  <1>1. latest[k] \in Mined /\ latest[k] # t
    BY DEF LatestIsMined, Mine
  <1>2. height'[latest[k]] = height[latest[k]] /\ height[latest[k]] \in 0..tip
    BY <1>1 DEF Mine, Mined, TypeOK
  <1>3. u # t
    BY <1>2 DEF Mine, TypeOK
  <1>4. u \in Mined /\ height'[u] = height[u]
    BY <1>3 DEF Mine, Mined, TypeOK
  <1> QED
    BY <1>2, <1>4 DEF NothingSkipped

LEMMA SkippedStep ==
  ASSUME KeepsRows
  PROVE  TypeOK /\ LatestIsMined /\ NothingSkipped /\ [Next]_vars => NothingSkipped'
  <1> SUFFICES ASSUME TypeOK, LatestIsMined, NothingSkipped, [Next]_vars PROVE NothingSkipped'
    OBVIOUS
  <1>1. CASE \E t \in Tx : Mine(t)
    BY <1>1, SkippedMine
  <1>2. CASE \E K \in SUBSET Key : TransactionsUpdate(K)
    <2>1. PICK K \in SUBSET Key : TransactionsUpdate(K)
      BY <1>2
    <2>2. height' = height /\ Mined' = Mined
      BY <2>1 DEF TransactionsUpdate, chain, Mined
    <2> SUFFICES ASSUME NEW k \in Key, latest'[k] # NoTx, NEW t \in Mined, Touches(t, k),
                        height[t] <= height[latest'[k]]
                 PROVE  t \in full'
      BY <2>2 DEF NothingSkipped, Touches
    <2> QED
      BY <2>1, SkippedUpdate
  <1>3. CASE UNCHANGED <<height, latest>>
    BY <1>3, FullStays DEF NothingSkipped, Mined, Touches
  <1>4. ASSUME NEW k \in Key PROVE {k} \in SUBSET Key /\ Key \in SUBSET Key
    OBVIOUS
  <1>5. \/ \E t \in Tx : Mine(t)
        \/ \E K \in SUBSET Key : TransactionsUpdate(K)
        \/ UNCHANGED <<height, latest>>
    BY <1>4 DEF KeepsRows, Next, vars, chain, db, memory, Network, Sync, Spend, Housekeeping,
           Announce, TransactionsUpdateFails, UpdateByTxid, UtxosUpdate, UtxosUpdateFails,
           Create, Load, Broadcast, BumpFee, FinishSend, SendFails, DeleteTransaction,
           RemoveUnconfirmed, ReadBalance, Restart
  <1> QED
    BY <1>1, <1>2, <1>3, <1>5

(* latest_txid hides nothing: with a second device on the seed and lagging  *)
(* providers, every confirmed transaction up to it is stored, as long as no *)
(* update fails half way and nothing is deleted.                            *)
THEOREM NothingSkippedCorrect ==
  ASSUME KeepsRows
  PROVE  Spec => []NothingSkipped
  <1>1. Init => NothingSkipped
    BY DEF Init, NothingSkipped
  <1> QED
    BY <1>1, SkippedStep, TypeCorrect, LatestCorrect, PTL DEF Spec

-----------------------------------------------------------------------------
LEMMA UsedStep ==
  ASSUME ~Deletes, Bumps = {}
  PROVE  TypeOK /\ StoredKeysUsed /\ [Next]_vars => StoredKeysUsed'
  <1> SUFFICES ASSUME TypeOK, StoredKeysUsed, [Next]_vars PROVE StoredKeysUsed'
    OBVIOUS
  <1>1. ASSUME NEW T, NEW A, NEW B, Store(T, A, B) PROVE StoredKeysUsed'
    <2>1. \A c \in Outputs(T) : Owner[c] \in UsedBy(T)
      BY LedgerAssumption DEF Outputs, UsedBy, Touches
    <2> QED
      BY <1>1, <2>1 DEF Store, StoredKeysUsed
  <1>2. ASSUME NEW U, output' = output \cup U, used' = used \cup {Owner[c] : c \in U}
        PROVE  StoredKeysUsed'
    BY <1>2 DEF StoredKeysUsed
  <1>3. \/ \E T, A, B : Store(T, A, B)
        \/ \E U : output' = output \cup U /\ used' = used \cup {Owner[c] : c \in U}
        \/ UNCHANGED <<output, used>>
    BY DEF Next, vars, db, memory, Network, Sync, Spend, Housekeeping, Announce, Mine,
           TransactionsUpdate, TransactionsUpdateFails, UpdateByTxid, UtxosUpdate,
           UtxosUpdateFails, Create, Load, Broadcast, BumpFee, FinishSend, SendFails,
           DeleteTransaction, RemoveUnconfirmed, ReadBalance, Restart
  <1> QED
    BY <1>1, <1>2, <1>3 DEF StoredKeysUsed

(* No address is handed out twice: a key that owns a stored output has its  *)
(* used flag set, as long as nothing is deleted.                            *)
THEOREM UsedCorrect ==
  ASSUME ~Deletes, Bumps = {}
  PROVE  Spec => []StoredKeysUsed
  <1>1. Init => StoredKeysUsed
    BY DEF Init, StoredKeysUsed
  <1> QED
    BY <1>1, UsedStep, TypeCorrect, PTL DEF Spec

=============================================================================
