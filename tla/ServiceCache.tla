---------------------------- MODULE ServiceCache ----------------------------
(***************************************************************************)
(* The cache of the Service class for one address: gettransactions(),      *)
(* getutxos(), gettransaction() and blockcount() of services/services.py,  *)
(* called by several clients that share one cache database.                *)
(*                                                                         *)
(* A transaction of the address is its number in the order of the chain;   *)
(* 0 stands for no transaction.  Each has one output to the address.       *)
(***************************************************************************)
EXTENDS Naturals, Sequences, FiniteSets

CONSTANTS
  NTx,      \* number of transactions of the address
  Spender,  \* [Tx -> 0..NTx]: what spends the output of a transaction
  Limit,    \* the limit of a request (MAX_TRANSACTIONS)
  MaxTip,   \* bound on the number of blocks
  Client,   \* Service objects, in any processes
  OneEach,  \* has a block at most one transaction of the address?
  Slow,     \* may the cached block count be or become too old in a call?
  Lag,      \* may a provider be one block behind?
  Flaws,    \* may an answer hold transactions that cannot be cached?
  Foreign,  \* does a caller know transactions that the cache does not hold?
  Singles,  \* is gettransaction() called too?
  Utxos     \* is getutxos() called too?

Tx == 1..NTx

ASSUME CacheAssumption ==
  /\ NTx \in Nat
  /\ Spender \in [Tx -> 0..NTx]
  /\ \A t \in Tx : Spender[t] # 0 => t < Spender[t]
  /\ Limit \in Nat \ {0}
  /\ MaxTip \in Nat \ {0}
  /\ {OneEach, Slow, Lag, Flaws, Foreign, Singles, Utxos} \subseteq BOOLEAN

VARIABLES
  tip,        \* number of the best block
  height,     \* [Tx -> 0..MaxTip]: 0 when in no block
  seen,       \* the transactions 1..seen are known to the network
  blocks,     \* the cached block count, 0 once it has expired
  cached,     \* transactions with a DbCacheTransaction row
  index,      \* DbCacheTransaction.index plus one, 0 when NULL
  nodeSpent,  \* DbCacheTransactionNode.spent of the output to the address
  row,        \* the DbCacheAddress row: "none" or "stored"
  lastBlock,  \* its last_block, 0 when NULL
  call,       \* [Client -> the call of gettransactions() in progress]
  reply,      \* what the last call of gettransactions() returned
  offer       \* what the last call of getutxos() returned

chain == <<tip, height, seen>>
store == <<cached, index, nodeSpent, row, lastBlock>>
vars  == <<chain, blocks, store, call, reply, offer>>

-----------------------------------------------------------------------------
(* The network, as the providers report it.                                 *)

Announce ==
  /\ seen < NTx
  /\ seen' = seen + 1
  /\ UNCHANGED <<tip, height, blocks, store, call, reply, offer>>

(* The next block holds the transactions up to n that are in none yet.      *)
Block(n) ==
  LET new == {t \in 1..n : height[t] = 0}
  IN  /\ tip < MaxTip
      /\ n <= seen
      /\ OneEach => \A t, u \in new : t = u
      /\ tip' = tip + 1
      /\ height' = [t \in Tx |-> IF t \in new THEN tip + 1 ELSE height[t]]
      /\ UNCHANGED <<seen, blocks, store, call, reply, offer>>

Tips == IF Lag THEN {tip - 1, tip} ELSE {tip}

(* What a provider knows: the blocks up to block, the transactions up to    *)
(* upto.                                                                    *)
Views ==
  {v \in [block : Tips, upto : 0..seen] :
     /\ \A t \in Tx : height[t] \in 1..v.block => t <= v.upto
     /\ Lag \/ v.upto = seen}

FirstOf(S, n) == {t \in S : Cardinality({u \in S : u <= t}) <= n}

UnspentAt(n) == {t \in Tx : t <= n /\ Spender[t] \notin 1..n}

-----------------------------------------------------------------------------
(* The cached block count.                                                  *)

(* Service.blockcount() returns n. *)
CountRead(n) ==
  /\ IF blocks # 0 THEN n = blocks ELSE n \in Tips
  /\ blocks' = n

(* A Service object is made. *)
Refresh ==
  /\ \E n \in Tips : CountRead(n)
  /\ UNCHANGED <<chain, store, call, reply, offer>>

(* 60 seconds have passed since it was stored. *)
Expire ==
  /\ blocks # 0
  /\ Slow \/ \A c \in Client : call[c].phase = "idle"
  /\ blocks' = 0
  /\ UNCHANGED <<chain, store, call, reply, offer>>

-----------------------------------------------------------------------------
(* gettransactions(address, after_txid, limit)                              *)

Before(t, u) == height[t] < height[u] \/ (height[t] = height[u] /\ index[t] <= index[u])

(* The rows of S ordered by block height and index. *)
Lists(S) ==
  {q \in [1..Cardinality(S) -> S] :
     /\ \A t \in S : \E i \in DOMAIN q : q[i] = t
     /\ \A i, j \in DOMAIN q : i <= j => Before(q[i], q[j])}

Beyond(q, a) == IF \E i \in DOMAIN q : q[i] = a
                THEN SubSeq(q, (CHOOSE i \in DOMAIN q : q[i] = a) + 1, Len(q))
                ELSE q

Top(q) == SubSeq(q, 1, IF Len(q) < Limit THEN Len(q) ELSE Limit)

(* Cache.gettransactions() *)
Hits(a) ==
  IF row = "none" THEN {<<>>}
  ELSE IF a = 0 THEN {Top(q) : q \in Lists(cached)}
  ELSE IF a \in cached /\ lastBlock # 0
       THEN {Top(Beyond(q, a)) :
               q \in Lists({t \in cached : height[a] <= height[t] /\ height[t] <= lastBlock})}
       ELSE {<<>>}

InList(q) == {q[i] : i \in DOMAIN q}

Idle == [phase |-> "idle", after |-> 0, hit |-> <<>>, row |-> "none", base |-> 0, count |-> 0,
         page |-> {}, conf |-> {}, upto |-> 0, bad |-> {}, mark |-> 0]

(* What a call knows when the cache has returned h.                         *)
Reading(a, h) ==
  [phase |-> "read", after |-> a, hit |-> h, row |-> row, base |-> lastBlock, count |-> blocks,
   page |-> {}, conf |-> {}, upto |-> 0, bad |-> {}, mark |-> 0]

(* Slip: the provider is asked after after_txid, whatever the cache had. *)
LastAfter(k) == k.after

(* qry_after_txid *)
LastKnown(k) == IF k.hit = <<>> THEN k.after ELSE k.hit[Len(k.hit)]

Full(k) == Cardinality(k.page) = Limit - Len(k.hit)

Paged(k, complete) ==
  [after |-> k.after, complete |-> complete, count |-> k.count,
   txs |-> [i \in 1..(Len(k.hit) + Cardinality(k.page)) |->
              IF i <= Len(k.hit) THEN k.hit[i] ELSE LastKnown(k) + (i - Len(k.hit))]]

Begin(c, a) ==
  /\ call[c].phase = "idle"
  /\ Slow \/ blocks # 0
  /\ a = 0 \/ a \in cached \/ (Foreign /\ a <= seen)
  /\ \E h \in Hits(a) :
       IF Len(h) = Limit
       THEN reply' = Paged(Reading(a, h), FALSE) /\ UNCHANGED call
       ELSE call' = [call EXCEPT ![c] = Reading(a, h)] /\ UNCHANGED reply
  /\ UNCHANGED <<chain, blocks, store, offer>>

(* Slip: the block count is not compared, an address once seen is complete. *)
UpToDateOnce(k, n) == k.base # 0

(* Nothing has to be asked: the cache has seen the last block. *)
UpToDate(k, n) == k.base # 0 /\ n <= k.base

(* What a provider that knows v answers, and what of it is confirmed.       *)
Page(k, n, v) == IF UpToDate(k, n) THEN {}
                 ELSE FirstOf((LastKnown(k) + 1)..v.upto, Limit - Len(k.hit))

Confirmed(S, v) == {t \in S : height[t] \in 1..v.block}

(* What the call k knows when the block count is n and the answer, of a     *)
(* provider that knows v, says of the outputs up to upto if they are spent. *)
Asked(k, n, v, upto) ==
  [phase |-> "asked", after |-> k.after, hit |-> k.hit, row |-> k.row, base |-> 0, count |-> n,
   page |-> Page(k, n, v), conf |-> Confirmed(Page(k, n, v), v), upto |-> upto, bad |-> {},
   mark |-> 0]

Ask(c) ==
  LET k == call[c]
  IN  /\ k.phase = "read"
      /\ \E n \in 0..MaxTip, v \in Views, tells \in BOOLEAN :
           /\ IF k.base # 0 THEN CountRead(n) ELSE n = blocks /\ UNCHANGED blocks
           /\ tells => Utxos
           /\ call' = [call EXCEPT ![c] = Asked(k, n, v, IF tells THEN v.upto ELSE 0)]
      /\ UNCHANGED <<chain, store, reply, offer>>

(* Nothing is cached for an address that is not known when after_txid is given. *)
Cacheable(k) == k.after = 0 \/ k.row # "none"

Return(c) ==
  /\ call[c].phase = "asked"
  /\ ~Cacheable(call[c])
  /\ reply' = Paged(call[c], FALSE)
  /\ call' = [call EXCEPT ![c] = Idle]
  /\ UNCHANGED <<chain, blocks, store, offer>>

(* Slip: last_block is the block count, also when the page is full. *)
BlockCountOnly(k, n) == {n}

(* The last_block of the answer: the block count; for a full page the block *)
(* of its last transaction, none if that is unconfirmed or in bare.         *)
OfAnswer(k, n, bare) ==
  IF ~Full(k) THEN {n}
  ELSE {IF t \in k.conf \ bare THEN height[t] ELSE 0 : t \in {x \in k.page : \A u \in k.page : u <= x}}

(* It becomes the block before the first flawed transaction, unless that    *)
(* has no block_height; bare are those without.                             *)
LastBlock(k, n) ==
  {m \in 0..MaxTip : \E bare \in SUBSET k.bad :
     \/ \E b \in k.bad \ bare : (\A d \in k.bad : b <= d) /\ m = height[b] - 1
     \/ (\A b \in k.bad \ bare : \E d \in k.bad : d < b) /\ m \in OfAnswer(k, n, bare)}

(* Slip: only the last transaction of the loop is stored. *)
StoredLast(k) == {t \in k.conf : \A u \in k.conf : u <= t}

(* What the first loop stores: it stops at what cannot be cached. *)
Stored(k) == {t \in k.conf : \A b \in k.bad : t < b}

(* The spent flag in an answer; not all providers report it.                *)
Says(upto, t) == IF upto = 0 THEN "none"
                 ELSE IF Spender[t] \in 1..upto THEN "true" ELSE "false"

(* The call k when its first loop has met the flawed transactions bad and   *)
(* chosen the last_block m.                                                 *)
Storing(k, bad, m) ==
  [phase |-> "stored", after |-> k.after, hit |-> k.hit, row |-> k.row, base |-> 0,
   count |-> k.count, page |-> k.page, conf |-> k.conf, upto |-> k.upto, bad |-> bad, mark |-> m]

(* The first loop over the answer, and its commit.                          *)
StoreTransactions(c) ==
  /\ call[c].phase = "asked"
  /\ Cacheable(call[c])
  /\ \E n \in 0..MaxTip, bad \in SUBSET call[c].conf :
       /\ CountRead(n)
       /\ bad # {} => Flaws
       /\ LET k   == Storing(call[c], bad, 0)
              new == Stored(k) \ cached
          IN  /\ \E m \in LastBlock(k, n) : call' = [call EXCEPT ![c] = Storing(call[c], bad, m)]
              /\ cached' = cached \cup new
              /\ index' = [t \in Tx |-> IF t \in new THEN t - LastKnown(k) ELSE index[t]]
              /\ nodeSpent' = [t \in Tx |-> IF t \in new THEN Says(k.upto, t) ELSE nodeSpent[t]]
  /\ UNCHANGED <<chain, row, lastBlock, reply, offer>>

(* store_address(), and the second loop when the answer was complete. *)
Finish(c) ==
  LET k   == call[c]
      new == IF Full(k) THEN {} ELSE (k.conf \ k.bad) \ cached
  IN  /\ k.phase = "stored"
      /\ row' = "stored"
      /\ lastBlock' = IF k.mark # 0 THEN k.mark ELSE lastBlock
      /\ cached' = cached \cup new
      /\ index' = [t \in Tx |-> IF t \in new THEN 0 ELSE index[t]]
      /\ nodeSpent' = [t \in Tx |-> IF t \notin new THEN nodeSpent[t]
                         ELSE IF Spender[t] \in InList(k.hit) \cup k.page THEN "true" ELSE "false"]
      /\ reply' = Paged(k, ~Full(k))
      /\ call' = [call EXCEPT ![c] = Idle]
      /\ UNCHANGED <<chain, blocks, offer>>

(* The providers fail, or the program of the client ends. *)
Stop(c) ==
  /\ call[c].phase # "idle"
  /\ call' = [call EXCEPT ![c] = Idle]
  /\ UNCHANGED <<chain, blocks, store, reply, offer>>

-----------------------------------------------------------------------------
(* gettransaction(txid) stores a confirmed transaction without an index.    *)
CacheSingle(t) ==
  /\ Singles
  /\ t \notin cached
  /\ \E v \in Views, tells \in BOOLEAN :
       /\ height[t] \in 1..v.block
       /\ nodeSpent' = [nodeSpent EXCEPT ![t] = Says(IF tells THEN v.upto ELSE 0, t)]
  /\ cached' = cached \cup {t}
  /\ index' = [index EXCEPT ![t] = 0]
  /\ UNCHANGED <<chain, blocks, row, lastBlock, call, reply, offer>>

(* Slip: what the provider did not say counts as spent. *)
KnownAlways(q, i) == TRUE

(* Whether an output is spent is known up to place i of the list.           *)
KnownUpTo(q, i) == \A j \in 1..i : nodeSpent[q[j]] # "none"

(* getutxos(address, after_txid, limit): the cached ones first, then those  *)
(* that a provider reports after the last of them.                          *)
GetUtxos(a) ==
  /\ Utxos
  /\ a = 0 \/ a \in cached
  /\ \E q \in Lists(cached), v \in Views :
       LET mine == {i \in DOMAIN q :
                      /\ KnownUpTo(q, i)
                      /\ nodeSpent[q[i]] = "false"
                      /\ \A j \in DOMAIN q : q[j] = a /\ KnownUpTo(q, j) => j < i}
           last == IF mine = {} THEN a ELSE q[CHOOSE i \in mine : \A j \in mine : j <= i]
           page == FirstOf({t \in UnspentAt(v.upto) : last < t}, Limit)
           all  == Cardinality(page) < Limit
       IN  /\ nodeSpent' = [t \in Tx |-> IF t \in page \cap cached THEN "false" ELSE nodeSpent[t]]
           /\ row' = IF all /\ last = 0 THEN "stored" ELSE row
           /\ offer' = [after |-> a, coins |-> {q[i] : i \in mine} \cup page,
                        complete |-> all, upto |-> v.upto]
  /\ UNCHANGED <<chain, blocks, cached, index, lastBlock, call, reply>>

-----------------------------------------------------------------------------
Init ==
  /\ tip = 1
  /\ height = [t \in Tx |-> 0]
  /\ seen = 0
  /\ blocks = 0
  /\ cached = {}
  /\ index = [t \in Tx |-> 0]
  /\ nodeSpent = [t \in Tx |-> "none"]
  /\ row = "none" /\ lastBlock = 0
  /\ call = [c \in Client |-> Idle]
  /\ reply = Paged(Idle, FALSE)
  /\ offer = [after |-> 0, coins |-> {}, complete |-> FALSE, upto |-> 0]

GetTransactions(c) ==
  \/ \E a \in 0..NTx : Begin(c, a)
  \/ Ask(c)
  \/ Return(c)
  \/ StoreTransactions(c)
  \/ Finish(c)
  \/ Stop(c)

Next ==
  \/ Announce
  \/ \E n \in 0..NTx : Block(n)
  \/ Refresh
  \/ Expire
  \/ \E c \in Client : GetTransactions(c)
  \/ \E t \in Tx : CacheSingle(t)
  \/ \E a \in 0..NTx : GetUtxos(a)

Spec == Init /\ [][Next]_vars

-----------------------------------------------------------------------------
Call == [phase : {"idle", "read", "asked", "stored"}, after : 0..NTx, hit : Seq(Tx),
         row : {"none", "stored"}, base : Nat, count : Nat, page : SUBSET Tx, conf : SUBSET Tx,
         upto : 0..NTx, bad : SUBSET Tx, mark : Nat]

(* The types of the variables: a confirmed transaction is announced, what   *)
(* is cached is confirmed, only a known address has a last_block.           *)
TypeOK ==
  /\ tip \in 1..MaxTip
  /\ height \in [Tx -> 0..tip]
  /\ seen \in 0..NTx
  /\ \A t \in Tx : height[t] > 0 => t <= seen
  /\ blocks \in 0..tip
  /\ cached \subseteq {t \in Tx : height[t] > 0}
  /\ index \in [Tx -> Nat]
  /\ nodeSpent \in [Tx -> {"none", "false", "true"}]
  /\ row \in {"none", "stored"}
  /\ lastBlock \in 0..tip
  /\ lastBlock # 0 => row = "stored"
  /\ call \in [Client -> Call]

(* What is cached of an address has no holes: gettransactions() asks the    *)
(* providers only for what follows the last cached transaction.             *)
CacheIsPrefix == \A t \in cached : \A u \in 1..t : u \in cached

(* DbCacheAddress.last_block: all transactions up to that block are cached. *)
(* A call that finds it at the block count does not ask the providers.      *)
LastBlockSound == \A t \in Tx : height[t] \in 1..lastBlock => t \in cached

(* "Sorted from old to new": a reply continues after after_txid without     *)
(* leaving out, repeating or swapping a transaction, whichever part came    *)
(* from the cache and whichever from a provider.                            *)
InOrder == \A i \in DOMAIN reply.txs : reply.txs[i] = reply.after + i

(* Whatever is missing in the cache, a reply is sorted and repeats nothing. *)
Ascending ==
  \A i \in DOMAIN reply.txs :
    /\ reply.after < reply.txs[i]
    /\ \A j \in DOMAIN reply.txs : i < j => reply.txs[i] < reply.txs[j]

(* A reply that is said to be complete has every transaction of the blocks  *)
(* that had been counted when it was asked for.                             *)
NothingMissing ==
  reply.complete =>
    \A t \in Tx : reply.after < t /\ height[t] \in 1..reply.count => t \in InList(reply.txs)

(* getutxos() withholds no output that is still unspent, although it skips  *)
(* what the cache knows as spent and asks only after the last cached one.   *)
UtxosComplete ==
  offer.complete =>
    \A t \in UnspentAt(seen) : offer.after < t /\ t <= offer.upto => t \in offer.coins

(* getutxos() returns unspent outputs only.                                 *)
UtxosUnspent == offer.coins \subseteq UnspentAt(offer.upto)

(* A transaction from the cache has no negative number of confirmations.    *)
ConfirmationsNatural ==
  \A c \in Client : call[c].phase = "read" =>
    \A t \in InList(call[c].hit) : height[t] <= call[c].count + 1

=============================================================================
