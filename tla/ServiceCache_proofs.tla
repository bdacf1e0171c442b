------------------------ MODULE ServiceCache_proofs ------------------------
(* Theorems about ServiceCache, for every number of transactions, clients,  *)
(* blocks and every limit.                                                  *)
EXTENDS ServiceCache, ServiceQueries, SetLemmas, SequenceTheorems

(* The first elements of a set are closed downwards in it.                  *)
LEMMA FirstOfClosed ==
  ASSUME NEW lo \in Nat, NEW hi \in Nat, NEW n \in Int,
         NEW t \in FirstOf(lo..hi, n), NEW u \in lo..hi, u < t
  PROVE  u \in FirstOf(lo..hi, n)
  <1> DEFINE Up(x) == {w \in lo..hi : w <= x}
  <1>1. IsFiniteSet(lo..hi)
    BY FS_Interval
  <1>2. IsFiniteSet(Up(t)) /\ Cardinality(Up(t)) \in Nat
    BY <1>1, FS_Subset, FS_CardinalityType
  <1>3. Up(u) \subseteq Up(t)
    BY DEF FirstOf
  <1>4. Cardinality(Up(u)) <= Cardinality(Up(t)) /\ IsFiniteSet(Up(u))
    BY <1>2, <1>3, FS_Subset
  <1>5. Cardinality(Up(u)) \in Nat
    BY <1>4, FS_CardinalityType
  <1>6. Cardinality(Up(t)) <= n
    BY DEF FirstOf
  <1>7. Cardinality(Up(u)) <= n
    BY <1>2, <1>4, <1>5, <1>6
  <1> QED
    BY <1>7 DEF FirstOf

(* Any part of a list of rows is a list of rows.                            *)
LEMMA PartOfList ==
  ASSUME NEW S, NEW q \in Seq(S), NEW m \in 1..(Len(q) + 1), NEW n \in 0..Len(q)
  PROVE  SubSeq(q, m, n) \in Seq(S)
  <1>1. \A i \in m..n : q[i] \in S
    BY ElementOfSeq, LenProperties
  <1> QED
    BY <1>1, LenProperties, SubSeqProperties

LEMMA ListsType ==
  ASSUME NEW S \in SUBSET Tx, NEW q \in Lists(S)
  PROVE  q \in Seq(S)
  <1>1. IsFiniteSet(Tx)
    BY CacheAssumption, FS_Interval DEF Tx
  <1>2. Cardinality(S) \in Nat
    BY <1>1, FS_Subset, FS_CardinalityType
  <1> QED
    BY <1>2, SeqDef DEF Lists

LEMMA TopType ==
  ASSUME NEW S, NEW q \in Seq(S)
  PROVE  Top(q) \in Seq(S)
  <1>1. (IF Len(q) < Limit THEN Len(q) ELSE Limit) \in 0..Len(q)
    BY CacheAssumption, LenProperties
  <1> QED
    BY <1>1, PartOfList, LenProperties DEF Top

LEMMA BeyondType ==
  ASSUME NEW S, NEW q \in Seq(S), NEW a
  PROVE  Beyond(q, a) \in Seq(S)
  <1>1. CASE \E i \in DOMAIN q : q[i] = a
    <2> DEFINE i == CHOOSE i \in DOMAIN q : q[i] = a
    <2>1. i \in 1..Len(q)
      BY <1>1, LenProperties
    <2>2. SubSeq(q, i + 1, Len(q)) \in Seq(S)
      <3> HIDE DEF i
      <3> QED
        BY <2>1, PartOfList, LenProperties
    <2> QED
      BY <1>1, <2>2 DEF Beyond
  <1>2. CASE ~ \E i \in DOMAIN q : q[i] = a
    BY <1>2 DEF Beyond
  <1> QED
    BY <1>1, <1>2

(* Whatever the cache returns is cached.                                    *)
LEMMA HitsCached ==
  ASSUME cached \subseteq Tx, NEW a, NEW h \in Hits(a)
  PROVE  h \in Seq(Tx) /\ InList(h) \subseteq cached
  <1> DEFINE S == {t \in cached : height[a] <= height[t] /\ height[t] <= lastBlock}
  <1>1. \A q \in Lists(cached) : Top(q) \in Seq(cached)
    BY ListsType, TopType
  <1>2. \A q \in Lists(S) : Top(Beyond(q, a)) \in Seq(S)
    BY ListsType, TopType, BeyondType
  <1>3. \A q \in Lists(S) : Top(Beyond(q, a)) \in Seq(cached)
    BY <1>2, SeqMonotonic
  <1>4. <<>> \in Seq(cached)
    OBVIOUS
  <1>5. h \in Seq(cached)
    BY <1>1, <1>3, <1>4 DEF Hits
  <1>6. h \in Seq(Tx)
    BY <1>5, SeqMonotonic
  <1>7. InList(h) \subseteq cached
    BY <1>5, ElementOfSeq, LenProperties DEF InList
  <1> QED
    BY <1>6, <1>7

LEMMA LastChoice ==
  ASSUME NEW k \in Call
  PROVE  /\ LastKnown(k) \in 0..NTx
         /\ LastKnown(k) = k.after \/ LastKnown(k) \in InList(k.hit)
  <1>1. k.hit \in Seq(Tx) /\ k.after \in 0..NTx
    BY DEF Call
  <1>2. CASE k.hit = <<>>
    BY <1>1, <1>2 DEF LastKnown
  <1>3. CASE k.hit # <<>>
    <2>1. Len(k.hit) \in 1..Len(k.hit) /\ DOMAIN k.hit = 1..Len(k.hit)
      BY <1>1, <1>3, LenProperties, EmptySeq
    <2>2. k.hit[Len(k.hit)] \in Tx
      BY <1>1, <2>1, ElementOfSeq
    <2> QED
      BY <1>3, <2>1, <2>2, CacheAssumption DEF LastKnown, InList, Tx
  <1> QED
    BY <1>2, <1>3

-----------------------------------------------------------------------------
(* What the types need to be inductive: what a call is about to store is    *)
(* confirmed and follows what it knows, and its last_block exists.          *)
CallTypes ==
  \A c \in Client :
    /\ call[c].mark <= tip
    /\ call[c].bad \subseteq call[c].conf
    /\ call[c].phase # "stored" => call[c].bad = {}
    /\ \A t \in call[c].conf : height[t] > 0 /\ LastKnown(call[c]) < t

TypeInv == TypeOK /\ CallTypes

LEMMA IdleType == Idle \in Call /\ Idle.mark = 0 /\ Idle.bad = {} /\ Idle.conf = {}
  BY CacheAssumption, EmptySeq DEF Idle, Call

LEMMA TypeInit == Init => TypeInv
  BY CacheAssumption, IdleType DEF Init, TypeInv, TypeOK, CallTypes, Tx

(* The block count never exceeds the chain.                                 *)
LEMMA CountReadType ==
  ASSUME TypeOK, NEW n, CountRead(n)
  PROVE  n \in 0..tip /\ blocks' \in 0..tip
  BY CacheAssumption DEF TypeOK, CountRead, Tips

LEMMA TypeNetwork ==
  ASSUME TypeInv, Announce \/ (\E n \in 0..NTx : Block(n)) \/ Refresh \/ Expire
  PROVE  TypeInv'
  <1> USE DEF TypeInv, CallTypes
  <1>1. CASE Announce
    BY <1>1, CacheAssumption DEF TypeOK, Announce, store, Tx
  <1>2. CASE \E n \in 0..NTx : Block(n)
    <2>1. PICK n \in 0..NTx : Block(n)
      BY <1>2
    <2>2. tip' = tip + 1 /\ tip' \in 1..MaxTip
      BY <2>1, CacheAssumption DEF TypeOK, Block
    <2>3. /\ height' \in [Tx -> 0..tip']
          /\ \A t \in Tx : height'[t] > 0 => t <= seen
          /\ \A t \in Tx : height[t] > 0 => height'[t] > 0
      BY <2>1, <2>2, CacheAssumption DEF TypeOK, Block, Tx
    <2>4. \A c \in Client : call[c].mark \in Nat /\ call[c].conf \subseteq Tx
      BY DEF TypeOK, Call
    <2> QED
      BY <2>1, <2>2, <2>3, <2>4 DEF TypeOK, Block, store
  <1>3. CASE Refresh
    <2>1. PICK n : CountRead(n)
      BY <1>3 DEF Refresh
    <2> QED
      BY <1>3, <2>1, CountReadType DEF TypeOK, Refresh, chain, store
  <1>4. CASE Expire
    BY <1>4, CacheAssumption DEF TypeOK, Expire, chain, store
  <1> QED
    BY <1>1, <1>2, <1>3, <1>4

(* A step that changes one call keeps the types of all calls.               *)
LEMMA TypeCall ==
  ASSUME TypeInv, NEW c \in Client, NEW k \in Call,
         k.mark <= tip, k.bad \subseteq k.conf, k.phase # "stored" => k.bad = {},
         \A t \in k.conf : height[t] > 0 /\ LastKnown(k) < t,
         call' = [call EXCEPT ![c] = k], UNCHANGED chain
  PROVE  call' \in [Client -> Call] /\ CallTypes'
  <1>1. call \in [Client -> Call]
    BY DEF TypeInv, TypeOK
  <1>2. call' \in [Client -> Call]
    BY <1>1
  <1>3. ASSUME NEW d \in Client
        PROVE  /\ call'[d].mark <= tip'
               /\ call'[d].bad \subseteq call'[d].conf
               /\ call'[d].phase # "stored" => call'[d].bad = {}
               /\ \A t \in call'[d].conf : height'[t] > 0 /\ LastKnown(call'[d]) < t
    <2>1. tip' = tip /\ height' = height
      BY DEF chain
    <2>2. CASE d = c
      <3>1. call'[d] = k
        BY <1>1, <2>2
      <3> QED
        BY <2>1, <3>1
    <2>3. CASE d # c
      <3>1. call'[d] = call[d]
        BY <1>1, <2>3
      <3> QED
        BY <2>1, <3>1 DEF TypeInv, CallTypes
    <2> QED
      BY <2>2, <2>3
  <1> QED
    BY <1>2, <1>3 DEF CallTypes

LEMMA TypeBegin ==
  ASSUME TypeInv, NEW c \in Client, NEW a \in 0..NTx, Begin(c, a)
  PROVE  TypeInv'
  <1>1. PICK h \in Hits(a) : UNCHANGED call \/ call' = [call EXCEPT ![c] = Reading(a, h)]
    BY Zenon DEF Begin
  <1>2. h \in Seq(Tx)
    BY HitsCached DEF TypeInv, TypeOK
  <1>3. row \in {"none", "stored"} /\ lastBlock \in Nat /\ blocks \in Nat
    BY DEF TypeInv, TypeOK
  <1>4. Reading(a, h) \in Call
    BY <1>2, <1>3, CacheAssumption DEF Call, Reading
  <1>5. Reading(a, h).mark = 0 /\ Reading(a, h).bad = {} /\ Reading(a, h).conf = {}
    BY DEF Reading
  <1>6. 0 <= tip /\ UNCHANGED chain /\ UNCHANGED <<blocks, store>>
    BY CacheAssumption DEF TypeInv, TypeOK, Begin
  <1>7. call' \in [Client -> Call] /\ CallTypes'
    <2>1. CASE UNCHANGED call
      BY <1>6, <2>1 DEF TypeInv, TypeOK, CallTypes, chain
    <2>2. CASE call' = [call EXCEPT ![c] = Reading(a, h)]
      BY <1>4, <1>5, <1>6, <2>2, TypeCall
    <2> QED
      BY <1>1, <2>1, <2>2
  <1> QED
    BY <1>6, <1>7 DEF TypeInv, TypeOK, chain, store

(* An answer follows the last transaction the caller or the cache knows.    *)
LEMMA PageType ==
  ASSUME TypeOK, NEW k \in Call, NEW n, NEW v \in Views
  PROVE  /\ v.upto \in 0..NTx
         /\ Page(k, n, v) \subseteq Tx
         /\ Confirmed(Page(k, n, v), v) \subseteq Tx
         /\ \A t \in Confirmed(Page(k, n, v), v) : height[t] > 0 /\ LastKnown(k) < t
  <1>1. v.upto \in 0..NTx /\ v.block \in Nat
    BY CacheAssumption DEF Views, Tips, TypeOK
  <1>2. LastKnown(k) \in 0..NTx
    BY LastChoice
  <1>3. Page(k, n, v) \subseteq Tx /\ \A t \in Page(k, n, v) : LastKnown(k) < t
    BY <1>1, <1>2, CacheAssumption DEF Page, FirstOf, Tx
  <1> QED
    BY <1>1, <1>3 DEF Confirmed, TypeOK

LEMMA TypeAsk ==
  ASSUME TypeInv, NEW c \in Client, Ask(c)
  PROVE  TypeInv'
  <1> DEFINE P(n, v) == Page(call[c], n, v)
  <1>1. PICK n \in 0..MaxTip, v \in Views, tells \in BOOLEAN :
           /\ CountRead(n) \/ UNCHANGED blocks
           /\ call' = [call EXCEPT ![c] = Asked(call[c], n, v, IF tells THEN v.upto ELSE 0)]
    BY Zenon DEF Ask
  <1>2. PICK u \in {v.upto, 0} : call' = [call EXCEPT ![c] = Asked(call[c], n, v, u)]
    BY <1>1
  <1>3. call[c] \in Call
    BY DEF TypeInv, TypeOK
  <1>4. /\ v.upto \in 0..NTx
        /\ P(n, v) \subseteq Tx /\ Confirmed(P(n, v), v) \subseteq Tx
        /\ \A t \in Confirmed(P(n, v), v) : height[t] > 0 /\ LastKnown(call[c]) < t
    BY <1>3, PageType DEF TypeInv
  <1>5. Asked(call[c], n, v, u) \in Call
    BY <1>3, <1>4, CacheAssumption DEF Call, Asked
  <1>6. /\ Asked(call[c], n, v, u).mark = 0 /\ Asked(call[c], n, v, u).bad = {}
        /\ Asked(call[c], n, v, u).conf = Confirmed(P(n, v), v)
        /\ LastKnown(Asked(call[c], n, v, u)) = LastKnown(call[c])
    BY DEF Asked, LastKnown
  <1>7. blocks' \in 0..tip /\ 0 <= tip
    BY <1>1, CountReadType, CacheAssumption DEF TypeInv, TypeOK
  <1>8. UNCHANGED <<chain, store>>
    BY DEF Ask
  <1>9. call' \in [Client -> Call] /\ CallTypes'
    BY <1>2, <1>4, <1>5, <1>6, <1>7, <1>8, TypeCall
  <1> QED
    BY <1>7, <1>8, <1>9 DEF TypeInv, TypeOK, chain, store

(* What a call may do to the cache: store more of what is confirmed.        *)
LEMMA TypeStore ==
  ASSUME TypeOK, NEW new \in SUBSET Tx, \A t \in new : height[t] > 0, cached' = cached \cup new,
         UNCHANGED height
  PROVE  cached' \subseteq {t \in Tx : height'[t] > 0}
  BY DEF TypeOK

LEMMA TypeStoreTransactions ==
  ASSUME TypeInv, NEW c \in Client, StoreTransactions(c)
  PROVE  TypeInv'
  <1>1. PICK n \in 0..MaxTip, bad \in SUBSET call[c].conf :
           /\ CountRead(n)
           /\ \E m \in LastBlock(Storing(call[c], bad, 0), n) :
                call' = [call EXCEPT ![c] = Storing(call[c], bad, m)]
           /\ LET k   == Storing(call[c], bad, 0)
                  new == Stored(k) \ cached
              IN  /\ cached' = cached \cup new
                  /\ index' = [t \in Tx |-> IF t \in new THEN t - LastKnown(k) ELSE index[t]]
                  /\ nodeSpent' = [t \in Tx |-> IF t \in new THEN Says(k.upto, t) ELSE nodeSpent[t]]
    BY Zenon DEF StoreTransactions
  <1> DEFINE k == Storing(call[c], bad, 0)
             new == Stored(k) \ cached
  <1>2. call[c] \in Call /\ \A t \in call[c].conf : height[t] > 0 /\ LastKnown(call[c]) < t
    BY DEF TypeInv, TypeOK, CallTypes
  <1>3. \A m \in Nat : Storing(call[c], bad, m) \in Call
    BY <1>2 DEF Call, Storing
  <1>4. k.conf = call[c].conf /\ k.bad = bad
    BY DEF Storing
  <1>5. new \in SUBSET Tx /\ \A t \in new : height[t] > 0
    BY <1>2, <1>4 DEF Stored, Call
  <1>6. UNCHANGED <<chain, row, lastBlock>> /\ UNCHANGED chain
    BY Zenon DEF StoreTransactions
  <1>7. cached' \subseteq {t \in Tx : height'[t] > 0}
    BY <1>1, <1>5, <1>6, TypeStore DEF TypeInv, chain
  <1>8. index' \in [Tx -> Nat]
    <2>1. LastKnown(k) = LastKnown(call[c]) /\ LastKnown(call[c]) \in Nat
      BY <1>2, LastChoice DEF Storing, LastKnown
    <2>2. \A t \in new : t - LastKnown(k) \in Nat
      BY <1>2, <1>4, <1>5, <2>1 DEF Tx, Stored
    <2> HIDE DEF k, new
    <2> QED
      BY <1>1, <2>2 DEF TypeInv, TypeOK, k, new
  <1>9. nodeSpent' \in [Tx -> {"none", "false", "true"}]
    BY <1>1 DEF TypeInv, TypeOK, Says
  <1>10. blocks' \in 0..tip /\ n <= tip
    BY <1>1, CountReadType, CacheAssumption DEF TypeInv, TypeOK
  <1>11. PICK m \in LastBlock(k, n) : call' = [call EXCEPT ![c] = Storing(call[c], bad, m)]
    BY <1>1
  <1>12. m \in Nat /\ m <= tip
    <2>1. \A t \in call[c].conf : height[t] \in 0..tip /\ tip \in Nat
      BY <1>2, CacheAssumption DEF Call, TypeInv, TypeOK
    <2>2. tip \in Nat /\ m \in 0..MaxTip
      BY CacheAssumption DEF TypeInv, TypeOK, LastBlock
    <2>3. m = n \/ m = 0 \/ (\E t \in call[c].conf : m = height[t] \/ m = height[t] - 1)
      <3> HIDE DEF k
      <3> QED
        BY <1>4 DEF LastBlock, OfAnswer
    <2> QED
      BY <1>10, <2>1, <2>2, <2>3
  <1>13. call' \in [Client -> Call] /\ CallTypes'
    <2> DEFINE s == Storing(call[c], bad, m)
    <2>1. s \in Call /\ s.mark = m /\ s.bad = bad /\ s.conf = call[c].conf
      BY <1>3, <1>12 DEF Storing
    <2>2. s.phase = "stored" /\ LastKnown(s) = LastKnown(call[c])
      BY DEF Storing, LastKnown
    <2> HIDE DEF s
    <2> QED
      BY <1>2, <1>6, <1>11, <1>12, <2>1, <2>2, TypeCall DEF s
  <1> QED
    BY <1>6, <1>7, <1>8, <1>9, <1>10, <1>13 DEF TypeInv, TypeOK, chain

LEMMA TypeFinish ==
  ASSUME TypeInv, NEW c \in Client, Finish(c)
  PROVE  TypeInv'
  <1> DEFINE k   == call[c]
             new == IF Full(k) THEN {} ELSE (k.conf \ k.bad) \ cached
  <1>1. k \in Call /\ (\A t \in k.conf : height[t] > 0) /\ k.mark <= tip
    BY DEF TypeInv, TypeOK, CallTypes
  <1>2. new \in SUBSET Tx /\ \A t \in new : height[t] > 0
    BY <1>1 DEF Call
  <1>3. /\ row' = "stored"
        /\ lastBlock' = IF k.mark # 0 THEN k.mark ELSE lastBlock
        /\ cached' = cached \cup new
        /\ index' = [t \in Tx |-> IF t \in new THEN 0 ELSE index[t]]
        /\ nodeSpent' = [t \in Tx |-> IF t \notin new THEN nodeSpent[t]
                           ELSE IF Spender[t] \in InList(k.hit) \cup k.page THEN "true" ELSE "false"]
        /\ call' = [call EXCEPT ![c] = Idle]
        /\ UNCHANGED chain /\ UNCHANGED blocks
    BY Zenon DEF Finish
  <1> HIDE DEF new
  <1>4. cached' \subseteq {t \in Tx : height'[t] > 0}
    BY <1>2, <1>3, TypeStore DEF TypeInv, chain
  <1>5. index' \in [Tx -> Nat] /\ nodeSpent' \in [Tx -> {"none", "false", "true"}]
    BY <1>3 DEF TypeInv, TypeOK
  <1>6. lastBlock' \in 0..tip
    BY <1>1, <1>3, CacheAssumption DEF Call, TypeInv, TypeOK
  <1>7. call' \in [Client -> Call] /\ CallTypes'
    <2>1. 0 <= tip
      BY CacheAssumption DEF TypeInv, TypeOK
    <2> QED
      BY <1>3, <2>1, IdleType, TypeCall
  <1> QED
    BY <1>3, <1>4, <1>5, <1>6, <1>7 DEF TypeInv, TypeOK, chain

(* The other steps of a call leave the cache alone.                         *)
LEMMA TypeReturn ==
  ASSUME TypeInv, NEW c \in Client, Return(c) \/ Stop(c)
  PROVE  TypeInv'
  <1>1. call' = [call EXCEPT ![c] = Idle] /\ UNCHANGED chain /\ UNCHANGED <<blocks, store>>
    BY DEF Return, Stop
  <1>2. 0 <= tip
    BY CacheAssumption DEF TypeInv, TypeOK
  <1>3. call' \in [Client -> Call] /\ CallTypes'
    BY <1>1, <1>2, IdleType, TypeCall
  <1> QED
    BY <1>1, <1>3 DEF TypeInv, TypeOK, chain, store

LEMMA TypeCacheSingle ==
  ASSUME TypeInv, NEW t \in Tx, CacheSingle(t)
  PROVE  TypeInv'
  <1>1. PICK v \in Views, tells \in BOOLEAN :
           /\ height[t] \in 1..v.block
           /\ nodeSpent' = [nodeSpent EXCEPT ![t] = Says(IF tells THEN v.upto ELSE 0, t)]
    BY Zenon DEF CacheSingle
  <1>2. nodeSpent' \in [Tx -> {"none", "false", "true"}]
    BY <1>1 DEF TypeInv, TypeOK, Says
  <1>3. cached' \subseteq {u \in Tx : height'[u] > 0} /\ index' \in [Tx -> Nat]
    BY <1>1 DEF TypeInv, TypeOK, CacheSingle, Views, Tips, chain
  <1>4. UNCHANGED <<chain, blocks, row, lastBlock, call>>
    BY DEF CacheSingle
  <1> QED
    BY <1>2, <1>3, <1>4 DEF TypeInv, TypeOK, CallTypes, chain

LEMMA TypeGetUtxos ==
  ASSUME TypeInv, NEW a \in 0..NTx, GetUtxos(a)
  PROVE  TypeInv'
  <1>1. PICK S, p : /\ nodeSpent' = [t \in Tx |-> IF t \in S THEN "false" ELSE nodeSpent[t]]
                    /\ row' = IF p THEN "stored" ELSE row
    BY Zenon DEF GetUtxos
  <1>2. UNCHANGED <<chain, blocks, cached, index, lastBlock, call>>
    BY DEF GetUtxos
  <1> QED
    BY <1>1, <1>2 DEF TypeInv, TypeOK, CallTypes, chain

LEMMA TypeNext == TypeInv /\ [Next]_vars => TypeInv'
  <1> SUFFICES ASSUME TypeInv, [Next]_vars PROVE TypeInv'
    OBVIOUS
  <1>1. CASE Announce \/ (\E n \in 0..NTx : Block(n)) \/ Refresh \/ Expire
    BY <1>1, TypeNetwork
  <1>2. ASSUME NEW c \in Client, GetTransactions(c) PROVE TypeInv'
    BY <1>2, TypeBegin, TypeAsk, TypeReturn, TypeStoreTransactions, TypeFinish
       DEF GetTransactions
  <1>3. ASSUME NEW t \in Tx, CacheSingle(t) PROVE TypeInv'
    BY <1>3, TypeCacheSingle
  <1>4. ASSUME NEW a \in 0..NTx, GetUtxos(a) PROVE TypeInv'
    BY <1>4, TypeGetUtxos
  <1>5. CASE UNCHANGED vars
    BY <1>5 DEF vars, chain, store, TypeInv, TypeOK, CallTypes
  <1> QED
    BY <1>1, <1>2, <1>3, <1>4, <1>5 DEF Next

LEMMA TypeAlways == Spec => []TypeInv
  BY TypeInit, TypeNext, PTL DEF Spec

(* The cache tables are well-formed: only confirmed transactions are        *)
(* cached, whatever the providers answer and wherever a call is stopped.    *)
THEOREM TypeCorrect == Spec => []TypeOK
  <1>1. TypeInv => TypeOK
    BY DEF TypeInv
  <1> QED
    BY <1>1, TypeAlways, PTL

-----------------------------------------------------------------------------
(* Transactions are confirmed in the order of their numbers.                *)
Ordered ==
  \A t, u \in Tx : u < t /\ height[t] > 0 => height[u] > 0 /\ height[u] <= height[t]

(* What a call knows has no gap either: it goes on after something that is  *)
(* cached, and the confirmed part of its answer is contiguous; when it has  *)
(* stored it, it is in the cache.                                           *)
CallOK(k, C) ==
  /\ k.bad = {}
  /\ k.after = 0 \/ k.after \in C
  /\ InList(k.hit) \subseteq C
  /\ k.phase = "asked" => \A t \in k.conf, u \in Tx : LastKnown(k) < u /\ u < t => u \in k.conf
  /\ k.phase = "stored" => k.conf \subseteq C

PrefixInv == Ordered /\ CacheIsPrefix /\ \A c \in Client : CallOK(call[c], cached)

LEMMA IdleOK == \A C : CallOK(Idle, C)
  BY DEF CallOK, Idle, InList

LEMMA PrefixInit == Init => PrefixInv
  BY IdleOK DEF Init, PrefixInv, Ordered, CacheIsPrefix

(* The calls stay sound when one changes and the cache grows.               *)
LEMMA CallsOK ==
  ASSUME TypeInv, PrefixInv, NEW c \in Client, NEW k, CallOK(k, cached'),
         call' = [call EXCEPT ![c] = k] \/ UNCHANGED call, cached \subseteq cached'
  PROVE  \A d \in Client : CallOK(call'[d], cached')
  <1> SUFFICES ASSUME NEW d \in Client PROVE CallOK(call'[d], cached')
    OBVIOUS
  <1>1. call \in [Client -> Call]
    BY DEF TypeInv, TypeOK
  <1>2. call'[d] = k \/ call'[d] = call[d]
    BY <1>1
  <1>3. CallOK(call[d], cached')
    BY DEF PrefixInv, CallOK
  <1> QED
    BY <1>2, <1>3

(* A step that stores nothing and changes no block keeps the prefix.        *)
LEMMA PrefixKept ==
  ASSUME PrefixInv, UNCHANGED <<height, cached>>
  PROVE  Ordered' /\ CacheIsPrefix'
  BY DEF PrefixInv, Ordered, CacheIsPrefix

LEMMA PrefixBlock ==
  ASSUME TypeInv, PrefixInv, NEW n \in 0..NTx, Block(n)
  PROVE  PrefixInv'
  <1>1. \A t \in Tx : height'[t] = IF t <= n /\ height[t] = 0 THEN tip + 1 ELSE height[t]
    BY DEF Block, Tx
  <1>2. height \in [Tx -> 0..tip] /\ tip \in Nat
    BY CacheAssumption DEF TypeInv, TypeOK
  <1>3. ASSUME NEW t \in Tx, NEW u \in Tx, u < t, height'[t] > 0
        PROVE  height'[u] > 0 /\ height'[u] <= height'[t]
    <2>1. n \in Int /\ t \in Int /\ u \in Int /\ height[t] \in 0..tip /\ height[u] \in 0..tip
      BY <1>2, CacheAssumption DEF Tx
    <2>2. height[t] > 0 => height[u] > 0 /\ height[u] <= height[t]
      BY <1>3 DEF PrefixInv, Ordered
    <2>3. /\ height'[t] = IF t <= n /\ height[t] = 0 THEN tip + 1 ELSE height[t]
          /\ height'[u] = IF u <= n /\ height[u] = 0 THEN tip + 1 ELSE height[u]
      BY <1>1
    <2> QED
      BY <1>2, <1>3, <2>1, <2>2, <2>3
  <1>5. Ordered'
    <2>1. Tx' = Tx
      BY DEF Tx
    <2> QED
      BY <1>3, <2>1 DEF Ordered
  <1>4. UNCHANGED <<cached, call>>
    BY DEF Block, store
  <1> QED
    BY <1>4, <1>5 DEF PrefixInv, CacheIsPrefix

LEMMA PrefixBegin ==
  ASSUME TypeInv, PrefixInv, ~Foreign, NEW c \in Client, NEW a \in 0..NTx, Begin(c, a)
  PROVE  PrefixInv'
  <1>1. PICK h \in Hits(a) : UNCHANGED call \/ call' = [call EXCEPT ![c] = Reading(a, h)]
    BY Zenon DEF Begin
  <1>2. InList(h) \subseteq cached
    BY HitsCached DEF TypeInv, TypeOK
  <1>3. UNCHANGED <<height, cached>>
    BY DEF Begin, chain, store
  <1>4. a = 0 \/ a \in cached
    BY DEF Begin
  <1>5. CallOK(Reading(a, h), cached')
    BY <1>2, <1>3, <1>4 DEF CallOK, Reading
  <1> QED
    BY <1>1, <1>3, <1>5, CallsOK, PrefixKept DEF PrefixInv

LEMMA PrefixAsk ==
  ASSUME TypeInv, PrefixInv, NEW c \in Client, Ask(c)
  PROVE  PrefixInv'
  <1> DEFINE k == call[c]
  <1>1. PICK n \in 0..MaxTip, v \in Views, tells \in BOOLEAN :
           call' = [call EXCEPT ![c] = Asked(k, n, v, IF tells THEN v.upto ELSE 0)]
    BY Zenon DEF Ask
  <1>2. PICK w : call' = [call EXCEPT ![c] = Asked(k, n, v, w)]
    BY <1>1
  <1>3. UNCHANGED <<height, cached>>
    BY DEF Ask, chain, store
  <1>4. k \in Call /\ CallOK(k, cached)
    BY DEF TypeInv, TypeOK, PrefixInv
  <1>5. LastKnown(k) \in Nat /\ v.upto \in Nat /\ v.block \in Nat
    <2>1. v.upto \in 0..seen /\ v.block \in Tips
      BY DEF Views
    <2> QED
      BY <1>4, <2>1, LastChoice, CacheAssumption DEF Tips, TypeInv, TypeOK
  <1>6. Limit - Len(k.hit) \in Int
    BY <1>4, CacheAssumption, LenProperties DEF Call
  <1>7. ASSUME NEW t \in Confirmed(Page(k, n, v), v), NEW u \in Tx, LastKnown(k) < u, u < t
        PROVE  u \in Confirmed(Page(k, n, v), v)
    <2>1. t \in FirstOf((LastKnown(k) + 1)..v.upto, Limit - Len(k.hit)) /\ height[t] \in 1..v.block
      BY DEF Confirmed, Page
    <2>2. t \in Tx /\ t <= v.upto
      BY <1>4, <2>1, PageType DEF FirstOf, TypeInv
    <2>3. u \in (LastKnown(k) + 1)..v.upto
      BY <1>5, <1>7, <2>2 DEF Tx
    <2>4. u \in FirstOf((LastKnown(k) + 1)..v.upto, Limit - Len(k.hit))
      BY <1>5, <1>6, <1>7, <2>1, <2>3, FirstOfClosed
    <2>5. height[u] \in 1..v.block
      BY <1>5, <1>7, <2>1, <2>2 DEF PrefixInv, Ordered, TypeInv, TypeOK
    <2> QED
      BY <2>1, <2>4, <2>5 DEF Confirmed, Page
  <1>8. ASSUME NEW C, C = cached
        PROVE  CallOK(Asked(k, n, v, w), C)
    <2> DEFINE s == Asked(k, n, v, w)
    <2>1. /\ s.bad = {} /\ s.after = k.after /\ s.hit = k.hit /\ s.phase = "asked"
          /\ s.conf = Confirmed(Page(k, n, v), v) /\ LastKnown(s) = LastKnown(k)
      BY DEF Asked, LastKnown
    <2>2. \A t \in s.conf, u \in Tx : LastKnown(s) < u /\ u < t => u \in s.conf
      BY <1>7, <2>1
    <2> HIDE DEF s
    <2>3. CallOK(s, C)
      BY <1>4, <1>8, <2>1, <2>2 DEF CallOK
    <2> QED
      BY <2>3 DEF s
  <1> QED
    BY <1>2, <1>3, <1>8, CallsOK, PrefixKept DEF PrefixInv

LEMMA PrefixStoreTransactions ==
  ASSUME TypeInv, PrefixInv, ~Flaws, NEW c \in Client, StoreTransactions(c)
  PROVE  PrefixInv'
  <1> DEFINE k == call[c]
  <1>1. PICK n \in 0..MaxTip, bad \in SUBSET k.conf :
           /\ bad # {} => Flaws
           /\ \E m \in LastBlock(Storing(k, bad, 0), n) :
                call' = [call EXCEPT ![c] = Storing(k, bad, m)]
           /\ cached' = cached \cup (Stored(Storing(k, bad, 0)) \ cached)
    BY Zenon DEF StoreTransactions
  <1>2. bad = {}
    BY <1>1
  <1>3. PICK m : call' = [call EXCEPT ![c] = Storing(k, {}, m)]
    BY <1>1, <1>2
  <1>4. cached' = cached \cup k.conf
    BY <1>1, <1>2 DEF Stored, Storing
  <1>5. k \in Call /\ CallOK(k, cached) /\ k.phase = "asked"
    BY DEF TypeInv, TypeOK, PrefixInv, StoreTransactions
  <1>6. CallOK(Storing(k, {}, m), cached')
    BY <1>4, <1>5 DEF CallOK, Storing
  <1>7. UNCHANGED height
    BY DEF StoreTransactions, chain
  <1>8. CacheIsPrefix'
    <2> SUFFICES ASSUME NEW t \in k.conf, NEW u \in 1..t PROVE u \in cached'
      BY <1>4 DEF CacheIsPrefix, PrefixInv
    <2>1. t \in Tx /\ u \in Tx /\ LastKnown(k) \in 0..NTx
      <3>1. LastKnown(k) \in 0..NTx
        BY <1>5, LastChoice
      <3>2. t \in Tx
        BY <1>5 DEF Call
      <3> QED
        BY <3>1, <3>2, CacheAssumption DEF Tx
    <2>2. CASE u = t
      BY <1>4, <2>2
    <2>3. CASE LastKnown(k) < u /\ u < t
      BY <1>4, <1>5, <2>1, <2>3 DEF CallOK
    <2>4. CASE u <= LastKnown(k)
      <3>1. LastKnown(k) \in cached
        BY <1>5, <2>1, <2>4, LastChoice DEF CallOK
      <3> QED
        BY <1>4, <2>1, <2>4, <3>1 DEF PrefixInv, CacheIsPrefix
    <2> QED
      BY <2>1, <2>2, <2>3, <2>4, CacheAssumption DEF Tx
  <1>9. Ordered'
    BY <1>7 DEF PrefixInv, Ordered
  <1>10. \A d \in Client : CallOK(call'[d], cached')
    BY <1>3, <1>4, <1>6, CallsOK
  <1> QED
    BY <1>8, <1>9, <1>10 DEF PrefixInv

LEMMA PrefixFinish ==
  ASSUME TypeInv, PrefixInv, NEW c \in Client, Finish(c)
  PROVE  PrefixInv'
  <1>1. call[c].conf \subseteq cached
    BY DEF Finish, PrefixInv, CallOK
  <1>2. cached' = cached \cup (IF Full(call[c]) THEN {} ELSE (call[c].conf \ call[c].bad) \ cached)
    BY Zenon DEF Finish
  <1>3. UNCHANGED <<height, cached>> /\ call' = [call EXCEPT ![c] = Idle]
    BY <1>1, <1>2 DEF Finish, chain
  <1> QED
    BY <1>3, IdleOK, CallsOK, PrefixKept DEF PrefixInv

(* The steps that leave the blocks, the cache and all sound calls alone.    *)
LEMMA PrefixOthers ==
  ASSUME TypeInv, PrefixInv, UNCHANGED <<height, cached>>,
         UNCHANGED call \/ \E c \in Client : call' = [call EXCEPT ![c] = Idle]
  PROVE  PrefixInv'
  <1>1. CASE UNCHANGED call
    BY <1>1, PrefixKept DEF PrefixInv
  <1>2. ASSUME NEW c \in Client, call' = [call EXCEPT ![c] = Idle]
        PROVE  PrefixInv'
    BY <1>2, IdleOK, CallsOK, PrefixKept DEF PrefixInv
  <1> QED
    BY <1>1, <1>2

LEMMA PrefixNext ==
  ASSUME ~Flaws, ~Foreign, ~Singles, TypeInv, PrefixInv, [Next]_vars
  PROVE  PrefixInv'
  <1>1. CASE \E n \in 0..NTx : Block(n)
    BY <1>1, PrefixBlock
  <1>2. CASE Announce \/ Refresh \/ Expire \/ (\E a \in 0..NTx : GetUtxos(a)) \/ UNCHANGED vars
    <2>1. UNCHANGED <<height, cached, call>>
      BY <1>2 DEF Announce, Refresh, Expire, GetUtxos, vars, chain, store
    <2> QED
      BY <2>1, PrefixOthers
  <1>3. ASSUME NEW c \in Client, Return(c) \/ Stop(c) PROVE PrefixInv'
    <2>1. UNCHANGED <<height, cached>> /\ call' = [call EXCEPT ![c] = Idle]
      BY <1>3 DEF Return, Stop, chain, store
    <2> QED
      BY <2>1, PrefixOthers
  <1>4. ASSUME NEW c \in Client, GetTransactions(c) PROVE PrefixInv'
    BY <1>3, <1>4, PrefixBegin, PrefixAsk, PrefixStoreTransactions, PrefixFinish
       DEF GetTransactions
  <1>5. \A t \in Tx : ~CacheSingle(t)
    BY DEF CacheSingle
  <1> QED
    BY <1>1, <1>2, <1>4, <1>5 DEF Next

(* As long as transactions enter the cache only through gettransactions(),  *)
(* with complete answers and after_txids the cache holds, the cache has no  *)
(* holes, for any number of clients that share it, any page size, any       *)
(* number of transactions in a block, lagging providers and calls that      *)
(* stop half way.                                                           *)
THEOREM PrefixCorrect ==
  ASSUME ~Flaws, ~Foreign, ~Singles
  PROVE  Spec => []CacheIsPrefix
  <1>1. TypeInv /\ PrefixInv /\ [Next]_vars => PrefixInv'
    BY PrefixNext
  <1>2. PrefixInv => CacheIsPrefix
    BY DEF PrefixInv
  <1> QED
    BY <1>1, <1>2, PrefixInit, TypeAlways, PTL DEF Spec

-----------------------------------------------------------------------------
(* The order of replies, when a block has at most one of the transactions.   *)

Rising ==
  \A t, u \in Tx : t < u /\ height[u] > 0 => height[t] > 0 /\ height[t] < height[u]

(* What the cache has given a call follows after_txid, without a gap.        *)
Follows(k) == \A i \in DOMAIN k.hit : k.hit[i] = k.after + i

(* A list by height is a list by number, and repeats nothing.                *)
LEMMA ListClimbs ==
  ASSUME NEW S \in SUBSET Tx, NEW q \in Lists(S), \A t \in S : height[t] > 0,
         Rising, \A t \in Tx : height[t] \in Nat
  PROVE  /\ q \in Seq(S) /\ DOMAIN q = 1..Len(q) /\ Len(q) \in Nat
         /\ \A i \in 1..Len(q) : q[i] \in S /\ q[i] \in Nat
         /\ \A i, j \in 1..Len(q) : i < j => q[i] < q[j]
  <1>1. q \in Seq(S)
    BY ListsType
  <1>2. /\ DOMAIN q = 1..Len(q) /\ Len(q) \in Nat
        /\ \A i \in 1..Len(q) : q[i] \in S /\ q[i] \in Nat
    <2>1. \A t \in S : t \in Nat
      BY CacheAssumption DEF Tx
    <2>2. Len(q) \in Nat /\ DOMAIN q = 1..Len(q)
      BY <1>1, LenProperties
    <2>3. \A i \in 1..Len(q) : q[i] \in S
      BY <1>1, ElementOfSeq
    <2> QED
      BY <2>1, <2>2, <2>3
  <1>3. \A t \in S : \E i \in 1..Len(q) : q[i] = t
    BY <1>2 DEF Lists
  <1>4. Cardinality(S) = Len(q) /\ IsFiniteSet(S)
    <2>1. IsFiniteSet(Tx)
      BY CacheAssumption, FS_Interval DEF Tx
    <2>2. IsFiniteSet(S) /\ Cardinality(S) \in Nat
      BY <2>1, FS_Subset, FS_CardinalityType
    <2>3. DOMAIN q = 1..Cardinality(S)
      BY DEF Lists
    <2> QED
      BY <1>2, <2>2, <2>3
  <1>5. \A i, j \in 1..Len(q) : i <= j => q[i] <= q[j]
    <2> SUFFICES ASSUME NEW i \in 1..Len(q), NEW j \in 1..Len(q), i <= j, ~(q[i] <= q[j])
                 PROVE  FALSE
      OBVIOUS
    <2>1. Before(q[i], q[j])
      BY <1>2 DEF Lists
    <2>2. height[q[i]] \in Nat /\ height[q[j]] \in Nat /\ q[j] < q[i]
      BY <1>2
    <2>3. height[q[j]] < height[q[i]]
      BY <1>2, <2>2 DEF Rising
    <2> QED
      BY <2>1, <2>2, <2>3 DEF Before
  <1>6. \A i, j \in 1..Len(q) : q[i] = q[j] => i = j
    <2>1. q \in [1..Len(q) -> S]
      BY <1>1, LenProperties
    <2>2. q \in Surjection(1..Len(q), S)
      BY <1>3, <2>1, Fun_IsSurj
    <2>3. IsFiniteSet(1..Len(q)) /\ Cardinality(1..Len(q)) = Len(q)
      BY <1>2, FS_Interval
    <2>4. q \in Injection(1..Len(q), S)
      BY <1>4, <2>2, <2>3, FS_Surjection
    <2> QED
      BY <2>4 DEF Injection, IsInjective
  <1>7. ASSUME NEW i \in 1..Len(q), NEW j \in 1..Len(q), i < j
        PROVE  q[i] < q[j]
    <2>1. q[i] <= q[j] /\ q[i] # q[j]
      BY <1>2, <1>5, <1>6, <1>7
    <2> QED
      BY <1>2, <2>1
  <1> QED
    BY <1>1, <1>2, <1>7

(* A sorted list of neighbours is the list of them all in turn.              *)
LEMMA ListInTurn ==
  ASSUME NEW S \in SUBSET Tx, NEW q \in Lists(S), NEW lo \in Nat,
         \A t \in S : height[t] > 0 /\ lo <= t, \A t \in S : \A u \in lo..t : u \in S,
         Rising, \A t \in Tx : height[t] \in Nat
  PROVE  q \in Seq(S) /\ \A i \in DOMAIN q : q[i] = lo + i - 1
  <1>1. /\ q \in Seq(S) /\ DOMAIN q = 1..Len(q) /\ Len(q) \in Nat
        /\ \A i \in 1..Len(q) : q[i] \in S /\ q[i] \in Nat
        /\ \A i, j \in 1..Len(q) : i < j => q[i] < q[j]
    BY ListClimbs
  <1>2. \A t \in S : \E i \in 1..Len(q) : q[i] = t
    BY <1>1 DEF Lists
  <1>3. ASSUME NEW i \in 1..Len(q)
        PROVE  q[i] = lo + i - 1
    <2> DEFINE I == 1..i
               R == lo..q[i]
               f == [j \in I |-> q[j]]
    <2>1. f \in [I -> R]
      <3> SUFFICES ASSUME NEW j \in I
                   PROVE  q[j] \in R
        OBVIOUS
      <3>1. j \in 1..Len(q) /\ (j = i \/ j < i)
        BY <1>1
      <3> QED
        BY <1>1, <3>1
    <2>2. \A t \in R : \E j \in I : f[j] = t
      <3> SUFFICES ASSUME NEW t \in R
                   PROVE  \E j \in I : q[j] = t
        OBVIOUS
      <3>1. PICK j \in 1..Len(q) : q[j] = t
        BY <1>1, <1>2
      <3>2. ~(i < j)
        <4>1. t <= q[i] /\ q[i] \in Nat /\ t \in Int
          BY <1>1
        <4> QED
          BY <1>1, <3>1, <4>1
      <3> QED
        BY <1>1, <3>1, <3>2
    <2>3. \A j, m \in I : f[j] = f[m] => j = m
      <3> SUFFICES ASSUME NEW j \in I, NEW m \in I, q[j] = q[m]
                   PROVE  j = m
        OBVIOUS
      <3>1. j \in 1..Len(q) /\ m \in 1..Len(q) /\ q[j] \in Nat
        BY <1>1
      <3>2. ~(j < m) /\ ~(m < j)
        BY <1>1, <3>1
      <3> QED
        BY <3>1, <3>2
    <2>4. q[i] \in Nat /\ lo <= q[i]
      BY <1>1
    <2>5. IsFiniteSet(I) /\ Cardinality(I) = i
      BY <1>1, FS_Interval
    <2>6. Cardinality(R) = q[i] - lo + 1
      <3>1. PICK n \in Nat : n = q[i]
        BY <2>4
      <3>2. lo \in Int /\ n \in Int /\ lo <= n
        BY <2>4, <3>1
      <3>3. Cardinality(lo..n) = n - lo + 1
        BY <3>2, FS_Interval
      <3> QED
        BY <3>1, <3>3
    <2> HIDE DEF I, R, f
    <2>7. f \in Surjection(I, R) /\ f \in Injection(I, R)
      BY <2>1, <2>2, <2>3, Fun_IsSurj, Fun_IsInj
    <2>8. Cardinality(R) = Cardinality(I)
      BY <2>5, <2>7, FS_Surjection
    <2> QED
      BY <2>4, <2>5, <2>6, <2>8
  <1> QED
    BY <1>1, <1>3

(* The start of a list.                                                      *)
LEMMA TopIs ==
  ASSUME NEW S, NEW q \in Seq(S), NEW i \in DOMAIN Top(q)
  PROVE  i \in DOMAIN q /\ Top(q)[i] = q[i] /\ i <= Limit
  <1> DEFINE n == IF Len(q) < Limit THEN Len(q) ELSE Limit
  <1>1. n \in 0..Len(q) /\ n <= Limit
    BY CacheAssumption, LenProperties
  <1>2. Top(q) = SubSeq(q, 1, n)
    BY DEF Top
  <1> HIDE DEF n
  <1>3. \A j \in 1..n : q[j] \in S
    BY <1>1, ElementOfSeq, LenProperties
  <1>4. Len(SubSeq(q, 1, n)) = n /\ \A j \in 1..n : SubSeq(q, 1, n)[j] = q[j]
    BY <1>1, <1>3, SubSeqProperties
  <1>5. DOMAIN Top(q) = 1..n
    BY <1>2, <1>4, TopType, LenProperties
  <1>6. DOMAIN q = 1..Len(q) /\ Len(q) \in Nat
    BY LenProperties
  <1>7. i \in 1..n
    BY <1>5
  <1>8. i \in 1..Len(q) /\ i <= n /\ i <= Limit
    BY <1>1, <1>6, <1>7, CacheAssumption
  <1> QED
    BY <1>2, <1>4, <1>6, <1>7, <1>8

LEMMA TopWhole ==
  ASSUME NEW S, NEW q \in Seq(S)
  PROVE  Len(Top(q)) <= Limit /\ (Len(Top(q)) # Limit => Len(q) < Limit /\ Top(q) = q)
  <1>1. q \in [1..Len(q) -> S] /\ Len(q) \in Nat /\ Limit \in Nat
    BY CacheAssumption, LenProperties
  <1>2. \A j \in 1..Len(q) : q[j] \in S
    BY <1>1
  <1>3. CASE Len(q) < Limit
    <2>1. Top(q) = SubSeq(q, 1, Len(q))
      BY <1>3 DEF Top
    <2>2. /\ SubSeq(q, 1, Len(q)) \in Seq(S) /\ Len(SubSeq(q, 1, Len(q))) = Len(q)
          /\ \A j \in 1..Len(q) : SubSeq(q, 1, Len(q))[j] = q[j]
      BY <1>1, <1>2, SubSeqProperties
    <2>3. SubSeq(q, 1, Len(q)) = q
      BY <2>2, SeqEqual, <1>1
    <2>4. Len(q) <= Limit
      BY <1>1, <1>3
    <2> QED
      BY <1>3, <2>1, <2>3, <2>4, Zenon
  <1>4. CASE ~(Len(q) < Limit)
    <2>1. Top(q) = SubSeq(q, 1, Limit)
      BY <1>4 DEF Top
    <2>2. Limit \in 0..Len(q)
      BY <1>1, <1>4
    <2>3. Len(SubSeq(q, 1, Limit)) = Limit
      BY <1>1, <1>2, <2>2, SubSeqProperties
    <2>4. Limit <= Limit
      BY <1>1
    <2> QED
      BY <2>1, <2>3, <2>4, Zenon
  <1> QED
    BY <1>3, <1>4

(* What follows an element of a list of neighbours.                          *)
LEMMA BeyondInTurn ==
  ASSUME NEW S, NEW q \in Seq(S), NEW a \in Nat, \A i \in DOMAIN q : q[i] = a + i - 1
  PROVE  /\ Len(q) # 0 => Len(Beyond(q, a)) = Len(q) - 1
         /\ \A i \in DOMAIN Beyond(q, a) : Beyond(q, a)[i] = a + i
  <1>1. DOMAIN q = 1..Len(q) /\ Len(q) \in Nat
    BY LenProperties
  <1>2. CASE Len(q) = 0
    BY <1>1, <1>2 DEF Beyond
  <1>3. CASE Len(q) # 0
    <2>1. 1 \in DOMAIN q /\ q[1] = a
      BY <1>1, <1>3
    <2>2. \A j \in DOMAIN q : q[j] = a => j = 1
      BY <1>1
    <2>3. (CHOOSE j \in DOMAIN q : q[j] = a) = 1
      BY <2>1, <2>2
    <2>4. Beyond(q, a) = SubSeq(q, 2, Len(q))
      <3>1. \E j \in DOMAIN q : q[j] = a
        BY <2>1
      <3>2. Beyond(q, a) = SubSeq(q, (CHOOSE j \in DOMAIN q : q[j] = a) + 1, Len(q))
        BY <3>1, Zenon DEF Beyond
      <3>3. 1 + 1 = 2
        OBVIOUS
      <3> QED
        BY <2>3, <3>2, <3>3, Zenon
    <2>5. \A j \in 2..Len(q) : q[j] \in S
      BY <1>1, ElementOfSeq
    <2>6. /\ Len(SubSeq(q, 2, Len(q))) = Len(q) - 1
          /\ \A j \in 1..(Len(q) - 1) : SubSeq(q, 2, Len(q))[j] = q[j + 1]
      BY <1>1, <1>3, <2>5, SubSeqProperties
    <2>7. ASSUME NEW i \in DOMAIN Beyond(q, a)
          PROVE  Beyond(q, a)[i] = a + i
      <3>1. i \in 1..(Len(q) - 1)
        BY <1>1, <2>4, <2>6, BeyondType, LenProperties
      <3>2. i + 1 \in DOMAIN q
        BY <1>1, <3>1
      <3> QED
        BY <1>1, <2>4, <2>6, <3>1, <3>2
    <2> QED
      BY <2>4, <2>6, <2>7
  <1> QED
    BY <1>2, <1>3

(* The rows among which the cache looks for what follows a.                 *)
Span(a) == {t \in cached : height[a] <= height[t] /\ height[t] <= lastBlock}

LEMMA SpanInTurn ==
  ASSUME TypeOK, CacheIsPrefix, Rising, NEW a \in cached, NEW q \in Lists(Span(a))
  PROVE  q \in Seq(Span(a)) /\ \A i \in DOMAIN q : q[i] = a + i - 1
  <1> DEFINE S == Span(a)
  <1>1. cached \in SUBSET Tx /\ (\A t \in cached : height[t] > 0) /\ \A t \in Tx : height[t] \in Nat
    BY CacheAssumption DEF TypeOK
  <1>2. S \in SUBSET Tx /\ a \in Tx /\ a \in Nat
    <2>1. S \subseteq cached
      BY DEF Span
    <2>2. a \in Tx
      BY <1>1
    <2>3. Tx \subseteq Nat
      BY CacheAssumption DEF Tx
    <2> HIDE DEF S
    <2> QED
      BY <1>1, <2>1, <2>2, <2>3
  <1>3. ASSUME NEW t \in S
        PROVE  height[t] > 0 /\ a <= t
    BY <1>1, <1>2, <1>3 DEF Rising, Tx, Span
  <1>4. ASSUME NEW t \in S, NEW u \in a..t
        PROVE  u \in S
    <2>1. t \in Tx /\ t \in cached /\ u \in 1..t /\ u \in Tx
      BY <1>1, <1>2, <1>4, CacheAssumption DEF Tx, Span
    <2>2. u \in cached
      BY <2>1 DEF CacheIsPrefix
    <2>3. height[a] <= height[u] /\ height[u] <= height[t]
      <3>1. a = u \/ a < u
        BY <1>2, <2>1 DEF Tx
      <3>2. u = t \/ u < t
        BY <2>1 DEF Tx
      <3>3. a < u => height[a] < height[u]
        BY <1>1, <1>2, <2>1, <2>2 DEF Rising
      <3>4. u < t => height[u] < height[t]
        BY <1>1, <2>1 DEF Rising
      <3> QED
        BY <1>1, <1>2, <2>1, <3>1, <3>2, <3>3, <3>4
    <2>4. height[t] <= lastBlock /\ lastBlock \in Nat
      BY CacheAssumption DEF TypeOK, Span
    <2> QED
      BY <1>1, <2>1, <2>2, <2>3, <2>4 DEF Span
  <1> HIDE DEF S
  <1>5. q \in Lists(S)
    BY DEF S
  <1>6. q \in Seq(S) /\ \A i \in DOMAIN q : q[i] = a + i - 1
    BY <1>1, <1>2, <1>3, <1>4, <1>5, ListInTurn
  <1> QED
    BY <1>6 DEF S

LEMMA CachedInTurn ==
  ASSUME TypeOK, CacheIsPrefix, Rising, NEW q \in Lists(cached)
  PROVE  q \in Seq(cached) /\ \A i \in DOMAIN q : q[i] = i
  <1>1. cached \in SUBSET Tx /\ (\A t \in cached : height[t] > 0) /\ \A t \in Tx : height[t] \in Nat
    BY CacheAssumption DEF TypeOK
  <1>2. \A t \in cached : \A u \in 1..t : u \in cached
    BY DEF CacheIsPrefix
  <1>3. \A t \in cached : height[t] > 0 /\ 1 <= t
    BY <1>1 DEF Tx
  <1>4. q \in Seq(cached) /\ \A i \in DOMAIN q : q[i] = 1 + i - 1
    BY <1>1, <1>2, <1>3, ListInTurn
  <1>5. DOMAIN q = 1..Len(q)
    BY <1>4, LenProperties
  <1> QED
    BY <1>4, <1>5

(* What the cache returns: all of it, what follows a, or nothing.           *)
LEMMA HitsCases ==
  ASSUME NEW a, NEW h \in Hits(a)
  PROVE  \/ h = <<>> /\ (row = "none" \/ (a # 0 /\ (a \notin cached \/ lastBlock = 0)))
         \/ a = 0 /\ \E q \in Lists(cached) : h = Top(q)
         \/ a # 0 /\ a \in cached /\ \E q \in Lists(Span(a)) : h = Top(Beyond(q, a))
  BY Zenon DEF Hits, Span

LEMMA HitsInTurn ==
  ASSUME TypeOK, CacheIsPrefix, Rising, NEW a \in 0..NTx, NEW h \in Hits(a), NEW i \in DOMAIN h
  PROVE  h[i] = a + i
  <1>1. h # <<>> /\ a \in Nat
    BY CacheAssumption
  <1>2. CASE a = 0 /\ \E q \in Lists(cached) : h = Top(q)
    <2>1. PICK q \in Lists(cached) : h = Top(q)
      BY <1>2
    <2>2. q \in Seq(cached) /\ \A j \in DOMAIN q : q[j] = j
      BY CachedInTurn
    <2>3. i \in DOMAIN q /\ h[i] = q[i] /\ DOMAIN q = 1..Len(q)
      BY <2>1, <2>2, TopIs, LenProperties
    <2> QED
      BY <1>2, <2>2, <2>3
  <1>3. CASE a \in cached /\ \E q \in Lists(Span(a)) : h = Top(Beyond(q, a))
    <2>1. PICK q \in Lists(Span(a)) : h = Top(Beyond(q, a))
      BY <1>3
    <2>2. q \in Seq(Span(a)) /\ \A j \in DOMAIN q : q[j] = a + j - 1
      BY <1>3, SpanInTurn
    <2>3. Beyond(q, a) \in Seq(Span(a))
      BY <2>2, BeyondType
    <2>4. i \in DOMAIN Beyond(q, a) /\ h[i] = Beyond(q, a)[i]
      BY <2>1, <2>3, TopIs
    <2> QED
      BY <1>1, <2>2, <2>4, BeyondInTurn
  <1> QED
    BY <1>1, <1>2, <1>3, HitsCases

LEMMA LastInTurn ==
  ASSUME NEW k \in Call, Follows(k)
  PROVE  LastKnown(k) = k.after + Len(k.hit)
  <1>1. k.after \in Nat /\ Len(k.hit) \in Nat /\ DOMAIN k.hit = 1..Len(k.hit)
    BY CacheAssumption, LenProperties DEF Call
  <1>2. CASE k.hit = <<>>
    BY <1>1, <1>2 DEF LastKnown
  <1>3. CASE k.hit # <<>>
    <2>1. k.hit \in Seq(Tx)
      BY DEF Call
    <2>2. Len(k.hit) \in DOMAIN k.hit
      <3>1. k.hit # <<>>
        BY <1>3
      <3> QED
        BY ONLY <2>1, <3>1, LenProperties, EmptySeq
    <2> QED
      BY <1>3, <2>2 DEF LastKnown, Follows
  <1> QED
    BY <1>2, <1>3

(* The reply to a call goes on where the cache ends.                         *)
LEMMA PagedInTurn ==
  ASSUME NEW k \in Call, Follows(k), NEW b, NEW i \in DOMAIN Paged(k, b).txs
  PROVE  Paged(k, b).txs[i] = Paged(k, b).after + i
  <1> DEFINE n == Len(k.hit) + Cardinality(k.page)
             f == [j \in 1..n |-> IF j <= Len(k.hit) THEN k.hit[j] ELSE LastKnown(k) + (j - Len(k.hit))]
  <1>1. Paged(k, b).txs = f /\ Paged(k, b).after = k.after
    BY DEF Paged
  <1>2. /\ k.hit \in Seq(Tx) /\ k.after \in Nat /\ k.page \subseteq Tx
        /\ Len(k.hit) \in Nat /\ DOMAIN k.hit = 1..Len(k.hit)
    BY CacheAssumption, LenProperties DEF Call
  <1>3. Cardinality(k.page) \in Nat
    <2>1. IsFiniteSet(Tx)
      <3>1. NTx \in Int /\ 1 \in Int
        BY CacheAssumption
      <3> QED
        BY ONLY <3>1, FS_Interval DEF Tx
    <2> QED
      BY <1>2, <2>1, FS_Subset, FS_CardinalityType
  <1>4. LastKnown(k) = k.after + Len(k.hit)
    BY LastInTurn
  <1>5. i \in 1..n /\ n \in Nat
    BY <1>1, <1>2, <1>3
  <1>6. f[i] = k.after + i
    <2>1. CASE i <= Len(k.hit)
      <3>1. i \in DOMAIN k.hit
        BY <1>2, <1>5, <2>1
      <3> QED
        BY <1>5, <2>1, <3>1 DEF Follows
    <2>2. CASE ~(i <= Len(k.hit))
      BY <1>2, <1>4, <1>5, <2>2
    <2> QED
      BY <2>1, <2>2
  <1> QED
    BY <1>1, <1>6

TurnInv == Rising /\ InOrder /\ \A c \in Client : Follows(call[c])

LEMMA IdleFollows == Follows(Idle)
  BY DEF Follows, Idle

LEMMA TurnInit == Init => TurnInv
  <1> SUFFICES ASSUME Init PROVE TurnInv
    OBVIOUS
  <1>1. Rising
    BY DEF Init, Rising
  <1>2. reply = Paged(Idle, FALSE) /\ \A c \in Client : call[c] = Idle
    BY DEF Init
  <1>3. InOrder
    <2>1. \A i \in DOMAIN Paged(Idle, FALSE).txs :
            Paged(Idle, FALSE).txs[i] = Paged(Idle, FALSE).after + i
      BY IdleType, IdleFollows, PagedInTurn
    <2> QED
      BY <1>2, <2>1 DEF InOrder
  <1> QED
    BY <1>1, <1>2, <1>3, IdleFollows DEF TurnInv

(* A block with one transaction comes after the blocks of all others.        *)
LEMMA RisingBlock ==
  ASSUME TypeInv, Rising, OneEach, NEW n \in 0..NTx, Block(n)
  PROVE  Rising'
  <1>1. \A t \in Tx : height'[t] = IF t <= n /\ height[t] = 0 THEN tip + 1 ELSE height[t]
    BY DEF Block, Tx
  <1>2. \A t, u \in Tx : t <= n /\ u <= n /\ height[t] = 0 /\ height[u] = 0 => t = u
    <2>1. \A t, u \in {x \in 1..n : height[x] = 0} : t = u
      BY Zenon DEF Block
    <2>2. \A t \in Tx : t <= n => t \in 1..n
      BY CacheAssumption DEF Tx
    <2> QED
      BY <2>1, <2>2
  <1>3. height \in [Tx -> 0..tip] /\ tip \in Nat
    BY CacheAssumption DEF TypeInv, TypeOK
  <1>4. ASSUME NEW t \in Tx, NEW u \in Tx, t < u, height'[u] > 0
        PROVE  height'[t] > 0 /\ height'[t] < height'[u]
    <2>1. n \in Int /\ t \in Int /\ u \in Int /\ height[t] \in 0..tip /\ height[u] \in 0..tip
      BY <1>3, CacheAssumption DEF Tx
    <2>2. height[u] > 0 => height[t] > 0 /\ height[t] < height[u]
      BY <1>4 DEF Rising
    <2>3. /\ height'[t] = IF t <= n /\ height[t] = 0 THEN tip + 1 ELSE height[t]
          /\ height'[u] = IF u <= n /\ height[u] = 0 THEN tip + 1 ELSE height[u]
      BY <1>1
    <2>4. ~(t <= n /\ u <= n /\ height[t] = 0 /\ height[u] = 0)
      BY <1>2, <1>4, <2>1
    <2> QED
      BY <1>3, <1>4, <2>1, <2>2, <2>3, <2>4
  <1>5. Tx' = Tx
    BY DEF Tx
  <1> QED
    BY <1>4, <1>5 DEF Rising

(* What a step of a call does to the reply and to what the call has from the *)
(* cache: it begins with something, keeps it or forgets it.                  *)
SameHit(k, l) == k.hit = l.hit /\ k.after = l.after

LEMMA CallStep ==
  ASSUME TypeInv, NEW c \in Client, GetTransactions(c)
  PROVE  /\ UNCHANGED height
         /\ \E k \in Call :
              /\ k = call[c] \/ \E a \in 0..NTx : \E h \in Hits(a) : k = Reading(a, h)
              /\ UNCHANGED reply \/ \E b \in BOOLEAN : reply' = Paged(k, b)
              /\ UNCHANGED call \/ \E l : (l = Idle \/ SameHit(l, k)) /\ call' = [call EXCEPT ![c] = l]
  <1> DEFINE Goal(k) ==
               /\ k = call[c] \/ \E a \in 0..NTx : \E h \in Hits(a) : k = Reading(a, h)
               /\ UNCHANGED reply \/ \E b \in BOOLEAN : reply' = Paged(k, b)
               /\ UNCHANGED call \/ \E l : (l = Idle \/ SameHit(l, k)) /\ call' = [call EXCEPT ![c] = l]
  <1>1. call[c] \in Call
    BY DEF TypeInv, TypeOK
  <1>2. ASSUME NEW a \in 0..NTx, Begin(c, a)
        PROVE  UNCHANGED height /\ \E k \in Call : Goal(k)
    <2>1. PICK h \in Hits(a) : \/ reply' = Paged(Reading(a, h), FALSE) /\ UNCHANGED call
                               \/ call' = [call EXCEPT ![c] = Reading(a, h)] /\ UNCHANGED reply
      BY <1>2, Zenon DEF Begin
    <2>2. Reading(a, h) \in Call
      <3>1. h \in Seq(Tx)
        BY HitsCached DEF TypeInv, TypeOK
      <3>2. row \in {"none", "stored"} /\ lastBlock \in Nat /\ blocks \in Nat
        BY CacheAssumption DEF TypeInv, TypeOK
      <3> QED
        BY <3>1, <3>2, CacheAssumption DEF Call, Reading
    <2>3. SameHit(Reading(a, h), Reading(a, h))
      BY DEF SameHit
    <2>4. Goal(Reading(a, h))
      BY <2>1, <2>3, Zenon
    <2>5. UNCHANGED height
      BY <1>2 DEF Begin, chain
    <2> HIDE DEF Goal
    <2> QED
      BY <2>2, <2>4, <2>5
  <1>3. CASE Ask(c)
    <2>1. PICK n \in 0..MaxTip, v \in Views, tells \in BOOLEAN :
             call' = [call EXCEPT ![c] = Asked(call[c], n, v, IF tells THEN v.upto ELSE 0)]
      BY <1>3, Zenon DEF Ask
    <2>2. SameHit(Asked(call[c], n, v, IF tells THEN v.upto ELSE 0), call[c])
      BY DEF Asked, SameHit
    <2>3. UNCHANGED <<height, reply>>
      BY <1>3 DEF Ask, chain
    <2> QED
      BY <1>1, <2>1, <2>2, <2>3
  <1>4. CASE StoreTransactions(c)
    <2>1. PICK n \in 0..MaxTip, b \in SUBSET call[c].conf :
             \E m \in LastBlock(Storing(call[c], b, 0), n) :
                call' = [call EXCEPT ![c] = Storing(call[c], b, m)]
      BY <1>4, Zenon DEF StoreTransactions
    <2>2. \A m : SameHit(Storing(call[c], b, m), call[c])
      BY DEF Storing, SameHit
    <2>3. UNCHANGED <<height, reply>>
      BY <1>4 DEF StoreTransactions, chain
    <2> QED
      BY <1>1, <2>1, <2>2, <2>3
  <1>5. CASE Return(c) \/ Finish(c)
    <2>1. PICK b \in BOOLEAN : reply' = Paged(call[c], b)
      BY <1>5, Zenon DEF Return, Finish
    <2>2. call' = [call EXCEPT ![c] = Idle] /\ UNCHANGED height
      BY <1>5 DEF Return, Finish, chain
    <2> QED
      BY <1>1, <2>1, <2>2
  <1>6. CASE Stop(c)
    <2>1. call' = [call EXCEPT ![c] = Idle] /\ UNCHANGED <<height, reply>>
      BY <1>6 DEF Stop, chain
    <2> QED
      BY <1>1, <2>1
  <1> QED
    BY <1>2, <1>3, <1>4, <1>5, <1>6 DEF GetTransactions

(* All other steps leave the reply and the calls alone.                      *)
LEMMA OtherStep ==
  ASSUME [Next]_vars, \A c \in Client : ~GetTransactions(c)
  PROVE  UNCHANGED <<reply, call>> /\ (UNCHANGED height \/ \E n \in 0..NTx : Block(n))
  BY DEF Next, Announce, Block, Refresh, Expire, CacheSingle, GetUtxos, vars, chain, store

LEMMA RisingNext ==
  ASSUME OneEach, TypeInv, Rising, [Next]_vars
  PROVE  Rising'
  <1>1. UNCHANGED height \/ \E n \in 0..NTx : Block(n)
    BY CallStep, OtherStep
  <1>2. CASE UNCHANGED height
    BY <1>2 DEF Rising
  <1> QED
    BY <1>1, <1>2, RisingBlock

LEMMA TurnNext ==
  ASSUME TypeInv, PrefixInv, TurnInv, [Next]_vars
  PROVE  InOrder' /\ \A c \in Client : Follows(call'[c])
  <1>1. CASE \A c \in Client : ~GetTransactions(c)
    <2>1. UNCHANGED <<reply, call>>
      BY <1>1, OtherStep
    <2> QED
      BY <2>1 DEF TurnInv, InOrder
  <1>2. ASSUME NEW c \in Client, GetTransactions(c)
        PROVE  InOrder' /\ \A d \in Client : Follows(call'[d])
    <2>1. PICK k \in Call :
            /\ k = call[c] \/ \E a \in 0..NTx : \E h \in Hits(a) : k = Reading(a, h)
            /\ UNCHANGED reply \/ \E b \in BOOLEAN : reply' = Paged(k, b)
            /\ UNCHANGED call \/ \E l : (l = Idle \/ SameHit(l, k)) /\ call' = [call EXCEPT ![c] = l]
      BY <1>2, CallStep
    <2>2. Follows(k)
      <3>1. CASE k = call[c]
        BY <3>1 DEF TurnInv
      <3>2. ASSUME NEW a \in 0..NTx, NEW h \in Hits(a), k = Reading(a, h)
            PROVE  Follows(k)
        <4>1. k.hit = h /\ k.after = a
          BY <3>2 DEF Reading
        <4>2. \A i \in DOMAIN h : h[i] = a + i
          BY HitsInTurn DEF TypeInv, PrefixInv, TurnInv
        <4> QED
          BY <4>1, <4>2 DEF Follows
      <3> QED
        BY <2>1, <3>1, <3>2
    <2>3. InOrder'
      <3>1. CASE UNCHANGED reply
        BY <3>1 DEF TurnInv, InOrder
      <3>2. ASSUME NEW b, reply' = Paged(k, b)
            PROVE  InOrder'
        <4>1. \A i \in DOMAIN Paged(k, b).txs : Paged(k, b).txs[i] = Paged(k, b).after + i
          BY <2>2, PagedInTurn
        <4> QED
          BY <3>2, <4>1 DEF InOrder
      <3> QED
        BY <2>1, <3>1, <3>2
    <2>4. ASSUME NEW d \in Client
          PROVE  Follows(call'[d])
      <3>1. call \in [Client -> Call] /\ Follows(call[d])
        BY DEF TypeInv, TypeOK, TurnInv
      <3>2. ASSUME NEW l, l = Idle \/ SameHit(l, k), call' = [call EXCEPT ![c] = l]
            PROVE  Follows(call'[d])
        <4>1. Follows(l)
          BY <2>2, <3>2, IdleFollows DEF Follows, SameHit
        <4>2. call'[d] = l \/ call'[d] = call[d]
          BY <3>1, <3>2
        <4> QED
          BY <3>1, <4>1, <4>2
      <3> QED
        BY <2>1, <3>1, <3>2
    <2> QED
      BY <2>3, <2>4
  <1> QED
    BY <1>1, <1>2

(* "Sorted from old to new", page after page: a reply continues after the    *)
(* after_txid of the caller without leaving out, repeating or swapping a     *)
(* transaction, although its first part comes from the cache, as it was when *)
(* the call began, and the rest from a provider, later, and other clients    *)
(* have stored what they found in between.  Transactions of the same block   *)
(* are the exception: see the run CacheRaces.                                *)
THEOREM OrderCorrect ==
  ASSUME ~Flaws, ~Foreign, ~Singles, OneEach
  PROVE  Spec => []InOrder
  <1>1. TypeInv /\ PrefixInv /\ [Next]_vars => PrefixInv'
    BY PrefixNext
  <1>2. TypeInv /\ PrefixInv /\ TurnInv /\ [Next]_vars => TurnInv'
    BY RisingNext, TurnNext DEF TurnInv
  <1>3. TurnInv => InOrder
    BY DEF TurnInv
  <1> QED
    BY <1>1, <1>2, <1>3, PrefixInit, TurnInit, TypeAlways, PTL DEF Spec

-----------------------------------------------------------------------------
(* That replies are sorted, also with holes in the cache.                    *)

(* What the cache has given a call is sorted and comes after after_txid.     *)
Climbs(k) ==
  \A i \in DOMAIN k.hit : /\ k.after < k.hit[i]
                          /\ \A j \in DOMAIN k.hit : i < j => k.hit[i] < k.hit[j]

AscendInv == Rising /\ Ascending /\ \A c \in Client : Climbs(call[c])

LEMMA IdleClimbs == Climbs(Idle)
  BY DEF Climbs, Idle

LEMMA HitsClimb ==
  ASSUME TypeOK, Rising, NEW a \in 0..NTx, NEW h \in Hits(a)
  PROVE  \A i \in DOMAIN h : a < h[i] /\ \A j \in DOMAIN h : i < j => h[i] < h[j]
  <1>1. cached \in SUBSET Tx /\ (\A t \in cached : height[t] > 0) /\ \A t \in Tx : height[t] \in Nat
    BY CacheAssumption DEF TypeOK
  <1>2. a \in Nat /\ \A t \in Tx : t \in Nat /\ 1 <= t
    BY CacheAssumption DEF Tx
  <1>3. CASE h = <<>>
    BY <1>3
  <1>4. CASE a = 0 /\ \E q \in Lists(cached) : h = Top(q)
    <2>1. PICK q \in Lists(cached) : h = Top(q)
      BY <1>4
    <2>2. /\ q \in Seq(cached) /\ DOMAIN q = 1..Len(q)
          /\ \A i \in 1..Len(q) : q[i] \in cached
          /\ \A i, j \in 1..Len(q) : i < j => q[i] < q[j]
      BY <1>1, ListClimbs
    <2>3. \A i \in DOMAIN h : i \in 1..Len(q) /\ h[i] = q[i]
      BY <2>1, <2>2, TopIs
    <2>4. \A t \in cached : a < t
      BY <1>1, <1>2, <1>4
    <2> QED
      BY <2>2, <2>3, <2>4
  <1>5. CASE a # 0 /\ a \in cached /\ \E q \in Lists(Span(a)) : h = Top(Beyond(q, a))
    <2>1. PICK q \in Lists(Span(a)) : h = Top(Beyond(q, a))
      BY <1>5
    <2>2. Span(a) \in SUBSET Tx /\ \A t \in Span(a) : height[t] > 0
      BY <1>1 DEF Span
    <2>3. /\ q \in Seq(Span(a)) /\ DOMAIN q = 1..Len(q) /\ Len(q) \in Nat
          /\ \A i \in 1..Len(q) : q[i] \in Span(a)
          /\ \A i, j \in 1..Len(q) : i < j => q[i] < q[j]
      BY <1>1, <2>2, ListClimbs
    <2>4. ASSUME NEW t \in Span(a)
          PROVE  a <= t
      <3>1. t \in Tx /\ a \in Tx /\ height[a] > 0 /\ height[a] <= height[t]
        BY <1>1, <1>5 DEF Span
      <3>2. t < a => height[t] < height[a]
        BY <3>1 DEF Rising
      <3> QED
        BY <1>1, <1>2, <3>1, <3>2
    <2>5. \A i \in DOMAIN h : i \in DOMAIN Beyond(q, a) /\ h[i] = Beyond(q, a)[i]
      <3>1. Beyond(q, a) \in Seq(Span(a))
        BY <2>3, BeyondType
      <3> QED
        BY <2>1, <3>1, TopIs
    <2>6. CASE ~ \E m \in DOMAIN q : q[m] = a
      <3>1. Beyond(q, a) = q
        BY <2>6 DEF Beyond
      <3>2. \A i \in DOMAIN q : a < q[i]
        <4>1. \A i \in DOMAIN q : q[i] # a /\ a <= q[i] /\ q[i] \in Nat
          BY <1>2, <2>2, <2>3, <2>4, <2>6
        <4> QED
          BY <1>2, <4>1
      <3> QED
        BY <2>3, <2>5, <3>1, <3>2
    <2>7. CASE \E m \in DOMAIN q : q[m] = a
      <3>1. PICK m \in 1..Len(q) : q[m] = a /\ Beyond(q, a) = SubSeq(q, m + 1, Len(q))
        <4>1. (CHOOSE m \in DOMAIN q : q[m] = a) \in DOMAIN q
              /\ q[CHOOSE m \in DOMAIN q : q[m] = a] = a
          BY <2>7
        <4> QED
          BY <2>3, <2>7, <4>1, Zenon DEF Beyond
      <3>2. \A j \in (m + 1)..Len(q) : q[j] \in Span(a)
        BY <2>3
      <3>3. /\ Len(SubSeq(q, m + 1, Len(q))) = Len(q) - m
            /\ \A j \in 1..(Len(q) - m) : SubSeq(q, m + 1, Len(q))[j] = q[m + j]
        <4>1. m + 1 \in 1..(Len(q) + 1) /\ Len(q) \in m..Len(q)
          BY <2>3
        <4>2. /\ SubSeq(q, m + 1, Len(q)) \in Seq(Span(a))
              /\ Len(SubSeq(q, m + 1, Len(q))) = IF m + 1 <= Len(q) THEN Len(q) - (m + 1) + 1 ELSE 0
              /\ \A i \in 1..(Len(q) - (m + 1) + 1) :
                   SubSeq(q, m + 1, Len(q))[i] = q[m + 1 + i - 1]
          BY <2>3, <3>2, SubSeqProperties
        <4>3. PICK n \in Nat : n = Len(q)
          BY <2>3, Zenon
        <4>4. /\ n - (m + 1) + 1 = n - m
              /\ (IF m + 1 <= n THEN n - (m + 1) + 1 ELSE 0) = n - m
              /\ \A j \in 1..(n - m) : m + 1 + j - 1 = m + j
          <5>1. m \in 1..n
            BY <4>3, Zenon
          <5> QED
            BY ONLY n \in Nat, <5>1
        <4>5. Len(SubSeq(q, m + 1, n)) = n - m
          BY <4>2, <4>3, <4>4, Zenon
        <4>6. \A j \in 1..(n - m) : SubSeq(q, m + 1, n)[j] = q[m + 1 + j - 1]
          BY <4>2, <4>3, <4>4, Zenon
        <4>7. \A j \in 1..(n - m) : SubSeq(q, m + 1, n)[j] = q[m + j]
          BY <4>4, <4>6, Zenon
        <4> QED
          BY <4>3, <4>5, <4>7, Zenon
      <3>4. DOMAIN Beyond(q, a) = 1..(Len(q) - m)
        <4>1. Beyond(q, a) \in Seq(Span(a))
          BY <2>3, BeyondType
        <4>2. DOMAIN Beyond(q, a) = 1..Len(Beyond(q, a))
          BY <4>1, LenProperties
        <4> QED
          BY <3>1, <3>3, <4>2, Zenon
      <3>5. \A i \in DOMAIN h : i \in 1..(Len(q) - m) /\ h[i] = q[m + i]
        BY <2>5, <3>1, <3>3, <3>4
      <3>6. \A i \in 1..(Len(q) - m) : m + i \in 1..Len(q) /\ m < m + i
        BY <2>3
      <3>7. ASSUME NEW i \in DOMAIN h
            PROVE  a < h[i] /\ \A j \in DOMAIN h : i < j => h[i] < h[j]
        <4>1. a < h[i]
          BY <2>3, <3>1, <3>5, <3>6
        <4>2. ASSUME NEW j \in DOMAIN h, i < j
              PROVE  h[i] < h[j]
          <5>1. m + i < m + j
            BY <3>5, <4>2
          <5> QED
            BY <2>3, <3>5, <3>6, <5>1
        <4> QED
          BY <4>1, <4>2
      <3> QED
        BY <3>7
    <2> QED
      BY <2>6, <2>7
  <1> QED
    BY <1>3, <1>4, <1>5, HitsCases

(* What a provider adds comes after what the cache had.                      *)
LEMMA PagedClimbs ==
  ASSUME NEW k \in Call, Climbs(k), NEW b, NEW q, q = Paged(k, b).txs
  PROVE  \A i \in DOMAIN q : k.after < q[i] /\ \A j \in DOMAIN q : i < j => q[i] < q[j]
  <1>1. PICK l \in Nat : l = Len(k.hit)
    BY LenProperties DEF Call
  <1>2. PICK p \in Nat : p = Cardinality(k.page)
    <2>1. IsFiniteSet(Tx) /\ k.page \subseteq Tx
      BY CacheAssumption, FS_Interval DEF Tx, Call
    <2> QED
      BY <2>1, FS_Subset, FS_CardinalityType
  <1>3. PICK z \in Nat : z = LastKnown(k)
    BY LastChoice, CacheAssumption
  <1>4. /\ k.after \in Nat /\ DOMAIN k.hit = 1..l
        /\ \A i \in 1..l : k.hit[i] \in Nat
    <2>1. k.hit \in Seq(Tx) /\ k.after \in Nat
      BY CacheAssumption DEF Call
    <2>2. \A i \in 1..l : k.hit[i] \in Tx
      BY <1>1, <2>1, ElementOfSeq
    <2>3. Tx \subseteq Nat
      BY CacheAssumption DEF Tx
    <2> QED
      BY <1>1, <2>1, <2>2, <2>3, LenProperties
  <1>5. k.after <= z /\ \A i \in 1..l : k.hit[i] <= z
    <2>1. CASE l = 0
      <3>1. k.hit = <<>>
        BY <1>1, <2>1, EmptySeq DEF Call
      <3> QED
        BY <1>3, <1>4, <2>1, <3>1 DEF LastKnown
    <2>2. CASE l # 0
      <3>1. k.hit # <<>>
        BY <1>1, <2>2, EmptySeq
      <3>2. z = k.hit[l] /\ l \in 1..l
        BY <1>1, <1>3, <2>2, <3>1 DEF LastKnown
      <3>3. k.after < z
        BY <1>4, <3>2 DEF Climbs
      <3>4. ASSUME NEW i \in 1..l
            PROVE  k.hit[i] <= z
        <4>1. i = l \/ i < l
          OBVIOUS
        <4>2. i < l => k.hit[i] < k.hit[l]
          BY <1>4, <3>2 DEF Climbs
        <4>3. k.hit[i] \in Nat
          BY <1>4
        <4> QED
          BY <3>2, <4>1, <4>2, <4>3
      <3> QED
        BY <1>4, <3>3, <3>4
    <2> QED
      BY <2>1, <2>2
  <1>6. /\ DOMAIN q = 1..(l + p)
        /\ \A i \in 1..(l + p) : q[i] = IF i <= l THEN k.hit[i] ELSE z + (i - l)
    BY <1>1, <1>2, <1>3 DEF Paged
  <1>7. ASSUME NEW i \in 1..(l + p)
        PROVE  k.after < q[i]
    <2>1. CASE i <= l
      <3>1. i \in 1..l /\ q[i] = k.hit[i]
        BY <1>6, <2>1
      <3> QED
        BY <1>4, <3>1 DEF Climbs
    <2>2. CASE ~(i <= l)
      BY <1>4, <1>5, <1>6, <2>2
    <2> QED
      BY <2>1, <2>2
  <1>8. ASSUME NEW i \in 1..(l + p), NEW j \in 1..(l + p), i < j
        PROVE  q[i] < q[j]
    <2>1. CASE j <= l
      <3>1. i \in 1..l /\ j \in 1..l /\ q[i] = k.hit[i] /\ q[j] = k.hit[j]
        BY <1>6, <1>8, <2>1
      <3> QED
        BY <1>4, <1>8, <3>1 DEF Climbs
    <2>2. CASE i <= l /\ ~(j <= l)
      <3>1. i \in 1..l /\ q[i] = k.hit[i] /\ q[j] = z + (j - l)
        BY <1>6, <2>2
      <3>2. k.hit[i] <= z /\ k.hit[i] \in Nat
        BY <1>4, <1>5, <3>1
      <3> QED
        BY <2>2, <3>1, <3>2
    <2>3. CASE ~(i <= l)
      <3>1. q[i] = z + (i - l) /\ q[j] = z + (j - l)
        BY <1>6, <1>8, <2>3
      <3> QED
        BY <1>8, <3>1
    <2> QED
      BY <1>8, <2>1, <2>2, <2>3
  <1> QED
    BY <1>6, <1>7, <1>8

LEMMA AscendInit == Init => AscendInv
  <1> SUFFICES ASSUME Init PROVE AscendInv
    OBVIOUS
  <1>1. Rising
    BY TurnInit DEF TurnInv
  <1>2. reply = Paged(Idle, FALSE) /\ \A c \in Client : call[c] = Idle
    BY DEF Init
  <1>3. Paged(Idle, FALSE).after = Idle.after
    BY DEF Paged
  <1>4. Ascending
    BY <1>2, <1>3, IdleType, IdleClimbs, PagedClimbs DEF Ascending
  <1> QED
    BY <1>1, <1>2, <1>4, IdleClimbs DEF AscendInv

LEMMA AscendNext ==
  ASSUME TypeInv, AscendInv, [Next]_vars
  PROVE  Ascending' /\ \A c \in Client : Climbs(call'[c])
  <1>1. CASE \A c \in Client : ~GetTransactions(c)
    <2>1. UNCHANGED <<reply, call>>
      BY <1>1, OtherStep
    <2> QED
      BY <2>1 DEF AscendInv, Ascending
  <1>2. ASSUME NEW c \in Client, GetTransactions(c)
        PROVE  Ascending' /\ \A d \in Client : Climbs(call'[d])
    <2>1. PICK k \in Call :
            /\ k = call[c] \/ \E a \in 0..NTx : \E h \in Hits(a) : k = Reading(a, h)
            /\ UNCHANGED reply \/ \E b \in BOOLEAN : reply' = Paged(k, b)
            /\ UNCHANGED call \/ \E l : (l = Idle \/ SameHit(l, k)) /\ call' = [call EXCEPT ![c] = l]
      BY <1>2, CallStep
    <2>2. Climbs(k)
      <3>1. CASE k = call[c]
        BY <3>1 DEF AscendInv
      <3>2. ASSUME NEW a \in 0..NTx, NEW h \in Hits(a), k = Reading(a, h)
            PROVE  Climbs(k)
        <4>1. k.hit = h /\ k.after = a
          BY <3>2 DEF Reading
        <4>2. \A i \in DOMAIN h : a < h[i] /\ \A j \in DOMAIN h : i < j => h[i] < h[j]
          BY HitsClimb DEF TypeInv, AscendInv
        <4> QED
          BY <4>1, <4>2 DEF Climbs
      <3> QED
        BY <2>1, <3>1, <3>2
    <2>3. Ascending'
      <3>1. CASE UNCHANGED reply
        BY <3>1 DEF AscendInv, Ascending
      <3>2. ASSUME NEW b, reply' = Paged(k, b)
            PROVE  Ascending'
        <4>1. Paged(k, b).after = k.after
          BY DEF Paged
        <4>2. \A i \in DOMAIN Paged(k, b).txs :
                /\ k.after < Paged(k, b).txs[i]
                /\ \A j \in DOMAIN Paged(k, b).txs : i < j => Paged(k, b).txs[i] < Paged(k, b).txs[j]
          BY <2>2, PagedClimbs
        <4> QED
          BY <3>2, <4>1, <4>2 DEF Ascending
      <3> QED
        BY <2>1, <3>1, <3>2
    <2>4. ASSUME NEW d \in Client
          PROVE  Climbs(call'[d])
      <3>1. call \in [Client -> Call] /\ Climbs(call[d])
        BY DEF TypeInv, TypeOK, AscendInv
      <3>2. ASSUME NEW l, l = Idle \/ SameHit(l, k), call' = [call EXCEPT ![c] = l]
            PROVE  Climbs(call'[d])
        <4>1. Climbs(l)
          BY <2>2, <3>2, IdleClimbs DEF Climbs, SameHit
        <4>2. call'[d] = l \/ call'[d] = call[d]
          BY <3>1, <3>2
        <4> QED
          BY <3>1, <4>1, <4>2
      <3> QED
        BY <2>1, <3>1, <3>2
    <2> QED
      BY <2>3, <2>4
  <1> QED
    BY <1>1, <1>2

(* Whatever is missing in the cache, and however old the block count or the  *)
(* answers are, a reply is sorted, repeats nothing and comes after the       *)
(* after_txid of the caller: with flawed answers, unknown after_txids and    *)
(* single transactions in the cache too.                                     *)
THEOREM AscendingCorrect ==
  ASSUME OneEach
  PROVE  Spec => []Ascending
  <1>1. TypeInv /\ AscendInv /\ [Next]_vars => AscendInv'
    BY RisingNext, AscendNext DEF AscendInv
  <1>2. AscendInv => Ascending
    BY DEF AscendInv
  <1> QED
    BY <1>1, <1>2, AscendInit, TypeAlways, PTL DEF Spec

-----------------------------------------------------------------------------
(* That nothing is missing, when no block count is older than a call.       *)

(* The transactions of the blocks up to n, at the heights h, are in S.      *)
Covers(S, n, h) == \A t \in Tx : h[t] \in 1..n => t \in S

(* A call that reads the cache has what it holds up to last_block, or asks  *)
(* for it; a call that has asked knows all up to its block count, unless    *)
(* the page is full; what it has stored goes up to the last_block it means  *)
(* to store.  C is what is cached, b the block count, h the heights, T the  *)
(* tip.                                                                     *)
CallSound(k, C, b, h, T) ==
  /\ k.phase # "idle" => b # 0 /\ k.count = b
  /\ k.base <= T /\ k.count <= T /\ k.mark <= T
  /\ k.phase = "read" => Covers(1..LastKnown(k), k.base, h) /\ Len(k.hit) < Limit
  /\ k.phase \in {"asked", "stored"} =>
       /\ k.conf \subseteq k.page
       /\ k.page = (LastKnown(k) + 1)..(LastKnown(k) + Cardinality(k.page))
       /\ ~Full(k) => Covers(1..LastKnown(k) \cup k.conf, k.count, h)
  /\ k.phase = "stored" => Covers(C, k.mark, h)

SoundInv ==
  /\ LastBlockSound /\ NothingMissing
  /\ reply.count \in 0..tip
  /\ \A c \in Client : CallSound(call[c], cached, blocks, height, tip)

LEMMA IdleSound == \A C, b, h : \A T \in Nat : CallSound(Idle, C, b, h, T)
  BY DEF CallSound, Idle

LEMMA SoundInit == Init => SoundInv
  <1> SUFFICES ASSUME Init PROVE SoundInv
    OBVIOUS
  <1>1. tip = 1 /\ lastBlock = 0 /\ reply = Paged(Idle, FALSE) /\ \A c \in Client : call[c] = Idle
    BY DEF Init
  <1>2. reply.complete = FALSE /\ reply.count = 0
    BY <1>1 DEF Paged, Idle
  <1>3. LastBlockSound
    BY <1>1 DEF LastBlockSound
  <1>4. NothingMissing /\ reply.count \in 0..tip
    <2>1. NothingMissing
      BY <1>2, Zenon DEF NothingMissing
    <2>2. 0 \in 0..tip
      BY ONLY <1>1
    <2>3. reply.count \in 0..tip
      BY ONLY <1>2, <2>2
    <2> QED
      BY <2>1, <2>3
  <1>5. \A c \in Client : CallSound(call[c], cached, blocks, height, tip)
    <2>1. tip \in Nat
      BY <1>1
    <2> QED
      BY <1>1, <2>1, IdleSound
  <1> QED
    BY <1>3, <1>4, <1>5 DEF SoundInv

(* New blocks are above the old tip.                                        *)
Grown(h1, h2, T) == \A t \in Tx : h2[t] = h1[t] \/ h2[t] > T

LEMMA CoversGrown ==
  ASSUME NEW S, NEW Sx, S \subseteq Sx, NEW n \in Nat, NEW T \in Nat, n <= T, NEW h1, NEW h2,
         \A t \in Tx : h2[t] \in Nat, Grown(h1, h2, T), Covers(S, n, h1)
  PROVE  Covers(Sx, n, h2)
  <1> SUFFICES ASSUME NEW t \in Tx, h2[t] \in 1..n PROVE t \in Sx
    BY DEF Covers
  <1>1. h2[t] \in Nat /\ (h2[t] = h1[t] \/ h2[t] > T)
    BY DEF Grown
  <1>2. h2[t] = h1[t]
    BY <1>1
  <1> QED
    BY <1>2 DEF Covers

(* A call stays sound while the chain and the cache grow.                   *)
LEMMA SoundKept ==
  ASSUME NEW k \in Call, NEW C, NEW Cx, C \subseteq Cx, NEW b, NEW bx, bx = b \/ k.phase = "idle",
         NEW T \in Nat, NEW Tb \in Nat, T <= Tb, NEW h1, NEW h2,
         \A t \in Tx : h2[t] \in Nat, Grown(h1, h2, T), CallSound(k, C, b, h1, T)
  PROVE  CallSound(k, Cx, bx, h2, Tb)
  <1>1. /\ k.base \in Nat /\ k.count \in Nat /\ k.mark \in Nat
        /\ k.base <= T /\ k.count <= T /\ k.mark <= T
    BY DEF Call, CallSound
  <1>2. k.phase # "idle" => bx # 0 /\ k.count = bx
    BY DEF CallSound
  <1>3. k.base <= Tb /\ k.count <= Tb /\ k.mark <= Tb
    BY <1>1
  <1>4. k.phase = "read" => Covers(1..LastKnown(k), k.base, h2) /\ Len(k.hit) < Limit
    BY <1>1, CoversGrown DEF CallSound
  <1>5. ASSUME k.phase \in {"asked", "stored"}
        PROVE  /\ k.conf \subseteq k.page
               /\ k.page = (LastKnown(k) + 1)..(LastKnown(k) + Cardinality(k.page))
               /\ ~Full(k) => Covers(1..LastKnown(k) \cup k.conf, k.count, h2)
    <2>1. ~Full(k) => Covers(1..LastKnown(k) \cup k.conf, k.count, h1)
      BY <1>5 DEF CallSound
    <2>2. ~Full(k) => Covers(1..LastKnown(k) \cup k.conf, k.count, h2)
      BY <1>1, <2>1, CoversGrown
    <2> QED
      BY <1>5, <2>2 DEF CallSound
  <1>6. k.phase = "stored" => Covers(Cx, k.mark, h2)
    BY <1>1, CoversGrown DEF CallSound
  <1> QED
    BY <1>2, <1>3, <1>4, <1>5, <1>6 DEF CallSound

(* What a step leaves alone stays sound.                                    *)
Advance ==
  /\ cached \subseteq cached'
  /\ tip <= tip'
  /\ blocks' = blocks \/ \A c \in Client : call[c].phase = "idle"
  /\ Grown(height, height', tip)

LEMMA CallsSound ==
  ASSUME TypeInv, TypeInv', SoundInv, Advance, NEW c \in Client,
         NEW k, CallSound(k, cached', blocks', height', tip'),
         call' = [call EXCEPT ![c] = k] \/ UNCHANGED call
  PROVE  \A d \in Client : CallSound(call'[d], cached', blocks', height', tip')
  <1> SUFFICES ASSUME NEW d \in Client
               PROVE  CallSound(call'[d], cached', blocks', height', tip')
    OBVIOUS
  <1>1. call \in [Client -> Call] /\ call[d] \in Call
    BY DEF TypeInv, TypeOK
  <1>2. call'[d] = k \/ call'[d] = call[d]
    BY <1>1
  <1>3. tip \in Nat /\ tip' \in Nat
    BY CacheAssumption DEF TypeInv, TypeOK
  <1>4. \A t \in Tx : height'[t] \in Nat
    <2>1. height' \in [Tx -> 0..tip']
      BY DEF TypeInv, TypeOK, Tx
    <2> QED
      BY <1>3, <2>1
  <1>5. CallSound(call[d], cached, blocks, height, tip)
    BY DEF SoundInv
  <1>6. CallSound(call[d], cached', blocks', height', tip')
    <2>1. blocks' = blocks \/ call[d].phase = "idle"
      BY DEF Advance
    <2>2. cached \subseteq cached' /\ tip <= tip' /\ Grown(height, height', tip)
      BY DEF Advance
    <2> QED
      BY <1>1, <1>3, <1>4, <1>5, <2>1, <2>2, SoundKept
  <1> QED
    BY <1>2, <1>6

(* So do last_block and the reply.                                          *)
LEMMA LastBlockKept ==
  ASSUME TypeInv, TypeInv', SoundInv, Advance, UNCHANGED lastBlock
  PROVE  LastBlockSound'
  <1>1. Covers(cached, lastBlock, height) /\ lastBlock \in Nat /\ lastBlock <= tip /\ tip \in Nat
    BY CacheAssumption DEF SoundInv, LastBlockSound, Covers, TypeInv, TypeOK
  <1>2. \A t \in Tx : height'[t] \in Nat
    BY CacheAssumption DEF TypeInv, TypeOK, Tx
  <1>3. Covers(cached', lastBlock, height')
    BY <1>1, <1>2, CoversGrown DEF Advance
  <1> QED
    BY <1>3 DEF LastBlockSound, Covers, Tx

LEMMA ReplyKept ==
  ASSUME TypeInv, TypeInv', SoundInv, Advance, UNCHANGED reply
  PROVE  NothingMissing' /\ reply'.count \in 0..tip'
  <1>1. reply.count \in Nat /\ reply.count <= tip /\ tip \in Nat /\ tip' \in Nat /\ tip <= tip'
    BY CacheAssumption DEF SoundInv, TypeInv, TypeOK, Advance
  <1>2. \A t \in Tx : height'[t] \in Nat
    BY CacheAssumption DEF TypeInv, TypeOK, Tx
  <1>3. ASSUME reply.complete, NEW t \in Tx, reply.after < t, height'[t] \in 1..reply.count
        PROVE  t \in InList(reply.txs)
    <2>1. height'[t] = height[t]
      BY <1>1, <1>2, <1>3 DEF Advance, Grown
    <2> QED
      BY <1>3, <2>1 DEF SoundInv, NothingMissing
  <1> QED
    BY <1>1, <1>3 DEF NothingMissing, Tx, InList

(* A reply that does not claim to be complete misses nothing.               *)
LEMMA ReplyOpen ==
  ASSUME TypeInv, NEW k, NEW n \in 0..tip, k.count = n, reply' = Paged(k, FALSE), UNCHANGED chain
  PROVE  NothingMissing' /\ reply'.count \in 0..tip'
  <1>1. reply'.complete = FALSE /\ reply'.count = n
    BY DEF Paged
  <1> QED
    BY <1>1 DEF NothingMissing, chain

-----------------------------------------------------------------------------
(* The block count does not change while a call is in progress.             *)
LEMMA CountStays ==
  ASSUME ~Slow, TypeInv, SoundInv, NEW c \in Client, call[c].phase # "idle", NEW n, CountRead(n)
  PROVE  n = blocks /\ n = call[c].count /\ UNCHANGED blocks
  <1>1. blocks # 0 /\ call[c].count = blocks
    BY DEF SoundInv, CallSound
  <1> QED
    BY <1>1 DEF CountRead

LEMMA HitsWhole ==
  ASSUME TypeOK, CacheIsPrefix, LastBlockSound, Rising, NEW a \in 0..NTx, NEW h \in Hits(a),
         Len(h) # Limit, a = 0 \/ a \in cached
  PROVE  Len(h) < Limit /\ Covers(1..(a + Len(h)), lastBlock, height)
  <1>1. h \in Seq(Tx) /\ \A i \in DOMAIN h : h[i] = a + i
    BY HitsInTurn, HitsCached DEF TypeOK
  <1>2. PICK n \in Nat : n = Len(h)
    BY <1>1, LenProperties
  <1>3. a \in Nat /\ lastBlock \in Nat /\ cached \subseteq Tx
    BY CacheAssumption DEF TypeOK
  <1>4. \A t \in Tx : height[t] \in Nat /\ t \in Nat /\ 1 <= t
    BY CacheAssumption DEF TypeOK, Tx
  <1>5. ASSUME NEW t \in Tx, t <= a + n
        PROVE  t \in 1..(a + Len(h))
    BY <1>2, <1>3, <1>4, <1>5
  <1>6. CASE h = <<>> /\ (row = "none" \/ (a # 0 /\ (a \notin cached \/ lastBlock = 0)))
    <2>1. lastBlock = 0
      BY <1>6 DEF TypeOK
    <2>2. Len(h) = 0
      BY <1>6, EmptySeq
    <2> QED
      BY <2>1, <2>2, CacheAssumption DEF Covers
  <1>7. CASE a = 0 /\ \E q \in Lists(cached) : h = Top(q)
    <2>1. PICK q \in Lists(cached) : h = Top(q)
      BY <1>7
    <2>2. q \in Seq(cached) /\ \A j \in DOMAIN q : q[j] = j
      BY CachedInTurn
    <2>3. Len(q) < Limit /\ h = q
      BY <2>1, <2>2, TopWhole
    <2>4. DOMAIN q = 1..n
      BY <1>2, <2>2, <2>3, LenProperties
    <2>5. ASSUME NEW t \in Tx, height[t] \in 1..lastBlock
          PROVE  t \in 1..(a + Len(h))
      <3>1. t \in cached
        BY <2>5 DEF LastBlockSound
      <3>2. PICK i \in DOMAIN q : q[i] = t
        BY <3>1 DEF Lists
      <3>3. t \in 1..n
        BY <2>2, <2>4, <3>2
      <3>4. t <= a + n
        BY <1>3, <3>3
      <3> QED
        BY <1>5, <3>4
    <2> QED
      BY <2>3, <2>5 DEF Covers
  <1>8. CASE a # 0 /\ a \in cached /\ \E q \in Lists(Span(a)) : h = Top(Beyond(q, a))
    <2>1. PICK q \in Lists(Span(a)) : h = Top(Beyond(q, a))
      BY <1>8
    <2>2. q \in Seq(Span(a)) /\ \A j \in DOMAIN q : q[j] = a + j - 1
      BY <1>8, SpanInTurn
    <2>3. Beyond(q, a) \in Seq(Span(a))
      BY <2>2, BeyondType
    <2>4. h = Beyond(q, a) /\ Len(Beyond(q, a)) < Limit
      BY <2>1, <2>3, TopWhole
    <2>5. Len(q) # 0 => n = Len(q) - 1
      BY <1>2, <1>3, <2>2, <2>4, BeyondInTurn
    <2>6. PICK m \in Nat : m = Len(q) /\ DOMAIN q = 1..m
      BY <2>2, LenProperties
    <2>7. ASSUME NEW t \in Tx, height[t] \in 1..lastBlock
          PROVE  t \in 1..(a + Len(h))
      <3>1. t \in cached
        BY <2>7 DEF LastBlockSound
      <3>2. CASE t <= a
        <4>1. t <= a + n
          BY <1>3, <1>4, <3>2
        <4> QED
          BY <1>5, <4>1
      <3>3. CASE ~(t <= a)
        <4>1. a \in Tx
          BY <1>3, <1>8
        <4>2. a < t /\ height[t] > 0
          BY <1>3, <1>4, <2>7, <3>3
        <4>3. height[a] < height[t]
          BY <4>1, <4>2 DEF Rising
        <4>4. height[a] <= height[t] /\ height[t] <= lastBlock
          BY <1>3, <1>4, <2>7, <4>1, <4>3
        <4>5. t \in Span(a)
          BY <3>1, <4>4 DEF Span
        <4>6. PICK i \in 1..m : q[i] = t
          BY <2>6, <4>5 DEF Lists
        <4>7. t = a + i - 1 /\ m # 0
          BY <2>2, <2>6, <4>6
        <4>8. t <= a + n
          BY <1>3, <2>5, <2>6, <4>6, <4>7
        <4> QED
          BY <1>5, <4>8
      <3> QED
        BY <3>2, <3>3
    <2> QED
      BY <2>4, <2>7 DEF Covers
  <1> QED
    BY <1>6, <1>7, <1>8, HitsCases

LEMMA SoundBegin ==
  ASSUME ~Slow, ~Foreign, TypeInv, TypeInv', PrefixInv, TurnInv, SoundInv,
         NEW c \in Client, NEW a \in 0..NTx, Begin(c, a)
  PROVE  SoundInv'
  <1>1. PICK h \in Hits(a) :
           IF Len(h) = Limit
           THEN reply' = Paged(Reading(a, h), FALSE) /\ UNCHANGED call
           ELSE call' = [call EXCEPT ![c] = Reading(a, h)] /\ UNCHANGED reply
    BY Zenon DEF Begin
  <1>2. /\ UNCHANGED chain /\ UNCHANGED <<blocks, store>>
        /\ (a = 0 \/ a \in cached) /\ blocks # 0
    BY DEF Begin
  <1>3. blocks \in 0..tip /\ tip \in Nat /\ lastBlock \in 0..tip
    BY CacheAssumption DEF TypeInv, TypeOK
  <1>4. Advance
    BY <1>2, <1>3 DEF Advance, Grown, chain, store
  <1>5. LastBlockSound'
    BY <1>2, <1>4, LastBlockKept DEF store
  <1>6. CASE Len(h) = Limit
    <2>1. Reading(a, h).count = blocks
      BY DEF Reading
    <2>2. NothingMissing' /\ reply'.count \in 0..tip'
      BY <1>1, <1>2, <1>3, <1>6, <2>1, ReplyOpen
    <2>3. \A d \in Client : CallSound(call'[d], cached', blocks', height', tip')
      BY <1>1, <1>2, <1>6 DEF SoundInv, chain, store
    <2> QED
      BY <1>5, <2>2, <2>3 DEF SoundInv
  <1>7. CASE Len(h) # Limit
    <2> DEFINE k == Reading(a, h)
    <2>1. /\ k.phase = "read" /\ k.after = a /\ k.hit = h /\ k.base = lastBlock
          /\ k.count = blocks /\ k.mark = 0
      BY DEF Reading
    <2>2. Len(h) < Limit /\ Covers(1..(a + Len(h)), lastBlock, height)
      BY <1>2, <1>7, HitsWhole DEF TypeInv, PrefixInv, TurnInv, SoundInv
    <2>3. k \in Call
      <3>1. h \in Seq(Tx)
        BY HitsCached DEF TypeInv, TypeOK
      <3> QED
        BY <1>3, <3>1, CacheAssumption DEF Call, Reading, TypeInv, TypeOK
    <2>4. Follows(k)
      <3>1. \A i \in DOMAIN h : h[i] = a + i
        BY HitsInTurn DEF TypeInv, PrefixInv, TurnInv
      <3> QED
        BY <2>1, <3>1 DEF Follows
    <2>5. LastKnown(k) = a + Len(h)
      <3> HIDE DEF k
      <3> QED
        BY <2>1, <2>3, <2>4, LastInTurn
    <2> HIDE DEF k
    <2>6. CallSound(k, cached, blocks, height, tip)
      BY <1>2, <1>3, <2>1, <2>2, <2>5 DEF CallSound
    <2>7. call' = [call EXCEPT ![c] = k] /\ UNCHANGED reply
      BY <1>1, <1>7 DEF k
    <2>8. CallSound(k, cached', blocks', height', tip')
      BY <1>2, <2>6 DEF chain, store
    <2>9. \A d \in Client : CallSound(call'[d], cached', blocks', height', tip')
      BY <1>4, <2>7, <2>8, CallsSound
    <2> QED
      BY <1>4, <1>5, <2>7, <2>9, ReplyKept DEF SoundInv
  <1> QED
    BY <1>6, <1>7

(* The first elements of an interval are an interval, or all of it.         *)
LEMMA FirstInTurn ==
  ASSUME NEW lo \in Nat, NEW hi \in Nat, NEW n \in Nat, NEW F, F = FirstOf(lo..hi, n)
  PROVE  F = lo..(lo + Cardinality(F) - 1) /\ (Cardinality(F) # n => F = lo..hi)
  <1>1. ASSUME NEW t \in lo..hi
        PROVE  Cardinality({u \in lo..hi : u <= t}) = t - lo + 1
    <2>1. {u \in lo..hi : u <= t} = lo..t
      OBVIOUS
    <2>2. PICK m \in Int : m = t /\ lo <= m
      OBVIOUS
    <2>3. Cardinality(lo..m) = IF lo > m THEN 0 ELSE m - lo + 1
      BY FS_Interval
    <2>4. Cardinality(lo..m) = m - lo + 1
      BY <2>2, <2>3
    <2> QED
      BY <2>1, <2>2, <2>4, Zenon
  <1>2. F = {t \in lo..hi : t - lo + 1 <= n}
    BY <1>1 DEF FirstOf
  <1>3. CASE hi - lo + 1 <= n
    <2>1. F = lo..hi
      <3>1. \A t \in lo..hi : t - lo + 1 <= n
        BY <1>3
      <3> QED
        BY <1>2, <3>1, Zenon
    <2>2. Cardinality(F) = IF lo > hi THEN 0 ELSE hi - lo + 1
      BY <2>1, FS_Interval
    <2> QED
      BY <2>1, <2>2
  <1>4. CASE ~(hi - lo + 1 <= n)
    <2>1. F = lo..(lo + n - 1)
      <3>1. \A t : t \in lo..hi /\ t - lo + 1 <= n <=> t \in lo..(lo + n - 1)
        BY <1>4
      <3> QED
        BY <1>2, <3>1, Zenon
    <2>2. lo + n - 1 \in Int
      OBVIOUS
    <2>3. Cardinality(F) = IF lo > lo + n - 1 THEN 0 ELSE lo + n - 1 - lo + 1
      BY <2>1, <2>2, FS_Interval
    <2>4. Cardinality(F) = n
      BY <2>3
    <2> QED
      BY <2>1, <2>4
  <1> QED
    BY <1>3, <1>4

LEMMA SoundAsk ==
  ASSUME ~Slow, ~Lag, TypeInv, TypeInv', SoundInv, NEW c \in Client, Ask(c)
  PROVE  SoundInv'
  <1> DEFINE k == call[c]
  <1>1. PICK n \in 0..MaxTip, v \in Views, tells \in BOOLEAN :
           /\ IF k.base # 0 THEN CountRead(n) ELSE n = blocks /\ UNCHANGED blocks
           /\ call' = [call EXCEPT ![c] = Asked(k, n, v, IF tells THEN v.upto ELSE 0)]
    BY Zenon DEF Ask
  <1>2. PICK w : call' = [call EXCEPT ![c] = Asked(k, n, v, w)]
    BY <1>1
  <1>3. k \in Call /\ k.phase = "read" /\ CallSound(k, cached, blocks, height, tip)
    BY DEF Ask, TypeInv, TypeOK, SoundInv
  <1>4. n = blocks /\ UNCHANGED blocks /\ blocks # 0
    <2>1. blocks # 0
      BY <1>3 DEF CallSound
    <2> QED
      BY <1>1, <2>1 DEF CountRead
  <1>5. UNCHANGED <<tip, height, seen, cached, lastBlock, reply>>
    BY DEF Ask, chain, store
  <1>6. tip \in Nat /\ n \in Nat /\ n <= tip /\ seen \in Nat /\ height \in [Tx -> 0..tip]
    BY <1>4, CacheAssumption DEF TypeInv, TypeOK
  <1>7. v.block = tip /\ v.upto = seen
    BY DEF Views, Tips
  <1>8. /\ Covers(1..LastKnown(k), k.base, height) /\ Len(k.hit) < Limit
        /\ Len(k.hit) \in Nat /\ Limit - Len(k.hit) \in Nat
        /\ LastKnown(k) \in Nat /\ k.base \in Nat
    <2>1. Covers(1..LastKnown(k), k.base, height) /\ Len(k.hit) < Limit
      BY <1>3 DEF CallSound
    <2>2. Len(k.hit) \in Nat /\ k.base \in Nat
      BY <1>3, LenProperties DEF Call
    <2>3. LastKnown(k) \in Nat
      BY <1>3, LastChoice, CacheAssumption
    <2> QED
      BY <2>1, <2>2, <2>3, CacheAssumption
  <1> DEFINE P == Page(k, n, v)
             F == Confirmed(P, v)
  <1>9. /\ F \subseteq P
        /\ P = (LastKnown(k) + 1)..(LastKnown(k) + Cardinality(P))
        /\ Cardinality(P) # Limit - Len(k.hit) => Covers(1..LastKnown(k) \cup F, n, height)
    <2>1. F \subseteq P
      BY DEF Confirmed
    <2>2. CASE UpToDate(k, n)
      <3>1. P = {}
        BY <2>2 DEF Page
      <3>2. Cardinality(P) = 0
        BY <3>1, FS_EmptySet
      <3>3. P = (LastKnown(k) + 1)..(LastKnown(k) + Cardinality(P))
        BY <1>8, <3>1, <3>2
      <3>4. n <= k.base
        BY <2>2 DEF UpToDate
      <3>5. Covers(1..LastKnown(k) \cup F, n, height)
        BY <1>6, <1>8, <3>4 DEF Covers
      <3> QED
        BY <2>1, <3>3, <3>5
    <2>3. CASE ~UpToDate(k, n)
      <3>1. P = FirstOf((LastKnown(k) + 1)..seen, Limit - Len(k.hit))
        BY <1>7, <2>3 DEF Page
      <3>2. LastKnown(k) + 1 \in Nat
        BY <1>8
      <3> HIDE DEF P
      <3>3. /\ P = (LastKnown(k) + 1)..(LastKnown(k) + 1 + Cardinality(P) - 1)
            /\ Cardinality(P) # Limit - Len(k.hit) => P = (LastKnown(k) + 1)..seen
        BY <1>6, <1>8, <3>1, <3>2, FirstInTurn
      <3>4. IsFiniteSet(P) /\ Cardinality(P) \in Nat
        <4>1. IsFiniteSet((LastKnown(k) + 1)..seen)
          BY <1>6, <1>8, FS_Interval
        <4>2. P \subseteq (LastKnown(k) + 1)..seen
          BY <3>1 DEF FirstOf
        <4> QED
          BY <4>1, <4>2, FS_Subset, FS_CardinalityType
      <3>5. LastKnown(k) + 1 + Cardinality(P) - 1 = LastKnown(k) + Cardinality(P)
        BY <1>8, <3>4
      <3>6. ASSUME P = (LastKnown(k) + 1)..seen, NEW t \in Tx, height[t] \in 1..n
            PROVE  t \in 1..LastKnown(k) \cup F
        <4>1. t \in Nat /\ 1 <= t /\ t <= seen /\ height[t] \in 1..tip
          BY <1>6, <3>6, CacheAssumption DEF TypeInv, TypeOK, Tx
        <4>2. CASE t <= LastKnown(k)
          BY <1>8, <4>1, <4>2
        <4>3. CASE ~(t <= LastKnown(k))
          <5>1. t \in P
            BY <1>6, <1>8, <3>6, <4>1, <4>3
          <5> QED
            BY <1>7, <4>1, <5>1 DEF Confirmed
        <4> QED
          BY <4>2, <4>3
      <3>7. Cardinality(P) # Limit - Len(k.hit) => Covers(1..LastKnown(k) \cup F, n, height)
        BY <3>3, <3>6 DEF Covers
      <3> QED
        BY <2>1, <3>3, <3>5, <3>7
    <2> QED
      BY <2>2, <2>3
  <1>10. CallSound(Asked(k, n, v, w), cached, blocks, height, tip)
    <2> DEFINE s == Asked(k, n, v, w)
    <2>1. /\ s.phase = "asked" /\ s.hit = k.hit /\ s.base = 0 /\ s.count = n /\ s.mark = 0
          /\ s.page = P /\ s.conf = F /\ LastKnown(s) = LastKnown(k)
      BY DEF Asked, LastKnown
    <2> HIDE DEF s, k, P, F
    <2>2. Full(s) <=> Cardinality(P) = Limit - Len(k.hit)
      BY <2>1 DEF Full
    <2> QED
      BY <1>4, <1>6, <1>9, <2>1, <2>2 DEF CallSound, s, k
  <1>11. Advance
    BY <1>4, <1>5, <1>6 DEF Advance, Grown
  <1>12. \A d \in Client : CallSound(call'[d], cached', blocks', height', tip')
    BY <1>2, <1>4, <1>5, <1>10, <1>11, CallsSound
  <1> QED
    BY <1>5, <1>11, <1>12, LastBlockKept, ReplyKept DEF SoundInv

LEMMA BeforeLast ==
  ASSUME CacheIsPrefix, NEW k \in Call, CallOK(k, cached), NEW t \in 1..LastKnown(k)
  PROVE  t \in cached
  <1>1. LastKnown(k) \in 0..NTx /\ (LastKnown(k) = k.after \/ LastKnown(k) \in InList(k.hit))
    BY LastChoice
  <1>2. LastKnown(k) # 0
    BY <1>1, CacheAssumption
  <1>3. LastKnown(k) \in cached
    BY <1>1, <1>2 DEF CallOK
  <1> QED
    BY <1>3 DEF CacheIsPrefix

LEMMA SoundStoreTransactions ==
  ASSUME ~Slow, ~Flaws, TypeInv, TypeInv', PrefixInv, TurnInv, SoundInv, NEW c \in Client,
         StoreTransactions(c)
  PROVE  SoundInv'
  <1> DEFINE k == call[c]
  <1>1. PICK n \in 0..MaxTip, bad \in SUBSET k.conf :
           /\ CountRead(n)
           /\ bad # {} => Flaws
           /\ \E m \in LastBlock(Storing(k, bad, 0), n) :
                call' = [call EXCEPT ![c] = Storing(k, bad, m)]
           /\ cached' = cached \cup (Stored(Storing(k, bad, 0)) \ cached)
    BY Zenon DEF StoreTransactions
  <1>2. bad = {}
    BY <1>1
  <1>3. PICK m \in LastBlock(Storing(k, {}, 0), n) : call' = [call EXCEPT ![c] = Storing(k, {}, m)]
    BY <1>1, <1>2
  <1>4. cached' = cached \cup k.conf
    BY <1>1, <1>2 DEF Stored, Storing
  <1>5. /\ k \in Call /\ CallOK(k, cached) /\ k.phase = "asked"
        /\ CallSound(k, cached, blocks, height, tip)
    BY DEF TypeInv, TypeOK, PrefixInv, SoundInv, StoreTransactions
  <1>6. UNCHANGED <<tip, height, lastBlock, reply>>
    BY DEF StoreTransactions, chain
  <1>7. n = blocks /\ n = k.count /\ UNCHANGED blocks
    BY <1>1, <1>5, CountStays
  <1>8. tip \in Nat /\ height \in [Tx -> 0..tip]
    BY CacheAssumption DEF TypeInv, TypeOK
  <1>9. m <= tip
    <2>1. call'[c] = Storing(k, {}, m) /\ call'[c].mark <= tip'
      BY <1>3 DEF TypeInv, TypeOK, CallTypes
    <2> QED
      BY <1>6, <2>1 DEF Storing
  <1>10. ASSUME NEW t \in 1..LastKnown(k)
         PROVE  t \in cached
    BY <1>5, BeforeLast DEF PrefixInv
  <1>11. Covers(cached', m, height)
    <2> SUFFICES ASSUME NEW w \in Tx, height[w] \in 1..m PROVE w \in cached'
      BY DEF Covers
    <2>1. Full(Storing(k, {}, 0)) <=> Full(k)
      BY DEF Full, Storing
    <2>2. \/ ~Full(k) /\ m = n
          \/ \E t \in k.page : m = IF t \in k.conf THEN height[t] ELSE 0
      BY <1>3, <2>1 DEF LastBlock, OfAnswer, Storing
    <2>3. CASE ~Full(k) /\ m = n
      <3>1. w \in 1..LastKnown(k) \cup k.conf
        BY <1>5, <1>7, <2>3 DEF CallSound, Covers
      <3> QED
        BY <1>4, <1>10, <3>1
    <2>4. ASSUME NEW t \in k.page, m = IF t \in k.conf THEN height[t] ELSE 0
          PROVE  w \in cached'
      <3>1. t \in k.conf /\ m = height[t]
        BY <2>4
      <3>2. t \in Tx /\ t \in Nat /\ w \in Nat /\ 1 <= w /\ LastKnown(k) \in Nat
        <4>1. t \in Tx
          BY <1>5, <3>1 DEF Call
        <4>2. LastKnown(k) \in Nat
          BY <1>5, LastChoice, CacheAssumption
        <4> QED
          BY <4>1, <4>2, CacheAssumption DEF Tx
      <3>3. w <= t
        <4>1. t < w => height[t] < height[w]
          BY <1>8, <3>2 DEF TurnInv, Rising
        <4>2. height[w] \in Nat /\ height[t] \in Nat
          BY <1>8, <3>2
        <4> QED
          BY <3>1, <3>2, <4>1, <4>2
      <3>4. CASE w <= LastKnown(k)
        BY <1>4, <1>10, <3>2, <3>4
      <3>5. CASE ~(w <= LastKnown(k)) /\ w # t
        <4>1. LastKnown(k) < w /\ w < t
          BY <3>2, <3>3, <3>5
        <4>2. w \in k.conf
          BY <1>5, <3>1, <4>1 DEF CallOK
        <4> QED
          BY <1>4, <4>2
      <3> QED
        BY <1>4, <3>1, <3>4, <3>5
    <2> QED
      BY <2>2, <2>3, <2>4
  <1>12. CallSound(Storing(k, {}, m), cached', blocks, height, tip)
    <2> DEFINE s == Storing(k, {}, m)
    <2>1. /\ s.phase = "stored" /\ s.hit = k.hit /\ s.base = 0 /\ s.count = k.count /\ s.mark = m
          /\ s.page = k.page /\ s.conf = k.conf /\ LastKnown(s) = LastKnown(k) /\ (Full(s) <=> Full(k))
      BY DEF Storing, LastKnown, Full
    <2>2. /\ blocks # 0 /\ k.count = blocks /\ k.count <= tip
          /\ k.conf \subseteq k.page
          /\ k.page = (LastKnown(k) + 1)..(LastKnown(k) + Cardinality(k.page))
          /\ ~Full(k) => Covers(1..LastKnown(k) \cup k.conf, k.count, height)
      BY <1>5 DEF CallSound
    <2>3. 0 <= tip
      BY <1>8
    <2> HIDE DEF s, k
    <2>4. CallSound(s, cached', blocks, height, tip)
      BY ONLY <1>9, <1>11, <2>1, <2>2, <2>3 DEF CallSound
    <2> QED
      BY <2>4 DEF s
  <1>13. Advance
    <2>1. cached \subseteq cached'
      BY <1>4
    <2>2. tip' = tip /\ height' = height /\ blocks' = blocks
      BY <1>6, <1>7
    <2>3. tip <= tip'
      BY <1>8, <2>2
    <2> QED
      BY <2>1, <2>2, <2>3, Zenon DEF Advance, Grown
  <1>14. \A d \in Client : CallSound(call'[d], cached', blocks', height', tip')
    BY <1>3, <1>6, <1>7, <1>12, <1>13, CallsSound
  <1> QED
    BY <1>6, <1>13, <1>14, LastBlockKept, ReplyKept DEF SoundInv

(* What a call knows is in its reply.                                       *)
LEMMA PagedHolds ==
  ASSUME NEW k \in Call, Follows(k), k.page = (LastKnown(k) + 1)..(LastKnown(k) + Cardinality(k.page)),
         NEW t \in Tx, k.after < t, t \in 1..LastKnown(k) \cup k.page, NEW b
  PROVE  t \in InList(Paged(k, b).txs)
  <1>1. /\ k.after \in Nat /\ Len(k.hit) \in Nat /\ Cardinality(k.page) \in Nat /\ t \in Nat
        /\ LastKnown(k) = k.after + Len(k.hit)
    <2>1. IsFiniteSet(Tx)
      BY CacheAssumption, FS_Interval DEF Tx
    <2>2. k.page \subseteq Tx /\ k.hit \in Seq(Tx) /\ k.after \in Nat
      BY CacheAssumption DEF Call
    <2>3. Cardinality(k.page) \in Nat
      BY <2>1, <2>2, FS_Subset, FS_CardinalityType
    <2>4. t \in Nat
      BY CacheAssumption DEF Tx
    <2> QED
      BY <2>2, <2>3, <2>4, LenProperties, LastInTurn
  <1>2. t <= LastKnown(k) + Cardinality(k.page)
    BY <1>1
  <1>3. PICK i \in Nat : i = t - k.after
    BY <1>1
  <1>4. i \in 1..(Len(k.hit) + Cardinality(k.page))
    <2>1. PICK x \in Nat : x = Len(k.hit)
      BY <1>1
    <2>2. PICK y \in Nat : y = Cardinality(k.page)
      BY <1>1
    <2>3. PICK z \in Nat : z = k.after
      BY <1>1
    <2>4. t \in Nat /\ z < t /\ t <= z + x + y /\ i = t - z
      BY <1>1, <1>2, <1>3, <2>1, <2>2, <2>3
    <2>5. i \in 1..(x + y)
      BY ONLY <2>4, x \in Nat, y \in Nat, z \in Nat
    <2> QED
      BY <2>1, <2>2, <2>5, Zenon
  <1>5. DOMAIN Paged(k, b).txs = 1..(Len(k.hit) + Cardinality(k.page)) /\ Paged(k, b).after = k.after
    BY DEF Paged
  <1>6. Paged(k, b).txs[i] = Paged(k, b).after + i
    BY <1>4, <1>5, PagedInTurn
  <1>7. Paged(k, b).txs[i] = t
    BY <1>1, <1>3, <1>5, <1>6
  <1> QED
    BY <1>4, <1>5, <1>7 DEF InList

LEMMA SoundFinish ==
  ASSUME TypeInv, TypeInv', TurnInv, SoundInv, NEW c \in Client, Finish(c)
  PROVE  SoundInv'
  <1> DEFINE k == call[c]
  <1>1. /\ k \in Call /\ k.phase = "stored" /\ Follows(k)
        /\ CallSound(k, cached, blocks, height, tip)
    BY DEF TypeInv, TypeOK, TurnInv, SoundInv, Finish
  <1>2. /\ lastBlock' = IF k.mark # 0 THEN k.mark ELSE lastBlock
        /\ cached \subseteq cached'
        /\ call' = [call EXCEPT ![c] = Idle]
        /\ reply' = Paged(k, ~Full(k))
        /\ UNCHANGED <<tip, height, blocks>>
    BY DEF Finish, chain
  <1>3. tip \in Nat /\ height \in [Tx -> 0..tip]
    BY CacheAssumption DEF TypeInv, TypeOK
  <1>4. Advance
    BY <1>2, <1>3 DEF Advance, Grown
  <1>5. \A d \in Client : CallSound(call'[d], cached', blocks', height', tip')
    BY <1>2, <1>3, <1>4, IdleSound, CallsSound
  <1>6. LastBlockSound'
    <2>1. Covers(cached, k.mark, height) /\ Covers(cached, lastBlock, height)
      BY <1>1 DEF CallSound, SoundInv, LastBlockSound, Covers
    <2>2. Covers(cached, lastBlock', height)
      BY <1>2, <2>1
    <2>3. Covers(cached', lastBlock', height')
      BY <1>2, <2>2 DEF Covers
    <2> QED
      BY <2>3 DEF LastBlockSound, Covers, Tx
  <1>7. reply'.count = k.count /\ reply'.after = k.after /\ reply'.complete = ~Full(k)
    BY <1>2 DEF Paged
  <1>8. reply'.count \in 0..tip'
    <2>1. k.count \in Nat /\ k.count <= tip
      BY <1>1 DEF Call, CallSound
    <2> QED
      BY <1>2, <1>3, <1>7, <2>1
  <1>9. ASSUME reply'.complete, NEW t \in Tx, reply'.after < t, height'[t] \in 1..reply'.count
        PROVE  t \in InList(reply'.txs)
    <2>1. ~Full(k) /\ k.after < t /\ height[t] \in 1..k.count
      BY <1>2, <1>7, <1>9
    <2>2. t \in 1..LastKnown(k) \cup k.conf
      BY <1>1, <2>1 DEF CallSound, Covers
    <2>3. k.conf \subseteq k.page /\ k.page = (LastKnown(k) + 1)..(LastKnown(k) + Cardinality(k.page))
      BY <1>1 DEF CallSound
    <2>4. t \in 1..LastKnown(k) \cup k.page
      BY <2>2, <2>3
    <2> HIDE DEF k
    <2> QED
      BY <1>1, <1>2, <2>1, <2>3, <2>4, PagedHolds
  <1>10. NothingMissing'
    BY <1>9 DEF NothingMissing, Tx, InList
  <1> QED
    BY <1>5, <1>6, <1>8, <1>10 DEF SoundInv

(* The steps that store nothing and return nothing.                         *)
LEMMA SoundOthers ==
  ASSUME TypeInv, TypeInv', SoundInv, Advance, UNCHANGED <<lastBlock, reply>>,
         UNCHANGED call \/ \E c \in Client : call' = [call EXCEPT ![c] = Idle]
  PROVE  SoundInv'
  <1>1. tip' \in Nat
    BY CacheAssumption DEF TypeInv, TypeOK
  <1>2. CallSound(Idle, cached', blocks', height', tip')
    BY <1>1, IdleSound
  <1>3. ASSUME NEW d \in Client
        PROVE  CallSound(call'[d], cached', blocks', height', tip')
    <2>1. CASE UNCHANGED call
      BY <1>2, <2>1, CallsSound
    <2>2. ASSUME NEW c \in Client, call' = [call EXCEPT ![c] = Idle]
          PROVE  CallSound(call'[d], cached', blocks', height', tip')
      BY <1>2, <2>2, CallsSound
    <2> QED
      BY <2>1, <2>2
  <1> QED
    BY <1>3, LastBlockKept, ReplyKept DEF SoundInv

LEMMA SoundNetwork ==
  ASSUME ~Slow, TypeInv, TypeInv', SoundInv,
         Announce \/ (\E n \in 0..NTx : Block(n)) \/ Refresh \/ Expire
           \/ (\E a \in 0..NTx : GetUtxos(a)) \/ UNCHANGED vars
  PROVE  SoundInv'
  <1>1. tip \in Nat /\ height \in [Tx -> 0..tip]
    BY CacheAssumption DEF TypeInv, TypeOK
  <1>2. CASE \E n \in 0..NTx : Block(n)
    <2>1. PICK n \in 0..NTx : Block(n)
      BY <1>2
    <2>2. tip' = tip + 1 /\ UNCHANGED <<blocks, cached, lastBlock, call, reply>>
      BY <2>1 DEF Block, store
    <2>3. \A t \in Tx : height'[t] = height[t] \/ height'[t] = tip + 1
      BY <2>1 DEF Block
    <2>4. Advance
      BY <1>1, <2>2, <2>3 DEF Advance, Grown
    <2> QED
      BY <2>2, <2>4, SoundOthers
  <1>3. CASE Announce \/ Refresh \/ Expire \/ (\E a \in 0..NTx : GetUtxos(a)) \/ UNCHANGED vars
    <2>1. UNCHANGED <<tip, height, cached, lastBlock, call, reply>>
      BY <1>3 DEF Announce, Refresh, Expire, GetUtxos, vars, chain, store
    <2>2. blocks' = blocks \/ \A c \in Client : call[c].phase = "idle"
      <3>1. CASE Announce \/ (\E a \in 0..NTx : GetUtxos(a)) \/ UNCHANGED vars
        BY <3>1 DEF Announce, GetUtxos, vars
      <3>2. CASE Refresh
        <4>1. PICK n : CountRead(n)
          BY <3>2 DEF Refresh
        <4>2. blocks = 0 => \A c \in Client : call[c].phase = "idle"
          BY DEF SoundInv, CallSound
        <4> QED
          BY <4>1, <4>2 DEF CountRead
      <3>3. CASE Expire
        BY <3>3 DEF Expire
      <3> QED
        BY <1>3, <3>1, <3>2, <3>3
    <2>3. Advance
      BY <1>1, <2>1, <2>2 DEF Advance, Grown
    <2> QED
      BY <2>1, <2>3, SoundOthers
  <1> QED
    BY <1>2, <1>3

LEMMA SoundLeave ==
  ASSUME TypeInv, TypeInv', SoundInv, NEW c \in Client, Return(c) \/ Stop(c)
  PROVE  SoundInv'
  <1>1. /\ UNCHANGED chain /\ UNCHANGED <<blocks, store>>
        /\ call' = [call EXCEPT ![c] = Idle]
    BY DEF Return, Stop
  <1>2. tip \in Nat /\ blocks \in 0..tip
    BY CacheAssumption DEF TypeInv, TypeOK
  <1>3. Advance
    BY <1>1, <1>2 DEF Advance, Grown, chain, store
  <1>4. CASE Stop(c)
    BY <1>1, <1>3, <1>4, SoundOthers DEF Stop, store
  <1>5. CASE Return(c)
    <2>1. reply' = Paged(call[c], FALSE) /\ call[c].phase = "asked"
      BY <1>5 DEF Return
    <2>2. call[c].count = blocks
      BY <2>1 DEF SoundInv, CallSound
    <2>3. NothingMissing' /\ reply'.count \in 0..tip'
      BY <1>1, <1>2, <2>1, <2>2, ReplyOpen
    <2>4. \A d \in Client : CallSound(call'[d], cached', blocks', height', tip')
      <3>1. CallSound(Idle, cached', blocks', height', tip')
        BY <1>1, <1>2, IdleSound DEF chain
      <3> QED
        BY <1>1, <1>3, <3>1, CallsSound
    <2>5. LastBlockSound'
      BY <1>1, <1>3, LastBlockKept DEF store
    <2> QED
      BY <2>3, <2>4, <2>5 DEF SoundInv
  <1> QED
    BY <1>4, <1>5

LEMMA SoundNext ==
  ASSUME ~Slow, ~Lag, ~Flaws, ~Foreign, ~Singles, TypeInv, TypeInv', PrefixInv, TurnInv, SoundInv,
         [Next]_vars
  PROVE  SoundInv'
  <1>1. CASE Announce \/ (\E n \in 0..NTx : Block(n)) \/ Refresh \/ Expire
             \/ (\E a \in 0..NTx : GetUtxos(a)) \/ UNCHANGED vars
    BY <1>1, SoundNetwork
  <1>2. ASSUME NEW c \in Client, GetTransactions(c)
        PROVE  SoundInv'
    BY <1>2, SoundBegin, SoundAsk, SoundLeave, SoundStoreTransactions, SoundFinish
       DEF GetTransactions
  <1>3. \A t \in Tx : ~CacheSingle(t)
    BY DEF CacheSingle
  <1> QED
    BY <1>1, <1>2, <1>3 DEF Next

LEMMA SoundAlways ==
  ASSUME ~Slow, ~Lag, ~Flaws, ~Foreign, ~Singles, OneEach
  PROVE  Spec => []SoundInv
  <1>1. TypeInv /\ PrefixInv /\ [Next]_vars => PrefixInv'
    BY PrefixNext
  <1>2. TypeInv /\ PrefixInv /\ TurnInv /\ [Next]_vars => TurnInv'
    BY RisingNext, TurnNext DEF TurnInv
  <1>3. TypeInv /\ TypeInv' /\ PrefixInv /\ TurnInv /\ SoundInv /\ [Next]_vars => SoundInv'
    BY SoundNext
  <1> QED
    BY <1>1, <1>2, <1>3, PrefixInit, TurnInit, SoundInit, TypeAlways, PTL DEF Spec

(* last_block is honest: all transactions of the blocks up to it are        *)
(* cached, also when the page that was stored last was full, so that a call *)
(* that finds last_block at the block count may answer from the cache       *)
(* alone.  It is, if providers and the block count are not late within a    *)
(* call; the clients may otherwise store and stop in any order.             *)
THEOREM LastBlockCorrect ==
  ASSUME ~Slow, ~Lag, ~Flaws, ~Foreign, ~Singles, OneEach
  PROVE  Spec => []LastBlockSound
  <1>1. SoundInv => LastBlockSound
    BY DEF SoundInv
  <1> QED
    BY <1>1, SoundAlways, PTL

(* A reply that is said to be complete misses no transaction of the blocks  *)
(* that were counted when it was asked for, although it is put together     *)
(* from a cache that others fill and from a page of a provider.             *)
THEOREM NothingMissingCorrect ==
  ASSUME ~Slow, ~Lag, ~Flaws, ~Foreign, ~Singles, OneEach
  PROVE  Spec => []NothingMissing
  <1>1. SoundInv => NothingMissing
    BY DEF SoundInv
  <1> QED
    BY <1>1, SoundAlways, PTL

-----------------------------------------------------------------------------
(* The outputs that getutxos() skips.                                        *)

(* An output that the cache knows as spent has been spent: who says so has   *)
(* seen no more than the network.                                            *)
SpentKnown(d, n) == \A t \in Tx : d[t] = "true" => Spender[t] \in 1..n

UtxoInv ==
  /\ SpentKnown(nodeSpent, seen)
  /\ \A c \in Client : call[c].upto <= seen
  /\ offer.upto \in 0..seen
  /\ UtxosComplete

(* A page that is not full has all there is.                                 *)
LEMMA FirstOfWhole ==
  ASSUME NEW S \in SUBSET Tx, NEW n \in Nat, Cardinality(FirstOf(S, n)) < n
  PROVE  FirstOf(S, n) = S
  <1> DEFINE Left == S \ FirstOf(S, n)
             Up(t) == {u \in S : u <= t}
  <1>1. NTx \in Nat /\ Left \in SUBSET (0..NTx) /\ FirstOf(S, n) \subseteq S
    <2>1. NTx \in Nat /\ Tx \subseteq 0..NTx
      BY CacheAssumption DEF Tx
    <2>2. FirstOf(S, n) \subseteq S
      BY DEF FirstOf
    <2> QED
      BY <2>1, <2>2
  <1>2. IsFiniteSet(S)
    <2>1. IsFiniteSet(1..NTx)
      BY <1>1, FS_Interval
    <2> QED
      BY <2>1, FS_Subset DEF Tx
  <1>3. ASSUME Left # {} PROVE FALSE
    <2>1. PICK m \in Left : \A x \in Left : m <= x
      <3> HIDE DEF Left
      <3> QED
        BY <1>1, <1>3, SmallestNumber
    <2>2. m \in S /\ m \notin FirstOf(S, n)
      OBVIOUS
    <2>3. IsFiniteSet(Up(m)) /\ IsFiniteSet(Up(m) \ {m}) /\ IsFiniteSet(FirstOf(S, n))
      BY <1>1, <1>2, FS_Subset
    <2>4. /\ Cardinality(Up(m)) \in Nat /\ Cardinality(Up(m) \ {m}) \in Nat
          /\ Cardinality(FirstOf(S, n)) \in Nat
      BY <2>3, FS_CardinalityType
    <2>5. ~(Cardinality(Up(m)) <= n)
      BY <2>2 DEF FirstOf
    <2>6. m \in Up(m)
      BY <2>2 DEF Tx
    <2>7. Cardinality(Up(m) \ {m}) = Cardinality(Up(m)) - 1
      <3> HIDE DEF Up
      <3> QED
        BY <2>3, <2>6, FS_RemoveElement
    <2>8. Up(m) \ {m} \subseteq FirstOf(S, n)
      <3> SUFFICES ASSUME NEW u \in S, u <= m, u # m, u \notin FirstOf(S, n) PROVE FALSE
        OBVIOUS
      <3>1. m <= u
        BY <2>1
      <3> QED
        BY <3>1, <2>2, CacheAssumption DEF Tx
    <2>9. Cardinality(Up(m) \ {m}) <= Cardinality(FirstOf(S, n))
      <3> HIDE DEF Up
      <3> QED
        BY <2>3, <2>8, FS_Subset
    <2> HIDE DEF Up
    <2> QED
      BY <2>4, <2>5, <2>7, <2>9
  <1> QED
    BY <1>1, <1>3

(* The last of some places of a list.                                        *)
LEMMA LastPlace ==
  ASSUME NEW n \in Nat, NEW P \in SUBSET (1..n), P # {}
  PROVE  /\ (CHOOSE i \in P : \A j \in P : j <= i) \in P
         /\ \A j \in P : j <= (CHOOSE i \in P : \A j2 \in P : j2 <= i)
  <1>1. Max(P) \in P /\ \A x \in P : x <= Max(P)
    <2>1. IsFiniteSet(1..n)
      BY FS_Interval
    <2>2. IsFiniteSet(P)
      BY <2>1, FS_Subset
    <2>3. P \in SUBSET Nat
      OBVIOUS
    <2> QED
      BY <2>2, <2>3, MaxIsLargest
  <1> QED
    BY <1>1

LEMMA UtxoInit == Init => UtxoInv
  BY CacheAssumption DEF Init, UtxoInv, SpentKnown, Idle, UtxosComplete, Tx

(* More is known of the network later.                                       *)
LEMMA KnownLater ==
  ASSUME UtxoInv, TypeInv, seen' \in 0..NTx, seen <= seen', UNCHANGED <<nodeSpent, call, offer>>
  PROVE  UtxoInv'
  <1>1. seen \in Nat /\ seen' \in Nat
    BY CacheAssumption DEF TypeInv, TypeOK
  <1>2. SpentKnown(nodeSpent', seen')
    BY <1>1 DEF UtxoInv, SpentKnown
  <1>3. ASSUME NEW c \in Client PROVE call'[c].upto <= seen'
    <2>1. call[c].upto \in Nat
      BY CacheAssumption DEF TypeInv, TypeOK, Call
    <2> QED
      BY <1>1, <2>1 DEF UtxoInv
  <1>4. UtxosComplete'
    <2> SUFFICES ASSUME offer.complete, NEW t \in UnspentAt(seen'), offer.after < t, t <= offer.upto
                 PROVE  t \in offer.coins
      BY DEF UtxosComplete
    <2>1. t \in Tx /\ Spender[t] \notin 1..seen' /\ t <= seen
      BY <1>1, CacheAssumption DEF UtxoInv, UnspentAt, Tx
    <2>2. t \in UnspentAt(seen)
      BY <1>1, <2>1 DEF UnspentAt
    <2> QED
      BY <2>2 DEF UtxoInv, UtxosComplete
  <1> QED
    BY <1>1, <1>2, <1>3, <1>4 DEF UtxoInv

(* A step of a call: what it learns the network knows.                       *)
LEMMA UtxoCall ==
  ASSUME UtxoInv, TypeInv, NEW c \in Client, NEW k, k.upto <= seen,
         call' = [call EXCEPT ![c] = k], UNCHANGED <<seen, offer>>, SpentKnown(nodeSpent', seen)
  PROVE  UtxoInv'
  <1>1. \A d \in Client : call'[d].upto <= seen'
    BY DEF UtxoInv, TypeInv, TypeOK
  <1>2. UtxosComplete'
    BY DEF UtxoInv, UtxosComplete, UnspentAt
  <1> QED
    BY <1>1, <1>2 DEF UtxoInv

LEMMA UtxoAsk ==
  ASSUME UtxoInv, TypeInv, NEW c \in Client, Ask(c)
  PROVE  UtxoInv'
  <1>1. PICK n \in 0..MaxTip, v \in Views, tells \in BOOLEAN :
           call' = [call EXCEPT ![c] = Asked(call[c], n, v, IF tells THEN v.upto ELSE 0)]
    BY Zenon DEF Ask
  <1>2. v.upto \in 0..seen
    BY DEF Views
  <1>3. Asked(call[c], n, v, IF tells THEN v.upto ELSE 0).upto <= seen
    BY <1>2, CacheAssumption DEF Asked, TypeInv, TypeOK
  <1>4. UNCHANGED <<seen, nodeSpent, offer>>
    BY DEF Ask, chain, store
  <1>5. SpentKnown(nodeSpent', seen)
    BY <1>4 DEF UtxoInv
  <1> QED
    BY <1>1, <1>3, <1>4, <1>5, UtxoCall

LEMMA UtxoStoreTransactions ==
  ASSUME UtxoInv, TypeInv, NEW c \in Client, StoreTransactions(c)
  PROVE  UtxoInv'
  <1>1. PICK n \in 0..MaxTip, bad \in SUBSET call[c].conf :
           /\ \E m \in LastBlock(Storing(call[c], bad, 0), n) :
                call' = [call EXCEPT ![c] = Storing(call[c], bad, m)]
           /\ nodeSpent' = [t \in Tx |-> IF t \in Stored(Storing(call[c], bad, 0)) \ cached
                                        THEN Says(Storing(call[c], bad, 0).upto, t) ELSE nodeSpent[t]]
    BY Zenon DEF StoreTransactions
  <1>2. PICK m : call' = [call EXCEPT ![c] = Storing(call[c], bad, m)]
    BY <1>1
  <1>3. /\ Storing(call[c], bad, m).upto = call[c].upto
        /\ Storing(call[c], bad, 0).upto = call[c].upto
    BY DEF Storing
  <1>4. call[c].upto \in Nat /\ call[c].upto <= seen /\ seen \in Nat
    BY CacheAssumption DEF UtxoInv, TypeInv, TypeOK, Call
  <1>5. SpentKnown(nodeSpent', seen)
    <2> SUFFICES ASSUME NEW t \in Tx, nodeSpent'[t] = "true" PROVE Spender[t] \in 1..seen
      BY DEF SpentKnown
    <2>1. nodeSpent[t] = "true" \/ Says(call[c].upto, t) = "true"
      BY <1>1, <1>3
    <2>2. Says(call[c].upto, t) = "true" => Spender[t] \in 1..call[c].upto
      BY DEF Says
    <2> QED
      BY <1>4, <2>1, <2>2 DEF UtxoInv, SpentKnown
  <1>6. UNCHANGED <<seen, offer>>
    BY DEF StoreTransactions, chain
  <1> QED
    BY <1>2, <1>3, <1>4, <1>5, <1>6, UtxoCall

LEMMA UtxoFinish ==
  ASSUME UtxoInv, TypeInv, PrefixInv, NEW c \in Client, Finish(c)
  PROVE  UtxoInv'
  <1>1. call[c].conf \subseteq cached /\ call[c].phase = "stored"
    BY DEF Finish, PrefixInv, CallOK
  <1> DEFINE N == IF Full(call[c]) THEN {} ELSE (call[c].conf \ call[c].bad) \ cached
             D == InList(call[c].hit) \cup call[c].page
  <1>2. nodeSpent' = [t \in Tx |-> IF t \notin N THEN nodeSpent[t]
                                  ELSE IF Spender[t] \in D THEN "true" ELSE "false"]
    BY Zenon DEF Finish
  <1>3. N = {}
    BY <1>1
  <1> HIDE DEF N, D
  <1>4. nodeSpent' = nodeSpent
    BY <1>2, <1>3 DEF TypeInv, TypeOK
  <1>5. SpentKnown(nodeSpent', seen)
    BY <1>4 DEF UtxoInv
  <1>6. Idle.upto <= seen
    BY CacheAssumption DEF Idle, TypeInv, TypeOK
  <1>7. call' = [call EXCEPT ![c] = Idle] /\ UNCHANGED <<seen, offer>>
    BY DEF Finish, chain
  <1> QED
    BY <1>5, <1>6, <1>7, UtxoCall

LEMMA UtxoBegin ==
  ASSUME UtxoInv, TypeInv, NEW c \in Client, NEW a \in 0..NTx, Begin(c, a)
  PROVE  UtxoInv'
  <1>1. UNCHANGED <<seen, nodeSpent, offer>>
    BY DEF Begin, chain, store
  <1>2. PICK h : UNCHANGED call \/ call' = [call EXCEPT ![c] = Reading(a, h)]
    BY Zenon DEF Begin
  <1>3. seen \in Nat /\ seen \in 0..NTx
    BY CacheAssumption DEF TypeInv, TypeOK
  <1>4. CASE UNCHANGED call
    BY <1>1, <1>3, <1>4, KnownLater
  <1>5. CASE call' = [call EXCEPT ![c] = Reading(a, h)]
    <2>1. Reading(a, h).upto <= seen
      BY <1>3 DEF Reading
    <2>2. SpentKnown(nodeSpent', seen)
      BY <1>1 DEF UtxoInv
    <2> QED
      BY <1>1, <1>5, <2>1, <2>2, UtxoCall
  <1> QED
    BY <1>2, <1>4, <1>5

(* The places of the list q that getutxos(a) takes, the last transaction of  *)
(* them, and what a provider that knows v adds.                              *)
Taken(q, a) ==
  {i \in DOMAIN q : /\ KnownUpTo(q, i)
                    /\ nodeSpent[q[i]] = "false"
                    /\ \A j \in DOMAIN q : q[j] = a /\ KnownUpTo(q, j) => j < i}

LastTaken(q, a) ==
  IF Taken(q, a) = {} THEN a ELSE q[CHOOSE i \in Taken(q, a) : \A j \in Taken(q, a) : j <= i]

Added(q, a, v) == FirstOf({t \in UnspentAt(v.upto) : LastTaken(q, a) < t}, Limit)

(* When the provider has told all, nothing that is unspent is missing.       *)
LEMMA NothingSkipped ==
  ASSUME TypeOK, CacheIsPrefix, Rising, SpentKnown(nodeSpent, seen),
         NEW a \in 0..NTx, NEW q \in Lists(cached), NEW v \in Views,
         Cardinality(Added(q, a, v)) < Limit,
         NEW t \in UnspentAt(seen), a < t, t <= v.upto
  PROVE  t \in {q[i] : i \in Taken(q, a)} \cup Added(q, a, v)
  <1> DEFINE P == Taken(q, a)
             l == LastTaken(q, a)
  <1>1. /\ DOMAIN q = 1..Len(q) /\ Len(q) \in Nat
        /\ \A i \in 1..Len(q) : q[i] = i /\ i \in Tx
    <2>1. q \in Seq(cached) /\ \A i \in DOMAIN q : q[i] = i
      BY CachedInTurn
    <2>2. DOMAIN q = 1..Len(q) /\ Len(q) \in Nat
      BY <2>1, LenProperties
    <2>3. \A i \in 1..Len(q) : q[i] \in cached
      BY <2>1, ElementOfSeq
    <2> QED
      BY <2>1, <2>2, <2>3 DEF TypeOK
  <1>2. t \in Tx /\ t \in Nat /\ Spender[t] \notin 1..seen
    BY DEF UnspentAt, Tx
  <1>3. v.upto \in 0..seen /\ seen \in Nat
    BY CacheAssumption DEF Views, TypeOK
  <1>4. t \in UnspentAt(v.upto)
    BY <1>2, <1>3 DEF UnspentAt
  <1>5. CASE l < t
    <2> DEFINE R == {x \in UnspentAt(v.upto) : l < x}
    <2>1. t \in R /\ R \in SUBSET Tx
      BY <1>4, <1>5 DEF UnspentAt
    <2>2. Added(q, a, v) = FirstOf(R, Limit)
      BY DEF Added
    <2> HIDE DEF R
    <2>3. Added(q, a, v) = R
      BY <2>1, <2>2, CacheAssumption, FirstOfWhole
    <2> QED
      BY <2>1, <2>3
  <1>6. CASE ~(l < t)
    <2>1. P # {}
      BY <1>2, <1>6 DEF LastTaken
    <2>2. PICK m \in P : l = q[m]
      <3>1. P \in SUBSET (1..Len(q))
        BY <1>1 DEF Taken
      <3>2. l = q[CHOOSE i \in P : \A j \in P : j <= i]
        BY <2>1 DEF LastTaken
      <3> HIDE DEF P, l
      <3>3. (CHOOSE i \in P : \A j \in P : j <= i) \in P
        BY ONLY <1>1, <2>1, <3>1, LastPlace
      <3> QED
        BY <3>2, <3>3
    <2>3. m \in 1..Len(q) /\ l = m /\ KnownUpTo(q, m)
      BY <1>1, <2>2 DEF Taken
    <2>4. t \in 1..Len(q) /\ t <= m /\ q[t] = t
      BY <1>1, <1>2, <1>6, <2>3 DEF Tx
    <2>5. KnownUpTo(q, t)
      BY <1>1, <2>3, <2>4 DEF KnownUpTo
    <2>6. nodeSpent[t] # "none"
      BY <2>4, <2>5 DEF KnownUpTo
    <2>7. nodeSpent[t] = "false"
      BY <1>2, <2>6 DEF TypeOK, SpentKnown
    <2>8. \A j \in DOMAIN q : q[j] = a => j < t
      BY <1>1
    <2>9. t \in P
      BY <1>1, <2>4, <2>5, <2>7, <2>8 DEF Taken
    <2> QED
      BY <2>4, <2>9
  <1> QED
    BY <1>5, <1>6

LEMMA UtxoGetUtxos ==
  ASSUME UtxoInv, TypeInv, PrefixInv, Rising, NEW a \in 0..NTx, GetUtxos(a)
  PROVE  UtxoInv'
  <1>1. PICK q \in Lists(cached), v \in Views :
           /\ nodeSpent' = [t \in Tx |-> IF t \in Added(q, a, v) \cap cached THEN "false" ELSE nodeSpent[t]]
           /\ offer' = [after |-> a, coins |-> {q[i] : i \in Taken(q, a)} \cup Added(q, a, v),
                        complete |-> Cardinality(Added(q, a, v)) < Limit, upto |-> v.upto]
    BY Zenon DEF GetUtxos, Taken, LastTaken, Added
  <1>2. UNCHANGED <<seen, call>>
    BY DEF GetUtxos, chain
  <1>3. v.upto \in 0..seen
    BY DEF Views
  <1>4. ASSUME offer'.complete, NEW t \in UnspentAt(seen), offer'.after < t, t <= offer'.upto
        PROVE  t \in offer'.coins
    <2>1. Cardinality(Added(q, a, v)) < Limit /\ a < t /\ t <= v.upto
      BY <1>1, <1>4
    <2>2. TypeOK /\ CacheIsPrefix /\ SpentKnown(nodeSpent, seen)
      BY DEF TypeInv, PrefixInv, UtxoInv
    <2>3. t \in {q[i] : i \in Taken(q, a)} \cup Added(q, a, v)
      BY <2>1, <2>2, NothingSkipped
    <2> QED
      BY <1>1, <2>3
  <1>5. SpentKnown(nodeSpent', seen)
    BY <1>1 DEF UtxoInv, SpentKnown
  <1>6. offer'.upto \in 0..seen
    BY <1>1, <1>3
  <1>7. UtxosComplete'
    BY <1>2, <1>4 DEF UtxosComplete, UnspentAt
  <1> QED
    BY <1>2, <1>5, <1>6, <1>7 DEF UtxoInv

LEMMA UtxoNext ==
  ASSUME ~Singles, TypeInv, PrefixInv, Rising, UtxoInv, [Next]_vars
  PROVE  UtxoInv'
  <1>1. seen \in 0..NTx /\ seen \in Nat
    BY CacheAssumption DEF TypeInv, TypeOK
  <1>2. CASE Announce \/ (\E n \in 0..NTx : Block(n)) \/ Refresh \/ Expire \/ UNCHANGED vars
    <2>1. seen' \in 0..NTx /\ seen <= seen' /\ UNCHANGED <<nodeSpent, call, offer>>
      BY <1>1, <1>2, CacheAssumption DEF Announce, Block, Refresh, Expire, vars, chain, store
    <2> QED
      BY <2>1, KnownLater
  <1>3. ASSUME NEW c \in Client, Return(c) \/ Stop(c) PROVE UtxoInv'
    <2>1. call' = [call EXCEPT ![c] = Idle] /\ UNCHANGED <<seen, nodeSpent, offer>>
      BY <1>3 DEF Return, Stop, chain, store
    <2>2. Idle.upto <= seen /\ SpentKnown(nodeSpent', seen)
      BY <1>1, <2>1 DEF Idle, UtxoInv
    <2> QED
      BY <2>1, <2>2, UtxoCall
  <1>4. ASSUME NEW c \in Client, GetTransactions(c) PROVE UtxoInv'
    BY <1>3, <1>4, UtxoBegin, UtxoAsk, UtxoStoreTransactions, UtxoFinish DEF GetTransactions
  <1>5. \A t \in Tx : ~CacheSingle(t)
    BY DEF CacheSingle
  <1> QED
    BY <1>2, <1>4, <1>5, UtxoGetUtxos DEF Next

(* getutxos() withholds no output that is unspent, although it skips what    *)
(* the cache knows as spent and asks a provider only after the last output   *)
(* it has taken from the cache; also when providers are behind, or calls of  *)
(* several clients fill the cache at the same time and stop half way.        *)
THEOREM UtxosCorrect ==
  ASSUME ~Flaws, ~Foreign, ~Singles, OneEach
  PROVE  Spec => []UtxosComplete
  <1>1. TypeInv /\ PrefixInv /\ [Next]_vars => PrefixInv'
    BY PrefixNext
  <1>2. TypeInv /\ Rising /\ [Next]_vars => Rising'
    BY RisingNext
  <1>3. TypeInv /\ PrefixInv /\ Rising /\ UtxoInv /\ [Next]_vars => UtxoInv'
    BY UtxoNext
  <1>4. Init => Rising
    BY TurnInit DEF TurnInv
  <1>5. UtxoInv => UtxosComplete
    BY DEF UtxoInv
  <1> QED
    BY <1>1, <1>2, <1>3, <1>4, <1>5, PrefixInit, UtxoInit, TypeAlways, PTL DEF Spec

-----------------------------------------------------------------------------
(* Sums over any finite set.                                                 *)
LEMMA SumFor ==
  ASSUME NEW S, IsFiniteSet(S), NEW f, \A x \in S : f[x] \in Int
  PROVE  \E it : IsSum(it, f, S)
  <1> DEFINE ch == [T \in SUBSET S |-> CHOOSE x \in T : TRUE]
  <1>1. Picks(ch, S)
    BY DEF Picks
  <1> HIDE DEF ch
  <1>2. PICK it \in [SUBSET S -> Int] : AddsUp(it, f, ch, S)
    BY ONLY IsFiniteSet(S), \A x \in S : f[x] \in Int, <1>1, SumExists, Zenon
  <1>3. IsSum(it, f, S)
    BY ONLY IsFiniteSet(S), \A x \in S : f[x] \in Int, <1>1, <1>2, AddedUpIsSum, Zenon
  <1> QED
    BY <1>3

LEMMA SumOverIs ==
  ASSUME NEW S, IsFiniteSet(S), NEW f, \A x \in S : f[x] \in Int
  PROVE  \E a : IsSum(a, f, S) /\ SumOver(S, f) = a[S]
  <1> DEFINE ch == [T \in SUBSET S |-> CHOOSE x \in T : TRUE]
             next(it) == [T \in SUBSET S |-> IF T = {} THEN 0
                            ELSE f[CHOOSE x \in T : TRUE] + it[T \ {CHOOSE x \in T : TRUE}]]
             a == CHOOSE it : it = next(it)
  <1>1. SumOver(S, f) = a[S]
    BY DEF SumOver, MapThenSumSet, MapThenFoldSet
  <1>2. Picks(ch, S)
    BY DEF Picks
  <1>3. \A T \in SUBSET S : ch[T] = CHOOSE x \in T : TRUE
    OBVIOUS
  <1> HIDE DEF ch
  <1>4. PICK it \in [SUBSET S -> Int] : AddsUp(it, f, ch, S)
    BY ONLY IsFiniteSet(S), \A x \in S : f[x] \in Int, <1>2, SumExists, Zenon
  <1>5. a = next(a)
    <2>1. ASSUME NEW T \in SUBSET S, T # {}
          PROVE  it[T] = f[CHOOSE x \in T : TRUE] + it[T \ {CHOOSE x \in T : TRUE}]
      <3>1. PICK c \in T : c = ch[T]
        BY <1>2, <2>1 DEF Picks
      <3>2. it[T] \in {f[c] + it[T \ {c}], it[T \ {c}] + f[c]}
        BY <1>4, <2>1, <3>1 DEF AddsUp
      <3>3. PICK v \in Int : v = it[T \ {c}]
        OBVIOUS
      <3>4. PICK w \in Int : w = f[c]
        OBVIOUS
      <3>5. it[T] = f[c] + it[T \ {c}]
        BY <3>2, <3>3, <3>4
      <3> QED
        BY <1>3, <3>1, <3>5
    <2>2. it[{}] = 0
      BY <1>4 DEF AddsUp
    <2>3. it = next(it)
      BY <2>1, <2>2
    <2> QED
      BY <2>3
  <1> HIDE DEF a
  <1>6. AddsUp(a, f, ch, S)
    BY <1>3, <1>5 DEF AddsUp
  <1>7. IsSum(a, f, S)
    BY ONLY IsFiniteSet(S), \A x \in S : f[x] \in Int, <1>2, <1>6, AddedUpIsSum, Zenon
  <1> QED
    BY <1>1, <1>7

-----------------------------------------------------------------------------
(* Elements that are removed from a list.                                    *)
LEMMA SubSeqIs ==
  ASSUME NEW A, NEW s \in Seq(A), NEW m \in Nat \ {0}, NEW n \in Nat, m <= n + 1, n <= Len(s)
  PROVE  /\ SubSeq(s, m, n) \in Seq(A) /\ Len(SubSeq(s, m, n)) = n - m + 1
         /\ \A y \in 1..(n - m + 1) : SubSeq(s, m, n)[y] = s[m + y - 1]
  <1>1. \A j \in m..n : j \in 1..Len(s)
    OBVIOUS
  <1>2. \A j \in m..n : s[j] \in A
    BY <1>1
  <1>3. /\ SubSeq(s, m, n) \in Seq(A)
        /\ Len(SubSeq(s, m, n)) = IF m <= n THEN n - m + 1 ELSE 0
        /\ \A y \in 1..(n - m + 1) : SubSeq(s, m, n)[y] = s[m + y - 1]
    BY ONLY m \in Nat \ {0}, n \in Nat, <1>2, SubSeqProperties
  <1>4. m <= n \/ n - m + 1 = 0
    OBVIOUS
  <1> QED
    BY <1>3, <1>4

LEMMA RemoveAtPlaces ==
  ASSUME NEW A, NEW s \in Seq(A), NEW i \in 1..Len(s)
  PROVE  /\ RemoveAt(s, i) \in Seq(A)
         /\ Len(RemoveAt(s, i)) = Len(s) - 1
         /\ \A y \in 1..(Len(s) - 1) : RemoveAt(s, i)[y] = s[IF y < i THEN y ELSE y + 1]
  <1>1. PICK n \in Nat : n = Len(s)
    OBVIOUS
  <1>2. PICK k \in Nat : k + 1 = i /\ k + 1 <= n
    BY <1>1
  <1>3. PICK t : t = SubSeq(s, 1, i - 1)
    OBVIOUS
  <1>4. PICK u : u = SubSeq(s, i + 1, n)
    OBVIOUS
  <1>5. t \in Seq(A) /\ Len(t) = k /\ \A y \in 1..k : t[y] = s[y]
    <2>1. i - 1 = k /\ 1 <= k + 1 /\ k <= n /\ k - 1 + 1 = k /\ \A y \in 1..k : 1 + y - 1 = y
      BY <1>1, <1>2
    <2>2. /\ SubSeq(s, 1, k) \in Seq(A) /\ Len(SubSeq(s, 1, k)) = k - 1 + 1
          /\ \A y \in 1..(k - 1 + 1) : SubSeq(s, 1, k)[y] = s[1 + y - 1]
      <3>1. 1 \in Nat \ {0} /\ k <= Len(s)
        BY <1>1, <2>1
      <3> QED
        BY ONLY s \in Seq(A), k \in Nat, <2>1, <3>1, SubSeqIs
    <2> QED
      BY ONLY <1>3, <2>1, <2>2
  <1>6. u \in Seq(A) /\ Len(u) = n - (k + 1) /\ \A y \in 1..(n - (k + 1)) : u[y] = s[k + 1 + y]
    <2>1. /\ i + 1 = k + 2 /\ k + 2 <= n + 1 /\ n - (k + 2) + 1 = n - (k + 1) /\ k + 2 \in Nat \ {0}
          /\ \A y \in 1..(n - (k + 1)) : (k + 2) + y - 1 = k + 1 + y
      BY <1>1, <1>2
    <2>2. PICK m \in Nat \ {0} : m = k + 2 /\ m = i + 1
      BY <2>1
    <2>3. /\ SubSeq(s, m, n) \in Seq(A) /\ Len(SubSeq(s, m, n)) = n - m + 1
          /\ \A y \in 1..(n - m + 1) : SubSeq(s, m, n)[y] = s[m + y - 1]
      <3>1. m <= n + 1 /\ n <= Len(s)
        BY <1>1, <2>1, <2>2
      <3> QED
        BY ONLY s \in Seq(A), n \in Nat, m \in Nat \ {0}, <3>1, SubSeqIs
    <2> QED
      BY ONLY <1>4, <2>1, <2>2, <2>3
  <1>7. RemoveAt(s, i) = t \o u
    BY <1>1, <1>3, <1>4 DEF RemoveAt
  <1>8. PICK l \in Nat : l = n - (k + 1) /\ k + l = n - 1 /\ k \in Nat
    BY <1>2
  <1>9. Len(t) = k /\ Len(u) = l
    BY <1>5, <1>6, <1>8
  <1>10. /\ t \o u \in Seq(A) /\ Len(t \o u) = k + l
         /\ \A y \in 1..(k + l) : (t \o u)[y] = IF y <= k THEN t[y] ELSE u[y - k]
    <2>1. t \in Seq(A) /\ u \in Seq(A)
      BY <1>5, <1>6
    <2>2. /\ t \o u \in Seq(A) /\ Len(t \o u) = Len(t) + Len(u)
          /\ \A y \in 1..(Len(t) + Len(u)) : (t \o u)[y] = IF y <= Len(t) THEN t[y] ELSE u[y - Len(t)]
      BY ONLY <2>1, ConcatProperties
    <2> QED
      BY ONLY <1>9, <2>2
  <1>11. ASSUME NEW y \in 1..(k + l)
         PROVE  (t \o u)[y] = s[IF y < i THEN y ELSE y + 1]
    <2>1. CASE y <= k
      <3>1. y \in 1..k /\ y < i
        BY <1>2, <2>1
      <3> QED
        BY <1>5, <1>10, <2>1, <3>1
    <2>2. CASE y > k
      <3>1. PICK z \in 1..l : z = y - k /\ k + 1 + z = y + 1 /\ ~(y < i) /\ ~(y <= k)
        BY <1>2, <1>8, <2>2
      <3> QED
        BY <1>6, <1>8, <1>10, <3>1
    <2>3. y <= k \/ y > k
      BY <1>8
    <2> QED
      BY <2>1, <2>2, <2>3
  <1> QED
    BY <1>1, <1>7, <1>8, <1>10, <1>11

LEMMA RemoveFirstIs ==
  ASSUME NEW A, NEW s \in Seq(A), NEW x \in 1..Len(s)
  PROVE  \E i \in 1..Len(s) : s[i] = s[x] /\ RemoveFirst(s, s[x]) = RemoveAt(s, i)
  <1> DEFINE I == {j \in 1..Len(s) : s[j] = s[x]}
  <1>1. Len(s) \in Nat /\ I \in SUBSET (0..Len(s)) /\ I # {}
    OBVIOUS
  <1>2. Min(I) \in I
    BY ONLY <1>1, MinIsSmallest
  <1>3. RemoveFirst(s, s[x]) = RemoveAt(s, Min(I))
    BY <1>1 DEF RemoveFirst, SelectInSeq
  <1> QED
    BY <1>2, <1>3

-----------------------------------------------------------------------------
(* The sum of balances that getbalance() collects.                           *)

Addresses == DOMAIN Value

(* What an address had at the cached block count or later.                   *)
Worth(a) == {Value[a][h] : h \in {x \in 1..best : count.n <= x}}

(* The list holds what is left of q: place y is that of q's place P[y]; sum  *)
(* is made of a balance of each of the others.                               *)
Holds(q, list, sum, P, w, it) ==
  /\ P \in [1..Len(list) -> 1..Len(q)]
  /\ \A y, z \in 1..Len(list) : P[y] = P[z] => y = z
  /\ \A y \in 1..Len(list) : list[y] = q[P[y]]
  /\ w \in [1..Len(q) -> Nat] /\ \A x \in 1..Len(q) : w[x] \in Worth(q[x])
  /\ IsSum(it, w, 1..Len(q))
  /\ sum = it[(1..Len(q)) \ {P[y] : y \in 1..Len(list)}]

Left(q, list, sum) == \E P, w, it : Holds(q, list, sum, P, w, it)

Tip == best \in 1..MaxBest /\ count.n \in 0..best

LEMMA WorthIs ==
  ASSUME Tip, NEW a \in Addresses
  PROVE  Worth(a) \subseteq Nat /\ Value[a][best] \in Worth(a)
  <1>1. Value[a] \in Seq(Nat) /\ Len(Value[a]) >= MaxBest /\ MaxBest \in Nat
    BY QueryAssumption DEF Addresses
  <1>2. best \in 1..MaxBest /\ count.n \in 0..best
    BY DEF Tip
  <1>3. ASSUME NEW h \in 1..best
        PROVE  Value[a][h] \in Nat
    <2>1. h \in 1..Len(Value[a])
      BY <1>1, <1>2
    <2> QED
      BY ONLY <1>1, <2>1, ElementOfSeq
  <1>4. best \in {x \in 1..best : count.n <= x}
    BY ONLY <1>1, <1>2
  <1> QED
    BY <1>3, <1>4 DEF Worth

LEMMA LeftStart ==
  ASSUME Tip, NEW q \in Seq(Addresses)
  PROVE  Left(q, q, 0)
  <1> DEFINE P == [y \in 1..Len(q) |-> y]
             w == [x \in 1..Len(q) |-> Value[q[x]][best]]
  <1>1. w \in [1..Len(q) -> Nat] /\ \A x \in 1..Len(q) : w[x] \in Worth(q[x])
    BY WorthIs
  <1> HIDE DEF w
  <1>2. IsFiniteSet(1..Len(q)) /\ \A x \in 1..Len(q) : w[x] \in Int
    <2>1. Len(q) \in Int /\ 1 \in Int
      OBVIOUS
    <2>2. IsFiniteSet(1..Len(q))
      BY ONLY <2>1, FS_Interval
    <2>3. \A x \in 1..Len(q) : w[x] \in Nat
      BY <1>1
    <2> QED
      BY <2>2, <2>3
  <1>3. PICK it : IsSum(it, w, 1..Len(q))
    BY ONLY <1>2, SumFor
  <1>4. {P[y] : y \in 1..Len(q)} = 1..Len(q)
    OBVIOUS
  <1>5. it[(1..Len(q)) \ {P[y] : y \in 1..Len(q)}] = 0
    BY <1>3, <1>4 DEF IsSum
  <1>6. P \in [1..Len(q) -> 1..Len(q)] /\ \A y \in 1..Len(q) : P[y] = y
    OBVIOUS
  <1> HIDE DEF P
  <1>7. Holds(q, q, 0, P, w, it)
    BY <1>1, <1>3, <1>5, <1>6 DEF Holds
  <1> QED
    BY <1>7 DEF Left

(* An address is removed and its balance added.                              *)
LEMMA LeftWithout ==
  ASSUME Tip, NEW q \in Seq(Addresses), NEW list \in Seq(Addresses), NEW sum, Left(q, list, sum),
         NEW i \in 1..Len(list), NEW v \in Worth(list[i])
  PROVE  Left(q, RemoveAt(list, i), sum + v)
  <1>1. PICK P, w, it : Holds(q, list, sum, P, w, it)
    BY DEF Left
  <1>2. PICK n \in Nat : n = Len(list) /\ i \in 1..n
    OBVIOUS
  <1>3. PICK N : N = 1..Len(q) /\ IsFiniteSet(N)
    BY FS_Interval
  <1>4. PICK new \in Seq(Addresses) :
          /\ new = RemoveAt(list, i) /\ Len(new) = n - 1
          /\ \A y \in 1..(n - 1) : new[y] = list[IF y < i THEN y ELSE y + 1]
    BY <1>2, RemoveAtPlaces
  <1>5. /\ P \in [1..n -> N] /\ \A y, z \in 1..n : P[y] = P[z] => y = z
        /\ \A y \in 1..n : list[y] = q[P[y]]
        /\ w \in [N -> Nat] /\ \A x \in N : w[x] \in Worth(q[x])
        /\ IsSum(it, w, N) /\ sum = it[N \ {P[y] : y \in 1..n}]
    BY <1>1, <1>2, <1>3 DEF Holds
  <1>6. PICK x \in N : x = P[i] /\ list[i] = q[x]
    BY <1>2, <1>5
  <1>7. v \in Nat /\ q[x] \in Addresses
    BY <1>3, WorthIs
  <1> DEFINE P2 == [y \in 1..(n - 1) |-> P[IF y < i THEN y ELSE y + 1]]
             w2 == [w EXCEPT ![x] = v]
             T == N \ {P[y] : y \in 1..n}
             T2 == N \ {P2[y] : y \in 1..(n - 1)}
  <1>8. \A y \in 1..(n - 1) : (IF y < i THEN y ELSE y + 1) \in (1..n) \ {i}
    BY <1>2
  <1>9. /\ P2 \in [1..(n - 1) -> N] /\ \A y, z \in 1..(n - 1) : P2[y] = P2[z] => y = z
        /\ \A y \in 1..(n - 1) : new[y] = q[P2[y]]
    <2>1. \A y \in 1..(n - 1) : P2[y] = P[IF y < i THEN y ELSE y + 1]
      OBVIOUS
    <2>2. P2 \in [1..(n - 1) -> N]
      BY <1>5, <1>8
    <2> HIDE DEF P2
    <2>3. \A y \in 1..(n - 1) : new[y] = q[P2[y]]
      BY <1>4, <1>5, <1>8, <2>1
    <2>4. ASSUME NEW y \in 1..(n - 1), NEW z \in 1..(n - 1), P2[y] = P2[z]
          PROVE  y = z
      <3>1. (IF y < i THEN y ELSE y + 1) = (IF z < i THEN z ELSE z + 1)
        BY <1>5, <1>8, <2>1, <2>4
      <3> QED
        BY <1>2, <3>1
    <2> QED
      BY <2>2, <2>3, <2>4
  <1>10. w2 \in [N -> Nat] /\ \A z \in N : w2[z] \in Worth(q[z])
    BY <1>5, <1>6, <1>7
  <1>11. T2 = T \cup {x} /\ x \notin T
    <2>1. ASSUME NEW y \in (1..n) \ {i}
          PROVE  \E z \in 1..(n - 1) : P2[z] = P[y]
      <3>1. CASE y < i
        <4>1. y \in 1..(n - 1) /\ P2[y] = P[y]
          BY <1>2, <3>1
        <4> QED
          BY <4>1
      <3>2. CASE y > i
        <4>1. PICK z \in 1..(n - 1) : z = y - 1 /\ z + 1 = y /\ ~(z < i)
          BY <1>2, <3>2
        <4> QED
          BY <4>1
      <3> QED
        BY <1>2, <3>1, <3>2
    <2>2. \A y \in 1..(n - 1) : \E z \in (1..n) \ {i} : P2[y] = P[z]
      BY <1>8
    <2>3. \A z \in (1..n) \ {i} : P[z] # x
      BY <1>2, <1>5, <1>6
    <2>4. x \in {P[y] : y \in 1..n}
      BY <1>2, <1>6
    <2> HIDE DEF P2
    <2>5. \A z : z \in {P2[y] : y \in 1..(n - 1)} <=> z \in {P[y] : y \in 1..n} /\ z # x
      <3>1. ASSUME NEW y \in 1..(n - 1)
            PROVE  P2[y] \in {P[z] : z \in 1..n} /\ P2[y] # x
        BY <2>2, <2>3
      <3>2. ASSUME NEW y \in 1..n, P[y] # x
            PROVE  P[y] \in {P2[z] : z \in 1..(n - 1)}
        BY <1>6, <2>1, <3>2
      <3> QED
        BY <3>1, <3>2
    <2> QED
      BY <2>4, <2>5
  <1>12. \A z \in N : w2[z] \in Int
    BY <1>10
  <1>13. T \in SUBSET N /\ T2 \in SUBSET N /\ IsFiniteSet(T) /\ \A z \in T : w[z] = w2[z]
    BY <1>3, <1>5, <1>11, FS_Subset
  <1>14. w2[x] = v
    BY <1>5
  <1> HIDE DEF w2, P2, T, T2
  <1>15. PICK it2 : IsSum(it2, w2, N)
    BY ONLY <1>3, <1>12, SumFor
  <1>16. it2[T2] = v + it2[T]
    <2>1. x \in T2 /\ T2 \ {x} = T
      BY <1>11
    <2> QED
      BY <1>13, <1>14, <1>15, <2>1 DEF IsSum
  <1>17. it2[T] = it[T]
    BY ONLY <1>5, <1>13, <1>15, SumsAgree
  <1>18. it[T] \in Int /\ sum = it[T]
    BY <1>5, <1>13 DEF IsSum, T
  <1>19. sum + v = it2[T2]
    BY <1>7, <1>16, <1>17, <1>18
  <1>20. Holds(q, new, sum + v, P2, w2, it2)
    BY <1>3, <1>4, <1>9, <1>10, <1>15, <1>19 DEF Holds, T2
  <1> QED
    BY <1>4, <1>20 DEF Left

-----------------------------------------------------------------------------
(* Rows of addresses: a balance is one of the last block or later.           *)
AddrOK(R) ==
  /\ R \in [Addresses -> [last : Nat, balance : Nat]]
  /\ \A a \in Addresses :
       /\ R[a].last <= best
       /\ R[a].balance # 0 => \E h \in 1..best : R[a].last <= h /\ R[a].balance = Value[a][h]

LEMMA KnownWorth ==
  ASSUME Tip, AddrOK(addr), NEW a \in Addresses, Known(a)
  PROVE  addr[a].balance \in Worth(a)
  <1>1. PICK h \in 1..best : addr[a].last <= h /\ addr[a].balance = Value[a][h]
    BY DEF AddrOK, Known
  <1>2. addr[a].last >= count.n /\ addr[a].last \in Nat /\ count.n \in Nat
    BY DEF AddrOK, Known, Tip
  <1>3. count.n <= h
    BY <1>1, <1>2
  <1> QED
    BY <1>1, <1>3 DEF Worth

Swept == [list : Seq(Addresses), sum : Nat]

(* What a list stands for is kept from S to T.                               *)
Keeps(S, T) ==
  /\ T \in Swept /\ Len(T.list) <= Len(S.list)
  /\ \A q \in Seq(Addresses), sum \in Nat :
       Left(q, S.list, sum + S.sum) => Left(q, T.list, sum + T.sum)

LEMMA SweepAtKeeps ==
  ASSUME Tip, AddrOK(addr), NEW s \in Swept, NEW x \in Nat \ {0}
  PROVE  Keeps(s, SweepAt(s, x))
  <1>1. CASE ~(x <= Len(s.list) /\ Known(s.list[x]))
    <2>1. SweepAt(s, x) = s
      BY <1>1 DEF SweepAt
    <2>2. Len(s.list) <= Len(s.list)
      BY DEF Swept
    <2> QED
      BY <2>1, <2>2 DEF Keeps
  <1>2. CASE x <= Len(s.list) /\ Known(s.list[x])
    <2>1. PICK l \in Seq(Addresses) : l = s.list /\ x \in 1..Len(l)
      BY <1>2 DEF Swept
    <2>2. PICK v \in Nat : v = addr[l[x]].balance
      BY <2>1 DEF AddrOK
    <2>3. PICK i \in 1..Len(l) : l[i] = l[x] /\ RemoveFirst(l, l[x]) = RemoveAt(l, i)
      BY <2>1, RemoveFirstIs
    <2>4. v \in Worth(l[i])
      BY <1>2, <2>1, <2>2, <2>3, KnownWorth
    <2>5. SweepAt(s, x) = [list |-> RemoveAt(l, i), sum |-> s.sum + v]
      BY <1>2, <2>1, <2>2, <2>3 DEF SweepAt
    <2>6. PICK m \in Nat : m = s.sum
      BY DEF Swept
    <2>7. /\ RemoveAt(l, i) \in Seq(Addresses) /\ Len(RemoveAt(l, i)) = Len(l) - 1
      BY <2>1, RemoveAtPlaces
    <2>8. Len(l) - 1 <= Len(l) /\ m + v \in Nat
      BY <2>1
    <2>9. SweepAt(s, x) \in Swept
      BY <2>5, <2>6, <2>7, <2>8 DEF Swept
    <2>10. ASSUME NEW q \in Seq(Addresses), NEW sum \in Nat, Left(q, l, sum + m)
           PROVE  Left(q, RemoveAt(l, i), sum + (m + v))
      <3>1. Left(q, RemoveAt(l, i), (sum + m) + v)
        BY <2>4, <2>10, LeftWithout
      <3>2. (sum + m) + v = sum + (m + v)
        OBVIOUS
      <3> QED
        BY <3>1, <3>2
    <2> QED
      BY <2>1, <2>5, <2>6, <2>7, <2>8, <2>9, <2>10 DEF Keeps
  <1> QED
    BY <1>1, <1>2

(* The places of a list are swept in turn.                                   *)
LEMMA SweepInTurn ==
  ASSUME Tip, AddrOK(addr), NEW q \in Seq(Addresses)
  PROVE  \E h : /\ h[0] = [list |-> q, sum |-> 0] /\ h[Len(q)] = Sweep(q)
                /\ \A j \in 1..Len(q) : h[j] = SweepAt(h[j - 1], j)
  <1> DEFINE n == Len(q)
             places == [j \in DOMAIN q |-> j]
             base == [list |-> q, sum |-> 0]
             next(it) == [U \in SUBSET (1..n) |->
                            IF U = {} THEN base ELSE SweepAt(it[U \ {Max(U)}], places[Max(U)])]
             a == CHOOSE it : it = next(it)
             step == [p \in Swept \X (1..n) |-> SweepAt(p[1], p[2])]
  <1>1. n \in Nat /\ DOMAIN places = 1..n /\ \A j \in 1..n : places[j] = j
    OBVIOUS
  <1> HIDE DEF places
  <1>2. Sweep(q) = a[1..n]
    BY <1>1 DEF Sweep, FoldLeftDomain, FoldLeft, MapThenFoldSet, places
  <1>3. base \in Swept
    BY DEF Swept
  <1>4. step \in [Swept \X (1..n) -> Swept]
    <2>1. ASSUME NEW r \in Swept, NEW j \in 1..n
          PROVE  SweepAt(r, j) \in Swept
      BY SweepAtKeeps DEF Keeps
    <2> QED
      BY <2>1
  <1>5. \A r \in Swept, j \in 1..n : step[<<r, j>>] = SweepAt(r, j)
    OBVIOUS
  <1> HIDE DEF step, base
  <1>6. PICK it \in [SUBSET (1..n) -> Swept] : Folds(it, step, base, n)
    BY ONLY <1>1, <1>3, <1>4, FoldInTurn, Zenon
  <1>7. it = next(it)
    <2>1. ASSUME NEW U \in SUBSET (1..n), U # {}
          PROVE  it[U] = SweepAt(it[U \ {Max(U)}], places[Max(U)])
      <3>1. PICK j \in 1..n : j = Max(U) /\ places[j] = j
        BY <1>1, <2>1, FirstNumbers
      <3>2. it[U] = step[<<it[U \ {j}], j>>]
        BY <1>6, <2>1, <3>1 DEF Folds
      <3>3. it[U \ {j}] \in Swept
        OBVIOUS
      <3> QED
        BY <1>5, <3>1, <3>2, <3>3
    <2>2. it[{}] = base
      BY <1>6 DEF Folds
    <2> QED
      BY <2>1, <2>2
  <1>8. a = next(a)
    BY <1>7
  <1> HIDE DEF a
  <1> DEFINE h == [j \in 0..n |-> a[1..j]]
  <1>9. h[0] = base
    BY <1>8, FirstNumbers
  <1>10. ASSUME NEW j \in 1..n
         PROVE  h[j] = SweepAt(h[j - 1], j)
    <2>1. /\ 1..j \in SUBSET (1..n) /\ 1..j # {} /\ Max(1..j) = j
          /\ (1..j) \ {j} = 1..(j - 1)
      BY <1>1, FirstNumbers
    <2>2. a[1..j] = SweepAt(a[1..(j - 1)], places[j])
      BY <1>8, <2>1
    <2>3. j \in 0..n /\ j - 1 \in 0..n
      OBVIOUS
    <2> QED
      BY <1>1, <2>2, <2>3
  <1>11. h[n] = Sweep(q)
    BY <1>1, <1>2
  <1> QED
    BY <1>9, <1>10, <1>11 DEF base

LEMMA SweepKeeps ==
  ASSUME Tip, AddrOK(addr), NEW list \in Seq(Addresses)
  PROVE  Keeps([list |-> list, sum |-> 0], Sweep(list))
  <1> DEFINE base == [list |-> list, sum |-> 0]
  <1>1. PICK h : /\ h[0] = base /\ h[Len(list)] = Sweep(list)
                 /\ \A j \in 1..Len(list) : h[j] = SweepAt(h[j - 1], j)
    BY SweepInTurn
  <1>2. PICK n \in Nat : n = Len(list)
    OBVIOUS
  <1> DEFINE G == {j \in 0..n : Keeps(base, h[j])}
  <1>3. 0 \in G
    <2>1. base \in Swept /\ Len(base.list) <= Len(base.list)
      BY DEF Swept
    <2> QED
      BY <1>1, <2>1 DEF Keeps
  <1>4. ASSUME NEW j \in 0..(n - 1), j \in G
        PROVE  j + 1 \in G
    <2>1. j + 1 \in 1..n /\ (j + 1) - 1 = j /\ j + 1 \in 0..n /\ j + 1 \in Nat \ {0}
      OBVIOUS
    <2>2. h[j + 1] = SweepAt(h[j], j + 1)
      BY <1>1, <1>2, <2>1
    <2>3. Keeps(base, h[j]) /\ h[j] \in Swept
      BY <1>4 DEF Keeps
    <2>4. Keeps(h[j], h[j + 1])
      BY <2>1, <2>2, <2>3, SweepAtKeeps
    <2>5. PICK s : s = h[j]
      OBVIOUS
    <2>6. PICK t : t = h[j + 1]
      OBVIOUS
    <2>7. Len(base.list) \in Nat /\ Len(s.list) \in Nat /\ Len(t.list) \in Nat
      BY <2>3, <2>4, <2>5, <2>6 DEF Keeps, Swept
    <2> HIDE DEF base
    <2>8. Len(t.list) <= Len(base.list)
      <3>1. Len(s.list) <= Len(base.list) /\ Len(t.list) <= Len(s.list)
        BY <2>3, <2>4, <2>5, <2>6 DEF Keeps
      <3> QED
        BY ONLY <2>7, <3>1
    <2>9. Keeps(base, t)
      BY <2>3, <2>4, <2>5, <2>6, <2>8 DEF Keeps
    <2> QED
      BY <2>1, <2>6, <2>9
  <1>5. 0..n \subseteq G
    <2> HIDE DEF G
    <2> QED
      BY <1>3, <1>4, CountInduction
  <1>6. n \in G
    BY <1>5
  <1> QED
    BY <1>1, <1>2, <1>6

(* The first n addresses are asked for.                                      *)
LEMMA TotalLeft ==
  ASSUME Tip, NEW q \in Seq(Addresses), NEW list \in Seq(Addresses), NEW sum \in Nat,
         NEW n \in Nat, n <= Len(list)
  PROVE  /\ Total(SubSeq(list, 1, n)) \in Nat
         /\ Left(q, list, sum) => Left(q, SubSeq(list, n + 1, Len(list)), sum + Total(SubSeq(list, 1, n)))
  <1>1. PICK l \in Nat : l = Len(list) /\ n <= l
    OBVIOUS
  <1>2. PICK t \in Seq(Addresses) : t = SubSeq(list, 1, n) /\ Len(t) = n /\ \A y \in 1..n : t[y] = list[y]
    <2>1. 1 \in Nat \ {0} /\ 1 <= n + 1 /\ n - 1 + 1 = n /\ \A y \in 1..n : 1 + y - 1 = y
      OBVIOUS
    <2>2. /\ SubSeq(list, 1, n) \in Seq(Addresses) /\ Len(SubSeq(list, 1, n)) = n - 1 + 1
          /\ \A y \in 1..(n - 1 + 1) : SubSeq(list, 1, n)[y] = list[1 + y - 1]
      BY <2>1, SubSeqIs
    <2> HIDE DEF Addresses
    <2> QED
      BY ONLY <2>1, <2>2
  <1> DEFINE f == [x \in 1..n |-> Value[list[x]][best]]
             N == 1..n
  <1>3. \A x \in 1..n : list[x] \in Addresses /\ f[x] \in Nat /\ f[x] \in Worth(list[x])
    <2>1. \A x \in 1..n : list[x] \in Addresses
      BY <1>1
    <2> QED
      BY <2>1, WorthIs
  <1>4. [x \in DOMAIN t |-> Value[t[x]][best]] = f /\ DOMAIN t = 1..n
    BY <1>2
  <1>5. Total(t) = SumOver(N, f)
    BY <1>4 DEF Total
  <1> HIDE DEF f
  <1>6. IsFiniteSet(N) /\ \A x \in N : f[x] \in Int
    <2>1. IsFiniteSet(N)
      BY ONLY n \in Nat, FirstNumbers
    <2>2. \A x \in N : f[x] \in Nat
      BY <1>3
    <2> QED
      BY ONLY <2>1, <2>2
  <1>7. PICK a : IsSum(a, f, N) /\ SumOver(N, f) = a[N]
    <2> HIDE DEF N
    <2> QED
      BY ONLY <1>6, SumOverIs
  <1>8. \A T \in SUBSET N : a[T] \in Nat
    <2>1. \A x \in N : f[x] \in Nat
      BY <1>3
    <2> HIDE DEF N
    <2> QED
      BY ONLY <1>6, <1>7, <2>1, SumNatural
  <1>9. a[{}] = 0 /\ \A j \in 0..(n - 1) : a[1..(j + 1)] = f[j + 1] + a[1..j]
    <2>1. a[{}] = 0
      BY <1>7 DEF IsSum
    <2>2. ASSUME NEW j \in 0..(n - 1)
          PROVE  a[1..(j + 1)] = f[j + 1] + a[1..j]
      <3>1. PICK x, T : /\ x = j + 1 /\ T = 1..(j + 1)
                        /\ T \in SUBSET N /\ x \in T /\ T \ {x} = 1..j
        OBVIOUS
      <3>2. a[T] = f[x] + a[T \ {x}]
        BY <1>7, <3>1 DEF IsSum
      <3> QED
        BY <3>1, <3>2
    <2> QED
      BY <2>1, <2>2
  <1> DEFINE Rest(j) == SubSeq(list, j + 1, l)
             G == {j \in 0..n : Left(q, Rest(j), sum + a[1..j])}
  <1>10. ASSUME NEW j \in 0..n
         PROVE  /\ Rest(j) \in Seq(Addresses) /\ Len(Rest(j)) = l - j
                /\ \A y \in 1..(l - j) : Rest(j)[y] = list[j + y]
    <2>1. /\ j + 1 \in Nat \ {0} /\ j + 1 <= l + 1 /\ l - (j + 1) + 1 = l - j
          /\ \A y \in 1..(l - j) : (j + 1) + y - 1 = j + y
      BY <1>1
    <2> QED
      BY <1>1, <2>1, SubSeqIs
  <1>11. ASSUME Left(q, list, sum)
         PROVE  n \in G
    <2>1. 0 \in G
      <3>1. Rest(0) = list
        BY <1>1, SubSeqFull
      <3>2. a[1..0] = 0
        BY <1>9, FirstNumbers
      <3> HIDE DEF Rest
      <3>3. sum + a[1..0] = sum /\ 0 \in 0..n
        BY <3>2
      <3> QED
        BY <1>11, <3>1, <3>3
    <2>2. ASSUME NEW j \in 0..(n - 1), j \in G
          PROVE  j + 1 \in G
      <3>1. j \in 0..n /\ j + 1 \in 0..n /\ j + 1 \in 1..n
        OBVIOUS
      <3>2. PICK r \in Seq(Addresses) : r = Rest(j) /\ Len(r) = l - j /\ \A y \in 1..(l - j) : r[y] = list[j + y]
        BY <1>10, <3>1
      <3>3. 1 \in 1..(l - j) /\ l - j \in Nat
        BY <1>1
      <3>4. r[1] = list[j + 1]
        BY <3>2, <3>3
      <3>5. f[j + 1] \in Worth(r[1]) /\ f[j + 1] \in Nat
        BY <1>3, <3>1, <3>4
      <3>6. RemoveAt(r, 1) = Rest(j + 1)
        <4>1. PICK u : u = RemoveAt(r, 1) /\ u \in Seq(Addresses) /\ Len(u) = (l - j) - 1
                       /\ \A y \in 1..((l - j) - 1) : u[y] = r[IF y < 1 THEN y ELSE y + 1]
          <5>1. 1 \in 1..Len(r) /\ Len(r) = l - j
            BY <3>2, <3>3
          <5>2. /\ RemoveAt(r, 1) \in Seq(Addresses) /\ Len(RemoveAt(r, 1)) = Len(r) - 1
                /\ \A y \in 1..(Len(r) - 1) : RemoveAt(r, 1)[y] = r[IF y < 1 THEN y ELSE y + 1]
            BY <5>1, RemoveAtPlaces
          <5> QED
            BY <5>1, <5>2
        <4>2. PICK z : z = Rest(j + 1) /\ z \in Seq(Addresses) /\ Len(z) = l - (j + 1)
                       /\ \A y \in 1..(l - (j + 1)) : z[y] = list[(j + 1) + y]
          BY <1>10, <3>1
        <4>3. PICK k \in Nat : k = (l - j) - 1 /\ k = l - (j + 1)
          BY <3>3
        <4>4. ASSUME NEW y \in 1..k
              PROVE  u[y] = z[y]
          <5>1. y + 1 \in 1..(l - j) /\ ~(y < 1) /\ j + (y + 1) = (j + 1) + y
            BY <4>3
          <5> QED
            BY <3>2, <4>1, <4>2, <4>3, <5>1
        <4>5. u = z
          BY <4>1, <4>2, <4>3, <4>4, SeqEqual
        <4> QED
          BY <4>1, <4>2, <4>5
      <3>7. Left(q, r, sum + a[1..j])
        BY <2>2, <3>2
      <3>8. 1 \in 1..Len(r)
        BY <3>2, <3>3
      <3>9. Left(q, RemoveAt(r, 1), (sum + a[1..j]) + f[j + 1])
        BY <3>5, <3>7, <3>8, LeftWithout
      <3>10. (sum + a[1..j]) + f[j + 1] = sum + a[1..(j + 1)]
        <4>1. 1..j \in SUBSET N
          OBVIOUS
        <4>2. PICK b \in Nat : b = a[1..j]
          BY <1>8, <4>1
        <4>3. a[1..(j + 1)] = f[j + 1] + b
          BY <1>9, <4>2
        <4>4. PICK c \in Nat : c = f[j + 1]
          BY <3>5
        <4>5. (sum + b) + c = sum + (c + b)
          OBVIOUS
        <4> QED
          BY <4>2, <4>3, <4>4, <4>5
      <3> QED
        BY <3>1, <3>6, <3>9, <3>10
    <2> HIDE DEF G
    <2>3. 0..n \subseteq G
      BY <2>1, <2>2, CountInduction
    <2>4. n \in 0..n
      OBVIOUS
    <2> QED
      BY <2>3, <2>4
  <1>12. Total(t) = a[1..n] /\ a[1..n] \in Nat
    <2>1. N \in SUBSET N
      OBVIOUS
    <2> QED
      BY <1>5, <1>7, <1>8, <2>1
  <1> QED
    BY <1>1, <1>2, <1>11, <1>12

-----------------------------------------------------------------------------
(* The requests of a call of getbalance().                                   *)

Asking ==
  [list : Seq(Addresses), sum : Nat, asked : Nat,
   rows : {R \in [Addresses -> [last : Nat, balance : Nat]] : AddrOK(R)}]

LEMMA TotalOfOne ==
  ASSUME Tip, NEW a \in Addresses, NEW q, q = <<a>>
  PROVE  Total(q) = Value[a][best]
  <1> DEFINE f == [x \in DOMAIN q |-> Value[q[x]][best]]
  <1>1. DOMAIN q = {1} /\ q[1] = a
    OBVIOUS
  <1>2. f[1] = Value[a][best] /\ f[1] \in Nat
    BY <1>1, WorthIs
  <1>3. Total(q) = SumOver(DOMAIN q, f)
    BY DEF Total
  <1> HIDE DEF f
  <1>4. IsFiniteSet({1}) /\ \A x \in {1} : f[x] \in Int
    BY <1>2, FS_Singleton
  <1>5. PICK it : IsSum(it, f, {1}) /\ SumOver({1}, f) = it[{1}]
    BY ONLY <1>4, SumOverIs
  <1>6. it[{}] = 0 /\ {1} \in SUBSET {1} /\ 1 \in {1} /\ {1} \ {1} = {}
    BY <1>5 DEF IsSum
  <1>7. it[{1}] = f[1] + it[{}]
    BY <1>5, <1>6 DEF IsSum
  <1> QED
    BY <1>1, <1>2, <1>3, <1>5, <1>6, <1>7

LEMMA RequestDoes ==
  ASSUME Tip, AddrOK(addr), NEW s \in Asking, s.list # <<>>, NEW k \in Nat, NEW fails
  PROVE  /\ Request(s, k, fails) \in Asking /\ Request(s, k, fails).asked = k
         /\ Len(Request(s, k, fails).list) < Len(s.list)
         /\ \A q \in Seq(Addresses) :
              ~fails[k] /\ Left(q, s.list, s.sum) => Left(q, Request(s, k, fails).list, Request(s, k, fails).sum)
  <1>1. PICK old \in Seq(Addresses) : old = s.list /\ old # <<>> /\ Len(old) \in Nat
    BY DEF Asking
  <1>2. PICK sum \in Nat : sum = s.sum
    BY DEF Asking
  <1>3. PICK R : R = s.rows /\ AddrOK(R)
    BY DEF Asking
  <1>4. Keeps([list |-> old, sum |-> 0], Sweep(old))
    BY SweepKeeps
  <1>5. PICK list \in Seq(Addresses), swept \in Nat :
          /\ list = Sweep(old).list /\ swept = Sweep(old).sum /\ Len(list) <= Len(old)
          /\ \A q \in Seq(Addresses) : Left(q, old, sum) => Left(q, list, sum + swept)
    <2>1. Sweep(old) \in Swept /\ Len(Sweep(old).list) <= Len(old)
      BY <1>4 DEF Keeps
    <2>2. \A q \in Seq(Addresses) : Left(q, old, sum + 0) => Left(q, Sweep(old).list, sum + Sweep(old).sum)
      BY <1>4 DEF Keeps
    <2>3. sum + 0 = sum
      OBVIOUS
    <2> QED
      BY <2>1, <2>2, <2>3 DEF Swept
  <1>6. PICK l \in Nat : l = Len(list)
    OBVIOUS
  <1>7. PICK n \in Nat : /\ n = (IF Len(list) < PerRequest THEN Len(list) ELSE PerRequest)
                         /\ n <= l /\ (l > 0 => n > 0)
    BY <1>6, QueryAssumption
  <1>8. PICK total \in Nat :
          /\ total = Total(SubSeq(list, 1, n))
          /\ \A q \in Seq(Addresses) :
               Left(q, list, sum + swept) => Left(q, SubSeq(list, n + 1, Len(list)), (sum + swept) + total)
    <2>1. sum + swept \in Nat /\ n <= Len(list)
      BY <1>6, <1>7
    <2>2. \A q \in Seq(Addresses) : Total(SubSeq(list, 1, n)) \in Nat /\
               (Left(q, list, sum + swept) =>
                  Left(q, SubSeq(list, n + 1, Len(list)), (sum + swept) + Total(SubSeq(list, 1, n))))
      BY <2>1, TotalLeft
    <2>3. <<>> \in Seq(Addresses)
      OBVIOUS
    <2> QED
      BY <2>2, <2>3
  <1>9. PICK got \in Nat : got = (IF fails[k] THEN 0 ELSE total)
    OBVIOUS
  <1>10. PICK rest \in Seq(Addresses) : rest = SubSeq(list, n + 1, Len(list)) /\ Len(rest) = l - n
    <2>1. n + 1 \in Nat \ {0} /\ n + 1 <= l + 1 /\ l - (n + 1) + 1 = l - n
      BY <1>7
    <2>2. PICK m \in Nat \ {0} : m = n + 1 /\ m <= l + 1
      BY <2>1
    <2>3. SubSeq(list, m, l) \in Seq(Addresses) /\ Len(SubSeq(list, m, l)) = l - m + 1
      <3>1. l <= Len(list)
        BY <1>6
      <3> QED
        BY ONLY l \in Nat, list \in Seq(Addresses), <2>2, <3>1, SubSeqIs
    <2> HIDE DEF Addresses
    <2> QED
      BY <1>6, <2>1, <2>2, <2>3
  <1> DEFINE S2 == IF Len(list) = 1 THEN [R EXCEPT ![list[1]].balance = got] ELSE R
  <1>11. Request(s, k, fails) = [list |-> rest, sum |-> (sum + swept) + got, asked |-> k, rows |-> S2]
    BY <1>1, <1>2, <1>3, <1>5, <1>7, <1>8, <1>9, <1>10 DEF Request
  <1>12. AddrOK(S2)
    <2>1. CASE Len(list) = 1
      <3>1. PICK a \in Addresses : a = list[1] /\ list = <<a>>
        <4>1. list[1] \in Addresses
          <5>1. 1 \in 1..Len(list)
            BY <2>1
          <5> HIDE DEF Addresses
          <5> QED
            BY ONLY list \in Seq(Addresses), <5>1, ElementOfSeq
        <4>2. list = <<list[1]>>
          <5> HIDE DEF Addresses
          <5> QED
            BY ONLY list \in Seq(Addresses), Len(list) = 1, <2>1
        <4> QED
          BY <4>1, <4>2
      <3>2. PICK r : r = [R[a] EXCEPT !.balance = got]
        OBVIOUS
      <3>3. R[a] \in [last : Nat, balance : Nat] /\ R[a].last <= best
        BY <1>3 DEF AddrOK
      <3>4. r \in [last : Nat, balance : Nat] /\ r.last = R[a].last /\ r.balance = got
        BY <3>2, <3>3
      <3>5. S2 = [R EXCEPT ![a] = r]
        BY <2>1, <3>1, <3>2
      <3>6. got # 0 => got = Value[a][best]
        <4>1. n = 1
          BY <1>6, <1>7, <2>1, QueryAssumption
        <4>2. SubSeq(list, 1, n) = list
          BY <2>1, <4>1, SubSeqFull
        <4> QED
          BY <1>8, <1>9, <3>1, <4>2, TotalOfOne
      <3>7. best \in 1..best /\ r.last <= best
        BY <3>3, <3>4 DEF Tip
      <3> HIDE DEF S2
      <3>8. S2 \in [Addresses -> [last : Nat, balance : Nat]]
        BY <1>3, <3>4, <3>5 DEF AddrOK
      <3>9. ASSUME NEW b \in Addresses
            PROVE  /\ S2[b].last <= best
                   /\ S2[b].balance # 0 => \E h \in 1..best : S2[b].last <= h /\ S2[b].balance = Value[b][h]
        <4>1. CASE b = a
          <5>1. S2[b] = r
            BY <1>3, <3>5, <4>1 DEF AddrOK
          <5> QED
            BY <3>4, <3>6, <3>7, <4>1, <5>1
        <4>2. CASE b # a
          <5>1. S2[b] = R[b]
            BY <1>3, <3>5, <4>2 DEF AddrOK
          <5> QED
            BY <1>3, <5>1 DEF AddrOK
        <4> QED
          BY <4>1, <4>2
      <3> QED
        BY <3>8, <3>9 DEF AddrOK
    <2>2. CASE Len(list) # 1
      BY <1>3, <2>2
    <2> QED
      BY <2>1, <2>2
  <1> HIDE DEF S2
  <1>13. Request(s, k, fails) \in Asking
    <2>1. S2 \in [Addresses -> [last : Nat, balance : Nat]]
      BY <1>12 DEF AddrOK
    <2>2. (sum + swept) + got \in Nat
      OBVIOUS
    <2>3. PICK rr \in {T \in [Addresses -> [last : Nat, balance : Nat]] : AddrOK(T)} : rr = S2
      BY <1>12, <2>1
    <2>4. PICK total2 \in Nat : total2 = (sum + swept) + got
      BY <2>2
    <2>5. [list |-> rest, sum |-> total2, asked |-> k, rows |-> rr] \in Asking
      <3> HIDE DEF Addresses
      <3> QED
        BY ONLY rest \in Seq(Addresses), total2 \in Nat, k \in Nat,
                rr \in {T \in [Addresses -> [last : Nat, balance : Nat]] : AddrOK(T)} DEF Asking
    <2> QED
      BY <1>11, <2>3, <2>4, <2>5
  <1>14. Len(rest) < Len(old)
    <2>1. PICK m \in Nat : m = Len(old) /\ m > 0 /\ l <= m
      <3>1. Len(old) \in Nat /\ Len(old) # 0 /\ l <= Len(old)
        <4> HIDE DEF Addresses
        <4> QED
          BY <1>1, <1>5, <1>6
      <3> QED
        BY ONLY <3>1
    <2>2. n <= l /\ (l > 0 => n > 0) /\ Len(rest) = l - n
      BY <1>7, <1>10
    <2>3. l - n < m
      BY ONLY m \in Nat, l \in Nat, n \in Nat, <2>1, <2>2
    <2> QED
      BY <2>1, <2>2, <2>3
  <1>15. ASSUME NEW q \in Seq(Addresses), ~fails[k], Left(q, old, sum)
         PROVE  Left(q, rest, (sum + swept) + got)
    <2>1. got = total
      BY <1>9, <1>15
    <2> QED
      BY <1>5, <1>8, <1>10, <1>15, <2>1
  <1> QED
    BY <1>1, <1>2, <1>11, <1>13, <1>14, <1>15

(* The request number k, if there is anything left to ask for.               *)
OneRequest(s, k, fails) == IF s.list = <<>> THEN s ELSE Request(s, k, fails)

Start(q) == [list |-> q, sum |-> 0, asked |-> 0, rows |-> addr]

LEMMA BalanceInTurn ==
  ASSUME Tip, AddrOK(addr), NEW q \in Seq(Addresses), NEW fails
  PROVE  \E h : /\ h[0] = Start(q) /\ h[Len(q)] = Balance(q, fails)
                /\ \A j \in 1..Len(q) : h[j] = OneRequest(h[j - 1], j, fails)
  <1> DEFINE n == Len(q)
             places == [j \in DOMAIN q |-> j]
             base == [list |-> q, sum |-> 0, asked |-> 0, rows |-> addr]
             next(it) == [U \in SUBSET (1..n) |->
                            IF U = {} THEN base
                            ELSE IF it[U \ {Max(U)}].list = <<>> THEN it[U \ {Max(U)}]
                                 ELSE Request(it[U \ {Max(U)}], places[Max(U)], fails)]
             a == CHOOSE it : it = next(it)
             step == [p \in Asking \X (1..n) |-> OneRequest(p[1], p[2], fails)]
  <1>1. n \in Nat /\ DOMAIN places = 1..n /\ \A j \in 1..n : places[j] = j
    OBVIOUS
  <1> HIDE DEF places
  <1>2. Balance(q, fails) = a[1..n]
    BY <1>1 DEF Balance, FoldLeftDomain, FoldLeft, MapThenFoldSet, places
  <1>3. base \in Asking
    <2>1. addr \in [Addresses -> [last : Nat, balance : Nat]]
      BY DEF AddrOK
    <2> QED
      BY <2>1 DEF Asking
  <1>4. step \in [Asking \X (1..n) -> Asking]
    <2>1. ASSUME NEW r \in Asking, NEW j \in 1..n
          PROVE  OneRequest(r, j, fails) \in Asking
      <3>1. j \in Nat
        OBVIOUS
      <3> QED
        BY <3>1, RequestDoes DEF OneRequest
    <2> QED
      BY <2>1
  <1>5. \A r \in Asking, j \in 1..n : step[<<r, j>>] = OneRequest(r, j, fails)
    OBVIOUS
  <1> HIDE DEF step, base
  <1>6. PICK it \in [SUBSET (1..n) -> Asking] : Folds(it, step, base, n)
    BY ONLY <1>1, <1>3, <1>4, FoldInTurn, Zenon
  <1>7. it = next(it)
    <2>1. ASSUME NEW U \in SUBSET (1..n), U # {}
          PROVE  it[U] = IF it[U \ {Max(U)}].list = <<>> THEN it[U \ {Max(U)}]
                         ELSE Request(it[U \ {Max(U)}], places[Max(U)], fails)
      <3>1. PICK j \in 1..n : j = Max(U) /\ places[j] = j
        BY <1>1, <2>1, FirstNumbers
      <3>2. it[U] = step[<<it[U \ {j}], j>>]
        BY <1>6, <2>1, <3>1 DEF Folds
      <3>3. PICK V : V = U \ {j} /\ V \in SUBSET (1..n)
        OBVIOUS
      <3>4. PICK s \in Asking : s = it[V]
        <4> HIDE DEF n
        <4> QED
          BY ONLY it \in [SUBSET (1..n) -> Asking], <3>3, Zenon
      <3>5. it[U] = OneRequest(s, j, fails)
        BY <1>5, <3>2, <3>3, <3>4
      <3> QED
        BY <3>1, <3>3, <3>4, <3>5 DEF OneRequest
    <2>2. it[{}] = base
      BY <1>6 DEF Folds
    <2> QED
      BY <2>1, <2>2
  <1>8. a = next(a)
    <2> HIDE DEF next
    <2> QED
      BY <1>7
  <1> HIDE DEF a
  <1> DEFINE h == [j \in 0..n |-> a[1..j]]
  <1>9. h[0] = base
    BY <1>8, FirstNumbers
  <1>10. ASSUME NEW j \in 1..n
         PROVE  h[j] = OneRequest(h[j - 1], j, fails)
    <2>1. /\ 1..j \in SUBSET (1..n) /\ 1..j # {} /\ Max(1..j) = j
          /\ (1..j) \ {j} = 1..(j - 1)
      BY <1>1, FirstNumbers
    <2>2. a[1..j] = IF a[1..(j - 1)].list = <<>> THEN a[1..(j - 1)]
                    ELSE Request(a[1..(j - 1)], places[j], fails)
      BY <1>8, <2>1
    <2>3. j \in 0..n /\ j - 1 \in 0..n
      OBVIOUS
    <2> QED
      BY <1>1, <2>2, <2>3 DEF OneRequest
  <1>11. h[n] = Balance(q, fails)
    BY <1>1, <1>2
  <1> QED
    BY <1>9, <1>10, <1>11 DEF base, Start

(* After k of the requests, with at most n addresses to ask for.             *)
Round(s, n, q, fails, k) ==
  /\ s \in Asking
  /\ Len(s.list) + k <= n \/ s.list = <<>>
  /\ s.asked <= k
  /\ s.list # <<>> => s.asked = k
  /\ (\A i \in 1..s.asked : ~fails[i]) => Left(q, s.list, s.sum)

LEMMA RoundOn ==
  ASSUME Tip, AddrOK(addr), NEW q \in Seq(Addresses), NEW fails, NEW n \in Nat, NEW k \in Nat,
         NEW s, Round(s, n, q, fails, k)
  PROVE  Round(OneRequest(s, k + 1, fails), n, q, fails, k + 1)
  <1>1. s \in Asking /\ s.asked \in Nat /\ k + 1 \in Nat
    BY DEF Asking, Round
  <1>2. CASE s.list = <<>>
    <2>1. OneRequest(s, k + 1, fails) = s
      BY <1>2 DEF OneRequest
    <2>2. s.asked <= k + 1
      BY <1>1 DEF Round
    <2> HIDE DEF Asking
    <2> QED
      BY <1>2, <2>1, <2>2 DEF Round
  <1>3. CASE s.list # <<>>
    <2>1. PICK t : t = OneRequest(s, k + 1, fails) /\ t = Request(s, k + 1, fails)
      BY <1>3 DEF OneRequest
    <2>2. /\ t \in Asking /\ t.asked = k + 1 /\ Len(t.list) < Len(s.list)
          /\ ~fails[k + 1] /\ Left(q, s.list, s.sum) => Left(q, t.list, t.sum)
      BY <1>1, <1>3, <2>1, RequestDoes
    <2>3. PICK x \in Nat, y \in Nat : x = Len(t.list) /\ y = Len(s.list)
      <3>1. s.list \in Seq(Addresses) /\ t.list \in Seq(Addresses)
        BY <1>1, <2>2 DEF Asking
      <3> HIDE DEF Addresses
      <3> QED
        BY <3>1
    <2>4. s.asked = k /\ y + k <= n /\ x < y
      BY <1>3, <2>2, <2>3 DEF Round
    <2>5. x + (k + 1) <= n
      BY ONLY <2>4, x \in Nat, y \in Nat, k \in Nat, n \in Nat
    <2>6. ASSUME \A i \in 1..(k + 1) : ~fails[i]
          PROVE  Left(q, t.list, t.sum)
      <3>1. k + 1 \in 1..(k + 1) /\ \A i \in 1..k : i \in 1..(k + 1)
        OBVIOUS
      <3>2. ~fails[k + 1] /\ \A i \in 1..s.asked : ~fails[i]
        BY <2>4, <2>6, <3>1
      <3>3. Left(q, s.list, s.sum)
        BY <3>2 DEF Round
      <3> QED
        BY <2>2, <3>2, <3>3
    <2>7. t.asked <= k + 1
      BY <2>2
    <2> HIDE DEF Asking
    <2> QED
      BY <2>1, <2>2, <2>3, <2>5, <2>6, <2>7 DEF Round
  <1> QED
    BY <1>2, <1>3

LEMMA BalanceIs ==
  ASSUME Tip, AddrOK(addr), NEW q \in Seq(Addresses), NEW fails
  PROVE  /\ Balance(q, fails).sum \in Nat /\ AddrOK(Balance(q, fails).rows)
         /\ (\A j \in 1..Balance(q, fails).asked : ~fails[j]) => Left(q, <<>>, Balance(q, fails).sum)
  <1>1. PICK h : /\ h[0] = Start(q) /\ h[Len(q)] = Balance(q, fails)
                 /\ \A j \in 1..Len(q) : h[j] = OneRequest(h[j - 1], j, fails)
    BY BalanceInTurn
  <1>2. PICK n \in Nat : n = Len(q)
    OBVIOUS
  <1> DEFINE G == {j \in 0..n : Round(h[j], n, q, fails, j)}
  <1>3. 0 \in G
    <2>1. PICK s : s = Start(q)
      OBVIOUS
    <2>2. s \in Asking
      <3>1. addr \in [Addresses -> [last : Nat, balance : Nat]]
        BY DEF AddrOK
      <3> QED
        BY <2>1, <3>1 DEF Asking, Start
    <2>3. s.list = q /\ s.sum = 0 /\ s.asked = 0
      BY <2>1 DEF Start
    <2>4. Left(q, s.list, s.sum)
      BY <2>3, LeftStart
    <2>5. Len(s.list) + 0 <= n
      BY <1>2, <2>3
    <2> HIDE DEF Asking
    <2>6. Round(s, n, q, fails, 0)
      BY <2>2, <2>3, <2>4, <2>5 DEF Round
    <2> QED
      BY <1>1, <2>1, <2>6
  <1>4. ASSUME NEW j \in 0..(n - 1), j \in G
        PROVE  j + 1 \in G
    <2>1. j + 1 \in 1..n /\ (j + 1) - 1 = j /\ j + 1 \in 0..n /\ j \in Nat
      OBVIOUS
    <2>2. h[j + 1] = OneRequest(h[j], j + 1, fails)
      BY <1>1, <1>2, <2>1
    <2>3. Round(h[j], n, q, fails, j)
      BY <1>4
    <2>4. Round(h[j + 1], n, q, fails, j + 1)
      BY <2>1, <2>2, <2>3, RoundOn
    <2> QED
      BY <2>1, <2>4
  <1>5. 0..n \subseteq G
    <2> HIDE DEF G
    <2> QED
      BY <1>3, <1>4, CountInduction
  <1>6. Round(h[n], n, q, fails, n)
    BY <1>5
  <1>7. PICK s \in Asking : s = h[n] /\ s = Balance(q, fails) /\ Round(s, n, q, fails, n)
    BY <1>1, <1>2, <1>6 DEF Round
  <1>8. s.list = <<>>
    <2>1. s.list \in Seq(Addresses)
      BY DEF Asking
    <2>2. Len(s.list) + n <= n \/ s.list = <<>>
      BY <1>7 DEF Round
    <2> HIDE DEF Addresses
    <2>3. Len(s.list) \in Nat /\ (Len(s.list) = 0 => s.list = <<>>)
      BY <2>1
    <2> QED
      BY ONLY <2>2, <2>3, n \in Nat
  <1>9. s.sum \in Nat /\ AddrOK(s.rows)
    BY DEF Asking
  <1>10. (\A j \in 1..s.asked : ~fails[j]) => Left(q, s.list, s.sum)
    BY <1>7 DEF Round
  <1> QED
    BY <1>7, <1>8, <1>9, <1>10

(* With nothing left, there is a balance of each address in the sum.         *)
LEMMA LeftNothing ==
  ASSUME Tip, NEW q \in Seq(Addresses), NEW sum, Left(q, <<>>, sum)
  PROVE  \E at \in [DOMAIN q -> count.n..best] :
           sum = SumOver(DOMAIN q, [x \in DOMAIN q |-> Value[q[x]][at[x]]])
  <1>1. PICK P, w, it : Holds(q, <<>>, sum, P, w, it)
    BY DEF Left
  <1>2. PICK N : N = 1..Len(q) /\ DOMAIN q = N /\ IsFiniteSet(N)
    <2>1. Len(q) \in Nat
      OBVIOUS
    <2> QED
      BY <2>1, FirstNumbers
  <1>3. /\ w \in [N -> Nat] /\ \A x \in N : w[x] \in Worth(q[x])
        /\ IsSum(it, w, N)
    BY <1>1, <1>2 DEF Holds
  <1>4. sum = it[N]
    <2>1. Len(<<>>) = 0 /\ 1..0 = {}
      BY FirstNumbers
    <2>2. {P[y] : y \in 1..Len(<<>>)} = {}
      BY <2>1
    <2> QED
      BY <1>1, <1>2, <2>2 DEF Holds
  <1> DEFINE at == [x \in N |-> CHOOSE i \in 1..best : count.n <= i /\ w[x] = Value[q[x]][i]]
  <1>5. ASSUME NEW x \in N
        PROVE  at[x] \in count.n..best /\ w[x] = Value[q[x]][at[x]]
    <2>1. \E i \in 1..best : count.n <= i /\ w[x] = Value[q[x]][i]
      BY <1>3 DEF Worth
    <2>2. at[x] \in 1..best /\ count.n <= at[x] /\ w[x] = Value[q[x]][at[x]]
      BY <2>1
    <2> HIDE DEF at
    <2> QED
      BY <2>2 DEF Tip
  <1>6. at \in [N -> count.n..best]
    BY <1>5
  <1> HIDE DEF at
  <1>7. [x \in N |-> Value[q[x]][at[x]]] = w
    BY <1>3, <1>5
  <1>8. \A x \in N : w[x] \in Int
    BY <1>3
  <1>9. PICK a : IsSum(a, w, N) /\ SumOver(N, w) = a[N]
    BY ONLY <1>2, <1>8, SumOverIs
  <1>10. a[N] = it[N]
    BY ONLY <1>2, <1>3, <1>9, SumsAgree
  <1> QED
    BY <1>2, <1>4, <1>6, <1>7, <1>9, <1>10

-----------------------------------------------------------------------------
(* The block count.                                                          *)

(* Providers report no block that does not exist; or one service asks them   *)
(* for the count alone, and each time gets an answer.                        *)
Orderly == ~Wrong \/ (~Fail /\ (\E s : Service = {s}) /\ "balance" \notin Queries)

CountsOK ==
  /\ best \in 1..MaxBest /\ count \in [n : Nat, fresh : BOOLEAN] /\ mine \in [Service -> Nat]
  /\ ~Wrong => count.n <= best /\ \A s \in Service : mine[s] <= best
  /\ Wrong => \A s \in Service : mine[s] \in {0, count.n}

(* The second highest is not the cached count, unless one is at least that.  *)
LEMMA Consensus ==
  ASSUME NEW c \in Nat, NEW more \in [1..5 -> Nat]
  PROVE  \E i \in 1..5 : \/ SecondHighest(<<c>> \o more) = more[i]
                         \/ SecondHighest(<<c>> \o more) = c /\ c <= more[i]
  <1>1. <<c>> \in Seq(Nat) /\ more \in Seq(Nat) /\ Len(<<c>>) = 1 /\ <<c>>[1] = c /\ Len(more) = 5
    <2>1. <<c>> \in Seq(Nat) /\ Len(<<c>>) = 1 /\ <<c>>[1] = c
      OBVIOUS
    <2>2. more = [i \in 1..5 |-> more[i]] /\ \A i \in 1..5 : more[i] \in Nat
      OBVIOUS
    <2>3. [i \in 1..5 |-> more[i]] \in Seq(Nat)
      BY <2>2
    <2>4. Len([i \in 1..5 |-> more[i]]) = 5
      BY <2>2
    <2> QED
      BY <2>1, <2>2, <2>3, <2>4
  <1>2. PICK q \in Seq(Nat) : q = <<c>> \o more /\ Len(q) = 1 + 5
                              /\ \A x \in 1..(1 + 5) : q[x] = IF x <= 1 THEN <<c>>[x] ELSE more[x - 1]
    <2>1. /\ <<c>> \o more \in Seq(Nat) /\ Len(<<c>> \o more) = Len(<<c>>) + Len(more)
          /\ \A x \in 1..(Len(<<c>>) + Len(more)) :
               (<<c>> \o more)[x] = IF x <= Len(<<c>>) THEN <<c>>[x] ELSE more[x - Len(<<c>>)]
      BY ONLY <1>1, ConcatProperties
    <2> QED
      BY ONLY <1>1, <2>1
  <1>3. q[1] = c /\ DOMAIN q = 1..6 /\ \A i \in 1..5 : q[i + 1] = more[i]
    <2>1. DOMAIN q = 1..6
      <3>1. DOMAIN q = 1..Len(q)
        BY ONLY q \in Seq(Nat), LenProperties
      <3>2. Len(q) = 6
        <4>1. Len(q) = 1 + 5
          BY <1>2, Zenon
        <4> QED
          BY ONLY <4>1
      <3> QED
        BY ONLY <3>1, <3>2, Zenon
    <2>2. ASSUME NEW i \in 1..5
          PROVE  q[i + 1] = more[i]
      <3>1. PICK x \in 1..(1 + 5) : x = i + 1 /\ ~(x <= 1) /\ x - 1 = i
        OBVIOUS
      <3>2. q[x] = more[x - 1]
        BY ONLY <1>2, <3>1
      <3> QED
        BY <3>1, <3>2
    <2>3. q[1] = c
      <3>1. 1 \in 1..(1 + 5) /\ 1 <= 1
        OBVIOUS
      <3> QED
        BY ONLY <1>1, <1>2, <3>1
    <2> QED
      BY <2>1, <2>2, <2>3
  <1>4. PICK P : P = 1..6 /\ IsFiniteSet(P) /\ \A x \in P : q[x] \in Nat
    <2>1. \A x \in 1..6 : q[x] \in Nat
      BY ONLY <1>3, q \in Seq(Nat), ElementOfSeq, LenProperties, Zenon
    <2>2. PICK m \in Nat : m = 6
      OBVIOUS
    <2>3. IsFiniteSet(1..m)
      BY ONLY m \in Nat, FirstNumbers
    <2> QED
      BY <2>1, <2>2, <2>3
  <1>5. \E x \in 1..6 : \A y \in 1..6 : q[y] <= q[x]
    <2>1. P # {}
      BY <1>4
    <2>2. IsFiniteSet(P) /\ \A x \in P : q[x] \in Nat
      BY <1>4
    <2>3. \E x \in P : \A y \in P : q[y] <= q[x]
      BY ONLY <2>1, <2>2, ExtremeElements
    <2> QED
      BY <1>4, <2>3
  <1> DEFINE top == CHOOSE i \in DOMAIN q : \A j \in DOMAIN q : q[j] <= q[i]
             V == {q[j] : j \in DOMAIN q \ {top}}
  <1>6. top \in 1..6 /\ \A j \in 1..6 : q[j] <= q[top]
    BY <1>3, <1>5
  <1>7. SecondHighest(q) = Max(V)
    BY DEF SecondHighest
  <1> HIDE DEF top
  <1>8. V \in SUBSET Nat /\ V # {} /\ IsFiniteSet(V)
    <2> DEFINE D == P \ {top}
               f == [j \in D |-> q[j]]
    <2>1. D # {} /\ IsFiniteSet(D)
      <3>1. 1 # 2 /\ 1 \in P /\ 2 \in P
        BY <1>4
      <3>2. IsFiniteSet(D)
        BY ONLY <1>4, FS_Subset
      <3> QED
        BY <3>1, <3>2
    <2>2. V = {q[j] : j \in D}
      BY <1>3, <1>4
    <2> HIDE DEF D
    <2>3. f \in Surjection(D, V)
      BY <2>2, Fun_IsSurj
    <2>4. IsFiniteSet(V)
      BY <2>1, <2>3, FS_Surjection
    <2> QED
      BY <1>4, <2>1, <2>2, <2>4 DEF D
  <1>9. Max(V) \in V
    <2> HIDE DEF V
    <2> QED
      BY ONLY <1>8, MaxIsLargest
  <1>10. PICK j \in 1..6 : j # top /\ Max(V) = q[j]
    BY <1>3, <1>9
  <1>11. CASE j = 1
    <2>1. top # 1 /\ q[1] <= q[top]
      BY <1>6, <1>10, <1>11
    <2>2. PICK i \in 1..5 : top = i + 1
      BY <1>6, <2>1
    <2> QED
      BY <1>2, <1>3, <1>7, <1>10, <1>11, <2>1, <2>2
  <1>12. CASE j # 1
    <2>1. PICK i \in 1..5 : j = i + 1
      BY <1>12
    <2> QED
      BY <1>2, <1>3, <1>7, <1>10, <2>1
  <1> QED
    BY <1>11, <1>12

LEMMA CountStep ==
  ASSUME Orderly, CountsOK, AnswersRight, NEW s \in Service, Blockcount(s)
  PROVE  CountsOK' /\ AnswersRight'
  <1>1. best \in Nat \ {0} /\ best' = best /\ count.n \in Nat /\ mine[s] \in Nat
    BY DEF CountsOK, Blockcount
  <1>2. CASE count.fresh
    <2>1. mine' = [mine EXCEPT ![s] = count.n] /\ count' = count
          /\ answer' = [kind |-> "count", n |-> count.n, asked |-> {}, tip |-> best]
      BY <1>2 DEF Blockcount
    <2>2. AnswersRight'
      BY <2>1 DEF AnswersRight, CountCorrected, BalanceWhole, PageRight, FeeRight
    <2>3. \A x \in Service : mine'[x] = IF x = s THEN count.n ELSE mine[x]
      BY <2>1 DEF CountsOK
    <2>4. mine' \in [Service -> Nat]
      BY <1>1, <2>1 DEF CountsOK
    <2>5. CountsOK'
      BY <1>1, <2>1, <2>3, <2>4 DEF CountsOK
    <2> QED
      BY <2>2, <2>5
  <1>3. CASE ~count.fresh
    <2>1. PICK first \in Reports, more \in [1..5 -> Reports] :
            /\ count.n <= first => more = [x \in 1..5 |-> first]
            /\ mine' = [mine EXCEPT ![s] = Counted(s, first, more)]
            /\ count' = StoreCount(Counted(s, first, more), IF count.n > first THEN more[5] ELSE first)
            /\ answer' = [kind |-> "count", n |-> Counted(s, first, more), tip |-> best,
                          asked |-> {first} \cup ToSet(more)]
      BY <1>3 DEF Blockcount
    <2>2. /\ \A r \in Reports : r \in Nat /\ (~Wrong => r <= best) /\ (~Fail => r # 0)
      BY <1>1 DEF Reports, Honest
    <2>3. first \in Nat /\ more \in [1..5 -> Nat] /\ \A i \in 1..5 : more[i] \in Reports
      BY <2>2
    <2>4. PICK n : n = Counted(s, first, more)
      OBVIOUS
    <2>5. \/ count.n > first /\ \E i \in 1..5 : n = more[i] \/ (n = count.n /\ count.n <= more[i])
          \/ ~(count.n > first) /\ (mine[s] = 0 \/ first > mine[s]) /\ n = first
          \/ ~(count.n > first) /\ ~(mine[s] = 0 \/ first > mine[s]) /\ n = mine[s]
      <3>1. CASE count.n > first
        <4>1. n = SecondHighest(<<count.n>> \o more)
          BY <2>4, <3>1 DEF Counted
        <4>2. \E i \in 1..5 : n = more[i] \/ (n = count.n /\ count.n <= more[i])
          BY <1>1, <2>3, <4>1, Consensus
        <4> QED
          BY <3>1, <4>2
      <3>2. CASE ~(count.n > first)
        BY <2>4, <3>2 DEF Counted
      <3> QED
        BY <3>1, <3>2
    <2>6. n \in Nat /\ (~Wrong => n <= best)
      <3>1. ~Wrong => mine[s] <= best /\ count.n <= best
        BY DEF CountsOK
      <3>2. first \in Nat /\ (~Wrong => first <= best) /\ \A i \in 1..5 : more[i] \in Nat /\ (~Wrong => more[i] <= best)
        BY <2>2, <2>3
      <3> QED
        BY ONLY <1>1, <2>5, <3>1, <3>2
    <2>7. \A x \in Service : mine'[x] = IF x = s THEN n ELSE mine[x]
      BY <2>1, <2>4 DEF CountsOK
    <2>8. mine' \in [Service -> Nat]
      BY <2>1, <2>4, <2>6 DEF CountsOK
    <2>9. count' = [n |-> n, fresh |-> TRUE] \/ count' = count
      BY <2>1, <2>4 DEF StoreCount
    <2>10. count' \in [n : Nat, fresh : BOOLEAN] /\ (~Wrong => count'.n <= best)
      <3>1. count \in [n : Nat, fresh : BOOLEAN] /\ (~Wrong => count.n <= best)
        BY DEF CountsOK
      <3>2. CASE count' = count
        BY <3>1, <3>2
      <3>3. CASE count' = [n |-> n, fresh |-> TRUE]
        BY <2>6, <3>3
      <3> QED
        BY <2>9, <3>2, <3>3
    <2>11. ~Wrong => \A x \in Service : mine'[x] <= best
      BY <2>6, <2>7 DEF CountsOK
    <2>12. Wrong => \A x \in Service : mine'[x] \in {0, count'.n}
      <3> SUFFICES ASSUME Wrong
                   PROVE  \A x \in Service : mine'[x] \in {0, count'.n}
        OBVIOUS
      <3>1. ~Fail /\ Service = {s}
        BY DEF Orderly
      <3>2. first # 0 /\ more[5] # 0
        BY <2>2, <2>3, <3>1
      <3>3. count'.n = n
        BY <2>1, <2>4, <3>2 DEF StoreCount
      <3> QED
        BY <2>7, <3>1, <3>3
    <2>13. CountsOK'
      BY <1>1, <2>8, <2>10, <2>11, <2>12 DEF CountsOK
    <2>14. ASSUME {first} \cup ToSet(more) \subseteq {best, best - 1} \ {0}
           PROVE  n \in {best, best - 1}
      <3>1. \A i \in 1..5 : more[i] \in ToSet(more)
        BY <2>3 DEF ToSet
      <3>2. first \in {best, best - 1} /\ \A i \in 1..5 : more[i] \in {best, best - 1}
        BY <2>14, <3>1
      <3>3. CASE Wrong
        <4>1. mine[s] \in {0, count.n}
          BY <3>3 DEF CountsOK
        <4> QED
          BY ONLY <1>1, <2>3, <2>5, <3>2, <4>1
      <3>4. CASE ~Wrong
        <4>1. mine[s] <= best /\ count.n <= best
          BY <3>4 DEF CountsOK
        <4> QED
          BY ONLY <1>1, <2>3, <2>5, <3>2, <4>1
      <3>5. Wrong \in BOOLEAN
        BY QueryAssumption
      <3> QED
        BY <3>3, <3>4
    <2>15. answer' = [kind |-> "count", n |-> n, tip |-> best, asked |-> {first} \cup ToSet(more)]
      BY <2>1, <2>4
    <2>16. AnswersRight'
      BY <2>14, <2>15 DEF AnswersRight, CountCorrected, BalanceWhole, PageRight, FeeRight
    <2> QED
      BY <2>13, <2>16
  <1> QED
    BY <1>2, <1>3

-----------------------------------------------------------------------------
(* Pages of blocks.                                                          *)

(* A transaction of a block has at most one row.                             *)
RowsOK(R) ==
  /\ R \subseteq [block : 1..MaxBest, at : Nat, index : Int]
  /\ \A r \in R : r.at < Size[r.block]
  /\ \A r, o \in R : r.block = o.block /\ r.at = o.at => r = o

(* Later pages are not longer than the answers of providers.                 *)
PagesFit == \A p \in Pages : p[1] = 1 \/ p[2] <= Cap

PlacesOf(h, page, limit) == {x \in 0..Size[h] - 1 : (page - 1) * limit <= x /\ x < page * limit}

LEMMA SizeIs ==
  ASSUME NEW h \in 1..MaxBest
  PROVE  Size[h] \in Nat
  <1>1. Size \in Seq(Nat) /\ h \in 1..Len(Size)
    BY QueryAssumption
  <1> QED
    BY ONLY <1>1, ElementOfSeq

LEMMA PageEnds ==
  ASSUME NEW page \in Nat \ {0}, NEW limit \in Nat
  PROVE  \E a \in Nat : (page - 1) * limit = a /\ page * limit = a + limit
  <1>1. PICK k \in Nat : page = k + 1 /\ page - 1 = k
    OBVIOUS
  <1>2. k * limit \in Nat /\ (k + 1) * limit = k * limit + limit
    OBVIOUS
  <1> QED
    BY <1>1, <1>2

LEMMA CachedIsPage ==
  ASSUME RowsOK(rows), NEW h \in 1..MaxBest, InPlace(h), NEW page \in Nat \ {0}, NEW limit \in Nat,
         WholePage(h, page, limit)
  PROVE  {r.at : r \in CachedPage(h, page, limit)} = PlacesOf(h, page, limit)
  <1>1. PICK a \in Nat : (page - 1) * limit = a /\ page * limit = a + limit
    BY PageEnds
  <1>2. PICK z \in Nat : z = Size[h]
    BY SizeIs
  <1>3. PICK C : C = CachedPage(h, page, limit)
    OBVIOUS
  <1>4. PICK T : T = PlacesOf(h, page, limit)
    OBVIOUS
  <1>5. \A x : x \in T <=> x \in Nat /\ x < z /\ a <= x /\ x < a + limit
    BY <1>1, <1>2, <1>4 DEF PlacesOf
  <1>6. PICK e \in Int : /\ T = a..e
                         /\ e = IF a + limit > z THEN z - 1 ELSE (a + limit) - 1
    <2>1. PICK e \in Int : e = IF a + limit > z THEN z - 1 ELSE (a + limit) - 1
      OBVIOUS
    <2>2. \A x \in Nat : x <= e <=> x < z /\ x < a + limit
      BY <2>1
    <2>3. \A x : x \in a..e <=> x \in Nat /\ a <= x /\ x <= e
      OBVIOUS
    <2>4. \A x : x \in T <=> x \in a..e
      BY ONLY <1>5, <2>2, <2>3, Zenon
    <2>5. T = a..e
      BY ONLY <2>4, <1>4, <1>1, <1>2 DEF PlacesOf
    <2> QED
      BY <2>1, <2>5
  <1>7. IsFiniteSet(T) /\ Cardinality(T) = IF a > e THEN 0 ELSE e - a + 1
    <2>1. IsFiniteSet(a..e) /\ Cardinality(a..e) = IF a > e THEN 0 ELSE e - a + 1
      BY ONLY a \in Nat, e \in Int, FS_Interval
    <2> QED
      BY <1>6, <2>1
  <1>8. ASSUME NEW r \in C
        PROVE  r \in rows /\ r.block = h /\ r.at \in T
    <2>1. r \in rows /\ r.block = h /\ a <= r.index /\ r.index < a + limit
      BY <1>1, <1>3 DEF CachedPage
    <2>2. r.at \in Nat /\ r.at < z /\ r.index \in {-1, r.at}
      BY <1>2, <2>1 DEF RowsOK, InPlace
    <2> QED
      BY <1>5, <2>1, <2>2
  <1> DEFINE f == [r \in C |-> r.at]
  <1>9. f \in Injection(C, T)
    <2>1. \A r, o \in C : r.at = o.at => r = o
      BY <1>8 DEF RowsOK
    <2> QED
      BY <1>8, <2>1, Fun_IsInj
  <1>10. /\ IsFiniteSet(C) /\ Cardinality(C) <= Cardinality(T)
         /\ Cardinality(C) = Cardinality(T) <=> f \in Surjection(C, T)
    <2> HIDE DEF f
    <2> QED
      BY ONLY <1>7, <1>9, FS_Injection
  <1>11. PICK n \in Nat : n = Cardinality(C)
    BY <1>10, FS_CardinalityType
  <1>12. /\ a + limit <= z => n >= limit
         /\ a + limit > z => a - z + n >= 0
    BY <1>1, <1>2, <1>3, <1>11 DEF WholePage
  <1>13. n >= Cardinality(T) /\ Cardinality(T) \in Nat
    <2>1. CASE a > e
      BY <1>7, <2>1
    <2>2. CASE ~(a > e)
      <3>1. Cardinality(T) = e - a + 1 /\ e - a + 1 \in Nat
        BY <1>7, <2>2
      <3>2. n >= e - a + 1
        BY ONLY <1>6, <1>12, a \in Nat, e \in Int, n \in Nat, limit \in Nat, z \in Nat
      <3> QED
        BY <3>1, <3>2
    <2> QED
      BY <2>1, <2>2
  <1>14. f \in Surjection(C, T)
    BY <1>10, <1>11, <1>13
  <1>15. \A x \in T : \E r \in C : r.at = x
    BY <1>14 DEF Surjection
  <1> QED
    BY <1>3, <1>4, <1>8, <1>15

(* What a provider gives of a page.                                          *)
LEMMA GivenOfPage ==
  ASSUME NEW h \in 1..MaxBest, NEW page \in Nat \ {0}, NEW limit \in Nat, page = 1 \/ limit <= Cap
  PROVE  /\ ProviderPage(h, page, limit) \subseteq PlacesOf(h, page, limit)
         /\ limit <= Cap => ProviderPage(h, page, limit) = PlacesOf(h, page, limit)
         /\ ProviderPage(h, page, limit) # {} => Min(ProviderPage(h, page, limit)) = (page - 1) * limit
  <1>1. PICK z \in Nat : z = Size[h]
    BY SizeIs
  <1>2. Cap \in Nat
    BY QueryAssumption
  <1>3. PICK m \in Nat : m = (IF limit < Cap THEN limit ELSE Cap) /\ m <= limit /\ (limit <= Cap => m = limit)
    BY <1>2
  <1>4. PICK a \in Nat : /\ (page - 1) * m = a /\ page * m = a + m
                         /\ (page - 1) * limit = a /\ page * limit = a + limit
    <2>1. PICK a \in Nat : (page - 1) * m = a /\ page * m = a + m
      BY PageEnds
    <2>2. PICK b \in Nat : (page - 1) * limit = b /\ page * limit = b + limit
      BY PageEnds
    <2>3. CASE page = 1
      <3>1. (page - 1) * m = 0 /\ (page - 1) * limit = 0
        BY <2>3
      <3> QED
        BY <2>1, <2>2, <3>1
    <2>4. CASE limit <= Cap
      BY <1>3, <2>1, <2>2, <2>4
    <2> QED
      BY <2>3, <2>4
  <1>5. PICK G : G = ProviderPage(h, page, limit)
    OBVIOUS
  <1>6. \A x : x \in G <=> x \in Nat /\ x < z /\ a <= x /\ x < a + m
    <2>1. G = {x \in 0..z - 1 : (page - 1) * m <= x /\ x < page * m}
      <3>1. m = IF limit < Cap THEN limit ELSE Cap
        BY <1>3
      <3> QED
        BY ONLY <1>1, <1>5, <3>1, Zenon DEF ProviderPage
    <2> QED
      BY ONLY <1>4, <2>1, z \in Nat, m \in Nat, a \in Nat
  <1>7. \A x : x \in PlacesOf(h, page, limit) <=> x \in Nat /\ x < z /\ a <= x /\ x < a + limit
    BY <1>1, <1>4 DEF PlacesOf
  <1>8. ASSUME NEW x \in G
        PROVE  x \in PlacesOf(h, page, limit)
    BY <1>3, <1>6, <1>7
  <1>9. ASSUME limit <= Cap, NEW x \in PlacesOf(h, page, limit)
        PROVE  x \in G
    BY <1>3, <1>6, <1>7, <1>9
  <1>10. ASSUME G # {}
         PROVE  Min(G) = a
    <2>1. PICK x \in G : TRUE
      BY <1>10
    <2>2. a \in G
      BY <1>6, <2>1
    <2>3. G \in SUBSET (0..z)
      BY <1>6
    <2>4. Min(G) \in G /\ \A y \in G : Min(G) <= y
      BY ONLY <1>10, <2>3, z \in Nat, MinIsSmallest
    <2>5. Min(G) \in Nat /\ a <= Min(G) /\ Min(G) <= a
      BY <1>6, <2>2, <2>4
    <2> QED
      BY ONLY <2>5, a \in Nat
  <1> QED
    BY <1>4, <1>5, <1>8, <1>9, <1>10

(* New rows are of transactions that had none.                               *)
LEMMA NewRowsOK ==
  ASSUME RowsOK(rows), NEW new, new \subseteq [block : 1..MaxBest, at : Nat, index : Int],
         \A r \in new : r.at < Size[r.block],
         \A r, o \in new : r.block = o.block /\ r.at = o.at => r = o
  PROVE  RowsOK(rows \cup NewRows(new))
  <1> DEFINE A == NewRows(new)
  <1>1. \A r \in A : r \in new /\ ~\E o \in rows : o.block = r.block /\ o.at = r.at
    BY DEF NewRows
  <1> HIDE DEF A
  <1>2. \A r, o \in rows \cup A : r.block = o.block /\ r.at = o.at => r = o
    BY <1>1 DEF RowsOK
  <1>3. rows \cup A \subseteq [block : 1..MaxBest, at : Nat, index : Int]
    BY <1>1 DEF RowsOK
  <1>4. \A r \in rows \cup A : r.at < Size[r.block]
    BY <1>1 DEF RowsOK
  <1>5. RowsOK(rows \cup A)
    BY <1>2, <1>3, <1>4 DEF RowsOK
  <1> QED
    BY <1>5 DEF A

LEMMA BlockStep ==
  ASSUME PagesFit, RowsOK(rows), NEW h \in 1..MaxBest, NEW p \in Pages, NEW parse \in BOOLEAN,
         GetBlock(h, p[1], p[2], parse)
  PROVE  RowsOK(rows') /\ AnswersRight'
  <1>1. PICK page \in Nat \ {0}, limit \in Nat : page = p[1] /\ limit = p[2] /\ (page = 1 \/ limit <= Cap)
    BY QueryAssumption DEF PagesFit
  <1>2. PICK got : got = ProviderPage(h, page, limit)
    OBVIOUS
  <1>3. PICK known \in BOOLEAN : known = WholePage(h, page, limit)
    BY DEF WholePage
  <1> DEFINE first == IF got = {} THEN 0 ELSE Min(got)
             new == {[block |-> h, at |-> x, index |-> (page - 1) * limit + x - first] : x \in got}
  <1>4. /\ answer' = [kind |-> "block", block |-> h, page |-> page, limit |-> limit, cached |-> known,
                      txs |-> IF known THEN {r.at : r \in CachedPage(h, page, limit)} ELSE got]
        /\ rows' = IF known \/ ~parse THEN rows ELSE rows \cup NewRows(new)
    BY <1>1, <1>2, <1>3 DEF GetBlock
  <1>5. got \subseteq PlacesOf(h, page, limit) /\ (limit <= Cap => got = PlacesOf(h, page, limit))
    BY <1>1, <1>2, GivenOfPage
  <1>6. PICK txs : /\ txs = (IF known THEN {r.at : r \in CachedPage(h, page, limit)} ELSE got)
                   /\ InPlace(h) =>
                        /\ txs \subseteq PlacesOf(h, page, limit)
                        /\ known \/ limit <= Cap => txs = PlacesOf(h, page, limit)
    <2>1. CASE known
      <3>1. ASSUME InPlace(h)
            PROVE  {r.at : r \in CachedPage(h, page, limit)} = PlacesOf(h, page, limit)
        BY <1>3, <2>1, <3>1, CachedIsPage
      <3> QED
        BY <2>1, <3>1
    <2>2. CASE ~known
      BY <1>5, <2>2
    <2> QED
      BY <2>1, <2>2
  <1>7. answer' = [kind |-> "block", block |-> h, page |-> page, limit |-> limit, cached |-> known, txs |-> txs]
    BY <1>4, <1>6
  <1>8. PageRight'
    <2>1. \A r \in rows : r \in rows'
      BY <1>4
    <2>2. InPlace(h)' => InPlace(h)
      BY <2>1 DEF InPlace
    <2> QED
      BY <1>6, <1>7, <2>2 DEF PageRight, PageGiven, InPlace, PlacesOf
  <1>9. AnswersRight'
    BY <1>7, <1>8 DEF AnswersRight, CountCorrected, BalanceWhole, FeeRight
  <1>10. RowsOK(rows \cup NewRows(new))
    <2>1. PICK a \in Nat : (page - 1) * limit = a
      BY PageEnds
    <2>2. PICK z \in Nat : z = Size[h]
      BY SizeIs
    <2>3. \A x \in got : x \in Nat /\ x < z /\ (page - 1) * limit + x - first = x
      <3> SUFFICES ASSUME NEW x \in got
                   PROVE  x \in Nat /\ x < z /\ (page - 1) * limit + x - first = x
        OBVIOUS
      <3>1. x \in Nat /\ x < z
        BY <1>5, <2>2 DEF PlacesOf
      <3>2. first = a
        BY <1>1, <1>2, <2>1, GivenOfPage
      <3> HIDE DEF first
      <3> QED
        BY <2>1, <3>1, <3>2
    <2> HIDE DEF first
    <2>4. new = {[block |-> h, at |-> x, index |-> x] : x \in got}
      BY <2>3
    <2>5. PICK N : N = {[block |-> h, at |-> x, index |-> x] : x \in got}
      OBVIOUS
    <2>6. N \subseteq [block : 1..MaxBest, at : Nat, index : Int]
      BY <2>3, <2>5
    <2>7. \A r \in N : r.at < Size[r.block]
      BY <2>2, <2>3, <2>5
    <2>8. \A r, o \in N : r.block = o.block /\ r.at = o.at => r = o
      BY <2>5
    <2>9. RowsOK(rows \cup NewRows(N))
      BY ONLY RowsOK(rows), <2>6, <2>7, <2>8, NewRowsOK
    <2> QED
      BY <2>4, <2>5, <2>9
  <1> HIDE DEF new
  <1> QED
    BY <1>4, <1>9, <1>10

-----------------------------------------------------------------------------
(* The answers.                                                              *)

FeesOK ==
  /\ fees \in [{"fee_high", "fee_medium", "fee_low"} -> Nat]
  /\ \A g \in {"fee_high", "fee_medium", "fee_low"} : fees[g] # 0 => fees[g] \in FeeMin..FeeMax

QueryInv == CountsOK /\ AddrOK(addr) /\ RowsOK(rows) /\ FeesOK /\ AnswersRight

LEMMA QueryInvInit ==
  ASSUME QueryInit
  PROVE  QueryInv
  <1>1. CountsOK
    BY QueryAssumption DEF QueryInit, CountsOK
  <1>2. AddrOK(addr)
    BY QueryAssumption DEF QueryInit, AddrOK, Addresses
  <1>3. RowsOK(rows)
    BY DEF QueryInit, RowsOK
  <1>4. FeesOK
    BY DEF QueryInit, FeesOK
  <1>5. AnswersRight
    BY DEF QueryInit, AnswersRight, CountCorrected, BalanceWhole, PageRight, FeeRight
  <1> QED
    BY <1>1, <1>2, <1>3, <1>4, <1>5 DEF QueryInv

(* AnswersRight speaks of the answer, and of the rows of its block.          *)
Fine(ans, R) ==
  /\ ans.kind = "count" /\ ans.asked # {} /\ ans.asked \subseteq {ans.tip, ans.tip - 1} \ {0}
       => ans.n \in {ans.tip, ans.tip - 1}
  /\ ans.kind = "balance" /\ ans.whole =>
       \E at \in [DOMAIN ans.list -> ans.since..ans.tip] :
         ans.sum = SumOver(DOMAIN ans.list, [x \in DOMAIN ans.list |-> Value[ans.list[x]][at[x]]])
  /\ ans.kind = "block" /\ (\A r \in R : r.block = ans.block => r.index \in {-1, r.at}) =>
       LET page == {x \in 0..Size[ans.block] - 1 :
                      (ans.page - 1) * ans.limit <= x /\ x < ans.page * ans.limit}
       IN  /\ ans.txs \subseteq page
           /\ ans.cached \/ ans.limit <= Cap => ans.txs = page
  /\ ans.kind = "fee" => ans.fee \in FeeMin..FeeMax

LEMMA AnswerKept ==
  ASSUME AnswersRight, answer' = answer, rows \subseteq rows'
  PROVE  AnswersRight'
  <1>1. Fine(answer, rows)
    BY Zenon DEF AnswersRight, CountCorrected, BalanceWhole, PageRight, PageGiven, InPlace, FeeRight, Fine
  <1>2. Fine(answer', rows')
    BY <1>1 DEF Fine
  <1> QED
    BY <1>2, Zenon DEF AnswersRight, CountCorrected, BalanceWhole, PageRight, PageGiven, InPlace, FeeRight, Fine

LEMMA AddrGrows ==
  ASSUME AddrOK(addr), addr' = addr, best \in Nat, best' \in {best, best + 1}
  PROVE  AddrOK(addr)'
  <1>1. \A h \in 1..best : h \in 1..best'
    OBVIOUS
  <1>2. \A a \in Addresses : addr[a].last \in Nat /\ addr[a].last <= best
    BY DEF AddrOK
  <1>3. \A a \in Addresses : addr[a].last <= best'
    BY <1>2
  <1> QED
    BY <1>1, <1>3 DEF AddrOK, Addresses

LEMMA BalanceStep ==
  ASSUME Orderly, CountsOK, AddrOK(addr), AnswersRight, Balances
  PROVE  AddrOK(addr)' /\ AnswersRight'
  <1>1. "balance" \in Queries /\ ~Wrong /\ best' = best /\ count' = count
    BY DEF Balances, Orderly, ReadWhole, GetBalance
  <1>2. Tip
    BY <1>1 DEF CountsOK, Tip
  <1>3. CASE \E a \in DOMAIN Value : ReadWhole(a)
    <2>1. PICK a \in Addresses : ReadWhole(a)
      BY <1>3 DEF Addresses
    <2>2. PICK r : r = [last |-> count.n, balance |-> Value[a][best]]
      OBVIOUS
    <2>3. addr' = [addr EXCEPT ![a] = r] /\ answer' = answer /\ rows' = rows
      BY <2>1, <2>2 DEF ReadWhole
    <2>4. r \in [last : Nat, balance : Nat] /\ r.last <= best /\ r.balance = Value[a][best]
      <3>1. Value[a][best] \in Nat
        BY <1>2, WorthIs
      <3> QED
        BY <1>2, <2>2, <3>1 DEF Tip
    <2>5. best \in 1..best
      BY <1>2 DEF Tip
    <2>6. addr' \in [Addresses -> [last : Nat, balance : Nat]]
      BY <2>3, <2>4 DEF AddrOK
    <2>7. ASSUME NEW b \in Addresses
          PROVE  /\ addr'[b].last <= best
                 /\ addr'[b].balance # 0 => \E h \in 1..best : addr'[b].last <= h /\ addr'[b].balance = Value[b][h]
      <3>1. CASE b = a
        <4>1. addr'[b] = r
          BY <2>3, <3>1 DEF AddrOK
        <4> QED
          BY <2>4, <2>5, <3>1, <4>1
      <3>2. CASE b # a
        <4>1. addr'[b] = addr[b]
          BY <2>3, <3>2 DEF AddrOK
        <4> QED
          BY <4>1 DEF AddrOK
      <3> QED
        BY <3>1, <3>2
    <2>8. AddrOK(addr)'
      BY <1>1, <2>6, <2>7 DEF AddrOK, Addresses
    <2> QED
      BY <2>3, <2>8, AnswerKept
  <1>4. CASE \E q \in AddressLists : \E fails \in [1..Len(q) -> BOOLEAN] : GetBalance(q, fails)
    <2>1. PICK q \in Seq(Addresses) : \E fails : GetBalance(q, fails)
      BY <1>4, QueryAssumption DEF Addresses
    <2> PICK fails : GetBalance(q, fails)
      BY <2>1
    <2>2. PICK b : b = Balance(q, fails)
      OBVIOUS
    <2>3. /\ addr' = b.rows
          /\ answer' = [kind |-> "balance", list |-> q, sum |-> b.sum, since |-> count.n, tip |-> best,
                        whole |-> \A k \in 1..b.asked : ~fails[k]]
      BY <2>2 DEF GetBalance
    <2>4. /\ b.sum \in Nat /\ AddrOK(b.rows)
          /\ (\A j \in 1..b.asked : ~fails[j]) => Left(q, <<>>, b.sum)
      BY <1>2, <2>2, BalanceIs
    <2>5. AddrOK(addr)'
      BY <1>1, <2>3, <2>4 DEF AddrOK, Addresses
    <2>6. PICK whole \in BOOLEAN : whole = \A k \in 1..b.asked : ~fails[k]
      OBVIOUS
    <2>7. whole => \E at \in [DOMAIN q -> count.n..best] :
                     b.sum = SumOver(DOMAIN q, [x \in DOMAIN q |-> Value[q[x]][at[x]]])
      BY <1>2, <2>4, <2>6, LeftNothing
    <2>8. PICK ans : /\ ans = answer' /\ ans.kind = "balance" /\ ans.list = q /\ ans.sum = b.sum
                     /\ ans.since = count.n /\ ans.tip = best /\ ans.whole = whole
      <3>1. answer' = [kind |-> "balance", list |-> q, sum |-> b.sum, since |-> count.n, tip |-> best,
                       whole |-> whole]
        BY <2>3, <2>6, Zenon
      <3> QED
        BY ONLY <3>1
    <2>9. ans.kind = "balance" /\ ans.whole =>
            \E at \in [DOMAIN ans.list -> ans.since..ans.tip] :
              ans.sum = SumOver(DOMAIN ans.list, [x \in DOMAIN ans.list |-> Value[ans.list[x]][at[x]]])
      BY ONLY <2>7, <2>8, Zenon
    <2>10. Fine(ans, rows')
      BY <2>8, <2>9 DEF Fine
    <2>11. AnswersRight'
      BY <2>8, <2>10, Zenon DEF AnswersRight, CountCorrected, BalanceWhole, PageRight, PageGiven, InPlace, FeeRight, Fine
    <2> QED
      BY <2>5, <2>11
  <1> QED
    BY <1>3, <1>4 DEF Balances

LEMMA FeeStep ==
  ASSUME FeesOK, AnswersRight, EstimateFees
  PROVE  FeesOK' /\ AnswersRight'
  <1> DEFINE Groups == {"fee_high", "fee_medium", "fee_low"}
  <1>1. CASE ForgetFees
    <2>1. fees' \in [Groups -> Nat] /\ \A g \in Groups : fees'[g] = 0
      BY <1>1 DEF ForgetFees, FeesOK
    <2> QED
      BY <1>1, <2>1, AnswerKept DEF ForgetFees, FeesOK
  <1>2. CASE \E within \in 1..6 \cup {Priority.low, Priority.high}, fee \in Fees : EstimateFee(within, fee)
    <2>1. PICK within \in 1..6 \cup {Priority.low, Priority.high}, fee \in Fees : EstimateFee(within, fee)
      BY <1>2
    <2>2. PICK found \in Nat : found = IF fee # 0 THEN fee ELSE FeeDefault
      BY QueryAssumption
    <2>3. PICK g \in Groups : g = Group(within)
      BY DEF Group
    <2>4. PICK told : told = IF fees[g] # 0 THEN fees[g] ELSE Clamp(found)
      OBVIOUS
    <2>5. fees' = [fees EXCEPT ![g] = told] /\ answer' = [kind |-> "fee", fee |-> told]
      BY <2>1, <2>2, <2>3, <2>4 DEF EstimateFee, StoreFee
    <2>6. told \in Nat /\ told \in FeeMin..FeeMax
      <3>1. FeeMin \in Nat /\ FeeMax \in Nat /\ FeeMin <= FeeMax
        BY QueryAssumption
      <3>2. Clamp(found) \in Nat /\ Clamp(found) \in FeeMin..FeeMax
        BY ONLY found \in Nat, <3>1 DEF Clamp
      <3>3. fees[g] \in Nat /\ (fees[g] # 0 => fees[g] \in FeeMin..FeeMax)
        BY DEF FeesOK
      <3> QED
        BY ONLY <2>4, <3>2, <3>3
    <2>7. fees' \in [Groups -> Nat] /\ \A x \in Groups : fees'[x] = told \/ fees'[x] = fees[x]
      BY <2>5, <2>6 DEF FeesOK
    <2>8. FeesOK'
      <3>1. \A x \in Groups : fees'[x] # 0 => fees'[x] \in FeeMin..FeeMax
        BY <2>6, <2>7 DEF FeesOK
      <3> QED
        BY <2>7, <3>1 DEF FeesOK
    <2>9. AnswersRight'
      BY <2>5, <2>6 DEF AnswersRight, CountCorrected, BalanceWhole, PageRight, FeeRight
    <2> QED
      BY <2>8, <2>9
  <1> QED
    BY <1>1, <1>2 DEF EstimateFees

LEMMA QueryStep ==
  ASSUME Orderly, PagesFit, QueryInv, [QueryNext]_asking
  PROVE  QueryInv'
  <1>1. CountsOK /\ AddrOK(addr) /\ RowsOK(rows) /\ FeesOK /\ AnswersRight /\ best \in Nat
    BY DEF QueryInv, CountsOK
  <1>2. ASSUME UNCHANGED <<best, count, mine>>
        PROVE  CountsOK'
    BY <1>1, <1>2 DEF CountsOK
  <1>3. ASSUME addr' = addr, best' \in {best, best + 1}
        PROVE  AddrOK(addr)'
    BY <1>1, <1>3, AddrGrows
  <1>4. ASSUME RowsOK(rows')
        PROVE  RowsOK(rows)'
    BY <1>4 DEF RowsOK
  <1>5. ASSUME fees' = fees
        PROVE  FeesOK'
    BY <1>1, <1>5 DEF FeesOK
  <1>6. CASE NewBlock
    <2>1. best < MaxBest /\ best' = best + 1 /\ UNCHANGED <<count, mine, addr, headers, rows, fees, answer>>
      BY <1>6 DEF NewBlock
    <2>2. CountsOK'
      <3>1. best' \in 1..MaxBest
        BY <1>1, <2>1, QueryAssumption DEF CountsOK
      <3>2. ~Wrong => count.n <= best' /\ \A s \in Service : mine[s] <= best'
        BY <1>1, <2>1 DEF CountsOK
      <3> QED
        BY <1>1, <2>1, <3>1, <3>2 DEF CountsOK
    <2> QED
      BY <1>1, <1>3, <1>4, <1>5, <2>1, <2>2, AnswerKept DEF QueryInv
  <1>7. CASE ExpireCount
    <2>1. count' = [count EXCEPT !.fresh = FALSE] /\ UNCHANGED <<best, mine, addr, headers, rows, fees, answer>>
      BY <1>7 DEF ExpireCount
    <2>2. count' \in [n : Nat, fresh : BOOLEAN] /\ count'.n = count.n
      BY <1>1, <2>1 DEF CountsOK
    <2>3. CountsOK'
      BY <1>1, <2>1, <2>2 DEF CountsOK
    <2> QED
      BY <1>1, <1>3, <1>4, <1>5, <2>1, <2>3, AnswerKept DEF QueryInv
  <1>8. CASE Counts
    <2>1. PICK s \in Service : Blockcount(s)
      BY <1>8 DEF Counts
    <2>2. UNCHANGED <<best, addr, rows, fees>>
      BY <2>1 DEF Blockcount
    <2>3. CountsOK' /\ AnswersRight'
      BY <1>1, <2>1, CountStep
    <2> QED
      BY <1>1, <1>3, <1>4, <1>5, <2>2, <2>3 DEF QueryInv
  <1>9. CASE Balances
    <2>1. UNCHANGED <<best, count, mine, rows, fees>>
      BY <1>9 DEF Balances, ReadWhole, GetBalance
    <2>2. AddrOK(addr)' /\ AnswersRight'
      BY <1>1, <1>9, BalanceStep
    <2> QED
      BY <1>1, <1>2, <1>4, <1>5, <2>1, <2>2 DEF QueryInv
  <1>10. CASE Blocks
    <2>1. RowsOK(rows') /\ AnswersRight' /\ UNCHANGED <<best, count, mine, addr, fees>>
      <3>1. CASE \E h \in 1..MaxBest, p \in Pages, parse \in BOOLEAN : GetBlock(h, p[1], p[2], parse)
        <4>1. PICK h \in 1..MaxBest, p \in Pages, parse \in BOOLEAN : GetBlock(h, p[1], p[2], parse)
          BY <3>1
        <4>2. UNCHANGED <<best, count, mine, addr, fees>>
          BY <4>1 DEF GetBlock
        <4> QED
          BY <1>1, <4>1, <4>2, BlockStep
      <3>2. CASE \E r \in Listed : CacheOther(r)
        <4>1. PICK r \in Listed : CacheOther(r)
          BY <3>2
        <4>2. rows' = rows \cup NewRows({r}) /\ UNCHANGED <<best, count, mine, addr, fees, answer>>
          BY <4>1 DEF CacheOther
        <4>3. RowsOK(rows \cup NewRows({r}))
          <5>1. PICK new : new = {r}
            OBVIOUS
          <5>2. new \subseteq [block : 1..MaxBest, at : Nat, index : Int]
            BY <5>1, QueryAssumption
          <5>3. \A x \in new : x.at < Size[x.block]
            BY <5>1, QueryAssumption
          <5>4. \A x, o \in new : x.block = o.block /\ x.at = o.at => x = o
            BY <5>1
          <5>5. RowsOK(rows \cup NewRows(new))
            BY ONLY <1>1, <5>2, <5>3, <5>4, NewRowsOK
          <5> QED
            BY <5>1, <5>5
        <4> QED
          BY <1>1, <4>2, <4>3, AnswerKept
      <3> QED
        BY <1>10, <3>1, <3>2 DEF Blocks
    <2> QED
      BY <1>2, <1>3, <1>4, <1>5, <2>1 DEF QueryInv
  <1>11. CASE EstimateFees
    <2>1. UNCHANGED <<best, count, mine, addr, rows>>
      BY <1>11 DEF EstimateFees, ForgetFees, EstimateFee
    <2>2. FeesOK' /\ AnswersRight'
      BY <1>1, <1>11, FeeStep
    <2> QED
      BY <1>1, <1>2, <1>3, <1>4, <2>1, <2>2 DEF QueryInv
  <1>12. CASE UNCHANGED asking
    <2>1. UNCHANGED <<best, count, mine, addr, rows, fees, answer>>
      BY <1>12 DEF asking
    <2> QED
      BY <1>1, <1>2, <1>3, <1>4, <1>5, <2>1, AnswerKept DEF QueryInv
  <1> QED
    BY <1>6, <1>7, <1>8, <1>9, <1>10, <1>11, <1>12 DEF QueryNext

(* blockcount() corrects a wrong count, getbalance() counts each address     *)
(* once, getblock() gives the page unless the cache has a row of the block   *)
(* with the index of another place, and estimatefee() a fee of the network,  *)
(* for any chain, addresses, pages, number of Service objects and whatever   *)
(* gettransactions() of other addresses has stored.                          *)
THEOREM AnswersCorrect ==
  ASSUME Orderly, PagesFit
  PROVE  QuerySpec => []AnswersRight
  <1>1. QueryInit => QueryInv
    BY QueryInvInit
  <1>2. QueryInv /\ [QueryNext]_asking => QueryInv'
    BY QueryStep
  <1>3. QueryInv => AnswersRight
    BY DEF QueryInv
  <1> QED
    BY <1>1, <1>2, <1>3, PTL DEF QuerySpec

=============================================================================
