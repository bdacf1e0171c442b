--------------------------- MODULE ServiceQueries ---------------------------
(***************************************************************************)
(* The other questions of the Service class (services/services.py) and     *)
(* their cache: blockcount(), getbalance(), getblock() and estimatefee().  *)
(* A call is one step; several Service objects share the cache.            *)
(***************************************************************************)
EXTENDS Integers, Sequences, SequencesExt, FiniteSets, FiniteSetsExt

CONSTANTS
  Service,     \* Service objects
  Queries,     \* what they are asked: "count", "balance", "block", "fee"
  MaxBest,     \* bound on the number of blocks
  Wrong,       \* may a provider report a block that does not exist?
  Fail,        \* may a request for the block count fail?
  Value,       \* [address -> [block -> balance]]
  AddressLists, \* lists of addresses whose balance is asked
  PerRequest,  \* addresses_per_request
  Size,        \* [block -> number of its transactions]
  Pages,       \* <<page, limit>> of getblock()
  Cap,         \* transactions in one answer of a provider
  Bare,        \* <<block, position>> of transactions without date or input value
  Listed,      \* rows that gettransaction() and gettransactions() add
  Fees,        \* answers of providers, 0 when they know none
  FeeMin, FeeMax, FeeDefault  \* of the network, FeeDefault 0 when it has none

ASSUME QueryAssumption ==
  /\ MaxBest \in Nat \ {0} /\ {Wrong, Fail} \subseteq BOOLEAN
  /\ \A a \in DOMAIN Value : Value[a] \in Seq(Nat) /\ Len(Value[a]) >= MaxBest
  /\ AddressLists \subseteq Seq(DOMAIN Value) /\ PerRequest \in Nat \ {0}
  /\ Size \in Seq(Nat) /\ Len(Size) >= MaxBest
  /\ Pages \subseteq (Nat \ {0}) \X Nat /\ Cap \in Nat \ {0}
  /\ Listed \subseteq [block : 1..MaxBest, at : Nat, index : Nat \cup {-1}]
  /\ \A r \in Listed : r.at < Size[r.block]
  /\ Fees \subseteq Nat /\ {FeeMin, FeeMax, FeeDefault} \subseteq Nat /\ FeeMin <= FeeMax

VARIABLES
  best,     \* number of the best block
  count,    \* the cached block count: n, 0 when there is none, and is it fresh
  mine,     \* [Service -> Service._blockcount], 0 for None and False
  addr,     \* DbCacheAddress: [address -> last_block and balance], 0 for NULL
  headers,  \* blocks with a DbCacheBlock row
  rows,     \* DbCacheTransaction: block, position in it, index (-1: NULL)
  fees,     \* [fee group -> the cached fee], 0 when there is none or expired
  answer    \* to the last call

asking == <<best, count, mine, addr, headers, rows, fees, answer>>

-----------------------------------------------------------------------------
NewBlock ==
  /\ best < MaxBest
  /\ best' = best + 1
  /\ UNCHANGED <<count, mine, addr, headers, rows, fees, answer>>

(* After a minute. *)
ExpireCount ==
  /\ count.fresh
  /\ count' = [count EXCEPT !.fresh = FALSE]
  /\ UNCHANGED <<best, mine, addr, headers, rows, fees, answer>>

-----------------------------------------------------------------------------
(* A provider may be one block behind, or fail: _provider_execute() returns *)
(* False after max_errors errors.                                           *)
Honest == {best, best - 1} \ {0}
Reports == Honest \cup (IF Fail THEN {0} ELSE {}) \cup (IF Wrong THEN {best + 1} ELSE {})

(* Of the cached count and five more answers the second highest.            *)
SecondHighest(q) ==
  LET top == CHOOSE i \in DOMAIN q : \A j \in DOMAIN q : q[j] <= q[i]
  IN  Max({q[j] : j \in DOMAIN q \ {top}})

(* What Service s makes of the answers of providers: the first, and five    *)
(* more if it is lower than the cached count.                               *)
Counted(s, first, more) ==
  IF count.n > first THEN SecondHighest(<<count.n>> \o more)
  ELSE IF mine[s] = 0 \/ first > mine[s] THEN first ELSE mine[s]

(* Stored unless the last request failed. *)
StoreCount(n, last) == IF last # 0 THEN [n |-> n, fresh |-> TRUE] ELSE count

Blockcount(s) ==
  IF count.fresh
  THEN /\ mine' = [mine EXCEPT ![s] = count.n]
       /\ answer' = [kind |-> "count", n |-> count.n, asked |-> {}, tip |-> best]
       /\ UNCHANGED <<best, count, addr, headers, rows, fees>>
  ELSE \E first \in Reports, more \in [1..5 -> Reports] :
         LET n == Counted(s, first, more)
             last == IF count.n > first THEN more[5] ELSE first
         IN  /\ count.n <= first => more = [x \in 1..5 |-> first]
             /\ mine' = [mine EXCEPT ![s] = n]
             /\ count' = StoreCount(n, last)
             /\ answer' = [kind |-> "count", n |-> n, tip |-> best, asked |-> {first} \cup ToSet(more)]
             /\ UNCHANGED <<best, addr, headers, rows, fees>>

-----------------------------------------------------------------------------
(* gettransactions() has read all transactions of the address.              *)
ReadWhole(a) ==
  /\ count.fresh
  /\ addr' = [addr EXCEPT ![a] = [last |-> count.n, balance |-> Value[a][best]]]
  /\ UNCHANGED <<best, count, mine, headers, rows, fees, answer>>

Known(a) == addr[a].last # 0 /\ addr[a].last >= count.n /\ addr[a].balance # 0

(* Addresses with a cached balance are removed from the list that is being  *)
(* iterated over: the address behind each of them is passed over.           *)
SweepAt(s, x) ==
  IF x <= Len(s.list) /\ Known(s.list[x])
  THEN [list |-> RemoveFirst(s.list, s.list[x]), sum |-> s.sum + addr[s.list[x]].balance]
  ELSE s

Sweep(q) == FoldLeftDomain(SweepAt, [list |-> q, sum |-> 0], q)

SumOver(S, f) == MapThenSumSet(LAMBDA x : f[x], S)

Total(q) == SumOver(DOMAIN q, [x \in DOMAIN q |-> Value[q[x]][best]])

(* The addresses left are asked for in chunks; fails[k] says whether request*)
(* k has no answer, which counts as nothing.  The row of a single address   *)
(* that is left is stored, without an answer with the balance False.        *)
Request(s, k, fails) ==
  LET left == Sweep(s.list)
      n == IF Len(left.list) < PerRequest THEN Len(left.list) ELSE PerRequest
      got == IF fails[k] THEN 0 ELSE Total(SubSeq(left.list, 1, n))
  IN  [list |-> SubSeq(left.list, n + 1, Len(left.list)), sum |-> s.sum + left.sum + got, asked |-> k,
       rows |-> IF Len(left.list) = 1 THEN [s.rows EXCEPT ![left.list[1]].balance = got] ELSE s.rows]

(* There are at most as many requests as addresses. *)
Balance(q, fails) ==
  FoldLeftDomain(LAMBDA s, k : IF s.list = <<>> THEN s ELSE Request(s, k, fails),
                 [list |-> q, sum |-> 0, asked |-> 0, rows |-> addr], q)

(* The block count does not expire within the call. *)
GetBalance(q, fails) ==
  LET b == Balance(q, fails)
  IN  /\ count.fresh
      /\ addr' = b.rows
      /\ answer' = [kind |-> "balance", list |-> q, sum |-> b.sum, since |-> count.n, tip |-> best,
                    whole |-> \A k \in 1..b.asked : ~fails[k]]
      /\ UNCHANGED <<best, count, mine, headers, rows, fees>>

-----------------------------------------------------------------------------
(* Rows, unless the cache has one of the transaction or it lacks data.      *)
NewRows(new) ==
  {r \in new : <<r.block, r.at>> \notin Bare /\ ~\E o \in rows : o.block = r.block /\ o.at = r.at}

(* gettransaction() stores no index; gettransactions() the position in its  *)
(* own answer.                                                              *)
CacheOther(r) ==
  /\ r.block <= best
  /\ rows' = rows \cup NewRows({r})
  /\ UNCHANGED <<best, count, mine, addr, headers, fees, answer>>

(* A provider gives at most Cap transactions, and pages by what it gives    *)
(* (blockstream, blockcypher).                                              *)
ProviderPage(h, page, limit) ==
  LET n == IF limit < Cap THEN limit ELSE Cap
  IN  {x \in 0..Size[h] - 1 : (page - 1) * n <= x /\ x < page * n}

CachedPage(h, page, limit) ==
  {r \in rows : r.block = h /\ (page - 1) * limit <= r.index /\ r.index < page * limit}

CachedHeader(h) == h \in headers

(* Headers always have all their fields. *)
StoreHeader(h) == headers \cup {h}

(* Slip: a page is whole when something of it is cached. *)
SomeOfPage(h, page, limit) ==
  /\ CachedHeader(h)
  /\ Cardinality(CachedPage(h, page, limit)) > 0 \/ limit = 0

(* The block is in the cache, and all transactions of the page are.         *)
WholePage(h, page, limit) ==
  LET n == Cardinality(CachedPage(h, page, limit))
      lastPage == page * limit > Size[h]
  IN  /\ CachedHeader(h)
      /\ n > 0 \/ limit = 0
      /\ ~lastPage => n >= limit
      /\ lastPage => (page - 1) * limit - Size[h] + n >= 0

(* With parse, the transactions are stored with their index.                *)
GetBlock(h, page, limit, parse) ==
  LET cached == WholePage(h, page, limit)
      got == ProviderPage(h, page, limit)
      first == IF got = {} THEN 0 ELSE Min(got)
      new == {[block |-> h, at |-> x, index |-> (page - 1) * limit + x - first] : x \in got}
  IN  /\ h <= best
      /\ answer' = [kind |-> "block", block |-> h, page |-> page, limit |-> limit, cached |-> cached,
                    txs |-> IF cached THEN {r.at : r \in CachedPage(h, page, limit)} ELSE got]
      /\ headers' = IF cached THEN headers ELSE StoreHeader(h)
      /\ rows' = IF cached \/ ~parse THEN rows ELSE rows \cup NewRows(new)
      /\ UNCHANGED <<best, count, mine, addr, fees>>

-----------------------------------------------------------------------------
Priority == [low |-> 25, high |-> 2]

Group(blocks) ==
  IF blocks <= 1 THEN "fee_high" ELSE IF blocks <= 5 THEN "fee_medium" ELSE "fee_low"

Clamp(fee) == IF fee < FeeMin THEN FeeMin ELSE IF fee > FeeMax THEN FeeMax ELSE fee

StoreFee(g, fee) == [fees EXCEPT ![g] = fee]

(* Raises when neither providers nor the network know a fee.                *)
EstimateFee(blocks, fee) ==
  LET found == IF fee # 0 THEN fee ELSE FeeDefault
      g == Group(blocks)
      told == IF fees[g] # 0 THEN fees[g] ELSE Clamp(found)
  IN  /\ fees[g] # 0 \/ found # 0
      /\ fees' = StoreFee(g, told)
      /\ answer' = [kind |-> "fee", fee |-> told]
      /\ UNCHANGED <<best, count, mine, addr, headers, rows>>

ForgetFees ==
  /\ fees' = [g \in DOMAIN fees |-> 0]
  /\ UNCHANGED <<best, count, mine, addr, headers, rows, answer>>

-----------------------------------------------------------------------------
QueryInit ==
  /\ best = 1
  /\ count = [n |-> 0, fresh |-> FALSE]
  /\ mine = [s \in Service |-> 0]
  /\ addr = [a \in DOMAIN Value |-> [last |-> 0, balance |-> 0]]
  /\ headers = {}
  /\ rows = {}
  /\ fees = [g \in {"fee_high", "fee_medium", "fee_low"} |-> 0]
  /\ answer = [kind |-> "none"]

Counts == "count" \in Queries /\ \E s \in Service : Blockcount(s)

Balances ==
  /\ "balance" \in Queries
  /\ \/ \E a \in DOMAIN Value : ReadWhole(a)
     \/ \E q \in AddressLists : \E fails \in [1..Len(q) -> BOOLEAN] : GetBalance(q, fails)

Blocks ==
  /\ "block" \in Queries
  /\ \/ \E h \in 1..MaxBest, p \in Pages, parse \in BOOLEAN : GetBlock(h, p[1], p[2], parse)
     \/ \E r \in Listed : CacheOther(r)

EstimateFees ==
  /\ "fee" \in Queries
  /\ \/ \E blocks \in 1..6 \cup {Priority.low, Priority.high}, fee \in Fees : EstimateFee(blocks, fee)
     \/ ForgetFees

QueryNext == NewBlock \/ ExpireCount \/ Counts \/ Balances \/ Blocks \/ EstimateFees

QuerySpec == QueryInit /\ [][QueryNext]_asking

-----------------------------------------------------------------------------
(* Where honest providers were asked, the block count is that of the best   *)
(* block or of the one before, whatever was cached or believed before: the  *)
(* consensus of blockcount() corrects a wrong count.                        *)
CountCorrected ==
  answer.kind = "count" /\ answer.asked # {} /\ answer.asked \subseteq {answer.tip, answer.tip - 1} \ {0}
    => answer.n \in {answer.tip, answer.tip - 1}

(* getbalance() counts every address of the list once, with a balance that  *)
(* it had at the cached block count or later, unless a request failed.      *)
BalanceWhole ==
  answer.kind = "balance" /\ answer.whole =>
    \E at \in [DOMAIN answer.list -> answer.since..answer.tip] :
      answer.sum = SumOver(DOMAIN answer.list, [x \in DOMAIN answer.list |-> Value[answer.list[x]][at[x]]])

(* The answer is the page that was asked for; a provider may give fewer     *)
(* transactions when the limit is above its own.                            *)
PageGiven ==
  LET page == {x \in 0..Size[answer.block] - 1 :
                 (answer.page - 1) * answer.limit <= x /\ x < answer.page * answer.limit}
  IN  /\ answer.txs \subseteq page
      /\ answer.cached \/ answer.limit <= Cap => answer.txs = page

(* No row of the block has the index of another place.                      *)
InPlace(h) == \A r \in rows : r.block = h => r.index \in {-1, r.at}

(* getblock() answers with the transactions of the page, from the cache     *)
(* with all of them, whoever stored some of them without an index and which *)
(* of them cannot be stored; unless gettransactions() has stored one with   *)
(* its place in the answer for an address.                                  *)
PageRight == answer.kind = "block" /\ InPlace(answer.block) => PageGiven

(* "with page=2 and limit=4 only transaction 5 to 8 are returned"           *)
PageDocumented == answer.kind = "block" => PageGiven

(* Fees stay within the bounds of the network, cached or by default.        *)
FeeRight == answer.kind = "fee" => answer.fee \in FeeMin..FeeMax

(* The answers are those of the chain and the network: see the four parts.  *)
AnswersRight == CountCorrected /\ BalanceWhole /\ PageRight /\ FeeRight
=============================================================================
