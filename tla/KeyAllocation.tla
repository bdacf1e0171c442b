--------------------------- MODULE KeyAllocation ---------------------------
(***************************************************************************)
(* Address keys of a bip32 wallet (wallets.py): new_keys(), get_keys(),    *)
(* keys_for_path(), new_account() and scan(), called by several programs   *)
(* that share the wallet's database.  A key is its place in the tree; ids  *)
(* of rows are kept, because unused keys are told apart by id.  The rows of*)
(* the levels above, made with the first key below them, are left out.     *)
(***************************************************************************)
EXTENDS Naturals, FiniteSets, FiniteSetsExt

CONSTANTS
  Session,    \* programs with the wallet open
  Scanner,    \* those of them that call scan()
  Account,    \* account ids
  MaxIndex,   \* bound on the address index of keys that are asked for
  MaxPaid,    \* bound on the address index of keys that are paid
  MaxAsk,     \* bound on number_of_keys
  Gap,        \* scan_gap_limit
  Tx          \* transactions of the network that pay to keys of the wallet

ASSUME AllocationAssumption ==
  /\ Scanner \subseteq Session
  /\ Account \subseteq Nat /\ 0 \in Account /\ IsFiniteSet(Account)
  /\ MaxIndex \in Nat /\ MaxPaid \in 0..MaxIndex /\ MaxAsk \in Nat \ {0} /\ Gap \in Nat \ {0}

(* Scans go on above MaxIndex, at most Gap keys after the last one used.    *)
Chain == Account \X {0, 1}
Address == Chain \X (0..(MaxIndex + Gap))

VARIABLES
  id,        \* [Address -> Nat], DbKey.id, 0 when there is no row
  used,      \* addresses whose DbKey.used is set
  touches,   \* [Tx -> SUBSET Address]: addresses of a confirmed transaction
  seen,      \* [Address -> SUBSET Tx]: up to DbKey.latest_txid
  call,      \* per session, new_keys() or get_keys() in progress
  scan,      \* per session, scan() in progress
  explicit,  \* addresses asked for by index, with key_for_path()
  late       \* addresses added by a call that found others of its keys taken

vars == <<id, used, touches, seen, call, scan, explicit, late>>

-----------------------------------------------------------------------------
NoCall == [phase |-> "idle", chain |-> <<0, 0>>, ask |-> 0, got |-> {}, index |-> 0, new |-> 0]
NoScan == [on |-> FALSE, chain |-> <<0, 0>>, todo |-> {}, asked |-> {}, found |-> FALSE]

Row == {a \in Address : id[a] > 0}
Keys(c) == {a \in Row : a[1] = c}
LastId == Max({id[a] : a \in Address})
Accounts == {a[1][1] : a \in Row}

(* prevkey.address_index + 1 *)
NextIndex(c) == IF Keys(c) = {} THEN 0 ELSE Max({a[2] : a \in Keys(c)}) + 1

LastUsedId(c) == Max({id[a] : a \in Keys(c) \cap used} \cup {0})

(* Slip: all keys that are not used. *)
UnusedAnywhere(c) == Keys(c) \ used

(* Unused keys that were made after the last one in use. *)
Unused(c) == {a \in Keys(c) \ used : id[a] > LastUsedId(c)}

(* The first n of a set of rows, in the order of their ids. *)
FirstOf(S, n) == {a \in S : Cardinality({b \in S : id[b] < id[a]}) < n}

(* The primary key, and the unique address: no row with the id or place.    *)
Insertable(N) ==
  \A a \in DOMAIN N : a \notin Row /\ \A b \in Row : id[b] # N[a]

Inserted(N) == [a \in Address |-> IF a \in DOMAIN N THEN N[a] ELSE id[a]]

(* Slip: the index is counted on before its first use. *)
NumberedLate(c, index, n, first) ==
  [a \in {<<c, i>> : i \in (index + 1)..(index + n)} |-> first + a[2] - index - 1]

(* Ids for n keys from the index on, one after the other. *)
Numbered(c, index, n, first) ==
  [a \in {<<c, i>> : i \in index..(index + n - 1)} |-> first + a[2] - index]

-----------------------------------------------------------------------------
(* new_keys() and get_keys(), cut at the commits of other sessions.          *)

Begin(s, k) ==
  /\ call[s].phase = "idle" /\ ~scan[s].on
  /\ call' = [call EXCEPT ![s] = k]
  /\ UNCHANGED <<id, used, touches, seen, scan, explicit, late>>

Wanted(c, n, S, phase) == [NoCall EXCEPT !.phase = phase, !.chain = c, !.ask = n, !.got = S]

NewKeys(s, c, n) == Begin(s, Wanted(c, n, {}, "need"))

GetKeys(s, c, n) ==
  Begin(s, IF Cardinality(Unused(c)) > n
           THEN Wanted(c, n, FirstOf(Unused(c), n), "done")
           ELSE Wanted(c, n, Unused(c), "need"))

(* Slip: the keys that were found are not deducted. *)
MissingAll(k) == k.ask

Missing(k) == k.ask - Cardinality(k.got)

(* keys_for_path() returns nothing for number_of_keys = 0. *)
ReadIndex(s) ==
  LET k == call[s]
      i == NextIndex(k.chain)
  IN  /\ k.phase = "need"
      /\ Missing(k) > 0 => i + Missing(k) - 1 <= MaxIndex
      /\ call' = [call EXCEPT ![s].phase = IF Missing(k) = 0 THEN "done" ELSE "lookup",
                              ![s].index = i]
      /\ UNCHANGED <<id, used, touches, seen, scan, explicit, late>>

First(k) == <<k.chain, k.index>>

(* The call with the key of its index, and what is left to do. *)
Having(k) ==
  [k EXCEPT !.got = @ \cup {First(k)},
            !.phase = IF Cardinality(k.got \cup {First(k)}) < k.ask THEN "bulk" ELSE "done"]

(* The path is looked up, and the wif in WalletKey.from_key().              *)
Lookup(s) ==
  LET k == call[s]
  IN  /\ k.phase = "lookup"
      /\ call' = [call EXCEPT ![s] =
           IF First(k) \in Row THEN Having(k)
           ELSE [k EXCEPT !.phase = "insert", !.new = LastId + 1]]
      /\ UNCHANGED <<id, used, touches, seen, scan, explicit, late>>

(* The commit of from_key(), or an IntegrityError. *)
Insert(s) ==
  LET k == call[s]
      N == Numbered(k.chain, k.index, 1, k.new)
  IN  /\ k.phase = "insert"
      /\ IF Insertable(N)
         THEN id' = Inserted(N) /\ call' = [call EXCEPT ![s] = Having(k)]
         ELSE call' = [call EXCEPT ![s].phase = "failed"] /\ UNCHANGED id
      /\ UNCHANGED <<used, touches, seen, scan, explicit, late>>

(* new_key_id for the other keys. *)
ReadLastId(s) ==
  /\ call[s].phase = "bulk"
  /\ call' = [call EXCEPT ![s].phase = "add", ![s].new = LastId + 1]
  /\ UNCHANGED <<id, used, touches, seen, scan, explicit, late>>

(* All other keys in one commit; those that exist are taken.  new_key_id is *)
(* increased before its first use.                                          *)
AddOthers(s) ==
  LET k == call[s]
      A == Numbered(k.chain, k.index + 1, Missing(k), k.new + 1)
      N == [a \in DOMAIN A \ Row |-> A[a]]
  IN  /\ k.phase = "add"
      /\ IF Insertable(N)
         THEN /\ id' = Inserted(N)
              /\ call' = [call EXCEPT ![s].phase = "done", ![s].got = @ \cup DOMAIN A]
              /\ late' = IF DOMAIN N = DOMAIN A THEN late ELSE late \cup DOMAIN N
         ELSE call' = [call EXCEPT ![s].phase = "failed"] /\ UNCHANGED <<id, late>>
      /\ UNCHANGED <<used, touches, seen, scan, explicit>>

Return(s) ==
  /\ call[s].phase \in {"done", "failed"}
  /\ call' = [call EXCEPT ![s] = NoCall]
  /\ UNCHANGED <<id, used, touches, seen, scan, explicit, late>>

(* key_for_path([change, index]) *)
KeyForPath(s, a) ==
  /\ call[s].phase = "idle" /\ ~scan[s].on
  /\ a \notin Row /\ a[2] <= MaxIndex
  /\ id' = [id EXCEPT ![a] = LastId + 1]
  /\ explicit' = explicit \cup {a}
  /\ UNCHANGED <<used, touches, seen, call, scan, late>>

(* new_account(): the account after the highest one; a key for payments and *)
(* one for change are committed one by one, the program may stop between.   *)
NewAccount(s) ==
  LET n == Max(Accounts \cup {0}) + 1
      p == <<<<n, 0>>, 0>>
      r == <<<<n, 1>>, 0>>
  IN  /\ call[s].phase = "idle" /\ ~scan[s].on
      /\ n \in Account
      /\ \/ id' = [id EXCEPT ![p] = LastId + 1, ![r] = LastId + 2]
         \/ id' = [id EXCEPT ![p] = LastId + 1]
      /\ UNCHANGED <<used, touches, seen, call, scan, explicit, late>>

-----------------------------------------------------------------------------
(* scan(): one action for each get_keys() and for each key.                  *)

Start(s, n) ==
  /\ call[s].phase = "idle" /\ ~scan[s].on
  /\ s \in Scanner /\ n \in Accounts
  /\ scan' = [scan EXCEPT ![s] = [on |-> TRUE, chain |-> <<n, 0>>, todo |-> {}, asked |-> {}, found |-> TRUE]]
  /\ UNCHANGED <<id, used, touches, seen, call, explicit, late>>

(* Slip: the loop over the keys is left early. *)
LoopingOn(s) == scan[s].on

Looping(s) == scan[s].on /\ scan[s].todo = {}

(* Slip: n_highest_updated is only set to 0 before the loop. *)
FoundBefore(s) == scan[s].found

(* n_highest_updated at the start of a round. *)
FoundInRound(s) == FALSE

(* get_keys(number_of_keys=scan_gap_limit), made without another session.   *)
(* The bound on Address only matters when keys asked for by index are used: *)
(* the last used id may then be above those of the highest keys.            *)
ListKeys(s) ==
  LET c == scan[s].chain
      n == Gap - Cardinality(Unused(c))
      N == IF n > 0 THEN Numbered(c, NextIndex(c), n, LastId + 1) ELSE [a \in {} |-> 0]
  IN  /\ Looping(s) /\ scan[s].found
      /\ DOMAIN N \subseteq Address
      /\ id' = Inserted(N)
      /\ scan' = [scan EXCEPT ![s].todo = (FirstOf(Unused(c), Gap) \cup DOMAIN N) \ scan[s].asked,
                              ![s].found = FoundInRound(s)]
      /\ UNCHANGED <<used, touches, seen, call, explicit, late>>

(* Transactions of a after its latest_txid. *)
News(a) == {t \in Tx : a \in touches[t]} \ seen[a]

(* scan_key(): transactions_update(key_id) until it finds nothing.  Stored  *)
(* transactions mark every key they pay or spend from as used.              *)
ScanKey(s, a) ==
  /\ scan[s].on
  /\ a \in FirstOf(scan[s].todo, 1)
  /\ seen' = [seen EXCEPT ![a] = @ \cup News(a)]
  /\ used' = used \cup (Row \cap UNION {touches[t] : t \in News(a)})
  /\ scan' = [scan EXCEPT ![s].todo = @ \ {a}, ![s].asked = @ \cup {a},
                          ![s].found = @ \/ News(a) # {}]
  /\ UNCHANGED <<id, touches, call, explicit, late>>

(* No key of the list had transactions: change keys, or the end. *)
NextChain(s) ==
  /\ Looping(s) /\ ~scan[s].found
  /\ scan' = [scan EXCEPT ![s] =
       IF scan[s].chain[2] = 0
       THEN [scan[s] EXCEPT !.chain = <<@[1], 1>>, !.found = TRUE]
       ELSE NoScan]
  /\ UNCHANGED <<id, used, touches, seen, call, explicit, late>>

(* An exception of the providers leaves scan(). *)
Abort(s) ==
  /\ scan[s].on /\ scan[s].todo # {}
  /\ scan' = [scan EXCEPT ![s] = NoScan]
  /\ UNCHANGED <<id, used, touches, seen, call, explicit, late>>

(* The network confirms a transaction. *)
Confirm(t, A) ==
  /\ touches[t] = {}
  /\ touches' = [touches EXCEPT ![t] = A]
  /\ UNCHANGED <<id, used, seen, call, scan, explicit, late>>

-----------------------------------------------------------------------------
(* create() makes the first key for payments, and none for change.           *)
Init ==
  /\ id = [a \in Address |-> IF a = <<<<0, 0>>, 0>> THEN 1 ELSE 0]
  /\ used = {}
  /\ touches = [t \in Tx |-> {}]
  /\ seen = [a \in Address |-> {}]
  /\ call = [s \in Session |-> NoCall]
  /\ scan = [s \in Session |-> NoScan]
  /\ explicit = {}
  /\ late = {}

Allocate(s) ==
  \/ \E c \in Chain, n \in 1..MaxAsk : NewKeys(s, c, n) \/ GetKeys(s, c, n)
  \/ ReadIndex(s) \/ Lookup(s) \/ Insert(s) \/ ReadLastId(s) \/ AddOthers(s) \/ Return(s)
  \/ \E a \in Address : KeyForPath(s, a)
  \/ NewAccount(s)

ScanStep(s) == ListKeys(s) \/ (\E a \in Address : ScanKey(s, a)) \/ NextChain(s)

Payable == {A \in SUBSET {a \in Address : a[2] <= MaxPaid} : Cardinality(A) \in 1..2}

Next ==
  \/ \E s \in Session : Allocate(s) \/ (\E n \in Account : Start(s, n)) \/ ScanStep(s) \/ Abort(s)
  \/ \E t \in Tx, A \in Payable : Confirm(t, A)

Spec == Init /\ [][Next]_vars

(* A program that scans goes on, unless a provider fails. *)
FairSpec == Spec /\ \A s \in Session : WF_vars(ScanStep(s))

-----------------------------------------------------------------------------
TypeOK ==
  /\ id \in [Address -> Nat]
  /\ used \subseteq Row
  /\ touches \in [Tx -> SUBSET Address]
  /\ seen \in [Address -> SUBSET Tx]
  /\ call \in [Session -> [phase : {"idle", "need", "lookup", "insert", "bulk", "add", "done", "failed"},
                           chain : Chain, ask : Nat, got : SUBSET Address, index : Nat, new : Nat]]
  /\ scan \in [Session -> [on : BOOLEAN, chain : Chain, todo : SUBSET Address, asked : SUBSET Address,
                           found : BOOLEAN]]
  /\ explicit \subseteq Row
  /\ late \subseteq Row

(* Keys that were made in the order of their chain, and two of them with no *)
(* other kind of key between them.                                          *)
InTurn == Row \ (explicit \cup late)

Between(a, b) == {e \in explicit \cup late : e[1] = a[1] /\ a[2] < e[2] /\ e[2] < b[2]}

Follows(b, a) == a[1] = b[1] /\ a[2] < b[2] /\ Between(a, b) = {}

(* Whatever other sessions insert between the read of the last index and    *)
(* the commit, only a key asked for by its index leaves a gap below it: a   *)
(* restored wallet finds the other keys within its gap limit; and keys of a *)
(* chain have their ids in the order of their indices, on which get_keys()  *)
(* relies when it takes the keys after the last used id.  Keys asked for by *)
(* index break that order, and so do keys added with the ids a call counted *)
(* out for them, when other sessions took the places of those before them:  *)
(* the ids those got may be higher.                                         *)
ChainsInOrder ==
  /\ \A a \in Row \ explicit : a[2] > 0 => <<a[1], a[2] - 1>> \in Row
  /\ \A a, b \in InTurn : Follows(b, a) => id[a] < id[b]

(* A call that returns gives as many keys as asked for, each with a row.    *)
AnswerComplete ==
  \A s \in Session : call[s].phase = "done" =>
    call[s].got \subseteq Row /\ Cardinality(call[s].got) = call[s].ask

(* A key handed out as unused does not precede a key of its chain that was  *)
(* in use before the call, where the keys were made in the order of the     *)
(* chain; get_keys() would reveal it as a forgotten address.                *)
AnswerAfterUsed ==
  [][\A s \in Session : call[s] = NoCall =>
       \A a \in call'[s].got \cap InTurn, b \in used \cap InTurn : ~Follows(b, a)]_vars

(* scan() leaves a chain only when Gap keys in a row after the last used    *)
(* one exist and each of them was asked for in this scan.                   *)
GapScanned ==
  [][\A s \in Session : NextChain(s) =>
       LET L == FirstOf(Unused(scan[s].chain), Gap)
       IN  Cardinality(L) = Gap /\ L \subseteq scan[s].asked]_vars

(* Every scan ends: transactions found late do not keep it going.           *)
ScanEnds == \A s \in Session : scan[s].on ~> ~scan[s].on
=============================================================================
