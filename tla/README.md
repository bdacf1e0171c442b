# Verification of bitcoinlib in TLA+

bitcoinlib is a library for Bitcoin wallets: a wallet keeps its keys, transactions and outputs in
a database, follows the blockchain through public service providers, and creates, signs and sends
transactions. This directory holds TLA+ models of the parts where the order of calls, failures
and commits decides about the outcome, configurations that check them with TLC, and proofs that
TLAPS checks. `PROJECT.json` maps every definition to the lines it models and lists runs,
mutants, findings, hazards and theorems.

## 1. Inventory

| Component | State | Operations | What makes it correct |
|---|---|---|---|
| Wallet tables (`wallets.py`, `db.py`) | `DbTransaction`, `DbTransactionInput`, `DbTransactionOutput` (spent), `DbKey` (used, latest_txid, balance), `Wallet._balances`, `WalletTransaction.pushed` | `transactions_update`, `transactions_update_by_txids`, `utxos_update`, `_balance_update`, `transaction_create`, `send`, `store`, `bumpfee`, `delete` | no output is spent twice; no transaction is skipped for ever; used keys stay used; balances add up |
| Provider requests (`services/services.py`) | results, errors, order of providers | `_provider_execute` | the best provider that answers is used; nothing is given up early |
| Service cache (`services/services.py`, `db_cache.py`) | cached transactions, spent flags, `DbCacheAddress.last_block`, block count with expiry | `gettransactions`, `getutxos`, `gettransaction`, `blockcount`, `getbalance`, `getblock`, `estimatefee` | an answer made of a cached and a fetched part equals one that was fetched as a whole |
| Coin selection (`wallets.py`, `transactions.py`) | the `WalletTransaction` object | `select_inputs`, `transaction_create`, `send`, `sweep`, `bumpfee` | inputs cover outputs and fee; nothing is lost in change |
| Key allocation (`wallets.py`) | `DbKey` rows, paths, used flags | `new_keys`, `get_keys`, `key_for_path`, `new_account`, `scan` | no path twice, no gap, no used key handed out; a scan covers the gap limit and ends |
| Wallet lifecycle (`wallets.py`) | `DbWallet` and dependent rows | `create`, `wallet_delete`, `wallet_empty`, `import_key` | nothing dangling, nothing lost by deletion of another wallet |
| Multisig (`wallets.py`, `transactions.py`) | cosigner wallets, signatures of an input | `sign`, `verify`, import of partly signed transactions | signatures in key order, complete when enough cosigners signed in any order |
| Transactions (`transactions.py`) | inputs, outputs, totals | parse, raw, sign, verify, `bumpfee` | totals consistent, parse inverts raw |
| Scripts (`scripts.py`) | stack machine | `Script.evaluate`, opcodes, templates | opcodes as in the consensus rules |
| Keys (`keys.py`), encodings (`encoding.py`), mnemonics (`mnemonic.py`) | none | derivation, path expansion, conversions, checksums | conversions invert each other, checksums detect errors |
| Blocks (`blocks.py`) | a stream with one position, the transactions read from it | `parse`, `parse_transactions`, `parse_transactions_dict`, `serialize` | what is read in parts is what was written |
| Values, networks, configuration, tools | small or none | parsing, formatting, lookups | — |
| Provider clients (`services/*.py`) | none | one class per external API, with paging loops | pages join without gap |

**Interactions.** A `Wallet` makes a new `Service` for each call. A `Service` asks its `Cache` (a
database that other processes share) and then, one after the other, its provider clients.
`Wallet.transactions_update()` hands `DbKey.latest_txid` to `gettransactions(after_txid)` and
stores what comes back; what the service says about *spent* goes straight into the wallet's tables.
`Wallet.send()` goes through `sendrawtransaction`, and stores only after a provider's answer.
Nothing is locked and each component commits several times in one call.

**What is hard.** Steps of the blockchain and of other devices between two calls and inside one;
providers that fail in the middle of a loop, lag behind the mempool or lose an answer after having
acted on it; a stop of the program between broadcast and store; several clients of one cache
database; last-seen markers (`latest_txid`, `last_block`, block count) that are read at one moment
and trusted at another; signatures that are handed on between wallets; conversions that drop a
leading zero or mistake one thing for another of the same length. The list, line by line, is under "hazards" in `PROJECT.json`.

## 2. Modules

| Module | Models | Checked in | Proofs |
|---|---|---|---|
| `WalletLedger` | the wallet's transaction tables, the calls that change them, and the chain they follow | `MCWalletLedger` | `WalletLedger_proofs` |
| `SpendOnce` | what a wallet promises about its coins | abstract; `SpendsOnce` | — |
| `TxStore` | the commits inside `store()` and `utxos_update()` | `MCKeys`, case "store" | `WalletDatabase_proofs` |
| `ProviderFailover` | one `_provider_execute()` | `MCProviderFailover` | `ProviderFailover_proofs` |
| `ServiceCache` | the cache of one address, used by several clients | `MCServiceCache`, `MCCacheCases` | `ServiceCache_proofs` |
| `ServiceQueries` | block counts, balances, blocks and fees with their cache | `MCCacheCases` | `ServiceCache_proofs` |
| `TransactionFunds` | the amounts of one transaction, from coin selection to fee bumps | `MCTransactionFunds`, `MCTransactions` | `TransactionFunds_proofs` |
| `ThresholdSign` | what signing by several parties promises | abstract; `SignsTogether` | — |
| `MultisigSign` | signatures of several cosigners in several objects | `MCTransactions`, cases "multi", "bumped", "single" | `MultisigSign_proofs` |
| `KeyAllocation` | address keys of a wallet, made by several programs, and `scan()` | `MCKeys`, cases "race", "path", "scan" | `KeyAllocation_proofs` |
| `WalletLifecycle` | wallets made, emptied and deleted in one database | `MCKeys`, case "life" | `WalletDatabase_proofs` |
| `ScriptSemantics` | what a script means | reference; `Evaluated` | — |
| `ScriptVM` | `Script.evaluate()` and its stack | `MCFormats`, case "evaluate" | — |
| `ScriptCode` | scripts made, written and read | `MCFormats`, case "script" | — |
| `TransactionWire` | transactions signed, written and read | `MCFormats`, case "wire" | — |
| `KeyDerivation` | hierarchical keys, extended keys, addresses | `MCFormats`, case "keys" | — |
| `Encodings` | phrases, signatures, bech32 | `MCFormats`, case "encodings" | — |
| `Blocks` | a block read bit by bit | `MCFormats`, case "block" | — |
| `SetLemmas` | nothing: facts about finite sets, sums and folds | — | its own, used by most proof modules |

**Suites.** `MCCacheCases`, `MCKeys`, `MCTransactions` and `MCFormats` instantiate several modules and
check them in one run: the first state picks a case in the variable `which`, each disjunct of `MCNext`
is the next-state relation of one case, the variables of the others do not move. A property of a
suite speaks about the cases its module belongs to. Several cases of one module differ in their
constants or leave out steps to stay small; the comment at the top of the suite lists them.

**How they belong together.** `WalletLedger` takes from `ServiceCache` and `ProviderFailover` that a
request fails or answers with a run of the history, possibly late. `TxStore` looks into the one step
`WalletLedger` uses for `store()`. `TransactionFunds` gets its unspent outputs from what
`WalletLedger` calls `Counted`, the keys it pays change to from `KeyAllocation`. `MultisigSign`
abstracts from what a signature commits to, which is `TransactionWire`'s question; the script of
its inputs is the one `WalletLifecycle` builds from the cosigners. `ScriptCode` says how the scripts in a
transaction are told apart, `ScriptVM` what they do, and `KeyDerivation` where their keys come from.

### WalletLedger

Transactions and coins (outputs that pay the wallet) are constants with their creators, owners
and inputs; a balance is the set of coins it adds up. `row`, `full`, `conf`, `output`, `spent`,
`used`, `latest`, `keyBal` are the columns of the tables; `accBal` is `Wallet._balances`;
`object[t]` says whether the program holds a `WalletTransaction` and if it was pushed; `sending`
is a transaction that a provider has accepted and `store()` has not written yet.

- A row of a transaction without inputs (`row \ full`) is what `utxos_update()` creates.
- `TransactionsUpdate(K)` is the whole of `transactions_update()`: the answers after `latest_txid`,
  the spent flags `transaction_update_spents()` derives from them, the stores, the marking of
  spent outputs, `latest_txid` (with the list that accumulates over the addresses: `LastOfList`)
  and `_balance_update()`. `TransactionsUpdateFails(k)` is the same call when the providers fail at
  key `k`: the markers committed so far stay.
- `Broadcast`, `FinishSend`, `SendFails` split `send()` at the answer of the provider; `Restart`
  may come between. `BumpFee` changes the object and deletes a pushed original; if its row is gone already the
  call ends with an error, and the object stays changed.
- `UtxosUpdate` and `UtxosUpdateFails` are `utxos_update()`; with `rescan_all` it first marks all outputs as
  spent, which stays if the providers fail. `SpentAfter` is the column when the call is through.
- The flags `Shared`, `SingleKey`, `Deletes`, `Aborts`, `Lag` and the set `Bumps` switch groups of
  behaviour on, so that a run or a theorem can say under which of them a property holds.

`SpendsOnce` is the refinement of `SpendOnce`, an abstract wallet that learns of transactions and coins, prepares a
spend of coins on offer, and forgets what it has prepared: `full` is what it has stored, `output \ spent` what it
offers, the objects its drafts. A stored transaction never conflicts with another and its coins are not on offer.

A call is one step except where it is split above: the wallet is used by one process at a time.
Reorganisations of the chain are not modelled (the code has no handling for them).

### TxStore

One transaction whose rows are the domain of `keyId`: the `DbTransaction` row at place 0, inputs and
outputs after it, each with its key or none (`NoKey`). `Store` begins a call, `Look` reads whether row and key are there, `Write`
commits the row (a program whose row was written by another meanwhile ends with an error of the
database), `Stop` may come after any commit. `Utxo` is the call of `utxos_update()` that stores one output
and reads everything before it writes. `StoreComplete` says that a call that ends well leaves a whole
transaction, with the keys it knew, whatever was there before; `RowsTogether` that a key with a row is used. The
specification is `StoreSpec`, so that `MCKeys` can extend the module beside `KeyAllocation`.

### ProviderFailover

`order` is the sorted provider list (equal priorities in any order); each loop iteration is a step
(`Skip`, `Answer`, `EmptyAnswer`, `Exception`), `Return` what follows the loop. An exception may come
before or after the provider has done what it was asked to (`performed`), and an `AttributeError`
is not recorded. `max_errors` is compared only in the exception handler, as in the code.

### ServiceCache

Transactions of the address are numbered in chain order. `gettransactions()` is cut where other
clients and the network can come between: `Begin` (address row and cached transactions), `Ask`
(block count comparison, request to a provider), `StoreTransactions` (second read of the block count,
first loop, commit; `LastBlock` is what `last_block` becomes, also when what cannot be cached has no height), `Finish` (address row, second loop). `Return` is the end without caching, `Stop` a
failure or crash at any place. The two `store_address()` calls and the second loop are one step; what
could be seen between them is a subset of what the loop then adds. `GetUtxos` and `CacheSingle`
(`gettransaction()`) are one step each. Caching is on and `min_providers` is 1, the defaults.
`Slow` allows the cached block count to expire inside a call, `Lag` a provider one block behind,
`Flaws` transactions that cannot be cached, `Foreign` an `after_txid` that is not cached, `OneEach`
forbids two transactions of the address in one block.

### ServiceQueries

Each call is one step: what it reads from the cache, asks, and stores. Several `Service` objects
share the cache (`count` with its expiry, `addr`, `headers`, `rows`, `fees`) and keep a block count of their
own (`mine`). `Questions` in `MCCacheCases` gives the five settings that are checked. `answer` is what the
last call returned with what it should be compared to. The two loops of `getbalance()` are folds: `Sweep` is the walk
over a list from which addresses are removed meanwhile, `Balance` the requests for what is left, of which
there are at most as many as addresses. `Listed` are rows that `gettransaction()` (no index) and
`gettransactions()` (any index: the place in its answer) of addresses leave in the cache. A page of the cache with
enough rows is taken for whole, so `PageRight` is stated for blocks whose rows are all in their place, whatever is
missing and has no index; `PageDocumented`, without that condition, is violated.

### TransactionFunds

One `WalletTransaction` from the call that makes it to its last `bumpfee()`. `request` holds the
arguments, `tx` inputs, change outputs in their order, fee and fee per kilobyte, `result` how the
last call ended. `mode` tells the three ways to name a fee apart: `none` (`fee=None`), `priority`
(a string) and `given` (a number); `chosen` is `input_arr`.

- `Selected` is `select_inputs()`: an output that leaves no change, else one that is large enough, else the
  first combination. The query is ordered by confirmations (`Age`), and the orders by amount that are added to it
  count only among outputs of the same age: one output is the oldest that fits (`Oldest`), the smallest among
  equally old ones, and `combinations()` goes through the lesser outputs from old to new (`Earlier`). The answer of
  the database is not ordered among equals.
- `TransactionCreate` is `transaction_create()` with its refusals; `Build` is everything that follows the
  choice of inputs; `Splits` the random division of the change, in parts of 1/`Parts`.
- `Send` is the second creation when the fee is more than a tenth off, `Sweep` is `sweep()`.
- `BumpWith` is `WalletTransaction.bumpfee()` with the loop of `Transaction.bumpfee()` (`Deducted`), the
  input that is added when the change is not enough (the oldest that is large enough), and the second attempt.

Sizes are those of `estimate_size()`; that the signed transaction may be some bytes off is left out,
as are keys, scripts and the order of outputs. An object whose call raised an exception after it was
changed is `damaged` and not used any more.

### KeyAllocation

A key is its place in the tree, `<<account, change>>` and index; `id` is the primary key of its row,
which `get_keys()` sorts by. `new_keys()` is cut where it reads and commits: `ReadIndex`, `Lookup` (of the
parent and of the first key), `Insert` (the first key), `ReadLastId`, `AddOthers` (the bulk insert with
ids of its own), `Return`. Two programs that insert the same path or id are stopped by the unique
constraints, which is how `Insert` and `AddOthers` fail. `scan()` is `Start`, then for each list of
unused keys `ListKeys` and one `ScanKey` per key, and `NextChain`; a provider may fail (`Abort`) and
transactions arrive between the steps (`Confirm`).
`ChainsInOrder` says that there is no gap, and that the ids of a chain are in the order of the indexes.
Both have exceptions in the code. `explicit` are the keys of `key_for_path()`, which may leave gaps and be
older than keys below them. `late` is a variable that only remembers: when other programs have
taken places of a bulk insert, `AddOthers` leaves these out but counts its ids on over them, and the keys it
does add may get ids below those of the keys before them. The order of ids (and with it `AnswerAfterUsed`)
is therefore stated for keys made `InTurn`, neither explicit nor late, with no other kind of key between them.

### WalletLifecycle

A `bip32` wallet, a single key wallet and a multisig wallet with a wallet per cosigner, in one database.
Creation is one commit per step (`Create`, `CreateMain`, `CreatePay`, `CreateCosigner`), and `Crash` may come
between; `wallet_create_or_open()` then opens what is there. `Delete` and `Empty` are `wallet_delete()` and
`wallet_empty()` with the rows they remove or unlink (`Removal`). Deletion of the multisig wallet calls itself for each
cosigner wallet and commits every time (`DeleteMulti`, `DeleteNext`): it may stop, or be refused, after some of them; `Sync` and `SyncUtxo` store transactions. Names of
cosigners sort as text (`NameBefore`), the order `Wallet()` opens them in. The names `LifeInit`, `LifeNext`, `LifeSpec`
and `LifeTypeOK` leave `Init`, `Next`, `Spec` and `TypeOK` to `KeyAllocation`, with which `MCKeys` extends the module.

### MultisigSign and ThresholdSign

An object holds, per input, a sequence of signatures; a signature is its key, the version of the
transaction it signs, and the `public_key` attribute, which `verify()` sets
and a dictionary loses. `SignInput` is `Transaction.sign()` for one input with the places it assigns (`Domain`,
`Filled`), `VerifyInput` the walk of `Input.verify()` over keys and signatures. `WalletSign` is `sign()` of a
`WalletTransaction`, which calls that of `Transaction` for each input (`SignEach`) and then `verify()`; `Bump` is `bumpfee()`, whose
`sign_and_update()` comes to the same `sign()` with `replace_signatures`. `DirectSign` and `DirectBump` are the methods of a
plain `Transaction` object (`WalletTransaction.to_transaction()`): its `sign()` goes through the inputs in one loop that ends
at the first one without a new signature, and does not verify. `ThresholdSign` forgets
order and attributes: per object and input a set of signers, and whether it is accepted.
`Needed` are the signatures that `update_scripts()` writes into the input; `VerifiedSound` speaks about those.
`SignsTogether` is the refinement: the valid signers of `MultisigSign` only grow by signing, are copied by a
hand-over, and an object is verified exactly when every input has enough. `MCTransactions` extends the
module for three cosigners, and takes it twice more: as `Bumped`, where the cosigners bump fees, and as `Single`, one
wallet that bumps fees, imports dictionaries and handles plain transactions; `BumpedSound` is `VerifiedSound` of both. `KeysSign`
says that `sign()` of a wallet leaves a valid signature of each of its keys, which is false after a fee bump (section 3).

### ScriptVM and ScriptSemantics

`commands`, `stack` and `verdict` are the loop of `Script.evaluate()`; a step takes one command. `If` cuts
the list of commands as `op_if()` does. Items are sequences of bytes, numbers in the encoding with a sign
bit; signatures, keys and hashes are symbols. `ScriptSemantics` is written from the rules of script
for a stack of integers: a table of moves, arithmetic by definition, a stack of conditions.
`MeansTheSame` compares acceptance at the end of every program. Operations that the code gets wrong
(section 3) are modelled as they are in the code but not among the programs of the run (`MCUnequal` and `MCLocks` hold two of them). The code's threshold of locktimes (`Threshold`) and that of the rules (`RuleThreshold`) are two constants.

### ScriptCode

`Built` makes the commands of a script type from its template, `Serialize` and `Parse` write and read
bytes, `Types` recognises a type by templates; of several that fit, `Choice` takes the last whose lengths agree. All 20 types of `config.py` that `Script()` can make,
with data of all lengths near the prefixes, up to 16 keys and redeem scripts of up to 15.

### TransactionWire

A raw transaction is a sequence of tokens: bytes of counts and lengths, and fields. `Digest` is
made of the tokens that `signature()` hashes for legacy and for segwit inputs, so that two hashes are equal only
if they commit to the same. `SignedAgain` is what `sign_and_update()` does to signatures, which the setters of locktimes
and `merge_transaction()` call, but not `add_output()`. `shown` is the signature in the unlocking script of an input that needs one
signature: it is written once, so that later ones are not sent (`Replaced`); `Merge` leaves inputs and outputs in any order, as `shuffle()` does; `Parse` reads with all the guesses of `parse_bytesio()` and
`update_scripts()`.

### KeyDerivation, Encodings, Blocks

A secret is the set of hashes that were added up; the public key of a secret is the same set, so that
public and private derivation can be compared without curves. Extended keys are read by their
prefixes, from a table as in `networks.json` with its ambiguous rows. `Encodings` computes on bits and
bytes as the code does: base changes with their handling of zeros, DER, `convertbits`. The digest of a phrase
is any function of the entropy. `Blocks` has one position in one stream, from which
transactions are read as objects or dictionaries, in pages.

The runs of the suites and of `ProviderFailover` say `CHECK_DEADLOCK FALSE`: a request, a script or a
block that was read ends; chains, keys and transactions are bounded by `MaxTip`, `NTx`, `MaxIndex`, `Tx`.

## 3. Runs

| Run | Checks | Bounds | Result |
|---|---|---|---|
| `LedgerOwn` | `SpentWhenStored`, `SpendsOnce` | payment, two spends of it of which one may be built while the other is stored, spend of the change; failing providers, crashes, single-key updates | holds, 166k states |
| `LedgerFaults` | `TypeOK`, `FundsReturn` | payment, spend and its replacement, change; lagging and failing providers, deletions, fee bumps, crashes | holds, 173k states |
| `LedgerLive` | `NothingSkipped`, `StoredKeysUsed`, `ConfirmedIsStored`, `SpentInTheEnd` | a payment to two keys and a spend with change; updates of single keys, a second device, an output below the dust limit | holds, 1.7k states |
| `Failover` | `BestAnswer`, `GivenUpLate` | 5 providers in 3 priorities, one unusable; 2 answers, 2 errors | holds, 3.9k states |
| `CacheRaces` | `InOrder`, `CacheIsPrefix` | 2 clients, block counts that expire inside calls, 3 transactions, limit 2, 3 blocks | holds, 3.5M states |
| `Cache` | `Complete`, `UtxosComplete`, `AnswersRight` | 2 clients with 4 blocks; 1 client with all faults; `getutxos()` between the steps of `gettransactions()`; block counts of 1 and 2 services, balances of lists of 1 and 3 addresses, pages of blocks of 1, 5 and 4 transactions with rows in and out of their place, fees | holds, 1.2M states |
| `Keys` | `ChainsInOrder`, `AnswerComplete`, `AnswerAfterUsed`, `GapScanned`, `ScanEnds`, `NoDangling`, `Remembered`, `OneScript`, `OthersKept`, `StoredWhole` | 2 sessions, indexes 0 to 3, up to 3 keys a call; gap limit 2, 2 transactions during a scan; wallets with 2 cosigners, 2 transactions, one of them of two wallets; 2 programs storing a transaction of 3 rows and its own | holds, 397k states |
| `Transactions` | `Balanced`, `SelectsFewest`, `FeeWithin`, `BumpPays`, `InKeyOrder`, `VerifiedSound`, `SignsTogether`, `BumpedSound` | three outputs of four amounts, one of them older, two payments, fees given and estimated at two rates, one to three change outputs, any number of bumps; 2 inputs of 2 of 3 keys, three cosigners; an input of 2 of 3 keys in 2 versions; 2 inputs of one key in 2 versions | holds, 1.3M states |
| `Formats` | `Evaluated`, `ScriptKept`, `SignsAll`, `TransactionKept`, `KeysAsDerived`, `ReadBack` | below | holds, 355k states |
| `SyncAborted` | `NothingSkipped` | a provider fails at a later address | violated |
| `SingleCached` | `NothingMissing` | `gettransaction()` before `gettransactions()` | violated |
| `FeeBelowMinimum` | `FeeAboveMinimum` | inputs chosen by the caller, amounts as in `Transactions` | violated |

Properties of a suite that are conjunctions: `Complete` is `Ascending`, `NothingMissing` and
`LastBlockSound`; `AnswersRight` is `CountCorrected` (a late or exaggerated count is corrected when
several providers are asked), `BalanceWhole`, `PageRight` and `FeeRight`; `StoredWhole` is `StoreComplete` and
`RowsTogether` of `TxStore`; `TransactionKept` is `Received`, `WeightRight` and
`BlockRight`; `KeysAsDerived` is `AsDerived` and `WatchOnly`; `ReadBack` is `WifKept`, `ReadAsWritten`, `AddressTyped`
and `RoundTrip` of `Encodings`.

**Why the bounds are enough.** In the ledger, three keys and a chain payment – spend – spend of
change give every relation the code distinguishes: two keys in one transaction, spender before and
after the spent one, a list over several addresses, a conflict (`s` and `r`). In the cache, a limit of 2 with 3
transactions gives empty, partial and full pages and answers joined from both sources; four blocks
give a block before, during and after a call. `PerRequest` 2 with lists of 3 addresses gives a second
request; `Cap` 3 with blocks of 1, 5 and 4 transactions gives pages that a provider cuts. In the
amounts, outputs at, near and far above the dust limit and two rates, one of which makes a change
output dearer than the dust limit, reach every branch of selection, change and bump; an output that is older than the
others is taken before smaller ones. Two sessions
that ask for up to three keys meet at every pair of commits; indexes up to 3 leave room for a gap, and for a
bulk insert whose middle place is taken (smaller bounds hid that ids are then out of order). A gap limit
of 2 with payments up to index 1 makes a scan go on twice. Three cosigners of which two are needed can sign in
every order, twice, and with each missing; two inputs tell an input from the transaction. The theorems of section 4 have no bounds.

**The cases of `Formats`.** "evaluate": all sequences of up to five commands of conditions and
pushes, two nested conditions, every pair of operations on stacks of up to six numbers at the
boundaries of one and two bytes, multisig scripts with up to three signatures, hashes, and locktimes on both sides of the code's threshold, for a
transaction below both thresholds (numbers of two bytes instead of four). "script": every type, lengths
1 to 80 of data and all numbers of keys, so that pushes of 75, 76, 255 and 256 bytes occur. "wire": an input of each type,
alone or with another one, outputs around 253 and of 65534 to 65536 bytes. "keys": five networks that share
prefixes or lack them, depth up to 4. "encodings": entropies of 4 to 32 bytes with any number of leading zeros,
r and s of 20 to 32 significant bytes with and without a high bit, witness programs of 2 to 40 bytes. "block": 1 to 4
transactions, pages of 1 and 2, heights of one to three bytes, blocks that are cut off.

**Fairness.** `LedgerLive` assumes that the user keeps calling `transactions_update()` (bitcoinlib
does nothing on its own, a wallet that is never updated learns nothing) and that a call of `send()`
whose program is not stopped returns. `LedgerFaults` assumes the same of `utxos_update()` for all keys with `rescan_all`,
its default, and that one now and then ends without an error of the providers. `Keys` assumes weak fairness of the steps of a scan: `scan()` is a loop that goes
on unless a provider fails, which `Abort` allows at any time. Nothing is assumed of the network, of
other programs or of crashes. Safety properties do not depend on fairness.

### Where the code and its documentation differ

The three violation runs are the findings in `PROJECT.json`. TLC shows more disagreements with the
configurations below (constants changed, the definition as the only INVARIANT or PROPERTY):

| Definition | Configuration | What happens |
|---|---|---|
| `DeleteReleasesFree` | `LedgerFaults`, SPECIFICATION Spec, Aborts = Lag = FALSE | `delete()` asks at wallets.py:1071 for inputs of the deleted transaction itself and releases an output that another stored transaction spends |
| `BalanceExact` | `LedgerOwn`, Tx = {f, s}, Coin = {"f1", "s3"}, Aborts = SingleKey = FALSE | `_balance_update()` leaves the account balance as it was when no output is left (wallets.py:3135) |
| `NoStoredConflict` | `LedgerFaults`, SPECIFICATION Spec, Aborts = Lag = Deletes = FALSE | `bumpfee()` (wallets.py:1133) removes the original only if this object pushed it, and only once: an update before `send()` brings it back |
| `SpentWhenStored` | `LedgerOwn`, Tx = {f, s}, Coin = {"f1", "s3"}, Aborts = SingleKey = FALSE, Lag = TRUE | a provider that has not seen the broadcast makes an update set a spent output to unspent (wallets.py:983) |
| `SpentWhenStored` | `LedgerLive` | an output stored after its spender is inserted as unspent (wallets.py:3571) and is offered until a later update of its key (`SpentInTheEnd`) |
| `StoredKeysUsed` | `LedgerLive`, Deletes = TRUE | `delete()` clears `used` of a key that has other outputs (wallets.py:1076) |
| `KeyBalanceExact` | `LedgerOwn`, Tx = {f, s}, Coin = {"f1", "s3"}, Aborts = SingleKey = FALSE, Deletes = TRUE | `delete()` looks for the key by `latest_txid` after clearing it and never updates its balance (wallets.py:1078) |
| `EnoughProviders` | `Failover` | one answer is enough whatever `min_providers` says (services.py:240) |
| `FailsAboveMax` | `Failover` | empty answers are not compared with `max_errors` (services.py:203) |
| `PerformedIsReported` | `Failover` | a provider acts on the request and its answer is lost: reported as a failure (services.py:214) |
| `CacheIsPrefix` | `SingleCached`, Singles = FALSE, Flaws = TRUE, OneEach = FALSE | the second loop caches what follows a transaction that cannot be cached (services.py:428) |
| `CacheIsPrefix` | `SingleCached`, Singles = FALSE, Foreign = Utxos = TRUE | an address row created by `getutxos()` allows caching after an unknown `after_txid` (services.py:401) |
| `InOrder` | `SingleCached`, Singles = OneEach = FALSE, NTx = 4, Limit = 2 | the index restarts at 0 in every answer, a block split over two pages is returned in another order (services.py:409) |
| `NothingMissing` | `CacheRaces` | the block count stored as `last_block` is newer than the answer (services.py:402) |
| `NothingMissing` | `SingleCached`, Singles = OneEach = FALSE, Limit = 2 | a full page ends inside the newest block (services.py:405) |
| `UtxosUnspent` | `SingleCached`, Singles = FALSE, Utxos = TRUE | a cached output stays unspent when its spender is cached (services.py:929) |
| `ConfirmationsNatural` | `CacheRaces`, MaxTip = 4 | an expired block count is False: confirmations become negative (services.py:850) |
| `BumpDeducts` | `FeeBelowMinimum` | a change output that pays after another was removed pays the whole extra fee (transactions.py:2200): more than asked is paid |
| `Unlocked` | `Formats`, Cases = {"wire"} | "Zero means no locktime", but a locktime of 0 sets 0xffffffff and enables it |
| `Remembered` | `Keys`, Emptied = {single} | `wallet_empty()` of a wallet with a single key leaves the key with `latest_txid`, so that the removed transactions are not downloaded again (wallets.py:197) |
| `DeleteKeepsFunds` | `Keys` | only balances of private keys stop `wallet_delete()` (wallets.py:164); keys of a multisig wallet are made with is_private=False (wallets.py:1889) |
| `PageDocumented` | `Cache`, Cases = {"blocks"} | `gettransactions()` caches as index the place in its own answer (services.py:409), `getblock()` takes it for the place in the block: a page holds transactions of another one |
| `BumpedKeysSign` | `Transactions`, Coin = {c1} | after a bump by the only signer of 2 of 3 the old signature stays in the list, `verify()` gives it the key that was tried last (keys.py:2943), and `sign()` passes over that cosigner as already signed (transactions.py:1762) |
| `Replaced` | `Formats`, Cases = {"wire"} | the unlocking script of a pay-to-public-key input is written only while it is empty (transactions.py:471): signed again, it is sent with the old signature |
| `Evaluated` | `Formats`, Cases = {"evaluate"}, Program <- MCUnequal | `op_numequalverify()` drops the False of `op_numequal()` (scripts.py:1074) and verifies the item on top: items that are no numbers pass |
| `Evaluated` | `Formats`, Cases = {"evaluate"}, Program <- MCLocks, Locktime = 500 | `op_checklocktimeverify()` takes 50000000 (scripts.py:1239) for the threshold between blocks and seconds, which is 500000000: a locktime between the two is refused for a script whose lock is met |

Others need other constants of the suite:

- `InKeyOrder` with `AsDict = TRUE` for three cosigners: signatures of a dictionary have no key, the
  places of new ones are wrong.
- `VerifiedSound` with `Directly` and `Versions = 2` for 2 of 3: `bumpfee()` of a plain transaction does not verify.
- `SignsAllInputs` (a definition of `MultisigSign`) with three inputs and `Directly`: transactions.py:1708 says that all are
  signed, keys are handed to some.
- `CountCorrected` with `Wrong` and `Fail`, or two services: a wrong count is kept and spreads.

### What the runs leave aside

Met in reading the code while writing the models, and kept out of the inputs of the runs, or
outside of what the models tell apart; nothing below is shown by a run.

- Scripts: `2swap`, `pick`, `roll`, `tuck`, `sub` differ from the rules of script, and so does a second
  "else"; `within` takes the number on top for the one to be tested, which is
  the upper bound in the rules; `checksequenceverify` always passes; data that alone looks like a script of
  one part is taken for it.
- Transactions: weight units of legacy inputs in a segwit transaction; the witness of a parsed
  segwit coinbase is not written again; hash types other than "all" are swapped (transactions.py:1553) or
  ignored; `set_locktime_relative_*` sign one input again; counts of 65535 are written with five bytes.
- Wallets: `raw()` loses partial multisig signatures; a row of `utxos_update()` is never set complete by a later
  `store()`; a multisig key whose children rows were not committed is never repaired; more than
  ten unsorted cosigners are ordered by name (run with two); `import_key()` looks through all
  wallets of the database.
- Keys: hardened items are derived as normal ones from a public key (keys.py:2203, a TODO);
  `address_uncompressed()` changes the key; an uncompressed key whose last byte is 1 reads as a compressed one;
  prefixes that stand for several types (`Mtub`, legacy multisig) are read as the first.
- Encodings: a DER signature with hash type of 64 bytes is taken for r and s; a phrase without
  checksum loses leading zero bytes; strengths of 512 and 1024 can be generated and not be written.
- Queries: the first page of ten transactions is one of 25 from blockstream (blockstream.py:215); with no block count at all, cached rows count as up to date; `isspent` stays False once cached; a
  cached header by height survives a reorganisation; the estimates of 2 blocks share a group with medium fees.
- Blocks: `parse_transaction_dict()` adds no transaction object though its doc says so; the network is not
  handed to the transactions; heights that need fewer than three bytes in a coinbase (regtest) are misread.

## 4. Proofs

All theorems are about the specification with arbitrary constants that satisfy the assumption of
the module. Each has the form *Init establishes, every step keeps, the strengthening implies*.

| Theorem | Under | Argument |
|---|---|---|
| `WalletLedger_proofs!TypeCorrect` | — | `TypeOK` is inductive; one lemma for `Store`, one for `DeleteRows`, one for `BalanceUpdate` |
| `SpentCorrect` | `OwnWallet`: not Shared, Lag, Deletes; no Bumps | `SpentWhenStored` alone is not inductive: `OwnWalletInv` adds that the network accepts no conflicts (`ChainOrder`) and that the wallet knows every output a live transaction spends (`Followed`); then what an answer says of an output agrees with what is stored (`SpenderAnswered`) |
| `CreateCorrect` | `OwnWallet` | an input of a stored transaction is spent, hence not in `Counted` |
| `PromiseKept` | `OwnWallet` | the refinement of `SpendOnce`: updates, `store()` and single-key updates are `Learn`, `transaction_create()` is `Prepare`, `Restart` is `Forget`, blocks and failures without a commit are stutters. Two stored transactions do not conflict because the network holds both (`ChainOrder` in `OwnWalletInv`); `SendsObject` says that what is being sent is a draft |
| `NothingSkippedCorrect` | `KeepsRows`: no Deletes, Aborts, Bumps | with `LatestIsMined` (latest_txid names a confirmed transaction, which is a lemma): what precedes the new marker was in the answer or before the old marker; a new block is above all markers |
| `UsedCorrect` | no Deletes, no Bumps | every way to store an output sets `used` of its key |
| `ProviderFailover_proofs!TypeCorrect` | — | `TypeOK` is inductive |
| `BestCorrect` | — | `AnswersInOrder`: the answers are a subsequence of the order, all from before `next` |
| `GivenUpCorrect` | — | `Decided`, with `AllTried`: at the end of the loop everybody was tried |
| `ServiceCache_proofs!TypeCorrect` | — | `TypeInv` adds to `TypeOK` what a call in progress knows: its hits are cached, its confirmed transactions are in blocks, its marks are not above the tip (`CallTypes`) |
| `PrefixCorrect` | no Flaws, Foreign, Singles | `PrefixInv`: blocks are in order (`Ordered`), and what a call is about to store follows without gap what it knows to be cached (`CallOK`), which other clients only add to |
| `OrderCorrect` | as `PrefixCorrect`, with OneEach | `TurnInv` on top of `PrefixInv`: heights rise with the numbers (`Rising`), and what the cache has given a call is `after + 1, after + 2, ...` (`Follows`), because a sorted list of neighbours holds each in its turn (`ListInTurn`, by counting) |
| `AscendingCorrect` | OneEach | the same with `Climbs` for `Follows`, which holes in the cache do not break |
| `LastBlockCorrect`, `NothingMissingCorrect` | as `OrderCorrect`, and neither Slow nor Lag | `SoundInv`: a call in progress knows all transactions of the blocks up to the last_block it read, up to its block count once it has asked (unless the page is full), and up to the last_block it is about to store (`CallSound`); the block count does not change while a call is in progress (`CountStays`) |
| `UtxosCorrect` | no Flaws, Foreign, Singles, with OneEach | `UtxoInv` on top of `PrefixInv` and `Rising`: what the cache or a provider says is spent was spent by a transaction that the network has seen (`SpentKnown`), and nobody has seen more than the network; so an output that is skipped has its spender in the cache or above what was cached, and a page that is not full is everything (`FirstOfWhole`) |
| `AnswersCorrect` | `Orderly`, `PagesFit` | `QueryInv`. Counts: the second highest of six is an honest one, or the cached count below an honest one (`Consensus`). Balances: what is left of a list is a choice of places of it, and the sum is made of one balance for each of the others (`Left`); an address that is removed (`LeftWithout`), a sweep (`SweepKeeps`) and a request (`RequestDoes`) keep that, and at the end nothing is left (`LeftNothing`). Pages: if every row of the block has its place as index or none (`InPlace`), rows and places of a page are as many only if they are the same (`CachedIsPage`); nothing is assumed of the rows other calls leave |
| `KeyAllocation_proofs!TypeCorrect`, `KeysInOrder`, `AnswersComplete` | — | one invariant, `IInv`: beside types it says that ids are distinct, that each chain is filled from 0 but for what is below explicit keys, and what a call in progress `Knows`: its keys are rows, the key of its index exists once it is in "bulk", the index it read was the next one, so that all below have smaller ids or were added since |
| `UnusedAfterUsed` | — | `IInv`, and that `FirstOf` picks exactly as many rows as asked for (`FirstOfSize`) |
| `GapAsked` | `Alone`: one session | `Round`: while a scan runs nothing else is in progress, and unless the round has brought news the keys it has asked for or still has to ask for are the gap; `ListKeysGap` shows that a new round begins with the gap |
| `TransactionFunds_proofs!TypeCorrect`, `BalanceCorrect` | — | `IInv` is `TypeOK`, `Balanced`, `Sized` (what was returned has a size, and no negative change), `FromSelection` and `NothingFound`; the sums over inputs and change are followed through `Build`, `Splits`, `Deducted` and the added input |
| `FewestCorrect` | — | `FromSelection` and `NothingFound` keep what `select_inputs()` promised: the inputs are a selection for the target, or no selection of the allowed size exists. Which combination is first is decided by age and amount; that one is, if any covers the target, is `SomeLeads` |
| `FeeCorrect` | — | with `FromSelection`: either the change took what is above the fee, or it was not worth an output |
| `BumpCorrect` | — | what `Deducted` takes from the change outputs is at least what was asked, by induction over their places |
| `MultisigSign_proofs!TypeCorrect` | — | signing keeps one signature per place of a key, because an order cannot be kept by more numbers than there are (`NoMorePlaces`) |
| `VerifiedCorrect` | nothing is done without the wallet (`~Directly`) | for any number of versions: every action that changes signatures ends in `verify()`. `VerifiedSound` with `Unmade`: the walk of `verify()` depends on the first `Required` signatures only (`SameCount`), and not on `public_key`, the only thing it changes (`Like`) |
| `BumpedCorrect` | `OneKey`, `OwnsAll` | for any number of versions, bumps with and without the wallet and direct `sign()`: a wallet verifies what it has signed (`WalletHolds`), a plain transaction keeps `verified`; with one key an input has nothing or the one signature that was just made (`OneKeyAll`), which replaces that of the version before, and `verify()` needs the first (`OneKeyVerify`). This is `BumpedSound` of `Transactions` for every wallet with single keys |
| `KeyOrder` | `Distinct`, one version, objects | `IInv`: every list of signatures is `Ordered`, by keys at increasing places; then each old signature finds the place of its key (`DomainOrdered`), none has to fill a free one, and `verify()` counts all (`VerifyOrdered`) |
| `VerifiedStays` | as `KeyOrder` | `EnoughSigned` in `IInv`: lists only grow, so what was enough stays so although `sign()` does not verify |
| `Together` | as `KeyOrder`, no direct `sign()` | the refinement of `ThresholdSign`: `CreateTx` is a stutter, `WalletSign` is `Sign` with the keys that signed, `Import` is `Receive`; under `IInv` all signatures of a list are valid (`SignatoriesAre`) and as many as their signers |
| `WalletDatabase_proofs!TypeCorrect` | — | `LifeInv` adds to `LifeTypeOK` what is to be committed next (`MakingOK`: its wallet is there, or its script with a key of every cosigner), that cosigner wallets have no transactions (`RowsOK`), and that a deleted multisig wallet has left nothing |
| `ChildrenCorrect` | — | `LinkedWithout` removes the links of the keys that go, and `MakingOK` what `LinkChildren` will link |
| `OneScriptCorrect` | sorted keys, or at most ten cosigners | cosigners are added only while there is no script (`AddsFirst`), so a script made with all of them has them in order; the sorted list is the order of creation (`WholeList`), because both orders are those of a number (`Ordering`) and `CosignerList` has one place for each |
| `OthersKeptCorrect`, `RememberedCorrect` | `Emptiable` | `LinksOwn`: a row's outputs refer to keys of its wallet only, and a row of nobody to none; so the keys that go with a wallet are exactly those of its rows (`RemovalKeys`) |
| `StoredCorrect` | — | `StoreInv`: a call of `store()` has its places left in turn, and all before them are rows with the key it knew (`RowOK`), whoever wrote them; rows never go, and a key stays once it is set, because every call looks for keys that only become more; a call of `utxos_update()` has the transaction's row before the output's (`UtxoOK`) |

The assumptions on constants are `LedgerAssumption`, `FailoverAssumption`, `CacheAssumption`, `QueryAssumption` (an address has
a balance at each block, a block a number of transactions, `FeeMin` is not above `FeeMax`), `AllocationAssumption`,
`FundsAssumption`, `SigningAssumption` (inputs have lists of keys, `sign()` is called with lists),
`LifecycleAssumption` (wallets have different names) and `StoreAssumption` (inputs and outputs are lists of addresses). `Distinct` says that
no input has a key twice, `OneKey` that each has one key, `OwnsAll` that every wallet has the private keys.
`Emptiable` says that `wallet_empty()` is called for wallets whose address keys it deletes: it only deletes keys with a
`parent_id` (wallets.py:220), unlinks all transactions and leaves `latest_txid` of the keys that stay, so that a
single key wallet that was emptied does not find its transactions again. `Remembered` and `OthersKept` are false there.
`Orderly` says that no provider reports a block that does not exist, or that one service asks for counts only and always gets
an answer; `PagesFit` that only first pages are longer than the answers of providers. `CountCorrected` is false
without the first (section 3); without the second a provider counts its pages by its own limit
(blockstream.py:221), and a later page is another part of the block. All five settings of `Questions` meet both.
The hypotheses about signing are not convenience: `InKeyOrder` is false with dictionaries, `VerifiedSound` after the fee bump of
a plain transaction of several keys (section 3), and `SignsTogether` counts signers, of which a repeated key is only one.

**Induction.** The induction theorems of the library take an operator, which the provers cannot instantiate.
`SetLemmas` states them for the *set* of what has the property instead (`CountInduction`, `SubsetInduction`), and
derives from them that a fold exists and takes its elements one by one (`FoldExists`, `FoldInTurn`); so what
`MapThenSumSet` and `FoldLeft` compute in these models can be reasoned about.

**Only model-checked.** Liveness (`ConfirmedIsStored`, `SpentInTheEnd`, `FundsReturn`, `ScanEnds`), which is out of
reach of the prover; `Complete` as a whole (the conjunction of `Ascending`, `LastBlockSound`
and `NothingMissing`, which are proved, stated for the cases of its run); of `Keys`, `GapScanned` while another session
works on the same wallet; everything in `Formats`. The properties of `Formats` speak about sequences that
`RECURSIVE` operators compute, in modules where the prover has no SMT backend; they are checked for the
inputs named above. The strengthenings behind the theorems (`OwnWalletInv`, `SoundInv`, `LifeInv`, the modules' `IInv`) are proved
and no properties of a run.

## 5. Not modelled

- Elliptic curve arithmetic, hash functions, base58 and BIP38: computations without state, with test vectors in `tests/`.
  Where they matter they are symbols (`KeyDerivation`, `ScriptVM`).
- `values.py` and the quantity formats: floating point and text, which TLC has no numbers for.
- HTTP and RPC clients (`services/*.py`), configuration, logging, command line tools, opening and
  encryption of databases: input and output.
- Taproot signatures and hash types other than "all": the code does not offer the former for signing.
- `import_key`, `import_master_key`, `utxo_add`, several accounts or networks in one ledger, `isspent`, `mempool`, `getinfo`.
- Reorganisations of the chain: the code has no handling for them.

## 6. Plan

The liveness of several programs that store into one database, and the ledger of more than one account and network.
