-------------------------- MODULE WalletLifecycle --------------------------
(***************************************************************************)
(* Wallets that are created, emptied and deleted in one database           *)
(* (wallets.py): Wallet.create(), wallet_create_or_open(), wallet_delete() *)
(* and wallet_empty(), with the rows they leave to others.  Three wallets: *)
(* one with a master key, one with a single key, and a multisig wallet,    *)
(* which has a wallet of its own for every cosigner.                       *)
(***************************************************************************)
EXTENDS Naturals, Sequences, FiniteSets, SequencesExt

CONSTANTS
  hd, single, multi,  \* names of wallets
  Cosigner,           \* names of the cosigner wallets, cosigner 0 first
  SortKeys,           \* are the keys of a multisig script sorted?
  Txid, NoWallet,     \* transactions, and wallet_id of a row that has none
  Pays,               \* [Txid -> the keys it pays], one of a wallet at most
  Emptied, Deleted    \* wallets the user calls wallet_empty(), wallet_delete() for

NCos == Len(Cosigner)
Wallet == {hd, single, multi} \cup {Cosigner[i] : i \in 1..NCos}

(* A script is the sequence of its cosigners, "main" the key a wallet is    *)
(* made with, "pay" an address key derived from it.                         *)
Script == {s \in UNION {[1..n -> 1..NCos] : n \in 1..NCos} : IsInjective(s)}
Whole == [i \in 1..NCos |-> i]
PlainKey == {<<w, "main">> : w \in Wallet \ {multi}} \cup {<<w, "pay">> : w \in Wallet \ {single, multi}}

(* wallets.name is unique; there is a key for one cosigner at least.        *)
ASSUME LifecycleAssumption ==
  /\ NCos \in Nat \ {0} /\ Cosigner \in [1..NCos -> Range(Cosigner)] /\ IsInjective(Cosigner)
  /\ hd # single /\ hd # multi /\ single # multi
  /\ {hd, single, multi} \cap Range(Cosigner) = {}
  /\ NoWallet \notin Wallet
  /\ SortKeys \in BOOLEAN

VARIABLES
  wallets,  \* DbWallet rows
  parent,   \* cosigner wallets whose parent_id is the multisig wallet
  keys,     \* DbKey rows of PlainKey
  scripts,  \* DbKey rows of multisig keys
  linked,   \* those with their DbKeyMultisigChildren rows
  rows,     \* DbTransaction rows: transaction, wallet, is_complete, keys of its outputs
  latest,   \* <<key, transaction>>: not after latest_txid of the key
  funded,   \* keys whose balance is not 0
  making,   \* create(), new_key() or wallet_delete() in progress: what is next
  object    \* the multisig Wallet object: "none", "created", "opened"

life == <<wallets, parent, keys, scripts, linked, rows, latest, funded, making, object>>

-----------------------------------------------------------------------------
(* The key of the multisig wallet stands for its keys of all scripts. *)
Owner(k) == k[1]
AddressKeys(w) ==
  CASE w = single -> {<<single, "main">>} \cap keys
    [] w = hd     -> {<<hd, "pay">>} \cap keys
    [] w = multi  -> IF Whole \in scripts THEN {<<multi, "pay">>} ELSE {}
    [] OTHER      -> {}

KeyRows == keys \cup (IF scripts # {} THEN {<<multi, "pay">>} ELSE {})

(* WalletKey rows of the multisig wallet itself are not private. *)
Private(k) == k[1] # multi

Digits(n) == IF n < 10 THEN <<n>> ELSE <<n \div 10, n % 10>>
NameBefore(i, j) ==
  LET a == Digits(i - 1)
      b == Digits(j - 1)
  IN  a[1] < b[1] \/ (a[1] = b[1] /\ (Len(a) < Len(b) \/ (Len(a) = Len(b) /\ a[Len(a)] < b[Len(b)])))

Cosigners == {i \in 1..NCos : Cosigner[i] \in parent}

(* Slip: opened wallets have the cosigner with the last name first.         *)
LastFirst(i, j) == IF object = "created" THEN i < j ELSE NameBefore(j, i)

(* Wallet.cosigner: as appended by create(), sorted by name when opened.    *)
CosignerBefore(i, j) == IF object = "created" \/ SortKeys THEN i < j ELSE NameBefore(i, j)
CosignerList ==
  CHOOSE L \in [1..Cardinality(Cosigners) -> Cosigners] :
    \A m, n \in DOMAIN L : m < n => CosignerBefore(L[m], L[n])

-----------------------------------------------------------------------------
Nothing == <<"nothing">>

(* _create() of a wallet: the row, then its keys.  The user may give a      *)
(* wallet the name of a cosigner wallet.                                    *)
Create(w) ==
  /\ making = Nothing
  /\ w \in {hd, single, multi} \/ w = Cosigner[NCos]
  /\ w \notin wallets
  /\ wallets' = wallets \cup {w}
  /\ making' = IF w = multi THEN <<"cosigner", 1>> ELSE <<"main", w>>
  /\ object' = IF w = multi THEN "created" ELSE object
  /\ UNCHANGED <<parent, keys, scripts, linked, rows, latest, funded>>

(* What follows the keys of wallet w: create() goes on with a cosigner.     *)
After(w) ==
  IF w \in parent
  THEN LET i == CHOOSE j \in 1..NCos : Cosigner[j] = w
       IN  IF i = NCos THEN Nothing ELSE <<"cosigner", i + 1>>
  ELSE Nothing

(* The key and main_key_id. *)
CreateMain(w) ==
  /\ making = <<"main", w>>
  /\ keys' = keys \cup {<<w, "main">>}
  /\ making' = IF w = single THEN Nothing ELSE <<"pay", w>>
  /\ UNCHANGED <<wallets, parent, scripts, linked, rows, latest, funded, object>>

(* key_for_path(change=0, address_index=0) *)
CreatePay(w) ==
  /\ making = <<"pay", w>>
  /\ keys' = keys \cup {<<w, "pay">>}
  /\ making' = After(w)
  /\ UNCHANGED <<wallets, parent, scripts, linked, rows, latest, funded, object>>

(* The wallet of cosigner i, unless the name is taken.                      *)
CreateCosigner(i) ==
  LET w == Cosigner[i]
  IN  /\ making = <<"cosigner", i>>
      /\ IF w \in wallets
         THEN making' = Nothing /\ object' = "none" /\ UNCHANGED <<wallets, parent>>
         ELSE /\ wallets' = wallets \cup {w}
              /\ parent' = parent \cup {w}
              /\ making' = <<"main", w>>
              /\ UNCHANGED object
      /\ UNCHANGED <<keys, scripts, linked, rows, latest, funded>>

(* wallet_create_or_open() of the wallet that is there. *)
Open ==
  /\ making = Nothing /\ multi \in wallets
  /\ object' = "opened"
  /\ UNCHANGED <<wallets, parent, keys, scripts, linked, rows, latest, funded, making>>

(* new_key() of the multisig wallet: a key of every cosigner wallet that    *)
(* has a master key, and the script of all of them.  The wallet's own       *)
(* cosigner is the first one.                                               *)
NewMultisigKey ==
  LET L == CosignerList
  IN  /\ making = Nothing /\ object # "none" /\ multi \in wallets
      /\ \E j \in DOMAIN L : L[j] = 1
      /\ \A j \in DOMAIN L : <<Cosigner[L[j]], "main">> \in keys
      /\ keys' = keys \cup {<<Cosigner[L[j]], "pay">> : j \in DOMAIN L}
      /\ scripts' = scripts \cup {L}
      /\ making' = IF L \in scripts THEN Nothing ELSE <<"children", L>>
      /\ UNCHANGED <<wallets, parent, linked, rows, latest, funded, object>>

(* The rows of key_multisig_children, in a second commit. *)
LinkChildren ==
  /\ making[1] = "children"
  /\ linked' = linked \cup {making[2]}
  /\ making' = Nothing
  /\ UNCHANGED <<wallets, parent, keys, scripts, rows, latest, funded, object>>

(* The program stops, or ends. *)
Crash ==
  /\ making # Nothing
  /\ making' = Nothing /\ object' = "none"
  /\ UNCHANGED <<wallets, parent, keys, scripts, linked, rows, latest, funded>>

-----------------------------------------------------------------------------
RowOf(t, w, complete, links) == [tx |-> t, wallet |-> w, complete |-> complete, links |-> links]

(* Slip: a row of any wallet is taken over. *)
AnyRow(t, w) == {r \in rows : r.tx = t}

(* store() looks for the wallet's row, then for one without a wallet.       *)
Found(t, w) ==
  LET own == {r \in rows : r.tx = t /\ r.wallet = w}
  IN  IF own # {} THEN own ELSE {r \in rows : r.tx = t /\ r.wallet = NoWallet}

(* transactions_update() with one transaction after latest_txid.            *)
Sync(k, t) ==
  LET w == Owner(k)
  IN  /\ making = Nothing /\ w \in wallets
      /\ k \in AddressKeys(w) \cap Pays[t] /\ <<k, t>> \notin latest
      /\ \/ \E r \in Found(t, w) :
              rows' = (rows \ {r}) \cup {RowOf(t, w, r.complete, r.links \cup {k})}
         \/ /\ Found(t, w) = {}
            /\ rows' = rows \cup {RowOf(t, w, TRUE, {k})}
      /\ latest' = latest \cup {<<k, t>>}
      /\ funded' = funded \cup {k}
      /\ UNCHANGED <<wallets, parent, keys, scripts, linked, making, object>>

(* utxos_update(): an incomplete row.                                       *)
SyncUtxo(k, t) ==
  LET w == Owner(k)
  IN  /\ making = Nothing /\ w \in wallets
      /\ k \in AddressKeys(w) \cap Pays[t]
      /\ ~\E r \in rows : r.tx = t /\ r.wallet = w
      /\ rows' = rows \cup {RowOf(t, w, FALSE, {k})}
      /\ funded' = funded \cup {k}
      /\ UNCHANGED <<wallets, parent, keys, scripts, linked, latest, making, object>>

(* Slip: what is left of other wallets becomes nobody's, too. *)
UnlinkedAll(R, w) == {[r EXCEPT !.wallet = NoWallet] : r \in {q \in R : q.complete}}

NoLinks(R, K) == {[r EXCEPT !.links = @ \ K] : r \in R}

(* Incomplete transactions of a wallet are deleted, the others unlinked.    *)
Unlinked(R, w) ==
  {r \in R : r.wallet # w} \cup
  {[r EXCEPT !.wallet = NoWallet] : r \in {q \in R : q.wallet = w /\ q.complete}}

(* Slip: only the child rows of the wallet's own keys are deleted. *)
LinkedOwn(K) == linked

(* A multisig key without one of its children has lost the link. *)
LinkedWithout(K) == {s \in linked : \A j \in DOMAIN s : <<Cosigner[s[j]], "pay">> \notin K}

(* Unspent outputs stop a deletion when a private key holds them. *)
Refused(w) == \E k \in funded \cap keys : Owner(k) = w /\ Private(k)

KeysOf(w) == {k \in KeyRows : Owner(k) = w}

(* One commit: the wallet with its keys.                                    *)
Removal(w) ==
  LET K == KeysOf(w)
  IN  /\ wallets' = wallets \ {w}
      /\ parent' = parent \ {w}
      /\ keys' = keys \ K
      /\ scripts' = IF w = multi THEN {} ELSE scripts
      /\ linked' = IF w = multi THEN {} ELSE LinkedWithout(K)
      /\ rows' = Unlinked(NoLinks(rows, K), w)
      /\ latest' = {x \in latest : x[1] \notin K}
      /\ funded' = funded \ K
      /\ object' = IF w = multi THEN "none" ELSE object

(* wallet_delete() of a wallet that has no cosigner wallets.                *)
Delete(w, force) ==
  /\ making = Nothing /\ w \in (Deleted \cap wallets) \ {multi}
  /\ force \/ ~Refused(w)
  /\ Removal(w)
  /\ UNCHANGED making

(* wallet_delete() of the multisig wallet calls itself for every cosigner   *)
(* wallet, with a commit for each, before the wallet itself goes.           *)
DeleteMulti(force) ==
  /\ making = Nothing /\ multi \in Deleted \cap wallets
  /\ making' = <<"delete", force>>
  /\ UNCHANGED <<wallets, parent, keys, scripts, linked, rows, latest, funded, object>>

DeleteNext(w) ==
  /\ making[1] = "delete"
  /\ w \in (IF parent = {} THEN {multi} ELSE parent)
  /\ \/ /\ making[2] \/ ~Refused(w)
        /\ Removal(w)
        /\ making' = IF w = multi THEN Nothing ELSE making
     \/ /\ ~making[2] /\ Refused(w)
        /\ making' = Nothing
        /\ UNCHANGED <<wallets, parent, keys, scripts, linked, rows, latest, funded, object>>

(* wallet_empty(): keys with a parent_id are deleted, multisig keys and     *)
(* single keys have none.                                                   *)
Empty(w) ==
  LET K == {<<w, "pay">>} \cap keys
  IN  /\ making = Nothing /\ w \in Emptied \cap wallets
      /\ keys' = keys \ K
      /\ linked' = LinkedWithout(K)
      /\ rows' = Unlinked(NoLinks(rows, K), w)
      /\ latest' = {x \in latest : x[1] \notin K}
      /\ funded' = funded \ K
      /\ UNCHANGED <<wallets, parent, scripts, making, object>>

(* new_key() of the other wallets, by which an emptied one comes back. *)
NewKey(w) ==
  /\ making = Nothing /\ w \in wallets \ {single, multi}
  /\ <<w, "main">> \in keys
  /\ keys' = keys \cup {<<w, "pay">>}
  /\ UNCHANGED <<wallets, parent, scripts, linked, rows, latest, funded, making, object>>

-----------------------------------------------------------------------------
LifeInit ==
  /\ wallets = {} /\ parent = {} /\ keys = {} /\ scripts = {} /\ linked = {}
  /\ rows = {} /\ latest = {} /\ funded = {}
  /\ making = Nothing /\ object = "none"

LifeNext ==
  \/ \E w \in Wallet : \/ Create(w) \/ CreateMain(w) \/ CreatePay(w) \/ NewKey(w) \/ Empty(w)
                       \/ DeleteNext(w) \/ \E force \in BOOLEAN : Delete(w, force)
  \/ \E force \in BOOLEAN : DeleteMulti(force)
  \/ \E i \in 1..NCos : CreateCosigner(i)
  \/ Open \/ NewMultisigKey \/ LinkChildren \/ Crash
  \/ \E t \in Txid : \E k \in Pays[t] : Sync(k, t) \/ SyncUtxo(k, t)

LifeSpec == LifeInit /\ [][LifeNext]_life

-----------------------------------------------------------------------------
LifeTypeOK ==
  /\ wallets \subseteq Wallet /\ parent \subseteq wallets
  /\ keys \subseteq PlainKey
  /\ scripts \subseteq Script /\ linked \subseteq Script
  /\ \A r \in rows : /\ r.tx \in Txid /\ r.wallet \in wallets \cup {NoWallet}
                    /\ r.links \subseteq KeyRows /\ r.complete \in BOOLEAN
  /\ latest \subseteq KeyRows \X Txid
  /\ funded \subseteq KeyRows
  /\ object \in {"none", "created", "opened"}

(* No child row refers to a key that is gone: sqlite does not check foreign *)
(* keys, and ids are used again.                                            *)
NoDangling ==
  /\ \A s \in linked : \A j \in DOMAIN s : <<Cosigner[s[j]], "pay">> \in keys
  /\ linked \subseteq scripts

(* What latest_txid of a key skips is stored in the key's wallet.  Emptying *)
(* a wallet keeps latest_txid of the keys that stay.                        *)
Remembered ==
  \A x \in latest : \E r \in rows : r.tx = x[2] /\ r.wallet = Owner(x[1]) /\ x[1] \in r.links

(* Deleting or emptying a wallet takes nothing from another one, and        *)
(* store() only takes over rows that nobody has.                            *)
OthersKept ==
  [][\A r \in rows : r.wallet # NoWallet =>
       \/ \E q \in rows' : q.tx = r.tx /\ q.wallet = r.wallet /\ r.links \subseteq q.links
       \/ Empty(r.wallet) \/ r.wallet \in wallets \ wallets']_life

(* All keys that a multisig wallet with all its cosigners hands out for a   *)
(* path are the same: the script of all cosigners in one order, however     *)
(* often the program stopped, opened or deleted wallets.                    *)
OneScript == making = Nothing /\ Cardinality(parent) = NCos => scripts \subseteq {Whole}

(* "If the wallet has unspent outputs it raises a WalletError exception     *)
(* unless 'force=True' is specified"                                        *)
DeleteKeepsFunds ==
  [][\A w \in wallets \ wallets', k \in funded :
       Owner(k) = w => making = <<"delete", TRUE>> \/ Delete(w, TRUE)]_life
=============================================================================
