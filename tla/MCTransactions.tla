--------------------------- MODULE MCTransactions ---------------------------
(* Transactions: their amounts, and their signatures.  A behaviour picks    *)
(* one of the cases of "which"; the variables of the others stay as they    *)
(* are:                                                                     *)
(*   "funds"   coins are selected, fees and change computed, fees bumped;   *)
(*             a unit is 50 bytes and 50 satoshi                            *)
(*   "multi"   three cosigners sign two inputs, 2 of 3 each                 *)
(*   "bumped"  three cosigners sign an input of 2 of 3, with a fee bump     *)
(*   "single"  one wallet signs two inputs of one key, with fee bumps,      *)
(*             also as a plain transaction                                  *)
EXTENDS TransactionFunds, MultisigSign

CONSTANTS c1, c2, c3, k1, k2, k3, alice, bob, carol

VARIABLES which, version1, signed1, verified1, version2, signed2, verified2

(* The last output is older than the others. *)
Ages == [c \in Coin |-> IF c = c3 THEN 6 ELSE 1]

Symmetric == Permutations({c1, c2})

Cosigners == {alice, bob, carol}
PrivateKeys == (alice :> {k1}) @@ (bob :> {k2}) @@ (carol :> {k3})
MultiKeys == <<<<k1, k2, k3>>, <<k1, k2, k3>>>>
MultiRequired == <<2, 2>>
MultiGiven == {<<>>, <<k2, k3>>, <<k3, k1>>} \cup {<<k>> : k \in {k1, k2, k3}}
BumpedKeys == <<<<k1, k2, k3>>>>
BumpedRequired == <<2>>
SingleKeys == <<<<k1>>, <<k1>>>>
SingleRequired == <<1, 1>>
SingleGiven == {<<>>, <<k1>>}

Single == INSTANCE MultisigSign WITH
       Party <- {alice}, NInputs <- 2, KeyList <- SingleKeys, Required <- SingleRequired,
       Private <- PrivateKeys, Creator <- alice, Given <- SingleGiven, Versions <- 2,
       AsDict <- TRUE, Directly <- TRUE,
       version <- version1, signed <- signed1, verified <- verified1

Bumped == INSTANCE MultisigSign WITH
       NInputs <- 1, KeyList <- BumpedKeys, Required <- BumpedRequired, Versions <- 2,
       version <- version2, signed <- signed2, verified <- verified2

one == <<version1, signed1, verified1>>
other == <<version2, signed2, verified2>>
all == <<vars, signing, one, other, which>>

-----------------------------------------------------------------------------
MCInit ==
  /\ which \in {"funds", "multi", "bumped", "single"}
  /\ Init /\ SigningInit /\ Single!SigningInit /\ Bumped!SigningInit
  /\ which # "funds" => value = [c \in Coin |-> CHOOSE v \in Values : TRUE]

MCNext ==
  \/ which = "funds" /\ Next /\ UNCHANGED <<which, signing, one, other>>
  \/ which = "multi" /\ SigningNext /\ UNCHANGED <<which, vars, one, other>>
  \/ which = "bumped" /\ Bumped!SigningNext /\ UNCHANGED <<which, vars, signing, one>>
  \/ which = "single" /\ Single!SigningNext /\ UNCHANGED <<which, vars, signing, other>>

MCSpec == MCInit /\ [][MCNext]_all

-----------------------------------------------------------------------------
(* MultisigSign's VerifiedSound where fees are bumped: of cosigners, whose   *)
(* old signatures stay in the transaction, and of one wallet that imports    *)
(* transactions as dictionaries and handles them without its wallet. Each    *)
(* version of the transaction is verified by signatures for that version.    *)
BumpedSound == Single!VerifiedSound /\ Bumped!VerifiedSound

(* MultisigSign's KeysSign after a fee bump of one of the cosigners, as      *)
(* sign() of WalletTransaction documents it.                                 *)
BumpedKeysSign == Bumped!KeysSign
=============================================================================
