---------------------------- MODULE MultisigSign ----------------------------
(***************************************************************************)
(* Signatures of a transaction whose inputs need the keys of several       *)
(* cosigners: Transaction.sign(), Input.verify() and the ways in which the *)
(* transaction goes from one wallet to the next (transactions.py,          *)
(* wallets.py).                                                            *)
(*                                                                         *)
(* A signature is the key that made it, the version of the transaction it  *)
(* signs, and pk, its public_key attribute.  The latter is not part of     *)
(* what is exported: verify() sets it to the last key that was tried.      *)
(***************************************************************************)
EXTENDS Naturals, Sequences, FiniteSets, SequencesExt

CONSTANTS
  Party,      \* wallets
  NInputs,    \* number of inputs
  KeyList,    \* [1..NInputs -> Seq(Key)]: the keys of the inputs, in order
  Required,   \* [1..NInputs -> Nat]: Input.sigs_required
  Private,    \* [Party -> SUBSET Key]: the private keys of a wallet
  Creator,    \* the wallet that makes the transaction
  Given,      \* the lists of keys that sign() is called with
  NoKey,      \* no public_key
  Versions,   \* bound on the versions that bumpfee() makes
  AsDict,     \* are transactions also imported as dictionaries?
  Directly    \* are sign() and bumpfee() of Transaction called, without the wallet?

Input == 1..NInputs
Key == UNION {Range(KeyList[i]) : i \in Input}

ASSUME SigningAssumption ==
  /\ NInputs \in Nat
  /\ \A i \in Input : KeyList[i] \in Seq(Key)
  /\ Required \in [Input -> Nat]
  /\ NoKey \notin Key
  /\ Versions \in Nat \ {0}
  /\ Given \subseteq Seq(UNION {Range(K) : K \in Given})

Position(i, k) == CHOOSE j \in DOMAIN KeyList[i] : KeyList[i][j] = k

VARIABLES
  version,   \* [Party -> Nat]: version of the wallet's object, 0 for none
  signed,    \* [Party -> [Input -> Seq(signature)]]
  verified   \* [Party -> BOOLEAN]: Transaction.verified

signing == <<version, signed, verified>>

-----------------------------------------------------------------------------
Sig(k, v) == [by |-> k, of |-> v, pk |-> k]
Valid(s, k, v) == s.by = k /\ s.of = v

(* The elements of a list that are in T, in their order. *)
Only(s, T) == FoldLeft(LAMBDA kept, x : IF x \in T THEN Append(kept, x) ELSE kept, <<>>, s)

PublicKeys(S) == {S[x].pk : x \in DOMAIN S}

(* The keys of list K that sign input i: those up to the first one that has *)
(* signed already.                                                          *)
Signers(S, i, K, replace) ==
  LET known == {x \in DOMAIN K : K[x] \in Range(KeyList[i])}
      stop  == {x \in known : ~replace /\ K[x] \in PublicKeys(S)}
  IN  {K[x] : x \in {y \in known : \A z \in stop : y < z}}

(* Signatures are looked at up to the first one without a public key.       *)
Known(S) == {x \in DOMAIN S : \A y \in 1..x : S[y].pk # NoKey}

None == [by |-> NoKey, of |-> 0, pk |-> NoKey]

(* sig_domain: new signatures and known ones at the place of their key.     *)
Domain(S, i, N, v) ==
  [j \in DOMAIN KeyList[i] |->
     LET k == KeyList[i][j]
         old == {x \in Known(S) : S[x].pk = k}
     IN  IF k \in N THEN Sig(k, v)
         ELSE IF old # {} THEN S[CHOOSE x \in old : \A y \in old : x <= y]
         ELSE None]

(* If some could not be placed, all of them fill the free places in turn.   *)
Filled(S, D, N) ==
  LET free == {j \in DOMAIN D : D[j] = None}
      rank(j) == Cardinality({f \in free : f <= j})
      placed == {j \in DOMAIN D : D[j] # None /\ D[j].pk \notin N}
  IN  IF Cardinality(placed) = Len(S) THEN D
      ELSE [j \in DOMAIN D |-> IF j \in free /\ rank(j) <= Len(S) THEN S[rank(j)] ELSE D[j]]

(* Slip: new signatures are appended. *)
AppendNew(S, i, N, v) == S \o SetToSeq({Sig(k, v) : k \in N})

(* Slip: the list is made of the new ones. *)
OnlyNew(S, i, N, v) ==
  Only([j \in DOMAIN KeyList[i] |-> IF KeyList[i][j] \in N THEN Sig(KeyList[i][j], v) ELSE None],
       {Sig(k, v) : k \in N})

WithNew(S, i, N, v) ==
  LET all == Filled(S, Domain(S, i, N, v), N)
  IN  Only(all, Range(all) \ {None})

(* One input of sign().                                                     *)
SignInput(S, i, K, replace, v) ==
  LET N == Signers(S, i, K, replace)
  IN  IF N = {} THEN S ELSE WithNew(S, i, N, v)

-----------------------------------------------------------------------------
(* Input.verify(): each key is tried on the next signature, then on the     *)
(* previous one.                                                            *)
TryKey(r, k, v, n) ==
  IF r.count = n \/ r.next > Len(r.sigs) THEN r
  ELSE LET hit  == Valid(r.sigs[r.next], k, v)
           prev == r.next > 1 /\ Valid(r.sigs[r.next - 1], k, v)
       IN  [sigs  |-> [r.sigs EXCEPT ![r.next].pk = k],
            next  |-> IF hit THEN r.next + 1 ELSE r.next,
            count |-> IF hit \/ prev THEN r.count + 1 ELSE r.count]

(* Slip: the first signature belongs to the first key, and so on. *)
VerifyPairs(S, i, v) ==
  [sigs |-> S, next |-> 1,
   count |-> Cardinality({x \in 1..Required[i] : x <= Len(S) /\ Valid(S[x], KeyList[i][x], v)})]

VerifyInput(S, i, v) ==
  FoldLeft(LAMBDA r, k : TryKey(r, k, v, Required[i]), [sigs |-> S, next |-> 1, count |-> 0], KeyList[i])

InputOK(S, i, v) == VerifyInput(S, i, v).count = Required[i]

(* Input.update_scripts(): the signatures that the input is unlocked with.  *)
Needed(S, i) == IF Len(S) < Required[i] THEN S ELSE SubSeq(S, 1, Required[i])

(* Transaction.verify() ends at the first input that fails.                 *)
Reached(T, v) == {i \in Input : \A j \in 1..(i - 1) : InputOK(T[j], j, v)}
Verified(T, v) == \A i \in Input : InputOK(T[i], i, v)
AfterVerify(T, v) == [i \in Input |-> IF i \in Reached(T, v) THEN VerifyInput(T[i], i, v).sigs ELSE T[i]]

(* Slip: an object that was verified once remains so. *)
HoldOnce(p, v, T) ==
  /\ version' = [version EXCEPT ![p] = v]
  /\ signed' = [signed EXCEPT ![p] = AfterVerify(T, v)]
  /\ verified' = [verified EXCEPT ![p] = @ \/ Verified(T, v)]

(* The object of p becomes version v with signatures T, and is verified.    *)
Hold(p, v, T) ==
  /\ version' = [version EXCEPT ![p] = v]
  /\ signed' = [signed EXCEPT ![p] = AfterVerify(T, v)]
  /\ verified' = [verified EXCEPT ![p] = Verified(T, v)]

-----------------------------------------------------------------------------
OwnKeys(p, i) == Only(KeyList[i], Private[p])

(* transaction_create() *)
CreateTx(p) ==
  /\ p = Creator /\ version[p] = 0
  /\ version' = [version EXCEPT ![p] = 1]
  /\ UNCHANGED <<signed, verified>>

SignEach(p, K, replace, v) ==
  [i \in Input |-> SignInput(signed[p][i], i, K \o OwnKeys(p, i), replace, v)]

(* WalletTransaction.sign(): a call for each input, then verify().          *)
WalletSign(p, K) ==
  /\ version[p] > 0
  /\ Hold(p, version[p], SignEach(p, K, FALSE, version[p]))

(* Slip: the new version is signed, and not verified. *)
BumpUnverified(p) ==
  /\ version[p] \in 1..(Versions - 1)
  /\ version' = [version EXCEPT ![p] = @ + 1]
  /\ signed' = [signed EXCEPT ![p] = SignEach(p, <<>>, TRUE, version[p] + 1)]
  /\ UNCHANGED verified

(* bumpfee(): another transaction.  sign_and_update() replaces the          *)
(* signatures of the wallet's own keys; those of others stay.               *)
Bump(p) ==
  /\ version[p] \in 1..(Versions - 1)
  /\ Hold(p, version[p] + 1, SignEach(p, <<>>, TRUE, version[p] + 1))

(* Transaction.sign() of all inputs: an input that nothing signs ends it.   *)
SignAll(p, K, replace, v) ==
  LET keys(i) == K \o OwnKeys(p, i)
      signs(i) == Signers(signed[p][i], i, keys(i), replace) # {}
  IN  [i \in Input |-> IF \A j \in 1..i : signs(j)
                       THEN WithNew(signed[p][i], i, Signers(signed[p][i], i, keys(i), replace), v)
                       ELSE signed[p][i]]

(* sign() of a Transaction object, such as to_transaction() makes of the    *)
(* wallet's, with the same inputs.                                          *)
DirectSign(p, K) ==
  /\ Directly
  /\ version[p] > 0
  /\ signed' = [signed EXCEPT ![p] = SignAll(p, K, FALSE, version[p])]
  /\ UNCHANGED <<version, verified>>

(* bumpfee() of a Transaction object: signed by its sign(), not verified.   *)
DirectBump(p) ==
  /\ Directly
  /\ version[p] \in 1..(Versions - 1)
  /\ version' = [version EXCEPT ![p] = @ + 1]
  /\ signed' = [signed EXCEPT ![p] = SignAll(p, <<>>, TRUE, version[p] + 1)]
  /\ UNCHANGED verified

(* transaction_import() of an object, or of as_dict(), without public keys. *)
Import(p, q, dict) ==
  /\ p # q /\ version[q] > 0
  /\ dict => AsDict
  /\ Hold(p, version[q],
          [i \in Input |-> [x \in DOMAIN signed[q][i] |->
             IF dict THEN [signed[q][i][x] EXCEPT !.pk = NoKey] ELSE signed[q][i][x]]])

-----------------------------------------------------------------------------
SigningInit ==
  /\ version = [p \in Party |-> 0]
  /\ signed = [p \in Party |-> [i \in Input |-> <<>>]]
  /\ verified = [p \in Party |-> FALSE]

SigningNext ==
  \E p \in Party :
    \/ CreateTx(p) \/ Bump(p) \/ DirectBump(p)
    \/ \E K \in Given : WalletSign(p, K) \/ DirectSign(p, K)
    \/ \E q \in Party, dict \in BOOLEAN : Import(p, q, dict)

SigningSpec == SigningInit /\ [][SigningNext]_signing

-----------------------------------------------------------------------------
Signature == [by : Key, of : 1..Versions, pk : Key \cup {NoKey}]

(* An input never has more signatures than keys, each of one of the keys.   *)
SigningTypeOK ==
  /\ version \in [Party -> 0..Versions]
  /\ verified \in [Party -> BOOLEAN]
  /\ signed \in [Party -> [Input -> Seq(Signature)]]
  /\ \A p \in Party, i \in Input : Len(signed[p][i]) <= Len(KeyList[i])

(* The signatures of an input that are valid for its transaction. *)
ValidOf(p, i) == {s.by : s \in {t \in Range(signed[p][i]) : t.of = version[p]}}

(* Signatures come in the order of their keys, as CHECKMULTISIG wants them, *)
(* whoever signed first and however the transaction was handed on.          *)
InKeyOrder ==
  \A p \in Party, i \in Input : \A x, y \in DOMAIN signed[p][i] :
    x < y => Position(i, signed[p][i][x].by) < Position(i, signed[p][i][y].by)

(* What the wallets promise each other: signing adds signatures, none is    *)
(* lost, and the transaction is verified as soon as there are enough, in    *)
(* whatever order the cosigners sign and hand it on.                        *)
Promise ==
  INSTANCE ThresholdSign WITH
    KeysOf   <- Key,
    signers  <- [p \in Party |-> [i \in Input |-> ValidOf(p, i)]],
    accepted <- verified

SignsTogether == Promise!Spec

(* send() trusts verified: every input of such a transaction is unlocked by *)
(* its first sigs_required signatures.                                      *)
VerifiedSound ==
  \A p \in Party : verified[p] =>
    \A i \in Input : InputOK(Needed(signed[p][i], i), i, version[p])

(* "Sign this transaction. Use existing keys from this wallet": after sign() *)
(* of a wallet there is a valid signature of each of its keys.              *)
KeysSign ==
  \A p \in Party, i \in Input : version[p] > 0 =>
    \A k \in Range(OwnKeys(p, i)) :
      \E s \in Range(SignInput(signed[p][i], i, OwnKeys(p, i), FALSE, version[p])) : Valid(s, k, version[p])

(* "index_n: Index of transaction input. Leave empty to sign all inputs"    *)
SignsAllInputs ==
  [][\A p \in Party, K \in Given : DirectSign(p, K) =>
       \A i \in Input : Range(K) \cap Range(KeyList[i]) \subseteq ValidOf(p, i)']_signing
=============================================================================
