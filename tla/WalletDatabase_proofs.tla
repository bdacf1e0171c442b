------------------------ MODULE WalletDatabase_proofs ------------------------
(* Theorems about the database of the wallets: WalletLifecycle, for any     *)
(* number of cosigners and transactions, and whatever wallets the user      *)
(* deletes; and TxStore, for any transaction and any number of programs.    *)
EXTENDS WalletLifecycle, TxStore, SetLemmas, SequenceTheorems

-----------------------------------------------------------------------------
(* The inductive invariant.                                                 *)

(* The keys that transactions are looked for.                               *)
AddressKey == {<<single, "main">>, <<hd, "pay">>, <<multi, "pay">>}

(* What is to be committed next has its wallet, or its script with a key of *)
(* every cosigner.                                                          *)
Steps ==
  {Nothing} \cup {<<"main", w>> : w \in wallets \ {multi}}
  \cup {<<"pay", w>> : w \in wallets \ {single, multi}}
  \cup {<<"cosigner", i>> : i \in 1..NCos} \cup {<<"children", s>> : s \in scripts}
  \cup {<<"delete", force>> : force \in BOOLEAN}

HasKeys(s) == \A j \in DOMAIN s : <<Cosigner[s[j]], "pay">> \in keys

MakingOK ==
  /\ making \in Steps
  /\ \A s \in Script : making = <<"children", s>> => HasKeys(s)

(* Transactions belong to the three wallets, not to those of cosigners.     *)
RowsOK ==
  /\ \A r \in rows : r = RowOf(r.tx, r.wallet, r.complete, r.links)
  /\ \A r \in rows : r.wallet \in {NoWallet, hd, single, multi} /\ r.links \subseteq AddressKey
  /\ \A x \in latest : x[1] \in AddressKey

(* A multisig wallet that is gone has left nothing.                         *)
MultisigGone ==
  multi \notin wallets => parent = {} /\ scripts = {} /\ object = "none"

(* While cosigners are added there is no script yet.                        *)
Adding ==
  \/ \E i \in 1..NCos : making = <<"cosigner", i>>
  \/ \E w \in parent : making = <<"main", w>> \/ making = <<"pay", w>>

AddsFirst == parent \subseteq Range(Cosigner) /\ (Adding => multi \in wallets /\ scripts = {})

LifeInv == LifeTypeOK /\ MakingOK /\ RowsOK /\ MultisigGone /\ AddsFirst

(* Outputs of a wallet's transactions refer to keys of that wallet only.    *)
LinksOwn == \A r \in rows : \A k \in r.links : Owner(k) = r.wallet

(* A script of all cosigners, while no wallet is being made.                *)
WholeFirst == parent = Range(Cosigner) => scripts \subseteq {Whole}

-----------------------------------------------------------------------------
(* Names and keys.                                                           *)

LEMMA Names ==
  /\ {hd, single, multi} \subseteq Wallet /\ Range(Cosigner) \subseteq Wallet
  /\ Wallet = {hd, single, multi} \cup Range(Cosigner)
  /\ \A i \in 1..NCos : Cosigner[i] \in Range(Cosigner)
  /\ \A w \in Range(Cosigner) : \E i \in 1..NCos : w = Cosigner[i]
  /\ \A w \in Range(Cosigner) : w # hd /\ w # single /\ w # multi
  /\ \A i, j \in 1..NCos : Cosigner[i] = Cosigner[j] => i = j
  /\ NCos \in Nat \ {0}
  <1>1. DOMAIN Cosigner = 1..NCos
    BY LifecycleAssumption
  <1> QED
    BY <1>1, LifecycleAssumption DEF Wallet, Range, IsInjective

-----------------------------------------------------------------------------
(* The order of cosigners.                                                   *)

(* A number for the name of cosigner i: as text, digit by digit.            *)
Weight(i) == IF i - 1 < 10 THEN 11 * (i - 1) ELSE 11 * ((i - 1) \div 10) + ((i - 1) % 10) + 1

LEMMA NamesInOrder ==
  ASSUME NEW i \in Nat \ {0}, NEW j \in Nat \ {0}
  PROVE  /\ Weight(i) \in Nat
         /\ NameBefore(i, j) <=> Weight(i) < Weight(j)
         /\ Weight(i) = Weight(j) => i = j
         /\ i <= 10 /\ j <= 10 => (NameBefore(i, j) <=> i < j)
  <1>1. \A n \in Nat : /\ n \div 10 \in Nat /\ n % 10 \in 0..9 /\ n = 10 * (n \div 10) + (n % 10)
                       /\ n >= 10 => n \div 10 >= 1
    OBVIOUS
  <1>2. PICK m \in Nat : m = i - 1
    OBVIOUS
  <1>3. PICK n \in Nat : n = j - 1
    OBVIOUS
  <1>4. \A k \in Nat : k < 10 => Len(Digits(k)) = 1 /\ Digits(k)[1] = k
    BY DEF Digits
  <1>5. \A k \in Nat : ~(k < 10) => Len(Digits(k)) = 2 /\ Digits(k)[1] = k \div 10 /\ Digits(k)[2] = k % 10
    BY DEF Digits
  <1> DEFINE Second(k) == IF k < 10 THEN 0 ELSE (k % 10) + 1
             First(k) == IF k < 10 THEN k ELSE k \div 10
  <1>6. \A k \in Nat : First(k) \in Nat /\ Second(k) \in 0..10
    BY <1>1
  <1> DEFINE a == Digits(m)
             b == Digits(n)
  <1>7. NameBefore(i, j) <=>
           a[1] < b[1] \/ (a[1] = b[1] /\ (Len(a) < Len(b) \/ (Len(a) = Len(b) /\ a[Len(a)] < b[Len(b)])))
    BY <1>2, <1>3 DEF NameBefore
  <1>8. Len(a) = (IF m < 10 THEN 1 ELSE 2) /\ a[1] = First(m) /\ a[Len(a)] = (IF m < 10 THEN m ELSE m % 10)
    BY <1>4, <1>5
  <1>9. Len(b) = (IF n < 10 THEN 1 ELSE 2) /\ b[1] = First(n) /\ b[Len(b)] = (IF n < 10 THEN n ELSE n % 10)
    BY <1>4, <1>5
  <1>10. NameBefore(i, j) <=> First(m) < First(n) \/ (First(m) = First(n) /\ Second(m) < Second(n))
    <2> HIDE DEF a, b
    <2> QED
      BY <1>1, <1>7, <1>8, <1>9
  <1>11. Weight(i) = 11 * First(m) + Second(m) /\ Weight(j) = 11 * First(n) + Second(n)
    BY <1>1, <1>2, <1>3 DEF Weight
  <1>12. /\ First(m) = First(n) /\ Second(m) = Second(n) => m = n
         /\ m < 10 => First(m) = m /\ Second(m) = 0
         /\ n < 10 => First(n) = n /\ Second(n) = 0
    BY <1>1
  <1>13. First(m) \in Nat /\ First(n) \in Nat /\ Second(m) \in 0..10 /\ Second(n) \in 0..10
    BY <1>6
  <1> HIDE DEF First, Second
  <1>14. Weight(i) = Weight(j) => i = j
    BY <1>2, <1>3, <1>11, <1>12, <1>13
  <1>15. NameBefore(i, j) <=> Weight(i) < Weight(j)
    BY <1>10, <1>11, <1>13
  <1>16. i <= 10 /\ j <= 10 => (NameBefore(i, j) <=> i < j)
    BY <1>2, <1>3, <1>10, <1>12
  <1> QED
    BY <1>11, <1>13, <1>14, <1>15, <1>16

(* Both orders are those of a number that each cosigner has for itself.     *)
Ordering(f) ==
  /\ \A i \in 1..NCos : f[i] \in Nat
  /\ \A i, j \in 1..NCos : /\ CosignerBefore(i, j) <=> f[i] < f[j]
                           /\ f[i] = f[j] => i = j

LEMMA OrderingExists == \E f : Ordering(f)
  <1>1. \A i, j \in 1..NCos : i \in Nat \ {0} /\ j \in Nat \ {0}
    BY Names
  <1>2. CASE object = "created" \/ SortKeys
    <2> DEFINE f == [i \in 1..NCos |-> i]
    <2>1. Ordering(f)
      BY <1>1, <1>2 DEF Ordering, CosignerBefore
    <2> QED
      BY <2>1
  <1>3. CASE ~(object = "created" \/ SortKeys)
    <2> DEFINE f == [i \in 1..NCos |-> Weight(i)]
    <2>1. \A i \in 1..NCos : f[i] = Weight(i)
      OBVIOUS
    <2> HIDE DEF f
    <2>2. \A i, j \in 1..NCos : /\ Weight(i) \in Nat
                                /\ NameBefore(i, j) <=> Weight(i) < Weight(j)
                                /\ Weight(i) = Weight(j) => i = j
      <3> TAKE i, j \in 1..NCos
      <3>1. i \in Nat \ {0} /\ j \in Nat \ {0}
        BY <1>1
      <3> QED
        BY ONLY <3>1, NamesInOrder
    <2>3. Ordering(f)
      <3>1. \A i, j \in 1..NCos : CosignerBefore(i, j) <=> NameBefore(i, j)
        BY <1>3 DEF CosignerBefore
      <3> QED
        BY <2>1, <2>2, <3>1 DEF Ordering
    <2> QED
      BY <2>3
  <1> QED
    BY <1>2, <1>3

(* The list of cosigners holds each of them once.                           *)
ListOK(L) ==
  /\ L \in [1..Cardinality(Cosigners) -> Cosigners]
  /\ \A m, n \in 1..Cardinality(Cosigners) : m < n => CosignerBefore(L[m], L[n])

LEMMA CosignersFinite ==
  Cosigners \subseteq 1..NCos /\ IsFiniteSet(Cosigners) /\ Cardinality(Cosigners) \in 0..NCos
  <1>1. Cosigners \subseteq 1..NCos
    BY DEF Cosigners
  <1>2. IsFiniteSet(1..NCos) /\ Cardinality(1..NCos) = NCos
    BY Names, FS_Interval
  <1>3. IsFiniteSet(Cosigners) /\ Cardinality(Cosigners) <= NCos
    BY <1>1, <1>2, FS_Subset
  <1>4. Cardinality(Cosigners) \in Nat
    BY <1>3, FS_CardinalityType
  <1> QED
    BY <1>1, <1>3, <1>4, Names

LEMMA ListExists == \E L : ListOK(L)
  <1> DEFINE S == Cosigners
             c == Cardinality(Cosigners)
  <1>1. PICK f : Ordering(f)
    BY OrderingExists
  <1>2. S \subseteq 1..NCos /\ IsFiniteSet(S) /\ c \in Nat
    BY CosignersFinite, Names
  <1>3. (\A a \in S : f[a] \in Nat) /\ (\A a, b \in S : f[a] = f[b] => a = b)
    BY <1>1, <1>2 DEF Ordering
  <1> DEFINE r == Rank(S, f)
             L == [m \in 1..c |-> CHOOSE a \in S : r[a] = m - 1]
  <1>4. r \in Surjection(S, 0..(c - 1))
    BY <1>2, <1>3, RankIsBijection
  <1>5. \A a, b \in S : r[a] < r[b] => f[a] < f[b]
    <2> SUFFICES ASSUME NEW a \in S, NEW b \in S, ~(f[a] < f[b])
                 PROVE  ~(r[a] < r[b])
      OBVIOUS
    <2>1. Lesser(S, f, b) \in SUBSET Lesser(S, f, a)
      BY <1>3 DEF Lesser
    <2>2. Lesser(S, f, a) \in SUBSET S
      BY DEF Lesser
    <2>3. IsFiniteSet(Lesser(S, f, a))
      BY <1>2, <2>2, FS_Subset
    <2>4. Cardinality(Lesser(S, f, b)) <= Cardinality(Lesser(S, f, a)) /\ IsFiniteSet(Lesser(S, f, b))
      BY <2>1, <2>3, FS_Subset
    <2>5. Cardinality(Lesser(S, f, a)) \in Nat /\ Cardinality(Lesser(S, f, b)) \in Nat
      BY <2>3, <2>4, FS_CardinalityType
    <2>6. r[a] = Cardinality(Lesser(S, f, a)) /\ r[b] = Cardinality(Lesser(S, f, b))
      BY DEF Rank
    <2> HIDE DEF r
    <2> QED
      BY <2>4, <2>5, <2>6
  <1>6. \A m \in 1..c : L[m] \in S /\ r[L[m]] = m - 1
    <2> SUFFICES ASSUME NEW m \in 1..c
                 PROVE  L[m] \in S /\ r[L[m]] = m - 1
      OBVIOUS
    <2>1. m - 1 \in 0..(c - 1)
      BY <1>2
    <2> HIDE DEF r
    <2>2. \E a \in S : r[a] = m - 1
      <3>1. \A t \in 0..(c - 1) : \E a \in S : r[a] = t
        BY <1>4 DEF Surjection
      <3> QED
        BY <2>1, <3>1
    <2> QED
      BY <2>2
  <1>7. L \in [1..c -> S]
    <2> HIDE DEF r
    <2> QED
      BY <1>6
  <1>8. \A m, n \in 1..c : m < n => CosignerBefore(L[m], L[n])
    <2> SUFFICES ASSUME NEW m \in 1..c, NEW n \in 1..c, m < n
                 PROVE  CosignerBefore(L[m], L[n])
      OBVIOUS
    <2> HIDE DEF L, r
    <2>1. L[m] \in S /\ L[n] \in S /\ r[L[m]] < r[L[n]]
      BY <1>2, <1>6
    <2>2. f[L[m]] < f[L[n]]
      BY <1>5, <2>1
    <2>3. L[m] \in 1..NCos /\ L[n] \in 1..NCos
      BY <1>2, <2>1
    <2> QED
      BY <1>1, <2>2, <2>3 DEF Ordering
  <1>9. ListOK(L)
    <2> HIDE DEF L
    <2> QED
      BY <1>7, <1>8 DEF ListOK
  <1> QED
    BY <1>9

LEMMA CosignerListOK ==
  /\ ListOK(CosignerList) /\ DOMAIN CosignerList = 1..Cardinality(Cosigners)
  /\ \A m, n \in DOMAIN CosignerList : CosignerList[m] = CosignerList[n] => m = n
  /\ \A m \in DOMAIN CosignerList : CosignerList[m] \in 1..NCos /\ Cosigner[CosignerList[m]] \in parent
  <1> DEFINE L == CosignerList
             c == Cardinality(Cosigners)
  <1>1. PICK M : ListOK(M)
    BY ListExists
  <1>2. M \in [1..c -> Cosigners] /\ \A m, n \in DOMAIN M : m < n => CosignerBefore(M[m], M[n])
    BY <1>1 DEF ListOK
  <1>3. L \in [1..c -> Cosigners] /\ \A m, n \in DOMAIN L : m < n => CosignerBefore(L[m], L[n])
    BY <1>2 DEF CosignerList
  <1> HIDE DEF L
  <1>4. ListOK(L) /\ DOMAIN L = 1..c
    BY <1>3 DEF ListOK
  <1>5. PICK f : Ordering(f)
    BY OrderingExists
  <1>6. \A m \in 1..c : L[m] \in 1..NCos /\ Cosigner[L[m]] \in parent
    BY <1>3 DEF Cosigners
  <1>7. \A m, n \in 1..c : L[m] = L[n] => m = n
    <2> SUFFICES ASSUME NEW m \in 1..c, NEW n \in 1..c, m < n, L[m] = L[n]
                 PROVE  FALSE
      BY CosignersFinite, Names
    <2>1. CosignerBefore(L[m], L[n])
      BY <1>4 DEF ListOK
    <2>2. f[L[m]] < f[L[n]] /\ f[L[m]] \in Nat
      BY <1>5, <1>6, <2>1 DEF Ordering
    <2> QED
      BY <2>2
  <1> QED
    BY <1>4, <1>6, <1>7 DEF L
(* All cosigners, in order: the script of a multisig wallet.  Above ten     *)
(* cosigners the order of names is another one.                             *)
LEMMA WholeList ==
  ASSUME Cosigners = 1..NCos, object = "created" \/ SortKeys \/ NCos <= 10
  PROVE  CosignerList = Whole
  <1> DEFINE L == CosignerList
  <1>1. Cardinality(Cosigners) = NCos
    BY Names, FS_Interval
  <1>2. \A i, j \in 1..NCos : CosignerBefore(i, j) => i < j
    <2>1. CASE object = "created" \/ SortKeys
      BY <2>1 DEF CosignerBefore
    <2>2. CASE ~(object = "created" \/ SortKeys)
      <3> SUFFICES ASSUME NEW i \in 1..NCos, NEW j \in 1..NCos, NameBefore(i, j)
                   PROVE  i < j
        BY <2>2 DEF CosignerBefore
      <3>1. i \in Nat \ {0} /\ j \in Nat \ {0} /\ i <= 10 /\ j <= 10
        BY <2>2, Names
      <3> QED
        BY <3>1, NamesInOrder
    <2> QED
      BY <2>1, <2>2
  <1>3. L \in [1..NCos -> 1..NCos] /\ \A m, n \in 1..NCos : m < n => CosignerBefore(L[m], L[n])
    BY <1>1, CosignerListOK DEF ListOK
  <1> HIDE DEF L
  <1>4. \A m, n \in 1..NCos : m < n => L[m] < L[n]
    BY <1>2, <1>3
  <1>5. NCos \in Nat \ {0} /\ NCos - 1 \in Nat
    BY Names
  <1> DEFINE G == {m \in Nat : m < NCos => L[m + 1] >= m + 1}
             H == {m \in Nat : m < NCos => L[NCos - m] <= NCos - m}
  <1>6. 0..(NCos - 1) \subseteq G
    <2>1. 0 \in G
      BY <1>3, <1>5
    <2>2. ASSUME NEW m \in 0..(NCos - 2), m \in G
          PROVE  m + 1 \in G
      <3>1. m + 1 \in 1..NCos /\ m + 2 \in 1..NCos /\ m + 1 < m + 2 /\ L[m + 1] >= m + 1
        BY <1>5, <2>2
      <3>2. L[m + 1] < L[m + 2] /\ L[m + 1] \in Nat /\ L[m + 2] \in Nat
        BY <1>3, <1>4, <3>1
      <3>3. L[(m + 1) + 1] >= (m + 1) + 1
        BY <3>1, <3>2
      <3> QED
        BY <3>3
    <2> HIDE DEF G
    <2>3. \A m \in 0..((NCos - 1) - 1) : m \in G => m + 1 \in G
      BY <1>5, <2>2
    <2> QED
      BY <1>5, <2>1, <2>3, CountInduction
  <1>7. 0..(NCos - 1) \subseteq H
    <2>1. 0 \in H
      BY <1>3, <1>5
    <2>2. ASSUME NEW m \in 0..(NCos - 2), m \in H
          PROVE  m + 1 \in H
      <3>1. PICK k \in 1..NCos : k = NCos - (m + 1)
        BY <1>5
      <3>2. k + 1 = NCos - m /\ k + 1 \in 1..NCos /\ k < k + 1 /\ L[k + 1] <= k + 1
        BY <1>5, <2>2, <3>1
      <3>3. L[k] < L[k + 1] /\ L[k] \in Nat /\ L[k + 1] \in Nat
        BY <1>3, <1>4, <3>2
      <3>4. L[k] <= k
        BY <3>2, <3>3
      <3> QED
        BY <3>1, <3>4
    <2> HIDE DEF H
    <2>3. \A m \in 0..((NCos - 1) - 1) : m \in H => m + 1 \in H
      BY <1>5, <2>2
    <2> QED
      BY <1>5, <2>1, <2>3, CountInduction
  <1>8. \A i \in 1..NCos : L[i] = i
    <2> TAKE i \in 1..NCos
    <2>1. PICK m \in 0..(NCos - 1) : i = m + 1
      BY <1>5
    <2>2. L[i] >= i
      BY <1>5, <1>6, <2>1
    <2>3. PICK k \in 0..(NCos - 1) : i = NCos - k
      BY <1>5
    <2>4. L[i] <= i
      BY <1>5, <1>7, <2>3
    <2>5. L[i] \in Nat
      BY <1>3
    <2> QED
      BY <2>2, <2>4, <2>5
  <1>9. L = Whole
    BY <1>3, <1>8 DEF Whole
  <1> QED
    BY <1>9 DEF L

-----------------------------------------------------------------------------
(* Every step keeps the invariant.                                           *)

LEMMA PlainKeys ==
  /\ <<multi, "pay">> \notin PlainKey
  /\ \A k \in PlainKey : k = <<k[1], k[2]>> /\ k[1] \in Wallet \ {multi}
  /\ \A w \in Wallet \ {multi} : <<w, "main">> \in PlainKey
  /\ \A w \in Wallet \ {single, multi} : <<w, "pay">> \in PlainKey
  BY DEF PlainKey

LEMMA AddressKeysAre ==
  ASSUME NEW w \in Wallet, NEW k \in AddressKeys(w)
  PROVE  k \in KeyRows /\ k \in AddressKey /\ Owner(k) = w /\ w \in {hd, single, multi}
  BY Names DEF AddressKeys, KeyRows, AddressKey, Owner

(* Rows that stay as they are, while keys, scripts and wallets are added.   *)
LEMMA RowsStay ==
  ASSUME LifeInv, UNCHANGED <<rows, latest, funded>>,
         wallets \subseteq wallets', keys \subseteq keys', scripts \subseteq scripts',
         wallets' \subseteq Wallet, parent' \subseteq wallets', keys' \subseteq PlainKey,
         scripts' \subseteq Script, linked' \subseteq Script, object' \in {"none", "created", "opened"}
  PROVE  LifeTypeOK' /\ RowsOK'
  <1>1. KeyRows \subseteq KeyRows'
    BY DEF KeyRows
  <1>2. RowsOK'
    BY DEF LifeInv, RowsOK
  <1>3. LifeTypeOK'
    <2>1. \A r \in rows : /\ r.tx \in Txid /\ r.wallet \in wallets \cup {NoWallet}
                          /\ r.links \subseteq KeyRows /\ r.complete \in BOOLEAN
      BY DEF LifeInv, LifeTypeOK
    <2>2. latest \subseteq KeyRows \X Txid /\ funded \subseteq KeyRows
      BY DEF LifeInv, LifeTypeOK
    <2>3. latest \subseteq KeyRows' \X Txid
      BY <1>1, <2>2
    <2> QED
      BY <1>1, <2>1, <2>2, <2>3 DEF LifeTypeOK
  <1> QED
    BY <1>2, <1>3

LEMMA CreateKeeps ==
  ASSUME LifeInv, NEW w \in Wallet, Create(w)
  PROVE  LifeInv'
  <1>1. /\ wallets \subseteq Wallet /\ parent \subseteq wallets /\ keys \subseteq PlainKey
        /\ scripts \subseteq Script /\ linked \subseteq Script /\ object \in {"none", "created", "opened"}
    BY DEF LifeInv, LifeTypeOK
  <1>2. w \notin wallets /\ wallets' = wallets \cup {w} /\ making = Nothing
        /\ UNCHANGED <<parent, keys, scripts, linked, rows, latest, funded>>
    BY DEF Create
  <1>3. LifeTypeOK' /\ RowsOK'
    BY <1>1, <1>2, RowsStay DEF Create
  <1>4. CASE w = multi
    <2>1. making' = <<"cosigner", 1>> /\ object' = "created" /\ scripts = {} /\ parent = {}
      BY <1>2, <1>4 DEF Create, LifeInv, MultisigGone
    <2>2. MakingOK'
      BY <2>1, Names DEF MakingOK, Steps
    <2>3. MultisigGone' /\ AddsFirst'
      BY <1>2, <1>4, <2>1 DEF MultisigGone, AddsFirst
    <2> QED
      BY <1>3, <2>2, <2>3 DEF LifeInv
  <1>5. CASE w # multi
    <2>1. making' = <<"main", w>> /\ object' = object
      BY <1>5 DEF Create
    <2>2. MakingOK'
      BY <1>2, <1>5, <2>1 DEF MakingOK, Steps
    <2>3. MultisigGone'
      BY <1>2, <1>5, <2>1 DEF LifeInv, MultisigGone
    <2>4. ~Adding'
      BY <1>1, <1>2, <2>1 DEF Adding
    <2>5. AddsFirst'
      BY <1>2, <2>4 DEF LifeInv, AddsFirst
    <2> QED
      BY <1>3, <2>2, <2>3, <2>5 DEF LifeInv
  <1> QED
    BY <1>4, <1>5
LEMMA MainKeeps ==
  ASSUME LifeInv, NEW w \in Wallet, CreateMain(w)
  PROVE  LifeInv'
  <1>1. /\ wallets \subseteq Wallet /\ parent \subseteq wallets /\ keys \subseteq PlainKey
        /\ scripts \subseteq Script /\ linked \subseteq Script /\ object \in {"none", "created", "opened"}
    BY DEF LifeInv, LifeTypeOK
  <1>2. /\ making = <<"main", w>> /\ keys' = keys \cup {<<w, "main">>}
        /\ making' = IF w = single THEN Nothing ELSE <<"pay", w>>
        /\ UNCHANGED <<wallets, parent, scripts, linked, rows, latest, funded, object>>
    BY DEF CreateMain
  <1>3. w \in wallets \ {multi}
    BY <1>2 DEF LifeInv, MakingOK, Steps, Nothing
  <1>4. keys' \subseteq PlainKey
    BY <1>1, <1>2, <1>3, PlainKeys
  <1>5. LifeTypeOK' /\ RowsOK'
    BY <1>1, <1>2, <1>4, RowsStay
  <1>6. MakingOK'
    BY <1>2, <1>3 DEF MakingOK, Steps, Nothing
  <1>7. MultisigGone'
    BY <1>2 DEF LifeInv, MultisigGone
  <1>8. Adding' => Adding
    BY <1>2 DEF Adding, Nothing
  <1>9. AddsFirst'
    BY <1>2, <1>8 DEF LifeInv, AddsFirst
  <1> QED
    BY <1>5, <1>6, <1>7, <1>9 DEF LifeInv

LEMMA AfterIs ==
  ASSUME LifeInv, NEW w \in wallets
  PROVE  \/ After(w) = Nothing
         \/ w \in parent /\ \E i \in 1..NCos : After(w) = <<"cosigner", i>>
  <1>1. SUFFICES ASSUME w \in parent
                 PROVE  After(w) = Nothing \/ \E i \in 1..NCos : After(w) = <<"cosigner", i>>
    BY DEF After
  <1> DEFINE i == CHOOSE j \in 1..NCos : Cosigner[j] = w
  <1>2. \E j \in 1..NCos : Cosigner[j] = w
    BY <1>1, Names DEF LifeInv, AddsFirst
  <1>3. i \in 1..NCos
    BY <1>2
  <1>4. After(w) = IF i = NCos THEN Nothing ELSE <<"cosigner", i + 1>>
    BY <1>1 DEF After
  <1> HIDE DEF i
  <1>5. i # NCos => i + 1 \in 1..NCos
    BY <1>3, Names
  <1> QED
    BY <1>4, <1>5

LEMMA PayKeeps ==
  ASSUME LifeInv, NEW w \in Wallet, CreatePay(w)
  PROVE  LifeInv'
  <1>1. /\ wallets \subseteq Wallet /\ parent \subseteq wallets /\ keys \subseteq PlainKey
        /\ scripts \subseteq Script /\ linked \subseteq Script /\ object \in {"none", "created", "opened"}
    BY DEF LifeInv, LifeTypeOK
  <1>2. /\ making = <<"pay", w>> /\ keys' = keys \cup {<<w, "pay">>}
        /\ making' = After(w)
        /\ UNCHANGED <<wallets, parent, scripts, linked, rows, latest, funded, object>>
    BY DEF CreatePay
  <1>3. w \in wallets \ {single, multi}
    BY <1>2 DEF LifeInv, MakingOK, Steps, Nothing
  <1>4. keys' \subseteq PlainKey
    BY <1>1, <1>2, <1>3, PlainKeys
  <1>5. LifeTypeOK' /\ RowsOK'
    BY <1>1, <1>2, <1>4, RowsStay
  <1>6. \/ making' = Nothing
        \/ w \in parent /\ \E i \in 1..NCos : making' = <<"cosigner", i>>
    BY <1>2, <1>3, AfterIs
  <1>7. MakingOK'
    BY <1>6 DEF MakingOK, Steps, Nothing
  <1>8. MultisigGone'
    BY <1>2 DEF LifeInv, MultisigGone
  <1>9. Adding' => Adding
    BY <1>2, <1>6 DEF Adding, Nothing
  <1>10. AddsFirst'
    BY <1>2, <1>9 DEF LifeInv, AddsFirst
  <1> QED
    BY <1>5, <1>7, <1>8, <1>10 DEF LifeInv

LEMMA CosignerKeeps ==
  ASSUME LifeInv, NEW i \in 1..NCos, CreateCosigner(i)
  PROVE  LifeInv'
  <1> DEFINE w == Cosigner[i]
  <1>1. /\ wallets \subseteq Wallet /\ parent \subseteq wallets /\ keys \subseteq PlainKey
        /\ scripts \subseteq Script /\ linked \subseteq Script /\ object \in {"none", "created", "opened"}
    BY DEF LifeInv, LifeTypeOK
  <1>2. making = <<"cosigner", i>> /\ UNCHANGED <<keys, scripts, linked, rows, latest, funded>>
    BY DEF CreateCosigner
  <1>3. multi \in wallets /\ scripts = {} /\ parent \subseteq Range(Cosigner)
    BY <1>2 DEF LifeInv, AddsFirst, Adding
  <1>4. w \in Range(Cosigner) /\ w \in Wallet /\ w # multi
    BY Names
  <1>5. CASE w \in wallets
    <2>1. making' = Nothing /\ object' = "none" /\ UNCHANGED <<wallets, parent>>
      BY <1>5 DEF CreateCosigner
    <2>2. LifeTypeOK' /\ RowsOK'
      BY <1>1, <1>2, <2>1, RowsStay
    <2>3. MakingOK'
      BY <2>1 DEF MakingOK, Steps, Nothing
    <2>4. MultisigGone' /\ AddsFirst'
      BY <1>2, <1>3, <2>1 DEF MultisigGone, AddsFirst
    <2> QED
      BY <2>2, <2>3, <2>4 DEF LifeInv
  <1>6. CASE w \notin wallets
    <2>1. /\ wallets' = wallets \cup {w} /\ parent' = parent \cup {w} /\ making' = <<"main", w>>
          /\ object' = object
      BY <1>6 DEF CreateCosigner
    <2> HIDE DEF w
    <2>2. LifeTypeOK' /\ RowsOK'
      BY <1>1, <1>2, <1>4, <2>1, RowsStay
    <2>3. MakingOK'
      BY <1>4, <2>1 DEF MakingOK, Steps, Nothing
    <2>4. MultisigGone' /\ AddsFirst'
      BY <1>2, <1>3, <1>4, <2>1 DEF MultisigGone, AddsFirst
    <2> QED
      BY <2>2, <2>3, <2>4 DEF LifeInv
  <1> QED
    BY <1>5, <1>6

LEMMA OpenKeeps ==
  ASSUME LifeInv, Open
  PROVE  LifeInv'
  <1>1. /\ wallets \subseteq Wallet /\ parent \subseteq wallets /\ keys \subseteq PlainKey
        /\ scripts \subseteq Script /\ linked \subseteq Script /\ object \in {"none", "created", "opened"}
    BY DEF LifeInv, LifeTypeOK
  <1>2. /\ multi \in wallets /\ object' = "opened" /\ making = Nothing
        /\ UNCHANGED <<wallets, parent, keys, scripts, linked, rows, latest, funded, making>>
    BY DEF Open
  <1>3. LifeTypeOK' /\ RowsOK'
    BY <1>1, <1>2, RowsStay
  <1>4. MakingOK'
    BY <1>2 DEF MakingOK, Steps, Nothing
  <1>5. MultisigGone'
    BY <1>2 DEF MultisigGone
  <1>6. AddsFirst'
    BY <1>2 DEF LifeInv, AddsFirst, Adding
  <1> QED
    BY <1>3, <1>4, <1>5, <1>6 DEF LifeInv

(* What new_key() makes: a script of cosigners whose keys are all there.    *)
LEMMA NewScript ==
  ASSUME LifeInv, NewMultisigKey
  PROVE  /\ CosignerList \in Script
         /\ keys' = keys \cup {<<Cosigner[CosignerList[j]], "pay">> : j \in DOMAIN CosignerList}
         /\ keys' \subseteq PlainKey
         /\ scripts' = scripts \cup {CosignerList}
         /\ making = Nothing /\ multi \in wallets
         /\ making' \in {Nothing, <<"children", CosignerList>>}
         /\ UNCHANGED <<wallets, parent, linked, rows, latest, funded, object>>
  <1> DEFINE L == CosignerList
             c == Cardinality(Cosigners)
  <1>1. ListOK(L) /\ DOMAIN L = 1..c
    BY CosignerListOK
  <1>2. \A m, n \in DOMAIN L : L[m] = L[n] => m = n
    BY CosignerListOK
  <1>3. \A m \in DOMAIN L : L[m] \in 1..NCos
    BY CosignerListOK
  <1>4. /\ \E j \in DOMAIN L : L[j] = 1
        /\ keys' = keys \cup {<<Cosigner[L[j]], "pay">> : j \in DOMAIN L}
        /\ scripts' = scripts \cup {L}
        /\ making = Nothing /\ multi \in wallets
        /\ making' \in {Nothing, <<"children", L>>}
        /\ UNCHANGED <<wallets, parent, linked, rows, latest, funded, object>>
    BY DEF NewMultisigKey
  <1> HIDE DEF L
  <1>5. c \in 1..NCos
    BY <1>1, <1>4, CosignersFinite, Names
  <1>6. L \in [1..c -> 1..NCos]
    BY <1>1, <1>3 DEF ListOK
  <1>7. L \in Script
    BY <1>2, <1>5, <1>6 DEF Script, IsInjective
  <1>8. \A m \in DOMAIN L : <<Cosigner[L[m]], "pay">> \in PlainKey
    <2> TAKE m \in DOMAIN L
    <2>1. Cosigner[L[m]] \in Range(Cosigner)
      BY <1>3, Names
    <2>2. Cosigner[L[m]] \in Wallet \ {single, multi}
      BY <2>1, Names
    <2> QED
      BY <2>2, PlainKeys
  <1>9. keys' \subseteq PlainKey
    BY <1>4, <1>8 DEF LifeInv, LifeTypeOK
  <1> QED
    BY <1>4, <1>7, <1>9 DEF L

LEMMA NewMultisigKeyKeeps ==
  ASSUME LifeInv, NewMultisigKey
  PROVE  LifeInv'
  <1> DEFINE L == CosignerList
  <1>1. /\ wallets \subseteq Wallet /\ parent \subseteq wallets /\ keys \subseteq PlainKey
        /\ scripts \subseteq Script /\ linked \subseteq Script /\ object \in {"none", "created", "opened"}
    BY DEF LifeInv, LifeTypeOK
  <1>2. /\ L \in Script /\ keys' = keys \cup {<<Cosigner[L[j]], "pay">> : j \in DOMAIN L}
        /\ keys' \subseteq PlainKey /\ scripts' = scripts \cup {L}
        /\ making = Nothing /\ multi \in wallets
        /\ making' \in {Nothing, <<"children", L>>}
        /\ UNCHANGED <<wallets, parent, linked, rows, latest, funded, object>>
    BY NewScript
  <1> HIDE DEF L
  <1>3. LifeTypeOK' /\ RowsOK'
    BY <1>1, <1>2, RowsStay
  <1>4. MakingOK'
    <2>1. making' \in Steps'
      BY <1>2 DEF Steps
    <2>2. ASSUME NEW s \in Script, making' = <<"children", s>>
          PROVE  HasKeys(s)'
      <3>1. s = L
        BY <1>2, <2>2 DEF Nothing
      <3> QED
        BY <1>2, <3>1 DEF HasKeys
    <2> QED
      BY <2>1, <2>2 DEF MakingOK
  <1>5. MultisigGone'
    BY <1>2 DEF MultisigGone
  <1>6. ~Adding'
    BY <1>2 DEF Adding, Nothing
  <1>7. AddsFirst'
    BY <1>2, <1>6 DEF LifeInv, AddsFirst
  <1> QED
    BY <1>3, <1>4, <1>5, <1>7 DEF LifeInv
LEMMA ChildrenAre ==
  ASSUME LifeInv, LinkChildren
  PROVE  \E s \in scripts : /\ making = <<"children", s>> /\ linked' = linked \cup {s}
                           /\ s \in Script /\ HasKeys(s)
  <1>1. making \in Steps /\ making[1] = "children" /\ linked' = linked \cup {making[2]}
    BY DEF LinkChildren, LifeInv, MakingOK
  <1>2. PICK s \in scripts : making = <<"children", s>>
    BY <1>1 DEF Steps, Nothing
  <1>3. s \in Script
    BY DEF LifeInv, LifeTypeOK
  <1>4. HasKeys(s)
    BY <1>2, <1>3 DEF LifeInv, MakingOK
  <1> QED
    BY <1>1, <1>2, <1>3, <1>4

LEMMA LinkKeeps ==
  ASSUME LifeInv, LinkChildren
  PROVE  LifeInv'
  <1>1. /\ wallets \subseteq Wallet /\ parent \subseteq wallets /\ keys \subseteq PlainKey
        /\ scripts \subseteq Script /\ linked \subseteq Script /\ object \in {"none", "created", "opened"}
    BY DEF LifeInv, LifeTypeOK
  <1>2. /\ making' = Nothing
        /\ UNCHANGED <<wallets, parent, keys, scripts, rows, latest, funded, object>>
    BY DEF LinkChildren
  <1>3. linked' \subseteq Script
    BY <1>1, ChildrenAre
  <1>4. LifeTypeOK' /\ RowsOK'
    BY <1>1, <1>2, <1>3, RowsStay
  <1>5. MakingOK' /\ ~Adding'
    BY <1>2 DEF MakingOK, Steps, Nothing, Adding
  <1>6. MultisigGone' /\ AddsFirst'
    BY <1>2, <1>5 DEF LifeInv, MultisigGone, AddsFirst
  <1> QED
    BY <1>4, <1>5, <1>6 DEF LifeInv

LEMMA CrashKeeps ==
  ASSUME LifeInv, Crash
  PROVE  LifeInv'
  <1>1. /\ wallets \subseteq Wallet /\ parent \subseteq wallets /\ keys \subseteq PlainKey
        /\ scripts \subseteq Script /\ linked \subseteq Script /\ object \in {"none", "created", "opened"}
    BY DEF LifeInv, LifeTypeOK
  <1>2. /\ making' = Nothing /\ object' = "none"
        /\ UNCHANGED <<wallets, parent, keys, scripts, linked, rows, latest, funded>>
    BY DEF Crash
  <1>3. LifeTypeOK' /\ RowsOK'
    BY <1>1, <1>2, RowsStay
  <1>4. MakingOK' /\ ~Adding'
    BY <1>2 DEF MakingOK, Steps, Nothing, Adding
  <1>5. MultisigGone' /\ AddsFirst'
    BY <1>2, <1>4 DEF LifeInv, MultisigGone, AddsFirst
  <1> QED
    BY <1>3, <1>4, <1>5 DEF LifeInv

LEMMA NewKeyKeeps ==
  ASSUME LifeInv, NEW w \in Wallet, NewKey(w)
  PROVE  LifeInv'
  <1>1. /\ wallets \subseteq Wallet /\ parent \subseteq wallets /\ keys \subseteq PlainKey
        /\ scripts \subseteq Script /\ linked \subseteq Script /\ object \in {"none", "created", "opened"}
    BY DEF LifeInv, LifeTypeOK
  <1>2. /\ w \in wallets \ {single, multi} /\ keys' = keys \cup {<<w, "pay">>} /\ making = Nothing
        /\ UNCHANGED <<wallets, parent, scripts, linked, rows, latest, funded, making, object>>
    BY DEF NewKey
  <1>3. keys' \subseteq PlainKey
    BY <1>1, <1>2, PlainKeys
  <1>4. LifeTypeOK' /\ RowsOK'
    BY <1>1, <1>2, <1>3, RowsStay
  <1>5. MakingOK' /\ ~Adding'
    BY <1>2 DEF MakingOK, Steps, Nothing, Adding
  <1>6. MultisigGone' /\ AddsFirst'
    BY <1>2, <1>5 DEF LifeInv, MultisigGone, AddsFirst
  <1> QED
    BY <1>4, <1>5, <1>6 DEF LifeInv

-----------------------------------------------------------------------------
(* Steps that change rows, but neither wallets nor keys.                     *)

GoodRow(r) ==
  /\ r = RowOf(r.tx, r.wallet, r.complete, r.links)
  /\ r.tx \in Txid /\ r.wallet \in wallets \cup {NoWallet} /\ r.complete \in BOOLEAN
  /\ r.links \subseteq KeyRows /\ r.links \subseteq AddressKey
  /\ r.wallet \in {NoWallet, hd, single, multi}

LEMMA GoodRows ==
  ASSUME LifeInv, NEW r \in rows
  PROVE  GoodRow(r)
  BY DEF LifeInv, LifeTypeOK, RowsOK, GoodRow

LEMMA RowsChange ==
  ASSUME LifeInv, UNCHANGED <<wallets, parent, keys, scripts, linked, making, object>>,
         \A r \in rows' : GoodRow(r),
         \A x \in latest' \ latest : x \in KeyRows \X Txid /\ x[1] \in AddressKey,
         funded' \subseteq KeyRows
  PROVE  LifeInv'
  <1>1. KeyRows' = KeyRows
    BY DEF KeyRows
  <1>2. LifeTypeOK'
    <2>1. \A x \in latest' : x \in KeyRows \X Txid
      BY DEF LifeInv, LifeTypeOK
    <2>2. latest' \subseteq KeyRows' \X Txid
      BY <1>1, <2>1
    <2>3. \A r \in rows' : /\ r.tx \in Txid /\ r.wallet \in wallets' \cup {NoWallet}
                           /\ r.links \subseteq KeyRows' /\ r.complete \in BOOLEAN
      BY <1>1 DEF GoodRow
    <2>4. funded' \subseteq KeyRows'
      BY <1>1
    <2> QED
      BY <2>2, <2>3, <2>4 DEF LifeInv, LifeTypeOK
  <1>3. RowsOK'
    <2>1. \A x \in latest' : x[1] \in AddressKey
      BY DEF LifeInv, RowsOK
    <2> QED
      BY <2>1 DEF RowsOK, GoodRow
  <1>4. MakingOK'
    BY DEF LifeInv, MakingOK, Steps, HasKeys
  <1>5. MultisigGone' /\ AddsFirst'
    BY DEF LifeInv, MultisigGone, AddsFirst, Adding
  <1> QED
    BY <1>2, <1>3, <1>4, <1>5 DEF LifeInv

(* The row that store() writes: one of the wallet or of nobody is taken     *)
(* over, or a new one is added.                                             *)
LEMMA SyncRows ==
  ASSUME LifeInv, NEW t \in Txid, NEW k, Sync(k, t)
  PROVE  /\ k \in KeyRows /\ k \in AddressKey /\ Owner(k) \in wallets \cap {hd, single, multi}
         /\ latest' = latest \cup {<<k, t>>} /\ funded' = funded \cup {k}
         /\ UNCHANGED <<wallets, parent, keys, scripts, linked, making, object>>
         /\ \/ \E r \in rows : /\ r.tx = t /\ r.wallet \in {Owner(k), NoWallet}
                               /\ rows' = (rows \ {r}) \cup {RowOf(t, Owner(k), r.complete, r.links \cup {k})}
            \/ rows' = rows \cup {RowOf(t, Owner(k), TRUE, {k})}
  <1>1. Owner(k) \in wallets /\ k \in AddressKeys(Owner(k))
    BY DEF Sync
  <1>2. Owner(k) \in Wallet
    BY <1>1 DEF LifeInv, LifeTypeOK
  <1>3. k \in KeyRows /\ k \in AddressKey /\ Owner(k) \in {hd, single, multi}
    BY <1>1, <1>2, AddressKeysAre
  <1>4. \A r \in Found(t, Owner(k)) : r \in rows /\ r.tx = t /\ r.wallet \in {Owner(k), NoWallet}
    BY DEF Found
  <1> QED
    BY <1>1, <1>3, <1>4 DEF Sync

LEMMA SyncKeeps ==
  ASSUME LifeInv, NEW t \in Txid, NEW k, Sync(k, t)
  PROVE  LifeInv'
  <1>1. /\ k \in KeyRows /\ k \in AddressKey /\ Owner(k) \in wallets \cap {hd, single, multi}
        /\ latest' = latest \cup {<<k, t>>} /\ funded' = funded \cup {k}
        /\ UNCHANGED <<wallets, parent, keys, scripts, linked, making, object>>
    BY SyncRows
  <1>2. ASSUME NEW c \in BOOLEAN, NEW l, l \subseteq KeyRows, l \subseteq AddressKey
        PROVE  GoodRow(RowOf(t, Owner(k), c, l))
    BY <1>1, <1>2 DEF GoodRow, RowOf
  <1>3. \A r \in rows' : GoodRow(r)
    <2>1. CASE \E r \in rows : /\ r.tx = t /\ r.wallet \in {Owner(k), NoWallet}
                               /\ rows' = (rows \ {r}) \cup {RowOf(t, Owner(k), r.complete, r.links \cup {k})}
      <3>1. PICK r \in rows : rows' = (rows \ {r}) \cup {RowOf(t, Owner(k), r.complete, r.links \cup {k})}
        BY <2>1
      <3>2. GoodRow(r)
        BY GoodRows
      <3>3. GoodRow(RowOf(t, Owner(k), r.complete, r.links \cup {k}))
        <4>1. r.complete \in BOOLEAN /\ r.links \cup {k} \subseteq KeyRows /\ r.links \cup {k} \subseteq AddressKey
          BY <1>1, <3>2 DEF GoodRow
        <4> QED
          BY <1>2, <4>1
      <3> QED
        BY <3>1, <3>3, GoodRows
    <2>2. CASE rows' = rows \cup {RowOf(t, Owner(k), TRUE, {k})}
      <3>1. GoodRow(RowOf(t, Owner(k), TRUE, {k}))
        BY <1>1, <1>2
      <3> QED
        BY <2>2, <3>1, GoodRows
    <2> QED
      BY <2>1, <2>2, SyncRows
  <1>4. funded' \subseteq KeyRows
    BY <1>1 DEF LifeInv, LifeTypeOK
  <1> QED
    BY <1>1, <1>3, <1>4, RowsChange

LEMMA SyncUtxoRows ==
  ASSUME LifeInv, NEW t \in Txid, NEW k, SyncUtxo(k, t)
  PROVE  /\ k \in KeyRows /\ k \in AddressKey /\ Owner(k) \in wallets \cap {hd, single, multi}
         /\ funded' = funded \cup {k} /\ rows' = rows \cup {RowOf(t, Owner(k), FALSE, {k})}
         /\ UNCHANGED <<wallets, parent, keys, scripts, linked, latest, making, object>>
  <1>1. Owner(k) \in wallets /\ k \in AddressKeys(Owner(k))
    BY DEF SyncUtxo
  <1>2. Owner(k) \in Wallet
    BY <1>1 DEF LifeInv, LifeTypeOK
  <1>3. k \in KeyRows /\ k \in AddressKey /\ Owner(k) \in {hd, single, multi}
    BY <1>1, <1>2, AddressKeysAre
  <1> QED
    BY <1>1, <1>3 DEF SyncUtxo

LEMMA SyncUtxoKeeps ==
  ASSUME LifeInv, NEW t \in Txid, NEW k, SyncUtxo(k, t)
  PROVE  LifeInv'
  <1>1. /\ k \in KeyRows /\ k \in AddressKey /\ Owner(k) \in wallets \cap {hd, single, multi}
        /\ funded' = funded \cup {k} /\ rows' = rows \cup {RowOf(t, Owner(k), FALSE, {k})}
        /\ UNCHANGED <<wallets, parent, keys, scripts, linked, latest, making, object>>
    BY SyncUtxoRows
  <1>2. GoodRow(RowOf(t, Owner(k), FALSE, {k}))
    BY <1>1 DEF GoodRow, RowOf
  <1>3. \A r \in rows' : GoodRow(r)
    BY <1>1, <1>2, GoodRows
  <1>4. funded' \subseteq KeyRows
    BY <1>1 DEF LifeInv, LifeTypeOK
  <1> QED
    BY <1>1, <1>3, <1>4, RowsChange
-----------------------------------------------------------------------------
(* Steps that remove keys.                                                   *)

(* What is left of a row when the keys K go with wallet w.                  *)
LeftOf(r, w, K) == RowOf(r.tx, IF r.wallet = w THEN NoWallet ELSE r.wallet, r.complete, r.links \ K)

LEMMA RowsLeft ==
  ASSUME LifeInv, NEW w, NEW K
  PROVE  Unlinked(NoLinks(rows, K), w) = {LeftOf(r, w, K) : r \in {q \in rows : q.wallet = w => q.complete}}
  <1> DEFINE R == NoLinks(rows, K)
             Less(r) == RowOf(r.tx, r.wallet, r.complete, r.links \ K)
  <1>1. \A r \in rows : [r EXCEPT !.links = @ \ K] = Less(r)
    <2> TAKE r \in rows
    <2>1. r = RowOf(r.tx, r.wallet, r.complete, r.links)
      BY DEF LifeInv, RowsOK
    <2> QED
      BY <2>1 DEF RowOf
  <1>2. R = {Less(r) : r \in rows}
    BY <1>1 DEF NoLinks
  <1>3. \A r \in rows : Less(r).wallet = r.wallet /\ Less(r).complete = r.complete
    BY DEF RowOf
  <1>4. \A r \in rows : r.wallet # w => Less(r) = LeftOf(r, w, K)
    BY DEF LeftOf
  <1>5. \A r \in rows : r.wallet = w => [Less(r) EXCEPT !.wallet = NoWallet] = LeftOf(r, w, K)
    BY DEF LeftOf, RowOf
  <1>6. Unlinked(R, w) = {q \in R : q.wallet # w}
                         \cup {[q EXCEPT !.wallet = NoWallet] : q \in {p \in R : p.wallet = w /\ p.complete}}
    BY DEF Unlinked
  <1> HIDE DEF Less, R
  <1>7. {q \in R : q.wallet # w} = {LeftOf(r, w, K) : r \in {p \in rows : p.wallet # w}}
    BY <1>2, <1>3, <1>4
  <1>8. {[q EXCEPT !.wallet = NoWallet] : q \in {p \in R : p.wallet = w /\ p.complete}}
        = {LeftOf(r, w, K) : r \in {p \in rows : p.wallet = w /\ p.complete}}
    BY <1>2, <1>3, <1>5
  <1>9. Unlinked(R, w) = {LeftOf(r, w, K) : r \in {q \in rows : q.wallet = w => q.complete}}
    BY <1>6, <1>7, <1>8
  <1> QED
    BY <1>9 DEF R

(* Keys K of wallet w go.                                                   *)
Removes(w, K) ==
  /\ rows' = {LeftOf(r, w, K) : r \in {q \in rows : q.wallet = w => q.complete}}
  /\ latest' = {x \in latest : x[1] \notin K} /\ funded' = funded \ K
  /\ KeyRows \ K \subseteq KeyRows'

LEMMA RowsRemoved ==
  ASSUME LifeInv, NEW w \in Wallet, NEW K, Removes(w, K),
         wallets' \subseteq wallets, wallets \ wallets' \subseteq {w}
  PROVE  /\ RowsOK'
         /\ \A r \in rows' : /\ r.tx \in Txid /\ r.wallet \in wallets' \cup {NoWallet}
                            /\ r.links \subseteq KeyRows' /\ r.complete \in BOOLEAN
         /\ latest' \subseteq KeyRows' \X Txid /\ funded' \subseteq KeyRows'
  <1>1. ASSUME NEW r \in rows
        PROVE  /\ LeftOf(r, w, K) = RowOf(LeftOf(r, w, K).tx, LeftOf(r, w, K).wallet,
                                          LeftOf(r, w, K).complete, LeftOf(r, w, K).links)
               /\ LeftOf(r, w, K).tx \in Txid /\ LeftOf(r, w, K).complete \in BOOLEAN
               /\ LeftOf(r, w, K).wallet \in wallets' \cup {NoWallet}
               /\ LeftOf(r, w, K).wallet \in {NoWallet, hd, single, multi}
               /\ LeftOf(r, w, K).links \subseteq KeyRows' /\ LeftOf(r, w, K).links \subseteq AddressKey
    <2>1. GoodRow(r)
      BY GoodRows
    <2>2. r.wallet # w /\ r.wallet # NoWallet => r.wallet \in wallets'
      BY <2>1, Names DEF GoodRow
    <2> QED
      BY <2>1, <2>2 DEF GoodRow, LeftOf, RowOf, Removes
  <1>2. \A q \in rows' : \E r \in rows : q = LeftOf(r, w, K)
    BY DEF Removes
  <1>3. latest' \subseteq KeyRows' \X Txid /\ \A x \in latest' : x[1] \in AddressKey
    BY DEF Removes, LifeInv, LifeTypeOK, RowsOK
  <1>4. funded' \subseteq KeyRows'
    BY DEF Removes, LifeInv, LifeTypeOK
  <1> QED
    BY <1>1, <1>2, <1>3, <1>4 DEF RowsOK

LEMMA RemovalIs ==
  ASSUME LifeInv, NEW w \in Wallet, Removal(w)
  PROVE  /\ wallets' = wallets \ {w} /\ parent' = parent \ {w}
         /\ keys' = keys \ KeysOf(w)
         /\ scripts' = IF w = multi THEN {} ELSE scripts
         /\ linked' = IF w = multi THEN {} ELSE LinkedWithout(KeysOf(w))
         /\ object' = IF w = multi THEN "none" ELSE object
         /\ Removes(w, KeysOf(w))
  <1> DEFINE K == KeysOf(w)
  <1>1. /\ wallets' = wallets \ {w} /\ parent' = parent \ {w} /\ keys' = keys \ K
        /\ scripts' = (IF w = multi THEN {} ELSE scripts)
        /\ linked' = (IF w = multi THEN {} ELSE LinkedWithout(K))
        /\ object' = (IF w = multi THEN "none" ELSE object)
        /\ rows' = Unlinked(NoLinks(rows, K), w)
        /\ latest' = {x \in latest : x[1] \notin K} /\ funded' = funded \ K
    BY DEF Removal
  <1>2. KeyRows \ K \subseteq KeyRows'
    <2> SUFFICES ASSUME NEW k \in KeyRows, k \notin K
                 PROVE  k \in KeyRows'
      OBVIOUS
    <2>1. CASE k \in keys
      BY <1>1, <2>1 DEF KeyRows
    <2>2. CASE k \notin keys
      <3>1. k = <<multi, "pay">> /\ scripts # {}
        BY <2>2 DEF KeyRows
      <3>2. w # multi
        BY <3>1 DEF KeysOf, Owner
      <3> QED
        BY <1>1, <3>1, <3>2 DEF KeyRows
    <2> QED
      BY <2>1, <2>2
  <1>3. Removes(w, K)
    BY <1>1, <1>2, RowsLeft DEF Removes
  <1> QED
    BY <1>1, <1>3

(* wallet_delete() is at its end, or goes on.                               *)
Deleting == making = Nothing \/ \E force \in BOOLEAN : making = <<"delete", force>>

LEMMA RemovalKeeps ==
  ASSUME LifeInv, NEW w \in Wallet, Removal(w), w = multi => parent = {}, Deleting'
  PROVE  LifeInv'
  <1> DEFINE K == KeysOf(w)
  <1>1. /\ wallets \subseteq Wallet /\ parent \subseteq wallets /\ keys \subseteq PlainKey
        /\ scripts \subseteq Script /\ linked \subseteq Script /\ object \in {"none", "created", "opened"}
    BY DEF LifeInv, LifeTypeOK
  <1>2. /\ wallets' = wallets \ {w} /\ parent' = parent \ {w} /\ keys' = keys \ K
        /\ scripts' = (IF w = multi THEN {} ELSE scripts)
        /\ linked' = (IF w = multi THEN {} ELSE LinkedWithout(K))
        /\ object' = (IF w = multi THEN "none" ELSE object)
        /\ Removes(w, K)
    BY RemovalIs
  <1> HIDE DEF K
  <1>3. /\ RowsOK'
        /\ \A r \in rows' : /\ r.tx \in Txid /\ r.wallet \in wallets' \cup {NoWallet}
                           /\ r.links \subseteq KeyRows' /\ r.complete \in BOOLEAN
        /\ latest' \subseteq KeyRows' \X Txid /\ funded' \subseteq KeyRows'
    <2>1. wallets' \subseteq wallets /\ wallets \ wallets' \subseteq {w}
      BY <1>2
    <2> QED
      BY <1>2, <2>1, RowsRemoved
  <1>4. LifeTypeOK'
    <2>1. linked' \subseteq Script /\ scripts' \subseteq Script /\ parent' \subseteq wallets'
      BY <1>1, <1>2 DEF LinkedWithout
    <2> QED
      BY <1>1, <1>2, <1>3, <2>1 DEF LifeTypeOK
  <1>5. MakingOK' /\ ~Adding'
    BY DEF Deleting, MakingOK, Steps, Nothing, Adding
  <1>6. MultisigGone'
    BY <1>2 DEF LifeInv, MultisigGone
  <1>7. AddsFirst'
    BY <1>2, <1>5 DEF LifeInv, AddsFirst
  <1> QED
    BY <1>3, <1>4, <1>5, <1>6, <1>7 DEF LifeInv

(* A step of wallet_delete() that deletes no wallet: the first one, or the  *)
(* WalletError.                                                             *)
LEMMA DeletingKeeps ==
  ASSUME LifeInv, Deleting', UNCHANGED <<wallets, parent, keys, scripts, linked, rows, latest, funded, object>>
  PROVE  LifeInv'
  <1>1. /\ wallets \subseteq Wallet /\ parent \subseteq wallets /\ keys \subseteq PlainKey
        /\ scripts \subseteq Script /\ linked \subseteq Script /\ object \in {"none", "created", "opened"}
    BY DEF LifeInv, LifeTypeOK
  <1>2. LifeTypeOK' /\ RowsOK'
    BY <1>1, RowsStay
  <1>3. MakingOK' /\ ~Adding'
    BY DEF Deleting, MakingOK, Steps, Nothing, Adding
  <1>4. MultisigGone' /\ AddsFirst'
    BY <1>3 DEF LifeInv, MultisigGone, AddsFirst
  <1> QED
    BY <1>2, <1>3, <1>4 DEF LifeInv

LEMMA DeleteNextIs ==
  ASSUME LifeInv, NEW w \in Wallet, DeleteNext(w)
  PROVE  /\ Deleting' /\ (w = multi => parent = {})
         /\ \/ Removal(w)
            \/ UNCHANGED <<wallets, parent, keys, scripts, linked, rows, latest, funded, object>>
  <1>1. making[1] = "delete" /\ making \in Steps
    BY DEF DeleteNext, LifeInv, MakingOK
  <1>2. \E force \in BOOLEAN : making = <<"delete", force>>
    BY <1>1 DEF Steps, Nothing
  <1>3. making' = Nothing \/ making' = making
    BY DEF DeleteNext
  <1>4. w = multi => parent = {}
    BY Names DEF DeleteNext, LifeInv, AddsFirst
  <1> QED
    BY <1>2, <1>3, <1>4 DEF Deleting, DeleteNext

LEMMA DeleteKeeps ==
  ASSUME LifeInv, NEW w \in Wallet, DeleteNext(w) \/ \E force \in BOOLEAN : Delete(w, force)
  PROVE  LifeInv'
  <1>1. CASE DeleteNext(w)
    BY <1>1, DeleteNextIs, RemovalKeeps, DeletingKeeps
  <1>2. CASE \E force \in BOOLEAN : Delete(w, force)
    <2>1. Removal(w) /\ w # multi /\ making = Nothing /\ making' = making
      BY <1>2 DEF Delete
    <2>2. Deleting'
      BY <2>1 DEF Deleting
    <2> QED
      BY <2>1, <2>2, RemovalKeeps
  <1> QED
    BY <1>1, <1>2

LEMMA DeleteMultiKeeps ==
  ASSUME LifeInv, NEW force \in BOOLEAN, DeleteMulti(force)
  PROVE  LifeInv'
  <1>1. Deleting'
    BY DEF DeleteMulti, Deleting
  <1> QED
    BY <1>1, DeletingKeeps DEF DeleteMulti

LEMMA EmptyIs ==
  ASSUME LifeInv, NEW w \in Wallet, Empty(w)
  PROVE  LET K == {<<w, "pay">>} \cap keys
         IN  /\ w \in wallets /\ w \in Emptied /\ making = Nothing
             /\ keys' = keys \ K /\ linked' = LinkedWithout(K) /\ Removes(w, K)
             /\ UNCHANGED <<wallets, parent, scripts, making, object>>
  <1> DEFINE K == {<<w, "pay">>} \cap keys
  <1>1. /\ w \in wallets /\ w \in Emptied /\ making = Nothing
        /\ keys' = keys \ K /\ linked' = LinkedWithout(K)
        /\ rows' = Unlinked(NoLinks(rows, K), w)
        /\ latest' = {x \in latest : x[1] \notin K} /\ funded' = funded \ K
        /\ UNCHANGED <<wallets, parent, scripts, making, object>>
    BY DEF Empty
  <1>2. KeyRows \ K \subseteq KeyRows'
    BY <1>1 DEF KeyRows
  <1> HIDE DEF K
  <1>3. Removes(w, K)
    BY <1>1, <1>2, RowsLeft DEF Removes
  <1> QED
    BY <1>1, <1>3 DEF K

LEMMA EmptyKeeps ==
  ASSUME LifeInv, NEW w \in Wallet, Empty(w)
  PROVE  LifeInv'
  <1> DEFINE K == {<<w, "pay">>} \cap keys
  <1>1. /\ wallets \subseteq Wallet /\ parent \subseteq wallets /\ keys \subseteq PlainKey
        /\ scripts \subseteq Script /\ linked \subseteq Script /\ object \in {"none", "created", "opened"}
    BY DEF LifeInv, LifeTypeOK
  <1>2. /\ w \in wallets /\ making = Nothing
        /\ keys' = keys \ K /\ linked' = LinkedWithout(K) /\ Removes(w, K)
        /\ UNCHANGED <<wallets, parent, scripts, making, object>>
    BY EmptyIs
  <1> HIDE DEF K
  <1>3. /\ RowsOK'
        /\ \A r \in rows' : /\ r.tx \in Txid /\ r.wallet \in wallets' \cup {NoWallet}
                           /\ r.links \subseteq KeyRows' /\ r.complete \in BOOLEAN
        /\ latest' \subseteq KeyRows' \X Txid /\ funded' \subseteq KeyRows'
    <2>1. wallets' \subseteq wallets /\ wallets \ wallets' \subseteq {w}
      BY <1>2
    <2> QED
      BY <1>2, <2>1, RowsRemoved
  <1>4. LifeTypeOK'
    <2>1. linked' \subseteq Script
      BY <1>1, <1>2 DEF LinkedWithout
    <2> QED
      BY <1>1, <1>2, <1>3, <2>1 DEF LifeTypeOK
  <1>5. MakingOK' /\ ~Adding'
    BY <1>2 DEF MakingOK, Steps, Nothing, Adding
  <1>6. MultisigGone' /\ AddsFirst'
    BY <1>2, <1>5 DEF LifeInv, MultisigGone, AddsFirst
  <1> QED
    BY <1>3, <1>4, <1>5, <1>6 DEF LifeInv
-----------------------------------------------------------------------------
(* Theorems.                                                                 *)

LEMMA StutterKeeps ==
  ASSUME LifeInv, UNCHANGED life
  PROVE  LifeInv'
  BY DEF LifeInv, life, LifeTypeOK, KeyRows, MakingOK, Steps, HasKeys, RowsOK, MultisigGone, AddsFirst, Adding

LEMMA InitHolds ==
  ASSUME LifeInit
  PROVE  LifeInv
  BY DEF LifeInit, LifeInv, LifeTypeOK, MakingOK, Steps, Nothing, RowsOK, MultisigGone, AddsFirst, Adding

LEMMA NextKeeps ==
  ASSUME LifeInv, LifeNext
  PROVE  LifeInv'
  <1>1. CASE \E w \in Wallet : Create(w)
    BY <1>1, CreateKeeps
  <1>2. CASE \E w \in Wallet : CreateMain(w)
    BY <1>2, MainKeeps
  <1>3. CASE \E w \in Wallet : CreatePay(w)
    BY <1>3, PayKeeps
  <1>4. CASE \E w \in Wallet : NewKey(w)
    BY <1>4, NewKeyKeeps
  <1>5. CASE \E w \in Wallet : Empty(w)
    BY <1>5, EmptyKeeps
  <1>6. CASE \E w \in Wallet : DeleteNext(w) \/ \E force \in BOOLEAN : Delete(w, force)
    BY <1>6, DeleteKeeps
  <1>14. CASE \E force \in BOOLEAN : DeleteMulti(force)
    BY <1>14, DeleteMultiKeeps
  <1>7. CASE \E i \in 1..NCos : CreateCosigner(i)
    BY <1>7, CosignerKeeps
  <1>8. CASE Open
    BY <1>8, OpenKeeps
  <1>9. CASE NewMultisigKey
    BY <1>9, NewMultisigKeyKeeps
  <1>10. CASE LinkChildren
    BY <1>10, LinkKeeps
  <1>11. CASE Crash
    BY <1>11, CrashKeeps
  <1>12. CASE \E t \in Txid : \E k \in Pays[t] : Sync(k, t)
    BY <1>12, SyncKeeps
  <1>13. CASE \E t \in Txid : \E k \in Pays[t] : SyncUtxo(k, t)
    BY <1>13, SyncUtxoKeeps
  <1> QED
    BY <1>1, <1>2, <1>3, <1>4, <1>5, <1>6, <1>7, <1>8, <1>9, <1>10, <1>11, <1>12, <1>13, <1>14 DEF LifeNext

LEMMA LifeInvHolds == LifeSpec => []LifeInv
  <1>1. LifeInit => LifeInv
    BY InitHolds
  <1>2. LifeInv /\ [LifeNext]_life => LifeInv'
    BY NextKeeps, StutterKeeps
  <1> QED
    BY <1>1, <1>2, PTL DEF LifeSpec

(* The rows of the database refer to wallets and keys that are there,       *)
(* whatever is deleted, emptied or left unfinished.                         *)
THEOREM TypeCorrect == LifeSpec => []LifeTypeOK
  <1>1. LifeInv => LifeTypeOK
    BY DEF LifeInv
  <1> QED
    BY <1>1, LifeInvHolds, PTL

-----------------------------------------------------------------------------
(* Links to the keys of cosigners.                                           *)

LEMMA DanglingStep ==
  ASSUME LifeInv, NoDangling, [LifeNext]_life
  PROVE  NoDangling'
  <1>1. ASSUME linked' \subseteq linked, keys \subseteq keys', scripts \subseteq scripts'
        PROVE  NoDangling'
    BY <1>1 DEF NoDangling
  <1>2. ASSUME NEW K, keys' = keys \ K, linked' = LinkedWithout(K), scripts' = scripts
        PROVE  NoDangling'
    BY <1>2 DEF NoDangling, LinkedWithout
  <1>3. ASSUME NEW w \in Wallet, Create(w) \/ CreateMain(w) \/ CreatePay(w) \/ NewKey(w)
        PROVE  NoDangling'
    BY <1>1, <1>3 DEF Create, CreateMain, CreatePay, NewKey
  <1>4. ASSUME NEW w \in Wallet, Empty(w)
        PROVE  NoDangling'
    BY <1>2, <1>4, EmptyIs
  <1>5. ASSUME NEW w \in Wallet, Removal(w)
        PROVE  NoDangling'
    <2>1. CASE w = multi
      <3>1. linked' = {}
        BY <1>5, <2>1, RemovalIs
      <3> QED
        BY <3>1 DEF NoDangling
    <2>2. CASE w # multi
      <3>1. /\ keys' = keys \ KeysOf(w) /\ linked' = LinkedWithout(KeysOf(w)) /\ scripts' = scripts
        BY <1>5, <2>2, RemovalIs
      <3> QED
        BY <1>2, <3>1
    <2> QED
      BY <2>1, <2>2
  <1>6. ASSUME NEW i \in 1..NCos, CreateCosigner(i)
        PROVE  NoDangling'
    BY <1>1, <1>6 DEF CreateCosigner
  <1>7. CASE NewMultisigKey
    BY <1>1, <1>7, NewScript
  <1>8. CASE LinkChildren
    <2>1. PICK s \in scripts : linked' = linked \cup {s} /\ HasKeys(s)
      BY <1>8, ChildrenAre
    <2>2. UNCHANGED <<keys, scripts>>
      BY <1>8 DEF LinkChildren
    <2> QED
      BY <2>1, <2>2 DEF NoDangling, HasKeys
  <1>9. CASE Open \/ Crash
    BY <1>1, <1>9 DEF Open, Crash
  <1>10. ASSUME NEW t \in Txid, NEW k \in Pays[t], Sync(k, t) \/ SyncUtxo(k, t)
         PROVE  NoDangling'
    BY <1>1, <1>10 DEF Sync, SyncUtxo
  <1>11. CASE UNCHANGED life
    BY <1>1, <1>11 DEF life
  <1>12. ASSUME UNCHANGED <<keys, scripts, linked>>
         PROVE  NoDangling'
    BY <1>1, <1>12
  <1> QED
    BY <1>3, <1>4, <1>5, <1>6, <1>7, <1>8, <1>9, <1>10, <1>11, <1>12, DeleteNextIs
    DEF LifeNext, Delete, DeleteMulti

(* A child row of a multisig key refers to a key of a cosigner's wallet     *)
(* that is there, and to a script that is there: deleting and emptying      *)
(* wallets in any order removes the child rows before the keys are gone,    *)
(* and no wallet is deleted between the two commits of new_key().           *)
THEOREM ChildrenCorrect == LifeSpec => []NoDangling
  <1>1. LifeInit => NoDangling
    BY DEF LifeInit, NoDangling
  <1>2. LifeInv /\ NoDangling /\ [LifeNext]_life => NoDangling'
    BY DanglingStep
  <1> QED
    BY <1>1, <1>2, LifeInvHolds, PTL DEF LifeSpec

-----------------------------------------------------------------------------
(* The script of a multisig wallet.                                          *)

LEMMA WholeStep ==
  ASSUME SortKeys \/ NCos <= 10, LifeInv, WholeFirst, [LifeNext]_life
  PROVE  WholeFirst'
  <1>1. ASSUME UNCHANGED <<parent, scripts>>
        PROVE  WholeFirst'
    BY <1>1 DEF WholeFirst
  <1>2. ASSUME NEW w \in Wallet, \/ Create(w) \/ CreateMain(w) \/ CreatePay(w) \/ NewKey(w) \/ Empty(w)
        PROVE  WholeFirst'
    BY <1>1, <1>2 DEF Create, CreateMain, CreatePay, NewKey, Empty
  <1>3. ASSUME NEW w \in Wallet, Removal(w)
        PROVE  WholeFirst'
    <2>1. parent' \subseteq parent /\ scripts' \in {{}, scripts}
      BY <1>3, RemovalIs
    <2>2. parent \subseteq Range(Cosigner)
      BY DEF LifeInv, AddsFirst
    <2> QED
      BY <2>1, <2>2 DEF WholeFirst
  <1>4. ASSUME NEW i \in 1..NCos, CreateCosigner(i)
        PROVE  WholeFirst'
    <2>1. scripts = {}
      BY <1>4 DEF CreateCosigner, LifeInv, AddsFirst, Adding
    <2>2. scripts' = scripts
      BY <1>4 DEF CreateCosigner
    <2> QED
      BY <2>1, <2>2 DEF WholeFirst
  <1>5. CASE NewMultisigKey
    <2>1. SUFFICES ASSUME parent = Range(Cosigner)
                   PROVE  scripts' \subseteq {Whole}
      BY <1>5, NewScript DEF WholeFirst
    <2>2. Cosigners = 1..NCos
      BY <2>1, Names DEF Cosigners
    <2>3. CosignerList = Whole
      BY <2>2, WholeList
    <2> QED
      BY <1>5, <2>1, <2>3, NewScript DEF WholeFirst
  <1>6. CASE Open \/ LinkChildren \/ Crash
    BY <1>1, <1>6 DEF Open, LinkChildren, Crash
  <1>7. ASSUME NEW t \in Txid, NEW k \in Pays[t], Sync(k, t) \/ SyncUtxo(k, t)
        PROVE  WholeFirst'
    BY <1>1, <1>7 DEF Sync, SyncUtxo
  <1>8. CASE UNCHANGED life
    BY <1>1, <1>8 DEF life
  <1> QED
    BY <1>1, <1>2, <1>3, <1>4, <1>5, <1>6, <1>7, <1>8, DeleteNextIs DEF LifeNext, Delete, DeleteMulti

(* As many cosigner wallets as cosigners are all of them.                   *)
LEMMA AllCosigners ==
  ASSUME parent \subseteq Range(Cosigner), Cardinality(parent) = NCos
  PROVE  parent = Range(Cosigner)
  <1>1. Cosigner \in [1..NCos -> Range(Cosigner)] /\ NCos \in Nat
    BY LifecycleAssumption
  <1>2. Cosigner \in Surjection(1..NCos, Range(Cosigner))
    BY <1>1, Names, Fun_IsSurj
  <1>3. IsFiniteSet(1..NCos) /\ Cardinality(1..NCos) = NCos
    BY <1>1, FS_Interval
  <1>4. IsFiniteSet(Range(Cosigner)) /\ Cardinality(Range(Cosigner)) <= NCos
    BY <1>2, <1>3, FS_Surjection
  <1>5. Cardinality(Range(Cosigner)) \in Nat
    BY <1>4, FS_CardinalityType
  <1>6. Cardinality(parent) <= Cardinality(Range(Cosigner))
    BY <1>4, FS_Subset
  <1>7. Cardinality(parent) = Cardinality(Range(Cosigner))
    BY <1>1, <1>4, <1>5, <1>6
  <1> QED
    BY <1>4, <1>7, FS_Subset

(* All keys that a multisig wallet with all its cosigners hands out belong  *)
(* to the script of all cosigners in one order: the wallet that create()    *)
(* returns, and those that are opened later.  Names sort like numbers up to *)
(* ten cosigners.                                                           *)
THEOREM OneScriptCorrect ==
  ASSUME SortKeys \/ NCos <= 10
  PROVE  LifeSpec => []OneScript
  <1>1. LifeInit => WholeFirst
    BY DEF LifeInit, WholeFirst
  <1>2. LifeInv /\ WholeFirst /\ [LifeNext]_life => WholeFirst'
    BY WholeStep
  <1>3. LifeInv /\ WholeFirst => OneScript
    BY AllCosigners DEF LifeInv, AddsFirst, WholeFirst, OneScript
  <1> QED
    BY <1>1, <1>2, <1>3, LifeInvHolds, PTL DEF LifeSpec
-----------------------------------------------------------------------------
(* Rows of several wallets.  wallet_empty() keeps the keys of a single key  *)
(* wallet and those of a multisig wallet, with their latest_txid and links: *)
(* what is below is about wallets whose keys it does delete.                *)
Emptiable == {single, multi} \cap Emptied = {}

(* A step that neither removes nor changes rows.                            *)
LEMMA RowsGrow ==
  ASSUME LifeInv, LifeNext,
         ~\E w \in Wallet : Empty(w) \/ Removal(w),
         ~\E t \in Txid : \E k \in Pays[t] : Sync(k, t) \/ SyncUtxo(k, t)
  PROVE  UNCHANGED <<rows, latest>>
  BY DEF LifeNext, Create, CreateMain, CreatePay, NewKey, CreateCosigner, Open, NewMultisigKey,
         LinkChildren, Crash, Delete, DeleteMulti, DeleteNext

(* Rows that are taken over have no links.                                  *)
LEMMA NobodyLinks ==
  ASSUME LifeInv, LinksOwn, NEW r \in rows, r.wallet = NoWallet
  PROVE  r.links = {}
  <1>1. \A k \in r.links : k \in AddressKey /\ Owner(k) = NoWallet
    BY GoodRows DEF GoodRow, LinksOwn
  <1>2. \A k \in AddressKey : Owner(k) \in Wallet
    BY Names DEF AddressKey, Owner
  <1> QED
    BY <1>1, <1>2, LifecycleAssumption

(* The keys that go with a wallet are those of its rows.                    *)
LEMMA KeysGone ==
  ASSUME LifeInv, LinksOwn, Emptiable, NEW w \in Wallet, NEW K,
         \/ Empty(w) /\ K = {<<w, "pay">>} \cap keys
         \/ Removal(w) /\ K = KeysOf(w)
  PROVE  /\ Removes(w, K)
         /\ \A k \in KeyRows \cap AddressKey : Owner(k) = w <=> k \in K
  <1>1. CASE Empty(w) /\ K = {<<w, "pay">>} \cap keys
    <2>1. Removes(w, K) /\ w \in Emptied
      BY <1>1, EmptyIs
    <2>2. w # single /\ w # multi
      BY <2>1 DEF Emptiable
    <2>3. \A k \in KeyRows \cap AddressKey : Owner(k) = w => k \in K
      BY <1>1, <2>2 DEF KeyRows, AddressKey, Owner
    <2>4. \A k \in K : Owner(k) = w
      BY <1>1 DEF Owner
    <2> QED
      BY <2>1, <2>3, <2>4
  <1>2. CASE Removal(w) /\ K = KeysOf(w)
    <2>1. Removes(w, K)
      BY <1>2, RemovalIs
    <2> QED
      BY <1>2, <2>1 DEF KeysOf
  <1> QED
    BY <1>1, <1>2

LEMMA RemovalKeys ==
  ASSUME LifeInv, LinksOwn, Emptiable, NEW w \in Wallet,
         Empty(w) \/ Removal(w)
  PROVE  \E K : /\ Removes(w, K)
                /\ \A k \in KeyRows \cap AddressKey : Owner(k) = w <=> k \in K
  <1>1. CASE Empty(w)
    <2>1. PICK K : K = {<<w, "pay">>} \cap keys
      OBVIOUS
    <2>2. /\ Removes(w, K)
          /\ \A k \in KeyRows \cap AddressKey : Owner(k) = w <=> k \in K
      BY <1>1, <2>1, KeysGone
    <2> QED
      BY <2>2
  <1>2. CASE Removal(w)
    <2>1. PICK K : K = KeysOf(w)
      OBVIOUS
    <2>2. /\ Removes(w, K)
          /\ \A k \in KeyRows \cap AddressKey : Owner(k) = w <=> k \in K
      BY <1>2, <2>1, KeysGone
    <2> QED
      BY <2>2
  <1> QED
    BY <1>1, <1>2

LEMMA LinksStep ==
  ASSUME LifeInv, LinksOwn, Emptiable, [LifeNext]_life
  PROVE  LinksOwn'
  <1>1. ASSUME UNCHANGED <<rows, latest>>
        PROVE  LinksOwn'
    BY <1>1 DEF LinksOwn
  <1>2. ASSUME NEW w \in Wallet, NEW K, Removes(w, K),
               \A k \in KeyRows \cap AddressKey : Owner(k) = w <=> k \in K
        PROVE  LinksOwn'
    <2>1. ASSUME NEW r \in rows, NEW k \in LeftOf(r, w, K).links
          PROVE  Owner(k) = LeftOf(r, w, K).wallet
      <3>1. k \in r.links /\ k \notin K
        BY <2>1 DEF LeftOf, RowOf
      <3>2. k \in KeyRows \cap AddressKey /\ Owner(k) = r.wallet
        BY <3>1, GoodRows DEF GoodRow, LinksOwn
      <3>3. r.wallet # w
        BY <1>2, <3>1, <3>2
      <3> QED
        BY <3>2, <3>3 DEF LeftOf, RowOf
    <2>2. \A q \in rows' : \E r \in rows : q = LeftOf(r, w, K)
      BY <1>2 DEF Removes
    <2> QED
      BY <2>1, <2>2 DEF LinksOwn
  <1>3. ASSUME NEW w \in Wallet, Empty(w) \/ Removal(w)
        PROVE  LinksOwn'
    <2>1. \E K : /\ Removes(w, K)
                 /\ \A k \in KeyRows \cap AddressKey : Owner(k) = w <=> k \in K
      BY <1>3, RemovalKeys
    <2> QED
      BY <1>2, <2>1
  <1>4. ASSUME NEW t \in Txid, NEW k, NEW c, NEW l, \A x \in l : Owner(x) = Owner(k)
        PROVE  \A x \in RowOf(t, Owner(k), c, l).links : Owner(x) = RowOf(t, Owner(k), c, l).wallet
    BY <1>4 DEF RowOf
  <1>5. ASSUME NEW t \in Txid, NEW k \in Pays[t], Sync(k, t)
        PROVE  LinksOwn'
    <2>1. CASE \E r \in rows : /\ r.tx = t /\ r.wallet \in {Owner(k), NoWallet}
                               /\ rows' = (rows \ {r}) \cup {RowOf(t, Owner(k), r.complete, r.links \cup {k})}
      <3>1. PICK r \in rows : /\ r.wallet \in {Owner(k), NoWallet}
                              /\ rows' = (rows \ {r}) \cup {RowOf(t, Owner(k), r.complete, r.links \cup {k})}
        BY <2>1
      <3>2. \A x \in r.links \cup {k} : Owner(x) = Owner(k)
        BY <3>1, NobodyLinks DEF LinksOwn
      <3> QED
        BY <1>4, <3>1, <3>2 DEF LinksOwn
    <2>2. CASE rows' = rows \cup {RowOf(t, Owner(k), TRUE, {k})}
      <3>1. \A x \in RowOf(t, Owner(k), TRUE, {k}).links : Owner(x) = RowOf(t, Owner(k), TRUE, {k}).wallet
        BY DEF RowOf
      <3> QED
        BY <2>2, <3>1 DEF LinksOwn
    <2> QED
      BY <1>5, <2>1, <2>2, SyncRows
  <1>6. ASSUME NEW t \in Txid, NEW k \in Pays[t], SyncUtxo(k, t)
        PROVE  LinksOwn'
    <2>1. rows' = rows \cup {RowOf(t, Owner(k), FALSE, {k})}
      BY <1>6, SyncUtxoRows
    <2>2. \A x \in RowOf(t, Owner(k), FALSE, {k}).links : Owner(x) = RowOf(t, Owner(k), FALSE, {k}).wallet
      BY DEF RowOf
    <2> QED
      BY <2>1, <2>2 DEF LinksOwn
  <1>7. CASE UNCHANGED life
    BY <1>1, <1>7 DEF life
  <1> QED
    BY <1>1, <1>3, <1>5, <1>6, <1>7, RowsGrow
LEMMA LinksOwnHolds ==
  ASSUME Emptiable
  PROVE  LifeSpec => []LinksOwn
  <1>1. LifeInit => LinksOwn
    BY DEF LifeInit, LinksOwn
  <1>2. LifeInv /\ LinksOwn /\ [LifeNext]_life => LinksOwn'
    BY LinksStep
  <1> QED
    BY <1>1, <1>2, LifeInvHolds, PTL DEF LifeSpec

(* A row of a wallet is there, with links to at least these keys.           *)
Has(R, t, w, K) == \E q \in R : q.tx = t /\ q.wallet = w /\ K \subseteq q.links

(* What a step leaves to the wallets that it neither deletes nor empties.   *)
LEMMA RowsKept ==
  ASSUME LifeInv, LinksOwn, Emptiable, [LifeNext]_life, NEW r \in rows, r.wallet # NoWallet
  PROVE  \/ Has(rows', r.tx, r.wallet, r.links)
         \/ Empty(r.wallet) \/ Removal(r.wallet)
  <1>1. CASE rows' = rows
    BY <1>1 DEF Has
  <1>2. ASSUME NEW w \in Wallet, Empty(w) \/ Removal(w), r.wallet # w
        PROVE  Has(rows', r.tx, r.wallet, r.links)
    <2>1. PICK K : /\ Removes(w, K)
                   /\ \A k \in KeyRows \cap AddressKey : Owner(k) = w <=> k \in K
      BY <1>2, RemovalKeys
    <2>2. LeftOf(r, w, K) \in rows'
      BY <1>2, <2>1 DEF Removes
    <2>3. \A k \in r.links : k \notin K
      BY <1>2, <2>1, GoodRows DEF GoodRow, LinksOwn
    <2>4. /\ LeftOf(r, w, K).tx = r.tx /\ LeftOf(r, w, K).wallet = r.wallet
          /\ LeftOf(r, w, K).links = r.links \ K
      BY <1>2 DEF LeftOf, RowOf
    <2> QED
      BY <2>2, <2>3, <2>4 DEF Has
  <1>3. ASSUME NEW t \in Txid, NEW k \in Pays[t], Sync(k, t)
        PROVE  Has(rows', r.tx, r.wallet, r.links)
    <2>1. CASE \E q \in rows : /\ q.tx = t /\ q.wallet \in {Owner(k), NoWallet}
                               /\ rows' = (rows \ {q}) \cup {RowOf(t, Owner(k), q.complete, q.links \cup {k})}
      <3>1. PICK q \in rows : /\ q.tx = t /\ q.wallet \in {Owner(k), NoWallet}
                              /\ rows' = (rows \ {q}) \cup {RowOf(t, Owner(k), q.complete, q.links \cup {k})}
        BY <2>1
      <3>2. CASE q = r
        <4> DEFINE new == RowOf(t, Owner(k), q.complete, q.links \cup {k})
        <4>1. new \in rows' /\ new.tx = r.tx /\ new.wallet = r.wallet /\ r.links \subseteq new.links
          BY <3>1, <3>2 DEF RowOf
        <4> QED
          BY <4>1 DEF Has
      <3>3. CASE q # r
        BY <3>1, <3>3 DEF Has
      <3> QED
        BY <3>2, <3>3
    <2>2. CASE rows' = rows \cup {RowOf(t, Owner(k), TRUE, {k})}
      BY <2>2 DEF Has
    <2> QED
      BY <1>3, <2>1, <2>2, SyncRows
  <1>4. ASSUME NEW t \in Txid, NEW k \in Pays[t], SyncUtxo(k, t)
        PROVE  Has(rows', r.tx, r.wallet, r.links)
    <2>1. rows' = rows \cup {RowOf(t, Owner(k), FALSE, {k})}
      BY <1>4, SyncUtxoRows
    <2> QED
      BY <2>1 DEF Has
  <1>5. CASE UNCHANGED life
    BY <1>1, <1>5 DEF life
  <1> QED
    BY <1>1, <1>2, <1>3, <1>4, <1>5, RowsGrow

(* Deleting or emptying a wallet, and storing transactions, takes no row    *)
(* and no link of a row from another wallet: neither from those that have   *)
(* rows of the same transactions, nor from the one whose cosigner's wallet  *)
(* goes.                                                                    *)
THEOREM OthersKeptCorrect ==
  ASSUME Emptiable
  PROVE  LifeSpec => OthersKept
  <1>1. LifeInv /\ LinksOwn /\ [LifeNext]_life
        => [\A r \in rows : r.wallet # NoWallet =>
              \/ \E q \in rows' : q.tx = r.tx /\ q.wallet = r.wallet /\ r.links \subseteq q.links
              \/ Empty(r.wallet) \/ r.wallet \in wallets \ wallets']_life
    <2>1. ASSUME LifeInv, NEW r \in rows, r.wallet # NoWallet, Removal(r.wallet)
          PROVE  r.wallet \in wallets \ wallets'
      BY <2>1 DEF Removal, LifeInv, LifeTypeOK
    <2> QED
      BY <2>1, RowsKept DEF Has
  <1> QED
    BY <1>1, LifeInvHolds, LinksOwnHolds, PTL DEF LifeSpec, OthersKept

LEMMA RememberedStep ==
  ASSUME LifeInv, LinksOwn, Emptiable, Remembered, [LifeNext]_life
  PROVE  Remembered'
  <1>1. ASSUME NEW x \in latest
        PROVE  /\ x[1] \in KeyRows /\ x[1] \in AddressKey /\ Owner(x[1]) \in Wallet
               /\ Owner(x[1]) # NoWallet
    <2>1. x[1] \in KeyRows /\ x[1] \in AddressKey
      BY DEF LifeInv, LifeTypeOK, RowsOK
    <2>2. Owner(x[1]) \in Wallet
      BY <2>1, Names DEF AddressKey, Owner
    <2> QED
      BY <2>1, <2>2, LifecycleAssumption
  <1>2. ASSUME NEW x \in latest,
               ~Empty(Owner(x[1])) /\ ~Removal(Owner(x[1]))
        PROVE  Has(rows', x[2], Owner(x[1]), {x[1]})
    <2>1. PICK r \in rows : r.tx = x[2] /\ r.wallet = Owner(x[1]) /\ x[1] \in r.links
      BY DEF Remembered
    <2>2. Has(rows', r.tx, r.wallet, r.links)
      BY <1>1, <1>2, <2>1, RowsKept
    <2> QED
      BY <2>1, <2>2 DEF Has
  <1>3. ASSUME NEW x \in latest, x \in latest'
        PROVE  Has(rows', x[2], Owner(x[1]), {x[1]})
    <2>1. ASSUME Empty(Owner(x[1])) \/ Removal(Owner(x[1]))
          PROVE  FALSE
      <3>1. PICK K : /\ Removes(Owner(x[1]), K)
                     /\ \A k \in KeyRows \cap AddressKey : Owner(k) = Owner(x[1]) <=> k \in K
        BY <1>1, <2>1, RemovalKeys
      <3>2. x[1] \in K
        BY <1>1, <3>1
      <3> QED
        BY <1>3, <3>1, <3>2 DEF Removes
    <2> QED
      BY <1>2, <2>1
  <1>4. ASSUME NEW x \in latest', x \notin latest
        PROVE  Has(rows', x[2], Owner(x[1]), {x[1]})
    <2>1. \E t \in Txid : \E k \in Pays[t] : Sync(k, t)
      <3>1. ASSUME NEW w \in Wallet, Empty(w) \/ Removal(w)
            PROVE  FALSE
        <4>1. PICK K : Removes(w, K)
          BY <3>1, RemovalKeys
        <4> QED
          BY <1>4, <4>1 DEF Removes
      <3>2. ASSUME NEW t \in Txid, NEW k \in Pays[t], SyncUtxo(k, t)
            PROVE  FALSE
        BY <1>4, <3>2 DEF SyncUtxo
      <3>3. ASSUME UNCHANGED life
            PROVE  FALSE
        BY <1>4, <3>3 DEF life
      <3> QED
        BY <1>4, <3>1, <3>2, <3>3, RowsGrow
    <2>2. PICK t \in Txid : \E k \in Pays[t] : Sync(k, t)
      BY <2>1
    <2>6. PICK k \in Pays[t] : Sync(k, t)
      BY <2>2
    <2>3. latest' = latest \cup {<<k, t>>}
      BY <2>6, SyncRows
    <2>4. x = <<k, t>>
      BY <1>4, <2>3
    <2>5. Has(rows', t, Owner(k), {k})
      <3> DEFINE new(c, l) == RowOf(t, Owner(k), c, l)
      <3>1. \A c, l : new(c, l).tx = t /\ new(c, l).wallet = Owner(k) /\ new(c, l).links = l
        BY DEF RowOf
      <3>2. \E c, l : new(c, l) \in rows' /\ k \in l
        <4>1. \/ \E r \in rows : rows' = (rows \ {r}) \cup {new(r.complete, r.links \cup {k})}
              \/ rows' = rows \cup {new(TRUE, {k})}
          BY <2>6, SyncRows
        <4> HIDE DEF new
        <4>2. CASE \E r \in rows : rows' = (rows \ {r}) \cup {new(r.complete, r.links \cup {k})}
          <5>1. PICK r \in rows : rows' = (rows \ {r}) \cup {new(r.complete, r.links \cup {k})}
            BY <4>2
          <5>2. new(r.complete, r.links \cup {k}) \in rows' /\ k \in r.links \cup {k}
            BY <5>1
          <5> QED
            BY <5>2
        <4>3. CASE rows' = rows \cup {new(TRUE, {k})}
          <5>1. new(TRUE, {k}) \in rows' /\ k \in {k}
            BY <4>3
          <5> QED
            BY <5>1
        <4> QED
          BY <4>1, <4>2, <4>3
      <3> HIDE DEF new
      <3> QED
        BY <3>1, <3>2 DEF Has
    <2> QED
      BY <2>4, <2>5
  <1>5. \A x \in latest' : Has(rows', x[2], Owner(x[1]), {x[1]})
    BY <1>3, <1>4
  <1> QED
    BY <1>5 DEF Remembered, Has

(* A transaction that the latest_txid of a key skips is stored in the       *)
(* wallet of the key, with the link to it, and stays so while other wallets *)
(* are deleted, emptied and brought up to date.                             *)
THEOREM RememberedCorrect ==
  ASSUME Emptiable
  PROVE  LifeSpec => []Remembered
  <1>1. LifeInit => Remembered
    BY DEF LifeInit, Remembered
  <1>2. LifeInv /\ LinksOwn /\ Remembered /\ [LifeNext]_life => Remembered'
    BY RememberedStep
  <1> QED
    BY <1>1, <1>2, LifeInvHolds, LinksOwnHolds, PTL DEF LifeSpec

-----------------------------------------------------------------------------
(* The commits of store() and utxos_update(): TxStore.                       *)

(* What a call still has to write, and what its snapshots said.              *)
Calls ==
  [kind : {"idle", "store", "utxo"}, todo : Seq(Place), found : SUBSET Place,
   keys : SUBSET Key, at : {"look", "write"}, had : SUBSET Key]

StoreTypeOK ==
  /\ known \subseteq Key
  /\ keyId = [x \in Stored |-> keyId[x]] /\ Stored \subseteq Place
  /\ storing \in [Program -> Calls]

(* The last of the places, in turn.                                          *)
InTurn(q) == Len(q) <= NRows + 1 /\ \A j \in 1..Len(q) : q[j] = NRows - Len(q) + j

(* Row x is in F, linked to its key if that is in K, and the key is in U.    *)
RowOK(x, K, U, F) ==
  /\ x \in DOMAIN F
  /\ x > 0 /\ AddressAt[x] \in K => F[x] = AddressAt[x] /\ AddressAt[x] \in U

(* A call of store() writes the places that are left in turn; those before   *)
(* are written, whoever did it.                                              *)
StoreOK(c, K, U, F) ==
  c.kind = "store" =>
    /\ InTurn(c.todo) /\ c.had \subseteq K
    /\ c.at = "write" => c.had \subseteq c.keys
    /\ \A x \in 0..(NRows - Len(c.todo)) : RowOK(x, c.had, U, F)

(* A call of utxos_update() writes the transaction first.                    *)
UtxoOK(c, F) ==
  c.kind = "utxo" =>
    \E x \in Place : c.todo \in {<<>>, <<x>>, <<0, x>>} /\ (c.todo = <<x>> => 0 \in DOMAIN F)

StepsOK(c, K, U, F) ==
  /\ c.found \subseteq DOMAIN F
  /\ c.kind = "idle" => c.todo = <<>>
  /\ StoreOK(c, K, U, F) /\ UtxoOK(c, F)

StoreInv ==
  StoreTypeOK /\ RowsTogether /\ \A p \in Program : StepsOK(storing[p], known, inUse, keyId)

LEMMA Rows == NRows \in Nat /\ Place = 0..NRows /\ 0 \in Place
  <1>1. Len(Inputs) \in Nat /\ Len(Outputs) \in Nat
    BY StoreAssumption, LenProperties
  <1> QED
    BY <1>1 DEF NRows, Place

LEMMA NoStoreOK == NoStore \in Calls /\ \A K, U, F : StepsOK(NoStore, K, U, F)
  <1>1. <<>> \in Seq(Place)
    BY EmptySeq
  <1> QED
    BY <1>1 DEF NoStore, Calls, StepsOK, StoreOK, UtxoOK

(* Rows only appear, and a row that is linked anew is linked to its key.     *)
Grows(K, U, F, K2, U2, F2) ==
  /\ K \subseteq K2 /\ U \subseteq U2 /\ DOMAIN F \subseteq DOMAIN F2
  /\ \A x \in DOMAIN F : F2[x] = F[x] \/ (x > 0 /\ F2[x] = AddressAt[x])

(* So what a call knows to be stored stays stored, whoever writes.           *)
LEMMA OthersStay ==
  ASSUME NEW c, NEW K, NEW U, NEW F, NEW K2, NEW U2, NEW F2,
         StepsOK(c, K, U, F), Grows(K, U, F, K2, U2, F2)
  PROVE  StepsOK(c, K2, U2, F2)
  <1>1. \A x : RowOK(x, c.had, U, F) => RowOK(x, c.had, U2, F2)
    BY DEF Grows, RowOK
  <1>2. StoreOK(c, K2, U2, F2)
    BY <1>1 DEF StepsOK, StoreOK, Grows
  <1>3. UtxoOK(c, F2)
    BY DEF StepsOK, UtxoOK, Grows
  <1> QED
    BY <1>2, <1>3 DEF StepsOK, Grows

(* A step of p that leaves its call as c.                                    *)
LEMMA CallChanges ==
  ASSUME StoreInv, NEW p \in Program, NEW c \in Calls, storing' = [storing EXCEPT ![p] = c],
         Grows(known, inUse, keyId, known', inUse', keyId'), StepsOK(c, known', inUse', keyId')
  PROVE  /\ storing' \in [Program -> Calls]
         /\ \A q \in Program : StepsOK(storing'[q], known', inUse', keyId')
  <1>1. storing' \in [Program -> Calls]
    BY DEF StoreInv, StoreTypeOK
  <1>2. ASSUME NEW q \in Program PROVE StepsOK(storing'[q], known', inUse', keyId')
    <2>1. CASE q = p
      BY <2>1 DEF StoreInv, StoreTypeOK
    <2>2. CASE q # p
      <3>1. storing'[q] = storing[q]
        BY <2>2 DEF StoreInv, StoreTypeOK
      <3>2. StepsOK(storing[q], known, inUse, keyId)
        BY DEF StoreInv
      <3>3. StepsOK(storing[q], known', inUse', keyId')
        BY <3>2, OthersStay
      <3> QED
        BY <3>1, <3>3
    <2> QED
      BY <2>1, <2>2
  <1> QED
    BY <1>1, <1>2

(* The steps that write no row.                                              *)
LEMMA NothingWritten ==
  ASSUME StoreInv, NEW p \in Program, NEW c \in Calls, storing' = [storing EXCEPT ![p] = c],
         UNCHANGED <<known, inUse, keyId>>, StepsOK(c, known, inUse, keyId)
  PROVE  StoreInv'
  <1>1. Grows(known, inUse, keyId, known', inUse', keyId')
    BY DEF Grows
  <1>2. StepsOK(c, known', inUse', keyId')
    OBVIOUS
  <1>3. /\ storing' \in [Program -> Calls]
        /\ \A q \in Program : StepsOK(storing'[q], known', inUse', keyId')
    BY <1>1, <1>2, CallChanges
  <1>4. known' \subseteq Key /\ keyId' = [x \in Stored' |-> keyId'[x]] /\ Stored' \subseteq Place
    BY DEF StoreInv, StoreTypeOK, Stored
  <1>5. RowsTogether'
    BY DEF StoreInv, RowsTogether, Stored
  <1> QED
    BY <1>3, <1>4, <1>5 DEF StoreInv, StoreTypeOK

LEMMA StoreKeeps ==
  ASSUME StoreInv, NEW p \in Program, Store(p)
  PROVE  StoreInv'
  <1> DEFINE q == [x \in 1..NRows + 1 |-> x - 1]
             c == [NoStore EXCEPT !.kind = "store", !.todo = q, !.had = known]
  <1>1. q \in Seq(Place) /\ Len(q) = NRows + 1
    BY Rows, IsASeq, LenProperties
  <1>2. InTurn(q)
    BY <1>1, Rows DEF InTurn
  <1> HIDE DEF q
  <1>3. c \in Calls /\ c.kind = "store" /\ c.at = "look" /\ c.todo = q /\ c.had = known /\ c.found = {}
    BY <1>1 DEF NoStore, Calls, StoreInv, StoreTypeOK
  <1>4. storing' = [storing EXCEPT ![p] = c] /\ UNCHANGED <<known, inUse, keyId>>
    BY DEF Store, q
  <1> HIDE DEF c
  <1>5. 0..(NRows - Len(c.todo)) = {}
    BY <1>1, <1>3, Rows
  <1>6. StepsOK(c, known, inUse, keyId)
    BY <1>2, <1>3, <1>5 DEF StepsOK, StoreOK, UtxoOK
  <1> QED
    BY <1>3, <1>4, <1>6, NothingWritten

LEMMA UtxoKeeps ==
  ASSUME StoreInv, NEW p \in Program, NEW x \in 1..NRows, Utxo(p, x)
  PROVE  StoreInv'
  <1> DEFINE c == [NoStore EXCEPT !.kind = "utxo", !.todo = UtxoRows(x), !.found = Stored,
                                  !.keys = known, !.at = "write"]
  <1>1. UtxoRows(x) = <<0, x>> /\ x \in Place /\ <<0, x>> \in Seq(Place)
    BY Rows DEF UtxoRows
  <1>2. c \in Calls /\ c.kind = "utxo" /\ c.todo = <<0, x>> /\ c.found = Stored
    BY <1>1 DEF NoStore, Calls, StoreInv, StoreTypeOK
  <1>3. storing' = [storing EXCEPT ![p] = c] /\ UNCHANGED <<known, inUse, keyId>>
    BY DEF Utxo
  <1> HIDE DEF c
  <1>4. <<0, x>> # <<x>>
    BY SMT
  <1>5. StepsOK(c, known, inUse, keyId)
    BY <1>1, <1>2, <1>4 DEF StepsOK, StoreOK, UtxoOK, Stored
  <1> QED
    BY <1>2, <1>3, <1>5, NothingWritten

LEMMA LookKeeps ==
  ASSUME StoreInv, NEW p \in Program, Look(p)
  PROVE  StoreInv'
  <1> DEFINE c == [storing[p] EXCEPT !.found = Stored, !.keys = known, !.at = "write"]
  <1>1. storing[p] \in Calls /\ StepsOK(storing[p], known, inUse, keyId) /\ known \subseteq Key
        /\ Stored \subseteq Place
    BY DEF StoreInv, StoreTypeOK
  <1>2. /\ c \in Calls /\ c.kind = storing[p].kind /\ c.todo = storing[p].todo
        /\ c.had = storing[p].had /\ c.found = Stored /\ c.keys = known
    BY <1>1 DEF Calls
  <1>3. storing' = [storing EXCEPT ![p] = c] /\ UNCHANGED <<known, inUse, keyId>>
    BY DEF Look, StoreInv, StoreTypeOK
  <1> HIDE DEF c
  <1>4. StepsOK(c, known, inUse, keyId)
    BY <1>1, <1>2 DEF StepsOK, StoreOK, UtxoOK, Stored
  <1> QED
    BY <1>2, <1>3, <1>4, NothingWritten

(* A call ends, or its program stops.                                        *)
LEMMA EndKeeps ==
  ASSUME StoreInv, NEW p \in Program, EndStore(p) \/ Stop(p)
  PROVE  StoreInv'
  <1>1. storing' = [storing EXCEPT ![p] = NoStore] /\ UNCHANGED <<known, inUse, keyId>>
    BY DEF EndStore, Stop
  <1> QED
    BY <1>1, NoStoreOK, NothingWritten

LEMMA AddKeyKeeps ==
  ASSUME StoreInv, NEW k \in Key, AddKey(k)
  PROVE  StoreInv'
  <1>1. Grows(known, inUse, keyId, known', inUse', keyId') /\ UNCHANGED <<inUse, keyId, storing>>
    BY DEF AddKey, Grows
  <1>2. ASSUME NEW q \in Program PROVE StepsOK(storing'[q], known', inUse', keyId')
    <2>1. StepsOK(storing[q], known, inUse, keyId)
      BY DEF StoreInv
    <2>2. StepsOK(storing[q], known', inUse', keyId')
      BY <1>1, <2>1, OthersStay
    <2> QED
      BY <1>1, <2>2
  <1>3. StoreTypeOK'
    BY <1>1 DEF AddKey, StoreInv, StoreTypeOK, Stored
  <1>4. RowsTogether'
    BY <1>1 DEF StoreInv, RowsTogether, Stored
  <1> QED
    BY <1>2, <1>3, <1>4 DEF StoreInv

(* What is left after the next place has been written.                       *)
LEMMA Next1 ==
  ASSUME NEW c \in Calls, c.todo # <<>>
  PROVE  /\ Head(c.todo) \in Place /\ Tail(c.todo) \in Seq(Place)
         /\ Len(c.todo) \in Nat /\ Len(c.todo) >= 1 /\ Len(Tail(c.todo)) = Len(c.todo) - 1
         /\ Head(c.todo) = c.todo[1] /\ \A j \in 1..Len(Tail(c.todo)) : Tail(c.todo)[j] = c.todo[j + 1]
  <1>1. c.todo \in Seq(Place)
    BY DEF Calls
  <1> QED
    BY <1>1, HeadTailProperties, LenProperties, EmptySeq

(* q without its first element is r.                                         *)
Rest(q, r, m) ==
  Len(q) = m /\ Len(r) = m - 1 /\ \A j \in 1..(m - 1) : r[j] = q[j + 1]

LEMMA RestInTurn ==
  ASSUME NEW q, NEW r, NEW m \in Nat, m >= 1, Rest(q, r, m), InTurn(q)
  PROVE  InTurn(r) /\ q[1] = NRows - m + 1
  <1> USE DEF Rest
  <1>1. m <= NRows + 1 /\ \A j \in 1..m : q[j] = NRows - m + j
    BY DEF InTurn
  <1>2. ASSUME NEW j \in 1..(m - 1) PROVE r[j] = NRows - (m - 1) + j
    <2>1. j + 1 \in 1..m
      OBVIOUS
    <2>2. r[j] = NRows - m + (j + 1)
      BY <1>1, <2>1
    <2> QED
      BY <2>2, Rows
  <1>3. m - 1 <= NRows + 1 /\ q[1] = NRows - m + 1
    BY <1>1, Rows
  <1> QED
    BY <1>2, <1>3 DEF InTurn

LEMMA WriteStore ==
  ASSUME StoreInv, NEW c \in Calls, c.kind = "store", c.todo # <<>>, c.at = "write",
         NEW K, NEW U, NEW F, StepsOK(c, K, U, F), 
         RowOK(Head(c.todo), c.had, U, F)
  PROVE  StepsOK(Onwards(c), K, U, F)
  <1> DEFINE d == Onwards(c)
             n == NRows - Len(c.todo)
  <1>1. /\ d.kind = "store" /\ d.todo = Tail(c.todo) /\ d.at = "look"
        /\ d.had = c.had /\ d.found = c.found
    BY DEF Onwards, Calls
  <1> HIDE DEF d
  <1>2. PICK q \in Seq(Place), r \in Seq(Place), m \in Nat :
             /\ q = c.todo /\ r = d.todo /\ m = Len(q) /\ m >= 1
             /\ Len(r) = m - 1 /\ Head(c.todo) = q[1]
             /\ \A j \in 1..(m - 1) : r[j] = q[j + 1]
    <2>1. c.todo \in Seq(Place)
      BY DEF Calls
    <2>2. /\ d.todo \in Seq(Place) /\ Len(c.todo) \in Nat /\ Len(c.todo) >= 1
          /\ Len(d.todo) = Len(c.todo) - 1 /\ Head(c.todo) = c.todo[1]
          /\ \A j \in 1..Len(d.todo) : d.todo[j] = c.todo[j + 1]
      BY <1>1, Next1
    <2> QED
      BY <2>1, <2>2
  <1>3. InTurn(q) /\ c.had \subseteq K /\ \A x \in 0..n : RowOK(x, c.had, U, F)
    BY <1>2 DEF StepsOK, StoreOK
  <1>4. InTurn(r) /\ q[1] = NRows - m + 1
    <2>1. m >= 1 /\ Rest(q, r, m)
      BY <1>2 DEF Rest
    <2> QED
      BY ONLY <1>3, <2>1, m \in Nat, RestInTurn
  <1>5. Head(c.todo) = n + 1 /\ NRows - Len(d.todo) = n + 1 /\ n \in Int
    <2>1. PICK k \in Nat : k = NRows
      BY Rows
    <2>2. Head(c.todo) = k - m + 1 /\ Len(c.todo) = m /\ Len(d.todo) = m - 1
      BY <1>2, <1>4, <2>1
    <2> QED
      BY <2>1, <2>2
  <1>6. \A x \in 0..(n + 1) : x \in 0..n \/ x = n + 1
    BY <1>5
  <1>7. \A x \in 0..(NRows - Len(d.todo)) : RowOK(x, c.had, U, F)
    BY <1>3, <1>5, <1>6
  <1>8. StoreOK(d, K, U, F)
    BY <1>1, <1>2, <1>3, <1>4, <1>7 DEF StoreOK
  <1>9. UtxoOK(d, F) /\ d.found \subseteq DOMAIN F
    BY <1>1 DEF UtxoOK, StepsOK
  <1>10. StepsOK(d, K, U, F)
    BY <1>1, <1>8, <1>9 DEF StepsOK
  <1> QED
    BY <1>10 DEF d

LEMMA WriteUtxo ==
  ASSUME NEW c \in Calls, c.kind = "utxo", c.todo # <<>>,
         NEW K, NEW U, NEW F, StepsOK(c, K, U, F), Head(c.todo) \in DOMAIN F
  PROVE  StepsOK(Onwards(c), K, U, F)
  <1> DEFINE d == Onwards(c)
  <1>1. d.kind = "utxo" /\ d.todo = Tail(c.todo) /\ d.found = c.found
    BY DEF Onwards, Calls
  <1> HIDE DEF d
  <1>2. PICK x \in Place : c.todo \in {<<x>>, <<0, x>>}
    BY DEF StepsOK, UtxoOK
  <1>3. CASE c.todo = <<x>>
    <2>1. d.todo = <<>> /\ <<>> # <<x>>
      BY <1>1, <1>3
    <2> QED
      BY <1>1, <2>1 DEF d, StepsOK, StoreOK, UtxoOK
  <1>4. CASE c.todo = <<0, x>>
    <2>1. d.todo = <<x>> /\ 0 \in DOMAIN F
      BY <1>1, <1>4
    <2> QED
      BY <1>1, <2>1 DEF d, StepsOK, StoreOK, UtxoOK
  <1> QED
    BY <1>2, <1>3, <1>4

LEMMA WriteKeeps ==
  ASSUME StoreInv, NEW p \in Program, Write(p)
  PROVE  StoreInv'
  <1> DEFINE c == storing[p]
             x == Head(c.todo)
             own == x > 0 /\ AddressAt[x] \in c.keys
             k == IF own THEN AddressAt[x] ELSE NoKey
             new == x \notin c.found
  <1>1. c \in Calls /\ StepsOK(c, known, inUse, keyId) /\ c.at = "write" /\ c.todo # <<>>
    BY DEF Write, StoreInv, StoreTypeOK
  <1>2. CASE new /\ x \in Stored
    <2>1. storing' = [storing EXCEPT ![p] = NoStore] /\ UNCHANGED <<known, inUse, keyId>>
      BY <1>2 DEF Write
    <2> QED
      BY <2>1, NoStoreOK, NothingWritten
  <1>3. CASE ~(new /\ x \in Stored)
    <2>1. /\ storing' = [storing EXCEPT ![p] = Onwards(c)]
          /\ inUse' = IF own THEN inUse \cup {k} ELSE inUse
          /\ keyId' = [y \in Stored \cup {x} |-> IF y = x /\ (new \/ own) THEN k ELSE keyId[y]]
          /\ known' = known
      BY <1>3, Zenon DEF Write
    <2>2. x \in Place /\ x \in Nat /\ c.found \subseteq Stored /\ Onwards(c) \in Calls
      <3>1. x \in Place /\ Tail(c.todo) \in Seq(Place)
        BY <1>1, Next1
      <3>2. Onwards(c) \in Calls
        BY <1>1, <3>1 DEF Onwards, Calls
      <3> QED
        BY <1>1, <3>1, <3>2, Rows DEF StepsOK, Stored
    <2> HIDE DEF c, x
    <2>3. DOMAIN keyId' = Stored \cup {x} /\ Stored' = Stored \cup {x}
      BY <2>1 DEF Stored
    <2>4. own => keyId'[x] = AddressAt[x] /\ AddressAt[x] \in inUse' /\ AddressAt[x] # NoKey
      <3>1. c.keys \subseteq Key
        BY <1>1 DEF Calls
      <3> QED
        BY <2>1, <3>1, StoreAssumption
    <2>5. Grows(known, inUse, keyId, known', inUse', keyId')
      <3>1. ASSUME NEW y \in Stored PROVE keyId'[y] = keyId[y] \/ (y > 0 /\ keyId'[y] = AddressAt[y])
        BY <1>3, <2>1, <2>4, <3>1
      <3> QED
        BY <2>1, <2>3, <3>1 DEF Grows, Stored
    <2>6. StepsOK(c, known', inUse', keyId')
      BY <1>1, <2>5, OthersStay
    <2>7. StepsOK(Onwards(c), known', inUse', keyId')
      <3>1. CASE c.kind = "store"
        <4>1. c.had \subseteq c.keys
          BY <1>1, <3>1 DEF StepsOK, StoreOK
        <4>2. RowOK(x, c.had, inUse', keyId')
          BY <2>3, <2>4, <4>1 DEF RowOK
        <4> QED
          BY <1>1, <2>6, <3>1, <4>2, WriteStore DEF x
      <3>2. CASE c.kind = "utxo"
        BY <1>1, <2>3, <2>6, <3>2, WriteUtxo DEF x
      <3>3. c.kind # "idle"
        BY <1>1 DEF StepsOK
      <3> QED
        BY <1>1, <3>1, <3>2, <3>3 DEF Calls
    <2>8. /\ storing' \in [Program -> Calls]
          /\ \A q \in Program : StepsOK(storing'[q], known', inUse', keyId')
      BY <2>1, <2>2, <2>5, <2>7, CallChanges
    <2>9. known' \subseteq Key /\ keyId' = [y \in Stored' |-> keyId'[y]] /\ Stored' \subseteq Place
      BY <2>1, <2>2, <2>3 DEF StoreInv, StoreTypeOK
    <2>10. 0 \in Stored'
      <3>1. CASE c.kind = "store"
        <4>1. InTurn(c.todo) /\ \A y \in 0..(NRows - Len(c.todo)) : y \in Stored
          BY <1>1, <3>1 DEF StepsOK, StoreOK, RowOK, Stored
        <4>2. x = NRows - Len(c.todo) + 1 /\ Len(c.todo) \in Nat
          BY <1>1, <4>1, Next1 DEF InTurn, x
        <4>3. x = 0 \/ 0 \in 0..(NRows - Len(c.todo))
          BY <2>2, <4>2, Rows
        <4> QED
          BY <2>3, <4>1, <4>3
      <3>2. CASE c.kind = "utxo"
        <4>1. PICK y \in Place : c.todo \in {<<y>>, <<0, y>>} /\ (c.todo = <<y>> => 0 \in Stored)
          BY <1>1, <3>2 DEF StepsOK, UtxoOK, Stored
        <4>2. c.todo = <<0, y>> => x = 0
          BY DEF x
        <4> QED
          BY <2>3, <4>1, <4>2
      <3>3. c.kind # "idle"
        BY <1>1 DEF StepsOK
      <3> QED
        BY <1>1, <3>1, <3>2, <3>3 DEF Calls
    <2>11. ASSUME NEW y \in Stored', keyId'[y] # NoKey PROVE keyId'[y] \in inUse'
      <3>1. CASE y = x /\ (new \/ own)
        BY <2>1, <2>3, <2>4, <2>11, <3>1
      <3>2. CASE ~(y = x /\ (new \/ own))
        <4>1. keyId'[y] = keyId[y] /\ y \in Stored
          BY <2>1, <2>2, <2>3, <3>2
        <4> QED
          BY <2>1, <2>11, <4>1 DEF StoreInv, RowsTogether
      <3> QED
        BY <3>1, <3>2
    <2>12. RowsTogether'
      BY <2>10, <2>11 DEF RowsTogether
    <2> QED
      BY <2>8, <2>9, <2>12 DEF StoreInv, StoreTypeOK
  <1> QED
    BY <1>2, <1>3

LEMMA StoreStarts == StoreInit => StoreInv
  <1> SUFFICES ASSUME StoreInit PROVE StoreInv
    OBVIOUS
  <1>1. Stored = {}
    BY DEF StoreInit, Stored
  <1> QED
    BY <1>1, NoStoreOK DEF StoreInit, StoreInv, StoreTypeOK, RowsTogether

LEMMA StoreStep == StoreInv /\ [StoreNext]_storage => StoreInv'
  <1> SUFFICES ASSUME StoreInv, [StoreNext]_storage PROVE StoreInv'
    OBVIOUS
  <1>1. CASE UNCHANGED storage
    BY <1>1 DEF storage, StoreInv, StoreTypeOK, RowsTogether, Stored
  <1>2. ASSUME NEW p \in Program, Store(p) \/ Look(p) \/ Write(p) \/ EndStore(p) \/ Stop(p)
        PROVE  StoreInv'
    BY <1>2, StoreKeeps, LookKeeps, WriteKeeps, EndKeeps
  <1> QED
    BY <1>1, <1>2, UtxoKeeps, AddKeyKeeps DEF StoreNext

(* When store() returns, the transaction is stored as a whole and linked to  *)
(* the keys the wallet had, and no part of it is ever stored without its     *)
(* transaction or for a key that counts as unused: for any number of inputs, *)
(* outputs and programs that store it at the same time, add keys, or stop    *)
(* between any two of their commits.                                         *)
THEOREM StoredCorrect == StoreSpec => []StoredWhole
  <1>1. StoreInv => StoredWhole
    <2> SUFFICES ASSUME StoreInv, NEW p \in Program, storing[p].kind = "store", storing[p].todo = <<>>
                 PROVE  /\ Stored = Place
                        /\ \A x \in 1..NRows : AddressAt[x] \in storing[p].had
                             => keyId[x] = AddressAt[x] /\ AddressAt[x] \in inUse
      BY DEF StoredWhole, StoreComplete, StoreInv
    <2>1. Len(storing[p].todo) = 0
      BY SMT
    <2>2. \A x \in 0..NRows : RowOK(x, storing[p].had, inUse, keyId)
      BY <2>1, Rows DEF StoreInv, StepsOK, StoreOK
    <2> QED
      BY <2>2, Rows DEF RowOK, StoreInv, StoreTypeOK, Stored
  <1> QED
    BY <1>1, StoreStarts, StoreStep, PTL DEF StoreSpec
=============================================================================
