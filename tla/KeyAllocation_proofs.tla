------------------------ MODULE KeyAllocation_proofs ------------------------
(* Theorems about KeyAllocation, for any number of sessions, accounts,      *)
(* transactions and keys asked for.                                         *)
EXTENDS KeyAllocation, SetLemmas

(* The first n of n or more rows are n rows.                                *)
LEMMA FirstOfSize ==
  ASSUME NEW S, IsFiniteSet(S), NEW n \in Nat, n <= Cardinality(S),
         \A a \in S : id[a] \in Nat, \A a, b \in S : id[a] = id[b] => a = b
  PROVE  Cardinality(FirstOf(S, n)) = n
  <1> DEFINE T == 0..(n - 1)
             g == [a \in FirstOf(S, n) |-> Rank(S, id)[a]]
  <1>1. /\ Rank(S, id) \in Injection(S, 0..(Cardinality(S) - 1))
        /\ Rank(S, id) \in Surjection(S, 0..(Cardinality(S) - 1))
    BY RankIsBijection
  <1>2. Cardinality(S) \in Nat
    BY FS_CardinalityType
  <1>3. FirstOf(S, n) = {a \in S : Rank(S, id)[a] < n}
    BY DEF FirstOf, Rank, Lesser
  <1>4. g \in [FirstOf(S, n) -> T]
    BY <1>1, <1>2, <1>3, Fun_InjectionProperties
  <1>5. \A a, b \in FirstOf(S, n) : g[a] = g[b] => a = b
    BY <1>1, <1>3, Fun_InjectionProperties
  <1>6. \A t \in T : \E a \in FirstOf(S, n) : g[a] = t
    <2> SUFFICES ASSUME NEW t \in T
                 PROVE  \E a \in FirstOf(S, n) : g[a] = t
      OBVIOUS
    <2>1. PICK a \in S : Rank(S, id)[a] = t
      BY <1>1, <1>2 DEF Surjection
    <2>2. a \in FirstOf(S, n)
      BY <1>3, <2>1
    <2> QED
      BY <2>1, <2>2
  <1> HIDE DEF g
  <1>7. g \in Injection(FirstOf(S, n), T)
    BY <1>4, <1>5, Fun_IsInj
  <1>8. g \in Surjection(FirstOf(S, n), T)
    BY <1>4, <1>6, Fun_IsSurj
  <1>9. IsFiniteSet(T) /\ Cardinality(T) = n
    BY FS_Interval
  <1> QED
    BY <1>7, <1>8, <1>9, FS_Injection

-----------------------------------------------------------------------------
(* Places, rows, and what is the highest of them.                            *)

LEMMA AddressFinite ==
  IsFiniteSet(Address) /\ \A a \in Address : a = <<a[1], a[2]>> /\ a[1] \in Chain /\ a[2] \in Nat
  <1>1. IsFiniteSet({0, 1})
    <2>1. {0, 1} = {0} \cup {1}
      OBVIOUS
    <2>2. IsFiniteSet({0})
      BY FS_Singleton
    <2>3. IsFiniteSet({0} \cup {1})
      BY <2>2, FS_AddElement
    <2> QED
      BY <2>1, <2>3
  <1>2. IsFiniteSet(Chain)
    BY <1>1, AllocationAssumption, FS_Product DEF Chain
  <1>3. MaxIndex + Gap \in Nat
    BY AllocationAssumption
  <1>4. IsFiniteSet(0..(MaxIndex + Gap))
    BY <1>3, FS_Interval
  <1>5. IsFiniteSet(Address)
    BY <1>2, <1>4, FS_Product DEF Address
  <1> QED
    BY <1>3, <1>5 DEF Address

LEMMA PlaceInAddress ==
  ASSUME NEW c \in Chain, NEW i \in Nat, i <= MaxIndex + Gap
  PROVE  <<c, i>> \in Address
  BY AllocationAssumption DEF Address

(* No id is higher than the one func.max() finds.                           *)
LEMMA LastIdIsLast ==
  ASSUME id \in [Address -> Nat]
  PROVE  LastId \in Nat /\ \A a \in Address : id[a] <= LastId
  <1> DEFINE S == {id[a] : a \in Address}
  <1>1. id \in Surjection(Address, S)
    BY Fun_IsSurj
  <1>2. IsFiniteSet(S)
    BY <1>1, AddressFinite, FS_Surjection
  <1>3. S \in SUBSET Nat
    OBVIOUS
  <1>4. <<<<0, 0>>, 0>> \in Address
    BY AllocationAssumption, PlaceInAddress DEF Chain
  <1>5. S # {}
    BY <1>4
  <1>6. Max(S) \in S /\ \A x \in S : x <= Max(S)
    <2> HIDE DEF S
    <2> QED
      BY <1>2, <1>3, <1>5, MaxIsLargest
  <1>7. LastId = Max(S)
    BY DEF LastId
  <1> HIDE DEF S
  <1>8. \A a \in Address : id[a] \in S
    BY DEF S
  <1> QED
    BY <1>3, <1>6, <1>7, <1>8

LEMMA KeysFinite ==
  ASSUME NEW c
  PROVE  IsFiniteSet(Keys(c)) /\ Keys(c) \subseteq Row /\ Row \subseteq Address /\ IsFiniteSet(Row)
  <1>1. Row \in SUBSET Address /\ Keys(c) \in SUBSET Address
    BY DEF Row, Keys
  <1> QED
    BY <1>1, AddressFinite, FS_Subset DEF Keys

(* The next index is above those of all rows, right after one of them.      *)
LEMMA NextIndexIsNext ==
  ASSUME NEW c \in Chain
  PROVE  /\ NextIndex(c) \in Nat
         /\ \A a \in Keys(c) : a[2] < NextIndex(c)
         /\ NextIndex(c) = 0 \/ <<c, NextIndex(c) - 1>> \in Row
  <1> DEFINE S == {a[2] : a \in Keys(c)}
  <1>1. \A a \in Keys(c) : a \in Address /\ a \in Row /\ a[1] = c
    BY DEF Keys, Row
  <1>2. S \in SUBSET (0..(MaxIndex + Gap)) /\ S \in SUBSET Nat
    BY <1>1, AllocationAssumption DEF Address
  <1>3. IsFiniteSet(S)
    <2>1. IsFiniteSet(0..(MaxIndex + Gap))
      BY AllocationAssumption, FS_Interval
    <2> HIDE DEF S
    <2> QED
      BY <1>2, <2>1, FS_Subset
  <1>4. CASE Keys(c) = {}
    BY <1>4 DEF NextIndex
  <1>5. CASE Keys(c) # {}
    <2>1. S # {}
      BY <1>5
    <2>2. NextIndex(c) = Max(S) + 1
      BY <1>5 DEF NextIndex
    <2>3. \A a \in Keys(c) : a[2] \in S
      OBVIOUS
    <2>4. Max(S) \in S /\ \A x \in S : x <= Max(S)
      <3> HIDE DEF S
      <3> QED
        BY <1>2, <1>3, <2>1, MaxIsLargest
    <2>5. PICK a \in Keys(c) : Max(S) = a[2]
      BY <2>4
    <2>6. a = <<c, Max(S)>> /\ Max(S) \in Nat
      BY <1>1, <2>5, AddressFinite
    <2> HIDE DEF S
    <2>7. \A x \in Keys(c) : x[2] \in Nat /\ x[2] <= Max(S)
      BY <1>2, <2>3, <2>4
    <2>8. NextIndex(c) - 1 = Max(S) /\ a \in Row
      BY <1>1, <2>2, <2>6
    <2> QED
      BY <2>2, <2>6, <2>7, <2>8
  <1> QED
    BY <1>4, <1>5

(* No key in use has a higher id than last_used_key_id.                     *)
LEMMA LastUsedIsLast ==
  ASSUME id \in [Address -> Nat], NEW c \in Chain
  PROVE  /\ LastUsedId(c) \in Nat /\ \A a \in Keys(c) \cap used : id[a] <= LastUsedId(c)
         /\ LastUsedId(c) = 0 \/ \E a \in Address : LastUsedId(c) = id[a]
  <1> DEFINE S == {id[a] : a \in Keys(c) \cap used}
             T == S \cup {0}
             f == [a \in Keys(c) \cap used |-> id[a]]
  <1>1. IsFiniteSet(Keys(c) \cap used) /\ Keys(c) \cap used \subseteq Address
    BY KeysFinite, FS_Intersection
  <1>2. f \in Surjection(Keys(c) \cap used, S)
    BY Fun_IsSurj
  <1>3. IsFiniteSet(S)
    <2> HIDE DEF f, S
    <2> QED
      BY <1>1, <1>2, FS_Surjection
  <1>4. IsFiniteSet(T)
    BY <1>3, FS_AddElement
  <1>5. T \in SUBSET Nat /\ T # {}
    BY <1>1
  <1>6. Max(T) \in T /\ \A x \in T : x <= Max(T)
    <2> HIDE DEF T
    <2> QED
      BY <1>4, <1>5, MaxIsLargest
  <1>7. LastUsedId(c) = Max(T)
    BY DEF LastUsedId
  <1>8. \A a \in Keys(c) \cap used : id[a] \in T
    OBVIOUS
  <1>9. \A x \in T : x = 0 \/ \E a \in Address : x = id[a]
    BY <1>1
  <1> HIDE DEF T
  <1> QED
    BY <1>5, <1>6, <1>7, <1>8, <1>9

-----------------------------------------------------------------------------
(* The inductive invariant: what the rows of a chain have in common, and    *)
(* what a call that is in progress knows of them.                           *)

(* No key that breaks the order of its chain lies between two places.       *)
Free(c, j, i) == \A e \in explicit \cup late : e[1] = c => ~(j < e[2] /\ e[2] < i)

(* Below a place there are keys, down to one that breaks the order,         *)
Below(c, i) == \A j \in 0..(i - 1) : Free(c, j, i) => <<c, j>> \in Row

(* and they have smaller ids than n.                                        *)
Lower(c, i, n) == \A j \in 0..(i - 1) : Free(c, j, i) => <<c, j>> \in Row /\ id[<<c, j>>] < n

IdsUnique == \A a, b \in Row : id[a] = id[b] => a = b

Filled == \A a \in Row \ explicit : Below(a[1], a[2])

Ordered == \A a, b \in InTurn : Follows(b, a) => id[a] < id[b]

KeysInv == IdsUnique /\ Filled /\ Ordered

KnowsIndex(k) ==
  /\ \A a \in k.got : a \in Keys(k.chain) /\ a[2] < k.index
  /\ Cardinality(k.got) < k.ask
  /\ k.index + Missing(k) <= MaxIndex + 1
  /\ Below(k.chain, k.index)

KnowsFirst(k) ==
  /\ \A a \in k.got : a \in Keys(k.chain) /\ a[2] <= k.index
  /\ First(k) \in k.got
  /\ Cardinality(k.got) < k.ask
  /\ k.index + Missing(k) <= MaxIndex

(* What a call has found, or counted out, is still there.                   *)
Knows(k) ==
  /\ k.phase = "need" => k.got \subseteq Keys(k.chain) /\ Cardinality(k.got) <= k.ask
  /\ k.phase = "lookup" => KnowsIndex(k)
  /\ k.phase = "insert" => KnowsIndex(k) /\ Lower(k.chain, k.index, k.new) /\ k.new > 0
  /\ k.phase = "bulk" => KnowsFirst(k)
  /\ k.phase = "add" => KnowsFirst(k) /\ Lower(k.chain, k.index + 1, k.new) /\ k.new > 0
  /\ k.phase = "done" => k.got \subseteq Row /\ Cardinality(k.got) = k.ask

IInv == TypeOK /\ KeysInv /\ \A s \in Session : Knows(call[s])

CallRecord ==
  [phase : {"idle", "need", "lookup", "insert", "bulk", "add", "done", "failed"},
   chain : Chain, ask : Nat, got : SUBSET Address, index : Nat, new : Nat]

(* Rows stay, with their ids, and what breaks the order goes on breaking it.*)
Kept ==
  /\ Row \subseteq Row' /\ \A a \in Row : id'[a] = id[a]
  /\ explicit \subseteq explicit' /\ late \subseteq late'

(* Above a key everything is filled, too.                                   *)
LEMMA BelowNext ==
  ASSUME TypeOK, Filled, NEW c \in Chain, NEW i \in Nat, i = 0 \/ <<c, i - 1>> \in Row
  PROVE  Below(c, i)
  <1> SUFFICES ASSUME NEW j \in 0..(i - 1), Free(c, j, i), j # i - 1
               PROVE  <<c, j>> \in Row
    BY DEF Below
  <1>1. <<c, i - 1>> \in Row
    OBVIOUS
  <1>2. <<c, i - 1>> \notin explicit
    BY DEF Free
  <1>3. Below(c, i - 1)
    BY <1>1, <1>2 DEF Filled
  <1>4. Free(c, j, i - 1)
    <2> SUFFICES ASSUME NEW e \in explicit \cup late, e[1] = c, j < e[2], e[2] < i - 1
                 PROVE  FALSE
      BY DEF Free
    <2>1. e[2] \in Nat
      BY AddressFinite DEF TypeOK, Row
    <2> QED
      BY <2>1 DEF Free
  <1>5. j \in 0..((i - 1) - 1)
    OBVIOUS
  <1> QED
    BY <1>3, <1>4, <1>5 DEF Below

LEMMA BelowLower ==
  ASSUME TypeOK, NEW c \in Chain, NEW i \in Nat, Below(c, i)
  PROVE  Lower(c, i, LastId + 1)
  <1> SUFFICES ASSUME NEW j \in 0..(i - 1), Free(c, j, i)
               PROVE  <<c, j>> \in Row /\ id[<<c, j>>] < LastId + 1
    BY DEF Lower
  <1>1. <<c, j>> \in Row /\ <<c, j>> \in Address
    BY DEF Below, Row
  <1>2. LastId \in Nat /\ id[<<c, j>>] \in Nat /\ id[<<c, j>>] <= LastId
    BY <1>1, LastIdIsLast DEF TypeOK
  <1> QED
    BY <1>1, <1>2

LEMMA KeptFree ==
  ASSUME Kept, NEW c, NEW j, NEW i, Free(c, j, i)'
  PROVE  Free(c, j, i)
  BY DEF Kept, Free

LEMMA KeptBelow ==
  ASSUME Kept, NEW c, NEW i, Below(c, i)
  PROVE  Below(c, i)'
  <1> SUFFICES ASSUME NEW j \in 0..(i - 1), Free(c, j, i)'
               PROVE  <<c, j>> \in Row'
    BY DEF Below
  <1>1. Free(c, j, i)
    BY KeptFree
  <1> QED
    BY <1>1 DEF Below, Kept

LEMMA KeptLower ==
  ASSUME Kept, NEW c, NEW i, NEW n, Lower(c, i, n)
  PROVE  Lower(c, i, n)'
  <1> SUFFICES ASSUME NEW j \in 0..(i - 1), Free(c, j, i)'
               PROVE  <<c, j>> \in Row' /\ id'[<<c, j>>] < n
    BY DEF Lower
  <1>1. Free(c, j, i)
    BY KeptFree
  <1> QED
    BY <1>1 DEF Lower, Kept

(* Whatever other calls insert, what a call knows stays true.               *)
LEMMA KeptKnows ==
  ASSUME Kept, NEW k, Knows(k)
  PROVE  Knows(k)'
  <1>1. \A c : Keys(c) \subseteq Keys(c)'
    BY DEF Kept, Keys
  <1>2. KnowsIndex(k) => KnowsIndex(k)'
    BY <1>1, KeptBelow DEF KnowsIndex, Missing
  <1>3. KnowsFirst(k) => KnowsFirst(k)'
    BY <1>1 DEF KnowsFirst, Missing, First
  <1>4. \A c, i, n : Lower(c, i, n) => Lower(c, i, n)'
    BY KeptLower
  <1>5. Row \subseteq Row'
    BY DEF Kept
  <1> QED
    BY <1>1, <1>2, <1>3, <1>4, <1>5 DEF Knows

-----------------------------------------------------------------------------
(* Inserting keys: the next m places of a chain, with ids counted from f.   *)

Places(c, i, m) == {<<c, j>> : j \in i..(i + m - 1)}

LEMMA InsertedRows ==
  ASSUME TypeOK, NEW N, DOMAIN N \subseteq Address, \A a \in DOMAIN N : a \notin Row /\ N[a] \in Nat \ {0},
         id' = Inserted(N)
  PROVE  /\ id' \in [Address -> Nat]
         /\ Row' = Row \cup DOMAIN N
         /\ \A a \in Row : id'[a] = id[a]
         /\ \A a \in DOMAIN N : id'[a] = N[a]
  <1>1. \A a \in Address : id'[a] = IF a \in DOMAIN N THEN N[a] ELSE id[a]
    BY DEF Inserted
  <1>2. id' \in [Address -> Nat]
    BY DEF Inserted, TypeOK
  <1>3. \A a \in Row : id'[a] = id[a]
    BY <1>1 DEF Row
  <1>4. \A a \in DOMAIN N : id'[a] = N[a]
    BY <1>1
  <1>5. \A a \in Address : id'[a] > 0 <=> a \in Row \cup DOMAIN N
    <2> SUFFICES ASSUME NEW a \in Address
                 PROVE  id'[a] > 0 <=> a \in Row \cup DOMAIN N
      OBVIOUS
    <2>1. CASE a \in DOMAIN N
      BY <1>4, <2>1
    <2>2. CASE a \notin DOMAIN N
      BY <1>1, <2>2 DEF Row
    <2> QED
      BY <2>1, <2>2
  <1>6. Row' = Row \cup DOMAIN N
    BY <1>5 DEF Row
  <1> QED
    BY <1>2, <1>3, <1>4, <1>6

(* The key of a set of places is known by its index.                        *)
LEMMA PlaceIs ==
  ASSUME NEW c \in Chain, NEW i \in Nat, NEW m \in Nat, NEW a \in Places(c, i, m)
  PROVE  a = <<c, a[2]>> /\ a[2] \in i..(i + m - 1) /\ a[2] \in Nat
  BY DEF Places

(* Keys inserted above the filled part of a chain leave it filled, ids stay *)
(* unique, and the order is kept by the keys that do not count as late.     *)
LEMMA InsertKeys ==
  ASSUME TypeOK, KeysInv, NEW c \in Chain, NEW i \in Nat, NEW m \in Nat,
         NEW f \in Nat \ {0}, NEW g \in Nat, g <= f, Lower(c, i, g),
         NEW N, DOMAIN N = Places(c, i, m) \ Row, Places(c, i, m) \subseteq Address,
         \A a \in DOMAIN N : N[a] = f + a[2] - i,
         Insertable(N), id' = Inserted(N), explicit' = explicit,
         late' = IF DOMAIN N = Places(c, i, m) THEN late ELSE late \cup DOMAIN N
  PROVE  /\ KeysInv' /\ Kept
         /\ id' \in [Address -> Nat] /\ Row' = Row \cup Places(c, i, m)
  <1> DEFINE P == Places(c, i, m)
             D == DOMAIN N
  <1>1. \A a \in D : /\ a \in P /\ a \notin Row /\ a \in Address
                     /\ a = <<c, a[2]>> /\ a[2] \in i..(i + m - 1)
                     /\ N[a] \in Nat \ {0} /\ N[a] >= f
    <2> SUFFICES ASSUME NEW a \in D
                 PROVE  /\ a \in P /\ a \notin Row /\ a \in Address
                        /\ a = <<c, a[2]>> /\ a[2] \in i..(i + m - 1)
                        /\ N[a] \in Nat \ {0} /\ N[a] >= f
      OBVIOUS
    <2>1. a \in P /\ a \notin Row /\ a \in Address
      OBVIOUS
    <2>2. a = <<c, a[2]>> /\ a[2] \in i..(i + m - 1)
      BY <2>1, PlaceIs
    <2>3. N[a] = f + a[2] - i
      OBVIOUS
    <2> QED
      BY <2>1, <2>2, <2>3
  <1>2. /\ id' \in [Address -> Nat]
        /\ Row' = Row \cup D
        /\ \A a \in Row : id'[a] = id[a]
        /\ \A a \in D : id'[a] = N[a]
    BY <1>1, InsertedRows
  <1>3. Kept
    BY <1>2 DEF Kept
  <1>4. Row' = Row \cup P
    BY <1>2
  <1>5. explicit \cup late \subseteq Row /\ \A a \in Row : a \in Address /\ a = <<a[1], a[2]>> /\ a[2] \in Nat
    BY AddressFinite DEF TypeOK, Row
  <1>6. IdsUnique'
    <2> SUFFICES ASSUME NEW a \in Row', NEW b \in Row', id'[a] = id'[b]
                 PROVE  a = b
      BY DEF IdsUnique
    <2>1. CASE a \in Row /\ b \in Row
      BY <1>2, <2>1 DEF KeysInv, IdsUnique
    <2>2. CASE a \in D /\ b \in Row
      BY <1>2, <2>2 DEF Insertable
    <2>3. CASE a \in Row /\ b \in D
      BY <1>2, <2>3 DEF Insertable
    <2>4. CASE a \in D /\ b \in D
      <3>1. f + a[2] - i = f + b[2] - i
        BY <1>2, <2>4
      <3>2. a[2] = b[2]
        BY <1>1, <2>4, <3>1
      <3> QED
        BY <1>1, <2>4, <3>2
    <2> QED
      BY <1>2, <2>1, <2>2, <2>3, <2>4
  <1>7. Filled'
    <2> SUFFICES ASSUME NEW a \in Row' \ explicit'
                 PROVE  Below(a[1], a[2])'
      BY DEF Filled
    <2>1. CASE a \in Row
      BY <1>3, <2>1, KeptBelow DEF KeysInv, Filled
    <2>2. CASE a \in D
      <3> SUFFICES ASSUME NEW j \in 0..(a[2] - 1), Free(c, j, a[2])'
                   PROVE  <<c, j>> \in Row'
        BY <1>1, <2>2 DEF Below
      <3>1. a[2] \in i..(i + m - 1)
        BY <1>1, <2>2
      <3>2. CASE j >= i
        BY <1>4, <3>1, <3>2 DEF Places
      <3>3. CASE j < i
        <4>1. Free(c, j, i)
          <5> SUFFICES ASSUME NEW e \in explicit \cup late, e[1] = c, j < e[2], e[2] < i
                       PROVE  FALSE
            BY DEF Free
          <5>1. e[2] \in Nat /\ e[2] < a[2]
            BY <1>5, <3>1
          <5>2. e \in explicit' \cup late'
            BY <1>3 DEF Kept
          <5> QED
            BY <5>1, <5>2 DEF Free
        <4>2. j \in 0..(i - 1)
          BY <3>3
        <4> QED
          BY <1>2, <4>1, <4>2 DEF Lower
      <3> QED
        BY <3>1, <3>2, <3>3
    <2> QED
      BY <1>2, <2>1, <2>2
  <1>8. Ordered'
    <2> SUFFICES ASSUME NEW a \in InTurn', NEW b \in InTurn', Follows(b, a)'
                 PROVE  id'[a] < id'[b]
      BY DEF Ordered
    <2>1. a \in Row' /\ b \in Row' /\ a[1] = b[1] /\ a[2] < b[2] /\ Between(a, b)' = {}
      BY DEF InTurn, Follows
    <2>2. Between(a, b) \subseteq Between(a, b)'
      BY <1>3 DEF Between, Kept
    <2>3. Free(a[1], a[2], b[2])
      BY <2>1, <2>2 DEF Between, Free
    <2>4. CASE a \in Row /\ b \in Row
      <3>1. a \in InTurn /\ b \in InTurn
        BY <1>3, <2>4 DEF InTurn, Kept
      <3>2. Follows(b, a)
        BY <2>1, <2>2 DEF Follows
      <3> QED
        BY <1>2, <2>4, <3>1, <3>2 DEF KeysInv, Ordered
    <2>5. CASE a \in D \/ b \in D
      <3>1. D = P
        BY <2>5 DEF InTurn
      <3>2. CASE a \in Row /\ b \in D
        <4>1. a[1] = c /\ a = <<c, a[2]>> /\ a[2] \in Nat
          BY <1>1, <1>5, <2>1, <3>2
        <4>2. b[2] \in i..(i + m - 1) /\ N[b] \in Nat /\ N[b] >= f
          BY <1>1, <3>2
        <4>3. a \notin P
          BY <3>1, <3>2, <1>1
        <4>4. a[2] < i
          BY <2>1, <4>1, <4>2, <4>3 DEF Places
        <4>5. Free(c, a[2], i)
          <5> SUFFICES ASSUME NEW e \in explicit \cup late, e[1] = c, a[2] < e[2], e[2] < i
                       PROVE  FALSE
            BY DEF Free
          <5>1. e[2] \in Nat /\ e[2] < b[2]
            BY <1>5, <4>2
          <5> QED
            BY <2>3, <4>1, <5>1 DEF Free
        <4>6. id[a] < g
          BY <4>1, <4>4, <4>5 DEF Lower
        <4>7. id[a] \in Nat
          BY <1>5, <3>2 DEF TypeOK
        <4> QED
          BY <1>2, <3>2, <4>2, <4>6, <4>7
      <3>3. CASE a \in D /\ b \in Row
        <4>1. a = <<c, a[2]>> /\ b[1] = c /\ a[2] \in Nat /\ b[2] \in Nat
          BY <1>1, <1>5, <2>1, <3>3
        <4>2. b \in Row \ explicit
          BY <3>3 DEF InTurn
        <4>3. Below(c, b[2])
          BY <4>1, <4>2 DEF KeysInv, Filled
        <4>4. a \in Row
          BY <2>1, <2>3, <4>1, <4>3 DEF Below
        <4> QED
          BY <1>1, <3>3, <4>4
      <3>4. CASE a \in D /\ b \in D
        <4>1. a[2] \in Nat /\ b[2] \in Nat
          BY <1>1, <3>4
        <4>2. id'[a] = f + a[2] - i /\ id'[b] = f + b[2] - i
          BY <1>2, <3>4
        <4> QED
          BY <2>1, <4>1, <4>2
      <3> QED
        BY <1>2, <2>1, <2>5, <3>2, <3>3, <3>4
    <2> QED
      BY <1>2, <2>1, <2>4, <2>5
  <1> QED
    BY <1>2, <1>3, <1>4, <1>6, <1>7, <1>8 DEF KeysInv

-----------------------------------------------------------------------------
(* Every step preserves the invariant.                                      *)

LEMMA SameKeys ==
  ASSUME KeysInv, UNCHANGED <<id, explicit, late>>
  PROVE  KeysInv' /\ Kept /\ Row' = Row
  <1>1. Row' = Row
    BY DEF Row
  <1>2. Kept
    BY <1>1 DEF Kept
  <1>3. InTurn' = InTurn /\ \A a, b : Follows(b, a)' <=> Follows(b, a)
    BY <1>1 DEF InTurn, Follows, Between
  <1>4. IdsUnique' /\ Ordered'
    BY <1>1, <1>3 DEF KeysInv, IdsUnique, Ordered
  <1>5. Filled'
    BY <1>1, <1>2, KeptBelow DEF KeysInv, Filled
  <1> QED
    BY <1>1, <1>2, <1>4, <1>5 DEF KeysInv

(* The others know what they knew.                                          *)
LEMMA StepKeeps ==
  ASSUME IInv, TypeOK', KeysInv', Kept,
         \A t \in Session : call'[t] = call[t] \/ \E k \in CallRecord : call'[t] = k /\ Knows(k)'
  PROVE  IInv'
  <1> SUFFICES ASSUME NEW t \in Session
               PROVE  Knows(call[t])'
    BY DEF IInv
  <1>1. \E k \in CallRecord : call'[t] = k /\ Knows(k)'
    <2>1. CASE call'[t] = call[t]
      <3>1. PICK k \in CallRecord : k = call[t]
        BY DEF IInv, TypeOK, CallRecord
      <3>2. Knows(k)
        BY <3>1 DEF IInv
      <3>3. Knows(k)'
        BY <3>2, KeptKnows
      <3> QED
        BY <2>1, <3>1, <3>3
    <2> QED
      BY <2>1
  <1>2. PICK k \in CallRecord : call'[t] = k /\ Knows(k)'
    BY <1>1
  <1> QED
    BY <1>2

LEMMA CallStep ==
  ASSUME IInv, KeysInv', Kept, id' \in [Address -> Nat], late' \subseteq Row',
         NEW s \in Session, NEW k \in CallRecord, call' = [call EXCEPT ![s] = k], Knows(k)',
         UNCHANGED <<used, touches, seen, scan, explicit>>
  PROVE  IInv'
  <1>1. call \in [Session -> CallRecord]
    BY DEF IInv, TypeOK, CallRecord
  <1>2. call' \in [Session -> CallRecord]
    BY <1>1
  <1>3. TypeOK'
    BY <1>2 DEF IInv, TypeOK, CallRecord, Kept
  <1>4. \A t \in Session : call'[t] = call[t] \/ call'[t] = k
    BY <1>1
  <1>5. \A t \in Session : call'[t] = call[t] \/ \E h \in CallRecord : call'[t] = h /\ Knows(h)'
    BY <1>4
  <1> QED
    BY <1>3, <1>5, StepKeeps

LEMMA OnlyCall ==
  ASSUME IInv, NEW s \in Session, NEW k \in CallRecord, call' = [call EXCEPT ![s] = k], Knows(k),
         UNCHANGED <<id, used, touches, seen, scan, explicit, late>>
  PROVE  IInv'
  <1>1. KeysInv' /\ Kept /\ Row' = Row
    BY SameKeys DEF IInv
  <1>2. Knows(k)'
    BY <1>1, KeptKnows
  <1>3. id' \in [Address -> Nat] /\ late' \subseteq Row'
    BY <1>1 DEF IInv, TypeOK
  <1> QED
    BY <1>1, <1>2, <1>3, CallStep

LEMMA CallTypes ==
  ASSUME TypeOK, NEW s \in Session
  PROVE  call[s] \in CallRecord /\ call \in [Session -> CallRecord]
  BY DEF TypeOK, CallRecord

LEMMA GotFinite ==
  ASSUME NEW k \in CallRecord
  PROVE  IsFiniteSet(k.got) /\ Cardinality(k.got) \in Nat
  <1>1. k.got \in SUBSET Address
    BY DEF CallRecord
  <1> QED
    BY <1>1, AddressFinite, FS_Subset, FS_CardinalityType

LEMMA NoCallType == NoCall \in CallRecord /\ Knows(NoCall)
  <1>1. <<0, 0>> \in Chain
    BY AllocationAssumption DEF Chain
  <1> QED
    BY <1>1 DEF NoCall, CallRecord, Knows

(* A call begins: get_keys() may find enough keys.                          *)
LEMMA BeginStep ==
  ASSUME IInv, NEW s \in Session, NEW c \in Chain, NEW n \in 1..MaxAsk,
         NewKeys(s, c, n) \/ GetKeys(s, c, n)
  PROVE  IInv'
  <1>1. n \in Nat
    BY AllocationAssumption
  <1>2. Unused(c) \subseteq Keys(c) /\ Unused(c) \subseteq Address
    BY KeysFinite DEF Unused
  <1>3. IsFiniteSet(Unused(c)) /\ Cardinality(Unused(c)) \in Nat
    BY <1>2, AddressFinite, FS_Subset, FS_CardinalityType
  <1>4. ASSUME NEW S \in SUBSET Address, NEW p \in {"need", "done"}
        PROVE  /\ Wanted(c, n, S, p) \in CallRecord
               /\ Wanted(c, n, S, p).phase = p /\ Wanted(c, n, S, p).chain = c
               /\ Wanted(c, n, S, p).got = S /\ Wanted(c, n, S, p).ask = n
    BY <1>1, NoCallType DEF Wanted, NoCall, CallRecord
  <1>5. CASE NewKeys(s, c, n)
    <2> DEFINE k == Wanted(c, n, {}, "need")
    <2>1. k \in CallRecord /\ k.phase = "need" /\ k.got = {} /\ k.ask = n
      BY <1>4
    <2>2. Knows(k)
      BY <1>1, <2>1, FS_EmptySet DEF Knows
    <2>3. call' = [call EXCEPT ![s] = k] /\ UNCHANGED <<id, used, touches, seen, scan, explicit, late>>
      BY <1>5 DEF NewKeys, Begin
    <2> HIDE DEF k
    <2> QED
      BY <2>1, <2>2, <2>3, OnlyCall
  <1>6. CASE GetKeys(s, c, n) /\ ~(Cardinality(Unused(c)) > n)
    <2> DEFINE k == Wanted(c, n, Unused(c), "need")
    <2>1. k \in CallRecord /\ k.phase = "need" /\ k.got = Unused(c) /\ k.ask = n /\ k.chain = c
      BY <1>2, <1>4
    <2>2. Knows(k)
      BY <1>1, <1>2, <1>3, <1>6, <2>1 DEF Knows
    <2>3. call' = [call EXCEPT ![s] = k] /\ UNCHANGED <<id, used, touches, seen, scan, explicit, late>>
      BY <1>6 DEF GetKeys, Begin
    <2> HIDE DEF k
    <2> QED
      BY <2>1, <2>2, <2>3, OnlyCall
  <1>7. CASE GetKeys(s, c, n) /\ Cardinality(Unused(c)) > n
    <2> DEFINE k == Wanted(c, n, FirstOf(Unused(c), n), "done")
    <2>1. FirstOf(Unused(c), n) \subseteq Unused(c)
      BY DEF FirstOf
    <2>2. k \in CallRecord /\ k.phase = "done" /\ k.got = FirstOf(Unused(c), n) /\ k.ask = n
      BY <1>2, <1>4, <2>1
    <2>3. Cardinality(FirstOf(Unused(c), n)) = n
      <3>1. \A a \in Unused(c) : a \in Row /\ id[a] \in Nat
        BY <1>2, KeysFinite DEF IInv, TypeOK
      <3>2. \A a, b \in Unused(c) : id[a] = id[b] => a = b
        BY <3>1 DEF IInv, KeysInv, IdsUnique
      <3> QED
        BY <1>1, <1>3, <1>7, <3>1, <3>2, FirstOfSize
    <2>4. Knows(k)
      BY <1>2, <2>1, <2>2, <2>3, KeysFinite DEF Knows
    <2>5. call' = [call EXCEPT ![s] = k] /\ UNCHANGED <<id, used, touches, seen, scan, explicit, late>>
      BY <1>7 DEF GetKeys, Begin
    <2> HIDE DEF k
    <2> QED
      BY <2>2, <2>4, <2>5, OnlyCall
  <1> QED
    BY <1>5, <1>6, <1>7

LEMMA ReadIndexStep ==
  ASSUME IInv, NEW s \in Session, ReadIndex(s)
  PROVE  IInv'
  <1>1. PICK k \in CallRecord : k = call[s]
    BY CallTypes DEF IInv
  <1> DEFINE i == NextIndex(k.chain)
             h == [k EXCEPT !.phase = IF Missing(k) = 0 THEN "done" ELSE "lookup", !.index = i]
  <1>2. Knows(k) /\ k.phase = "need" /\ k.chain \in Chain /\ k.ask \in Nat
    BY <1>1 DEF IInv, ReadIndex, CallRecord
  <1>3. k.got \subseteq Keys(k.chain) /\ Cardinality(k.got) <= k.ask
    BY <1>2 DEF Knows
  <1>4. Cardinality(k.got) \in Nat /\ Missing(k) \in Nat /\ Missing(k) = k.ask - Cardinality(k.got)
    BY <1>2, <1>3, GotFinite DEF Missing
  <1>5. i \in Nat /\ (\A a \in Keys(k.chain) : a[2] < i) /\ (i = 0 \/ <<k.chain, i - 1>> \in Row)
    BY <1>2, NextIndexIsNext
  <1>6. Missing(k) > 0 => i + Missing(k) - 1 <= MaxIndex
    BY <1>1 DEF ReadIndex
  <1>7. /\ h \in CallRecord /\ h.got = k.got /\ h.ask = k.ask /\ h.chain = k.chain /\ h.index = i
        /\ h.phase = IF Missing(k) = 0 THEN "done" ELSE "lookup"
    <2> HIDE DEF i
    <2> QED
      BY <1>5 DEF CallRecord
  <1>8. call' = [call EXCEPT ![s] = h]
    BY <1>1, CallTypes DEF ReadIndex, CallRecord, IInv
  <1>9. Below(k.chain, i)
    BY <1>2, <1>5, BelowNext DEF IInv, KeysInv
  <1> HIDE DEF i, h
  <1>10. Missing(h) = Missing(k)
    BY <1>7 DEF Missing
  <1>11. Knows(h)
    <2>1. CASE Missing(k) = 0
      <3>1. k.got \subseteq Row
        BY <1>3, KeysFinite
      <3> QED
        BY <1>2, <1>4, <1>7, <2>1, <3>1 DEF Knows
    <2>2. CASE Missing(k) # 0
      <3>1. KnowsIndex(h)
        BY <1>2, <1>3, <1>4, <1>5, <1>6, <1>7, <1>9, <1>10, <2>2, AllocationAssumption DEF KnowsIndex
      <3> QED
        BY <1>7, <2>2, <3>1 DEF Knows
    <2> QED
      BY <2>1, <2>2
  <1> QED
    BY <1>7, <1>8, <1>11, OnlyCall DEF ReadIndex

(* With the key of its index a call has one more, and none twice.           *)
LEMMA HavingOneMore ==
  ASSUME NEW k \in CallRecord, First(k) \in Address,
         \A a \in k.got : a[2] < k.index, Cardinality(k.got) < k.ask
  PROVE  /\ Having(k) \in CallRecord
         /\ Having(k).got = k.got \cup {First(k)}
         /\ Cardinality(Having(k).got) = Cardinality(k.got) + 1
         /\ Having(k).ask = k.ask /\ Having(k).chain = k.chain /\ Having(k).index = k.index
         /\ Having(k).phase = IF Cardinality(k.got) + 1 < k.ask THEN "bulk" ELSE "done"
  <1>1. k.index \in Nat /\ First(k)[2] = k.index
    BY DEF CallRecord, First
  <1>2. First(k) \notin k.got
    BY <1>1
  <1>3. Cardinality(k.got \cup {First(k)}) = Cardinality(k.got) + 1
    BY <1>2, GotFinite, FS_AddElement
  <1>4. k.got \cup {First(k)} \in SUBSET Address
    BY DEF CallRecord
  <1> QED
    BY <1>3, <1>4 DEF Having, CallRecord

(* What makes a call know enough when it has the key of its index.          *)
LEMMA HavingKnows ==
  ASSUME NEW k \in CallRecord, First(k) \in Address, k.index + Missing(k) <= MaxIndex + 1,
         \A a \in k.got : a[2] < k.index, Cardinality(k.got) < k.ask,
         NEW h, h = Having(k)
  PROVE  /\ h \in CallRecord /\ h.chain = k.chain /\ h.got = k.got \cup {First(k)}
         /\ h.phase \in {"bulk", "done"}
         /\ \A a \in h.got : a[2] <= h.index
         /\ First(h) \in h.got
         /\ h.phase = "bulk" => Cardinality(h.got) < h.ask /\ h.index + Missing(h) <= MaxIndex
         /\ h.phase = "done" => Cardinality(h.got) = h.ask
  <1>1. /\ h \in CallRecord /\ h.got = k.got \cup {First(k)} /\ Cardinality(h.got) = Cardinality(k.got) + 1
        /\ h.ask = k.ask /\ h.chain = k.chain /\ h.index = k.index
        /\ h.phase = IF Cardinality(k.got) + 1 < k.ask THEN "bulk" ELSE "done"
    BY HavingOneMore
  <1>2. k.index \in Nat /\ k.ask \in Nat /\ Cardinality(k.got) \in Nat
    BY GotFinite DEF CallRecord
  <1>3. First(k)[2] = k.index /\ First(h) = First(k)
    BY <1>1 DEF First
  <1>4. Missing(k) = k.ask - Cardinality(k.got) /\ Missing(h) = k.ask - (Cardinality(k.got) + 1)
    BY <1>1 DEF Missing
  <1>5. k.got \subseteq Address
    BY DEF CallRecord
  <1>6. \A a \in h.got : a[2] <= h.index
    BY <1>1, <1>2, <1>3, <1>5, AddressFinite
  <1>7. h.index + Missing(h) <= MaxIndex
    BY <1>1, <1>2, <1>4, AllocationAssumption
  <1>8. h.phase = "done" => Cardinality(h.got) = h.ask
    BY <1>1, <1>2
  <1> QED
    BY <1>1, <1>3, <1>6, <1>7, <1>8

LEMMA LookupStep ==
  ASSUME IInv, NEW s \in Session, Lookup(s)
  PROVE  IInv'
  <1>1. PICK k \in CallRecord : k = call[s]
    BY CallTypes DEF IInv
  <1>2. k.phase = "lookup" /\ KnowsIndex(k)
    BY <1>1 DEF IInv, Knows, Lookup
  <1>3. CASE First(k) \in Row
    <2>1. PICK h : h = Having(k)
      OBVIOUS
    <2>2. call' = [call EXCEPT ![s] = h]
      BY <1>1, <1>3, <2>1 DEF Lookup
    <2>3. First(k) \in Keys(k.chain) /\ First(k) \in Address
      BY <1>3 DEF Keys, Row, First
    <2>4. /\ h \in CallRecord /\ h.chain = k.chain /\ h.got = k.got \cup {First(k)}
          /\ h.phase \in {"bulk", "done"}
          /\ \A a \in h.got : a[2] <= h.index
          /\ First(h) \in h.got
          /\ h.phase = "bulk" => Cardinality(h.got) < h.ask /\ h.index + Missing(h) <= MaxIndex
          /\ h.phase = "done" => Cardinality(h.got) = h.ask
      BY <1>2, <2>1, <2>3, HavingKnows DEF KnowsIndex
    <2>5. \A a \in h.got : a \in Keys(h.chain)
      BY <1>2, <2>3, <2>4 DEF KnowsIndex
    <2>6. h.got \subseteq Row
      BY <2>5, KeysFinite
    <2>7. Knows(h)
      BY <2>4, <2>5, <2>6 DEF Knows, KnowsFirst
    <2> QED
      BY <2>2, <2>4, <2>7, OnlyCall DEF Lookup
  <1>4. CASE First(k) \notin Row
    <2> DEFINE n == LastId + 1
               h == [k EXCEPT !.phase = "insert", !.new = n]
    <2>1. LastId \in Nat /\ n \in Nat
      BY LastIdIsLast DEF IInv, TypeOK
    <2>2. /\ h \in CallRecord /\ h.got = k.got /\ h.ask = k.ask /\ h.chain = k.chain /\ h.index = k.index
          /\ h.phase = "insert" /\ h.new = n
      <3> HIDE DEF n
      <3> QED
        BY <2>1 DEF CallRecord
    <2>3. call' = [call EXCEPT ![s] = h]
      BY <1>1, <1>4 DEF Lookup
    <2> HIDE DEF h
    <2>4. KnowsIndex(h)
      BY <1>2, <2>2 DEF KnowsIndex, Missing
    <2>5. k.chain \in Chain /\ k.index \in Nat /\ Below(k.chain, k.index)
      BY <1>2 DEF CallRecord, KnowsIndex
    <2>6. Lower(k.chain, k.index, LastId + 1)
      BY <2>5, BelowLower DEF IInv
    <2>7. Knows(h)
      BY <2>1, <2>2, <2>4, <2>6 DEF Knows
    <2> QED
      BY <2>2, <2>3, <2>7, OnlyCall DEF Lookup
  <1> QED
    BY <1>3, <1>4

LEMMA FailedStep ==
  ASSUME IInv, NEW s \in Session, call' = [call EXCEPT ![s].phase = "failed"],
         UNCHANGED <<id, used, touches, seen, scan, explicit, late>>
  PROVE  IInv'
  <1>1. PICK k \in CallRecord : k = call[s]
    BY CallTypes DEF IInv
  <1> DEFINE h == [k EXCEPT !.phase = "failed"]
  <1>2. h \in CallRecord /\ h.phase = "failed"
    BY DEF CallRecord
  <1>3. call' = [call EXCEPT ![s] = h]
    BY <1>1
  <1> HIDE DEF h
  <1>4. Knows(h)
    BY <1>2 DEF Knows
  <1> QED
    BY <1>2, <1>3, <1>4, OnlyCall

LEMMA ReturnStep ==
  ASSUME IInv, NEW s \in Session, Return(s)
  PROVE  IInv'
  BY NoCallType, OnlyCall DEF Return

LEMMA ReadLastIdStep ==
  ASSUME IInv, NEW s \in Session, ReadLastId(s)
  PROVE  IInv'
  <1>1. PICK k \in CallRecord : k = call[s]
    BY CallTypes DEF IInv
  <1> DEFINE n == LastId + 1
             h == [k EXCEPT !.phase = "add", !.new = n]
  <1>2. k.phase = "bulk" /\ KnowsFirst(k)
    BY <1>1 DEF IInv, Knows, ReadLastId
  <1>3. LastId \in Nat /\ n \in Nat
    BY LastIdIsLast DEF IInv, TypeOK
  <1>4. /\ h \in CallRecord /\ h.got = k.got /\ h.ask = k.ask /\ h.chain = k.chain /\ h.index = k.index
        /\ h.phase = "add" /\ h.new = n
    <2> HIDE DEF n
    <2> QED
      BY <1>3 DEF CallRecord
  <1>5. call' = [call EXCEPT ![s] = h]
    BY <1>1, CallTypes DEF ReadLastId, CallRecord, IInv
  <1> HIDE DEF h
  <1>6. KnowsFirst(h)
    BY <1>2, <1>4 DEF KnowsFirst, Missing, First
  <1>7. k.chain \in Chain /\ k.index + 1 \in Nat /\ <<k.chain, (k.index + 1) - 1>> \in Row
    <2>1. k.chain \in Chain /\ k.index \in Nat
      BY DEF CallRecord
    <2>2. <<k.chain, k.index>> \in Row
      BY <1>2, KeysFinite DEF KnowsFirst, First
    <2> QED
      BY <2>1, <2>2
  <1>8. Below(k.chain, k.index + 1)
    BY <1>7, BelowNext DEF IInv, KeysInv
  <1>9. Lower(k.chain, k.index + 1, LastId + 1)
    BY <1>7, <1>8, BelowLower DEF IInv
  <1>10. Knows(h)
    BY <1>3, <1>4, <1>6, <1>9 DEF Knows
  <1> QED
    BY <1>4, <1>5, <1>10, OnlyCall DEF ReadLastId

(* Numbers for m places from i on.                                          *)
LEMMA NumberedIs ==
  ASSUME NEW c \in Chain, NEW i \in Nat, NEW m \in Nat, NEW f \in Nat
  PROVE  /\ DOMAIN Numbered(c, i, m, f) = Places(c, i, m)
         /\ \A a \in Places(c, i, m) : Numbered(c, i, m, f)[a] = f + a[2] - i
  BY DEF Numbered, Places

LEMMA PlacesSize ==
  ASSUME NEW c \in Chain, NEW i \in Nat, NEW m \in Nat
  PROVE  IsFiniteSet(Places(c, i, m)) /\ Cardinality(Places(c, i, m)) = m
  <1> DEFINE I == i..(i + m - 1)
             f == [j \in I |-> <<c, j>>]
  <1>1. IsFiniteSet(I) /\ Cardinality(I) = m
    BY FS_Interval
  <1>2. f \in [I -> Places(c, i, m)]
    BY DEF Places
  <1>3. \A j, l \in I : f[j] = f[l] => j = l
    OBVIOUS
  <1>4. \A a \in Places(c, i, m) : \E j \in I : f[j] = a
    BY DEF Places
  <1> HIDE DEF f, I
  <1>5. f \in Surjection(I, Places(c, i, m)) /\ f \in Injection(I, Places(c, i, m))
    BY <1>2, <1>3, <1>4, Fun_IsSurj, Fun_IsInj
  <1> QED
    BY <1>1, <1>5, FS_Surjection

LEMMA InsertStep ==
  ASSUME IInv, NEW s \in Session, Insert(s)
  PROVE  IInv'
  <1>1. PICK k \in CallRecord : k = call[s]
    BY CallTypes DEF IInv
  <1> DEFINE N == Numbered(k.chain, k.index, 1, k.new)
             P == Places(k.chain, k.index, 1)
  <1>2. k.phase = "insert" /\ KnowsIndex(k) /\ Lower(k.chain, k.index, k.new) /\ k.new > 0
    BY <1>1 DEF IInv, Knows, Insert
  <1>3. k.chain \in Chain /\ k.index \in Nat /\ k.new \in Nat \ {0} /\ k.ask \in Nat
    BY <1>2 DEF CallRecord
  <1>4. CASE ~Insertable(N)
    BY <1>1, <1>4, FailedStep DEF Insert
  <1>5. CASE Insertable(N)
    <2>1. id' = Inserted(N) /\ call' = [call EXCEPT ![s] = Having(k)]
          /\ UNCHANGED <<used, touches, seen, scan, explicit, late>>
      BY <1>1, <1>5 DEF Insert
    <2>2. DOMAIN N = P /\ \A a \in P : N[a] = k.new + a[2] - k.index
      BY <1>3 DEF Numbered, Places
    <2>3. P = {First(k)}
      BY <1>3 DEF Places, First
    <2>4. k.index <= MaxIndex + Gap
      <3>1. k.index + (k.ask - Cardinality(k.got)) <= MaxIndex + 1 /\ Cardinality(k.got) < k.ask
        BY <1>2 DEF KnowsIndex, Missing
      <3>2. Cardinality(k.got) \in Nat
        BY GotFinite
      <3> QED
        BY <1>3, <3>1, <3>2, AllocationAssumption
    <2>5. First(k) \in Address
      BY <1>3, <2>4, PlaceInAddress DEF First
    <2>6. DOMAIN N = P \ Row
      BY <1>5, <2>2 DEF Insertable
    <2>7. Places(k.chain, k.index, 1) \subseteq Address
      BY <2>3, <2>5
    <2>8. late' = IF DOMAIN N = Places(k.chain, k.index, 1) THEN late ELSE late \cup DOMAIN N
      BY <2>1, <2>2
    <2>9. /\ KeysInv' /\ Kept
          /\ id' \in [Address -> Nat] /\ Row' = Row \cup P
      <3>1. TypeOK /\ KeysInv /\ explicit' = explicit /\ 1 \in Nat /\ k.new <= k.new /\ k.new \in Nat
        BY <1>3, <2>1 DEF IInv
      <3>2. \A a \in DOMAIN N : N[a] = k.new + a[2] - k.index
        BY <2>2
      <3>3. Lower(k.chain, k.index, k.new)
        BY <1>2
      <3>4. id' = Inserted(N) /\ Insertable(N)
        BY <1>5, <2>1
      <3>5. k.chain \in Chain /\ k.index \in Nat /\ k.new \in Nat \ {0}
        BY <1>3
      <3>6. DOMAIN N = Places(k.chain, k.index, 1) \ Row
        BY <2>6
      <3> HIDE DEF N, P
      <3>7. /\ KeysInv' /\ Kept
            /\ id' \in [Address -> Nat] /\ Row' = Row \cup Places(k.chain, k.index, 1)
        BY ONLY <2>7, <2>8, <3>1, <3>2, <3>3, <3>4, <3>5, <3>6, InsertKeys, Zenon
      <3> QED
        BY <3>7 DEF P
    <2>10. late' \subseteq Row'
      BY <2>1, <2>9 DEF IInv, TypeOK
    <2>11. PICK h : h = Having(k)
      OBVIOUS
    <2>12. /\ h \in CallRecord /\ h.chain = k.chain /\ h.got = k.got \cup {First(k)}
           /\ h.phase \in {"bulk", "done"}
           /\ \A a \in h.got : a[2] <= h.index
           /\ First(h) \in h.got
           /\ h.phase = "bulk" => Cardinality(h.got) < h.ask /\ h.index + Missing(h) <= MaxIndex
           /\ h.phase = "done" => Cardinality(h.got) = h.ask
      BY <1>2, <2>5, <2>11, HavingKnows DEF KnowsIndex
    <2>13. \A a \in h.got : a \in Keys(h.chain)'
      <3>1. Keys(k.chain) \subseteq Keys(k.chain)'
        BY <2>9 DEF Kept, Keys
      <3>2. First(k) \in Keys(k.chain)'
        BY <2>3, <2>9 DEF Keys, First
      <3> QED
        BY <1>2, <2>12, <3>1, <3>2 DEF KnowsIndex
    <2>14. h.got \subseteq Row'
      BY <2>13 DEF Keys
    <2>15. Knows(h)'
      BY <2>12, <2>13, <2>14 DEF Knows, KnowsFirst
    <2> QED
      BY <2>1, <2>9, <2>10, <2>11, <2>12, <2>15, CallStep
  <1> QED
    BY <1>4, <1>5

(* A commit of new_keys() at once, of those keys that have no row yet.      *)
LEMMA AddOthersStep ==
  ASSUME IInv, NEW s \in Session, AddOthers(s)
  PROVE  IInv'
  <1>1. PICK k \in CallRecord : k = call[s]
    BY CallTypes DEF IInv
  <1> DEFINE c == k.chain
             i == k.index + 1
             m == Missing(k)
             A == Numbered(c, i, m, k.new + 1)
             N == [a \in DOMAIN A \ Row |-> A[a]]
  <1>2. k.phase = "add" /\ KnowsFirst(k) /\ Lower(c, i, k.new) /\ k.new > 0
    BY <1>1 DEF IInv, Knows, AddOthers
  <1>3. c \in Chain /\ k.index \in Nat /\ i \in Nat /\ k.new \in Nat /\ k.ask \in Nat /\ k.got \subseteq Address
    BY DEF CallRecord
  <1>4. /\ m \in Nat /\ m = k.ask - Cardinality(k.got)
        /\ Cardinality(k.got) \in Nat /\ IsFiniteSet(k.got)
    BY <1>2, <1>3, GotFinite DEF Missing, KnowsFirst
  <1>5. CASE ~Insertable(N)
    BY <1>1, <1>5, FailedStep DEF AddOthers
  <1>6. CASE Insertable(N)
    <2>1. /\ id' = Inserted(N)
          /\ call' = [call EXCEPT ![s].phase = "done", ![s].got = @ \cup DOMAIN A]
          /\ late' = IF DOMAIN N = DOMAIN A THEN late ELSE late \cup DOMAIN N
          /\ UNCHANGED <<used, touches, seen, scan, explicit>>
      BY <1>1, <1>6 DEF AddOthers
    <2>2. DOMAIN A = Places(c, i, m) /\ \A a \in Places(c, i, m) : A[a] = (k.new + 1) + a[2] - i
      <3> HIDE DEF c, i, m
      <3>1. PICK f \in Nat : f = k.new + 1
        BY <1>3
      <3>2. /\ DOMAIN Numbered(c, i, m, f) = Places(c, i, m)
            /\ \A a \in Places(c, i, m) : Numbered(c, i, m, f)[a] = f + a[2] - i
        BY <1>3, <1>4 DEF Numbered, Places
      <3> QED
        BY <3>1, <3>2
    <2>3. DOMAIN N = Places(c, i, m) \ Row /\ \A a \in DOMAIN N : N[a] = (k.new + 1) + a[2] - i
      <3> HIDE DEF c, i, m, A
      <3> QED
        BY <2>2
    <2>4. Places(c, i, m) \subseteq Address
      <3> SUFFICES ASSUME NEW j \in i..(i + m - 1)
                   PROVE  <<c, j>> \in Address
        BY DEF Places
      <3>1. k.index + m <= MaxIndex
        BY <1>2 DEF KnowsFirst
      <3>2. j \in Nat /\ j <= MaxIndex + Gap
        BY <1>3, <1>4, <3>1, AllocationAssumption
      <3> QED
        BY <1>3, <3>2, PlaceInAddress
    <2>5. /\ KeysInv' /\ Kept
          /\ id' \in [Address -> Nat] /\ Row' = Row \cup Places(c, i, m)
      <3>1. TypeOK /\ KeysInv /\ explicit' = explicit
        BY <2>1 DEF IInv
      <3>2. k.new + 1 \in Nat \ {0} /\ k.new <= k.new + 1
        BY <1>3
      <3>3. id' = Inserted(N) /\ Insertable(N)
        BY <1>6, <2>1
      <3>4. late' = IF DOMAIN N = Places(c, i, m) THEN late ELSE late \cup DOMAIN N
        BY <2>1, <2>2
      <3>5. Lower(c, i, k.new)
        BY <1>2
      <3>6. PICK f : f = k.new + 1
        OBVIOUS
      <3>7. f \in Nat \ {0} /\ k.new <= f
        BY <3>2, <3>6
      <3>8. \A a \in DOMAIN N : N[a] = f + a[2] - i
        BY <2>3, <3>6
      <3>9. DOMAIN N = Places(c, i, m) \ Row
        BY <2>3
      <3> HIDE DEF N, c, i, m
      <3> QED
        BY ONLY <1>3, <1>4, <2>4, <3>1, <3>3, <3>4, <3>5, <3>7, <3>8, <3>9, InsertKeys, Zenon
    <2> DEFINE h == [k EXCEPT !.phase = "done", !.got = @ \cup Places(c, i, m)]
    <2>6. h \in CallRecord /\ h.phase = "done" /\ h.got = k.got \cup Places(c, i, m) /\ h.ask = k.ask
      <3>1. PICK P \in SUBSET Address : P = Places(c, i, m)
        BY <2>4
      <3>2. [k EXCEPT !.phase = "done", !.got = @ \cup P] \in CallRecord
        BY DEF CallRecord
      <3> QED
        BY <3>1, <3>2 DEF CallRecord
    <2>7. call' = [call EXCEPT ![s] = h]
      <3>1. PICK P : P = DOMAIN A
        OBVIOUS
      <3>2. call' = [call EXCEPT ![s].phase = "done", ![s].got = @ \cup P]
        BY <2>1, <3>1
      <3>3. P = Places(c, i, m)
        BY <2>2, <3>1
      <3> HIDE DEF c, i, m, A
      <3> QED
        BY <1>1, <3>2, <3>3, CallTypes DEF IInv, CallRecord
    <2>8. Cardinality(h.got) = k.ask
      <3>1. k.got \cap Places(c, i, m) = {}
        <4> SUFFICES ASSUME NEW a \in k.got, a \in Places(c, i, m)
                     PROVE  FALSE
          OBVIOUS
        <4>1. a[2] <= k.index /\ a[2] \in Nat
          BY <1>2, <1>3, AddressFinite DEF KnowsFirst
        <4>2. a[2] \in i..(i + m - 1)
          BY <1>3, <1>4, PlaceIs
        <4> QED
          BY <1>3, <1>4, <4>1, <4>2
      <3>2. IsFiniteSet(Places(c, i, m)) /\ Cardinality(Places(c, i, m)) = m
        BY <1>3, <1>4, PlacesSize
      <3>3. Cardinality(k.got \cup Places(c, i, m))
              = Cardinality(k.got) + Cardinality(Places(c, i, m)) - Cardinality(k.got \cap Places(c, i, m))
        BY <1>4, <3>2, FS_Union
      <3>4. Cardinality(k.got \cap Places(c, i, m)) = 0
        BY <3>1, FS_EmptySet
      <3> HIDE DEF h, c, i, m
      <3> QED
        BY <1>3, <1>4, <2>6, <3>2, <3>3, <3>4
    <2>9. h.got \subseteq Row'
      <3>1. k.got \subseteq Row
        BY <1>2, KeysFinite DEF KnowsFirst
      <3> HIDE DEF h, c, i, m
      <3> QED
        BY <2>5, <2>6, <3>1
    <2> HIDE DEF h
    <2>10. Knows(h)'
      BY <2>6, <2>8, <2>9 DEF Knows
    <2>11. late' \subseteq Row'
      <3>1. late \subseteq Row
        BY DEF IInv, TypeOK
      <3> HIDE DEF A, c, i, m
      <3> QED
        BY <2>1, <2>2, <2>3, <2>5, <3>1
    <2> QED
      BY <2>1, <2>5, <2>6, <2>7, <2>10, <2>11, CallStep
  <1> QED
    BY <1>5, <1>6

(* A key asked for by its index has the highest id.                         *)
LEMMA KeyForPathStep ==
  ASSUME IInv, NEW s \in Session, NEW a \in Address, KeyForPath(s, a)
  PROVE  IInv'
  <1> DEFINE n == LastId + 1
  <1>1. id' = [id EXCEPT ![a] = n] /\ explicit' = explicit \cup {a} /\ a \notin Row
        /\ UNCHANGED <<used, touches, seen, call, scan, late>>
    BY DEF KeyForPath
  <1>2. n \in Nat \ {0} /\ \A b \in Address : id[b] < n
    BY LastIdIsLast DEF IInv, TypeOK
  <1> HIDE DEF n
  <1>3. /\ id' \in [Address -> Nat] /\ id \in [Address -> Nat]
        /\ \A b \in Address : id'[b] = IF b = a THEN n ELSE id[b]
    BY <1>1, <1>2 DEF IInv, TypeOK
  <1>4. Row' = Row \cup {a} /\ Row \subseteq Address
    BY <1>2, <1>3 DEF Row
  <1>5. Kept
    BY <1>1, <1>3, <1>4 DEF Kept
  <1>6. TypeOK'
    BY <1>1, <1>3, <1>4 DEF IInv, TypeOK
  <1>7. IdsUnique'
    <2> SUFFICES ASSUME NEW b \in Row', NEW d \in Row', id'[b] = id'[d]
                 PROVE  b = d
      BY DEF IdsUnique
    <2> QED
      BY <1>1, <1>2, <1>3, <1>4 DEF IInv, KeysInv, IdsUnique
  <1>8. Filled'
    <2> SUFFICES ASSUME NEW b \in Row' \ explicit'
                 PROVE  Below(b[1], b[2])'
      BY DEF Filled
    <2>1. b \in Row \ explicit
      BY <1>1, <1>4
    <2> QED
      BY <1>5, <2>1, KeptBelow DEF IInv, KeysInv, Filled
  <1>9. Ordered'
    <2> SUFFICES ASSUME NEW b \in InTurn', NEW d \in InTurn', Follows(d, b)'
                 PROVE  id'[b] < id'[d]
      BY DEF Ordered
    <2>1. b \in InTurn /\ d \in InTurn /\ b # a /\ d # a /\ b \in Address /\ d \in Address
      BY <1>1, <1>4 DEF InTurn
    <2>2. Follows(d, b)
      BY <1>1 DEF Follows, Between
    <2> QED
      BY <1>3, <2>1, <2>2 DEF IInv, KeysInv, Ordered
  <1> QED
    BY <1>1, <1>5, <1>6, <1>7, <1>8, <1>9, StepKeeps DEF KeysInv

(* The account after the highest one has no keys yet.                       *)
LEMMA NextAccountIsNew ==
  ASSUME NEW n, n = Max(Accounts \cup {0}) + 1
  PROVE  n \in Nat /\ \A a \in Row : a[1][1] # n
  <1> DEFINE S == Accounts \cup {0}
  <1>1. Row \subseteq Address
    BY DEF Row
  <1>2. \A a \in Row : a[1][1] \in Account
    BY <1>1 DEF Address, Chain
  <1>3. S \in SUBSET Account
    BY <1>2, AllocationAssumption DEF Accounts
  <1>4. IsFiniteSet(S) /\ S \in SUBSET Nat /\ S # {}
    BY <1>3, AllocationAssumption, FS_Subset
  <1>5. \A a \in Row : a[1][1] \in S
    BY DEF Accounts
  <1> HIDE DEF S
  <1>6. Max(S) \in S /\ \A x \in S : x <= Max(S)
    BY <1>4, MaxIsLargest
  <1>7. n = Max(S) + 1
    BY DEF S
  <1>8. PICK m \in Nat : m = Max(S)
    BY <1>4, <1>6
  <1>9. n = m + 1 /\ \A x \in S : x <= m
    BY <1>6, <1>7, <1>8
  <1>10. S \in SUBSET Nat
    BY <1>4
  <1>11. n \in Nat /\ \A x \in S : x # n
    BY ONLY <1>9, <1>10, m \in Nat
  <1> QED
    BY <1>5, <1>11

(* An account begins with index 0 of its chains.                            *)
LEMMA NewAccountStep ==
  ASSUME IInv, NEW s \in Session, NewAccount(s)
  PROVE  IInv'
  <1> PICK n : n = Max(Accounts \cup {0}) + 1
    OBVIOUS
  <1> PICK l : l = LastId
    OBVIOUS
  <1> DEFINE p == <<<<n, 0>>, 0>>
             r == <<<<n, 1>>, 0>>
  <1>1. /\ n \in Account
        /\ id' = [id EXCEPT ![p] = l + 1, ![r] = l + 2] \/ id' = [id EXCEPT ![p] = l + 1]
        /\ UNCHANGED <<used, touches, seen, call, scan, explicit, late>>
    BY DEF NewAccount
  <1>2. n \in Nat /\ \A a \in Row : a[1][1] # n
    BY NextAccountIsNew
  <1>3. p \in Address /\ r \in Address /\ p # r /\ p \notin Row /\ r \notin Row
    <2>1. <<n, 0>> \in Chain /\ <<n, 1>> \in Chain
      BY <1>1 DEF Chain
    <2>2. p \in Address /\ r \in Address
      <3>1. 0 \in Nat /\ 0 <= MaxIndex + Gap
        BY AllocationAssumption
      <3> QED
        BY ONLY <2>1, <3>1, PlaceInAddress, Zenon
    <2>3. p[1][1] = n /\ r[1][1] = n /\ p # r
      OBVIOUS
    <2> HIDE DEF p, r
    <2> QED
      BY <1>2, <2>2, <2>3
  <1>4. l \in Nat /\ id \in [Address -> Nat] /\ \A b \in Address : id[b] <= l
    BY LastIdIsLast DEF IInv, TypeOK
  <1>5. PICK D \in {{p}, {p, r}} :
          \A b \in Address : id'[b] = IF b \in D THEN (IF b = p THEN l + 1 ELSE l + 2) ELSE id[b]
    <2>1. CASE id' = [id EXCEPT ![p] = l + 1, ![r] = l + 2]
      <3> HIDE DEF p, r
      <3>1. \A b \in Address : id'[b] = IF b \in {p, r} THEN (IF b = p THEN l + 1 ELSE l + 2) ELSE id[b]
        BY <1>3, <1>4, <2>1
      <3> QED
        BY <3>1
    <2>2. CASE id' = [id EXCEPT ![p] = l + 1]
      <3> HIDE DEF p, r
      <3>1. \A b \in Address : id'[b] = IF b \in {p} THEN (IF b = p THEN l + 1 ELSE l + 2) ELSE id[b]
        BY <1>3, <1>4, <2>2
      <3> QED
        BY <3>1
    <2> QED
      BY <1>1, <2>1, <2>2
  <1>6. id' \in [Address -> Nat]
    <2>1. id' \in [Address -> Nat \cup {l + 1, l + 2}]
      <3> HIDE DEF p, r
      <3> QED
        BY <1>1, <1>4
    <2> QED
      BY <1>4, <2>1
  <1>7. D \subseteq {p, r} /\ D \subseteq Address /\ D \cap Row = {}
    BY <1>3
  <1>8. Row' = Row \cup D /\ Row \subseteq Address
    <2> HIDE DEF p, r
    <2> QED
      BY <1>4, <1>5, <1>7 DEF Row
  <1>9. Kept
    <2>1. \A a \in Row : id'[a] = id[a]
      BY <1>5, <1>7, <1>8
    <2> QED
      BY <1>1, <1>8, <2>1 DEF Kept
  <1>10. TypeOK'
    BY <1>1, <1>6, <1>8 DEF IInv, TypeOK
  <1>11. \A a \in D : a[2] = 0 /\ a[1][1] = n
    BY <1>7
  <1>12. IdsUnique'
    <2> SUFFICES ASSUME NEW b \in Row', NEW d \in Row', id'[b] = id'[d]
                 PROVE  b = d
      BY DEF IdsUnique
    <2>1. \A a \in D : id'[a] = (IF a = p THEN l + 1 ELSE l + 2) /\ a \in {p, r}
      BY <1>5, <1>7
    <2>2. \A a \in Row : id'[a] = id[a] /\ id[a] \in Nat /\ id[a] <= l
      BY <1>4, <1>8, <1>9 DEF Kept
    <2> HIDE DEF p, r
    <2>3. CASE b \in Row /\ d \in Row
      BY <2>2, <2>3 DEF IInv, KeysInv, IdsUnique
    <2>4. CASE b \in D \/ d \in D
      BY <1>4, <1>7, <1>8, <2>1, <2>2, <2>4
    <2> QED
      BY <1>8, <2>3, <2>4
  <1> HIDE DEF p, r
  <1>13. Filled'
    <2> SUFFICES ASSUME NEW b \in Row' \ explicit'
                 PROVE  Below(b[1], b[2])'
      BY DEF Filled
    <2>1. CASE b \in Row
      BY <1>1, <1>9, <2>1, KeptBelow DEF IInv, KeysInv, Filled
    <2>2. CASE b \in D
      BY <1>11, <2>2 DEF Below
    <2> QED
      BY <1>8, <2>1, <2>2
  <1>14. Ordered'
    <2> SUFFICES ASSUME NEW b \in InTurn', NEW d \in InTurn', Follows(d, b)'
                 PROVE  id'[b] < id'[d]
      BY DEF Ordered
    <2>1. b \in Row' /\ d \in Row' /\ b[1] = d[1] /\ b[2] < d[2] /\ b[2] \in Nat /\ d[2] \in Nat
      BY AddressFinite DEF InTurn, Follows, Row
    <2>2. d \notin D
      BY <1>11, <2>1
    <2>3. b \notin D
      BY <1>2, <1>8, <1>11, <2>1, <2>2
    <2>4. b \in InTurn /\ d \in InTurn
      BY <1>1, <1>8, <2>2, <2>3 DEF InTurn
    <2>5. Follows(d, b)
      BY <1>1 DEF Follows, Between
    <2> QED
      BY <1>9, <2>4, <2>5 DEF IInv, KeysInv, Ordered, Kept, InTurn
  <1> QED
    BY <1>1, <1>9, <1>10, <1>12, <1>13, <1>14, StepKeeps DEF KeysInv

(* The steps that leave the rows, and what calls know of them, as they are. *)
LEMMA RowsSame ==
  ASSUME IInv, UNCHANGED <<id, call, explicit, late>>, used' \subseteq Row,
         touches' \in [Tx -> SUBSET Address], seen' \in [Address -> SUBSET Tx],
         scan' \in [Session -> [on : BOOLEAN, chain : Chain, todo : SUBSET Address, asked : SUBSET Address,
                                found : BOOLEAN]]
  PROVE  IInv'
  <1>1. KeysInv' /\ Kept /\ Row' = Row
    BY SameKeys DEF IInv
  <1>2. TypeOK'
    BY <1>1 DEF IInv, TypeOK
  <1> QED
    BY <1>1, <1>2, StepKeeps

ScanRecord ==
  [on : BOOLEAN, chain : Chain, todo : SUBSET Address, asked : SUBSET Address, found : BOOLEAN]

LEMMA ScanTypes ==
  ASSUME TypeOK, NEW s \in Session
  PROVE  scan[s] \in ScanRecord /\ scan \in [Session -> ScanRecord]
  BY DEF TypeOK, ScanRecord

LEMMA ScanRoundStep ==
  ASSUME IInv, NEW s \in Session,
         NextChain(s) \/ Abort(s) \/ \E n \in Account : Start(s, n)
  PROVE  IInv'
  <1>1. UNCHANGED <<id, used, touches, seen, call, explicit, late>>
    BY DEF NextChain, Abort, Start
  <1>2. <<0, 0>> \in Chain /\ \A n \in Account : <<n, 0>> \in Chain
    BY AllocationAssumption DEF Chain
  <1>3. NoScan \in ScanRecord
    BY <1>2 DEF NoScan, ScanRecord
  <1>4. PICK k \in ScanRecord : k = scan[s]
    BY ScanTypes DEF IInv
  <1>5. <<k.chain[1], 1>> \in Chain
    BY DEF ScanRecord, Chain
  <1>6. scan' \in [Session -> ScanRecord]
    <2>1. CASE NextChain(s)
      <3> DEFINE h == [k EXCEPT !.chain = <<@[1], 1>>, !.found = TRUE]
      <3>1. h \in ScanRecord
        BY <1>5 DEF ScanRecord
      <3>2. scan' = [scan EXCEPT ![s] = h] \/ scan' = [scan EXCEPT ![s] = NoScan]
        BY <1>4, <2>1 DEF NextChain
      <3> HIDE DEF h
      <3> QED
        BY <1>3, <3>1, <3>2, ScanTypes DEF IInv
    <2>2. CASE Abort(s)
      BY <1>3, <2>2, ScanTypes DEF Abort, IInv
    <2>3. CASE \E n \in Account : Start(s, n)
      <3>1. PICK n \in Account : Start(s, n)
        BY <2>3
      <3> DEFINE h == [on |-> TRUE, chain |-> <<n, 0>>, todo |-> {}, asked |-> {}, found |-> TRUE]
      <3>2. h \in ScanRecord
        BY <1>2 DEF ScanRecord
      <3>3. scan' = [scan EXCEPT ![s] = h]
        BY <3>1 DEF Start
      <3> HIDE DEF h
      <3> QED
        BY <3>2, <3>3, ScanTypes DEF IInv
    <2> QED
      BY <2>1, <2>2, <2>3
  <1> QED
    BY <1>1, <1>6, RowsSame DEF IInv, TypeOK, ScanRecord

LEMMA ScanKeyStep ==
  ASSUME IInv, NEW s \in Session, NEW a \in Address, ScanKey(s, a)
  PROVE  IInv'
  <1>1. UNCHANGED <<id, touches, call, explicit, late>>
    BY DEF ScanKey
  <1>2. PICK k \in ScanRecord : k = scan[s]
    BY ScanTypes DEF IInv
  <1>3. scan' \in [Session -> ScanRecord]
    <2> DEFINE b == (k.found \/ News(a) # {})
               h == [k EXCEPT !.todo = @ \ {a}, !.asked = @ \cup {a}, !.found = b]
    <2>1. b \in BOOLEAN
      BY DEF ScanRecord
    <2>2. scan' = [scan EXCEPT ![s] = h]
      BY <1>2, ScanTypes DEF ScanKey, IInv, ScanRecord
    <2>3. h \in ScanRecord
      <3> HIDE DEF b
      <3> QED
        BY <2>1 DEF ScanRecord
    <2> HIDE DEF h
    <2> QED
      BY <2>2, <2>3, ScanTypes DEF IInv
  <1>4. used' \subseteq Row
    BY DEF ScanKey, IInv, TypeOK
  <1>5. seen' \in [Address -> SUBSET Tx]
    <2>1. News(a) \subseteq Tx
      BY DEF News
    <2> QED
      BY <2>1 DEF ScanKey, IInv, TypeOK
  <1> QED
    BY <1>1, <1>3, <1>4, <1>5, RowsSame DEF IInv, TypeOK, ScanRecord

(* get_keys() in scan(): keys up to the gap limit, without another session. *)
LEMMA ListKeysStep ==
  ASSUME IInv, NEW s \in Session, ListKeys(s)
  PROVE  IInv'
  <1>1. PICK k \in ScanRecord : k = scan[s]
    BY ScanTypes DEF IInv
  <1> DEFINE c == k.chain
             m == Gap - Cardinality(Unused(c))
             i == NextIndex(c)
             f == LastId + 1
             N == IF m > 0 THEN Numbered(c, i, m, f) ELSE [a \in {} |-> 0]
             T == (FirstOf(Unused(c), Gap) \cup DOMAIN N) \ k.asked
             h == [k EXCEPT !.todo = T, !.found = FALSE]
  <1>2. /\ DOMAIN N \subseteq Address /\ id' = Inserted(N)
        /\ UNCHANGED <<used, touches, seen, call, explicit, late>>
    BY <1>1 DEF ListKeys
  <1>3. c \in Chain /\ k.asked \subseteq Address
    BY DEF ScanRecord
  <1>4. Unused(c) \subseteq Address /\ IsFiniteSet(Unused(c)) /\ Cardinality(Unused(c)) \in Nat
    <2>1. Unused(c) \in SUBSET Address
      BY KeysFinite DEF Unused
    <2> QED
      BY <2>1, AddressFinite, FS_Subset, FS_CardinalityType
  <1>5. m \in Int
    BY <1>4, AllocationAssumption
  <1>6. scan' \in [Session -> ScanRecord]
    <2>1. scan' = [scan EXCEPT ![s] = h]
      BY <1>1, ScanTypes DEF ListKeys, IInv, ScanRecord, FoundInRound
    <2>2. T \subseteq Address
      BY <1>2, <1>4 DEF FirstOf
    <2>3. h \in ScanRecord
      <3> HIDE DEF T
      <3> QED
        BY <2>2 DEF ScanRecord
    <2> HIDE DEF h
    <2> QED
      BY <2>1, <2>3, ScanTypes DEF IInv
  <1>7. CASE m > 0
    <2>1. m \in Nat /\ N = Numbered(c, i, m, f)
      BY <1>5, <1>7
    <2>2. i \in Nat /\ (\A a \in Keys(c) : a[2] < i) /\ (i = 0 \/ <<c, i - 1>> \in Row)
      BY <1>3, NextIndexIsNext
    <2>3. f \in Nat \ {0} /\ f \in Nat /\ f <= f /\ \A a \in Address : id[a] < f
      BY LastIdIsLast DEF IInv, TypeOK
    <2>4. Lower(c, i, f)
      BY <1>3, <2>2, BelowNext, BelowLower DEF IInv, KeysInv
    <2>5. DOMAIN N = Places(c, i, m) /\ \A a \in DOMAIN N : N[a] = f + a[2] - i
      <3> HIDE DEF c, i, m, f, N
      <3> QED
        BY <2>1, <2>2, <2>3 DEF Numbered, Places
    <2>6. \A a \in Places(c, i, m) : a \notin Row
      <3> SUFFICES ASSUME NEW a \in Places(c, i, m), a \in Row
                   PROVE  FALSE
        OBVIOUS
      <3>1. a = <<c, a[2]>> /\ a[2] \in i..(i + m - 1)
        <4> HIDE DEF c, i, m
        <4> QED
          BY <1>3, <2>1, <2>2, PlaceIs
      <3>2. a \in Keys(c)
        BY <3>1 DEF Keys
      <3> QED
        BY <2>2, <3>1, <3>2
    <2>7. Insertable(N)
      <3> SUFFICES ASSUME NEW a \in DOMAIN N
                   PROVE  a \notin Row /\ \A b \in Row : id[b] # N[a]
        BY DEF Insertable
      <3>1. a \in Places(c, i, m) /\ N[a] = f + a[2] - i
        BY <2>5
      <3>2. a[2] \in i..(i + m - 1)
        <4> HIDE DEF c, i, m, N
        <4> QED
          BY <1>3, <2>1, <2>2, <3>1, PlaceIs
      <3>3. \A b \in Row : id[b] \in Nat /\ id[b] < f
        BY <2>3 DEF Row, IInv, TypeOK
      <3> HIDE DEF c, i, m, f, N
      <3> QED
        BY <2>2, <2>3, <2>6, <3>1, <3>2, <3>3
    <2>8. /\ KeysInv' /\ Kept
          /\ id' \in [Address -> Nat] /\ Row' = Row \cup Places(c, i, m)
      <3>1. TypeOK /\ KeysInv /\ explicit' = explicit
        BY <1>2 DEF IInv
      <3>2. late' = IF DOMAIN N = Places(c, i, m) THEN late ELSE late \cup DOMAIN N
        BY <1>2, <2>5
      <3>3. DOMAIN N = Places(c, i, m) \ Row /\ Places(c, i, m) \subseteq Address
        <4> HIDE DEF N, c, i, m
        <4> QED
          BY <1>2, <2>5, <2>6
      <3>4. id' = Inserted(N) /\ \A a \in DOMAIN N : N[a] = f + a[2] - i
        BY <1>2, <2>5
      <3> HIDE DEF N, c, i, m, f
      <3> QED
        BY ONLY <1>3, <2>1, <2>2, <2>3, <2>4, <2>7, <3>1, <3>2, <3>3, <3>4, InsertKeys, Zenon
    <2>9. TypeOK'
      BY <1>2, <1>6, <2>8 DEF IInv, TypeOK, ScanRecord, Kept
    <2>10. call' = call
      BY <1>2
    <2> HIDE DEF c, i, m, f, N, T, h
    <2> QED
      BY <2>8, <2>9, <2>10, StepKeeps
  <1>8. CASE ~(m > 0)
    <2>1. DOMAIN N = {}
      BY <1>8
    <2>2. id' = id
      <3> HIDE DEF N
      <3> QED
        BY <1>2, <2>1 DEF Inserted, IInv, TypeOK
    <2> QED
      BY <1>2, <1>6, <2>2, RowsSame DEF IInv, TypeOK, ScanRecord
  <1> QED
    BY <1>7, <1>8

LEMMA ConfirmStep ==
  ASSUME IInv, NEW t \in Tx, NEW A \in Payable, Confirm(t, A)
  PROVE  IInv'
  <1>1. A \subseteq Address
    BY DEF Payable
  <1>2. touches' \in [Tx -> SUBSET Address]
    BY <1>1 DEF Confirm, IInv, TypeOK
  <1> QED
    BY <1>2, RowsSame DEF Confirm, IInv, TypeOK

LEMMA InitInv == Init => IInv
  <1> SUFFICES ASSUME Init
               PROVE  IInv
    OBVIOUS
  <1> DEFINE p == <<<<0, 0>>, 0>>
  <1>1. p \in Address
    BY AllocationAssumption DEF Address, Chain
  <1>2. Row = {p} /\ id[p] = 1 /\ id \in [Address -> Nat]
    BY <1>1 DEF Init, Row
  <1>3. TypeOK
    <2>1. call \in [Session -> CallRecord]
      BY NoCallType DEF Init
    <2>2. NoScan \in ScanRecord
      BY AllocationAssumption DEF NoScan, ScanRecord, Chain
    <2>3. scan \in [Session -> ScanRecord]
      BY <2>2 DEF Init
    <2> QED
      BY <1>2, <2>1, <2>3 DEF TypeOK, Init, CallRecord, ScanRecord
  <1>4. IdsUnique
    BY <1>2 DEF IdsUnique
  <1>5. \A a \in Row : a[2] = 0
    BY <1>2
  <1>6. Filled
    BY <1>5 DEF Filled, Below
  <1>7. Ordered
    BY <1>5 DEF Ordered, Follows, InTurn
  <1>8. \A s \in Session : Knows(call[s])
    BY NoCallType DEF Init
  <1> QED
    BY <1>3, <1>4, <1>6, <1>7, <1>8 DEF IInv, KeysInv

LEMMA NextInv == IInv /\ [Next]_vars => IInv'
  <1> SUFFICES ASSUME IInv, [Next]_vars
               PROVE  IInv'
    OBVIOUS
  <1>1. ASSUME NEW s \in Session, Allocate(s)
        PROVE  IInv'
    <2>1. CASE \E c \in Chain, n \in 1..MaxAsk : NewKeys(s, c, n) \/ GetKeys(s, c, n)
      BY <2>1, BeginStep
    <2>2. CASE ReadIndex(s)
      BY <2>2, ReadIndexStep
    <2>3. CASE Lookup(s)
      BY <2>3, LookupStep
    <2>4. CASE Insert(s)
      BY <2>4, InsertStep
    <2>5. CASE ReadLastId(s)
      BY <2>5, ReadLastIdStep
    <2>6. CASE AddOthers(s)
      BY <2>6, AddOthersStep
    <2>7. CASE Return(s)
      BY <2>7, ReturnStep
    <2>8. CASE \E a \in Address : KeyForPath(s, a)
      BY <2>8, KeyForPathStep
    <2>9. CASE NewAccount(s)
      BY <2>9, NewAccountStep
    <2> QED
      BY <1>1, <2>1, <2>2, <2>3, <2>4, <2>5, <2>6, <2>7, <2>8, <2>9 DEF Allocate
  <1>2. ASSUME NEW s \in Session, ScanStep(s) \/ Abort(s) \/ \E n \in Account : Start(s, n)
        PROVE  IInv'
    BY <1>2, ListKeysStep, ScanKeyStep, ScanRoundStep DEF ScanStep
  <1>3. ASSUME NEW t \in Tx, NEW A \in Payable, Confirm(t, A)
        PROVE  IInv'
    BY <1>3, ConfirmStep
  <1>4. CASE UNCHANGED vars
    BY <1>4, RowsSame DEF vars, IInv, TypeOK
  <1> QED
    BY <1>1, <1>2, <1>3, <1>4 DEF Next

-----------------------------------------------------------------------------
(* The theorems.                                                             *)

(* The invariant that the others follow from.                               *)
THEOREM Invariant == Spec => []IInv
  BY InitInv, NextInv, PTL DEF Spec

(* Rows, calls and scans stay what they are: what counts as used, asked for *)
(* by index or added late always has a row in the database.                 *)
THEOREM TypeCorrect == Spec => []TypeOK
  <1>1. IInv => TypeOK
    BY DEF IInv
  <1> QED
    BY <1>1, Invariant, PTL

(* Whatever sessions insert between the steps of a new_keys(), only keys    *)
(* asked for by index leave a gap below them, and the ids of the other keys *)
(* have the order of the chain, as far as they were made in it.             *)
THEOREM KeysInOrder == Spec => []ChainsInOrder
  <1>1. IInv => ChainsInOrder
    <2> SUFFICES ASSUME IInv
                 PROVE  ChainsInOrder
      OBVIOUS
    <2>1. ASSUME NEW a \in Row \ explicit, a[2] > 0
          PROVE  <<a[1], a[2] - 1>> \in Row
      <3>1. Below(a[1], a[2])
        BY DEF IInv, KeysInv, Filled
      <3>2. a[2] \in Nat /\ \A e \in explicit \cup late : e[2] \in Nat
        BY AddressFinite DEF IInv, TypeOK, Row
      <3>3. Free(a[1], a[2] - 1, a[2])
        BY <3>2 DEF Free
      <3> QED
        BY <2>1, <3>1, <3>2, <3>3 DEF Below
    <2> QED
      BY <2>1 DEF ChainsInOrder, IInv, KeysInv, Ordered
  <1> QED
    BY <1>1, Invariant, PTL

(* get_keys() and new_keys() answer with as many keys as they were asked    *)
(* for, each of them stored, although other sessions take some of them.     *)
THEOREM AnswersComplete == Spec => []AnswerComplete
  <1>1. IInv => AnswerComplete
    BY DEF IInv, Knows, AnswerComplete
  <1> QED
    BY <1>1, Invariant, PTL

(* Only get_keys() has keys from the start.                                 *)
LEMMA AnswersAtOnce ==
  ASSUME TypeOK, [Next]_vars, NEW s \in Session, call[s] = NoCall
  PROVE  call'[s].got = {} \/ \E c \in Chain, n \in 1..MaxAsk : GetKeys(s, c, n)
  <1>1. call[s].phase = "idle" /\ call[s].got = {}
    BY DEF NoCall
  <1>2. CASE call'[s] = call[s]
    BY <1>1, <1>2
  <1>3. ASSUME NEW t \in Session, Allocate(t)
        PROVE  \/ call'[s] = call[s]
               \/ \E c \in Chain, n \in 1..MaxAsk : NewKeys(s, c, n) \/ GetKeys(s, c, n)
    <2>1. CASE \E c \in Chain, n \in 1..MaxAsk : NewKeys(t, c, n) \/ GetKeys(t, c, n)
      <3>1. CASE t = s
        BY <2>1, <3>1
      <3>2. CASE t # s
        BY <2>1, <3>2, CallTypes DEF NewKeys, GetKeys, Begin
      <3> QED
        BY <3>1, <3>2
    <2>2. CASE ReadIndex(t)
      BY <1>1, <2>2, CallTypes DEF ReadIndex
    <2>3. CASE Lookup(t)
      BY <1>1, <2>3, CallTypes DEF Lookup
    <2>4. CASE Insert(t)
      BY <1>1, <2>4, CallTypes DEF Insert
    <2>5. CASE ReadLastId(t)
      BY <1>1, <2>5, CallTypes DEF ReadLastId
    <2>6. CASE AddOthers(t)
      BY <1>1, <2>6, CallTypes DEF AddOthers
    <2>7. CASE Return(t)
      BY <1>1, <2>7, CallTypes DEF Return
    <2>8. CASE \E a \in Address : KeyForPath(t, a)
      BY <2>8 DEF KeyForPath
    <2>9. CASE NewAccount(t)
      BY <2>9 DEF NewAccount
    <2> QED
      BY <1>3, <2>1, <2>2, <2>3, <2>4, <2>5, <2>6, <2>7, <2>8, <2>9 DEF Allocate
  <1>4. ASSUME NEW c \in Chain, NEW n \in 1..MaxAsk, NewKeys(s, c, n)
        PROVE  call'[s].got = {}
    BY <1>4, CallTypes DEF NewKeys, Begin, Wanted, NoCall
  <1>5. ASSUME NEW t \in Session, ScanStep(t) \/ Abort(t) \/ \E n \in Account : Start(t, n)
        PROVE  call' = call
    <2>1. ASSUME ListKeys(t) PROVE call' = call
      BY <2>1 DEF ListKeys
    <2>2. ASSUME NEW b \in Address, ScanKey(t, b) PROVE call' = call
      BY <2>2 DEF ScanKey
    <2>3. ASSUME NextChain(t) \/ Abort(t) PROVE call' = call
      BY <2>3 DEF NextChain, Abort
    <2>4. ASSUME NEW n \in Account, Start(t, n) PROVE call' = call
      BY <2>4 DEF Start
    <2> QED
      BY <1>5, <2>1, <2>2, <2>3, <2>4 DEF ScanStep
  <1>6. ASSUME NEW t \in Tx, NEW A \in Payable, Confirm(t, A)
        PROVE  call' = call
    BY <1>6 DEF Confirm
  <1>7. CASE UNCHANGED vars
    BY <1>1, <1>7 DEF vars
  <1> QED
    BY <1>1, <1>2, <1>3, <1>4, <1>5, <1>6, <1>7 DEF Next

(* get_keys() takes keys with ids above that of the last used key, and that *)
(* is enough: where the keys were made in the order of their chain, none of *)
(* them precedes a key in use.                                              *)
THEOREM UnusedAfterUsed == Spec => AnswerAfterUsed
  <1>1. ASSUME IInv, [Next]_vars, NEW s \in Session, call[s] = NoCall,
               NEW a \in call'[s].got \cap InTurn, NEW b \in used \cap InTurn, Follows(b, a)
        PROVE  FALSE
    <2>1. PICK c \in Chain, n \in 1..MaxAsk : GetKeys(s, c, n)
      BY <1>1, AnswersAtOnce DEF IInv
    <2>2. call'[s].got \subseteq Unused(c)
      <3> DEFINE k(S, p) == Wanted(c, n, S, p)
      <3>1. \A S, p : k(S, p).got = S
        BY DEF Wanted, NoCall
      <3>2. \E S, p : S \subseteq Unused(c) /\ call' = [call EXCEPT ![s] = k(S, p)]
        <4>1. FirstOf(Unused(c), n) \subseteq Unused(c)
          BY DEF FirstOf
        <4>2. CASE Cardinality(Unused(c)) > n
          BY <2>1, <4>1, <4>2 DEF GetKeys, Begin
        <4>3. CASE ~(Cardinality(Unused(c)) > n)
          BY <2>1, <4>3 DEF GetKeys, Begin
        <4> QED
          BY <4>2, <4>3
      <3> HIDE DEF k
      <3>3. call \in [Session -> CallRecord]
        BY <1>1 DEF IInv, TypeOK, CallRecord
      <3>4. PICK S, p : S \subseteq Unused(c) /\ call' = [call EXCEPT ![s] = k(S, p)]
        BY <3>2
      <3>5. call'[s] = k(S, p)
        BY <3>3, <3>4
      <3> QED
        BY <3>1, <3>4, <3>5
    <2>3. a \in Keys(c) /\ id[a] > LastUsedId(c)
      BY <2>2 DEF Unused
    <2>4. b \in Keys(c) \cap used
      BY <1>1, <2>3 DEF Follows, Keys, InTurn
    <2>5. id[b] <= LastUsedId(c) /\ LastUsedId(c) \in Nat
      <3>1. id \in [Address -> Nat]
        BY <1>1 DEF IInv, TypeOK
      <3> QED
        BY ONLY <2>1, <2>4, <3>1, LastUsedIsLast, Zenon
    <2>6. id[a] < id[b]
      BY <1>1 DEF IInv, KeysInv, Ordered
    <2>7. id[a] \in Nat /\ id[b] \in Nat
      <3>1. id \in [Address -> Nat]
        BY <1>1 DEF IInv, TypeOK
      <3>2. a \in Address /\ b \in Address
        BY <2>3, <2>4 DEF Keys, Row
      <3> QED
        BY <3>1, <3>2
    <2> QED
      BY <2>3, <2>5, <2>6, <2>7
  <1>2. IInv /\ [Next]_vars
          => [\A s \in Session : call[s] = NoCall =>
                \A a \in call'[s].got \cap InTurn, b \in used \cap InTurn : ~Follows(b, a)]_vars
    BY <1>1
  <1> QED
    BY <1>2, Invariant, PTL DEF Spec, AnswerAfterUsed

-----------------------------------------------------------------------------
(* scan() by a program that has the wallet for itself.                       *)

(* All elements of a set of at most n are among the first n.                 *)
LEMMA SmallFirst ==
  ASSUME NEW S, IsFiniteSet(S), NEW n \in Nat, Cardinality(S) <= n, NEW d, \A a \in S : d[a] \in Nat
  PROVE  {a \in S : Cardinality({b \in S : d[b] < d[a]}) < n} = S
  <1> SUFFICES ASSUME NEW a \in S
               PROVE  Cardinality({b \in S : d[b] < d[a]}) < n
    OBVIOUS
  <1> DEFINE B == {b \in S : d[b] < d[a]}
  <1>1. B \subseteq S \ {a}
    OBVIOUS
  <1>2. IsFiniteSet(S \ {a}) /\ Cardinality(S \ {a}) = Cardinality(S) - 1
    BY FS_RemoveElement
  <1>3. Cardinality(B) <= Cardinality(S \ {a})
    <2> HIDE DEF B
    <2> QED
      BY <1>1, <1>2, FS_Subset
  <1>4. IsFiniteSet(B)
    <2> HIDE DEF B
    <2> QED
      BY <1>1, <1>2, FS_Subset
  <1>5. Cardinality(B) \in Nat /\ Cardinality(S) \in Nat
    <2> HIDE DEF B
    <2> QED
      BY <1>4, FS_CardinalityType
  <1> QED
    BY <1>2, <1>3, <1>5

(* There are Gap unused keys after the last used one, all of them in A.      *)
HasGap(c, A) ==
  LET L == FirstOf(Unused(c), Gap)
  IN  Cardinality(L) = Gap /\ L \subseteq A

LEMMA UnusedFinite ==
  ASSUME NEW c
  PROVE  /\ Unused(c) \subseteq Address /\ Unused(c) \subseteq Row
         /\ IsFiniteSet(Unused(c)) /\ Cardinality(Unused(c)) \in Nat
  <1>1. Unused(c) \subseteq Keys(c)
    BY DEF Unused
  <1> QED
    BY <1>1, KeysFinite, FS_Subset, FS_CardinalityType

(* Only rows and their use matter.                                           *)
LEMMA SameUnused ==
  ASSUME UNCHANGED <<id, used>>, NEW c
  PROVE  FirstOf(Unused(c), Gap)' = FirstOf(Unused(c), Gap)
  <1>1. Keys(c)' = Keys(c)
    BY DEF Keys, Row
  <1>2. LastUsedId(c)' = LastUsedId(c)
    BY <1>1 DEF LastUsedId
  <1>3. Unused(c)' = Unused(c)
    BY <1>1, <1>2 DEF Unused
  <1> QED
    BY <1>3 DEF FirstOf

(* The list of get_keys() has Gap keys, old ones or new ones.                *)
LEMMA ListKeysGap ==
  ASSUME IInv, NEW s \in Session, ListKeys(s), NEW c, c = scan[s].chain
  PROVE  HasGap(c, scan[s].asked \cup scan[s].todo)' /\ scan'[s].chain = c /\ call' = call
  <1>1. PICK k \in ScanRecord : k = scan[s]
    BY ScanTypes DEF IInv
  <1> DEFINE U == Unused(c)
             m == Gap - Cardinality(U)
             i == NextIndex(c)
             f == LastId + 1
             N == IF m > 0 THEN Numbered(c, i, m, f) ELSE [a \in {} |-> 0]
             T == (FirstOf(U, Gap) \cup DOMAIN N) \ k.asked
             h == [k EXCEPT !.todo = T, !.found = FALSE]
  <1>2. /\ DOMAIN N \subseteq Address /\ id' = Inserted(N)
        /\ UNCHANGED <<used, call, explicit, late>>
    BY <1>1 DEF ListKeys
  <1>3. c = k.chain /\ c \in Chain
    BY <1>1 DEF ScanRecord
  <1>4. scan'[s] = h
    BY <1>1, <1>3, ScanTypes DEF ListKeys, IInv, ScanRecord, FoundInRound
  <1>5. scan'[s].asked \cup scan'[s].todo = k.asked \cup FirstOf(U, Gap) \cup DOMAIN N /\ scan'[s].chain = c
    <2>1. h.asked = k.asked /\ h.todo = T /\ h.chain = k.chain
      BY DEF ScanRecord
    <2> HIDE DEF h
    <2> QED
      BY <1>3, <1>4, <2>1
  <1>6. /\ U \subseteq Address /\ U \subseteq Row /\ IsFiniteSet(U) /\ Cardinality(U) \in Nat
        /\ id \in [Address -> Nat] /\ Gap \in Nat \ {0}
    BY UnusedFinite, AllocationAssumption DEF IInv, TypeOK
  <1>7. CASE m > 0
    <2>1. m \in Nat /\ m = Gap - Cardinality(U) /\ N = Numbered(c, i, m, f)
      BY <1>6, <1>7
    <2>2. i \in Nat /\ \A a \in Keys(c) : a[2] < i
      BY <1>3, NextIndexIsNext
    <2>3. f \in Nat \ {0} /\ \A a \in Address : id[a] < f
      BY <1>6, LastIdIsLast
    <2>4. DOMAIN N = Places(c, i, m) /\ \A a \in DOMAIN N : N[a] = f + a[2] - i
      <3> HIDE DEF i, m, f, N
      <3> QED
        BY <2>1, <2>2, <2>3 DEF Numbered, Places
    <2>5. \A a \in DOMAIN N : a[1] = c /\ a[2] \in Nat /\ a[2] >= i /\ N[a] \in Nat \ {0} /\ N[a] >= f
      <3> SUFFICES ASSUME NEW a \in DOMAIN N
                   PROVE  a[1] = c /\ a[2] \in Nat /\ a[2] >= i /\ N[a] \in Nat \ {0} /\ N[a] >= f
        OBVIOUS
      <3> HIDE DEF i, m, f, N
      <3>1. a = <<c, a[2]>> /\ a[2] \in i..(i + m - 1) /\ a[2] \in Nat
        BY <1>3, <2>1, <2>2, <2>4, PlaceIs
      <3>2. N[a] = f + a[2] - i
        BY <2>4
      <3> QED
        BY <2>2, <2>3, <3>1, <3>2
    <2>6. \A a \in DOMAIN N : a \notin Row
      <3> HIDE DEF i, m, f, N
      <3> QED
        BY <2>2, <2>5 DEF Keys
    <2>7. /\ Row' = Row \cup DOMAIN N
          /\ \A a \in Row : id'[a] = id[a]
          /\ \A a \in DOMAIN N : id'[a] = N[a]
      <3> HIDE DEF i, m, f, N
      <3> QED
        BY <1>2, <2>5, <2>6, InsertedRows DEF IInv
    <2> HIDE DEF i, m, f, N, U, T, h
    <2>8. Keys(c)' = Keys(c) \cup DOMAIN N
      BY <2>5, <2>7 DEF Keys
    <2>9. used' = used /\ used \subseteq Row
      BY <1>2 DEF IInv, TypeOK
    <2>10. LastUsedId(c)' = LastUsedId(c)
      <3>1. (Keys(c) \cap used)' = Keys(c) \cap used
        BY <2>6, <2>8, <2>9
      <3>2. \A a \in Keys(c) \cap used : id'[a] = id[a]
        BY <2>7, <2>9
      <3>3. {id'[a] : a \in (Keys(c) \cap used)'} = {id[a] : a \in Keys(c) \cap used}
        BY <3>1, <3>2
      <3> QED
        BY <3>3 DEF LastUsedId
    <2>11. LastUsedId(c) \in Nat /\ LastUsedId(c) < f
      <3>1. LastUsedId(c) \in Nat
        BY <1>3, <1>6, LastUsedIsLast
      <3>2. LastUsedId(c) = 0 \/ \E a \in Address : LastUsedId(c) = id[a]
        BY <1>3, <1>6, LastUsedIsLast
      <3> QED
        BY <2>3, <3>1, <3>2
    <2>12. Unused(c)' = U \cup DOMAIN N
      <3>1. ASSUME NEW a \in Keys(c)
            PROVE  a \in Unused(c)' <=> a \in U
        <4>1. a \in Row
          BY DEF Keys
        <4> QED
          BY <2>7, <2>8, <2>9, <2>10, <4>1 DEF Unused, U
      <3>2. ASSUME NEW a \in DOMAIN N
            PROVE  a \in Unused(c)'
        BY <2>3, <2>5, <2>6, <2>7, <2>8, <2>9, <2>10, <2>11 DEF Unused
      <3>3. Unused(c)' \subseteq Keys(c) \cup DOMAIN N /\ U \subseteq Keys(c)
        BY <2>8 DEF Unused, U
      <3> QED
        BY <3>1, <3>2, <3>3
    <2>13. IsFiniteSet(U \cup DOMAIN N) /\ Cardinality(U \cup DOMAIN N) = Gap
      <3>1. IsFiniteSet(DOMAIN N) /\ Cardinality(DOMAIN N) = m
        BY <1>3, <2>1, <2>2, <2>4, PlacesSize
      <3>2. U \cap DOMAIN N = {}
        BY <1>6, <2>6
      <3>3. /\ IsFiniteSet(U \cup DOMAIN N)
            /\ Cardinality(U \cup DOMAIN N) = Cardinality(U) + Cardinality(DOMAIN N) - Cardinality(U \cap DOMAIN N)
        BY <1>6, <3>1, FS_Union
      <3>4. Cardinality(U \cap DOMAIN N) = 0
        BY <3>2, FS_EmptySet
      <3> QED
        BY <1>6, <2>1, <3>1, <3>3, <3>4
    <2>14. PICK d : d = id' /\ \A a \in U \cup DOMAIN N : d[a] \in Nat
      BY <1>6, <2>5, <2>7
    <2>15. FirstOf(Unused(c), Gap)' = U \cup DOMAIN N
      <3>1. {a \in U \cup DOMAIN N : Cardinality({b \in U \cup DOMAIN N : d[b] < d[a]}) < Gap} = U \cup DOMAIN N
        BY <1>6, <2>13, <2>14, SmallFirst
      <3> QED
        BY <2>12, <2>14, <3>1 DEF FirstOf
    <2>16. FirstOf(U, Gap) = U
      <3>1. Cardinality(U) <= Gap /\ \A a \in U : id[a] \in Nat
        BY <1>6, <2>1
      <3> QED
        BY <1>6, <3>1, SmallFirst DEF FirstOf
    <2> QED
      BY <1>2, <1>5, <2>13, <2>15, <2>16 DEF HasGap
  <1>8. CASE ~(m > 0)
    <2>1. DOMAIN N = {} /\ Gap <= Cardinality(U)
      BY <1>6, <1>8
    <2>2. id' = id
      <3> HIDE DEF N
      <3> QED
        BY <1>2, <1>6, <2>1 DEF Inserted
    <2>3. FirstOf(Unused(c), Gap)' = FirstOf(Unused(c), Gap)
      BY <1>2, <2>2, SameUnused
    <2>4. Cardinality(FirstOf(U, Gap)) = Gap
      <3>1. \A a \in U : id[a] \in Nat
        BY <1>6
      <3>2. \A a, b \in U : id[a] = id[b] => a = b
        BY <1>6 DEF IInv, KeysInv, IdsUnique
      <3> HIDE DEF U
      <3> QED
        BY <1>6, <2>1, <3>1, <3>2, FirstOfSize
    <2> HIDE DEF N, T, h
    <2> QED
      BY <1>2, <1>5, <2>3, <2>4 DEF HasGap
  <1> QED
    BY <1>7, <1>8

(* What a scan knows: nothing else is in progress, and when the list was    *)
(* gone through without news, it has the gap.                               *)
Round(s) ==
  scan[s].on =>
    /\ call[s].phase = "idle"
    /\ scan[s].found \/ HasGap(scan[s].chain, scan[s].asked \cup scan[s].todo)

Alone == \A s, t \in Session : s = t

LEMMA RoundStep ==
  ASSUME Alone, IInv, NEW s \in Session, Round(s), [Next]_vars
  PROVE  Round(s)'
  <1>1. PICK k \in ScanRecord : k = scan[s]
    BY ScanTypes DEF IInv
  <1>2. ASSUME NEW t \in Session, Allocate(t)
        PROVE  Round(s)'
    <2>1. Allocate(s)
      BY <1>2 DEF Alone
    <2>2. UNCHANGED scan /\ ~(scan[s].on /\ call[s].phase = "idle")
      BY <2>1 DEF Allocate, NewKeys, GetKeys, Begin, ReadIndex, Lookup, Insert, ReadLastId, AddOthers,
                  Return, KeyForPath, NewAccount
    <2> QED
      BY <2>2 DEF Round
  <1>3. ASSUME NEW t \in Session, ListKeys(t)
        PROVE  Round(s)'
    <2>1. ListKeys(s)
      BY <1>3 DEF Alone
    <2>2. PICK c : c = scan[s].chain
      OBVIOUS
    <2>3. HasGap(c, scan[s].asked \cup scan[s].todo)' /\ scan'[s].chain = c /\ call' = call
      BY <2>1, <2>2, ListKeysGap
    <2>4. scan[s].on
      BY <2>1 DEF ListKeys, Looping
    <2> QED
      BY <2>3, <2>4 DEF Round, HasGap
  <1>4. ASSUME NEW t \in Session, NEW a \in Address, ScanKey(t, a)
        PROVE  Round(s)'
    <2>1. ScanKey(s, a)
      BY <1>4 DEF Alone
    <2> DEFINE b == (k.found \/ News(a) # {})
               h == [k EXCEPT !.todo = @ \ {a}, !.asked = @ \cup {a}, !.found = b]
    <2>2. scan'[s] = h
      BY <1>1, <2>1, ScanTypes DEF ScanKey, IInv, ScanRecord
    <2>3. /\ h.chain = k.chain /\ h.found = b /\ h.todo = k.todo \ {a} /\ h.asked = k.asked \cup {a}
      BY DEF ScanRecord
    <2> HIDE DEF h
    <2>4. CASE scan'[s].found
      BY <2>1, <2>4 DEF Round, ScanKey
    <2>5. CASE ~scan'[s].found
      <3>1. ~k.found /\ News(a) = {}
        BY <2>2, <2>3, <2>5
      <3>2. UNCHANGED <<id, used, call>>
        BY <2>1, <3>1 DEF ScanKey
      <3>3. HasGap(k.chain, k.asked \cup k.todo) /\ call[s].phase = "idle"
        BY <1>1, <2>1, <3>1 DEF Round, ScanKey
      <3>4. FirstOf(Unused(k.chain), Gap)' = FirstOf(Unused(k.chain), Gap)
        BY <3>2, SameUnused
      <3>5. scan'[s].chain = k.chain /\ k.asked \cup k.todo \subseteq scan'[s].asked \cup scan'[s].todo
        BY <2>2, <2>3
      <3>6. HasGap(scan[s].chain, scan[s].asked \cup scan[s].todo)'
        BY <3>3, <3>4, <3>5 DEF HasGap
      <3> QED
        BY <3>2, <3>3, <3>6 DEF Round
    <2> QED
      BY <2>4, <2>5
  <1>5. ASSUME NEW t \in Session, NextChain(t) \/ Abort(t) \/ \E n \in Account : Start(t, n)
        PROVE  Round(s)'
    <2>1. NextChain(s) \/ Abort(s) \/ \E n \in Account : Start(s, n)
      BY <1>5 DEF Alone
    <2>2. UNCHANGED call /\ (scan[s].on \/ call[s].phase = "idle")
      BY <2>1 DEF NextChain, Looping, Abort, Start
    <2>3. ~scan'[s].on \/ scan'[s].found
      <3>1. CASE NextChain(s)
        <4> DEFINE h == [k EXCEPT !.chain = <<@[1], 1>>, !.found = TRUE]
        <4>1. scan'[s] = h \/ scan'[s] = NoScan
          BY <1>1, <3>1, ScanTypes DEF NextChain, IInv
        <4>2. h.found /\ ~NoScan.on
          BY DEF ScanRecord, NoScan
        <4> HIDE DEF h
        <4> QED
          BY <4>1, <4>2
      <3>2. CASE Abort(s)
        BY <3>2, ScanTypes DEF Abort, NoScan, IInv
      <3>3. ASSUME NEW n \in Account, Start(s, n)
            PROVE  scan'[s].found
        BY <3>3, ScanTypes DEF Start, IInv
      <3> QED
        BY <2>1, <3>1, <3>2, <3>3
    <2> QED
      BY <2>2, <2>3 DEF Round
  <1>6. ASSUME UNCHANGED <<id, used, call, scan>>
        PROVE  Round(s)'
    <2>1. PICK c : c = scan[s].chain
      OBVIOUS
    <2>2. FirstOf(Unused(c), Gap)' = FirstOf(Unused(c), Gap)
      BY <1>6, SameUnused
    <2> QED
      BY <1>6, <2>1, <2>2 DEF Round, HasGap
  <1>7. ASSUME NEW t \in Tx, NEW A \in Payable, Confirm(t, A)
        PROVE  Round(s)'
    BY <1>6, <1>7 DEF Confirm
  <1>8. CASE UNCHANGED vars
    BY <1>6, <1>8 DEF vars
  <1> QED
    BY <1>2, <1>3, <1>4, <1>5, <1>7, <1>8 DEF Next, ScanStep

(* A program that has the wallet for itself leaves a chain only when it has  *)
(* found Gap unused keys in a row after the last used one and asked the      *)
(* providers for each of them, however transactions arrive during the scan.  *)
(* Other programs could take or use keys between the rounds.                 *)
THEOREM GapAsked ==
  ASSUME Alone
  PROVE  Spec => GapScanned
  <1> DEFINE Rounds == \A s \in Session : Round(s)
  <1>1. Init => Rounds
    BY DEF Init, Round, NoScan
  <1>2. IInv /\ Rounds /\ [Next]_vars => Rounds'
    BY RoundStep
  <1>3. ASSUME IInv, Rounds, NEW s \in Session, NextChain(s)
        PROVE  LET L == FirstOf(Unused(scan[s].chain), Gap)
               IN  Cardinality(L) = Gap /\ L \subseteq scan[s].asked
    <2>1. scan[s].on /\ scan[s].todo = {} /\ ~scan[s].found
      BY <1>3 DEF NextChain, Looping
    <2> QED
      BY <1>3, <2>1 DEF Round, HasGap
  <1>4. IInv /\ Rounds /\ [Next]_vars
          => [\A s \in Session : NextChain(s) =>
                LET L == FirstOf(Unused(scan[s].chain), Gap)
                IN  Cardinality(L) = Gap /\ L \subseteq scan[s].asked]_vars
    BY <1>3
  <1> HIDE DEF Rounds
  <1> QED
    BY <1>1, <1>2, <1>4, Invariant, PTL DEF Spec, GapScanned
=============================================================================
