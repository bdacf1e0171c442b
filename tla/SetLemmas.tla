------------------------------ MODULE SetLemmas ------------------------------
(* What the proofs about other modules use of finite sets: their largest    *)
(* and smallest numbers, induction over their subsets, and sums.  The       *)
(* induction theorems of the library have an operator as a parameter; the   *)
(* ones here speak about the set of what has the property.                  *)
EXTENDS Integers, FiniteSetsExt, FiniteSetTheorems, FunctionTheorems, TLAPS

-----------------------------------------------------------------------------
(* The largest and the smallest.                                             *)

(* The elements of S below a, in the order that f gives them.               *)
Lesser(S, f, a) == {b \in S : f[b] < f[a]}

(* How many elements are below an element: each number once.                *)
Rank(S, f) == [a \in S |-> Cardinality(Lesser(S, f, a))]

LEMMA RankIsBijection ==
  ASSUME NEW S, IsFiniteSet(S), NEW f, \A a \in S : f[a] \in Nat,
         \A a, b \in S : f[a] = f[b] => a = b
  PROVE  /\ Rank(S, f) \in Injection(S, 0..(Cardinality(S) - 1))
         /\ Rank(S, f) \in Surjection(S, 0..(Cardinality(S) - 1))
  <1> DEFINE T == 0..(Cardinality(S) - 1)
  <1>1. Cardinality(S) \in Nat
    BY FS_CardinalityType
  <1>2. ASSUME NEW a \in S
        PROVE  IsFiniteSet(Lesser(S, f, a)) /\ Cardinality(Lesser(S, f, a)) \in T
    <2>1. Lesser(S, f, a) \in SUBSET (S \ {a})
      BY DEF Lesser
    <2>2. IsFiniteSet(S \ {a}) /\ Cardinality(S \ {a}) = Cardinality(S) - 1
      BY FS_RemoveElement
    <2>3. IsFiniteSet(Lesser(S, f, a)) /\ Cardinality(Lesser(S, f, a)) <= Cardinality(S) - 1
      BY <2>1, <2>2, FS_Subset
    <2>4. Cardinality(Lesser(S, f, a)) \in Nat
      BY <2>3, FS_CardinalityType
    <2> QED
      BY <1>1, <2>3, <2>4
  <1>3. ASSUME NEW a \in S, NEW b \in S, f[a] < f[b]
        PROVE  Cardinality(Lesser(S, f, a)) < Cardinality(Lesser(S, f, b))
    <2>1. Lesser(S, f, a) \cup {a} \in SUBSET Lesser(S, f, b) /\ a \notin Lesser(S, f, a)
      BY <1>3 DEF Lesser
    <2>2. IsFiniteSet(Lesser(S, f, a)) /\ Cardinality(Lesser(S, f, a)) \in Nat
      BY <1>2
    <2>3. Cardinality(Lesser(S, f, a) \cup {a}) = Cardinality(Lesser(S, f, a)) + 1
      BY <2>1, <2>2, FS_AddElement
    <2>4. Cardinality(Lesser(S, f, a) \cup {a}) <= Cardinality(Lesser(S, f, b))
      BY <1>2, <2>1, FS_Subset
    <2>5. Cardinality(Lesser(S, f, b)) \in Nat
      BY <1>2
    <2> QED
      BY <2>2, <2>3, <2>4, <2>5
  <1>4. Rank(S, f) \in [S -> T]
    BY <1>2 DEF Rank
  <1>5. \A a, b \in S : Rank(S, f)[a] = Rank(S, f)[b] => a = b
    <2> SUFFICES ASSUME NEW a \in S, NEW b \in S, a # b
                 PROVE  Rank(S, f)[a] # Rank(S, f)[b]
      OBVIOUS
    <2>1. f[a] < f[b] \/ f[b] < f[a]
      OBVIOUS
    <2>2. Cardinality(Lesser(S, f, a)) \in Nat /\ Cardinality(Lesser(S, f, b)) \in Nat
      BY <1>2
    <2> QED
      BY <1>3, <2>1, <2>2 DEF Rank
  <1>6. Rank(S, f) \in Injection(S, T)
    BY <1>4, <1>5, Fun_IsInj
  <1>7. IsFiniteSet(T) /\ Cardinality(T) = Cardinality(S)
    BY <1>1, FS_Interval
  <1>8. Rank(S, f) \in Surjection(S, T)
    BY <1>6, <1>7, FS_Injection
  <1> QED
    BY <1>6, <1>8

(* A finite set of numbers that is not empty has a largest one.             *)
LEMMA MaxIsLargest ==
  ASSUME NEW S \in SUBSET Nat, IsFiniteSet(S), S # {}
  PROVE  Max(S) \in S /\ \A x \in S : x <= Max(S)
  <1> DEFINE f == [x \in S |-> x]
             n == Cardinality(S) - 1
  <1>1. Cardinality(S) \in Nat \ {0}
    BY FS_CardinalityType, FS_EmptySet
  <1>2. Rank(S, f) \in Surjection(S, 0..n)
    <2>1. \A a \in S : f[a] \in Nat
      OBVIOUS
    <2>2. \A a, b \in S : f[a] = f[b] => a = b
      OBVIOUS
    <2> HIDE DEF f
    <2> QED
      BY <2>1, <2>2, RankIsBijection
  <1>3. PICK m \in S : Rank(S, f)[m] = n
    BY <1>1, <1>2 DEF Surjection
  <1>4. Lesser(S, f, m) = S \ {m}
    <2>1. Cardinality(Lesser(S, f, m)) = n
      BY <1>3 DEF Rank
    <2>2. Lesser(S, f, m) \in SUBSET (S \ {m})
      BY DEF Lesser
    <2>3. IsFiniteSet(S \ {m}) /\ Cardinality(S \ {m}) = n
      BY FS_RemoveElement
    <2> QED
      BY <2>1, <2>2, <2>3, FS_Subset
  <1>5. \A x \in S : m >= x
    <2> SUFFICES ASSUME NEW x \in S, x # m
                 PROVE  m >= x
      OBVIOUS
    <2>1. x \in Lesser(S, f, m)
      BY <1>4
    <2> QED
      BY <2>1 DEF Lesser
  <1> HIDE DEF f
  <1>6. Max(S) \in S /\ \A x \in S : Max(S) >= x
    BY <1>5, Zenon DEF Max
  <1> QED
    BY <1>6

(* A set of numbers up to n that is not empty has a smallest one.           *)
LEMMA SmallestNumber ==
  ASSUME NEW n \in Nat, NEW S \in SUBSET (0..n), S # {}
  PROVE  \E m \in S : \A x \in S : m <= x
  <1> DEFINE T == {n - x : x \in S}
  <1>1. \A x \in S : x \in Nat /\ n - x \in 0..n
    OBVIOUS
  <1>2. T \subseteq 0..n /\ T # {}
    BY <1>1
  <1>3. PICK k \in T : \A x \in T : x <= k
    <2>1. IsFiniteSet(0..n) /\ 0..n \subseteq Nat
      BY FS_Interval
    <2> HIDE DEF T
    <2>2. IsFiniteSet(T) /\ T \in SUBSET Nat
      BY <1>2, <2>1, FS_Subset
    <2> QED
      BY <1>2, <2>2, MaxIsLargest
  <1>4. PICK m \in S : k = n - m
    BY <1>3
  <1>5. ASSUME NEW x \in S
        PROVE  m <= x
    <2>1. n - x <= k
      BY <1>3
    <2> QED
      BY <1>1, <1>4, <2>1
  <1> QED
    BY <1>5

(* What Min() gives.                                                        *)
LEMMA MinIsSmallest ==
  ASSUME NEW n \in Nat, NEW S \in SUBSET (0..n), S # {}
  PROVE  Min(S) \in S /\ \A x \in S : Min(S) <= x
  <1>1. PICK m \in S : \A x \in S : m <= x
    BY SmallestNumber
  <1> QED
    BY <1>1, Zenon DEF Min

(* The elements of a finite set with the largest and the smallest value.    *)
LEMMA ExtremeElements ==
  ASSUME NEW S, IsFiniteSet(S), S # {}, NEW f, \A x \in S : f[x] \in Nat
  PROVE  /\ \E x \in S : \A y \in S : f[y] <= f[x]
         /\ \E x \in S : \A y \in S : f[x] <= f[y]
  <1> DEFINE V == {f[x] : x \in S}
             g == [x \in S |-> f[x]]
  <1>1. IsFiniteSet(V)
    <2>1. g \in Surjection(S, V)
      BY Fun_IsSurj
    <2> QED
      BY <2>1, FS_Surjection
  <1>2. V \in SUBSET Nat /\ V # {}
    OBVIOUS
  <1>3. PICK m \in V : \A v \in V : v <= m
    <2> HIDE DEF V
    <2> QED
      BY <1>1, <1>2, MaxIsLargest
  <1>4. PICK k \in V : \A v \in V : k <= v
    <2>1. m \in Nat /\ V \in SUBSET (0..m)
      BY <1>2, <1>3
    <2> HIDE DEF V
    <2> QED
      BY <1>2, <2>1, SmallestNumber
  <1> QED
    BY <1>3, <1>4

-----------------------------------------------------------------------------
(* Induction.                                                                *)

(* Counting up to n.                                                        *)
LEMMA CountInduction ==
  ASSUME NEW n \in Nat, NEW G, 0 \in G, \A i \in 0..(n - 1) : i \in G => i + 1 \in G
  PROVE  0..n \subseteq G
  <1> SUFFICES ASSUME (0..n) \ G # {}
               PROVE  FALSE
    OBVIOUS
  <1>1. PICK m \in (0..n) \ G : \A x \in (0..n) \ G : m <= x
    BY SmallestNumber
  <1>2. m # 0 /\ m - 1 \in 0..(n - 1)
    BY <1>1
  <1>3. m - 1 \in G
    BY <1>1, <1>2
  <1> QED
    BY <1>1, <1>2, <1>3

(* From subsets with an element less.                                       *)
LEMMA SubsetInduction ==
  ASSUME NEW S, IsFiniteSet(S), NEW G, {} \in G,
         \A T \in SUBSET S : T # {} /\ (\A x \in T : T \ {x} \in G) => T \in G
  PROVE  SUBSET S \subseteq G
  <1> DEFINE B == (SUBSET S) \ G
             n == Cardinality(S)
             N == {Cardinality(T) : T \in B}
  <1> SUFFICES ASSUME B # {}
               PROVE  FALSE
    OBVIOUS
  <1>1. \A T \in SUBSET S : IsFiniteSet(T) /\ Cardinality(T) \in Nat /\ Cardinality(T) <= n
    BY FS_Subset, FS_CardinalityType
  <1>2. n \in Nat /\ N \in SUBSET (0..n) /\ N # {}
    BY <1>1, FS_CardinalityType
  <1>3. PICK m \in N : \A x \in N : m <= x
    <2> HIDE DEF N, n
    <2> QED
      BY <1>2, SmallestNumber
  <1>4. PICK T \in B : m = Cardinality(T)
    BY <1>3
  <1>5. ASSUME NEW x \in T
        PROVE  T \ {x} \in G
    <2>1. Cardinality(T \ {x}) = m - 1
      BY <1>1, <1>4, FS_RemoveElement
    <2>2. m \in Nat
      BY <1>1, <1>4
    <2>3. T \ {x} \notin B
      BY <1>3, <2>1, <2>2
    <2> QED
      BY <1>4, <2>3
  <1> QED
    BY <1>4, <1>5

-----------------------------------------------------------------------------
(* Sums.                                                                     *)

(* it[T] is the sum of f over T, for all subsets T of S.                    *)
IsSum(it, f, S) ==
  /\ it \in [SUBSET S -> Int]
  /\ it[{}] = 0
  /\ \A T \in SUBSET S : \A x \in T : it[T] = f[x] + it[T \ {x}]

(* The order in which values are added: ch picks one of a set.              *)
Picks(ch, S) == \A T \in SUBSET S : T # {} => ch[T] \in T

(* One value after the other is added.                                      *)
AddsUp(it, f, ch, S) ==
  /\ it = [T \in SUBSET S |-> it[T]]
  /\ it[{}] = 0
  /\ \A T \in SUBSET S : T # {} =>
       it[T] \in {f[ch[T]] + it[T \ {ch[T]}], it[T \ {ch[T]}] + f[ch[T]]}

(* The order does not matter.                                               *)
LEMMA AddedUpIsSum ==
  ASSUME NEW S, IsFiniteSet(S), NEW f, \A x \in S : f[x] \in Int,
         NEW ch, Picks(ch, S), NEW it, AddsUp(it, f, ch, S)
  PROVE  IsSum(it, f, S)
  <1> DEFINE Good(T) == /\ it[T] \in Int
                        /\ \A x \in T : it[T] = f[x] + it[T \ {x}] /\ it[T \ {x}] \in Int
             G == {T \in SUBSET S : Good(T)}
  <1>1. {} \in G
    BY DEF AddsUp
  <1>2. ASSUME NEW T \in SUBSET S, T # {}, \A x \in T : T \ {x} \in G
        PROVE  T \in G
    <2>1. PICK c \in T : it[T] \in {f[c] + it[T \ {c}], it[T \ {c}] + f[c]}
      BY <1>2 DEF AddsUp, Picks
    <2>2. \A x \in T : it[T \ {x}] \in Int /\ f[x] \in Int
      BY <1>2
    <2>3. it[T] \in Int /\ it[T] = f[c] + it[T \ {c}]
      <3>1. PICK v : v = it[T \ {c}]
        OBVIOUS
      <3>2. v \in Int /\ f[c] \in Int
        BY <2>2, <3>1
      <3> QED
        BY <2>1, <3>1, <3>2
    <2>4. ASSUME NEW x \in T, x # c
          PROVE  it[T] = f[x] + it[T \ {x}]
      <3>1. Good(T \ {c}) /\ x \in T \ {c}
        BY <1>2, <2>1, <2>4
      <3>2. it[T \ {c}] = f[x] + it[(T \ {c}) \ {x}] /\ it[(T \ {c}) \ {x}] \in Int
        BY <3>1
      <3>3. Good(T \ {x}) /\ c \in T \ {x}
        BY <1>2, <2>1, <2>4
      <3>4. it[T \ {x}] = f[c] + it[(T \ {x}) \ {c}]
        BY <3>3
      <3>5. (T \ {c}) \ {x} = (T \ {x}) \ {c}
        OBVIOUS
      <3>6. PICK u \in Int : u = it[(T \ {c}) \ {x}]
        BY <3>2
      <3>7. PICK v : v = it[T \ {c}]
        OBVIOUS
      <3>8. PICK w : w = it[T \ {x}]
        OBVIOUS
      <3>9. it[T] = f[c] + v /\ v = f[x] + u /\ w = f[c] + u
        BY <2>3, <3>2, <3>4, <3>5, <3>6, <3>7, <3>8
      <3> QED
        BY <2>2, <3>6, <3>8, <3>9
    <2>5. \A x \in T : it[T] = f[x] + it[T \ {x}]
      BY <2>3, <2>4
    <2>6. Good(T)
      BY <2>2, <2>3, <2>5
    <2> QED
      BY <2>6
  <1>3. SUBSET S \subseteq G
    <2> HIDE DEF G
    <2> QED
      BY <1>1, <1>2, SubsetInduction
  <1>4. it \in [SUBSET S -> Int]
    BY <1>3 DEF AddsUp
  <1> QED
    BY <1>3, <1>4 DEF IsSum, AddsUp

(* A fold: a step for each element, in the order of ch.                     *)
IsFold(it, step, base, ch, S) ==
  /\ it[{}] = base
  /\ \A T \in SUBSET S : T # {} => it[T] = step[<<it[T \ {ch[T]}], ch[T]>>]

(* Every fold over a finite set is a function.                              *)
LEMMA FoldExists ==
  ASSUME NEW S, IsFiniteSet(S), NEW A, NEW base \in A, NEW step \in [A \X S -> A],
         NEW ch, Picks(ch, S)
  PROVE  \E it \in [SUBSET S -> A] : IsFold(it, step, base, ch, S)
  <1> DEFINE next(it) == [T \in SUBSET S |-> IF T = {} THEN base
                                             ELSE step[<<it[T \ {ch[T]}], ch[T]>>]]
             Upto(n) == {T \in SUBSET S : Cardinality(T) <= n}
             G == {n \in Nat : \E it \in [SUBSET S -> A] :
                                \A T \in Upto(n) : it[T] = next(it)[T]}
  <1>1. \A T \in SUBSET S : IsFiniteSet(T) /\ Cardinality(T) \in Nat /\ Cardinality(T) <= Cardinality(S)
    BY FS_Subset, FS_CardinalityType
  <1>2. 0 \in G
    <2>1. \A T \in Upto(0) : T = {}
      BY <1>1, FS_EmptySet
    <2> DEFINE it == [T \in SUBSET S |-> base]
    <2>2. it \in [SUBSET S -> A]
      OBVIOUS
    <2>3. \A T \in Upto(0) : it[T] = next(it)[T]
      BY <2>1
    <2> QED
      BY <2>2, <2>3
  <1>3. ASSUME NEW n \in Nat, n \in G
        PROVE  n + 1 \in G
    <2>1. PICK it \in [SUBSET S -> A] : \A T \in Upto(n) : it[T] = next(it)[T]
      BY <1>3
    <2> DEFINE more == next(it)
    <2>2. more \in [SUBSET S -> A]
      <3> SUFFICES ASSUME NEW T \in SUBSET S, T # {}
                   PROVE  step[<<it[T \ {ch[T]}], ch[T]>>] \in A
        OBVIOUS
      <3>1. PICK c \in T : c = ch[T]
        BY DEF Picks
      <3> QED
        BY <3>1
    <2>3. ASSUME NEW T \in Upto(n + 1)
          PROVE  more[T] = next(more)[T]
      <3>1. CASE T = {}
        BY <3>1
      <3>2. CASE T # {}
        <4>1. PICK c \in T : c = ch[T]
          BY <3>2 DEF Picks
        <4>2. Cardinality(T \ {c}) = Cardinality(T) - 1 /\ T \ {c} \in SUBSET S
          BY <1>1, <4>1, FS_RemoveElement
        <4>3. T \ {c} \in Upto(n)
          BY <1>1, <4>2
        <4>4. it[T \ {c}] = more[T \ {c}]
          BY <2>1, <4>3
        <4>5. more[T] = step[<<it[T \ {c}], c>>] /\ next(more)[T] = step[<<more[T \ {c}], c>>]
          BY <3>2, <4>1
        <4> QED
          BY <4>4, <4>5
      <3> QED
        BY <3>1, <3>2
    <2> HIDE DEF more, next
    <2> QED
      BY <2>2, <2>3
  <1>4. Cardinality(S) \in G
    <2> HIDE DEF G
    <2>1. Cardinality(S) \in Nat
      BY FS_CardinalityType
    <2>2. \A i \in 0..(Cardinality(S) - 1) : i \in G => i + 1 \in G
      BY <1>3, <2>1
    <2> QED
      BY <1>2, <2>1, <2>2, CountInduction
  <1>5. PICK it \in [SUBSET S -> A] : \A T \in Upto(Cardinality(S)) : it[T] = next(it)[T]
    BY <1>4
  <1>6. Upto(Cardinality(S)) = SUBSET S
    BY <1>1
  <1>7. \A T \in SUBSET S : it[T] = next(it)[T]
    BY <1>5, <1>6
  <1>8. IsFold(it, step, base, ch, S)
    BY <1>7 DEF IsFold
  <1> QED
    BY <1>8

(* Values can be added in any order.                                        *)
LEMMA SumExists ==
  ASSUME NEW S, IsFiniteSet(S), NEW f, \A x \in S : f[x] \in Int,
         NEW ch, Picks(ch, S)
  PROVE  \E it \in [SUBSET S -> Int] : AddsUp(it, f, ch, S)
  <1> DEFINE step == [p \in Int \X S |-> f[p[2]] + p[1]]
  <1>1. step \in [Int \X S -> Int]
    OBVIOUS
  <1>2. \A i \in Int, x \in S : step[<<i, x>>] = f[x] + i
    OBVIOUS
  <1> HIDE DEF step
  <1>3. PICK it \in [SUBSET S -> Int] : IsFold(it, step, 0, ch, S)
    <2>1. IsFiniteSet(S) /\ Picks(ch, S) /\ 0 \in Int
      OBVIOUS
    <2> QED
      BY ONLY <1>1, <2>1, FoldExists, Zenon
  <1>4. ASSUME NEW T \in SUBSET S, T # {}
        PROVE  it[T] = f[ch[T]] + it[T \ {ch[T]}]
    <2>1. PICK c \in T : c = ch[T]
      BY <1>4 DEF Picks
    <2>2. it[T] = step[<<it[T \ {c}], c>>] /\ it[T \ {c}] \in Int
      BY <1>3, <1>4, <2>1 DEF IsFold
    <2> QED
      BY <1>2, <2>1, <2>2
  <1>5. AddsUp(it, f, ch, S)
    BY <1>3, <1>4 DEF AddsUp, IsFold
  <1> QED
    BY <1>5

(* Two sums of the same values are the same.                                *)
LEMMA SumsAgree ==
  ASSUME NEW S, NEW f, NEW a, IsSum(a, f, S),
         NEW T, NEW g, NEW b, IsSum(b, g, T),
         NEW U \in SUBSET S, U \in SUBSET T, IsFiniteSet(U), \A x \in U : f[x] = g[x]
  PROVE  a[U] = b[U]
  <1> DEFINE G == {V \in SUBSET U : a[V] = b[V]}
  <1>1. {} \in G
    BY DEF IsSum
  <1>2. ASSUME NEW V \in SUBSET U, V # {}, \A x \in V : V \ {x} \in G
        PROVE  V \in G
    <2>1. PICK x \in V : TRUE
      BY <1>2
    <2>2. a[V] = f[x] + a[V \ {x}]
      BY <2>1 DEF IsSum
    <2>3. b[V] = g[x] + b[V \ {x}]
      BY <2>1 DEF IsSum
    <2>4. a[V \ {x}] = b[V \ {x}] /\ f[x] = g[x]
      BY <1>2, <2>1
    <2> QED
      BY <2>2, <2>3, <2>4
  <1>3. SUBSET U \subseteq G
    <2> HIDE DEF G
    <2> QED
      BY <1>1, <1>2, SubsetInduction
  <1> QED
    BY <1>3

(* A sum of numbers that are not negative is not negative.                  *)
LEMMA SumNatural ==
  ASSUME NEW S, IsFiniteSet(S), NEW f, \A x \in S : f[x] \in Nat, NEW a, IsSum(a, f, S)
  PROVE  \A T \in SUBSET S : a[T] \in Nat
  <1> DEFINE G == {T \in SUBSET S : a[T] \in Nat}
  <1>1. {} \in G
    BY DEF IsSum
  <1>2. ASSUME NEW T \in SUBSET S, T # {}, \A x \in T : T \ {x} \in G
        PROVE  T \in G
    <2>1. PICK x \in T : TRUE
      BY <1>2
    <2>2. a[T] = f[x] + a[T \ {x}]
      BY <2>1 DEF IsSum
    <2>3. a[T \ {x}] \in Nat /\ f[x] \in Nat
      BY <1>2, <2>1
    <2> QED
      BY <2>2, <2>3
  <1>3. SUBSET S \subseteq G
    <2> HIDE DEF G
    <2> QED
      BY <1>1, <1>2, SubsetInduction
  <1> QED
    BY <1>3

(* The elements of a sequence are taken from the last to the first.          *)
LEMMA FirstNumbers ==
  ASSUME NEW n \in Nat
  PROVE  /\ IsFiniteSet(1..n) /\ 1..n \in SUBSET Nat /\ 1..0 = {}
         /\ \A k \in 1..n : /\ 1..k \in SUBSET (1..n) /\ 1..k # {}
                            /\ Max(1..k) = k /\ (1..k) \ {k} = 1..(k - 1)
         /\ \A T \in SUBSET (1..n) : T # {} => Max(T) \in T
  <1>1. IsFiniteSet(1..n) /\ 1..n \in SUBSET Nat
    BY FS_Interval
  <1>2. ASSUME NEW T \in SUBSET (1..n), T # {}
        PROVE  Max(T) \in T /\ \A x \in T : x <= Max(T)
    <2>1. IsFiniteSet(T) /\ T \in SUBSET Nat
      BY <1>1, FS_Subset
    <2> QED
      BY <1>2, <2>1, MaxIsLargest
  <1>3. ASSUME NEW k \in 1..n
        PROVE  /\ 1..k \in SUBSET (1..n) /\ 1..k # {}
               /\ Max(1..k) = k /\ (1..k) \ {k} = 1..(k - 1)
    <2>1. k \in Nat /\ 1 <= k /\ k <= n
      OBVIOUS
    <2>2. 1..k \in SUBSET (1..n) /\ k \in 1..k
      BY <2>1
    <2>3. Max(1..k) \in 1..k /\ k <= Max(1..k)
      BY <1>2, <2>2
    <2>4. Max(1..k) = k
      BY <2>1, <2>3
    <2>5. \A x : x \in 1..k /\ x # k <=> x \in 1..(k - 1)
      BY ONLY <2>1
    <2> QED
      BY <2>2, <2>4, <2>5
  <1> QED
    BY <1>1, <1>2, <1>3

(* A fold that takes the largest of the numbers 1..n first.                  *)
Folds(it, step, base, n) ==
  it = [T \in SUBSET (1..n) |-> IF T = {} THEN base ELSE step[<<it[T \ {Max(T)}], Max(T)>>]]

LEMMA FoldInTurn ==
  ASSUME NEW n \in Nat, NEW A, NEW base \in A, NEW step \in [A \X (1..n) -> A]
  PROVE  \E it \in [SUBSET (1..n) -> A] : Folds(it, step, base, n)
  <1> DEFINE S == 1..n
             ch == [T \in SUBSET S |-> Max(T)]
  <1>1. IsFiniteSet(S) /\ Picks(ch, S) /\ \A T \in SUBSET S : ch[T] = Max(T)
    BY FirstNumbers DEF Picks
  <1> HIDE DEF ch, S
  <1>2. step \in [A \X S -> A] /\ base \in A
    BY DEF S
  <1>3. PICK it \in [SUBSET S -> A] : IsFold(it, step, base, ch, S)
    BY ONLY <1>1, <1>2, FoldExists, Zenon
  <1>4. it = [T \in SUBSET S |-> IF T = {} THEN base ELSE step[<<it[T \ {Max(T)}], Max(T)>>]]
    BY <1>1, <1>3 DEF IsFold
  <1> QED
    BY <1>4 DEF S, Folds
=============================================================================
