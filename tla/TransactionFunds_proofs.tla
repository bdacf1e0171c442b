----------------------- MODULE TransactionFunds_proofs -----------------------
(* Theorems about TransactionFunds, for any coins, amounts, fees and sizes. *)
EXTENDS TransactionFunds, SetLemmas, SequenceTheorems

-----------------------------------------------------------------------------
(* What Total and SumOf add up to.                                           *)

LEMMA TotalSum ==
  ASSUME value \in [Coin -> Nat], NEW S \in SUBSET Coin
  PROVE  \E a : IsSum(a, value, S) /\ Total(S) = a[S]
  <1> DEFINE ch == [T \in SUBSET S |-> CHOOSE x \in T : TRUE]
             next(it) == [T \in SUBSET S |-> IF T = {} THEN 0
                            ELSE value[CHOOSE x \in T : TRUE] + it[T \ {CHOOSE x \in T : TRUE}]]
             a == CHOOSE it : it = next(it)
  <1>1. Total(S) = a[S]
    BY DEF Total, MapThenSumSet, MapThenFoldSet
  <1>2. IsFiniteSet(S) /\ \A x \in S : value[x] \in Nat
    BY FundsAssumption, FS_Subset
  <1>3. Picks(ch, S)
    BY DEF Picks
  <1>4. \A T \in SUBSET S : ch[T] = CHOOSE x \in T : TRUE
    OBVIOUS
  <1> HIDE DEF ch
  <1>5. \A x \in S : value[x] \in Int
    BY <1>2
  <1>6. PICK it \in [SUBSET S -> Int] : AddsUp(it, value, ch, S)
    BY ONLY <1>2, <1>3, <1>5, SumExists, Zenon
  <1>7. a = next(a)
    <2>1. ASSUME NEW T \in SUBSET S, T # {}
          PROVE  it[T] = value[CHOOSE x \in T : TRUE] + it[T \ {CHOOSE x \in T : TRUE}]
      <3>1. PICK c \in T : c = ch[T]
        BY <1>3, <2>1 DEF Picks
      <3>2. it[T] \in {value[c] + it[T \ {c}], it[T \ {c}] + value[c]}
        BY <1>6, <2>1, <3>1 DEF AddsUp
      <3>3. PICK v \in Int : v = it[T \ {c}]
        OBVIOUS
      <3>4. PICK w \in Int : w = value[c]
        BY <1>5
      <3>5. it[T] = value[c] + it[T \ {c}]
        BY <3>2, <3>3, <3>4
      <3> QED
        BY <1>4, <3>1, <3>5
    <2>2. it[{}] = 0
      BY <1>6 DEF AddsUp
    <2>3. it = next(it)
      BY <2>1, <2>2
    <2> QED
      BY <2>3
  <1> HIDE DEF a
  <1>8. AddsUp(a, value, ch, S)
    BY <1>4, <1>7 DEF AddsUp
  <1>9. IsSum(a, value, S)
    BY ONLY <1>2, <1>3, <1>5, <1>8, AddedUpIsSum, Zenon
  <1> QED
    BY <1>1, <1>9

(* One sum for all sets of coins.                                           *)
LEMMA TotalIsSum ==
  ASSUME value \in [Coin -> Nat]
  PROVE  /\ \E a : IsSum(a, value, Coin) /\ \A S \in SUBSET Coin : Total(S) = a[S]
         /\ Total({}) = 0
         /\ \A S \in SUBSET Coin : Total(S) \in Nat
         /\ \A S \in SUBSET Coin : \A c \in S : Total(S) = value[c] + Total(S \ {c})
  <1>1. PICK a : IsSum(a, value, Coin) /\ Total(Coin) = a[Coin]
    BY TotalSum
  <1>2. IsFiniteSet(Coin)
    BY FundsAssumption
  <1>3. ASSUME NEW S \in SUBSET Coin
        PROVE  Total(S) = a[S]
    <2>1. PICK b : IsSum(b, value, S) /\ Total(S) = b[S]
      BY TotalSum
    <2>2. IsFiniteSet(S)
      BY <1>2, FS_Subset
    <2>3. a[S] = b[S]
      BY <1>1, <2>1, <2>2, SumsAgree
    <2> QED
      BY <2>1, <2>3
  <1>4. \A S \in SUBSET Coin : a[S] \in Nat
    BY <1>1, <1>2, SumNatural
  <1>5. a[{}] = 0 /\ \A S \in SUBSET Coin : \A c \in S : a[S] = value[c] + a[S \ {c}]
    BY <1>1 DEF IsSum
  <1>6. {} \in SUBSET Coin /\ \A S \in SUBSET Coin : \A c \in S : S \ {c} \in SUBSET Coin
    OBVIOUS
  <1>7. \A S \in SUBSET Coin : \A c \in S : Total(S) = value[c] + Total(S \ {c})
    BY <1>3, <1>5, <1>6
  <1> QED
    BY <1>1, <1>3, <1>4, <1>5, <1>6, <1>7

LEMMA SumOfSum ==
  ASSUME NEW s \in Seq(Int)
  PROVE  \E a : IsSum(a, s, DOMAIN s) /\ SumOf(s) = a[DOMAIN s]
  <1> DEFINE S == DOMAIN s
             ch == [T \in SUBSET S |-> Max(T)]
             next(it) == [T \in SUBSET S |-> IF T = {} THEN 0 ELSE it[T \ {Max(T)}] + s[Max(T)]]
             a == CHOOSE it : it = next(it)
  <1>1. SumOf(s) = a[S]
    BY DEF SumOf, FoldLeft, MapThenFoldSet
  <1>2. S = 1..Len(s) /\ Len(s) \in Nat /\ \A x \in S : s[x] \in Int
    OBVIOUS
  <1>3. IsFiniteSet(S)
    BY <1>2, FS_Interval
  <1>4. Picks(ch, S)
    <2> SUFFICES ASSUME NEW T \in SUBSET S, T # {}
                 PROVE  Max(T) \in T
      BY DEF Picks
    <2>1. IsFiniteSet(T) /\ T \in SUBSET Nat
      BY <1>2, <1>3, FS_Subset
    <2> QED
      BY <2>1, MaxIsLargest
  <1>5. \A T \in SUBSET S : ch[T] = Max(T)
    OBVIOUS
  <1> HIDE DEF ch
  <1>6. PICK it \in [SUBSET S -> Int] : AddsUp(it, s, ch, S)
    <2> HIDE DEF S
    <2> QED
      BY ONLY <1>2, <1>3, <1>4, SumExists, Zenon
  <1>7. it = next(it)
    <2>1. ASSUME NEW T \in SUBSET S, T # {}
          PROVE  it[T] = it[T \ {Max(T)}] + s[Max(T)]
      <3>1. PICK c \in T : c = ch[T]
        BY <1>4, <2>1 DEF Picks
      <3>2. it[T] \in {s[c] + it[T \ {c}], it[T \ {c}] + s[c]}
        BY <1>6, <2>1, <3>1 DEF AddsUp
      <3>3. PICK v \in Int : v = it[T \ {c}]
        OBVIOUS
      <3>4. PICK w \in Int : w = s[c]
        BY <1>2
      <3>5. it[T] = it[T \ {c}] + s[c]
        BY <3>2, <3>3, <3>4
      <3> QED
        BY <1>5, <3>1, <3>5
    <2>2. it[{}] = 0
      BY <1>6 DEF AddsUp
    <2> QED
      BY <2>1, <2>2
  <1>8. a = next(a)
    BY <1>7
  <1> HIDE DEF a
  <1>9. AddsUp(a, s, ch, S)
    BY <1>5, <1>8 DEF AddsUp
  <1>10. IsSum(a, s, S)
    <2> HIDE DEF S
    <2> QED
      BY ONLY <1>2, <1>3, <1>4, <1>9, AddedUpIsSum, Zenon
  <1> QED
    BY <1>1, <1>10

LEMMA SumOfFacts ==
  /\ SumOf(<<>>) = 0
  /\ \A s \in Seq(Int) : SumOf(s) \in Int
  /\ \A s \in Seq(Int), v \in Int : SumOf(Append(s, v)) = SumOf(s) + v
  <1>1. ASSUME NEW s \in Seq(Int)
        PROVE  SumOf(s) \in Int
    <2>1. PICK a : IsSum(a, s, DOMAIN s) /\ SumOf(s) = a[DOMAIN s]
      BY SumOfSum
    <2> QED
      BY <2>1 DEF IsSum
  <1>2. SumOf(<<>>) = 0
    <2>1. <<>> \in Seq(Int) /\ DOMAIN <<>> = {}
      OBVIOUS
    <2>2. PICK a : IsSum(a, <<>>, DOMAIN <<>>) /\ SumOf(<<>>) = a[DOMAIN <<>>]
      BY <2>1, SumOfSum
    <2> QED
      BY <2>1, <2>2 DEF IsSum
  <1>3. ASSUME NEW s \in Seq(Int), NEW v \in Int
        PROVE  SumOf(Append(s, v)) = SumOf(s) + v
    <2> DEFINE n == Len(s)
               t == Append(s, v)
    <2>1. n \in Nat /\ DOMAIN s = 1..n /\ t \in Seq(Int) /\ DOMAIN t = 1..(n + 1)
          /\ t[n + 1] = v /\ \A i \in 1..n : t[i] = s[i]
      OBVIOUS
    <2>2. PICK a : IsSum(a, s, 1..n) /\ SumOf(s) = a[1..n]
      BY <2>1, SumOfSum
    <2> HIDE DEF t, n
    <2>3. PICK b : IsSum(b, t, 1..(n + 1)) /\ SumOf(t) = b[1..(n + 1)]
      BY <2>1, SumOfSum
    <2>4. 1..(n + 1) \ {n + 1} = 1..n /\ n + 1 \in 1..(n + 1) /\ 1..n \subseteq 1..(n + 1)
      BY <2>1
    <2>5. b[1..(n + 1)] = t[n + 1] + b[1..n] /\ b[1..n] \in Int
      <3>1. b[1..(n + 1)] = t[n + 1] + b[1..(n + 1) \ {n + 1}]
        <4>1. \A D : IsSum(b, t, D) => \A x \in D : b[D] = t[x] + b[D \ {x}]
          BY DEF IsSum
        <4> QED
          BY ONLY <2>3, <2>4, <4>1, Zenon
      <3>2. 1..n \in SUBSET (1..(n + 1))
        BY <2>4
      <3> QED
        BY <2>3, <2>4, <3>1, <3>2 DEF IsSum
    <2>6. IsFiniteSet(1..n)
      BY <2>1, FS_Interval
    <2>7. b[1..n] = a[1..n]
      BY ONLY <2>1, <2>2, <2>3, <2>4, <2>6, SumsAgree
    <2>8. SumOf(t) = SumOf(s) + v
      BY <2>1, <2>2, <2>3, <2>5, <2>7
    <2> QED
      BY <2>8 DEF t
  <1> QED
    BY <1>1, <1>2, <1>3

LEMMA SumOfFirst ==
  ASSUME NEW s \in Seq(Int), s # <<>>, NEW v \in Int
  PROVE  /\ [s EXCEPT ![1] = @ + v] \in Seq(Int)
         /\ SumOf([s EXCEPT ![1] = @ + v]) = SumOf(s) + v
  <1> DEFINE n == Len(s)
             t == [s EXCEPT ![1] = @ + v]
             D == 1..n
  <1>1. /\ n \in Nat /\ 1 \in D /\ t \in Seq(Int) /\ t[1] = s[1] + v /\ s[1] \in Int
        /\ DOMAIN s = D /\ DOMAIN t = D /\ \A i \in D \ {1} : s[i] = t[i]
    OBVIOUS
  <1> HIDE DEF t
  <1>2. PICK a : IsSum(a, s, D) /\ SumOf(s) = a[D]
    BY <1>1, SumOfSum
  <1>3. PICK b : IsSum(b, t, D) /\ SumOf(t) = b[D]
    BY <1>1, SumOfSum
  <1>4. IsFiniteSet(D \ {1}) /\ D \ {1} \in SUBSET D
    <2>1. IsFiniteSet(D)
      BY <1>1, FS_Interval
    <2> HIDE DEF D
    <2> QED
      BY <2>1, FS_RemoveElement
  <1> HIDE DEF D
  <1>5. a[D \ {1}] = b[D \ {1}]
    <2>1. \A i \in D \ {1} : s[i] = t[i]
      BY <1>1
    <2> QED
      BY ONLY <1>2, <1>3, <1>4, <2>1, SumsAgree
  <1>6. a[D] = s[1] + a[D \ {1}] /\ b[D] = t[1] + b[D \ {1}] /\ a[D \ {1}] \in Int
    BY <1>1, <1>2, <1>3, <1>4 DEF IsSum
  <1>7. SumOf(t) = SumOf(s) + v
    BY <1>1, <1>2, <1>3, <1>5, <1>6
  <1> QED
    BY <1>1, <1>7 DEF t

-----------------------------------------------------------------------------
(* The loop of Transaction.bumpfee().                                        *)

Remaining == [left : Int, kept : Seq(Int)]

(* A step of the loop.  Of an extra fee that is not negative, what is no    *)
(* longer left has been taken from the change.                              *)
LEMMA TakeFromStep ==
  ASSUME NEW extra \in Int, NEW acc \in Remaining, NEW v \in Int,
         NEW next, next = TakeFrom(extra, acc, v)
  PROVE  /\ next \in Remaining
         /\ v >= 0 /\ 0 <= acc.left /\ acc.left <= extra =>
              /\ 0 <= next.left /\ next.left <= extra
              /\ SumOf(acc.kept) + v - SumOf(next.kept) >= acc.left - next.left
  <1>1. PICK l \in Int, k \in Seq(Int) : acc = [left |-> l, kept |-> k]
    BY DEF Remaining
  <1>2. PICK sum \in Int : sum = SumOf(k)
    BY SumOfFacts
  <1>3. \A u \in Int : Append(k, u) \in Seq(Int) /\ SumOf(Append(k, u)) = sum + u
    BY <1>2, SumOfFacts
  <1>4. ASSUME NEW m \in Int, NEW j \in Seq(Int), NEW rest \in Int,
               next = [left |-> m, kept |-> j], rest = SumOf(j),
               v >= 0 /\ 0 <= l /\ l <= extra => 0 <= m /\ m <= extra /\ sum + v - rest >= l - m
        PROVE  /\ next \in Remaining
               /\ v >= 0 /\ 0 <= acc.left /\ acc.left <= extra =>
                    /\ 0 <= next.left /\ next.left <= extra
                    /\ SumOf(acc.kept) + v - SumOf(next.kept) >= acc.left - next.left
    <2>1. next \in Remaining /\ next.left = m /\ SumOf(next.kept) = rest
      BY <1>4 DEF Remaining
    <2>2. acc.left = l /\ SumOf(acc.kept) = sum
      BY <1>1, <1>2
    <2> QED
      BY <1>4, <2>1, <2>2
  <1> PICK zero \in Int : zero = 0
    OBVIOUS
  <1>5. CASE l = 0
    <2>1. next = [left |-> zero, kept |-> Append(k, v)]
      BY <1>1, <1>5 DEF TakeFrom
    <2>2. PICK j \in Seq(Int), rest \in Int : j = Append(k, v) /\ rest = SumOf(j) /\ rest = sum + v
      <3>1. PICK j : j = Append(k, v)
        OBVIOUS
      <3>2. j \in Seq(Int) /\ SumOf(j) = sum + v /\ sum + v \in Int
        BY <1>3, <3>1
      <3> QED
        BY <3>1, <3>2
    <2>3. v >= 0 /\ 0 <= l /\ l <= extra => 0 <= zero /\ zero <= extra /\ sum + v - rest >= l - zero
      BY <1>5, <2>2
    <2>4. next = [left |-> zero, kept |-> j]
      BY <2>1, <2>2
    <2> QED
      BY <1>4, <2>2, <2>3, <2>4
  <1>6. CASE l # 0 /\ v > 2 * l
    <2>1. PICK u \in Int : u = v - extra
      OBVIOUS
    <2>2. next = [left |-> zero, kept |-> Append(k, u)]
      BY <1>1, <1>6, <2>1 DEF TakeFrom
    <2>3. PICK j \in Seq(Int), rest \in Int : j = Append(k, u) /\ rest = SumOf(j) /\ rest = sum + u
      <3>1. PICK j : j = Append(k, u)
        OBVIOUS
      <3>2. j \in Seq(Int) /\ SumOf(j) = sum + u /\ sum + u \in Int
        BY <1>3, <3>1
      <3> QED
        BY <3>1, <3>2
    <2>4. v >= 0 /\ 0 <= l /\ l <= extra => 0 <= zero /\ zero <= extra /\ sum + v - rest >= l - zero
      BY <2>1, <2>3
    <2>5. next = [left |-> zero, kept |-> j]
      BY <2>2, <2>3
    <2> QED
      BY <1>4, <2>3, <2>4, <2>5
  <1>7. CASE l # 0 /\ v <= 2 * l /\ v < l
    <2>1. next = [left |-> l - v, kept |-> k]
      BY <1>1, <1>7 DEF TakeFrom
    <2>2. v >= 0 /\ 0 <= l /\ l <= extra => 0 <= l - v /\ l - v <= extra /\ sum + v - sum >= l - (l - v)
      BY <1>7
    <2>3. l - v \in Int
      OBVIOUS
    <2> QED
      BY <1>2, <1>4, <2>1, <2>2, <2>3
  <1>8. CASE l # 0 /\ v <= 2 * l /\ ~(v < l)
    <2>1. next = [left |-> zero, kept |-> k]
      BY <1>1, <1>8 DEF TakeFrom
    <2>2. v >= 0 /\ 0 <= l /\ l <= extra => 0 <= zero /\ zero <= extra /\ sum + v - sum >= l - zero
      BY <1>8
    <2> QED
      BY <1>2, <1>4, <2>1, <2>2
  <1> QED
    BY <1>5, <1>6, <1>7, <1>8

(* All of it: what is not left is taken from change that is not negative.   *)
LEMMA DeductedTakes ==
  ASSUME NEW s \in Seq(Int), NEW extra \in Int
  PROVE  /\ Deducted(s, extra) \in Remaining
         /\ s \in Seq(Nat) /\ 0 <= extra =>
              SumOf(s) - SumOf(Deducted(s, extra).kept) >= extra - Deducted(s, extra).left
  <1> DEFINE n == Len(s)
             S == 1..n
             base == [left |-> extra, kept |-> <<>>]
             step == [p \in Remaining \X S |-> TakeFrom(extra, p[1], s[p[2]])]
             ch == [T \in SUBSET S |-> Max(T)]
             next(it) == [T \in SUBSET S |-> IF T = {} THEN base
                            ELSE TakeFrom(extra, it[T \ {Max(T)}], s[Max(T)])]
             a == CHOOSE it : it = next(it)
  <1>1. n \in Nat /\ DOMAIN s = S /\ \A i \in S : s[i] \in Int
    OBVIOUS
  <1>2. Deducted(s, extra) = a[S]
    BY <1>1 DEF Deducted, FoldLeft, MapThenFoldSet
  <1>3. IsFiniteSet(S)
    BY <1>1, FS_Interval
  <1>4. Picks(ch, S)
    <2> SUFFICES ASSUME NEW T \in SUBSET S, T # {}
                 PROVE  Max(T) \in T
      BY DEF Picks
    <2>1. S \in SUBSET Nat
      BY <1>1
    <2> HIDE DEF S
    <2>2. IsFiniteSet(T) /\ T \in SUBSET Nat
      BY <1>3, <2>1, FS_Subset
    <2> QED
      BY <2>2, MaxIsLargest
  <1>5. base \in Remaining
    BY DEF Remaining
  <1>6. step \in [Remaining \X S -> Remaining]
    <2>1. ASSUME NEW acc \in Remaining, NEW i \in S
          PROVE  TakeFrom(extra, acc, s[i]) \in Remaining
      BY <1>1, TakeFromStep
    <2> QED
      BY <2>1
  <1>7. /\ \A T \in SUBSET S : ch[T] = Max(T)
        /\ \A acc \in Remaining, i \in S : step[<<acc, i>>] = TakeFrom(extra, acc, s[i])
    OBVIOUS
  <1> HIDE DEF ch, step, base, S
  <1>8. PICK it \in [SUBSET S -> Remaining] : IsFold(it, step, base, ch, S)
    BY ONLY <1>3, <1>4, <1>5, <1>6, FoldExists, Zenon
  <1>9. it = next(it)
    <2>1. ASSUME NEW T \in SUBSET S, T # {}
          PROVE  it[T] = TakeFrom(extra, it[T \ {Max(T)}], s[Max(T)])
      <3>1. PICK c \in T : c = Max(T)
        BY <1>4, <1>7, <2>1 DEF Picks
      <3>2. it[T] = step[<<it[T \ {c}], c>>]
        BY <1>7, <1>8, <2>1, <3>1 DEF IsFold
      <3>3. it[T \ {c}] \in Remaining
        OBVIOUS
      <3> QED
        BY <1>7, <3>1, <3>2, <3>3
    <2>2. it[{}] = base
      BY <1>8 DEF IsFold
    <2> QED
      BY <2>1, <2>2
  <1>10. a = next(a)
    BY <1>9
  <1> HIDE DEF a
  <1> DEFINE Pre(i) == [j \in 1..i |-> s[j]]
             Good(i) == /\ a[1..i] \in Remaining
                        /\ s \in Seq(Nat) /\ 0 <= extra =>
                             /\ 0 <= a[1..i].left /\ a[1..i].left <= extra
                             /\ SumOf(Pre(i)) - SumOf(a[1..i].kept) >= extra - a[1..i].left
             G == {i \in 0..n : Good(i)}
  <1>11. 0 \in G
    <2>1. 1..0 = {} /\ Pre(0) = <<>>
      OBVIOUS
    <2>2. a[{}] = base
      BY <1>10
    <2>3. SumOf(Pre(0)) = 0 /\ SumOf(base.kept) = 0
      BY <2>1, SumOfFacts DEF base
    <2>4. base.left = extra
      BY DEF base
    <2>5. Good(0)
      BY <1>5, <2>1, <2>2, <2>3, <2>4
    <2> QED
      BY <1>1, <2>5
  <1>12. ASSUME NEW i \in 0..(n - 1), i \in G
         PROVE  i + 1 \in G
    <2>1. PICK k : k = i + 1
      OBVIOUS
    <2>2. k \in 1..n /\ 1..k \in SUBSET S /\ (1..k) \ {k} = 1..i /\ 1..k # {}
      <3>1. n \in Nat /\ i \in Nat /\ i <= n - 1
        BY <1>1
      <3>2. k \in 1..n
        BY ONLY <2>1, <3>1
      <3>3. (1..k) \ {k} = 1..i /\ 1..k # {}
        <4>1. k \in 1..k /\ \A x : x \in 1..k /\ x # k <=> x \in 1..i
          BY ONLY <2>1, <3>1
        <4> QED
          BY ONLY <4>1, Zenon
      <3> QED
        BY <3>1, <3>2, <3>3 DEF S
    <2>3. Max(1..k) = k
      <3>1. IsFiniteSet(1..k) /\ 1..k \in SUBSET Nat
        BY <1>3, <2>2, FS_Subset
      <3>2. Max(1..k) \in 1..k /\ \A x \in 1..k : x <= Max(1..k)
        BY <2>2, <3>1, MaxIsLargest
      <3> QED
        BY <2>2, <3>2
    <2>4. a[1..k] = TakeFrom(extra, a[1..i], s[k])
      BY <1>10, <2>2, <2>3
    <2>5. PICK acc \in Remaining : acc = a[1..i]
      BY <1>12
    <2>6. PICK new : new = a[1..k]
      OBVIOUS
    <2>7. s[k] \in Int
      BY <2>2
    <2>8. /\ new \in Remaining
          /\ s[k] >= 0 /\ 0 <= acc.left /\ acc.left <= extra =>
               /\ 0 <= new.left /\ new.left <= extra
               /\ SumOf(acc.kept) + s[k] - SumOf(new.kept) >= acc.left - new.left
      <3>1. PICK v \in Int : v = s[k]
        BY <2>7
      <3>2. new = TakeFrom(extra, acc, v)
        BY <2>4, <2>5, <2>6, <3>1
      <3>3. extra \in Int /\ acc \in Remaining /\ v \in Int
        OBVIOUS
      <3>4. /\ new \in Remaining
            /\ v >= 0 /\ 0 <= acc.left /\ acc.left <= extra =>
                 /\ 0 <= new.left /\ new.left <= extra
                 /\ SumOf(acc.kept) + v - SumOf(new.kept) >= acc.left - new.left
        BY ONLY <3>2, <3>3, TakeFromStep
      <3> QED
        BY <3>1, <3>4
    <2>9. Pre(k) = Append(Pre(i), s[k]) /\ Pre(i) \in Seq(Int)
      BY <1>1, <2>1, <2>2
    <2>10. SumOf(Pre(k)) = SumOf(Pre(i)) + s[k] /\ SumOf(Pre(i)) \in Int
      BY <2>7, <2>9, SumOfFacts
    <2>11. /\ SumOf(acc.kept) \in Int /\ SumOf(new.kept) \in Int
           /\ acc.left \in Int /\ new.left \in Int
      BY <2>8, SumOfFacts DEF Remaining
    <2>12. s \in Seq(Nat) => s[k] \in Nat
      BY <2>2
    <2>13. s \in Seq(Nat) /\ 0 <= extra =>
             /\ 0 <= new.left /\ new.left <= extra
             /\ SumOf(Pre(k)) - SumOf(new.kept) >= extra - new.left
      <3> SUFFICES ASSUME s \in Seq(Nat), 0 <= extra
                   PROVE  /\ 0 <= new.left /\ new.left <= extra
                          /\ SumOf(Pre(k)) - SumOf(new.kept) >= extra - new.left
        OBVIOUS
      <3> DEFINE pi == SumOf(Pre(i))
                 pk == SumOf(Pre(k))
                 ak == SumOf(acc.kept)
                 nk == SumOf(new.kept)
                 al == acc.left
                 nl == new.left
                 v  == s[k]
      <3>1. 0 <= al /\ al <= extra /\ pi - ak >= extra - al
        BY <1>12, <2>5
      <3>2. /\ pi \in Int /\ ak \in Int /\ nk \in Int /\ al \in Int /\ nl \in Int /\ v \in Int
            /\ v >= 0 /\ pk = pi + v
        BY <2>7, <2>10, <2>11, <2>12
      <3>3. 0 <= nl /\ nl <= extra /\ ak + v - nk >= al - nl
        BY <2>8, <3>1, <3>2
      <3>4. extra \in Int
        OBVIOUS
      <3> HIDE DEF Pre, pi, pk, ak, nk, al, nl, v
      <3>5. 0 <= nl /\ nl <= extra /\ pk - nk >= extra - nl
        BY ONLY <3>1, <3>2, <3>3, <3>4
      <3> QED
        BY <3>5 DEF pk, nk, nl
    <2>14. Good(k)
      BY <2>6, <2>8, <2>13
    <2> QED
      BY <2>1, <2>2, <2>14
  <1>13. n \in G
    <2> HIDE DEF G
    <2>1. 0..n \subseteq G
      BY <1>1, <1>11, <1>12, CountInduction
    <2> QED
      BY <1>1, <2>1
  <1>14. Pre(n) = s
    BY <1>1
  <1> QED
    BY <1>2, <1>13, <1>14 DEF S

-----------------------------------------------------------------------------
(* Division, and the shares of the change.                                   *)

LEMMA Quotient ==
  ASSUME NEW a \in Int, NEW b \in Nat \ {0}
  PROVE  a \div b \in Int /\ b * (a \div b) <= a /\ (a >= 0 => a \div b \in Nat)
  OBVIOUS

LEMMA Distributes ==
  ASSUME NEW a \in Int, NEW b \in Int, NEW c \in Int
  PROVE  a * b + a * c = a * (b + c) /\ a * b \in Int
  OBVIOUS

(* Every change output gets the smallest amount at least: the first one too,*)
(* which gets what the rounding of the others leaves.                       *)
LEMMA SplitsNatural ==
  ASSUME NEW amount \in Nat, NEW n \in Nat, n > 1, NEW least \in Nat, ~(amount \div n < least),
         NEW change \in Splits(amount, n, least)
  PROVE  change \in Seq(Nat)
  <1> DEFINE rest == amount - n * least
  <1>1. rest \in Nat
    <2>1. n * (amount \div n) <= amount /\ amount \div n \in Int
      BY Quotient
    <2>2. PICK d \in Int : d = amount \div n /\ d >= least
      BY <2>1
    <2>3. n * least <= n * d /\ n * least \in Int /\ n * d \in Int
      BY <2>2
    <2> QED
      BY <2>1, <2>2, <2>3
  <1> HIDE DEF rest
  <1>2. PICK share \in [1..n -> 0..Parts] :
          /\ SumOf(share) = Parts
          /\ change = [i \in 1..n |->
               IF i = 1 THEN amount - SumOf([j \in 1..(n - 1) |-> least + (share[j + 1] * rest) \div Parts])
                        ELSE least + (share[i] * rest) \div Parts]
    <2>1. PICK share \in {f \in [1..n -> 0..Parts] : SumOf(f) = Parts} :
            change = [i \in 1..n |->
               IF i = 1 THEN amount - SumOf([j \in 1..(n - 1) |-> least + (share[j + 1] * rest) \div Parts])
                        ELSE least + (share[i] * rest) \div Parts]
      BY Zenon DEF Splits, rest
    <2> QED
      BY <2>1
  <1>3. Parts \in Nat \ {0} /\ share \in Seq(Int) /\ Len(share) = n
    <2>1. Parts \in Nat \ {0}
      BY FundsAssumption
    <2>2. 0..Parts \subseteq Int
      BY <2>1
    <2>3. share \in [1..n -> Int]
      BY <2>2
    <2> QED
      BY <2>1, <2>3
  <1> DEFINE part(i) == least + (share[i] * rest) \div Parts
             Y(i) == [j \in 1..i |-> part(j + 1)]
             Z(i) == [j \in 1..(i + 1) |-> share[j]]
             Good(i) == Parts * (SumOf(Y(i)) - i * least) <= rest * (SumOf(Z(i)) - share[1])
             G == {i \in 0..(n - 1) : Good(i)}
  <1>4. ASSUME NEW i \in 1..n
        PROVE  /\ share[i] \in 0..Parts /\ part(i) - least \in Nat /\ part(i) \in Nat
               /\ Parts * (part(i) - least) <= rest * share[i]
    <2>1. PICK x \in Nat : x = share[i] /\ x \in 0..Parts
      BY <1>2, <1>3
    <2>2. PICK y \in Nat : y = x * rest /\ y = rest * x
      BY <1>1
    <2>3. PICK d \in Nat : d = y \div Parts /\ Parts * d <= y
      <3>1. y \in Int /\ y >= 0
        OBVIOUS
      <3>2. y \div Parts \in Nat /\ Parts * (y \div Parts) <= y
        BY ONLY <1>3, <3>1, Quotient
      <3> QED
        BY <3>2
    <2>4. part(i) = least + d /\ part(i) - least = d
      BY <2>1, <2>2, <2>3
    <2> QED
      BY <2>1, <2>2, <2>3, <2>4
  <1>5. \A i \in 0..(n - 1) : Y(i) \in Seq(Int) /\ Z(i) \in Seq(Int)
    <2> SUFFICES ASSUME NEW i \in 0..(n - 1)
                 PROVE  Y(i) \in Seq(Int) /\ Z(i) \in Seq(Int)
      OBVIOUS
    <2>1. \A j \in 1..i : j + 1 \in 1..n /\ part(j + 1) \in Int
      BY <1>4
    <2>2. \A j \in 1..(i + 1) : share[j] \in Int
      BY <1>4
    <2> HIDE DEF part
    <2> QED
      BY <2>1, <2>2
  <1>6. 0 \in G
    <2>1. Y(0) = <<>> /\ Z(0) = <<share[1]>> /\ share[1] \in Int
      BY <1>4
    <2>2. SumOf(Y(0)) = 0
      BY <2>1, SumOfFacts
    <2>3. SumOf(Z(0)) = share[1]
      <3>1. <<share[1]>> = Append(<<>>, share[1]) /\ <<>> \in Seq(Int)
        OBVIOUS
      <3>2. SumOf(Append(<<>>, share[1])) = 0 + share[1]
        BY <2>1, <3>1, SumOfFacts
      <3> QED
        BY <2>1, <3>1, <3>2
    <2>4. Parts * (0 - 0 * least) = 0 /\ rest * (share[1] - share[1]) = 0
      BY <1>1, <1>3, <2>1
    <2>5. Good(0)
      BY <2>2, <2>3, <2>4
    <2> QED
      BY <2>5
  <1>7. ASSUME NEW i \in 0..(n - 2), i \in G
        PROVE  i + 1 \in G
    <2> DEFINE y == SumOf(Y(i))
               z == SumOf(Z(i))
               p == part(i + 2)
               x == share[i + 2]
               first == share[1]
    <2>1. i + 1 \in 0..(n - 1) /\ i \in 0..(n - 1) /\ i + 2 \in 1..n
      OBVIOUS
    <2>2. Y(i) \in Seq(Int) /\ Z(i) \in Seq(Int)
      BY <1>5, <2>1
    <2>3. p \in Nat /\ x \in Nat /\ p - least \in Nat /\ Parts * (p - least) <= rest * x /\ first \in Nat
      BY <1>4, <2>1
    <2>4. Y(i + 1) = Append(Y(i), p)
      <3> HIDE DEF part
      <3> QED
        BY <2>1, <2>2
    <2>5. Z(i + 1) = Append(Z(i), x)
      BY <1>3, <2>1, <2>2
    <2>6. y \in Int /\ z \in Int /\ SumOf(Y(i + 1)) = y + p /\ SumOf(Z(i + 1)) = z + x
      <3> HIDE DEF Y, Z, p, x, part
      <3>1. p \in Int /\ x \in Int
        BY <2>3
      <3> QED
        BY ONLY <2>2, <2>4, <2>5, <3>1, SumOfFacts
    <2>7. Parts * (y - i * least) <= rest * (z - first)
      BY <1>7
    <2>8. i * least \in Int /\ (i + 1) * least = i * least + least /\ i * least + least \in Int
      BY <2>1
    <2> HIDE DEF Y, Z, y, z, p, x, first, part
    <2>9. PICK u \in Int, w \in Int : u = y - i * least /\ w = p - least
      BY <2>3, <2>6, <2>8
    <2>10. (y + p) - (i + 1) * least = u + w
      <3>1. PICK il \in Int : il = i * least
        BY <2>8
      <3> QED
        BY <2>3, <2>6, <2>8, <2>9, <3>1
    <2>11. Parts * u + Parts * w = Parts * (u + w) /\ Parts * u \in Int /\ Parts * w \in Int
      BY <1>3, <2>9
    <2>12. PICK v \in Int : v = z - first
      BY <2>3, <2>6
    <2>13. rest * v + rest * x = rest * (v + x) /\ rest * v \in Int /\ rest * x \in Int
      BY <1>1, <2>3, <2>12
    <2>14. Parts * (u + w) <= rest * (v + x)
      <3>1. PICK a \in Int, b \in Int, c \in Int, d \in Int :
              a = Parts * u /\ b = Parts * w /\ c = rest * v /\ d = rest * x
        BY <2>11, <2>13
      <3>2. a <= c
        BY <2>7, <2>9, <2>12, <3>1
      <3>3. b <= d
        BY <2>3, <2>9, <3>1
      <3>4. a + b <= c + d
        BY ONLY <3>2, <3>3, a \in Int, b \in Int, c \in Int, d \in Int
      <3> QED
        BY <2>11, <2>13, <3>1, <3>4
    <2>15. (z + x) - first = v + x
      BY <2>3, <2>6, <2>12
    <2>16. Good(i + 1)
      <3>1. SumOf(Y(i + 1)) - (i + 1) * least = u + w
        BY <2>6, <2>10
      <3>2. SumOf(Z(i + 1)) - share[1] = v + x
        BY <2>6, <2>15 DEF first
      <3> QED
        BY <2>14, <3>1, <3>2
    <2> QED
      BY <2>1, <2>16
  <1>8. Good(n - 1)
    <2> HIDE DEF G
    <2>1. n - 1 \in Nat /\ \A i \in 0..((n - 1) - 1) : i \in G => i + 1 \in G
      BY <1>7
    <2>2. 0..(n - 1) \subseteq G
      BY <1>6, <2>1, CountInduction
    <2> QED
      BY <2>1, <2>2 DEF G
  <1>9. amount - SumOf(Y(n - 1)) \in Nat
    <2> DEFINE y == SumOf(Y(n - 1))
               first == share[1]
    <2>1. Z(n - 1) = share
      BY <1>3
    <2>2. y \in Int /\ first \in Nat
      <3>1. first \in Nat
        BY <1>4
      <3>2. Y(n - 1) \in Seq(Int)
        BY <1>5
      <3> HIDE DEF Y
      <3> QED
        BY <3>1, <3>2, SumOfFacts
    <2>3. Parts * (y - (n - 1) * least) <= rest * (Parts - first)
      BY <1>2, <1>8, <2>1
    <2> HIDE DEF y, first, Y, Z, part
    <2>4. n * least = (n - 1) * least + least /\ (n - 1) * least \in Int
      OBVIOUS
    <2>5. PICK m \in Int : m = (n - 1) * least
      BY <2>4
    <2>6. PICK u \in Int : u = y - m
      BY <2>2
    <2>7. rest * (Parts - first) <= Parts * rest
      <3>1. rest * (Parts - first) = rest * Parts - rest * first /\ rest * first >= 0
            /\ rest * Parts = Parts * rest /\ rest * Parts \in Int
        BY <1>1, <1>3, <2>2
      <3> QED
        BY <1>1, <1>3, <2>2, <3>1
    <2>8. Parts * u <= Parts * rest
      BY <1>1, <1>3, <2>2, <2>3, <2>5, <2>6, <2>7
    <2>9. u <= rest
      BY <1>1, <1>3, <2>6, <2>8
    <2>10. rest = amount - (m + least)
      BY <2>4, <2>5 DEF rest
    <2> QED
      BY <1>1, <2>2, <2>5, <2>6, <2>9, <2>10 DEF y
  <1>10. \A i \in 1..n : change[i] \in Nat
    <2>1. change = [i \in 1..n |-> IF i = 1 THEN amount - SumOf(Y(n - 1)) ELSE part(i)]
      BY <1>2
    <2> HIDE DEF Y, part
    <2> QED
      BY <1>4, <1>9, <2>1
  <1>11. change = [i \in 1..n |-> change[i]]
    BY <1>2
  <1> QED
    BY <1>10, <1>11

-----------------------------------------------------------------------------
(* select_inputs().                                                          *)

LEMMA CoinFinite ==
  ASSUME NEW S \in SUBSET Coin
  PROVE  IsFiniteSet(S) /\ Cardinality(S) \in Nat
  BY FundsAssumption, FS_Subset, FS_CardinalityType

LEMMA UsableCoins == Usable \in SUBSET Coin
  BY DEF Usable

LEMMA OneCoin ==
  ASSUME value \in [Coin -> Nat], NEW c \in Coin
  PROVE  Total({c}) = value[c] /\ Cardinality({c}) = 1
  <1>1. Total({c}) = value[c] + Total({c} \ {c}) /\ Total({}) = 0
    BY TotalIsSum
  <1>2. {c} \ {c} = {} /\ value[c] \in Nat
    OBVIOUS
  <1>3. Cardinality({c}) = 1
    BY FS_Singleton
  <1>4. Total({c}) = value[c] + 0
    BY <1>1, <1>2
  <1> QED
    BY <1>2, <1>3, <1>4

(* Sets that are too large for max_utxos are not tried.                     *)
LEMMA SizesFound ==
  ASSUME NEW amount \in Int, NEW max \in Nat, NEW n, n = IF max = 0 THEN Cardinality(Usable) ELSE max
  PROVE  /\ n \in Nat
         /\ FoundSizes(amount, max) \in SUBSET (0..n)
         /\ \A T \in SUBSET Usable :
              Cardinality(T) >= 2 /\ Cardinality(T) <= n /\ Total(T) >= amount
                => Cardinality(T) \in FoundSizes(amount, max)
         /\ \A r \in FoundSizes(amount, max) :
              \E T \in SUBSET Usable : Cardinality(T) = r /\ Total(T) >= amount
  <1>1. n \in Nat
    BY UsableCoins, CoinFinite
  <1>2. FoundSizes(amount, max) = {r \in 2..n : \E T \in kSubset(r, Usable) : Total(T) >= amount}
    BY DEF FoundSizes
  <1>3. \A T \in SUBSET Usable : Cardinality(T) \in Nat
    BY UsableCoins, CoinFinite
  <1> QED
    BY <1>1, <1>2, <1>3 DEF kSubset

(* A set that covers the amount has two outputs, if none covers it alone.   *)
LEMMA AtLeastTwo ==
  ASSUME value \in [Coin -> Nat], NEW amount \in Int,
         NEW T \in (SUBSET Usable) \ {{}}, Total(T) >= amount
  PROVE  /\ Cardinality(T) \in Nat \ {0}
         /\ Enough(amount) = {} => Cardinality(T) >= 2
  <1>1. IsFiniteSet(T) /\ Cardinality(T) \in Nat
    BY UsableCoins, CoinFinite
  <1>2. Cardinality(T) # 0
    BY <1>1, FS_EmptySet
  <1>3. ASSUME Cardinality(T) = 1
        PROVE  Enough(amount) # {}
    <2>1. PICK c : T = {c}
      BY <1>1, <1>3, FS_Singleton
    <2>2. c \in Coin /\ c \in Usable
      BY <2>1, UsableCoins
    <2>3. value[c] >= amount
      BY <2>1, <2>2, OneCoin
    <2> QED
      BY <2>2, <2>3 DEF Enough
  <1> QED
    BY <1>1, <1>2, <1>3

(* Some output is the oldest, and one of the list is in front of all.       *)
LEMMA SomeFirst ==
  ASSUME value \in [Coin -> Nat], NEW C \in SUBSET Coin, C # {}
  PROVE  /\ Oldest(C) # {}
         /\ \E c \in C : \A d \in C : ~Earlier(d, c)
  <1>1. IsFiniteSet(C) /\ \A c \in C : Age[c] \in Nat /\ value[c] \in Nat
    BY CoinFinite, FundsAssumption
  <1>2. \E c \in C : \A d \in C : Age[d] <= Age[c]
    BY <1>1, ExtremeElements
  <1>3. Oldest(C) # {}
    BY <1>2 DEF Oldest
  <1>4. IsFiniteSet(Oldest(C)) /\ \A c \in Oldest(C) : value[c] \in Nat
    BY <1>1, CoinFinite DEF Oldest
  <1>5. PICK c \in Oldest(C) : \A d \in Oldest(C) : value[d] <= value[c]
    BY <1>3, <1>4, ExtremeElements
  <1>6. ASSUME NEW d \in C
        PROVE  ~Earlier(d, c)
    <2>1. Age[d] <= Age[c] /\ Age[d] \in Nat /\ Age[c] \in Nat /\ value[d] \in Nat /\ value[c] \in Nat
      BY <1>1, <1>5 DEF Oldest
    <2>2. Age[d] = Age[c] => d \in Oldest(C)
      BY <1>5 DEF Oldest
    <2> QED
      BY <1>5, <2>1, <2>2 DEF Earlier
  <1> QED
    BY <1>3, <1>5, <1>6 DEF Oldest

(* S comes before all others of F.                                          *)
Leads(S, F) == \A T \in F \ {S} : \E c \in S \ T : \A d \in T \ S : ~Earlier(d, c)

(* One of several sets of outputs comes first: as long as they differ, those *)
(* with the first output in which they may differ are kept, if there are any. *)
LEMMA SomeLeads ==
  ASSUME value \in [Coin -> Nat], NEW F \in SUBSET (SUBSET Coin), F # {}
  PROVE  \E S \in F : Leads(S, F)
  <1> DEFINE Alike(E, U) == \A A, B \in E : A \ U = B \ U
             G == {U \in SUBSET Coin : \A E \in SUBSET (SUBSET Coin) :
                     E # {} /\ Alike(E, U) => \E S \in E : Leads(S, E)}
  <1>1. {} \in G
    <2>1. ASSUME NEW E \in SUBSET (SUBSET Coin), E # {}, Alike(E, {})
          PROVE  \E S \in E : Leads(S, E)
      <3>1. PICK S \in E : TRUE
        BY <2>1
      <3>2. E \ {S} = {}
        BY <2>1
      <3> QED
        BY <3>2 DEF Leads
    <2> QED
      BY <2>1
  <1>2. ASSUME NEW U \in SUBSET Coin, U # {}, \A x \in U : U \ {x} \in G
        PROVE  U \in G
    <2> SUFFICES ASSUME NEW E \in SUBSET (SUBSET Coin), E # {}, Alike(E, U)
                 PROVE  \E S \in E : Leads(S, E)
      OBVIOUS
    <2>1. PICK e \in U : \A d \in U : ~Earlier(d, e)
      BY <1>2, SomeFirst
    <2>2. \A D \in SUBSET (SUBSET Coin) :
            D # {} /\ Alike(D, U \ {e}) => \E S \in D : Leads(S, D)
      BY <1>2
    <2>3. CASE \A A \in E : e \notin A
      <3>1. \A A \in E : A \ (U \ {e}) = A \ U
        BY <2>3
      <3>2. Alike(E, U \ {e})
        BY <3>1
      <3> QED
        BY <2>2, <3>2
    <2>4. CASE \E A \in E : e \in A
      <3> DEFINE D == {A \in E : e \in A}
      <3>1. \A A \in D : A \ (U \ {e}) = (A \ U) \cup {e}
        OBVIOUS
      <3>2. D # {} /\ D \in SUBSET (SUBSET Coin) /\ Alike(D, U \ {e})
        BY <2>4, <3>1
      <3>3. PICK S \in D : Leads(S, D)
        BY <2>2, <3>2
      <3>4. ASSUME NEW T \in E \ {S}
            PROVE  \E c \in S \ T : \A d \in T \ S : ~Earlier(d, c)
        <4>1. CASE e \in T
          BY <3>3, <4>1 DEF Leads
        <4>2. CASE e \notin T
          <5>1. e \in S \ T
            BY <4>2
          <5>2. T \ U = S \ U
            OBVIOUS
          <5>3. \A d \in T \ S : d \in U
            BY <5>2
          <5> QED
            BY <2>1, <5>1, <5>3
        <4> QED
          BY <4>1, <4>2
      <3> QED
        BY <3>4 DEF Leads
    <2> QED
      BY <2>3, <2>4
  <1>3. IsFiniteSet(Coin)
    BY FundsAssumption
  <1> HIDE DEF G
  <1>4. SUBSET Coin \subseteq G
    BY <1>1, <1>2, <1>3, SubsetInduction
  <1>5. Coin \in G /\ Alike(F, Coin)
    BY <1>4
  <1> QED
    BY <1>5 DEF G

(* The oldest of a set are in it.                                           *)
LEMMA OldestIn == \A C : Oldest(C) \subseteq C
  BY DEF Oldest

(* What is selected covers the amount.                                      *)
LEMMA SelectedCovers ==
  ASSUME value \in [Coin -> Nat], NEW amount \in Int, NEW max \in Nat,
         NEW S \in SUBSET Usable, Selected(S, amount, max)
  PROVE  Total(S) >= amount
  <1>1. ASSUME NEW c \in Enough(amount), S = {c}
        PROVE  Total(S) >= amount
    <2>1. c \in Coin /\ value[c] >= amount
      BY <1>1, UsableCoins DEF Enough
    <2> QED
      BY <1>1, <2>1, OneCoin
  <1>2. ASSUME FirstCombination(S, amount, max)
        PROVE  Total(S) >= amount
    BY <1>2 DEF FirstCombination
  <1> QED
    BY <1>1, <1>2, OldestIn DEF Selected, Exact

(* No set that covers the amount has fewer outputs.                         *)
LEMMA SelectedFewest ==
  ASSUME value \in [Coin -> Nat], NEW amount \in Int, NEW max \in Nat,
         NEW S \in SUBSET Usable, Selected(S, amount, max),
         NEW T \in (SUBSET Usable) \ {{}}, Total(T) >= amount
  PROVE  Cardinality(S) <= Cardinality(T)
  <1>1. Cardinality(T) \in Nat \ {0} /\ (Enough(amount) = {} => Cardinality(T) >= 2)
    BY AtLeastTwo
  <1>2. CASE \E c \in Enough(amount) : S = {c}
    <2>1. Cardinality(S) = 1
      BY <1>2, FS_Singleton
    <2> QED
      BY <1>1, <2>1
  <1>3. CASE Enough(amount) = {} /\ FirstCombination(S, amount, max)
    <2> DEFINE n == IF max = 0 THEN Cardinality(Usable) ELSE max
               sizes == FoundSizes(amount, max)
    <2>1. sizes # {} /\ Cardinality(S) = Min(sizes)
      BY <1>3 DEF FirstCombination, kSubset
    <2>2. /\ n \in Nat /\ sizes \in SUBSET (0..n)
          /\ Cardinality(T) <= n => Cardinality(T) \in sizes
      BY <1>1, <1>3, SizesFound
    <2>3. Min(sizes) \in sizes /\ \A r \in sizes : Min(sizes) <= r
      <3> HIDE DEF sizes, n
      <3> QED
        BY <2>1, <2>2, MinIsSmallest
    <2> HIDE DEF sizes, n
    <2>4. PICK m \in 0..n : m = Min(sizes)
      BY <2>2, <2>3
    <2>5. CASE Cardinality(T) <= n
      BY <2>1, <2>2, <2>3, <2>5
    <2>6. CASE ~(Cardinality(T) <= n)
      BY <1>1, <2>1, <2>2, <2>4, <2>6
    <2> QED
      BY <2>5, <2>6
  <1> QED
    BY <1>2, <1>3, OldestIn DEF Selected, Exact

(* Something is selected if max_utxos outputs cover the amount.             *)
LEMMA SelectionExists ==
  ASSUME value \in [Coin -> Nat], NEW amount \in Int, NEW max \in Nat,
         NEW T \in (SUBSET Usable) \ {{}}, Total(T) >= amount,
         max = 0 \/ Cardinality(T) <= max
  PROVE  \E S \in SUBSET Usable : Selected(S, amount, max)
  <1>1. CASE Exact(amount) # {}
    <2>1. Exact(amount) \in SUBSET Usable /\ Exact(amount) \in SUBSET Coin
      BY UsableCoins DEF Exact, Enough
    <2>2. PICK c \in Oldest(Exact(amount)) : TRUE
      BY <1>1, <2>1, SomeFirst
    <2>3. Selected({c}, amount, max)
      BY DEF Selected
    <2>4. {c} \in SUBSET Usable
      BY <2>1, OldestIn
    <2> QED
      BY <2>3, <2>4
  <1>2. CASE Exact(amount) = {} /\ Enough(amount) # {}
    <2>1. Enough(amount) \in SUBSET Usable /\ Enough(amount) \in SUBSET Coin
      BY UsableCoins DEF Enough
    <2>2. Oldest(Enough(amount)) # {} /\ Oldest(Enough(amount)) \in SUBSET Coin
      BY <1>2, <2>1, SomeFirst, OldestIn
    <2>3. IsFiniteSet(Oldest(Enough(amount))) /\ \A c \in Oldest(Enough(amount)) : value[c] \in Nat
      BY <2>2, CoinFinite
    <2>4. PICK c \in Oldest(Enough(amount)) : \A d \in Oldest(Enough(amount)) : value[c] <= value[d]
      BY <2>2, <2>3, ExtremeElements
    <2>5. Selected({c}, amount, max)
      BY <1>2, <2>4 DEF Selected
    <2> QED
      BY <2>1, <2>5, OldestIn
  <1>3. CASE Enough(amount) = {}
    <2> DEFINE n == IF max = 0 THEN Cardinality(Usable) ELSE max
               sizes == FoundSizes(amount, max)
    <2>1. Cardinality(T) \in Nat /\ Cardinality(T) >= 2
      BY <1>3, AtLeastTwo
    <2>2. /\ IsFiniteSet(Usable) /\ Cardinality(Usable) \in Nat
          /\ Cardinality(T) <= Cardinality(Usable)
      BY UsableCoins, CoinFinite, FS_Subset
    <2>3. n \in Nat /\ sizes \in SUBSET (0..n) /\ Cardinality(T) \in sizes
      BY <2>1, <2>2, SizesFound
    <2>4. Min(sizes) \in sizes
      <3> HIDE DEF sizes, n
      <3> QED
        BY <2>3, MinIsSmallest
    <2> DEFINE found == {U \in kSubset(Min(sizes), Usable) : Total(U) >= amount}
    <2>5. PICK U \in SUBSET Usable : Cardinality(U) = Min(sizes) /\ Total(U) >= amount
      BY <2>4, SizesFound
    <2>6. U \in found
      BY <2>5 DEF kSubset
    <2>7. found \in SUBSET (SUBSET Coin) /\ found \in SUBSET (SUBSET Usable)
      BY UsableCoins DEF kSubset
    <2>8. PICK S \in found : Leads(S, found)
      <3> HIDE DEF found
      <3> QED
        BY <2>6, <2>7, SomeLeads
    <2>9. FirstCombination(S, amount, max)
      BY <2>4, <2>8 DEF FirstCombination, Leads
    <2> QED
      BY <1>3, <2>7, <2>8, <2>9 DEF Selected
  <1> QED
    BY <1>1, <1>2, <1>3

-----------------------------------------------------------------------------
(* transaction_create().                                                     *)

LEMMA ValueNat == TypeOK => value \in [Coin -> Nat]
  BY FundsAssumption DEF TypeOK, Amounts

LEMMA FeeOfNatural ==
  ASSUME NEW size \in Nat, NEW perKb \in Nat
  PROVE  FeeOf(size, perKb) \in Nat
  <1>1. PICK p \in Nat : p = size * perKb
    OBVIOUS
  <1>2. Kilobyte \in Nat \ {0}
    BY FundsAssumption
  <1>3. p \div Kilobyte \in Nat
    BY <1>1, <1>2, Quotient
  <1> QED
    BY <1>1, <1>3 DEF FeeOf

LEMMA SizeNatural ==
  ASSUME NEW S \in SUBSET Coin, NEW n \in Nat
  PROVE  Size(S, n) \in Nat \ {0}
  <1>1. /\ SizeBase \in Nat \ {0} /\ SizeAssumed \in Nat
        /\ SizeInput \in Nat /\ SizeChange \in Nat
    BY FundsAssumption
  <1>2. Cardinality(S) \in Nat
    BY CoinFinite
  <1>3. PICK i \in Nat : i = SizeInput * Cardinality(S)
    BY <1>1, <1>2
  <1>4. PICK c \in Nat : c = SizeChange * n
    BY <1>1
  <1> QED
    BY <1>1, <1>3, <1>4 DEF Size

(* What is calculated from a request and the inputs is a whole number.      *)
LEMMA FeesWhole ==
  ASSUME value \in [Coin -> Nat], NEW q \in Requests, NEW S \in SUBSET Coin
  PROVE  /\ Estimate(q) \in Int /\ Target(q) \in Int /\ AskedFee(q, S) \in Int
         /\ Left(q, S) \in Int /\ Fee(q, S) \in Int /\ PerOutput(q) \in Nat
  <1>1. /\ q.pay \in Nat /\ q.fee \in Int /\ q.perKb \in Nat /\ q.count \in Nat
        /\ q.chosen \in SUBSET Coin /\ q.mode \in {"none", "priority", "given"}
    BY DEF Requests
  <1>2. Total(S) \in Nat
    BY TotalIsSum
  <1>0. Rate(q) \in Nat
    BY <1>1, FundsAssumption DEF Rate
  <1>3. FeeOf(Size({}, q.count), q.perKb) \in Nat /\ FeeOf(Size(S, q.count), Rate(q)) \in Nat
    BY <1>0, <1>1, SizeNatural, FeeOfNatural
  <1>4. Estimate(q) \in Int
    BY <1>1, <1>3 DEF Estimate
  <1>5. AskedFee(q, S) \in Int
    BY <1>1, <1>2, <1>3, <1>4 DEF AskedFee
  <1>6. Left(q, S) \in Int
    BY <1>1, <1>2, <1>5 DEF Left
  <1>7. FeeOf(OutputBytes, Rate(q)) \in Nat
    BY <1>0, FundsAssumption, FeeOfNatural
  <1> QED
    BY <1>1, <1>4, <1>5, <1>6, <1>7 DEF Target, Fee, PerOutput

(* What the fee comes to, whether or not what is left is added to it.       *)
LEMMA FeeBounds ==
  ASSUME value \in [Coin -> Nat], NEW q \in Requests, NEW S \in SUBSET Coin,
         Total(S) >= Target(q)
  PROVE  /\ Fee(q, S) >= Estimate(q) \/ Fee(q, S) >= AskedFee(q, S)
         /\ Fee(q, S) <= AskedFee(q, S) + Dust \/ Fee(q, S) < AskedFee(q, S) + PerOutput(q)
  <1>1. /\ Estimate(q) \in Int /\ AskedFee(q, S) \in Int /\ Left(q, S) \in Int
        /\ PerOutput(q) \in Nat /\ Dust \in Nat /\ q.pay \in Nat /\ Total(S) \in Nat
    BY FeesWhole, FundsAssumption, TotalIsSum DEF Requests
  <1>2. Total(S) >= q.pay + Estimate(q)
    BY DEF Target
  <1>3. AskedFee(q, S) + Left(q, S) = Total(S) - q.pay
    BY <1>1 DEF Left
  <1>4. CASE TooSmall(q, S)
    <2>1. Fee(q, S) = AskedFee(q, S) + Left(q, S)
      BY <1>4 DEF Fee
    <2>2. Fee(q, S) >= Estimate(q)
      BY <1>1, <1>2, <1>3, <2>1
    <2>3. Left(q, S) <= Dust \/ Left(q, S) < PerOutput(q)
      BY <1>4 DEF TooSmall
    <2> QED
      BY <1>1, <2>1, <2>2, <2>3
  <1>5. CASE ~TooSmall(q, S)
    BY <1>1, <1>5 DEF Fee
  <1> QED
    BY <1>4, <1>5

(* The smallest change output is not negative when the checks pass.         *)
LEMMA MinOutputNatural ==
  ASSUME NEW q, NEW S, PerKb(q, S) \in FeeMin..FeeMax
  PROVE  MinOutput(q, S) \in Nat
  <1>1. FeeMin \in Nat /\ FeeMax \in Nat /\ Dust \in Nat
    BY FundsAssumption
  <1>2. PICK p \in Nat : p = PerKb(q, S)
    BY <1>1
  <1> QED
    BY <1>1, <1>2 DEF MinOutput

LEMMA CountsPositive ==
  ASSUME NEW q \in Requests, NEW S
  PROVE  Counts(q, S) \subseteq Nat \ {0}
  <1>1. q.count \in Nat
    BY DEF Requests
  <1>2. 2..5 \subseteq Nat \ {0} /\ 1..4 \subseteq Nat \ {0} /\ 1 \in Nat \ {0}
    OBVIOUS
  <1> QED
    BY <1>1, <1>2 DEF Counts

(* A transaction that transaction_create() returns.                         *)
Returned(q, S, change, t) ==
  /\ Total(S) = q.pay + SumOf(change) + Fee(q, S)
  /\ PerKb(q, S) \in FeeMin..FeeMax
  /\ t = [inputs |-> S, pay |-> q.pay, change |-> change, fee |-> Fee(q, S),
          perKb |-> PerKb(q, S),
          size |-> Size(S, IF q.count = 0 THEN Len(change) ELSE q.count)]

LEMMA MakeReturns ==
  ASSUME NEW q, NEW S, NEW change, NEW end, Make(q, S, change, end)
  PROVE  \/ Returned(q, S, change, tx') /\ result' = end
         \/ tx' = NoTransaction /\ result' = "refused"
  BY DEF Make, Refuse, Returned

(* No change output of it is negative.                                      *)
LEMMA BuildReturns ==
  ASSUME value \in [Coin -> Nat], NEW q \in Requests, NEW S \in SUBSET Coin, NEW end,
         Build(q, S, end)
  PROVE  \/ tx' = NoTransaction /\ result' = "refused"
         \/ result' = end /\ \E change \in Seq(Nat) : Returned(q, S, change, tx')
  <1>1. CASE TooSmall(q, S) /\ Make(q, S, <<>>, end)
    <2>1. <<>> \in Seq(Nat)
      OBVIOUS
    <2> QED
      BY <1>1, <2>1, MakeReturns
  <1>2. CASE ~TooSmall(q, S) /\
             \E n \in Counts(q, S) :
               IF n > 1 /\ Left(q, S) \div n < MinOutput(q, S)
                 THEN Refuse("refused")
                 ELSE \E change \in Changes(q, S, n) : Make(q, S, change, end)
    <2>1. Left(q, S) \in Nat
      BY <1>2, FeesWhole, FundsAssumption DEF TooSmall
    <2>2. PICK n \in Nat \ {0} :
            IF n > 1 /\ Left(q, S) \div n < MinOutput(q, S)
              THEN Refuse("refused")
              ELSE \E change \in Changes(q, S, n) : Make(q, S, change, end)
      BY <1>2, CountsPositive
    <2>3. CASE n > 1 /\ Left(q, S) \div n < MinOutput(q, S)
      BY <2>2, <2>3 DEF Refuse
    <2>4. CASE ~(n > 1 /\ Left(q, S) \div n < MinOutput(q, S))
      <3>1. PICK change \in Changes(q, S, n) : Make(q, S, change, end)
        BY <2>2, <2>4
      <3>2. ASSUME Returned(q, S, change, tx')
            PROVE  change \in Seq(Nat)
        <4>1. CASE n = 1
          <5>1. change = <<Left(q, S)>>
            BY <3>1, <4>1 DEF Changes
          <5> QED
            BY <2>1, <5>1
        <4>2. CASE n > 1
          <5>1. change \in Splits(Left(q, S), n, MinOutput(q, S))
            BY <3>1, <4>2 DEF Changes
          <5>2. MinOutput(q, S) \in Nat
            BY <3>2, MinOutputNatural DEF Returned
          <5>3. ~(Left(q, S) \div n < MinOutput(q, S))
            BY <2>4, <4>2
          <5> QED
            BY <2>1, <2>2, <4>2, <5>1, <5>2, <5>3, SplitsNatural
        <4> QED
          BY <4>1, <4>2
      <3> QED
        BY <3>1, <3>2, MakeReturns
    <2> QED
      BY <2>3, <2>4
  <1> QED
    BY <1>1, <1>2 DEF Build

-----------------------------------------------------------------------------
(* The inductive invariant.  A transaction a call returned has a size and no *)
(* negative change; while no other call was made, its inputs are what        *)
(* select_inputs() gives for the request, and its fee is what the request    *)
(* makes of them; and a call that found nothing had nothing to find.         *)

Returns == {"made", "sent", "bumped"}

Sized == result \in Returns => tx.size # 0 /\ tx.change \in Seq(Nat)

FromSelection ==
  Created /\ request.chosen = {} =>
    /\ tx.inputs \subseteq Usable
    /\ Selected(tx.inputs, Target(request), request.max)
    /\ tx.fee = Fee(request, tx.inputs)

NothingFound ==
  result = "nofunds" =>
    /\ request.chosen = {}
    /\ \A S \in SUBSET Usable : ~Selected(S, Target(request), request.max)

IInv == TypeOK /\ Balanced /\ Sized /\ FromSelection /\ NothingFound

(* The amounts stay: so does everything that is computed from them.         *)
LEMMA TotalStays ==
  ASSUME value' = value, NEW S
  PROVE  Total(S)' = Total(S)
  BY DEF Total, MapThenSumSet, MapThenFoldSet

LEMMA UsableStays ==
  ASSUME value' = value
  PROVE  Usable' = Usable
  BY DEF Usable

LEMMA SelectedStays ==
  ASSUME value' = value, NEW S, NEW amount, NEW max
  PROVE  Selected(S, amount, max)' = Selected(S, amount, max)
  <1>1. \A T : Total(T)' = Total(T)
    BY TotalStays
  <1>2. Usable' = Usable
    BY UsableStays
  <1>3. Enough(amount)' = Enough(amount) /\ Exact(amount)' = Exact(amount)
    BY <1>2 DEF Enough, Exact
  <1>4. FoundSizes(amount, max)' = FoundSizes(amount, max)
    BY <1>1, <1>2 DEF FoundSizes
  <1>5. \A c, d : Earlier(c, d)' = Earlier(c, d)
    BY DEF Earlier
  <1>6. FirstCombination(S, amount, max)' = FirstCombination(S, amount, max)
    BY <1>1, <1>2, <1>4, <1>5 DEF FirstCombination
  <1>7. \A C : Oldest(C)' = Oldest(C)
    BY DEF Oldest
  <1> QED
    BY <1>3, <1>6, <1>7 DEF Selected

LEMMA FeeStays ==
  ASSUME value' = value, NEW q, NEW S
  PROVE  Fee(q, S)' = Fee(q, S)
  <1>1. Total(S)' = Total(S)
    BY TotalStays
  <1>2. AskedFee(q, S)' = AskedFee(q, S)
    BY <1>1 DEF AskedFee
  <1>3. Left(q, S)' = Left(q, S)
    BY <1>1, <1>2 DEF Left
  <1>4. TooSmall(q, S)' = TooSmall(q, S)
    BY <1>3 DEF TooSmall
  <1> QED
    BY <1>2, <1>3, <1>4 DEF Fee

(* A call that is refused leaves an object without inputs.                  *)
LEMMA NoTransactionType ==
  NoTransaction \in [inputs : SUBSET Coin, pay : Nat, change : Seq(Int), fee : Int,
                     perKb : Int, size : Nat]
  <1>1. {} \in SUBSET Coin /\ <<>> \in Seq(Int) /\ 0 \in Nat /\ 0 \in Int
    OBVIOUS
  <1> QED
    BY <1>1 DEF NoTransaction

LEMMA RefusedInv ==
  ASSUME TypeOK, value' = value, request' \in Requests, tx' = NoTransaction, result' = "refused"
  PROVE  IInv'
  <1>1. TypeOK'
    BY NoTransactionType DEF TypeOK
  <1> QED
    BY <1>1 DEF IInv, Balanced, Sized, FromSelection, NothingFound, Created, Returns

LEMMA ReturnedInv ==
  ASSUME TypeOK, value' = value, NEW q \in Requests, request' = q,
         NEW S \in SUBSET Coin, q.chosen = {} => S \in SUBSET Usable /\ Selected(S, Target(q), q.max),
         NEW change \in Seq(Nat), Returned(q, S, change, tx'),
         result' \in {"made", "sent"}
  PROVE  IInv'
  <1>1. value \in [Coin -> Nat]
    BY ValueNat
  <1>2. q.pay \in Nat /\ q.count \in Nat /\ Fee(q, S) \in Int /\ change \in Seq(Int)
    BY <1>1, FeesWhole DEF Requests
  <1>3. PerKb(q, S) \in FeeMin..FeeMax /\ FeeMin \in Nat /\ FeeMax \in Nat
    BY FundsAssumption DEF Returned
  <1>4. PICK n \in Nat : n = IF q.count = 0 THEN Len(change) ELSE q.count
    BY <1>2
  <1>5. PICK size \in Nat \ {0} : size = Size(S, n)
    BY SizeNatural
  <1>6. tx' = [inputs |-> S, pay |-> q.pay, change |-> change, fee |-> Fee(q, S),
               perKb |-> PerKb(q, S), size |-> size]
    BY <1>4, <1>5 DEF Returned
  <1>7. TypeOK'
    <2>1. PerKb(q, S) \in Int
      BY <1>3
    <2>2. tx' \in [inputs : SUBSET Coin, pay : Nat, change : Seq(Int), fee : Int,
                   perKb : Int, size : Nat]
      BY <1>2, <1>5, <1>6, <2>1
    <2>3. tx'.perKb \in FeeMin..FeeMax
      BY <1>3, <1>6
    <2> QED
      BY <2>2, <2>3 DEF TypeOK
  <1>8. Balanced'
    <2>1. Total(tx.inputs)' = Total(S)
      BY <1>6, TotalStays
    <2>2. Total(S) = q.pay + SumOf(change) + Fee(q, S)
      BY DEF Returned
    <2> QED
      BY <1>6, <2>1, <2>2 DEF Balanced
  <1>9. Sized'
    BY <1>5, <1>6 DEF Sized
  <1>10. FromSelection'
    <2>1. ASSUME q.chosen = {}
          PROVE  /\ tx'.inputs \subseteq Usable'
                 /\ Selected(tx.inputs, Target(request), request.max)'
                 /\ tx'.fee = Fee(request, tx.inputs)'
      <3>1. Target(request)' = Target(q)
        BY DEF Target, Estimate
      <3>2. Selected(tx.inputs, Target(request), request.max)' = Selected(S, Target(q), q.max)
        BY <1>6, <3>1, SelectedStays
      <3>3. Fee(request, tx.inputs)' = Fee(q, S)
        BY <1>6, FeeStays
      <3> QED
        BY <1>6, <2>1, <3>2, <3>3, UsableStays
    <2> QED
      BY <2>1 DEF FromSelection
  <1>11. NothingFound'
    BY DEF NothingFound
  <1> QED
    BY <1>7, <1>8, <1>9, <1>10, <1>11 DEF IInv

(* Whatever arguments transaction_create() is called with.                  *)
LEMMA CreationInv ==
  ASSUME IInv, NEW q \in Requests, NEW end \in {"made", "sent"}, TransactionCreate(q, end)
  PROVE  IInv'
  <1>1. TypeOK /\ value \in [Coin -> Nat] /\ value' = value /\ request' = q
    BY ValueNat DEF IInv, TransactionCreate
  <1>2. CASE Refuse("refused")
    BY <1>1, <1>2, RefusedInv DEF Refuse
  <1>3. CASE Inputs(q) = {} /\ Refuse("nofunds")
    <2>1. tx' = NoTransaction /\ result' = "nofunds"
      BY <1>3 DEF Refuse
    <2>2. TypeOK'
      BY <1>1, <2>1, NoTransactionType DEF TypeOK
    <2>3. q.chosen = {} /\ \A S \in SUBSET Usable : ~Selected(S, Target(q), q.max)
      BY <1>3 DEF Inputs
    <2>4. NothingFound'
      <3>1. Target(request)' = Target(q)
        BY <1>1 DEF Target, Estimate
      <3>2. \A S : Selected(S, Target(request), request.max)' = Selected(S, Target(q), q.max)
        BY <1>1, <3>1, SelectedStays
      <3>3. Usable' = Usable
        BY <1>1, UsableStays
      <3> QED
        BY <1>1, <2>3, <3>2, <3>3 DEF NothingFound
    <2> QED
      BY <2>1, <2>2, <2>4 DEF IInv, Balanced, Sized, FromSelection, Created, Returns
  <1>4. CASE \E S \in Inputs(q) : Build(q, S, end)
    <2>1. PICK S \in Inputs(q) : Build(q, S, end)
      BY <1>4
    <2>2. S \in SUBSET Coin
      BY <2>1, UsableCoins DEF Inputs, Requests
    <2>3. q.chosen = {} => S \in SUBSET Usable /\ Selected(S, Target(q), q.max)
      BY <2>1 DEF Inputs
    <2>4. CASE tx' = NoTransaction /\ result' = "refused"
      BY <1>1, <2>4, RefusedInv
    <2>5. CASE result' = end /\ \E change \in Seq(Nat) : Returned(q, S, change, tx')
      <3>1. PICK change \in Seq(Nat) : Returned(q, S, change, tx')
        BY <2>5
      <3> QED
        BY <1>1, <2>2, <2>3, <2>5, <3>1, ReturnedInv
    <2> QED
      BY <1>1, <2>1, <2>2, <2>4, <2>5, BuildReturns
  <1> QED
    BY <1>2, <1>3, <1>4 DEF TransactionCreate

(* A second creation, with the fee that was calculated from the first.      *)
LEMMA SendInv ==
  ASSUME IInv, Send
  PROVE  IInv'
  <1>1. TypeOK /\ value \in [Coin -> Nat] /\ request \in Requests /\ result = "made"
    BY ValueNat DEF IInv, TypeOK, Send
  <1>2. PICK S \in SUBSET Coin, pay \in Nat, change \in Seq(Int), fee \in Int, perKb \in Int, size \in Nat :
          tx = [inputs |-> S, pay |-> pay, change |-> change, fee |-> fee,
                perKb |-> perKb, size |-> size]
    BY <1>1 DEF TypeOK
  <1>3. perKb \in Nat /\ size \in Nat \ {0} /\ change \in Seq(Nat)
    <2>1. perKb \in FeeMin..FeeMax
      BY <1>1, <1>2 DEF TypeOK
    <2>2. FeeMin \in Nat /\ FeeMax \in Nat
      BY FundsAssumption
    <2>3. Sized
      BY DEF IInv
    <2>4. size # 0 /\ change \in Seq(Nat)
      BY <1>1, <1>2, <2>3 DEF Sized, Returns
    <2> QED
      BY <2>1, <2>2, <2>4
  <1>4. CASE OffTarget
    <2>1. FeeExact \in Int
      BY <1>2, <1>3, FeeOfNatural DEF FeeExact
    <2> DEFINE q == [request EXCEPT !.mode = "given", !.fee = FeeExact]
    <2>2. q \in Requests
      BY <1>1, <2>1 DEF Requests
    <2>3. TransactionCreate(q, "sent")
      BY <1>4 DEF Send
    <2> QED
      <3> HIDE DEF q
      <3> QED
        BY <2>2, <2>3, CreationInv
  <1>5. CASE ~OffTarget
    <2>1. /\ tx' = [tx EXCEPT !.perKb = (tx.fee * Kilobyte) \div tx.size]
          /\ result' = "sent" /\ value' = value /\ request' = request
      BY <1>5 DEF Send
    <2>2. (tx.fee * Kilobyte) \div tx.size \in Int
      <3>0. Kilobyte \in Int
        BY FundsAssumption
      <3>1. PICK p \in Int : p = fee * Kilobyte
        BY ONLY <3>0, fee \in Int
      <3> QED
        BY <1>2, <1>3, <3>1, Quotient
    <2>3. PICK rate \in Int : rate = (tx.fee * Kilobyte) \div tx.size
      BY <2>2
    <2>4. tx' = [inputs |-> S, pay |-> pay, change |-> change, fee |-> fee,
                 perKb |-> rate, size |-> size]
      BY <1>2, <2>1, <2>3
    <2>5. TypeOK'
      BY <1>1, <1>2, <2>1, <2>4 DEF TypeOK
    <2>6. Balanced'
      <3>1. Total(tx.inputs)' = Total(S)
        BY <2>1, <2>4, TotalStays
      <3>2. Total(S) = pay + SumOf(change) + fee
        BY <1>1, <1>2 DEF IInv, Balanced
      <3> QED
        BY <2>4, <3>1, <3>2 DEF Balanced
    <2>7. Sized'
      BY <1>3, <2>4 DEF Sized
    <2>8. FromSelection'
      <3>1. ASSUME request.chosen = {}
            PROVE  /\ tx'.inputs \subseteq Usable'
                   /\ Selected(tx.inputs, Target(request), request.max)'
                   /\ tx'.fee = Fee(request, tx.inputs)'
        <4>1. S \subseteq Usable /\ Selected(S, Target(request), request.max) /\ fee = Fee(request, S)
          BY <1>1, <1>2, <3>1 DEF IInv, FromSelection, Created
        <4>2. Target(request)' = Target(request)
          BY <2>1 DEF Target, Estimate
        <4>3. Selected(tx.inputs, Target(request), request.max)' = Selected(S, Target(request), request.max)
          BY <2>1, <2>4, <4>2, SelectedStays
        <4>4. Fee(request, tx.inputs)' = Fee(request, S)
          BY <2>1, <2>4, FeeStays
        <4>5. tx'.inputs = S /\ tx'.fee = fee
          BY <2>4
        <4>6. Usable' = Usable
          BY <2>1, UsableStays
        <4> QED
          BY <4>1, <4>3, <4>4, <4>5, <4>6
      <3> QED
        BY <2>1, <3>1 DEF FromSelection
    <2>9. NothingFound'
      BY <2>1 DEF NothingFound
    <2> QED
      BY <2>5, <2>6, <2>7, <2>8, <2>9 DEF IInv
  <1> QED
    BY <1>4, <1>5

LEMMA SweepInv ==
  ASSUME IInv, NEW fee \in Nat, NEW perKb \in Nat, Sweep(fee, perKb)
  PROVE  IInv'
  <1> DEFINE amount == Total(Swept) - SweepFee(fee, perKb)
             q == [pay |-> amount, mode |-> "given", fee |-> SweepFee(fee, perKb),
                   perKb |-> 0, max |-> 0, count |-> 1, chosen |-> Swept]
  <1>1. TypeOK /\ value \in [Coin -> Nat] /\ request \in Requests
    BY ValueNat DEF IInv, TypeOK
  <1>2. Swept \in SUBSET Coin
    BY DEF Swept
  <1>3. SweepFee(fee, perKb) \in Nat
    <2>1. SweepBase \in Nat /\ SweepInput \in Nat /\ SweepCost \in Nat
      BY FundsAssumption
    <2>2. Cardinality(Swept) \in Nat
      BY <1>2, CoinFinite
    <2>3. PICK i \in Nat : i = SweepInput * Cardinality(Swept)
      BY <2>1, <2>2
    <2>4. SweepBase + i \in Nat
      BY <2>1
    <2>5. FeeOf(SweepBase + i, perKb) \in Nat
      BY <2>4, FeeOfNatural
    <2> QED
      BY <2>1, <2>3, <2>5 DEF SweepFee
  <1>4. Total(Swept) \in Nat /\ Dust \in Nat
    BY <1>1, <1>2, TotalIsSum, FundsAssumption
  <1>5. CASE amount <= Dust
    <2>1. tx' = NoTransaction /\ result' = "refused" /\ value' = value /\ request' = request
      BY <1>5 DEF Sweep, Refuse
    <2> QED
      BY <1>1, <2>1, RefusedInv
  <1>6. CASE ~(amount <= Dust)
    <2>1. amount \in Nat
      BY <1>3, <1>4, <1>6
    <2>2. q \in Requests
      BY <1>2, <1>3, <2>1 DEF Requests
    <2>3. TransactionCreate(q, "made")
      BY <1>6 DEF Sweep
    <2> QED
      <3> HIDE DEF q
      <3> QED
        BY <2>2, <2>3, CreationInv
  <1> QED
    BY <1>5, <1>6

-----------------------------------------------------------------------------
(* bumpfee().                                                                *)

(* What an update of the object does with the amounts.                      *)
LEMMA UpdateInv ==
  ASSUME TypeOK, value' = value, request' \in Requests,
         NEW S \in SUBSET Coin, NEW change \in Seq(Int), Update(S, change)
  PROVE  /\ IInv'
         /\ tx'.fee = Total(S) - tx.pay - SumOf(change)
  <1>1. value \in [Coin -> Nat] /\ Total(S) \in Nat /\ SumOf(change) \in Int
    BY ValueNat, TotalIsSum, SumOfFacts
  <1>2. PICK pay \in Nat : tx.pay = pay
    BY DEF TypeOK
  <1>3. PICK fee \in Int : fee = Total(S) - pay - SumOf(change)
    BY <1>1
  <1>4. FeeLeft(S, change) = fee
    BY <1>2, <1>3 DEF FeeLeft
  <1>5. Len(change) \in Nat
    OBVIOUS
  <1>6. PICK size \in Nat \ {0} : size = Size(S, Len(change))
    BY <1>5, SizeNatural
  <1>7. (fee * Kilobyte) \div size \in Int
    <2>1. PICK p \in Int : p = fee * Kilobyte
      <3>1. Kilobyte \in Nat
        BY FundsAssumption
      <3> QED
        BY <3>1
    <2> QED
      BY <1>6, <2>1, Quotient
  <1>8. PICK rate \in Int : rate = (fee * Kilobyte) \div size
    BY <1>7
  <1>9. tx' = [inputs |-> S, pay |-> pay, change |-> change, fee |-> fee,
               perKb |-> rate, size |-> size]
    <2>1. tx' = [tx EXCEPT !.inputs = S, !.change = change, !.fee = fee, !.size = size,
                           !.perKb = rate]
      BY <1>4, <1>6, <1>8 DEF Update
    <2>2. tx \in [inputs : SUBSET Coin, pay : Nat, change : Seq(Int), fee : Int,
                  perKb : Int, size : Nat]
      BY DEF TypeOK
    <2> QED
      BY <1>2, <2>1, <2>2
  <1>10. \/ result' = "damaged"
         \/ result' = "bumped" /\ \A i \in DOMAIN change : ~(change[i] < 0)
    BY DEF Update
  <1>11. TypeOK'
    <2>1. tx' \in [inputs : SUBSET Coin, pay : Nat, change : Seq(Int), fee : Int,
                   perKb : Int, size : Nat]
      BY <1>9
    <2> QED
      BY <1>10, <2>1 DEF TypeOK
  <1>12. Balanced'
    <2>1. Total(tx.inputs)' = Total(S)
      BY <1>9, TotalStays
    <2>2. Total(S) = pay + SumOf(change) + fee
      BY <1>1, <1>3
    <2> QED
      BY <1>9, <2>1, <2>2 DEF Balanced
  <1>13. Sized'
    <2>1. ASSUME \A i \in DOMAIN change : ~(change[i] < 0)
          PROVE  change \in Seq(Nat)
      <3>1. \A i \in 1..Len(change) : change[i] \in Nat
        BY <2>1
      <3> QED
        BY <1>5, <3>1, SeqDef
    <2> QED
      BY <1>9, <1>10, <2>1 DEF Sized, Returns
  <1>14. FromSelection' /\ NothingFound'
    BY <1>10 DEF FromSelection, NothingFound, Created
  <1> QED
    BY <1>2, <1>3, <1>9, <1>11, <1>12, <1>13, <1>14 DEF IInv

(* The change after another input.                                          *)
LEMMA WithInputAdds ==
  ASSUME TypeOK, NEW c \in Coin \ tx.inputs
  PROVE  /\ WithInput(c) \in Seq(Int)
         /\ SumOf(WithInput(c)) = SumOf(tx.change) + value[c]
         /\ Total(tx.inputs \cup {c}) = Total(tx.inputs) + value[c]
         /\ tx.change \in Seq(Nat) => WithInput(c) \in Seq(Nat)
  <1>1. value \in [Coin -> Nat] /\ tx.inputs \in SUBSET Coin /\ tx.change \in Seq(Int)
    BY ValueNat DEF TypeOK
  <1>2. PICK v \in Nat : v = value[c]
    BY <1>1
  <1>3. Total(tx.inputs \cup {c}) = Total(tx.inputs) + v
    <2>1. PICK S \in SUBSET Coin : S = tx.inputs \cup {c}
      BY <1>1
    <2>2. S \ {c} = tx.inputs /\ c \in S
      BY <2>1
    <2>3. Total(S) = value[c] + Total(S \ {c}) /\ Total(tx.inputs) \in Nat
      BY <1>1, <2>2, TotalIsSum
    <2>4. PICK t \in Nat : t = Total(tx.inputs)
      BY <2>3
    <2>5. Total(S) = v + t
      BY <1>2, <2>2, <2>3, <2>4
    <2> QED
      BY <2>1, <2>4, <2>5
  <1>4. CASE tx.change = <<>>
    <2>1. WithInput(c) = <<v>> /\ <<v>> = Append(<<>>, v) /\ <<>> \in Seq(Int)
      BY <1>2, <1>4 DEF WithInput
    <2>2. SumOf(<<>>) = 0 /\ \A s \in Seq(Int), w \in Int : SumOf(Append(s, w)) = SumOf(s) + w
      BY ONLY SumOfFacts
    <2>3. SumOf(Append(<<>>, v)) = SumOf(<<>>) + v
      <3>1. v \in Int
        OBVIOUS
      <3> QED
        BY ONLY <2>1, <2>2, <3>1, Zenon
    <2>4. <<v>> \in Seq(Int) /\ <<v>> \in Seq(Nat)
      OBVIOUS
    <2> QED
      BY <1>2, <1>3, <1>4, <2>1, <2>2, <2>3, <2>4
  <1>5. CASE tx.change # <<>>
    <2>1. WithInput(c) = [tx.change EXCEPT ![1] = @ + v]
      BY <1>2, <1>5 DEF WithInput
    <2>2. WithInput(c) \in Seq(Int) /\ SumOf(WithInput(c)) = SumOf(tx.change) + v
      BY <1>1, <1>2, <1>5, <2>1, SumOfFirst
    <2>3. ASSUME tx.change \in Seq(Nat)
          PROVE  WithInput(c) \in Seq(Nat)
      <3>1. PICK n \in Nat : n = Len(tx.change) /\ DOMAIN tx.change = 1..n
        BY <2>3
      <3>2. PICK w \in Nat : w = tx.change[1] + v
        BY <1>5, <2>3
      <3>3. WithInput(c) = [tx.change EXCEPT ![1] = w]
        BY <2>1, <3>2
      <3>4. tx.change \in [1..n -> Nat]
        BY <2>3, <3>1
      <3>5. WithInput(c) \in [1..n -> Nat]
        BY <3>2, <3>3, <3>4
      <3> QED
        BY <3>5, SeqDef
    <2> QED
      BY <1>2, <1>3, <2>2, <2>3
  <1> QED
    BY <1>4, <1>5

(* What a call of bumpfee() that returns has added to the fee: what it was  *)
(* asked for, which is the size of the transaction at least.                *)
LEMMA BumpInv ==
  ASSUME IInv, NEW how \in {"default", "fee", "extra"}, NEW asked \in Nat, BumpWith(how, asked)
  PROVE  /\ IInv'
         /\ result' = "bumped" /\ tx.fee > 0 =>
              tx'.fee >= tx.fee + request'.fee /\ tx'.fee >= tx.fee + tx.size
  <1> DEFINE extra == IF how = "default" THEN DefaultExtra ELSE asked
             first == Deducted(tx.change, extra)
  <1>1. /\ TypeOK /\ value \in [Coin -> Nat] /\ value' = value /\ request \in Requests
        /\ tx.inputs \in SUBSET Coin /\ tx.change \in Seq(Int) /\ tx.fee \in Int
        /\ tx.size \in Nat /\ tx.pay \in Nat
    BY ValueNat DEF IInv, BumpWith, TypeOK
  <1>2. /\ result \in Returns /\ tx.change \in Seq(Nat)
        /\ Total(tx.inputs) = tx.pay + SumOf(tx.change) + tx.fee
    BY DEF IInv, BumpWith, Balanced, Sized, Returns
  <1>3. /\ extra \in Int /\ MinimalExtra \in Nat
        /\ tx.fee > 0 => extra >= tx.size
    <2>1. PICK f \in Int, s \in Nat : f = tx.fee /\ s = tx.size
      BY <1>1
    <2>2. PICK d \in Int : d = (159 * f) \div 1000 /\ (f > 0 => d >= 0)
      BY <2>1
    <2>3. DefaultExtra = d + 5 * s /\ MinimalExtra = 5 * s
      BY <2>1, <2>2 DEF DefaultExtra, MinimalExtra
    <2>4. how # "default" => asked >= s
      BY <2>1 DEF BumpWith
    <2> QED
      BY <2>1, <2>2, <2>3, <2>4
  <1>4. PICK e \in Int : e = extra /\ (tx.fee > 0 => e >= tx.size)
    BY <1>3
  <1>5. \A s \in Seq(Int), x \in Int :
          /\ Deducted(s, x).left \in Int /\ Deducted(s, x).kept \in Seq(Int)
          /\ s \in Seq(Nat) /\ 0 <= x /\ Deducted(s, x).left = 0 =>
               SumOf(s) - SumOf(Deducted(s, x).kept) >= x
    <2>1. ASSUME NEW s \in Seq(Int), NEW x \in Int
          PROVE  /\ Deducted(s, x).left \in Int /\ Deducted(s, x).kept \in Seq(Int)
                 /\ s \in Seq(Nat) /\ 0 <= x /\ Deducted(s, x).left = 0 =>
                      SumOf(s) - SumOf(Deducted(s, x).kept) >= x
      <3>1. PICK d \in Remaining : d = Deducted(s, x)
        BY DeductedTakes
      <3>2. d.left \in Int /\ d.kept \in Seq(Int)
        BY DEF Remaining
      <3>3. s \in Seq(Nat) /\ 0 <= x => SumOf(s) - SumOf(d.kept) >= x - d.left
        BY <3>1, DeductedTakes
      <3> QED
        BY <3>1, <3>2, <3>3
    <2> QED
      BY <2>1
  <1>6. ASSUME NEW S \in SUBSET Coin, NEW s \in Seq(Int), NEW x \in Int,
               request' = [request EXCEPT !.fee = x],
               s \in Seq(Nat),
               Total(S) - SumOf(s) = Total(tx.inputs) - SumOf(tx.change),
               tx.fee > 0 => x >= tx.size,
               Deducted(s, x).left = 0, Update(S, Deducted(s, x).kept)
        PROVE  /\ IInv'
               /\ result' = "bumped" /\ tx.fee > 0 =>
                    tx'.fee >= tx.fee + request'.fee /\ tx'.fee >= tx.fee + tx.size
    <2>1. request' \in Requests /\ request'.fee = x
      BY <1>1, <1>6 DEF Requests
    <2>2. PICK kept \in Seq(Int) : kept = Deducted(s, x).kept
      BY <1>5
    <2>3. IInv' /\ tx'.fee = Total(S) - tx.pay - SumOf(kept)
      BY <1>1, <1>6, <2>1, <2>2, UpdateInv
    <2>4. PICK a \in Int, b \in Int, c \in Int, k \in Int, t \in Int :
            /\ a = SumOf(s) /\ b = Total(tx.inputs) /\ c = SumOf(tx.change)
            /\ k = SumOf(kept) /\ t = Total(S)
      <3>1. SumOf(s) \in Int /\ SumOf(tx.change) \in Int /\ SumOf(kept) \in Int
        BY <1>1, SumOfFacts
      <3>2. Total(tx.inputs) \in Nat /\ Total(S) \in Nat
        BY <1>1, TotalIsSum
      <3> QED
        BY <3>1, <3>2
    <2>5. PICK f \in Int, p \in Nat, z \in Nat, g \in Int :
            f = tx.fee /\ p = tx.pay /\ z = tx.size /\ g = t - p - k
      BY <1>1
    <2>6. tx'.fee = g /\ t - a = b - c /\ b = p + c + f
      BY <1>2, <1>6, <2>3, <2>4, <2>5
    <2>7. ASSUME f > 0
          PROVE  g >= f + x /\ x >= z
      <3>1. x >= tx.size /\ 0 <= x
        BY <1>6, <2>5, <2>7
      <3>2. a - k >= x
        BY <1>5, <1>6, <2>2, <2>4, <3>1
      <3>3. g = t - p - k /\ t - a = b - c /\ b = p + c + f
        BY <2>5, <2>6
      <3>4. g >= f + x
        BY <3>2, <3>3
      <3> QED
        BY <2>5, <3>1, <3>4
    <2>8. f > 0 => g >= f + x /\ g >= f + z
      BY <2>7
    <2> QED
      BY <2>1, <2>3, <2>5, <2>6, <2>8
  <1>7. CASE first.left = 0 /\ request' = [request EXCEPT !.fee = extra] /\ Update(tx.inputs, first.kept)
    <2>1. /\ Deducted(tx.change, e).left = 0 /\ request' = [request EXCEPT !.fee = e]
          /\ Update(tx.inputs, Deducted(tx.change, e).kept)
      BY <1>4, <1>7
    <2> QED
      BY <1>1, <1>2, <1>4, <1>6, <2>1
  <1>8. CASE \E c \in Coin \ tx.inputs :
               LET more   == ExtraForInput(how, extra)
                   second == Deducted(WithInput(c), more)
               IN  /\ request' = [request EXCEPT !.fee = more]
                   /\ IF second.left = 0
                        THEN Update(tx.inputs \cup {c}, second.kept)
                        ELSE /\ tx' = [tx EXCEPT !.inputs = @ \cup {c}, !.change = WithInput(c)]
                             /\ result' = "damaged"
    <2>1. PICK c \in Coin \ tx.inputs :
            /\ request' = [request EXCEPT !.fee = ExtraForInput(how, e)]
            /\ IF Deducted(WithInput(c), ExtraForInput(how, e)).left = 0
                 THEN Update(tx.inputs \cup {c}, Deducted(WithInput(c), ExtraForInput(how, e)).kept)
                 ELSE /\ tx' = [tx EXCEPT !.inputs = @ \cup {c}, !.change = WithInput(c)]
                      /\ result' = "damaged"
      BY <1>4, <1>8
    <2>2. ExtraForInput(how, e) \in Int /\ (tx.fee > 0 => ExtraForInput(how, e) >= tx.size)
      <3>1. BumpOutput \in Nat /\ MinimalExtra = 5 * tx.size
        BY FundsAssumption DEF MinimalExtra
      <3>2. \/ ExtraForInput(how, e) = MinimalExtra
            \/ ExtraForInput(how, e) = MinimalExtra + BumpOutput
            \/ ExtraForInput(how, e) = e
        BY DEF ExtraForInput
      <3> QED
        BY <1>1, <1>4, <3>1, <3>2
    <2>3. PICK x \in Int : x = ExtraForInput(how, e) /\ (tx.fee > 0 => x >= tx.size)
      BY <2>2
    <2>4. PICK s \in Seq(Int) : s = WithInput(c) /\ s \in Seq(Nat)
      BY <1>1, <1>2, WithInputAdds
    <2>5. PICK S \in SUBSET Coin : S = tx.inputs \cup {c}
      BY <1>1
    <2>6. Total(S) - SumOf(s) = Total(tx.inputs) - SumOf(tx.change)
      <3>1. PICK b \in Int, d \in Int, v \in Int :
              b = Total(tx.inputs) /\ d = SumOf(tx.change) /\ v = value[c]
        <4>1. SumOf(tx.change) \in Int /\ value[c] \in Nat
          BY <1>1, SumOfFacts
        <4>2. Total(tx.inputs) \in Nat
          BY <1>1, TotalIsSum
        <4> QED
          BY <4>1, <4>2
      <3>2. SumOf(s) = d + v /\ Total(S) = b + v
        BY <1>1, <2>4, <2>5, <3>1, WithInputAdds
      <3> QED
        BY <3>1, <3>2
    <2>7. CASE Deducted(s, x).left = 0
      <3>1. /\ request' = [request EXCEPT !.fee = x]
            /\ Update(S, Deducted(s, x).kept)
        BY <2>1, <2>3, <2>4, <2>5, <2>7
      <3> QED
        BY <1>6, <2>3, <2>4, <2>6, <2>7, <3>1
    <2>8. CASE Deducted(s, x).left # 0
      <3>1. /\ request' = [request EXCEPT !.fee = x]
            /\ tx' = [tx EXCEPT !.inputs = S, !.change = s]
            /\ result' = "damaged"
        BY <2>1, <2>3, <2>4, <2>5, <2>8
      <3>2. request' \in Requests
        BY <1>1, <3>1 DEF Requests
      <3>3. TypeOK'
        <4>1. tx' \in [inputs : SUBSET Coin, pay : Nat, change : Seq(Int), fee : Int,
                       perKb : Int, size : Nat]
          BY <1>1, <3>1 DEF TypeOK
        <4> QED
          BY <1>1, <3>1, <3>2, <4>1 DEF TypeOK
      <3> QED
        BY <3>1, <3>3 DEF IInv, Balanced, Sized, FromSelection, NothingFound, Created, Returns
    <2> QED
      BY <2>7, <2>8
  <1>9. Oldest({d \in Coin \ tx.inputs : value[d] >= Wanted(how, extra)}) \subseteq Coin \ tx.inputs
    BY OldestIn
  <1> QED
    <2> HIDE DEF extra, first
    <2>1. \/ first.left = 0 /\ request' = [request EXCEPT !.fee = extra] /\ Update(tx.inputs, first.kept)
          \/ \E c \in Oldest({d \in Coin \ tx.inputs : value[d] >= Wanted(how, extra)}) :
               LET more   == ExtraForInput(how, extra)
                   second == Deducted(WithInput(c), more)
               IN  /\ request' = [request EXCEPT !.fee = more]
                   /\ IF second.left = 0
                        THEN Update(tx.inputs \cup {c}, second.kept)
                        ELSE /\ tx' = [tx EXCEPT !.inputs = @ \cup {c}, !.change = WithInput(c)]
                             /\ result' = "damaged"
      BY Zenon DEF BumpWith, extra, first
    <2> QED
      BY <1>7, <1>8, <1>9, <2>1

-----------------------------------------------------------------------------
(* Every behaviour.                                                          *)

LEMMA InitInv == Init => IInv
  <1> SUFFICES ASSUME Init
               PROVE  IInv
    OBVIOUS
  <1>1. request \in Requests
    BY DEF Init, Requests
  <1>2. TypeOK
    BY <1>1, NoTransactionType DEF Init, TypeOK
  <1> QED
    BY <1>2 DEF Init, IInv, Balanced, Sized, FromSelection, NothingFound, Created, Returns

LEMMA CallsTyped ==
  ASSUME NEW pay \in Payments, NEW max \in MaxUtxos, NEW count \in ChangeCounts,
         NEW chosen \in SUBSET Coin
  PROVE  /\ \A fee \in GivenFees :
              [pay |-> pay, mode |-> "given", fee |-> fee, perKb |-> 0,
               max |-> max, count |-> count, chosen |-> chosen] \in Requests
         /\ \A mode \in {"none", "priority"}, perKb \in Rates :
              [pay |-> pay, mode |-> mode, fee |-> 0, perKb |-> perKb,
               max |-> max, count |-> count, chosen |-> chosen] \in Requests
  BY FundsAssumption DEF Requests, Amounts

LEMMA NextInv ==
  ASSUME IInv, [Next]_vars
  PROVE  IInv'
  <1>1. CASE CreateAny
    <2>1. PICK pay \in Payments, max \in MaxUtxos, count \in ChangeCounts, chosen \in SUBSET Coin :
            \/ \E fee \in GivenFees :
                 Create([pay |-> pay, mode |-> "given", fee |-> fee, perKb |-> 0,
                         max |-> max, count |-> count, chosen |-> chosen])
            \/ \E mode \in {"none", "priority"}, perKb \in Rates :
                 Create([pay |-> pay, mode |-> mode, fee |-> 0, perKb |-> perKb,
                         max |-> max, count |-> count, chosen |-> chosen])
      BY <1>1 DEF CreateAny
    <2>2. PICK q \in Requests : Create(q)
      BY <2>1, CallsTyped
    <2> QED
      BY <2>2, CreationInv DEF Create
  <1>2. CASE Send
    BY <1>2, SendInv
  <1>3. CASE SweepAny
    <2>1. GivenFees \cup {0} \subseteq Nat /\ Rates \subseteq Nat
      BY FundsAssumption DEF Amounts
    <2> QED
      BY <1>3, <2>1, SweepInv DEF SweepAny
  <1>4. CASE BumpFee
    <2>1. BumpFees \subseteq Nat
      BY FundsAssumption DEF Amounts
    <2> QED
      BY <1>4, <2>1, BumpInv DEF BumpFee
  <1>5. CASE UNCHANGED vars
    <2>1. value' = value /\ request' = request /\ tx' = tx /\ result' = result
      BY <1>5 DEF vars
    <2>2. TypeOK' /\ Sized'
      BY <2>1 DEF IInv, TypeOK, Sized
    <2>3. Balanced'
      BY <2>1, TotalStays DEF IInv, Balanced
    <2>4. Target(request)' = Target(request)
      BY <2>1 DEF Target, Estimate
    <2>5. \A S : Selected(S, Target(request), request.max)' = Selected(S, Target(request), request.max)
      BY <2>1, <2>4, SelectedStays
    <2>6. FromSelection'
      <3>1. Fee(request, tx.inputs)' = Fee(request, tx.inputs)
        BY <2>1, FeeStays
      <3>2. Selected(tx.inputs, Target(request), request.max)' = Selected(tx.inputs, Target(request), request.max)
        BY <2>1, <2>4, SelectedStays
      <3> QED
        BY <2>1, <3>1, <3>2, UsableStays DEF IInv, FromSelection, Created
    <2>7. NothingFound'
      BY <2>1, <2>5, UsableStays DEF IInv, NothingFound
    <2> QED
      BY <2>2, <2>3, <2>6, <2>7 DEF IInv
  <1> QED
    BY <1>1, <1>2, <1>3, <1>4, <1>5 DEF Next

(* The amounts of a transaction in every state of every behaviour.           *)
THEOREM Invariant == Spec => []IInv
  <1>1. Init => IInv
    BY InitInv
  <1>2. IInv /\ [Next]_vars => IInv'
    BY NextInv
  <1> QED
    BY <1>1, <1>2, PTL DEF Spec

(* The variables keep their types, whatever the instance: every amount a     *)
(* whole number, the inputs coins of the account.                            *)
THEOREM TypeCorrect == Spec => []TypeOK
  <1>1. IInv => TypeOK
    BY DEF IInv
  <1> QED
    BY <1>1, Invariant, PTL

(* Inputs are payments, change and fee, after every call of                  *)
(* transaction_create(), send(), sweep() and bumpfee() that returns.         *)
THEOREM BalanceCorrect == Spec => []Balanced
  <1>1. IInv => Balanced
    BY DEF IInv
  <1> QED
    BY <1>1, Invariant, PTL

(* What the theorems below need of the types.                                *)
LEMMA RequestTyped ==
  ASSUME IInv
  PROVE  /\ value \in [Coin -> Nat] /\ request \in Requests /\ request.max \in Nat
         /\ Target(request) \in Int
  <1>1. value \in [Coin -> Nat] /\ request \in Requests
    BY ValueNat DEF IInv, TypeOK
  <1>2. {} \in SUBSET Coin
    OBVIOUS
  <1> QED
    BY <1>1, <1>2, FeesWhole DEF Requests

(* select_inputs() takes as few outputs as possible, and fails only when no  *)
(* set of as many outputs as are allowed covers payments and estimated fee.  *)
THEOREM FewestCorrect == Spec => []SelectsFewest
  <1>1. ASSUME IInv
        PROVE  SelectsFewest
    <2> SUFFICES ASSUME NEW S \in (SUBSET Usable) \ {{}}, Total(S) >= Target(request)
                 PROVE  /\ Created /\ request.chosen = {} => Cardinality(tx.inputs) <= Cardinality(S)
                        /\ result = "nofunds" => request.max # 0 /\ Cardinality(S) > request.max
      BY DEF SelectsFewest
    <2>1. PICK t \in Int, m \in Nat : t = Target(request) /\ m = request.max
      BY <1>1, RequestTyped
    <2>2. value \in [Coin -> Nat]
      BY <1>1, RequestTyped
    <2>3. ASSUME Created, request.chosen = {}
          PROVE  Cardinality(tx.inputs) <= Cardinality(S)
      <3>1. tx.inputs \in SUBSET Usable /\ Selected(tx.inputs, t, m)
        BY <1>1, <2>1, <2>3 DEF IInv, FromSelection
      <3>2. Total(S) >= t
        BY <2>1
      <3> QED
        BY <2>2, <3>1, <3>2, SelectedFewest
    <2>4. ASSUME result = "nofunds"
          PROVE  m # 0 /\ Cardinality(S) > m
      <3>1. ~\E T \in SUBSET Usable : Selected(T, t, m)
        BY <1>1, <2>1, <2>4 DEF IInv, NothingFound
      <3>2. Total(S) >= t
        BY <2>1
      <3>3. ~(m = 0 \/ Cardinality(S) <= m)
        BY <2>2, <3>1, <3>2, SelectionExists
      <3>4. Cardinality(S) \in Nat
        BY UsableCoins, CoinFinite
      <3> QED
        BY <3>3, <3>4
    <2> QED
      BY <2>1, <2>3, <2>4
  <1> QED
    BY <1>1, Invariant, PTL

(* The fee is in the limits that the request gives.                          *)
THEOREM FeeCorrect == Spec => []FeeWithin
  <1>1. ASSUME IInv
        PROVE  FeeWithin
    <2> SUFFICES ASSUME Created, request.chosen = {}
                 PROVE  /\ tx.fee >= Estimate(request) \/ tx.fee >= AskedFee(request, tx.inputs)
                        /\ \/ tx.fee <= AskedFee(request, tx.inputs) + Dust
                           \/ tx.fee < AskedFee(request, tx.inputs) + PerOutput(request)
      BY DEF FeeWithin
    <2>1. /\ tx.inputs \in SUBSET Usable
          /\ Selected(tx.inputs, Target(request), request.max)
          /\ tx.fee = Fee(request, tx.inputs)
      BY <1>1 DEF IInv, FromSelection
    <2>2. Total(tx.inputs) >= Target(request)
      BY <1>1, <2>1, RequestTyped, SelectedCovers
    <2>3. tx.inputs \in SUBSET Coin
      BY <2>1, UsableCoins
    <2> QED
      BY <1>1, <2>1, <2>2, <2>3, RequestTyped, FeeBounds
  <1> QED
    BY <1>1, Invariant, PTL

(* A higher fee is higher by what was asked for, at least.                   *)
THEOREM BumpCorrect == Spec => BumpPays
  <1>1. ASSUME IInv, [Next]_vars
        PROVE  [result' = "bumped" /\ tx.fee > 0 => /\ tx'.fee >= tx.fee + request'.fee
                                                    /\ tx'.fee >= tx.fee + tx.size]_<<tx, result>>
    <2>1. CASE CreateAny \/ Send \/ SweepAny
      <3>1. ASSUME NEW q, NEW end \in {"made", "sent"}, TransactionCreate(q, end)
            PROVE  result' # "bumped"
        BY <3>1 DEF TransactionCreate, Refuse, Build, Make
      <3>2. result' # "bumped"
        <4>1. CASE CreateAny
          BY <3>1, <4>1 DEF CreateAny, Create
        <4>2. CASE Send
          BY <3>1, <4>2 DEF Send
        <4>3. CASE SweepAny
          BY <3>1, <4>3 DEF SweepAny, Sweep, Refuse
        <4> QED
          BY <2>1, <4>1, <4>2, <4>3
      <3> QED
        BY <3>2
    <2>2. CASE BumpFee
      <3>1. BumpFees \subseteq Nat /\ 0 \in Nat
        BY FundsAssumption DEF Amounts
      <3>2. PICK how \in {"default", "fee", "extra"}, asked \in Nat : BumpWith(how, asked)
        BY <2>2, <3>1 DEF BumpFee
      <3> QED
        BY <1>1, <3>2, BumpInv
    <2>3. CASE UNCHANGED vars
      BY <2>3 DEF vars
    <2> QED
      BY <1>1, <2>1, <2>2, <2>3 DEF Next
  <1> QED
    BY <1>1, Invariant, PTL DEF Spec, BumpPays
=============================================================================
