------------------------ MODULE MultisigSign_proofs ------------------------
(* Theorems about MultisigSign, for any cosigners, inputs and keys.         *)
EXTENDS MultisigSign, SetLemmas, SequenceTheorems

-----------------------------------------------------------------------------
(* The elements of a list that are in a set.                                 *)

(* They are added one after the other.                                       *)
LEMMA OnlyInTurn ==
  ASSUME NEW A, NEW s \in Seq(A), NEW T
  PROVE  \E h : /\ h[0] = <<>> /\ h[Len(s)] = Only(s, T)
                /\ \A i \in 1..Len(s) :
                     h[i] = IF s[i] \in T THEN Append(h[i - 1], s[i]) ELSE h[i - 1]
  <1> DEFINE n == Len(s)
             next(it) == [U \in SUBSET (1..n) |->
                            IF U = {} THEN <<>>
                            ELSE IF s[Max(U)] \in T THEN Append(it[U \ {Max(U)}], s[Max(U)])
                                                    ELSE it[U \ {Max(U)}]]
             a == CHOOSE it : it = next(it)
             step == [p \in Seq(A) \X (1..n) |-> IF s[p[2]] \in T THEN Append(p[1], s[p[2]]) ELSE p[1]]
  <1>1. n \in Nat /\ DOMAIN s = 1..n /\ \A i \in 1..n : s[i] \in A
    OBVIOUS
  <1>2. Only(s, T) = a[1..n]
    BY <1>1 DEF Only, FoldLeft, MapThenFoldSet
  <1>3. step \in [Seq(A) \X (1..n) -> Seq(A)] /\ <<>> \in Seq(A)
    BY <1>1
  <1>4. \A r \in Seq(A), i \in 1..n :
          step[<<r, i>>] = IF s[i] \in T THEN Append(r, s[i]) ELSE r
    OBVIOUS
  <1> HIDE DEF step
  <1>5. PICK it \in [SUBSET (1..n) -> Seq(A)] : Folds(it, step, <<>>, n)
    BY ONLY <1>1, <1>3, FoldInTurn, Zenon
  <1>6. it = next(it)
    <2>1. ASSUME NEW U \in SUBSET (1..n), U # {}
          PROVE  it[U] = IF s[Max(U)] \in T THEN Append(it[U \ {Max(U)}], s[Max(U)])
                                            ELSE it[U \ {Max(U)}]
      <3>1. PICK m \in 1..n : m = Max(U)
        BY <1>1, <2>1, FirstNumbers
      <3>2. it[U] = step[<<it[U \ {m}], m>>]
        BY <1>5, <2>1, <3>1 DEF Folds
      <3>3. it[U \ {m}] \in Seq(A)
        OBVIOUS
      <3> QED
        BY <1>4, <3>1, <3>2, <3>3
    <2>2. it[{}] = <<>>
      BY <1>5 DEF Folds
    <2> QED
      BY <2>1, <2>2
  <1>7. a = next(a)
    BY <1>6
  <1> HIDE DEF a
  <1> DEFINE h == [i \in 0..n |-> a[1..i]]
  <1>8. h[0] = <<>>
    BY <1>7, FirstNumbers
  <1>9. ASSUME NEW i \in 1..n
        PROVE  h[i] = IF s[i] \in T THEN Append(h[i - 1], s[i]) ELSE h[i - 1]
    <2>1. /\ 1..i \in SUBSET (1..n) /\ 1..i # {} /\ Max(1..i) = i
          /\ (1..i) \ {i} = 1..(i - 1)
      BY <1>1, FirstNumbers
    <2>2. a[1..i] = IF s[i] \in T THEN Append(a[1..(i - 1)], s[i]) ELSE a[1..(i - 1)]
      BY <1>7, <2>1
    <2>3. i \in 0..n /\ i - 1 \in 0..n
      OBVIOUS
    <2> QED
      BY <2>2, <2>3
  <1>10. h[n] = Only(s, T)
    BY <1>1, <1>2
  <1> QED
    BY <1>8, <1>9, <1>10

(* R is s without what is not in T: e[x] is the place where its element x    *)
(* was found, among the first n.                                             *)
Places(R, s, T, n, e) ==
  /\ e \in [1..Len(R) -> 1..n]
  /\ \A x, y \in 1..Len(R) : x < y => e[x] < e[y]
  /\ \A x \in 1..Len(R) : R[x] = s[e[x]] /\ s[e[x]] \in T
  /\ \A j \in 1..n : s[j] \in T => \E x \in 1..Len(R) : e[x] = j

LEMMA OnlyKeeps ==
  ASSUME NEW A, NEW s \in Seq(A), NEW T
  PROVE  /\ Only(s, T) \in Seq(A \cap T)
         /\ \E e : Places(Only(s, T), s, T, Len(s), e)
  <1> DEFINE n == Len(s)
  <1>1. PICK h : /\ h[0] = <<>> /\ h[n] = Only(s, T)
                 /\ \A i \in 1..n : h[i] = IF s[i] \in T THEN Append(h[i - 1], s[i]) ELSE h[i - 1]
    BY OnlyInTurn
  <1>2. n \in Nat /\ \A i \in 1..n : s[i] \in A
    OBVIOUS
  <1> DEFINE Good(i) == h[i] \in Seq(A \cap T) /\ \E e : Places(h[i], s, T, i, e)
             G == {i \in 0..n : Good(i)}
  <1>3. 0 \in G
    <2>1. h[0] = <<>> /\ <<>> \in Seq(A \cap T) /\ Len(<<>>) = 0
      BY <1>1
    <2> DEFINE e == [x \in 1..0 |-> 1]
    <2>2. Places(<<>>, s, T, 0, e)
      BY DEF Places
    <2>3. Good(0)
      BY <2>1, <2>2
    <2> QED
      BY <1>2, <2>3
  <1>4. ASSUME NEW i \in 0..(n - 1), i \in G
        PROVE  i + 1 \in G
    <2>1. PICK k \in 1..n : k = i + 1 /\ i = k - 1
      BY <1>2
    <2>2. PICK e : Places(h[i], s, T, i, e)
      BY <1>4
    <2>3. PICK R \in Seq(A \cap T) : R = h[i]
      BY <1>4
    <2>4. h[k] = IF s[k] \in T THEN Append(R, s[k]) ELSE R
      BY <1>1, <2>1, <2>3
    <2>5. CASE s[k] \in T
      <3> DEFINE m == Len(R)
                 Q == Append(R, s[k])
                 f == [x \in 1..(m + 1) |-> IF x = m + 1 THEN k ELSE e[x]]
      <3>1. m \in Nat /\ Q \in Seq(A \cap T) /\ Len(Q) = m + 1 /\ Q[m + 1] = s[k]
            /\ \A x \in 1..m : Q[x] = R[x]
        BY <1>2, <2>5
      <3>2. e \in [1..m -> 1..i]
        BY <2>2, <2>3 DEF Places
      <3>3. f \in [1..(m + 1) -> 1..k] /\ f[m + 1] = k /\ \A x \in 1..m : f[x] = e[x] /\ f[x] < k
        <4>1. \A x \in 1..m : e[x] \in 1..k /\ e[x] < k
          BY <2>1, <3>2
        <4>2. \A x \in 1..(m + 1) : x = m + 1 \/ x \in 1..m
          BY <3>1
        <4>3. m + 1 \in 1..(m + 1) /\ \A x \in 1..m : x \in 1..(m + 1) /\ x # m + 1
          BY <3>1
        <4> HIDE DEF m
        <4> QED
          BY <4>1, <4>2, <4>3
      <3>4. \A x, y \in 1..(m + 1) : x < y => f[x] < f[y]
        <4> SUFFICES ASSUME NEW x \in 1..(m + 1), NEW y \in 1..(m + 1), x < y
                     PROVE  f[x] < f[y]
          OBVIOUS
        <4>1. x \in 1..m
          BY <3>1
        <4>2. y \in 1..m \/ y = m + 1
          BY <3>1
        <4> HIDE DEF f, m
        <4> QED
          BY <2>2, <2>3, <3>3, <4>1, <4>2 DEF Places, m
      <3>5. \A x \in 1..(m + 1) : Q[x] = s[f[x]] /\ s[f[x]] \in T
        <4> SUFFICES ASSUME NEW x \in 1..(m + 1)
                     PROVE  Q[x] = s[f[x]] /\ s[f[x]] \in T
          OBVIOUS
        <4>1. x \in 1..m \/ x = m + 1
          BY <3>1
        <4> HIDE DEF f, m, Q
        <4> QED
          BY <2>2, <2>3, <2>5, <3>1, <3>3, <4>1 DEF Places, m
      <3>6. \A j \in 1..k : s[j] \in T => \E x \in 1..(m + 1) : f[x] = j
        <4> SUFFICES ASSUME NEW j \in 1..k, s[j] \in T
                     PROVE  \E x \in 1..(m + 1) : f[x] = j
          OBVIOUS
        <4>1. CASE j = k
          BY <3>1, <3>3, <4>1
        <4>2. CASE j # k
          <5>1. j \in 1..i
            BY <2>1, <4>2
          <5>2. PICK x \in 1..m : e[x] = j
            BY <2>2, <2>3, <5>1 DEF Places
          <5> QED
            BY <3>1, <3>3, <5>2
        <4> QED
          BY <4>1, <4>2
      <3>7. Places(Q, s, T, k, f)
        <4> HIDE DEF Q, f, m
        <4> QED
          BY <3>1, <3>3, <3>4, <3>5, <3>6 DEF Places
      <3>8. h[k] = Q
        BY <2>4, <2>5
      <3>9. Good(k)
        BY <3>1, <3>7, <3>8
      <3> QED
        BY <2>1, <3>9
    <2>6. CASE s[k] \notin T
      <3>1. Places(R, s, T, k, e)
        <4>1. \A j \in 1..k : s[j] \in T => j \in 1..i
          BY <2>1, <2>6
        <4>2. 1..i \subseteq 1..k
          BY <2>1
        <4> QED
          BY <2>2, <2>3, <4>1, <4>2 DEF Places
      <3>2. Good(k)
        BY <2>4, <2>6, <3>1
      <3> QED
        BY <2>1, <3>2
    <2> QED
      BY <2>5, <2>6
  <1>5. 0..n \subseteq G
    <2> HIDE DEF G
    <2> QED
      BY <1>2, <1>3, <1>4, CountInduction
  <1>6. n \in 0..n
    BY <1>2
  <1> QED
    BY <1>1, <1>5, <1>6

-----------------------------------------------------------------------------
(* The assumption of MultisigSign, as the lemmas take it: inputs have lists  *)
(* of keys, and sign() is called with lists.                                 *)
Setting ==
  /\ NInputs \in Nat
  /\ \A i \in Input : KeyList[i] \in Seq(Key)
  /\ Required \in [Input -> Nat]
  /\ NoKey \notin Key
  /\ Versions \in Nat \ {0}
  /\ \E Some : Given \subseteq Seq(Some)

LEMMA SettingHolds == Setting
  BY SigningAssumption DEF Setting

-----------------------------------------------------------------------------
(* Input.verify().                                                           *)

Tried == [sigs : Seq(Signature), next : Nat \ {0}, count : Nat]

(* The same signatures, whatever their public_key attributes say.            *)
Like(S, T) ==
  /\ Len(S) = Len(T)
  /\ \A x \in 1..Len(T) : S[x].by = T[x].by /\ S[x].of = T[x].of

(* A key is tried on the signature after those that were found to be valid.  *)
InStep(r, n) == r.count <= n /\ r.next <= r.count + 1 /\ r.next <= Len(r.sigs) + 1

LEMMA TryKeyDoes ==
  ASSUME NEW r \in Tried, NEW k \in Key, NEW v, NEW n \in Nat, NEW q, q = TryKey(r, k, v, n)
  PROVE  /\ q \in Tried /\ Like(q.sigs, r.sigs)
         /\ InStep(r, n) => InStep(q, n)
  <1>1. PICK s \in Seq(Signature), x \in Nat \ {0}, c \in Nat :
          r = [sigs |-> s, next |-> x, count |-> c]
    BY DEF Tried
  <1>2. CASE r.count = n \/ r.next > Len(r.sigs)
    <2>1. q = r
      BY <1>2 DEF TryKey
    <2> QED
      BY <2>1 DEF Like
  <1>3. CASE ~(r.count = n \/ r.next > Len(r.sigs))
    <2>1. Len(s) \in Nat /\ x \in 1..Len(s) /\ c # n
      BY <1>1, <1>3
    <2>2. PICK hit \in BOOLEAN : hit = Valid(s[x], k, v)
      BY DEF Valid
    <2>3. PICK prev \in BOOLEAN : prev = (x > 1 /\ Valid(s[x - 1], k, v))
      BY DEF Valid
    <2>4. PICK t \in Signature : t = [s[x] EXCEPT !.pk = k] /\ t.by = s[x].by /\ t.of = s[x].of
      <3>1. PICK b \in Key, o \in 1..Versions, p \in Key \cup {NoKey} :
              s[x] = [by |-> b, of |-> o, pk |-> p]
        <4>1. s[x] \in Signature
          BY <2>1
        <4>2. s[x] \in [by : Key, of : 1..Versions, pk : Key \cup {NoKey}]
          BY <4>1 DEF Signature
        <4> HIDE DEF Key
        <4> QED
          BY <4>2
      <3>2. [s[x] EXCEPT !.pk = k] = [by |-> b, of |-> o, pk |-> k]
        BY <3>1
      <3> QED
        BY <3>1, <3>2 DEF Signature
    <2>5. PICK u \in Seq(Signature) : u = [s EXCEPT ![x] = t]
      BY <2>1, ExceptSeq
    <2>6. Len(u) = Len(s) /\ \A y \in 1..Len(s) : u[y] = IF y = x THEN t ELSE s[y]
      BY <2>1, <2>5, ExceptSeq
    <2>7. q = [sigs |-> u, next |-> IF hit THEN x + 1 ELSE x,
               count |-> IF hit \/ prev THEN c + 1 ELSE c]
      BY <1>1, <1>3, <2>2, <2>3, <2>4, <2>5 DEF TryKey
    <2>8. q \in Tried
      BY <2>7 DEF Tried
    <2>9. Like(u, s)
      BY <2>4, <2>6 DEF Like
    <2>10. InStep(r, n) => InStep(q, n)
      BY <1>1, <2>1, <2>6, <2>7 DEF InStep
    <2> QED
      BY <1>1, <2>7, <2>8, <2>9, <2>10
  <1> QED
    BY <1>2, <1>3

(* The keys are tried one after the other.                                   *)
Turns(h, S, i, v) ==
  LET n == Len(KeyList[i])
  IN  /\ h[0] = [sigs |-> S, next |-> 1, count |-> 0]
      /\ h[n] = VerifyInput(S, i, v)
      /\ \A j \in 1..n : h[j] = TryKey(h[j - 1], KeyList[i][j], v, Required[i])
      /\ \A j \in 0..n : h[j] \in Tried /\ Like(h[j].sigs, S) /\ InStep(h[j], Required[i])

LEMMA VerifyInTurn ==
  ASSUME Setting, NEW i \in Input, NEW S \in Seq(Signature), NEW v
  PROVE  \E h : Turns(h, S, i, v)
  <1> DEFINE s == KeyList[i]
             n == Len(s)
             m == Required[i]
             base == [sigs |-> S, next |-> 1, count |-> 0]
             next(it) == [U \in SUBSET (1..n) |->
                            IF U = {} THEN base ELSE TryKey(it[U \ {Max(U)}], s[Max(U)], v, m)]
             a == CHOOSE it : it = next(it)
             step == [p \in Tried \X (1..n) |-> TryKey(p[1], s[p[2]], v, m)]
  <1>1. n \in Nat /\ m \in Nat /\ DOMAIN s = 1..n /\ \A j \in 1..n : s[j] \in Key
    BY DEF Setting
  <1>2. VerifyInput(S, i, v) = a[1..n]
    BY <1>1 DEF VerifyInput, FoldLeft, MapThenFoldSet
  <1>3. base \in Tried /\ Like(S, S) /\ InStep(base, m)
    BY <1>1 DEF Tried, Like, InStep
  <1>4. step \in [Tried \X (1..n) -> Tried]
    <2>1. ASSUME NEW r \in Tried, NEW j \in 1..n
          PROVE  TryKey(r, s[j], v, m) \in Tried
      BY <1>1, TryKeyDoes
    <2> QED
      BY <2>1
  <1>5. \A r \in Tried, j \in 1..n : step[<<r, j>>] = TryKey(r, s[j], v, m)
    OBVIOUS
  <1> HIDE DEF step, base
  <1>6. PICK it \in [SUBSET (1..n) -> Tried] : Folds(it, step, base, n)
    BY ONLY <1>1, <1>3, <1>4, FoldInTurn, Zenon
  <1>7. it = next(it)
    <2>1. ASSUME NEW U \in SUBSET (1..n), U # {}
          PROVE  it[U] = TryKey(it[U \ {Max(U)}], s[Max(U)], v, m)
      <3>1. PICK j \in 1..n : j = Max(U)
        BY <1>1, <2>1, FirstNumbers
      <3>2. it[U] = step[<<it[U \ {j}], j>>]
        BY <1>6, <2>1, <3>1 DEF Folds
      <3>3. it[U \ {j}] \in Tried
        OBVIOUS
      <3> QED
        BY <1>5, <3>1, <3>2, <3>3
    <2>2. it[{}] = base
      BY <1>6 DEF Folds
    <2> QED
      BY <2>1, <2>2
  <1>8. a = next(a)
    BY <1>7
  <1> HIDE DEF a
  <1> DEFINE h == [j \in 0..n |-> a[1..j]]
  <1>9. h[0] = base
    BY <1>8, FirstNumbers
  <1>10. ASSUME NEW j \in 1..n
         PROVE  h[j] = TryKey(h[j - 1], s[j], v, m)
    <2>1. /\ 1..j \in SUBSET (1..n) /\ 1..j # {} /\ Max(1..j) = j
          /\ (1..j) \ {j} = 1..(j - 1)
      BY <1>1, FirstNumbers
    <2>2. a[1..j] = TryKey(a[1..(j - 1)], s[j], v, m)
      BY <1>8, <2>1
    <2>3. j \in 0..n /\ j - 1 \in 0..n
      OBVIOUS
    <2> QED
      BY <2>2, <2>3
  <1>11. h[n] = VerifyInput(S, i, v)
    BY <1>1, <1>2
  <1> DEFINE Good(j) == h[j] \in Tried /\ Like(h[j].sigs, S) /\ InStep(h[j], m)
             G == {j \in 0..n : Good(j)}
  <1> HIDE DEF h
  <1>12. 0 \in G
    <2>1. Good(0)
      BY <1>3, <1>9 DEF base
    <2> QED
      BY <1>1, <2>1
  <1>13. ASSUME NEW j \in 0..(n - 1), j \in G
         PROVE  j + 1 \in G
    <2>1. PICK k \in 1..n : k = j + 1 /\ j = k - 1
      BY <1>1
    <2>2. PICK r \in Tried : r = h[j] /\ Like(r.sigs, S) /\ InStep(r, m)
      BY <1>13
    <2>3. PICK q : q = h[k]
      OBVIOUS
    <2>4. q = TryKey(r, s[k], v, m)
      BY <1>10, <2>1, <2>2, <2>3
    <2>5. s[k] \in Key
      BY <1>1
    <2>6. q \in Tried /\ Like(q.sigs, r.sigs) /\ InStep(q, m)
      BY <1>1, <2>2, <2>4, <2>5, TryKeyDoes
    <2>7. Like(q.sigs, S)
      BY <2>2, <2>6 DEF Like
    <2>8. Good(k)
      BY <2>3, <2>6, <2>7
    <2> QED
      BY <2>1, <2>8
  <1>14. 0..n \subseteq G
    <2> HIDE DEF G
    <2> QED
      BY <1>1, <1>12, <1>13, CountInduction
  <1>15. \A j \in 0..n : Good(j)
    BY <1>14
  <1> QED
    BY <1>9, <1>10, <1>11, <1>15 DEF Turns, base

(* Only the first signatures count, as many as are needed.                   *)
LEMMA SameCount ==
  ASSUME Setting, NEW i \in Input, NEW v, NEW S \in Seq(Signature), NEW T \in Seq(Signature),
         \A x \in 1..Required[i] :
           /\ x <= Len(S) <=> x <= Len(T)
           /\ x <= Len(S) => S[x].by = T[x].by /\ S[x].of = T[x].of
  PROVE  InputOK(S, i, v) <=> InputOK(T, i, v)
  <1> DEFINE n == Len(KeyList[i])
             m == Required[i]
  <1>1. n \in Nat /\ m \in Nat
    BY DEF Setting
  <1>2. PICK g : Turns(g, S, i, v)
    BY VerifyInTurn
  <1>3. PICK h : Turns(h, T, i, v)
    BY VerifyInTurn
  <1> DEFINE Good(j) == g[j].next = h[j].next /\ g[j].count = h[j].count
             G == {j \in 0..n : Good(j)}
  <1>4. 0 \in G
    <2>1. Good(0)
      BY <1>2, <1>3 DEF Turns
    <2> QED
      BY <1>1, <2>1
  <1>5. ASSUME NEW j \in 0..(n - 1), j \in G
        PROVE  j + 1 \in G
    <2>1. PICK k \in 1..n : k = j + 1 /\ j = k - 1
      BY <1>1
    <2>2. PICK r \in Tried : r = g[j] /\ Like(r.sigs, S) /\ InStep(r, m)
      BY <1>2 DEF Turns
    <2>3. PICK q \in Tried : q = h[j] /\ Like(q.sigs, T) /\ InStep(q, m)
      BY <1>3 DEF Turns
    <2>4. r.next = q.next /\ r.count = q.count
      BY <1>5, <2>2, <2>3
    <2>5. PICK key : key = KeyList[i][k]
      OBVIOUS
    <2>6. g[k] = TryKey(r, key, v, m) /\ h[k] = TryKey(q, key, v, m)
      BY <1>2, <1>3, <2>1, <2>2, <2>3, <2>5 DEF Turns
    <2>7. PICK x \in Nat \ {0}, c \in Nat : x = r.next /\ c = r.count
      BY DEF Tried
    <2>8. c <= m /\ x <= c + 1 /\ Len(r.sigs) = Len(S) /\ Len(q.sigs) = Len(T)
      BY <2>2, <2>3, <2>7 DEF InStep, Like
    <2>9. CASE c = m \/ x > Len(S)
      <3>1. ASSUME c # m
            PROVE  x > Len(T)
        <4>1. PICK ls \in Nat, lt \in Nat : ls = Len(S) /\ lt = Len(T)
          OBVIOUS
        <4>2. x > ls /\ c < m /\ x <= m
          BY <1>1, <2>7, <2>8, <2>9, <3>1, <4>1
        <4>3. x <= lt => x <= ls
          BY <1>1, <4>1, <4>2
        <4> QED
          BY <4>1, <4>2, <4>3
      <3>2. TryKey(r, key, v, m) = r /\ TryKey(q, key, v, m) = q
        BY <2>4, <2>7, <2>8, <2>9, <3>1 DEF TryKey
      <3>3. Good(k)
        BY <2>4, <2>6, <3>2
      <3> QED
        BY <2>1, <3>3
    <2>10. CASE ~(c = m \/ x > Len(S))
      <3>1. x \in 1..m /\ x <= Len(S) /\ x <= Len(T)
        BY <1>1, <2>7, <2>8, <2>10
      <3>2. Valid(r.sigs[x], key, v) <=> Valid(q.sigs[x], key, v)
        BY <2>2, <2>3, <3>1 DEF Valid, Like
      <3>3. x > 1 => (Valid(r.sigs[x - 1], key, v) <=> Valid(q.sigs[x - 1], key, v))
        <4>1. PICK ls \in Nat, lt \in Nat : ls = Len(S) /\ lt = Len(T)
          OBVIOUS
        <4>2. x \in 1..m /\ x <= ls /\ x <= lt
          BY <3>1, <4>1
        <4>3. x > 1 => x - 1 \in 1..m /\ x - 1 \in 1..ls /\ x - 1 \in 1..lt
          BY ONLY <1>1, <4>2, ls \in Nat, lt \in Nat
        <4>4. x > 1 => /\ r.sigs[x - 1].by = S[x - 1].by /\ r.sigs[x - 1].of = S[x - 1].of
                       /\ q.sigs[x - 1].by = T[x - 1].by /\ q.sigs[x - 1].of = T[x - 1].of
                       /\ S[x - 1].by = T[x - 1].by /\ S[x - 1].of = T[x - 1].of
          BY <2>2, <2>3, <4>1, <4>2, <4>3 DEF Like
        <4> QED
          BY <4>4 DEF Valid
      <3>4. ~(r.count = m \/ r.next > Len(r.sigs)) /\ ~(q.count = m \/ q.next > Len(q.sigs))
        BY <2>4, <2>7, <2>8, <2>10, <3>1
      <3>5. Good(k)
        BY <2>4, <2>6, <2>7, <3>2, <3>3, <3>4 DEF TryKey
      <3> QED
        BY <2>1, <3>5
    <2> QED
      BY <2>9, <2>10
  <1>6. 0..n \subseteq G
    <2> HIDE DEF G
    <2> QED
      BY <1>1, <1>4, <1>5, CountInduction
  <1>7. Good(n)
    BY <1>1, <1>6
  <1> QED
    BY <1>2, <1>3, <1>7 DEF Turns, InputOK

-----------------------------------------------------------------------------
(* Transaction.sign().                                                       *)

(* Only keys of the input sign, and a key that has signed does it again only *)
(* to replace its signature.                                                 *)
LEMMA SignersOfInput ==
  ASSUME NEW Some, NEW K \in Seq(Some), NEW i, NEW S, NEW replace
  PROVE  /\ Signers(S, i, K, replace) \subseteq Range(KeyList[i])
         /\ ~replace => Signers(S, i, K, replace) \cap PublicKeys(S) = {}
  <1> DEFINE known == {x \in DOMAIN K : K[x] \in Range(KeyList[i])}
             stop  == {x \in known : ~replace /\ K[x] \in PublicKeys(S)}
  <1>1. Signers(S, i, K, replace) = {K[x] : x \in {y \in known : \A z \in stop : y < z}}
    BY DEF Signers
  <1>2. ASSUME NEW y \in known, \A z \in stop : y < z, ~replace
        PROVE  K[y] \notin PublicKeys(S)
    <2>1. y \in Nat
      OBVIOUS
    <2>2. ~(y < y)
      BY <2>1
    <2> QED
      BY <1>2, <2>2
  <1> QED
    BY <1>1, <1>2

LEMMA NoneIsNone ==
  ASSUME Setting
  PROVE  /\ \A s \in Signature : s # None /\ s.by \in Key
         /\ \A k \in Key, v \in 1..Versions : Sig(k, v) \in Signature
  <1> HIDE DEF Key
  <1>1. ASSUME NEW s \in Signature
        PROVE  s # None /\ s.by \in Key
    <2>1. s.by \in Key /\ None.by = NoKey
      BY DEF Signature, None
    <2> QED
      BY <2>1 DEF Setting
  <1> QED
    BY <1>1 DEF Signature, Sig

LEMMA DomainTyped ==
  ASSUME Setting, NEW i \in Input, NEW S \in Seq(Signature), NEW N \in SUBSET Range(KeyList[i]),
         NEW v \in 1..Versions
  PROVE  Domain(S, i, N, v) \in [1..Len(KeyList[i]) -> Signature \cup {None}]
  <1>1. DOMAIN KeyList[i] = 1..Len(KeyList[i]) /\ \A j \in 1..Len(KeyList[i]) : KeyList[i][j] \in Key
    BY DEF Setting
  <1>2. ASSUME NEW k \in Key
        PROVE  LET old == {x \in Known(S) : S[x].pk = k}
               IN  old # {} => S[CHOOSE x \in old : \A y \in old : x <= y] \in Signature
    <2> DEFINE old == {x \in Known(S) : S[x].pk = k}
    <2>1. Len(S) \in Nat /\ old \in SUBSET (0..Len(S)) /\ old \in SUBSET (1..Len(S))
      BY DEF Known
    <2> HIDE DEF old
    <2>2. ASSUME old # {}
          PROVE  (CHOOSE x \in old : \A y \in old : x <= y) \in old
      <3>1. \E x \in old : \A y \in old : x <= y
        BY <2>1, <2>2, SmallestNumber
      <3> QED
        BY <3>1
    <2>3. ASSUME old # {}
          PROVE  S[CHOOSE x \in old : \A y \in old : x <= y] \in Signature
      <3>1. PICK f \in 1..Len(S) : f = CHOOSE x \in old : \A y \in old : x <= y
        BY <2>1, <2>2, <2>3
      <3> QED
        BY <3>1
    <2> QED
      BY <2>3 DEF old
  <1>3. ASSUME NEW j \in 1..Len(KeyList[i])
        PROVE  LET k == KeyList[i][j]
                   old == {x \in Known(S) : S[x].pk = k}
               IN  (IF k \in N THEN Sig(k, v)
                    ELSE IF old # {} THEN S[CHOOSE x \in old : \A y \in old : x <= y]
                    ELSE None) \in Signature \cup {None}
    BY <1>1, <1>2, NoneIsNone
  <1> QED
    BY <1>1, <1>3 DEF Domain

LEMMA FilledTyped ==
  ASSUME NEW n \in Nat, NEW S \in Seq(Signature), NEW D \in [1..n -> Signature \cup {None}], NEW N
  PROVE  Filled(S, D, N) \in [1..n -> Signature \cup {None}]
  <1> DEFINE free == {j \in DOMAIN D : D[j] = None}
             rank(j) == Cardinality({f \in free : f <= j})
  <1>1. ASSUME NEW j \in 1..n
        PROVE  (IF j \in free /\ rank(j) <= Len(S) THEN S[rank(j)] ELSE D[j]) \in Signature \cup {None}
    <2>1. CASE j \in free /\ rank(j) <= Len(S)
      <3>1. IsFiniteSet({f \in free : f <= j})
        BY FirstNumbers, FS_Subset
      <3>2. rank(j) \in Nat /\ rank(j) # 0
        <4>1. PICK B : B = {f \in free : f <= j}
          OBVIOUS
        <4>2. j \in B /\ IsFiniteSet(B)
          BY <2>1, <3>1, <4>1
        <4>3. Cardinality(B) \in Nat /\ Cardinality(B) # 0
          BY <4>2, FS_CardinalityType, FS_EmptySet
        <4> QED
          BY <4>1, <4>3
      <3>3. rank(j) \in 1..Len(S)
        BY <2>1, <3>2
      <3> HIDE DEF rank
      <3> QED
        BY <2>1, <3>3
    <2>2. CASE ~(j \in free /\ rank(j) <= Len(S))
      BY <2>2
    <2> QED
      BY <2>1, <2>2
  <1>2. \/ Filled(S, D, N) = D
        \/ Filled(S, D, N) = [j \in DOMAIN D |-> IF j \in free /\ rank(j) <= Len(S) THEN S[rank(j)] ELSE D[j]]
    BY DEF Filled
  <1> HIDE DEF rank, free
  <1> QED
    BY <1>1, <1>2

(* An order cannot be kept by more numbers than there are.                   *)
LEMMA NoMorePlaces ==
  ASSUME NEW R, NEW s, NEW T, NEW n \in Nat, NEW e, Len(R) \in Nat, Places(R, s, T, n, e)
  PROVE  Len(R) <= n
  <1> DEFINE m == Len(R)
             G == {x \in 0..m : x # 0 => e[x] >= x}
  <1>1. e \in [1..m -> 1..n] /\ \A x, y \in 1..m : x < y => e[x] < e[y]
    BY DEF Places
  <1>2. 0 \in G
    OBVIOUS
  <1>3. ASSUME NEW x \in 0..(m - 1), x \in G
        PROVE  x + 1 \in G
    <2>1. x + 1 \in 1..m /\ e[x + 1] \in Nat /\ e[x + 1] >= 1
      BY <1>1
    <2>2. CASE x = 0
      BY <2>1, <2>2
    <2>3. CASE x # 0
      <3>1. x \in 1..m /\ e[x] < e[x + 1] /\ e[x] \in Nat
        BY <1>1, <2>1, <2>3
      <3> QED
        BY <1>3, <2>1, <2>3, <3>1
    <2> QED
      BY <2>2, <2>3
  <1>4. 0..m \subseteq G
    <2> HIDE DEF G
    <2> QED
      BY <1>2, <1>3, CountInduction
  <1>5. CASE m = 0
    BY <1>5
  <1>6. CASE m # 0
    <2>1. m \in 1..m /\ m \in G
      BY <1>4, <1>6
    <2>2. e[m] \in 1..n /\ e[m] >= m
      BY <1>1, <1>6, <2>1
    <2> QED
      BY <2>2
  <1> QED
    BY <1>5, <1>6

LEMMA WithNewTyped ==
  ASSUME Setting, NEW i \in Input, NEW S \in Seq(Signature), NEW N \in SUBSET Range(KeyList[i]),
         NEW v \in 1..Versions
  PROVE  WithNew(S, i, N, v) \in Seq(Signature) /\ Len(WithNew(S, i, N, v)) <= Len(KeyList[i])
  <1>1. PICK n \in Nat : n = Len(KeyList[i])
    BY DEF Setting
  <1>2. PICK all \in [1..n -> Signature \cup {None}] : all = Filled(S, Domain(S, i, N, v), N)
    BY <1>1, DomainTyped, FilledTyped
  <1>3. all \in Seq(Signature \cup {None}) /\ Len(all) = n
    BY <1>2
  <1> DEFINE T == Range(all) \ {None}
  <1>4. WithNew(S, i, N, v) = Only(all, T)
    BY <1>2 DEF WithNew
  <1> HIDE DEF T
  <1>5. Only(all, T) \in Seq((Signature \cup {None}) \cap T) /\ \E e : Places(Only(all, T), all, T, n, e)
    BY <1>3, OnlyKeeps
  <1>6. (Signature \cup {None}) \cap T \subseteq Signature
    BY DEF T
  <1>7. PICK R \in Seq(Signature) : R = Only(all, T)
    BY <1>5, <1>6
  <1>8. Len(R) <= n
    BY <1>5, <1>7, NoMorePlaces
  <1> QED
    BY <1>1, <1>4, <1>7, <1>8

LEMMA KeysToUse ==
  ASSUME Setting, NEW p, NEW i \in Input, NEW K \in Given \cup {<<>>}
  PROVE  \E Some : K \o OwnKeys(p, i) \in Seq(Some)
  <1>1. PICK Some : Given \subseteq Seq(Some)
    BY DEF Setting
  <1>2. OwnKeys(p, i) \in Seq(Key \cap Private[p])
    BY OnlyKeeps DEF OwnKeys, Setting
  <1> DEFINE A == Some \cup Key
  <1>3. K \in Seq(A) /\ OwnKeys(p, i) \in Seq(A)
    <2>1. ASSUME NEW B, NEW C, B \subseteq C, NEW q \in Seq(B)
          PROVE  q \in Seq(C)
      BY <2>1
    <2>2. Some \subseteq A /\ Key \cap Private[p] \subseteq A
      OBVIOUS
    <2>3. <<>> \in Seq(A)
      OBVIOUS
    <2> HIDE DEF A
    <2> QED
      BY <1>1, <1>2, <2>1, <2>2, <2>3
  <1>4. K \o OwnKeys(p, i) \in Seq(A)
    BY <1>3
  <1> QED
    BY <1>4

-----------------------------------------------------------------------------
(* Transaction.verify() and the ways a transaction is handed on change       *)
(* nothing of a signature but its public_key attribute.                      *)

Signed == [Input -> Seq(Signature)]
Short(T) == \A i \in Input : Len(T[i]) <= Len(KeyList[i])

LEMMA VerifyKeeps ==
  ASSUME Setting, NEW i \in Input, NEW S \in Seq(Signature), NEW v
  PROVE  VerifyInput(S, i, v).sigs \in Seq(Signature) /\ Like(VerifyInput(S, i, v).sigs, S)
  <1>1. PICK n \in Nat : n = Len(KeyList[i])
    BY DEF Setting
  <1>2. PICK h : Turns(h, S, i, v)
    BY VerifyInTurn
  <1>3. n \in 0..n
    OBVIOUS
  <1>4. PICK r \in Tried : r = VerifyInput(S, i, v) /\ Like(r.sigs, S)
    BY <1>1, <1>2, <1>3 DEF Turns
  <1> QED
    BY <1>4 DEF Tried

LEMMA AfterVerifyLike ==
  ASSUME Setting, NEW T \in Signed, NEW v
  PROVE  /\ AfterVerify(T, v) \in Signed
         /\ \A i \in Input : Like(AfterVerify(T, v)[i], T[i])
  <1>1. ASSUME NEW i \in Input
        PROVE  LET S == IF i \in Reached(T, v) THEN VerifyInput(T[i], i, v).sigs ELSE T[i]
               IN  S \in Seq(Signature) /\ Like(S, T[i])
    <2>1. PICK S \in Seq(Signature) : S = T[i]
      BY DEF Signed
    <2>2. VerifyInput(S, i, v).sigs \in Seq(Signature) /\ Like(VerifyInput(S, i, v).sigs, S)
      BY VerifyKeeps
    <2>3. Like(S, S)
      BY DEF Like
    <2> QED
      BY <2>1, <2>2, <2>3
  <1>2. AfterVerify(T, v) = [i \in Input |-> IF i \in Reached(T, v) THEN VerifyInput(T[i], i, v).sigs ELSE T[i]]
    BY DEF AfterVerify
  <1> QED
    BY <1>1, <1>2 DEF Signed

(* The signatures of a transaction that is imported.                         *)
Copied(T, dict) ==
  [i \in Input |-> [x \in DOMAIN T[i] |-> IF dict THEN [T[i][x] EXCEPT !.pk = NoKey] ELSE T[i][x]]]

LEMMA CopiedLike ==
  ASSUME NEW T \in Signed, NEW dict \in BOOLEAN
  PROVE  /\ Copied(T, dict) \in Signed
         /\ \A i \in Input : Like(Copied(T, dict)[i], T[i])
  <1>1. ASSUME NEW i \in Input
        PROVE  LET C == [x \in DOMAIN T[i] |-> IF dict THEN [T[i][x] EXCEPT !.pk = NoKey] ELSE T[i][x]]
               IN  C \in Seq(Signature) /\ Like(C, T[i])
    <2>1. PICK S \in Seq(Signature) : S = T[i]
      BY DEF Signed
    <2>2. PICK n \in Nat : n = Len(S) /\ DOMAIN S = 1..n
      OBVIOUS
    <2> DEFINE new(x) == IF dict THEN [S[x] EXCEPT !.pk = NoKey] ELSE S[x]
    <2>3. ASSUME NEW x \in 1..n
          PROVE  new(x) \in Signature /\ new(x).by = S[x].by /\ new(x).of = S[x].of
      <3>1. S[x] \in Signature
        BY <2>2
      <3>2. PICK b \in Key, o \in 1..Versions, k \in Key \cup {NoKey} :
              S[x] = [by |-> b, of |-> o, pk |-> k]
        <4>1. S[x] \in [by : Key, of : 1..Versions, pk : Key \cup {NoKey}]
          BY <3>1 DEF Signature
        <4> HIDE DEF Key
        <4> QED
          BY <4>1
      <3>3. new(x) = [by |-> b, of |-> o, pk |-> IF dict THEN NoKey ELSE k]
        BY <3>2
      <3> HIDE DEF Key, new
      <3> QED
        BY <3>2, <3>3 DEF Signature
    <2> HIDE DEF new
    <2>4. PICK C : C = [x \in 1..n |-> new(x)]
      OBVIOUS
    <2>5. C \in Seq(Signature) /\ Len(C) = n /\ \A x \in 1..n : C[x] = new(x)
      BY <2>3, <2>4
    <2>6. Like(C, S)
      BY <2>2, <2>3, <2>5 DEF Like
    <2>7. C = [x \in DOMAIN T[i] |-> IF dict THEN [T[i][x] EXCEPT !.pk = NoKey] ELSE T[i][x]]
      BY <2>1, <2>2, <2>4 DEF new
    <2> QED
      BY <2>1, <2>5, <2>6, <2>7
  <1> QED
    BY <1>1 DEF Copied, Signed

LEMMA LikeIsShort ==
  ASSUME NEW T \in Signed, NEW U \in Signed, \A i \in Input : Like(U[i], T[i]), Short(T)
  PROVE  Short(U)
  BY DEF Short, Like

(* What is signed stays typed.                                               *)
LEMMA SignsTyped ==
  ASSUME Setting, NEW p, NEW T \in Signed, Short(T), NEW K \in Given \cup {<<>>},
         NEW replace \in BOOLEAN, NEW v \in 1..Versions
  PROVE  \A i \in Input :
           LET N == Signers(T[i], i, K \o OwnKeys(p, i), replace)
           IN  /\ N \subseteq Range(KeyList[i])
               /\ WithNew(T[i], i, N, v) \in Seq(Signature)
               /\ Len(WithNew(T[i], i, N, v)) <= Len(KeyList[i])
  <1> SUFFICES ASSUME NEW i \in Input, NEW N, N = Signers(T[i], i, K \o OwnKeys(p, i), replace)
               PROVE  /\ N \subseteq Range(KeyList[i])
                      /\ WithNew(T[i], i, N, v) \in Seq(Signature)
                      /\ Len(WithNew(T[i], i, N, v)) <= Len(KeyList[i])
    BY Zenon
  <1>1. PICK Some : K \o OwnKeys(p, i) \in Seq(Some)
    BY KeysToUse
  <1>2. PICK L \in Seq(Some) : L = K \o OwnKeys(p, i)
    BY <1>1
  <1>3. N \subseteq Range(KeyList[i])
    BY <1>2, SignersOfInput
  <1>4. T[i] \in Seq(Signature)
    BY DEF Signed
  <1> QED
    BY <1>3, <1>4, WithNewTyped

LEMMA SignAllTyped ==
  ASSUME Setting, NEW p, NEW replace \in BOOLEAN, NEW v \in 1..Versions, NEW K \in Given \cup {<<>>},
         signed[p] \in Signed, Short(signed[p])
  PROVE  SignAll(p, K, replace, v) \in Signed /\ Short(SignAll(p, K, replace, v))
  <1> DEFINE T == signed[p]
             N(i) == Signers(T[i], i, K \o OwnKeys(p, i), replace)
             W(i) == WithNew(T[i], i, N(i), v)
             all(i) == \A j \in 1..i : N(j) # {}
  <1>1. \A i \in Input : W(i) \in Seq(Signature) /\ Len(W(i)) <= Len(KeyList[i])
    BY SignsTyped
  <1>2. SignAll(p, K, replace, v) = [i \in Input |-> IF all(i) THEN W(i) ELSE T[i]]
    BY DEF SignAll
  <1> HIDE DEF W, all
  <1> QED
    BY <1>1, <1>2 DEF Signed, Short

LEMMA SignEachTyped ==
  ASSUME Setting, NEW p, NEW replace \in BOOLEAN, NEW v \in 1..Versions, NEW K \in Given \cup {<<>>},
         signed[p] \in Signed, Short(signed[p])
  PROVE  SignEach(p, K, replace, v) \in Signed /\ Short(SignEach(p, K, replace, v))
  <1> DEFINE T == signed[p]
             N(i) == Signers(T[i], i, K \o OwnKeys(p, i), replace)
             W(i) == WithNew(T[i], i, N(i), v)
  <1>1. \A i \in Input : W(i) \in Seq(Signature) /\ Len(W(i)) <= Len(KeyList[i])
    BY SignsTyped
  <1>2. SignEach(p, K, replace, v) = [i \in Input |-> IF N(i) = {} THEN T[i] ELSE W(i)]
    BY DEF SignEach, SignInput
  <1> HIDE DEF W, N
  <1> QED
    BY <1>1, <1>2 DEF Signed, Short

LEMMA HoldTyped ==
  ASSUME Setting, SigningTypeOK, NEW p \in Party, NEW v \in 0..Versions, NEW T \in Signed, Short(T), Hold(p, v, T)
  PROVE  SigningTypeOK'
  <1>1. AfterVerify(T, v) \in Signed /\ Short(AfterVerify(T, v))
    BY AfterVerifyLike, LikeIsShort
  <1>2. Verified(T, v) \in BOOLEAN
    BY DEF Verified
  <1>3. PICK U \in Signed, b \in BOOLEAN : U = AfterVerify(T, v) /\ b = Verified(T, v)
    BY <1>1, <1>2
  <1>4. /\ version' = [version EXCEPT ![p] = v]
        /\ signed' = [signed EXCEPT ![p] = U]
        /\ verified' = [verified EXCEPT ![p] = b]
    BY <1>3 DEF Hold
  <1>5. Short(U)
    BY <1>1, <1>3
  <1> HIDE DEF Input
  <1> QED
    BY <1>4, <1>5 DEF SigningTypeOK, Signed, Short

(* A wallet's sign() and bumpfee() hold typed signatures.                    *)
LEMMA WalletHolds ==
  ASSUME Setting, SigningTypeOK, NEW p \in Party, NEW v \in 1..Versions, NEW K \in Given \cup {<<>>},
         NEW replace \in BOOLEAN, Hold(p, v, SignEach(p, K, replace, v))
  PROVE  \E U \in Signed : Short(U) /\ Hold(p, v, U)
  <1>1. signed[p] \in Signed /\ Short(signed[p])
    BY DEF SigningTypeOK, Signed, Short
  <1>2. SignEach(p, K, replace, v) \in Signed /\ Short(SignEach(p, K, replace, v))
    BY <1>1, SignEachTyped
  <1> QED
    BY <1>2

LEMMA TypeStep ==
  ASSUME Setting, SigningTypeOK, [SigningNext]_signing
  PROVE  SigningTypeOK'
  <1> USE DEF SigningTypeOK
  <1>1. CASE UNCHANGED signing
    BY <1>1 DEF signing
  <1>2. ASSUME NEW p \in Party, CreateTx(p)
        PROVE  SigningTypeOK'
    <2>1. 1 \in 0..Versions
      BY DEF Setting
    <2> QED
      BY <1>2, <2>1 DEF CreateTx
  <1>3. ASSUME NEW p \in Party, NEW q \in Party
        PROVE  /\ signed[q] \in Signed /\ Short(signed[q])
               /\ version[q] > 0 => version[q] \in 1..Versions
    BY DEF Signed, Short, Setting
  <1>4. ASSUME NEW p \in Party, Bump(p)
        PROVE  SigningTypeOK'
    <2>1. PICK v \in 1..Versions : v = version[p] + 1
      BY <1>4 DEF Bump, Setting
    <2>2. Hold(p, v, SignEach(p, <<>>, TRUE, v))
      BY <1>4, <2>1 DEF Bump
    <2>3. PICK U \in Signed : Short(U) /\ Hold(p, v, U)
      BY <2>2, WalletHolds
    <2> QED
      BY <2>3, HoldTyped
  <1>5. ASSUME NEW p \in Party, NEW K \in Given, WalletSign(p, K)
        PROVE  SigningTypeOK'
    <2>1. PICK v \in 1..Versions : v = version[p]
      BY <1>3, <1>5 DEF WalletSign
    <2>2. Hold(p, v, SignEach(p, K, FALSE, v))
      BY <1>5, <2>1 DEF WalletSign
    <2>3. PICK U \in Signed : Short(U) /\ Hold(p, v, U)
      BY <2>2, WalletHolds
    <2> QED
      BY <2>3, HoldTyped
  <1>6. ASSUME NEW p \in Party, NEW K \in Given, DirectSign(p, K)
        PROVE  SigningTypeOK'
    <2>1. PICK v \in 1..Versions : v = version[p]
      BY <1>3, <1>6 DEF DirectSign
    <2>2. PICK T : T = SignAll(p, K, FALSE, v)
      OBVIOUS
    <2>3. T \in Signed /\ Short(T)
      BY <1>3, <2>2, SignAllTyped
    <2>4. version' = version /\ signed' = [signed EXCEPT ![p] = T] /\ verified' = verified
      BY <1>6, <2>1, <2>2 DEF DirectSign
    <2> HIDE DEF Input
    <2> QED
      BY <2>3, <2>4 DEF Signed, Short
  <1>8. ASSUME NEW p \in Party, DirectBump(p)
        PROVE  SigningTypeOK'
    <2>1. PICK v \in 1..Versions : v = version[p] + 1
      BY <1>8 DEF DirectBump, Setting
    <2>2. PICK T : T = SignAll(p, <<>>, TRUE, v)
      OBVIOUS
    <2>3. T \in Signed /\ Short(T)
      BY <1>3, <2>2, SignAllTyped
    <2>4. version' = [version EXCEPT ![p] = v] /\ signed' = [signed EXCEPT ![p] = T] /\ verified' = verified
      BY <1>8, <2>1, <2>2 DEF DirectBump
    <2> HIDE DEF Input
    <2> QED
      BY <2>3, <2>4 DEF Signed, Short
  <1>7. ASSUME NEW p \in Party, NEW q \in Party, NEW dict \in BOOLEAN, Import(p, q, dict)
        PROVE  SigningTypeOK'
    <2>1. PICK v \in 1..Versions : v = version[q]
      BY <1>3, <1>7 DEF Import
    <2>2. PICK T \in Signed : T = signed[q] /\ Short(T)
      BY <1>3
    <2>3. Copied(T, dict) \in Signed /\ Short(Copied(T, dict))
      BY <2>2, CopiedLike, LikeIsShort
    <2>4. Hold(p, v, Copied(T, dict))
      BY <1>7, <2>1, <2>2 DEF Import, Copied
    <2> QED
      BY <2>1, <2>3, <2>4, HoldTyped
  <1> QED
    BY <1>1, <1>2, <1>4, <1>5, <1>6, <1>7, <1>8 DEF SigningNext

LEMMA TypeInit ==
  ASSUME Setting, SigningInit
  PROVE  SigningTypeOK
  <1>1. \A i \in Input : Len(KeyList[i]) \in Nat
    BY DEF Setting
  <1>2. <<>> \in Seq(Signature) /\ Len(<<>>) = 0 /\ 0 \in 0..Versions
    BY DEF Setting
  <1> QED
    BY <1>1, <1>2 DEF SigningInit, SigningTypeOK

(* The signatures of an input are never more than its keys, each by one of   *)
(* the keys and for a version that was made; also with bumped fees, with     *)
(* transactions handed on as dictionaries, with keys that occur twice.       *)
THEOREM TypeCorrect == SigningSpec => []SigningTypeOK
  <1> USE SettingHolds
  <1>1. SigningInit => SigningTypeOK
    BY TypeInit
  <1>2. SigningTypeOK /\ [SigningNext]_signing => SigningTypeOK'
    BY TypeStep
  <1> QED
    BY <1>1, <1>2, PTL DEF SigningSpec

-----------------------------------------------------------------------------
(* Transaction.verified.                                                     *)

Unmade == \A p \in Party : version[p] = 0 => ~verified[p]

(* verify() tells whether the signatures that are used unlock the inputs.    *)
LEMMA NeededDecide ==
  ASSUME Setting, NEW i \in Input, NEW v, NEW S \in Seq(Signature), NEW T \in Seq(Signature), Like(S, T)
  PROVE  InputOK(Needed(S, i), i, v) <=> InputOK(T, i, v)
  <1>1. PICK m \in Nat : m = Required[i]
    BY DEF Setting
  <1>2. PICK n \in Nat : n = Len(S) /\ n = Len(T)
    BY DEF Like
  <1>3. PICK Q \in Seq(Signature) :
          /\ Q = Needed(S, i)
          /\ Len(Q) = IF n < m THEN n ELSE m
          /\ \A x \in 1..Len(Q) : Q[x] = S[x]
    <2>1. CASE n < m
      BY <1>1, <1>2, <2>1 DEF Needed
    <2>2. CASE ~(n < m)
      <3>1. Needed(S, i) = SubSeq(S, 1, m)
        BY <1>1, <1>2, <2>2 DEF Needed
      <3>2. \A x \in 1..m : x \in 1..n
        BY <2>2
      <3>3. SubSeq(S, 1, m) \in Seq(Signature) /\ Len(SubSeq(S, 1, m)) = m
            /\ \A x \in 1..m : SubSeq(S, 1, m)[x] = S[x]
        <4>1. \A x \in 1..m : S[x] \in Signature
          <5> SUFFICES ASSUME NEW x \in 1..m
                       PROVE  S[x] \in Signature
            OBVIOUS
          <5>1. x \in 1..Len(S)
            BY <1>2, <3>2
          <5> QED
            BY <5>1
        <4>2. PICK Q : Q = SubSeq(S, 1, m)
          OBVIOUS
        <4>3. /\ Q \in Seq(Signature)
              /\ Len(Q) = IF 1 <= m THEN m - 1 + 1 ELSE 0
              /\ \A x \in 1..(m - 1 + 1) : Q[x] = S[1 + x - 1]
          BY <4>1, <4>2, SubSeqProperties
        <4>4. m - 1 + 1 = m /\ \A x \in 1..m : 1 + x - 1 = x
          OBVIOUS
        <4> QED
          BY <4>2, <4>3, <4>4
      <3> QED
        BY <2>2, <3>1, <3>3
    <2> QED
      BY <2>1, <2>2
  <1>4. ASSUME NEW x \in 1..Required[i]
        PROVE  /\ x <= Len(Q) <=> x <= Len(T)
               /\ x <= Len(Q) => Q[x].by = T[x].by /\ Q[x].of = T[x].of
    <2>1. x \in 1..m
      BY <1>1
    <2>2. x <= Len(Q) <=> x <= n
      BY <1>3, <2>1
    <2>3. ASSUME x <= Len(Q)
          PROVE  Q[x].by = T[x].by /\ Q[x].of = T[x].of
      <3>1. x \in 1..Len(Q) /\ x \in 1..Len(T)
        BY <1>2, <2>1, <2>2, <2>3
      <3> QED
        BY <1>3, <3>1 DEF Like
    <2> QED
      BY <1>2, <2>2, <2>3
  <1> QED
    BY <1>3, <1>4, SameCount

LEMMA HoldSound ==
  ASSUME Setting, SigningTypeOK, VerifiedSound, Unmade, NEW p \in Party, NEW v \in 1..Versions, NEW T \in Signed,
         Hold(p, v, T)
  PROVE  VerifiedSound' /\ Unmade'
  <1>1. PICK U \in Signed : U = AfterVerify(T, v) /\ \A i \in Input : Like(U[i], T[i])
    BY AfterVerifyLike
  <1>2. /\ version' = [version EXCEPT ![p] = v]
        /\ signed' = [signed EXCEPT ![p] = U]
        /\ verified' = [verified EXCEPT ![p] = Verified(T, v)]
    BY <1>1 DEF Hold
  <1>3. /\ version'[p] = v /\ signed'[p] = U /\ verified'[p] = Verified(T, v)
        /\ \A q \in Party : q # p =>
             version'[q] = version[q] /\ signed'[q] = signed[q] /\ verified'[q] = verified[q]
    BY <1>2 DEF SigningTypeOK
  <1>4. ASSUME NEW i \in Input, Verified(T, v)
        PROVE  InputOK(Needed(U[i], i), i, v)
    <2>1. InputOK(T[i], i, v)
      BY <1>4 DEF Verified
    <2>2. U[i] \in Seq(Signature) /\ T[i] \in Seq(Signature) /\ Like(U[i], T[i])
      BY <1>1 DEF Signed
    <2> QED
      BY <2>1, <2>2, NeededDecide
  <1>5. VerifiedSound'
    <2> SUFFICES ASSUME NEW q \in Party, verified'[q], NEW i \in Input
                 PROVE  InputOK(Needed(signed'[q][i], i), i, version'[q])
      BY DEF VerifiedSound
    <2>1. CASE q = p
      BY <1>3, <1>4, <2>1
    <2>2. CASE q # p
      BY <1>3, <2>2 DEF VerifiedSound
    <2> QED
      BY <2>1, <2>2
  <1>6. Unmade'
    BY <1>3 DEF Unmade
  <1> QED
    BY <1>5, <1>6

LEMMA SoundStep ==
  ASSUME Setting, SigningTypeOK, VerifiedSound, Unmade, [SigningNext]_signing,
         \A p \in Party : ~DirectBump(p) /\ \A K \in Given : ~DirectSign(p, K)
  PROVE  VerifiedSound' /\ Unmade'
  <1>1. CASE UNCHANGED signing
    BY <1>1 DEF signing, VerifiedSound, Unmade
  <1>2. ASSUME NEW p \in Party, CreateTx(p)
        PROVE  VerifiedSound' /\ Unmade'
    <2>1. /\ \A q \in Party : q # p => version'[q] = version[q]
          /\ ~verified[p] /\ signed' = signed /\ verified' = verified
      BY <1>2 DEF CreateTx, Unmade, SigningTypeOK
    <2>2. VerifiedSound'
      <3> SUFFICES ASSUME NEW q \in Party, verified'[q], NEW i \in Input
                   PROVE  InputOK(Needed(signed'[q][i], i), i, version'[q])
        BY DEF VerifiedSound
      <3>1. q # p /\ verified[q]
        BY <2>1
      <3> QED
        BY <2>1, <3>1 DEF VerifiedSound
    <2>3. Unmade'
      BY <2>1 DEF Unmade
    <2> QED
      BY <2>2, <2>3
  <1>3. ASSUME NEW q \in Party, version[q] > 0
        PROVE  version[q] \in 1..Versions
    BY <1>3 DEF SigningTypeOK, Setting
  <1>4. ASSUME NEW p \in Party, NEW K \in Given, WalletSign(p, K)
        PROVE  VerifiedSound' /\ Unmade'
    <2>1. PICK v \in 1..Versions : v = version[p]
      BY <1>3, <1>4 DEF WalletSign
    <2>2. Hold(p, v, SignEach(p, K, FALSE, v))
      BY <1>4, <2>1 DEF WalletSign
    <2>3. PICK U \in Signed : Short(U) /\ Hold(p, v, U)
      BY <2>2, WalletHolds
    <2> QED
      BY <2>3, HoldSound
  <1>6. ASSUME NEW p \in Party, Bump(p)
        PROVE  VerifiedSound' /\ Unmade'
    <2>1. PICK v \in 1..Versions : v = version[p] + 1
      BY <1>6 DEF Bump, SigningTypeOK, Setting
    <2>2. Hold(p, v, SignEach(p, <<>>, TRUE, v))
      BY <1>6, <2>1 DEF Bump
    <2>3. PICK U \in Signed : Short(U) /\ Hold(p, v, U)
      BY <2>2, WalletHolds
    <2> QED
      BY <2>3, HoldSound
  <1>5. ASSUME NEW p \in Party, NEW q \in Party, NEW dict \in BOOLEAN, Import(p, q, dict)
        PROVE  VerifiedSound' /\ Unmade'
    <2>1. PICK v \in 1..Versions : v = version[q]
      BY <1>3, <1>5 DEF Import
    <2>2. PICK T \in Signed : T = signed[q]
      BY DEF SigningTypeOK, Signed
    <2>3. Copied(T, dict) \in Signed
      BY <2>2, CopiedLike
    <2>4. Hold(p, v, Copied(T, dict))
      BY <1>5, <2>1, <2>2 DEF Import, Copied
    <2> QED
      BY <2>1, <2>3, <2>4, HoldSound
  <1> QED
    BY <1>1, <1>2, <1>4, <1>5, <1>6 DEF SigningNext

(* A transaction that verify() accepted is unlocked, on every input, by the  *)
(* signatures that are written into it, whatever was signed before and after *)
(* however the transaction was handed on and how often its fee was bumped.   *)
(* Inputs may have a key twice.  bumpfee() and sign() of Transaction are     *)
(* left out: they leave verified alone.                                      *)
THEOREM VerifiedCorrect ==
  ASSUME ~Directly
  PROVE  SigningSpec => []VerifiedSound
  <1> USE SettingHolds
  <1>1. SigningInit => SigningTypeOK /\ VerifiedSound /\ Unmade
    <2>1. SigningInit => VerifiedSound /\ Unmade
      BY DEF SigningInit, VerifiedSound, Unmade
    <2> QED
      BY <2>1, TypeInit
  <1>2. (SigningTypeOK /\ VerifiedSound /\ Unmade) /\ [SigningNext]_signing => (SigningTypeOK /\ VerifiedSound /\ Unmade)'
    <2>1. \A p \in Party : ~DirectBump(p) /\ \A K \in Given : ~DirectSign(p, K)
      BY Zenon DEF DirectBump, DirectSign
    <2> QED
      BY <2>1, TypeStep, SoundStep
  <1> QED
    BY <1>1, <1>2, PTL DEF SigningSpec

-----------------------------------------------------------------------------
(* Inputs of one key each, in wallets that have all the private keys.        *)

OneKey == \A i \in Input : Len(KeyList[i]) = 1

OwnsAll == \A p \in Party, i \in Input : Range(KeyList[i]) \subseteq Private[p]

(* Such an input needs the first of its signatures, or none.                 *)
FirstUnlocks(S, i, v) ==
  Required[i] = 0 \/ (Required[i] = 1 /\ Len(S) >= 1 /\ Valid(S[1], KeyList[i][1], v))

LEMMA OneKeyVerify ==
  ASSUME Setting, NEW i \in Input, NEW k \in Key, Len(KeyList[i]) = 1, KeyList[i][1] = k,
         NEW S \in Seq(Signature), NEW v
  PROVE  InputOK(S, i, v) <=> FirstUnlocks(S, i, v)
  <1>1. PICK h : Turns(h, S, i, v)
    BY VerifyInTurn
  <1>2. PICK m \in Nat : m = Required[i]
    BY DEF Setting
  <1>3. VerifyInput(S, i, v) = TryKey([sigs |-> S, next |-> 1, count |-> 0], k, v, m)
    <2>1. /\ h[0] = [sigs |-> S, next |-> 1, count |-> 0] /\ h[1] = VerifyInput(S, i, v)
          /\ \A j \in 1..1 : h[j] = TryKey(h[j - 1], KeyList[i][j], v, Required[i])
      BY <1>1 DEF Turns
    <2>2. h[1] = TryKey(h[1 - 1], KeyList[i][1], v, Required[i])
      BY <2>1
    <2> QED
      BY <1>2, <2>1, <2>2
  <1>4. PICK n \in Nat : n = Len(S)
    OBVIOUS
  <1>5. PICK q : q = TryKey([sigs |-> S, next |-> 1, count |-> 0], k, v, m)
    OBVIOUS
  <1>6. CASE m = 0 \/ n = 0
    <2>1. q.count = 0
      BY <1>4, <1>5, <1>6 DEF TryKey
    <2> QED
      BY <1>2, <1>3, <1>4, <1>5, <1>6, <2>1 DEF InputOK, FirstUnlocks
  <1>7. CASE m # 0 /\ n # 0
    <2>1. q.count = IF Valid(S[1], k, v) THEN 1 ELSE 0
      BY <1>4, <1>5, <1>7 DEF TryKey
    <2> QED
      BY <1>2, <1>3, <1>4, <1>5, <1>7, <2>1 DEF InputOK, FirstUnlocks
  <1> QED
    BY <1>6, <1>7

(* A signature of its key replaces what an input has.                        *)
LEMMA OneKeySigns ==
  ASSUME Setting, NEW i \in Input, NEW k \in Key, Len(KeyList[i]) = 1, KeyList[i][1] = k,
         NEW S \in Seq(Signature), NEW N, k \in N, NEW v \in 1..Versions
  PROVE  WithNew(S, i, N, v) = <<Sig(k, v)>>
  <1>1. DOMAIN KeyList[i] = 1..1
    BY DEF Setting
  <1>2. PICK s \in Signature : s = Sig(k, v) /\ s # None
    BY NoneIsNone
  <1> DEFINE D == <<s>>
  <1>3. D \in Seq(Signature) /\ Len(D) = 1 /\ DOMAIN D = 1..1 /\ D[1] = s
    <2>1. D \in Seq(Signature) /\ Len(D) = 1 /\ D[1] = s
      OBVIOUS
    <2> HIDE DEF D
    <2> QED
      BY <2>1
  <1>4. Domain(S, i, N, v) = [j \in 1..1 |-> s]
    BY <1>1, <1>2 DEF Domain
  <1>5. Domain(S, i, N, v) = D
    BY <1>3, <1>4
  <1>6. Filled(S, D, N) = D
    <2>1. \A j \in DOMAIN D : D[j] # None
      BY <1>2, <1>3
    <2>2. D = [j \in DOMAIN D |-> D[j]]
      BY <1>3
    <2> QED
      BY <2>1, <2>2 DEF Filled
  <1>7. PICK T : T = Range(D) \ {None} /\ s \in T
    <2>1. s \in Range(D)
      BY <1>3 DEF Range
    <2> QED
      BY <1>2, <2>1
  <1> HIDE DEF D
  <1>8. Only(D, T) = <<s>>
    <2>1. PICK h : /\ h[0] = <<>> /\ h[Len(D)] = Only(D, T)
                   /\ \A j \in 1..Len(D) :
                        h[j] = IF D[j] \in T THEN Append(h[j - 1], D[j]) ELSE h[j - 1]
      BY <1>3, OnlyInTurn
    <2>2. Len(D) = 1 /\ 1 \in 1..Len(D) /\ 1 - 1 = 0
      BY <1>3
    <2>3. h[1] = Append(h[0], s)
      BY <1>3, <1>7, <2>1, <2>2
    <2>4. Append(<<>>, s) = <<s>>
      OBVIOUS
    <2> QED
      BY <2>1, <2>2, <2>3, <2>4
  <1> QED
    BY <1>2, <1>5, <1>6, <1>7, <1>8 DEF WithNew

(* The key signs when its wallet is to sign again.                           *)
LEMMA OwnKeySigns ==
  ASSUME Setting, NEW p, NEW i \in Input, NEW k \in Key, Len(KeyList[i]) = 1, KeyList[i][1] = k,
         k \in Private[p], NEW S
  PROVE  k \in Signers(S, i, <<>> \o OwnKeys(p, i), TRUE)
  <1>1. KeyList[i] \in Seq(Key) /\ 1 \in DOMAIN KeyList[i]
    BY DEF Setting
  <1>2. OwnKeys(p, i) = <<k>>
    <2>1. PICK h : /\ h[0] = <<>> /\ h[Len(KeyList[i])] = OwnKeys(p, i)
                   /\ \A j \in 1..Len(KeyList[i]) :
                        h[j] = IF KeyList[i][j] \in Private[p]
                               THEN Append(h[j - 1], KeyList[i][j]) ELSE h[j - 1]
      BY <1>1, OnlyInTurn DEF OwnKeys
    <2>2. 1 \in 1..Len(KeyList[i]) /\ 1 - 1 = 0
      OBVIOUS
    <2>3. h[1] = Append(h[0], k)
      BY <2>1, <2>2
    <2>4. Append(<<>>, k) = <<k>>
      OBVIOUS
    <2> QED
      BY <2>1, <2>3, <2>4
  <1>3. PICK K : K = <<>> \o OwnKeys(p, i) /\ DOMAIN K = 1..1 /\ K[1] = k
    BY <1>2
  <1>4. k \in Range(KeyList[i])
    BY <1>1 DEF Range
  <1>5. 1 \in {x \in DOMAIN K : K[x] \in Range(KeyList[i])}
    BY <1>3, <1>4
  <1>6. k \in Signers(S, i, K, TRUE)
    BY <1>3, <1>5 DEF Signers
  <1> QED
    BY <1>3, <1>6

(* What sign() makes of an input: nothing, or its one signature; bumpfee()   *)
(* has the key of every input and signs them all.                            *)
LEMMA OneKeyAll ==
  ASSUME Setting, OneKey, NEW p \in Party, NEW v \in 1..Versions, NEW K, NEW replace,
         signed[p] \in Signed, NEW i \in Input
  PROVE  /\ KeyList[i][1] \in Key
         /\ LET T == SignAll(p, K, replace, v)[i]
            IN  \/ T = <<Sig(KeyList[i][1], v)>>
                \/ T = signed[p][i] /\ ~(OwnsAll /\ K = <<>> /\ replace)
  <1> DEFINE N(j) == Signers(signed[p][j], j, K \o OwnKeys(p, j), replace)
             all == \A j \in 1..i : N(j) # {}
  <1>1. \A j \in Input : KeyList[j][1] \in Key /\ KeyList[j][1] \in Range(KeyList[j])
    <2> SUFFICES ASSUME NEW j \in Input PROVE KeyList[j][1] \in Key /\ KeyList[j][1] \in Range(KeyList[j])
      OBVIOUS
    <2>1. KeyList[j] \in Seq(Key) /\ 1 \in DOMAIN KeyList[j]
      BY DEF Setting, OneKey
    <2> QED
      BY <2>1 DEF Range
  <1>2. SignAll(p, K, replace, v)[i] = IF all THEN WithNew(signed[p][i], i, N(i), v) ELSE signed[p][i]
    BY DEF SignAll
  <1>3. CASE all
    <2>1. N(i) # {} /\ N(i) \subseteq Range(KeyList[i])
      <3>1. i \in 1..i
        BY DEF Setting, Input
      <3>2. N(i) \subseteq Range(KeyList[i])
        BY DEF Signers
      <3> QED
        BY <1>3, <3>1, <3>2
    <2>2. Range(KeyList[i]) = {KeyList[i][1]}
      <3>1. DOMAIN KeyList[i] = 1..1
        BY DEF Setting, OneKey
      <3> QED
        BY <3>1 DEF Range
    <2>3. KeyList[i][1] \in N(i)
      BY <2>1, <2>2
    <2>4. signed[p][i] \in Seq(Signature) /\ Len(KeyList[i]) = 1
      BY DEF Signed, OneKey
    <2> HIDE DEF N, all
    <2>5. WithNew(signed[p][i], i, N(i), v) = <<Sig(KeyList[i][1], v)>>
      BY <1>1, <2>3, <2>4, OneKeySigns
    <2> QED
      BY <1>1, <1>2, <1>3, <2>5
  <1>4. CASE ~all
    <2>1. ASSUME OwnsAll, K = <<>>, replace
          PROVE  FALSE
      <3>1. PICK j \in 1..i : N(j) = {}
        BY <1>4
      <3>2. j \in Input /\ Len(KeyList[j]) = 1
        BY DEF Setting, Input, OneKey
      <3>3. KeyList[j][1] \in Private[p]
        BY <1>1, <2>1, <3>2 DEF OwnsAll
      <3>4. KeyList[j][1] \in Signers(signed[p][j], j, <<>> \o OwnKeys(p, j), TRUE)
        BY <1>1, <3>2, <3>3, OwnKeySigns
      <3> QED
        BY <2>1, <3>1, <3>4
    <2>2. SignAll(p, K, replace, v)[i] = signed[p][i]
      BY <1>2, <1>4
    <2> QED
      BY <1>1, <2>1, <2>2
  <1> QED
    BY <1>3, <1>4

(* A verified transaction that is signed again, or becomes another version,  *)
(* has what its inputs need.                                                 *)
LEMMA OneKeySound ==
  ASSUME Setting, OneKey, SigningTypeOK, VerifiedSound, Unmade, NEW p \in Party, NEW v \in 1..Versions,
         NEW K, NEW replace, (OwnsAll /\ K = <<>> /\ replace) \/ v = version[p], version[p] > 0,
         version' = [version EXCEPT ![p] = v],
         signed' = [signed EXCEPT ![p] = SignAll(p, K, replace, v)], verified' = verified
  PROVE  VerifiedSound' /\ Unmade'
  <1>1. /\ version'[p] = v /\ signed'[p] = SignAll(p, K, replace, v)
        /\ \A q \in Party : q # p => version'[q] = version[q] /\ signed'[q] = signed[q]
    BY DEF SigningTypeOK
  <1>2. ASSUME verified[p], NEW i \in Input
        PROVE  InputOK(Needed(signed'[p][i], i), i, v)
    <2>1. PICK S \in Seq(Signature) : S = signed[p][i]
      BY DEF SigningTypeOK
    <2>2. signed[p] \in Signed
      BY DEF SigningTypeOK, Signed
    <2>3. /\ KeyList[i][1] \in Key
          /\ \/ signed'[p][i] = <<Sig(KeyList[i][1], v)>>
             \/ signed'[p][i] = S /\ v = version[p]
      BY <1>1, <2>1, <2>2, OneKeyAll
    <2>4. PICK k \in Key : k = KeyList[i][1] /\ Len(KeyList[i]) = 1
      BY <2>3 DEF OneKey
    <2>5. InputOK(Needed(S, i), i, version[p])
      BY <1>2, <2>1 DEF VerifiedSound
    <2>6. FirstUnlocks(S, i, version[p])
      <3>1. Like(S, S)
        BY DEF Like
      <3> QED
        BY <2>4, <2>5, <3>1, NeededDecide, OneKeyVerify
    <2>7. CASE signed'[p][i] = S /\ v = version[p]
      BY <2>5, <2>7
    <2>8. CASE signed'[p][i] = <<Sig(k, v)>>
      <3>1. PICK s \in Signature : s = Sig(k, v)
        BY NoneIsNone
      <3>2. PICK T \in Seq(Signature) : T = <<s>> /\ Len(T) = 1 /\ T[1] = s
        <4>1. <<s>> \in Seq(Signature) /\ Len(<<s>>) = 1 /\ <<s>>[1] = s
          OBVIOUS
        <4> QED
          BY <4>1
      <3>3. Valid(T[1], k, v)
        BY <3>1, <3>2 DEF Valid, Sig
      <3>4. FirstUnlocks(T, i, v)
        BY <2>4, <2>6, <3>2, <3>3 DEF FirstUnlocks
      <3>5. Like(T, T)
        BY DEF Like
      <3>6. InputOK(Needed(T, i), i, v)
        BY <2>4, <3>4, <3>5, NeededDecide, OneKeyVerify
      <3> QED
        BY <2>8, <3>1, <3>2, <3>6
    <2> QED
      BY <2>3, <2>4, <2>7, <2>8
  <1>3. VerifiedSound'
    <2> SUFFICES ASSUME NEW q \in Party, verified'[q], NEW i \in Input
                 PROVE  InputOK(Needed(signed'[q][i], i), i, version'[q])
      BY DEF VerifiedSound
    <2>1. CASE q = p
      BY <1>1, <1>2, <2>1
    <2>2. CASE q # p
      BY <1>1, <2>2 DEF VerifiedSound
    <2> QED
      BY <2>1, <2>2
  <1>4. Unmade'
    BY <1>1 DEF Unmade
  <1> QED
    BY <1>3, <1>4

LEMMA OneKeyStep ==
  ASSUME Setting, OneKey, OwnsAll, SigningTypeOK, VerifiedSound, Unmade, [SigningNext]_signing
  PROVE  VerifiedSound' /\ Unmade'
  <1>1. ASSUME NEW p \in Party, version[p] > 0
        PROVE  version[p] \in 1..Versions
    BY <1>1 DEF SigningTypeOK, Setting
  <1>2. ASSUME NEW p \in Party, DirectBump(p)
        PROVE  VerifiedSound' /\ Unmade'
    <2>1. PICK v \in 1..Versions : v = version[p] + 1 /\ version[p] > 0
      BY <1>2 DEF DirectBump, SigningTypeOK, Setting
    <2>2. /\ version' = [version EXCEPT ![p] = v] /\ verified' = verified
          /\ signed' = [signed EXCEPT ![p] = SignAll(p, <<>>, TRUE, v)]
      BY <1>2, <2>1 DEF DirectBump
    <2> QED
      BY <2>1, <2>2, OneKeySound
  <1>3. ASSUME NEW p \in Party, NEW K \in Given, DirectSign(p, K)
        PROVE  VerifiedSound' /\ Unmade'
    <2>1. PICK v \in 1..Versions : v = version[p] /\ version[p] > 0
      BY <1>1, <1>3 DEF DirectSign
    <2>2. /\ version' = [version EXCEPT ![p] = v] /\ verified' = verified
          /\ signed' = [signed EXCEPT ![p] = SignAll(p, K, FALSE, v)]
      BY <1>3, <2>1 DEF DirectSign, SigningTypeOK
    <2> QED
      BY <2>1, <2>2, OneKeySound
  <1> QED
    BY <1>2, <1>3, SoundStep

(* bumpfee() and sign() of Transaction do not verify again.  With one key    *)
(* for each input, in wallets that have them all, they may: each version of  *)
(* a verified transaction is unlocked by the signatures that were made for   *)
(* it, whether it was bumped with or without its wallet, and also when it    *)
(* was imported as a dictionary and signed again.                            *)
THEOREM BumpedCorrect ==
  ASSUME OneKey, OwnsAll
  PROVE  SigningSpec => []VerifiedSound
  <1> USE SettingHolds
  <1>1. SigningInit => SigningTypeOK /\ VerifiedSound /\ Unmade
    <2>1. SigningInit => VerifiedSound /\ Unmade
      BY DEF SigningInit, VerifiedSound, Unmade
    <2> QED
      BY <2>1, TypeInit
  <1>2. (SigningTypeOK /\ VerifiedSound /\ Unmade) /\ [SigningNext]_signing => (SigningTypeOK /\ VerifiedSound /\ Unmade)'
    BY TypeStep, OneKeyStep
  <1> QED
    BY <1>1, <1>2, PTL DEF SigningSpec

-----------------------------------------------------------------------------
(* A transaction that is signed as it was made, and handed on as an object:  *)
(* the signatures of an input are by some of its keys, in their order.       *)

Distinct ==
  \A i \in Input : \A x, y \in 1..Len(KeyList[i]) : KeyList[i][x] = KeyList[i][y] => x = y

(* Signature x is by the key at place g[x].                                  *)
Ordered(S, i, g) ==
  /\ S \in Seq(Signature)
  /\ g \in [1..Len(S) -> 1..Len(KeyList[i])]
  /\ \A x, y \in 1..Len(S) : x < y => g[x] < g[y]
  /\ \A x \in 1..Len(S) : S[x] = Sig(KeyList[i][g[x]], 1)

By(S) == {S[x].by : x \in 1..Len(S)}

(* The keys up to number j have been tried on S.                             *)
Reaching(r, S, i, g, j) ==
  /\ r.next = r.count + 1
  /\ \A y \in 1..Len(S) : y # r.next \/ r.count = Required[i] => r.sigs[y] = S[y]
  /\ \A y \in 1..Len(S) : y < r.next => g[y] <= j
  /\ r.count # Required[i] => \A y \in 1..Len(S) : y >= r.next => g[y] > j

LEMMA ReachesNext ==
  ASSUME Setting, Distinct, NEW i \in Input, NEW S, NEW g, Ordered(S, i, g),
         NEW r \in Tried, Like(r.sigs, S), InStep(r, Required[i]),
         NEW k \in 1..Len(KeyList[i]), Reaching(r, S, i, g, k - 1),
         NEW q, q = TryKey(r, KeyList[i][k], 1, Required[i])
  PROVE  Reaching(q, S, i, g, k)
  <1>1. PICK m \in Nat, n \in Nat, l \in Nat : m = Required[i] /\ n = Len(S) /\ l = Len(KeyList[i])
    BY DEF Setting, Ordered
  <1>2. PICK s \in Seq(Signature), c \in Nat : r = [sigs |-> s, next |-> c + 1, count |-> c]
    <2>1. PICK s \in Seq(Signature), x \in Nat \ {0}, c \in Nat :
            r = [sigs |-> s, next |-> x, count |-> c]
      BY DEF Tried
    <2>2. x = c + 1
      BY <2>1 DEF Reaching
    <2> QED
      BY <2>1, <2>2
  <1>3. PICK key : key = KeyList[i][k]
    OBVIOUS
  <1>4. /\ Len(s) = n /\ c <= m /\ c <= n
        /\ \A y \in 1..n : s[y].by = S[y].by /\ s[y].of = S[y].of
    BY <1>1, <1>2 DEF Like, InStep
  <1>5. /\ \A y \in 1..n : g[y] \in 1..l /\ S[y] = Sig(KeyList[i][g[y]], 1)
        /\ \A x, y \in 1..n : x < y => g[x] < g[y]
    BY <1>1 DEF Ordered
  <1>6. ASSUME NEW y \in 1..n
        PROVE  Valid(s[y], key, 1) <=> g[y] = k
    <2>1. s[y].by = KeyList[i][g[y]] /\ s[y].of = 1
      <3>1. PICK a : a = KeyList[i][g[y]]
        OBVIOUS
      <3>2. S[y] = [by |-> a, of |-> 1, pk |-> a]
        BY <1>5, <3>1 DEF Sig
      <3> QED
        BY <1>4, <3>1, <3>2
    <2>2. g[y] \in 1..Len(KeyList[i])
      BY <1>1, <1>5
    <2> QED
      BY <1>3, <2>1, <2>2 DEF Valid, Distinct
  <1>7. /\ \A y \in 1..n : y # c + 1 \/ c = m => s[y] = S[y]
        /\ \A y \in 1..n : y <= c => g[y] <= k - 1
        /\ c # m => \A y \in 1..n : y > c => g[y] >= k
    <2>1. /\ \A y \in 1..n : y # c + 1 \/ c = m => s[y] = S[y]
          /\ \A y \in 1..n : y < c + 1 => g[y] <= k - 1
          /\ c # m => \A y \in 1..n : y >= c + 1 => g[y] > k - 1
      BY <1>1, <1>2 DEF Reaching
    <2>2. k \in Int /\ \A y \in 1..n : g[y] \in Int
      BY <1>5
    <2>3. \A y \in 1..n : y <= c => g[y] <= k - 1
      BY ONLY <2>1, n \in Nat, c \in Nat
    <2>4. ASSUME c # m, NEW y \in 1..n, y > c
          PROVE  g[y] >= k
      <3>1. y >= c + 1
        BY <2>4
      <3>2. g[y] > k - 1
        BY <2>1, <2>4, <3>1
      <3> QED
        BY ONLY <2>2, <3>2, y \in 1..n
    <2> QED
      BY <2>1, <2>3, <2>4
  <1>8. CASE c = m \/ c + 1 > n
    <2>1. q = r
      BY <1>1, <1>2, <1>4, <1>8 DEF TryKey
    <2>2. \A y \in 1..n : y < c + 1 => g[y] <= k
      BY <1>5, <1>7
    <2>3. c # m => \A y \in 1..n : y >= c + 1 => g[y] > k
      BY <1>8
    <2> QED
      BY <1>1, <1>2, <1>7, <2>1, <2>2, <2>3 DEF Reaching
  <1>9. CASE ~(c = m \/ c + 1 > n)
    <2>1. c + 1 \in 1..n /\ c # m
      BY <1>9
    <2>2. PICK x \in 1..n : x = c + 1
      BY <2>1
    <2>3. Valid(s[x], key, 1) <=> g[x] = k
      BY <1>6
    <2>4. ~(x > 1 /\ Valid(s[x - 1], key, 1))
      <3>1. ASSUME x > 1
            PROVE  ~Valid(s[x - 1], key, 1)
        <4>1. x - 1 \in 1..n /\ x - 1 <= c
          BY <2>2, <3>1
        <4>2. g[x - 1] <= k - 1 /\ g[x - 1] \in Int
          BY <1>5, <1>7, <4>1
        <4>3. g[x - 1] # k
          BY ONLY <4>2, k \in Int
        <4> QED
          BY <1>6, <4>1, <4>3
      <3> QED
        BY <3>1
    <2>5. PICK t : t = [s[x] EXCEPT !.pk = key]
      OBVIOUS
    <2>6. PICK u : u = [s EXCEPT ![x] = t]
      OBVIOUS
    <2>7. \A y \in 1..n : u[y] = IF y = x THEN t ELSE s[y]
      BY <1>4, <2>6
    <2>8. q = [sigs |-> u, next |-> IF g[x] = k THEN x + 1 ELSE x, count |-> IF g[x] = k THEN c + 1 ELSE c]
      <3>1. r.sigs = s /\ r.next = x /\ r.count = c /\ Len(s) = n
        BY <1>2, <1>4, <2>2
      <3>2. ~(r.count = m \/ r.next > Len(r.sigs))
        BY <2>1, <2>2, <3>1
      <3>3. q = [sigs  |-> [s EXCEPT ![x].pk = key],
                 next  |-> IF Valid(s[x], key, 1) THEN x + 1 ELSE x,
                 count |-> IF Valid(s[x], key, 1) \/ (x > 1 /\ Valid(s[x - 1], key, 1)) THEN c + 1 ELSE c]
        BY <1>1, <1>3, <3>1, <3>2, Zenon DEF TryKey
      <3> QED
        BY <2>3, <2>4, <2>5, <2>6, <3>3
    <2>9. CASE g[x] = k
      <3>1. q = [sigs |-> u, next |-> x + 1, count |-> x]
        BY <2>2, <2>8, <2>9
      <3>2. t = S[x]
        <4>1. s[x] \in Signature
          BY <1>4
        <4>2. PICK b \in Key, o \in 1..Versions, p \in Key \cup {NoKey} :
                s[x] = [by |-> b, of |-> o, pk |-> p]
          <5>1. s[x] \in [by : Key, of : 1..Versions, pk : Key \cup {NoKey}]
            BY <4>1 DEF Signature
          <5> HIDE DEF Key
          <5> QED
            BY <5>1
        <4>3. S[x] = [by |-> key, of |-> 1, pk |-> key]
          BY <1>3, <1>5, <2>9 DEF Sig
        <4>4. b = key /\ o = 1
          BY <1>4, <4>2, <4>3
        <4>5. t = [by |-> b, of |-> o, pk |-> key]
          BY <2>5, <4>2
        <4> QED
          BY <4>3, <4>4, <4>5
      <3>3. \A y \in 1..n : u[y] = S[y]
        BY <1>7, <2>2, <2>7, <3>2
      <3>4. \A y \in 1..n : y < x + 1 => g[y] <= k
        <4> SUFFICES ASSUME NEW y \in 1..n, y < x + 1
                     PROVE  g[y] <= k
          OBVIOUS
        <4>1. g[y] \in Int /\ g[x] \in Int
          BY <1>5
        <4>2. y = x \/ y < x
          OBVIOUS
        <4> QED
          BY <1>5, <2>9, <4>1, <4>2
      <3>5. \A y \in 1..n : y >= x + 1 => g[y] > k
        <4> SUFFICES ASSUME NEW y \in 1..n, y >= x + 1
                     PROVE  g[y] > k
          OBVIOUS
        <4>1. x < y
          OBVIOUS
        <4>2. g[y] \in Int /\ g[x] < g[y]
          BY <1>5, <4>1
        <4> QED
          BY <2>9, <4>2
      <3> QED
        BY <1>1, <3>1, <3>3, <3>4, <3>5 DEF Reaching
    <2>10. CASE g[x] # k
      <3>1. q = [sigs |-> u, next |-> c + 1, count |-> c]
        BY <2>2, <2>8, <2>10
      <3>2. \A y \in 1..n : y # c + 1 \/ c = m => u[y] = S[y]
        BY <1>7, <2>1, <2>2, <2>7
      <3>3. \A y \in 1..n : y < c + 1 => g[y] <= k
        BY <1>5, <1>7
      <3>4. \A y \in 1..n : y >= c + 1 => g[y] > k
        <4> SUFFICES ASSUME NEW y \in 1..n, y >= c + 1
                     PROVE  g[y] > k
          OBVIOUS
        <4>1. g[x] \in Int /\ g[y] \in Int /\ g[x] >= k
          BY <1>5, <1>7, <2>1, <2>2
        <4>2. y = x \/ x < y
          BY <2>2
        <4>3. g[x] <= g[y]
          BY <1>5, <4>1, <4>2
        <4> QED
          BY <2>10, <4>1, <4>3
      <3> QED
        BY <1>1, <3>1, <3>2, <3>3, <3>4 DEF Reaching
    <2> QED
      BY <2>9, <2>10
  <1> QED
    BY <1>8, <1>9

(* Then verify() changes nothing, and counts.                                *)
LEMMA VerifyOrdered ==
  ASSUME Setting, Distinct, NEW i \in Input, NEW S, NEW g, Ordered(S, i, g)
  PROVE  /\ VerifyInput(S, i, 1).sigs = S
         /\ InputOK(S, i, 1) <=> Len(S) >= Required[i]
  <1>1. PICK m \in Nat, n \in Nat, l \in Nat : m = Required[i] /\ n = Len(S) /\ l = Len(KeyList[i])
    BY DEF Setting, Ordered
  <1>2. S \in Seq(Signature) /\ \A y \in 1..n : g[y] \in 1..l
    BY <1>1 DEF Ordered
  <1>3. PICK h : Turns(h, S, i, 1)
    BY <1>2, VerifyInTurn
  <1> DEFINE G == {j \in 0..l : Reaching(h[j], S, i, g, j)}
  <1>4. 0 \in G
    <2>1. h[0] = [sigs |-> S, next |-> 1, count |-> 0]
      BY <1>3 DEF Turns
    <2>2. Reaching(h[0], S, i, g, 0)
      BY <1>1, <1>2, <2>1 DEF Reaching
    <2> QED
      BY <2>2
  <1>5. ASSUME NEW j \in 0..(l - 1), j \in G
        PROVE  j + 1 \in G
    <2>1. PICK k \in 1..Len(KeyList[i]) : k = j + 1 /\ j = k - 1
      BY <1>1
    <2>2. PICK r \in Tried : r = h[j] /\ Like(r.sigs, S) /\ InStep(r, Required[i])
      BY <1>1, <1>3 DEF Turns
    <2>3. PICK q : q = h[k] /\ q = TryKey(r, KeyList[i][k], 1, Required[i])
      BY <1>3, <2>1, <2>2 DEF Turns
    <2>4. Reaching(r, S, i, g, k - 1)
      BY <1>5, <2>1, <2>2
    <2>5. Reaching(q, S, i, g, k)
      BY <2>2, <2>3, <2>4, ReachesNext
    <2>6. k \in 0..l /\ Reaching(h[k], S, i, g, k)
      BY <1>1, <2>3, <2>5
    <2> QED
      BY <2>1, <2>6
  <1>6. 0..l \subseteq G
    <2> HIDE DEF G
    <2> QED
      BY <1>4, <1>5, CountInduction
  <1>7. PICK r \in Tried : /\ r = VerifyInput(S, i, 1) /\ Like(r.sigs, S) /\ InStep(r, Required[i])
                           /\ Reaching(r, S, i, g, l)
    <2>1. l \in 0..l
      OBVIOUS
    <2> QED
      BY <1>1, <1>3, <1>6, <2>1 DEF Turns
  <1>8. PICK s \in Seq(Signature), c \in Nat : r = [sigs |-> s, next |-> c + 1, count |-> c]
    <2>1. PICK s \in Seq(Signature), x \in Nat \ {0}, c \in Nat :
            r = [sigs |-> s, next |-> x, count |-> c]
      BY DEF Tried
    <2>2. x = c + 1
      BY <1>7, <2>1 DEF Reaching
    <2> QED
      BY <2>1, <2>2
  <1>9. Len(s) = n /\ c <= m /\ c <= n
    BY <1>1, <1>7, <1>8 DEF Like, InStep
  <1>10. c # m => c = n
    <2> SUFFICES ASSUME c # m, c < n
                 PROVE  FALSE
      BY <1>9
    <2>1. c + 1 \in 1..n
      OBVIOUS
    <2>2. g[c + 1] > l
      BY <1>1, <1>7, <1>8, <2>1 DEF Reaching
    <2> QED
      BY <1>2, <2>1, <2>2
  <1>11. \A y \in 1..n : s[y] = S[y]
    <2> SUFFICES ASSUME NEW y \in 1..n
                 PROVE  s[y] = S[y]
      OBVIOUS
    <2>1. y # c + 1 \/ c = m
      BY <1>10
    <2> QED
      BY <1>1, <1>7, <1>8, <2>1 DEF Reaching
  <1>12. s = S
    BY <1>1, <1>2, <1>9, <1>11, SeqEqual
  <1>13. c = m <=> n >= m
    BY <1>9, <1>10
  <1> QED
    BY <1>1, <1>7, <1>8, <1>12, <1>13 DEF InputOK

(* sign() puts the new signatures between those there are.                   *)

LEMMA Counted ==
  ASSUME NEW n \in Nat, NEW T, NEW f \in [1..n -> T],
         \A x, y \in 1..n : f[x] = f[y] => x = y,
         \A t \in T : \E x \in 1..n : f[x] = t
  PROVE  IsFiniteSet(T) /\ Cardinality(T) = n
  <1>1. IsFiniteSet(1..n) /\ Cardinality(1..n) = n
    BY FS_Interval
  <1>2. f \in Injection(1..n, T) /\ f \in Surjection(1..n, T)
    BY Fun_IsInj, Fun_IsSurj
  <1> QED
    BY <1>1, <1>2, FS_Surjection

LEMMA Increasing ==
  ASSUME NEW n \in Nat, NEW m \in Nat, NEW g \in [1..n -> 1..m], \A x, y \in 1..n : x < y => g[x] < g[y]
  PROVE  \A x, y \in 1..n : g[x] = g[y] => x = y
  <1> SUFFICES ASSUME NEW x \in 1..n, NEW y \in 1..n, x # y
               PROVE  g[x] # g[y]
    OBVIOUS
  <1>1. x < y \/ y < x
    OBVIOUS
  <1>2. g[x] < g[y] \/ g[y] < g[x]
    BY <1>1
  <1>3. g[x] \in Int /\ g[y] \in Int
    OBVIOUS
  <1> QED
    BY <1>2, <1>3

LEMMA OrderedFacts ==
  ASSUME Setting, Distinct, NEW i \in Input, NEW S, NEW g, Ordered(S, i, g)
  PROVE  /\ Len(S) \in Nat
         /\ \A x \in 1..Len(S) : /\ g[x] \in 1..Len(KeyList[i])
                                 /\ KeyList[i][g[x]] \in Key
                                 /\ S[x].by = KeyList[i][g[x]]
                                 /\ S[x].pk = KeyList[i][g[x]]
                                 /\ S[x].of = 1
         /\ \A x, y \in 1..Len(S) : S[x].by = S[y].by => x = y
         /\ IsFiniteSet(By(S)) /\ Cardinality(By(S)) = Len(S)
         /\ By(S) = PublicKeys(S) /\ Known(S) = 1..Len(S)
  <1>1. PICK n \in Nat, l \in Nat : n = Len(S) /\ l = Len(KeyList[i]) /\ DOMAIN S = 1..n
    BY DEF Setting, Ordered
  <1>2. g \in [1..n -> 1..l] /\ \A x, y \in 1..n : x < y => g[x] < g[y]
    BY <1>1 DEF Ordered
  <1>3. ASSUME NEW x \in 1..n
        PROVE  /\ g[x] \in 1..l /\ KeyList[i][g[x]] \in Key
               /\ S[x].by = KeyList[i][g[x]] /\ S[x].pk = KeyList[i][g[x]] /\ S[x].of = 1
    <2>1. PICK k : k = KeyList[i][g[x]]
      OBVIOUS
    <2>2. S[x] = [by |-> k, of |-> 1, pk |-> k]
      BY <1>1, <2>1 DEF Ordered, Sig
    <2>3. g[x] \in 1..l
      BY <1>2
    <2>4. KeyList[i][g[x]] \in Key
      <3>1. KeyList[i] \in Seq(Key)
        BY DEF Setting
      <3> HIDE DEF Key
      <3> QED
        BY <1>1, <2>3, <3>1
    <2> QED
      BY <2>1, <2>2, <2>3, <2>4
  <1>4. ASSUME NEW x \in 1..n, NEW y \in 1..n, S[x].by = S[y].by
        PROVE  x = y
    <2>1. g[x] = g[y]
      BY <1>1, <1>3, <1>4 DEF Distinct
    <2> QED
      BY <1>2, <2>1, Increasing
  <1>5. IsFiniteSet(By(S)) /\ Cardinality(By(S)) = n
    <2> DEFINE f == [x \in 1..n |-> S[x].by]
    <2>1. /\ f \in [1..n -> By(S)]
          /\ \A x, y \in 1..n : f[x] = f[y] => x = y
          /\ \A t \in By(S) : \E x \in 1..n : f[x] = t
      BY <1>1, <1>4 DEF By
    <2> HIDE DEF f
    <2> QED
      BY <2>1, Counted
  <1>6. By(S) = PublicKeys(S)
    <2>1. \A x \in 1..n : S[x].pk = S[x].by
      BY <1>3
    <2>2. PublicKeys(S) = {S[x].pk : x \in 1..n} /\ By(S) = {S[x].by : x \in 1..n}
      BY <1>1 DEF By, PublicKeys
    <2>3. {S[x].pk : x \in 1..n} = {S[x].by : x \in 1..n}
      BY ONLY <2>1
    <2> QED
      BY <2>2, <2>3
  <1>7. Known(S) = 1..n
    <2>1. \A x \in 1..n : \A y \in 1..x : y \in 1..n
      OBVIOUS
    <2>2. \A x \in 1..n : S[x].pk # NoKey
      BY <1>3 DEF Setting
    <2> QED
      BY <1>1, <2>1, <2>2 DEF Known
  <1> QED
    BY <1>1, <1>3, <1>4, <1>5, <1>6, <1>7

LEMMA DomainOrdered ==
  ASSUME Setting, Distinct, NEW i \in Input, NEW S, NEW g, Ordered(S, i, g),
         NEW N \in SUBSET Range(KeyList[i])
  PROVE  Domain(S, i, N, 1) =
           [j \in 1..Len(KeyList[i]) |->
              IF KeyList[i][j] \in By(S) \cup N THEN Sig(KeyList[i][j], 1) ELSE None]
  <1>1. DOMAIN KeyList[i] = 1..Len(KeyList[i])
    BY DEF Setting
  <1>2. PICK n \in Nat : n = Len(S)
    BY OrderedFacts
  <1>3. Known(S) = 1..n /\ \A x \in 1..n : S[x].pk = S[x].by
    BY <1>2, OrderedFacts
  <1>4. ASSUME NEW j \in 1..Len(KeyList[i])
        PROVE  LET k == KeyList[i][j]
                   old == {x \in Known(S) : S[x].pk = k}
               IN  (IF k \in N THEN Sig(k, 1)
                    ELSE IF old # {} THEN S[CHOOSE x \in old : \A y \in old : x <= y]
                    ELSE None) = IF k \in By(S) \cup N THEN Sig(k, 1) ELSE None
    <2> DEFINE k == KeyList[i][j]
               old == {x \in Known(S) : S[x].pk = k}
    <2>2. old \subseteq 0..n /\ (old # {} <=> k \in By(S))
      BY <1>2, <1>3 DEF By
    <2>3. \A x \in old : S[x] = Sig(k, 1)
      <3> SUFFICES ASSUME NEW x \in 1..n, S[x].pk = k
                   PROVE  S[x] = Sig(k, 1)
        BY <1>3
      <3>1. S[x].pk = KeyList[i][g[x]]
        BY <1>2, OrderedFacts
      <3> QED
        BY <1>2, <3>1 DEF Ordered
    <2> HIDE DEF old
    <2>4. old # {} => S[CHOOSE x \in old : \A y \in old : x <= y] = Sig(k, 1)
      <3> SUFFICES ASSUME old # {}
                   PROVE  (CHOOSE x \in old : \A y \in old : x <= y) \in old
        BY <2>3
      <3>1. \E x \in old : \A y \in old : x <= y
        BY <2>2, SmallestNumber
      <3> QED
        BY <3>1
    <2> HIDE DEF k
    <2>5. (IF k \in N THEN Sig(k, 1)
           ELSE IF old # {} THEN S[CHOOSE x \in old : \A y \in old : x <= y]
           ELSE None) = IF k \in By(S) \cup N THEN Sig(k, 1) ELSE None
      BY <2>2, <2>4
    <2> QED
      BY <2>5 DEF old, k
  <1> QED
    BY <1>1, <1>4 DEF Domain

LEMMA SignOrdered ==
  ASSUME Setting, Distinct, NEW i \in Input, NEW S, NEW g, Ordered(S, i, g),
         NEW N \in SUBSET Range(KeyList[i]), N \cap PublicKeys(S) = {}
  PROVE  /\ \E e : Ordered(WithNew(S, i, N, 1), i, e)
         /\ By(WithNew(S, i, N, 1)) = By(S) \cup N
  <1> DEFINE l == Len(KeyList[i])
             key(j) == KeyList[i][j]
  <1>1. l \in Nat /\ DOMAIN KeyList[i] = 1..l /\ \A j \in 1..l : key(j) \in Key
    BY DEF Setting
  <1>2. PICK n \in Nat : n = Len(S)
    BY OrderedFacts
  <1>3. \A x \in 1..n : g[x] \in 1..l /\ S[x].by = key(g[x])
    BY <1>2, OrderedFacts
  <1>4. By(S) = {S[x].by : x \in 1..n}
    BY <1>2 DEF By
  <1>5. PICK D : D = [j \in 1..l |-> IF key(j) \in By(S) \cup N THEN Sig(key(j), 1) ELSE None]
    OBVIOUS
  <1>6. Domain(S, i, N, 1) = D
    BY <1>5, DomainOrdered
  <1>7. By(S) \cap N = {}
    BY OrderedFacts
  <1>8. \A j \in 1..l : Sig(key(j), 1) \in Signature /\ Sig(key(j), 1) # None
        /\ Sig(key(j), 1).pk = key(j) /\ Sig(key(j), 1).by = key(j)
    <2> SUFFICES ASSUME NEW j \in 1..l
                 PROVE  Sig(key(j), 1) \in Signature /\ Sig(key(j), 1) # None
                        /\ Sig(key(j), 1).pk = key(j) /\ Sig(key(j), 1).by = key(j)
      OBVIOUS
    <2>1. PICK k \in Key : k = key(j)
      BY <1>1
    <2>2. 1 \in 1..Versions
      BY DEF Setting
    <2>3. Sig(k, 1) \in Signature /\ Sig(k, 1) # None
      BY <2>2, NoneIsNone
    <2> QED
      BY <2>1, <2>3 DEF Sig
  <1> HIDE DEF l, key
  <1>9. \A j \in 1..l : D[j] = IF key(j) \in By(S) \cup N THEN Sig(key(j), 1) ELSE None
    BY <1>5
  (* Every signature was placed.                                             *)
  <1>10. Filled(S, D, N) = D
    <2> DEFINE placed == {j \in DOMAIN D : D[j] # None /\ D[j].pk \notin N}
    <2>1. placed = {j \in 1..l : key(j) \in By(S)}
      <3>1. DOMAIN D = 1..l
        BY <1>5
      <3>2. \A j \in 1..l : D[j] # None /\ D[j].pk \notin N <=> key(j) \in By(S)
        BY <1>7, <1>8, <1>9
      <3> QED
        BY <3>1, <3>2
    <2>2. g \in [1..n -> placed]
      <3>1. \A x \in 1..n : g[x] \in 1..l /\ key(g[x]) \in By(S)
        BY <1>3, <1>4
      <3>2. DOMAIN g = 1..n /\ g = [x \in 1..n |-> g[x]]
        BY <1>2 DEF Ordered
      <3> HIDE DEF placed
      <3> QED
        BY <2>1, <3>1, <3>2
    <2>3. \A x, y \in 1..n : g[x] = g[y] => x = y
      <3>1. g \in [1..n -> 1..l] /\ \A x, y \in 1..n : x < y => g[x] < g[y]
        BY <1>2 DEF Ordered, l
      <3> QED
        BY <1>1, <3>1, Increasing
    <2>4. \A j \in placed : \E x \in 1..n : g[x] = j
      <3> SUFFICES ASSUME NEW j \in 1..l, key(j) \in By(S)
                   PROVE  \E x \in 1..n : g[x] = j
        BY <2>1
      <3>1. PICK x \in 1..n : S[x].by = key(j)
        BY <1>2 DEF By
      <3>2. g[x] \in 1..l /\ key(g[x]) = key(j)
        BY <1>2, <3>1, OrderedFacts DEF l, key
      <3>3. g[x] = j
        BY <3>2 DEF Distinct, l, key
      <3> QED
        BY <3>3
    <2>5. Cardinality(placed) = Len(S)
      <3> HIDE DEF placed
      <3>1. Cardinality(placed) = n
        BY ONLY n \in Nat, <2>2, <2>3, <2>4, Counted
      <3> QED
        BY <1>2, <3>1
    <2> QED
      BY <2>5 DEF Filled
  <1> DEFINE T == Range(D) \ {None}
  <1>11. WithNew(S, i, N, 1) = Only(D, T)
    BY <1>6, <1>10 DEF WithNew
  <1>12. D \in Seq(Signature \cup {None}) /\ Len(D) = l
    <2>1. D \in [1..l -> Signature \cup {None}]
      BY <1>5, <1>8
    <2> QED
      BY <1>1, <2>1
  <1>13. \A j \in 1..l : D[j] \in T <=> key(j) \in By(S) \cup N
    <2>1. \A j \in 1..l : D[j] \in Range(D)
      BY <1>5 DEF Range
    <2> QED
      BY <1>8, <1>9, <2>1
  <1> HIDE DEF T
  <1>14. Only(D, T) \in Seq((Signature \cup {None}) \cap T) /\ \E e : Places(Only(D, T), D, T, l, e)
    BY <1>12, OnlyKeeps
  <1>15. PICK R \in Seq(Signature) : R = Only(D, T)
    <2>1. (Signature \cup {None}) \cap T \subseteq Signature
      BY DEF T
    <2> QED
      BY <1>14, <2>1
  <1>16. PICK e : Places(R, D, T, l, e)
    BY <1>14, <1>15
  <1>17. PICK m \in Nat : m = Len(R)
    OBVIOUS
  <1>18. /\ e \in [1..m -> 1..l]
         /\ \A x, y \in 1..m : x < y => e[x] < e[y]
         /\ \A x \in 1..m : R[x] = D[e[x]] /\ D[e[x]] \in T
         /\ \A j \in 1..l : D[j] \in T => \E x \in 1..m : e[x] = j
    BY <1>16, <1>17 DEF Places
  <1>19. \A x \in 1..m : /\ e[x] \in 1..l /\ key(e[x]) \in By(S) \cup N
                         /\ R[x] = Sig(key(e[x]), 1) /\ R[x].by = key(e[x])
    <2> SUFFICES ASSUME NEW x \in 1..m
                 PROVE  /\ e[x] \in 1..l /\ key(e[x]) \in By(S) \cup N
                        /\ R[x] = Sig(key(e[x]), 1) /\ R[x].by = key(e[x])
      OBVIOUS
    <2>1. PICK j \in 1..l : j = e[x]
      BY <1>18
    <2>2. R[x] = D[j] /\ D[j] \in T
      BY <1>18, <2>1
    <2>3. key(j) \in By(S) \cup N
      BY <1>13, <2>2
    <2>4. R[x] = Sig(key(j), 1)
      BY <1>9, <2>2, <2>3
    <2> QED
      BY <1>8, <2>1, <2>3, <2>4
  <1>20. Ordered(R, i, e)
    BY <1>17, <1>18, <1>19 DEF Ordered, l, key
  <1>21. By(R) = By(S) \cup N
    <2>1. \A k : k \in By(R) => k \in By(S) \cup N
      BY <1>17, <1>19 DEF By
    <2>2. \A k \in By(S) \cup N : \E j \in 1..l : key(j) = k
      <3>1. \A k \in N : \E j \in 1..l : key(j) = k
        BY <1>1 DEF Range, key, l
      <3>2. \A k \in By(S) : \E j \in 1..l : key(j) = k
        BY <1>3, <1>4
      <3> QED
        BY <3>1, <3>2
    <2>3. ASSUME NEW k \in By(S) \cup N
          PROVE  k \in By(R)
      <3>1. PICK j \in 1..l : key(j) = k
        BY <2>2
      <3>2. PICK x \in 1..m : e[x] = j
        BY <1>13, <1>18, <3>1
      <3>3. R[x].by = k
        BY <1>19, <3>1, <3>2
      <3> QED
        BY <1>17, <3>3 DEF By
    <2> QED
      BY <2>1, <2>3
  <1> QED
    BY <1>11, <1>15, <1>20, <1>21

-----------------------------------------------------------------------------
(* What holds of the transactions of all wallets.                            *)

HasOrder(S, i) == \E g : Ordered(S, i, g)
InOrder(T) == \A i \in Input : HasOrder(T[i], i)
AllInOrder == \A p \in Party : InOrder(signed[p])
Fresh == \A p \in Party : version[p] = 0 => ~verified[p] /\ \A i \in Input : signed[p][i] = <<>>
EnoughSigned ==
  \A p \in Party : verified[p] => \A i \in Input : Cardinality(By(signed[p][i])) >= Required[i]

LEMMA VerifiedInOrder ==
  ASSUME Setting, Distinct, NEW T \in Signed, InOrder(T)
  PROVE  /\ AfterVerify(T, 1) = T
         /\ Verified(T, 1) <=> \A i \in Input : Cardinality(By(T[i])) >= Required[i]
  <1>1. ASSUME NEW i \in Input
        PROVE  /\ VerifyInput(T[i], i, 1).sigs = T[i]
               /\ InputOK(T[i], i, 1) <=> Cardinality(By(T[i])) >= Required[i]
    <2>1. PICK g : Ordered(T[i], i, g)
      BY DEF InOrder, HasOrder
    <2>2. Cardinality(By(T[i])) = Len(T[i])
      BY <2>1, OrderedFacts
    <2> QED
      BY <2>1, <2>2, VerifyOrdered
  <1>2. T = [i \in Input |-> T[i]]
    BY DEF Signed
  <1>3. AfterVerify(T, 1) = [i \in Input |-> T[i]]
    BY <1>1, Zenon DEF AfterVerify
  <1>4. Verified(T, 1) <=> \A i \in Input : Cardinality(By(T[i])) >= Required[i]
    BY <1>1 DEF Verified
  <1> QED
    BY <1>2, <1>3, <1>4

(* Keys N sign the input with signatures S.                                  *)
Signs(S, i, N) ==
  /\ N \subseteq Key
  /\ HasOrder(WithNew(S, i, N, 1), i)
  /\ By(WithNew(S, i, N, 1)) = By(S) \cup N

LEMMA WithNewInOrder ==
  ASSUME Setting, Distinct, NEW p, NEW K \in Given, NEW i \in Input, NEW S, NEW N,
         N = Signers(S, i, K \o OwnKeys(p, i), FALSE), HasOrder(S, i)
  PROVE  Signs(S, i, N)
  <1>1. PICK Some : K \o OwnKeys(p, i) \in Seq(Some)
    BY KeysToUse
  <1>2. PICK L \in Seq(Some) : L = K \o OwnKeys(p, i)
    BY <1>1
  <1>3. N \in SUBSET Range(KeyList[i]) /\ N \cap PublicKeys(S) = {}
    BY <1>2, SignersOfInput
  <1>4. N \subseteq Key
    BY <1>3 DEF Key
  <1>5. PICK g : Ordered(S, i, g)
    BY DEF HasOrder
  <1> QED
    BY <1>3, <1>4, <1>5, SignOrdered DEF HasOrder, Signs

(* Signatures U are T and new ones: M[i] is who signs input i.               *)
Adds(U, T) == \E M \in [Input -> SUBSET Key] : \A i \in Input : By(U[i]) = By(T[i]) \cup M[i]

LEMMA SignEachInOrder ==
  ASSUME Setting, Distinct, NEW p, NEW K \in Given, NEW T, InOrder(T), NEW U,
         U = [i \in Input |-> SignInput(T[i], i, K \o OwnKeys(p, i), FALSE, 1)]
  PROVE  InOrder(U) /\ Adds(U, T)
  <1> DEFINE N(i) == Signers(T[i], i, K \o OwnKeys(p, i), FALSE)
             W(i) == WithNew(T[i], i, N(i), 1)
  <1>1. \A i \in Input : N(i) \subseteq Key /\ HasOrder(W(i), i) /\ By(W(i)) = By(T[i]) \cup N(i)
    <2> SUFFICES ASSUME NEW i \in Input
                 PROVE  N(i) \subseteq Key /\ HasOrder(W(i), i) /\ By(W(i)) = By(T[i]) \cup N(i)
      OBVIOUS
    <2>1. PICK S : S = T[i] /\ HasOrder(S, i)
      BY DEF InOrder
    <2>2. PICK Q : Q = Signers(S, i, K \o OwnKeys(p, i), FALSE)
      OBVIOUS
    <2>3. Signs(S, i, Q)
      <3>1. HasOrder(S, i)
        BY <2>1
      <3> QED
        BY ONLY Setting, Distinct, K \in Given, i \in Input, <2>2, <3>1, WithNewInOrder
    <2>4. Q = N(i) /\ WithNew(S, i, Q, 1) = W(i)
      BY <2>1, <2>2
    <2> HIDE DEF N, W
    <2> QED
      BY <2>1, <2>3, <2>4 DEF Signs
  <1>2. \A i \in Input : U[i] = IF N(i) = {} THEN T[i] ELSE W(i)
    BY DEF SignInput
  <1> HIDE DEF N, W
  <1>3. InOrder(U)
    BY <1>1, <1>2 DEF InOrder
  <1>4. \A i \in Input : By(U[i]) = By(T[i]) \cup N(i)
    BY <1>1, <1>2
  <1> DEFINE M == [i \in Input |-> N(i)]
  <1>5. M \in [Input -> SUBSET Key] /\ \A i \in Input : By(U[i]) = By(T[i]) \cup M[i]
    <2> HIDE DEF Key
    <2> QED
      BY <1>1, <1>4
  <1> HIDE DEF M
  <1> QED
    BY <1>3, <1>5 DEF Adds

LEMMA SignAllInOrder ==
  ASSUME Setting, Distinct, NEW p, NEW K \in Given, InOrder(signed[p])
  PROVE  /\ InOrder(SignAll(p, K, FALSE, 1))
         /\ \A i \in Input : By(signed[p][i]) \subseteq By(SignAll(p, K, FALSE, 1)[i])
  <1> DEFINE T == signed[p]
             N(i) == Signers(T[i], i, K \o OwnKeys(p, i), FALSE)
             W(i) == WithNew(T[i], i, N(i), 1)
             some(i) == \A j \in 1..i : N(j) # {}
  <1>1. \A i \in Input : HasOrder(W(i), i) /\ By(W(i)) = By(T[i]) \cup N(i)
    <2> SUFFICES ASSUME NEW i \in Input
                 PROVE  HasOrder(W(i), i) /\ By(W(i)) = By(T[i]) \cup N(i)
      OBVIOUS
    <2>1. PICK S : S = T[i] /\ HasOrder(S, i)
      BY DEF InOrder
    <2>2. PICK Q : Q = Signers(S, i, K \o OwnKeys(p, i), FALSE)
      OBVIOUS
    <2>3. Signs(S, i, Q)
      <3>1. HasOrder(S, i)
        BY <2>1
      <3> QED
        BY ONLY Setting, Distinct, K \in Given, i \in Input, <2>2, <3>1, WithNewInOrder
    <2>4. Q = N(i) /\ WithNew(S, i, Q, 1) = W(i)
      BY <2>1, <2>2
    <2> HIDE DEF N, W
    <2> QED
      BY <2>1, <2>3, <2>4 DEF Signs
  <1>2. SignAll(p, K, FALSE, 1) = [i \in Input |-> IF some(i) THEN W(i) ELSE T[i]]
    BY DEF SignAll
  <1> HIDE DEF N, W, some
  <1> QED
    BY <1>1, <1>2 DEF InOrder

-----------------------------------------------------------------------------
(* The inductive invariant, for wallets that hand on objects, with no fee    *)
(* bumped.                                                                   *)
IInv == SigningTypeOK /\ AllInOrder /\ Fresh /\ EnoughSigned

LEMMA IInit ==
  ASSUME Setting, SigningInit
  PROVE  IInv
  <1>1. ASSUME NEW i \in Input
        PROVE  Ordered(<<>>, i, [x \in 1..0 |-> 1])
    BY DEF Ordered
  <1>2. AllInOrder
    BY <1>1 DEF SigningInit, AllInOrder, InOrder, HasOrder
  <1>3. Fresh /\ EnoughSigned
    BY DEF SigningInit, Fresh, EnoughSigned
  <1> QED
    BY <1>2, <1>3, TypeInit DEF IInv

LEMMA HoldInOrder ==
  ASSUME Setting, Distinct, IInv, NEW p \in Party, NEW T \in Signed, InOrder(T), Hold(p, 1, T)
  PROVE  /\ AllInOrder' /\ Fresh' /\ EnoughSigned'
         /\ version' = [version EXCEPT ![p] = 1]
         /\ signed' = [signed EXCEPT ![p] = T]
         /\ verified' = [verified EXCEPT ![p] = \A i \in Input : Cardinality(By(T[i])) >= Required[i]]
  <1>1. PICK b \in BOOLEAN : b = \A i \in Input : Cardinality(By(T[i])) >= Required[i]
    OBVIOUS
  <1>2. AfterVerify(T, 1) = T /\ Verified(T, 1) = b
    <2>1. Verified(T, 1) \in BOOLEAN
      BY DEF Verified
    <2> QED
      BY <1>1, <2>1, VerifiedInOrder
  <1>3. /\ version' = [version EXCEPT ![p] = 1]
        /\ signed' = [signed EXCEPT ![p] = T]
        /\ verified' = [verified EXCEPT ![p] = b]
    BY <1>2 DEF Hold
  <1>4. /\ version'[p] = 1 /\ signed'[p] = T /\ verified'[p] = b
        /\ \A q \in Party : q # p =>
             version'[q] = version[q] /\ signed'[q] = signed[q] /\ verified'[q] = verified[q]
    BY <1>3 DEF IInv, SigningTypeOK
  <1>5. AllInOrder'
    <2>1. ASSUME NEW q \in Party
          PROVE  InOrder(signed'[q])
      BY <1>4 DEF IInv, AllInOrder
    <2> QED
      BY <2>1 DEF AllInOrder, InOrder
  <1>6. Fresh'
    BY <1>4 DEF IInv, Fresh
  <1>7. EnoughSigned'
    <2> SUFFICES ASSUME NEW q \in Party, verified'[q], NEW i \in Input
                 PROVE  Cardinality(By(signed'[q][i])) >= Required[i]
      BY DEF EnoughSigned
    <2>1. CASE q = p
      BY <1>1, <1>4, <2>1
    <2>2. CASE q # p
      BY <1>4, <2>2 DEF IInv, EnoughSigned
    <2> QED
      BY <2>1, <2>2
  <1> QED
    BY <1>1, <1>3, <1>5, <1>6, <1>7

(* One step: the invariant is kept; and what happens to the signers.         *)
LEMMA SignStep ==
  ASSUME Setting, Distinct, IInv, NEW p \in Party, NEW K \in Given, WalletSign(p, K), Versions = 1
  PROVE  version[p] = 1 /\ \E T \in Signed : InOrder(T) /\ Hold(p, 1, T) /\ Adds(T, signed[p])
  <1>1. version[p] = 1 /\ 1 \in 1..Versions
    BY DEF WalletSign, IInv, SigningTypeOK
  <1>2. PICK S \in Signed : S = signed[p] /\ Short(S) /\ InOrder(S)
    BY DEF IInv, SigningTypeOK, Signed, Short, AllInOrder
  <1>3. PICK U : U = [i \in Input |-> SignInput(S[i], i, K \o OwnKeys(p, i), FALSE, 1)]
    OBVIOUS
  <1>4. Short(S) /\ InOrder(S)
    BY <1>2
  <1>5. U \in Signed
    <2>1. U = SignEach(p, K, FALSE, 1)
      BY <1>2, <1>3 DEF SignEach
    <2> QED
      BY <1>1, <1>2, <2>1, SignEachTyped
  <1>6. InOrder(U) /\ Adds(U, S)
    <2> HIDE DEF Key, Input
    <2> QED
      BY ONLY Setting, Distinct, K \in Given, <1>3, <1>4, SignEachInOrder
  <1>7. Hold(p, 1, U)
    BY <1>1, <1>2, <1>3 DEF WalletSign, SignEach
  <1> QED
    BY <1>1, <1>2, <1>5, <1>6, <1>7

LEMMA ImportStep ==
  ASSUME Setting, Versions = 1, ~AsDict, IInv, NEW p \in Party, NEW q \in Party, NEW dict \in BOOLEAN,
         Import(p, q, dict)
  PROVE  signed[q] \in Signed /\ InOrder(signed[q]) /\ Hold(p, 1, signed[q]) /\ version[q] = 1
  <1>1. version[q] = 1 /\ dict = FALSE
    BY DEF Import, IInv, SigningTypeOK
  <1>2. PICK T \in Signed : T = signed[q] /\ InOrder(T)
    BY DEF IInv, SigningTypeOK, Signed, AllInOrder
  <1>3. Copied(T, FALSE) = T
    <2>1. \A i \in Input : T[i] = [x \in DOMAIN T[i] |-> T[i][x]]
      BY DEF Signed
    <2>2. Copied(T, FALSE) = [i \in Input |-> [x \in DOMAIN T[i] |-> T[i][x]]]
      BY DEF Copied
    <2>3. T = [i \in Input |-> T[i]]
      BY DEF Signed
    <2> QED
      BY <2>1, <2>2, <2>3
  <1>4. Hold(p, 1, Copied(T, FALSE))
    BY <1>1, <1>2 DEF Import, Copied
  <1> QED
    BY <1>1, <1>2, <1>3, <1>4

LEMMA IStep ==
  ASSUME Setting, Distinct, Versions = 1, ~AsDict, IInv, [SigningNext]_signing
  PROVE  IInv'
  <1> SUFFICES AllInOrder' /\ Fresh' /\ EnoughSigned'
    BY TypeStep DEF IInv
  <1>1. CASE UNCHANGED signing
    BY <1>1 DEF signing, IInv, AllInOrder, InOrder, Fresh, EnoughSigned
  <1>2. ASSUME NEW p \in Party, CreateTx(p)
        PROVE  AllInOrder' /\ Fresh' /\ EnoughSigned'
    <2>1. /\ signed' = signed /\ verified' = verified /\ version[p] = 0
          /\ \A q \in Party : q # p => version'[q] = version[q]
          /\ version'[p] = 1
      BY <1>2 DEF CreateTx, IInv, SigningTypeOK
    <2>2. Fresh'
      BY <2>1 DEF IInv, Fresh
    <2> QED
      BY <2>1, <2>2 DEF IInv, AllInOrder, InOrder, EnoughSigned
  <1>3. ASSUME NEW p \in Party, Bump(p) \/ DirectBump(p)
        PROVE  FALSE
    <2>1. version[p] \in 1..(Versions - 1)
      BY <1>3 DEF Bump, DirectBump
    <2> QED
      BY <2>1
  <1>4. ASSUME NEW p \in Party, NEW K \in Given, WalletSign(p, K)
        PROVE  AllInOrder' /\ Fresh' /\ EnoughSigned'
    <2>1. PICK T \in Signed : InOrder(T) /\ Hold(p, 1, T)
      BY <1>4, SignStep
    <2> QED
      BY <2>1, HoldInOrder
  <1>5. ASSUME NEW p \in Party, NEW K \in Given, DirectSign(p, K)
        PROVE  AllInOrder' /\ Fresh' /\ EnoughSigned'
    <2>1. version[p] = 1 /\ InOrder(signed[p])
      BY <1>5 DEF DirectSign, IInv, SigningTypeOK, AllInOrder
    <2>2. PICK T : T = SignAll(p, K, FALSE, 1)
      OBVIOUS
    <2>3. InOrder(T) /\ \A i \in Input : By(signed[p][i]) \subseteq By(T[i])
      BY <2>1, <2>2, SignAllInOrder
    <2>4. /\ version' = version /\ verified' = verified /\ signed'[p] = T
          /\ \A q \in Party : q # p => signed'[q] = signed[q]
      BY <1>5, <2>1, <2>2 DEF DirectSign, IInv, SigningTypeOK
    <2>5. AllInOrder'
      <3>1. ASSUME NEW q \in Party
            PROVE  InOrder(signed'[q])
        BY <2>3, <2>4 DEF IInv, AllInOrder
      <3> QED
        BY <3>1 DEF AllInOrder, InOrder
    <2>6. Fresh'
      <3> SUFFICES ASSUME NEW q \in Party, version[q] = 0
                   PROVE  ~verified[q] /\ \A i \in Input : signed'[q][i] = <<>>
        BY <2>4 DEF Fresh
      <3>1. q # p
        BY <2>1
      <3> QED
        BY <2>4, <3>1 DEF IInv, Fresh
    <2>7. EnoughSigned'
      <3> SUFFICES ASSUME NEW q \in Party, verified[q], NEW i \in Input
                   PROVE  Cardinality(By(signed'[q][i])) >= Required[i]
        BY <2>4 DEF EnoughSigned
      <3>1. Cardinality(By(signed[q][i])) >= Required[i]
        BY DEF IInv, EnoughSigned
      <3>2. CASE q = p
        <4>1. PICK g : Ordered(T[i], i, g)
          BY <2>3 DEF InOrder, HasOrder
        <4>2. PICK h : Ordered(signed[p][i], i, h)
          BY <2>1 DEF InOrder, HasOrder
        <4>3. IsFiniteSet(By(T[i])) /\ Cardinality(By(T[i])) \in Nat
          BY <4>1, OrderedFacts
        <4>4. Cardinality(By(signed[p][i])) \in Nat
          BY <4>2, OrderedFacts
        <4>5. Cardinality(By(signed[p][i])) <= Cardinality(By(T[i]))
          BY <2>3, <4>3, FS_Subset
        <4>6. Required[i] \in Nat
          BY DEF Setting
        <4> QED
          BY <2>4, <3>1, <3>2, <4>3, <4>4, <4>5, <4>6
      <3>3. CASE q # p
        BY <2>4, <3>1, <3>3
      <3> QED
        BY <3>2, <3>3
    <2> QED
      BY <2>5, <2>6, <2>7
  <1>6. ASSUME NEW p \in Party, NEW q \in Party, NEW dict \in BOOLEAN, Import(p, q, dict)
        PROVE  AllInOrder' /\ Fresh' /\ EnoughSigned'
    <2>1. signed[q] \in Signed /\ InOrder(signed[q]) /\ Hold(p, 1, signed[q])
      BY <1>6, ImportStep
    <2> QED
      BY <2>1, HoldInOrder
  <1> QED
    BY <1>1, <1>2, <1>3, <1>4, <1>5, <1>6 DEF SigningNext

(* The invariant holds for any number of cosigners, inputs and keys.         *)
THEOREM Invariant ==
  ASSUME Distinct, Versions = 1, ~AsDict
  PROVE  SigningSpec => []IInv
  <1> USE SettingHolds
  <1>1. SigningInit => IInv
    BY IInit
  <1>2. IInv /\ [SigningNext]_signing => IInv'
    BY IStep
  <1> QED
    BY <1>1, <1>2, PTL DEF SigningSpec

LEMMA PlaceOfKey ==
  ASSUME Setting, Distinct, NEW i \in Input, NEW j \in 1..Len(KeyList[i])
  PROVE  Position(i, KeyList[i][j]) = j
  <1>1. DOMAIN KeyList[i] = 1..Len(KeyList[i])
    BY DEF Setting
  <1>2. \A x \in 1..Len(KeyList[i]) : KeyList[i][x] = KeyList[i][j] => x = j
    BY DEF Distinct
  <1> QED
    BY <1>1, <1>2 DEF Position

(* The signatures of every input are in the order of its keys, as            *)
(* OP_CHECKMULTISIG needs them: whoever signs first, with whichever keys,    *)
(* input by input or all at once, and however often the transaction is       *)
(* handed on. The keys of an input are distinct, and no fee is bumped.       *)
THEOREM KeyOrder ==
  ASSUME Distinct, Versions = 1, ~AsDict
  PROVE  SigningSpec => []InKeyOrder
  <1> USE SettingHolds
  <1>1. IInv => InKeyOrder
    <2> SUFFICES ASSUME IInv, NEW p \in Party, NEW i \in Input, NEW S, S = signed[p][i],
                        NEW x \in DOMAIN S, NEW y \in DOMAIN S, x < y
                 PROVE  Position(i, S[x].by) < Position(i, S[y].by)
      BY DEF InKeyOrder
    <2>1. PICK g : Ordered(S, i, g)
      BY DEF IInv, AllInOrder, InOrder, HasOrder
    <2>2. x \in 1..Len(S) /\ y \in 1..Len(S)
      BY <2>1 DEF Ordered
    <2>3. Position(i, S[x].by) = g[x] /\ Position(i, S[y].by) = g[y]
      <3>1. /\ g[x] \in 1..Len(KeyList[i]) /\ S[x].by = KeyList[i][g[x]]
            /\ g[y] \in 1..Len(KeyList[i]) /\ S[y].by = KeyList[i][g[y]]
        BY <2>1, <2>2, OrderedFacts
      <3> QED
        BY <3>1, PlaceOfKey
    <2> QED
      BY <2>1, <2>2, <2>3 DEF Ordered
  <1> QED
    BY <1>1, Invariant, PTL

(* Transaction.sign() leaves verified as it was: it only adds signatures, so *)
(* what was accepted remains so.                                             *)
THEOREM VerifiedStays ==
  ASSUME Distinct, Versions = 1, ~AsDict
  PROVE  SigningSpec => []VerifiedSound
  <1> USE SettingHolds
  <1>1. IInv => VerifiedSound
    <2> SUFFICES ASSUME IInv, NEW p \in Party, verified[p], NEW i \in Input
                 PROVE  InputOK(Needed(signed[p][i], i), i, version[p])
      BY DEF VerifiedSound
    <2>1. version[p] = 1
      BY DEF IInv, SigningTypeOK, Fresh
    <2>2. PICK S : S = signed[p][i]
      OBVIOUS
    <2>3. PICK g : Ordered(S, i, g)
      BY <2>2 DEF IInv, AllInOrder, InOrder, HasOrder
    <2>4. Len(S) >= Required[i]
      BY <2>2, <2>3, OrderedFacts DEF IInv, EnoughSigned
    <2>5. InputOK(S, i, 1)
      BY <2>3, <2>4, VerifyOrdered
    <2>6. S \in Seq(Signature) /\ Like(S, S)
      BY <2>3 DEF Ordered, Like
    <2> QED
      BY <2>1, <2>2, <2>5, <2>6, NeededDecide
  <1> QED
    BY <1>1, Invariant, PTL

-----------------------------------------------------------------------------
(* The promise of ThresholdSign.                                             *)

Signatories == [p \in Party |-> [i \in Input |-> ValidOf(p, i)]]

LEMMA ValidAreAll ==
  ASSUME Setting, Distinct, NEW i \in Input, NEW S, HasOrder(S, i)
  PROVE  /\ {s.by : s \in {t \in Range(S) : t.of = 1}} = By(S)
         /\ By(S) \subseteq Key
  <1>1. PICK g : Ordered(S, i, g)
    BY DEF HasOrder
  <1>2. PICK n \in Nat : n = Len(S) /\ DOMAIN S = 1..n
    BY <1>1 DEF Ordered
  <1>3. \A x \in 1..n : S[x].of = 1 /\ S[x].by \in Key
    BY <1>1, <1>2, OrderedFacts
  <1>4. Range(S) = {S[x] : x \in 1..n}
    BY <1>2 DEF Range
  <1>5. {t \in Range(S) : t.of = 1} = {S[x] : x \in 1..n}
    BY <1>3, <1>4
  <1>6. By(S) = {S[x].by : x \in 1..n}
    BY <1>2 DEF By
  <1>7. By(S) \subseteq Key
    <2> HIDE DEF Key
    <2> QED
      BY <1>3, <1>6
  <1> QED
    BY <1>5, <1>6, <1>7

(* So it is for all wallets: s is what is signed, of which version v.        *)
SignersOf(s, v) ==
  [p \in Party |-> [i \in Input |-> {x.by : x \in {t \in Range(s[p][i]) : t.of = v[p]}}]]
SignedBy(s) == [p \in Party |-> [i \in Input |-> By(s[p][i])]]
Made(s, v) ==
  \A p \in Party : /\ v[p] \in 0..1 /\ InOrder(s[p])
                   /\ v[p] = 0 => \A i \in Input : s[p][i] = <<>>

LEMMA SignatoriesAre ==
  ASSUME Setting, Distinct, NEW s, NEW v, Made(s, v)
  PROVE  SignersOf(s, v) = SignedBy(s)
  <1>1. ASSUME NEW p \in Party, NEW i \in Input
        PROVE  {x.by : x \in {t \in Range(s[p][i]) : t.of = v[p]}} = By(s[p][i])
    <2>1. HasOrder(s[p][i], i)
      BY DEF Made, InOrder
    <2>2. CASE v[p] = 1
      BY <2>1, <2>2, ValidAreAll
    <2>3. CASE v[p] # 1
      <3>1. s[p][i] = <<>>
        BY <2>3 DEF Made
      <3>2. Range(<<>>) = {} /\ By(<<>>) = {}
        BY DEF Range, By
      <3> QED
        BY <3>1, <3>2
    <2> QED
      BY <2>2, <2>3
  <1> HIDE DEF Input
  <1> QED
    BY <1>1 DEF SignersOf, SignedBy

LEMMA NowAndThen ==
  ASSUME Setting, Distinct, Versions = 1, IInv, IInv'
  PROVE  Signatories = SignedBy(signed) /\ Signatories' = SignedBy(signed')
  <1>1. Made(signed, version)
    BY DEF Made, IInv, SigningTypeOK, AllInOrder, Fresh
  <1>2. Made(signed', version')
    BY DEF Made, IInv, SigningTypeOK, AllInOrder, Fresh, InOrder
  <1>3. Signatories = SignersOf(signed, version) /\ Signatories' = SignersOf(signed', version')
    BY DEF Signatories, SignersOf, ValidOf
  <1> QED
    BY <1>1, <1>2, <1>3, SignatoriesAre

Becoming(p, T) ==
  /\ Signatories' = [Signatories EXCEPT ![p] = T]
  /\ verified' = [verified EXCEPT ![p] = \A i \in Input : Cardinality(T[i]) >= Required[i]]

LEMMA HoldBecomes ==
  ASSUME Setting, Distinct, Versions = 1, IInv, IInv', NEW p \in Party, NEW T \in Signed, InOrder(T),
         Hold(p, 1, T)
  PROVE  Becoming(p, [i \in Input |-> By(T[i])])
  <1>1. /\ signed' = [signed EXCEPT ![p] = T]
        /\ verified' = [verified EXCEPT ![p] = \A i \in Input : Cardinality(By(T[i])) >= Required[i]]
    BY HoldInOrder
  <1>2. Signatories = [q \in Party |-> [i \in Input |-> By(signed[q][i])]]
    BY NowAndThen DEF SignedBy
  <1>3. Signatories' = [q \in Party |-> [i \in Input |-> By(signed'[q][i])]]
    BY NowAndThen DEF SignedBy
  <1>4. signed'[p] = T /\ \A q \in Party : q # p => signed'[q] = signed[q]
    BY <1>1 DEF IInv, SigningTypeOK
  <1> HIDE DEF Input
  <1>5. Signatories' = [Signatories EXCEPT ![p] = [i \in Input |-> By(T[i])]]
    BY <1>2, <1>3, <1>4
  <1>6. \A i \in Input : [j \in Input |-> By(T[j])][i] = By(T[i])
    OBVIOUS
  <1> QED
    BY <1>1, <1>5, <1>6 DEF Becoming

LEMMA BecomesIs ==
  ASSUME NEW p, NEW T, Becoming(p, T)
  PROVE  Promise!Becomes(p, T)
  <1>1. Signatories' = [Signatories EXCEPT ![p] = T]
    BY DEF Becoming
  <1>2. verified' = [verified EXCEPT ![p] = Promise!Enough(T)]
    <2>1. \A S : Promise!Cardinality(S) = Cardinality(S)
      BY DEF Promise!Cardinality, Cardinality
    <2> QED
      BY <2>1 DEF Becoming, Promise!Enough, Input
  <1> QED
    BY <1>1, <1>2 DEF Promise!Becomes, Signatories

LEMMA PromiseInit ==
  ASSUME Setting, Distinct, Versions = 1, SigningInit
  PROVE  Promise!Init
  <1>1. Range(<<>>) = {}
    BY DEF Range
  <1>2. \A p \in Party, i \in Input : ValidOf(p, i) = {}
    BY <1>1 DEF SigningInit, ValidOf
  <1>3. Signatories = [p \in Party |-> [i \in Input |-> {}]]
    BY <1>2 DEF Signatories
  <1> QED
    BY <1>3 DEF SigningInit, Promise!Init, Signatories, Input

LEMMA PromiseStep ==
  ASSUME Setting, Distinct, Versions = 1, ~AsDict, ~Directly, IInv, IInv', [SigningNext]_signing
  PROVE  [Promise!Next]_<<Signatories, verified>>
  <1>1. Signatories = [p \in Party |-> [i \in Input |-> By(signed[p][i])]]
    BY NowAndThen DEF SignedBy
  <1>2. Signatories' = [p \in Party |-> [i \in Input |-> By(signed'[p][i])]]
    BY NowAndThen DEF SignedBy
  <1>3. ASSUME UNCHANGED <<signed, verified>>
        PROVE  UNCHANGED <<Signatories, verified>>
    BY <1>1, <1>2, <1>3
  <1>4. CASE UNCHANGED signing
    BY <1>3, <1>4 DEF signing
  <1>5. ASSUME NEW p \in Party, CreateTx(p)
        PROVE  UNCHANGED <<Signatories, verified>>
    BY <1>3, <1>5 DEF CreateTx
  <1>6. ASSUME NEW p \in Party, Bump(p) \/ DirectBump(p)
        PROVE  FALSE
    <2>1. version[p] \in 1..(Versions - 1)
      BY <1>6 DEF Bump, DirectBump
    <2> QED
      BY <2>1
  <1>7. ASSUME NEW p \in Party, NEW K \in Given, WalletSign(p, K)
        PROVE  Promise!Next
    <2>1. PICK T \in Signed : InOrder(T) /\ Hold(p, 1, T) /\ Adds(T, signed[p])
      BY <1>7, SignStep
    <2>2. PICK M \in [Input -> SUBSET Key] : \A i \in Input : By(T[i]) = By(signed[p][i]) \cup M[i]
      BY <2>1 DEF Adds
    <2>3. Becoming(p, [i \in Input |-> By(T[i])])
      BY <2>1, HoldBecomes
    <2>4. [i \in Input |-> By(T[i])] = [i \in Input |-> Signatories[p][i] \cup M[i]]
      BY <1>1, <2>2
    <2>5. Promise!Becomes(p, [i \in Input |-> Signatories[p][i] \cup M[i]])
      BY <2>3, <2>4, BecomesIs
    <2>6. M \in Promise!Objects
      BY DEF Promise!Objects, Input
    <2>7. Promise!Sign(p)
      BY <2>5, <2>6 DEF Promise!Sign, Signatories, Input
    <2> QED
      BY <2>7 DEF Promise!Next
  <1>8. ASSUME NEW p \in Party, NEW K \in Given, DirectSign(p, K)
        PROVE  FALSE
    BY <1>8 DEF DirectSign
  <1>9. ASSUME NEW p \in Party, NEW q \in Party, NEW dict \in BOOLEAN, Import(p, q, dict)
        PROVE  Promise!Next
    <2>1. signed[q] \in Signed /\ InOrder(signed[q]) /\ Hold(p, 1, signed[q])
      BY <1>9, ImportStep
    <2>2. Becoming(p, [i \in Input |-> By(signed[q][i])])
      BY <2>1, HoldBecomes
    <2>3. Becoming(p, Signatories[q])
      BY <1>1, <2>2
    <2>4. Promise!Becomes(p, Signatories[q])
      BY <2>3, BecomesIs
    <2>5. Promise!Receive(p, q)
      BY <2>4 DEF Promise!Receive, Signatories
    <2> QED
      BY <2>5 DEF Promise!Next
  <1> QED
    BY <1>4, <1>5, <1>6, <1>7, <1>8, <1>9 DEF SigningNext

(* The wallets keep the promise of ThresholdSign: signing adds signatures    *)
(* and loses none, a transaction is handed on with all of them, and it is    *)
(* verified exactly when every input has as many as it needs, in whatever    *)
(* order the cosigners sign.                                                 *)
THEOREM Together ==
  ASSUME Distinct, Versions = 1, ~AsDict, ~Directly
  PROVE  SigningSpec => SignsTogether
  <1> USE SettingHolds
  <1>1. SigningInit => Promise!Init
    BY PromiseInit
  <1>2. IInv /\ IInv' /\ [SigningNext]_signing => [Promise!Next]_<<Signatories, verified>>
    BY PromiseStep
  <1>3. SigningSpec => []IInv
    BY Invariant
  <1> QED
    BY <1>1, <1>2, <1>3, PTL DEF SigningSpec, SignsTogether, Promise!Spec, Signatories
=============================================================================
