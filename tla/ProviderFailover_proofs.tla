---------------------- MODULE ProviderFailover_proofs ----------------------
(* Theorems about ProviderFailover, for any number of providers.           *)
EXTENDS ProviderFailover, FiniteSetTheorems, TLAPS

LEMMA NProvidersType == NProviders \in Nat
  BY FailoverAssumption, FS_CardinalityType DEF NProviders

LEMMA OrderType == Orders \subseteq [1..NProviders -> Provider]
  BY DEF Orders, Permutations

LEMMA TypeInit == Init => TypeOK
  BY NProvidersType DEF Init, TypeOK

LEMMA TypeStep == TypeOK /\ [Next]_vars => TypeOK'
  <1> SUFFICES ASSUME TypeOK, [Next]_vars PROVE TypeOK'
    OBVIOUS
  <1>1. InLoop => Current \in Provider /\ next \in 1..NProviders
    BY NProvidersType, OrderType DEF TypeOK, InLoop, Current
  <1>2. CASE Skip
    BY <1>1, <1>2, NProvidersType DEF TypeOK, Skip
  <1>3. CASE Answer
    BY <1>1, <1>3, NProvidersType DEF TypeOK, Answer
  <1>4. CASE EmptyAnswer
    BY <1>1, <1>4, NProvidersType DEF TypeOK, EmptyAnswer
  <1>5. CASE Exception
    BY <1>1, <1>5, NProvidersType DEF TypeOK, Exception
  <1>6. CASE Return
    BY <1>6 DEF TypeOK, Return
  <1>7. CASE UNCHANGED vars
    BY <1>7 DEF TypeOK, vars
  <1> QED
    BY <1>2, <1>3, <1>4, <1>5, <1>6, <1>7 DEF Next

(* The loop variables stay in range for any providers and limits.           *)
THEOREM TypeCorrect == Spec => []TypeOK
  BY TypeInit, TypeStep, PTL DEF Spec

-----------------------------------------------------------------------------
(* The answers come from later and later positions of the list.             *)
AnswersInOrder ==
  results # <<>> =>
    /\ results[1] \in performed
    /\ \E k \in 1..(next - 1) :
         /\ results[1] = order[k]
         /\ \A i \in 1..Len(results) : \E j \in k..(next - 1) : results[i] = order[j]

LEMMA AnswersStep == TypeOK /\ AnswersInOrder /\ [Next]_vars => AnswersInOrder'
  <1> SUFFICES ASSUME TypeOK, AnswersInOrder, [Next]_vars PROVE AnswersInOrder'
    OBVIOUS
  <1>1. CASE UNCHANGED <<order, results>> /\ performed \subseteq performed' /\ next' \in {next, next + 1}
    <2> SUFFICES ASSUME results # <<>>
                 PROVE  /\ results[1] \in performed'
                        /\ \E k \in 1..(next' - 1) :
                             /\ results[1] = order[k]
                             /\ \A i \in 1..Len(results) : \E j \in k..(next' - 1) : results[i] = order[j]
      BY <1>1 DEF AnswersInOrder
    <2>1. PICK k \in 1..(next - 1) :
             /\ results[1] = order[k]
             /\ \A i \in 1..Len(results) : \E j \in k..(next - 1) : results[i] = order[j]
      BY DEF AnswersInOrder
    <2>2. next \in Nat \ {0} /\ (next' = next \/ next' = next + 1)
      BY <1>1, NProvidersType DEF TypeOK
    <2>3. k \in 1..(next' - 1) /\ \A j \in k..(next - 1) : j \in k..(next' - 1)
      BY <2>2
    <2>4. \A i \in 1..Len(results) : \E j \in k..(next' - 1) : results[i] = order[j]
      <3> TAKE i \in 1..Len(results)
      <3>1. PICK j \in k..(next - 1) : results[i] = order[j]
        BY <2>1
      <3> QED
        BY <3>1, <2>3
    <2>5. results[1] \in performed'
      BY <1>1 DEF AnswersInOrder
    <2> QED
      BY <2>1, <2>3, <2>4, <2>5
  <1>2. CASE Answer
    <2>1. next \in Nat \ {0} /\ results \in Seq(Provider) /\ Current \in Provider /\ Current = order[next]
      BY <1>2, NProvidersType, OrderType DEF TypeOK, Answer, InLoop, Current
    <2>2. order' = order /\ next' = next + 1 /\ results' = Append(results, Current)
          /\ performed' = performed \cup {Current}
      BY <1>2 DEF Answer
    <2>3. CASE results = <<>>
      <3>1. results'[1] = order[next] /\ Len(results') = 1
        BY <2>1, <2>2, <2>3
      <3>2. next \in 1..(next' - 1) /\ next \in next..(next' - 1)
        BY <2>1, <2>2
      <3>3. \A i \in 1..Len(results') : results'[i] = order[next]
        BY <3>1
      <3> QED
        BY <2>1, <2>2, <3>1, <3>2, <3>3 DEF AnswersInOrder
    <2>4. CASE results # <<>>
      <3>1. PICK k \in 1..(next - 1) :
               /\ results[1] = order[k]
               /\ \A i \in 1..Len(results) : \E j \in k..(next - 1) : results[i] = order[j]
        BY <2>4 DEF AnswersInOrder
      <3>2. k \in 1..(next' - 1) /\ next \in k..(next' - 1) /\ \A j \in k..(next - 1) : j \in k..(next' - 1)
        BY <2>1, <2>2
      <3>3. /\ results'[1] = results[1] /\ Len(results') = Len(results) + 1
            /\ \A i \in 1..Len(results) : results'[i] = results[i]
            /\ results'[Len(results) + 1] = order[next]
        BY <2>1, <2>2, <2>4
      <3>4. \A i \in 1..Len(results') : \E j \in k..(next' - 1) : results'[i] = order[j]
        <4> TAKE i \in 1..Len(results')
        <4>1. CASE i \in 1..Len(results)
          <5>1. PICK j \in k..(next - 1) : results[i] = order[j]
            BY <4>1, <3>1
          <5> QED
            BY <5>1, <4>1, <3>2, <3>3
        <4>2. CASE i = Len(results) + 1
          BY <4>2, <3>2, <3>3
        <4> QED
          BY <4>1, <4>2, <3>3, <2>1
      <3>5. results'[1] = order'[k] /\ k \in 1..(next' - 1)
        BY <2>2, <3>1, <3>2, <3>3
      <3>6. results[1] \in performed'
        BY <2>2, <2>4 DEF AnswersInOrder
      <3> QED
        BY <2>2, <3>3, <3>4, <3>5, <3>6 DEF AnswersInOrder
    <2> QED
      BY <2>3, <2>4
  <1>3. CASE Skip \/ EmptyAnswer \/ Exception \/ Return \/ UNCHANGED vars
    BY <1>1, <1>3 DEF Skip, EmptyAnswer, Exception, Return, vars
  <1> QED
    BY <1>2, <1>3 DEF Next

LEMMA BestLemma ==
  ASSUME TypeOK, AnswersInOrder, results # <<>>
  PROVE  /\ results[1] \in performed
         /\ ~IgnorePriority =>
              \A p \in Provider : Priority[p] > Priority[results[1]] => p \in Tried \ Answered
  <1>1. PICK k \in 1..(next - 1) :
           /\ results[1] = order[k]
           /\ \A i \in 1..Len(results) : \E j \in k..(next - 1) : results[i] = order[j]
    BY DEF AnswersInOrder
  <1> SUFFICES ASSUME ~IgnorePriority, NEW p \in Provider, Priority[p] > Priority[order[k]]
               PROVE  p \in Tried \ Answered
    BY <1>1 DEF AnswersInOrder
  <1>2. /\ next - 1 \in Nat /\ next - 1 <= NProviders /\ NProviders \in Nat
        /\ order \in [1..NProviders -> Provider]
        /\ \A i, j \in 1..NProviders : i <= j => Priority[order[i]] >= Priority[order[j]]
    BY NProvidersType, OrderType DEF TypeOK, Orders, Permutations
  <1>3. \A i \in 1..NProviders : Priority[order[i]] \in Nat
    BY <1>2, FailoverAssumption
  <1>4. PICK m \in 1..NProviders : order[m] = p
    BY <1>2 DEF TypeOK, Orders, Permutations
  <1>5. m < k
    BY <1>2, <1>3, <1>4
  <1>6. p \in Tried
    BY <1>2, <1>4, <1>5 DEF Tried
  <1>7. p \notin Answered
    <2> SUFFICES ASSUME NEW i \in 1..Len(results), results[i] = p PROVE FALSE
      BY DEF Answered
    <2>1. PICK j \in k..(next - 1) : order[j] = p
      BY <1>1
    <2> QED
      BY <2>1, <1>2, <1>3
  <1> QED
    BY <1>6, <1>7

(* A result is an answer; a failure has a reason. *)
Decided == (outcome = "result" => results # <<>>) /\ GivenUpLate

LEMMA AllTried ==
  ASSUME TypeOK, next > NProviders
  PROVE  Tried = Provider
  <1>1. NProviders \in Nat /\ next = NProviders + 1
    BY NProvidersType DEF TypeOK
  <1>2. order \in Permutations /\ order \in [1..NProviders -> Provider]
    BY DEF TypeOK, Orders, Permutations
  <1> QED
    BY <1>1, <1>2 DEF Tried, Permutations

LEMMA DecidedStep == TypeOK /\ Decided /\ [Next]_vars => Decided'
  <1> SUFFICES ASSUME TypeOK, Decided, [Next]_vars PROVE Decided'
    OBVIOUS
  <1>1. CASE Skip \/ Answer \/ EmptyAnswer
    BY <1>1 DEF Skip, Answer, EmptyAnswer, InLoop, Decided, GivenUpLate
  <1>2. CASE Exception
    <2>1. CASE TooManyErrors(errors')
      BY <1>2, <2>1 DEF Exception, InLoop, TooManyErrors, Decided, GivenUpLate
    <2>2. CASE ~TooManyErrors(errors')
      BY <1>2, <2>2 DEF Exception, InLoop, Decided, GivenUpLate
    <2> QED
      BY <2>1, <2>2
  <1>3. CASE Return
    <2>1. CASE results = <<>>
      <3>1. next > NProviders
        <4>1. Len(results) = 0 /\ MaxProviders > 0
          BY <2>1, FailoverAssumption
        <4> QED
          BY <1>3, <4>1, NProvidersType DEF Return, InLoop, TypeOK
      <3>2. Tried = Provider /\ Tried' = Tried
        BY <1>3, <3>1, AllTried DEF Return, Tried
      <3> QED
        BY <1>3, <2>1, <3>2 DEF Return, Decided, GivenUpLate
    <2>2. CASE results # <<>>
      BY <1>3, <2>2 DEF Return, Decided, GivenUpLate
    <2> QED
      BY <2>1, <2>2
  <1>4. CASE UNCHANGED vars
    BY <1>4 DEF vars, Decided, GivenUpLate, Tried
  <1> QED
    BY <1>1, <1>2, <1>3, <1>4 DEF Next

LEMMA FailoverInit == Init => AnswersInOrder /\ Decided
  BY DEF Init, AnswersInOrder, Decided, GivenUpLate

(* The answer used is the answer of the best provider that gave one.        *)
THEOREM BestCorrect == Spec => []BestAnswer
  <1>1. TypeOK /\ AnswersInOrder /\ Decided => BestAnswer
    BY BestLemma DEF Decided, BestAnswer
  <1> QED
    BY <1>1, TypeInit, TypeStep, FailoverInit, AnswersStep, DecidedStep, PTL DEF Spec

(* A ServiceError means that every provider was tried, False that there     *)
(* were max_errors errors, and both that nobody answered.                   *)
THEOREM GivenUpCorrect == Spec => []GivenUpLate
  <1>1. Decided => GivenUpLate
    BY DEF Decided
  <1> QED
    BY <1>1, TypeInit, TypeStep, FailoverInit, DecidedStep, PTL DEF Spec
=============================================================================
