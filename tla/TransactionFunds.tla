-------------------------- MODULE TransactionFunds --------------------------
(***************************************************************************)
(* The amounts of one wallet transaction: which unspent outputs            *)
(* select_inputs() takes, what transaction_create() makes of fee and       *)
(* change, the second creation in send(), and bumpfee().                   *)
(*                                                                         *)
(* Amounts and sizes are whole numbers in units the instance chooses, so   *)
(* every rounding is to a whole unit, downwards.  The size of a            *)
(* transaction is the one estimate_size() gives.                           *)
(***************************************************************************)
EXTENDS Integers, FiniteSetsExt, SequencesExt

CONSTANTS
  Coin,         \* unspent outputs of the account, confirmed often enough
  Values,       \* the amounts they may have
  Age,          \* [Coin -> Nat]: the confirmations of their transactions
  Payments,     \* total amounts of the outputs to be paid
  GivenFees,    \* fees a caller gives as a number
  Rates,        \* fees per kilobyte that estimatefee() may return
  MaxUtxos,     \* values of max_utxos, 0 for None
  ChangeCounts, \* values of number_of_change_outputs
  BumpFees,     \* extra fees asked for in bumpfee()
  MaxChange,    \* bound on a random number of change outputs
  Parts,        \* a random share of the change is a multiple of 1/Parts
  Dust,         \* Network.dust_amount
  FeeMin,       \* Network.fee_min, per kilobyte
  FeeMax,       \* Network.fee_max, per kilobyte
  Kilobyte,     \* 1000 bytes
  OutputBytes,  \* the 50 bytes of fee_per_output
  SizeBase,     \* size without inputs and change, payments included
  SizeAssumed,  \* size of the one input assumed when there is none yet
  SizeInput,    \* size of an input
  SizeChange,   \* size of a change output
  BumpOutput,   \* what bumpfee() adds for the first change output
  SweepBase,    \* what sweep() takes for the size without inputs
  SweepInput,   \* and for an input
  SweepCost,    \* and adds to the fee
  IgnoreDust    \* Wallet.ignore_dust

Amounts == {Payments, GivenFees, Rates, MaxUtxos, ChangeCounts, BumpFees, Values}

ASSUME FundsAssumption ==
  /\ IsFiniteSet(Coin)
  /\ \A A \in Amounts : A \subseteq Nat
  /\ 0 \notin Rates
  /\ Age \in [Coin -> Nat]
  /\ {MaxChange, Parts, Kilobyte} \subseteq Nat \ {0}
  /\ {Dust, FeeMin, FeeMax, OutputBytes} \subseteq Nat
  /\ {SweepBase, SweepInput, SweepCost, BumpOutput} \subseteq Nat
  /\ {SizeBase, SizeAssumed, SizeInput, SizeChange} \subseteq Nat \ {0}
  /\ IgnoreDust \in BOOLEAN

VARIABLES
  value,    \* [Coin -> Values]: the amounts of the outputs
  request,  \* the arguments of the last call
  tx,       \* the transaction object
  result    \* how the last call ended

vars == <<value, request, tx, result>>

Requests ==
  [pay    : Nat,
   mode   : {"none", "priority", "given"},  \* fee is None, a string, a number
   fee    : Int,                            \* less than 0 when bumpfee() meets such a fee
   perKb  : Nat,
   max    : Nat,
   count  : Nat,
   chosen : SUBSET Coin]                    \* input_arr, {} for None

NoTransaction ==
  [inputs |-> {}, pay |-> 0, change |-> <<>>, fee |-> 0, perKb |-> 0, size |-> 0]

-----------------------------------------------------------------------------
(* select_inputs()                                                         *)

Total(S) == MapThenSumSet(LAMBDA c : value[c], S)
SumOf(s) == FoldLeft(LAMBDA a, b : a + b, 0, s)

(* What the query leaves. *)
Usable == {c \in Coin : IgnoreDust => value[c] >= Dust}

(* The outputs that cover the amount alone, and those without change. *)
Enough(amount) == {c \in Usable : value[c] >= amount}
Exact(amount)  == {c \in Enough(amount) : value[c] <= amount + Dust}

(* The query is ordered by confirmations already; a second order_by() only  *)
(* counts among equal ones.                                                 *)
Oldest(C) == {c \in C : \A d \in C : Age[d] <= Age[c]}

(* Slip: the range ends before max_utxos. *)
FoundSizesBelow(amount, max) ==
  {r \in 2..((IF max = 0 THEN Cardinality(Usable) ELSE max) - 1) :
     \E S \in kSubset(r, Usable) : Total(S) >= amount}

(* The sizes of combinations that are tried and found sufficient. *)
FoundSizes(amount, max) ==
  {r \in 2..(IF max = 0 THEN Cardinality(Usable) ELSE max) :
     \E S \in kSubset(r, Usable) : Total(S) >= amount}

(* Is c in front of d in the list that is combined? *)
Earlier(c, d) == Age[c] > Age[d] \/ (Age[c] = Age[d] /\ value[c] > value[d])

(* The first that is found: combinations() goes through the list in its     *)
(* order, so of two combinations the one that has the first output in which *)
(* they differ comes first.  (Amounts are combined and turned into outputs  *)
(* afterwards; the first combination takes equal amounts from the front,    *)
(* and so do they.)                                                         *)
FirstCombination(S, amount, max) ==
  LET sizes == FoundSizes(amount, max)
      found == {T \in kSubset(Min(sizes), Usable) : Total(T) >= amount}
  IN  /\ sizes # {}
      /\ S \in found
      /\ \A T \in found \ {S} : \E c \in S \ T : \A d \in T \ S : ~Earlier(d, c)

(* May select_inputs() return S?  An output in the middle of equal ones may *)
(* come first in the answer of the database.                                *)
Selected(S, amount, max) ==
  \/ \E c \in Oldest(Exact(amount)) : S = {c}
  \/ /\ Exact(amount) = {}
     /\ \E c \in Oldest(Enough(amount)) :
          S = {c} /\ \A d \in Oldest(Enough(amount)) : value[c] <= value[d]
  \/ /\ Enough(amount) = {}
     /\ FirstCombination(S, amount, max)

-----------------------------------------------------------------------------
(* transaction_create()                                                    *)

Size(S, n) ==
  SizeBase + (IF S = {} THEN SizeAssumed ELSE SizeInput * Cardinality(S)) + SizeChange * n

FeeOf(size, perKb) == (size * perKb) \div Kilobyte

(* fee_estimate, made before the inputs are known. *)
Estimate(q) ==
  CASE q.mode = "given" -> q.fee
    [] q.mode # "given" /\ q.chosen = {} -> FeeOf(Size({}, q.count), q.perKb)
    [] OTHER -> 0

Target(q) == q.pay + Estimate(q)

(* The rate of a fee that is calculated, at least the minimum; the estimate *)
(* was made without it.                                                     *)
Rate(q) == IF q.mode = "none" /\ q.chosen = {} /\ q.perKb < FeeMin THEN FeeMin ELSE q.perKb

(* The fee before a small change is added; without a fee for given inputs   *)
(* everything that is not paid out.                                         *)
AskedFee(q, S) ==
  CASE q.mode # "none" -> Estimate(q)
    [] q.mode = "none" /\ q.chosen = {} -> FeeOf(Size(S, q.count), Rate(q))
    [] OTHER -> IF q.pay = 0 \/ Total(S) = 0 THEN 0 ELSE Total(S) - q.pay

Left(q, S) == Total(S) - q.pay - AskedFee(q, S)

(* The fee_per_output of a fee that was calculated. *)
PerOutput(q) ==
  IF q.mode = "none" /\ q.chosen = {} THEN FeeOf(OutputBytes, Rate(q)) ELSE 0

(* Slip: only what is missing is added to the fee. *)
TooSmallZero(q, S) == Left(q, S) <= 0

(* Slip: twice the dust limit. *)
TooSmallTwice(q, S) == Left(q, S) <= 2 * Dust \/ Left(q, S) < PerOutput(q)

(* Is what is left over added to the fee? *)
TooSmall(q, S) == Left(q, S) <= Dust \/ Left(q, S) < PerOutput(q)

Fee(q, S) == IF TooSmall(q, S) THEN AskedFee(q, S) + Left(q, S) ELSE AskedFee(q, S)

PerKb(q, S) ==
  IF q.mode = "given" THEN (Fee(q, S) * Kilobyte) \div Size(S, q.count) ELSE Rate(q)

MinOutput(q, S) ==
  IF Fee(q, S) = 0 THEN 2 * Dust + 4 * FeeMin ELSE PerKb(q, S) + 2 * FeeMin + Dust

(* The number of change outputs, random for 0. *)
Counts(q, S) ==
  CASE q.count > 0 -> {q.count}
    [] q.count = 0 /\ (10 * Left(q, S) < q.pay \/ Left(q, S) < 8 * MinOutput(q, S)) -> {1}
    [] OTHER -> (IF Left(q, S) > 10 * q.pay THEN 2..5 ELSE 1..4) \cap 1..MaxChange

(* change_amounts: the smallest amount each, a random share of the rest,    *)
(* and the rounding difference for the first.                               *)
Splits(amount, n, least) ==
  {[i \in 1..n |->
      LET part(j) == least + (share[j] * (amount - n * least)) \div Parts
      IN  IF i = 1 THEN amount - SumOf([j \in 1..(n - 1) |-> part(j + 1)]) ELSE part(i)] :
   share \in {f \in [1..n -> 0..Parts] : SumOf(f) = Parts}}

Changes(q, S, n) ==
  IF n = 1 THEN {<<Left(q, S)>>} ELSE Splits(Left(q, S), n, MinOutput(q, S))

Refuse(why) == result' = why /\ tx' = NoTransaction

(* Slip: the fee per kilobyte is not checked. *)
MakeUnchecked(q, S, change, end) ==
  /\ tx' = [tx EXCEPT !.inputs = S, !.pay = q.pay, !.change = change, !.fee = Fee(q, S),
                      !.perKb = PerKb(q, S), !.size = Size(S, q.count)]
  /\ result' = end

(* The last checks, and the transaction. *)
Make(q, S, change, end) ==
  IF Total(S) = q.pay + SumOf(change) + Fee(q, S) /\ PerKb(q, S) \in FeeMin..FeeMax
    THEN /\ tx' = [inputs |-> S, pay |-> q.pay, change |-> change, fee |-> Fee(q, S),
                   perKb |-> PerKb(q, S),
                   size |-> Size(S, IF q.count = 0 THEN Len(change) ELSE q.count)]
         /\ result' = end
    ELSE Refuse("refused")

(* Everything after the inputs are known. *)
Build(q, S, end) ==
  \/ TooSmall(q, S) /\ Make(q, S, <<>>, end)
  \/ /\ ~TooSmall(q, S)
     /\ \E n \in Counts(q, S) :
          IF n > 1 /\ Left(q, S) \div n < MinOutput(q, S)
            THEN Refuse("refused")
            ELSE \E change \in Changes(q, S, n) : Make(q, S, change, end)

Inputs(q) ==
  IF q.chosen = {} THEN {S \in SUBSET Usable : Selected(S, Target(q), q.max)}
                   ELSE {q.chosen}

TransactionCreate(q, end) ==
  /\ request' = q
  /\ UNCHANGED value
  /\ \/ /\ q.chosen # {} /\ q.max # 0 /\ Cardinality(q.chosen) > q.max
        /\ Refuse("refused")
     \/ /\ Inputs(q) = {}
        /\ Refuse("nofunds")
     \/ /\ q.chosen # {} /\ q.max # 0 => Cardinality(q.chosen) <= q.max
        /\ \E S \in Inputs(q) : Build(q, S, end)

Create(q) == result = "idle" /\ TransactionCreate(q, "made")

(* send() creates the transaction again if the fee for its size is more     *)
(* than a tenth off.                                                        *)
FeeExact == FeeOf(tx.size, tx.perKb)

OffTarget ==
  /\ request.mode = "none"
  /\ tx.change # <<>>
  /\ FeeExact \notin {0, FeeMin, FeeMax}
  /\ 10 * (tx.fee - FeeExact) > FeeExact \/ 10 * (FeeExact - tx.fee) > FeeExact

Send ==
  /\ result = "made"
  /\ IF OffTarget
       THEN TransactionCreate([request EXCEPT !.mode = "given", !.fee = FeeExact], "sent")
       ELSE /\ tx' = [tx EXCEPT !.perKb = (tx.fee * Kilobyte) \div tx.size]
            /\ result' = "sent"
            /\ UNCHANGED <<value, request>>

(* sweep(): every output that is not dust, minus the fee, 0 for None. *)
Swept == {c \in Coin : IgnoreDust => value[c] > Dust}

SweepFee(fee, perKb) ==
  IF fee > 0 THEN fee
  ELSE SweepCost + FeeOf(SweepBase + SweepInput * Cardinality(Swept), perKb)

Sweep(fee, perKb) ==
  LET amount == Total(Swept) - SweepFee(fee, perKb)
      q == [pay |-> amount, mode |-> "given", fee |-> SweepFee(fee, perKb),
            perKb |-> 0, max |-> 0, count |-> 1, chosen |-> Swept]
  IN  /\ result = "idle"
      /\ IF amount <= Dust
           THEN Refuse("refused") /\ UNCHANGED <<value, request>>
           ELSE TransactionCreate(q, "made")

-----------------------------------------------------------------------------
(* bumpfee()                                                               *)

(* Slip: an output is used up and stays. *)
TakeFromKeeps(extra, acc, v) ==
  CASE acc.left > 0 /\ v < acc.left -> [acc EXCEPT !.left = @ - v]
    [] acc.left = 0 \/ v >= acc.left -> [left |-> 0, kept |-> Append(acc.kept, v)]

(* The loop over the change outputs: one that is worth more than twice what *)
(* is left of the extra fee pays it, smaller ones are removed.              *)
TakeFrom(extra, acc, v) ==
  CASE acc.left = 0 -> [acc EXCEPT !.kept = Append(@, v)]
    [] acc.left # 0 /\ v > 2 * acc.left ->
         [left |-> 0, kept |-> Append(acc.kept, v - extra)]
    [] acc.left # 0 /\ v <= 2 * acc.left /\ v < acc.left -> [acc EXCEPT !.left = @ - v]
    [] OTHER -> [acc EXCEPT !.left = 0]

Deducted(change, extra) ==
  FoldLeft(LAMBDA acc, v : TakeFrom(extra, acc, v), [left |-> extra, kept |-> <<>>], change)

(* Slip: the input that was added is not counted. *)
FeeLeftOld(S, change) == Total(tx.inputs) - tx.pay - SumOf(change)

(* update_totals(). *)
FeeLeft(S, change) == Total(S) - tx.pay - SumOf(change)

(* sign_and_update(), where raw() refuses a negative output. *)
Update(S, change) ==
  /\ tx' = [tx EXCEPT !.inputs = S, !.change = change, !.fee = FeeLeft(S, change),
                      !.size = Size(S, Len(change)),
                      !.perKb = (FeeLeft(S, change) * Kilobyte) \div Size(S, Len(change))]
  /\ result' = IF \E i \in DOMAIN change : change[i] < 0 THEN "damaged" ELSE "bumped"

(* BUMPFEE_DEFAULT_MULTIPLIER is 5. *)
DefaultExtra == (159 * tx.fee) \div 1000 + 5 * tx.size
MinimalExtra == 5 * tx.size

(* The change after add_input_from_wallet(). *)
WithInput(c) ==
  IF tx.change = <<>> THEN <<value[c]>> ELSE [tx.change EXCEPT ![1] = @ + value[c]]

ExtraForInput(how, extra) ==
  CASE how = "default" /\ tx.change # <<>> -> MinimalExtra
    [] how = "default" /\ tx.change = <<>> -> MinimalExtra + BumpOutput
    [] OTHER -> extra

(* The least amount of the input that is looked for, of which the oldest is *)
(* taken.                                                                   *)
Wanted(how, extra) ==
  CASE how = "default" -> MinimalExtra
    [] how = "extra"   -> extra
    [] how = "fee"     -> Dust

BumpWith(how, asked) ==
  LET extra == IF how = "default" THEN DefaultExtra ELSE asked
      first == Deducted(tx.change, extra)
  IN  /\ result \in {"made", "sent", "bumped"}
      /\ tx.fee # 0
      /\ how # "default" => extra >= tx.size
      /\ \/ /\ first.left = 0
            /\ request' = [request EXCEPT !.fee = extra]
            /\ Update(tx.inputs, first.kept)
         \/ /\ first.left # 0
            /\ \E c \in Oldest({d \in Coin \ tx.inputs : value[d] >= Wanted(how, extra)}) :
                 LET more   == ExtraForInput(how, extra)
                     second == Deducted(WithInput(c), more)
                 IN  /\ request' = [request EXCEPT !.fee = more]
                     /\ IF second.left = 0
                          THEN Update(tx.inputs \cup {c}, second.kept)
                          ELSE /\ tx' = [tx EXCEPT !.inputs = @ \cup {c},
                                                   !.change = WithInput(c)]
                               /\ result' = "damaged"
      /\ UNCHANGED value

BumpFee ==
  \/ BumpWith("default", 0)
  \/ \E how \in {"fee", "extra"}, asked \in BumpFees : BumpWith(how, asked)

-----------------------------------------------------------------------------
Init ==
  /\ value \in [Coin -> Values]
  /\ request = [pay |-> 0, mode |-> "none", fee |-> 0, perKb |-> 0, max |-> 0,
                count |-> 0, chosen |-> {}]
  /\ tx = NoTransaction
  /\ result = "idle"

(* The calls a user makes. *)
CreateAny ==
  \E pay \in Payments, max \in MaxUtxos, count \in ChangeCounts, chosen \in SUBSET Coin :
    \/ \E fee \in GivenFees :
         Create([pay |-> pay, mode |-> "given", fee |-> fee, perKb |-> 0,
                 max |-> max, count |-> count, chosen |-> chosen])
    \/ \E mode \in {"none", "priority"}, perKb \in Rates :
         Create([pay |-> pay, mode |-> mode, fee |-> 0, perKb |-> perKb,
                 max |-> max, count |-> count, chosen |-> chosen])

SweepAny == \E fee \in GivenFees \cup {0}, perKb \in Rates : Sweep(fee, perKb)

Next == CreateAny \/ Send \/ SweepAny \/ BumpFee

Spec == Init /\ [][Next]_vars

-----------------------------------------------------------------------------
(* Properties                                                              *)

Created == result \in {"made", "sent"}

(* The variables have the values the code can give them, and the fee per    *)
(* kilobyte that transaction_create() checks is in the limits.              *)
TypeOK ==
  /\ value \in [Coin -> Values]
  /\ request \in Requests
  /\ tx \in [inputs : SUBSET Coin, pay : Nat, change : Seq(Int), fee : Int, perKb : Int, size : Nat]
  /\ result = "made" => tx.perKb \in FeeMin..FeeMax
  /\ result \in {"idle", "made", "sent", "bumped", "damaged", "refused", "nofunds"}

(* Inputs equal payments, change and fee after every call that returns,     *)
(* through change splitting, a second creation and any number of bumps.     *)
Balanced ==
  result \in {"made", "sent", "bumped"} =>
    Total(tx.inputs) = tx.pay + SumOf(tx.change) + tx.fee

(* select_inputs() takes no more outputs than any set of outputs that       *)
(* covers the amount; and "Not enough unspent transaction outputs found" is *)
(* only said when no max_utxos usable outputs cover payments and estimated  *)
(* fee.                                                                     *)
SelectsFewest ==
  \A S \in (SUBSET Usable) \ {{}} :
    Total(S) >= Target(request) =>
      /\ Created /\ request.chosen = {} => Cardinality(tx.inputs) <= Cardinality(S)
      /\ result = "nofunds" => request.max # 0 /\ Cardinality(S) > request.max

(* Nothing of a selected transaction disappears: the fee is not below what  *)
(* is asked for, unless the outputs were selected with a lower estimate,    *)
(* and then not below that; and it exceeds what is asked for by less than a *)
(* change output is worth.                                                  *)
FeeWithin ==
  Created /\ request.chosen = {} =>
    /\ tx.fee >= Estimate(request) \/ tx.fee >= AskedFee(request, tx.inputs)
    /\ \/ tx.fee <= AskedFee(request, tx.inputs) + Dust
       \/ tx.fee < AskedFee(request, tx.inputs) + PerOutput(request)

(* transaction_create() makes no change output that is dust. *)
NoDustChange == Created => \A i \in DOMAIN tx.change : tx.change[i] > Dust

(* bumpfee() of a transaction that pays a fee never adds less than it was   *)
(* told, and never less than the size of the transaction, whatever change   *)
(* outputs it removes and whatever input it adds.                           *)
BumpPays ==
  [][result' = "bumped" /\ tx.fee > 0 => /\ tx'.fee >= tx.fee + request'.fee
                                         /\ tx'.fee >= tx.fee + tx.size]_<<tx, result>>

(* A change output that pays for a higher fee pays only what was asked for. *)
BumpDeducts ==
  [][result' = "bumped" /\ tx'.inputs = tx.inputs /\ tx'.change # <<>>
       /\ (\E i \in DOMAIN tx'.change : \A j \in DOMAIN tx.change : tx'.change[i] # tx.change[j])
       => tx'.fee = tx.fee + request'.fee]_<<tx, result>>

(* No transaction is made whose fee per kilobyte is below the minimum of    *)
(* the network.                                                             *)
FeeAboveMinimum ==
  Created => tx.fee * Kilobyte >= tx.size * FeeMin
=============================================================================
