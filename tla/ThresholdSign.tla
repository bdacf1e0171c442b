--------------------------- MODULE ThresholdSign ---------------------------
(***************************************************************************)
(* What signing a transaction with several cosigners promises: an object   *)
(* is the set of keys that signed each input.  Signing adds to it, handing *)
(* the transaction on copies it, and it is accepted when every input has   *)
(* as many signatures as it needs, whatever the order.                     *)
(***************************************************************************)
EXTENDS Naturals, FiniteSets

CONSTANTS Party, NInputs, KeysOf, Required

VARIABLES signers, accepted

Objects == [1..NInputs -> SUBSET KeysOf]

Enough(T) == \A i \in 1..NInputs : Cardinality(T[i]) >= Required[i]

Becomes(p, T) ==
  /\ signers' = [signers EXCEPT ![p] = T]
  /\ accepted' = [accepted EXCEPT ![p] = Enough(T)]

Sign(p) == \E T \in Objects : Becomes(p, [i \in 1..NInputs |-> signers[p][i] \cup T[i]])

Receive(p, q) == Becomes(p, signers[q])

Init ==
  /\ signers = [p \in Party |-> [i \in 1..NInputs |-> {}]]
  /\ accepted = [p \in Party |-> FALSE]

Next == \E p \in Party : Sign(p) \/ \E q \in Party : Receive(p, q)

Spec == Init /\ [][Next]_<<signers, accepted>>
=============================================================================
