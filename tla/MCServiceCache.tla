--------------------------- MODULE MCServiceCache ---------------------------
(* Instances of ServiceCache: three or four transactions of one address.    *)
EXTENDS ServiceCache, TLC

CONSTANTS c1, c2

(* The output of the first transaction is spent by the third.               *)
SpentByThird == [t \in Tx |-> IF t = 1 /\ NTx >= 3 THEN 3 ELSE 0]

Symmetric == Permutations({c1, c2})

=============================================================================
