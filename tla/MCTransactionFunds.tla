------------------------- MODULE MCTransactionFunds -------------------------
(* Small instance of TransactionFunds: a unit is 50 bytes and 50 satoshi.   *)
EXTENDS TransactionFunds

CONSTANTS c1, c2, c3

(* The last output is older than the others. *)
Ages == [c \in Coin |-> IF c = c3 THEN 6 ELSE 1]

Symmetric == Permutations({c1, c2})
=============================================================================
