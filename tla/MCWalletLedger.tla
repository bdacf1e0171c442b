--------------------------- MODULE MCWalletLedger ---------------------------
(* f pays keys 1 and 2 and g pays key 1; s spends the output of f for key 1 *)
(* with change to key 3, x spends that change; r is s after bumpfee() took  *)
(* the output of g as an extra input.                                       *)
EXTENDS WalletLedger

CONSTANTS f, g, s, r, x

MCCreator == [c \in Coin |-> CASE c \in {"f1", "f2"} -> f [] c = "g1" -> g
                               [] c = "s3" -> s [] OTHER -> r]
MCOwner == [c \in Coin |-> CASE c \in {"f1", "g1"} -> 1 [] c = "f2" -> 2 [] OTHER -> 3]
MCSpends == [t \in Tx |-> Coin \cap CASE t = s -> {"f1"} [] t = r -> {"f1", "g1"}
                                       [] t = x -> {"s3"} [] OTHER -> {}]
MCAncestor == [t \in Tx |-> Tx \cap CASE t = s -> {f} [] t = r -> {f, g}
                                      [] t = x -> {f, s} [] OTHER -> {}]
MCBumps == {<<s, r>>}
=============================================================================
