------------------------------- MODULE MCKeys -------------------------------
(* The keys of one wallet, and the wallets of one database.  A behaviour    *)
(* picks one of the cases of "which"; the variables of the others stay as   *)
(* they are:                                                                *)
(*   "race"  two sessions make keys of one account                          *)
(*   "path"  one session, which also asks for keys by index and for accounts*)
(*   "scan"  one session that scans                                         *)
(*   "life"  wallets are created, emptied and deleted                       *)
(*   "store" two programs store a transaction in parts                      *)
EXTENDS KeyAllocation, WalletLifecycle, TxStore, TLC

CONSTANTS s1, s2, cosigner0, cosigner1, t1, t2, t3

VARIABLE which

MCCosigner == <<cosigner0, cosigner1>>
MCPays == (t1 :> {<<hd, "pay">>, <<single, "main">>}) @@ (t3 :> {<<multi, "pay">>})
MCDeleted == {hd, single, multi}

(* An input and an output of the wallet, and an output of another one. *)
MCInputs == <<"k1">>
MCOutputs == <<"other", "k2">>

all == <<vars, life, storage, which>>

MCInit ==
  /\ which \in {"race", "path", "scan", "life", "store"} /\ Init /\ LifeInit
  /\ StoreInit /\ (which # "store" => known = {})

FirstAccount(s) == call'[s].chain[1] = 0

(* What the other cases leave out, to keep each of them small.  In a race   *)
(* s1 asks for enough keys for some of their places to be taken, and for    *)
(* keys of another chain to get ids in between.                             *)
Race ==
  /\ Next
  /\ UNCHANGED <<scan, touches, explicit>>
  /\ call'[s1].chain = <<0, 0>> /\ call'[s1].ask \in {0, 3}
  /\ FirstAccount(s2) /\ call'[s2].ask <= 1
  /\ Accounts' = {0}

Path ==
  /\ Next
  /\ UNCHANGED <<scan, touches>>
  /\ call'[s2] = NoCall
  /\ call'[s1].chain[2] = 0 /\ call'[s1].ask <= 1
  /\ explicit' \subseteq {<<<<0, 0>>, i>> : i \in 0..(MaxIndex - 1)} /\ call'[s1].index < MaxIndex

ScanCase ==
  /\ Next
  /\ UNCHANGED explicit
  /\ Accounts' = {0} /\ call'[s1].chain = <<0, 0>>
  /\ call'[s1].ask <= 1 /\ call'[s1].index <= MaxPaid
  /\ call'[s2] = NoCall
  /\ \A t \in Tx : \A a \in touches'[t] : a[1][1] = 0

MCNext ==
  \/ which = "race" /\ Race /\ UNCHANGED <<which, life, storage>>
  \/ which = "path" /\ Path /\ UNCHANGED <<which, life, storage>>
  \/ which = "scan" /\ ScanCase /\ UNCHANGED <<which, life, storage>>
  \/ which = "life" /\ LifeNext /\ UNCHANGED <<which, vars, storage>>
  \/ which = "store" /\ StoreNext /\ UNCHANGED <<which, vars, life>>

MCSpec == MCInit /\ [][MCNext]_all /\ \A s \in Scanner : WF_vars(ScanStep(s))

=============================================================================
