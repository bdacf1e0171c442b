------------------------------ MODULE SpendOnce ------------------------------
(***************************************************************************)
(* What a wallet promises whose coins nobody else spends: it keeps every   *)
(* transaction and never two that spend the same coin, prepares spends     *)
(* only of coins on offer, and offers no coin that a stored transaction    *)
(* spends.                                                                 *)
(***************************************************************************)
EXTENDS FiniteSets

CONSTANTS Tx, Coin, Spends

VARIABLES stored, offered, drafts

SpentIn(T) == UNION {Spends[t] : t \in T}

Agree(T) == \A t, u \in T : t # u => Spends[t] \cap Spends[u] = {}

(* The wallet learns of transactions, also of its own, and of coins.        *)
Learn ==
  /\ stored' \in SUBSET Tx /\ stored \subseteq stored' /\ Agree(stored')
  /\ offered' \in SUBSET (Coin \ SpentIn(stored'))
  /\ UNCHANGED drafts

(* A new transaction is prepared, or a stored one looked at. *)
Prepare(t) ==
  /\ Spends[t] \subseteq offered \/ t \in stored
  /\ drafts' = drafts \cup {t}
  /\ UNCHANGED <<stored, offered>>

Forget == drafts' = {} /\ UNCHANGED <<stored, offered>>

Init == stored = {} /\ offered = {} /\ drafts = {}

Next == Learn \/ Forget \/ \E t \in Tx : Prepare(t)

Spec == Init /\ [][Next]_<<stored, offered, drafts>>
=============================================================================
