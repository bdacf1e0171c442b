--------------------------- MODULE ScriptSemantics ---------------------------
(***************************************************************************)
(* What a script means: the rules that scripts.py refers to, for a stack   *)
(* of integers.  Numbers stand for themselves, everything else is a symbol *)
(* from Symbols on.  Branches are followed with a stack of conditions and  *)
(* the script is never changed.                                            *)
(***************************************************************************)
EXTENDS Integers, Sequences, FiniteSets, SequencesExt

CONSTANTS
  Limit,     \* numbers are computed with up to this absolute value
  Symbols,   \* the first symbol
  Verifies(_, _),  \* does a signature fit a key?
  Hash(_),         \* the symbol of a hash
  Length(_),       \* the bytes of an item
  LockOK(_),       \* has this locktime passed?
  Redeem           \* the symbol a multisig script leaves

Truth(b) == IF b THEN 1 ELSE 0

(* What is taken, and given back: by position, the lowest item first.       *)
Move(op) ==
  CASE op = "drop"  -> <<1, <<>>>>
    [] op = "2drop" -> <<2, <<>>>>
    [] op = "dup"   -> <<1, <<1, 1>>>>
    [] op = "2dup"  -> <<2, <<1, 2, 1, 2>>>>
    [] op = "3dup"  -> <<3, <<1, 2, 3, 1, 2, 3>>>>
    [] op = "nip"   -> <<2, <<2>>>>
    [] op = "over"  -> <<2, <<1, 2, 1>>>>
    [] op = "2over" -> <<4, <<1, 2, 3, 4, 1, 2>>>>
    [] op = "rot"   -> <<3, <<2, 3, 1>>>>
    [] op = "2rot"  -> <<6, <<3, 4, 5, 6, 1, 2>>>>
    [] op = "swap"  -> <<2, <<2, 1>>>>

Moves == {"drop", "2drop", "dup", "2dup", "3dup", "nip", "over", "2over", "rot", "2rot", "swap"}

(* Functions of one and of two numbers, x below y. *)
OfOne(op, x) ==
  CASE op = "1add"      -> x + 1
    [] op = "1sub"      -> x - 1
    [] op = "negate"    -> -x
    [] op = "abs"       -> IF x < 0 THEN -x ELSE x
    [] op = "not"       -> Truth(x = 0)
    [] op = "0notequal" -> Truth(x # 0)

OfTwo(op, x, y) ==
  CASE op = "add"         -> x + y
    [] op = "booland"     -> Truth(x # 0 /\ y # 0)
    [] op = "boolor"      -> Truth(x # 0 \/ y # 0)
    [] op = "numequal"    -> Truth(x = y)
    [] op = "numnotequal" -> Truth(x # y)
    [] op = "min"         -> IF x < y THEN x ELSE y
    [] op = "max"         -> IF x < y THEN y ELSE x

OneOps == {"1add", "1sub", "negate", "abs", "not", "0notequal"}
TwoOps == {"add", "booland", "boolor", "numequal", "numnotequal", "min", "max"}

-----------------------------------------------------------------------------
(* A state is ok, the conditions that are open, and the stack.  cond[i] is  *)
(* TRUE in a branch that is executed.  A script is plain as long as no      *)
(* condition has a second "else".                                           *)
Start == [ok |-> TRUE, plain |-> TRUE, cond |-> <<>>, elses |-> <<>>, stack |-> <<>>]

Bad(s) == [s EXCEPT !.ok = FALSE]
Height(s) == Len(s.stack)
Below(s, n) == SubSeq(s.stack, 1, Height(s) - n)
Item(s, n) == s.stack[Height(s) + 1 - n]
Giving(s, n, items) == IF Height(s) >= n THEN [s EXCEPT !.stack = Below(s, n) \o items] ELSE Bad(s)
Numbers(s, n) == Height(s) >= n /\ \A x \in 1..n : Item(s, x) \in -Limit..Limit

(* Signatures are matched with keys in the same order. *)
InOrderMatch(sigs, keys) ==
  \E f \in [DOMAIN sigs -> DOMAIN keys] :
    /\ \A x, y \in DOMAIN sigs : x < y => f[x] < f[y]
    /\ \A x \in DOMAIN sigs : Verifies(sigs[x], keys[f[x]])

Multisig(s) ==
  LET n == Item(s, 1)
      m == Item(s, n + 2)
      keys == SubSeq(s.stack, Height(s) - n, Height(s) - 1)
      sigs == SubSeq(s.stack, Height(s) - n - m - 1, Height(s) - n - 2)
  IN  IF Height(s) >= 1 /\ n \in 0..20 /\ Height(s) >= n + 2 /\ m \in 1..n /\ Height(s) >= n + m + 3
         /\ InOrderMatch(sigs, keys)
      THEN Giving(s, n + m + 3, <<Redeem>>) ELSE Bad(s)

Verified(s) == IF Height(s) > 0 /\ Item(s, 1) # 0 THEN Giving(s, 1, <<>>) ELSE Bad(s)

Executed(s, op, value) ==
  LET equal == Giving(s, 2, <<Truth(Item(s, 1) = Item(s, 2))>>)
      signed == Giving(s, 2, <<Truth(Verifies(Item(s, 2), Item(s, 1)))>>)
  IN  CASE op = "push"        -> [s EXCEPT !.stack = Append(@, value)]
        [] op \in Moves       -> LET t == Move(op)
                                 IN  Giving(s, t[1], [x \in DOMAIN t[2] |-> Item(s, t[1] + 1 - t[2][x])])
        [] op \in OneOps      -> IF Numbers(s, 1) THEN Giving(s, 1, <<OfOne(op, Item(s, 1))>>) ELSE Bad(s)
        [] op \in TwoOps      -> IF Numbers(s, 2) THEN Giving(s, 2, <<OfTwo(op, Item(s, 2), Item(s, 1))>>)
                                 ELSE Bad(s)
        [] op = "numequalverify" -> IF Numbers(s, 2) THEN Verified(equal) ELSE Bad(s)
        [] op = "ifdup"       -> IF Height(s) > 0 /\ Item(s, 1) # 0 THEN Giving(s, 0, <<Item(s, 1)>>)
                                 ELSE Giving(s, 1, <<0>>)
        [] op = "depth"       -> Giving(s, 0, <<Height(s)>>)
        [] op = "size"        -> Giving(s, 1, <<Item(s, 1), Length(Item(s, 1))>>)
        [] op = "nop"         -> s
        [] op = "verify"      -> Verified(s)
        [] op = "equal"       -> equal
        [] op = "equalverify" -> Verified(equal)
        [] op = "hash160"     -> Giving(s, 1, <<Hash(Item(s, 1))>>)
        [] op = "checksig"    -> signed
        [] op = "checksigverify" -> Verified(signed)
        [] op \in {"checkmultisig", "checkmultisigverify"} -> Multisig(s)
        [] op = "checklocktimeverify" -> IF Height(s) > 0 /\ LockOK(Item(s, 1)) THEN s ELSE Bad(s)
        [] OTHER              -> Bad(s)

Active(s) == \A x \in DOMAIN s.cond : s.cond[x]

Opened(s, holds) == [s EXCEPT !.cond = Append(@, holds), !.elses = Append(@, 0)]

Stepped(s, op, value) ==
  LET n == Len(s.cond)
      popped == Giving(s, 1, <<>>)
  IN  CASE ~s.ok -> s
        [] op \in {"if", "notif"} ->
             IF ~Active(s) THEN Opened(s, FALSE)
             ELSE IF Height(s) = 0 THEN Bad(s)
             ELSE Opened(popped, (Item(s, 1) # 0) = (op = "if"))
        [] op = "else" ->
             IF n = 0 THEN Bad(s)
             ELSE [s EXCEPT !.cond[n] = ~@, !.elses[n] = @ + 1, !.plain = @ /\ s.elses[n] = 0]
        [] op = "endif" ->
             IF n = 0 THEN Bad(s) ELSE [s EXCEPT !.cond = Front(@), !.elses = Front(@)]
        [] OTHER -> IF Active(s) THEN Executed(s, op, value) ELSE s

(* The last state, ok when the script is valid. *)
Outcome(prog) ==
  LET last == FoldLeft(LAMBDA s, c : Stepped(s, c.op, c.value), Start, prog)
  IN  IF last.ok /\ last.cond = <<>> THEN Verified(last) ELSE Bad(last)
=============================================================================
