------------------------------ MODULE ScriptVM ------------------------------
(***************************************************************************)
(* Script.evaluate() and the Stack it works on (scripts.py).               *)
(*                                                                         *)
(* A command is an opcode or a push.  An item of the stack is a sequence   *)
(* of bytes; a signature, a public key, a hash or a redeem script is a     *)
(* sequence of one symbol, a number that is not a byte.                    *)
(***************************************************************************)
EXTENDS Integers, Sequences, FiniteSets, FiniteSetsExt, SequencesExt

CONSTANTS
  Program,    \* the scripts: sequences of commands
  NumBytes,   \* the length of a number at most, 4
  Threshold,  \* 50000000: locktimes below are blocks, above are seconds
  RuleThreshold, \* the same in the rules of script, 500000000
  Sequence,   \* env_data['sequence']: "final" or "open"
  Locktime    \* env_data['locktime']

VARIABLES
  script,    \* Script.commands
  commands,  \* the commands that evaluate() has left
  stack,     \* Script.stack, the top is the last item
  verdict    \* "running", what evaluate() returned, or "error"

machine == <<script, commands, stack, verdict>>

-----------------------------------------------------------------------------
Op(name) == [op |-> name, data |-> <<>>]
Push(item) == [op |-> "push", data |-> item]

Symbol(n) == <<256 + n>>
Signature(k) == Symbol(k)            \* of key k for the message
Forged(k) == Symbol(100 + k)         \* of key k for another message
PublicKey(k) == Symbol(200 + k)
Redeem == Symbol(300)                \* env_data['redeemscript']
Hashed(item) == <<1000>> \o item

IsSymbol(item) == \E x \in DOMAIN item : item[x] > 255
IsSignature(item) == Len(item) = 1 /\ item[1] \in 256..455
IsKey(item) == Len(item) = 1 /\ item[1] \in 456..555
Verifies(sig, key) == sig[1] + 200 = key[1]

(* encode_num(): little endian, the sign in the highest bit.               *)
Encode(n) ==
  LET a == IF n < 0 THEN -n ELSE n
      low == a % 256
      high == a \div 256
      sign == IF n < 0 THEN 128 ELSE 0
  IN  IF n = 0 THEN <<>>
      ELSE IF high = 0
      THEN IF low >= 128 THEN <<low, sign>> ELSE <<low + sign>>
      ELSE IF high >= 128 THEN <<low, high, sign>> ELSE <<low, high + sign>>

(* decode_num() *)
Decode(item) ==
  LET n == Len(item)
      top == item[n] % 128
      a == CASE n = 1 -> top
             [] n = 2 -> item[1] + 256 * top
             [] n = 3 -> item[1] + 256 * item[2] + 65536 * top
  IN  IF n = 0 THEN 0 ELSE IF item[n] >= 128 THEN -a ELSE a

True == <<1>>
Bool(b) == IF b THEN True ELSE <<>>

-----------------------------------------------------------------------------
(* What a method of Stack does: the new stack, or False, or an exception.   *)
Done(st) == [ok |-> TRUE, stack |-> st]
Failed == [ok |-> FALSE, stack |-> <<>>]
Needs(n, st, new) == IF Len(st) >= n THEN Done(new) ELSE Failed

At(st, n) == st[Len(st) + 1 - n]
PopAt(st, n) == RemoveAt(st, Len(st) + 1 - n)
Popped(st, n) == SubSeq(st, 1, Len(st) - n)
TopOf(st, n) == SubSeq(st, Len(st) + 1 - n, Len(st))

(* self[-n]: negative n, and 0, count from the bottom.                      *)
Picked(st, n) == IF n > 0 THEN Len(st) + 1 - n ELSE 1 - n

(* Slip: the third item from the top is counted from 0. *)
MovedFromTwo(op, st) ==
  CASE op = "rot"  -> Needs(3, st, Append(PopAt(st, 2), At(st, 2)))
    [] op = "swap" -> Needs(2, st, Append(PopAt(st, 2), At(st, 2)))
    [] op = "nip"  -> Needs(2, st, PopAt(st, 2))

Moved(op, st) ==
  CASE op = "rot"  -> Needs(3, st, Append(PopAt(st, 3), At(st, 3)))
    [] op = "swap" -> Needs(2, st, Append(PopAt(st, 2), At(st, 2)))
    [] op = "nip"  -> Needs(2, st, PopAt(st, 2))

Shuffled(op, st) ==
  LET r == Popped(st, 2)
      low == Max({Len(r) - 2, 0})
      below == Popped(st, 1)
      i == Picked(below, Decode(At(st, 1)))
  IN  CASE op = "2drop" -> Needs(2, st, Popped(st, 2))
        [] op = "2dup"  -> Needs(2, st, st \o TopOf(st, 2))
        [] op = "3dup"  -> Needs(3, st, st \o TopOf(st, 3))
        [] op = "2over" -> Needs(4, st, st \o <<At(st, 4), At(st, 3)>>)
        [] op = "2rot"  -> Needs(6, st, PopAt(PopAt(st, 6), 5) \o <<At(st, 6), At(PopAt(st, 6), 5)>>)
        [] op = "2swap" -> Needs(2, st, SubSeq(r, 1, low) \o <<At(st, 1), At(st, 2)>> \o SubSeq(r, low + 1, Len(r)))
        [] op = "ifdup" -> Needs(1, st, IF At(st, 1) # <<>> THEN Append(st, At(st, 1)) ELSE st)
        [] op = "depth" -> Done(Append(st, Encode(Len(st))))
        [] op = "drop"  -> Needs(1, st, Popped(st, 1))
        [] op = "dup"   -> Needs(1, st, Append(st, At(st, 1)))
        [] op = "over"  -> Needs(2, st, Append(st, At(st, 2)))
        [] op = "tuck"  -> Needs(2, st, Append(st, At(st, 2)))
        [] op = "size"  -> Needs(1, st, Append(st, Encode(IF IsSymbol(At(st, 1)) THEN 33 ELSE Len(At(st, 1)))))
        [] op = "pick"  -> IF st # <<>> /\ ~IsSymbol(At(st, 1)) /\ i \in DOMAIN below THEN Done(Append(below, below[i])) ELSE Failed
        [] op = "roll"  -> IF st # <<>> /\ ~IsSymbol(At(st, 1)) /\ i \in DOMAIN below
                           THEN Done(Append(RemoveAt(below, i), below[i])) ELSE Failed
        [] OTHER        -> Moved(op, st)

ShuffleOps == {"2drop", "2dup", "3dup", "2over", "2rot", "2swap", "ifdup", "depth", "drop", "dup",
               "over", "tuck", "size", "pick", "roll", "rot", "swap", "nip"}

Verify(st) == IF st # <<>> /\ At(st, 1) # <<>> THEN Done(Popped(st, 1)) ELSE Failed
VerifyAfter(r) == IF r.ok THEN Verify(r.stack) ELSE Failed

(* is_arithmetic(): as many items, of a few bytes each. *)
IsArithmetic(st, n) ==
  Len(st) >= n /\ \A x \in 1..n : ~IsSymbol(At(st, x)) /\ Len(At(st, x)) <= NumBytes

(* Methods of one number. *)
Unary(op, item) ==
  LET n == Decode(item)
  IN  CASE op = "1add"      -> Encode(n + 1)
        [] op = "1sub"      -> Encode(n - 1)
        [] op = "negate"    -> Encode(-n)
        [] op = "abs"       -> Encode(IF n < 0 THEN -n ELSE n)
        [] op = "not"       -> Bool(item = <<>>)
        [] op = "0notequal" -> Bool(item # <<>>)

UnaryOps == {"1add", "1sub", "negate", "abs", "not", "0notequal"}

(* Methods of two numbers, a the top. *)
Binary(op, a, b) ==
  LET m == Decode(a)
      n == Decode(b)
  IN  CASE op = "add"         -> Encode(m + n)
        [] op = "sub"         -> Encode(m - n)
        [] op = "booland"     -> Bool(a # <<>> /\ b # <<>>)
        [] op = "boolor"      -> Bool(a # <<>> \/ b # <<>>)
        [] op = "numequal"    -> Bool(a = b)
        [] op = "numnotequal" -> Bool(a # b)
        [] op = "min"         -> IF m < n THEN Encode(m) ELSE Encode(n)
        [] op = "max"         -> IF m > n THEN Encode(m) ELSE Encode(n)

BinaryOps == {"add", "sub", "booland", "boolor", "numequal", "numnotequal", "min", "max"}

Computed(op, st) ==
  CASE op \in UnaryOps ->
         IF IsArithmetic(st, 1) THEN Done(Append(Popped(st, 1), Unary(op, At(st, 1)))) ELSE Failed
    [] op \in BinaryOps ->
         IF IsArithmetic(st, 2)
         THEN Done(Append(Popped(st, 2), Binary(op, At(st, 1), At(st, 2)))) ELSE Failed
    [] op = "within" ->
         IF IsArithmetic(st, 3)
         THEN LET x == Decode(At(st, 1))
              IN  Done(Append(Popped(st, 3), Bool(Decode(At(st, 2)) <= x /\ x < Decode(At(st, 3)))))
         ELSE Failed

(* op_numequalverify() goes on with the top when op_numequal() returns      *)
(* False, which is for two items that are too long; fewer raise an error.   *)
EqualVerify(st) ==
  IF Len(st) >= 2 /\ ~IsArithmetic(st, 2) THEN Verify(st) ELSE VerifyAfter(Computed("numequal", st))

(* Signature.parse_bytes() fails for what is not a signature, verify() for  *)
(* what is not a key.                                                       *)
CheckSig(st) ==
  IF Len(st) >= 2 /\ IsKey(At(st, 1)) /\ IsSignature(At(st, 2))
  THEN Done(Append(Popped(st, 2), Bool(Verifies(At(st, 2), At(st, 1))))) ELSE Failed

(* n items from the x-th of the top on, the top first. *)
Taken(st, x, n) == [y \in 1..n |-> At(st, x + y - 1)]

(* Keys are tried until all signatures are found; -1 for an exception. *)
Tried(keys, sigs, again) ==
  LET step(count, k) ==
        IF count \in {-1, Len(sigs)} THEN count
        ELSE IF ~IsKey(k) \/ ~IsSignature(sigs[count + 1]) THEN -1
        ELSE IF Verifies(sigs[count + 1], k) THEN count + 1
        ELSE IF again THEN 0 ELSE count
  IN  FoldLeft(step, 0, keys)

(* Slip: a key without a signature starts again. *)
MatchedAgain(keys, sigs) == Tried(keys, sigs, TRUE)

(* The signatures that were found, when each key was tried once. *)
Matched(keys, sigs) == Tried(keys, sigs, FALSE)

CheckMultisig(st) ==
  LET n == Max({Decode(At(st, 1)), 0})
      m == Max({Decode(At(st, n + 2)), 0})
      keys == Taken(st, 2, n)
      sigs == Taken(st, n + 3, m)
      rest == Popped(st, n + m + 2)
      left == IF rest = <<>> THEN rest ELSE Popped(rest, 1)
  IN  IF /\ st # <<>> /\ ~IsSymbol(At(st, 1))
         /\ Len(st) >= n + 2 /\ ~IsSymbol(At(st, n + 2))
         /\ Len(st) >= n + m + 2
         /\ n > 0 => m > 0
         /\ Matched(keys, sigs) >= 0
      THEN Done(Append(left, Bool(Matched(keys, sigs) = m)))
      ELSE Failed

(* op_checklocktimeverify(); the item stays. *)
CheckLocktime(st) ==
  IF /\ Locktime > 0 /\ Sequence # "final"
     /\ st # <<>> /\ ~IsSymbol(At(st, 1)) /\ Decode(At(st, 1)) >= 0
     /\ ~(Decode(At(st, 1)) < Threshold /\ Threshold < Locktime)
     /\ ~(Decode(At(st, 1)) > Threshold /\ Threshold > Locktime)
     /\ Locktime >= Decode(At(st, 1))
  THEN Done(st) ELSE Failed

(* The methods evaluate() finds by the name of the opcode. *)
Method(op, st) ==
  CASE op \in ShuffleOps -> Shuffled(op, st)
    [] op \in UnaryOps \cup BinaryOps \cup {"within"} -> Computed(op, st)
    [] op = "nop" -> Done(st)
    [] op = "verify" -> Verify(st)
    [] op = "return" -> Failed
    [] op \in {"equal", "equalverify"} ->
         LET r == Needs(2, st, Append(Popped(st, 2), Bool(At(st, 1) = At(st, 2))))
         IN  IF op = "equal" THEN r ELSE VerifyAfter(r)
    [] op = "numequalverify" -> EqualVerify(st)
    [] op = "hash160" -> Needs(1, st, Append(Popped(st, 1), Hashed(At(st, 1))))
    [] op = "checksig" -> CheckSig(st)
    [] op = "checksigverify" -> VerifyAfter(CheckSig(st))
    [] op \in {"checkmultisig", "checkmultisigverify"} ->
         LET r == VerifyAfter(CheckMultisig(st))
         IN  IF r.ok THEN Done(Append(r.stack, Redeem)) ELSE Failed
    [] op = "checklocktimeverify" -> CheckLocktime(st)
    [] op = "checksequenceverify" -> Done(st)

Methods ==
  ShuffleOps \cup UnaryOps \cup BinaryOps \cup
  {"within", "nop", "verify", "return", "equal", "equalverify", "numequalverify", "hash160",
   "checksig", "checksigverify", "checkmultisig", "checkmultisigverify", "checklocktimeverify",
   "checksequenceverify"}

-----------------------------------------------------------------------------
(* op_if(): the commands up to its op_endif are taken out, and those of one *)
(* branch put back.                                                         *)
Ifs == {"if", "notif"}

(* Slip: an inner op_if is not counted. *)
NestedFlat(cs, i) == 0

(* op_ifs that are open before the i-th command. *)
Nested(cs, i) ==
  Cardinality({j \in 1..(i - 1) : cs[j].op \in Ifs}) - Cardinality({j \in 1..(i - 1) : cs[j].op = "endif"})

Endifs(cs) == {i \in DOMAIN cs : cs[i].op = "endif" /\ Nested(cs, i) = 0}

Branch(cs, end, taken) ==
  LET elses == {i \in 1..(end - 1) : cs[i].op = "else" /\ Nested(cs, i) = 0}
      first == IF elses = {} THEN end ELSE Min(elses)
      kept(S) == LET q == SetToSortSeq(S, <) IN [x \in DOMAIN q |-> cs[q[x]]]
  IN  IF taken THEN SubSeq(cs, 1, first - 1)
      ELSE kept(((first + 1)..(end - 1)) \ elses)

-----------------------------------------------------------------------------
Init ==
  /\ script \in Program
  /\ commands = script
  /\ stack = <<>>
  /\ verdict = "running"

Running(op) == verdict = "running" /\ commands # <<>> /\ Head(commands).op = op

PushData ==
  /\ Running("push")
  /\ stack' = Append(stack, Head(commands).data)
  /\ commands' = Tail(commands)
  /\ UNCHANGED <<script, verdict>>

(* op_if() and op_notif() are called outside of the try block.              *)
If ==
  LET cs == Tail(commands)
      end == Min(Endifs(cs))
      zero == ~IsSymbol(At(stack, 1)) /\ Decode(At(stack, 1)) = 0
      taken == IF Head(commands).op = "if" THEN ~zero ELSE zero
  IN  /\ \E op \in Ifs : Running(op)
      /\ UNCHANGED script
      /\ IF Endifs(cs) = {} \/ stack = <<>>
         THEN /\ verdict' = IF stack = <<>> /\ (Endifs(cs) # {} \/ Running("notif")) THEN "error" ELSE "false"
              /\ UNCHANGED <<commands, stack>>
         ELSE /\ commands' = Branch(cs, end, taken) \o SubSeq(cs, end + 1, Len(cs))
              /\ stack' = Popped(stack, 1)
              /\ UNCHANGED verdict

(* Another command: a method of the stack, which may return False. *)
Call ==
  LET r == Method(Head(commands).op, stack)
  IN  /\ \E op \in Methods : Running(op)
      /\ IF r.ok
         THEN stack' = r.stack /\ commands' = Tail(commands) /\ UNCHANGED verdict
         ELSE verdict' = "false" /\ UNCHANGED <<stack, commands>>
      /\ UNCHANGED script

(* "Method not found": op_else and op_endif, and opcodes without a method.  *)
NoMethod ==
  /\ verdict = "running" /\ commands # <<>>
  /\ Head(commands).op \notin Methods \cup Ifs \cup {"push"}
  /\ verdict' = "error"
  /\ UNCHANGED <<script, commands, stack>>

Finish ==
  /\ verdict = "running" /\ commands = <<>>
  /\ verdict' = IF Verify(stack).ok THEN "true" ELSE "false"
  /\ stack' = IF stack = <<>> THEN stack ELSE Popped(stack, 1)
  /\ UNCHANGED <<script, commands>>

Next == PushData \/ If \/ Call \/ NoMethod \/ Finish

Spec == Init /\ [][Next]_machine

-----------------------------------------------------------------------------
(* An item as an integer: its number, or a symbol. *)
Symbols == 100000
Value(item) == CASE ~IsSymbol(item) -> Decode(item)
                 [] Len(item) = 1 -> Symbols + item[1]
                 [] OTHER -> 2 * Symbols + item[Len(item)]

LockOK(n) ==
  /\ Sequence # "final" /\ n \in 0..Locktime
  /\ (n < RuleThreshold) = (Locktime < RuleThreshold)

SigOK(s, k) == k \in (Symbols + 456)..(Symbols + 555) /\ s + 200 = k

Rules ==
  INSTANCE ScriptSemantics WITH
    Limit <- 2^(8 * NumBytes - 1) - 1, Redeem <- Value(Redeem), Verifies <- SigOK,
    Hash <- LAMBDA n : IF n < Symbols THEN 2 * Symbols + n ELSE n + Symbols,
    Length <- LAMBDA n : IF n >= Symbols THEN 33 ELSE Len(Encode(n))

Outcome == Rules!Outcome([x \in DOMAIN script |-> [op |-> script[x].op, value |-> Value(script[x].data)]])

(* evaluate() takes branches out of the list of commands and works on bytes;*)
(* it accepts a script exactly when the rules do, and leaves the same stack.*)
(* Not for a second "else", which the code adds to the first, for           *)
(* op_numequalverify of items that are no numbers, and for locktimes between*)
(* the two thresholds.                                                      *)
MeansTheSame ==
  verdict # "running" /\ Outcome.plain =>
    /\ (verdict = "true") = Outcome.ok
    /\ Outcome.ok => [x \in DOMAIN stack |-> Value(stack[x])] = Outcome.stack
=============================================================================
