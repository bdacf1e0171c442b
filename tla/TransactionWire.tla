-------------------------- MODULE TransactionWire --------------------------
(***************************************************************************)
(* Transactions as they are signed, serialized and parsed                  *)
(* (transactions.py): signature(), raw(), parse_bytesio(), update_scripts()*)
(* and the operations that change a transaction and sign it again.         *)
(*                                                                         *)
(* A raw transaction is a sequence of tokens: single bytes, which counts   *)
(* and lengths are made of, and fields of a fixed length or of the length  *)
(* before them.  A script is the sequence of its parts.  A hash is the     *)
(* tokens that it is made of.  An input has one key, or 2 of 3.            *)
(***************************************************************************)
EXTENDS Integers, Sequences, FiniteSets, SequencesExt

CONSTANTS
  Start,     \* transactions to start with: records as tx, without signatures
  Other,     \* transactions to merge it with
  NewOutput, \* outputs that are added: [value, size]
  Blocks,    \* what set_locktime_blocks() is called with
  Relative,  \* what set_locktime_relative_blocks() is called with
  MaxInputs, MaxOutputs  \* bounds on their number

Final == 16      \* 0xffffffff
Enabled == 15    \* SEQUENCE_ENABLE_LOCKTIME, other sequences are below

VARIABLES
  tx,     \* Transaction: version, locktime, segwit, ins, outs
  asked,  \* the last argument of set_locktime_blocks()
  sent,   \* raw()
  got     \* what the receiver parsed

wire == <<tx, asked, sent, got>>

-----------------------------------------------------------------------------
(* Tokens, and the parts of scripts with their size in bytes.               *)
Field(f, v) == [f |-> f, v |-> v]
Byte(n) == Field("byte", n)
Bytes(ns) == [x \in DOMAIN ns |-> Byte(ns[x])]

(* A part is an opcode, or data with what it is about.                      *)
Nothing == [version |-> 0]
Part(k, v, n) == [k |-> k, v |-> v, n |-> n]
Zero == Part("zero", 0, 1)
Sig(d) == Part("sig", d, 72)
Key(i) == Part("key", i.op, 33)
Redeem(i) == Part("redeem", i.op, 105)
WitnessProgram(i) == Part(IF i.type = "p2sh_multisig" THEN "program32" ELSE "program20", i.op,
                   IF i.type = "p2sh_multisig" THEN 34 ELSE 22)

(* data_pack() *)
Packed(part) ==
  IF part.k = "zero" THEN 1 ELSE part.n + (IF part.n <= 75 THEN 1 ELSE IF part.n <= 255 THEN 2 ELSE 3)
ScriptSize(parts) == FoldLeft(LAMBDA n, p : n + Packed(p), 0, parts)

(* Slip: the short form up to 255. *)
CompactShort(n) ==
  IF n <= 255 THEN <<Byte(n)>> ELSE Bytes(<<253, n % 256, n \div 256>>)

(* int_to_varbyteint(): 65535 takes the longer form already. *)
Compact(n) ==
  IF n < 253 THEN <<Byte(n)>>
  ELSE IF n < 65535 THEN Bytes(<<253, n % 256, n \div 256>>)
  ELSE Bytes(<<254, n % 256, (n \div 256) % 256, (n \div 65536) % 256, n \div 16777216>>)

(* varstr() of a script, of which b'\0' is its own length. *)
Varstr(name, parts, size) ==
  IF parts = <<Zero>> THEN <<Byte(0)>>
  ELSE IF size = 0 THEN <<Byte(0)>> ELSE Compact(size) \o <<Field(name, parts)>>

Flat(seqs) == FoldLeft(LAMBDA a, b : a \o b, <<>>, seqs)

-----------------------------------------------------------------------------
(* Input.update_scripts(): what a signed input is unlocked with.  A script  *)
(* of one signature is written only once: "shown" is the signature in it.   *)
Signed(i) == i.sig # Nothing
Sigs(i) == [x \in 1..i.required |-> Sig(i.sig)]

Unlocking(i) ==
  CASE i.type \in {"coinbase", "nonstandard_0001"} -> i.fixed
    [] i.wit = "p2sh-segwit" -> <<WitnessProgram(i)>>
    [] i.wit = "segwit" \/ ~Signed(i) -> <<>>
    [] i.type = "sig_pubkey" -> Sigs(i) \o <<Key(i)>>
    [] i.type = "signature" -> <<Sig(i.shown)>>
    [] OTHER -> <<Zero>> \o Sigs(i) \o <<Redeem(i)>>

(* Inputs of one key have witnesses, legacy ones too.                       *)
Witnesses(i) ==
  CASE i.type = "p2tr" -> i.fixed
    [] ~Signed(i) -> <<>>
    [] i.type = "sig_pubkey" -> Sigs(i) \o <<Key(i)>>
    [] i.type = "p2sh_multisig" /\ i.wit # "legacy" -> <<Zero>> \o Sigs(i) \o <<Redeem(i)>>
    [] OTHER -> <<>>

(* locking_script, or the redeemscript: what is signed in its place. *)
Code(i) == <<Part("code", i.op, 25)>>

Outpoint(i) == <<Field("txid", i.op), Field("index", i.op)>>
RawOutput(o) == <<Field("value", o.value)>> \o Varstr("script", <<Part("lock", o.size, o.size)>>, o.size)
RawOutputs(t) == Compact(Len(t.outs)) \o Flat([x \in DOMAIN t.outs |-> RawOutput(t.outs[x])])

(* raw(): sign_id is 0 for the transaction itself, else the input to sign.  *)
RawScript(i, sign_id) ==
  CASE sign_id = 0 ->
         (IF i.type = "nonstandard_0001" THEN <<Byte(1)>> ELSE <<>>)
           \o Varstr("script", Unlocking(i), ScriptSize(Unlocking(i)))
    [] sign_id = i.index -> Varstr("script", Code(i), 25)
    [] OTHER -> <<Byte(0)>>

RawInput(i, sign_id) ==
  Outpoint(i) \o RawScript(i, sign_id) \o <<Field("sequence", i.seq)>>

WitnessOf(i) ==
  LET w == Witnesses(i)
  IN  Compact(Len(w)) \o Flat([x \in DOMAIN w |-> Varstr("item", <<w[x]>>, w[x].n)])
RawWitness(i) == IF i.wit = "legacy" THEN <<Byte(0)>> ELSE WitnessOf(i)

Raw(t, sign_id) ==
  LET extended == sign_id = 0 /\ t.segwit
  IN  <<Field("version", t.version)>>
        \o (IF extended THEN Bytes(<<0, 1>>) ELSE <<>>)
        \o Compact(Len(t.ins)) \o Flat([x \in DOMAIN t.ins |-> RawInput(t.ins[x], sign_id)])
        \o RawOutputs(t)
        \o (IF extended THEN Flat([x \in DOMAIN t.ins |-> RawWitness(t.ins[x])]) ELSE <<>>)
        \o <<Field("locktime", t.locktime)>>
        \o (IF sign_id = 0 THEN <<>> ELSE <<Field("hash_type", 1)>>)

(* Slip: a digest without the sequences of the other inputs. *)
SegwitUnsequenced(t, n) ==
  LET i == t.ins[n]
  IN  <<Field("version", t.version),
        Field("hash", Flat([x \in DOMAIN t.ins |-> Outpoint(t.ins[x])]))>>
        \o Outpoint(i) \o Varstr("script", Code(i), 25)
        \o <<Field("value", i.value), Field("sequence", i.seq), Field("hash", Tail(RawOutputs(t))),
             Field("locktime", t.locktime), Field("hash_type", 1)>>

(* signature_segwit() for SIGHASH_ALL *)
Segwit(t, n) ==
  LET i == t.ins[n]
  IN  <<Field("version", t.version),
        Field("hash", Flat([x \in DOMAIN t.ins |-> Outpoint(t.ins[x])])),
        Field("hash", [x \in DOMAIN t.ins |-> Field("sequence", t.ins[x].seq)])>>
        \o Outpoint(i) \o Varstr("script", Code(i), 25)
        \o <<Field("value", i.value), Field("sequence", i.seq),
             Field("hash", SubSeq(RawOutputs(t), Len(Compact(Len(t.outs))) + 1, Len(RawOutputs(t)))),
             Field("locktime", t.locktime), Field("hash_type", 1)>>

(* signature() *)
Digest(t, n) == IF t.ins[n].wit = "legacy" THEN Raw(t, n) ELSE Segwit(t, n)

-----------------------------------------------------------------------------
(* Reading.  A result is what was read and the tokens that are left.        *)
At(s, x) == IF x <= Len(s) THEN s[x] ELSE Field("end", 0)
Rest(s, n) == SubSeq(s, n + 1, Len(s))
Number(t) == IF t.f = "byte" THEN t.v ELSE 0

(* read_varbyteint() *)
ReadCompact(s) ==
  CASE Number(At(s, 1)) < 253 -> <<Number(At(s, 1)), Rest(s, 1)>>
    [] At(s, 1).v = 253 -> <<Number(At(s, 2)) + 256 * Number(At(s, 3)), Rest(s, 3)>>
    [] OTHER -> <<Number(At(s, 2)) + 256 * Number(At(s, 3)) + 65536 * Number(At(s, 4))
                    + 16777216 * Number(At(s, 5)), Rest(s, 5)>>

Malformed == <<Part("malformed", 0, 0)>>

(* As many bytes as their length says, which the next field must have.      *)
ReadScript(s, sizeOf) ==
  LET c == ReadCompact(s)
      next == At(c[2], 1)
  IN  CASE c[1] = 0 -> <<<<>>, c[2]>>
        [] c[1] = 1 /\ next = Byte(0) -> <<<<Zero>>, Rest(c[2], 1)>>
        [] next.f = sizeOf /\ c[1] = (IF sizeOf = "item" THEN next.v[1].n
                                      ELSE IF next.v[1].k = "lock" THEN next.v[1].n
                                      ELSE ScriptSize(next.v)) -> <<next.v, Rest(c[2], 1)>>
        [] OTHER -> <<Malformed, <<>>>>

(* Script.parse() of an unlocking script or of all witnesses.               *)
Kinds(parts) == [x \in DOMAIN parts |-> parts[x].k]
SigsOf(parts) == LET q == SelectSeq(parts, LAMBDA p : p.k = "sig") IN [x \in DOMAIN q |-> q[x].v]

ScriptType(parts) ==
  LET k == Kinds(parts)
  IN  CASE k = <<"sig", "key">> -> "sig_pubkey"
        [] k = <<"zero", "sig", "sig", "redeem">> -> "p2sh_multisig"
        [] k = <<"sig">> -> "signature"
        [] k = <<"sig64">> -> "p2tr_unlock"
        [] k = <<"program20">> -> "p2sh_p2wpkh"
        [] k = <<"program32">> -> "p2sh_p2wsh"
        [] k = <<"zero">> -> "nonstandard_0001"
        [] OTHER -> "unknown"

(* Input.parse() and Input(): what the unlocking script says.               *)
FromUnlocking(op, u, seq, segwit) ==
  LET type == IF op = 0 THEN "coinbase" ELSE IF u = <<>> THEN "sig_pubkey" ELSE ScriptType(u)
  IN  [op |-> op, seq |-> seq, type |-> type, sigs |-> SigsOf(u), unlocking |-> u, witnesses |-> <<>>,
       wit |-> IF type \in {"p2sh_p2wpkh", "p2sh_p2wsh"} THEN "p2sh-segwit"
               ELSE IF segwit /\ u = <<>> THEN "segwit" ELSE "legacy"]

(* parse_bytesio(): what the witnesses say about an input.  An empty one    *)
(* becomes b'\0'.                                                           *)
FromWitnesses(i, w) ==
  LET type == ScriptType(w)
  IN  IF w = <<>> THEN i
      ELSE [i EXCEPT !.witnesses = w, !.sigs = SigsOf(w) ,
                     !.type = CASE type = "p2sh_multisig" -> type
                                [] type = "p2tr_unlock" -> "p2tr"
                                [] type = "unknown" /\ i.op # 0 -> "unknown"
                                [] OTHER -> @,
                     !.wit = IF type = "p2tr_unlock" THEN "segwit" ELSE @]

-----------------------------------------------------------------------------
(* parse_bytesio()                                                          *)
ReadInput(s, segwit) ==
  LET u == ReadScript(Rest(s, 2), "script")
  IN  <<FromUnlocking(At(s, 1).v, u[1], At(u[2], 1).v, segwit), Rest(u[2], 1)>>

ReadOutput(s) ==
  LET c == ReadScript(Rest(s, 1), "script")
  IN  <<[value |-> At(s, 1).v, size |-> IF c[1] = <<>> THEN 0 ELSE c[1][1].n], c[2]>>

(* n items, one after the other; all witnesses of an input.                 *)
Upto(n) == [x \in 1..n |-> x]
Inputs(s, n, segwit) ==
  FoldLeft(LAMBDA a, x : LET r == ReadInput(a[2], segwit) IN <<Append(a[1], r[1]), r[2]>>, <<<<>>, s>>, Upto(n))
Outputs(s, n) ==
  FoldLeft(LAMBDA a, x : LET r == ReadOutput(a[2]) IN <<Append(a[1], r[1]), r[2]>>, <<<<>>, s>>, Upto(n))
Items(s, n) ==
  FoldLeft(LAMBDA a, x : LET r == ReadScript(a[2], "item")
                         IN  <<a[1] \o (IF r[1] = <<>> THEN <<Zero>> ELSE r[1]), r[2]>>, <<<<>>, s>>, Upto(n))
WithWitnesses(ins, s) ==
  FoldLeft(LAMBDA a, x : LET c == ReadCompact(a[2])
                             r == Items(c[2], c[1])
                         IN  <<[a[1] EXCEPT ![x] = FromWitnesses(@, r[1])], r[2]>>, <<ins, s>>, Upto(Len(ins)))

(* The extended format, if the next bytes are marker and flag.              *)
ReadVersion(s) ==
  LET marker == At(s, 2) = Byte(0)
  IN  [version |-> At(s, 1).v, locktime |-> 0, segwit |-> marker /\ At(s, 3) = Byte(1),
       ins |-> <<>>, outs |-> <<>>, left |-> Rest(s, IF marker THEN 3 ELSE 1)]

ReadInputs(t, c) ==
  LET i == Inputs(c[2], c[1], t.segwit) IN [t EXCEPT !.ins = i[1], !.left = i[2]]
ReadOutputs(t, c) ==
  LET o == Outputs(c[2], c[1]) IN [t EXCEPT !.outs = o[1], !.left = o[2]]
ReadWitnesses(t) ==
  LET w == IF t.segwit THEN WithWitnesses(t.ins, t.left) ELSE <<t.ins, t.left>>
  IN  [t EXCEPT !.ins = w[1], !.left = w[2]]

(* The outputs follow the inputs, then the witnesses of all inputs.         *)
WithInputs(t) == ReadInputs(t, ReadCompact(t.left))
WithOutputs(t) == ReadOutputs(t, ReadCompact(t.left))
WithLocktime(t) == [t EXCEPT !.locktime = At(t.left, 1).v, !.left = Len(@) - 1]

Parse(s) == WithLocktime(ReadWitnesses(WithOutputs(WithInputs(ReadVersion(s)))))

-----------------------------------------------------------------------------
(* What a signature is meant to be about: ALL of the transaction.           *)
Content(t, n) ==
  [version |-> t.version, locktime |-> t.locktime, outs |-> t.outs, own |-> t.ins[n].op,
   ins |-> [x \in DOMAIN t.ins |-> <<t.ins[x].op, t.ins[x].seq>>]]

(* A signature is the transaction that was signed, and the input of it; of  *)
(* them the digest counts.                                                  *)
NewSig(t, n) ==
  [version |-> t.version, by |-> n,
   of |-> [t EXCEPT !.ins = [x \in DOMAIN t.ins |-> [t.ins[x] EXCEPT !.sig = Nothing, !.shown = Nothing]]]]

Valid(sig, t, n) == Digest(sig.of, sig.by) = Digest(t, n)

(* sign(replace_signatures=True) of inputs S: an input without private keys *)
(* ends it.                                                                 *)
SignedAgain(t, S) ==
  [t EXCEPT !.ins = [n \in DOMAIN t.ins |->
     IF n \in S /\ \A m \in S : m <= n => t.ins[m].own
     THEN [t.ins[n] EXCEPT !.sig = NewSig(t, n),
                           !.shown = IF t.ins[n].type = "signature" /\ @ = Nothing THEN NewSig(t, n) ELSE @]
     ELSE t.ins[n]]]

(* Coinbase inputs are not signed, others for a segwit transaction only.    *)
Signable(t) ==
  \A i \in Range(t.ins) : i.type # "coinbase" /\ (i.wit # "legacy" => t.segwit)

Become(t) ==
  /\ sent = <<>>
  /\ tx' = t
  /\ UNCHANGED <<sent, got>>

Resign(t, S) == Signable(t) /\ Become(SignedAgain(t, S))

Sign == Resign(tx, DOMAIN tx.ins) /\ UNCHANGED asked

AddOutput(o) ==
  /\ Len(tx.outs) < MaxOutputs
  /\ Become([tx EXCEPT !.outs = Append(@, o)])
  /\ UNCHANGED asked

(* set_locktime_blocks(b), or set_locktime_time(b): sequences are made less *)
(* than final.                                                              *)
Sequenced(t) ==
  [t EXCEPT !.ins = [n \in DOMAIN t.ins |-> [t.ins[n] EXCEPT !.seq = IF @ = Final THEN Enabled ELSE @]]]

SetBlocks(b) ==
  /\ asked' = b
  /\ Resign(IF b = 0 THEN [tx EXCEPT !.locktime = Final] ELSE Sequenced([tx EXCEPT !.locktime = b]),
            DOMAIN tx.ins)

(* set_locktime_relative_blocks(b, n), or _time: only input n is signed     *)
(* again.                                                                   *)
SetRelative(b, n) ==
  LET t == IF b = 0 THEN [tx EXCEPT !.ins[n].seq = Final]
           ELSE [tx EXCEPT !.ins[n].seq = b, !.version = IF @ < 2 THEN 2 ELSE @]
  IN  Resign(t, {n}) /\ UNCHANGED asked

(* shuffle(): the inputs are numbered again.                                *)
Shuffled(t, p, q) ==
  [t EXCEPT !.ins = [n \in DOMAIN t.ins |-> [t.ins[p[n]] EXCEPT !.index = n]],
            !.outs = [n \in DOMAIN t.outs |-> t.outs[q[n]]]]

Orders(D) == {p \in [D -> D] : Range(p) = D}

(* merge_transaction() *)
Merge(t) ==
  LET both == [tx EXCEPT !.ins = @ \o t.ins, !.outs = @ \o t.outs]
  IN  /\ Len(both.ins) <= MaxInputs
      /\ \A i \in Range(t.ins), j \in Range(tx.ins) : i.op # j.op
      /\ \E p \in Orders(DOMAIN both.ins), q \in Orders(DOMAIN both.outs) :
           Resign(Shuffled(both, p, q), DOMAIN both.ins)
      /\ UNCHANGED asked

Complete(t) == \A i \in Range(t.ins) : Signed(i) \/ i.type \in {"coinbase", "p2tr", "nonstandard_0001"}

Send ==
  /\ sent = <<>> /\ Complete(tx)
  /\ sent' = Raw(tx, 0)
  /\ UNCHANGED <<tx, asked, got>>

Receive ==
  /\ sent # <<>> /\ got = Nothing
  /\ got' = Parse(sent)
  /\ UNCHANGED <<tx, asked, sent>>

Init ==
  /\ tx \in Start
  /\ asked = 0 /\ sent = <<>> /\ got = Nothing

Next ==
  \/ Sign \/ Send \/ Receive
  \/ \E o \in NewOutput : AddOutput(o)
  \/ \E b \in Blocks : SetBlocks(b)
  \/ \E b \in Relative, n \in DOMAIN tx.ins : SetRelative(b, n)
  \/ \E t \in Other : Merge(t)

Spec == Init /\ [][Next]_wire

-----------------------------------------------------------------------------
(* calc_weight_units(): the witnesses of all inputs are taken off.          *)
TokenSize(t) ==
  CASE t.f = "byte" -> 1
    [] t.f = "txid" -> 32
    [] t.f = "value" -> 8
    [] t.f = "item" -> t.v[1].n
    [] t.f = "script" -> IF t.v[1].k = "lock" THEN t.v[1].n ELSE ScriptSize(t.v)
    [] OTHER -> 4
Size(s) == FoldLeft(LAMBDA n, t : n + TokenSize(t), 0, s)

WitnessData(t) == Flat([x \in DOMAIN t.ins |-> WitnessOf(t.ins[x])])
Weight(t) == 4 * Size(Raw(t, 0)) - (IF t.segwit THEN 6 + 3 * Size(WitnessData(t)) ELSE 0)

-----------------------------------------------------------------------------
(* "Any modification after signing makes the transaction invalid": verify() *)
(* accepts only signatures of what the transaction is now, and none of      *)
(* another input.                                                           *)
SignsAll ==
  /\ \A n \in DOMAIN tx.ins :
       LET sig == tx.ins[n].sig
       IN  sig # Nothing /\ Valid(sig, tx, n) => Content(sig.of, sig.by) = Content(tx, n)
  /\ \A m, n \in DOMAIN tx.ins : m # n => Digest(tx, m) # Digest(tx, n)

(* A script type of an input that is read means the one it was made with.   *)
SameType(read, type) == read = type \/ (read = "p2sh_p2wpkh" /\ type = "sig_pubkey")

Same(i, g) ==
  /\ SameType(g.type, i.type)
  /\ <<g.op, g.seq, g.wit, g.unlocking>> = <<i.op, i.seq, i.wit, Unlocking(i)>>
  /\ Signed(i) /\ i.shown \in {Nothing, i.sig} => g.sigs = [x \in 1..i.required |-> i.sig]
  /\ i.wit # "legacy" => g.witnesses = Witnesses(i)

(* What is received is what was sent: all of it, with its inputs of their   *)
(* type and with their signatures, so that it verifies there as well; but   *)
(* for an input of one signature that was signed again, see Replaced.       *)
Received ==
  got # Nothing =>
    /\ <<got.version, got.locktime, got.segwit, got.outs, got.left>>
         = <<tx.version, tx.locktime, tx.segwit, tx.outs, 0>>
    /\ Len(got.ins) = Len(tx.ins)
    /\ \A n \in DOMAIN tx.ins : Same(tx.ins[n], got.ins[n])

(* "Replace signature with new one if already signed": what is received has *)
(* the last signature of every input.                                       *)
Replaced ==
  got # Nothing =>
    \A n \in DOMAIN tx.ins :
      Signed(tx.ins[n]) => got.ins[n].sigs = [x \in 1..tx.ins[n].required |-> tx.ins[n].sig]

(* Fees are paid by weight: four units a byte, one for those of witnesses.  *)
(* Without legacy inputs among others.                                      *)
WeightRight ==
  (tx.segwit => \A i \in Range(tx.ins) : i.wit # "legacy") =>
    Weight(tx) = 3 * Size(Raw([tx EXCEPT !.segwit = FALSE], 0)) + Size(Raw(tx, 0))

(* "Zero means no locktime." *)
Unlocked ==
  asked = 0 => tx.locktime = 0 \/ \A i \in Range(tx.ins) : i.seq = Final
=============================================================================
