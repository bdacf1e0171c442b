----------------------------- MODULE MCFormats ------------------------------
(* Scripts, transactions, keys and other things that are written and read.  *)
(* A behaviour picks one of the cases of "which"; the variables of the      *)
(* others stay as they are:                                                 *)
(*   "evaluate"  a script is evaluated                                      *)
(*   "script"    a script is made, serialized and parsed                    *)
(*   "wire"      a transaction is changed, signed, sent and received        *)
(*   "keys"      keys are derived, written down and read                    *)
(*   "encodings" phrases, signatures and addresses are written and read     *)
(*   "block"     a block is read in parts                                   *)
EXTENDS ScriptVM, TLC

CONSTANT Cases  \* those of the run

VARIABLES which, made, raw, parsed, tx, asked, sent, got, key, trail, long,
          item, text, back, block, read, txs, height, listed, rewritten, singles, status

codes == <<made, raw, parsed>>
hd == <<key, trail, long>>
onPaper == <<item, text, back>>
pages == <<block, read, txs, height, listed, rewritten, singles, status>>

-----------------------------------------------------------------------------
(* Programs: all short ones of conditions, nested conditions, two operations*)
(* on a stack of numbers, signatures of several keys, hashes and locktimes. *)
Num(n) == Push(Encode(n))
Pushes(q) == [x \in DOMAIN q |-> Push(q[x])]

Flow == {Num(0), Num(1), Op("if"), Op("notif"), Op("else"), Op("endif"), Op("drop")}
Flows == UNION {[1..k -> Flow] : k \in 1..5}

Nests ==
  {<<a, f, b, g>> \o x \o <<Op("else")>> \o y \o <<Op("endif"), Op("else")>> \o z \o <<Op("endif")>> :
     a \in {Num(0), Num(1)}, b \in {Num(0), Num(1)}, f \in {Op("if"), Op("notif")},
     g \in {Op("if"), Op("notif")}, x \in {<<>>, <<Num(1)>>}, y \in {<<>>, <<Num(1)>>},
     z \in {<<Num(2)>>, <<Op("return")>>}}

Six == <<Num(2), Num(0), Num(-1), Num(127), Num(3), Num(255)>>
Operations == (ShuffleOps \ {"2swap", "pick", "roll", "tuck"}) \cup UnaryOps \cup (BinaryOps \ {"sub"})
         \cup {"verify", "equal", "equalverify", "numequalverify", "nop", "return", "codeseparator"}
Stacks == {SubSeq(Six, 7 - k, 6) : k \in 0..6}
Pairs(S, ops) == {s \o <<Op(a), Op(b)>> : s \in S, a \in ops, b \in ops}

(* Sums of Large are no numbers any more: op_numequalverify does not mind.  *)
Large == <<Num(32767), Num(32767)>>
OnNumbers == Pairs(Stacks, Operations) \cup Pairs({Large}, Operations \ {"numequalverify"})
MCUnequal == {Large \o <<Op(a), Op("numequalverify")>> : a \in {"1add", "negate", "nop"}}

P2sh(redeem) == <<Op("hash160"), Push(Hashed(redeem)), Op("equal")>>
Signatures == UNION {[1..m -> {Signature(1), Signature(2), Signature(3), Forged(1)}] : m \in 0..3}
Multisigs ==
  {<<Num(0)>> \o Pushes(s) \o <<Num(m)>> \o Pushes([k \in 1..3 |-> PublicKey(k)])
     \o <<Num(3), Op("checkmultisig")>> \o e :
       s \in Signatures, m \in 1..3, e \in {<<>>, P2sh(Redeem), P2sh(Signature(9))}}

Unlocking == {Signature(1), Forged(1), Signature(2), PublicKey(1), PublicKey(2), <<1>>}
P2pkhs ==
  {Pushes(a) \o <<Op("dup"), Op("hash160"), Push(Hashed(PublicKey(1))), Op("equalverify"),
                  Op("checksig")>> : a \in [1..2 -> Unlocking]}

MCLocks == {<<Num(n), Op("checklocktimeverify")>> \o r :
            n \in {-1, 1, 49, 50, 51, 99, 100, 101, 150}, r \in {<<>>, <<Op("drop"), Num(1)>>}}

MCProgram == Flows \cup Nests \cup OnNumbers \cup Multisigs \cup P2pkhs \cup MCLocks

-----------------------------------------------------------------------------
(* SCRIPT_TYPES of config.py, as far as a script can be made of them.       *)
Item(kind, n) == [k |-> kind, n |-> n, sub |-> <<>>]
O(n) == Item("op", n)
AData == Item("data", 0)
ASig == Item("signature", 0)
AKey == Item("key", 0)
ANumber == Item("op_n", 0)

PayToHash == <<O(118), O(169), AData, O(136), O(172)>>
PayToMany == <<ANumber, AKey, ANumber, O(174)>>

Row(name, locking, items, lengths) ==
  name :> [locking |-> locking, items |-> items, lengths |-> lengths]

MCType ==
  <<"p2pkh", "p2pkh_drop", "p2sh", "p2wpkh", "p2wsh", "p2tr", "multisig", "p2pk", "nulldata",
    "nulldata_1", "nulldata_2", "sig_pubkey", "p2sh_multisig", "multisig_redeemscript",
    "p2tr_unlock", "p2sh_p2wpkh", "p2sh_p2wsh", "signature", "signature_multisig",
    "nonstandard_0001">>

MCTemplate ==
  Row("p2pkh", TRUE, PayToHash, <<20>>)
  @@ Row("p2pkh_drop", TRUE, <<AData, O(117)>> \o PayToHash, <<32, 20>>)
  @@ Row("p2sh", TRUE, <<O(169), AData, O(135)>>, <<20>>)
  @@ Row("p2wpkh", TRUE, <<O(0), AData>>, <<20>>)
  @@ Row("p2wsh", TRUE, <<O(0), AData>>, <<32>>)
  @@ Row("p2tr", TRUE, <<ANumber, AData>>, <<32>>)
  @@ Row("multisig", TRUE, PayToMany, <<>>)
  @@ Row("p2pk", TRUE, <<AKey, O(172)>>, <<>>)
  @@ Row("nulldata", TRUE, <<O(106), AData>>, <<0>>)
  @@ Row("nulldata_1", TRUE, <<O(106), O(0)>>, <<>>)
  @@ Row("nulldata_2", TRUE, <<O(106)>>, <<>>)
  @@ Row("sig_pubkey", FALSE, <<ASig, AKey>>, <<>>)
  @@ Row("p2sh_multisig", FALSE, <<O(0), ASig, Item("redeemscript", 0)>>, <<>>)
  @@ Row("multisig_redeemscript", FALSE, PayToMany, <<>>)
  @@ Row("p2tr_unlock", FALSE, <<AData>>, <<64>>)
  @@ Row("p2sh_p2wpkh", FALSE, <<O(0), AData>>, <<20>>)
  @@ Row("p2sh_p2wsh", FALSE, <<O(0), AData>>, <<32>>)
  @@ Row("signature", FALSE, <<ASig>>, <<>>)
  @@ Row("signature_multisig", FALSE, <<O(0), ASig>>, <<>>)
  @@ Row("nonstandard_0001", FALSE, <<O(0)>>, <<>>)

(* What Script() is called with: hashes, messages of up to 80 bytes, up to  *)
(* 16 keys, redeem scripts of up to 15.                                     *)
Call0(t, h) == [type |-> t, hash |-> h, sigs |-> 1, keys |-> 1, required |-> 1, redeem |-> <<>>]

MCRequest ==
  {Call0(t, 20) : t \in {"p2pkh", "p2sh", "p2wpkh", "p2sh_p2wpkh"}}
  \cup {Call0(t, 32) : t \in {"p2wsh", "p2tr", "p2sh_p2wsh", "p2pkh_drop"}}
  \cup {Call0("p2tr_unlock", 64)}
  \cup {Call0("nulldata", n) : n \in 1..80}
  \cup {Call0(t, 0) : t \in {"p2pk", "sig_pubkey", "signature", "nulldata_1", "nulldata_2"}}
  \cup {[Call0("signature_multisig", 0) EXCEPT !.sigs = m] : m \in 1..3}
  \cup {[Call0("multisig", 0) EXCEPT !.required = m, !.keys = n] : m \in 1..3, n \in 3..16}
  \cup {[Call0("p2sh_multisig", 0) EXCEPT !.sigs = m,
           !.redeem = <<O(80 + m)>> \o [x \in 1..n |-> Item("key", 33)] \o <<O(80 + n), O(174)>>] :
             m \in 1..3, n \in 1..15}

C == INSTANCE ScriptCode WITH
       Type <- MCType, Template <- MCTemplate, Request <- MCRequest, Filler <- 97

-----------------------------------------------------------------------------
(* Transactions of an input of each type, alone or with a second one that   *)
(* can be signed, or not.  Outputs of 25, 253 and about 65536 bytes.        *)
In(op, t, wit) ==
  [op |-> op, type |-> t, wit |-> wit, seq |-> 16, sig |-> [version |-> 0], shown |-> [version |-> 0], own |-> TRUE, index |-> 1,
   value |-> 7, required |-> IF t = "p2sh_multisig" THEN 2 ELSE 1, fixed |-> <<>>]
Fixed(op, t, wit, part) == [In(op, t, wit) EXCEPT !.fixed = part, !.own = FALSE]
Tx1(ins, segwit) ==
  [version |-> 1, locktime |-> 0, segwit |-> segwit, outs |-> <<[value |-> 5, size |-> 25]>>,
   ins |-> [n \in DOMAIN ins |-> [ins[n] EXCEPT !.index = n]]]

Kinds1 ==
  {In(1, t, w) : t \in {"sig_pubkey", "p2sh_multisig"}, w \in {"legacy", "segwit", "p2sh-segwit"}}
  \cup {In(1, "signature", "legacy")}
Coinbase == Fixed(0, "coinbase", "legacy", <<[k |-> "other", v |-> 0, n |-> 40]>>)
Given1 ==
  {Fixed(1, "nonstandard_0001", "legacy", <<[k |-> "zero", v |-> 0, n |-> 1]>>),
   Fixed(1, "p2tr", "segwit", <<[k |-> "sig64", v |-> 0, n |-> 64]>>)}
MCStart ==
  {Tx1(<<i>>, i.wit # "legacy") : i \in Kinds1 \cup Given1 \cup {Coinbase}}
  \cup {Tx1(<<i, In(2, "sig_pubkey", "segwit")>>, TRUE) : i \in Kinds1 \cup Given1}
  \cup {Tx1(<<i, [In(2, "sig_pubkey", "legacy") EXCEPT !.own = FALSE]>>, TRUE) : i \in Kinds1}
  \cup {[Tx1(<<In(1, "sig_pubkey", "segwit")>>, TRUE) EXCEPT !.outs[1].size = n] : n \in 65534..65536}
MCOther ==
  {Tx1(<<In(2, "sig_pubkey", "legacy")>>, FALSE), Tx1(<<In(3, "p2sh_multisig", "p2sh-segwit")>>, TRUE)}

W == INSTANCE TransactionWire WITH
       Start <- MCStart, Other <- MCOther, NewOutput <- {[value |-> 3, size |-> 253]},
       Blocks <- {0, 5}, Relative <- {0, 3}, MaxInputs <- 2, MaxOutputs <- 2

-----------------------------------------------------------------------------
(* Some of networks.json: networks that share all prefixes, some of them,   *)
(* that have one prefix for several types, or none for some types.          *)
Rows(w, private, single, multi) ==
  LET type(m) == IF w = "legacy" THEN (IF m THEN "p2sh" ELSE "p2pkh")
                   ELSE IF w = "segwit" THEN (IF m THEN "p2wsh" ELSE "p2wpkh")
                   ELSE (IF m THEN "p2sh_p2wsh" ELSE "p2sh_p2wpkh")
  IN  <<<<single, private, FALSE, w, type(FALSE)>>, <<multi, private, TRUE, w, type(TRUE)>>>>
Xkeys == Rows("legacy", FALSE, "xpub", "xpub") \o Rows("legacy", TRUE, "xprv", "xprv")
YZkeys ==
  Rows("p2sh-segwit", FALSE, "ypub", "Ypub") \o Rows("p2sh-segwit", TRUE, "yprv", "Yprv")
    \o Rows("segwit", FALSE, "zpub", "Zpub") \o Rows("segwit", TRUE, "zprv", "Zprv")
Ltkeys ==
  Rows("legacy", FALSE, "Ltub", "Ltub") \o Rows("legacy", TRUE, "Ltpv", "Ltpv")
    \o Rows("p2sh-segwit", FALSE, "Mtub", "Mtub") \o Rows("p2sh-segwit", TRUE, "Mtpv", "Mtpv")
    \o Rows("segwit", FALSE, "Mtub", "Mtub") \o Rows("segwit", TRUE, "Mtpv", "Mtpv")

MCNetworks == <<"bitcoin", "regtest", "litecoin", "litecoin_legacy", "dogecoin">>
MCPrefixesWif ==
  ("bitcoin" :> Xkeys \o YZkeys) @@ ("regtest" :> Xkeys \o YZkeys)
  @@ ("litecoin" :> Ltkeys) @@ ("litecoin_legacy" :> Ltkeys) @@ ("dogecoin" :> Xkeys)
MCCoin == ("bitcoin" :> 0) @@ ("regtest" :> 0) @@ ("litecoin" :> 2) @@ ("litecoin_legacy" :> 2)
          @@ ("dogecoin" :> 3)
Step(n, hard) == [name |-> "", n |-> n, hard |-> hard]

K == INSTANCE KeyDerivation WITH
       Network <- MCNetworks, PrefixesWif <- MCPrefixesWif, Coin <- MCCoin, asked <- long,
       Start <- {"bitcoin", "litecoin"} \X {"legacy", "p2sh-segwit", "segwit"} \X BOOLEAN,
       Path <- {<<Step(0, FALSE)>>, <<Step(1, TRUE), Step(0, FALSE)>>},
       Ends <- {<<2, 1>>, <<4, 7>>}, MaxDepth <- 4

-----------------------------------------------------------------------------
(* Numbers of n bytes that begin with k zeros. *)
Filled(n, k, b, f) == [x \in 1..n |-> IF x <= k THEN 0 ELSE IF x = k + 1 THEN b ELSE f]

MCEntropy ==
  UNION {{Filled(n, k, b, f) : k \in 0..n - 1, b \in {1, 7, 16, 127, 254}, f \in {0, 37, 255}} :
           n \in {4, 8, 16, 20, 24, 28, 32}}

MCDigest(e) ==
  LET n == FoldLeft(LAMBDA a, b : (a * 3 + b) % 251, Len(e), e)
  IN  [x \in 1..32 |-> (n \div 2 ^ (x % 8)) % 2]

E == INSTANCE Encodings WITH
       Entropy <- MCEntropy, Digest <- MCDigest,
       Number <- {Filled(32, k, b, 200) : k \in {0, 1, 2, 5, 6, 12}, b \in {1, 48, 127, 128, 254}},
       HashType <- {1, 131},
       Witness <- [version : {0, 1, 2, 16},
                   hash : {Filled(n, k, b, 83) : n \in {2, 3, 4, 5, 10, 19, 20, 31, 32, 33, 39, 40},
                                                 k \in {0, 1}, b \in {0, 1, 255}}]

-----------------------------------------------------------------------------
(* Blocks of heights of one to three bytes, also short ones and long ones.  *)
B == INSTANCE Blocks WITH
       raw <- block, written <- rewritten,
       Counts <- {1, 3, 4}, Heights <- {16, 300, 227836, 8388607}, Limits <- {0, 1, 2}

-----------------------------------------------------------------------------
MCInit ==
  /\ which \in Cases
  /\ IF which = "evaluate" THEN Init ELSE script = <<>> /\ commands = <<>> /\ stack = <<>> /\ verdict = "none"
  /\ IF which = "script" THEN C!Init ELSE made = <<>> /\ raw = <<>> /\ parsed = C!Nothing
  /\ IF which = "wire" THEN W!Init ELSE tx = <<>> /\ asked = 0 /\ sent = <<>> /\ got = W!Nothing
  /\ IF which = "keys" THEN K!Init ELSE key = K!Nothing /\ trail = <<>> /\ long = FALSE
  /\ IF which = "encodings" THEN E!Init ELSE item = <<>> /\ text = <<>> /\ back = <<>>
  /\ IF which = "block" THEN B!Init
     ELSE block = <<>> /\ read = 0 /\ txs = <<>> /\ height = 0 /\ listed = <<>> /\ rewritten = <<>>
          /\ singles = 0 /\ status = "none"

wired == <<tx, asked, sent, got>>

MCNext ==
  \/ which = "evaluate" /\ Next /\ UNCHANGED <<which, codes, wired, hd, onPaper, pages>>
  \/ which = "script" /\ C!Next /\ UNCHANGED <<which, machine, wired, hd, onPaper, pages>>
  \/ which = "wire" /\ W!Next /\ UNCHANGED <<which, machine, codes, hd, onPaper, pages>>
  \/ which = "keys" /\ K!Next /\ UNCHANGED <<which, machine, codes, wired, onPaper, pages>>
  \/ which = "encodings" /\ E!Next /\ UNCHANGED <<which, machine, codes, wired, hd, pages>>
  \/ which = "block" /\ B!Next /\ UNCHANGED <<which, machine, codes, wired, hd, onPaper>>

MCSpec == MCInit /\ [][MCNext]_<<which, machine, codes, wired, hd, onPaper, pages>>

-----------------------------------------------------------------------------
(* See ScriptVM. *)
Evaluated == which = "evaluate" => MeansTheSame

(* See ScriptCode: scripts are read as they were written, as their type.    *)
ScriptKept == which = "script" => C!RoundTrip /\ C!TypeKept

(* See TransactionWire: what a signature commits to. *)
SignsAll == which = "wire" => W!SignsAll

(* See TransactionWire, and Blocks: transactions are read as they were sent,*)
(* alone and in blocks.                                                     *)
TransactionKept ==
  /\ which = "wire" => W!Received /\ W!WeightRight
  /\ which = "block" => B!BlockRight

(* See TransactionWire; not kept by the code: the signature of a second     *)
(* sign() is not sent.                                                      *)
Replaced == which = "wire" => W!Replaced

(* See TransactionWire; not kept by the code: "no locktime" leaves one.     *)
Unlocked == which = "wire" => W!Unlocked

(* See KeyDerivation. *)
KeysAsDerived == which = "keys" => K!AsDerived /\ K!WatchOnly

(* Keys, phrases, signatures and addresses are read as they were written.   *)
ReadBack ==
  /\ which = "keys" => K!WifKept /\ K!ReadAsWritten /\ K!AddressTyped
  /\ which = "encodings" => E!RoundTrip
=============================================================================
