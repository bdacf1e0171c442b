----------------------------- MODULE ScriptCode -----------------------------
(***************************************************************************)
(* Scripts as bytes (scripts.py): Script() from a script type, serialize(),*)
(* parse_bytesio() and the recognition of script types.                    *)
(*                                                                         *)
(* A command is an opcode or data.  Of data only the length and the first  *)
(* byte count, so that other bytes are Filler.                             *)
(***************************************************************************)
EXTENDS Integers, Sequences, FiniteSets, SequencesExt, FiniteSetsExt

CONSTANTS
  Type,      \* names of script types, in the order of SCRIPT_TYPES
  Template,  \* [names -> [locking : BOOLEAN, items : Seq(item), lengths : Seq(Nat)]]
  Request,   \* what Script() is called with: see Create
  Filler     \* any byte that no rule looks at

VARIABLES
  made,    \* the request and the commands Script() made of it
  raw,     \* the serialized script
  parsed   \* what parse_bytes() made of raw

code == <<made, raw, parsed>>

-----------------------------------------------------------------------------
(* Items of scripts, blueprints and templates.                              *)
Op(n) == [k |-> "op", n |-> n, sub |-> <<>>]
Data(n) == [k |-> "data", n |-> n, sub |-> <<>>]
Sig == [k |-> "signature", n |-> 71, sub |-> <<>>]
Key == [k |-> "key", n |-> 33, sub |-> <<>>]
Other(n) == [k |-> "other", n |-> n, sub |-> <<>>]
Sub(items) == [k |-> "redeemscript", n |-> 0, sub |-> items]
AnyData == [k |-> "data", n |-> 0, sub |-> <<>>]
AnySig == [k |-> "signature", n |-> 0, sub |-> <<>>]
AnyKey == [k |-> "key", n |-> 0, sub |-> <<>>]
OpN == [k |-> "op_n", n |-> 0, sub |-> <<>>]
AnySub == [k |-> "redeemscript", n |-> 0, sub |-> <<>>]
OpReturn == 106

(* get_data_type() of data with this first byte. *)
DataType(first, n) ==
  IF first = 48 /\ n \in 69..74 THEN "signature"
  ELSE IF (first \in {2, 3} /\ n = 33) \/ (first = 4 /\ n = 65) THEN "key"
  ELSE IF n \in {20, 32, 64} \cup 1..4 THEN "data" ELSE "other"

FirstByte(item) ==
  CASE item.k = "signature" -> 48
    [] item.k = "key" -> 2
    [] OTHER -> Filler

(* Slip: the second form up to 256 bytes. *)
PrefixLate(n) ==
  IF n <= 76 THEN <<n>> ELSE IF n <= 255 THEN <<76, n>> ELSE <<77, n % 256, n \div 256>>

(* data_pack() *)
Prefix(n) ==
  IF n <= 75 THEN <<n>> ELSE IF n <= 255 THEN <<76, n>> ELSE <<77, n % 256, n \div 256>>

Flat(seqs) == FoldLeft(LAMBDA a, b : a \o b, <<>>, seqs)

Plain(item) ==
  IF item.k = "op" THEN <<item.n>>
  ELSE Prefix(item.n) \o <<FirstByte(item)>> \o [x \in 1..(item.n - 1) |-> Filler]

(* serialize(): a redeem script is data, the bytes of its own items.        *)
Serialized(items) ==
  LET bytes(item) ==
        LET inner == Flat([x \in DOMAIN item.sub |-> Plain(item.sub[x])])
        IN  IF item.k = "redeemscript" THEN Prefix(Len(inner)) \o inner ELSE Plain(item)
  IN  Flat([x \in DOMAIN items |-> bytes(items[x])])

-----------------------------------------------------------------------------
(* _get_script_types(): the blueprint in general terms.                     *)
General(item) ==
  CASE item.k = "op" /\ item.n \in 81..96 -> OpN
    [] item.k \in {"data", "other"} -> AnyData
    [] item.k = "signature" -> AnySig
    [] item.k = "key" -> AnyKey
    [] item.k = "redeemscript" -> AnySub
    [] OTHER -> item

(* Slip: signatures are not joined. *)
GeneralizedApart(bp) == [x \in DOMAIN bp |-> General(bp[x])]

(* Keys, and signatures, that follow each other are one.                    *)
Generalized(bp) ==
  LET g == [x \in DOMAIN bp |-> General(bp[x])]
      step(q, item) == IF q # <<>> /\ Last(q) = item /\ item \in {AnyKey, AnySig} THEN q ELSE Append(q, item)
  IN  FoldLeft(step, <<>>, g)

Lengths(bp) == LET d == SelectSeq(bp, LAMBDA i : i.k \in {"data", "other"})
               IN  [x \in DOMAIN d |-> d[x].n]

Candidates(locking) ==
  SelectSeq(Type, LAMBDA t : locking = "any" \/ (locking = "yes") = Template[t].locking)

Fits(t, bp) ==
  Len(Template[t].items) <= Len(bp) /\ SubSeq(bp, 1, Len(Template[t].items)) = Template[t].items

(* The last match with the length of its data, or the first one.  The       *)
(* lengths are those of the first data of the script, for every part of it. *)
Choice(matches, lens) ==
  LET good == {x \in DOMAIN matches : \E i \in DOMAIN Template[matches[x]].lengths :
                 Template[matches[x]].lengths[i] \in {lens[i], 0}}
  IN  matches[IF good = {} THEN 1 ELSE Max(good)]

(* One script type after the other is taken from the front. *)
Named(types, t) ==
  IF t \in {"multisig", "multisig_redeemscript"} /\ types # <<>> /\ Last(types) = "signature_multisig"
  THEN Append(Front(types), "p2sh_multisig") ELSE Append(types, t)

Parts(bp, lens, locking) ==
  LET f[n \in 0..Len(bp)] ==   \* the types of the last n items, as steps to be taken
        LET rest == SubSeq(bp, Len(bp) - n + 1, Len(bp))
            matches == SelectSeq(Candidates(locking), LAMBDA t : Fits(t, rest))
        IN  IF n = 0 THEN <<>>
            ELSE IF matches = <<>> THEN <<"unknown">>
            ELSE LET t == Choice(matches, lens)
                 IN  <<t>> \o f[n - Len(Template[t].items)]
  IN  FoldLeft(Named, <<>>, f[Len(bp)])

Exact(g, locking) == SelectSeq(Candidates(locking), LAMBDA t : Template[t].items = g)
KnownParts(parts) == IF "unknown" \in Range(parts) THEN <<"unknown">> ELSE parts

TypesOf(g, lens, locking) ==
  IF Len(Exact(g, locking)) = 1 THEN Exact(g, locking) ELSE KnownParts(Parts(g, lens, locking))

Types(bp, locking) == TypesOf(Generalized(bp), Lengths(bp), locking)

-----------------------------------------------------------------------------
(* parse_bytesio().  The header of the command at x: its length, and the    *)
(* length of the data that follow, 0 for an opcode.                         *)
ByteAt(r, x) == IF x <= Len(r) THEN r[x] ELSE 0

Header(r, x) ==
  CASE r[x] \in 1..75 -> <<1, r[x]>>
    [] r[x] = 76 -> <<2, ByteAt(r, x + 1)>>
    [] r[x] = 77 -> <<3, ByteAt(r, x + 1) + 256 * ByteAt(r, x + 2)>>
    [] OTHER -> <<1, 0>>

Malformed == [k |-> "malformed", n |-> 0, sub |-> <<>>]

(* The commands of r, data with what follows their header. *)
Commands(r) ==
  LET f[x \in 1..(Len(r) + 1)] ==
        IF x = Len(r) + 1 THEN <<>>
        ELSE LET h == Header(r, x)
                 next == x + h[1] + h[2]
             IN  IF next > Len(r) + 1 THEN <<Malformed>>
                 ELSE <<IF h[2] = 0 THEN Op(r[x])
                        ELSE [Other(h[2]) EXCEPT !.sub = SubSeq(r, x + h[1], next - 1)]>> \o f[next]
  IN  f[1]

(* Data are typed; after op_return they are data, others may be scripts.    *)
Typed(cs, x) ==
  LET c == cs[x]
      type == DataType(c.sub[1], c.n)
  IN  IF c.k # "other" THEN c
      ELSE IF type # "other" THEN [c EXCEPT !.k = type, !.sub = <<>>]
      ELSE IF x > 1 /\ cs[x - 1] = Op(OpReturn) THEN Other(c.n)
      ELSE [c EXCEPT !.k = "script"]

(* A script that looks like one signature, one key or 64 bytes of data is   *)
(* taken to be just that.                                                   *)
Alone(r) ==
  r # <<>> /\ (DataType(r[1], Len(r)) \in {"signature", "key"} \/ Len(r) = 64)

Items(r) ==
  IF Alone(r) THEN <<[Other(Len(r)) EXCEPT !.k = DataType(r[1], Len(r))]>>
  ELSE LET cs == Commands(r) IN [x \in DOMAIN cs |-> Typed(cs, x)]

(* What may be a script is one, one level deep, unless it is malformed.     *)
InnerOf(items, n) ==
  IF Malformed \in Range(items) THEN Other(n)
  ELSE Sub([x \in DOMAIN items |->
              IF items[x].k = "script" THEN Other(items[x].n) ELSE items[x]])

WithInner(items) ==
  [x \in DOMAIN items |->
     IF items[x].k = "script" THEN InnerOf(Items(items[x].sub), Len(items[x].sub)) ELSE items[x]]

(* A script that is all there is takes the place of the one it was in.      *)
Unwrapped(all) == IF Len(all) = 1 /\ all[1].k = "redeemscript" THEN all[1].sub ELSE all

Parsed(r) == Unwrapped(WithInner(Items(r)))

-----------------------------------------------------------------------------
(* Script(): the items of the template, replaced by what the caller gives:  *)
(* the number of keys, sigs_required, a hash, signatures, a redeem script.  *)
Replaced(item, q, counts) ==
  CASE item = AnyData -> <<[Data(q.hash) EXCEPT !.k = DataType(Filler, q.hash)]>>
    [] item = AnySig -> [x \in 1..q.sigs |-> Sig]
    [] item = AnyKey -> [x \in 1..q.keys |-> Key]
    [] item = OpN -> <<Op(80 + counts)>>
    [] item = AnySub -> <<Sub(q.redeem)>>
    [] OTHER -> <<item>>

(* sig_n_and_m.pop(): sigs_required first, then the number of keys.         *)
Built(q) ==
  LET t == Template[q.type].items
      first(x) == \A y \in 1..(x - 1) : t[y] # OpN
  IN  Flat([x \in DOMAIN t |-> Replaced(t[x], q, IF first(x) THEN q.required ELSE q.keys)])

Nothing == [items |-> <<>>, types |-> <<>>]

Init ==
  /\ \E q \in Request : made = [request |-> q, items |-> Built(q)]
  /\ raw = <<>> /\ parsed = Nothing

(* serialize() *)
Serialize ==
  /\ raw = <<>>
  /\ raw' = Serialized(made.items)
  /\ UNCHANGED <<made, parsed>>

(* A multisig script with too many signatures, or the wrong number of keys, *)
(* is refused.                                                              *)
Refused(items, types) ==
  /\ Head(types) = "multisig"
  /\ LET keys == Len(SelectSeq(items, LAMBDA i : i.k = "key"))
     IN  Head(items).n - 80 > keys \/ items[Len(items) - 1].n - 80 # keys

Recognised(items, types) ==
  [items |-> items, types |-> IF Refused(items, types) THEN <<"refused">> ELSE types]

(* parse_bytes() of a locking or an unlocking script. *)
Read(items) ==
  Recognised(items, Types(items, IF Template[made.request.type].locking THEN "yes" ELSE "no"))

Parse ==
  /\ raw # <<>> /\ parsed = Nothing
  /\ parsed' = Read(Parsed(raw))
  /\ UNCHANGED <<made, raw>>

Next == Serialize \/ Parse

Spec == Init /\ [][Next]_code

-----------------------------------------------------------------------------
(* A script that is stored, or sent, as bytes is the same when it is read   *)
(* again, whatever its parts; unless it looks like one part alone.          *)
RoundTrip == parsed # Nothing /\ ~Alone(raw) => parsed.items = made.items

(* A script made for a type is recognised as that type.                     *)
TypeKept ==
  parsed # Nothing /\ (Alone(raw) => Len(made.items) = 1) => parsed.types = <<made.request.type>>
=============================================================================
