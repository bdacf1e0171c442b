----------------------------- MODULE Encodings ------------------------------
(***************************************************************************)
(* Things that are written down and read again: mnemonic phrases           *)
(* (mnemonic.py), signatures (keys.py) and bech32 addresses, with the      *)
(* conversions of encoding.py they are made with.  An item is written in   *)
(* one step and read in the next.                                          *)
(***************************************************************************)
EXTENDS Integers, Sequences, SequencesExt

CONSTANTS
  Entropy,    \* sequences of bytes
  Digest(_),  \* the bits of sha256 of one
  Number,     \* sequences of 32 bytes: r and s of signatures
  HashType,   \* bytes
  Witness     \* witness programs: version and hash

VARIABLES item, text, back

vars == <<item, text, back>>

Nothing == <<>>
Refused == <<-1>>  \* an exception

-----------------------------------------------------------------------------
Least(a, b) == IF a < b THEN a ELSE b

Bits(q, w) ==
  [x \in 1..Len(q) * w |-> (q[(x - 1) \div w + 1] \div 2 ^ (w - 1 - ((x - 1) % w))) % 2]

Digits(b, w) ==
  [x \in 1..Len(b) \div w |->
     FoldLeft(LAMBDA n, bit : 2 * n + bit, 0, SubSeq(b, (x - 1) * w + 1, x * w))]

Leading(q) ==
  LET n == SelectInSeq(q, LAMBDA d : d # 0) IN IF n = 0 THEN Len(q) ELSE n - 1

Strip(q) == SubSeq(q, Leading(q) + 1, Len(q))

ZeroDigits(n) == [x \in 1..n |-> 0]

Fill(q, n) == IF Len(q) < n THEN ZeroDigits(n - Len(q)) \o q ELSE q

Ceiling(a, b) == (a + b - 1) \div b

(* The number without leading zeros, in digits of w bits. *)
Regroup(b, w) == LET s == Strip(b) IN Digits(Fill(s, Ceiling(Len(s), w) * w), w)

(* Leading zeros of the input are counted in its digits, but of a list only *)
(* the first, and converted; one counts for one.  Text gets none beyond its *)
(* expected length.                                                         *)
ZerosAdded(q, from, to, kind, out) ==
  LET counted == IF kind = "list" THEN Least(Leading(q), 1) ELSE Leading(q)
      zeros == IF counted = 1 THEN 1 ELSE (counted * from) \div to
  IN  IF kind = "text" /\ ((Len(q) * from) % to) = 0
        THEN Least(zeros, (Len(q) * from) \div to - Len(out))
        ELSE zeros

(* Between bases that are powers of two, 2^from and 2^to. *)
ChangeBase(q, from, to, least, kind) ==
  LET out == Regroup(Bits(q, from), to)
  IN  Fill(ZeroDigits(ZerosAdded(q, from, to, kind, out)) \o out, least)

-----------------------------------------------------------------------------
(* Bits of a word: lists have 2048. *)
Word == 11

Checksum(ent) == SubSeq(Digest(ent), 1, (Len(ent) * 8) \div 32)

(* Without a checksum the least number of words comes out as 1. *)
ToMnemonic(ent, sum) ==
  IF sum THEN ChangeBase(Bits(ent, 8) \o Checksum(ent), 1, Word, 0, "text")
  ELSE Fill(Regroup(Bits(ent, 8), Word), 1)

ToEntropy(words, sum) ==
  LET size == (Len(words) * 4) \div 3
      ent == ChangeBase(words, Word, 8, size, "list")
      bits == ChangeBase(ent, 8, 1, Len(ent) * 4, "bytes")
      cut == Len(bits) - Ceiling(Len(bits), 3 * Word)
      found == ChangeBase(SubSeq(bits, 1, cut), 1, 8, size, "text")
  IN  IF ~sum THEN ent
      ELSE IF SubSeq(bits, cut + 1, Len(bits)) # Checksum(found) THEN Refused ELSE found

-----------------------------------------------------------------------------
Signed(q) == LET s == Strip(q) IN IF s[1] >= 128 THEN <<0>> \o s ELSE s

DerInt(q) == <<2, Len(Signed(q))>> \o Signed(q)

(* as_der_encoded(): with the hash type. *)
DerEncode(sig) ==
  LET body == DerInt(sig.r) \o DerInt(sig.s)
  IN  <<48, Len(body)>> \o body \o <<sig.hash>>

(* Slip: an integer keeps the length it was written with. *)
UnpackedShort(q, x) ==
  IF x + 1 > Len(q) \/ q[x] # 2 \/ x + 1 + q[x + 1] > Len(q) THEN Refused
  ELSE Strip(SubSeq(q, x + 2, x + 1 + q[x + 1]))

(* An integer of at most 32 bytes at position x, or refused.                *)
Unpacked(q, x) ==
  IF x + 1 > Len(q) \/ q[x] # 2 \/ x + 1 + q[x + 1] > Len(q) THEN Refused
  ELSE LET n == Strip(SubSeq(q, x + 2, x + 1 + q[x + 1]))
       IN  IF Len(n) > 32 THEN Refused ELSE Fill(n, 32)

DerDecode(q) ==
  IF q[1] # 48 \/ Len(q) \notin {q[2] + 2, q[2] + 3} THEN Refused
  ELSE LET p == SubSeq(q, 1, q[2] + 2)
           r == Unpacked(p, 3)
           y == 5 + p[4]
           s == Unpacked(p, y)
       IN  IF r = Refused \/ s = Refused \/ y + 2 + p[y + 1] # Len(p) + 1 THEN Refused
           ELSE r \o s

(* DER with a hash type when it is long enough, else r and s as they are.   *)
ParseBytes(q) ==
  LET der == Len(q) > 64 /\ q[1] = 48
      rs == IF der THEN DerDecode(SubSeq(q, 1, Len(q) - 1)) ELSE q
  IN  IF rs = Refused \/ Len(rs) # 64 THEN Refused
      ELSE rs \o <<IF der THEN q[Len(q)] ELSE 1>>

-----------------------------------------------------------------------------
ScriptForm(p) == <<IF p.version = 0 THEN 0 ELSE p.version + 80, Len(p.hash)>> \o p.hash

ConvertBits(q, from, to, pad) ==
  LET b == Bits(q, from)
      rest == Len(b) % to
      padded == b \o (IF pad /\ rest > 0 THEN ZeroDigits(to - rest) ELSE <<>>)
  IN  IF ~pad /\ (rest >= from \/ \E x \in Len(b) - rest + 1..Len(b) : b[x] # 0) THEN Refused
      ELSE Digits(padded, to)

(* 0 stands for that of bech32, 1 for that of bech32m. *)
ChecksumOf(version) == IF version = 0 THEN 0 ELSE 1

(* A program of 20, 32 or 40 bytes is taken for a hash, of another length   *)
(* for a version and a length before the hash.                              *)
ToBech32(q, witver) ==
  LET plain == Len(q) \in {20, 32, 40}
      version == IF plain \/ q[1] = 0 THEN witver ELSE q[1] - 80
      hash == IF plain THEN q ELSE SubSeq(q, 3, Len(q))
  IN  IF (~plain /\ q[2] # Len(hash)) \/ version > 16 THEN Refused
      ELSE <<version>> \o ConvertBits(hash, 8, 5, TRUE) \o <<ChecksumOf(version)>>

(* include_witver *)
FromBech32(a) ==
  LET version == a[1]
      hash == ConvertBits(SubSeq(a, 2, Len(a) - 1), 5, 8, FALSE)
  IN  IF \/ a[Len(a)] # ChecksumOf(version)
         \/ hash = Refused \/ Len(hash) \notin 2..40 \/ version > 16
         \/ (version = 0 /\ Len(hash) \notin {20, 32})
      THEN Refused
      ELSE <<IF version = 0 THEN 0 ELSE version + 80, Len(hash)>> \o hash

-----------------------------------------------------------------------------
Items ==
  [kind : {"mnemonic"}, entropy : Entropy, sum : BOOLEAN]
  \cup [kind : {"der", "raw"}, r : Number, s : Number, hash : HashType]
  \cup {i \in [kind : {"program"}, program : Witness, script : BOOLEAN] :
           i.script \/ Len(i.program.hash) \in {20, 32, 40}}

Init == item \in Items /\ text = Nothing /\ back = Nothing

Write ==
  /\ text = Nothing
  /\ text' = CASE item.kind = "mnemonic" -> ToMnemonic(item.entropy, item.sum)
               [] item.kind = "der" -> DerEncode(item)
               [] item.kind = "raw" -> item.r \o item.s
               [] item.kind = "program" ->
                    ToBech32(IF item.script THEN ScriptForm(item.program) ELSE item.program.hash,
                             item.program.version)
  /\ UNCHANGED <<item, back>>

Read ==
  /\ text # Nothing
  /\ back = Nothing
  /\ back' = CASE item.kind = "mnemonic" -> ToEntropy(text, item.sum)
               [] item.kind \in {"der", "raw"} -> ParseBytes(text)
               [] item.kind = "program" -> IF text = Refused THEN Refused ELSE FromBech32(text)
  /\ UNCHANGED <<item, text>>

Next == Write \/ Read

-----------------------------------------------------------------------------
(* A phrase gives its entropy back, with all leading zeros if it has a      *)
(* checksum.                                                                *)
EntropyKept ==
  item.kind = "mnemonic" /\ back # Nothing =>
    IF item.sum THEN back = item.entropy ELSE Strip(back) = Strip(item.entropy)

(* A signature is read as it was written, in either form; DER that is       *)
(* shorter than r and s is refused (of the same length, taken for them).    *)
SignatureKept ==
  /\ item.kind = "raw" /\ back # Nothing => SubSeq(back, 1, 64) = item.r \o item.s
  /\ item.kind = "der" /\ back # Nothing /\ Len(text) # 64 =>
       IF Len(text) < 64 THEN back = Refused
       ELSE back = item.r \o item.s \o <<item.hash>>

(* An address leads to the program it was made of; version 0 has programs   *)
(* of 20 and 32 bytes only.                                                 *)
ProgramKept ==
  item.kind = "program" /\ back # Nothing =>
    IF item.program.version = 0 /\ Len(item.program.hash) \notin {20, 32} THEN back = Refused
    ELSE back = ScriptForm(item.program)

RoundTrip == EntropyKept /\ SignatureKept /\ ProgramKept
=============================================================================
