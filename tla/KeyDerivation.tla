---------------------------- MODULE KeyDerivation ----------------------------
(***************************************************************************)
(* Hierarchical keys (keys.py, HDKey): deriving private and public children*)
(* along paths, extended keys that are written down and read back, and the *)
(* addresses of a key.                                                     *)
(*                                                                         *)
(* A secret is the sum of the hashes it was derived with: a set of them.   *)
(* Its public key is the same set, as the point of a sum is the sum of the *)
(* points.  A hash stands for what was hashed.                             *)
(***************************************************************************)
EXTENDS Integers, Sequences, FiniteSets, SequencesExt

CONSTANTS
  Network,   \* NETWORK_DEFINITIONS: names in the order of networks.json
  PrefixesWif, \* prefixes_wif of each: rows <<prefix, is_private, multisig, witness type, script type>>
  Coin,      \* bip44_cointype of each
  Start,     \* arguments <<network, witness type, multisig>> of new master keys
  Path,      \* paths to derive: sequences of items
  Ends,      \* first and last bytes that keys may have
  MaxDepth   \* bound on the depth of keys

Hardened == 1000    \* 0x80000000
Networks == Range(Network)
Witness == {"legacy", "p2sh-segwit", "segwit"}
Nothing == [depth |-> -1]   \* an exception is raised

VARIABLES
  key,    \* HDKey
  trail,  \* the items it was derived with, from the master key
  asked   \* whether the uncompressed address of a key was asked for

keyvars == <<key, trail, asked>>

-----------------------------------------------------------------------------
(* Templates and types of main.py and config.py.                            *)
ScriptTypeDefault(w, multisig, locking) ==
  CASE w = "p2sh-segwit" -> IF locking THEN "p2sh" ELSE IF multisig THEN "p2sh_p2wsh" ELSE "p2sh_p2wpkh"
    [] ~locking -> IF multisig THEN "p2sh_multisig" ELSE "sig_pubkey"
    [] w = "legacy" -> IF multisig THEN "p2sh" ELSE "p2pkh"
    [] OTHER -> IF multisig THEN "p2wsh" ELSE "p2wpkh"

Encoding(w) == IF w = "segwit" THEN "bech32" ELSE "base58"

(* An item of a path or a template: a number or the name of one. *)
Item(name, n, hard) == [name |-> name, n |-> n, hard |-> hard]
N(n) == Item("", n, FALSE)
H(n) == Item("", n, TRUE)
Var(name) == Item(name, 0, FALSE)
VarH(name) == Item(name, 0, TRUE)
Leaf == <<Var("change"), Var("address_index")>>

Purpose(w, multisig) ==
  CASE w = "legacy" -> IF multisig THEN 45 ELSE 44
    [] multisig -> 48
    [] OTHER -> IF w = "segwit" THEN 84 ELSE 49

Template(w, multisig) ==
  IF multisig /\ w = "legacy" THEN <<VarH("purpose"), Var("cosigner_index")>> \o Leaf
  ELSE <<VarH("purpose"), VarH("coin_type"), VarH("account")>>
         \o (IF multisig THEN <<VarH("script_type")>> ELSE <<>>) \o Leaf

(* path_expand(): a path that does not start with m is completed from the   *)
(* left; an item is hardened if it says so, or the template at its place.   *)
Expand(path, full, template, value) ==
  LET new == IF full THEN path ELSE SubSeq(template, 1, Len(template) - Len(path)) \o path
  IN  [x \in DOMAIN new |->
         Item("", IF new[x].name = "" THEN new[x].n ELSE value[new[x].name],
              new[x].hard \/ template[x].hard)]

Values(w, multisig, net, account, change, index) ==
  [purpose |-> Purpose(w, multisig), coin_type |-> Coin[net], account |-> account,
   script_type |-> IF w = "p2sh-segwit" THEN 1 ELSE 2, cosigner_index |-> 0,
   change |-> change, address_index |-> index]

-----------------------------------------------------------------------------
(* HDKey() *)
New(node, private, net, w, multisig, encoding, ends) ==
  [secret |-> node.secret, chain |-> node.chain, depth |-> node.depth, parent |-> node.parent,
   index |-> node.index, private |-> private, network |-> net, witness |-> w, multisig |-> multisig,
   encoding |-> encoding, script |-> ScriptTypeDefault(w, multisig, FALSE),
   compressed |-> TRUE, hashed |-> "not yet", ends |-> ends]

Node(secret, chain, depth, parent, index) ==
  [secret |-> secret, chain |-> chain, depth |-> depth, parent |-> parent, index |-> index]
NodeOf(k) == Node(k.secret, k.chain, k.depth, k.parent, k.index)
Seed == <<>>
Root == Node({Seed}, Seed, 0, <<>>, 0)

(* fingerprint: of the public key in the form it is hashed with first. *)
Form(k) == IF k.hashed # "not yet" THEN k.hashed ELSE IF k.compressed THEN "short" ELSE "long"
Fingerprint(k) == <<k.secret, Form(k)>>

Hashed(k, what, index) == <<k.chain, what, k.secret, index>>

Child(k, hash, private, index) ==
  New(Node(k.secret \cup {hash}, hash, k.depth + 1, Fingerprint(k), index), private, k.network,
      k.witness, k.multisig, k.encoding, k.ends)

(* Slip: the private key of a child is hashed with its own index only. *)
ChildPrivateKeyed(k, i, hard) ==
  LET index == IF hard THEN i + Hardened ELSE i
  IN  Child(k, Hashed(k, "private", index), TRUE, index)

ChildPrivate(k, i, hard) ==
  LET index == IF hard THEN i + Hardened ELSE i
  IN  Child(k, Hashed(k, IF hard THEN "private" ELSE "public", index), TRUE, index)

ChildPublic(k, i) ==
  IF i > Hardened THEN Nothing ELSE Child(k, Hashed(k, "public", i), FALSE, i)

Public(k) == [k EXCEPT !.private = FALSE]

(* key_for_path(): path M starts with a public child; of a public key a     *)
(* hardened item is derived as one that is not.                             *)
KeyForPath(k, path, first_public) ==
  FoldLeft(LAMBDA a, x :
             IF a = Nothing THEN Nothing
             ELSE IF (first_public /\ x = 1) \/ ~a.private THEN ChildPublic(a, path[x].n)
             ELSE ChildPrivate(a, path[x].n, path[x].hard),
           k, [x \in DOMAIN path |-> x])

(* public_master(): the arguments stay with the key. *)
Retyped(k, multisig, w) == [k EXCEPT !.multisig = @ \/ multisig, !.witness = w]

MasterPath(k, account) ==
  LET t == Template(k.witness, k.multisig)
      depth == CHOOSE d \in DOMAIN t : t[d].hard /\ \A e \in DOMAIN t : t[e].hard => e <= d
  IN  Expand(SubSeq(t, 1, depth), TRUE, t, Values(k.witness, k.multisig, k.network, account, 0, 0))

PublicMaster(k, account, as_private) ==
  LET m == KeyForPath(k, MasterPath(k, account), FALSE)
  IN  IF as_private THEN m ELSE Public(m)

-----------------------------------------------------------------------------
(* Extended keys as text.  Network.wif_prefix() *)
WifPrefix(net, private, w, multisig) ==
  LET locking == ScriptTypeDefault(w, multisig, TRUE)
      script == IF locking = "p2sh" /\ w # "legacy"
                THEN (IF multisig THEN "p2sh_p2wsh" ELSE "p2sh_p2wpkh") ELSE locking
      rows == SelectSeq(PrefixesWif[net], LAMBDA r : r[2] = private /\ r[5] = script)
  IN  IF rows = <<>> THEN "none" ELSE rows[1][1]

Wif(k, as_private) ==
  LET private == k.private /\ as_private
      prefix == WifPrefix(k.network, private, k.witness, k.multisig)
  IN  IF prefix = "none" THEN Nothing
      ELSE [prefix |-> prefix, node |-> NodeOf(k), depth |-> k.depth, private |-> private, ends |-> k.ends]

(* wif_prefix_search(): all rows, in the order of the networks. *)
Search(prefix, net, multisig) ==
  LET rows(n) == SelectSeq(PrefixesWif[n], LAMBDA r : r[1] = prefix /\ r[3] \in multisig)
  IN  FoldLeft(LAMBDA q, n : q \o [x \in DOMAIN rows(n) |-> <<n, rows(n)[x]>>],
               <<>>, SelectSeq(Network, LAMBDA n : net \in {"any", n}))

(* HDKey.from_wif(): what the first of them says. *)
FromWif(w, net, multisig) ==
  LET m == Search(w.prefix, net, multisig)
      first == m[1][2]
  IN  IF m = <<>> THEN Nothing
      ELSE New(w.node, w.private, m[1][1], first[4], first[3], Encoding(first[4]), w.ends)

(* get_key_format() and check_network_and_key(): what all of them say.      *)
Only(S, other) == IF Cardinality(S) = 1 THEN CHOOSE v \in S : TRUE ELSE other

ImportNetwork(net, found) ==
  CASE net # "any" -> IF net \in found THEN net ELSE "none"
    [] Cardinality(found) = 1 -> CHOOSE n \in found : TRUE
    [] "bitcoin" \in found -> "bitcoin"
    [] OTHER -> IF "testnet" \in found THEN "testnet" ELSE "none"

(* HDKey(wif, network) *)
Import(w, net) ==
  LET m == Range(Search(w.prefix, "any", BOOLEAN))
      network == ImportNetwork(net, {r[1] : r \in m})
      witness == Only({r[2][4] : r \in m}, "segwit")
      multisig == Only({r[2][3] : r \in m}, FALSE)
      k == New(w.node, w.private, network, witness, multisig, Encoding(witness), w.ends)
  IN  IF m = {} \/ network = "none" THEN Nothing
      ELSE [k EXCEPT !.script = Only({r[2][5] : r \in m}, @)]

Ways == {"import", "from_wif", "from_wif single", "from_wif multisig"}
Read(w, how, net) ==
  CASE how = "import" -> Import(w, net)
    [] how = "from_wif" -> FromWif(w, net, BOOLEAN)
    [] OTHER -> FromWif(w, net, {how = "from_wif multisig"})

-----------------------------------------------------------------------------
(* Keys as bytes, hexadecimals, or text with a prefix, a marker of          *)
(* compressed ones and a checksum.                                          *)
Text(form, len, head, tail) == [form |-> form, len |-> len, head |-> head, tail |-> tail]
Pub(form, long) == Text(form, IF form = "hex" THEN (IF long THEN 130 ELSE 66) ELSE IF long THEN 65 ELSE 33,
                        IF long THEN 4 ELSE 2, 7)
Secret(k, form) == Text(form, IF form = "hex" THEN 64 ELSE 32, k.ends[1], k.ends[2])
WifKey(k, compressed) == Text("wif", IF compressed THEN 52 ELSE 51, 128, IF compressed THEN 1 ELSE k.ends[2])

(* get_key_format(): the first that fits, without is_private.               *)
Bytes33(t) == t.form = "bytes" /\ t.len \in {33, 65}
Hex(t, n) == t.form = "hex" /\ t.len = n
GetKeyFormat(t) ==
  CASE Bytes33(t) /\ t.head \in {2, 3} -> <<"bin_compressed", FALSE>>
    [] Bytes33(t) /\ t.head = 4 -> <<"bin", FALSE>>
    [] Bytes33(t) /\ t.len = 33 /\ t.tail = 1 -> <<"bin_compressed", TRUE>>
    [] t.form = "bytes" /\ t.len = 32 -> <<"bin", TRUE>>
    [] Hex(t, 130) /\ t.head = 4 -> <<"public_uncompressed", FALSE>>
    [] Hex(t, 66) /\ t.head \in {2, 3} -> <<"public", FALSE>>
    [] Hex(t, 64) -> <<"hex", TRUE>>
    [] Hex(t, 66) /\ t.tail = 1 -> <<"hex_compressed", TRUE>>
    [] t.form = "wif" -> <<IF t.tail = 1 THEN "wif_compressed" ELSE "wif", TRUE>>
    [] OTHER -> <<"none", FALSE>>

(* Key(): private keys that are read have 32 bytes, and this form.          *)
KeyLength(t) ==
  CASE t.form = "hex" -> t.len \div 2 - (IF GetKeyFormat(t)[1] = "hex_compressed" THEN 1 ELSE 0)
    [] t.form = "wif" -> t.len - 19 - (IF t.tail = 1 THEN 1 ELSE 0)
    [] OTHER -> t.len - (IF GetKeyFormat(t)[1] = "bin_compressed" THEN 1 ELSE 0)

-----------------------------------------------------------------------------
(* Key.address() and Address(): how the key is hashed, and to what address. *)
AddressOf(k) ==
  LET wrapped == k.encoding = "base58" /\ k.script \in {"p2sh_p2wpkh", "p2sh_p2wsh"}
      sha256 == \/ k.encoding = "bech32" /\ k.script \in {"p2sh", "p2sh_multisig", "p2tr"}
                \/ k.script \in {"p2wsh", "p2sh_p2wsh"}
      p2sh == wrapped \/ k.script \in {"p2sh", "p2sh_multisig"}
  IN  [of |-> k.secret, form |-> IF k.compressed THEN "short" ELSE "long", encoding |-> k.encoding,
       hash |-> IF wrapped THEN (IF sha256 THEN "hash160 of sha256" ELSE "hash160 of hash160")
                ELSE IF sha256 THEN "sha256" ELSE "hash160",
       prefix |-> IF k.encoding = "bech32" THEN "bech32" ELSE IF p2sh THEN "p2sh" ELSE "p2pkh",
       network |-> k.network]

(* deserialize_address(): the type is that of the prefix, or the length.    *)
Deserialized(a) ==
  CASE a.prefix = "p2pkh" -> "p2pkh"
    [] a.prefix = "p2sh" -> "p2sh"
    [] a.hash = "hash160" -> "p2wpkh"
    [] OTHER -> "p2wsh"

-----------------------------------------------------------------------------
Known(t) == key' = t /\ t # Nothing

(* A hardened item of a public key is derived as one that is not. *)
Taken(path, first_public) ==
  [x \in DOMAIN path |-> [path[x] EXCEPT !.hard = @ /\ key.private /\ ~first_public]]

Derive(path, first_public) ==
  /\ key.depth + Len(path) <= MaxDepth
  /\ Known(KeyForPath(key, path, first_public))
  /\ trail' = trail \o Taken(path, first_public)
  /\ UNCHANGED asked

MakePublic == Known(Public(key)) /\ UNCHANGED <<trail, asked>>

(* The public master key, or the key it was asked of. *)
DerivePublicMaster(account, multisig, w, as_private) ==
  LET k == Retyped(key, multisig, w)
  IN  /\ key.private /\ key.depth = 0
      /\ \/ /\ Known(PublicMaster(k, account, as_private))
            /\ trail' = trail \o MasterPath(k, account)
         \/ Known(k) /\ UNCHANGED trail
      /\ UNCHANGED asked

(* A key is written down, and read elsewhere.                               *)
Exchange(as_private, how, net) ==
  LET w == Wif(key, as_private)
  IN  /\ w # Nothing
      /\ Known(Read(w, how, net))
      /\ UNCHANGED <<trail, asked>>

NetworkChange(net) == Known([key EXCEPT !.network = net]) /\ UNCHANGED <<trail, asked>>

(* fingerprint, or hash160 *)
Hash160 == Known([key EXCEPT !.hashed = Form(key)]) /\ UNCHANGED <<trail, asked>>

(* address_uncompressed(): the key is an uncompressed one from now on.      *)
AddressUncompressed ==
  /\ key.encoding = "base58"
  /\ Known([key EXCEPT !.compressed = FALSE])
  /\ asked' = TRUE
  /\ UNCHANGED trail

Init ==
  /\ \E s \in Start, e \in Ends : key = New(Root, TRUE, s[1], s[2], s[3], Encoding(s[2]), e)
  /\ trail = <<>> /\ asked = FALSE

Next ==
  \/ \E p \in Path, first_public \in BOOLEAN : Derive(p, first_public)
  \/ MakePublic
  \/ \E account \in {0, 1}, multisig, as_private \in BOOLEAN, w \in Witness :
       DerivePublicMaster(account, multisig, w, as_private)
  \/ \E as_private \in BOOLEAN, how \in Ways, net \in {"any", key.network} :
       Exchange(as_private, how, net)
  \/ \E net \in Networks : NetworkChange(net)
  \/ Hash160
  \/ AddressUncompressed

Spec == Init /\ [][Next]_keyvars

-----------------------------------------------------------------------------
(* BIP32 by its definition, all of it with private keys.                    *)
Reference(q) ==
  FoldLeft(LAMBDA a, item :
             LET index == item.n + (IF item.hard THEN Hardened ELSE 0)
                 hash == <<a.chain, IF item.hard THEN "private" ELSE "public", a.secret, index>>
             IN  Node(a.secret \cup {hash}, hash, a.depth + 1, <<a.secret, "short">>, index),
           Root, q)

(* Whatever way a key was derived, through private or public keys, and      *)
(* written down and read in between, it is the one of its path, as in every *)
(* other wallet.  Its parent is named by another fingerprint once addresses *)
(* of uncompressed keys were asked for.                                     *)
AsDerived ==
  LET r == Reference(trail)
  IN  /\ [NodeOf(key) EXCEPT !.parent = r.parent] = r
      /\ ~asked => key.parent = r.parent

(* "A public master key can be used to create readonly wallets": its keys   *)
(* are those of the wallet with the private key, at the paths the wallet    *)
(* expands.                                                                 *)
WatchOnly ==
  key.private /\ key.depth = 0 =>
    \A account, change, index \in {0, 1} :
      LET t == Template(key.witness, key.multisig)
          path == Expand(<<N(change), N(index)>>, FALSE, t,
                         Values(key.witness, key.multisig, key.network, account, change, index))
          master == PublicMaster(key, account, FALSE)
      IN  NodeOf(KeyForPath(master, SubSeq(path, master.depth + 1, Len(path)), FALSE))
            = NodeOf(KeyForPath(key, path, FALSE))

(* An extended key that is written down is read as the same, by both ways to*)
(* read it: the same key, on the network it was on if that is given, of the *)
(* same kind unless its network has the prefix for another kind too, and    *)
(* with the same address, unless public_master() has changed its kind or its*)
(* uncompressed address was asked for.                                      *)
Kinds(w, net) ==
  {<<r[4], r[3]>> : r \in {s \in Range(PrefixesWif[net]) : s[1] = w.prefix}}

Regular(k) ==
  AddressOf(k) = AddressOf(New(NodeOf(k), k.private, k.network, k.witness, k.multisig, Encoding(k.witness), k.ends))

SameKey(k, net, private) ==
  /\ k # Nothing
  /\ NodeOf(k) = NodeOf(key) /\ k.network = net /\ k.private = private

WifKept ==
  \A as_private \in BOOLEAN :
    LET w == Wif(key, as_private)
        private == key.private /\ as_private
    IN  w # Nothing =>
          \A how \in {"import", "from_wif",
                      IF key.multisig THEN "from_wif multisig" ELSE "from_wif single"} :
            LET k == Read(w, how, key.network)
            IN  /\ SameKey(k, key.network, private)
                /\ Cardinality(Kinds(w, key.network)) = 1 =>
                     <<k.witness, k.multisig>> = <<key.witness, key.multisig>>
                /\ <<k.witness, k.multisig>> = <<key.witness, key.multisig>> /\ Regular(key) =>
                     AddressOf(k) = AddressOf(key)

(* A key that is written as text or bytes is read as what it is, private or *)
(* public, with all of its bytes.  Not so an uncompressed private key whose *)
(* last byte is 1.                                                          *)
ReadAsWritten ==
  /\ \A form \in {"hex", "bytes"}, long \in BOOLEAN : ~GetKeyFormat(Pub(form, long))[2]
  /\ \A form \in {"hex", "bytes"} :
       GetKeyFormat(Secret(key, form))[2] /\ KeyLength(Secret(key, form)) = 32
  /\ \A c \in BOOLEAN : c \/ key.ends[2] # 1 => KeyLength(WifKey(key, c)) = 32

(* From the address of a key the type of its locking script is read.        *)
AddressTyped ==
  Regular(key) => Deserialized(AddressOf(key)) = ScriptTypeDefault(key.witness, key.multisig, TRUE)
=============================================================================
