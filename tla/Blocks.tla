------------------------------- MODULE Blocks -------------------------------
(***************************************************************************)
(* A raw block that is read bit by bit (blocks.py): transactions become    *)
(* objects at once or page by page, or dictionaries, all from one stream   *)
(* with one position; with the height that its coinbase tells.             *)
(***************************************************************************)
EXTENDS Integers, Sequences

CONSTANTS
  Counts,   \* numbers of transactions in a header
  Heights,  \* of blocks
  Limits    \* what limit may be, 0 for all

VARIABLES
  raw,        \* the block: count, transactions that are there, height, and that the caller tells
  read,       \* position in txs_data: transactions before it
  txs,        \* Block.transactions: number in the block, and index
  height,     \* Block.height
  listed,     \* parse_transactions_dict(): numbers and indexes
  written,    \* serialize(): numbers
  singles,    \* calls of parse_transaction_dict()
  status      \* "new", "open", "refused" (an exception of parse)

vars == <<raw, read, txs, height, listed, written, singles, status>>

-----------------------------------------------------------------------------
NoIndex == -1
NoHeight == -1
LowerOf(a, b) == IF a < b THEN a ELSE b

(* Transactions that follow position r, n of them. *)
Following(r, n, index(_)) == [x \in 1..n |-> [tx |-> r + x, index |-> index(x)]]

(* The script of a coinbase: the height as a number of script, then others. *)
HeightBytes(h) == IF h < 128 THEN 1 ELSE IF h < 32768 THEN 2 ELSE IF h < 8388608 THEN 3 ELSE 4
Byte(h, n) == (h \div 256 ^ n) % 256
HeightScript(h) ==
  IF h <= 16 THEN <<80 + h, 7, 7, 7>>
  ELSE <<HeightBytes(h)>> \o [n \in 1..HeightBytes(h) |-> Byte(h, n - 1)] \o <<7, 7, 7>>

(* unlocking_script[1:4] *)
CalcHeight(script) == script[2] + 256 * script[3] + 65536 * script[4]

(* 227835, the last block without a height in its coinbase. *)
LastWithout == 227835

-----------------------------------------------------------------------------
(* parse(); the coinbase is read if any transaction is.                     *)
Parse(all, limit) ==
  LET n == IF ~all THEN 0 ELSE IF limit = 0 THEN raw.present ELSE LowerOf(limit, raw.present)
      calc == CalcHeight(HeightScript(raw.height))
      wrong == n > 0 /\ raw.given \notin {NoHeight, 0} /\ calc # raw.given /\ raw.given > LastWithout
  IN  /\ status = "new"
      /\ IF (all /\ limit = 0 /\ n # raw.count) \/ wrong
         THEN status' = "refused" /\ UNCHANGED <<read, txs, height>>
         ELSE /\ status' = "open"
              /\ read' = n
              /\ txs' = Following(0, n, LAMBDA x : x - 1)
              /\ height' = IF n > 0 THEN calc ELSE raw.given
      /\ UNCHANGED <<raw, listed, written, singles>>

(* parse_transactions(), parse_transaction(): up to the count of the header,*)
(* with an exception at the end of the data.                                *)
ParseMore(limit) ==
  LET left == IF raw.count > Len(txs) THEN raw.count - Len(txs) ELSE 0
      n == LowerOf(IF limit = 0 THEN left ELSE LowerOf(limit, left), raw.present - read)
  IN  /\ status = "open"
      /\ read' = read + n
      /\ txs' = txs \o Following(read, n, LAMBDA x : NoIndex)
      /\ UNCHANGED <<raw, height, listed, written, singles, status>>

(* parse_transaction_dict(): the transaction is not kept. *)
ParseDict ==
  /\ status = "open" /\ Len(txs) < raw.count /\ read < raw.present
  /\ read' = read + 1
  /\ singles' = singles + 1
  /\ UNCHANGED <<raw, txs, height, listed, written, status>>

(* parse_transactions_dict(): all that follow; then the position is put *)
(* back.                                                                    *)
ParseDicts ==
  /\ status = "open"
  /\ listed' = IF Len(txs) < raw.count THEN Following(read, raw.present - read, LAMBDA x : x - 1) ELSE <<>>
  /\ UNCHANGED <<raw, read, txs, height, written, singles, status>>

(* serialize(), which needs all transactions. *)
Serialize ==
  /\ status = "open" /\ Len(txs) = raw.count /\ txs # <<>>
  /\ written' = [x \in DOMAIN txs |-> txs[x].tx]
  /\ UNCHANGED <<raw, read, txs, height, listed, singles, status>>

Init ==
  /\ \E n \in Counts, more \in {-1, 0, 1}, h \in Heights, told \in {-1, 0, 1} :
       raw = [count |-> n, present |-> n + more, height |-> h,
              given |-> IF told = -1 THEN NoHeight ELSE h + told]
  /\ read = 0 /\ txs = <<>> /\ height = NoHeight /\ listed = <<>> /\ written = <<>>
  /\ singles = 0 /\ status = "new"

Next ==
  \/ \E all \in BOOLEAN, limit \in Limits : Parse(all, limit)
  \/ \E limit \in Limits : ParseMore(limit)
  \/ ParseDict \/ ParseDicts \/ Serialize

-----------------------------------------------------------------------------
(* However the calls are mixed, the objects are the transactions of the     *)
(* block in their order, and nothing is passed over but by reading a single *)
(* dictionary.                                                              *)
ObjectsInOrder ==
  /\ read = Len(txs) + singles
  /\ singles = 0 => \A x \in DOMAIN txs : txs[x].tx = x

(* Dictionaries are listed from the first transaction that is not an object *)
(* to the last one, with their places in the block if there is no object.   *)
ListedRight ==
  listed # <<>> =>
    /\ \A x \in DOMAIN listed : listed[x].tx = listed[1].tx + x - 1
    /\ listed[Len(listed)].tx = raw.present
    /\ listed[1].tx = 1 => \A x \in DOMAIN listed : listed[x].index = x - 1

(* A block that is complete is written as it was, or not at all.            *)
WrittenWhole == written # <<>> /\ raw.present = raw.count => written = [x \in 1..raw.count |-> x]

(* When parse() reads transactions, the height of a block that has one in   *)
(* its coinbase is known, and another one is refused.                       *)
HeightRight ==
  txs # <<>> /\ txs[1].index = 0 /\ raw.height > LastWithout => height = raw.height

BlockRight == ObjectsInOrder /\ ListedRight /\ WrittenWhole /\ HeightRight
=============================================================================
