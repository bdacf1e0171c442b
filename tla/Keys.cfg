CONSTANTS
  s1 = s1
  s2 = s2
  hd = hd
  single = single
  multi = multi
  cosigner0 = cosigner0
  cosigner1 = cosigner1
  t1 = t1
  t2 = t2
  t3 = t3
  NoWallet = NoWallet
  Cosigner <- MCCosigner
  SortKeys = FALSE
  Txid = {t1, t3}
  Pays <- MCPays
  Deleted <- MCDeleted
  Session = {s1, s2}
  Scanner = {s1}
  Account = {0, 1}
  MaxIndex = 3
  MaxPaid = 1
  MaxAsk = 3
  Gap = 2
  Tx = {t1, t2}
  Emptied = {hd, cosigner1}
  Program = {"a", "b"}
  Key = {"k1", "k2"}
  Inputs <- MCInputs
  Outputs <- MCOutputs
  NoKey = "none"
SPECIFICATION MCSpec
INVARIANTS ChainsInOrder AnswerComplete NoDangling Remembered OneScript StoredWhole
PROPERTIES AnswerAfterUsed GapScanned ScanEnds OthersKept
CHECK_DEADLOCK FALSE
