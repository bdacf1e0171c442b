SPECIFICATION Spec
CONSTANTS
  c1 = c1
  c2 = c2
  Client = {c1}
  NTx = 3
  Limit = 3
  MaxTip = 4
  Spender <- SpentByThird
  OneEach = TRUE
  Slow = FALSE
  Lag = FALSE
  Flaws = FALSE
  Foreign = FALSE
  Singles = TRUE
  Utxos = FALSE
INVARIANTS NothingMissing
CHECK_DEADLOCK FALSE
