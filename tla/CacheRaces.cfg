SPECIFICATION MCSpec
CONSTANTS
  Cases = {"clients"}
  c1 = c1
  c2 = c2
  Client = {c1, c2}
  NTx = 3
  Limit = 2
  MaxTip = 3
  Spender <- SpentByThird
  OneEach = TRUE
  Slow = TRUE
  Lag = FALSE
  Flaws = FALSE
  Foreign = FALSE
  Singles = FALSE
  Utxos = FALSE
  MaxBest = 3
  Service = {"s1", "s2"}
  Queries = {"count", "balance", "block", "fee"}
  Wrong = FALSE
  Fail = TRUE
  Value <- BalanceOf
  AddressLists <- AddressesOf
  PerRequest = 2
  Size <- SizeOf
  Pages <- PagesOf
  Cap = 3
  Bare <- WithoutData
  Listed <- OthersOf
  Fees = {0, 1, 15, 50}
  FeeMin = 10
  FeeMax = 20
  FeeDefault = 12
SYMMETRY Symmetric
CHECK_DEADLOCK FALSE
INVARIANTS InOrder CacheIsPrefix
