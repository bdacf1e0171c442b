CONSTANTS
  f = f
  g = g
  s = s
  r = r
  x = x
  Tx = {f, s}
  NoTx = NoTx
  Coin = {"f1", "s3"}
  NKeys = 3
  Creator <- MCCreator
  Owner <- MCOwner
  Spends <- MCSpends
  Ancestor <- MCAncestor
  Dust = {}
  Bumps = {}
  Shared = FALSE
  SingleKey = FALSE
  Deletes = FALSE
  Aborts = TRUE
  Lag = FALSE
SPECIFICATION Spec
INVARIANTS NothingSkipped
