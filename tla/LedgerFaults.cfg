CONSTANTS
  f = f
  g = g
  s = s
  r = r
  x = x
  Tx = {f, s, r}
  NoTx = NoTx
  Coin = {"f1", "s3"}
  NKeys = 3
  Creator <- MCCreator
  Owner <- MCOwner
  Spends <- MCSpends
  Ancestor <- MCAncestor
  Dust = {}
  Bumps <- MCBumps
  Shared = FALSE
  SingleKey = FALSE
  Deletes = TRUE
  Aborts = TRUE
  Lag = TRUE
SPECIFICATION RescanSpec
INVARIANTS TypeOK
PROPERTIES FundsReturn
