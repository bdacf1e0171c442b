CONSTANTS
  f = f
  g = g
  s = s
  r = r
  x = x
  Tx = {f, s, r, x}
  NoTx = NoTx
  Coin = {"f1", "s3", "r3"}
  NKeys = 3
  Creator <- MCCreator
  Owner <- MCOwner
  Spends <- MCSpends
  Ancestor <- MCAncestor
  Dust = {}
  Bumps = {}
  Shared = FALSE
  SingleKey = TRUE
  Deletes = FALSE
  Aborts = TRUE
  Lag = FALSE
SPECIFICATION Spec
INVARIANTS SpentWhenStored
PROPERTIES SpendsOnce
