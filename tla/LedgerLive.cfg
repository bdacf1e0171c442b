CONSTANTS
  f = f
  g = g
  s = s
  r = r
  x = x
  Tx = {f, s}
  NoTx = NoTx
  Coin = {"f1", "f2", "s3"}
  NKeys = 3
  Creator <- MCCreator
  Owner <- MCOwner
  Spends <- MCSpends
  Ancestor <- MCAncestor
  Dust = {"f2"}
  Bumps = {}
  Shared = TRUE
  SingleKey = TRUE
  Deletes = FALSE
  Aborts = FALSE
  Lag = FALSE
SPECIFICATION FairSpec
INVARIANTS NothingSkipped StoredKeysUsed
PROPERTIES ConfirmedIsStored SpentInTheEnd
