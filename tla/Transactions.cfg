SPECIFICATION MCSpec
CONSTANTS
  c1 = c1
  c2 = c2
  c3 = c3
  k1 = k1
  k2 = k2
  k3 = k3
  alice = alice
  bob = bob
  carol = carol
  NoKey = NoKey
  Party <- Cosigners
  NInputs = 2
  KeyList <- MultiKeys
  Required <- MultiRequired
  Private <- PrivateKeys
  Creator = alice
  Given <- MultiGiven
  Versions = 1
  AsDict = FALSE
  Directly = FALSE
  Coin = {c1, c2, c3}
  Values = {20, 45, 130, 330}
  Age <- Ages
  Payments = {25, 150}
  GivenFees = {6, 90}
  Rates = {20, 500}
  MaxUtxos = {0, 2}
  ChangeCounts = {0, 2}
  BumpFees = {30, 60}
  MaxChange = 3
  Parts = 3
  Dust = 20
  FeeMin = 20
  FeeMax = 20000
  Kilobyte = 20
  OutputBytes = 1
  SizeBase = 1
  SizeAssumed = 3
  SizeInput = 3
  SizeChange = 1
  SweepBase = 3
  SweepInput = 3
  SweepCost = 2
  BumpOutput = 2
  IgnoreDust = TRUE
SYMMETRY Symmetric
INVARIANTS Balanced SelectsFewest FeeWithin
  InKeyOrder VerifiedSound BumpedSound
PROPERTIES BumpPays SignsTogether
CHECK_DEADLOCK FALSE
