CONSTANTS
  Cases = {"evaluate", "script", "wire", "keys", "encodings", "block"}
  Program <- MCProgram
  NumBytes = 2
  Threshold = 100
  RuleThreshold = 1000
  Sequence = "open"
  Locktime = 50
SPECIFICATION MCSpec
INVARIANTS Evaluated ScriptKept SignsAll TransactionKept KeysAsDerived ReadBack
CHECK_DEADLOCK FALSE
