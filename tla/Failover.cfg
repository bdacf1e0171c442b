CONSTANTS
  node = node
  dead = dead
  p1 = p1
  p2 = p2
  p3 = p3
  Provider = {node, dead, p1, p2, p3}
  Priority <- MCPriority
  Unusable = {dead}
  IgnorePriority = FALSE
  MinProviders = 2
  MaxProviders = 2
  MaxErrors = 2
SPECIFICATION Spec
CHECK_DEADLOCK FALSE
INVARIANTS BestAnswer GivenUpLate
