SPECIFICATION Spec
CONSTANTS
  Item = {i1}
  Malformed = {}
  Worker = {w1}
  BatchSize = 2
  MaxAttempts = 2
  TTL = 1
  NoItem = NoItem
  MaxTrouble = 0
SYMMETRY Symmetry
INVARIANTS
  FailedIsDeadLettered
CHECK_DEADLOCK FALSE
