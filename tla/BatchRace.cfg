SPECIFICATION Spec
CONSTANTS
  Collector = {c1, c2}
  Rule = {u1}
  Limit = {1, 2}
  Request = {q1, q2}
  None = None
  MaxSteps = 3
  MaxTrouble = 1
SYMMETRY Symmetry
INVARIANTS
  TypeOK
  ReadStandsForRow
PROPERTIES
  FailedBatchRestores
  SuccessIsComplete
CHECK_DEADLOCK FALSE
