SPECIFICATION Spec
CONSTANTS
  Collector = {c1, c2}
  Rule = {}
  Limit = {1}
  Request = {q1}
  None = None
  MaxSteps = 2
  MaxTrouble = 0
SYMMETRY Symmetry
PROPERTIES
  AllOrNothing
CHECK_DEADLOCK FALSE
