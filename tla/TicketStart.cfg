SPECIFICATION Spec
CONSTANTS
  Alert = {a1}
  Problem = {p1}
  Handler = {h1, h2}
  Dispatch = {d1}
  Client = {c1}
  Other = {}
  None = None
  MaxVersion = 0
SYMMETRY Symmetry
PROPERTIES
  StartedByAssignee
