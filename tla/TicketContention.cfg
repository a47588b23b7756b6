SPECIFICATION Spec
CONSTANTS
  Alert = {a1}
  Problem = {p1}
  Handler = {h1, h2}
  Dispatch = {d1, d2}
  Client = {c1, c2}
  Other = {}
  None = None
  MaxVersion = 0
SYMMETRY Symmetry
INVARIANTS
  OneHolder
  OneReceipt
  WinnersHaveDispatch
  LoserToldAWinner
  ReplyNotBeforeMove
  TrailTellsTruth
