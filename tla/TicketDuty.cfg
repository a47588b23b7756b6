SPECIFICATION FairSpec
CONSTANTS
  Alert = {a1, a2}
  Problem = {p1}
  Handler = {h1}
  Dispatch = {d1}
  Client = {c1}
  Other = {o1}
  None = None
  MaxVersion = 4
INVARIANTS
  TypeOK
  OneTicketPerProblem
PROPERTIES
  OnlyTableMoves
  ImplementsLifecycle
  EveryCallAnswered
