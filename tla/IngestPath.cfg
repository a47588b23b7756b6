SPECIFICATION FairSpec
CONSTANTS
  i1 = i1
  i2 = i2
  w1 = w1
  e1 = e1
  Item = {i1, i2}
  Malformed = {}
  Worker = {w1}
  Exporter = {e1}
  BatchSize = 2
  MaxAttempts = 1
  TTL = 0
  NoItem = NoItem
  MaxTrouble = 1
  None = None
  Corrupt = Corrupt
  MaxFaults = 1
CHECK_DEADLOCK FALSE
INVARIANTS
  TypeOK
  DoneNamesItsLine
  FileFollowsQueue
PROPERTIES
  ImplementsLog
  EveryItemSettles
