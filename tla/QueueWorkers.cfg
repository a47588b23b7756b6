SPECIFICATION FairSpec
CONSTANTS
  Item = {i1, i2}
  Malformed = {i2}
  Worker = {w1, w2}
  BatchSize = 2
  MaxAttempts = 2
  TTL = 1
  NoItem = NoItem
  MaxTrouble = 2
INVARIANTS
  TypeOK
  DoneHasReading
  LettersEarned
PROPERTIES
  DoneIsFinal
  EveryItemSettles
CHECK_DEADLOCK FALSE
