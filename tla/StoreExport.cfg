SPECIFICATION FairSpec
CONSTANTS
  Reading = {r1, r2}
  Appender = {a1}
  Getter = {}
  Exporter = {e1}
  None = None
  Corrupt = Corrupt
  MaxTrouble = 0
PROPERTIES
  LockComesFreeAnyway
CHECK_DEADLOCK FALSE
