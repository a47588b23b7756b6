SPECIFICATION FairSpec
CONSTANTS
  Reading = {r1, r2}
  Appender = {a1, a2}
  Getter = {g1}
  Exporter = {e1}
  None = None
  Corrupt = Corrupt
  MaxTrouble = 3
INVARIANTS
  TypeOK
  RowsNameTheirLine
  AgreeWithoutTrouble
PROPERTIES
  CommittedStays
  LockComesFree
CHECK_DEADLOCK FALSE
