SPECIFICATION FairSpec
CONSTANTS
  t1 = t1
  t2 = t2
  Task = {t1, t2}
  Policy <- MCPolicy
  Interval <- MCInterval
  None = None
INVARIANTS
  TypeOK
  LettersEarned
  StoreOutlivesTasks
PROPERTIES
  BackoffHonoured
  ProbeAnswered
  ShutdownEnds
  SteadyBeat
CHECK_DEADLOCK FALSE
