SPECIFICATION FairSpec
CONSTANTS
  c1 = c1
  c2 = c2
  c3 = c3
  Collector = {c1, c2, c3}
  Order <- MCOrder
  Reporting = {c1}
  Broken = {c2, c3}
  Rule = {r1}
  Off = Off
  All = All
  Scope = {All, c3}
  Value = {ok, bad}
  Accepting = {{ok}}
  Window = {0}
  DefaultWindow = 1
  PageAsked = 5
  PageMax = 2
  Horizon = 3
  Ahead = 0
  MaxLag = 1
  MaxReadings = 2
  MaxStops = 1
INVARIANTS
  TypeOK
PROPERTIES
  NoFalseAlarm
  BreachGetsTicket
