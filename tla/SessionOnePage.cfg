SPECIFICATION FairSpec
CONSTANTS
  t1 = t1
  c1 = c1
  c2 = c2
  c3 = c3
  Tabs = {t1}
  Calls = {c1, c2, c3}
  TabOf <- OnePage
  MaxLogins = 2
  MaxFaults = 1
INVARIANTS OneLiveTokenPerLogin NeverLogsItselfOut
PROPERTIES EveryCallSettles
