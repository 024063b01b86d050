SPECIFICATION Spec
CONSTANTS
  e1 = e1
  e2 = e2
  e3 = e3
  c1 = c1
  c2 = c2
  a1 = a1
  engineer = engineer
  lead = lead
  NoOne = NoOne
  Employees = {e1, e2, e3}
  Titles = {engineer}
  Changes = {c1}
  Archivals = {a1}
  LastDay = 2
INVARIANTS NoReportingCycle CareerTiles CacheMatchesOpen
PROPERTIES RecordStands
