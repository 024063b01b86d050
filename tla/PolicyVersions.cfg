SPECIFICATION Spec
CONSTANTS
  annual = annual
  w1 = w1
  w2 = w2
  LeaveTypes = {annual}
  Quotas = {600, 800}
  Writers = {w1, w2}
  DaysInYear = 3
  LastDay = 6
INVARIANTS VersionsTile PeriodsFillTheYear RoundingBounded
PROPERTIES VersionsStand EarlierYearsStand
SYMMETRY Symmetry
