SPECIFICATION FairSpec
CONSTANTS
  c1 = c1
  c2 = c2
  c3 = c3
  k1 = k1
  k2 = k2
  d1 = d1
  d2 = d2
  p1 = p1
  Calls = {c1, c2, c3}
  Keys = {k1, k2}
  KeyOf <- TwoEvents
  Drains = {d1, d2}
  Processes = {p1}
  ProcessOf <- OneProcess
  BatchSize = 2
  MaxAttempts = 2
  MaxFaults = 2
INVARIANTS DuplicatesNeedAFault EveryAttemptClaimedOnce StatusTellsTheTruth
PROPERTIES OutcomeIsFinal EveryEmailResolved
