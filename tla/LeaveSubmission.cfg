CONSTANTS
  e1 = e1
  e2 = e2
  annual = annual
  unpaid = unpaid
  Employees = {e1}
  Types = {annual, unpaid}
  Years = {1970}
  Submissions = {s1, s2}
  Deciders = {d1}
  Forms <- PotForms
  FirstDay = 3
  LastDay = 4
  LeaveYear <- OneYear
  BalanceTypes = {annual}
  AutoTypes = {unpaid}
  MinNoticeDays <- DayNotice
  PolicyDays <- NoDays
  Overrides = {1}
  Carried = {}
  NoOverride = NoOverride
  NoOne = NoOne
SPECIFICATION FairSpec
INVARIANTS
  ToldOfCommitted
  NoDoubleBooking
  NoOverspend
PROPERTIES
  ClosedStaysClosed
  ImplementsLedger
  EverySubmissionAnswered
