CONSTANTS
  e1 = e1
  e2 = e2
  annual = annual
  unpaid = unpaid
  Employees = {e1}
  Types = {annual}
  Years = {1970}
  Submissions = {s1}
  Deciders = {d1, d2}
  Forms <- OnePersonForms
  FirstDay = 3
  LastDay = 3
  LeaveYear <- OneYear
  BalanceTypes = {annual}
  AutoTypes = {}
  MinNoticeDays <- NoNotice
  PolicyDays <- OneDayEach
  Overrides = {}
  Carried = {}
  NoOverride = NoOverride
  NoOne = NoOne
SPECIFICATION FairSpec
PROPERTIES
  ClosedStaysClosed
