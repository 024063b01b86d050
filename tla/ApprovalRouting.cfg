SPECIFICATION MCSpec
CONSTANTS
  worker = worker
  boss = boss
  chief = chief
  hr = hr
  engineering = engineering
  ios = ios
  operations = operations
  r1 = r1
  r2 = r2
  NoOne = NoOne
  NoRequest = NoRequest
  NoDepartment = NoDepartment
  Employees = {worker, boss, chief, hr}
  Departments = {engineering, ios, operations}
  Requests = {r1, r2}
  Owner <- Owners
  Parent <- Tree
  Head <- Heads
  Temporary <- Cover
  Moves <- HrMoves
  Standings <- StatusChanges
  Leavers = {boss}
  Callers = {chief, worker}
INVARIANTS QueueIsDecidable AskedIsRecorded NobodyAskedAboutOwn QueueFollowsTheLine
