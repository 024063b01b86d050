SPECIFICATION Spec
CONSTANTS
  c1 = c1
  c2 = c2
  n1 = n1
  n2 = n2
  letter = letter
  review = review
  program = program
  editor1 = editor1
  editor2 = editor2
  lost1 = lost1
  here = here
  elsewhere = elsewhere
  Calls = {c1, c2}
  Notices = {n1, n2}
  MaxClicks = 3
  Files = {letter, review, program}
  Confidential = {review}
  Refused = {program}
  MaxChanges = 1
  Editors = {editor1, editor2}
  Lost = {lost1}
  Typed <- OneRefusedForm
  Jobs = {here, elsewhere}
  Elsewhere = {elsewhere}
  MaxSubmits = 2
  MaxFaults = 1
CHECK_DEADLOCK FALSE
INVARIANTS TypeOK DocumentsKept EditorsAreTold
PROPERTIES UntouchedStands BellSettles
