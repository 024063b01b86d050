--------------------------- MODULE MCLeaveRequests ---------------------------
(***************************************************************************)
(* Small instances of LeaveRequests.  Day 4 is Monday 5 January 1970; days  *)
(* 2 and 3 are the weekend before it.                                      *)
(***************************************************************************)
EXTENDS LeaveRequests, TLC

CONSTANTS e1, e2, annual, unpaid

Ask(e, t, from, to) == [employee |-> e, type |-> t, start |-> from, end |-> to]

\* Two single days and a range over both: any two of them overlap, or draw two
\* days or more.
OnePersonForms ==
  {Ask(e1, annual, 4, 4), Ask(e1, annual, 5, 5), Ask(e1, annual, 3, 5)}

\* Two days that need notice and share a pot, and one of them asked for as a
\* type that approves itself.
PotForms ==
  {Ask(e1, annual, 4, 4), Ask(e1, annual, 5, 5), Ask(e1, unpaid, 4, 4)}

OneYear == [d \in {f.start : f \in Forms} |-> 1970]

NoNotice == [t \in Types |-> 0]
DayNotice == [t \in Types |-> IF t = annual THEN 1 ELSE 0]

NoDays == [k \in Types \X Years |-> 0]
OneDayEach == [k \in Types \X Years |-> 1]

Symmetry == Permutations(Submissions) \union Permutations(Deciders)
=============================================================================
