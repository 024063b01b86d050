---------------------------- MODULE WorkingDays ----------------------------
(***************************************************************************)
(* leave/working-days.ts: the day arithmetic of leave requests.            *)
(*                                                                         *)
(* A date is the number of days since 1970-01-01, which is what            *)
(* toDateOnly leaves of a Date; 1970-01-01 was a Thursday.                 *)
(***************************************************************************)
EXTENDS Integers, FiniteSets

\* Date.prototype.getUTCDay: Sunday is 0 and Saturday is 6.
getUTCDay(date) == (date + 4) % 7

isWeekend(date) == getUTCDay(date) \in {0, 6}

\* Working days from start to end, both included; none when the range is backwards.
workingDays(start, end) == {date \in start .. end : ~isWeekend(date)}

countWorkingDays(start, end) == Cardinality(workingDays(start, end))

\* Two date ranges share a day: the "where" of the overlap query.
Intersect(start1, end1, start2, end2) == start1 <= end2 /\ end1 >= start2
=============================================================================
