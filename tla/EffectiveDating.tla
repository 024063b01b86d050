--------------------------- MODULE EffectiveDating ---------------------------
(***************************************************************************)
(* Effective-dated rows, as employment_assignments and leave_type_policies *)
(* keep them: from effectiveFrom to effectiveTo inclusive, and a row whose *)
(* effectiveTo is NULL is open.  Days are numbered; NULL is written as the *)
(* day after the last, which no row can begin on.                          *)
(***************************************************************************)
EXTENDS Integers

CONSTANT LastDay

ASSUME LastDayAssumption == LastDay \in Nat \ {0}

Day == 1 .. LastDay
OpenEnd == LastDay + 1

Rows(Terms) == [from : Day, to : Day \union {OpenEnd}, terms : Terms]

IsOpen(row) == row.to = OpenEnd

Covers(row, day) == row.from <= day /\ day <= row.to

\* The exclusion constraint on leave_type_policies: daterange(...) WITH &&.
Overlap(a, b) == a.from <= b.to /\ b.from <= a.to

\* Mutant of Closed: closed on the day its successor begins.
MutantClosedSameDay(row, day) == [row EXCEPT !.to = day]

\* effectiveTo of the row that is superseded from a day on.
Closed(row, day) == [row EXCEPT !.to = day - 1]

Opened(day, terms) == [from |-> day, to |-> OpenEnd, terms |-> terms]

\* One transaction closes a row and opens its successor.
Superseded(history, row, day, terms) ==
  (history \ {row}) \union {Closed(row, day), Opened(day, terms)}

\* From its first day on, a history has exactly one row for every day, and the
\* last one is open.
Tiles(history) ==
  /\ \A row \in history : row.from <= row.to
  /\ \A a, b \in history : a # b => ~Overlap(a, b)
  /\ \A a \in history, day \in Day :
       a.from <= day => \E row \in history : Covers(row, day)
  /\ \E row \in history : IsOpen(row)

\* Every row of a history is in a later one: the same first day and terms, and
\* the same last day once it is closed.
Kept(history, later) ==
  \A row \in history : \E kept \in later :
    /\ kept.from = row.from /\ kept.terms = row.terms
    /\ kept.to = row.to \/ IsOpen(row)
=============================================================================
