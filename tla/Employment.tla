----------------------------- MODULE Employment -----------------------------
(***************************************************************************)
(* Who holds which job and reports to whom: EmployeesService.create,       *)
(* update and archive over EmploymentAssignmentService, which keeps the    *)
(* effective-dated history and the copy of today's job on the employee.    *)
(*                                                                         *)
(* update() reads the org chart, then the open assignment, and only then   *)
(* opens its transaction; archive() counts reports before it writes.       *)
(***************************************************************************)
EXTENDS EffectiveDating

CONSTANTS
  Employees,
  Titles,     \* role, department and terms of a job: all that is not its manager
  Changes,    \* requests to hire or to change a job that may be under way
  Archivals,  \* requests to archive that may be under way
  NoOne

ASSUME NoOneAssumption == NoOne \notin Employees

VARIABLES
  career,    \* each employee's employment_assignments; none before they are hired
  cache,     \* the tracked fields on the employee's own row
  archived,  \* deletedAt is set
  change,
  archival

vars == <<career, cache, archived, change, archival>>

Terms == [manager : Employees \union {NoOne}, title : Titles]

Hired == {e \in Employees : career[e] # {}}

\* A request between its checks and its transaction: "walk" climbs from the
\* proposed manager, "current" reads the open assignment, "write" is checked.
Idle == [at |-> "idle"]
ChangeState == {Idle}
  \union [at : {"hire", "current"}, employee : Employees, terms : Terms, from : Day]
  \union [at : {"walk"}, employee : Employees, terms : Terms, from : Day,
          cursor : Employees, seen : SUBSET Employees]
  \union [at : {"write"}, employee : Employees, terms : Terms, from : Day,
          current : Day]

TypeOK ==
  /\ career \in [Employees -> SUBSET Rows(Terms)]
  /\ cache \in [Employees -> Terms \union {NoOne}]
  /\ \A e \in Hired : cache[e] \in Terms
  /\ archived \subseteq Employees
  /\ change \in [Changes -> ChangeState]
  /\ archival \in [Archivals -> Employees \union {NoOne}]

Init ==
  /\ career = [e \in Employees |-> {}]
  /\ cache = [e \in Employees |-> NoOne]
  /\ archived = {}
  /\ change = [c \in Changes |-> Idle]
  /\ archival = [a \in Archivals |-> NoOne]

\* assertReferencesExist
ManagerExists(m) == m = NoOne \/ m \in Hired \ archived

Await(c, state) == change' = [change EXCEPT ![c] = state]
Stop(c) == Await(c, Idle)

-----------------------------------------------------------------------------
(* create *)

BeginHire(c) ==
  /\ change[c] = Idle
  /\ \E e \in Employees \ Hired, terms \in Terms, from \in Day :
       /\ ManagerExists(terms.manager)
       /\ Await(c, [at |-> "hire", employee |-> e, terms |-> terms, from |-> from])
  /\ UNCHANGED <<career, cache, archived, archival>>

\* Mutant of Hire: the copy is left for the first change to write.
MutantHireUncached(c) ==
  LET new == change[c]
  IN  /\ new.at = "hire"
      /\ IF new.employee \in Hired
         THEN UNCHANGED career
         ELSE career' = [career EXCEPT ![new.employee] = {Opened(new.from, new.terms)}]
      /\ Stop(c)
      /\ UNCHANGED <<cache, archived, archival>>

\* The employee and the opening assignment, unless the number has been taken.
Hire(c) ==
  LET new == change[c]
  IN  /\ new.at = "hire"
      /\ IF new.employee \in Hired
         THEN UNCHANGED <<career, cache>>
         ELSE /\ career' = [career EXCEPT ![new.employee] = {Opened(new.from, new.terms)}]
              /\ cache' = [cache EXCEPT ![new.employee] = new.terms]
      /\ Stop(c)
      /\ UNCHANGED <<archived, archival>>

-----------------------------------------------------------------------------
(* update, with an assignment *)

BeginChange(c) ==
  /\ change[c] = Idle
  /\ \E e \in Hired \ archived, terms \in Terms, from \in Day :
       /\ ManagerExists(terms.manager)
       /\ terms.manager # e
       /\ Await(c,
            IF terms.manager = NoOne
            THEN [at |-> "current", employee |-> e, terms |-> terms, from |-> from]
            ELSE [at |-> "walk", employee |-> e, terms |-> terms, from |-> from,
                  cursor |-> terms.manager, seen |-> {}])
  /\ UNCHANGED <<career, cache, archived, archival>>

Passed(walk) ==
  [at |-> "current", employee |-> walk.employee, terms |-> walk.terms, from |-> walk.from]

\* Mutant of Walk: the walk stops at the proposed manager's own manager.
MutantWalkOneStep(c) ==
  LET walk == change[c]
  IN  /\ walk.at = "walk"
      /\ Await(c, IF walk.cursor = walk.employee THEN Idle ELSE Passed(walk))
      /\ UNCHANGED <<career, cache, archived, archival>>

\* One query of wouldCreateReportingCycle.
Walk(c) ==
  LET walk == change[c]
      next == IF walk.cursor \in Hired THEN cache[walk.cursor].manager ELSE NoOne
  IN  /\ walk.at = "walk"
      /\ Await(c,
           IF walk.cursor = walk.employee THEN Idle
           ELSE IF walk.cursor \in walk.seen \/ next = NoOne THEN Passed(walk)
           ELSE [walk EXCEPT !.cursor = next, !.seen = @ \union {walk.cursor}])
      /\ UNCHANGED <<career, cache, archived, archival>>

\* getCurrent, differs, and the effective date against the current row's.
ReadCurrent(c) ==
  LET wish == change[c]
  IN  /\ wish.at = "current"
      /\ \E row \in career[wish.employee] :
           /\ IsOpen(row)
           /\ IF row.terms = wish.terms \/ wish.from <= row.from
              THEN Stop(c)
              ELSE Await(c, [at |-> "write", employee |-> wish.employee,
                             terms |-> wish.terms, from |-> wish.from,
                             current |-> row.from])
      /\ UNCHANGED <<career, cache, archived, archival>>

\* The unique indexes on employment_assignments: the row that opens has a start
\* date of its own, and is the only open one beside those that stay.
Indexed(others, from) == \A row \in others : row.from # from /\ ~IsOpen(row)

\* Mutant of WriteChange: the row that was read is deleted, not closed.
MutantWriteReplaces(c) ==
  LET new == change[c]
      e == new.employee
  IN  /\ new.at = "write"
      /\ \E row \in career[e] :
           /\ row.from = new.current
           /\ IF Indexed(career[e] \ {row}, new.from)
              THEN /\ career' = [career EXCEPT ![e] =
                                  (@ \ {row}) \union {Opened(row.from, new.terms)}]
                   /\ cache' = [cache EXCEPT ![e] = new.terms]
              ELSE UNCHANGED <<career, cache>>
      /\ Stop(c)
      /\ UNCHANGED <<archived, archival>>

\* The transaction of changeAssignment: the row that was read is closed by its
\* id, whatever has become of it, and the indexes decide.
WriteChange(c) ==
  LET new == change[c]
      e == new.employee
  IN  /\ new.at = "write"
      /\ \E row \in career[e] :
           /\ row.from = new.current
           /\ IF Indexed((career[e] \ {row}) \union {Closed(row, new.from)}, new.from)
              THEN /\ career' = [career EXCEPT ![e] =
                                  Superseded(@, row, new.from, new.terms)]
                   /\ cache' = [cache EXCEPT ![e] = new.terms]
              ELSE UNCHANGED <<career, cache>>
      /\ Stop(c)
      /\ UNCHANGED <<archived, archival>>

-----------------------------------------------------------------------------
(* archive *)

CountReports(a) ==
  /\ archival[a] = NoOne
  /\ \E e \in Hired :
       /\ \A r \in Hired \ archived : cache[r].manager # e
       /\ archival' = [archival EXCEPT ![a] = e]
  /\ UNCHANGED <<career, cache, archived, change>>

Archive(a) ==
  /\ archival[a] # NoOne
  /\ archived' = archived \union {archival[a]}
  /\ archival' = [archival EXCEPT ![a] = NoOne]
  /\ UNCHANGED <<career, cache, change>>

Next ==
  \/ \E c \in Changes : \/ BeginHire(c) \/ Hire(c) \/ BeginChange(c)
                        \/ Walk(c) \/ ReadCurrent(c) \/ WriteChange(c)
  \/ \E a \in Archivals : CountReports(a) \/ Archive(a)

Spec == Init /\ [][Next]_vars

-----------------------------------------------------------------------------
(* Properties *)

\* "What was this person's job on day D" has exactly one answer from the day
\* they were hired, and one assignment is open, whichever job changes race
\* (changeAssignment: the read outside its transaction, closed by id).
CareerTiles == \A e \in Hired : Tiles(career[e])

\* findDrift() is always empty: the copy on the employee is the open row's.
CacheMatchesOpen ==
  \A e \in Hired : \E row \in career[e] : IsOpen(row) /\ row.terms = cache[e]

\* What was recorded stands: no assignment disappears or changes its terms or
\* its first day, and a closed one is never touched again (changeAssignment).
RecordStands == [][\A e \in Employees : Kept(career[e], career'[e])]_vars

\* Whom an employee's own row names as manager.
Above(e) == IF cache[e].manager = NoOne THEN {} ELSE {cache[e].manager}

\* Nobody reports to themselves, directly or through others (update,
\* wouldCreateReportingCycle): no set of employees has all its managers inside.
NoReportingCycle ==
  \A circle \in (SUBSET Hired) \ {{}} :
    ~ \A e \in circle : Above(e) # {} /\ Above(e) \subseteq circle
=============================================================================
