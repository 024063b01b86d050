-------------------------------- MODULE Seeding --------------------------------
(***************************************************************************)
(* prisma/seed.ts: a script a developer runs again and again on a database *)
(* that others use.  It upserts one row at a time, in no transaction, and  *)
(* dies at the first error.  Between and during its runs people's jobs     *)
(* change, policies get new versions, the numbers of seed-data.ts are      *)
(* edited and years pass.                                                  *)
(*                                                                         *)
(* "SAFE TO RE-RUN.  Every write uses upsert keyed on a stable natural     *)
(* key" (seed.ts:10): a table is a set of keys, or a function of them, so  *)
(* what is checked is what the updates do to the rows that are there.      *)
(***************************************************************************)
EXTENDS SeedData, SequencesExt

CONSTANTS
  Promoted,     \* bound: the people whose job may change
  Versioned,    \* bound: the leave types that may get a new version
  FirstYear,
  LastYear,     \* bound: the last year the seed is run in
  MaxRuns       \* bound: how often it is started

ASSUME SeedingAssumption ==
  /\ Promoted \subseteq DOMAIN EMPLOYEES /\ Versioned \subseteq DOMAIN LEAVE_TYPES
  /\ FirstYear \in Nat /\ LastYear \in FirstYear..9998 /\ MaxRuns \in Nat

VARIABLES
  at,           \* the next line of the script, 0 when it is not running
  runs,         \* how often it was started, and how the last run ended
  ended,
  year,         \* of the clock
  numbers,      \* quotaDays of each leave type in seed-data.ts
  permissions, accessRoles, granted,  \* permissions, access_roles and their grants
  titles, departments, heads,         \* roles, departments and their heads
  copied,       \* the rows of employees, and the job copied on each
  career,       \* employment_assignments
  holds,        \* employee_access_roles
  leaveTypes, policies,               \* leave_types and leave_type_policies
  accounts,     \* users
  touched       \* the people whose job changed through the API

catalogue == <<permissions, accessRoles, granted, titles>>
structure == <<departments, heads>>
people    == <<copied, career, holds, accounts>>
leave     == <<leaveTypes, policies>>
world     == <<year, numbers, touched>>
vars == <<at, runs, ended, catalogue, structure, people, leave, world>>

Employees == DOMAIN EMPLOYEES
Absent == "absent"
OpenRow(e) == {row \in career[e] : row.to = Open}

\* Two versions of a policy may not overlap: the exclusion constraint.
Clashes(a, b) == a.from <= b.to /\ b.from <= a.to

-----------------------------------------------------------------------------
(* The script *)

\* A table of seed-data.ts in the order it is written, which matters to none of
\* those that are given as sets.
Listed(S) == FoldSet(LAMBDA x, seq : Append(seq, x), <<>>, S)

Lines(table, keys) == [i \in DOMAIN keys |-> [table |-> table, key |-> keys[i]]]

Entries(e) == [i \in DOMAIN EMPLOYEES[e].history |-> <<e, i>>]
RoleLines(role) ==
  Lines("role", <<role>>) \o Lines("grant", Listed({role} \X ACCESS_ROLES[role]))
PolicyLines(type) == Lines("type", <<type>>) \o Lines("policy", <<type>>)
HoldLines(e) == Lines("hold", Listed({e} \X EMPLOYEES[e].accessRoles))

ForEach(keys, LinesOf(_)) == FlattenSeq([i \in DOMAIN keys |-> LinesOf(keys[i])])

\* Mutant of Parents: the departments below are written before those above.
MutantParents == {d \in DOMAIN DEPARTMENTS : DEPARTMENTS[d] # NoDepartment}

Parents == {d \in DOMAIN DEPARTMENTS : DEPARTMENTS[d] = NoDepartment}
IsHead(e) == EMPLOYEES[e].headOf # NoDepartment
HeadLines(e) == IF IsHead(e) THEN Lines("head", <<e>>) ELSE <<>>

\* main(): each table in turn, departments above before those below.
Script ==
  Lines("permission", Listed(PERMISSIONS))
    \o ForEach(Listed(DOMAIN ACCESS_ROLES), RoleLines)
    \o Lines("title", Listed(JOB_TITLES))
    \o Lines("department", Listed(Parents))
    \o Lines("department", Listed(DOMAIN DEPARTMENTS \ Parents))
    \o Lines("employee", Order)
    \o Lines("entry", ForEach(Order, Entries))
    \o ForEach(Order, HoldLines)
    \o ForEach(Order, HeadLines)
    \o ForEach(Listed(DOMAIN LEAVE_TYPES), PolicyLines)
    \o Lines("account", Order)

TypeOK ==
  /\ at \in 0..Len(Script) /\ runs \in 0..MaxRuns
  /\ ended \in {"never", "running", "done", "failed", "killed"}
  /\ (at # 0) <=> (ended = "running")
  /\ year \in FirstYear..LastYear
  /\ permissions \subseteq PERMISSIONS /\ accessRoles \subseteq DOMAIN ACCESS_ROLES
  /\ \A g \in granted : g[1] \in accessRoles /\ g[2][1] \in permissions
  /\ titles \subseteq JOB_TITLES
  /\ \A d \in DOMAIN DEPARTMENTS :
       departments[d] \in {Absent, NoDepartment} \union DOMAIN DEPARTMENTS
  /\ \A e \in Employees : /\ e \notin DOMAIN copied => career[e] = {}
                          /\ Cardinality(OpenRow(e)) <= 1
  /\ \A h \in holds : h[1] \in Employees /\ h[2] \in accessRoles
  /\ leaveTypes \subseteq DOMAIN LEAVE_TYPES
  /\ \A a, b \in policies : a # b /\ a.type = b.type => ~Clashes(a, b)
  /\ accounts \subseteq Employees

Init ==
  /\ at = 0 /\ runs = 0 /\ ended = "never" /\ year = FirstYear
  /\ numbers = [t \in DOMAIN LEAVE_TYPES |-> LEAVE_TYPES[t].quotaDays]
  /\ permissions = {} /\ accessRoles = {} /\ granted = {} /\ titles = {}
  /\ departments = [d \in DOMAIN DEPARTMENTS |-> Absent]
  /\ heads = [d \in DOMAIN DEPARTMENTS |-> NoOne]
  /\ copied = <<>> /\ career = [e \in Employees |-> {}]
  /\ holds = {} /\ leaveTypes = {} /\ policies = {} /\ accounts = {} /\ touched = {}

Start ==
  /\ at = 0 /\ runs < MaxRuns
  /\ at' = 1 /\ runs' = runs + 1 /\ ended' = "running"
  /\ UNCHANGED <<catalogue, structure, people, leave, world>>

Line(table, key) == at # 0 /\ Script[at] = [table |-> table, key |-> key]

\* A row is written and the script goes on, or has come to its end.
GoOn ==
  /\ IF at < Len(Script) THEN at' = at + 1 /\ UNCHANGED ended
                         ELSE at' = 0 /\ ended' = "done"
  /\ UNCHANGED <<runs, world>>

\* The database refuses the row: main() rejects and the process exits.
Fail ==
  /\ at' = 0 /\ ended' = "failed"
  /\ UNCHANGED <<runs, catalogue, structure, people, leave, world>>

\* The process is killed between two rows.
Kill ==
  /\ at # 0
  /\ at' = 0 /\ ended' = "killed"
  /\ UNCHANGED <<runs, catalogue, structure, people, leave, world>>
-----------------------------------------------------------------------------
(* One action per upsert of the script *)

SeedPermission(p) ==
  /\ Line("permission", p) /\ GoOn
  /\ permissions' = permissions \union {p}
  /\ UNCHANGED <<accessRoles, granted, titles, structure, people, leave>>

SeedAccessRole(role) ==
  /\ Line("role", role) /\ GoOn
  /\ accessRoles' = accessRoles \union {role}
  /\ UNCHANGED <<permissions, granted, titles, structure, people, leave>>

\* The grant's permission is looked up by its key, and must be there.
SeedGrant(role, grant) ==
  /\ Line("grant", <<role, grant>>)
  /\ grant[1] \in permissions
  /\ GoOn
  /\ granted' = granted \union {<<role, grant>>}
  /\ UNCHANGED <<permissions, accessRoles, titles, structure, people, leave>>

SeedTitle(t) ==
  /\ Line("title", t) /\ GoOn
  /\ titles' = titles \union {t}
  /\ UNCHANGED <<permissions, accessRoles, granted, structure, people, leave>>

\* A parent that is not there yet is left out.
SeedDepartment(d) ==
  /\ Line("department", d) /\ GoOn
  /\ departments' = [departments EXCEPT ![d] =
       IF DEPARTMENTS[d] # NoDepartment /\ departments[DEPARTMENTS[d]] = Absent
       THEN NoDepartment ELSE DEPARTMENTS[d]]
  /\ UNCHANGED <<heads, catalogue, people, leave>>

\* What the lookups by code and by number make of an entry's terms.
Resolved(terms) ==
  [terms EXCEPT !.manager = IF @ \in DOMAIN copied THEN @ ELSE NoOne]

\* Mutant of Current: the first entry is taken for the current one.
MutantCurrentFirst(e) == EMPLOYEES[e].history[1]

Current(e) == CHOOSE entry \in ToSet(EMPLOYEES[e].history) : entry.to = Open

\* Pass 1: the row itself, with the job of the entry that is open.
SeedEmployee(e) ==
  /\ Line("employee", e) /\ GoOn
  /\ copied' = [x \in DOMAIN copied \union {e} |->
                  IF x = e THEN Resolved(Current(e).terms) ELSE copied[x]]
  /\ UNCHANGED <<career, holds, accounts, catalogue, structure, leave>>

RowOf(entry) == [entry EXCEPT !.terms = Resolved(@)]

\* The row of this person that starts that day is overwritten, dates and all.
Upserted(e, row) == {old \in career[e] : old.from # row.from} \union {row}

\* Mutant of OneCurrent: the partial index is not there.
MutantOneCurrent(rows) == TRUE

\* The partial index employment_assignments_one_current_per_employee.
OneCurrent(rows) == Cardinality({row \in rows : row.to = Open}) <= 1

\* Pass 2: the history, entry by entry.
SeedEntry(e, i) ==
  /\ Line("entry", <<e, i>>)
  /\ LET rows == Upserted(e, RowOf(EMPLOYEES[e].history[i]))
     IN  IF OneCurrent(rows)
         THEN /\ career' = [career EXCEPT ![e] = rows]
              /\ GoOn
              /\ UNCHANGED <<copied, holds, accounts, catalogue, structure, leave>>
         ELSE Fail

SeedHold(e, role) ==
  /\ Line("hold", <<e, role>>) /\ GoOn
  /\ holds' = holds \union {<<e, role>>}
  /\ UNCHANGED <<copied, career, accounts, catalogue, structure, leave>>

SeedHead(e) ==
  /\ Line("head", e) /\ GoOn
  /\ heads' = [heads EXCEPT ![EMPLOYEES[e].headOf] = e]
  /\ UNCHANGED <<departments, catalogue, people, leave>>

SeedLeaveType(t) ==
  /\ Line("type", t) /\ GoOn
  /\ leaveTypes' = leaveTypes \union {t}
  /\ UNCHANGED <<policies, catalogue, structure, people>>

\* The opening version of a type: in force from 1 January of the year the seed
\* is run in, with no end.
Opening(t) ==
  [type |-> t, from |-> year * 10000 + 101, to |-> Open, quotaDays |-> numbers[t]]

Versions(t) == {p \in policies : p.type = t}

\* Mutant of WithOpening: create, not upsert.
MutantWithOpeningCreated(t) == policies \union {Opening(t)}

\* Mutant of WithOpening: the version that is there gets today's numbers.
MutantWithOpeningRewritten(t) ==
  {p \in policies : <<p.type, p.from>> # <<t, Opening(t).from>>} \union {Opening(t)}

\* "CREATE ONLY": a version that starts that day is left as it is.
WithOpening(t) ==
  policies \union
    (IF \E p \in Versions(t) : p.from = Opening(t).from THEN {} ELSE {Opening(t)})

SeedPolicy(t) ==
  /\ Line("policy", t)
  /\ IF \E a, b \in WithOpening(t) : a # b /\ a.type = b.type /\ Clashes(a, b)
     THEN Fail
     ELSE /\ policies' = WithOpening(t)
          /\ GoOn
          /\ UNCHANGED <<leaveTypes, catalogue, structure, people>>

SeedAccount(e) ==
  /\ Line("account", e) /\ GoOn
  /\ accounts' = accounts \union {e}
  /\ UNCHANGED <<copied, career, holds, catalogue, structure, leave>>
-----------------------------------------------------------------------------
(* What others do to the same database *)

\* A run that ended well says nothing of the database once others change it.
Since == IF ended = "done" THEN "never" ELSE ended

\* Bound: the days on which others make their changes.
ChangeDay == year * 10000 + 615
VersionDays == {year * 10000 + 701, (year + 1) * 10000 + 101}

\* changeAssignment: the open row is closed the day before, and its successor
\* copied on the employee.
ChangeJob(e) ==
  /\ e \in Promoted \ touched
  /\ \E row \in OpenRow(e) :
       LET next == [from |-> ChangeDay, to |-> Open,
                    terms |-> [row.terms EXCEPT !.role = "RECRUITER"]]
       IN  /\ row.from < ChangeDay
           /\ career' = [career EXCEPT ![e] =
                           (@ \ {row}) \union {[row EXCEPT !.to = ChangeDay - 1], next}]
           /\ copied' = [copied EXCEPT ![e] = next.terms]
  /\ touched' = touched \union {e}
  /\ ended' = Since
  /\ UNCHANGED <<at, runs, catalogue, structure, holds, accounts, leave, year, numbers>>

\* createPolicyVersion, in the middle of the year or from the next.
NewVersion(t) ==
  /\ t \in Versioned
  /\ \E row \in Versions(t), day \in VersionDays :
       /\ row.to = Open /\ row.from < day /\ Cardinality(Versions(t)) < 2
       /\ policies' = (policies \ {row}) \union
            {[row EXCEPT !.to = day - 1], [row EXCEPT !.from = day, !.quotaDays = @ + 1]}
  /\ ended' = Since
  /\ UNCHANGED <<at, runs, catalogue, structure, people, leaveTypes, world>>

\* A developer edits a number in seed-data.ts.
EditNumbers(t) ==
  /\ at = 0 /\ t \in Versioned /\ numbers[t] = LEAVE_TYPES[t].quotaDays
  /\ numbers' = [numbers EXCEPT ![t] = @ + 2]
  /\ UNCHANGED <<at, runs, ended, catalogue, structure, people, leave, year, touched>>

NewYear ==
  /\ at = 0 /\ year < LastYear
  /\ year' = year + 1
  /\ UNCHANGED <<at, runs, ended, catalogue, structure, people, leave, numbers, touched>>

\* main() from one row to the next.
Seed ==
  \/ \E p \in PERMISSIONS : SeedPermission(p)
  \/ \E role \in DOMAIN ACCESS_ROLES :
       SeedAccessRole(role) \/ \E grant \in ACCESS_ROLES[role] : SeedGrant(role, grant)
  \/ \E t \in JOB_TITLES : SeedTitle(t)
  \/ \E d \in DOMAIN DEPARTMENTS : SeedDepartment(d)
  \/ \E e \in Employees :
       \/ SeedEmployee(e) \/ SeedHead(e) \/ SeedAccount(e)
       \/ \E i \in DOMAIN EMPLOYEES[e].history : SeedEntry(e, i)
       \/ \E role \in EMPLOYEES[e].accessRoles : SeedHold(e, role)
  \/ \E t \in DOMAIN LEAVE_TYPES : SeedLeaveType(t) \/ SeedPolicy(t)

Next ==
  \/ Start \/ Kill \/ NewYear \/ Seed
  \/ \E e \in Employees : ChangeJob(e)
  \/ \E t \in DOMAIN LEAVE_TYPES : NewVersion(t) \/ EditNumbers(t)

Spec == Init /\ [][Next]_vars
-----------------------------------------------------------------------------
\* Whatever runs were killed before it, a run that ends well leaves the whole
\* company: every grant, department and head, every person with the history and
\* managers it gives them, the job on their row, their roles and their account.
RunLeavesItWhole ==
  ended = "done" =>
    /\ \A role \in DOMAIN ACCESS_ROLES : {role} \X ACCESS_ROLES[role] \subseteq granted
    /\ departments = DEPARTMENTS
    /\ \A e \in Employees :
         /\ e \in touched \/ career[e] = ToSet(EMPLOYEES[e].history)
         /\ \A row \in OpenRow(e) : row.terms = copied[e]
         /\ {<<e, role>> : role \in EMPLOYEES[e].accessRoles} \subseteq holds
         /\ EMPLOYEES[e].headOf # NoDepartment => heads[EMPLOYEES[e].headOf] = e
    /\ \A t \in DOMAIN LEAVE_TYPES : Versions(t) # {}
    /\ accounts = Employees

\* "SAFE TO RE-RUN" as far as it goes: a run is refused only by a database in
\* which a seeded job has changed, or in a later year than its first.
RefusedOnlyIfTouched == ended = "failed" => touched # {} \/ year > FirstYear

\* "Turning last March's answer into today's": what a recorded version was worth
\* while it was in force is never changed, whatever seed-data.ts says by now.
VersionsStand ==
  [][\A p \in policies : \E q \in policies' :
       /\ q.type = p.type /\ q.from = p.from /\ q.quotaDays = p.quotaDays
       /\ q.to = p.to \/ p.to = Open]_vars

\* The job on a person's row is the one their history gives, at every row of
\* every run, for all whose job nobody changed since.
CopyIsCurrent ==
  \A e \in Employees \ touched : \A row \in OpenRow(e) : row.terms = copied[e]
=============================================================================
