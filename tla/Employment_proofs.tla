-------------------------- MODULE Employment_proofs --------------------------
(***************************************************************************)
(* Proofs about Employment: for any number of employees and of racing job  *)
(* changes, a career has one job a day and the copy on the employee is the *)
(* open assignment's.                                                      *)
(***************************************************************************)
EXTENDS Employment, TLAPS

-----------------------------------------------------------------------------
(* What closing a row and opening its successor does to a history *)

\* A history of one open row has a row for each day from its first.
LEMMA FirstRowTiles ==
  ASSUME NEW What, NEW day \in Day, NEW terms \in What
  PROVE  /\ Opened(day, terms) \in Rows(What)
         /\ IsOpen(Opened(day, terms))
         /\ Tiles({Opened(day, terms)})
BY LastDayAssumption DEF Opened, Rows, IsOpen, Tiles, Covers, OpenEnd, Day

\* Superseding the open row from a later day leaves no day without a row and
\* none with two.
LEMMA SupersededTiles ==
  ASSUME NEW What, NEW history, history \subseteq Rows(What), Tiles(history),
         NEW row \in history, IsOpen(row),
         NEW day \in Day, row.from < day, NEW terms \in What
  PROVE  /\ Superseded(history, row, day, terms) \subseteq Rows(What)
         /\ Tiles(Superseded(history, row, day, terms))
<1> DEFINE closed == Closed(row, day)
           new == Opened(day, terms)
           after == Superseded(history, row, day, terms)
<1>1. /\ closed \in Rows(What) /\ closed.from = row.from /\ closed.to = day - 1
      /\ new \in Rows(What) /\ new.from = day /\ new.to = OpenEnd
  BY LastDayAssumption DEF Rows, Closed, Opened, IsOpen, OpenEnd, Day
<1>2. after = (history \ {row}) \union {closed, new}
  BY DEF Superseded
<1>3. ASSUME NEW a \in history
      PROVE  /\ a.from \in Day /\ a.to \in Int /\ a.from <= a.to
             /\ a # row => a.to < row.from
  BY LastDayAssumption DEF Tiles, Overlap, Rows, IsOpen, OpenEnd, Day
<1> HIDE DEF closed, new, after
<1>4. ASSUME NEW a \in after, NEW b \in after
      PROVE  a.from <= a.to /\ (a # b => ~Overlap(a, b))
  BY <1>1, <1>2, <1>3, LastDayAssumption DEF Tiles, Overlap, OpenEnd, Day
<1>5. ASSUME NEW a \in after, NEW d \in Day, a.from <= d
      PROVE  \E r \in after : Covers(r, d)
  <2>1. CASE day <= d
    BY <1>1, <1>2, <2>1, LastDayAssumption DEF Covers, OpenEnd, Day
  <2>2. CASE d < day
    <3>1. PICK r \in history : Covers(r, d)
      BY <1>1, <1>2, <1>5, <2>2 DEF Tiles, Day
    <3> QED
      BY <1>1, <1>2, <2>2, <3>1 DEF Covers, Day
  <2> QED
    BY <2>1, <2>2 DEF Day
<1> QED
  BY <1>1, <1>2, <1>4, <1>5 DEF Tiles, IsOpen, after

-----------------------------------------------------------------------------
(* The invariant *)

\* A change that waits for its transaction starts after the row it read.
WritesLater ==
  \A c \in Changes : change[c].at = "write" => change[c].current < change[c].from

IInv == TypeOK /\ CareerTiles /\ CacheMatchesOpen /\ WritesLater

LEMMA InitIInv == Init => IInv
BY LastDayAssumption DEF Day, Init, IInv, TypeOK, CareerTiles, CacheMatchesOpen, WritesLater, Hired,
       ChangeState, Idle

\* The fields of a change at the step it waits for.
LEMMA ChangeFields ==
  ASSUME TypeOK, NEW c \in Changes
  PROVE  /\ change[c].at # "idle" =>
              /\ change[c].employee \in Employees
              /\ change[c].terms \in Terms
              /\ change[c].from \in Day
         /\ change[c].at = "walk" =>
              change[c].cursor \in Employees /\ change[c].seen \in SUBSET Employees
         /\ change[c].at = "write" => change[c].current \in Day
<1>1. change[c] \in ChangeState
  BY DEF TypeOK
<1> QED
  BY <1>1 DEF ChangeState, Idle

\* Steps that touch no history leave the invariant to the change's own state.
LEMMA Frame ==
  ASSUME IInv, UNCHANGED <<career, cache>>, archived' \subseteq Employees,
         archival' \in [Archivals -> Employees \union {NoOne}],
         NEW c \in Changes, NEW state \in ChangeState,
         state.at = "write" => state.current < state.from,
         Await(c, state) \/ UNCHANGED change
  PROVE  IInv'
<1>1. change' \in [Changes -> ChangeState]
  BY DEF IInv, TypeOK, Await
<1>2. TypeOK'
  BY <1>1 DEF IInv, TypeOK, Hired
<1>3. WritesLater'
  BY DEF IInv, TypeOK, WritesLater, Await
<1> QED
  BY <1>2, <1>3 DEF IInv, CareerTiles, CacheMatchesOpen, Hired

\* A history that is written with the copy beside it.
LEMMA Written ==
  ASSUME IInv, NEW c \in Changes, Stop(c), UNCHANGED <<archived, archival>>,
         NEW e \in Employees, NEW history \in SUBSET Rows(Terms), NEW terms \in Terms,
         Tiles(history), \E row \in history : IsOpen(row) /\ row.terms = terms,
         career' = [career EXCEPT ![e] = history],
         cache' = [cache EXCEPT ![e] = terms]
  PROVE  IInv'
<1>1. \A f \in Employees : /\ career'[f] = IF f = e THEN history ELSE career[f]
                           /\ cache'[f] = IF f = e THEN terms ELSE cache[f]
  BY DEF IInv, TypeOK
<1>2. change' \in [Changes -> ChangeState]
  BY DEF IInv, TypeOK, Stop, Await, ChangeState
<1>3. TypeOK'
  BY <1>1, <1>2 DEF IInv, TypeOK, Hired
<1>4. CareerTiles'
  BY <1>1 DEF IInv, CareerTiles, Hired
<1>5. CacheMatchesOpen'
  BY <1>1 DEF IInv, CacheMatchesOpen, Hired
<1>6. WritesLater'
  BY DEF IInv, TypeOK, WritesLater, Stop, Await, Idle
<1> QED
  BY <1>3, <1>4, <1>5, <1>6 DEF IInv

LEMMA HireIInv ==
  ASSUME IInv, NEW c \in Changes, Hire(c)
  PROVE  IInv'
<1> DEFINE new == change[c]
<1>1. /\ new.employee \in Employees /\ new.terms \in Terms /\ new.from \in Day
      /\ Stop(c) /\ UNCHANGED <<archived, archival>>
  BY ChangeFields DEF IInv, Hire
<1>2. CASE new.employee \in Hired
  BY <1>1, <1>2, Frame DEF Hire, IInv, TypeOK, Stop, ChangeState, Idle
<1>3. CASE new.employee \notin Hired
  <2> DEFINE history == {Opened(new.from, new.terms)}
  <2>1. /\ history \in SUBSET Rows(Terms) /\ Tiles(history)
        /\ \E row \in history : IsOpen(row) /\ row.terms = new.terms
    BY <1>1, FirstRowTiles DEF Opened
  <2>2. career' = [career EXCEPT ![new.employee] = history]
        /\ cache' = [cache EXCEPT ![new.employee] = new.terms]
    BY <1>3 DEF Hire
  <2> HIDE DEF history
  <2> QED
    BY <1>1, <2>1, <2>2, Written
<1> QED
  BY <1>2, <1>3

\* What the indexes let through: the row that was read is still the open one.
LEMMA OpenRowWritten ==
  ASSUME IInv, NEW e \in Hired, NEW row \in career[e], NEW day \in Day,
         row.from < day,
         Indexed((career[e] \ {row}) \union {Closed(row, day)}, day)
  PROVE  IsOpen(row)
<1>1. PICK open \in career[e] : IsOpen(open)
  BY DEF IInv, CareerTiles, Tiles
<1>2. open = row
  BY <1>1 DEF Indexed
<1> QED
  BY <1>1, <1>2

LEMMA WriteIInv ==
  ASSUME IInv, NEW c \in Changes, WriteChange(c)
  PROVE  IInv'
<1> DEFINE new == change[c]
           e == new.employee
<1>1. /\ e \in Employees /\ new.terms \in Terms /\ new.from \in Day
      /\ Stop(c) /\ UNCHANGED <<archived, archival>>
      /\ new.current < new.from
  BY ChangeFields DEF IInv, WriteChange, WritesLater
<1>2. PICK row \in career[e] :
        /\ row.from = new.current
        /\ IF Indexed((career[e] \ {row}) \union {Closed(row, new.from)}, new.from)
           THEN /\ career' = [career EXCEPT ![e] =
                               Superseded(@, row, new.from, new.terms)]
                /\ cache' = [cache EXCEPT ![e] = new.terms]
           ELSE UNCHANGED <<career, cache>>
  BY DEF WriteChange
<1>3. CASE Indexed((career[e] \ {row}) \union {Closed(row, new.from)}, new.from)
  <2> DEFINE history == Superseded(career[e], row, new.from, new.terms)
  <2>1. e \in Hired /\ career[e] \subseteq Rows(Terms) /\ Tiles(career[e])
    BY <1>1, <1>2 DEF IInv, TypeOK, CareerTiles, Hired
  <2>2. IsOpen(row)
    BY <1>1, <1>2, <1>3, <2>1, OpenRowWritten
  <2>3. history \in SUBSET Rows(Terms) /\ Tiles(history)
    BY <1>1, <1>2, <2>1, <2>2, SupersededTiles
  <2>4. \E r \in history : IsOpen(r) /\ r.terms = new.terms
    <3>1. Opened(new.from, new.terms) \in history
      BY DEF Superseded
    <3> QED
      BY <1>1, <3>1, FirstRowTiles DEF Opened
  <2>5. career' = [career EXCEPT ![e] = history] /\ cache' = [cache EXCEPT ![e] = new.terms]
    BY <1>2, <1>3 DEF IInv, TypeOK
  <2> HIDE DEF history
  <2> QED
    BY <1>1, <2>3, <2>4, <2>5, Written
<1>4. CASE ~Indexed((career[e] \ {row}) \union {Closed(row, new.from)}, new.from)
  BY <1>1, <1>2, <1>4, Frame DEF IInv, TypeOK, Stop, ChangeState, Idle
<1> QED
  BY <1>3, <1>4

\* The steps that only read: each leaves a well-typed state of its change.
LEMMA ReadIInv ==
  ASSUME IInv, NEW c \in Changes,
         BeginHire(c) \/ BeginChange(c) \/ Walk(c) \/ ReadCurrent(c)
  PROVE  IInv'
<1>1. /\ UNCHANGED <<career, cache, archived, archival>>
      /\ archived \subseteq Employees
      /\ archival \in [Archivals -> Employees \union {NoOne}]
  BY DEF IInv, TypeOK, BeginHire, BeginChange, Walk, ReadCurrent
<1>2. Idle \in ChangeState /\ Idle.at = "idle"
  BY DEF ChangeState, Idle
<1>3. CASE BeginHire(c)
  <2>1. PICK e \in Employees \ Hired, terms \in Terms, from \in Day :
          Await(c, [at |-> "hire", employee |-> e, terms |-> terms, from |-> from])
    BY <1>3 DEF BeginHire
  <2>2. [at |-> "hire", employee |-> e, terms |-> terms, from |-> from] \in ChangeState
    BY <2>1 DEF ChangeState
  <2> QED
    BY <1>1, <2>1, <2>2, Frame
<1>4. CASE BeginChange(c)
  <2>1. PICK e \in Hired \ archived, terms \in Terms, from \in Day :
          Await(c,
            IF terms.manager = NoOne
            THEN [at |-> "current", employee |-> e, terms |-> terms, from |-> from]
            ELSE [at |-> "walk", employee |-> e, terms |-> terms, from |-> from,
                  cursor |-> terms.manager, seen |-> {}])
    BY <1>4 DEF BeginChange
  <2>2. e \in Employees /\ terms.manager \in Employees \union {NoOne}
    BY DEF Hired, Terms
  <2>3. [at |-> "current", employee |-> e, terms |-> terms, from |-> from] \in ChangeState
    BY <2>2 DEF ChangeState
  <2>4. terms.manager # NoOne =>
          [at |-> "walk", employee |-> e, terms |-> terms, from |-> from,
           cursor |-> terms.manager, seen |-> {}] \in ChangeState
    BY <2>2 DEF ChangeState
  <2>5. CASE terms.manager = NoOne
    BY <1>1, <2>1, <2>3, <2>5, Frame
  <2>6. CASE terms.manager # NoOne
    BY <1>1, <2>1, <2>4, <2>6, Frame
  <2> QED
    BY <2>5, <2>6
<1>5. CASE Walk(c)
  <2> DEFINE walk == change[c]
             next == IF walk.cursor \in Hired THEN cache[walk.cursor].manager ELSE NoOne
             on == [walk EXCEPT !.cursor = next, !.seen = @ \union {walk.cursor}]
  <2>1. /\ walk.at = "walk" /\ walk \in ChangeState
        /\ walk.employee \in Employees /\ walk.terms \in Terms /\ walk.from \in Day
        /\ walk.cursor \in Employees /\ walk.seen \in SUBSET Employees
    BY <1>5, ChangeFields DEF IInv, TypeOK, Walk
  <2>2. CASE walk.cursor = walk.employee
    BY <1>1, <1>2, <1>5, <2>2, Frame DEF Walk
  <2>3. CASE walk.cursor # walk.employee /\ (walk.cursor \in walk.seen \/ next = NoOne)
    <3>1. Passed(walk) \in ChangeState /\ Passed(walk).at = "current"
      BY <2>1 DEF Passed, ChangeState
    <3>2. Await(c, Passed(walk))
      BY <1>5, <2>3 DEF Walk
    <3> QED
      BY <1>1, <3>1, <3>2, Frame
  <2>4. CASE walk.cursor # walk.employee /\ walk.cursor \notin walk.seen /\ next # NoOne
    <3>1. Await(c, on)
      BY <1>5, <2>4 DEF Walk
    <3>2. next \in Employees
      BY <2>1, <2>4 DEF IInv, TypeOK, Terms
    <3>3. on \in ChangeState /\ on.at = "walk"
      BY <2>1, <3>2 DEF ChangeState, Idle
    <3> QED
      BY <1>1, <3>1, <3>3, Frame
  <2> QED
    BY <2>2, <2>3, <2>4
<1>6. CASE ReadCurrent(c)
  <2> DEFINE wish == change[c]
  <2>1. /\ wish.employee \in Employees /\ wish.terms \in Terms /\ wish.from \in Day
        /\ wish.at = "current"
    BY <1>6, ChangeFields DEF IInv, ReadCurrent
  <2>2. PICK row \in career[wish.employee] :
          IF row.terms = wish.terms \/ wish.from <= row.from
          THEN Stop(c)
          ELSE Await(c, [at |-> "write", employee |-> wish.employee,
                         terms |-> wish.terms, from |-> wish.from,
                         current |-> row.from])
    BY <1>6 DEF ReadCurrent
  <2>3. row.from \in Day
    BY <2>1 DEF IInv, TypeOK, Rows
  <2> DEFINE checked == [at |-> "write", employee |-> wish.employee,
                         terms |-> wish.terms, from |-> wish.from,
                         current |-> row.from]
  <2>4. checked \in ChangeState
    BY <2>1, <2>3 DEF ChangeState
  <2>5. CASE Stop(c)
    BY <1>1, <1>2, <2>5, Frame DEF Stop
  <2>6. CASE ~(wish.from <= row.from) /\ Await(c, checked)
    <3>1. row.from < wish.from
      BY <2>1, <2>3, <2>6 DEF Day
    <3> QED
      BY <1>1, <2>4, <2>6, <3>1, Frame
  <2> QED
    BY <2>2, <2>5, <2>6
<1> QED
  BY <1>3, <1>4, <1>5, <1>6

LEMMA NextIInv == IInv /\ [Next]_vars => IInv'
<1> SUFFICES ASSUME IInv, [Next]_vars PROVE IInv'
  OBVIOUS
<1>1. ASSUME NEW a \in Archivals, CountReports(a) \/ Archive(a) PROVE IInv'
  <2>1. /\ archived' \subseteq Employees
        /\ archival' \in [Archivals -> Employees \union {NoOne}]
        /\ UNCHANGED <<career, cache, change>>
    BY <1>1 DEF IInv, TypeOK, CountReports, Archive, Hired
  <2> QED
    BY <2>1 DEF IInv, TypeOK, Hired, CareerTiles, CacheMatchesOpen, WritesLater
<1>2. CASE UNCHANGED vars
  BY <1>2
  DEF vars, IInv, TypeOK, Hired, CareerTiles, CacheMatchesOpen, WritesLater
<1> QED
  BY <1>1, <1>2, HireIInv, WriteIInv, ReadIInv DEF Next

THEOREM InvariantHolds == Spec => []IInv
<1> QED
  BY InitIInv, NextIInv, PTL DEF Spec

\* Every variable keeps its type.
THEOREM TypeCorrect == Spec => []TypeOK
<1>1. IInv => TypeOK
  BY DEF IInv
<1> QED
  BY <1>1, InvariantHolds, PTL

\* However many job changes race, whatever each read before its transaction, an
\* employee has one job for every day since they were hired.
THEOREM CareersTile == Spec => []CareerTiles
<1>1. IInv => CareerTiles
  BY DEF IInv
<1> QED
  BY <1>1, InvariantHolds, PTL

\* findDrift() never finds anything.
THEOREM NoDrift == Spec => []CacheMatchesOpen
<1>1. IInv => CacheMatchesOpen
  BY DEF IInv
<1> QED
  BY <1>1, InvariantHolds, PTL

LEMMA StepKeeps ==
  ASSUME IInv, [Next]_vars, NEW e \in Employees
  PROVE  Kept(career[e], career'[e])
<1>1. CASE UNCHANGED career
  BY <1>1 DEF Kept
<1>2. ASSUME NEW c \in Changes, Hire(c) PROVE Kept(career[e], career'[e])
  BY <1>2 DEF Hire, Hired, Kept, IInv, TypeOK
<1>3. ASSUME NEW c \in Changes, WriteChange(c) PROVE Kept(career[e], career'[e])
  <2> DEFINE new == change[c]
  <2>1. /\ new.employee \in Employees /\ new.from \in Day /\ new.current < new.from
    BY <1>3, ChangeFields DEF IInv, WriteChange, WritesLater
  <2>2. PICK row \in career[new.employee] :
          /\ row.from = new.current
          /\ IF Indexed((career[new.employee] \ {row}) \union {Closed(row, new.from)},
                        new.from)
             THEN career' = [career EXCEPT ![new.employee] =
                               Superseded(@, row, new.from, new.terms)]
             ELSE UNCHANGED career
    BY <1>3 DEF WriteChange
  <2>3. CASE UNCHANGED career \/ e # new.employee
    BY <2>1, <2>2, <2>3 DEF Kept, IInv, TypeOK
  <2>4. CASE /\ ~UNCHANGED career /\ e = new.employee
    <3>1. e \in Hired /\ IsOpen(row)
      BY <2>1, <2>2, <2>4, OpenRowWritten DEF Hired
    <3>2. career'[e] = Superseded(career[e], row, new.from, new.terms)
      BY <2>2, <2>4 DEF IInv, TypeOK
    <3>3. ASSUME NEW q \in career[e]
          PROVE  \E kept \in career'[e] : /\ kept.from = q.from /\ kept.terms = q.terms
                                          /\ kept.to = q.to \/ IsOpen(q)
      <4>1. CASE q # row
        BY <3>2, <4>1 DEF Superseded
      <4>2. CASE q = row
        <5>1. Closed(row, new.from) \in career'[e]
          BY <3>2 DEF Superseded
        <5>2. row \in Rows(Terms)
          BY <2>2, <2>4 DEF IInv, TypeOK
        <5>3. /\ Closed(row, new.from).from = row.from
              /\ Closed(row, new.from).terms = row.terms
          BY <5>2 DEF Closed, Rows
        <5> QED
          BY <3>1, <4>2, <5>1, <5>3
      <4> QED
        BY <4>1, <4>2
    <3> QED
      BY <3>3 DEF Kept
  <2> QED
    BY <2>3, <2>4
<1>4. ASSUME NEW c \in Changes,
             BeginHire(c) \/ BeginChange(c) \/ Walk(c) \/ ReadCurrent(c)
      PROVE  UNCHANGED career
  BY <1>4 DEF BeginHire, BeginChange, Walk, ReadCurrent
<1>5. ASSUME NEW a \in Archivals, CountReports(a) \/ Archive(a) PROVE UNCHANGED career
  BY <1>5 DEF CountReports, Archive
<1> QED
  BY <1>1, <1>2, <1>3, <1>4, <1>5 DEF Next, vars

\* No change of job rewrites what was recorded before it.
THEOREM RecordsStand == Spec => RecordStands
<1>1. IInv /\ [Next]_vars => [\A e \in Employees : Kept(career[e], career'[e])]_vars
  BY StepKeeps
<1> QED
  BY <1>1, InvariantHolds, PTL DEF Spec, RecordStands
-----------------------------------------------------------------------------
(***************************************************************************)
(* No reporting cycle, with one change at a time.  While a change climbs,  *)
(* nobody else writes the chart: so a set that would close a circle around *)
(* the new manager holds every cursor, and the climb can neither run out   *)
(* of managers inside it nor come back to a cursor it has seen.            *)
(***************************************************************************)

OneChange == \A c, d \in Changes : c = d

\* The set would be a circle once the change is written.
Closing(circle, new) ==
  /\ new.employee \in circle /\ new.terms.manager \in circle
  /\ \A e \in circle \ {new.employee} : Above(e) # {} /\ Above(e) \subseteq circle

ManagersHired ==
  /\ \A e \in Hired : Above(e) \subseteq Hired
  /\ \A c \in Changes :
       change[c].at # "idle" => change[c].terms.manager \in Hired \union {NoOne}

\* What the climb has found out so far.
ClimbedTo(walk) ==
  /\ walk.employee \notin walk.seen
  /\ walk.seen \subseteq Hired
  /\ \A e \in walk.seen : Above(e) # {} /\ Above(e) \subseteq walk.seen \union {walk.cursor}
  /\ \A circle \in SUBSET Hired : Closing(circle, walk) => walk.cursor \in circle

\* What a change that has passed the walk may rely on.
ClosesNone(new) == \A circle \in SUBSET Hired : ~Closing(circle, new)

WalksTell ==
  \A c \in Changes :
    /\ change[c].at = "walk" => ClimbedTo(change[c])
    /\ change[c].at \in {"current", "write"} => ClosesNone(change[c])

CInv == IInv /\ NoReportingCycle /\ ManagersHired /\ WalksTell

\* One step up the chart.
LEMMA WalkTells ==
  ASSUME CInv, NEW c \in Changes, Walk(c)
  PROVE  /\ change'[c].at = "walk" => ClimbedTo(change'[c])
         /\ change'[c].at = "current" => ClosesNone(change'[c])
         /\ change'[c].at # "write"
         /\ change'[c].at # "idle" => change'[c].terms = change[c].terms
<1> DEFINE walk == change[c]
           next == IF walk.cursor \in Hired THEN cache[walk.cursor].manager ELSE NoOne
           on == [walk EXCEPT !.cursor = next, !.seen = @ \union {walk.cursor}]
<1>1. /\ walk \in ChangeState /\ walk.at = "walk" /\ ClimbedTo(walk) /\ TypeOK
      /\ change'[c] = IF walk.cursor = walk.employee THEN Idle
           ELSE IF walk.cursor \in walk.seen \/ next = NoOne THEN Passed(walk) ELSE on
  BY DEF CInv, IInv, TypeOK, WalksTell, Walk, Await
<1>2. CASE walk.cursor = walk.employee
  BY <1>1, <1>2 DEF Idle
<1>3. CASE walk.cursor # walk.employee /\ (walk.cursor \in walk.seen \/ next = NoOne)
  <2>1. /\ Passed(walk).at = "current" /\ Passed(walk).employee = walk.employee
        /\ Passed(walk).terms = walk.terms
    BY DEF Passed
  <2>2. ASSUME NEW circle \in SUBSET Hired, Closing(circle, walk) PROVE FALSE
    <3>1. walk.cursor \in circle /\ Above(walk.cursor) # {} /\ walk.cursor \in Hired
      BY <1>1, <1>3, <2>2 DEF ClimbedTo, Closing
    <3>2. next # NoOne
      BY <3>1 DEF Above
    <3>3. walk.cursor \in walk.seen
      BY <1>3, <3>2
    <3>4. /\ walk.seen \in (SUBSET Hired) \ {{}}
          /\ \A e \in walk.seen : Above(e) # {} /\ Above(e) \subseteq walk.seen
      BY <1>1, <3>3 DEF ClimbedTo
    <3> QED
      BY <3>4 DEF CInv, NoReportingCycle
  <2>3. ClosesNone(Passed(walk))
    BY <2>1, <2>2 DEF ClosesNone, Closing
  <2> QED
    BY <1>1, <1>3, <2>1, <2>3
<1>4. CASE walk.cursor # walk.employee /\ walk.cursor \notin walk.seen /\ next # NoOne
  <2>1. /\ on.at = "walk" /\ on.employee = walk.employee /\ on.terms = walk.terms
        /\ on.cursor = next /\ on.seen = walk.seen \union {walk.cursor}
    BY <1>1 DEF ChangeState, Idle
  <2>2. walk.cursor \in Hired /\ Above(walk.cursor) = {next}
    BY <1>4 DEF Above
  <2>3. on.employee \notin on.seen /\ on.seen \subseteq Hired
    BY <1>1, <1>4, <2>1, <2>2 DEF ClimbedTo
  <2>4. \A e \in on.seen : Above(e) # {} /\ Above(e) \subseteq on.seen \union {on.cursor}
    BY <1>1, <2>1, <2>2 DEF ClimbedTo
  <2>5. ASSUME NEW circle \in SUBSET Hired, Closing(circle, on) PROVE on.cursor \in circle
    <3>1. Closing(circle, walk)
      BY <2>1, <2>5 DEF Closing
    <3>2. walk.cursor \in circle /\ Above(walk.cursor) \subseteq circle
      BY <1>1, <1>4, <3>1 DEF ClimbedTo, Closing
    <3> QED
      BY <2>1, <2>2, <3>2
  <2>6. ClimbedTo(on)
    BY <2>3, <2>4, <2>5 DEF ClimbedTo
  <2>7. change'[c] = on
    BY <1>1, <1>4
  <2> HIDE DEF on
  <2> QED
    BY <2>1, <2>6, <2>7
<1> QED
  BY <1>2, <1>3, <1>4

\* The steps that only read leave the chart as it is.
LEMMA ReadCInv ==
  ASSUME OneChange, CInv, NEW c \in Changes,
         BeginHire(c) \/ BeginChange(c) \/ Walk(c) \/ ReadCurrent(c)
  PROVE  CInv'
<1>0. IInv' /\ TypeOK /\ \A d \in Changes : d = c
  BY NextIInv DEF CInv, IInv, OneChange, Next
<1>1. UNCHANGED <<career, cache>> /\ Hired' = Hired
  BY DEF BeginHire, BeginChange, Walk, ReadCurrent, Hired
<1>2. /\ change'[c].at # "idle" => change'[c].terms.manager \in Hired \union {NoOne}
      /\ change'[c].at = "walk" => ClimbedTo(change'[c])
      /\ change'[c].at \in {"current", "write"} => ClosesNone(change'[c])
  <2>1. CASE BeginHire(c)
    <3>1. PICK e \in Employees \ Hired, terms \in Terms, from \in Day :
            /\ ManagerExists(terms.manager)
            /\ Await(c, [at |-> "hire", employee |-> e, terms |-> terms, from |-> from])
      BY <2>1 DEF BeginHire
    <3>2. change'[c] = [at |-> "hire", employee |-> e, terms |-> terms, from |-> from]
      BY <1>0, <3>1 DEF Await, TypeOK
    <3> QED
      BY <3>1, <3>2 DEF ManagerExists
  <2>2. CASE BeginChange(c)
    <3>1. PICK e \in Hired \ archived, terms \in Terms, from \in Day :
            /\ ManagerExists(terms.manager)
            /\ Await(c,
                 IF terms.manager = NoOne
                 THEN [at |-> "current", employee |-> e, terms |-> terms, from |-> from]
                 ELSE [at |-> "walk", employee |-> e, terms |-> terms, from |-> from,
                       cursor |-> terms.manager, seen |-> {}])
      BY <2>2 DEF BeginChange
    <3>2. CASE terms.manager = NoOne
      <4>1. change'[c] = [at |-> "current", employee |-> e, terms |-> terms, from |-> from]
        BY <1>0, <3>1, <3>2 DEF Await, TypeOK
      <4> QED
        BY <3>2, <4>1, NoOneAssumption DEF ClosesNone, Closing, Hired
    <3>3. CASE terms.manager # NoOne
      <4>1. change'[c] = [at |-> "walk", employee |-> e, terms |-> terms, from |-> from,
                          cursor |-> terms.manager, seen |-> {}]
        BY <1>0, <3>1, <3>3 DEF Await, TypeOK
      <4> QED
        BY <3>1, <3>3, <4>1 DEF ManagerExists, ClimbedTo, Closing
    <3> QED
      BY <3>2, <3>3
  <2>3. CASE Walk(c)
    <3>1. change[c].at # "idle"
      BY <2>3 DEF Walk
    <3> QED
      BY <2>3, <3>1, WalkTells DEF CInv, ManagersHired
  <2>4. CASE ReadCurrent(c)
    <3> DEFINE wish == change[c]
    <3>1. /\ wish.at = "current" /\ ClosesNone(wish)
          /\ wish.terms.manager \in Hired \union {NoOne}
      BY <2>4 DEF CInv, ManagersHired, WalksTell, ReadCurrent
    <3>2. PICK row \in career[wish.employee] :
            Stop(c) \/ Await(c, [at |-> "write", employee |-> wish.employee,
                                 terms |-> wish.terms, from |-> wish.from,
                                 current |-> row.from])
      BY <2>4 DEF ReadCurrent
    <3>3. \/ change'[c] = Idle
          \/ change'[c] = [at |-> "write", employee |-> wish.employee,
                           terms |-> wish.terms, from |-> wish.from,
                           current |-> row.from]
      BY <1>0, <3>2 DEF Stop, Await, TypeOK
    <3> QED
      BY <3>1, <3>3 DEF Idle, ClosesNone, Closing
  <2> QED
    BY <2>1, <2>2, <2>3, <2>4
<1>3. \A e : Above(e)' = Above(e)
  BY <1>1 DEF Above
<1>4. ManagersHired' /\ NoReportingCycle'
  BY <1>0, <1>1, <1>2, <1>3 DEF CInv, ManagersHired, NoReportingCycle
<1>5. WalksTell'
  BY <1>0, <1>1, <1>2, <1>3 DEF WalksTell, ClimbedTo, ClosesNone, Closing
<1> QED
  BY <1>0, <1>4, <1>5 DEF CInv

\* What is written closes no circle: a circle of the new chart is one of the old,
\* or one the walk would have met.
LEMMA WriteCInv ==
  ASSUME OneChange, CInv, NEW c \in Changes, Hire(c) \/ WriteChange(c)
  PROVE  CInv'
<1> DEFINE new == change[c]
<1>0. IInv' /\ IInv /\ TypeOK /\ \A d \in Changes : d = c
  BY NextIInv DEF CInv, IInv, OneChange, Next
<1>a. PICK e, m : e = new.employee /\ m = new.terms.manager
  OBVIOUS
<1>1. /\ e \in Employees /\ new.terms \in Terms /\ new.at # "idle"
      /\ m \in Hired \union {NoOne}
  <2>1. new.at # "idle"
    BY DEF Hire, WriteChange
  <2> QED
    BY <1>0, <1>a, <2>1, ChangeFields DEF CInv, ManagersHired
<1>2. change'[c] = Idle
  BY <1>0 DEF Hire, WriteChange, Stop, Await, TypeOK
<1>3. WalksTell'
  BY <1>0, <1>2 DEF WalksTell, Idle
<1>4. CASE UNCHANGED <<career, cache>>
  <2>1. Hired' = Hired /\ \A f : Above(f)' = Above(f)
    BY <1>4 DEF Hired, Above
  <2> QED
    <3>1. ManagersHired'
      BY <1>0, <1>2, <2>1 DEF CInv, ManagersHired, Idle
    <3>2. NoReportingCycle'
      BY <2>1 DEF CInv, NoReportingCycle
    <3> QED
      BY <1>0, <1>3, <3>1, <3>2 DEF CInv
<1>5. CASE ~UNCHANGED <<career, cache>>
  <2>1. /\ cache' = [cache EXCEPT ![e] = new.terms]
        /\ Hired' = Hired \union {e}
        /\ e \notin Hired \/ ClosesNone(new)
    <3>1. CASE Hire(c)
      BY <1>0, <1>a, <1>1, <1>5, <3>1 DEF Hire, Hired, TypeOK
    <3>2. CASE WriteChange(c)
      <4>1. /\ new.at = "write" /\ cache' = [cache EXCEPT ![e] = new.terms]
            /\ e \in Hired /\ \E history : /\ career' = [career EXCEPT ![e] = history]
                                           /\ history # {}
        BY <1>0, <1>a, <1>1, <1>5, <3>2 DEF WriteChange, Superseded, Hired, TypeOK
      <4>2. Hired' = Hired
        BY <1>0, <4>1 DEF Hired, TypeOK
      <4> QED
        BY <4>1, <4>2 DEF CInv, WalksTell
    <3> QED
      BY <3>1, <3>2
  <2>2. \A f \in Employees : f # e => Above(f)' = Above(f)
    BY <1>0, <2>1 DEF Above, TypeOK
  <2>3. Above(e)' = IF m = NoOne THEN {} ELSE {m}
    <3>1. cache'[e] = new.terms
      BY <1>0, <1>1, <2>1 DEF TypeOK
    <3> QED
      BY <1>a, <3>1 DEF Above
  <2>4. ManagersHired'
    <3>1. \A f \in Hired' : Above(f)' \subseteq Hired'
      BY <1>1, <2>1, <2>2, <2>3 DEF CInv, ManagersHired, Hired
    <3> QED
      BY <1>0, <1>2, <3>1 DEF ManagersHired, Idle
  <2>5. ASSUME NEW circle \in (SUBSET Hired') \ {{}},
               \A f \in circle : Above(f)' # {} /\ Above(f)' \subseteq circle
        PROVE  FALSE
    <3> DEFINE rest == circle \ {e}
    <3>1. \A f \in rest : f \in Hired /\ Above(f) # {} /\ Above(f) \subseteq circle
      BY <2>1, <2>2, <2>5 DEF Hired
    <3>2. CASE e \notin Hired \/ e \notin circle
      <4>1. \A f \in rest : Above(f) \subseteq rest
        BY <3>1, <3>2 DEF CInv, ManagersHired
      <4>2. rest = {}
        BY <3>1, <4>1 DEF CInv, NoReportingCycle
      <4>3. circle = {e} /\ e \notin Hired
        BY <2>5, <3>2, <4>2
      <4>4. Above(e)' # {} /\ Above(e)' \subseteq {e}
        BY <2>5, <4>3
      <4>5. m = e
        BY <2>3, <4>4
      <4> QED
        BY <1>1, <4>3, <4>4, <4>5, <2>3
    <3>3. CASE e \in Hired /\ e \in circle
      <4>1. circle \in SUBSET Hired /\ m \in circle
        BY <2>1, <2>3, <2>5, <3>3
      <4>2. Closing(circle, new)
        BY <1>a, <3>1, <3>3, <4>1 DEF Closing
      <4> QED
        BY <2>1, <3>3, <4>1, <4>2 DEF ClosesNone
    <3> QED
      BY <3>2, <3>3
  <2> QED
    BY <1>0, <1>3, <2>4, <2>5 DEF CInv, NoReportingCycle
<1> QED
  BY <1>4, <1>5

\* With one change of job at a time, in a company of any size, nobody comes to
\* report to themselves, directly or through others.
THEOREM NoCycle == OneChange => (Spec => []NoReportingCycle)
<1> SUFFICES ASSUME OneChange PROVE Spec => []NoReportingCycle
  OBVIOUS
<1>1. Init => CInv
  <2> SUFFICES ASSUME Init PROVE CInv
    OBVIOUS
  <2>1. Hired = {} /\ \A c \in Changes : change[c].at = "idle"
    BY DEF Init, Hired, Idle
  <2> QED
    BY <2>1, InitIInv DEF CInv, NoReportingCycle, ManagersHired, WalksTell
<1>2. CInv /\ [Next]_vars => CInv'
  <2> SUFFICES ASSUME CInv, [Next]_vars PROVE CInv'
    OBVIOUS
  <2>1. CASE UNCHANGED <<career, cache, change>>
    <3>1. IInv' /\ Hired' = Hired /\ \A f : Above(f)' = Above(f)
      BY <2>1, NextIInv DEF CInv, Hired, Above
    <3> QED
      BY <2>1, <3>1
      DEF CInv, NoReportingCycle, ManagersHired, WalksTell, ClimbedTo, ClosesNone, Closing
  <2>2. ASSUME NEW a \in Archivals, CountReports(a) \/ Archive(a)
        PROVE  UNCHANGED <<career, cache, change>>
    BY <2>2 DEF CountReports, Archive
  <2> QED
    BY <2>1, <2>2, ReadCInv, WriteCInv DEF Next, vars
<1>3. CInv => NoReportingCycle
  BY DEF CInv
<1> QED
  BY <1>1, <1>2, <1>3, PTL DEF Spec
=============================================================================
