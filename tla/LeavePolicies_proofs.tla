------------------------ MODULE LeavePolicies_proofs ------------------------
(***************************************************************************)
(* Proofs about LeavePolicies: for any number of types and of racing       *)
(* createVersion calls, a type has one policy a day and no version is      *)
(* rewritten; the periods calculateEntitlement adds up fill the year, their *)
(* rounding stays within half a unit each, and a later version leaves the  *)
(* years before it as they were.                                           *)
(***************************************************************************)
EXTENDS LeavePolicies, TLAPS, FiniteSetTheorems, WellFoundedInduction

-----------------------------------------------------------------------------
(* Sums over a finite set, as MapThenSumSet takes them: one chosen element *)
(* after the other.  The induction theorems of the library take a property *)
(* as parameter; a least counterexample does without.                      *)

\* Of the subsets with a property, one has no smaller one with it.
LEMMA LeastSubset ==
  ASSUME NEW S, IsFiniteSet(S), NEW T, T \subseteq SUBSET S, T # {}
  PROVE  \E s \in T : \A u \in T : u \subseteq s => u = s
<1>1. T \subseteq FiniteSubsetsOf(S)
  BY FS_Subset DEF FiniteSubsetsOf
<1>2. \E s \in T : \A u \in T : ~(<<u, s>> \in StrictSubsetOrdering(S))
  BY <1>1, FS_StrictSubsetOrderingWellFounded, WFMin, Zenon
<1> QED
  BY <1>2 DEF StrictSubsetOrdering

Chosen(s) == CHOOSE x \in s : TRUE

\* f adds up w over every subset of S.
Adds(f, w, S) ==
  f = [s \in SUBSET S |-> IF s = {} THEN 0 ELSE w[Chosen(s)] + f[s \ {Chosen(s)}]]

\* What is left of a finite set is smaller by one.
LEMMA ChosenRemoved ==
  ASSUME NEW S, IsFiniteSet(S), NEW s \in SUBSET S, s # {}
  PROVE  /\ Chosen(s) \in s /\ IsFiniteSet(s \ {Chosen(s)})
         /\ Cardinality(s) \in Nat /\ Cardinality(s \ {Chosen(s)}) = Cardinality(s) - 1
BY FS_Subset, FS_CardinalityType, FS_RemoveElement DEF Chosen

\* The recursive function of a sum exists: a least set it is not defined on
\* would have a smaller one.
LEMMA AdderExists ==
  ASSUME NEW S, IsFiniteSet(S), NEW w
  PROVE  \E f : Adds(f, w, S)
<1> DEFINE Small(n) == {s \in SUBSET S : Cardinality(s) <= n}
           Rec(f, n) == f = [s \in Small(n) |->
                        IF s = {} THEN 0 ELSE w[Chosen(s)] + f[s \ {Chosen(s)}]]
           Bad == {k \in SUBSET S : ~\E f : Rec(f, Cardinality(k))}
<1>0. \A s \in SUBSET S : /\ IsFiniteSet(s) /\ Cardinality(s) \in Nat
                          /\ Cardinality(s) <= Cardinality(S)
  BY FS_Subset, FS_CardinalityType
<1>1. \A s \in SUBSET S : s # {} =>
        Chosen(s) \in s /\ Cardinality(s \ {Chosen(s)}) = Cardinality(s) - 1
  BY ChosenRemoved
<1>2. Bad = {}
  <2>1. SUFFICES ASSUME Bad # {} PROVE FALSE
    OBVIOUS
  <2>2. PICK k \in Bad : \A u \in Bad : u \subseteq k => u = k
    <3>1. Bad \subseteq SUBSET S
      OBVIOUS
    <3> HIDE DEF Bad
    <3> QED
      BY <2>1, <3>1, LeastSubset
  <2>3. CASE k = {}
    <3>1. \A s \in Small(0) : s = {}
      BY <1>0, FS_EmptySet
    <3>2. Rec([s \in Small(0) |-> 0], 0)
      BY <3>1
    <3> QED
      BY <2>3, <3>2, FS_EmptySet
  <2>4. CASE k # {}
    <3> DEFINE n == Cardinality(k)
    <3>1. n \in Nat /\ Cardinality(k \ {Chosen(k)}) = n - 1 /\ n - 1 \in Nat
      BY <1>0, <1>1, <2>4
    <3>0. k \ {Chosen(k)} \notin Bad /\ k \ {Chosen(k)} \in SUBSET S
      <4>1. k \in SUBSET S
        OBVIOUS
      <4> HIDE DEF Bad
      <4> QED
        BY <1>1, <2>2, <2>4, <4>1
    <3>2. PICK g : Rec(g, n - 1)
      <4> HIDE DEF Rec
      <4> QED
        BY <3>0, <3>1
    <3> DEFINE f == [s \in Small(n) |->
                       IF s = {} THEN 0 ELSE w[Chosen(s)] + g[s \ {Chosen(s)}]]
    <3>3. \A s \in Small(n) :
            s # {} => s \ {Chosen(s)} \in Small(n - 1) /\ s \ {Chosen(s)} \in Small(n)
      BY <1>0, <1>1, <3>1
    <3>4. \A u \in Small(n - 1) : u \in Small(n)
      BY <1>0, <3>1
    <3> HIDE DEF Small, n
    <3>5. \A u \in Small(n - 1) : f[u] = g[u]
      BY <3>2, <3>4
    <3>6. Rec(f, n)
      BY <3>3, <3>5
    <3> QED
      BY <2>2, <3>6 DEF n
  <2> QED
    BY <2>3, <2>4
<1>3. \E f : Rec(f, Cardinality(S))
  BY <1>2
<1>4. Small(Cardinality(S)) = SUBSET S
  BY <1>0
<1> HIDE DEF Small
<1> QED
  BY <1>3, <1>4 DEF Adds

\* Two that add up the same numbers agree on what both add up.
LEMMA AddersAgree ==
  ASSUME NEW S, IsFiniteSet(S), NEW D, NEW E, S \subseteq D, S \subseteq E, NEW w, NEW v,
         \A x \in S : w[x] = v[x],
         NEW f, Adds(f, w, D), NEW g, Adds(g, v, E)
  PROVE  f[S] = g[S]
<1> DEFINE Differ == {s \in SUBSET S : f[s] # g[s]}
<1>1. SUFFICES ASSUME Differ # {} PROVE FALSE
  OBVIOUS
<1>2. PICK s \in Differ : \A u \in Differ : u \subseteq s => u = s
  <2>1. Differ \subseteq SUBSET S
    OBVIOUS
  <2> HIDE DEF Differ
  <2> QED
    BY <1>1, <2>1, LeastSubset
<1>3. /\ f[s] = IF s = {} THEN 0 ELSE w[Chosen(s)] + f[s \ {Chosen(s)}]
      /\ g[s] = IF s = {} THEN 0 ELSE v[Chosen(s)] + g[s \ {Chosen(s)}]
  BY DEF Adds
<1>4. s # {} => Chosen(s) \in s
  BY DEF Chosen
<1> QED
  BY <1>2, <1>3, <1>4

Sum(w, S) == MapThenSumSet(LAMBDA x : w[x], S)

\* Sum is what such a function gives.
LEMMA SumAdds ==
  ASSUME NEW S, IsFiniteSet(S), NEW w
  PROVE  \E f : Adds(f, w, S) /\ Sum(w, S) = f[S]
<1> DEFINE it == CHOOSE f : Adds(f, w, S)
<1>1. Adds(it, w, S)
  BY AdderExists, Zenon
<1>2. Sum(w, S) = it[S]
  BY DEF MapThenSumSet, MapThenFoldSet, Chosen, Sum, Adds
<1> QED
  BY <1>1, <1>2, Zenon

\* The two equations that define a sum.
LEMMA SumEmpty ==
  ASSUME NEW w
  PROVE  Sum(w, {}) = 0
<1>1. PICK f : Adds(f, w, {}) /\ Sum(w, {}) = f[{}]
  BY SumAdds, FS_EmptySet
<1> QED
  BY <1>1 DEF Adds

\* The second equation.
LEMMA SumStep ==
  ASSUME NEW S, IsFiniteSet(S), S # {}, NEW w
  PROVE  Sum(w, S) = w[Chosen(S)] + Sum(w, S \ {Chosen(S)})
<1> DEFINE R == S \ {Chosen(S)}
<1>1. PICK f : Adds(f, w, S) /\ Sum(w, S) = f[S]
  BY SumAdds, Zenon
<1>2. IsFiniteSet(R) /\ R \subseteq S
  BY FS_RemoveElement
<1>3. PICK g : Adds(g, w, R) /\ Sum(w, R) = g[R]
  BY SumAdds, <1>2, Zenon
<1>4. f[R] = g[R]
  <2> HIDE DEF R
  <2> QED
    BY <1>1, <1>2, <1>3, AddersAgree
<1>5. f[S] = w[Chosen(S)] + f[R]
  BY <1>1 DEF Adds
<1> QED
  BY <1>1, <1>3, <1>4, <1>5

\* A sum of integers is an integer.
LEMMA SumType ==
  ASSUME NEW S, IsFiniteSet(S), NEW w, \A x \in S : w[x] \in Int
  PROVE  Sum(w, S) \in Int
<1> DEFINE Bad == {s \in SUBSET S : Sum(w, s) \notin Int}
<1>1. SUFFICES ASSUME Bad # {} PROVE FALSE
  OBVIOUS
<1>2. PICK s \in Bad : \A u \in Bad : u \subseteq s => u = s
  <2>1. Bad \subseteq SUBSET S
    OBVIOUS
  <2> HIDE DEF Bad
  <2> QED
    BY <1>1, <2>1, LeastSubset
<1>3. s # {}
  BY SumEmpty
<1>4. IsFiniteSet(s) /\ Chosen(s) \in s
  BY <1>3, FS_Subset DEF Chosen
<1>5. Sum(w, s) = w[Chosen(s)] + Sum(w, s \ {Chosen(s)})
  BY <1>3, <1>4, SumStep
<1>6. Sum(w, s \ {Chosen(s)}) \in Int
  BY <1>2, <1>4
<1> QED
  BY <1>4, <1>5, <1>6

\* The order in which the elements are chosen does not matter.
LEMMA SumWithout ==
  ASSUME NEW S, IsFiniteSet(S), NEW w, \A x \in S : w[x] \in Int, NEW y \in S
  PROVE  Sum(w, S) = w[y] + Sum(w, S \ {y})
<1> DEFINE Bad == {s \in SUBSET S : \E x \in s : Sum(w, s) # w[x] + Sum(w, s \ {x})}
<1>1. SUFFICES ASSUME Bad # {} PROVE FALSE
  OBVIOUS
<1>2. PICK s \in Bad : \A u \in Bad : u \subseteq s => u = s
  <2>1. Bad \subseteq SUBSET S
    OBVIOUS
  <2> HIDE DEF Bad
  <2> QED
    BY <1>1, <2>1, LeastSubset
<1>3. PICK x \in s : Sum(w, s) # w[x] + Sum(w, s \ {x})
  OBVIOUS
<1> DEFINE c == Chosen(s)
<1>4. IsFiniteSet(s) /\ c \in s /\ s \subseteq S
  BY FS_Subset, <1>3 DEF Chosen
<1>5. Sum(w, s) = w[c] + Sum(w, s \ {c})
  BY <1>3, <1>4, SumStep
<1>6. c # x
  BY <1>3, <1>5
<1>7. \A u \in SUBSET s : IsFiniteSet(u) /\ Sum(w, u) \in Int
  BY <1>4, FS_Subset, SumType
<1>8. \A u \in SUBSET s : u # s => \A z \in u : Sum(w, u) = w[z] + Sum(w, u \ {z})
  BY <1>2, <1>4
<1> HIDE DEF c, Bad
<1>12. Sum(w, s \ {c}) = w[x] + Sum(w, (s \ {c}) \ {x})
  BY <1>4, <1>6, <1>8
<1>9. Sum(w, s \ {x}) = w[c] + Sum(w, (s \ {x}) \ {c})
  BY <1>4, <1>6, <1>8
<1>10. (s \ {c}) \ {x} = (s \ {x}) \ {c}
  OBVIOUS
<1>11. PICK rest \in Int : rest = Sum(w, (s \ {x}) \ {c})
  BY <1>4, <1>7
<1>13. w[x] \in Int /\ w[c] \in Int
  BY <1>4
<1>14. Sum(w, s) = w[c] + (w[x] + rest)
  BY <1>5, <1>12, <1>10, <1>11
<1>15. w[x] + Sum(w, s \ {x}) = w[x] + (w[c] + rest)
  BY <1>9, <1>11
<1> QED
  BY <1>3, <1>11, <1>13, <1>14, <1>15

-----------------------------------------------------------------------------
(* What closing a row and opening its successor does to a history *)

\* A history of one open row has a row for each day from its first.
LEMMA FirstRowTiles ==
  ASSUME NEW What, NEW day \in Day, NEW terms \in What
  PROVE  /\ Opened(day, terms) \in Rows(What)
         /\ IsOpen(Opened(day, terms))
         /\ Tiles({Opened(day, terms)})
BY LastDayAssumption DEF Opened, Rows, IsOpen, Tiles, Covers, OpenEnd, Day

\* Superseding the open row from a later day leaves no day without a row and
\* none with two.
LEMMA SupersededTiles ==
  ASSUME NEW What, NEW history, history \subseteq Rows(What), Tiles(history),
         NEW row \in history, IsOpen(row),
         NEW day \in Day, row.from < day, NEW terms \in What
  PROVE  /\ Superseded(history, row, day, terms) \subseteq Rows(What)
         /\ Tiles(Superseded(history, row, day, terms))
<1> DEFINE closed == Closed(row, day)
           new == Opened(day, terms)
           after == Superseded(history, row, day, terms)
<1>1. /\ closed \in Rows(What) /\ closed.from = row.from /\ closed.to = day - 1
      /\ new \in Rows(What) /\ new.from = day /\ new.to = OpenEnd
  BY LastDayAssumption DEF Rows, Closed, Opened, IsOpen, OpenEnd, Day
<1>2. after = (history \ {row}) \union {closed, new}
  BY DEF Superseded
<1>3. ASSUME NEW a \in history
      PROVE  /\ a.from \in Day /\ a.to \in Int /\ a.from <= a.to
             /\ a # row => a.to < row.from
  BY LastDayAssumption DEF Tiles, Overlap, Rows, IsOpen, OpenEnd, Day
<1> HIDE DEF closed, new, after
<1>4. ASSUME NEW a \in after, NEW b \in after
      PROVE  a.from <= a.to /\ (a # b => ~Overlap(a, b))
  BY <1>1, <1>2, <1>3, LastDayAssumption DEF Tiles, Overlap, OpenEnd, Day
<1>5. ASSUME NEW a \in after, NEW d \in Day, a.from <= d
      PROVE  \E r \in after : Covers(r, d)
  <2>1. CASE day <= d
    BY <1>1, <1>2, <2>1, LastDayAssumption DEF Covers, OpenEnd, Day
  <2>2. CASE d < day
    <3>1. PICK r \in history : Covers(r, d)
      BY <1>1, <1>2, <1>5, <2>2 DEF Tiles, Day
    <3> QED
      BY <1>1, <1>2, <2>2, <3>1 DEF Covers, Day
  <2> QED
    BY <2>1, <2>2 DEF Day
<1> QED
  BY <1>1, <1>2, <1>4, <1>5 DEF Tiles, IsOpen, after

-----------------------------------------------------------------------------
(* The invariant *)

\* A new version starts after the one it read as open.
WritesLater ==
  \A w \in Writers : writer[w].at # "idle" => writer[w].open < writer[w].from

IInv == TypeOK /\ VersionsTile /\ WritesLater

\* Nothing is created at the start.
LEMMA InitIInv == Init => IInv
BY LastDayAssumption
DEF Init, IInv, TypeOK, VersionsTile, WritesLater, Created, WriterState, Idle, Day

\* What TypeOK says of a writer under way.
LEMMA WriterFields ==
  ASSUME TypeOK, NEW w \in Writers, writer[w].at # "idle"
  PROVE  /\ writer[w].type \in LeaveTypes /\ writer[w].quota \in Quotas
         /\ writer[w].from \in Day /\ writer[w].open \in Day
<1>1. writer[w] \in WriterState
  BY DEF TypeOK
<1> QED
  BY <1>1 DEF WriterState, Idle

\* Steps that write no version.
LEMMA Frame ==
  ASSUME IInv, UNCHANGED versions,
         prorationMethod' \in [LeaveTypes -> ProrationMethod],
         NEW w \in Writers, NEW state \in WriterState,
         state.at # "idle" => state.open < state.from,
         Await(w, state)
  PROVE  IInv'
<1>1. writer' \in [Writers -> WriterState]
  BY DEF IInv, TypeOK, Await
<1>2. WritesLater'
  BY DEF IInv, TypeOK, WritesLater, Await
<1> QED
  BY <1>1, <1>2 DEF IInv, TypeOK, VersionsTile, Created

\* One type's versions are written, and tile.
LEMMA Written ==
  ASSUME IInv, NEW t \in LeaveTypes, NEW history \in SUBSET Rows(Quotas),
         Tiles(history), versions' = [versions EXCEPT ![t] = history]
  PROVE  versions' \in [LeaveTypes -> SUBSET Rows(Quotas)] /\ VersionsTile'
BY DEF IInv, TypeOK, VersionsTile, Created

\* A type is created with a first version that tiles on its own.
LEMMA CreateIInv ==
  ASSUME IInv, NEW t \in LeaveTypes, Create(t)
  PROVE  IInv'
<1>1. PICK quota \in Quotas, from \in Day :
        versions' = [versions EXCEPT ![t] = {Opened(from, quota)}]
  BY DEF Create
<1>2. {Opened(from, quota)} \in SUBSET Rows(Quotas) /\ Tiles({Opened(from, quota)})
  BY <1>1, FirstRowTiles
<1> QED
  BY <1>1, <1>2, Written DEF Create, IInv, TypeOK, WritesLater

\* What the exclusion constraint lets through: the version that was read is
\* still the open one.
LEMMA OpenVersionWritten ==
  ASSUME IInv, NEW t \in Created, NEW row \in versions[t], NEW day \in Day,
         NEW quota \in Quotas,
         NoOverlap(versions[t] \ {row}, Closed(row, day), Opened(day, quota))
  PROVE  IsOpen(row)
<1>1. PICK open \in versions[t] : IsOpen(open)
  BY DEF IInv, VersionsTile, Tiles
<1>2. open \in Rows(Quotas)
  BY DEF IInv, TypeOK, Created
<1>3. Overlap(open, Opened(day, quota))
  BY <1>1, <1>2, LastDayAssumption DEF Overlap, Opened, IsOpen, OpenEnd, Rows, Day
<1>4. open = row
  BY <1>1, <1>3 DEF NoOverlap
<1> QED
  BY <1>1, <1>4

\* All a createVersion can do to the table: close the open version of a type and
\* open the next.
LEMMA WhatIsWritten ==
  ASSUME IInv, NEW w \in Writers, WriteVersion(w)
  PROVE  \/ UNCHANGED versions
         \/ \E t \in Created, day \in Day, quota \in Quotas :
              \E row \in versions[t] :
                /\ IsOpen(row) /\ row.from < day
                /\ versions' = [versions EXCEPT ![t] = Superseded(@, row, day, quota)]
<1> DEFINE new == writer[w]
<1>0. PICK t \in LeaveTypes : t = new.type
  BY WriterFields DEF IInv, WriteVersion
<1>1. /\ t \in LeaveTypes /\ new.quota \in Quotas /\ new.from \in Day
      /\ new.open < new.from
  BY WriterFields DEF IInv, WriteVersion, WritesLater
<1>2. PICK row \in versions[t] :
        /\ row.from = new.open
        /\ IF NoOverlap(versions[t] \ {row}, Closed(row, new.from),
                        Opened(new.from, new.quota))
           THEN versions' = [versions EXCEPT ![t] =
                               Superseded(@, row, new.from, new.quota)]
           ELSE UNCHANGED versions
  BY <1>0 DEF WriteVersion
<1>3. CASE ~UNCHANGED versions
  <2>1. t \in Created
    BY <1>2 DEF Created
  <2>2. IsOpen(row)
    BY <1>1, <1>2, <1>3, <2>1, OpenVersionWritten
  <2> QED
    BY <1>1, <1>2, <1>3, <2>1, <2>2
<1> QED
  BY <1>3

\* What a write leaves in the table, and that it rewrites nothing.
LEMMA WriteKeeps ==
  ASSUME IInv, NEW w \in Writers, WriteVersion(w)
  PROVE  /\ versions' \in [LeaveTypes -> SUBSET Rows(Quotas)]
         /\ VersionsTile'
         /\ \A t \in LeaveTypes : Kept(versions[t], versions'[t])
<1>1. CASE UNCHANGED versions
  BY <1>1 DEF IInv, TypeOK, VersionsTile, Created, Kept
<1>2. CASE ~UNCHANGED versions
  <2>1. PICK t \in Created, day \in Day, quota \in Quotas :
          \E row \in versions[t] :
            /\ IsOpen(row) /\ row.from < day
            /\ versions' = [versions EXCEPT ![t] = Superseded(@, row, day, quota)]
    BY <1>2, WhatIsWritten
  <2>2. PICK row \in versions[t] :
          /\ IsOpen(row) /\ row.from < day
          /\ versions' = [versions EXCEPT ![t] = Superseded(@, row, day, quota)]
    BY <2>1
  <2> DEFINE history == Superseded(versions[t], row, day, quota)
  <2>3. t \in LeaveTypes /\ versions[t] \subseteq Rows(Quotas) /\ Tiles(versions[t])
    BY DEF IInv, TypeOK, VersionsTile, Created
  <2>4. history \in SUBSET Rows(Quotas) /\ Tiles(history)
    BY <2>2, <2>3, SupersededTiles
  <2>5. Kept(versions[t], history)
    <3>1. Closed(row, day) \in history /\ \A q \in versions[t] \ {row} : q \in history
      BY DEF Superseded
    <3>2. /\ Closed(row, day).from = row.from
          /\ Closed(row, day).terms = row.terms
      BY <2>3 DEF Closed, Rows
    <3> QED
      BY <2>2, <3>1, <3>2 DEF Kept
  <2>6. versions' = [versions EXCEPT ![t] = history]
    BY <2>2
  <2> HIDE DEF history
  <2>7. \A u \in LeaveTypes : versions'[u] = IF u = t THEN history ELSE versions[u]
    BY <2>3, <2>6 DEF IInv, TypeOK
  <2> QED
    BY <2>3, <2>4, <2>5, <2>6, <2>7, Written DEF Kept
<1> QED
  BY <1>1, <1>2

\* Each step of createVersion keeps the invariant.
LEMMA WriterIInv ==
  ASSUME IInv, NEW w \in Writers, ReadOpen(w) \/ CheckClash(w) \/ WriteVersion(w)
  PROVE  IInv'
<1>1. UNCHANGED prorationMethod /\ Idle \in WriterState
  BY DEF ReadOpen, CheckClash, WriteVersion, WriterState
<1>2. CASE ReadOpen(w)
  <2>0. PICK t \in Created, quota \in Quotas, from \in Day :
          \E open \in versions[t] :
            /\ from > open.from
            /\ Await(w, [at |-> "read", type |-> t, quota |-> quota, from |-> from,
                         open |-> open.from])
    BY <1>2 DEF ReadOpen
  <2>1. PICK open \in versions[t] :
          /\ from > open.from
          /\ Await(w, [at |-> "read", type |-> t, quota |-> quota, from |-> from,
                       open |-> open.from])
    BY <2>0
  <2>2. t \in LeaveTypes /\ open.from \in Day
    BY DEF IInv, TypeOK, Created, Rows
  <2>3. [at |-> "read", type |-> t, quota |-> quota, from |-> from,
         open |-> open.from] \in WriterState
    BY <2>2 DEF WriterState
  <2>4. open.from < from
    BY <2>1, <2>2 DEF Day
  <2> QED
    BY <1>1, <1>2, <2>1, <2>3, <2>4, Frame DEF ReadOpen, IInv, TypeOK
<1>3. CASE CheckClash(w)
  <2> DEFINE checked == [writer[w] EXCEPT !.at = "checked"]
  <2>1. writer[w] \in WriterState /\ writer[w].at = "read"
        /\ writer[w].open < writer[w].from
    BY <1>3 DEF CheckClash, IInv, TypeOK, WritesLater
  <2>2. checked \in WriterState /\ checked.open < checked.from
    BY <2>1 DEF WriterState, Idle
  <2>3. Await(w, Idle) \/ Await(w, checked)
    BY <1>3 DEF CheckClash
  <2>4. UNCHANGED versions
    BY <1>3 DEF CheckClash
  <2> QED
    BY <1>1, <2>2, <2>3, <2>4, Frame DEF IInv, TypeOK, Idle
<1>4. CASE WriteVersion(w)
  <2>1. writer' \in [Writers -> WriterState] /\ WritesLater'
    BY <1>1, <1>4 DEF WriteVersion, IInv, TypeOK, WritesLater, Await, Idle
  <2> QED
    BY <1>1, <1>4, <2>1, WriteKeeps DEF IInv, TypeOK
<1> QED
  BY <1>2, <1>3, <1>4

\* One step for each action.
LEMMA NextIInv == IInv /\ [Next]_vars => IInv'
<1> SUFFICES ASSUME IInv, [Next]_vars PROVE IInv'
  OBVIOUS
<1>1. ASSUME NEW t \in LeaveTypes, Update(t) PROVE IInv'
  <2>1. prorationMethod' \in [LeaveTypes -> ProrationMethod]
    BY <1>1 DEF Update, IInv, TypeOK
  <2> QED
    BY <1>1, <2>1 DEF Update, IInv, TypeOK, VersionsTile, Created, WritesLater
<1>2. CASE UNCHANGED vars
  BY <1>2 DEF vars, IInv, TypeOK, VersionsTile, Created, WritesLater
<1> QED
  BY <1>1, <1>2, CreateIInv, WriterIInv DEF Next

-----------------------------------------------------------------------------
(* Years and periods *)

\* min and max as daysInPeriod uses them.
LEMMA MinOfTwo ==
  ASSUME NEW a \in Int, NEW b \in Int
  PROVE  Min({a, b}) = IF a <= b THEN a ELSE b
BY DEF Min

\* The other of the two.
LEMMA MaxOfTwo ==
  ASSUME NEW a \in Int, NEW b \in Int
  PROVE  Max({a, b}) = IF a <= b THEN b ELSE a
BY DEF Max

\* The days of a year.
LEMMA YearBounds ==
  ASSUME NEW year \in Year
  PROVE  /\ year \in Nat /\ yearStart(year) \in Day /\ yearEnd(year) \in Day
         /\ yearEnd(year) = yearStart(year) + DaysInYear - 1
         /\ yearStart(year) <= yearEnd(year)
<1>1. DaysInYear \in Nat /\ DaysInYear > 0 /\ LastDay \in Nat /\ LastDay > 0
  BY PolicyAssumption, LastDayAssumption
<1>2. year \in Nat /\ year >= 1 /\ year <= LastDay \div DaysInYear
  BY <1>1 DEF Year
<1> PICK q \in Nat : q = LastDay \div DaysInYear
  BY <1>1
<1>3. q * DaysInYear <= LastDay
  BY <1>1
<1>4. year * DaysInYear <= q * DaysInYear
  BY <1>1, <1>2
<1>5. (year - 1) * DaysInYear = year * DaysInYear - DaysInYear
  BY <1>1, <1>2
<1>6. (year - 1) * DaysInYear \in Nat /\ year * DaysInYear \in Nat
  BY <1>1, <1>2
<1> QED
  BY <1>1, <1>2, <1>3, <1>4, <1>5, <1>6 DEF yearStart, yearEnd, Day

Period(row, year) == {d \in yearStart(year) .. yearEnd(year) : Covers(row, d)}

\* daysInPeriod is the number of days of the year the row is in force.
LEMMA DaysAreCounted ==
  ASSUME NEW year \in Year, NEW row \in Rows(Quotas),
         row.from <= yearEnd(year), row.to >= yearStart(year), row.from <= row.to
  PROVE  /\ daysInPeriod(row, year) \in Nat \ {0}
         /\ IsFiniteSet(Period(row, year))
         /\ Cardinality(Period(row, year)) = daysInPeriod(row, year)
<1> DEFINE lo == Max({row.from, yearStart(year)})
           hi == Min({row.to, yearEnd(year)})
<1>1. /\ row.from \in Int /\ row.to \in Int
      /\ yearStart(year) \in Int /\ yearEnd(year) \in Int
      /\ yearStart(year) <= yearEnd(year)
  BY YearBounds, LastDayAssumption DEF Rows, Day, OpenEnd
<1>2. /\ lo = IF row.from <= yearStart(year) THEN yearStart(year) ELSE row.from
      /\ hi = IF row.to <= yearEnd(year) THEN row.to ELSE yearEnd(year)
  BY <1>1, MinOfTwo, MaxOfTwo
<1>3. lo \in Int /\ hi \in Int /\ lo <= hi
  <2> HIDE DEF lo, hi
  <2> QED
    BY <1>1, <1>2
<1>4. Period(row, year) = lo .. hi
  <2> HIDE DEF lo, hi
  <2> QED
    BY <1>1, <1>2 DEF Period, Covers
<1>5. IsFiniteSet(lo .. hi) /\ Cardinality(lo .. hi) = hi - lo + 1
  <2> HIDE DEF lo, hi
  <2> QED
    BY <1>3, FS_Interval
<1>6. daysInPeriod(row, year) = hi - lo + 1
  BY DEF daysInPeriod
<1> HIDE DEF lo, hi
<1> QED
  BY <1>3, <1>4, <1>5, <1>6

\* Finitely many versions.
LEMMA VersionsFinite ==
  ASSUME IInv, NEW t \in Created
  PROVE  /\ IsFiniteSet(versions[t]) /\ Tiles(versions[t])
         /\ versions[t] \subseteq Rows(Quotas)
<1>1. versions[t] \subseteq Rows(Quotas) /\ Tiles(versions[t])
  BY DEF IInv, TypeOK, VersionsTile, Created
<1> DEFINE f == [row \in versions[t] |-> row.from]
<1>2. f \in [versions[t] -> Day]
  BY <1>1 DEF Rows
<1>3. ASSUME NEW a \in versions[t], NEW b \in versions[t], a.from = b.from
      PROVE  a = b
  BY <1>1, <1>3, LastDayAssumption DEF Tiles, Overlap, Rows, Day, OpenEnd
<1>4. f \in Injection(versions[t], Day)
  BY <1>2, <1>3 DEF Injection, IsInjective
<1>5. IsFiniteSet(Day)
  BY FS_Interval, LastDayAssumption DEF Day
<1> QED
  BY <1>1, <1>4, <1>5, FS_Injection

-----------------------------------------------------------------------------
(* The sums of a year *)

\* The numbers calculateEntitlement and the properties add up, as functions.
Lengths(year) == [row \in Rows(Quotas) |-> daysInPeriod(row, year)]
Contributions(year) == [row \in Rows(Quotas) |-> contribution(row, year)]
Exact(year) == [row \in Rows(Quotas) |-> row.terms * daysInPeriod(row, year)]

\* A function that adds up w is the one a sum is taken with.
LEMMA SumIs ==
  ASSUME NEW S, IsFiniteSet(S), NEW w, NEW f, Adds(f, w, S)
  PROVE  f[S] = Sum(w, S)
<1>1. PICK g : Adds(g, w, S) /\ Sum(w, S) = g[S]
  BY SumAdds, Zenon
<1> QED
  BY <1>1, AddersAgree

\* The three sums calculateEntitlement is judged by, as Sum: of the lengths,
LEMMA LengthsAddUp ==
  ASSUME NEW S \in SUBSET Rows(Quotas), IsFiniteSet(S), NEW year
  PROVE  MapThenSumSet(LAMBDA row : daysInPeriod(row, year), S) = Sum(Lengths(year), S)
<1> DEFINE Of(f) == f = [s \in SUBSET S |->
             IF s = {} THEN 0 ELSE daysInPeriod(Chosen(s), year) + f[s \ {Chosen(s)}]]
           it == CHOOSE f : Of(f)
<1>1. \A f : Of(f) <=> Adds(f, Lengths(year), S)
  <2>1. \A s \in SUBSET S : s # {} =>
          Lengths(year)[Chosen(s)] = daysInPeriod(Chosen(s), year)
    BY DEF Lengths, Chosen
  <2> QED
    BY <2>1 DEF Adds
<1>2. \E f : Of(f)
  <2> HIDE DEF Of
  <2> QED
    BY <1>1, AdderExists, Zenon
<1>3. Of(it)
  <2> HIDE DEF Of
  <2> QED
    BY <1>2, Zenon
<1>4. MapThenSumSet(LAMBDA row : daysInPeriod(row, year), S) = it[S]
  BY DEF MapThenSumSet, MapThenFoldSet, Chosen
<1> HIDE DEF it, Of
<1> QED
  BY <1>1, <1>3, <1>4, SumIs

\* of the rounded contributions,
LEMMA ContributionsAddUp ==
  ASSUME NEW S \in SUBSET Rows(Quotas), IsFiniteSet(S), NEW year
  PROVE  MapThenSumSet(LAMBDA row : contribution(row, year), S)
           = Sum(Contributions(year), S)
<1> DEFINE Of(f) == f = [s \in SUBSET S |->
             IF s = {} THEN 0 ELSE contribution(Chosen(s), year) + f[s \ {Chosen(s)}]]
           it == CHOOSE f : Of(f)
<1>1. \A f : Of(f) <=> Adds(f, Contributions(year), S)
  <2>1. \A s \in SUBSET S : s # {} =>
          Contributions(year)[Chosen(s)] = contribution(Chosen(s), year)
    BY DEF Contributions, Chosen
  <2> QED
    BY <2>1 DEF Adds
<1>2. \E f : Of(f)
  <2> HIDE DEF Of
  <2> QED
    BY <1>1, AdderExists, Zenon
<1>3. Of(it)
  <2> HIDE DEF Of
  <2> QED
    BY <1>2, Zenon
<1>4. MapThenSumSet(LAMBDA row : contribution(row, year), S) = it[S]
  BY DEF MapThenSumSet, MapThenFoldSet, Chosen
<1> HIDE DEF it, Of
<1> QED
  BY <1>1, <1>3, <1>4, SumIs

\* and of what they would be without rounding.
LEMMA ExactAddsUp ==
  ASSUME NEW S \in SUBSET Rows(Quotas), IsFiniteSet(S), NEW year
  PROVE  MapThenSumSet(LAMBDA row : row.terms * daysInPeriod(row, year), S)
           = Sum(Exact(year), S)
<1> DEFINE Of(f) == f = [s \in SUBSET S |->
             IF s = {} THEN 0
             ELSE Chosen(s).terms * daysInPeriod(Chosen(s), year) + f[s \ {Chosen(s)}]]
           it == CHOOSE f : Of(f)
<1>1. \A f : Of(f) <=> Adds(f, Exact(year), S)
  <2>1. \A s \in SUBSET S : s # {} =>
          Exact(year)[Chosen(s)] = Chosen(s).terms * daysInPeriod(Chosen(s), year)
    BY DEF Exact, Chosen
  <2> QED
    BY <2>1 DEF Adds
<1>2. \E f : Of(f)
  <2> HIDE DEF Of
  <2> QED
    BY <1>1, AdderExists, Zenon
<1>3. Of(it)
  <2> HIDE DEF Of
  <2> QED
    BY <1>2, Zenon
<1>4. MapThenSumSet(LAMBDA row : row.terms * daysInPeriod(row, year), S) = it[S]
  BY DEF MapThenSumSet, MapThenFoldSet, Chosen
<1> HIDE DEF it, Of
<1> QED
  BY <1>1, <1>3, <1>4, SumIs

\* The periods of rows that do not overlap are disjoint: their lengths add up
\* to the number of days in them.
LEMMA LengthsCountDays ==
  ASSUME NEW year \in Year, NEW S \in SUBSET Rows(Quotas), IsFiniteSet(S),
         \A row \in S : /\ row.from <= yearEnd(year) /\ row.to >= yearStart(year)
                        /\ row.from <= row.to,
         \A a, b \in S : a # b => ~Overlap(a, b)
  PROVE  Sum(Lengths(year), S) = Cardinality(UNION {Period(row, year) : row \in S})
<1> DEFINE Union(s) == UNION {Period(row, year) : row \in s}
           Good(s) == /\ IsFiniteSet(Union(s))
                      /\ Sum(Lengths(year), s) = Cardinality(Union(s))
           Bad == {s \in SUBSET S : ~Good(s)}
<1>1. SUFFICES ASSUME Bad # {} PROVE FALSE
  OBVIOUS
<1>2. PICK s \in Bad : \A u \in Bad : u \subseteq s => u = s
  <2>1. Bad \subseteq SUBSET S
    OBVIOUS
  <2> HIDE DEF Bad
  <2> QED
    BY <1>1, <2>1, LeastSubset
<1>3. s # {}
  <2>1. Union({}) = {}
    OBVIOUS
  <2>2. Good({})
    BY <2>1, SumEmpty, FS_EmptySet
  <2> HIDE DEF Good
  <2> QED
    BY <2>2
<1>4. PICK row \in s : TRUE
  BY <1>3
<1> DEFINE rest == s \ {row}
<1>5. rest \in SUBSET S /\ s \in SUBSET S /\ row \in S /\ IsFiniteSet(s)
  BY FS_Subset
<1>6. Good(rest)
  <2> HIDE DEF Good
  <2> QED
    BY <1>2, <1>4, <1>5
<1>7. /\ Lengths(year)[row] = daysInPeriod(row, year) /\ daysInPeriod(row, year) \in Nat
      /\ IsFiniteSet(Period(row, year))
      /\ Cardinality(Period(row, year)) = daysInPeriod(row, year)
  BY <1>5, DaysAreCounted DEF Lengths
<1>8. Union(s) = Union(rest) \union Period(row, year)
  BY <1>4
<1>9. Union(rest) \cap Period(row, year) = {}
  <2>1. ASSUME NEW other \in rest, NEW d \in Int, Covers(other, d), Covers(row, d)
        PROVE  FALSE
    <3>1. other \in Rows(Quotas) /\ row \in Rows(Quotas) /\ ~Overlap(other, row)
      BY <1>5
    <3> QED
      BY <2>1, <3>1, LastDayAssumption DEF Rows, Overlap, Covers, Day, OpenEnd
  <2>2. yearStart(year) .. yearEnd(year) \subseteq Int
    BY YearBounds DEF Day
  <2> QED
    BY <2>1, <2>2 DEF Period
<1>10. /\ IsFiniteSet(Union(s))
       /\ Cardinality(Union(s)) = Cardinality(Union(rest)) + daysInPeriod(row, year)
  <2> PICK A, B : A = Union(rest) /\ B = Period(row, year)
    OBVIOUS
  <2> HIDE DEF Union
  <2>1. IsFiniteSet(A) /\ IsFiniteSet(B) /\ Cardinality(A \cap B) = 0
    BY <1>6, <1>7, <1>9, FS_EmptySet
  <2>2. /\ IsFiniteSet(A \union B)
        /\ Cardinality(A \union B) = Cardinality(A) + Cardinality(B) - Cardinality(A \cap B)
    BY <2>1, FS_Union
  <2>3. Cardinality(A) \in Nat
    BY <2>1, FS_CardinalityType
  <2> QED
    BY <2>1, <2>2, <2>3, <1>7, <1>8
<1>11. Sum(Lengths(year), s) = Lengths(year)[row] + Sum(Lengths(year), rest)
  <2>1. \A x \in s : Lengths(year)[x] \in Int
    BY DaysAreCounted DEF Lengths
  <2> QED
    BY <1>5, <2>1, SumWithout
<1>12. Cardinality(Union(rest)) \in Nat
  BY <1>6, FS_CardinalityType
<1>13. Good(s)
  <2> HIDE DEF Union, rest
  <2> QED
    BY <1>6, <1>7, <1>10, <1>11, <1>12
<1> QED
  BY <1>13

\* A set of days has a first.
LEMMA LeastDay ==
  ASSUME NEW T, T \subseteq Day, T # {}
  PROVE  \E d \in T : \A e \in T : d <= e
<1> DEFINE Upto(d) == {e \in Day : e <= d}
           I == {s \in SUBSET Day : \E d \in T : s = Upto(d)}
<1>1. IsFiniteSet(Day) /\ Day \subseteq Int
  BY FS_Interval, LastDayAssumption DEF Day
<1>2. I \subseteq SUBSET Day /\ I # {}
  OBVIOUS
<1>3. PICK F : F = I
  OBVIOUS
<1>4. PICK s \in F : \A u \in F : u \subseteq s => u = s
  <2>1. F \subseteq SUBSET Day /\ F # {}
    BY <1>2, <1>3
  <2>2. IsFiniteSet(Day)
    BY <1>1
  <2> HIDE DEF I, Upto
  <2> QED
    BY <2>1, <2>2, LeastSubset
<1>5. PICK d \in T : s = Upto(d)
  BY <1>3
<1>6. ASSUME NEW e \in T, e < d PROVE FALSE
  <2>1. e \in Day /\ d \in Day /\ e \in Int /\ d \in Int
    BY <1>1
  <2>2. Upto(e) \subseteq s /\ Upto(e) \in F
    <3>1. \A k \in Day : k <= e => k <= d
      BY <1>1, <1>6, <2>1
    <3> QED
      BY <1>3, <1>5, <3>1
  <2>3. d \in s /\ d \notin Upto(e)
    BY <1>5, <1>6, <2>1
  <2> HIDE DEF Upto
  <2> QED
    BY <1>4, <2>2, <2>3
<1> QED
  BY <1>1, <1>6

\* What calculateEntitlement adds up of a type.
LEMMA PoliciesOfYear ==
  ASSUME IInv, NEW t \in Created, NEW year \in Year
  PROVE  /\ PoliciesIn(t, year) \in SUBSET Rows(Quotas)
         /\ IsFiniteSet(PoliciesIn(t, year))
         /\ \A row \in PoliciesIn(t, year) :
              /\ row.from <= yearEnd(year) /\ row.to >= yearStart(year)
              /\ row.from <= row.to
         /\ \A a, b \in PoliciesIn(t, year) : a # b => ~Overlap(a, b)
<1>1. PoliciesIn(t, year) \subseteq versions[t]
  BY DEF PoliciesIn
<1>2. IsFiniteSet(PoliciesIn(t, year))
  BY <1>1, VersionsFinite, FS_Subset
<1> QED
  BY <1>1, <1>2, VersionsFinite DEF PoliciesIn, Tiles

\* The periods are disjoint, and each day from the first version is in one.
LEMMA PeriodsFill ==
  ASSUME IInv
  PROVE  PeriodsFillTheYear
<1> SUFFICES ASSUME NEW t \in Created, NEW year \in Year
             PROVE  LET first == Min({row.from : row \in versions[t]})
                        days == Max({0, yearEnd(year) - Max({first, yearStart(year)}) + 1})
                    IN  MapThenSumSet(LAMBDA row : daysInPeriod(row, year),
                                      PoliciesIn(t, year)) = days
  BY DEF PeriodsFillTheYear
<1> DEFINE P == PoliciesIn(t, year)
           firsts == {row.from : row \in versions[t]}
<1>1. MapThenSumSet(LAMBDA row : daysInPeriod(row, year), P)
        = Cardinality(UNION {Period(row, year) : row \in P})
  <2>1. MapThenSumSet(LAMBDA row : daysInPeriod(row, year), P) = Sum(Lengths(year), P)
    BY PoliciesOfYear, LengthsAddUp
  <2>2. Sum(Lengths(year), P) = Cardinality(UNION {Period(row, year) : row \in P})
    BY PoliciesOfYear, LengthsCountDays
  <2> QED
    BY <2>1, <2>2, Zenon
<1>2. /\ versions[t] \subseteq Rows(Quotas) /\ Tiles(versions[t]) /\ versions[t] # {}
      /\ firsts \subseteq Day /\ firsts # {}
  BY VersionsFinite DEF Created, Rows
<1>3. PICK first \in firsts : \A d \in firsts : first <= d
  <2> HIDE DEF firsts
  <2> QED
    BY <1>2, LeastDay
<1>4. Min(firsts) = first /\ first \in Day
  <2> HIDE DEF firsts
  <2>1. first \in Day /\ Day \subseteq Int
    BY <1>2, <1>3 DEF Day
  <2>2. \A d \in firsts : (\A e \in firsts : d <= e) => d = first
    BY <1>2, <1>3, <2>1
  <2> QED
    BY <1>3, <2>1, <2>2 DEF Min
<1> DEFINE lo == IF first <= yearStart(year) THEN yearStart(year) ELSE first
<1>5. UNION {Period(row, year) : row \in P} = lo .. yearEnd(year)
  <2>0. /\ first \in Int /\ yearStart(year) \in Day /\ yearEnd(year) \in Day
        /\ LastDay \in Int /\ Day = 1 .. LastDay
    BY <1>4, YearBounds, LastDayAssumption DEF Day
  <2>1. ASSUME NEW row \in P, NEW d \in Period(row, year)
        PROVE  d \in lo .. yearEnd(year)
    <3>1. /\ first <= row.from /\ row.from <= d /\ row.from \in Day
          /\ d \in yearStart(year) .. yearEnd(year)
      BY <1>2, <1>3, <2>1 DEF PoliciesIn, Period, Covers
    <3> QED
      BY <2>0, <3>1
  <2>2. ASSUME NEW d \in lo .. yearEnd(year)
        PROVE  \E row \in P : d \in Period(row, year)
    <3>1. d \in Day /\ first <= d /\ d \in yearStart(year) .. yearEnd(year)
      BY <2>0
    <3>2. PICK row \in versions[t] : Covers(row, d)
      BY <1>2, <1>3, <3>1 DEF Tiles
    <3>3. row \in P
      <4>1. row.from \in Int /\ row.to \in Int /\ row.from <= d /\ d <= row.to
        BY <1>2, <3>2, <2>0 DEF Covers, Rows, OpenEnd
      <4> QED
        BY <2>0, <3>1, <4>1 DEF PoliciesIn
    <3> QED
      BY <3>1, <3>2, <3>3 DEF Period
  <2> HIDE DEF P, lo
  <2> QED
    BY <2>1, <2>2
<1>6. Cardinality(lo .. yearEnd(year))
        = Max({0, yearEnd(year) - Max({first, yearStart(year)}) + 1})
  <2>1. first \in Int /\ yearStart(year) \in Int /\ yearEnd(year) \in Int
    BY <1>4, YearBounds DEF Day
  <2>2. Max({first, yearStart(year)}) = lo /\ lo \in Int
    BY <2>1, MaxOfTwo
  <2> HIDE DEF lo
  <2>3. yearEnd(year) - lo + 1 \in Int
    BY <2>1, <2>2
  <2>4. Max({0, yearEnd(year) - lo + 1})
          = IF 0 <= yearEnd(year) - lo + 1 THEN yearEnd(year) - lo + 1 ELSE 0
    BY <2>3, MaxOfTwo
  <2>5. Cardinality(lo .. yearEnd(year))
          = IF lo > yearEnd(year) THEN 0 ELSE yearEnd(year) - lo + 1
    BY <2>1, <2>2, FS_Interval
  <2>6. PICK end \in Int, least \in Int : end = yearEnd(year) /\ least = lo
    BY <2>1, <2>2
  <2>7. Cardinality(least .. end) = Max({0, end - least + 1})
    BY <2>4, <2>5, <2>6
  <2> QED
    BY <2>2, <2>6, <2>7
<1> QED
  BY <1>1, <1>4, <1>5, <1>6, Zenon

\* Rounding to the nearest: half a unit off at most.
LEMMA RoundedNear ==
  ASSUME NEW a \in Nat, NEW b \in Nat, b > 0
  PROVE  /\ RoundedQuotient(a, b) \in Nat
         /\ 2 * (RoundedQuotient(a, b) * b) - 2 * a <= b
         /\ 2 * a - 2 * (RoundedQuotient(a, b) * b) <= b
<1> DEFINE n == 2 * a + b
           q == n \div (2 * b)
<1>1. n \in Nat /\ 2 * b \in Nat \ {0} /\ q \in Nat
  OBVIOUS
<1>2. n = (2 * b) * q + (n % (2 * b)) /\ n % (2 * b) \in 0 .. (2 * b - 1)
  BY <1>1
<1>3. (2 * b) * q = 2 * (q * b)
  BY <1>1
<1>4. PICK p \in Nat, r \in Nat : p = q * b /\ r = n % (2 * b)
  BY <1>1, <1>2
<1>5. 2 * a + b = 2 * p + r /\ r < 2 * b
  BY <1>2, <1>3, <1>4
<1> HIDE DEF q
<1>6. RoundedQuotient(a, b) = q
  BY DEF RoundedQuotient, q
<1> QED
  BY <1>1, <1>4, <1>5, <1>6

\* The rounding of the periods does not add up to more than half a unit each.
LEMMA RoundingAddsUp ==
  ASSUME NEW year \in Year, NEW S \in SUBSET Rows(Quotas), IsFiniteSet(S),
         \A row \in S : /\ row.from <= yearEnd(year) /\ row.to >= yearStart(year)
                        /\ row.from <= row.to
  PROVE  /\ Sum(Contributions(year), S) \in Int /\ Sum(Exact(year), S) \in Int
         /\ LET off == 2 * (Sum(Contributions(year), S) * DaysInYear - Sum(Exact(year), S))
                bound == Cardinality(S) * DaysInYear
            IN  off <= bound /\ -off <= bound
<1> DEFINE Near(s) ==
             LET off == 2 * (Sum(Contributions(year), s) * DaysInYear - Sum(Exact(year), s))
                 bound == Cardinality(s) * DaysInYear
             IN  off <= bound /\ -off <= bound
           Bad == {s \in SUBSET S : ~Near(s)}
<1>0. DaysInYear \in Nat /\ DaysInYear > 0
  BY PolicyAssumption
<1>1. ASSUME NEW row \in S
      PROVE  /\ Contributions(year)[row] \in Nat /\ Exact(year)[row] \in Nat
             /\ 2 * (Contributions(year)[row] * DaysInYear) - 2 * Exact(year)[row] <= DaysInYear
             /\ 2 * Exact(year)[row] - 2 * (Contributions(year)[row] * DaysInYear) <= DaysInYear
  <2>1. row \in Rows(Quotas) /\ row.terms \in Nat /\ daysInPeriod(row, year) \in Nat
    BY DaysAreCounted, PolicyAssumption DEF Rows
  <2>2. row.terms * daysInPeriod(row, year) \in Nat
    BY <2>1
  <2>3. /\ Exact(year)[row] = row.terms * daysInPeriod(row, year)
        /\ Contributions(year)[row]
             = RoundedQuotient(row.terms * daysInPeriod(row, year), DaysInYear)
    BY <2>1 DEF Exact, Contributions, contribution
  <2> QED
    BY <1>0, <2>2, <2>3, RoundedNear
<1>2. \A s \in SUBSET S : /\ IsFiniteSet(s) /\ Cardinality(s) \in Nat
                          /\ Sum(Contributions(year), s) \in Int
                          /\ Sum(Exact(year), s) \in Int
  BY <1>1, FS_Subset, FS_CardinalityType, SumType
<1>3. SUFFICES ASSUME Bad # {} PROVE FALSE
  BY <1>2
<1>4. PICK s \in Bad : \A u \in Bad : u \subseteq s => u = s
  <2>1. Bad \subseteq SUBSET S
    OBVIOUS
  <2> HIDE DEF Bad
  <2> QED
    BY <1>3, <2>1, LeastSubset
<1>5. s # {}
  BY <1>0, SumEmpty, FS_EmptySet
<1>6. PICK row \in s : TRUE
  BY <1>5
<1>7. s \in SUBSET S /\ s \ {row} \in SUBSET S /\ row \in S
  OBVIOUS
<1>8. Near(s \ {row})
  <2> HIDE DEF Near
  <2> QED
    BY <1>4, <1>6, <1>7
<1>9. PICK c \in Int, x \in Int, C \in Int, X \in Int, n \in Nat :
        /\ c = Contributions(year)[row] /\ x = Exact(year)[row]
        /\ C = Sum(Contributions(year), s \ {row}) /\ X = Sum(Exact(year), s \ {row})
        /\ n = Cardinality(s \ {row})
  BY <1>1, <1>2, <1>7
<1>10. /\ Sum(Contributions(year), s) = c + C
       /\ Sum(Exact(year), s) = x + X
       /\ Cardinality(s) = n + 1
  <2>1. \A y \in s : Contributions(year)[y] \in Int /\ Exact(year)[y] \in Int
    BY <1>1, <1>7
  <2>2. IsFiniteSet(s)
    BY <1>2, <1>7
  <2>3. Cardinality(s \ {row}) = Cardinality(s) - 1 /\ Cardinality(s) \in Nat
    BY <2>2, <1>2, <1>7, FS_RemoveElement
  <2>4. Sum(Contributions(year), s)
          = Contributions(year)[row] + Sum(Contributions(year), s \ {row})
    BY <2>1, <2>2, SumWithout
  <2>5. Sum(Exact(year), s) = Exact(year)[row] + Sum(Exact(year), s \ {row})
    BY <2>1, <2>2, SumWithout
  <2> HIDE DEF Bad, Near
  <2> QED
    BY <1>9, <2>3, <2>4, <2>5
<1>11. PICK cD \in Int, CD \in Int, nD \in Int :
         cD = c * DaysInYear /\ CD = C * DaysInYear /\ nD = n * DaysInYear
  BY <1>0
<1>12. (c + C) * DaysInYear = cD + CD /\ (n + 1) * DaysInYear = nD + DaysInYear
  BY <1>0, <1>11
<1>13. 2 * cD - 2 * x <= DaysInYear /\ 2 * x - 2 * cD <= DaysInYear
  BY <1>1, <1>7, <1>9, <1>11
<1>14. 2 * (CD - X) <= nD /\ -(2 * (CD - X)) <= nD
  BY <1>8, <1>9, <1>11
<1>15. /\ 2 * (cD + CD - (x + X)) <= nD + DaysInYear
       /\ -(2 * (cD + CD - (x + X))) <= nD + DaysInYear
  BY <1>0, <1>13, <1>14
<1>16. Near(s)
  BY <1>10, <1>12, <1>15
<1> QED
  BY <1>16

\* Rounding loses or gains half a hundredth for each period at most.
LEMMA RoundingStaysBounded ==
  ASSUME IInv
  PROVE  RoundingBounded
<1> SUFFICES ASSUME NEW t \in Created, NEW year \in Year,
                    prorationMethod[t] = "PRORATED_BY_DAYS"
             PROVE  LET policies == PoliciesIn(t, year)
                        exact == MapThenSumSet(
                          LAMBDA row : row.terms * daysInPeriod(row, year), policies)
                        off == 2 * (calculateEntitlement(t, year) * DaysInYear - exact)
                        bound == Cardinality(policies) * DaysInYear
                    IN  off <= bound /\ -off <= bound
  BY DEF RoundingBounded
<1> DEFINE P == PoliciesIn(t, year)
<1>1. P \in SUBSET Rows(Quotas) /\ IsFiniteSet(P)
  BY PoliciesOfYear
<1>2. calculateEntitlement(t, year) = Sum(Contributions(year), P)
  <2>1. CASE P = {}
    BY <2>1, SumEmpty DEF calculateEntitlement
  <2>2. CASE P # {}
    <3>1. calculateEntitlement(t, year)
            = MapThenSumSet(LAMBDA row : contribution(row, year), P)
      BY <2>2 DEF calculateEntitlement
    <3> QED
      BY <1>1, <3>1, ContributionsAddUp
  <2> QED
    BY <2>1, <2>2
<1>3. MapThenSumSet(LAMBDA row : row.terms * daysInPeriod(row, year), P)
        = Sum(Exact(year), P)
  BY <1>1, ExactAddsUp
<1>4. LET off == 2 * (Sum(Contributions(year), P) * DaysInYear - Sum(Exact(year), P))
          bound == Cardinality(P) * DaysInYear
      IN  off <= bound /\ -off <= bound
  BY PoliciesOfYear, RoundingAddsUp
<1> QED
  BY <1>2, <1>3, <1>4, Zenon

-----------------------------------------------------------------------------
(* What a new version leaves as it was *)

\* The versions of a history that are in force in a year.
InForce(history, year) ==
  {row \in history : row.from <= yearEnd(year) /\ row.to >= yearStart(year)}

Entitled(policies, method, year) ==
  IF policies = {} THEN 0
  ELSE IF method = "LATEST_POLICY_IN_YEAR"
  THEN (CHOOSE last \in policies : \A row \in policies : row.from <= last.from).terms
  ELSE MapThenSumSet(LAMBDA row : contribution(row, year), policies)

\* Superseding a version after a year closes it, in that year, where it ended
\* anyway.
LEMMA SupersededInForce ==
  ASSUME NEW history, history \subseteq Rows(Quotas), NEW row \in history, IsOpen(row),
         NEW day \in Day, row.from < day, NEW quota \in Quotas,
         NEW year \in Year, yearEnd(year) < day
  PROVE  /\ Closed(row, day) \in Rows(Quotas)
         /\ Closed(row, day).from = row.from /\ Closed(row, day).terms = row.terms
         /\ InForce(Superseded(history, row, day, quota), year) =
              IF row.from <= yearEnd(year)
              THEN (InForce(history, year) \ {row}) \union {Closed(row, day)}
              ELSE InForce(history, year) \ {row}
         /\ row \in InForce(history, year) <=> row.from <= yearEnd(year)
         /\ row.from <= yearEnd(year)
              => daysInPeriod(Closed(row, day), year) = daysInPeriod(row, year)
<1> DEFINE closed == Closed(row, day)
<1>1. /\ row \in Rows(Quotas) /\ row.from \in Day /\ row.to = OpenEnd
      /\ closed = [from |-> row.from, to |-> day - 1, terms |-> row.terms]
      /\ LastDay \in Nat /\ OpenEnd = LastDay + 1 /\ Day = 1 .. LastDay
  BY LastDayAssumption DEF Rows, Closed, IsOpen, OpenEnd, Day
<1>2. /\ yearStart(year) \in Day /\ yearEnd(year) \in Day
      /\ yearStart(year) <= yearEnd(year)
  BY YearBounds
<1>3. closed \in Rows(Quotas)
  BY <1>1 DEF Rows
<1>4. /\ closed \in InForce({closed}, year) <=> row.from <= yearEnd(year)
      /\ row \in InForce(history, year) <=> row.from <= yearEnd(year)
      /\ Opened(day, quota) \notin InForce({Opened(day, quota)}, year)
  BY <1>1, <1>2 DEF InForce, Opened
<1>5. InForce(Superseded(history, row, day, quota), year) =
        (InForce(history, year) \ {row}) \union InForce({closed}, year)
          \union InForce({Opened(day, quota)}, year)
  BY DEF InForce, Superseded
<1>6. InForce({closed}, year) \subseteq {closed}
      /\ InForce({Opened(day, quota)}, year) \subseteq {Opened(day, quota)}
  BY DEF InForce
<1>7. Min({closed.to, yearEnd(year)}) = Min({row.to, yearEnd(year)})
  <2>1. closed.to \in Int /\ row.to \in Int /\ yearEnd(year) \in Int
    BY <1>1, <1>2
  <2>2. Min({closed.to, yearEnd(year)}) = yearEnd(year)
    BY <1>1, <1>2, <2>1, MinOfTwo
  <2>3. Min({row.to, yearEnd(year)}) = yearEnd(year)
    BY <1>1, <1>2, <2>1, MinOfTwo
  <2> QED
    BY <2>2, <2>3
<1>8. daysInPeriod(closed, year) = daysInPeriod(row, year)
  BY <1>1, <1>7 DEF daysInPeriod
<1> HIDE DEF closed
<1>9. closed.from = row.from /\ closed.terms = row.terms
  BY <1>1
<1> QED
  BY <1>3, <1>4, <1>5, <1>6, <1>8, <1>9 DEF closed

\* One of the policies is the last to begin.
LEMMA GreatestFrom ==
  ASSUME NEW policies, policies \subseteq Rows(Quotas), policies # {}
  PROVE  \E last \in policies : \A row \in policies : row.from <= last.from
<1> DEFINE T == {LastDay + 1 - row.from : row \in policies}
<1>1. \A row \in policies : row.from \in Day
  BY DEF Rows
<1>2. T \subseteq Day /\ T # {}
  BY <1>1, LastDayAssumption DEF Day
<1>3. PICK d \in T : \A e \in T : d <= e
  <2> HIDE DEF T
  <2> QED
    BY <1>2, LeastDay
<1>4. PICK last \in policies : d = LastDay + 1 - last.from
  OBVIOUS
<1>5. ASSUME NEW row \in policies PROVE row.from <= last.from
  <2>1. LastDay + 1 - last.from <= LastDay + 1 - row.from
    BY <1>3, <1>4
  <2> QED
    BY <1>1, <2>1, LastDayAssumption DEF Day
<1> QED
  BY <1>5

\* A contribution is a number of hundredths.
LEMMA ContributionType ==
  ASSUME NEW year \in Year, NEW row \in Rows(Quotas), daysInPeriod(row, year) \in Nat
  PROVE  Contributions(year)[row] \in Nat
<1>0. DaysInYear \in Nat /\ DaysInYear > 0 /\ Quotas \subseteq Nat
  BY PolicyAssumption
<1>1. row.terms \in Nat
  BY <1>0 DEF Rows
<1>2. PICK n \in Nat : n = row.terms * daysInPeriod(row, year)
  BY <1>1
<1>3. Contributions(year)[row] = RoundedQuotient(n, DaysInYear)
  BY <1>2 DEF Contributions, contribution
<1> QED
  BY <1>0, <1>2, <1>3, RoundedNear

\* Closing a version in force changes no entitlement.
LEMMA EntitledAsBefore ==
  ASSUME NEW policies \in SUBSET Rows(Quotas), IsFiniteSet(policies),
         NEW row \in policies, NEW closed \in Rows(Quotas), NEW year \in Year, NEW method,
         \A a, b \in policies : a.from = b.from => a = b,
         \A a \in policies : daysInPeriod(a, year) \in Nat,
         daysInPeriod(row, year) = daysInPeriod(closed, year),
         closed.from = row.from, closed.terms = row.terms
  PROVE  Entitled((policies \ {row}) \union {closed}, method, year)
           = Entitled(policies, method, year)
<1> DEFINE after == (policies \ {row}) \union {closed}
<1>1. after # {} /\ policies # {} /\ IsFiniteSet(after)
  BY FS_RemoveElement, FS_AddElement
<1>2. CASE method = "LATEST_POLICY_IN_YEAR"
  <2> DEFINE Last(ps, r) == r \in ps /\ \A other \in ps : other.from <= r.from
  <2>1. \A p, q : Last(policies, p) /\ Last(policies, q) => p = q
    BY DEF Rows, Day
  <2>2. \A p, q : Last(after, p) /\ Last(after, q) => p = q
    BY DEF Rows, Day
  <2>3. \A p : Last(policies, p) => \E q : Last(after, q) /\ q.terms = p.terms
    OBVIOUS
  <2>4. \A q : Last(after, q) => \E p : Last(policies, p) /\ q.terms = p.terms
    OBVIOUS
  <2>5. PICK p : Last(policies, p)
    BY <1>1, GreatestFrom
  <2>6. PICK q : Last(after, q) /\ q.terms = p.terms
    BY <2>3, <2>5
  <2> HIDE DEF after
  <2>7. (CHOOSE last \in policies : \A other \in policies : other.from <= last.from) = p
    BY <2>1, <2>5
  <2>8. (CHOOSE last \in after : \A other \in after : other.from <= last.from) = q
    BY <2>2, <2>6
  <2>9. Entitled(policies, method, year)
          = (CHOOSE last \in policies : \A other \in policies : other.from <= last.from).terms
    BY <1>1, <1>2, Zenon DEF Entitled
  <2>10. Entitled(after, method, year)
          = (CHOOSE last \in after : \A other \in after : other.from <= last.from).terms
    BY <1>1, <1>2, Zenon DEF Entitled
  <2> QED
    BY <2>6, <2>7, <2>8, <2>9, <2>10 DEF after
<1>3. CASE method # "LATEST_POLICY_IN_YEAR"
  <2> DEFINE C == Contributions(year)
  <2>0. C[closed] = C[row]
    BY DEF Contributions, contribution
  <2>1. \A a \in policies \union {closed} : C[a] \in Int
    <3>1. \A a \in policies : C[a] \in Nat
      BY ContributionType
    <3> QED
      BY <3>1, <2>0
  <2>3. Sum(C, policies) = C[row] + Sum(C, policies \ {row})
    BY <2>1, SumWithout
  <2>4. Sum(C, after) = C[closed] + Sum(C, after \ {closed})
    BY <1>1, <2>1, SumWithout
  <2>5. after \ {closed} = policies \ {row}
    OBVIOUS
  <2>6. Sum(C, after) = Sum(C, policies)
    BY <2>0, <2>3, <2>4, <2>5
  <2> QED
    BY <1>1, <1>3, <2>6, ContributionsAddUp DEF Entitled
<1> QED
  BY <1>2, <1>3

\* A version from a later day leaves the entitlement of a year as it was.
LEMMA SupersededEntitled ==
  ASSUME NEW history, history \subseteq Rows(Quotas),
         IsFiniteSet(history), Tiles(history),
         NEW row \in history, IsOpen(row),
         NEW day \in Day, row.from < day, NEW quota \in Quotas,
         NEW year \in Year, yearEnd(year) < day, NEW method
  PROVE  Entitled(InForce(Superseded(history, row, day, quota), year), method, year)
           = Entitled(InForce(history, year), method, year)
<1> DEFINE P == InForce(history, year)
           closed == Closed(row, day)
<1>1. /\ closed \in Rows(Quotas) /\ closed.from = row.from /\ closed.terms = row.terms
      /\ InForce(Superseded(history, row, day, quota), year) =
           IF row.from <= yearEnd(year) THEN (P \ {row}) \union {closed} ELSE P \ {row}
      /\ row \in P <=> row.from <= yearEnd(year)
      /\ row.from <= yearEnd(year) => daysInPeriod(closed, year) = daysInPeriod(row, year)
  BY SupersededInForce
<1>2. CASE row \notin P
  <2>1. InForce(Superseded(history, row, day, quota), year) = P
    BY <1>1, <1>2
  <2> QED
    BY <2>1, Zenon
<1>3. CASE row \in P
  <2>1. P \subseteq history /\ P \in SUBSET Rows(Quotas) /\ IsFiniteSet(P)
    BY FS_Subset DEF InForce
  <2>2. \A a \in P : daysInPeriod(a, year) \in Nat
    BY DaysAreCounted DEF InForce, Tiles
  <2>3. ASSUME NEW a \in P, NEW b \in P, a.from = b.from PROVE a = b
    <3>1. a \in history /\ b \in history
      BY <2>1
    <3> QED
      BY <2>3, <3>1, LastDayAssumption DEF Tiles, Overlap, Rows, Day, OpenEnd
  <2> HIDE DEF P, closed
  <2>4. Entitled((P \ {row}) \union {closed}, method, year) = Entitled(P, method, year)
    BY <1>1, <1>3, <2>1, <2>2, <2>3, EntitledAsBefore
  <2>5. InForce(Superseded(history, row, day, quota), year) = (P \ {row}) \union {closed}
    BY <1>1, <1>3
  <2> QED
    BY <2>4, <2>5, Zenon DEF P
<1> QED
  BY <1>2, <1>3

\* So does every step that adds no version up to the end of the year.
LEMMA EntitlementStands ==
  ASSUME IInv, [Next]_vars, NEW t \in Created, NEW year \in Year,
         prorationMethod'[t] = prorationMethod[t],
         \A d \in {row.from : row \in versions'[t]} \ {row.from : row \in versions[t]} :
           d > yearEnd(year)
  PROVE  calculateEntitlement(t, year)' = calculateEntitlement(t, year)
<1>1. calculateEntitlement(t, year)
         = Entitled(InForce(versions[t], year), prorationMethod[t], year)
  BY DEF calculateEntitlement, Entitled, PoliciesIn, InForce
<1>2. calculateEntitlement(t, year)'
         = Entitled(InForce(versions'[t], year), prorationMethod'[t], year)
  BY DEF calculateEntitlement, Entitled, PoliciesIn, InForce,
         MapThenSumSet, MapThenFoldSet
<1>3. CASE versions'[t] = versions[t]
  BY <1>1, <1>2, <1>3, Zenon
<1>4. CASE versions'[t] # versions[t]
  <2>0. t \in LeaveTypes
    BY DEF Created
  <2>1. PICK row \in versions[t], day \in Day, quota \in Quotas :
          /\ IsOpen(row) /\ row.from < day
          /\ versions'[t] = Superseded(versions[t], row, day, quota)
    <3>1. PICK w \in Writers : WriteVersion(w)
      BY <1>4, <2>0 DEF Next, vars, Create, Update, ReadOpen, CheckClash, IInv, TypeOK
    <3> QED
      BY <1>4, <2>0, <3>1, WhatIsWritten DEF IInv, TypeOK
  <2>2. /\ versions[t] \subseteq Rows(Quotas)
        /\ Tiles(versions[t]) /\ IsFiniteSet(versions[t])
    BY VersionsFinite
  <2>3. yearEnd(year) < day
    <3>1. Opened(day, quota).from = day /\ Opened(day, quota) \in versions'[t]
      BY <2>1 DEF Superseded, Opened
    <3>2. ASSUME NEW r \in versions[t] PROVE r.from # day
      BY <2>1, <2>2, <3>2, LastDayAssumption
      DEF Tiles, Overlap, Rows, IsOpen, Day, OpenEnd
    <3> QED
      BY <3>1, <3>2, YearBounds DEF Day
  <2>4. Entitled(InForce(versions'[t], year), prorationMethod[t], year)
          = Entitled(InForce(versions[t], year), prorationMethod[t], year)
    BY <2>1, <2>2, <2>3, SupersededEntitled
  <2> QED
    BY <1>1, <1>2, <2>4, Zenon
<1> QED
  BY <1>3, <1>4

-----------------------------------------------------------------------------
(* Theorems *)

\* Policies tile the days of every type, and whoever waits to write a version
\* has read one that begins before it.
THEOREM InvariantHolds == Spec => []IInv
<1> QED
  BY InitIInv, NextIInv, PTL DEF Spec

\* Every variable keeps its type.
THEOREM TypeCorrect == Spec => []TypeOK
<1>1. IInv => TypeOK
  BY DEF IInv
<1> QED
  BY <1>1, InvariantHolds, PTL

\* However many createVersion calls race, a type has one policy for every day
\* since its first.
THEOREM PoliciesTile == Spec => []VersionsTile
<1>1. IInv => VersionsTile
  BY DEF IInv
<1> QED
  BY <1>1, InvariantHolds, PTL

\* No createVersion rewrites a version but to close the open one.
THEOREM PoliciesStand == Spec => VersionsStand
<1>1. ASSUME IInv, [Next]_vars
      PROVE  [\A t \in LeaveTypes : Kept(versions[t], versions'[t])]_vars
  <2>1. ASSUME NEW w \in Writers, WriteVersion(w)
        PROVE  \A t \in LeaveTypes : Kept(versions[t], versions'[t])
    BY <1>1, <2>1, WriteKeeps
  <2>2. ASSUME NEW u \in LeaveTypes, Create(u)
        PROVE  \A t \in LeaveTypes : Kept(versions[t], versions'[t])
    BY <1>1, <2>2 DEF Create, Created, Kept, IInv, TypeOK
  <2>3. ASSUME UNCHANGED versions
        PROVE  \A t \in LeaveTypes : Kept(versions[t], versions'[t])
    BY <2>3 DEF Kept
  <2> QED
    BY <1>1, <2>1, <2>2, <2>3
    DEF Next, Update, ReadOpen, CheckClash, vars
<1> QED
  BY <1>1, InvariantHolds, PTL DEF Spec, VersionsStand
\* The periods of a year add up to its days since the type's first.
THEOREM PeriodsAddUp == Spec => []PeriodsFillTheYear
<1> QED
  BY PeriodsFill, InvariantHolds, PTL

\* The rounding of the periods never adds up to more than half a hundredth each.
THEOREM RoundingStaysNear == Spec => []RoundingBounded
<1> QED
  BY RoundingStaysBounded, InvariantHolds, PTL

\* No createVersion changes the entitlement of a year before its version.
THEOREM EarlierYears == Spec => EarlierYearsStand
<1>1. ASSUME IInv, [Next]_vars
      PROVE  [\A t \in Created, year \in Year :
                LET starts == {row.from : row \in versions'[t]}
                                \ {row.from : row \in versions[t]}
                IN  prorationMethod'[t] = prorationMethod[t]
                    /\ (\A d \in starts : d > yearEnd(year))
                      => calculateEntitlement(t, year)' = calculateEntitlement(t, year)]_vars
  BY <1>1, EntitlementStands
<1> QED
  BY <1>1, InvariantHolds, PTL DEF Spec, EarlierYearsStand
=============================================================================
