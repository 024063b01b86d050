---------------------------- MODULE LeavePolicies ----------------------------
(***************************************************************************)
(* The effective-dated policies of the leave types: LeaveTypesService's    *)
(* create and update, LeavePolicyService's createVersion with its reads    *)
(* before the transaction, and calculateEntitlement over the versions.     *)
(*                                                                         *)
(* A policy's terms are its quota, in hundredths of a day as the database  *)
(* keeps it; its other terms do not bear on the entitlement.  Every year   *)
(* has DaysInYear days.                                                    *)
(***************************************************************************)
EXTENDS EffectiveDating, FiniteSetsExt

CONSTANTS
  LeaveTypes,
  Quotas,
  Writers,      \* calls of createVersion that may be under way
  DaysInYear

ASSUME PolicyAssumption ==
  /\ Quotas \subseteq Nat
  /\ DaysInYear \in Nat \ {0}

VARIABLES
  versions,         \* each type's leave_type_policies; none before it is created
  prorationMethod,
  writer

vars == <<versions, prorationMethod, writer>>

ProrationMethod == {"PRORATED_BY_DAYS", "LATEST_POLICY_IN_YEAR"}

\* createVersion has "read" the open version, then "checked" for a clash.
Idle == [at |-> "idle"]
WriterState == {Idle} \union
  [at : {"read", "checked"}, type : LeaveTypes, quota : Quotas, from : Day, open : Day]

TypeOK ==
  /\ versions \in [LeaveTypes -> SUBSET Rows(Quotas)]
  /\ prorationMethod \in [LeaveTypes -> ProrationMethod]
  /\ writer \in [Writers -> WriterState]

Init ==
  /\ versions = [t \in LeaveTypes |-> {}]
  /\ prorationMethod \in [LeaveTypes -> ProrationMethod]
  /\ writer = [w \in Writers |-> Idle]

Created == {t \in LeaveTypes : versions[t] # {}}

Await(w, state) == writer' = [writer EXCEPT ![w] = state]

\* The type and its first policy are inserted together.
Create(t) ==
  /\ t \notin Created
  /\ \E quota \in Quotas, from \in Day :
       versions' = [versions EXCEPT ![t] = {Opened(from, quota)}]
  /\ UNCHANGED <<prorationMethod, writer>>

Update(t) ==
  /\ t \in Created
  /\ \E method \in ProrationMethod :
       prorationMethod' = [prorationMethod EXCEPT ![t] = method]
  /\ UNCHANGED <<versions, writer>>

-----------------------------------------------------------------------------
(* createVersion *)

ReadOpen(w) ==
  /\ writer[w] = Idle
  /\ \E t \in Created, quota \in Quotas, from \in Day :
       \E open \in versions[t] :
         /\ IsOpen(open)
         /\ from > open.from
         /\ Await(w, [at |-> "read", type |-> t, quota |-> quota, from |-> from,
                      open |-> open.from])
  /\ UNCHANGED <<versions, prorationMethod>>

\* A closed version that covers the date is a conflict.
CheckClash(w) ==
  LET new == writer[w]
  IN  /\ new.at = "read"
      /\ IF \E row \in versions[new.type] : ~IsOpen(row) /\ Covers(row, new.from)
         THEN Await(w, Idle)
         ELSE Await(w, [new EXCEPT !.at = "checked"])
      /\ UNCHANGED <<versions, prorationMethod>>

\* Mutant of NoOverlap: only the unique index on (type, effectiveFrom) is left.
MutantDistinctDates(others, a, b) ==
  \A row \in others : row.from # a.from /\ row.from # b.from

\* leave_type_policies_no_overlap, for the two rows a transaction writes.
NoOverlap(others, a, b) ==
  \A row \in others : ~Overlap(row, a) /\ ~Overlap(row, b)

\* Mutant of WriteVersion: the version in force on the new date is closed, and
\* takes the new quota from its first day.
MutantWriteQuotaBack(w) ==
  LET new == writer[w]
  IN  /\ new.at = "checked"
      /\ \E row \in versions[new.type] :
           /\ row.from = new.open
           /\ IF NoOverlap(versions[new.type] \ {row}, Closed(row, new.from),
                           Opened(new.from, new.quota))
              THEN versions' = [versions EXCEPT ![new.type] =
                     (@ \ {row}) \union {[Closed(row, new.from) EXCEPT !.terms = new.quota],
                                        Opened(new.from, new.quota)}]
              ELSE UNCHANGED versions
      /\ Await(w, Idle)
      /\ UNCHANGED prorationMethod

\* The transaction closes the version that was read, by its id, and inserts the
\* new one; the exclusion constraint turns an overlap into a conflict.
WriteVersion(w) ==
  LET new == writer[w]
  IN  /\ new.at = "checked"
      /\ \E row \in versions[new.type] :
           /\ row.from = new.open
           /\ IF NoOverlap(versions[new.type] \ {row}, Closed(row, new.from),
                           Opened(new.from, new.quota))
              THEN versions' = [versions EXCEPT ![new.type] =
                                  Superseded(@, row, new.from, new.quota)]
              ELSE UNCHANGED versions
      /\ Await(w, Idle)
      /\ UNCHANGED prorationMethod

Next ==
  \/ \E t \in LeaveTypes : Create(t) \/ Update(t)
  \/ \E w \in Writers : ReadOpen(w) \/ CheckClash(w) \/ WriteVersion(w)

Spec == Init /\ [][Next]_vars

-----------------------------------------------------------------------------
(* calculateEntitlement *)

Year == 1 .. (LastDay \div DaysInYear)
yearStart(year) == (year - 1) * DaysInYear + 1
yearEnd(year) == year * DaysInYear

\* Mutant of PoliciesIn: versions that begin after the year are read as well.
MutantPoliciesAnyStart(t, year) == {row \in versions[t] : row.to >= yearStart(year)}

PoliciesIn(t, year) ==
  {row \in versions[t] : row.from <= yearEnd(year) /\ row.to >= yearStart(year)}

\* Mutant of daysInPeriod: the last day of a period is not counted.
MutantDaysExclusive(row, year) ==
  Min({row.to, yearEnd(year)}) - Max({row.from, yearStart(year)})

daysInPeriod(row, year) ==
  Min({row.to, yearEnd(year)}) - Max({row.from, yearStart(year)}) + 1

\* Mutant of RoundedQuotient: rounds down.
MutantRoundedDown(a, b) == a \div b

\* Number((a / b).toFixed(2)), in hundredths.
RoundedQuotient(a, b) == (2 * a + b) \div (2 * b)

contribution(row, year) ==
  RoundedQuotient(row.terms * daysInPeriod(row, year), DaysInYear)

\* A method other than LATEST_POLICY_IN_YEAR prorates.
calculateEntitlement(t, year) ==
  LET policies == PoliciesIn(t, year)
  IN  IF policies = {} THEN 0
      ELSE IF prorationMethod[t] = "LATEST_POLICY_IN_YEAR"
      THEN (CHOOSE last \in policies : \A row \in policies : row.from <= last.from).terms
      ELSE MapThenSumSet(LAMBDA row : contribution(row, year), policies)

-----------------------------------------------------------------------------
(* Properties *)

\* "What was the rule on date D" has exactly one answer from a type's first day,
\* and one version is open, however many createVersion calls race.
VersionsTile == \A t \in Created : Tiles(versions[t])

\* No version disappears, no quota or first day is rewritten, and a version once
\* closed stays as it is (createVersion closes by the id it read).
VersionsStand == [][\A t \in LeaveTypes : Kept(versions[t], versions'[t])]_vars

\* A new version leaves the entitlement of every year that ends before it begins
\* as it was, though the version it supersedes is closed (createVersion).
EarlierYearsStand ==
  [][\A t \in Created, year \in Year :
       LET starts == {row.from : row \in versions'[t]} \ {row.from : row \in versions[t]}
       IN  prorationMethod'[t] = prorationMethod[t] /\ (\A d \in starts : d > yearEnd(year))
             => calculateEntitlement(t, year)' = calculateEntitlement(t, year)]_vars

\* The periods of a year add up to the days of the year since the type's first.
PeriodsFillTheYear ==
  \A t \in Created, year \in Year :
    LET first == Min({row.from : row \in versions[t]})
        days == Max({0, yearEnd(year) - Max({first, yearStart(year)}) + 1})
    IN  MapThenSumSet(LAMBDA row : daysInPeriod(row, year), PoliciesIn(t, year)) = days

\* A prorated entitlement is within half a hundredth a period of the exact
\* figure: the rounding of the periods does not add up to more.
RoundingBounded ==
  \A t \in Created, year \in Year :
    LET policies == PoliciesIn(t, year)
        exact == MapThenSumSet(LAMBDA row : row.terms * daysInPeriod(row, year), policies)
        off == 2 * (calculateEntitlement(t, year) * DaysInYear - exact)
        bound == Cardinality(policies) * DaysInYear
    IN  prorationMethod[t] = "PRORATED_BY_DAYS" => off <= bound /\ -off <= bound
=============================================================================
