------------------------ MODULE LeaveRequests_proofs ------------------------
(***************************************************************************)
(* Proofs about LeaveRequests, for any number of people, submissions and   *)
(* decision handlers, and at the end about SubmissionPool, the connections *)
(* and the row lock the same submissions go through.                       *)
(***************************************************************************)
EXTENDS LeaveRequests, SubmissionPool, FunctionTheorems, FiniteSetTheorems, TLAPS

\* Working days are counted by a natural number.
LEMMA DaysOfType == ASSUME NEW f \in Form PROVE DaysOf(f) \in Nat
<1>1. f.start \in Int /\ f.end \in Int
  BY DEF Form
<1>2. IsFiniteSet(f.start .. f.end)
  BY <1>1, FS_Interval
<1>3. IsFiniteSet(workingDays(f.start, f.end))
  BY <1>2, FS_Subset DEF workingDays
<1> QED
  BY <1>3, FS_CardinalityType DEF DaysOf, countWorkingDays

LEMMA EntitlementType ==
  ASSUME TypeOK, NEW pot \in Pots
  PROVE  resolveEntitlement(pot) \in Nat
<1>1. pot[2] \in Types /\ pot[3] \in Years
  BY DEF Pots
<1>2. leaveBalance[pot] \in Balance
  BY DEF TypeOK
<1>3. /\ leaveBalance[pot].carried \in Carried \union {0}
      /\ leaveBalance[pot].override \in Overrides \union {NoOverride}
  BY <1>2 DEF Balance
<1>4. PolicyDays[<<pot[2], pot[3]>>] \in Nat
  BY <1>1, PolicyAssumption
<1> DEFINE granted == IF leaveBalance[pot].override = NoOverride
                      THEN PolicyDays[<<pot[2], pot[3]>>]
                      ELSE leaveBalance[pot].override
<1>5. Overrides \subseteq Nat /\ Carried \union {0} \subseteq Nat
  BY PolicyAssumption
<1>6. leaveBalance[pot].carried \in Nat
  BY <1>3, <1>5
<1>7. granted \in Nat
  BY <1>3, <1>4, <1>5
<1>8. resolveEntitlement(pot) = leaveBalance[pot].carried + granted
  BY DEF resolveEntitlement
<1> HIDE DEF granted
<1> QED
  BY <1>6, <1>7, <1>8

LEMMA PotType == ASSUME NEW f \in Forms PROVE PotOf(f) \in Pots
  BY FormsAssumption DEF PotOf, Pots, Form
-----------------------------------------------------------------------------
LEMMA InitTypeOK == Init => TypeOK
<1> SUFFICES ASSUME Init PROVE TypeOK
  OBVIOUS
<1>1. [override |-> NoOverride, carried |-> 0] \in Balance
  BY DEF Balance
<1> QED
  BY <1>1, FormsAssumption DEF Init, TypeOK, Status

\* Every step of a submission preserves the types.
LEMMA SubmitTypeOK ==
  ASSUME TypeOK, NEW s \in Submissions, Submit(s) \/ Fail(s)
  PROVE  TypeOK'
<1> USE DEF TypeOK, GoTo, Unlock, InFlight, InTransaction, Answered
<1>0. form[s].employee \in Employees /\ form[s] \in Forms
  BY FormsAssumption DEF Form
<1>1. CASE Validate(s)
  BY <1>1 DEF Validate
<1>2. CASE ResolveEntitlement(s)
  <2>1. resolveEntitlement(PotOf(form[s])) \in Nat
    BY <1>0, PotType, EntitlementType
  <2> QED
    BY <1>2, <2>1 DEF ResolveEntitlement
<1>3. CASE Lock(s)
  BY <1>0, <1>3 DEF Lock
<1>4. CASE CheckOverlap(s)
  BY <1>0, <1>4 DEF CheckOverlap
<1>5. CASE CheckBalance(s)
  BY <1>0, <1>5 DEF CheckBalance
<1>6. CASE InsertAndCommit(s)
  BY <1>0, <1>6 DEF InsertAndCommit, Status
<1>7. CASE AnnounceSubmission(s)
  <2>1. told' \subseteq Notice
    BY <1>7 DEF AnnounceSubmission, Tell, Notice
  <2> QED
    BY <1>7, <2>1 DEF AnnounceSubmission
<1>8. CASE Fail(s)
  BY <1>0, <1>8 DEF Fail
<1> QED
  BY <1>1, <1>2, <1>3, <1>4, <1>5, <1>6, <1>7, <1>8 DEF Submit

\* A handler that is not idle holds a request and an outcome.
LEMMA BusyFields ==
  ASSUME TypeOK, NEW d \in Deciders, decider[d] # Idle
  PROVE  /\ decider[d] \in Busy
         /\ decider[d].request \in Submissions
         /\ decider[d].outcome \in {"APPROVED", "REJECTED", "CANCELLED"}
  BY DEF TypeOK, Busy

LEMMA DecideTypeOK ==
  ASSUME TypeOK, NEW d \in Deciders, Decide(d) \/ Drop(d)
  PROVE  TypeOK'
<1> USE DEF TypeOK, submission
<1>1. ASSUME NEW r \in Submissions, ReadForDecision(d, r) PROVE TypeOK'
  BY <1>1 DEF ReadForDecision, Busy
<1>2. ASSUME NEW r \in Submissions, ReadForCancel(d, r) PROVE TypeOK'
  BY <1>2 DEF ReadForCancel, Busy
<1>3. CASE RecheckBalance(d)
  <2>1. [decider[d] EXCEPT !.step = "checked"] \in Busy
    BY <1>3, BusyFields DEF RecheckBalance, Busy
  <2> QED
    BY <1>3, <2>1 DEF RecheckBalance
<1>4. ASSUME decider[d] # Idle, WriteOutcome(d) PROVE TypeOK'
  <2>1. [decider[d] EXCEPT !.step = "written"] \in Busy
    BY <1>4, BusyFields DEF Busy
  <2>2. decider' \in [Deciders -> Busy \union {Idle}]
    BY <1>4, <2>1 DEF WriteOutcome
  <2>3. status' \in [Submissions -> Status] /\ revived' \subseteq Submissions
    BY <1>4, BusyFields DEF WriteOutcome, Status
  <2> QED
    BY <1>4, <2>2, <2>3 DEF WriteOutcome
<1>5. CASE AnnounceOutcome(d)
  <2>1. told' \subseteq Notice
    BY <1>5, BusyFields DEF AnnounceOutcome, Tell, Notice
  <2> QED
    BY <1>5, <2>1 DEF AnnounceOutcome
<1>6. CASE Drop(d)
  BY <1>6 DEF Drop
<1> QED
  BY <1>1, <1>2, <1>3, <1>4, <1>5, <1>6 DEF Decide, WriteDecision, WriteCancel

LEMMA NextTypeOK == TypeOK /\ [Next]_vars => TypeOK'
<1> SUFFICES ASSUME TypeOK, [Next]_vars PROVE TypeOK'
  OBVIOUS
<1>1. ASSUME NEW pot \in Pots, SetBalance(pot) PROVE TypeOK'
  BY <1>1 DEF SetBalance, TypeOK, submission
<1>2. CASE Tick
  BY <1>2 DEF Tick, TypeOK, submission
<1>3. CASE UNCHANGED vars
  BY <1>3 DEF vars, TypeOK, submission
<1> QED
  BY <1>1, <1>2, <1>3, SubmitTypeOK, DecideTypeOK DEF Next

\* Every variable keeps its type, for every value of the constants.
THEOREM TypeCorrect == Spec => []TypeOK
<1> QED
  BY InitTypeOK, NextTypeOK, PTL DEF Spec
-----------------------------------------------------------------------------
(***************************************************************************)
(* No double booking.  The lock keeps the submissions of one employee      *)
(* apart; what a submission in its transaction has learned about the       *)
(* table stays true until it commits, because nobody else inserts for the  *)
(* same employee, and a row that becomes active again is in revived.       *)
(***************************************************************************)

\* A submission inserts its row when it commits, and not before.
UncommittedAbsent ==
  \A s \in Submissions :
    step[s] \in {"new", "valid", "resolved", "refused"} \union InTransaction
      => status[s] = "ABSENT"

\* Decisions are taken on rows that exist.
DecidedExist ==
  \A d \in Deciders : decider[d] # Idle => status[decider[d].request] # "ABSENT"

\* What the overlap check found still holds.
ClearOfOthers ==
  \A s \in Submissions : step[s] \in {"clear", "fits"} =>
    \A r \in Submissions :
      Active(r) /\ Clash(form[r], form[s]) => r \in revived

IInv ==
  /\ TypeOK
  /\ LockHeldInTransaction
  /\ UncommittedAbsent
  /\ DecidedExist
  /\ ClearOfOthers
  /\ NoDoubleBooking

LEMMA ClashSymmetric ==
  ASSUME NEW f \in Form, NEW g \in Form
  PROVE  Clash(f, g) <=> Clash(g, f)
  BY DEF Clash, Intersect, Form

LEMMA InitIInv == Init => IInv
<1> SUFFICES ASSUME Init PROVE IInv
  OBVIOUS
<1>1. \A s \in Submissions : form[s].employee \in Employees
  BY FormsAssumption DEF Init, Form
<1> QED
  BY <1>1, InitTypeOK, NoOneAssumption
  DEF Init, IInv, LockHeldInTransaction, UncommittedAbsent, DecidedExist,
      ClearOfOthers, NoDoubleBooking, InTransaction, Active, ACTIVE_STATUSES

\* A step that leaves the table alone disturbs neither booked nor decided rows.
LEMMA TableUnchanged ==
  ASSUME IInv, UNCHANGED <<form, status, revived, decider>>
  PROVE  DecidedExist' /\ NoDoubleBooking'
  BY DEF IInv, DecidedExist, NoDoubleBooking, Active

LEMMA SubmitIInv ==
  ASSUME IInv, NEW s \in Submissions, Submit(s) \/ Fail(s)
  PROVE  IInv'
<1>0. TypeOK'
  BY SubmitTypeOK DEF IInv
<1>e. \A r \in Submissions : form[r] \in Form /\ form[r].employee \in Employees
  BY FormsAssumption DEF IInv, TypeOK, Form
<1> USE DEF IInv, TypeOK, GoTo
<1>1. CASE Validate(s) \/ ResolveEntitlement(s) \/ AnnounceSubmission(s)
  <2>1. UNCHANGED <<form, status, revived, decider, rowLock>>
    BY <1>1 DEF Validate, ResolveEntitlement, AnnounceSubmission
  <2>2. /\ step[s] \notin InTransaction /\ step'[s] \notin InTransaction
        /\ \A r \in Submissions \ {s} : step'[r] = step[r]
    BY <1>1 DEF Validate, ResolveEntitlement, AnnounceSubmission, InTransaction
  <2>3. LockHeldInTransaction'
    BY <2>1, <2>2 DEF LockHeldInTransaction
  <2>4. UncommittedAbsent'
    BY <1>1, <2>1, <2>2
    DEF UncommittedAbsent, Validate, ResolveEntitlement, AnnounceSubmission
  <2>5. ClearOfOthers'
    BY <2>1, <2>2 DEF ClearOfOthers, InTransaction, Active
  <2> QED
    BY <1>0, <2>1, <2>3, <2>4, <2>5, TableUnchanged
<1>2. CASE Lock(s)
  <2>1. UNCHANGED <<form, status, revived, decider>>
    BY <1>2 DEF Lock
  <2>2. LockHeldInTransaction'
    BY <1>2, <1>e, NoOneAssumption DEF Lock, LockHeldInTransaction, InTransaction
  <2>3. UncommittedAbsent' /\ ClearOfOthers'
    BY <1>2 DEF Lock, UncommittedAbsent, ClearOfOthers, InTransaction, Active
  <2> QED
    BY <1>0, <2>1, <2>2, <2>3, TableUnchanged
<1>3. CASE CheckOverlap(s)
  <2>1. UNCHANGED <<form, status, revived, decider>>
    BY <1>3 DEF CheckOverlap
  <2>2. LockHeldInTransaction'
    BY <1>3, <1>e, NoOneAssumption
    DEF CheckOverlap, Unlock, LockHeldInTransaction, InTransaction
  <2>3. UncommittedAbsent'
    BY <1>3 DEF CheckOverlap, UncommittedAbsent, InTransaction
  <2>4. ClearOfOthers'
    BY <1>3, <2>1 DEF CheckOverlap, Overlapping, ClearOfOthers, InTransaction, Active
  <2> QED
    BY <1>0, <2>1, <2>2, <2>3, <2>4, TableUnchanged
<1>4. CASE CheckBalance(s)
  <2>1. UNCHANGED <<form, status, revived, decider>>
    BY <1>4 DEF CheckBalance
  <2>2. LockHeldInTransaction'
    BY <1>4, <1>e, NoOneAssumption
    DEF CheckBalance, Unlock, LockHeldInTransaction, InTransaction
  <2>3. UncommittedAbsent' /\ ClearOfOthers'
    BY <1>4 DEF CheckBalance, UncommittedAbsent, ClearOfOthers, InTransaction, Active
  <2> QED
    BY <1>0, <2>1, <2>2, <2>3, TableUnchanged
<1>5. CASE InsertAndCommit(s)
  <2>1. LockHeldInTransaction'
    BY <1>5, <1>e, NoOneAssumption
    DEF InsertAndCommit, Unlock, LockHeldInTransaction, InTransaction
  <2>2. UncommittedAbsent' /\ DecidedExist'
    BY <1>5
    DEF InsertAndCommit, UncommittedAbsent, DecidedExist, InTransaction, Busy, Idle
  <2>3. ASSUME NEW r \in Submissions \ {s}
        PROVE  step[r] \in {"clear", "fits"} => ~Clash(form[s], form[r])
    BY <1>5 DEF InsertAndCommit, LockHeldInTransaction, InTransaction, Clash
  <2>4. ClearOfOthers'
    BY <1>5, <2>3 DEF InsertAndCommit, ClearOfOthers, Active
  <2>5. ASSUME NEW r \in Submissions, r # s, Active(r), Clash(form[r], form[s])
        PROVE  r \in revived
    BY <1>5, <2>5 DEF InsertAndCommit, ClearOfOthers
  <2>6. NoDoubleBooking'
    BY <1>5, <1>e, <2>5, ClashSymmetric DEF InsertAndCommit, NoDoubleBooking, Active
  <2> QED
    BY <1>0, <2>1, <2>2, <2>4, <2>6
<1>6. CASE Fail(s)
  <2>1. UNCHANGED <<form, status, revived, decider>>
    BY <1>6 DEF Fail
  <2>2. LockHeldInTransaction'
    BY <1>6, <1>e, NoOneAssumption
    DEF Fail, Unlock, LockHeldInTransaction, InTransaction
  <2>3. UncommittedAbsent' /\ ClearOfOthers'
    BY <1>6 DEF Fail, UncommittedAbsent, ClearOfOthers, InTransaction, Active
  <2> QED
    BY <1>0, <2>1, <2>2, <2>3, TableUnchanged
<1> QED
  BY <1>1, <1>2, <1>3, <1>4, <1>5, <1>6 DEF Submit

\* Decisions write the table, and touch no submission and no lock.
LEMMA DecideIInv ==
  ASSUME IInv, NEW d \in Deciders, Decide(d) \/ Drop(d)
  PROVE  IInv'
<1>0. TypeOK'
  BY DecideTypeOK DEF IInv
<1> USE DEF IInv, TypeOK, submission
<1>1. ASSUME UNCHANGED <<submission, status, revived>>, DecidedExist'
      PROVE  IInv'
  BY <1>0, <1>1
  DEF LockHeldInTransaction, UncommittedAbsent, ClearOfOthers, NoDoubleBooking, Active
<1>2. ASSUME NEW r \in Submissions, ReadForDecision(d, r) \/ ReadForCancel(d, r)
      PROVE  IInv'
  <2>1. status[r] # "ABSENT"
    BY <1>2 DEF ReadForDecision, ReadForCancel, Withdrawable, Active, ACTIVE_STATUSES
  <2>2. DecidedExist' /\ UNCHANGED <<submission, status, revived>>
    BY <1>2, <2>1 DEF ReadForDecision, ReadForCancel, DecidedExist
  <2> QED
    BY <1>1, <2>2
<1>3. CASE RecheckBalance(d)
  <2>1. decider[d] \in Busy
    BY <1>3 DEF RecheckBalance
  <2>2. DecidedExist' /\ UNCHANGED <<submission, status, revived>>
    BY <1>3, <2>1 DEF RecheckBalance, DecidedExist, Busy
  <2> QED
    BY <1>1, <2>2
<1>4. ASSUME decider[d] # Idle, WriteOutcome(d) PROVE IInv'
  <2> DEFINE r == decider[d].request
  <2>1. r \in Submissions /\ decider[d] \in Busy /\ status[r] # "ABSENT"
    BY <1>4, BusyFields DEF DecidedExist
  <2>2. /\ UNCHANGED submission
        /\ \A q \in Submissions : q # r => status'[q] = status[q]
        /\ status'[r] # "ABSENT"
        /\ revived \subseteq revived'
    BY <1>4, <2>1, BusyFields DEF WriteOutcome
  <2>3. ASSUME NEW q \in Submissions, Active(q)'
        PROVE  Active(q) \/ q \in revived'
    <3>1. CASE q # r
      BY <2>2, <2>3, <3>1 DEF Active
    <3>2. CASE q = r
      BY <1>4, <2>1, <2>3, <3>2, BusyFields
      DEF WriteOutcome, Active, ACTIVE_STATUSES
    <3> QED
      BY <3>1, <3>2
  <2>4. LockHeldInTransaction'
    BY <2>2 DEF LockHeldInTransaction
  <2>5. UncommittedAbsent'
    BY <2>1, <2>2 DEF UncommittedAbsent
  <2>6. DecidedExist'
    BY <1>4, <2>1, <2>2 DEF WriteOutcome, DecidedExist, Busy
  <2>7. ClearOfOthers' /\ NoDoubleBooking'
    BY <2>2, <2>3 DEF ClearOfOthers, NoDoubleBooking
  <2> QED
    BY <1>0, <2>4, <2>5, <2>6, <2>7
<1>5. CASE AnnounceOutcome(d) \/ Drop(d)
  <2>1. DecidedExist' /\ UNCHANGED <<submission, status, revived>>
    BY <1>5 DEF AnnounceOutcome, Drop, DecidedExist
  <2> QED
    BY <1>1, <2>1
<1> QED
  BY <1>2, <1>3, <1>4, <1>5 DEF Decide, WriteDecision, WriteCancel

LEMMA NextIInv == IInv /\ [Next]_vars => IInv'
<1> SUFFICES ASSUME IInv, [Next]_vars PROVE IInv'
  OBVIOUS
<1>1. CASE (\E pot \in Pots : SetBalance(pot)) \/ Tick \/ UNCHANGED vars
  <2>1. UNCHANGED <<submission, status, revived, decider>>
    BY <1>1 DEF SetBalance, Tick, vars
  <2>2. TypeOK'
    BY NextTypeOK DEF IInv
  <2> QED
    BY <2>1, <2>2
    DEF IInv, submission, LockHeldInTransaction, UncommittedAbsent,
        DecidedExist, ClearOfOthers, NoDoubleBooking, Active
<1> QED
  BY <1>1, SubmitIInv, DecideIInv DEF Next

THEOREM InvariantHolds == Spec => []IInv
<1> QED
  BY InitIInv, NextIInv, PTL DEF Spec

\* Mutual exclusion: between FOR UPDATE and commit, one submission an employee.
THEOREM LockCorrect == Spec => []LockHeldInTransaction
<1>1. IInv => LockHeldInTransaction
  BY DEF IInv
<1> QED
  BY <1>1, InvariantHolds, PTL

\* However many submissions, decisions and crashes are interleaved, two active
\* requests of one employee share a day only if one was revived.
THEOREM NoDoubleBookingHolds == Spec => []NoDoubleBooking
<1>1. IInv => NoDoubleBooking
  BY DEF IInv
<1> QED
  BY <1>1, InvariantHolds, PTL
-----------------------------------------------------------------------------
(***************************************************************************)
(* What is told was committed.  Nothing in the code deletes a request, so  *)
(* that a row which was there when the notice was written stays.           *)
(***************************************************************************)

CommittedPresent ==
  \A s \in Submissions : step[s] \in {"committed", "done"} => status[s] # "ABSENT"

LEMMA RowsStay ==
  ASSUME IInv, [Next]_vars, NEW r \in Submissions, status[r] # "ABSENT"
  PROVE  status'[r] # "ABSENT"
<1>0. TypeOK
  BY DEF IInv
<1>1. ASSUME NEW s \in Submissions, Submit(s) \/ Fail(s) PROVE status'[r] # "ABSENT"
  BY <1>0, <1>1
  DEF TypeOK, Submit, Validate, ResolveEntitlement, Lock, CheckOverlap, CheckBalance,
      InsertAndCommit, AnnounceSubmission, Fail
<1>2. ASSUME NEW d \in Deciders, Decide(d) \/ Drop(d) PROVE status'[r] # "ABSENT"
  <2>1. CASE UNCHANGED status
    BY <2>1
  <2>2. CASE decider[d] # Idle /\ WriteOutcome(d)
    BY <1>0, <2>2, BusyFields DEF TypeOK, WriteOutcome
  <2> QED
    BY <1>2, <2>1, <2>2
    DEF Decide, ReadForDecision, ReadForCancel, RecheckBalance, WriteDecision,
        WriteCancel, AnnounceOutcome, Drop
<1> QED
  BY <1>1, <1>2 DEF Next, SetBalance, Tick, vars

LEMMA ToldStep ==
  ASSUME IInv, CommittedPresent, ToldOfCommitted, [Next]_vars
  PROVE  CommittedPresent' /\ ToldOfCommitted'
<1>0. TypeOK
  BY DEF IInv
<1>1. CommittedPresent'
  <2>1. ASSUME NEW s \in Submissions, step'[s] \in {"committed", "done"}
        PROVE  status'[s] # "ABSENT"
    <3>1. CASE step[s] \in {"committed", "done"}
      BY <3>1, RowsStay DEF CommittedPresent
    <3>2. CASE InsertAndCommit(s)
      BY <1>0, <3>2 DEF TypeOK, InsertAndCommit
    <3>3. step[s] \in {"committed", "done"} \/ InsertAndCommit(s)
      <4>1. ASSUME NEW q \in Submissions, Submit(q) \/ Fail(q)
            PROVE  step[s] \in {"committed", "done"} \/ InsertAndCommit(s)
        BY <1>0, <2>1, <4>1
        DEF TypeOK, Submit, Validate, ResolveEntitlement, Lock, CheckOverlap,
            CheckBalance, InsertAndCommit, AnnounceSubmission, Fail, GoTo
      <4>2. ASSUME NEW d \in Deciders, Decide(d) \/ Drop(d) PROVE UNCHANGED step
        BY <4>2
        DEF Decide, ReadForDecision, ReadForCancel, RecheckBalance, WriteDecision,
            WriteCancel, WriteOutcome, AnnounceOutcome, Drop, submission
      <4> QED
        BY <2>1, <4>1, <4>2 DEF Next, SetBalance, Tick, vars, submission
    <3> QED
      BY <3>1, <3>2, <3>3
  <2> QED
    BY <2>1 DEF CommittedPresent
<1>2. ASSUME NEW n \in told', n \notin told
      PROVE  n.request \in Submissions /\ status[n.request] # "ABSENT"
  <2>1. ASSUME NEW s \in Submissions, Submit(s) \/ Fail(s)
        PROVE  n.request = s /\ step[s] = "committed"
    BY <1>2, <2>1
    DEF Submit, Validate, ResolveEntitlement, Lock, CheckOverlap, CheckBalance,
        InsertAndCommit, AnnounceSubmission, Fail, GoTo, Tell
  <2>2. ASSUME NEW d \in Deciders, Decide(d) \/ Drop(d)
        PROVE  decider[d] # Idle /\ n.request = decider[d].request
    BY <1>2, <2>2
    DEF Decide, ReadForDecision, ReadForCancel, RecheckBalance, WriteDecision,
        WriteCancel, WriteOutcome, AnnounceOutcome, Drop, Tell
  <2>3. UNCHANGED told \/ (\E s \in Submissions : Submit(s) \/ Fail(s))
                       \/ (\E d \in Deciders : Decide(d) \/ Drop(d))
    BY DEF Next, SetBalance, Tick, vars
  <2> QED
    BY <1>0, <1>2, <2>1, <2>2, <2>3, BusyFields
    DEF CommittedPresent, IInv, DecidedExist
<1>3. ToldOfCommitted'
  <2>1. ASSUME NEW n \in told' PROVE status'[n.request] # "ABSENT"
    <3>1. CASE n \in told
      BY <1>0, <3>1, RowsStay DEF ToldOfCommitted, TypeOK, Notice
    <3> QED
      BY <1>2, <3>1, RowsStay
  <2> QED
    BY <2>1 DEF ToldOfCommitted
<1> QED
  BY <1>1, <1>3

\* "A notification about a change that then rolled back would be a lie": whoever
\* dies, waits or is refused, nobody hears of what was not committed.
THEOREM NoticesAreTrue == Spec => []ToldOfCommitted
<1>1. Init => CommittedPresent /\ ToldOfCommitted
  BY DEF Init, CommittedPresent, ToldOfCommitted
<1>2. Spec => [](CommittedPresent /\ ToldOfCommitted)
  <2>1. IInv /\ (CommittedPresent /\ ToldOfCommitted) /\ [Next]_vars
          => (CommittedPresent /\ ToldOfCommitted)'
    BY ToldStep
  <2> QED
    BY <1>1, <2>1, InvariantHolds, PTL DEF Spec
<1> QED
  BY <1>2, PTL
-----------------------------------------------------------------------------
(***************************************************************************)
(* No pot is overspent.  The request that was booked last among those      *)
(* counted was judged with all the others in the sum, so that the days of  *)
(* every set of them fit the entitlement one of its members was judged by: *)
(* stated of all sets, that survives withdrawals.                          *)
(***************************************************************************)

\* The rows whose days were given out by a submission.
Counted == {r \in Submissions : Active(r) /\ r \notin revived}

EveryPartJudged ==
  \A T \in SUBSET Counted, pot \in Pots :
    T # {} /\ (\A r \in T : Charged(r) /\ PotOf(form[r]) = pot)
      => \E r \in T : DaysIn(pot, T) <= entitlement[r]

\* What the balance check found still holds.
FitsStill ==
  \A s \in Submissions : step[s] = "fits" /\ Charged(s) =>
    DaysIn(PotOf(form[s]), Counted) + DaysOf(form[s]) <= entitlement[s]

OInv == IInv /\ EveryPartJudged /\ FitsStill

LEMMA DaysOffType ==
  ASSUME TypeOK, NEW r \in Submissions
  PROVE  /\ IsFiniteSet(DaysOff(r))
         /\ DaysOf(form[r]) \in Nat
         /\ Cardinality(DaysOff(r)) = DaysOf(form[r])
<1> DEFINE W == workingDays(form[r].start, form[r].end)
<1>1. form[r] \in Form /\ form[r].start \in Int /\ form[r].end \in Int
  BY FormsAssumption DEF TypeOK, Form
<1>2. IsFiniteSet(form[r].start .. form[r].end)
  BY <1>1, FS_Interval
<1>3. IsFiniteSet(W)
  BY <1>2, FS_Subset DEF workingDays
<1>4. IsFiniteSet({r}) /\ Cardinality({r}) = 1
  BY FS_Singleton
<1>5. Cardinality(W) \in Nat /\ Cardinality(W) = DaysOf(form[r])
  BY <1>3, FS_CardinalityType DEF DaysOf, countWorkingDays
<1>6. DaysOff(r) = {r} \X W
  BY DEF DaysOff
<1> HIDE DEF W
<1>7. IsFiniteSet({r} \X W) /\ Cardinality({r} \X W) = 1 * Cardinality(W)
  BY <1>3, <1>4, FS_Product
<1> QED
  BY <1>5, <1>6, <1>7

\* The days of finitely many requests are finitely many.
LEMMA BookedFinite ==
  ASSUME TypeOK, NEW R \in SUBSET Submissions
  PROVE  IsFiniteSet(UNION {DaysOff(r) : r \in R})
<1> DEFINE T == {DaysOff(r) : r \in R}
           f == [r \in R |-> DaysOff(r)]
<1>1. IsFiniteSet(R)
  BY FormsAssumption, FS_Subset
<1>2. f \in Surjection(R, T)
  BY DEF Surjection
<1>3. \A t \in T : IsFiniteSet(t)
  BY DaysOffType
<1> HIDE DEF T, f
<1>4. IsFiniteSet(T)
  BY <1>1, <1>2, FS_Surjection
<1>5. IsFiniteSet(UNION T)
  BY <1>3, <1>4, FS_UNION
<1> QED
  BY <1>5 DEF T

\* More requests, more days.
LEMMA DaysMonotone ==
  ASSUME TypeOK, NEW R \in SUBSET Submissions, NEW Q \in SUBSET R, NEW pot
  PROVE  /\ DaysIn(pot, Q) \in Nat /\ DaysIn(pot, R) \in Nat
         /\ DaysIn(pot, Q) <= DaysIn(pot, R)
<1> DEFINE of(S) == UNION {DaysOff(r) : r \in {q \in S : PotOf(form[q]) = pot}}
<1>1. IsFiniteSet(of(R)) /\ of(Q) \subseteq of(R)
  BY BookedFinite
<1>2. DaysIn(pot, Q) = Cardinality(of(Q)) /\ DaysIn(pot, R) = Cardinality(of(R))
  BY DEF DaysIn
<1> HIDE DEF of
<1>3. IsFiniteSet(of(Q)) /\ Cardinality(of(Q)) <= Cardinality(of(R))
  BY <1>1, FS_Subset
<1> QED
  BY <1>1, <1>2, <1>3, FS_CardinalityType

\* One request more adds its own days to its own pot.
LEMMA DaysAdded ==
  ASSUME TypeOK, NEW R \in SUBSET Submissions, NEW s \in Submissions, NEW pot
  PROVE  /\ DaysIn(pot, R \union {s}) <= DaysIn(pot, R) + DaysOf(form[s])
         /\ PotOf(form[s]) # pot => DaysIn(pot, R \union {s}) = DaysIn(pot, R)
<1> DEFINE of(S) == UNION {DaysOff(r) : r \in {q \in S : PotOf(form[q]) = pot}}
<1>1. IsFiniteSet(of(R)) /\ of(R \union {s}) \subseteq of(R) \union DaysOff(s)
  BY BookedFinite
<1>2. PotOf(form[s]) # pot => of(R \union {s}) = of(R)
  OBVIOUS
<1>3. \A S : DaysIn(pot, S) = Cardinality(of(S))
  BY DEF DaysIn
<1> HIDE DEF of
<1>4. /\ IsFiniteSet(DaysOff(s)) /\ DaysOf(form[s]) \in Nat
      /\ Cardinality(DaysOff(s)) = DaysOf(form[s])
  BY DaysOffType
<1>5. /\ IsFiniteSet(of(R) \union DaysOff(s))
      /\ Cardinality(of(R) \union DaysOff(s))
           = Cardinality(of(R)) + Cardinality(DaysOff(s)) - Cardinality(of(R) \cap DaysOff(s))
  BY <1>1, <1>4, FS_Union
<1>6. Cardinality(of(R)) \in Nat /\ Cardinality(of(R) \cap DaysOff(s)) \in Nat
  BY <1>1, FS_Intersection, FS_CardinalityType
<1>7. /\ Cardinality(of(R \union {s})) <= Cardinality(of(R) \union DaysOff(s))
      /\ Cardinality(of(R \union {s})) \in Nat
  BY <1>1, <1>5, FS_Subset, FS_CardinalityType
<1> QED
  BY <1>2, <1>3, <1>4, <1>5, <1>6, <1>7

\* The forms never change, so neither does what is worked out from them.
LEMMA FormsKept ==
  ASSUME TypeOK, [Next]_vars
  PROVE  /\ form' = form
         /\ \A r \in Submissions : DaysOf(form'[r]) = DaysOf(form[r])
         /\ \A r \in Submissions : Charged(r)' = Charged(r)
         /\ \A T, pot : DaysIn(pot, T)' = DaysIn(pot, T)
<1>1. form' = form
  BY DEF Next, vars, submission, Submit, Validate, ResolveEntitlement, Lock, CheckOverlap,
         CheckBalance, InsertAndCommit, AnnounceSubmission, Fail, Decide, Drop,
         ReadForDecision, ReadForCancel, RecheckBalance, WriteDecision, WriteCancel,
         WriteOutcome, AnnounceOutcome, SetBalance, Tick
<1> QED
  BY <1>1 DEF Charged, DaysIn, DaysOff

\* A row comes to be counted by its own commit, and by nothing else; what it was
\* judged by was settled before.
LEMMA CountedStep ==
  ASSUME IInv, [Next]_vars
  PROVE  /\ \A r \in Counted' : r \in Counted \/ InsertAndCommit(r)
         /\ \A r \in Submissions :
              step[r] # "valid" => entitlement'[r] = entitlement[r]
<1>0. TypeOK
  BY DEF IInv
<1>1. ASSUME NEW s \in Submissions, Submit(s) \/ Fail(s)
      PROVE  /\ revived' = revived
             /\ \A r \in Submissions : status'[r] = status[r] \/ (r = s /\ InsertAndCommit(s))
             /\ \A r \in Submissions : step[r] # "valid" => entitlement'[r] = entitlement[r]
  <2>1. CASE InsertAndCommit(s)
    BY <1>0, <2>1 DEF TypeOK, InsertAndCommit
  <2>2. CASE ResolveEntitlement(s)
    BY <1>0, <2>2 DEF TypeOK, ResolveEntitlement, GoTo
  <2>3. CASE ~InsertAndCommit(s) /\ ~ResolveEntitlement(s)
    BY <1>1, <2>3
    DEF Submit, Validate, Lock, CheckOverlap, CheckBalance, AnnounceSubmission, Fail
  <2> QED
    BY <2>1, <2>2, <2>3
<1>2. ASSUME NEW d \in Deciders, Decide(d) \/ Drop(d)
      PROVE  Counted' \subseteq Counted /\ entitlement' = entitlement
  <2>1. CASE UNCHANGED <<submission, status, revived>>
    BY <2>1 DEF Counted, Active, submission
  <2>2. CASE decider[d] # Idle /\ WriteOutcome(d)
    <3> DEFINE r == decider[d].request
    <3>1. r \in Submissions /\ decider[d].outcome \in {"APPROVED", "REJECTED", "CANCELLED"}
      BY <1>0, <2>2, BusyFields
    <3>2. /\ status' = [status EXCEPT ![r] = decider[d].outcome] /\ entitlement' = entitlement
          /\ revived \subseteq revived'
          /\ decider[d].outcome = "APPROVED" /\ ~Active(r) => r \in revived'
      BY <2>2 DEF WriteOutcome, submission
    <3> HIDE DEF r
    <3>3. ASSUME NEW q \in Counted' PROVE q \in Counted
      <4>1. CASE q = r
        BY <1>0, <3>1, <3>2, <3>3, <4>1 DEF Counted, Active, ACTIVE_STATUSES, TypeOK
      <4>2. CASE q # r
        BY <1>0, <3>1, <3>2, <3>3, <4>2 DEF Counted, Active, TypeOK
      <4> QED
        BY <4>1, <4>2
    <3> QED
      BY <3>2, <3>3
  <2> QED
    BY <1>2, <2>1, <2>2
    DEF Decide, ReadForDecision, ReadForCancel, RecheckBalance, WriteDecision,
        WriteCancel, AnnounceOutcome, Drop
<1>3. ASSUME UNCHANGED <<submission, status, revived>>
      PROVE  Counted' \subseteq Counted /\ entitlement' = entitlement
  BY <1>3 DEF Counted, Active, submission
<1>4. ASSUME NEW s \in Submissions, Submit(s) \/ Fail(s)
      PROVE  \A r \in Counted' : r \in Counted \/ InsertAndCommit(r)
  BY <1>1, <1>4 DEF Counted, Active
<1> QED
  BY <1>1, <1>2, <1>3, <1>4 DEF Next, SetBalance, Tick, vars

\* What the balance check found is not disturbed: rows are added to a pot only by
\* who holds the lock of its employee.
LEMMA FitsStep ==
  ASSUME OInv, [Next]_vars
  PROVE  FitsStill'
<1>0. TypeOK /\ IInv /\ FitsStill /\ IInv'
  BY NextIInv DEF OInv, IInv
<1>k. Counted \in SUBSET Submissions /\ Counted' \in SUBSET Submissions
  BY DEF Counted
<1> SUFFICES ASSUME NEW s \in Submissions, step'[s] = "fits", Charged(s)'
             PROVE  DaysIn(PotOf(form[s]), Counted') + DaysOf(form[s]) <= entitlement'[s]
  BY <1>0, FormsKept DEF FitsStill
<1> DEFINE pot == PotOf(form[s])
<1>1. Charged(s) /\ DaysOf(form[s]) \in Nat
  BY <1>0, FormsKept, DaysOffType
<1>2. (step[s] = "fits" \/ CheckBalance(s)) /\ step[s] # "valid"
  <2>1. ASSUME NEW q \in Submissions, Submit(q) \/ Fail(q)
        PROVE  (step[s] = "fits" \/ CheckBalance(s)) /\ step[s] # "valid"
    BY <1>0, <2>1
    DEF TypeOK, Submit, Validate, ResolveEntitlement, Lock, CheckOverlap, CheckBalance,
        InsertAndCommit, AnnounceSubmission, Fail, GoTo
  <2>2. ASSUME NEW d \in Deciders, Decide(d) \/ Drop(d) PROVE UNCHANGED step
    BY <2>2
    DEF Decide, ReadForDecision, ReadForCancel, RecheckBalance, WriteDecision,
        WriteCancel, WriteOutcome, AnnounceOutcome, Drop, submission
  <2> QED
    BY <2>1, <2>2 DEF Next, SetBalance, Tick, vars, submission
<1>3. entitlement'[s] = entitlement[s] /\ entitlement[s] \in Nat
  BY <1>0, <1>2, CountedStep DEF TypeOK
<1>4. DaysIn(pot, Counted) + DaysOf(form[s]) <= entitlement[s]
  <2>1. CASE step[s] = "fits"
    BY <1>0, <1>1, <2>1 DEF FitsStill
  <2>2. CASE CheckBalance(s) /\ step[s] # "fits"
    <3> DEFINE all == {r \in Submissions : Active(r)}
    <3>1. Affordable(s)
      BY <1>0, <2>2 DEF CheckBalance, GoTo, TypeOK
    <3>2. DaysOf(form[s]) <= entitlement[s] - DaysIn(pot, all)
      BY <1>1, <3>1 DEF Affordable, sumActiveDays
    <3>3. all \in SUBSET Submissions /\ Counted \in SUBSET all
      BY DEF Counted
    <3> HIDE DEF all, pot
    <3>4. DaysIn(pot, Counted) <= DaysIn(pot, all)
          /\ DaysIn(pot, Counted) \in Nat /\ DaysIn(pot, all) \in Nat
      BY <1>0, <3>3, DaysMonotone
    <3> QED
      BY <1>1, <1>3, <3>2, <3>4
  <2> QED
    BY <1>2, <2>1, <2>2
<1>5. DaysIn(pot, Counted') <= DaysIn(pot, Counted)
      /\ DaysIn(pot, Counted') \in Nat /\ DaysIn(pot, Counted) \in Nat
  <2>1. CASE \E r \in Submissions : InsertAndCommit(r)
    <3> PICK r \in Submissions : InsertAndCommit(r)
      BY <2>1
    <3>1. r # s /\ step[s] = "fits" /\ step[r] = "fits"
      BY <1>0, <1>2 DEF InsertAndCommit, CheckBalance, GoTo, TypeOK
    <3>2. form[r].employee # form[s].employee
      BY <1>0, <3>1 DEF IInv, LockHeldInTransaction, InTransaction
    <3>3. PotOf(form[r]) # pot
      BY <3>2 DEF PotOf
    <3>4. \A q \in Submissions : InsertAndCommit(q) => q = r
      BY <1>0 DEF InsertAndCommit, GoTo, TypeOK
    <3>5. Counted' \in SUBSET (Counted \union {r})
      BY <1>0, <1>k, <3>4, CountedStep
    <3>6. Counted \union {r} \in SUBSET Submissions
      BY <1>k
    <3> HIDE DEF pot
    <3>7. DaysIn(pot, Counted \union {r}) = DaysIn(pot, Counted)
      BY <1>0, <1>k, <3>3, DaysAdded
    <3> QED
      BY <1>0, <3>5, <3>6, <3>7, DaysMonotone
  <2>2. CASE ~ \E r \in Submissions : InsertAndCommit(r)
    <3>1. Counted' \in SUBSET Counted
      BY <1>0, <1>k, <2>2, CountedStep
    <3> HIDE DEF pot
    <3> QED
      BY <1>0, <1>k, <3>1, DaysMonotone
  <2> QED
    BY <2>1, <2>2
<1> HIDE DEF pot
<1>6. DaysIn(pot, Counted') + DaysOf(form[s]) <= entitlement'[s]
  BY <1>1, <1>3, <1>4, <1>5
<1> QED
  BY <1>6 DEF pot

\* A set with the row that is being booked was judged with it; one without was
\* judged before.
LEMMA JudgedStep ==
  ASSUME OInv, [Next]_vars
  PROVE  EveryPartJudged'
<1>0. TypeOK /\ IInv /\ FitsStill /\ EveryPartJudged
  BY DEF OInv, IInv
<1>k. Counted \in SUBSET Submissions /\ Counted' \in SUBSET Submissions
  BY DEF Counted
<1> SUFFICES ASSUME NEW T \in SUBSET Counted', NEW pot \in Pots, T # {},
                    \A r \in T : Charged(r)' /\ PotOf(form'[r]) = pot
             PROVE  \E r \in T : DaysIn(pot, T) <= entitlement'[r]
  BY <1>0, FormsKept DEF EveryPartJudged
<1>1. \A r \in T : Charged(r) /\ PotOf(form[r]) = pot
  BY <1>0, <1>k, FormsKept
<1>2. \A r \in Counted : step[r] # "valid"
  BY <1>0 DEF Counted, Active, ACTIVE_STATUSES, IInv, UncommittedAbsent
<1>3. CASE T \subseteq Counted
  <2>1. PICK r \in T : DaysIn(pot, T) <= entitlement[r]
    BY <1>0, <1>1, <1>3 DEF EveryPartJudged
  <2>2. entitlement'[r] = entitlement[r]
    BY <1>0, <1>2, <1>3, <1>k, CountedStep
  <2> QED
    BY <2>1, <2>2
<1>4. CASE ~(T \subseteq Counted)
  <2>1. PICK s \in T : s \notin Counted
    BY <1>4
  <2>2. s \in Submissions /\ InsertAndCommit(s)
    BY <1>0, <1>k, <2>1, CountedStep
  <2>3. \A q \in Submissions : InsertAndCommit(q) => q = s
    BY <1>0, <2>2 DEF InsertAndCommit, GoTo, TypeOK
  <2>4. T \in SUBSET (Counted \union {s}) /\ Counted \union {s} \in SUBSET Submissions
    BY <1>0, <1>k, <2>2, <2>3, CountedStep
  <2>5. step[s] = "fits" /\ entitlement'[s] = entitlement[s] /\ entitlement[s] \in Nat
    BY <1>0, <2>2 DEF InsertAndCommit, GoTo, TypeOK
  <2>6. DaysIn(pot, Counted) + DaysOf(form[s]) <= entitlement[s]
    BY <1>0, <1>1, <2>1, <2>2, <2>5 DEF FitsStill
  <2>7. DaysIn(pot, Counted \union {s}) <= DaysIn(pot, Counted) + DaysOf(form[s])
    BY <1>0, <1>k, <2>2, DaysAdded
  <2>8. /\ DaysIn(pot, T) <= DaysIn(pot, Counted \union {s})
        /\ DaysIn(pot, T) \in Nat /\ DaysIn(pot, Counted \union {s}) \in Nat
    BY <1>0, <2>4, DaysMonotone
  <2>9. DaysIn(pot, Counted) \in Nat /\ DaysOf(form[s]) \in Nat
    BY <1>0, <1>k, <2>2, DaysMonotone, DaysOffType
  <2> QED
    BY <2>1, <2>5, <2>6, <2>7, <2>8, <2>9
<1> QED
  BY <1>3, <1>4

\* However many submissions race, and whatever HR does to entitlements while they
\* wait for the lock, the days a pot has given out fit an entitlement that one of
\* the requests was judged by; revivals aside.
THEOREM NoOverspendHolds == Spec => []NoOverspend
<1>1. Init => OInv
  <2> SUFFICES ASSUME Init PROVE OInv
    OBVIOUS
  <2>1. Counted = {} /\ \A s \in Submissions : step[s] # "fits"
    BY DEF Init, Counted, Active, ACTIVE_STATUSES
  <2> QED
    BY <2>1, InitIInv DEF OInv, EveryPartJudged, FitsStill
<1>2. OInv /\ [Next]_vars => OInv'
  BY NextIInv, FitsStep, JudgedStep DEF OInv
<1>3. OInv => NoOverspend
  <2> SUFFICES ASSUME OInv, NEW pot \in Pots PROVE
        LET charged == {r \in Submissions : /\ Active(r) /\ r \notin revived
                                            /\ PotOf(form[r]) = pot
                                            /\ Charged(r)}
        IN  charged # {} => \E r \in charged : DaysIn(pot, charged) <= entitlement[r]
    BY DEF NoOverspend
  <2> DEFINE charged == {r \in Submissions : /\ Active(r) /\ r \notin revived
                                             /\ PotOf(form[r]) = pot
                                             /\ Charged(r)}
  <2>1. charged \in SUBSET Counted /\ \A r \in charged : Charged(r) /\ PotOf(form[r]) = pot
    BY DEF Counted
  <2> HIDE DEF charged
  <2>2. charged # {} => \E r \in charged : DaysIn(pot, charged) <= entitlement[r]
    BY <2>1 DEF OInv, EveryPartJudged
  <2> QED
    BY <2>2 DEF charged
<1> QED
  BY <1>1, <1>2, <1>3, PTL DEF Spec
-----------------------------------------------------------------------------
(***************************************************************************)
(* One handler of decisions.  What it checked is still so when it writes,  *)
(* because no other handler writes the row it read; a submission commits   *)
(* only a row that was not there.  With two handlers all of this fails.    *)
(***************************************************************************)

OneHandler == \A d, e \in Deciders : d = e

\* What a handler may go on to write: a decision over a pending request, a
\* withdrawal over an active one.
StillOpen(d) ==
  LET r == decider[d].request IN
  Active(r) /\ (decider[d].outcome # "CANCELLED" => status[r] = "PENDING")

CheckedStillOpen ==
  \A d \in Deciders :
    decider[d] # Idle /\ decider[d].step \in {"read", "checked"} => StillOpen(d)

DInv == IInv /\ CheckedStillOpen /\ revived = {}

LEMMA SubmitsOnlyInsert ==
  ASSUME IInv, NEW s \in Submissions, Submit(s) \/ Fail(s),
         NEW r \in Submissions, status[r] # "ABSENT"
  PROVE  UNCHANGED <<form, decider, revived>> /\ status'[r] = status[r]
<1>1. CASE InsertAndCommit(s)
  <2>1. status[s] = "ABSENT"
    BY <1>1 DEF InsertAndCommit, GoTo, IInv, UncommittedAbsent, InTransaction
  <2>2. s # r
    BY <2>1
  <2> QED
    BY <1>1, <2>2 DEF InsertAndCommit, IInv, TypeOK
<1>2. CASE ~InsertAndCommit(s)
  BY <1>2
  DEF Submit, Validate, ResolveEntitlement, Lock, CheckOverlap, CheckBalance,
      AnnounceSubmission, Fail
<1> QED
  BY <1>1, <1>2

\* The handler reads and checks; or it writes what it had read and checked.
LEMMA HandlerStep ==
  ASSUME OneHandler, DInv, NEW d \in Deciders, Decide(d) \/ Drop(d)
  PROVE  /\ CheckedStillOpen' /\ revived' = {} /\ form' = form
         /\ \A r \in Submissions : status'[r] = status[r] \/ Active(r)
<1>0. TypeOK /\ CheckedStillOpen /\ revived = {} /\ \A e \in Deciders : e = d
  BY DEF DInv, IInv, OneHandler
<1>1. ASSUME NEW r \in Submissions, ReadForDecision(d, r) \/ ReadForCancel(d, r)
      PROVE  CheckedStillOpen' /\ UNCHANGED <<form, status, revived>>
  <2>1. UNCHANGED <<form, status, revived>>
    BY <1>1 DEF ReadForDecision, ReadForCancel, submission
  <2>2. /\ decider'[d].request = r
        /\ Active(r) /\ (decider'[d].outcome # "CANCELLED" => status[r] = "PENDING")
    BY <1>0, <1>1
    DEF TypeOK, ReadForDecision, ReadForCancel, Withdrawable, Active, ACTIVE_STATUSES
  <2> QED
    BY <1>0, <2>1, <2>2 DEF CheckedStillOpen, StillOpen, Active
<1>2. CASE RecheckBalance(d)
  <2>1. StillOpen(d) /\ UNCHANGED <<form, status, revived>>
    BY <1>0, <1>2 DEF RecheckBalance, CheckedStillOpen, submission
  <2>2. decider'[d] = Idle \/ decider'[d] = [decider[d] EXCEPT !.step = "checked"]
    BY <1>0, <1>2 DEF RecheckBalance, TypeOK
  <2>3. decider[d] \in Busy
    BY <1>0, <1>2, BusyFields DEF RecheckBalance
  <2>4. decider'[d] # Idle => /\ decider'[d].request = decider[d].request
                              /\ decider'[d].outcome = decider[d].outcome
    BY <2>2, <2>3 DEF Busy
  <2> QED
    BY <1>0, <2>1, <2>4 DEF CheckedStillOpen, StillOpen, Active
<1>3. CASE WriteDecision(d) \/ WriteCancel(d)
  <2>1. StillOpen(d) /\ WriteOutcome(d) /\ decider[d] \in Busy
    BY <1>0, <1>3, BusyFields DEF WriteDecision, WriteCancel, CheckedStillOpen
  <2>2. revived' = {} /\ form' = form
    BY <1>0, <2>1 DEF WriteOutcome, StillOpen, submission
  <2>3. decider'[d] = [decider[d] EXCEPT !.step = "written"]
    BY <1>0, <2>1 DEF WriteOutcome, TypeOK
  <2>4. decider'[d].step = "written"
    BY <2>1, <2>3 DEF Busy
  <2>5. CheckedStillOpen'
    BY <1>0, <2>4 DEF CheckedStillOpen
  <2>6. \A r \in Submissions : r # decider[d].request => status'[r] = status[r]
    BY <1>0, <2>1 DEF WriteOutcome, TypeOK
  <2> QED
    BY <2>1, <2>2, <2>5, <2>6 DEF StillOpen
<1>4. CASE AnnounceOutcome(d) \/ Drop(d)
  <2>1. decider'[d] = Idle /\ UNCHANGED <<form, status, revived>>
    BY <1>0, <1>4 DEF AnnounceOutcome, Drop, TypeOK, submission
  <2> QED
    BY <1>0, <2>1 DEF CheckedStillOpen
<1> QED
  BY <1>0, <1>1, <1>2, <1>3, <1>4 DEF Decide

\* Only active requests change their status, and none comes back.
LEMMA ClosedStep ==
  ASSUME OneHandler, DInv, [Next]_vars
  PROVE  /\ DInv'
         /\ \A r \in Submissions : status[r] \in {"REJECTED", "CANCELLED"}
                                     => status'[r] = status[r]
<1>0. IInv' /\ TypeOK /\ CheckedStillOpen /\ revived = {}
  BY NextIInv DEF DInv, IInv
<1>1. ASSUME NEW s \in Submissions, Submit(s) \/ Fail(s)
      PROVE  /\ CheckedStillOpen' /\ revived' = {}
             /\ \A r \in Submissions : status[r] # "ABSENT" => status'[r] = status[r]
  <2>1. \A r \in Submissions : status[r] # "ABSENT" => status'[r] = status[r]
    BY <1>1, SubmitsOnlyInsert DEF DInv
  <2>2. UNCHANGED <<decider, revived>>
    BY <1>1
    DEF Submit, Validate, ResolveEntitlement, Lock, CheckOverlap, CheckBalance,
        InsertAndCommit, AnnounceSubmission, Fail
  <2>3. ASSUME NEW d \in Deciders, decider[d] # Idle,
               decider[d].step \in {"read", "checked"}
        PROVE  StillOpen(d)'
    <3>1. StillOpen(d) /\ decider[d].request \in Submissions
      BY <1>0, <2>3, BusyFields DEF CheckedStillOpen
    <3>2. status'[decider[d].request] = status[decider[d].request]
      BY <2>1, <3>1 DEF StillOpen, Active, ACTIVE_STATUSES
    <3> QED
      BY <2>2, <3>1, <3>2 DEF StillOpen, Active
  <2> QED
    BY <1>0, <2>1, <2>2, <2>3 DEF CheckedStillOpen
<1>2. ASSUME UNCHANGED <<status, decider, revived>>
      PROVE  CheckedStillOpen' /\ revived' = {}
  BY <1>0, <1>2 DEF CheckedStillOpen, StillOpen, Active
<1> QED
  BY <1>0, <1>1, <1>2, HandlerStep
  DEF Next, SetBalance, Tick, vars, DInv, Active, ACTIVE_STATUSES
-----------------------------------------------------------------------------
(***************************************************************************)
(* Any number of handlers.  decideRequest and cancelRequest keep a closed  *)
(* request closed except in a race of two of them, and the race has one    *)
(* form: a handler that has read the row before another one wrote it, and  *)
(* writes it last.                                                         *)
(***************************************************************************)

Writes(d) == WriteDecision(d) \/ WriteCancel(d)

\* The handler is about to write a row that is no longer what it read.
Late(d) ==
  /\ decider[d] # Idle
  /\ decider[d].step \in {"read", "checked"}
  /\ ~StillOpen(d)

\* A request that was rejected or withdrawn changes, and a closed one is
\* approved, only when a late handler writes it; and a handler is late only
\* from the step on in which another handler wrote the row it had read.
ClosedButForARace ==
  [][/\ \A r \in Submissions :
          \/ status[r] \in {"REJECTED", "CANCELLED"} /\ status'[r] # status[r]
          \/ r \in revived' \ revived
          => \E d \in Deciders : Late(d) /\ decider[d].request = r /\ Writes(d)
     /\ \A d \in Deciders :
          ~Late(d) /\ Late(d)'
          => \E e \in Deciders \ {d} :
               Writes(e) /\ decider[e].request = decider'[d].request]_vars

\* What a handler's step does to the table and to the other handlers.
LEMMA HandlersWrite ==
  ASSUME TypeOK, NEW d \in Deciders, Decide(d) \/ Drop(d)
  PROVE  /\ \A e \in Deciders \ {d} : decider'[e] = decider[e]
         /\ \/ UNCHANGED <<status, revived>>
            \/ /\ Writes(d) /\ decider[d] # Idle
               /\ decider[d].step \in {"read", "checked"}
               /\ \A r \in Submissions :
                    r # decider[d].request
                      => status'[r] = status[r] /\ (r \in revived' => r \in revived)
               /\ ~Active(decider[d].request) \/ revived' = revived
<1> USE DEF TypeOK
<1>1. CASE Writes(d)
  <2>1. WriteOutcome(d) /\ decider[d] # Idle /\ decider[d].step \in {"read", "checked"}
    BY <1>1 DEF Writes, WriteDecision, WriteCancel
  <2> QED
    BY <1>1, <2>1 DEF WriteOutcome
<1>2. CASE ~Writes(d)
  BY <1>2
  DEF Writes, Decide, Drop, ReadForDecision, ReadForCancel, RecheckBalance,
      AnnounceOutcome
<1> QED
  BY <1>1, <1>2

\* A handler's own steps do not make it late.
LEMMA OwnStepsOnTime ==
  ASSUME IInv, NEW d \in Deciders, Decide(d) \/ Drop(d), Late(d)'
  PROVE  Late(d)
<1>0. TypeOK
  BY DEF IInv
<1>1. ASSUME NEW r \in Submissions, ReadForDecision(d, r) \/ ReadForCancel(d, r)
      PROVE  FALSE
  <2>1. UNCHANGED status
    BY <1>1 DEF ReadForDecision, ReadForCancel
  <2>2. /\ decider'[d].request = r
        /\ Active(r) /\ (decider'[d].outcome # "CANCELLED" => status[r] = "PENDING")
    BY <1>0, <1>1
    DEF TypeOK, ReadForDecision, ReadForCancel, Withdrawable, Active, ACTIVE_STATUSES
  <2> QED
    BY <2>1, <2>2 DEF Late, StillOpen, Active
<1>2. CASE RecheckBalance(d)
  <2>1. decider'[d] = Idle \/ decider'[d] = [decider[d] EXCEPT !.step = "checked"]
    BY <1>0, <1>2 DEF RecheckBalance, TypeOK
  <2>2. decider[d] \in Busy
    BY <1>0, <1>2, BusyFields DEF RecheckBalance
  <2>3. decider'[d] # Idle => /\ decider'[d].request = decider[d].request
                              /\ decider'[d].outcome = decider[d].outcome
    BY <2>1, <2>2 DEF Busy
  <2> QED
    BY <1>2, <2>3 DEF RecheckBalance, Late, StillOpen, Active
<1>3. CASE WriteDecision(d) \/ WriteCancel(d)
  <2>1. WriteOutcome(d) /\ decider[d] \in Busy
    BY <1>0, <1>3, BusyFields DEF WriteDecision, WriteCancel
  <2>2. decider'[d] = [decider[d] EXCEPT !.step = "written"]
    BY <1>0, <2>1 DEF WriteOutcome, TypeOK
  <2>3. decider'[d].step = "written"
    BY <2>1, <2>2 DEF Busy
  <2> QED
    BY <2>3 DEF Late
<1>4. CASE AnnounceOutcome(d) \/ Drop(d)
  <2>1. decider'[d] = Idle
    BY <1>0, <1>4 DEF AnnounceOutcome, Drop, TypeOK
  <2> QED
    BY <2>1 DEF Late
<1> QED
  BY <1>1, <1>2, <1>3, <1>4 DEF Decide

LEMMA RaceStep ==
  ASSUME IInv, [Next]_vars
  PROVE  /\ \A r \in Submissions :
              \/ status[r] \in {"REJECTED", "CANCELLED"} /\ status'[r] # status[r]
              \/ r \in revived' \ revived
              => \E d \in Deciders : Late(d) /\ decider[d].request = r /\ Writes(d)
         /\ \A d \in Deciders :
              ~Late(d) /\ Late(d)'
              => \E e \in Deciders \ {d} :
                   Writes(e) /\ decider[e].request = decider'[d].request
<1>0. TypeOK /\ DecidedExist
  BY DEF IInv
<1>1. ASSUME NEW s \in Submissions, Submit(s) \/ Fail(s)
      PROVE  /\ \A r \in Submissions : status[r] # "ABSENT" => status'[r] = status[r]
             /\ UNCHANGED <<decider, revived>>
  BY <1>1, SubmitsOnlyInsert
  DEF Submit, Validate, ResolveEntitlement, Lock, CheckOverlap, CheckBalance,
      InsertAndCommit, AnnounceSubmission, Fail
<1>2. ASSUME \A r \in Submissions : status[r] # "ABSENT" => status'[r] = status[r],
             UNCHANGED <<decider, revived>>,
             NEW d \in Deciders, Late(d)'
      PROVE  Late(d)
  <2>1. status'[decider[d].request] = status[decider[d].request]
    BY <1>0, <1>2, BusyFields DEF DecidedExist, Late
  <2> QED
    BY <1>2, <2>1 DEF Late, StillOpen, Active
<1>3. ASSUME NEW d \in Deciders, Decide(d) \/ Drop(d)
      PROVE  /\ \A r \in Submissions :
                  \/ status[r] \in {"REJECTED", "CANCELLED"} /\ status'[r] # status[r]
                  \/ r \in revived' \ revived
                  => Late(d) /\ decider[d].request = r /\ Writes(d)
             /\ \A e \in Deciders :
                  ~Late(e) /\ Late(e)'
                  => e # d /\ Writes(d) /\ decider[d].request = decider'[e].request
  <2>1. ASSUME NEW r \in Submissions,
               \/ status[r] \in {"REJECTED", "CANCELLED"} /\ status'[r] # status[r]
               \/ r \in revived' \ revived
        PROVE  Late(d) /\ decider[d].request = r /\ Writes(d)
    <3>1. /\ Writes(d) /\ decider[d] # Idle /\ decider[d].step \in {"read", "checked"}
          /\ decider[d].request = r
          /\ ~Active(r)
      BY <1>0, <1>3, <2>1, HandlersWrite DEF Active, ACTIVE_STATUSES
    <3> QED
      BY <3>1 DEF Late, StillOpen
  <2>2. ASSUME NEW e \in Deciders, ~Late(e), Late(e)'
        PROVE  e # d /\ Writes(d) /\ decider[d].request = decider'[e].request
    <3>1. e # d
      BY <1>3, <2>2, OwnStepsOnTime
    <3>2. decider'[e] = decider[e]
      BY <1>0, <1>3, <3>1, HandlersWrite
    <3>3. decider[e] # Idle /\ decider[e].request \in Submissions
      BY <1>0, <2>2, <3>2, BusyFields DEF Late
    <3>4. status'[decider[e].request] # status[decider[e].request]
      BY <2>2, <3>2 DEF Late, StillOpen, Active
    <3> QED
      BY <1>0, <1>3, <3>1, <3>2, <3>3, <3>4, HandlersWrite
  <2> QED
    BY <2>1, <2>2
<1>4. ASSUME UNCHANGED <<status, decider, revived>>, NEW d \in Deciders
      PROVE  Late(d)' <=> Late(d)
  BY <1>4 DEF Late, StillOpen, Active
<1> QED
  BY <1>1, <1>2, <1>3, <1>4 DEF Next, SetBalance, Tick, vars

\* However many decisions and withdrawals run at once, a closed request is written
\* again, and a closed request approved, only in a race of the form above.
THEOREM ClosedStays == Spec => ClosedButForARace
<1>1. Init => IInv
  BY InitIInv
<1>2. IInv /\ [Next]_vars => IInv'
  BY NextIInv
<1>3. IInv /\ [Next]_vars
        => [/\ \A r \in Submissions :
                 \/ status[r] \in {"REJECTED", "CANCELLED"} /\ status'[r] # status[r]
                 \/ r \in revived' \ revived
                 => \E d \in Deciders : Late(d) /\ decider[d].request = r /\ Writes(d)
            /\ \A d \in Deciders :
                 ~Late(d) /\ Late(d)'
                 => \E e \in Deciders \ {d} :
                      Writes(e) /\ decider[e].request = decider'[d].request]_vars
  BY RaceStep
<1> QED
  BY <1>1, <1>2, <1>3, PTL DEF Spec, ClosedButForARace
-----------------------------------------------------------------------------
(***************************************************************************)
(* The refinement.  A submission's commit is the ledger's booking: what    *)
(* its two checks found still holds when it commits.  A write of an outcome *)
(* is the ledger's decision or withdrawal, and every other step leaves the  *)
(* ledger alone.                                                           *)
(***************************************************************************)

\* The entitlement a submission resolved is one HR may grant.
JudgedByGrantable ==
  \A s \in Submissions :
    Charged(s) /\ step[s] \in {"resolved"} \union InTransaction
      => entitlement[s] \in Grantable(PotOf(form[s]))

RInv == OInv /\ CheckedStillOpen /\ revived = {} /\ JudgedByGrantable

\* The ledger counts days and sets as the table does.
LEMMA LedgerCounts ==
  /\ \A S : Ledger!Cardinality(S) = Cardinality(S)
  /\ \A r : Ledger!Days(r) = DaysOff(r)
<1>1. \A S : Ledger!Cardinality(S) = Cardinality(S)
  BY DEF Cardinality, Ledger!Cardinality
<1>2. \A from, to : Ledger!workingDays(from, to) = workingDays(from, to)
  BY DEF workingDays, Ledger!workingDays, isWeekend, Ledger!isWeekend, getUTCDay,
         Ledger!getUTCDay
<1> QED
  BY <1>1, <1>2 DEF Ledger!Days, DaysOff

LEMMA ResolvedGrantable ==
  ASSUME TypeOK, NEW pot \in Pots
  PROVE  resolveEntitlement(pot) \in Grantable(pot)
<1> DEFINE policy == PolicyDays[<<pot[2], pot[3]>>]
           carried == leaveBalance[pot].carried
           granted == IF leaveBalance[pot].override = NoOverride
                      THEN policy ELSE leaveBalance[pot].override
<1>1. leaveBalance[pot] \in Balance
  BY DEF TypeOK
<1>2. carried \in {0} \union Carried /\ granted \in {policy} \union Overrides
  BY <1>1 DEF Balance
<1>3. policy \in Nat
  <2>1. <<pot[2], pot[3]>> \in Types \X Years
    BY DEF Pots
  <2> QED
    BY <2>1, PolicyAssumption
<1>4. carried \in Nat /\ granted \in Nat
  <2>1. {0} \union Carried \subseteq Nat /\ Overrides \subseteq Nat
    BY PolicyAssumption
  <2> HIDE DEF policy, carried, granted
  <2> QED
    BY <1>2, <1>3, <2>1
<1>5. resolveEntitlement(pot) = carried + granted
  BY DEF resolveEntitlement
<1>6. Grantable(pot) = {g + c : g \in {policy} \union Overrides, c \in {0} \union Carried}
  BY DEF Grantable
<1> HIDE DEF policy, carried, granted
<1>7. resolveEntitlement(pot) = granted + carried
  BY <1>4, <1>5
<1> QED
  BY <1>2, <1>6, <1>7

LEMMA GrantableStep ==
  ASSUME IInv, JudgedByGrantable, [Next]_vars
  PROVE  JudgedByGrantable'
<1>0. TypeOK
  BY DEF IInv
<1> SUFFICES ASSUME NEW s \in Submissions, Charged(s),
                    step'[s] \in {"resolved"} \union InTransaction
             PROVE  entitlement'[s] \in Grantable(PotOf(form[s]))
  BY <1>0, FormsKept DEF JudgedByGrantable, InTransaction
<1>1. CASE ResolveEntitlement(s)
  <2>1. PotOf(form[s]) \in Pots
    BY <1>0, PotType DEF TypeOK
  <2>2. entitlement'[s] = resolveEntitlement(PotOf(form[s]))
    BY <1>0, <1>1 DEF ResolveEntitlement, TypeOK
  <2> QED
    BY <1>0, <2>1, <2>2, ResolvedGrantable
<1>2. CASE ~ResolveEntitlement(s)
  <2>1. step[s] \in {"resolved"} \union InTransaction
    <3>1. ASSUME NEW q \in Submissions, Submit(q) \/ Fail(q)
          PROVE  step[s] \in {"resolved"} \union InTransaction
      BY <1>0, <1>2, <3>1
      DEF TypeOK, Submit, Validate, ResolveEntitlement, Lock, CheckOverlap,
          CheckBalance, InsertAndCommit, AnnounceSubmission, Fail, GoTo, InTransaction
    <3>2. ASSUME NEW d \in Deciders, Decide(d) \/ Drop(d) PROVE UNCHANGED step
      BY <3>2
      DEF Decide, ReadForDecision, ReadForCancel, RecheckBalance, WriteDecision,
          WriteCancel, WriteOutcome, AnnounceOutcome, Drop, submission
    <3> QED
      BY <3>1, <3>2 DEF Next, SetBalance, Tick, vars, submission
  <2>2. entitlement'[s] = entitlement[s]
    BY <2>1, CountedStep DEF InTransaction
  <2> QED
    BY <2>1, <2>2 DEF JudgedByGrantable
<1> QED
  BY <1>1, <1>2

LEMMA NextRInv ==
  ASSUME OneHandler, RInv, [Next]_vars
  PROVE  RInv'
  BY NextIInv, FitsStep, JudgedStep, ClosedStep, GrantableStep DEF RInv, OInv, DInv

LEMMA CommitBooks ==
  ASSUME RInv, NEW s \in Submissions, InsertAndCommit(s)
  PROVE  Ledger!Book(s)
<1> DEFINE pot == PotOf(form[s])
           active == {r \in Submissions : Active(r)}
<1>0. TypeOK /\ IInv /\ FitsStill /\ revived = {} /\ JudgedByGrantable
  BY DEF RInv, OInv, IInv
<1>1. step[s] = "fits" /\ status[s] = "ABSENT"
  BY <1>0 DEF InsertAndCommit, GoTo, IInv, UncommittedAbsent, InTransaction
<1>2. Ledger!Free(s)
  <2> SUFFICES ASSUME NEW q \in Submissions, Active(q)
               PROVE  \/ form[q].employee # form[s].employee
                      \/ ~Intersect(form[q].start, form[q].end, form[s].start, form[s].end)
    BY DEF Ledger!Free, Ledger!Holding, Ledger!Intersect, Intersect, Active, ACTIVE_STATUSES
  <2> QED
    BY <1>0, <1>1 DEF IInv, ClearOfOthers, Clash
<1>3. Ledger!Given(pot) = DaysIn(pot, active)
  BY LedgerCounts DEF Ledger!Given, Ledger!Holding, DaysIn, Active, ACTIVE_STATUSES
<1>4. Ledger!Cardinality(Ledger!Days(s)) = DaysOf(form[s])
  BY <1>0, LedgerCounts, DaysOffType
<1>5. Counted = active
  BY <1>0 DEF Counted
<1>6. Ledger!Fits(s)
  <2> SUFFICES ASSUME Charged(s)
               PROVE  \E entitled \in Grantable(pot) :
                        DaysIn(pot, active) + DaysOf(form[s]) <= entitled
    BY <1>3, <1>4 DEF Ledger!Fits, Charged
  <2>1. DaysIn(pot, Counted) + DaysOf(form[s]) <= entitlement[s]
    BY <1>0, <1>1 DEF FitsStill
  <2>2. entitlement[s] \in Grantable(pot)
    BY <1>0, <1>1 DEF JudgedByGrantable, InTransaction
  <2> QED
    BY <1>5, <2>1, <2>2
<1>7. \E new \in {"PENDING", "APPROVED"} : Ledger!Become(s, new)
  BY DEF InsertAndCommit, Ledger!Become
<1> QED
  BY <1>1, <1>2, <1>6, <1>7 DEF Ledger!Book

LEMMA OutcomeDecides ==
  ASSUME RInv, NEW d \in Deciders, WriteDecision(d) \/ WriteCancel(d)
  PROVE  \E r \in Submissions : Ledger!Decide(r) \/ Ledger!Withdraw(r)
<1> DEFINE r == decider[d].request
<1>1. /\ TypeOK /\ WriteOutcome(d) /\ StillOpen(d) /\ decider[d] # Idle
      /\ decider[d].step \in {"read", "checked"}
  BY DEF WriteDecision, WriteCancel, RInv, OInv, IInv, CheckedStillOpen
<1>2. r \in Submissions /\ decider[d].outcome \in {"APPROVED", "REJECTED", "CANCELLED"}
  BY <1>1, BusyFields
<1>3. Ledger!Become(r, decider[d].outcome)
  BY <1>1 DEF WriteOutcome, submission, Ledger!Become
<1>4. Active(r) /\ (decider[d].outcome # "CANCELLED" => status[r] = "PENDING")
  BY <1>1 DEF StillOpen
<1> HIDE DEF r
<1>5. CASE decider[d].outcome = "CANCELLED"
  BY <1>2, <1>3, <1>4, <1>5 DEF Ledger!Withdraw, Ledger!Holding, Active, ACTIVE_STATUSES
<1>6. CASE decider[d].outcome # "CANCELLED"
  BY <1>2, <1>3, <1>4, <1>6 DEF Ledger!Decide
<1> QED
  BY <1>5, <1>6

LEMMA LedgerStep ==
  ASSUME RInv, [Next]_vars
  PROVE  [Ledger!Next]_<<form, status>>
<1>1. ASSUME NEW s \in Submissions, Submit(s) \/ Fail(s)
      PROVE  Ledger!Next \/ UNCHANGED <<form, status>>
  <2>1. CASE InsertAndCommit(s)
    BY <2>1, CommitBooks DEF Ledger!Next
  <2>2. CASE ~InsertAndCommit(s)
    BY <1>1, <2>2
    DEF Submit, Validate, ResolveEntitlement, Lock, CheckOverlap, CheckBalance,
        AnnounceSubmission, Fail
  <2> QED
    BY <2>1, <2>2
<1>2. ASSUME NEW d \in Deciders, Decide(d) \/ Drop(d)
      PROVE  Ledger!Next \/ UNCHANGED <<form, status>>
  <2>1. CASE WriteDecision(d) \/ WriteCancel(d)
    BY <2>1, OutcomeDecides DEF Ledger!Next
  <2>2. CASE ~(WriteDecision(d) \/ WriteCancel(d))
    BY <1>2, <2>2
    DEF Decide, ReadForDecision, ReadForCancel, RecheckBalance, AnnounceOutcome, Drop,
        submission
  <2> QED
    BY <2>1, <2>2
<1> QED
  BY <1>1, <1>2 DEF Next, SetBalance, Tick, vars, submission

\* With one handler of decisions, any number of racing submissions, dying ones
\* included, amount to bookings made one at a time, each of free days that fit.
THEOREM LedgerImplemented == OneHandler => (Spec => ImplementsLedger)
<1> SUFFICES ASSUME OneHandler PROVE Spec => ImplementsLedger
  OBVIOUS
<1>1. Init => RInv /\ Ledger!Init
  <2> SUFFICES ASSUME Init PROVE RInv /\ Ledger!Init
    OBVIOUS
  <2>1. Counted = {} /\ \A s \in Submissions : step[s] = "new"
    BY DEF Init, Counted, Active, ACTIVE_STATUSES
  <2>2. CheckedStillOpen /\ revived = {} /\ Ledger!Init
    BY DEF Init, CheckedStillOpen, Ledger!Init
  <2> QED
    BY <2>1, <2>2, InitIInv
    DEF RInv, OInv, EveryPartJudged, FitsStill, JudgedByGrantable, InTransaction
<1>2. RInv /\ [Next]_vars => RInv'
  BY NextRInv
<1>3. RInv /\ [Next]_vars => [Ledger!Next]_<<form, status>>
  BY LedgerStep
<1> QED
  BY <1>1, <1>2, <1>3, PTL DEF Spec, ImplementsLedger, Ledger!Spec

-----------------------------------------------------------------------------
(* SubmissionPool: with one connection a transaction, a pool of any size   *)
(* serves any number of submissions without starving.                      *)

\* The lock is held from FOR UPDATE to the end of the transaction.
LockAccounted == lock = {s \in Calls : at[s] = "critical"}

OneOwner == \A s, r \in lock : Owner[s] = Owner[r] => s = r

\* What is saved is on its way to an answer other than 503.
SavedGoOn ==
  \A s \in saved : at[s] \in {"committed", "announcing", "ok", "error"}

PoolInv ==
  /\ PoolTypeOK /\ ConnectionsAccounted /\ LockAccounted /\ OneOwner /\ SavedGoOn

\* Nobody holds anything at the start.
LEMMA PoolBegins == PoolInit => PoolInv
<1> SUFFICES ASSUME PoolInit PROVE PoolInv
  OBVIOUS
<1>1. Cardinality({}) <= PoolSize
  BY FS_EmptySet, PoolAssumption
<1> QED
  BY <1>1
  DEF PoolInit, PoolInv, PoolTypeOK, ConnectionsAccounted, LockAccounted, OneOwner, SavedGoOn,
      Asking, Working, Answer

\* Borrowing from a pool with a connection left does not overdraw it.
LEMMA BorrowFits ==
  ASSUME PoolInv, NEW s \in Calls, Borrow(s)
  PROVE  Cardinality(conns') <= PoolSize
<1>1. IsFiniteSet(conns)
  BY PoolAssumption, FS_Subset DEF PoolInv, PoolTypeOK
<1>2. Cardinality(conns) \in Nat
  BY <1>1, FS_CardinalityType
<1>3. Cardinality(conns \union {s}) <= Cardinality(conns) + 1
  <2>1. Cardinality(conns \union {s}) \in {Cardinality(conns), Cardinality(conns) + 1}
    BY <1>1, FS_AddElement, Zenon
  <2> QED
    BY <1>2, <2>1
<1>4. Cardinality(conns \union {s}) \in Nat
  BY <1>1, FS_AddElement, FS_CardinalityType
<1> QED
  BY <1>2, <1>3, <1>4, PoolAssumption DEF Borrow, Available

\* Giving a connection back does not overdraw the pool either.
LEMMA GiveBackFits ==
  ASSUME PoolInv, NEW s \in Calls, GiveBack(s)
  PROVE  Cardinality(conns') <= PoolSize
<1>1. IsFiniteSet(conns)
  BY PoolAssumption, FS_Subset DEF PoolInv, PoolTypeOK
<1>2. Cardinality(conns \ {s}) <= Cardinality(conns)
  BY <1>1, FS_Subset
<1>3. Cardinality(conns) \in Nat /\ Cardinality(conns \ {s}) \in Nat
  BY <1>1, FS_Subset, FS_CardinalityType
<1> QED
  BY <1>2, <1>3, PoolAssumption DEF GiveBack, PoolInv, ConnectionsAccounted

\* One submission moves on, or gives up.
LEMMA PoolStep ==
  ASSUME PoolInv, NEW s \in Calls, Step(s) \/ GiveUp(s)
  PROVE  PoolInv'
<1> USE DEF PoolInv, PoolTypeOK, ConnectionsAccounted, LockAccounted,
            OneOwner, SavedGoOn, Go, Asking, Working, Answer
<1>1. CASE BeginReads(s) \/ OpenTransaction(s) \/ BeginAnnounce(s)
  <2>1. Borrow(s) /\ UNCHANGED <<lock, saved>>
    BY <1>1 DEF BeginReads, OpenTransaction, BeginAnnounce
  <2>2. Cardinality(conns') <= PoolSize
    BY <2>1, BorrowFits
  <2> QED
    BY <1>1, <2>1, <2>2
    DEF BeginReads, OpenTransaction, BeginAnnounce, Borrow
<1>2. CASE EndReads(s) \/ EndAnnounce(s)
  <2>1. GiveBack(s) /\ UNCHANGED <<lock, saved>>
    BY <1>2 DEF EndReads, EndAnnounce
  <2>2. Cardinality(conns') <= PoolSize
    BY <2>1, GiveBackFits
  <2> QED
    BY <1>2, <2>1, <2>2 DEF EndReads, EndAnnounce, GiveBack
<1>3. CASE TakeRowLock(s)
  BY <1>3 DEF TakeRowLock, Locked
<1>4. CASE Commit(s)
  <2>1. Cardinality(conns') <= PoolSize
    BY <1>4, GiveBackFits DEF Commit
  <2> QED
    BY <1>4, <2>1 DEF Commit, GiveBack
<1>5. CASE Refuse(s) \/ Timeout(s)
  <2>1. RollBack(s)
    BY <1>5 DEF Refuse, Timeout
  <2>2. Cardinality(conns') <= PoolSize
    BY <2>1, GiveBackFits DEF RollBack
  <2> QED
    BY <1>5, <2>1, <2>2 DEF Refuse, Timeout, RollBack, GiveBack
<1>6. CASE MaxWait(s) \/ PoolTimeout(s)
  BY <1>6 DEF MaxWait, PoolTimeout
<1> QED
  BY <1>1, <1>2, <1>3, <1>4, <1>5, <1>6 DEF Step, GiveUp

\* Every step of the pool keeps the invariant.
LEMMA PoolGoesOn == PoolInv /\ [PoolNext]_poolVars => PoolInv'
<1> SUFFICES ASSUME PoolInv, [PoolNext]_poolVars PROVE PoolInv'
  OBVIOUS
<1>1. CASE UNCHANGED poolVars
  BY <1>1
  DEF poolVars, PoolInv, PoolTypeOK, ConnectionsAccounted, LockAccounted, OneOwner, SavedGoOn
<1> QED
  BY <1>1, PoolStep DEF PoolNext, Done

\* The pool, its locks and what is saved agree in every state.
THEOREM PoolInvariantHolds == PoolSpec => []PoolInv
<1> QED
  BY PoolBegins, PoolGoesOn, PTL DEF PoolSpec

\* Every variable keeps its type.
THEOREM PoolTypeCorrect == PoolSpec => []PoolTypeOK
<1>1. PoolInv => PoolTypeOK
  BY DEF PoolInv
<1> QED
  BY <1>1, PoolInvariantHolds, PTL

\* Connections are held exactly by those at work, within the pool's size.
THEOREM ConnectionsHold == PoolSpec => []ConnectionsAccounted
<1>1. PoolInv => ConnectionsAccounted
  BY DEF PoolInv
<1> QED
  BY <1>1, PoolInvariantHolds, PTL

\* The row lock excludes others of the employee and comes with a connection.
THEOREM LockHolds == PoolSpec => []LockOwnsConnection
<1>1. PoolInv => LockOwnsConnection
  BY DEF PoolInv, PoolTypeOK, ConnectionsAccounted, LockAccounted, OneOwner,
         LockOwnsConnection, Working
<1> QED
  BY <1>1, PoolInvariantHolds, PTL

\* "Nothing was saved - please try again" is true of every 503, so that a retry
\* never meets a request of its own.
THEOREM BusyIsTrue == PoolSpec => []BusySavedNothing
<1>1. PoolInv => BusySavedNothing
  BY DEF PoolInv, SavedGoOn, BusySavedNothing
<1> QED
  BY <1>1, PoolInvariantHolds, PTL

\* Either somebody at work can go on, the lock holder where a row is locked, or the
\* pool is whole and whoever asks is served.
LEMMA NotStarved == PoolInv => NeverStarved
<1> SUFFICES ASSUME PoolInv, NEW s \in Calls, at[s] \notin Answer
             PROVE  NeverStarved
  BY DEF NeverStarved, AllAnswered
<1>1. CASE \E t \in Calls : t \in conns
  <2> PICK t \in Calls : t \in conns
    BY <1>1
  <2>1. at[t] \in Working
    BY DEF PoolInv, ConnectionsAccounted
  <2>2. CASE at[t] = "begun" /\ Locked(Owner[t])
    <3> PICK r \in lock : Owner[r] = Owner[t]
      BY <2>2 DEF Locked
    <3>1. r \in Calls /\ at[r] = "critical" /\ r \in conns
      BY DEF PoolInv, PoolTypeOK, LockAccounted, ConnectionsAccounted, Working
    <3> QED
      BY <3>1 DEF NeverStarved
  <2> QED
    BY <2>1, <2>2 DEF NeverStarved, Working
<1>2. CASE conns = {}
  <2>1. Available
    BY <1>2, FS_EmptySet, PoolAssumption DEF PoolInv, Available
  <2>2. at[s] \in Asking
    BY <1>2 DEF PoolInv, PoolTypeOK, ConnectionsAccounted
  <2> QED
    BY <2>1, <2>2 DEF NeverStarved
<1> QED
  BY <1>1, <1>2 DEF PoolInv, PoolTypeOK

\* A pool of any size never starves, however many people submit at once.
THEOREM PoolNeverStarves == PoolSpec => []NeverStarved
<1> QED
  BY NotStarved, PoolInvariantHolds, PTL
=============================================================================
