---------------------------- MODULE LeaveRequests ----------------------------
(***************************************************************************)
(* leave/leave.service.ts: the life of a leave request.                    *)
(*                                                                         *)
(* Every HTTP request runs as a handler of its own, interleaved with the   *)
(* others at each await.  A submission (createRequest, submitUnderLock,    *)
(* announceSubmission) inserts at most one row, so the row is named after  *)
(* the submission.  Decisions and withdrawals (decideRequest,              *)
(* cancelRequest) read a row, check what they read, and later write the    *)
(* row by id.  HR changes entitlements at any time (setBalance), and the   *)
(* process can die or a transaction can time out between any two steps.    *)
(***************************************************************************)
EXTENDS WorkingDays

CONSTANTS
  Employees,       \* the people leave is booked for
  Types,           \* leave types
  Years,           \* leave years
  Submissions,     \* calls of createRequest
  Deciders,        \* handlers available to decideRequest and cancelRequest
  Forms,           \* what a submission may ask for
  FirstDay,        \* the day the system starts on
  LastDay,         \* bound: the clock stops here
  LeaveYear,       \* leaveYearOf, for the start dates of Forms
  BalanceTypes,    \* types whose requiresBalance is set
  AutoTypes,       \* types whose policy has approvalRequired unset
  MinNoticeDays,   \* the policy's notice period, by type
  PolicyDays,      \* calculateEntitlement, by type and year
  Overrides,       \* bound: the entitlement overrides HR may set
  Carried,         \* bound: the carried-forward days HR may set
  NoOverride,      \* LeaveBalance.entitlementOverrideDays = null
  NoOne            \* nobody holds the lock of the employee row

Form == [employee : Employees, type : Types, start : Int, end : Int]

ASSUME FormsAssumption ==
  /\ IsFiniteSet(Submissions)
  /\ Forms \subseteq Form
  /\ FirstDay \in Int /\ LastDay \in Int
  /\ LeaveYear \in [{f.start : f \in Forms} -> Years]

ASSUME PolicyAssumption ==
  /\ MinNoticeDays \in [Types -> Nat]
  /\ PolicyDays \in [Types \X Years -> Nat]
  /\ Overrides \subseteq Nat
  /\ Carried \subseteq Nat
  /\ NoOverride \notin Nat

ASSUME NoOneAssumption == NoOne \notin Submissions

VARIABLES
  form,          \* the body of each submission
  step,          \* how far each submission has got
  entitlement,   \* the entitlement a submission resolved before its lock
  rowLock,       \* whose transaction holds the lock of the employee row
  status,        \* the leave_requests table: each row's status
  leaveBalance,  \* the leave_balances table
  decider,       \* the state of each decision or withdrawal
  told,          \* notifications handed to NotificationService
  revived,       \* history: requests approved after they were closed
  today

submission == <<form, step, entitlement, rowLock>>

vars == <<submission, status, leaveBalance, decider, told, revived, today>>
-----------------------------------------------------------------------------
\* A request that has not been inserted is "ABSENT"; the rest are the values
\* of LeaveRequestStatus.
Status == {"ABSENT", "PENDING", "APPROVED", "REJECTED", "CANCELLED"}
ACTIVE_STATUSES == {"PENDING", "APPROVED"}

\* A submission is "new", then "valid", "resolved" (the lock is next),
\* "locked", "clear" (no overlap), "fits" (enough balance), "committed" and
\* "done"; "refused" and "failed" are its other ends.
InTransaction == {"locked", "clear", "fits"}
InFlight == {"valid", "resolved", "committed"} \union InTransaction
Answered == {"done", "refused", "failed"}

\* A decision handler is idle, or it has "read" a row, has "checked" the
\* balance or has "written" its outcome.
Idle == [step |-> "idle"]
Busy == [step : {"read", "checked", "written"},
         request : Submissions,
         outcome : {"APPROVED", "REJECTED", "CANCELLED"}]

Notice ==
  [request : Submissions,
   kind : {"submitted", "autoApproved", "APPROVED", "REJECTED", "CANCELLED"}]

Pots == Employees \X Types \X Years
Balance == [override : Overrides \union {NoOverride}, carried : Carried \union {0}]

TypeOK ==
  /\ form \in [Submissions -> Forms]
  /\ step \in [Submissions -> {"new"} \union InFlight \union Answered]
  /\ entitlement \in [Submissions -> Nat]
  /\ rowLock \in [Employees -> Submissions \union {NoOne}]
  /\ status \in [Submissions -> Status]
  /\ leaveBalance \in [Pots -> Balance]
  /\ decider \in [Deciders -> Busy \union {Idle}]
  /\ told \subseteq Notice
  /\ revived \subseteq Submissions
  /\ today \in Int
-----------------------------------------------------------------------------
\* The request reserves its dates and its days.
Active(r) == status[r] \in ACTIVE_STATUSES

\* The two forms ask for a day of the same employee.
Clash(f, g) ==
  /\ f.employee = g.employee
  /\ Intersect(f.start, f.end, g.start, g.end)

DaysOf(f) == countWorkingDays(f.start, f.end)

\* The employee, leave type and year the form draws from.
PotOf(f) == <<f.employee, f.type, LeaveYear[f.start]>>

\* The leave type of the request requires a balance.
Charged(r) == form[r].type \in BalanceTypes

\* Days used and pending in the pot, over the rows of a set of requests: each row
\* counts the working days of its own form.
DaysOff(r) == {r} \X workingDays(form[r].start, form[r].end)

DaysIn(pot, requests) ==
  Cardinality(UNION {DaysOff(r) : r \in {q \in requests : PotOf(form[q]) = pot}})

sumActiveDays(pot) == DaysIn(pot, {r \in Submissions : Active(r)})

\* The override if there is one, else the policy's figure, plus what HR carried.
resolveEntitlement(pot) ==
  LET b == leaveBalance[pot]
  IN  b.carried + IF b.override = NoOverride
                  THEN PolicyDays[<<pot[2], pot[3]>>] ELSE b.override
-----------------------------------------------------------------------------
Init ==
  /\ form \in [Submissions -> Forms]
  /\ step = [s \in Submissions |-> "new"]
  /\ entitlement = [s \in Submissions |-> 0]
  /\ rowLock = [e \in Employees |-> NoOne]
  /\ status = [s \in Submissions |-> "ABSENT"]
  /\ leaveBalance = [k \in Pots |-> [override |-> NoOverride, carried |-> 0]]
  /\ decider = [d \in Deciders |-> Idle]
  /\ told = {}
  /\ revived = {}
  /\ today = FirstDay
-----------------------------------------------------------------------------
GoTo(s, from, to) == step[s] = from /\ step' = [step EXCEPT ![s] = to]

\* The notice period, when the policy has one, counts from today.
NoticeGiven(f) ==
  MinNoticeDays[f.type] > 0 => f.start >= today + MinNoticeDays[f.type]

\* createRequest's checks of the dates, the working days and the notice.
Acceptable(f) == f.end >= f.start /\ DaysOf(f) > 0 /\ NoticeGiven(f)

Validate(s) ==
  /\ GoTo(s, "new", IF Acceptable(form[s]) THEN "valid" ELSE "refused")
  /\ UNCHANGED <<form, entitlement, rowLock>>
  /\ UNCHANGED <<status, leaveBalance, decider, told, revived, today>>

\* The entitlement, where the type needs a balance, is read on the main pool
\* before the transaction opens.
ResolveEntitlement(s) ==
  /\ GoTo(s, "valid", "resolved")
  /\ entitlement' = [entitlement EXCEPT ![s] =
       IF Charged(s) THEN resolveEntitlement(PotOf(form[s])) ELSE @]
  /\ UNCHANGED <<form, rowLock>>
  /\ UNCHANGED <<status, leaveBalance, decider, told, revived, today>>

\* Mutant of Lock: the FOR UPDATE is missing, nobody waits.
MutantLockNobodyWaits(s) ==
  /\ GoTo(s, "resolved", "locked")
  /\ rowLock' = [rowLock EXCEPT ![form[s].employee] = s]
  /\ UNCHANGED <<form, entitlement>>
  /\ UNCHANGED <<status, leaveBalance, decider, told, revived, today>>

\* SELECT ... FOR UPDATE on the employee's row waits for the lock.
Lock(s) ==
  /\ GoTo(s, "resolved", "locked")
  /\ rowLock[form[s].employee] = NoOne
  /\ rowLock' = [rowLock EXCEPT ![form[s].employee] = s]
  /\ UNCHANGED <<form, entitlement>>
  /\ UNCHANGED <<status, leaveBalance, decider, told, revived, today>>

Unlock(s) == rowLock' = [rowLock EXCEPT ![form[s].employee] = NoOne]

\* Mutant of Overlapping: pending requests do not reserve their dates.
MutantOverlapApprovedOnly(s) ==
  \E r \in Submissions : status[r] = "APPROVED" /\ Clash(form[r], form[s])

Overlapping(s) == \E r \in Submissions : Active(r) /\ Clash(form[r], form[s])

CheckOverlap(s) ==
  /\ \/ ~Overlapping(s) /\ GoTo(s, "locked", "clear") /\ UNCHANGED rowLock
     \/ Overlapping(s) /\ GoTo(s, "locked", "refused") /\ Unlock(s)
  /\ UNCHANGED <<form, entitlement>>
  /\ UNCHANGED <<status, leaveBalance, decider, told, revived, today>>

\* Mutant of Affordable: each request is judged on its own.
MutantAffordableAlone(s) ==
  Charged(s) => DaysOf(form[s]) <= entitlement[s]

\* The days consumed are summed now; the entitlement is the one read earlier.
Affordable(s) ==
  Charged(s) =>
    DaysOf(form[s]) <= entitlement[s] - sumActiveDays(PotOf(form[s]))

\* Mutant of CheckBalance: the refusal keeps the lock.
MutantBalanceKeepsLock(s) ==
  /\ GoTo(s, "clear", IF Affordable(s) THEN "fits" ELSE "refused")
  /\ UNCHANGED <<form, entitlement, rowLock>>
  /\ UNCHANGED <<status, leaveBalance, decider, told, revived, today>>

CheckBalance(s) ==
  /\ \/ Affordable(s) /\ GoTo(s, "clear", "fits") /\ UNCHANGED rowLock
     \/ ~Affordable(s) /\ GoTo(s, "clear", "refused") /\ Unlock(s)
  /\ UNCHANGED <<form, entitlement>>
  /\ UNCHANGED <<status, leaveBalance, decider, told, revived, today>>

AutoApproved(r) == form[r].type \in AutoTypes

\* The insert becomes visible, and the lock is released, by the commit.
InsertAndCommit(s) ==
  /\ GoTo(s, "fits", "committed")
  /\ status' = [status EXCEPT ![s] = IF AutoApproved(s) THEN "APPROVED" ELSE "PENDING"]
  /\ Unlock(s)
  /\ UNCHANGED <<form, entitlement>>
  /\ UNCHANGED <<leaveBalance, decider, told, revived, today>>

Tell(r, kind) == told' = told \union {[request |-> r, kind |-> kind]}

\* Mutant of AnnounceSubmission: notifies from inside the transaction.
MutantAnnounceEarly(s) ==
  /\ GoTo(s, "fits", "fits") \/ GoTo(s, "committed", "done")
  /\ Tell(s, IF AutoApproved(s) THEN "autoApproved" ELSE "submitted")
  /\ UNCHANGED <<form, entitlement, rowLock>>
  /\ UNCHANGED <<status, leaveBalance, decider, revived, today>>

\* announceSubmission runs once the transaction has committed.  The employee hears
\* of an automatic approval; otherwise the approver or HR is told, if there is one.
AnnounceSubmission(s) ==
  /\ GoTo(s, "committed", "done")
  /\ IF AutoApproved(s)
     THEN Tell(s, "autoApproved") ELSE Tell(s, "submitted") \/ UNCHANGED told
  /\ UNCHANGED <<form, entitlement, rowLock>>
  /\ UNCHANGED <<status, leaveBalance, decider, revived, today>>

\* The process dies, or the pool or the transaction times out (P2024, P2028):
\* an open transaction is rolled back, which frees its lock.
Fail(s) ==
  /\ step[s] \in InFlight
  /\ step' = [step EXCEPT ![s] = "failed"]
  /\ IF step[s] \in InTransaction THEN Unlock(s) ELSE UNCHANGED rowLock
  /\ UNCHANGED <<form, entitlement>>
  /\ UNCHANGED <<status, leaveBalance, decider, told, revived, today>>

Submit(s) ==
  \/ Validate(s) \/ ResolveEntitlement(s) \/ Lock(s) \/ CheckOverlap(s)
  \/ CheckBalance(s) \/ InsertAndCommit(s) \/ AnnounceSubmission(s)
-----------------------------------------------------------------------------
\* decideRequest reads the row and refuses one that is no longer PENDING.
ReadForDecision(d, r) ==
  /\ decider[d] = Idle
  /\ status[r] = "PENDING"
  /\ \E outcome \in {"APPROVED", "REJECTED"} :
       decider' = [decider EXCEPT ![d] =
         [step |-> "read", request |-> r, outcome |-> outcome]]
  /\ UNCHANGED <<submission, status, leaveBalance, told, revived, today>>

\* What would remain if r were approved; the code takes the days of r to be
\* inside the sum, as they are while r is PENDING.
RemainingIfApproved(r) ==
  LET pot == PotOf(form[r])
  IN  resolveEntitlement(pot) - sumActiveDays(pot) + DaysOf(form[r])

Exceeds(d) ==
  LET r == decider[d].request
  IN  /\ decider[d].outcome = "APPROVED"
      /\ Charged(r)
      /\ DaysOf(form[r]) > RemainingIfApproved(r)

RecheckBalance(d) ==
  /\ decider[d] # Idle
  /\ decider[d].step = "read"
  /\ decider[d].outcome # "CANCELLED"
  /\ decider' = [decider EXCEPT ![d] =
       IF Exceeds(d) THEN Idle ELSE [@ EXCEPT !.step = "checked"]]
  /\ UNCHANGED <<submission, status, leaveBalance, told, revived, today>>

\* leaveRequest.update({ where: { id } }): whatever the status has become.
WriteOutcome(d) ==
  LET r == decider[d].request
      outcome == decider[d].outcome
  IN  /\ status' = [status EXCEPT ![r] = outcome]
      /\ revived' = IF outcome = "APPROVED" /\ ~Active(r)
                    THEN revived \union {r} ELSE revived
      /\ decider' = [decider EXCEPT ![d].step = "written"]
      /\ UNCHANGED <<submission, leaveBalance, told, today>>

WriteDecision(d) ==
  /\ decider[d] # Idle
  /\ decider[d].step = "checked"
  /\ WriteOutcome(d)

\* Mutant of Withdrawable: the check for a rejected request is missing.
MutantWithdrawRejected(r) ==
  /\ status[r] \in ACTIVE_STATUSES \union {"REJECTED"}
  /\ status[r] = "APPROVED" => form[r].start > today

\* cancelRequest refuses closed requests, and approved leave that has begun.
Withdrawable(r) ==
  /\ Active(r)
  /\ status[r] = "APPROVED" => form[r].start > today

ReadForCancel(d, r) ==
  /\ decider[d] = Idle
  /\ Withdrawable(r)
  /\ decider' = [decider EXCEPT ![d] =
       [step |-> "read", request |-> r, outcome |-> "CANCELLED"]]
  /\ UNCHANGED <<submission, status, leaveBalance, told, revived, today>>

WriteCancel(d) ==
  /\ decider[d] # Idle
  /\ decider[d].step = "read"
  /\ decider[d].outcome = "CANCELLED"
  /\ WriteOutcome(d)

\* The employee hears of a decision.  A withdrawal is told to the current approver,
\* if there is one other than the caller, unless the request approved itself.
AnnounceOutcome(d) ==
  LET r == decider[d].request
      outcome == decider[d].outcome
  IN  /\ decider[d] # Idle
      /\ decider[d].step = "written"
      /\ \/ outcome = "CANCELLED" /\ UNCHANGED told
         \/ ~(outcome = "CANCELLED" /\ AutoApproved(r)) /\ Tell(r, outcome)
      /\ decider' = [decider EXCEPT ![d] = Idle]
      /\ UNCHANGED <<submission, status, leaveBalance, revived, today>>

\* The process dies under the handler.
Drop(d) ==
  /\ decider[d] # Idle
  /\ decider' = [decider EXCEPT ![d] = Idle]
  /\ UNCHANGED <<submission, status, leaveBalance, told, revived, today>>

Decide(d) ==
  \/ \E r \in Submissions : ReadForDecision(d, r) \/ ReadForCancel(d, r)
  \/ RecheckBalance(d) \/ WriteDecision(d) \/ WriteCancel(d)
  \/ AnnounceOutcome(d)
-----------------------------------------------------------------------------
\* HR sets, changes or clears what one employee is entitled to: an upsert that
\* takes no lock.
SetBalance(pot) ==
  /\ \E b \in Balance : leaveBalance' = [leaveBalance EXCEPT ![pot] = b]
  /\ UNCHANGED <<submission, status, decider, told, revived, today>>

Tick ==
  /\ today < LastDay
  /\ today' = today + 1
  /\ UNCHANGED <<submission, status, leaveBalance, decider, told, revived>>

Next ==
  \/ \E s \in Submissions : Submit(s) \/ Fail(s)
  \/ \E d \in Deciders : Decide(d) \/ Drop(d)
  \/ \E pot \in Pots : SetBalance(pot)
  \/ Tick

Spec == Init /\ [][Next]_vars

\* A handler that can take a step takes it: Node's event loop and Postgres's
\* lock queue leave none of them out for ever.
FairSpec == Spec /\ \A s \in Submissions : WF_vars(Submit(s))
-----------------------------------------------------------------------------
\* Mutual exclusion of submitUnderLock: the submissions between their lock and
\* their commit are exactly the holders of the employee rows they locked.
LockHeldInTransaction ==
  /\ \A s \in Submissions :
       step[s] \in InTransaction <=> rowLock[form[s].employee] = s
  /\ \A e \in Employees :
       rowLock[e] # NoOne => form[rowLock[e]].employee = e

\* submitUnderLock's overlap check: however many submissions run at once, two
\* active requests of one employee never share a day, unless a late decision
\* approved one of them again after it had been closed.
NoDoubleBooking ==
  \A r, s \in Submissions :
    (r # s /\ Active(r) /\ Active(s) /\ Clash(form[r], form[s]))
      => (r \in revived \/ s \in revived)

\* submitUnderLock's balance check: the days a pot has given out, late revivals
\* aside, fit the entitlement that one of the requests counted was judged by.
NoOverspend ==
  \A pot \in Pots :
    LET charged == {r \in Submissions : /\ Active(r) /\ r \notin revived
                                        /\ PotOf(form[r]) = pot
                                        /\ Charged(r)}
    IN  charged # {} => \E r \in charged : DaysIn(pot, charged) <= entitlement[r]

\* "A notification about a change that then rolled back would be a lie": what
\* anyone is told of has been committed.
ToldOfCommitted == \A n \in told : status[n.request] # "ABSENT"

\* A submission in flight is answered, whoever else is queueing for the lock.
EverySubmissionAnswered ==
  \A s \in Submissions : (step[s] \in InFlight) ~> (step[s] \in Answered)

\* decideRequest and cancelRequest refuse a closed request, so a request once
\* rejected or withdrawn keeps that status.
ClosedStaysClosed ==
  [][\A r \in Submissions :
       status[r] \in {"REJECTED", "CANCELLED"} => status'[r] = status[r]]_vars

\* What a pot can be worth while HR sets and clears overrides.
Grantable(pot) ==
  {granted + carried : granted \in {PolicyDays[<<pot[2], pot[3]>>]} \union Overrides,
                       carried \in {0} \union Carried}

\* With one decision handler, the handlers behave as a ledger that books,
\* decides and withdraws in single steps: the lock makes any number of
\* concurrent submissions atomic, whatever HR does to entitlements meanwhile.
Ledger == INSTANCE LeaveLedger WITH
  Requests <- Submissions, asked <- form, state <- status,
  Entitled <- Grantable, PotOf <- PotOf,
  Limited <- LAMBDA f : f.type \in BalanceTypes

ImplementsLedger == Ledger!Spec
=============================================================================
