---------------------------- MODULE ApprovalRouting ----------------------------
(***************************************************************************)
(* Who is asked about a leave request, who finds it in their queue and who *)
(* may decide it (LeaveService and PermissionsService), while HR moves     *)
(* people, grants lapse and people leave.                                  *)
(*                                                                         *)
(* Requests are those that need a decision; whether one can be submitted,  *)
(* and those that approve themselves, are the subject of LeaveRequests.    *)
(* The copy of the job on the employee row and the open assignment are one *)
(* variable here: Employment_proofs shows that they agree.                 *)
(***************************************************************************)
EXTENDS Naturals, FiniteSets

CONSTANTS
  Employees, Departments, Requests,
  Owner,          \* whose leave a request asks for
  Parent, Head,   \* of each department; nothing in the API writes them
  Temporary,      \* <<employee, role>>: grants with an expiresAt
  Moves,          \* [who, manager, department]: the job changes HR may make
  Standings,      \* [who, status]: the status changes HR may make
  Leavers,        \* the people HR may archive
  Callers,        \* the people who decide and withdraw
  NoOne, NoDepartment, NoRequest

\* prisma/seed-data.ts: what each role grants of leave_request.
Company == [read |-> "GLOBAL", approve |-> "GLOBAL", cancel |-> "GLOBAL"]
ACCESS_ROLES ==
  [ super_admin     |-> Company,
    hr_admin        |-> Company,
    department_head |-> [read |-> "DEPARTMENT", approve |-> "DEPARTMENT", cancel |-> "SELF"],
    manager         |-> [read |-> "TEAM", approve |-> "TEAM", cancel |-> "SELF"],
    recruiter       |-> [read |-> "NONE", approve |-> "NONE", cancel |-> "NONE"],
    employee        |-> [read |-> "SELF", approve |-> "NONE", cancel |-> "SELF"] ]

Roles == DOMAIN ACCESS_ROLES

SCOPE_RANK == [NONE |-> 0, SELF |-> 1, TEAM |-> 2, DEPARTMENT |-> 3, GLOBAL |-> 4]

INELIGIBLE_APPROVER_STATUSES == {"TERMINATED", "SUSPENDED"}
EmployeeStatus == {"ACTIVE", "ON_LEAVE"} \union INELIGIBLE_APPROVER_STATUSES

Someone == Employees \union {NoOne}
Job == [manager : Someone, department : Departments]

ASSUME RoutingAssumption ==
  /\ NoOne \notin Employees /\ NoDepartment \notin Departments /\ NoRequest \notin Requests
  /\ IsFiniteSet(Departments)
  /\ Owner \in [Requests -> Employees]
  /\ Parent \in [Departments -> Departments \union {NoDepartment}]
  /\ Head \in [Departments -> Someone]
  /\ Temporary \subseteq Employees \X Roles
  /\ \A m \in Moves : m.who \in Employees /\ m.job \in Job
  /\ \A s \in Standings : s.who \in Employees /\ s.status \in EmployeeStatus
  /\ Leavers \subseteq Employees /\ Callers \subseteq Employees

VARIABLES
  job,        \* the open assignment of each employee
  standing,   \* employees.status
  archived,   \* employees.deletedAt
  leaving,    \* whose archive has counted their reports and has yet to write
  grants,     \* employee_access_roles that have not lapsed
  request,    \* leave_requests, and the submission that leads to each
  handler,    \* the decision or withdrawal each caller has under way
  told        \* notifications, named as their dedupeKey names them

org  == <<job, standing, archived, leaving, grants>>
vars == <<job, standing, archived, leaving, grants, request, handler, told>>

RequestStatus == {"PENDING", "APPROVED", "REJECTED", "CANCELLED"}
Stage == {"none", "routed", "inserted", "done"}
Decisions == {"APPROVED", "REJECTED"}
Event == {"submitted", "unrouted", "approved", "rejected", "cancelled"}
Idle == [doing |-> "nothing", on |-> NoRequest]

\* Types of the tables and of the handlers; who is at work is at work on a request.
TypeOK ==
  /\ job \in [Employees -> Job]
  /\ standing \in [Employees -> EmployeeStatus]
  /\ archived \subseteq Employees /\ leaving \subseteq Employees
  /\ grants \in [Employees -> SUBSET Roles]
  /\ request \in [Requests -> [stage : Stage, status : RequestStatus, approver : Someone]]
  /\ handler \in [Callers -> [doing : {"nothing", "withdrawing", "withdrawn"} \union Decisions,
                              on : Requests \union {NoRequest}]]
  /\ \A p \in Callers : handler[p] = Idle \/ handler[p].on \in Requests
  /\ told \subseteq Event \X Requests \X Employees

-----------------------------------------------------------------------------
(* Permissions *)

Widest(scopes) == CHOOSE s \in scopes : \A t \in scopes : SCOPE_RANK[t] <= SCOPE_RANK[s]

\* getPermissions: several roles may grant a permission, and the widest scope wins.
resolveScope(p, action) == Widest({"NONE"} \union {ACCESS_ROLES[r][action] : r \in grants[p]})

\* A department and all below it: one level more with each turn of the queue.
getDepartmentAndDescendants(root) ==
  LET seen[n \in Nat] ==
        IF n = 0 THEN {root}
        ELSE seen[n - 1] \union {d \in Departments : Parent[d] \in seen[n - 1]}
  IN seen[Cardinality(Departments)]

\* buildEmployeeScopeFilter: the employees a scope of p reaches.
InScope(p, scope, e) ==
  \/ scope = "GLOBAL"
  \/ scope \in {"SELF", "TEAM", "DEPARTMENT"} /\ e = p
  \/ scope = "TEAM" /\ job[e].manager = p
  \/ scope = "DEPARTMENT" /\ job[e].department \in getDepartmentAndDescendants(job[p].department)

Available(p) == p \notin archived /\ standing[p] \notin INELIGIBLE_APPROVER_STATUSES

findEmployeesWithPermissionAtScope(action, scope) ==
  {p \in Employees : Available(p) /\ \E r \in grants[p] : ACCESS_ROLES[r][action] = scope}

Hr == findEmployeesWithPermissionAtScope("approve", "GLOBAL")

\* PermissionsGuard: a handler is reached by those who hold its permission at all.
Permitted(p, action) == resolveScope(p, action) # "NONE"

-----------------------------------------------------------------------------
(* Routing and the queue *)

\* Mutant of MayAsk: the test for the employee themselves is forgotten.
MutantMayAskSelf(p, e) == p # NoOne /\ Available(p)

\* Who resolveApprover may name.
MayAsk(p, e) == p # NoOne /\ p # e /\ Available(p)

\* resolveApprover: the manager, else the head of the department; never oneself.
resolveApprover(e) ==
  LET head == Head[job[e].department] IN
  IF MayAsk(job[e].manager, e) THEN job[e].manager
  ELSE IF MayAsk(head, e) THEN head ELSE NoOne

Committed(r) == request[r].stage \in {"inserted", "done"}
Pending(r) == Committed(r) /\ request[r].status = "PENDING"

\* listRequests: what p may see.
Visible(p) ==
  {r \in Requests : /\ Committed(r) /\ Owner[r] \notin archived
                    /\ InScope(p, resolveScope(p, "read"), Owner[r])}

\* Mutant of AwaitingMyDecision: the queue goes by who was asked.
MutantAwaitingAsked(p) ==
  {r \in Visible(p) :
     /\ Pending(r) /\ Owner[r] # p
     /\ \/ request[r].approver = p
        \/ /\ resolveScope(p, "read") = "GLOBAL"
           /\ request[r].approver = NoOne}

\* Mutant of AwaitingMyDecision: the caller's own requests are left in.
MutantAwaitingOwn(p) ==
  {r \in Visible(p) :
     /\ Pending(r)
     /\ \/ job[Owner[r]].manager = p
        \/ /\ resolveScope(p, "read") = "GLOBAL"
           /\ request[r].approver = NoOne}

\* listRequests with awaitingMyDecision: the reports of p, and for those who read
\* all leave what was routed to nobody.
AwaitingMyDecision(p) ==
  {r \in Visible(p) :
     /\ Pending(r) /\ Owner[r] # p
     /\ \/ job[Owner[r]].manager = p
        \/ /\ resolveScope(p, "read") = "GLOBAL"
           /\ request[r].approver = NoOne}

\* PermissionsGuard and the checks of decideRequest.
MayDecide(p, r) ==
  /\ Permitted(p, "approve")
  /\ Owner[r] # p /\ Pending(r)
  /\ \/ resolveApprover(Owner[r]) = p
     \/ InScope(p, resolveScope(p, "approve"), Owner[r])

\* PermissionsGuard and the checks of cancelRequest, for leave that has not begun.
MayWithdraw(p, r) ==
  LET scope == resolveScope(p, "cancel") IN
  /\ Permitted(p, "cancel")
  /\ Owner[r] = p \/ (scope # "SELF" /\ InScope(p, scope, Owner[r]))
  /\ Committed(r) /\ request[r].status \in {"PENDING", "APPROVED"}

-----------------------------------------------------------------------------
Init ==
  /\ job \in [Employees -> Job]
  /\ \A e \in Employees : job[e].manager # e
  /\ standing = [e \in Employees |-> "ACTIVE"]
  /\ archived = {} /\ leaving = {}
  /\ grants \in [Employees -> SUBSET Roles]
  /\ request = [r \in Requests |-> [stage |-> "none", status |-> "PENDING", approver |-> NoOne]]
  /\ handler = [p \in Callers |-> Idle]
  /\ told = {}

\* leave-notifications.ts: what is raised, about which request, for whom.
submittedToApprover(p, r) == <<"submitted", r, p>>
unroutedToHr(p, r) == <<"unrouted", r, p>>
approvedToEmployee(r) == <<"approved", r, Owner[r]>>
rejectedToEmployee(r) == <<"rejected", r, Owner[r]>>
cancelledToApprover(p, r) == <<"cancelled", r, p>>

\* createRequest: the approver is resolved, ...
Route(r) ==
  /\ request[r].stage = "none"
  /\ request' = [request EXCEPT ![r].stage = "routed",
                                ![r].approver = resolveApprover(Owner[r])]
  /\ UNCHANGED <<org, handler, told>>

\* ... the request is inserted under the lock, or refused, ...
Insert(r) ==
  /\ request[r].stage = "routed"
  /\ request' = [request EXCEPT ![r].stage = "inserted"]
  /\ UNCHANGED <<org, handler, told>>

Refuse(r) ==
  /\ request[r].stage = "routed"
  /\ request' = [request EXCEPT ![r].stage = "none", ![r].approver = NoOne]
  /\ UNCHANGED <<org, handler, told>>

\* Mutant of Notices: the approver is resolved again when the notice is written.
MutantNoticesLive(r) ==
  LET p == resolveApprover(Owner[r]) IN
  IF p # NoOne THEN {submittedToApprover(p, r)}
  ELSE {unroutedToHr(q, r) : q \in Hr \ {Owner[r]}}

\* ... and announceSubmission tells whoever it was routed to, unless the process dies.
Notices(r) ==
  IF request[r].approver # NoOne THEN {submittedToApprover(request[r].approver, r)}
  ELSE {unroutedToHr(p, r) : p \in Hr \ {Owner[r]}}

Announce(r) ==
  /\ request[r].stage = "inserted"
  /\ request' = [request EXCEPT ![r].stage = "done"]
  /\ told' = told \union Notices(r)
  /\ UNCHANGED <<org, handler>>

Die(r) ==
  /\ request[r].stage = "inserted"
  /\ request' = [request EXCEPT ![r].stage = "done"]
  /\ UNCHANGED <<org, handler, told>>

\* decideRequest: what is checked and what is written lie awaits apart.
CheckDecision(p, r) ==
  /\ handler[p] = Idle /\ MayDecide(p, r)
  /\ \E v \in Decisions : handler' = [handler EXCEPT ![p] = [doing |-> v, on |-> r]]
  /\ UNCHANGED <<org, request, told>>

WriteDecision(p) ==
  /\ handler[p].doing \in Decisions
  /\ LET r == handler[p].on
         approved == handler[p].doing = "APPROVED" IN
       /\ request' = [request EXCEPT ![r].status = handler[p].doing]
       /\ told' = told \union
            {IF approved THEN approvedToEmployee(r) ELSE rejectedToEmployee(r)}
  /\ handler' = [handler EXCEPT ![p] = Idle]
  /\ UNCHANGED org

\* cancelRequest: who is told is resolved after the write.
CheckWithdrawal(p, r) ==
  /\ handler[p] = Idle /\ MayWithdraw(p, r)
  /\ handler' = [handler EXCEPT ![p] = [doing |-> "withdrawing", on |-> r]]
  /\ UNCHANGED <<org, request, told>>

WriteWithdrawal(p) ==
  /\ handler[p].doing = "withdrawing"
  /\ request' = [request EXCEPT ![handler[p].on].status = "CANCELLED"]
  /\ handler' = [handler EXCEPT ![p].doing = "withdrawn"]
  /\ UNCHANGED <<org, told>>

AnnounceWithdrawal(p) ==
  /\ handler[p].doing = "withdrawn"
  /\ LET r == handler[p].on
         approver == resolveApprover(Owner[r]) IN
       told' = told \union
         IF approver \in {NoOne, p} THEN {}
         ELSE {cancelledToApprover(approver, r)}
  /\ handler' = [handler EXCEPT ![p] = Idle]
  /\ UNCHANGED <<org, request>>

-----------------------------------------------------------------------------
(* HR and time *)

\* A change of assignment: the new manager is somebody else who is not archived.
Move(m) ==
  /\ m.who \notin archived /\ m.job.manager \notin archived \union {m.who}
  /\ job' = [job EXCEPT ![m.who] = m.job]
  /\ UNCHANGED <<standing, archived, leaving, grants, request, handler, told>>

SetStatus(s) ==
  /\ s.who \notin archived
  /\ standing' = [standing EXCEPT ![s.who] = s.status]
  /\ UNCHANGED <<job, archived, leaving, grants, request, handler, told>>

\* EmployeesService.archive refuses whoever still has reports; it counts them
\* and then writes, and somebody may come to report to the manager in between.
CountReports(e) ==
  /\ e \notin archived \union leaving
  /\ \A f \in Employees \ archived : job[f].manager # e
  /\ leaving' = leaving \union {e}
  /\ UNCHANGED <<job, standing, archived, grants, request, handler, told>>

Archive(e) ==
  /\ e \in leaving
  /\ archived' = archived \union {e} /\ leaving' = leaving \ {e}
  /\ UNCHANGED <<job, standing, grants, request, handler, told>>

Lapse(e, role) ==
  /\ <<e, role>> \in Temporary /\ role \in grants[e]
  /\ grants' = [grants EXCEPT ![e] = @ \ {role}]
  /\ UNCHANGED <<job, standing, archived, leaving, request, handler, told>>

Submitting(r) == Route(r) \/ Insert(r) \/ Refuse(r) \/ Announce(r) \/ Die(r)
Handling(p) ==
  \/ \E r \in Requests : CheckDecision(p, r) \/ CheckWithdrawal(p, r)
  \/ WriteDecision(p) \/ WriteWithdrawal(p) \/ AnnounceWithdrawal(p)

Next ==
  \/ \E r \in Requests : Submitting(r)
  \/ \E p \in Callers : Handling(p)
  \/ \E m \in Moves : Move(m)
  \/ \E s \in Standings : SetStatus(s)
  \/ \E e \in Leavers : CountReports(e) \/ Archive(e)
  \/ \E e \in Employees, role \in Roles : Lapse(e, role)

Spec == Init /\ [][Next]_vars

-----------------------------------------------------------------------------
(* Properties *)

\* Whatever the queue of a caller shows, that caller may decide: the queue goes by
\* leave_request:read and the reporting line, the decision by leave_request:approve
\* and the live approver, and one must never promise what the other refuses.
QueueIsDecidable ==
  \A p \in Employees : \A r \in AwaitingMyDecision(p) : MayDecide(p, r)

\* Who was asked is who the row says was asked, and HR hears only of requests whose
\* row names nobody, whatever became of the reporting line meanwhile (the comment
\* on resolveApprover: approverId "records who was originally asked").
AskedIsRecorded ==
  \A r \in Requests, p \in Employees :
    /\ <<"submitted", r, p>> \in told => request[r].approver = p
    /\ <<"unrouted", r, p>> \in told => request[r].approver = NoOne

\* Nobody is asked, or told as the approver, about their own leave, whichever of
\* the manager, the head, HR or whoever withdraws comes to be the employee.
NobodyAskedAboutOwn ==
  \A r \in Requests, event \in {"submitted", "unrouted", "cancelled"} :
    <<event, r, Owner[r]>> \notin told

\* A pending request follows the reporting line: it is in the queue of whoever is
\* the manager now and reads leave at TEAM or GLOBAL scope (listRequests).  A
\* manager whose widest scope is DEPARTMENT loses reports in other departments.
QueueFollowsTheLine ==
  \A r \in Requests :
    LET m == job[Owner[r]].manager IN
    (/\ Pending(r) /\ Owner[r] \notin archived
     /\ m \in Employees /\ resolveScope(m, "read") \in {"TEAM", "GLOBAL"})
      => r \in AwaitingMyDecision(m)
=============================================================================
