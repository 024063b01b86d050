------------------------- MODULE ApprovalRouting_proofs -------------------------
(***************************************************************************)
(* Proofs about ApprovalRouting for any company, any grants and any number *)
(* of requests: the types, that the queue never promises what the decision *)
(* refuses, that it follows the reporting line, and who is told what.      *)
(***************************************************************************)
EXTENDS ApprovalRouting, TLAPS

Scopes == {"NONE", "SELF", "TEAM", "DEPARTMENT", "GLOBAL"}

\* The widest of a set of scopes is one of them, and none of them is wider.
LEMMA WidestIsWidest ==
  ASSUME NEW S \in SUBSET Scopes, "NONE" \in S
  PROVE  Widest(S) \in S /\ \A t \in S : SCOPE_RANK[t] <= SCOPE_RANK[Widest(S)]
<1>1. \E s \in S : \A t \in S : SCOPE_RANK[t] <= SCOPE_RANK[s]
  <2>1. CASE "GLOBAL" \in S
    BY <2>1 DEF Scopes, SCOPE_RANK
  <2>2. CASE "GLOBAL" \notin S /\ "DEPARTMENT" \in S
    BY <2>2 DEF Scopes, SCOPE_RANK
  <2>3. CASE "GLOBAL" \notin S /\ "DEPARTMENT" \notin S /\ "TEAM" \in S
    BY <2>3 DEF Scopes, SCOPE_RANK
  <2>4. CASE S \subseteq {"NONE", "SELF"}
    BY <2>4 DEF Scopes, SCOPE_RANK
  <2> QED
    BY <2>1, <2>2, <2>3, <2>4 DEF Scopes
<1> QED
  BY <1>1 DEF Widest

\* What any one role grants: reading and deciding at the same scope, or no deciding
\* and reading one's own leave at most.
LEMMA RolesAgree ==
  ASSUME NEW r \in Roles
  PROVE  /\ ACCESS_ROLES[r].read \in Scopes /\ ACCESS_ROLES[r].approve \in Scopes
         /\ \/ ACCESS_ROLES[r].approve = ACCESS_ROLES[r].read
            \/ ACCESS_ROLES[r].approve = "NONE" /\ ACCESS_ROLES[r].read \in {"NONE", "SELF"}
         /\ ACCESS_ROLES[r].approve \in {"NONE", "TEAM", "DEPARTMENT", "GLOBAL"}
BY DEF Roles, ACCESS_ROLES, Company, Scopes

\* Whoever reads leave beyond their own decides it at the same scope.
LEMMA ReadIsApprove ==
  ASSUME TypeOK, NEW p \in Employees,
         resolveScope(p, "read") \in {"TEAM", "DEPARTMENT", "GLOBAL"}
  PROVE  resolveScope(p, "approve") = resolveScope(p, "read")
<1> DEFINE R == {"NONE"} \union {ACCESS_ROLES[r]["read"] : r \in grants[p]}
           A == {"NONE"} \union {ACCESS_ROLES[r]["approve"] : r \in grants[p]}
<1>1. grants[p] \subseteq Roles
  BY DEF TypeOK
<1>2. /\ R \in SUBSET Scopes /\ "NONE" \in R
      /\ A \in SUBSET Scopes /\ "NONE" \in A
  BY <1>1, RolesAgree DEF Scopes
<1>3. /\ Widest(R) \in R /\ \A t \in R : SCOPE_RANK[t] <= SCOPE_RANK[Widest(R)]
      /\ Widest(A) \in A /\ \A t \in A : SCOPE_RANK[t] <= SCOPE_RANK[Widest(A)]
  BY <1>2, WidestIsWidest
<1>4. resolveScope(p, "read") = Widest(R) /\ resolveScope(p, "approve") = Widest(A)
  BY DEF resolveScope
<1>5. Widest(R) \in A
  BY <1>1, <1>3, <1>4, RolesAgree
<1>6. Widest(A) \in R
  BY <1>1, <1>3, RolesAgree
<1>7. /\ SCOPE_RANK[Widest(R)] <= SCOPE_RANK[Widest(A)]
      /\ SCOPE_RANK[Widest(A)] <= SCOPE_RANK[Widest(R)]
      /\ Widest(R) \in Scopes /\ Widest(A) \in Scopes
  BY <1>2, <1>3, <1>5, <1>6
<1>8. Widest(R) = Widest(A)
  BY <1>7 DEF Scopes, SCOPE_RANK
<1> QED
  BY <1>4, <1>8

LEMMA ReadScopeTypes ==
  ASSUME TypeOK, NEW p \in Employees
  PROVE  resolveScope(p, "read") \in Scopes
<1> DEFINE R == {"NONE"} \union {ACCESS_ROLES[r]["read"] : r \in grants[p]}
<1>1. R \in SUBSET Scopes /\ "NONE" \in R
  BY RolesAgree DEF TypeOK, Scopes
<1> QED
  BY <1>1, WidestIsWidest DEF resolveScope

\* resolveApprover names an available colleague or nobody.
LEMMA ApproverTypes ==
  ASSUME TypeOK, NEW e \in Employees
  PROVE  /\ resolveApprover(e) \in Someone
         /\ resolveApprover(e) # e
<1>1. /\ job[e] \in Job /\ Head[job[e].department] \in Someone
      /\ job[e].manager \in Someone
  BY RoutingAssumption DEF TypeOK, Job
<1>2. NoOne # e /\ NoOne \in Someone
  BY RoutingAssumption DEF Someone
<1> QED
  BY <1>1, <1>2 DEF resolveApprover, MayAsk
-----------------------------------------------------------------------------
LEMMA TypeInit == Init => TypeOK
BY RoutingAssumption DEF Init, TypeOK, Stage, RequestStatus, Idle, Someone, EmployeeStatus

LEMMA TypeStep == TypeOK /\ [Next]_vars => TypeOK'
<1> SUFFICES ASSUME TypeOK, [Next]_vars PROVE TypeOK'
  OBVIOUS
<1> USE RoutingAssumption
<1>1. ASSUME NEW r \in Requests, Submitting(r) PROVE TypeOK'
  <2>0. resolveApprover(Owner[r]) \in Someone /\ Owner[r] \in Employees
        /\ NoOne \in Someone /\ Hr \subseteq Employees
    BY ApproverTypes DEF Someone, Hr, findEmployeesWithPermissionAtScope
  <2>1. CASE Route(r) \/ Insert(r) \/ Refuse(r) \/ Die(r)
    <3>1. request \in [Requests -> [stage : Stage, status : RequestStatus, approver : Someone]]
      BY DEF TypeOK
    <3>2. request' \in [Requests -> [stage : Stage, status : RequestStatus, approver : Someone]]
      <4>1. CASE Route(r)
        BY <2>0, <3>1, <4>1 DEF Route, Stage
      <4>2. CASE Insert(r)
        BY <3>1, <4>2 DEF Insert, Stage
      <4>3. CASE Refuse(r)
        BY <2>0, <3>1, <4>3 DEF Refuse, Stage
      <4>4. CASE Die(r)
        BY <3>1, <4>4 DEF Die, Stage
      <4> QED
        BY <2>1, <4>1, <4>2, <4>3, <4>4
    <3>3. UNCHANGED <<org, handler, told>>
      BY <2>1 DEF Route, Insert, Refuse, Die
    <3> QED
      BY <3>2, <3>3 DEF TypeOK, org
  <2>2. CASE Announce(r)
    <3>1. request[r].approver \in Someone
      BY DEF TypeOK
    <3>2. Notices(r) \subseteq Event \X Requests \X Employees
      <4>1. CASE request[r].approver # NoOne
        BY <3>1, <4>1 DEF Notices, submittedToApprover, unroutedToHr, Someone, Event
      <4>2. CASE request[r].approver = NoOne
        BY <2>0, <4>2 DEF Notices, submittedToApprover, unroutedToHr, Event
      <4> QED
        BY <4>1, <4>2
    <3>3. request' \in [Requests -> [stage : Stage, status : RequestStatus, approver : Someone]]
      BY <2>2 DEF TypeOK, Announce, Stage
    <3>4. told' \subseteq Event \X Requests \X Employees
      BY <2>2, <3>2 DEF TypeOK, Announce
    <3> QED
      BY <2>2, <3>3, <3>4 DEF TypeOK, Announce, org
  <2> QED
    BY <1>1, <2>1, <2>2 DEF Submitting
<1>2. ASSUME NEW p \in Callers, Handling(p) PROVE TypeOK'
  <2>1. ASSUME NEW r \in Requests, CheckDecision(p, r) \/ CheckWithdrawal(p, r)
        PROVE  TypeOK'
    <3>1. handler \in [Callers -> [doing : {"nothing", "withdrawing", "withdrawn"} \union Decisions,
                                   on : Requests \union {NoRequest}]]
          /\ \A q \in Callers : handler[q] = Idle \/ handler[q].on \in Requests
      BY DEF TypeOK
    <3>2. PICK d \in {"withdrawing"} \union Decisions :
             handler' = [handler EXCEPT ![p] = [doing |-> d, on |-> r]]
      BY <2>1 DEF CheckDecision, CheckWithdrawal
    <3>3. handler' \in [Callers -> [doing : {"nothing", "withdrawing", "withdrawn"} \union Decisions,
                                   on : Requests \union {NoRequest}]]
      BY <3>1, <3>2
    <3>4. \A q \in Callers : handler'[q] = Idle \/ handler'[q].on \in Requests
      BY <3>1, <3>2
    <3> QED
      BY <2>1, <3>3, <3>4 DEF TypeOK, CheckDecision, CheckWithdrawal, org, Idle
  <2>2. CASE WriteDecision(p)
    <3>1. handler[p].on \in Requests
      BY <2>2 DEF TypeOK, WriteDecision, Idle, Decisions
    <3>2. Owner[handler[p].on] \in Employees
      BY <3>1
    <3>3. request' \in [Requests -> [stage : Stage, status : RequestStatus, approver : Someone]]
      BY <2>2, <3>1 DEF TypeOK, WriteDecision, Decisions, RequestStatus
    <3>4. told' \subseteq Event \X Requests \X Employees
      BY <2>2, <3>1, <3>2 DEF TypeOK, WriteDecision, Event, approvedToEmployee, rejectedToEmployee
    <3>5. /\ handler' \in [Callers -> [doing : {"nothing", "withdrawing", "withdrawn"} \union Decisions,
                                       on : Requests \union {NoRequest}]]
          /\ \A q \in Callers : handler'[q] = Idle \/ handler'[q].on \in Requests
      <4>1. Idle \in [doing : {"nothing", "withdrawing", "withdrawn"} \union Decisions,
                      on : Requests \union {NoRequest}]
        BY DEF Idle
      <4>2. handler' = [handler EXCEPT ![p] = Idle]
        BY <2>2 DEF WriteDecision
      <4> QED
        BY <4>1, <4>2 DEF TypeOK
    <3> QED
      BY <2>2, <3>3, <3>4, <3>5 DEF TypeOK, WriteDecision, org
  <2>3. CASE WriteWithdrawal(p)
    <3>1. handler[p].on \in Requests
      BY <2>3 DEF TypeOK, WriteWithdrawal, Idle
    <3>2. request' \in [Requests -> [stage : Stage, status : RequestStatus, approver : Someone]]
      BY <2>3, <3>1 DEF TypeOK, WriteWithdrawal, RequestStatus
    <3>3. /\ handler' \in [Callers -> [doing : {"nothing", "withdrawing", "withdrawn"} \union Decisions,
                                       on : Requests \union {NoRequest}]]
          /\ \A q \in Callers : handler'[q] = Idle \/ handler'[q].on \in Requests
      BY <2>3, <3>1 DEF TypeOK, WriteWithdrawal
    <3> QED
      BY <2>3, <3>2, <3>3 DEF TypeOK, WriteWithdrawal, org
  <2>4. CASE AnnounceWithdrawal(p)
    <3>1. handler[p].on \in Requests
      BY <2>4 DEF TypeOK, AnnounceWithdrawal, Idle
    <3>2. resolveApprover(Owner[handler[p].on]) \in Someone
      BY <3>1, ApproverTypes
    <3>3. told' \subseteq Event \X Requests \X Employees
      BY <2>4, <3>1, <3>2 DEF TypeOK, AnnounceWithdrawal, Event, Someone, cancelledToApprover
    <3>4. /\ handler' \in [Callers -> [doing : {"nothing", "withdrawing", "withdrawn"} \union Decisions,
                                       on : Requests \union {NoRequest}]]
          /\ \A q \in Callers : handler'[q] = Idle \/ handler'[q].on \in Requests
      <4>1. Idle \in [doing : {"nothing", "withdrawing", "withdrawn"} \union Decisions,
                      on : Requests \union {NoRequest}]
        BY DEF Idle
      <4>2. handler' = [handler EXCEPT ![p] = Idle]
        BY <2>4 DEF AnnounceWithdrawal
      <4> QED
        BY <4>1, <4>2 DEF TypeOK
    <3> QED
      BY <2>4, <3>3, <3>4 DEF TypeOK, AnnounceWithdrawal, org
  <2> QED
    BY <1>2, <2>1, <2>2, <2>3, <2>4 DEF Handling
<1>3. ASSUME NEW m \in Moves, Move(m) PROVE TypeOK'
  BY <1>3 DEF TypeOK, Move
<1>4. ASSUME NEW s \in Standings, SetStatus(s) PROVE TypeOK'
  BY <1>4 DEF TypeOK, SetStatus
<1>5. ASSUME NEW e \in Leavers, CountReports(e) \/ Archive(e) PROVE TypeOK'
  BY <1>5 DEF TypeOK, CountReports, Archive
<1>6. ASSUME NEW e \in Employees, NEW role \in Roles, Lapse(e, role) PROVE TypeOK'
  BY <1>6 DEF TypeOK, Lapse
<1>7. CASE UNCHANGED vars
  BY <1>7 DEF TypeOK, vars
<1> QED
  BY <1>1, <1>2, <1>3, <1>4, <1>5, <1>6, <1>7 DEF Next

\* The types hold in every company.
THEOREM TypeCorrect == Spec => []TypeOK
BY TypeInit, TypeStep, PTL DEF Spec
-----------------------------------------------------------------------------
LEMMA QueueDecidableState == TypeOK => QueueIsDecidable
<1> SUFFICES ASSUME TypeOK, NEW p \in Employees, NEW r \in AwaitingMyDecision(p)
             PROVE  MayDecide(p, r)
  BY DEF QueueIsDecidable
<1> DEFINE scope == resolveScope(p, "read")
<1>1. /\ r \in Requests /\ Pending(r) /\ Owner[r] # p /\ InScope(p, scope, Owner[r])
      /\ job[Owner[r]].manager = p \/ scope = "GLOBAL"
  BY DEF AwaitingMyDecision, Visible
<1>2. scope \in {"TEAM", "DEPARTMENT", "GLOBAL"}
  BY <1>1, ReadScopeTypes DEF InScope, Scopes
<1>3. resolveScope(p, "approve") = scope
  BY <1>2, ReadIsApprove
<1> QED
  BY <1>1, <1>2, <1>3 DEF MayDecide, Permitted

\* Whatever a queue shows may be decided by whoever looks at it (listRequests against
\* decideRequest), for any combination of roles.
THEOREM QueueDecidable == Spec => []QueueIsDecidable
BY TypeCorrect, QueueDecidableState, PTL

\* Nobody is recorded as their own manager.
NotOwnManager == \A e \in Employees : job[e].manager # e

LEMMA LineStep == TypeOK /\ NotOwnManager /\ [Next]_vars => NotOwnManager'
<1> SUFFICES ASSUME TypeOK, NotOwnManager, [Next]_vars PROVE NotOwnManager'
  OBVIOUS
<1>1. ASSUME NEW m \in Moves, Move(m) PROVE NotOwnManager'
  <2>1. job' = [job EXCEPT ![m.who] = m.job] /\ m.job.manager # m.who
    BY <1>1 DEF Move
  <2> QED
    BY <2>1 DEF NotOwnManager, TypeOK
<1>2. ASSUME job' = job PROVE NotOwnManager'
  BY <1>2 DEF NotOwnManager
<1>3. ASSUME NEW r \in Requests, Submitting(r) PROVE job' = job
  BY <1>3 DEF Submitting, Route, Insert, Refuse, Announce, Die, org
<1>4. ASSUME NEW p \in Callers, Handling(p) PROVE job' = job
  BY <1>4 DEF Handling, CheckDecision, WriteDecision, CheckWithdrawal, WriteWithdrawal,
              AnnounceWithdrawal, org
<1>5. ASSUME NEW s \in Standings, SetStatus(s) PROVE job' = job
  BY <1>5 DEF SetStatus
<1>6. ASSUME NEW e \in Leavers, CountReports(e) \/ Archive(e) PROVE job' = job
  BY <1>6 DEF CountReports, Archive
<1>7. ASSUME NEW e \in Employees, NEW role \in Roles, Lapse(e, role) PROVE job' = job
  BY <1>7 DEF Lapse
<1>8. CASE UNCHANGED vars
  BY <1>2, <1>8 DEF vars
<1> QED
  BY <1>1, <1>2, <1>3, <1>4, <1>5, <1>6, <1>7, <1>8 DEF Next

LEMMA QueueFollowsState == TypeOK /\ NotOwnManager => QueueFollowsTheLine
<1> SUFFICES ASSUME TypeOK, NotOwnManager, NEW r \in Requests,
                    Pending(r), Owner[r] \notin archived,
                    job[Owner[r]].manager \in Employees,
                    resolveScope(job[Owner[r]].manager, "read") \in {"TEAM", "GLOBAL"}
             PROVE  r \in AwaitingMyDecision(job[Owner[r]].manager)
  BY DEF QueueFollowsTheLine
<1>1. Owner[r] # job[Owner[r]].manager
  BY RoutingAssumption DEF NotOwnManager
<1> QED
  BY <1>1 DEF AwaitingMyDecision, Visible, InScope, Pending

\* The queue of the manager of the moment holds the pending requests of the team,
\* whoever was asked (listRequests goes by the open assignment).
THEOREM QueueFollows == Spec => []QueueFollowsTheLine
<1>1. Init => NotOwnManager
  BY DEF Init, NotOwnManager
<1> QED
  BY <1>1, TypeInit, TypeStep, LineStep, QueueFollowsState, PTL DEF Spec
-----------------------------------------------------------------------------
\* What has been told is about a request that is past its announcement, whose
\* approver no later step rewrites.
ToldOfAnnounced ==
  \A r \in Requests, p \in Employees, event \in {"submitted", "unrouted"} :
    <<event, r, p>> \in told => request[r].stage = "done"

RoutedToOthers == \A r \in Requests : request[r].approver # Owner[r]

NoticeInv == ToldOfAnnounced /\ RoutedToOthers /\ AskedIsRecorded /\ NobodyAskedAboutOwn

LEMMA NoticeInit == Init => NoticeInv
BY RoutingAssumption
   DEF Init, NoticeInv, ToldOfAnnounced, RoutedToOthers, AskedIsRecorded, NobodyAskedAboutOwn

\* A step that tells nothing of the kind, and rewrites no approver once announced.
LEMMA NoticeFrame ==
  ASSUME TypeOK, NoticeInv,
         \A r \in Requests : /\ request[r].stage = "done" =>
                                  /\ request'[r].stage = "done"
                                  /\ request'[r].approver = request[r].approver
                             /\ request'[r].approver # Owner[r],
         \A r \in Requests, p \in Employees, event \in {"submitted", "unrouted"} :
            <<event, r, p>> \in told' => <<event, r, p>> \in told,
         \A r \in Requests : <<"cancelled", r, Owner[r]>> \in told'
                               => <<"cancelled", r, Owner[r]>> \in told
  PROVE  NoticeInv'
<1>1. Owner \in [Requests -> Employees]
  BY RoutingAssumption
<1>2. ToldOfAnnounced'
  BY DEF NoticeInv, ToldOfAnnounced
<1>3. RoutedToOthers'
  BY DEF RoutedToOthers
<1>4. AskedIsRecorded'
  BY DEF NoticeInv, ToldOfAnnounced, AskedIsRecorded
<1>5. NobodyAskedAboutOwn'
  BY <1>1 DEF NoticeInv, NobodyAskedAboutOwn
<1> QED
  BY <1>2, <1>3, <1>4, <1>5 DEF NoticeInv

LEMMA NoticeStep == TypeOK /\ NoticeInv /\ [Next]_vars => NoticeInv'
<1> SUFFICES ASSUME TypeOK, NoticeInv, [Next]_vars PROVE NoticeInv'
  OBVIOUS
<1>t. /\ request \in [Requests -> [stage : Stage, status : RequestStatus, approver : Someone]]
      /\ Owner \in [Requests -> Employees]
      /\ \A q \in Callers : handler[q] = Idle \/ handler[q].on \in Requests
      /\ \A q \in Requests : request[q].approver # Owner[q]
  BY RoutingAssumption DEF TypeOK, NoticeInv, RoutedToOthers
<1>1. ASSUME NEW r \in Requests, Submitting(r) PROVE NoticeInv'
  <2>0. /\ resolveApprover(Owner[r]) # Owner[r] /\ NoOne # Owner[r]
        /\ resolveApprover(Owner[r]) \in Someone
    BY <1>t, ApproverTypes, RoutingAssumption
  <2>1. CASE Route(r)
    BY <1>t, <2>0, <2>1, NoticeFrame DEF Route
  <2>2. CASE Insert(r) \/ Die(r)
    BY <1>t, <2>2, NoticeFrame DEF Insert, Die
  <2>3. CASE Refuse(r)
    BY <1>t, <2>0, <2>3, NoticeFrame DEF Refuse
  <2>4. CASE Announce(r)
    <3>1. /\ request'[r].stage = "done" /\ request[r].stage = "inserted"
          /\ \A q \in Requests : request'[q].approver = request[q].approver
          /\ \A q \in Requests : q # r => request'[q] = request[q]
      BY <1>t, <2>4 DEF Announce
    <3>2. \A event \in Event, q \in Requests, p \in Employees :
             <<event, q, p>> \in told' =>
               \/ <<event, q, p>> \in told
               \/ /\ q = r /\ p # Owner[r]
                  /\ \/ event = "submitted" /\ request[r].approver = p
                     \/ event = "unrouted" /\ request[r].approver = NoOne
      <4>1. told' = told \union Notices(r)
        BY <2>4 DEF Announce
      <4>2. CASE request[r].approver # NoOne
        <5>1. Notices(r) = {<<"submitted", r, request[r].approver>>}
          BY <4>2 DEF Notices, submittedToApprover, unroutedToHr
        <5> QED
          BY <1>t, <4>1, <4>2, <5>1
      <4>3. CASE request[r].approver = NoOne
        <5>1. Notices(r) = {<<"unrouted", r, q>> : q \in Hr \ {Owner[r]}}
          BY <4>3 DEF Notices, submittedToApprover, unroutedToHr
        <5>2. ASSUME NEW event \in Event, NEW q \in Requests, NEW p \in Employees,
                     <<event, q, p>> \in Notices(r)
              PROVE  q = r /\ p # Owner[r] /\ event = "unrouted"
          <6>1. PICK h \in Hr \ {Owner[r]} : <<event, q, p>> = <<"unrouted", r, h>>
            BY <5>1, <5>2
          <6> QED
            BY <6>1
        <5> QED
          BY <4>1, <4>3, <5>2
      <4> QED
        BY <4>2, <4>3
    <3>3. ToldOfAnnounced'
      BY <3>1, <3>2 DEF NoticeInv, ToldOfAnnounced, Event
    <3>4. RoutedToOthers'
      BY <1>t, <3>1 DEF RoutedToOthers
    <3>5. AskedIsRecorded'
      <4> SUFFICES ASSUME NEW q \in Requests, NEW p \in Employees
                   PROVE  /\ <<"submitted", q, p>> \in told' => request'[q].approver = p
                          /\ <<"unrouted", q, p>> \in told' => request'[q].approver = NoOne
        BY DEF AskedIsRecorded
      <4>1. /\ <<"submitted", q, p>> \in told => request[q].approver = p
            /\ <<"unrouted", q, p>> \in told => request[q].approver = NoOne
        BY DEF NoticeInv, AskedIsRecorded
      <4>2. "submitted" \in Event /\ "unrouted" \in Event /\ "submitted" # "unrouted"
        BY DEF Event
      <4> QED
        BY <3>1, <3>2, <4>1, <4>2
    <3>6. NobodyAskedAboutOwn'
      BY <1>t, <3>2 DEF NoticeInv, NobodyAskedAboutOwn, Event
    <3> QED
      BY <3>3, <3>4, <3>5, <3>6 DEF NoticeInv
  <2> QED
    BY <1>1, <2>1, <2>2, <2>3, <2>4 DEF Submitting
<1>2. ASSUME NEW p \in Callers, Handling(p) PROVE NoticeInv'
  <2>1. ASSUME NEW r \in Requests, CheckDecision(p, r) \/ CheckWithdrawal(p, r)
        PROVE  NoticeInv'
    BY <1>t, <2>1, NoticeFrame DEF CheckDecision, CheckWithdrawal
  <2>2. CASE WriteDecision(p)
    <3>1. handler[p].on \in Requests
      BY <1>t, <2>2 DEF WriteDecision, Idle, Decisions
    <3>2. \A q \in Requests : /\ request'[q].stage = request[q].stage
                              /\ request'[q].approver = request[q].approver
      BY <1>t, <2>2, <3>1 DEF WriteDecision
    <3>3. \A event \in {"submitted", "unrouted", "cancelled"}, q \in Requests, e \in Employees :
             <<event, q, e>> \in told' => <<event, q, e>> \in told
      BY <2>2 DEF WriteDecision, approvedToEmployee, rejectedToEmployee
    <3> QED
      BY <1>t, <3>2, <3>3, NoticeFrame
  <2>3. CASE WriteWithdrawal(p)
    <3>1. handler[p].on \in Requests
      BY <1>t, <2>3 DEF WriteWithdrawal, Idle
    <3>2. \A q \in Requests : /\ request'[q].stage = request[q].stage
                              /\ request'[q].approver = request[q].approver
      BY <1>t, <2>3, <3>1 DEF WriteWithdrawal
    <3> QED
      BY <1>t, <2>3, <3>2, NoticeFrame DEF WriteWithdrawal
  <2>4. CASE AnnounceWithdrawal(p)
    <3>1. handler[p].on \in Requests
      BY <1>t, <2>4 DEF AnnounceWithdrawal, Idle
    <3>2. resolveApprover(Owner[handler[p].on]) # Owner[handler[p].on]
      BY <1>t, <3>1, ApproverTypes
    <3>3. /\ request' = request
          /\ \/ told' = told
             \/ told' = told \union
                  {<<"cancelled", handler[p].on, resolveApprover(Owner[handler[p].on])>>}
      BY <2>4 DEF AnnounceWithdrawal, cancelledToApprover
    <3> QED
      BY <1>t, <3>1, <3>2, <3>3, NoticeFrame
  <2> QED
    BY <1>2, <2>1, <2>2, <2>3, <2>4 DEF Handling
<1>3. ASSUME request' = request, told' = told PROVE NoticeInv'
  BY <1>t, <1>3, NoticeFrame
<1>4. ASSUME NEW m \in Moves, Move(m) PROVE NoticeInv'
  BY <1>3, <1>4 DEF Move
<1>5. ASSUME NEW s \in Standings, SetStatus(s) PROVE NoticeInv'
  BY <1>3, <1>5 DEF SetStatus
<1>6. ASSUME NEW e \in Leavers, CountReports(e) \/ Archive(e) PROVE NoticeInv'
  BY <1>3, <1>6 DEF CountReports, Archive
<1>7. ASSUME NEW e \in Employees, NEW role \in Roles, Lapse(e, role) PROVE NoticeInv'
  BY <1>3, <1>7 DEF Lapse
<1>8. CASE UNCHANGED vars
  BY <1>3, <1>8 DEF vars
<1> QED
  BY <1>1, <1>2, <1>4, <1>5, <1>6, <1>7, <1>8 DEF Next

\* The row names whoever was asked, under any changes of the reporting line
\* between the routing and the notice.
THEOREM AskedRecorded == Spec => []AskedIsRecorded
<1>1. NoticeInv => AskedIsRecorded
  BY DEF NoticeInv
<1> QED
  BY <1>1, TypeInit, TypeStep, NoticeInit, NoticeStep, PTL DEF Spec

\* Nobody is asked about their own leave, whoever the manager, the head, HR or the
\* person who withdraws comes to be.
THEOREM NobodyAsked == Spec => []NobodyAskedAboutOwn
<1>1. NoticeInv => NobodyAskedAboutOwn
  BY DEF NoticeInv
<1> QED
  BY <1>1, TypeInit, TypeStep, NoticeInit, NoticeStep, PTL DEF Spec
=============================================================================
