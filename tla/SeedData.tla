------------------------------- MODULE SeedData -------------------------------
(***************************************************************************)
(* prisma/seed-data.ts and the tables of prisma/seed.ts: the company the   *)
(* seed builds.  Names, descriptions and notes are left out.  A date is    *)
(* the number its digits make, 2023-04-01 is 20230401; Open is null.       *)
(***************************************************************************)
EXTENDS Integers, Sequences, FiniteSets, TLC

Open == 99999999
NoOne == "nobody"
NoDepartment == "no department"

Keys(resource, actions) == {resource \o ":" \o a : a \in actions}

PERMISSIONS ==
  UNION { Keys("employee", {"read", "create", "update", "delete"}),
          Keys("employment_assignment", {"read", "create"}),
          Keys("department", {"read", "manage"}),
          Keys("role", {"read", "manage"}),
          Keys("document", {"read", "upload", "read_confidential"}),
          Keys("access_role", {"read", "manage"}),
          Keys("leave_type", {"read", "manage"}),
          Keys("leave_balance", {"read", "manage"}),
          Keys("leave_request", {"read", "create", "approve", "cancel"}),
          Keys("leave_policy", {"read", "manage"}) }

\* The permissions each access role holds, by scope.
Grants(global, department, team, self) ==
  (global \X {"GLOBAL"}) \union (department \X {"DEPARTMENT"})
    \union (team \X {"TEAM"}) \union (self \X {"SELF"})

HrReserved == {"access_role:manage"}
HeadReads == {"employee:read", "employment_assignment:read", "document:read",
              "leave_balance:read", "leave_request:read", "leave_request:approve"}
OwnLeave == Keys("leave_request", {"create", "cancel"})

ACCESS_ROLES ==
  [ super_admin     |-> Grants(PERMISSIONS, {}, {}, {}),
    hr_admin        |-> Grants(PERMISSIONS \ HrReserved, {}, {}, {}),
    department_head |-> Grants({"role:read", "leave_type:read"},
                               HeadReads \union {"employee:update", "department:read"},
                               {}, OwnLeave),
    manager         |-> Grants({"role:read", "leave_type:read"}, {"department:read"},
                               HeadReads, OwnLeave),
    recruiter       |-> Grants({"employee:read", "department:read", "role:read"}, {}, {}, {}),
    employee        |-> Grants({"leave_type:read", "department:read", "role:read"}, {}, {},
                               OwnLeave \union Keys("document", {"read", "upload"}) \union
                               {"employee:read", "employment_assignment:read",
                                "leave_balance:read", "leave_request:read"}) ]

JOB_TITLES == {"CEO", "VP_ENG", "HEAD_PEOPLE", "ENG_LEAD", "SR_SWE", "SWE", "AI_ENG",
               "PRODUCT_DESIGNER", "RECRUITER"}

\* Each department with the one it is part of.
DEPARTMENTS ==
  [code \in {"EXEC", "ENG", "ENG-MOB", "ENG-AI", "DESIGN", "PEOPLE"} |->
     IF code \in {"ENG-MOB", "ENG-AI"} THEN "ENG" ELSE NoDepartment]

Terms(role, department, manager, employmentType, workLocationType) ==
  [role |-> role, department |-> department, manager |-> manager,
   employmentType |-> employmentType, workLocationType |-> workLocationType]

Entry(from, to, terms) == [from |-> from, to |-> to, terms |-> terms]

Person(accessRoles, headOf, history) ==
  [accessRoles |-> accessRoles, headOf |-> headOf, history |-> history]

\* The people who head a department, ...
DepartmentHeads ==
  [ ayesha |-> Person({"super_admin", "employee"}, "EXEC",
      << Entry(20190301, Open, Terms("CEO", "EXEC", NoOne, "FULL_TIME", "ONSITE")) >>),
    bilal |-> Person({"department_head", "manager", "employee"}, "ENG",
      << Entry(20200615, 20211231, Terms("ENG_LEAD", "ENG", "ayesha", "FULL_TIME", "ONSITE")),
         Entry(20220101, Open, Terms("VP_ENG", "ENG", "ayesha", "FULL_TIME", "HYBRID")) >>),
    sana |-> Person({"hr_admin", "department_head", "employee"}, "PEOPLE",
      << Entry(20210111, Open, Terms("HEAD_PEOPLE", "PEOPLE", "ayesha", "FULL_TIME", "ONSITE")) >>),
    omar |-> Person({"manager", "employee"}, "ENG-MOB",
      << Entry(20210906, 20230331, Terms("SR_SWE", "ENG", "bilal", "FULL_TIME", "ONSITE")),
         Entry(20230401, Open, Terms("ENG_LEAD", "ENG-MOB", "bilal", "FULL_TIME", "HYBRID")) >>) ]

\* ... and those who do not.
Staff ==
  [ zara |-> Person({"employee"}, NoDepartment,
      << Entry(20220418, 20230331, Terms("SWE", "ENG", "bilal", "FULL_TIME", "ONSITE")),
         Entry(20230401, 20231231, Terms("SWE", "ENG-MOB", "omar", "FULL_TIME", "REMOTE")),
         Entry(20240101, Open, Terms("SR_SWE", "ENG-MOB", "omar", "FULL_TIME", "REMOTE")) >>),
    hassan |-> Person({"employee"}, NoDepartment,
      << Entry(20230227, 20230831, Terms("AI_ENG", "ENG-AI", "bilal", "INTERN", "ONSITE")),
         Entry(20230901, Open, Terms("AI_ENG", "ENG-AI", "bilal", "FULL_TIME", "REMOTE")) >>),
    fatima |-> Person({"employee"}, NoDepartment,
      << Entry(20240708, Open,
               Terms("PRODUCT_DESIGNER", "DESIGN", "ayesha", "FULL_TIME", "HYBRID")) >>) ]

EMPLOYEES == DepartmentHeads @@ Staff

\* "Ordered so that every manager is created before their reports."
Order == <<"ayesha", "bilal", "sana", "omar", "zara", "hassan", "fatima">>

Policy(quotaDays, approvalRequired, carryForwardMaxDays, minNoticeDays) ==
  [quotaDays |-> quotaDays, approvalRequired |-> approvalRequired,
   carryForwardMaxDays |-> carryForwardMaxDays, minNoticeDays |-> minNoticeDays]

LEAVE_TYPES ==
  [ ANNUAL |-> Policy(6, TRUE, 0, 2),
    SICK   |-> Policy(6, TRUE, 0, 0),
    CASUAL |-> Policy(8, TRUE, 2, 1),
    UNPAID |-> Policy(0, FALSE, 0, 0) ]

\* "No manager or employee AccessRole grants leave_policy:manage at any scope",
\* an ordinary employee may approve nothing, and no role names a permission
\* that does not exist.
ASSUME RolesKeepToTheirComments ==
  /\ \A role \in {"department_head", "manager", "recruiter", "employee"} :
       \A grant \in ACCESS_ROLES[role] : grant[1] # "leave_policy:manage"
  /\ \A grant \in ACCESS_ROLES["employee"] : grant[1] # "leave_request:approve"
  /\ \A role \in DOMAIN ACCESS_ROLES :
       \A grant \in ACCESS_ROLES[role] : grant[1] \in PERMISSIONS

\* What the lookups of an entry may find.
JobTerms ==
  [role : JOB_TITLES, department : DOMAIN DEPARTMENTS,
   manager : DOMAIN EMPLOYEES \union {NoOne},
   employmentType : STRING, workLocationType : STRING]

\* A person's history is flush: it has one open entry, its last, and each entry
\* ends before the next begins.
ASSUME HistoriesInOrder ==
  \A e \in DOMAIN EMPLOYEES :
    LET history == EMPLOYEES[e].history
    IN  /\ history # <<>> /\ history \in Seq([from : Nat, to : Nat, terms : JobTerms])
        /\ \A i \in DOMAIN history :
             /\ history[i].from <= history[i].to
             /\ (history[i].to = Open) <=> (i = Len(history))
             /\ \A j \in DOMAIN history : i < j => history[i].to < history[j].from

\* "Ordered so that every manager is created before their reports."
ASSUME ManagersFirst ==
  /\ Order # <<>> /\ Order \in Seq(DOMAIN EMPLOYEES)
  /\ DOMAIN EMPLOYEES = {Order[i] : i \in DOMAIN Order}
  /\ \A i \in DOMAIN Order :
       LET history == EMPLOYEES[Order[i]].history
       IN  \A k \in DOMAIN history :
             history[k].terms.manager \in {NoOne} \union {Order[j] : j \in 1..(i - 1)}

\* A department has one head at most, and its parent has no parent.
ASSUME DepartmentsInOrder ==
  /\ NoDepartment \notin DOMAIN DEPARTMENTS
  /\ \A d \in DOMAIN DEPARTMENTS : DEPARTMENTS[d] # NoDepartment =>
       DEPARTMENTS[d] \in DOMAIN DEPARTMENTS /\ DEPARTMENTS[DEPARTMENTS[d]] = NoDepartment
  /\ \A e \in DOMAIN EMPLOYEES :
       /\ EMPLOYEES[e].headOf \in {NoDepartment} \union DOMAIN DEPARTMENTS
       /\ \A other \in DOMAIN EMPLOYEES \ {e} :
            EMPLOYEES[e].headOf = NoDepartment \/ EMPLOYEES[other].headOf # EMPLOYEES[e].headOf

\* The tables are finite, a quota is a number of days, and people hold access
\* roles that are there.
ASSUME TablesFinite ==
  /\ IsFiniteSet(PERMISSIONS) /\ IsFiniteSet(JOB_TITLES)
  /\ IsFiniteSet(DOMAIN DEPARTMENTS) /\ IsFiniteSet(DOMAIN LEAVE_TYPES)
  /\ IsFiniteSet(DOMAIN ACCESS_ROLES)
  /\ \A t \in DOMAIN LEAVE_TYPES : LEAVE_TYPES[t].quotaDays \in Nat
  /\ \A role \in DOMAIN ACCESS_ROLES : IsFiniteSet(ACCESS_ROLES[role])
  /\ \A e \in DOMAIN EMPLOYEES :
       /\ EMPLOYEES[e].accessRoles \subseteq DOMAIN ACCESS_ROLES
       /\ IsFiniteSet(EMPLOYEES[e].accessRoles)
=============================================================================
