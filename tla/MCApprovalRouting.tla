-------------------------- MODULE MCApprovalRouting --------------------------
(* A small company for ApprovalRouting: Engineering, with iOS below it, and  *)
(* Operations; a worker, a manager, the head of Engineering and one of HR.   *)
EXTENDS ApprovalRouting

CONSTANTS worker, boss, chief, hr, engineering, ios, operations, r1, r2

Tree == [d \in Departments |-> IF d = ios THEN engineering ELSE NoDepartment]
Heads == [d \in Departments |-> IF d = operations THEN hr ELSE chief]

At(e, m, d) == [who |-> e, job |-> [manager |-> m, department |-> d]]
Worker == {At(worker, m, ios) : m \in {boss, NoOne}}
HrMoves == Worker \union {At(worker, chief, operations)}

Status(e, s) == [who |-> e, status |-> s]
StatusChanges == {Status(chief, "SUSPENDED")}

\* hr covers for somebody: a grant that lapses.
Cover == {<<chief, "hr_admin">>}

Owners == [r \in Requests |-> IF r = r2 THEN hr ELSE worker]

\* As seeded: everybody is an employee; the boss is a manager, and the head both.
Seeded ==
  /\ job = [e \in Employees |->
              CASE e = worker -> [manager |-> boss, department |-> ios]
                [] e = boss   -> [manager |-> chief, department |-> engineering]
                [] e = chief  -> [manager |-> NoOne, department |-> engineering]
                [] e = hr     -> [manager |-> NoOne, department |-> operations]]
  /\ grants = [e \in Employees |->
              CASE e = worker -> {"employee"}
                [] e = boss   -> {"employee", "manager"}
                [] e = chief  -> {"employee", "department_head", "hr_admin"}
                [] e = hr     -> {"employee", "hr_admin"}]
  /\ Init

MCSpec == Seeded /\ [][Next]_vars
=============================================================================
