----------------------------- MODULE LeaveLedger -----------------------------
(***************************************************************************)
(* What LeaveRequests promises when one handler at a time decides: a       *)
(* ledger in which booking, deciding and withdrawing a request are single  *)
(* steps.                                                                  *)
(***************************************************************************)
EXTENDS WorkingDays

CONSTANTS
  Requests,      \* the requests that may be booked
  Entitled(_),   \* what a pot, an employee's type and year, may be worth in days
  PotOf(_),      \* the pot a request's form draws from
  Limited(_)     \* the form's leave type requires a balance

VARIABLES
  asked,   \* the form of each request
  state    \* its status, "ABSENT" until it is booked

Holding(r) == state[r] \in {"PENDING", "APPROVED"}

Days(r) == {r} \X workingDays(asked[r].start, asked[r].end)

Given(pot) ==
  Cardinality(UNION {Days(r) : r \in {q \in Requests : Holding(q) /\ PotOf(asked[q]) = pot}})

Free(r) ==
  \A q \in Requests : Holding(q) =>
    \/ asked[q].employee # asked[r].employee
    \/ ~Intersect(asked[q].start, asked[q].end, asked[r].start, asked[r].end)

Fits(r) ==
  Limited(asked[r]) =>
    \E entitled \in Entitled(PotOf(asked[r])) :
      Given(PotOf(asked[r])) + Cardinality(Days(r)) <= entitled

Init == state = [r \in Requests |-> "ABSENT"]

Become(r, status) == state' = [state EXCEPT ![r] = status] /\ UNCHANGED asked

\* A booking takes free days that fit, and takes them all at once.
Book(r) ==
  /\ state[r] = "ABSENT"
  /\ Free(r)
  /\ Fits(r)
  /\ \E status \in {"PENDING", "APPROVED"} : Become(r, status)

Decide(r) ==
  /\ state[r] = "PENDING"
  /\ \E status \in {"APPROVED", "REJECTED"} : Become(r, status)

Withdraw(r) == Holding(r) /\ Become(r, "CANCELLED")

Next == \E r \in Requests : Book(r) \/ Decide(r) \/ Withdraw(r)

Spec == Init /\ [][Next]_<<asked, state>>
=============================================================================
