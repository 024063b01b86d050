--------------------------- MODULE SubmissionPool ---------------------------
(***************************************************************************)
(* The connections behind createRequest: Prisma's pool, the interactive    *)
(* transaction of submitUnderLock and the row lock inside it.              *)
(*                                                                         *)
(* A query outside a transaction borrows a connection and gives it back; a *)
(* transaction keeps the connection it opened with until it commits or is  *)
(* rolled back, also while it waits for the lock of the employee's row.    *)
(* LeaveRequests_proofs extends this module and LeaveRequests.             *)
(***************************************************************************)
EXTENDS Naturals, FiniteSets

CONSTANTS
  Calls,         \* calls of createRequest
  People,        \* employees
  Owner,         \* the employee each call is for
  PoolSize       \* connections in Prisma's pool

ASSUME PoolAssumption ==
  /\ PoolSize \in Nat \ {0}
  /\ Owner \in [Calls -> People]
  /\ IsFiniteSet(Calls)

VARIABLES
  at,      \* where each submission is
  conns,   \* submissions that hold a connection
  lock,    \* submissions that hold the lock of their employee's row
  saved    \* submissions whose transaction has committed

poolVars == <<at, conns, lock, saved>>

\* "prepare": the reads before the transaction, then "open": it asks for a
\* connection, "begun": it asks for the lock, "critical": it checks and inserts,
\* "committed": audit and notifications.  "ok", "refused" and "busy" (503) and
\* "error" are the answers.
Asking == {"prepare", "open", "committed"}
Working == {"preparing", "begun", "critical", "announcing"}
Answer == {"ok", "refused", "busy", "error"}

PoolTypeOK ==
  /\ at \in [Calls -> Asking \union Working \union Answer]
  /\ conns \subseteq Calls
  /\ lock \subseteq Calls
  /\ saved \subseteq Calls

PoolInit ==
  /\ at = [s \in Calls |-> "prepare"]
  /\ conns = {}
  /\ lock = {}
  /\ saved = {}

Available == Cardinality(conns) < PoolSize

Locked(e) == \E s \in lock : Owner[s] = e

Go(s, from, to) == at[s] = from /\ at' = [at EXCEPT ![s] = to]

Borrow(s) == Available /\ conns' = conns \union {s}
GiveBack(s) == conns' = conns \ {s}

\* Type, policy, approver and entitlement are read on the main pool.
BeginReads(s) ==
  /\ Go(s, "prepare", "preparing")
  /\ Borrow(s)
  /\ UNCHANGED <<lock, saved>>

\* Mutant of EndReads: the transaction is opened first, and reads through the
\* main pool while it is open.
MutantReadInside(s) ==
  /\ Go(s, "preparing", "open")
  /\ UNCHANGED <<conns, lock, saved>>

EndReads(s) ==
  /\ \/ Go(s, "preparing", "open")
     \/ Go(s, "preparing", "refused")
  /\ GiveBack(s)
  /\ UNCHANGED <<lock, saved>>

\* prisma.$transaction takes the one connection it will use.
OpenTransaction(s) ==
  /\ Go(s, "open", "begun")
  /\ Borrow(s)
  /\ UNCHANGED <<lock, saved>>

\* SELECT ... FOR UPDATE: waits, connection in hand, until the row is free.
TakeRowLock(s) ==
  /\ Go(s, "begun", "critical")
  /\ ~Locked(Owner[s])
  /\ lock' = lock \union {s}
  /\ UNCHANGED <<conns, saved>>

\* Overlap, balance and insert, all on the transaction's own connection.
Commit(s) ==
  /\ Go(s, "critical", "committed")
  /\ saved' = saved \union {s}
  /\ lock' = lock \ {s}
  /\ GiveBack(s)

\* Mutant of RollBack: the row stays locked.
MutantRollBackKeepsLock(s) == GiveBack(s) /\ UNCHANGED <<lock, saved>>

RollBack(s) == lock' = lock \ {s} /\ GiveBack(s) /\ UNCHANGED saved

\* An overlap or too small a balance rolls the transaction back.
Refuse(s) == Go(s, "critical", "refused") /\ RollBack(s)

\* Audit and notifications borrow a connection after the commit.
BeginAnnounce(s) ==
  /\ Go(s, "committed", "announcing")
  /\ Borrow(s)
  /\ UNCHANGED <<lock, saved>>

EndAnnounce(s) ==
  /\ Go(s, "announcing", "ok")
  /\ GiveBack(s)
  /\ UNCHANGED <<lock, saved>>

\* Mutant of MaxWait: a wait that ends after the commit is answered 503 too.
MutantMaxWaitAnywhere(s) ==
  /\ \/ Go(s, "open", "busy")
     \/ Go(s, "committed", "busy")
  /\ ~Available
  /\ UNCHANGED <<conns, lock, saved>>

\* P2024: the pool had no connection within maxWait.
MaxWait(s) ==
  /\ Go(s, "open", "busy")
  /\ ~Available
  /\ UNCHANGED <<conns, lock, saved>>

\* P2028: the transaction ran past its timeout, while it waited or worked.
Timeout(s) == (Go(s, "begun", "busy") \/ Go(s, "critical", "busy")) /\ RollBack(s)

\* P2024 outside the transaction is a 500, save that audit.record and notify
\* swallow it after the commit; the lookup of HR among them does not.
PoolTimeout(s) ==
  /\ ~Available
  /\ \/ Go(s, "prepare", "error")
     \/ Go(s, "committed", "error")
     \/ Go(s, "committed", "ok")
  /\ UNCHANGED <<conns, lock, saved>>

Step(s) ==
  \/ BeginReads(s) \/ EndReads(s) \/ OpenTransaction(s) \/ TakeRowLock(s)
  \/ Commit(s) \/ Refuse(s) \/ BeginAnnounce(s) \/ EndAnnounce(s)

GiveUp(s) == MaxWait(s) \/ Timeout(s) \/ PoolTimeout(s)

AllAnswered == \A s \in Calls : at[s] \in Answer

Done == AllAnswered /\ UNCHANGED poolVars

PoolNext == Done \/ \E s \in Calls : Step(s) \/ GiveUp(s)

PoolSpec == PoolInit /\ [][PoolNext]_poolVars

\* Every handler that can go on does; no timeout is needed, nor counted on.
FairPoolSpec == PoolSpec /\ \A s \in Calls : WF_poolVars(Step(s))
-----------------------------------------------------------------------------
\* A connection is held exactly while a query or the transaction is under way,
\* and the pool is never overdrawn.
ConnectionsAccounted ==
  /\ conns = {s \in Calls : at[s] \in Working}
  /\ Cardinality(conns) <= PoolSize

\* One submission of an employee is between lock and commit at a time, and it
\* works on a connection of its own.
LockOwnsConnection ==
  /\ lock \subseteq conns
  /\ \A s, r \in lock : Owner[s] = Owner[r] => s = r

\* "It cannot starve however many people submit at once": whenever somebody is
\* waiting, somebody holds all it needs to go on and give something back.
NeverStarved ==
  ~AllAnswered => \E s \in Calls :
    \/ at[s] \in Asking /\ Available
    \/ at[s] \in {"preparing", "critical", "announcing"} /\ s \in conns
    \/ at[s] = "begun" /\ s \in conns /\ ~Locked(Owner[s])

\* "Nothing was saved - please try again": what the 503 says.
BusySavedNothing == \A s \in Calls : at[s] = "busy" => s \notin saved

\* Every submission is answered without any timeout having to fire.
EveryCallAnswered == <>AllAnswered
=============================================================================
