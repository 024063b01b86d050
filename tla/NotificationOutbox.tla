------------------------- MODULE NotificationOutbox -------------------------
(***************************************************************************)
(* Notifications and the emails that follow them: notify() writes a        *)
(* notification and its delivery row in one transaction, and the           *)
(* dispatcher drains the rows that are due, from a timer and from a kick   *)
(* after each notify().                                                    *)
(*                                                                         *)
(* Times are abstracted to whether a row's next attempt is due.  A process *)
(* may crash, a database call of the dispatcher may fail and a relay's     *)
(* answer may be lost; MaxFaults bounds how often.                         *)
(***************************************************************************)
EXTENDS Naturals, Sequences, FiniteSets

CONSTANTS
  Calls,        \* calls of notify()
  Keys,         \* dedupe keys
  KeyOf,        \* the dedupe key of each call
  Drains,       \* calls of drain() that may be under way, timer's and kicks'
  Processes,    \* API processes on the one database
  ProcessOf,    \* the process of each call of notify() and of drain()
  BatchSize,
  MaxAttempts,
  MaxFaults     \* bound of the model, not of the code

ASSUME OutboxAssumption ==
  /\ KeyOf \in [Calls -> Keys]
  /\ ProcessOf \in [Calls \union Drains -> Processes]
  /\ Calls \intersect Drains = {}
  /\ BatchSize \in Nat \ {0}
  /\ MaxAttempts \in Nat \ {0}
  /\ MaxFaults \in Nat

VARIABLES
  call,       \* where each call of notify() is
  outbox,     \* the delivery rows, oldest first
  draining,   \* the processes whose dispatcher has its flag up
  at,         \* where each drain() is
  batch,      \* the rows each drain() has still to handle, with attempts as read
  delivered,  \* the sends the mail server accepted: row and attempt
  faults

vars == <<call, outbox, draining, at, batch, delivered, faults>>

Status == {"PENDING", "SENT", "FAILED", "SKIPPED"}
Row == [key : Keys, status : Status, attempts : Nat, due : BOOLEAN]
Rows == 1 .. Len(outbox)

\* Where a drain() is: it reads the batch, claims the next row, sends it, and
\* holds what the mail server said until it is saved.
Stage == {"idle", "query", "claim", "send", "accepted", "deferred", "rejected"}
Holding == {"send", "accepted", "deferred", "rejected"}

TypeOK ==
  /\ call \in [Calls -> {"new", "rendered", "raised", "duplicate", "lost"}]
  /\ outbox \in Seq(Row)
  /\ draining \subseteq Processes
  /\ at \in [Drains -> Stage]
  /\ batch = [d \in Drains |-> batch[d]]
  /\ \A d \in Drains :
       DOMAIN batch[d] \subseteq Rows /\ batch[d] \in [DOMAIN batch[d] -> Nat]
  /\ delivered \subseteq Rows \X Nat
  /\ faults \in 0 .. MaxFaults

None == [i \in {} |-> 0]

Init ==
  /\ call = [c \in Calls |-> "new"]
  /\ outbox = << >>
  /\ draining = {}
  /\ at = [d \in Drains |-> "idle"]
  /\ batch = [d \in Drains |-> None]
  /\ delivered = {}
  /\ faults = 0

Fault == faults < MaxFaults /\ faults' = faults + 1

-----------------------------------------------------------------------------
(* notify() *)

\* The recipient is looked up and the email rendered; an unknown or archived
\* recipient ends the call, which never throws.
FindRecipient(c) ==
  /\ call[c] = "new"
  /\ \E found \in {"rendered", "lost"} : call' = [call EXCEPT ![c] = found]
  /\ UNCHANGED <<outbox, draining, at, batch, delivered, faults>>

\* The unique index on the dedupe key.
KeyTaken(k) == \E i \in Rows : outbox[i].key = k

\* The transaction that inserts the notification and its delivery.
Raise(c) ==
  /\ call[c] = "rendered"
  /\ IF KeyTaken(KeyOf[c])
     THEN /\ call' = [call EXCEPT ![c] = "duplicate"]
          /\ UNCHANGED outbox
     ELSE /\ call' = [call EXCEPT ![c] = "raised"]
          /\ \E first \in {"PENDING", "SKIPPED"} :
               outbox' = Append(outbox, [key |-> KeyOf[c], status |-> first,
                                         attempts |-> 0, due |-> TRUE])
  /\ UNCHANGED <<draining, at, batch, delivered, faults>>

-----------------------------------------------------------------------------
(* drain() *)

Go(d, stage) == at' = [at EXCEPT ![d] = stage]

\* Mutant of Start: the flag is not looked at.
MutantStartOverlaps(d) ==
  /\ at[d] = "idle"
  /\ draining' = draining \union {ProcessOf[d]}
  /\ Go(d, "query")
  /\ UNCHANGED <<call, outbox, batch, delivered, faults>>

\* A tick or a kick that finds the flag up returns at once.
Start(d) ==
  /\ at[d] = "idle"
  /\ ProcessOf[d] \notin draining
  /\ draining' = draining \union {ProcessOf[d]}
  /\ Go(d, "query")
  /\ UNCHANGED <<call, outbox, batch, delivered, faults>>

\* Mutant of Due: the query asks for rows without a next attempt only,
\* and retries are left out.
MutantDueFresh ==
  {i \in Rows : outbox[i].status = "PENDING" /\ outbox[i].due /\ outbox[i].attempts = 0}

Due == {i \in Rows : outbox[i].status = "PENDING" /\ outbox[i].due}

Oldest == {i \in Due : Cardinality({j \in Due : j < i}) < BatchSize}

Query(d) ==
  /\ at[d] = "query"
  /\ batch' = [batch EXCEPT ![d] = [i \in Oldest |-> outbox[i].attempts]]
  /\ Go(d, "claim")
  /\ UNCHANGED <<call, outbox, draining, delivered, faults>>

Least(b) == CHOOSE i \in DOMAIN b : \A j \in DOMAIN b : i <= j
InHand(d) == Least(batch[d])
Attempt(d) == batch[d][InHand(d)] + 1

\* On to the next row of the batch.
NextRow(d) ==
  /\ batch' = [batch EXCEPT ![d] = [i \in DOMAIN batch[d] \ {InHand(d)} |-> batch[d][i]]]
  /\ Go(d, "claim")

Claimable(d) ==
  LET row == outbox[InHand(d)]
  IN  row.status = "PENDING" /\ row.attempts = batch[d][InHand(d)]

\* Mutant of Claim: the attempt is counted with its outcome, so a crash leaves
\* the row as if it had not been tried.
MutantClaimUncounted(d) ==
  /\ at[d] = "claim"
  /\ batch[d] # None
  /\ IF Claimable(d) THEN Go(d, "send") /\ UNCHANGED batch ELSE NextRow(d)
  /\ UNCHANGED <<outbox, call, draining, delivered, faults>>

\* The guarded update that counts the attempt.
CountAttempt(d) ==
  /\ Claimable(d)
  /\ outbox' = [outbox EXCEPT ![InHand(d)].attempts = Attempt(d)]

Claim(d) ==
  /\ at[d] = "claim"
  /\ batch[d] # None
  /\ \/ CountAttempt(d) /\ Go(d, "send") /\ UNCHANGED batch
     \/ ~Claimable(d) /\ NextRow(d) /\ UNCHANGED outbox
  /\ UNCHANGED <<call, draining, delivered, faults>>

Deliver(d) == delivered' = delivered \union {<<InHand(d), Attempt(d)>>}

\* The mail server takes the email; refuses it for now or for good (5xx); or
\* takes it while the connection breaks before it says so.
Send(d) ==
  /\ at[d] = "send"
  /\ \/ Deliver(d) /\ Go(d, "accepted") /\ UNCHANGED faults
     \/ Go(d, "deferred") /\ UNCHANGED <<delivered, faults>>
     \/ Go(d, "rejected") /\ UNCHANGED <<delivered, faults>>
     \/ Deliver(d) /\ Go(d, "deferred") /\ Fault
  /\ UNCHANGED <<call, outbox, draining, batch>>

\* Mutant of SetStatus: a failure is written as a success.
MutantSetStatusSent(d, s) ==
  outbox' = [outbox EXCEPT ![InHand(d)].status = "SENT", ![InHand(d)].due = TRUE]

SetStatus(d, s) ==
  outbox' = [outbox EXCEPT ![InHand(d)].status = s, ![InHand(d)].due = TRUE]

MarkSent(d) ==
  /\ at[d] = "accepted"
  /\ SetStatus(d, "SENT")
  /\ NextRow(d)
  /\ UNCHANGED <<call, draining, delivered, faults>>

GiveUp(d) == at[d] = "rejected" \/ Attempt(d) >= MaxAttempts

\* Mutant of WriteFailure: a retry writes the whole row back to pending.
MutantWriteFailureReopens(d) ==
  IF GiveUp(d)
  THEN SetStatus(d, "FAILED")
  ELSE outbox' = [outbox EXCEPT ![InHand(d)].status = "PENDING",
                                ![InHand(d)].due = FALSE]

WriteFailure(d) ==
  IF GiveUp(d)
  THEN SetStatus(d, "FAILED")
  ELSE outbox' = [outbox EXCEPT ![InHand(d)].due = FALSE]

MarkFailure(d) ==
  /\ at[d] \in {"deferred", "rejected"}
  /\ WriteFailure(d)
  /\ NextRow(d)
  /\ UNCHANGED <<call, draining, delivered, faults>>

LowerFlag(d) ==
  /\ draining' = draining \ {ProcessOf[d]}
  /\ Go(d, "idle")

Finish(d) ==
  /\ at[d] = "claim"
  /\ batch[d] = None
  /\ LowerFlag(d)
  /\ UNCHANGED <<call, outbox, batch, delivered, faults>>

\* A database call fails, before it is applied or, its answer lost, after: the
\* query ends the drain, the update to SENT counts as a retryable failure of a
\* row that may be SENT by now, any other skips the row.
DatabaseError(d) ==
  /\ Fault
  /\ \/ at[d] = "query" /\ LowerFlag(d) /\ UNCHANGED <<outbox, batch>>
     \/ /\ at[d] = "claim" /\ batch[d] # None
        /\ UNCHANGED outbox \/ CountAttempt(d)
        /\ NextRow(d) /\ UNCHANGED draining
     \/ /\ at[d] = "accepted"
        /\ UNCHANGED outbox \/ SetStatus(d, "SENT")
        /\ Go(d, "deferred") /\ UNCHANGED <<batch, draining>>
     \/ /\ at[d] \in {"deferred", "rejected"}
        /\ UNCHANGED outbox \/ WriteFailure(d)
        /\ NextRow(d) /\ UNCHANGED draining
  /\ UNCHANGED <<call, delivered>>

-----------------------------------------------------------------------------
\* The back-off of a row has elapsed.
Elapse ==
  /\ \E i \in Rows : ~outbox[i].due /\ outbox' = [outbox EXCEPT ![i].due = TRUE]
  /\ UNCHANGED <<call, draining, at, batch, delivered, faults>>

\* A restart loses the calls under way; the rows are in the database.
Crash(p) ==
  /\ Fault
  /\ call' = [c \in Calls |->
       IF ProcessOf[c] = p /\ call[c] = "rendered" THEN "lost" ELSE call[c]]
  /\ at' = [d \in Drains |-> IF ProcessOf[d] = p THEN "idle" ELSE at[d]]
  /\ batch' = [d \in Drains |-> IF ProcessOf[d] = p THEN None ELSE batch[d]]
  /\ draining' = draining \ {p}
  /\ UNCHANGED <<outbox, delivered>>

Notify(c) == FindRecipient(c) \/ Raise(c)

Dispatch(d) ==
  \/ Start(d) \/ Query(d) \/ Claim(d) \/ Send(d)
  \/ MarkSent(d) \/ MarkFailure(d) \/ Finish(d)

Next ==
  \/ \E c \in Calls : Notify(c)
  \/ \E d \in Drains : Dispatch(d) \/ DatabaseError(d)
  \/ Elapse
  \/ \E p \in Processes : Crash(p)

Spec == Init /\ [][Next]_vars

\* The poll timer keeps starting drains, a drain's calls return, and back-offs
\* elapse.  No call of notify() and no fault need happen.
FairSpec ==
  /\ Spec
  /\ \A d \in Drains : WF_vars(Dispatch(d))
  /\ WF_vars(Elapse)

-----------------------------------------------------------------------------
(* Properties *)

Tries(i) == Cardinality({n \in 1 .. outbox[i].attempts : <<i, n>> \in delivered})

\* One event raises one notification, however often and by however many
\* requests notify() is called for it (notify, the unique dedupe key).
OneNotificationPerKey ==
  \A i, j \in Rows : outbox[i].key = outbox[j].key => i = j

\* Two drains never make the same attempt at a row, in one process or in many,
\* and none repeats an attempt already made before a crash (drain, the claim).
EveryAttemptClaimedOnce ==
  \A d \in Drains : at[d] = "send" =>
    /\ <<InHand(d), Attempt(d)>> \notin delivered
    /\ \A e \in Drains \ {d} :
         at[e] = "send" => <<InHand(e), Attempt(e)>> # <<InHand(d), Attempt(d)>>

\* Within one process an email goes out a second time only if something
\* failed after the first: a crash, a lost answer or an update not written.
DuplicatesNeedAFault == \A i \in Rows : Tries(i) <= 1 + faults

\* What a row's status says of its email is true: SENT was accepted by a mail
\* server, SKIPPED was never tried, and PENDING with no drain holding the row
\* and no fault so far was not delivered.
StatusTellsTheTruth ==
  \A i \in Rows :
    /\ outbox[i].status = "SENT" => Tries(i) > 0
    /\ outbox[i].status = "SKIPPED" => outbox[i].attempts = 0
    /\ /\ outbox[i].status \in {"PENDING", "FAILED"}
       /\ faults = 0
       /\ \A d \in Drains : at[d] \in Holding => InHand(d) # i
       => Tries(i) = 0

\* A row marked SENT or FAILED stays one or the other and is never claimed for
\* a further attempt. Its outcome is rewritten only where an earlier attempt is
\* still in hand: by a second process, or by the drain whose own update to SENT
\* was applied without its answer, and which takes the email for a failure
\* (drain: the updates after a send go by the id, whatever the status).
OutcomeIsFinal ==
  [][\A i \in Rows : outbox[i].status \in {"SENT", "FAILED"} =>
       /\ outbox'[i].status \in {"SENT", "FAILED"}
       /\ outbox'[i].attempts = outbox[i].attempts
       /\ outbox'[i] # outbox[i] =>
            \/ \E p, q \in Processes : p # q
            \/ outbox[i].status = "SENT" /\ faults > 0]_vars

\* Every queued email is sent or given up on, whatever crashes and errors
\* happen in between (drain, the poll timer).
EveryEmailResolved ==
  \A i \in 1 .. Cardinality(Keys) :
    (i \in Rows /\ outbox[i].status = "PENDING")
      ~> (i \in Rows /\ outbox[i].status \in {"SENT", "FAILED"})

=============================================================================
