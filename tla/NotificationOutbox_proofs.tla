---------------------- MODULE NotificationOutbox_proofs ----------------------
(***************************************************************************)
(* Proofs about NotificationOutbox for any number of processes, drains,    *)
(* calls, crashes and errors: one notification per key, and no attempt at  *)
(* an email made twice, and a row that is closed never taken up again.     *)
(* Then, for the drains of one process (OneDispatcher): how often an email *)
(* goes out, and that what its row says is true.                           *)
(***************************************************************************)
EXTENDS NotificationOutbox, FiniteSetTheorems, WellFoundedInduction, TLAPS

\* A drain that claimed a row still has it in its batch.
HoldsARow == \A d \in Drains : at[d] \in Holding => batch[d] # None

\* Attempts are numbered by the claims written on the row.
AttemptsCounted ==
  /\ \A i \in Rows, n \in Nat : <<i, n>> \in delivered => n <= outbox[i].attempts
  /\ \A d \in Drains : at[d] \in Holding => Attempt(d) <= outbox[InHand(d)].attempts

IInv ==
  TypeOK /\ OneNotificationPerKey /\ HoldsARow /\ AttemptsCounted
         /\ EveryAttemptClaimedOnce

LEMMA LeastNatural ==
  ASSUME NEW T, T \subseteq Nat, T # {}
  PROVE  \E x \in T : \A y \in T : x <= y
<1>1. PICK x \in T : \A y \in T : <<y, x>> \notin OpToRel(<, Nat)
  BY NatLessThanWellFounded, WFMin
<1>2. ASSUME NEW y \in T PROVE x <= y
  <2>1. ~(y < x)
    BY <1>1 DEF OpToRel
  <2> QED
    BY <2>1
<1> QED
  BY <1>2

\* The row in hand is one of the batch's.
LEMMA InHandInBatch ==
  ASSUME TypeOK, NEW d \in Drains, batch[d] # None
  PROVE  /\ InHand(d) \in DOMAIN batch[d]
         /\ InHand(d) \in Rows
         /\ batch[d][InHand(d)] \in Nat
         /\ Attempt(d) \in Nat
<1>1. DOMAIN batch[d] \subseteq Rows /\ batch[d] \in [DOMAIN batch[d] -> Nat]
  BY DEF TypeOK
<1>2. DOMAIN batch[d] # {}
  BY <1>1 DEF None
<1>3. DOMAIN batch[d] \subseteq Nat
  BY <1>1 DEF Rows
<1>4. \E i \in DOMAIN batch[d] : \A j \in DOMAIN batch[d] : i <= j
  BY <1>2, <1>3, LeastNatural
<1>5. InHand(d) \in DOMAIN batch[d]
  BY <1>4 DEF InHand, Least
<1> QED
  BY <1>1, <1>5 DEF Attempt

LEMMA InitIInv == Init => IInv
<1> SUFFICES ASSUME Init PROVE IInv
  OBVIOUS
<1>1. outbox = << >> /\ Rows = {} /\ delivered = {}
  BY DEF Init, Rows
<1>2. \A d \in Drains : at[d] = "idle" /\ batch[d] = None
  BY DEF Init
<1>3. None \in [{} -> Nat] /\ DOMAIN None = {}
  BY DEF None
<1>4. TypeOK
  <2>1. outbox \in Seq(Row)
    BY <1>1
  <2>2. batch = [d \in Drains |-> batch[d]]
    BY DEF Init
  <2> QED
    BY <1>1, <1>2, <1>3, <2>1, <2>2, OutboxAssumption DEF Init, TypeOK, Stage
<1> QED
  BY <1>1, <1>2, <1>4
  DEF IInv, OneNotificationPerKey, HoldsARow, AttemptsCounted,
      EveryAttemptClaimedOnce, Holding

\* What keeps the attempts, the sends and the rows in hand keeps the invariant.
LEMMA Frame ==
  ASSUME IInv, TypeOK', OneNotificationPerKey', delivered' = delivered,
         Rows \subseteq Rows',
         \A i \in Rows : \/ outbox'[i].attempts = outbox[i].attempts
                         \/ outbox'[i].attempts >= outbox[i].attempts,
         \A d \in Drains : \/ at'[d] \notin Holding
                           \/ at'[d] = at[d] /\ batch'[d] = batch[d]
  PROVE  IInv'
<1>0. \A i \in Rows : /\ outbox[i].attempts \in Nat
                      /\ outbox'[i].attempts \in Nat
                      /\ outbox'[i].attempts >= outbox[i].attempts
  <2>1. \A i \in Rows : outbox[i] \in Row /\ outbox'[i] \in Row
    BY DEF IInv, TypeOK, Rows
  <2> QED
    BY <2>1 DEF Row
<1>1. ASSUME NEW d \in Drains, at'[d] \in Holding
      PROVE  /\ at[d] = at'[d] /\ batch'[d] = batch[d] /\ batch[d] # None
             /\ InHand(d)' = InHand(d) /\ Attempt(d)' = Attempt(d)
             /\ InHand(d) \in Rows /\ Attempt(d) \in Nat
  <2>1. at[d] = at'[d] /\ batch'[d] = batch[d] /\ batch[d] # None
    BY <1>1 DEF IInv, HoldsARow
  <2> QED
    BY <2>1, InHandInBatch DEF IInv, InHand, Attempt
<1>2. HoldsARow'
  BY <1>1 DEF HoldsARow
<1>3. AttemptsCounted'
  <2>1. ASSUME NEW i \in Rows', NEW n \in Nat, <<i, n>> \in delivered'
        PROVE  n <= outbox'[i].attempts
    <3>1. i \in Rows /\ n <= outbox[i].attempts
      BY <2>1 DEF IInv, TypeOK, AttemptsCounted
    <3> QED
      BY <1>0, <2>1, <3>1
  <2>2. ASSUME NEW d \in Drains, at'[d] \in Holding
        PROVE  Attempt(d)' <= outbox'[InHand(d)'].attempts
    <3>1. Attempt(d) <= outbox[InHand(d)].attempts
      BY <1>1, <2>2 DEF IInv, AttemptsCounted
    <3> QED
      BY <1>0, <1>1, <2>2, <3>1
  <2> QED
    BY <2>1, <2>2 DEF AttemptsCounted
<1>4. EveryAttemptClaimedOnce'
  BY <1>1 DEF IInv, EveryAttemptClaimedOnce, Holding
<1> QED
  BY <1>2, <1>3, <1>4 DEF IInv

LEMMA NotifyIInv ==
  ASSUME IInv, NEW c \in Calls, Notify(c)
  PROVE  IInv'
<1>0. TypeOK
  BY DEF IInv
<1>1. UNCHANGED <<draining, at, batch, delivered, faults>>
  BY DEF Notify, FindRecipient, Raise
<1>2. CASE UNCHANGED outbox
  <2>1. call' \in [Calls -> {"new", "rendered", "raised", "duplicate", "lost"}]
    BY <1>0 DEF TypeOK, Notify, FindRecipient, Raise
  <2>2. TypeOK' /\ OneNotificationPerKey'
    BY <1>1, <1>2, <2>1 DEF IInv, TypeOK, OneNotificationPerKey, Rows
  <2> QED
    BY <1>1, <1>2, <2>2, Frame DEF Rows
<1>3. CASE ~KeyTaken(KeyOf[c]) /\ Raise(c)
  <2>1. PICK r \in Row : outbox' = Append(outbox, r) /\ r.key = KeyOf[c]
    <3>1. PICK first \in {"PENDING", "SKIPPED"} :
            outbox' = Append(outbox, [key |-> KeyOf[c], status |-> first,
                                      attempts |-> 0, due |-> TRUE])
      BY <1>3 DEF Raise
    <3>2. [key |-> KeyOf[c], status |-> first, attempts |-> 0, due |-> TRUE] \in Row
      BY <3>1, OutboxAssumption DEF Row, Status
    <3> QED
      BY <3>1, <3>2
  <2>2. /\ outbox' \in Seq(Row)
        /\ Len(outbox') = Len(outbox) + 1
        /\ \A i \in Rows : outbox'[i] = outbox[i]
        /\ outbox'[Len(outbox) + 1] = r
    BY <2>1, <1>0 DEF TypeOK, Rows
  <2>3. Len(outbox) \in Nat
    BY <1>0 DEF TypeOK
  <2>4. Rows \subseteq Rows' /\ Rows' = Rows \union {Len(outbox) + 1}
    BY <2>2, <2>3 DEF Rows
  <2>5. TypeOK'
    <3>1. call' \in [Calls -> {"new", "rendered", "raised", "duplicate", "lost"}]
      BY <1>0, <1>3 DEF TypeOK, Raise
    <3> QED
      BY <1>0, <1>1, <2>2, <2>4, <3>1 DEF TypeOK
  <2>6. OneNotificationPerKey'
    <3>1. \A i \in Rows : outbox'[i].key # r.key
      BY <1>3, <2>1, <2>2 DEF KeyTaken
    <3>2. \A i, j \in Rows : outbox'[i].key = outbox'[j].key => i = j
      BY <2>2 DEF IInv, OneNotificationPerKey
    <3>3. \A i \in Rows' : i \in Rows \/ (outbox'[i] = r /\ i = Len(outbox) + 1)
      BY <2>2, <2>4
    <3> QED
      BY <3>1, <3>2, <3>3 DEF OneNotificationPerKey
  <2> QED
    BY <1>1, <2>2, <2>4, <2>5, <2>6, Frame
<1> QED
  BY <1>2, <1>3 DEF Notify, FindRecipient, Raise

-----------------------------------------------------------------------------
\* Rewriting the fields of the row in hand other than its key.
LEMMA RowWritten ==
  ASSUME IInv, NEW d \in Drains, batch[d] # None,
         NEW r \in Row, r.key = outbox[InHand(d)].key,
         outbox' = [outbox EXCEPT ![InHand(d)] = r]
  PROVE  /\ outbox' \in Seq(Row) /\ Rows' = Rows
         /\ outbox'[InHand(d)] = r
         /\ \A i \in Rows \ {InHand(d)} : outbox'[i] = outbox[i]
         /\ OneNotificationPerKey'
<1>1. outbox \in Seq(Row) /\ InHand(d) \in Rows
  BY InHandInBatch DEF IInv, TypeOK
<1>2. /\ outbox' \in Seq(Row) /\ Rows' = Rows
      /\ outbox'[InHand(d)] = r
      /\ \A i \in Rows \ {InHand(d)} : outbox'[i] = outbox[i]
  BY <1>1 DEF Rows
<1>3. \A i \in Rows : outbox'[i].key = outbox[i].key
  BY <1>2
<1> QED
  BY <1>2, <1>3 DEF IInv, OneNotificationPerKey

\* A batch keeps its type as rows are taken off it.
BatchOK(b) == DOMAIN b \subseteq Rows /\ b \in [DOMAIN b -> Nat]

LEMMA BatchShrinks ==
  ASSUME TypeOK, NEW d \in Drains, NextRow(d)
  PROVE  /\ batch' = [e \in Drains |-> batch'[e]]
         /\ \A e \in Drains : BatchOK(batch'[e])
         /\ \A e \in Drains \ {d} : batch'[e] = batch[e] /\ at'[e] = at[e]
         /\ at'[d] = "claim" /\ at' \in [Drains -> Stage]
<1> DEFINE rest == [i \in DOMAIN batch[d] \ {InHand(d)} |-> batch[d][i]]
<1>1. BatchOK(batch[d]) /\ \A e \in Drains : BatchOK(batch[e])
  BY DEF TypeOK, BatchOK
<1>2. BatchOK(rest)
  BY <1>1 DEF BatchOK
<1>3. batch' = [batch EXCEPT ![d] = rest]
  BY DEF NextRow
<1>4. batch = [e \in Drains |-> batch[e]]
  BY DEF TypeOK
<1>5. batch' = [e \in Drains |-> IF e = d THEN rest ELSE batch[e]]
  BY <1>3, <1>4
<1>6. \A e \in Drains : batch'[e] = IF e = d THEN rest ELSE batch[e]
  BY <1>5
<1>7. batch' = [e \in Drains |-> batch'[e]]
  BY <1>5
<1>8. at' \in [Drains -> Stage] /\ at'[d] = "claim"
      /\ \A e \in Drains \ {d} : at'[e] = at[e]
  BY DEF TypeOK, NextRow, Go, Stage
<1> QED
  BY <1>1, <1>2, <1>6, <1>7, <1>8

\* The drain is done with its row: it writes the row's status or its next
\* attempt, or nothing.
LEMMA RowDone ==
  ASSUME IInv, NEW d \in Drains, NextRow(d), batch[d] # None,
         UNCHANGED <<call, draining, delivered>>, faults' \in 0 .. MaxFaults,
         \/ UNCHANGED outbox
         \/ \E r \in Row :
              /\ r.key = outbox[InHand(d)].key
              /\ r.attempts = outbox[InHand(d)].attempts
              /\ outbox' = [outbox EXCEPT ![InHand(d)] = r]
  PROVE  IInv'
<1>1. /\ outbox' \in Seq(Row) /\ Rows' = Rows /\ OneNotificationPerKey'
      /\ \A i \in Rows : outbox'[i].attempts = outbox[i].attempts
  <2>1. CASE UNCHANGED outbox
    BY <2>1 DEF IInv, TypeOK, OneNotificationPerKey, Rows
  <2>2. CASE ~UNCHANGED outbox
    <3>1. PICK r \in Row :
            /\ r.key = outbox[InHand(d)].key
            /\ r.attempts = outbox[InHand(d)].attempts
            /\ outbox' = [outbox EXCEPT ![InHand(d)] = r]
      BY <2>2
    <3>2. /\ outbox' \in Seq(Row) /\ Rows' = Rows /\ OneNotificationPerKey'
          /\ outbox'[InHand(d)] = r
          /\ \A i \in Rows \ {InHand(d)} : outbox'[i] = outbox[i]
      BY <3>1, RowWritten
    <3>3. ASSUME NEW i \in Rows PROVE outbox'[i].attempts = outbox[i].attempts
      BY <3>1, <3>2
    <3> QED
      BY <3>2, <3>3
  <2> QED
    BY <2>1, <2>2
<1>2. TypeOK'
  BY <1>1, BatchShrinks DEF IInv, TypeOK, BatchOK
<1>3. \A e \in Drains : \/ at'[e] \notin Holding
                        \/ at'[e] = at[e] /\ batch'[e] = batch[e]
  BY BatchShrinks DEF IInv, Holding
<1> QED
  BY <1>1, <1>2, <1>3, Frame

LEMMA RowTyped ==
  ASSUME TypeOK, NEW d \in Drains, batch[d] # None
  PROVE  outbox[InHand(d)] \in Row
BY InHandInBatch DEF TypeOK, Rows

\* A claim that is written numbers the attempt above every earlier one at the row.
LEMMA Counted ==
  ASSUME IInv, NEW d \in Drains, batch[d] # None, CountAttempt(d)
  PROVE  /\ InHand(d) \in Rows /\ Attempt(d) \in Nat /\ outbox[InHand(d)] \in Row
         /\ Attempt(d) = outbox[InHand(d)].attempts + 1
         /\ outbox' \in Seq(Row) /\ Rows' = Rows /\ OneNotificationPerKey'
         /\ \A i \in Rows \ {InHand(d)} : outbox'[i] = outbox[i]
         /\ outbox'[InHand(d)].attempts = Attempt(d)
         /\ \A i \in Rows : /\ outbox[i].attempts \in Nat
                            /\ outbox'[i].attempts \in Nat
                            /\ outbox[i].attempts <= outbox'[i].attempts
                            /\ outbox'[i].status = outbox[i].status
                            /\ outbox'[i].due = outbox[i].due
<1> DEFINE h == InHand(d)
           n == Attempt(d)
           r == [outbox[h] EXCEPT !.attempts = n]
<1>0. TypeOK
  BY DEF IInv
<1>1. /\ h \in Rows /\ n \in Nat /\ outbox[h] \in Row
      /\ n = outbox[h].attempts + 1
  BY <1>0, InHandInBatch, RowTyped DEF CountAttempt, Claimable, Attempt
<1>2. outbox' = [outbox EXCEPT ![h] = r]
  BY <1>1 DEF CountAttempt
<1>3. /\ r \in Row /\ r.key = outbox[h].key /\ r.attempts = n
      /\ r.status = outbox[h].status /\ r.due = outbox[h].due
  BY <1>1 DEF Row
<1>4. /\ outbox' \in Seq(Row) /\ Rows' = Rows /\ OneNotificationPerKey'
      /\ outbox'[h] = r
      /\ \A i \in Rows \ {h} : outbox'[i] = outbox[i]
  BY <1>2, <1>3, RowWritten
<1>5. \A i \in Rows : outbox[i].attempts \in Nat
  <2>1. \A i \in Rows : outbox[i] \in Row
    BY <1>0 DEF TypeOK, Rows
  <2> QED
    BY <2>1 DEF Row
<1> HIDE DEF r
<1>6. ASSUME NEW i \in Rows
      PROVE  /\ outbox'[i].attempts \in Nat
             /\ outbox[i].attempts <= outbox'[i].attempts
             /\ outbox'[i].status = outbox[i].status
             /\ outbox'[i].due = outbox[i].due
  <2>1. CASE i = h
    BY <1>1, <1>3, <1>4, <1>5, <2>1
  <2>2. CASE i # h
    BY <1>4, <1>5, <2>2
  <2> QED
    BY <2>1, <2>2
<1> QED
  BY <1>1, <1>3, <1>4, <1>5, <1>6

\* A claim that fails, applied or not, and one that finds the row taken leave
\* the row to others.
LEMMA ClaimMissed ==
  ASSUME IInv, NEW d \in Drains, NextRow(d), batch[d] # None,
         UNCHANGED outbox \/ CountAttempt(d),
         UNCHANGED <<call, draining, delivered>>, faults' \in 0 .. MaxFaults
  PROVE  IInv'
<1>1. CASE UNCHANGED outbox
  BY <1>1, RowDone
<1>2. CASE CountAttempt(d)
  <2>1. TypeOK'
    BY <1>2, Counted, BatchShrinks DEF IInv, TypeOK, BatchOK
  <2>2. \A e \in Drains : \/ at'[e] \notin Holding
                          \/ at'[e] = at[e] /\ batch'[e] = batch[e]
    BY BatchShrinks DEF IInv, Holding
  <2>3. \A i \in Rows : outbox'[i].attempts >= outbox[i].attempts
    BY <1>2, Counted
  <2>4. OneNotificationPerKey' /\ Rows \subseteq Rows'
    BY <1>2, Counted
  <2> QED
    BY <2>1, <2>2, <2>3, <2>4, Frame
<1> QED
  BY <1>1, <1>2

LEMMA ClaimIInv ==
  ASSUME IInv, NEW d \in Drains, Claim(d)
  PROVE  IInv'
<1>0. TypeOK /\ batch[d] # None /\ UNCHANGED <<call, draining, delivered, faults>>
  BY DEF IInv, Claim
<1>1. CASE NextRow(d) /\ UNCHANGED outbox
  BY <1>0, <1>1, ClaimMissed DEF TypeOK
<1>2. CASE CountAttempt(d) /\ Go(d, "send") /\ UNCHANGED batch
  <2> DEFINE h == InHand(d)
             n == Attempt(d)
  <2>1. /\ h \in Rows /\ n \in Nat /\ n = outbox[h].attempts + 1
        /\ outbox[h].attempts \in Nat
    BY <1>0, <1>2, Counted
  <2>2. UNCHANGED batch /\ Go(d, "send")
    BY <1>2
  <2>4. /\ outbox' \in Seq(Row) /\ Rows' = Rows /\ OneNotificationPerKey'
        /\ outbox'[h].attempts = n
        /\ \A i \in Rows \ {h} : outbox'[i] = outbox[i]
    BY <1>0, <1>2, Counted
  <2>5. /\ at' \in [Drains -> Stage] /\ at'[d] = "send"
        /\ \A e \in Drains \ {d} : at'[e] = at[e]
    BY <1>0, <2>2 DEF TypeOK, Go, Stage
  <2>6. TypeOK'
    BY <1>0, <2>2, <2>4, <2>5 DEF TypeOK
  <2>7. HoldsARow'
    BY <1>0, <2>2, <2>5 DEF IInv, HoldsARow
  <2>8. \A e \in Drains : InHand(e)' = InHand(e) /\ Attempt(e)' = Attempt(e)
    BY <2>2 DEF InHand, Attempt
  <2>9. \A e \in Drains \ {d} : at'[e] \in Holding =>
          /\ InHand(e) \in Rows /\ Attempt(e) \in Nat
          /\ Attempt(e) <= outbox[InHand(e)].attempts
    BY <2>5, InHandInBatch DEF IInv, HoldsARow, AttemptsCounted
  <2>10. \A i \in Rows : /\ outbox[i].attempts \in Nat
                         /\ outbox'[i].attempts \in Nat
                         /\ outbox[i].attempts <= outbox'[i].attempts
    BY <1>0, <1>2, Counted
  <2>11. AttemptsCounted'
    <3>1. ASSUME NEW i \in Rows', NEW m \in Nat, <<i, m>> \in delivered'
          PROVE  m <= outbox'[i].attempts
      <4>1. i \in Rows /\ m <= outbox[i].attempts
        BY <1>0, <2>4, <3>1 DEF IInv, AttemptsCounted
      <4> QED
        BY <4>1, <2>10
    <3>2. ASSUME NEW e \in Drains, at'[e] \in Holding
          PROVE  Attempt(e)' <= outbox'[InHand(e)'].attempts
      <4>1. CASE e = d
        BY <4>1, <2>1, <2>4, <2>8
      <4>2. CASE e # d
        <5>1. InHand(e) \in Rows /\ Attempt(e) \in Nat
              /\ Attempt(e) <= outbox[InHand(e)].attempts
          BY <3>2, <4>2, <2>9
        <5> QED
          BY <5>1, <2>8, <2>10
      <4> QED
        BY <4>1, <4>2
    <3> QED
      BY <3>1, <3>2 DEF AttemptsCounted
  <2>12. EveryAttemptClaimedOnce'
    <3>1. <<h, n>> \notin delivered
      BY <2>1 DEF IInv, AttemptsCounted
    <3>2. \A e \in Drains \ {d} : at'[e] = "send" => <<InHand(e), Attempt(e)>> # <<h, n>>
      BY <2>1, <2>9 DEF Holding
    <3> QED
      BY <1>0, <2>5, <2>8, <3>1, <3>2 DEF IInv, EveryAttemptClaimedOnce
  <2> QED
    BY <2>4, <2>6, <2>7, <2>11, <2>12 DEF IInv
<1> QED
  BY <1>1, <1>2 DEF Claim

\* The mail server has answered, or the answer is taken for a failure: the
\* drain keeps its row, and the send it may have made is its own attempt.
LEMMA AnswerIInv ==
  ASSUME IInv, NEW d \in Drains, at[d] \in {"send", "accepted"},
         NEW stage \in {"accepted", "deferred", "rejected"}, Go(d, stage),
         UNCHANGED <<call, draining, batch>>, faults' \in 0 .. MaxFaults,
         outbox' \in Seq(Row), Rows' = Rows, OneNotificationPerKey',
         \A i \in Rows : outbox'[i].attempts = outbox[i].attempts,
         \/ UNCHANGED delivered
         \/ at[d] = "send" /\ Deliver(d)
  PROVE  IInv'
<1>0. TypeOK /\ batch[d] # None
  BY DEF IInv, HoldsARow, Holding
<1>1. InHand(d) \in Rows /\ Attempt(d) \in Nat
  BY <1>0, InHandInBatch
<1>2. delivered' \subseteq delivered \union {<<InHand(d), Attempt(d)>>}
  BY DEF Deliver
<1>3. /\ at' \in [Drains -> Stage] /\ at'[d] = stage
      /\ \A e \in Drains \ {d} : at'[e] = at[e]
  BY <1>0 DEF TypeOK, Go, Stage
<1>4. \A e \in Drains : InHand(e)' = InHand(e) /\ Attempt(e)' = Attempt(e)
  BY DEF InHand, Attempt
<1>5. TypeOK'
  BY <1>0, <1>1, <1>2, <1>3 DEF TypeOK
<1>6. HoldsARow'
  BY <1>0, <1>3 DEF IInv, HoldsARow
<1>7. \A e \in Drains : at'[e] \in Holding => at[e] \in Holding
  BY <1>3 DEF Holding
<1>8. AttemptsCounted'
  <2>1. \A e \in Drains : at'[e] \in Holding =>
          Attempt(e)' <= outbox'[InHand(e)'].attempts
    <3>1. \A e \in Drains : at'[e] \in Holding => InHand(e) \in Rows
      BY <1>0, <1>7, InHandInBatch DEF IInv, HoldsARow
    <3> QED
      BY <1>4, <1>7, <3>1 DEF IInv, AttemptsCounted
  <2>2. Attempt(d) <= outbox[InHand(d)].attempts
    BY DEF IInv, AttemptsCounted, Holding
  <2>3. \A i \in Rows, n \in Nat : <<i, n>> \in delivered' => n <= outbox[i].attempts
    BY <1>2, <2>2 DEF IInv, AttemptsCounted
  <2> QED
    BY <1>0, <2>1, <2>3 DEF AttemptsCounted
<1>9. EveryAttemptClaimedOnce'
  <2>1. ASSUME NEW e \in Drains, at'[e] = "send"
        PROVE  e # d /\ at[e] = "send" /\ <<InHand(e), Attempt(e)>> \notin delivered'
    <3>1. e # d /\ at[e] = "send"
      BY <1>3, <2>1
    <3>2. <<InHand(e), Attempt(e)>> \notin delivered
      BY <3>1 DEF IInv, EveryAttemptClaimedOnce
    <3>3. at[d] = "send" => <<InHand(e), Attempt(e)>> # <<InHand(d), Attempt(d)>>
      BY <3>1 DEF IInv, EveryAttemptClaimedOnce
    <3> QED
      BY <3>1, <3>2, <3>3 DEF Deliver
  <2> QED
    BY <1>4, <2>1 DEF IInv, EveryAttemptClaimedOnce
<1> QED
  BY <1>5, <1>6, <1>8, <1>9 DEF IInv

\* Whichever outcome is written, the row keeps its key and its count.
LEMMA OutcomeWritten ==
  ASSUME IInv, NEW d \in Drains, batch[d] # None,
         SetStatus(d, "SENT") \/ WriteFailure(d)
  PROVE  \E r \in Row : /\ r.key = outbox[InHand(d)].key
                        /\ r.attempts = outbox[InHand(d)].attempts
                        /\ outbox' = [outbox EXCEPT ![InHand(d)] = r]
<1> DEFINE written(s, due) == [outbox EXCEPT ![InHand(d)] =
                                [outbox[InHand(d)] EXCEPT !.status = s, !.due = due]]
<1>1. outbox[InHand(d)] \in Row
  BY RowTyped DEF IInv
<1>2. PICK s \in Status, due \in BOOLEAN : outbox' = written(s, due)
  <2>1. CASE \E s \in {"SENT", "FAILED"} : SetStatus(d, s)
    <3>1. PICK s \in {"SENT", "FAILED"} : outbox' = written(s, TRUE)
      BY <2>1 DEF SetStatus
    <3> QED
      BY <3>1 DEF Status
  <2>2. CASE outbox' = [outbox EXCEPT ![InHand(d)].due = FALSE]
    <3>1. outbox' = written(outbox[InHand(d)].status, FALSE)
      BY <1>1, <2>2 DEF Row
    <3> QED
      BY <1>1, <3>1 DEF Row
  <2> QED
    BY <2>1, <2>2 DEF WriteFailure
<1> DEFINE r == [outbox[InHand(d)] EXCEPT !.status = s, !.due = due]
<1>3. r \in Row /\ r.key = outbox[InHand(d)].key
      /\ r.attempts = outbox[InHand(d)].attempts
  BY <1>1 DEF Row
<1> QED
  BY <1>2, <1>3

\* The update to SENT fails, applied or not: the drain keeps the row and takes the
\* email for one that did not go out.
LEMMA SentUnheardIInv ==
  ASSUME IInv, NEW d \in Drains, at[d] = "accepted", Go(d, "deferred"),
         UNCHANGED outbox \/ SetStatus(d, "SENT"),
         UNCHANGED <<call, draining, batch, delivered>>, faults' \in 0 .. MaxFaults
  PROVE  IInv'
<1>1. batch[d] # None
  BY DEF IInv, HoldsARow, Holding
<1>2. CASE UNCHANGED outbox
  BY <1>2, AnswerIInv DEF IInv, TypeOK, OneNotificationPerKey, Rows
<1>3. CASE SetStatus(d, "SENT")
  <2>1. PICK r \in Row : /\ r.key = outbox[InHand(d)].key
                         /\ r.attempts = outbox[InHand(d)].attempts
                         /\ outbox' = [outbox EXCEPT ![InHand(d)] = r]
    BY <1>1, <1>3, OutcomeWritten
  <2>2. /\ outbox' \in Seq(Row) /\ Rows' = Rows /\ OneNotificationPerKey'
        /\ outbox'[InHand(d)] = r
        /\ \A i \in Rows \ {InHand(d)} : outbox'[i] = outbox[i]
    BY <1>1, <2>1, RowWritten
  <2>3. \A i \in Rows : outbox'[i].attempts = outbox[i].attempts
    BY <2>1, <2>2
  <2> QED
    BY <2>2, <2>3, AnswerIInv
<1> QED
  BY <1>2, <1>3

LEMMA DrainIInv ==
  ASSUME IInv, NEW d \in Drains, Dispatch(d) \/ DatabaseError(d)
  PROVE  IInv'
<1>0. TypeOK /\ (at[d] \in Holding => batch[d] # None)
  BY DEF IInv, HoldsARow
<1>1. faults \in 0 .. MaxFaults /\ (Fault => faults' \in 0 .. MaxFaults)
  BY <1>0, OutboxAssumption DEF TypeOK, Fault
<1>2. ASSUME NEW stage \in {"idle", "query", "claim"}, Go(d, stage),
             UNCHANGED <<call, outbox, delivered>>, draining' \subseteq Processes,
             faults' \in 0 .. MaxFaults,
             \A e \in Drains : BatchOK(batch'[e]),
             batch' = [e \in Drains |-> batch'[e]],
             \A e \in Drains \ {d} : batch'[e] = batch[e]
      PROVE  IInv'
  <2>1. Rows' = Rows /\ OneNotificationPerKey'
    BY <1>2 DEF IInv, OneNotificationPerKey, Rows
  <2>2. /\ at' \in [Drains -> Stage] /\ at'[d] = stage
        /\ \A e \in Drains \ {d} : at'[e] = at[e]
    BY <1>0, <1>2 DEF TypeOK, Go, Stage
  <2>3. TypeOK'
    BY <1>0, <1>2, <2>1, <2>2 DEF TypeOK, BatchOK
  <2>4. \A e \in Drains : \/ at'[e] \notin Holding
                          \/ at'[e] = at[e] /\ batch'[e] = batch[e]
    BY <1>2, <2>2 DEF Holding
  <2> QED
    BY <1>2, <2>1, <2>3, <2>4, Frame
<1>3. batch = [e \in Drains |-> batch[e]] /\ \A e \in Drains : BatchOK(batch[e])
  BY <1>0 DEF TypeOK, BatchOK
<1>4. ProcessOf[d] \in Processes
  BY OutboxAssumption
<1>5. CASE Start(d)
  BY <1>0, <1>1, <1>2, <1>3, <1>4, <1>5 DEF Start, TypeOK
<1>6. CASE Query(d)
  <2> DEFINE read == [i \in Oldest |-> outbox[i].attempts]
  <2>1. BatchOK(read)
    <3>1. Oldest \subseteq Rows
      BY DEF Oldest, Due
    <3>2. \A i \in Rows : outbox[i] \in Row
      BY <1>0 DEF TypeOK, Rows
    <3>3. \A i \in Oldest : outbox[i].attempts \in Nat
      BY <3>1, <3>2 DEF Row
    <3> QED
      BY <3>1, <3>3 DEF BatchOK
  <2>2. batch' = [e \in Drains |-> IF e = d THEN read ELSE batch[e]]
    BY <1>3, <1>6 DEF Query
  <2>3. \A e \in Drains : batch'[e] = IF e = d THEN read ELSE batch[e]
    BY <2>2
  <2>4. batch' = [e \in Drains |-> batch'[e]]
    BY <2>2
  <2>5. \A e \in Drains : BatchOK(batch'[e])
    BY <1>3, <2>1, <2>3
  <2> QED
    BY <1>0, <1>1, <1>2, <1>6, <2>3, <2>4, <2>5 DEF Query, TypeOK
<1>7. CASE Claim(d)
  BY <1>7, ClaimIInv
<1>8. CASE Send(d)
  <2>1. /\ outbox' \in Seq(Row) /\ Rows' = Rows /\ OneNotificationPerKey'
        /\ \A i \in Rows : outbox'[i].attempts = outbox[i].attempts
    BY <1>0, <1>8 DEF Send, TypeOK, IInv, OneNotificationPerKey, Rows
  <2> QED
    BY <1>1, <1>8, <2>1, AnswerIInv DEF Send
<1>9. CASE MarkSent(d) \/ MarkFailure(d)
  <2>1. batch[d] # None /\ NextRow(d) /\ UNCHANGED <<call, draining, delivered, faults>>
    BY <1>0, <1>9 DEF MarkSent, MarkFailure, Holding
  <2> QED
    BY <1>1, <1>9, <2>1, OutcomeWritten, RowDone DEF MarkSent, MarkFailure
<1>10. CASE Finish(d)
  BY <1>0, <1>1, <1>2, <1>3, <1>10 DEF Finish, LowerFlag, TypeOK
<1>11. CASE DatabaseError(d)
  <2>1. CASE at[d] = "query" /\ LowerFlag(d) /\ UNCHANGED batch
    BY <1>0, <1>1, <1>2, <1>3, <1>11, <2>1 DEF DatabaseError, LowerFlag, TypeOK
  <2>2. CASE /\ at[d] = "accepted" /\ Go(d, "deferred") /\ UNCHANGED <<batch, draining>>
             /\ UNCHANGED outbox \/ SetStatus(d, "SENT")
    BY <1>1, <1>11, <2>2, SentUnheardIInv DEF DatabaseError
  <2>3. CASE /\ NextRow(d) /\ batch[d] # None /\ UNCHANGED draining
             /\ UNCHANGED outbox \/ CountAttempt(d)
    BY <1>1, <1>11, <2>3, ClaimMissed DEF DatabaseError
  <2>4. CASE /\ NextRow(d) /\ batch[d] # None /\ UNCHANGED draining
             /\ UNCHANGED outbox \/ WriteFailure(d)
    BY <1>1, <1>11, <2>4, OutcomeWritten, RowDone DEF DatabaseError
  <2> QED
    BY <1>0, <1>11, <2>1, <2>2, <2>3, <2>4 DEF DatabaseError, Holding
<1> QED
  BY <1>5, <1>6, <1>7, <1>8, <1>9, <1>10, <1>11 DEF Dispatch

LEMMA NextIInv == IInv /\ [Next]_vars => IInv'
<1> SUFFICES ASSUME IInv, [Next]_vars PROVE IInv'
  OBVIOUS
<1>0. TypeOK
  BY DEF IInv
<1>1. CASE Elapse
  <2>1. PICK i \in Rows : outbox' = [outbox EXCEPT ![i].due = TRUE]
    BY <1>1 DEF Elapse
  <2>2. outbox[i] \in Row /\ outbox \in Seq(Row)
    BY <1>0 DEF TypeOK, Rows
  <2>3. outbox' = [outbox EXCEPT ![i] = [outbox[i] EXCEPT !.due = TRUE]]
    BY <2>1
  <2>4. [outbox[i] EXCEPT !.due = TRUE] \in Row
    BY <2>2 DEF Row
  <2>5. outbox' \in Seq(Row) /\ Rows' = Rows
    BY <2>2, <2>3, <2>4 DEF Rows
  <2>6. \A j \in Rows : /\ outbox'[j].attempts = outbox[j].attempts
                        /\ outbox'[j].key = outbox[j].key
    BY <2>2, <2>3 DEF Rows, Row
  <2>7. TypeOK' /\ OneNotificationPerKey'
    BY <1>0, <1>1, <2>5, <2>6 DEF Elapse, TypeOK, IInv, OneNotificationPerKey
  <2> QED
    BY <1>1, <2>5, <2>6, <2>7, Frame DEF Elapse
<1>2. ASSUME NEW p \in Processes, Crash(p) PROVE IInv'
  <2>1. Rows' = Rows /\ UNCHANGED <<outbox, delivered>>
    BY <1>2 DEF Crash, Rows
  <2>2. None \in [{} -> Nat] /\ DOMAIN None = {}
    BY DEF None
  <2>3. batch' = [d \in Drains |-> IF ProcessOf[d] = p THEN None ELSE batch[d]]
    BY <1>2 DEF Crash
  <2>4. \A d \in Drains : BatchOK(batch'[d])
    BY <1>0, <2>2, <2>3 DEF TypeOK, BatchOK
  <2>5. batch' = [d \in Drains |-> batch'[d]]
    BY <2>3
  <2>6. at' \in [Drains -> Stage]
    BY <1>0, <1>2 DEF Crash, TypeOK, Stage
  <2>7. call' \in [Calls -> {"new", "rendered", "raised", "duplicate", "lost"}]
    BY <1>0, <1>2 DEF Crash, TypeOK
  <2>8. faults' \in 0 .. MaxFaults /\ draining' \subseteq Processes
    BY <1>0, <1>2, OutboxAssumption DEF Crash, Fault, TypeOK
  <2>9. TypeOK' /\ OneNotificationPerKey'
    BY <1>0, <2>1, <2>4, <2>5, <2>6, <2>7, <2>8
    DEF TypeOK, BatchOK, IInv, OneNotificationPerKey
  <2>10. \A d \in Drains : \/ at'[d] \notin Holding
                           \/ at'[d] = at[d] /\ batch'[d] = batch[d]
    BY <1>2, <2>3 DEF Crash, Holding
  <2> QED
    BY <2>1, <2>9, <2>10, Frame
<1>3. CASE UNCHANGED vars
  <2>1. TypeOK' /\ OneNotificationPerKey' /\ Rows' = Rows
    BY <1>0, <1>3 DEF vars, TypeOK, IInv, OneNotificationPerKey, Rows
  <2> QED
    BY <1>3, <2>1, Frame DEF vars
<1> QED
  BY <1>1, <1>2, <1>3, NotifyIInv, DrainIInv DEF Next

THEOREM InvariantHolds == Spec => []IInv
<1> QED
  BY InitIInv, NextIInv, PTL DEF Spec

\* Every variable keeps its type.
THEOREM TypeCorrect == Spec => []TypeOK
<1>1. IInv => TypeOK
  BY DEF IInv
<1> QED
  BY <1>1, InvariantHolds, PTL

\* notify() may be called any number of times, by any number of requests and
\* processes: a key raises one notification.
THEOREM OneNotification == Spec => []OneNotificationPerKey
<1>1. IInv => OneNotificationPerKey
  BY DEF IInv
<1> QED
  BY <1>1, InvariantHolds, PTL

\* The claim holds what it can: no attempt is made by two drains, nor again
\* after a crash, whatever the number of processes.
THEOREM AttemptsClaimedOnce == Spec => []EveryAttemptClaimedOnce
<1>1. IInv => EveryAttemptClaimedOnce
  BY DEF IInv
<1> QED
  BY <1>1, InvariantHolds, PTL
-----------------------------------------------------------------------------
(***************************************************************************)
(* One process, any number of drains.  The flag leaves one of them awake,  *)
(* so that the row it holds stays as it claimed it.  Every send that was   *)
(* accepted is then paid for: by the row's SENT, by the drain that is      *)
(* about to write it, or by a fault.  With two processes all of this fails. *)
(* A row in hand may be SENT already, by an update whose answer was lost.  *)
(***************************************************************************)

OneDispatcher == \A p, q \in Processes : p = q

FlagRaised == \A d \in Drains : at[d] # "idle" => ProcessOf[d] \in draining
OneAwake == \A d, e \in Drains : at[d] # "idle" /\ at[e] # "idle" => d = e
\* The row in hand was written SENT, and the drain did not hear of it.
SentUnheard(d) == at[d] = "deferred" /\ outbox[InHand(d)].status = "SENT" /\ faults > 0
HeldIsPending ==
  \A d \in Drains : at[d] \in Holding =>
    outbox[InHand(d)].status = "PENDING" \/ SentUnheard(d)
SkippedUntried == \A i \in Rows : outbox[i].status = "SKIPPED" => outbox[i].attempts = 0
ClosedIsDue ==
  \A i \in Rows : outbox[i].status # "PENDING" =>
    outbox[i].due \/ (outbox[i].status = "SENT" /\ faults > 0)
SentWasAccepted == \A i \in Rows : outbox[i].status = "SENT" => Tries(i) > 0
AcceptedIsDelivered ==
  \A d \in Drains : at[d] = "accepted" => <<InHand(d), Attempt(d)>> \in delivered

\* The one send of a row that no fault has to answer for.
Written(i) ==
  \/ /\ outbox[i].status = "SENT"
     /\ \A d \in Drains : at[d] = "deferred" => InHand(d) # i
  \/ \E d \in Drains : at[d] = "accepted" /\ InHand(d) = i
SendsPaidFor == \A i \in Rows : Tries(i) <= faults + (IF Written(i) THEN 1 ELSE 0)

Settled == /\ HeldIsPending /\ SkippedUntried /\ ClosedIsDue
           /\ SentWasAccepted /\ AcceptedIsDelivered /\ SendsPaidFor

SInv == IInv /\ FlagRaised /\ OneAwake /\ Settled

LEMMA TriesType ==
  ASSUME TypeOK, NEW i \in Rows
  PROVE  /\ outbox[i] \in Row /\ outbox[i].attempts \in Nat
         /\ IsFiniteSet({n \in 1 .. outbox[i].attempts : <<i, n>> \in delivered})
         /\ Tries(i) \in Nat
<1>0. outbox[i] \in Row
  BY DEF TypeOK, Rows
<1>1. outbox[i] \in Row /\ outbox[i].attempts \in Nat
  BY <1>0 DEF Row
<1>2. IsFiniteSet(1 .. outbox[i].attempts)
  BY <1>1, FS_Interval
<1>3. IsFiniteSet({n \in 1 .. outbox[i].attempts : <<i, n>> \in delivered})
  BY <1>2, FS_Subset
<1> QED
  BY <1>1, <1>3, FS_CardinalityType DEF Tries

\* A send is counted once, at the row and under the number it was claimed for.
LEMMA TriesDelivered ==
  ASSUME TypeOK, NEW h \in Rows, NEW n \in 1 .. outbox[h].attempts,
         UNCHANGED outbox, delivered' = delivered \union {<<h, n>>}
  PROVE  /\ Tries(h)' \in Nat /\ Tries(h)' <= Tries(h) + 1
         /\ \A i \in Rows : i # h => Tries(i)' = Tries(i)
<1> DEFINE sends == {m \in 1 .. outbox[h].attempts : <<h, m>> \in delivered}
<1>1. IsFiniteSet(sends) /\ Tries(h) = Cardinality(sends) /\ Tries(h) \in Nat
  BY TriesType DEF Tries
<1>2. Tries(h)' = Cardinality(sends \union {n})
  BY DEF Tries
<1>3. Cardinality(sends \union {n}) \in {Cardinality(sends), Cardinality(sends) + 1}
  BY <1>1, FS_AddElement
<1> HIDE DEF sends
<1>4. Tries(h)' \in Nat /\ Tries(h)' <= Tries(h) + 1
  BY <1>1, <1>2, <1>3
<1> QED
  BY <1>4 DEF Tries

LEMMA OneOfTheTries ==
  ASSUME TypeOK, NEW i \in Rows, NEW n \in 1 .. outbox[i].attempts, <<i, n>> \in delivered
  PROVE  Tries(i) > 0
<1> DEFINE sends == {m \in 1 .. outbox[i].attempts : <<i, m>> \in delivered}
<1>1. IsFiniteSet(sends) /\ Tries(i) = Cardinality(sends) /\ Tries(i) \in Nat
  BY TriesType DEF Tries
<1>2. sends # {}
  <2>1. n \in sends
    OBVIOUS
  <2> QED
    BY <2>1
<1> HIDE DEF sends
<1>3. Cardinality(sends) # 0
  BY <1>1, <1>2, FS_EmptySet
<1> QED
  BY <1>1, <1>3

\* The attempt of a drain that holds a row is one of those claimed on it.
LEMMA HeldAttempt ==
  ASSUME IInv, NEW d \in Drains, at[d] \in Holding
  PROVE  InHand(d) \in Rows /\ Attempt(d) \in 1 .. outbox[InHand(d)].attempts
<1>1. TypeOK /\ batch[d] # None /\ Attempt(d) <= outbox[InHand(d)].attempts
  BY DEF IInv, HoldsARow, AttemptsCounted
<1>2. InHand(d) \in Rows /\ batch[d][InHand(d)] \in Nat
  BY <1>1, InHandInBatch
<1>3. outbox[InHand(d)].attempts \in Nat
  BY <1>1, <1>2, TriesType
<1> QED
  BY <1>1, <1>2, <1>3 DEF Attempt

\* Who is awake, and with what flag.
LEMMA AwakeStep ==
  ASSUME OneDispatcher, SInv, [Next]_vars
  PROVE  FlagRaised' /\ OneAwake'
<1>0. TypeOK /\ FlagRaised /\ OneAwake
  BY DEF SInv, IInv
<1>p. \A d, e \in Drains : ProcessOf[d] = ProcessOf[e]
  BY OutboxAssumption DEF OneDispatcher
<1>1. ASSUME NEW d \in Drains, Start(d) PROVE FlagRaised' /\ OneAwake'
  <2>1. \A e \in Drains : at[e] = "idle"
    BY <1>0, <1>1, <1>p DEF Start, FlagRaised
  <2> QED
    BY <1>0, <1>1, <2>1 DEF Start, Go, TypeOK, FlagRaised, OneAwake
<1>2. ASSUME NEW d \in Drains, LowerFlag(d), at[d] # "idle"
      PROVE  FlagRaised' /\ OneAwake'
  BY <1>0, <1>2 DEF LowerFlag, Go, TypeOK, FlagRaised, OneAwake
<1>3. ASSUME NEW d \in Drains, NEW stage, at[d] # "idle", Go(d, stage), UNCHANGED draining
      PROVE  FlagRaised' /\ OneAwake'
  BY <1>0, <1>3 DEF Go, TypeOK, FlagRaised, OneAwake
<1>4. ASSUME NEW d \in Drains, Dispatch(d) \/ DatabaseError(d)
      PROVE  FlagRaised' /\ OneAwake'
  <2>1. CASE Start(d)
    BY <1>1, <2>1
  <2>2. CASE Finish(d)
    BY <1>2, <2>2 DEF Finish
  <2>3. CASE Query(d)
    BY <1>3, <2>3 DEF Query
  <2>4. CASE Claim(d)
    BY <1>3, <2>4 DEF Claim, NextRow
  <2>5. CASE Send(d)
    BY <1>3, <2>5 DEF Send
  <2>6. CASE MarkSent(d)
    BY <1>3, <2>6 DEF MarkSent, NextRow
  <2>7. CASE MarkFailure(d)
    BY <1>3, <2>7 DEF MarkFailure, NextRow
  <2>8. CASE DatabaseError(d)
    BY <1>2, <1>3, <2>8 DEF DatabaseError, NextRow
  <2> QED
    BY <1>4, <2>1, <2>2, <2>3, <2>4, <2>5, <2>6, <2>7, <2>8 DEF Dispatch
<1>5. ASSUME NEW p \in Processes, Crash(p) PROVE FlagRaised' /\ OneAwake'
  <2>1. \A d \in Drains : at'[d] = IF ProcessOf[d] = p THEN "idle" ELSE at[d]
    BY <1>5 DEF Crash
  <2> QED
    BY <1>0, <1>5, <2>1 DEF Crash, FlagRaised, OneAwake
<1>6. ASSUME UNCHANGED <<at, draining>> PROVE FlagRaised' /\ OneAwake'
  BY <1>0, <1>6 DEF FlagRaised, OneAwake
<1> QED
  BY <1>4, <1>5, <1>6 DEF Next, Notify, FindRecipient, Raise, Elapse, vars

\* Nothing is sent, no row changes its status or its count, and whoever drops an
\* answer that was accepted has met with a fault.
LEMMA Undisturbed ==
  ASSUME SInv, IInv', delivered' = delivered, faults' >= faults, Rows \subseteq Rows',
         \A i \in Rows : /\ outbox'[i].status = outbox[i].status
                         /\ outbox'[i].attempts = outbox[i].attempts
                         /\ outbox[i].status # "PENDING" =>
                              \/ outbox'[i].due
                              \/ outbox[i].status = "SENT" /\ faults > 0,
         \A i \in Rows' \ Rows : /\ outbox'[i].status \in {"PENDING", "SKIPPED"}
                                 /\ outbox'[i].attempts = 0 /\ outbox'[i].due,
         \A d \in Drains :
           \/ at'[d] \notin Holding /\ (at[d] = "accepted" => faults' > faults)
           \/ /\ batch'[d] = batch[d]
              /\ at'[d] = at[d] \/ (at[d] = "accepted" /\ at'[d] = "deferred" /\ faults' > faults)
  PROVE  Settled'
<1>0. TypeOK /\ TypeOK' /\ faults \in Nat /\ faults' \in Nat
  BY OutboxAssumption DEF SInv, IInv, TypeOK
<1>1. \A i \in Rows : Tries(i)' = Tries(i) /\ Tries(i) \in Nat
  BY <1>0, TriesType DEF Tries
<1>2. ASSUME NEW i \in Rows', i \notin Rows PROVE Tries(i)' = 0
  <2>1. {n \in 1 .. outbox'[i].attempts : <<i, n>> \in delivered'} = {}
    BY <1>2
  <2> QED
    BY <2>1, FS_EmptySet DEF Tries
<1>3. ASSUME NEW d \in Drains, at'[d] \in Holding
      PROVE  /\ at[d] \in Holding /\ InHand(d) \in Rows
             /\ InHand(d)' = InHand(d) /\ Attempt(d)' = Attempt(d)
             /\ at'[d] = "accepted" => at[d] = "accepted"
             /\ at'[d] # at[d] => at[d] = "accepted" /\ faults' > faults
  <2>1. /\ at[d] \in Holding /\ batch'[d] = batch[d]
        /\ at'[d] = "accepted" => at[d] = "accepted"
        /\ at'[d] # at[d] => at[d] = "accepted" /\ faults' > faults
    BY <1>3 DEF Holding
  <2>2. InHand(d) \in Rows
    BY <2>1, HeldAttempt DEF SInv
  <2> QED
    BY <2>1, <2>2 DEF InHand, Attempt
<1>4. HeldIsPending' /\ AcceptedIsDelivered'
  <2>1. ASSUME NEW d \in Drains, at'[d] \in Holding
        PROVE  outbox'[InHand(d)'].status = "PENDING" \/ SentUnheard(d)'
    <3>1. outbox[InHand(d)].status = "PENDING" \/ SentUnheard(d)
      BY <1>3, <2>1 DEF SInv, Settled, HeldIsPending
    <3>2. CASE SentUnheard(d)
      BY <1>0, <1>3, <2>1, <3>2 DEF SentUnheard
    <3> QED
      BY <1>3, <2>1, <3>1, <3>2
  <2>2. \A d \in Drains : at'[d] = "accepted" => <<InHand(d)', Attempt(d)'>> \in delivered'
    BY <1>3 DEF SInv, Settled, AcceptedIsDelivered, Holding
  <2> QED
    BY <2>1, <2>2 DEF HeldIsPending, AcceptedIsDelivered
<1>5. SkippedUntried' /\ ClosedIsDue'
  <2>1. \A i \in Rows' : outbox'[i].status = "SKIPPED" => outbox'[i].attempts = 0
    BY DEF SInv, Settled, SkippedUntried
  <2>2. \A i \in Rows' : outbox'[i].status # "PENDING" =>
          outbox'[i].due \/ (outbox'[i].status = "SENT" /\ faults' > 0)
    BY <1>0
  <2> QED
    BY <2>1, <2>2 DEF SkippedUntried, ClosedIsDue
<1>6. SentWasAccepted'
  <2>1. \A i \in Rows' : outbox'[i].status = "SENT" => i \in Rows /\ Tries(i)' > 0
    BY <1>1 DEF SInv, Settled, SentWasAccepted
  <2> QED
    BY <2>1 DEF SentWasAccepted
<1>7. SendsPaidFor'
  <2>1. ASSUME NEW i \in Rows', i \in Rows
        PROVE  Tries(i)' <= faults' + (IF Written(i)' THEN 1 ELSE 0)
    <3>1. Tries(i) <= faults + (IF Written(i) THEN 1 ELSE 0)
      BY <2>1 DEF SInv, Settled, SendsPaidFor
    <3>2. Written(i) => Written(i)' \/ faults' > faults
      <4>1. CASE /\ outbox[i].status = "SENT"
                 /\ \A d \in Drains : at[d] = "deferred" => InHand(d) # i
        <5>1. ASSUME NEW d \in Drains, at'[d] = "deferred", InHand(d)' = i
              PROVE  faults' > faults
          BY <1>3, <4>1, <5>1 DEF Holding
        <5> QED
          BY <2>1, <4>1, <5>1 DEF Written
      <4>2. ASSUME NEW d \in Drains, at[d] = "accepted", InHand(d) = i
            PROVE  Written(i)' \/ faults' > faults
        <5>1. CASE at'[d] = "accepted"
          BY <1>3, <4>2, <5>1 DEF Written, Holding
        <5>2. CASE at'[d] # "accepted"
          BY <4>2, <5>2
        <5> QED
          BY <5>1, <5>2
      <4> QED
        BY <4>1, <4>2 DEF Written
    <3> HIDE DEF Written
    <3> QED
      BY <1>0, <1>1, <2>1, <3>1, <3>2
  <2>2. ASSUME NEW i \in Rows', i \notin Rows
        PROVE  Tries(i)' <= faults' + (IF Written(i)' THEN 1 ELSE 0)
    BY <1>0, <1>2, <2>2
  <2> QED
    BY <2>1, <2>2 DEF SendsPaidFor
<1> QED
  BY <1>4, <1>5, <1>6, <1>7 DEF Settled

\* While one drain is awake, the others hold nothing.
LEMMA OthersIdle ==
  ASSUME SInv, NEW d \in Drains, at[d] # "idle"
  PROVE  \A e \in Drains : e # d => at[e] = "idle"
  BY DEF SInv, OneAwake

\* A number that is claimed has not been sent under, whether the drain goes on to
\* send or has not heard of its claim.
LEMMA CountedSettled ==
  ASSUME SInv, IInv', NEW d \in Drains, at[d] = "claim", batch[d] # None, CountAttempt(d),
         delivered' = delivered, faults' >= faults,
         \/ at'[d] = "claim"
         \/ at'[d] = "send" /\ batch'[d] = batch[d],
         \A e \in Drains \ {d} : at'[e] = at[e]
  PROVE  Settled'
<1> DEFINE h == InHand(d)
           n == Attempt(d)
<1>0. /\ TypeOK /\ TypeOK' /\ Rows \subseteq Nat
      /\ faults \in Nat /\ faults' \in Nat
  BY OutboxAssumption DEF SInv, IInv, TypeOK, Rows
<1>1. h \in Rows /\ outbox[h].status = "PENDING"
      /\ n = outbox[h].attempts + 1 /\ outbox[h].attempts \in Nat
  BY Counted DEF SInv, CountAttempt, Claimable
<1>2. /\ Rows' = Rows /\ outbox'[h].attempts = n
      /\ \A i \in Rows : i # h => outbox'[i] = outbox[i]
      /\ \A i \in Rows : /\ outbox'[i].status = outbox[i].status
                         /\ outbox'[i].due = outbox[i].due
  BY Counted DEF SInv
<1>3. \A e \in Drains : e # d => at'[e] = "idle" /\ at[e] = "idle"
  BY OthersIdle
<1>4. at'[d] = "send" => InHand(d)' = InHand(d)
  BY DEF InHand
<1>5. <<h, n>> \notin delivered
  BY <1>1 DEF SInv, IInv, AttemptsCounted
<1>6. ASSUME NEW i \in Rows PROVE Tries(i)' = Tries(i)
  <2>1. CASE i = h
    <3>1. 1 .. n = 1 .. outbox[h].attempts \union {n}
      BY <1>1
    <3>2. {m \in 1 .. n : <<h, m>> \in delivered}
            = {m \in 1 .. outbox[h].attempts : <<h, m>> \in delivered}
      BY <1>5, <3>1
    <3> QED
      BY <1>2, <2>1, <3>2 DEF Tries
  <2>2. CASE i # h
    BY <1>2, <2>2 DEF Tries
  <2> QED
    BY <2>1, <2>2
<1>7. \A i \in Rows : Written(i)' = Written(i)
  BY <1>2, <1>3 DEF Written
<1>8. HeldIsPending' /\ AcceptedIsDelivered'
  BY <1>1, <1>2, <1>3, <1>4 DEF HeldIsPending, AcceptedIsDelivered, Holding
<1>9. SkippedUntried' /\ ClosedIsDue'
  BY <1>0, <1>1, <1>2 DEF SInv, Settled, SkippedUntried, ClosedIsDue
<1>10. SentWasAccepted'
  BY <1>2, <1>6 DEF SInv, Settled, SentWasAccepted
<1>11. SendsPaidFor'
  <2>1. ASSUME NEW i \in Rows
        PROVE  Tries(i)' <= faults' + (IF Written(i)' THEN 1 ELSE 0)
    <3>1. Tries(i) \in Nat /\ Tries(i) <= faults + (IF Written(i) THEN 1 ELSE 0)
      BY <1>0, TriesType DEF SInv, Settled, SendsPaidFor
    <3> HIDE DEF Written
    <3> QED
      BY <1>0, <1>6, <1>7, <3>1
  <2> QED
    BY <1>2, <2>1 DEF SendsPaidFor
<1> QED
  BY <1>8, <1>9, <1>10, <1>11 DEF Settled

\* The drain leaves a row it has not heard an answer for as it is.
LEMMA LeftSettled ==
  ASSUME SInv, IInv', NEW d \in Drains, NextRow(d), UNCHANGED <<outbox, delivered>>,
         faults' >= faults, at[d] = "accepted" => faults' > faults
  PROVE  Settled'
<1>1. /\ at'[d] = "claim"
      /\ \A e \in Drains \ {d} : at'[e] = at[e] /\ batch'[e] = batch[e]
  BY BatchShrinks DEF SInv, IInv
<1>2. \A i \in Rows : outbox[i].status # "PENDING" =>
        outbox'[i].due \/ (outbox[i].status = "SENT" /\ faults > 0)
  BY DEF SInv, Settled, ClosedIsDue
<1>3. ASSUME NEW e \in Drains
      PROVE  \/ at'[e] \notin Holding /\ (at[e] = "accepted" => faults' > faults)
             \/ at'[e] = at[e] /\ batch'[e] = batch[e]
  <2>1. CASE e = d
    BY <1>1, <2>1 DEF Holding
  <2>2. CASE e # d
    BY <1>1, <2>2
  <2> QED
    BY <2>1, <2>2
<1>4. Rows' = Rows
  BY DEF Rows
<1> QED
  BY <1>2, <1>3, <1>4, Undisturbed

LEMMA ClaimSettled ==
  ASSUME SInv, IInv', NEW d \in Drains, Claim(d)
  PROVE  Settled'
<1>0. /\ TypeOK /\ batch[d] # None /\ at[d] = "claim"
      /\ UNCHANGED <<delivered, faults>> /\ faults' >= faults
  BY OutboxAssumption DEF SInv, IInv, TypeOK, Claim
<1>1. CASE NextRow(d) /\ UNCHANGED outbox
  BY <1>0, <1>1, LeftSettled
<1>2. CASE CountAttempt(d) /\ Go(d, "send") /\ UNCHANGED batch
  <2>1. at'[d] = "send" /\ batch'[d] = batch[d] /\ \A e \in Drains \ {d} : at'[e] = at[e]
    BY <1>0, <1>2 DEF Go, TypeOK
  <2> QED
    BY <1>0, <1>2, <2>1, CountedSettled
<1> QED
  BY <1>1, <1>2 DEF Claim

\* What the mail server takes is in the hand of the drain, or cost a fault.
LEMMA SendSettled ==
  ASSUME SInv, IInv', NEW d \in Drains, Send(d)
  PROVE  Settled'
<1>0. /\ TypeOK /\ TypeOK' /\ at[d] = "send" /\ UNCHANGED <<outbox, batch>> /\ Rows' = Rows
      /\ faults \in Nat /\ faults' \in Nat
  BY OutboxAssumption DEF SInv, IInv, TypeOK, Send, Rows
<1>1. PICK h \in Rows, n \in Nat :
        /\ h = InHand(d) /\ n = Attempt(d)
        /\ n \in 1 .. outbox[h].attempts /\ outbox[h].status = "PENDING"
  BY <1>0, HeldAttempt DEF SInv, Settled, HeldIsPending, SentUnheard, Holding
<1>2. \A e \in Drains : e # d => at[e] = "idle" /\ at'[e] = "idle"
  BY <1>0, OthersIdle DEF Send, Go, TypeOK
<1>3. \A e \in Drains : InHand(e)' = InHand(e) /\ Attempt(e)' = Attempt(e)
  BY <1>0 DEF InHand, Attempt
<1>f. faults' >= faults
  BY <1>0 DEF Send, Fault
<1>4. HeldIsPending' /\ SkippedUntried' /\ ClosedIsDue'
  BY <1>0, <1>f, <1>1, <1>2, <1>3
  DEF SInv, Settled, HeldIsPending, SkippedUntried, ClosedIsDue, Holding
<1>5. \A i \in Rows : i # h => Written(i)' = Written(i)
  BY <1>0, <1>1, <1>2, <1>3 DEF Written
<1>6. ~Written(h)
  BY <1>0, <1>1, <1>2 DEF Written
<1>7. \A i \in Rows : Tries(i) \in Nat
                      /\ Tries(i) <= faults + (IF Written(i) THEN 1 ELSE 0)
                      /\ (outbox[i].status = "SENT" => Tries(i) > 0 /\ i # h)
  BY <1>0, <1>1, TriesType DEF SInv, Settled, SentWasAccepted, SendsPaidFor
<1>8. CASE UNCHANGED <<delivered, faults>> /\ at'[d] # "accepted"
  <2>1. \A i \in Rows : Tries(i)' = Tries(i)
    BY <1>0, <1>8 DEF Tries
  <2>2. ~Written(h)'
    BY <1>0, <1>1, <1>2, <1>8 DEF Written
  <2>3. AcceptedIsDelivered'
    BY <1>2, <1>8 DEF AcceptedIsDelivered
  <2>4. SentWasAccepted' /\ SendsPaidFor'
    BY <1>0, <1>5, <1>6, <1>7, <1>8, <2>1, <2>2 DEF SentWasAccepted, SendsPaidFor
  <2> QED
    BY <1>4, <2>3, <2>4 DEF Settled
<1>9. CASE Deliver(d) /\ \/ at'[d] = "accepted" /\ UNCHANGED faults
                         \/ at'[d] # "accepted" /\ faults' = faults + 1
  <2>1. /\ Tries(h)' \in Nat /\ Tries(h)' <= Tries(h) + 1
        /\ \A i \in Rows : i # h => Tries(i)' = Tries(i)
    BY <1>0, <1>1, <1>9, TriesDelivered DEF Deliver
  <2>2. at'[d] = "accepted" => Written(h)'
    BY <1>1, <1>3 DEF Written
  <2>3. AcceptedIsDelivered'
    BY <1>2, <1>3, <1>9 DEF AcceptedIsDelivered, Deliver
  <2>4. Tries(h)' <= faults' + (IF Written(h)' THEN 1 ELSE 0)
    <3> HIDE DEF Written
    <3> QED
      BY <1>0, <1>1, <1>6, <1>7, <1>9, <2>1, <2>2
  <2>5. \A i \in Rows : i # h => Tries(i)' <= faults' + (IF Written(i)' THEN 1 ELSE 0)
    <3> HIDE DEF Written
    <3> QED
      BY <1>0, <1>5, <1>7, <1>9, <2>1
  <2>6. SentWasAccepted' /\ SendsPaidFor'
    BY <1>0, <1>7, <2>1, <2>4, <2>5 DEF SentWasAccepted, SendsPaidFor
  <2> QED
    BY <1>4, <2>3, <2>6 DEF Settled
<1> QED
  BY <1>0, <1>8, <1>9 DEF Send, Go, Fault, TypeOK

\* The drain writes SENT for what was accepted, FAILED for what was not, or the
\* next attempt.
LEMMA MarkSettled ==
  ASSUME SInv, IInv', NEW d \in Drains, NextRow(d), delivered' = delivered,
         faults' >= faults,
         \/ at[d] = "accepted" /\ SetStatus(d, "SENT")
         \/ at[d] \in {"deferred", "rejected"} /\ WriteFailure(d)
  PROVE  Settled'
<1> DEFINE h == InHand(d)
<1>0. /\ TypeOK /\ TypeOK' /\ at[d] \in Holding /\ at[d] # "idle" /\ batch[d] # None
      /\ faults \in Nat /\ faults' \in Nat
  BY OutboxAssumption DEF SInv, IInv, HoldsARow, TypeOK, Holding
<1>1. /\ h \in Rows /\ Attempt(d) \in 1 .. outbox[h].attempts /\ outbox[h] \in Row
      /\ outbox[h].status = "PENDING" \/ SentUnheard(d)
  BY <1>0, HeldAttempt, TriesType DEF SInv, Settled, HeldIsPending
<1>2. /\ at'[d] = "claim"
      /\ \A e \in Drains : e # d => /\ at[e] = "idle" /\ at'[e] = "idle"
                                    /\ batch'[e] = batch[e]
  BY <1>0, OthersIdle, BatchShrinks
<1>3. CASE \E s \in {"SENT", "FAILED"} :
             SetStatus(d, s) /\ (s = "SENT" <=> at[d] = "accepted")
  <2>1. PICK s \in {"SENT", "FAILED"} :
          SetStatus(d, s) /\ (s = "SENT" <=> at[d] = "accepted")
    BY <1>3
  <2> DEFINE r == [outbox[h] EXCEPT !.status = s, !.due = TRUE]
  <2>2. /\ r \in Row /\ r.key = outbox[h].key /\ r.status = s /\ r.due
        /\ r.attempts = outbox[h].attempts /\ outbox' = [outbox EXCEPT ![h] = r]
    BY <1>1, <2>1 DEF SetStatus, Row, Status
  <2>3. /\ Rows' = Rows /\ \A i \in Rows : i # h => outbox'[i] = outbox[i]
        /\ outbox'[h] = r
    BY <1>0, <2>2, RowWritten DEF SInv
  <2>4. outbox'[h].status = s /\ outbox'[h].due /\ outbox'[h].attempts = outbox[h].attempts
    BY <2>2, <2>3
  <2> HIDE DEF r
  <2>5. ASSUME NEW i \in Rows PROVE Tries(i)' = Tries(i)
    <3>1. outbox'[i].attempts = outbox[i].attempts
      BY <2>3, <2>4
    <3> QED
      BY <1>0, <3>1 DEF Tries
  <2>6. ASSUME NEW i \in Rows PROVE Written(i)' <=> Written(i)
    <3>1. CASE i = h
      BY <1>1, <1>2, <2>1, <2>4, <3>1 DEF Written, SentUnheard
    <3>2. CASE i # h
      BY <1>2, <2>3, <3>2 DEF Written
    <3> QED
      BY <3>1, <3>2
  <2>7. s = "SENT" => Tries(h) > 0
    BY <1>0, <1>1, <2>1, OneOfTheTries DEF SInv, Settled, AcceptedIsDelivered
  <2>8. HeldIsPending' /\ AcceptedIsDelivered'
    BY <1>2 DEF HeldIsPending, AcceptedIsDelivered, Holding
  <2>9. SkippedUntried' /\ ClosedIsDue'
    BY <1>0, <2>1, <2>3, <2>4 DEF SInv, Settled, SkippedUntried, ClosedIsDue
  <2>10. SentWasAccepted'
    BY <2>1, <2>3, <2>4, <2>5, <2>7 DEF SInv, Settled, SentWasAccepted
  <2>11. SendsPaidFor'
    <3>1. ASSUME NEW i \in Rows
          PROVE  Tries(i)' <= faults' + (IF Written(i)' THEN 1 ELSE 0)
      <4>1. Tries(i) \in Nat /\ Tries(i) <= faults + (IF Written(i) THEN 1 ELSE 0)
        BY <1>0, TriesType DEF SInv, Settled, SendsPaidFor
      <4> HIDE DEF Written
      <4> QED
        BY <1>0, <2>5, <2>6, <4>1
    <3> QED
      BY <2>3, <3>1 DEF SendsPaidFor
  <2> QED
    BY <2>8, <2>9, <2>10, <2>11 DEF Settled
<1>4. CASE at[d] # "accepted" /\ outbox' = [outbox EXCEPT ![h].due = FALSE]
  <2> DEFINE r == [outbox[h] EXCEPT !.due = FALSE]
  <2>0. /\ r \in Row /\ r.key = outbox[h].key /\ r.status = outbox[h].status
        /\ r.attempts = outbox[h].attempts /\ outbox' = [outbox EXCEPT ![h] = r]
    BY <1>1, <1>4 DEF Row
  <2>1. /\ Rows' = Rows /\ \A i \in Rows : i # h => outbox'[i] = outbox[i]
        /\ outbox'[h] = r
    BY <1>0, <2>0, RowWritten DEF SInv
  <2> HIDE DEF r
  <2>2. \A i \in Rows : /\ outbox'[i].status = outbox[i].status
                        /\ outbox'[i].attempts = outbox[i].attempts
                        /\ outbox[i].status # "PENDING" =>
                             \/ outbox'[i].due
                             \/ outbox[i].status = "SENT" /\ faults > 0
    BY <1>1, <2>0, <2>1 DEF SInv, Settled, ClosedIsDue, SentUnheard
  <2>3. \A e \in Drains : \/ at'[e] \notin Holding /\ at[e] # "accepted"
                          \/ at'[e] = at[e] /\ batch'[e] = batch[e]
    BY <1>2, <1>4 DEF Holding
  <2> QED
    BY <1>0, <2>1, <2>2, <2>3, Undisturbed
<1> QED
  BY <1>3, <1>4 DEF WriteFailure

\* The update to SENT fails: either way a fault pays for the email.
LEMMA UnheardSettled ==
  ASSUME SInv, IInv', NEW d \in Drains, at[d] = "accepted", Go(d, "deferred"),
         UNCHANGED <<batch, delivered>>, faults' = faults + 1, SetStatus(d, "SENT")
  PROVE  Settled'
<1> DEFINE h == InHand(d)
<1>0. /\ TypeOK /\ TypeOK' /\ batch[d] # None /\ faults \in Nat /\ faults' \in Nat
  BY OutboxAssumption DEF SInv, IInv, HoldsARow, TypeOK, Holding
<1>1. h \in Rows /\ Attempt(d) \in 1 .. outbox[h].attempts /\ outbox[h] \in Row
  BY <1>0, HeldAttempt, TriesType DEF SInv, Holding
<1>2. at'[d] = "deferred" /\ \A e \in Drains : e # d => at[e] = "idle" /\ at'[e] = "idle"
  BY <1>0, OthersIdle DEF Go, TypeOK
<1> DEFINE r == [outbox[h] EXCEPT !.status = "SENT", !.due = TRUE]
<1>3. /\ r \in Row /\ r.key = outbox[h].key /\ r.status = "SENT" /\ r.due
      /\ r.attempts = outbox[h].attempts /\ outbox' = [outbox EXCEPT ![h] = r]
  BY <1>1 DEF SetStatus, Row, Status
<1>4. /\ Rows' = Rows /\ \A i \in Rows : i # h => outbox'[i] = outbox[i]
      /\ outbox'[h] = r
  BY <1>0, <1>3, RowWritten DEF SInv
<1> HIDE DEF r
<1>5. \A i \in Rows : Tries(i)' = Tries(i)
  BY <1>3, <1>4 DEF Tries
<1>6. Tries(h) > 0
  BY <1>0, <1>1, OneOfTheTries DEF SInv, Settled, AcceptedIsDelivered
<1>7. InHand(d)' = h
  BY DEF InHand
<1>8. HeldIsPending' /\ AcceptedIsDelivered'
  BY <1>0, <1>2, <1>3, <1>4, <1>7
  DEF HeldIsPending, SentUnheard, AcceptedIsDelivered, Holding
<1>9. SkippedUntried' /\ ClosedIsDue'
  BY <1>0, <1>3, <1>4 DEF SInv, Settled, SkippedUntried, ClosedIsDue
<1>10. SentWasAccepted'
  BY <1>3, <1>4, <1>5, <1>6 DEF SInv, Settled, SentWasAccepted
<1>11. SendsPaidFor'
  <2>1. ASSUME NEW i \in Rows
        PROVE  Tries(i)' <= faults' + (IF Written(i)' THEN 1 ELSE 0)
    <3>1. Tries(i) \in Nat /\ Tries(i) <= faults + (IF Written(i) THEN 1 ELSE 0)
      BY <1>0, TriesType DEF SInv, Settled, SendsPaidFor
    <3> HIDE DEF Written
    <3> QED
      BY <1>0, <1>5, <3>1
  <2> QED
    BY <1>4, <2>1 DEF SendsPaidFor
<1> QED
  BY <1>8, <1>9, <1>10, <1>11 DEF Settled

LEMMA SettledStep ==
  ASSUME OneDispatcher, SInv, [Next]_vars
  PROVE  SInv'
<1>0. IInv' /\ FlagRaised' /\ OneAwake' /\ TypeOK /\ TypeOK'
  BY NextIInv, AwakeStep DEF SInv, IInv
<1>f. faults \in Nat /\ ClosedIsDue
  BY <1>0, OutboxAssumption DEF TypeOK, SInv, Settled
<1>1. ASSUME UNCHANGED <<outbox, delivered>>, faults' >= faults,
             \A d \in Drains :
               \/ at'[d] \notin Holding /\ (at[d] = "accepted" => faults' > faults)
               \/ /\ batch'[d] = batch[d]
                  /\ at'[d] = at[d]
                       \/ (at[d] = "accepted" /\ at'[d] = "deferred" /\ faults' > faults)
      PROVE  Settled'
  <2>1. Rows' = Rows
    BY <1>1 DEF Rows
  <2> QED
    BY <1>0, <1>1, <1>f, <2>1, Undisturbed DEF ClosedIsDue
<1>2. ASSUME NEW c \in Calls, Notify(c) PROVE Settled'
  <2>1. UNCHANGED <<at, batch, delivered, faults>>
    BY <1>2 DEF Notify, FindRecipient, Raise
  <2>2. CASE UNCHANGED outbox
    BY <1>1, <1>f, <2>1, <2>2
  <2>3. ASSUME NEW first \in {"PENDING", "SKIPPED"},
               outbox' = Append(outbox, [key |-> KeyOf[c], status |-> first,
                                         attempts |-> 0, due |-> TRUE])
        PROVE  Settled'
    <3> DEFINE r == [key |-> KeyOf[c], status |-> first, attempts |-> 0, due |-> TRUE]
    <3>1. Len(outbox) \in Nat /\ Len(outbox') = Len(outbox) + 1
          /\ (\A i \in Rows : outbox'[i] = outbox[i]) /\ outbox'[Len(outbox) + 1] = r
      BY <1>0, <2>3 DEF TypeOK, Rows
    <3>2. Rows \subseteq Rows' /\ \A i \in Rows' \ Rows : i = Len(outbox) + 1
      BY <3>1 DEF Rows
    <3>3. \A i \in Rows' \ Rows : /\ outbox'[i].status \in {"PENDING", "SKIPPED"}
                                  /\ outbox'[i].attempts = 0 /\ outbox'[i].due
      BY <3>1, <3>2
    <3>4. \A i \in Rows : /\ outbox'[i].status = outbox[i].status
                          /\ outbox'[i].attempts = outbox[i].attempts
                          /\ outbox[i].status # "PENDING" =>
                               \/ outbox'[i].due
                               \/ outbox[i].status = "SENT" /\ faults > 0
      BY <1>f, <3>1 DEF ClosedIsDue
    <3> QED
      BY <1>0, <1>f, <2>1, <3>2, <3>3, <3>4, Undisturbed
  <2> QED
    BY <1>2, <2>2, <2>3 DEF Notify, FindRecipient, Raise
<1>3. ASSUME NEW d \in Drains, Dispatch(d) \/ DatabaseError(d) PROVE Settled'
  <2>1. CASE Claim(d)
    BY <1>0, <2>1, ClaimSettled
  <2>2. CASE Send(d)
    BY <1>0, <2>2, SendSettled
  <2>3. CASE MarkSent(d) \/ MarkFailure(d)
    BY <1>0, <1>f, <2>3, MarkSettled DEF MarkSent, MarkFailure
  <2>4. CASE Start(d) \/ Query(d) \/ Finish(d)
    <3>1. /\ at[d] # "accepted" /\ at'[d] \notin Holding
          /\ UNCHANGED <<outbox, delivered, faults>>
          /\ \A e \in Drains : e # d => at'[e] = at[e] /\ batch'[e] = batch[e]
      BY <1>0, <2>4 DEF Start, Query, Finish, LowerFlag, Go, TypeOK, Holding
    <3> QED
      BY <1>1, <1>f, <3>1
  <2>5. CASE DatabaseError(d)
    <3>1. delivered' = delivered /\ faults' = faults + 1 /\ faults' > faults
          /\ faults' >= faults
      BY <1>f, <2>5 DEF DatabaseError, Fault
    <3>2. CASE at[d] = "query" /\ LowerFlag(d) /\ UNCHANGED <<outbox, batch>>
      <4>1. at'[d] \notin Holding /\ \A e \in Drains : e # d => at'[e] = at[e]
        BY <1>0, <3>2 DEF LowerFlag, Go, TypeOK, Holding
      <4> QED
        BY <1>1, <1>f, <3>1, <3>2, <4>1
    <3>3. CASE /\ at[d] = "accepted" /\ Go(d, "deferred") /\ UNCHANGED batch
               /\ UNCHANGED outbox
      <4>1. at'[d] = "deferred" /\ \A e \in Drains : e # d => at'[e] = at[e]
        BY <1>0, <3>3 DEF Go, TypeOK
      <4> QED
        BY <1>1, <1>f, <3>1, <3>3, <4>1
    <3>4. CASE /\ at[d] = "accepted" /\ Go(d, "deferred") /\ UNCHANGED batch
               /\ SetStatus(d, "SENT")
      BY <1>0, <3>1, <3>4, UnheardSettled
    <3>5. CASE NextRow(d) /\ UNCHANGED outbox
      BY <1>0, <3>1, <3>5, LeftSettled
    <3>6. CASE at[d] = "claim" /\ batch[d] # None /\ CountAttempt(d) /\ NextRow(d)
      <4>1. at'[d] = "claim" /\ \A e \in Drains \ {d} : at'[e] = at[e]
        BY <1>0, <3>6, BatchShrinks
      <4> QED
        BY <1>0, <3>1, <3>6, <4>1, CountedSettled
    <3>7. CASE at[d] \in {"deferred", "rejected"} /\ WriteFailure(d) /\ NextRow(d)
      BY <1>0, <3>1, <3>7, MarkSettled
    <3> QED
      BY <2>5, <3>2, <3>3, <3>4, <3>5, <3>6, <3>7 DEF DatabaseError
  <2> QED
    BY <1>3, <2>1, <2>2, <2>3, <2>4, <2>5 DEF Dispatch
<1>4. ASSUME Elapse PROVE Settled'
  <2>1. PICK j \in Rows : outbox' = [outbox EXCEPT ![j].due = TRUE]
    BY <1>4 DEF Elapse
  <2>2. outbox \in Seq(Row) /\ outbox[j] \in Row
    BY <1>0, TriesType DEF TypeOK
  <2> DEFINE r == [outbox[j] EXCEPT !.due = TRUE]
  <2>3. /\ r \in Row /\ r.due /\ r.status = outbox[j].status
        /\ r.attempts = outbox[j].attempts /\ outbox' = [outbox EXCEPT ![j] = r]
    BY <2>1, <2>2 DEF Row
  <2> HIDE DEF r
  <2>4. Rows' = Rows /\ outbox'[j] = r /\ \A i \in Rows : i # j => outbox'[i] = outbox[i]
    BY <2>2, <2>3 DEF Rows
  <2>5. \A i \in Rows : /\ outbox'[i].status = outbox[i].status
                        /\ outbox'[i].attempts = outbox[i].attempts
                        /\ outbox[i].status # "PENDING" =>
                             \/ outbox'[i].due
                             \/ outbox[i].status = "SENT" /\ faults > 0
    BY <1>f, <2>3, <2>4 DEF ClosedIsDue
  <2> QED
    BY <1>0, <1>4, <1>f, <2>4, <2>5, Undisturbed DEF Elapse
<1>5. ASSUME NEW p \in Processes, Crash(p) PROVE Settled'
  <2>1. /\ UNCHANGED <<outbox, delivered>> /\ faults' = faults + 1
        /\ \A d \in Drains : at'[d] = "idle"
    BY <1>5, OutboxAssumption DEF Crash, Fault, OneDispatcher
  <2> QED
    BY <1>1, <1>f, <2>1 DEF Holding
<1>6. ASSUME UNCHANGED vars PROVE Settled'
  BY <1>1, <1>6, <1>f DEF vars
<1> QED
  BY <1>0, <1>2, <1>3, <1>4, <1>5, <1>6 DEF Next, SInv

LEMMA InitSInv == Init => SInv
<1> SUFFICES ASSUME Init PROVE SInv
  OBVIOUS
<1>1. Rows = {} /\ \A d \in Drains : at[d] = "idle"
  BY DEF Init, Rows
<1> QED
  BY <1>1, InitIInv
  DEF SInv, Settled, FlagRaised, OneAwake, HeldIsPending, SkippedUntried, ClosedIsDue,
      SentWasAccepted, AcceptedIsDelivered, SendsPaidFor, Holding

THEOREM OneProcessSettles == OneDispatcher => (Spec => []SInv)
<1> SUFFICES ASSUME OneDispatcher PROVE Spec => []SInv
  OBVIOUS
<1> QED
  BY InitSInv, SettledStep, PTL DEF Spec

\* Within one process an email goes out once, and once more for each crash, lost
\* answer or failed update at most.
THEOREM DuplicatesAreFaults == OneDispatcher => (Spec => []DuplicatesNeedAFault)
<1>1. SInv => DuplicatesNeedAFault
  <2> SUFFICES ASSUME SInv, NEW i \in Rows PROVE Tries(i) <= 1 + faults
    BY DEF DuplicatesNeedAFault
  <2>0. TypeOK
    BY DEF SInv, IInv
  <2>1. Tries(i) \in Nat
    BY <2>0, TriesType
  <2>2. faults \in Nat
    BY <2>0, OutboxAssumption DEF TypeOK
  <2> QED
    BY <2>1, <2>2 DEF SInv, Settled, SendsPaidFor
<1> QED
  BY <1>1, OneProcessSettles, PTL

\* What a row says of its email is true, whatever failed on the way.
THEOREM StatusIsTrue == OneDispatcher => (Spec => []StatusTellsTheTruth)
<1>1. SInv => StatusTellsTheTruth
  <2> SUFFICES ASSUME SInv, NEW i \in Rows
               PROVE  /\ outbox[i].status = "SENT" => Tries(i) > 0
                      /\ outbox[i].status = "SKIPPED" => outbox[i].attempts = 0
                      /\ /\ outbox[i].status \in {"PENDING", "FAILED"}
                         /\ faults = 0
                         /\ \A d \in Drains : at[d] \in Holding => InHand(d) # i
                         => Tries(i) = 0
    BY DEF StatusTellsTheTruth
  <2>1. Tries(i) \in Nat
    BY TriesType DEF SInv, IInv
  <2>2. ASSUME outbox[i].status \in {"PENDING", "FAILED"}, faults = 0,
               \A d \in Drains : at[d] \in Holding => InHand(d) # i
        PROVE  Tries(i) = 0
    <3>1. ~Written(i)
      BY <2>2 DEF Written, Holding
    <3> QED
      BY <2>1, <2>2, <3>1 DEF SInv, Settled, SendsPaidFor
  <2> QED
    BY <2>2 DEF SInv, Settled, SentWasAccepted, SkippedUntried
<1> QED
  BY <1>1, OneProcessSettles, PTL

\* Rewriting one row leaves the others.
LEMMA OtherRowsKept ==
  ASSUME outbox \in Seq(Row), NEW i \in Rows, NEW j, j # i, NEW r,
         outbox' = [outbox EXCEPT ![j] = r]
  PROVE  outbox'[i] = outbox[i]
BY DEF Rows

\* The row a step may write, whoever takes it: one of a drain's, while it holds
\* it or claims it, or one whose back-off elapses.
LEMMA RowsTouched ==
  ASSUME IInv, [Next]_vars, NEW i \in Rows, outbox'[i] # outbox[i]
  PROVE  \/ \E d \in Drains : i = InHand(d) /\ outbox[i].status = "PENDING"
         \/ \E d \in Drains : /\ i = InHand(d) /\ at[d] \in Holding
                              /\ outbox'[i].attempts = outbox[i].attempts
                              /\ outbox'[i].status \in {"SENT", "FAILED", outbox[i].status}
         \/ /\ ~outbox[i].due /\ outbox'[i].attempts = outbox[i].attempts
            /\ outbox'[i].status = outbox[i].status
<1>0. outbox \in Seq(Row) /\ outbox[i] \in Row
  BY DEF IInv, TypeOK, Rows
<1>1. ASSUME NEW c \in Calls, Notify(c) PROVE FALSE
  <2>1. ASSUME NEW r, outbox' = Append(outbox, r) PROVE outbox'[i] = outbox[i]
    BY <1>0, <2>1 DEF Rows
  <2> QED
    BY <1>1, <2>1 DEF Notify, FindRecipient, Raise
<1>2. ASSUME NEW d \in Drains, CountAttempt(d)
      PROVE  i = InHand(d) /\ outbox[i].status = "PENDING"
  <2> DEFINE h == InHand(d)
             r == [outbox[h] EXCEPT !.attempts = Attempt(d)]
  <2>1. outbox' = [outbox EXCEPT ![h] = r] /\ outbox[h].status = "PENDING"
    BY <1>2 DEF CountAttempt, Claimable
  <2> HIDE DEF h, r
  <2>2. h = i
    BY <1>0, <2>1, OtherRowsKept
  <2> QED
    BY <2>1, <2>2 DEF h
<1>3. ASSUME NEW d \in Drains, at[d] \in Holding, SetStatus(d, "SENT") \/ WriteFailure(d)
      PROVE  /\ i = InHand(d) /\ outbox'[i].attempts = outbox[i].attempts
             /\ outbox'[i].status \in {"SENT", "FAILED", outbox[i].status}
  <2> DEFINE h == InHand(d)
             closed(s) == [outbox[h] EXCEPT !.status = s, !.due = TRUE]
             deferred == [outbox[h] EXCEPT !.due = FALSE]
  <2>1. PICK r \in {closed("SENT"), closed("FAILED"), deferred} :
          outbox' = [outbox EXCEPT ![h] = r]
    BY <1>3 DEF SetStatus, WriteFailure
  <2>2. h = i
    <3> HIDE DEF h, closed, deferred
    <3> QED
      BY <1>0, <2>1, OtherRowsKept
  <2>3. outbox'[i] = r
    BY <1>0, <2>1, <2>2 DEF Rows
  <2>4. r.attempts = outbox[i].attempts /\ r.status \in {"SENT", "FAILED", outbox[i].status}
    BY <1>0, <2>1, <2>2 DEF Row
  <2> QED
    BY <2>2, <2>3, <2>4
<1>4. ASSUME Elapse
      PROVE  /\ ~outbox[i].due /\ outbox'[i].attempts = outbox[i].attempts
             /\ outbox'[i].status = outbox[i].status
  <2>1. PICK j \in Rows : ~outbox[j].due /\ outbox' = [outbox EXCEPT ![j].due = TRUE]
    BY <1>4 DEF Elapse
  <2>2. j = i
    BY <1>0, <2>1
  <2>3. outbox'[i] = [outbox[i] EXCEPT !.due = TRUE]
    <3> DEFINE r == [outbox[i] EXCEPT !.due = TRUE]
    <3>1. outbox' = [outbox EXCEPT ![i] = r]
      BY <2>1, <2>2
    <3> HIDE DEF r
    <3>2. outbox'[i] = r
      BY <1>0, <3>1 DEF Rows
    <3> QED
      BY <3>2 DEF r
  <2> QED
    BY <1>0, <2>1, <2>2, <2>3 DEF Row
<1> QED
  BY <1>1, <1>2, <1>3, <1>4
  DEF Next, Dispatch, Start, Query, Claim, Send, MarkSent, MarkFailure, Finish,
      DatabaseError, Crash, vars, Holding

\* A row that is closed is not taken up again, by however many processes; in one
\* process its outcome is rewritten only where an update to SENT went unheard.
THEOREM OutcomesStand == Spec => OutcomeIsFinal
<1> DEFINE Final(i) ==
      /\ outbox'[i].status \in {"SENT", "FAILED"}
      /\ outbox'[i].attempts = outbox[i].attempts
      /\ outbox'[i] # outbox[i] =>
           \/ \E p, q \in Processes : p # q
           \/ outbox[i].status = "SENT" /\ faults > 0
<1>1. ASSUME IInv, [Next]_vars, NEW i \in Rows, outbox[i].status \in {"SENT", "FAILED"},
             OneDispatcher => SInv
      PROVE  Final(i)
  <2>1. CASE outbox'[i] = outbox[i]
    BY <1>1, <2>1
  <2>2. CASE outbox'[i] # outbox[i]
    <3>1. /\ outbox'[i].status \in {"SENT", "FAILED"}
          /\ outbox'[i].attempts = outbox[i].attempts
          /\ ~outbox[i].due \/ \E d \in Drains : i = InHand(d) /\ at[d] \in Holding
      BY <1>1, <2>2, RowsTouched
    <3>2. ASSUME SInv PROVE outbox[i].status = "SENT" /\ faults > 0
      BY <1>1, <3>1, <3>2
      DEF SInv, Settled, HeldIsPending, SentUnheard, ClosedIsDue
    <3> QED
      BY <1>1, <3>1, <3>2 DEF OneDispatcher
  <2> QED
    BY <2>1, <2>2
<1>2. CASE OneDispatcher
  <2>1. IInv /\ SInv /\ [Next]_vars =>
          [\A i \in Rows : outbox[i].status \in {"SENT", "FAILED"} => Final(i)]_vars
    BY <1>1
  <2> QED
    BY <1>2, <2>1, InvariantHolds, OneProcessSettles, PTL DEF Spec, OutcomeIsFinal
<1>3. CASE ~OneDispatcher
  <2>1. IInv /\ [Next]_vars =>
          [\A i \in Rows : outbox[i].status \in {"SENT", "FAILED"} => Final(i)]_vars
    BY <1>1, <1>3
  <2> QED
    BY <2>1, InvariantHolds, PTL DEF Spec, OutcomeIsFinal
<1> QED
  BY <1>2, <1>3
=============================================================================
