-------------------------------- MODULE Pages --------------------------------
(***************************************************************************)
(* Three places of the portal whose calls overlap: the bell in the header, *)
(* the documents of a profile, and the edit page of an employee.           *)
(*                                                                         *)
(* They share no table and no React state, so a behaviour looks at one of  *)
(* them, "looking", and the others stay as they began.                     *)
(***************************************************************************)
EXTENDS Naturals, FiniteSets

CONSTANTS Calls, Notices, MaxClicks,
          Files, Confidential, Refused, MaxChanges,
          Editors, Lost, Typed, Jobs, Elsewhere, MaxSubmits, MaxFaults

ASSUME PagesAssumption ==
  /\ IsFiniteSet(Notices) /\ Calls # {}
  /\ Confidential \subseteq Files /\ Refused \subseteq Files
  /\ Elsewhere \subseteq Jobs /\ Jobs # {} /\ Editors \intersect Lost = {}
  /\ {MaxClicks, MaxChanges, MaxSubmits, MaxFaults} \subseteq Nat

VARIABLES
  looking,
  sent, readAt, open, data, unreadCount, busy, bellCall, clicks, bellFaults,
  stored, row, visible, cleared, documentCall, shown, uploading, removed, excused,
  changes, documentFaults,
  person, job, archived, page, submits

bell == <<sent, readAt, open, data, unreadCount, busy, bellCall, clicks, bellFaults>>
documents == <<stored, row, visible, cleared, documentCall, shown, uploading, removed,
               excused, changes, documentFaults>>
records == <<person, job, archived, page, submits>>
vars == <<looking, bell, documents, records>>

Bell == INSTANCE NotificationCentre WITH call <- bellCall, faults <- bellFaults
Section == INSTANCE Documents WITH call <- documentCall, faults <- documentFaults
Edit == INSTANCE EmployeeRecords

Places == {"bell", "documents", "edit"}

\* What is not looked at begins in one of its ways, and the employee on
\* probation, which is not the default of the form, and without a phone number,
\* which is one that a save can add and none can take away.
Init ==
  /\ looking \in Places
  /\ Bell!Init /\ Section!Init /\ Edit!Init
  /\ looking # "documents" => stored = {} /\ cleared
  /\ looking # "edit" => job.since = 0
  /\ person.status = "PROBATION" /\ person.phoneNumber = ""

AtBell == looking = "bell" /\ UNCHANGED <<looking, documents, records>>

LookAtBell == AtBell /\ Bell!Next
LookAtDocuments ==
  looking = "documents" /\ Section!Next /\ UNCHANGED <<looking, bell, records>>
LookAtEdit == looking = "edit" /\ Edit!Next /\ UNCHANGED <<looking, bell, documents>>

Next == LookAtBell \/ LookAtDocuments \/ LookAtEdit

\* Fairness of NotificationCentre, where the bell is what is looked at.
Fairness ==
  \A c \in Calls :
    /\ WF_vars(AtBell /\ Bell!Poll(c))
    /\ WF_vars(AtBell /\ Bell!Serve(c))

Spec == Init /\ [][Next]_vars /\ Fairness
-----------------------------------------------------------------------------
\* Every page and every call is in a state the code can put it in; above all,
\* the number on the bell is never below zero, however often a stale item of
\* the list is opened.
TypeOK == looking \in Places /\ Bell!TypeOK /\ Section!TypeOK /\ Edit!TypeOK

\* However answers overtake each other, calls are lost and stale items are
\* opened twice: once nothing new arrives, the number on the bell becomes and
\* stays that of the unread notifications, and "Mark all read" is usable.
BellSettles == looking = "bell" => Bell!BellSettles

\* Uploads, downloads and removals that overlap, die half way, or lose their
\* permission on the way: every row has its file, a file without a row is an
\* upload under way or one that died, a confidential file is answered only to a
\* request during which the person held document:read_confidential, and what
\* the section removed is not listed once nothing is under way, unless two lists
\* were under way together or one failed.
DocumentsKept ==
  /\ Section!FilesBehindRows /\ Section!OrphansNeedAFault
  /\ Section!ConfidentialKept /\ Section!RemovedIsGone

\* What the edit page is told is what happened, with two pages saving the same
\* employee and requests that go on after their page gave up on them: a success
\* has saved what the form showed, unless another request has saved since it was
\* sent; an error has not changed the job, unless the answer was lost.
EditorsAreTold == Edit!SavedAsShown /\ Edit!ErrorsSayWhatHappened

\* A save changes a field nobody typed in on its page only if another request
\* saved something since the page was loaded.
UntouchedStands == Edit!UntouchedStands
=============================================================================
