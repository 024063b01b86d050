--------------------------- MODULE EmployeeRecords ---------------------------
(***************************************************************************)
(* One employee's record, edited on several pages at once: the edit page   *)
(* (employees/[id]/edit/page.tsx) over EmployeesService.update, and        *)
(* archive.                                                                *)
(*                                                                         *)
(* update() saves the personal fields and the job one after the other, not *)
(* in one transaction, and then answers with findOne, which looks at the   *)
(* employee through the caller's scope once more.  The page sends every    *)
(* field of its form, as it was when the page was loaded or as edited.     *)
(*                                                                         *)
(* A page whose fetch fails enables its form again.  The request it gave   *)
(* up on is not called back: its handler may still write, beside the retry *)
(* or after it.                                                            *)
(***************************************************************************)
EXTENDS Naturals

CONSTANTS
  Editors,     \* pages, each of somebody within whose scope the employee is
  Jobs,        \* what an assignment says: role, department, manager and terms
  Elsewhere,   \* the jobs that put the employee out of the editors' scope
  Lost,        \* bound: requests whose answer is lost
  Typed,       \* bound: of all values, those a form is submitted with
  MaxSubmits   \* bound: submits, of all the pages

\* effectiveFrom is today, as the form has it; the job at hand began before, or
\* today.
Today == 1

\* A field that must not be empty and is unique in the company, one that may be
\* empty, and one with a default in the form.
Values == [workEmail : {"own", "taken"}, phoneNumber : {"", "number"},
           status : {"ACTIVE", "PROBATION"}]
Fields == {"workEmail", "phoneNumber", "status"}

Stage == {"loading", "editing", "sent", "allowed", "job", "writeJob", "saved", "answered", "left"}

VARIABLES
  person,    \* the personal fields of the employee's row
  job,       \* the open assignment and the day it began
  archived,  \* deletedAt is set
  page,      \* the pages, each with the request it made last, and the lost requests
  submits

vars == <<person, job, archived, page, submits>>

\* Who a handler may serve: a page, or nobody any more.
Requests == Editors \union Lost

\* A page: its form, the fields typed in, whether another request saved anything
\* since it was loaded, the job change if one is recorded, and of the last
\* submit: whether another request saved anything since, what it wrote itself,
\* whether the answer could not be what it did, and whether the page shows an
\* error.  A lost request is the page as it was when the answer was lost.
Blank == [stage |-> "loading", personal |-> [workEmail |-> "", phoneNumber |-> "",
          status |-> "ACTIVE"], typed |-> {}, stale |-> FALSE, changingJob |-> FALSE,
          job |-> CHOOSE j \in Jobs : TRUE, read |-> 0, overtaken |-> FALSE,
          wrote |-> {}, excused |-> FALSE, error |-> FALSE]

Job == [is : Jobs, since : 0..Today]

TypeOK ==
  /\ person \in Values /\ job \in Job
  /\ archived \in BOOLEAN
  /\ page \in [Requests ->
       [stage : Stage, personal : Values \union {Blank.personal}, typed : SUBSET Fields,
        stale : BOOLEAN, changingJob : BOOLEAN, job : Jobs, read : 0..Today,
        overtaken : BOOLEAN, wrote : SUBSET {"personal", "job"}, excused : BOOLEAN, error : BOOLEAN]]
  /\ submits \in 0..MaxSubmits

Init ==
  /\ person \in {v \in Values : v.workEmail = "own"}
  /\ job \in {j \in Job : j.is \notin Elsewhere}
  /\ archived = FALSE
  /\ page = [p \in Requests |-> Blank]
  /\ submits = 0

Turn(p, with) == page' = [page EXCEPT ![p] = with]
Fail(p) == Turn(p, [page[p] EXCEPT !.stage = "answered", !.error = TRUE])

\* What request p has just saved, the other pages have not seen.
Save(p, what, next) ==
  page' = [q \in Requests |->
             IF q = p THEN [page[p] EXCEPT !.stage = next, !.wrote = @ \union {what}]
             ELSE IF page[q].stage = "loading" THEN page[q]
             ELSE [page[q] EXCEPT !.stale = TRUE, !.overtaken = TRUE]]

Visible == ~archived /\ job.is \notin Elsewhere
-----------------------------------------------------------------------------
(* The page *)

\* Mutant of Loaded: the status is not among what the form is filled with.
MutantLoaded == [person EXCEPT !.status = "ACTIVE"]

Loaded == person

\* The effect of the page: findOne, through the scope of employee:read.
Load(p) ==
  /\ page[p].stage = "loading" /\ Visible
  /\ Turn(p, [page[p] EXCEPT !.stage = "editing", !.personal = Loaded, !.job = job.is])
  /\ UNCHANGED <<person, job, archived, submits>>

\* handleSubmit, of a form with other values typed in and a job change recorded
\* or not; "required" and the type keep an email from being empty.  The button
\* is disabled until the answer.
Submit(p) ==
  /\ page[p].stage = "editing" /\ submits < MaxSubmits /\ submits' = submits + 1
  /\ \E v \in Values \intersect Typed, on \in BOOLEAN, j \in Jobs :
       /\ on \/ j = page[p].job
       /\ Turn(p, [page[p] EXCEPT
            !.stage = "sent", !.personal = v, !.changingJob = on, !.job = j,
            !.typed = @ \union {f \in Fields : v[f] # page[p].personal[f]},
            !.overtaken = FALSE, !.wrote = {}, !.excused = FALSE, !.error = FALSE])
  /\ UNCHANGED <<person, job, archived>>

\* The answer: the profile, or the form again with an error above it.
Answer(p) ==
  /\ page[p].stage = "answered"
  /\ Turn(p, [page[p] EXCEPT !.stage = IF page[p].error THEN "editing" ELSE "left"])
  /\ UNCHANGED <<person, job, archived, submits>>
-----------------------------------------------------------------------------
(* EmployeesService *)

\* canAccessEmployee, and the employee that must not be archived.
CheckAccess(p) ==
  /\ page[p].stage = "sent"
  /\ IF Visible THEN Turn(p, [page[p] EXCEPT !.stage = "allowed"]) ELSE Fail(p)
  /\ UNCHANGED <<person, job, archived, submits>>

\* "|| undefined": an empty field is not sent, and what is not sent stays.
Sent(p) == {f \in Fields : page[p].personal[f] # ""}

Merged(p) == [f \in Fields |-> IF f \in Sent(p) THEN page[p].personal[f] ELSE person[f]]

AfterPersonal(p) == IF page[p].changingJob THEN "job" ELSE "saved"

\* Mutant of WritePersonal: the email is a second update, after the rest.
MutantWritePersonalTwice(p) ==
  /\ page[p].stage = "allowed"
  /\ person' = [Merged(p) EXCEPT !.workEmail = IF @ = "taken" THEN person.workEmail ELSE @]
  /\ IF Merged(p).workEmail = "taken"
     THEN Turn(p, [page[p] EXCEPT !.stage = "answered", !.error = TRUE, !.wrote = {"personal"}])
     ELSE Save(p, "personal", AfterPersonal(p))
  /\ UNCHANGED <<job, archived, submits>>

\* One UPDATE by id, whatever has become of the row; P2002 is a 409.
WritePersonal(p) ==
  /\ page[p].stage = "allowed"
  /\ IF Merged(p).workEmail = "taken"
     THEN Fail(p) /\ UNCHANGED person
     ELSE Save(p, "personal", AfterPersonal(p)) /\ person' = Merged(p)
  /\ UNCHANGED <<job, archived, submits>>

\* Mutant of Differs: a date that cannot start an assignment is no change.
MutantDiffers(p) == page[p].job # job.is /\ Today > job.since

Differs(p) == page[p].job # job.is

\* assertReferencesExist and wouldCreateReportingCycle, which the records of
\* others decide, then changeAssignment up to its transaction.
ReadJob(p) ==
  /\ page[p].stage = "job"
  /\ \/ Fail(p)
     \/ ~Differs(p) /\ Turn(p, [page[p] EXCEPT !.stage = "saved"])
     \/ /\ Differs(p) /\ Today > job.since
        /\ Turn(p, [page[p] EXCEPT !.stage = "writeJob", !.read = job.since])
  /\ UNCHANGED <<person, job, archived, submits>>

\* The transaction of changeAssignment; with the open assignment replaced since
\* it was read, the index on open assignments refuses a second one.
WriteJob(p) ==
  /\ page[p].stage = "writeJob"
  /\ IF job.since = page[p].read
     THEN Save(p, "job", "saved") /\ job' = [is |-> page[p].job, since |-> Today]
     ELSE Fail(p) /\ UNCHANGED job
  /\ UNCHANGED <<person, archived, submits>>

\* findOne: an employee who is not to be seen any more is a 404.
FindOne(p) ==
  /\ page[p].stage = "saved"
  /\ Turn(p, [page[p] EXCEPT !.stage = "answered", !.error = ~Visible, !.excused = ~Visible])
  /\ UNCHANGED <<person, job, archived, submits>>

\* The answer is lost, and the page shows an error above its form. The handler
\* goes on, or it has died and takes none of the steps above.
Die(p, g) ==
  /\ page[p].stage \in {"sent", "allowed", "job", "writeJob", "saved"}
  /\ page[g].stage = "loading"
  /\ page' = [page EXCEPT ![g] = page[p],
                ![p] = [page[p] EXCEPT !.stage = "answered", !.error = TRUE, !.excused = TRUE]]
  /\ UNCHANGED <<person, job, archived, submits>>

Archive ==
  /\ ~archived /\ archived' = TRUE
  /\ UNCHANGED <<person, job, page, submits>>

Next ==
  \/ Archive
  \/ \E p \in Editors : Load(p) \/ Submit(p) \/ Answer(p) \/ \E g \in Lost : Die(p, g)
  \/ \E p \in Requests :
       CheckAccess(p) \/ WritePersonal(p) \/ ReadJob(p) \/ WriteJob(p) \/ FindOne(p)

Spec == Init /\ [][Next]_vars
-----------------------------------------------------------------------------
\* A save changes a field nobody typed in on its page only if another request
\* saved something since the page was loaded: its form is then older than the
\* record.
UntouchedStands ==
  [][\A p \in Requests : page[p].stage = "allowed" =>
       \A f \in Fields : page'[p].stage # "allowed" /\ person'[f] # person[f] =>
         f \in page[p].typed \/ page[p].stale]_vars

\* A page that is told its save succeeded and leaves for the profile has saved
\* what it showed, but for the fields left empty, unless another request has
\* saved since it was sent: one of another page, or one that this page gave up on.
SavedAsShown ==
  \A p \in Editors : page[p].stage = "left" /\ ~page[p].overtaken =>
    /\ \A f \in Fields : page[p].personal[f] # "" => person[f] = page[p].personal[f]
    /\ page[p].changingJob => job.is = page[p].job

\* An error above the form means that this submit did not change the job, and
\* that it saved the personal fields only if a job change came after them;
\* unless its answer was lost or the employee is out of the editor's sight, when
\* everything may have been saved, or may yet be.
ErrorsSayWhatHappened ==
  \A p \in Editors : page[p].error /\ ~page[p].excused =>
    /\ "job" \notin page[p].wrote
    /\ "personal" \in page[p].wrote => page[p].changingJob
=============================================================================
