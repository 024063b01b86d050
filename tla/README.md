# A verification project for Velixa HR

TLA+ models of the parts of Velixa HR whose correctness depends on the order in
which things happen, TLC configurations that check them on small instances, and
TLAPS proofs of what matters most for instances of any size. Paths are relative
to the repository; `api` stands for `apps/api/src` and `web` for `apps/web/src`.

## 1. The system and its components

Velixa HR is a NestJS API over PostgreSQL (Prisma) with a Next.js front end. The
API is one Node process, in principle several: every request is a handler that
gives way at each `await`, and the only state shared between handlers is the
database, a few fields of singleton services and the file store. There is no
isolation beyond what a handler asks for: most handlers read, check what they
read and write by id, with no transaction around the whole.

| component | state | operations | what makes it correct |
|---|---|---|---|
| Leave requests (`api/leave/leave.service.ts`, `working-days.ts`) | `leave_requests`, `leave_balances`, the lock of an employee row | createRequest, decideRequest, cancelRequest, setBalance, getBalances, listRequests | nobody is booked twice for a day; the days given out fit the entitlement; a closed request stays closed; people hear only of what was committed |
| Connection pool (`api/prisma`, `submitUnderLock`) | connections, row locks, the waiting handlers | borrow, transaction, commit, roll back, time out | no starvation, no leak; "nothing was saved" is true |
| Policies and entitlement (`api/leave/leave-policy.service.ts`, `leave-types.service.ts`) | `leave_types`, `leave_type_policies` | create, update, archive, restore, createVersion, amendVersion, calculateEntitlement | one policy for each day; what was recorded stands; earlier years are not touched; rounding is bounded |
| Employment (`api/assignments`, `api/employees`) | `employment_assignments`, the copy of the job on `employees`, `deletedAt` | create, update, archive, changeAssignment, findDrift, getOrgChart | one assignment for each day; the copy agrees; no reporting cycle; the edit page is told what happened |
| Notification outbox (`api/notifications`) | `notifications`, `notification_deliveries`, the `draining` flag | notify, kick, drain | one notification an event; an email is sent or given up on; the row says which |
| Reading notifications (`api/notifications`, the bell in `web`) | `readAt`, the number and the list of a page | list, unreadCount, markRead, markAllRead, poll | the number on the bell settles on the truth |
| Approval routing and permissions (`api/permissions`, `resolveApprover`, the queue of `listRequests`) | access roles and grants, department heads, the reporting line | resolveScope, buildEmployeeScopeFilter, resolveApprover, findEmployeesWithPermissionAtScope | the queue shows what its owner may decide and follows the reporting line; nobody is asked about their own leave |
| Sessions (`api/auth`, `web/lib/api.ts`, `auth-provider.tsx`) | users, refresh tokens, cookies, the browser's refresh in flight | login, refresh, logout | a page's own concurrency never ends its session |
| Documents (`api/documents`, `api/storage`, `documents-section.tsx`) | `documents`, files on disk, the list of a page | list, upload, download, archive | a row always has its file; what is confidential stays so |
| Seeds (`apps/api/prisma/seed.ts`, `seed-data.ts`) | every table | one run, from the first upsert to the last | a run leaves the whole company, whatever was killed before it, and rewrites no history |
| Audit (`api/audit`) | `audit_logs` | record | an append that never fails its caller |
| Email templates, health, configuration, Redis, the other web pages | — | — | no protocol of their own |

How they interact. `createRequest` calls the policies (entitlement), the
permissions (HR, when no approver is found), the audit and `notify()`; it locks
the employee row. `notify()` writes the outbox and kicks the dispatcher, which
runs on its own timer and talks to the mail server; the bell polls the same rows.
`EmployeesService` writes through `EmploymentAssignmentService`, and the approver
of a request is read from the open assignment each time it is needed. The seed
writes the same tables with no transaction, beside a running API.

What is hard here: submissions that race each other and HR; decisions and
withdrawals that check one version of a row and write another; transactions
that wait for a lock with a connection in hand; a dispatcher interrupted between
sending and recording; effective-dated histories written by two requests at
once; an organisation that moves between the check of a request and the notice
about it; answers that overtake each other on a page; a script that is killed
and run again; and rounding. `PROJECT.json` lists the hazards at their lines.

## 2. Modules

| module | models |
|---|---|
| `WorkingDays` | `working-days.ts`: weekends and counting |
| `LeaveRequests` | the life of a leave request, one action for each step between two awaits |
| `LeaveLedger` | the abstract specification of `LeaveRequests`: a ledger that books, decides and withdraws in single steps |
| `SubmissionPool` | the same submission seen from the connection pool |
| `ApprovalRouting` | scopes, `resolveApprover`, the queue, who may decide and withdraw, and who is told, while people move |
| `NotificationOutbox` | `notify()` and `drain()`, in one or more processes |
| `EffectiveDating` | rows with `effectiveFrom`/`effectiveTo`: closing one and opening the next |
| `Employment` | hiring, job changes with the walk for cycles, archiving; over `EffectiveDating` |
| `LeavePolicies` | creating types, new policy versions, the entitlement of a year; over `EffectiveDating` |
| `Sessions` | one browser's cookies, the refreshing of its pages, and the rotation of refresh tokens on the server |
| `NotificationCentre` | the bell and the reading half of `NotificationService` |
| `Documents` | `DocumentsService`, the storage directory and the section of a profile |
| `EmployeeRecords` | the edit page over `EmployeesService.update` |
| `Pages` | the last three side by side; a behaviour looks at one of them |
| `SeedData`, `Seeding` | the tables of `seed-data.ts`, and the script over them |
| `MC...` | instances for TLC: forms, owners, companies, events and symmetry |
| `..._proofs` | theorems and their proofs |

### LeaveRequests

`status` is the `leave_requests` table, one row at most for each submission;
`leaveBalance` is `leave_balances`; `rowLock` is the lock that
`SELECT ... FOR UPDATE` takes on the employee row; `step` is how far a call of
`createRequest` has got. The steps are those between awaits: `Validate` (dates,
working days, notice), `ResolveEntitlement` (before the lock, which is why
`entitlement` is state), `Lock`, `CheckOverlap`, `CheckBalance`,
`InsertAndCommit`, `AnnounceSubmission`. A refusal inside the transaction gives
the lock back. `Fail` ends a submission at any step: a timeout, a lost
connection or the death of the process, and PostgreSQL rolls back. The checks
inside the transaction run under READ COMMITTED and read the tables as they are
at that step.

`decider` is a handler of `decideRequest` or `cancelRequest`: it reads a row and
checks it, rechecks the balance (approvals of a charged type), writes the row by
id whatever it has become, and announces. `SetBalance` is HR's upsert, which
takes no lock. `Tick` moves `today`, which the notice period and the withdrawal
of approved leave depend on. `revived` is a history variable: requests that were
written APPROVED after they had been closed.

Assumed: `Forms` name active leave types that have a policy in force (otherwise
`createRequest` refuses before anything modelled happens), and a decider may
decide the request it reads; who may is the subject of `ApprovalRouting`. One
`Forms` element stands for all the wording of a request. The policy of a type is
a constant, the figure `calculateEntitlement` gives included.

### SubmissionPool

`conns` holds the submissions that have a connection; a transaction keeps its
own from `OpenTransaction` to `Commit` or `RollBack`, also while it waits in
`TakeRowLock`. `MaxWait`, `Timeout` and `PoolTimeout` are P2024, P2028 and the
P2024 of a query outside the transaction. Only submissions use the pool; other
requests would borrow and return as `BeginReads`/`EndReads` do. Its names (`Calls`,
`PoolSpec`) are not those of `LeaveRequests`, so that one module of proofs extends
both.

### ApprovalRouting

`job` is the open assignment (and its copy, which `Employment_proofs` shows to
agree), `standing` and `archived` the employee row, `grants` the access roles
that have not lapsed, `told` the notifications under the names `dedupeKey` gives
them. A submission is routed, inserted and announced in three steps; a caller
who decides or withdraws is checked in one and writes in another. Between any two
of them HR moves people (`Move`), suspends or dismisses them (`SetStatus`) and
archives them, and temporary grants lapse. Archiving counts the reports
(`CountReports`, after which `leaving` holds the employee) and writes in another
step (`Archive`), so somebody may come to report to whoever is archived. `resolveScope` takes the widest scope
by `SCOPE_RANK`, `InScope` is `buildEmployeeScopeFilter`, `AwaitingMyDecision` is
the queue of `listRequests`, `MayDecide` and `MayWithdraw` are the guard together
with the checks of the handlers. The HR of `unroutedToHr` is whoever holds
`leave_request:approve` at GLOBAL scope. Departments and their heads are constants
because nothing in the API writes them. Left out: requests that approve
themselves, and what else refuses a submission; `LeaveRequests` has them.

### NotificationOutbox

`outbox` holds the notification and its delivery as one row, in order of
creation; `due` says that `nextAttemptAt` has passed; `draining` is the flag of
each process; `batch` is what a drain has read, with the attempt counts it saw.
`Claim` is the conditional update. `Send` has four outcomes: accepted, refused
for now, refused for good, and accepted with the answer lost. `delivered` records
which attempts a mail server accepted. Faults (a crash, a failed query, a lost
answer) are counted and bounded by `MaxFaults`. `DatabaseError` is an update that
was not applied or one that was and whose answer is lost, at the claim, at the
mark SENT and at the mark after a failure: a drain that does not hear that its row
is SENT goes on as if the email had failed.

### EffectiveDating, Employment, LeavePolicies

Days are numbered from 1 to `LastDay`; an open row ends on `LastDay + 1`, a day
no row can begin on. In `Employment` a change goes from the check of references
through the walk (one query a step) and the read of the open assignment to the
transaction, which closes the row it read by id; the unique indexes decide
whether it commits. `cache` is the copy of the job on the employee. In
`LeavePolicies` a writer reads the open version, checks for a clash and writes;
the exclusion constraint decides. `calculateEntitlement` works in hundredths of
a day, as `Decimal(5,2)` and `toFixed(2)` do.

### Sessions

`origin` and `live` are the `refresh_tokens` table: the login each token descends
from, and the tokens not revoked; a token is named by its place in the order of
issue. `jar` holds the cookies, which all pages of the browser share, and
`flight[t]` is both `refreshInFlight` of page `t` and the handler of
`/api/auth/refresh` that serves it, because nothing else can reach that handler:
`Verify` or `RefuseRefresh`, `Revoke`, `Issue`, then `Settle` when the answer
brings the cookies and wakes the waiting calls, and `Clear` when the timer of
`refreshSession` fires. Between `Settle` and `Clear` a late 401 takes the verdict
that is there. A call that has a 401 is `Unauthorized`: it starts a refresh,
joins one, or takes its verdict; a call sent again is not refreshed twice.
`LoadUser` is the request for `/api/auth/me`, the one that never refreshes.

`Login` is one step: nobody can name the new token before the answer arrives. A
page is reloaded only when its requests are answered. The access token lasts
minutes, so `Expire` does not fall between a refresh and the calls sent again
after it, nor between a login and the page it opens; it may fall under requests
on their way. A fault is the loss of an answer at any step of its handler
(`LoseRefresh`, `LoseLogout`). The page takes the refresh for failed and may start
another with the same cookie; the handler is then in `stray` and goes on beside it
(`VerifyUnheard`, `RevokeUnheard`, `IssueUnheard`), or never takes a step again,
which is its death. `Unheard` are the tokens issued that way: no page has them or
will have them. `left` is a history variable: somebody chose to log out.
Assumed: the password is right, the user stays active, and a refresh token (seven
days) does not expire while it is used.

### NotificationCentre, Documents, EmployeeRecords, Pages

Each of the three is a page and the service behind it. A call is a record that
goes from `asked` through the awaits of its handler to an answer, which the page
receives in any order; a bounded number of calls may be under way, and a fault
loses a call or its answer.

In `NotificationCentre` one person's rows (`sent`, `readAt`) stand beside what the
bell shows (`unreadCount`, `data`, `open`, `busy`). `list()` runs its two queries
together, so either comes first (`Count`, `List`). Opening an item takes one off
the number at once and leaves the list as it came.

In `Documents`, `stored` is the directory and `row` the table. Upload saves the
bytes and then the row; archive marks the row and keeps the file. `visible` and
`cleared` are what the caller's scopes say at the moment, and `Change` alters them
between the awaits. `had` is a history field: the caller held
`document:read_confidential` at some time since the request was made.

In `EmployeeRecords` the form is what was loaded with what was typed in; `Submit`
sends all of it. `WritePersonal` saves the personal fields, `ReadJob` and
`WriteJob` are `changeAssignment`, and `FindOne` looks once more through the
caller's scope. A page whose fetch fails shows an error and enables its form again;
`Die` moves the request it gave up on to a place of `Lost`, where its handler goes
on or stops, while the page may submit once more. `overtaken` is a history field:
another request has saved since this one was sent. Three fields stand for the form's many: one that is required and
unique, one that may be empty, one with a default. What the records of others
decide (references, cycles) is a refusal that may or may not come.

The three share no table and no React state, so `Pages` lets each behaviour look
at one (`looking`) while the others stay as they began: the sum of the three state
spaces in place of their product.

### SeedData, Seeding

`SeedData` is the company of `seed-data.ts` with its real roles, grants,
departments, people, histories and leave types; names and descriptions are left
out, and a date is the number its digits make. `Script` is the order in which
`main()` upserts, row by row, and `at` the row that is next. Each `Seed...` action
is the upsert of one table, with what it looks up and what its `update` clause
overwrites; the partial index on open assignments and the exclusion constraint of
policies may refuse a row, which ends the run. `Kill` ends it anywhere. Meanwhile
a job changes through the API (`ChangeJob`), a policy gets a version, a developer
edits a number, and years pass. Tables of which only the keys matter are sets of
keys. What the comments of `seed.ts` say of the data, and what its constraints need,
are the assumptions of `SeedData`. Others make their changes on one day of a year
(`ChangeDay`) or one of two (`VersionDays`), which lie after the first day of the
year and before, and on, the first of the next.

## 3. Runs

| run | asks | states |
|---|---|---|
| `LeaveSubmission` | do two submissions of one person, for a charged and for a self-approving type, with one decider, HR's overrides, a clock and failures, behave as the ledger; is anybody booked twice; do the days given out fit an entitlement; are notices true; is everybody answered | 218 280 |
| `LeaveDecidedTwice` | does a closed request stay closed with two deciders: it does not | violation |
| `SubmissionPool` | four submissions (two of one person) over two connections: starvation, the truth of the 503, an answer for all | 17 352 |
| `ApprovalRouting` | two requests, one of them HR's own, in a company of four that moves, suspends and archives people in two steps: is the queue decidable, does it follow the line, are notices consistent with the row | 790 632 |
| `Outbox` | two overlapping drains of one process with two faults: each attempt claimed once, duplicates, the truth of the status, what may rewrite an outcome, progress | 186 358 |
| `Employment` | three people, one change at a time, an archival: cycles, the tiling of careers, the copy, the record | 694 037 |
| `EmploymentCycle` | two manager changes at once: a cycle | violation |
| `PolicyVersions` | two new versions that race, over two years; entitlements of all years | 161 146 |
| `SessionOnePage` | three calls of one page, expiring access tokens, two logins, logouts, a lost answer whose handler goes on: rotation, no self-inflicted refusal, every call settled | 529 558 |
| `SessionReload` | is whoever is shown as signed out without a session: not after a reload | violation |
| `Pages` | the bell with two notifications, a profile with three documents, two editors of one employee and a save that goes on after its page gave up on it: does the number settle, are documents kept, are editors told the truth | 2 129 739 |
| `Seeding` | two runs of the seed, killed or refused anywhere, in one year or two, beside a changed job and a new policy version: does a run that ends well leave the whole company | 217 091 |

Bounds, and why they are enough. Two submissions are what a race needs. A double
decision needs two deciders, so `LeaveSubmission`, which shows what holds without
one, has a single one. The forms are two single days and one of those days as a
type that approves itself: ranges that overlap and that compete for the same
balance. Two connections with four submissions leave two waiting. `MaxAttempts =
2` has a retry and a last attempt; two faults lose the answer of an update to SENT
and then interrupt what the drain does about it, and the properties that count
faults do so for any number. Two keys and three calls give one duplicate. A walk for cycles over three people has length two. Two years of
three days let a version lie before, within, across and after a year and let a
year hold three versions. Of three calls one starts a refresh, one joins it and
one comes late; two logins let a second session follow a first; one lost answer
leaves one handler beside the refresh that follows.

The company of `ApprovalRouting` has a department below another and one beside
them, a manager below the head of the department, somebody of HR who is also a
head, and a grant that lapses; the moves take the worker from a manager to none,
and to the head and another department, so that every branch of
`resolveApprover` and every scope decides something. The head may be suspended and
the manager archived, also with somebody who has come to report to them meanwhile; a
manager who is dismissed would be passed over by the same branch. Two calls of a page are what
overtaking needs; three clicks let a stale item be opened twice. Two submits are
two editors or one who tries again, in the second case beside the first request if
its answer was lost. The employee has no phone number when the form is loaded, and a
form with an email that is taken has one value of the other fields (`Typed`),
because nothing of it is saved. Two runs of the seed are a run and a re-run.
Only `Promoted` and `Versioned` are cut down in `Seeding`: the company is the whole
one.

What is proved is not run again at a larger size. Two processes that drain one
outbox, job changes of one person that race, and the lock and the connections of
a submission are covered by the theorems of §5 for any number, and the runs
check the same definitions on the instance above where they share it.

Symmetry is used where the elements are interchangeable and no liveness property
is checked. `Seeding` and `Pages` switch deadlock checking off: a script that has
been started `MaxRuns` times, and a page on which everything was clicked, may
stop. `SubmissionPool` ends in the explicit step `Done`, the others can always
take a step.

### Disagreements found

Each is a `violation` run with a counterexample.

* `decideRequest` and `cancelRequest` update by id with no guard on the status
  they checked, so the second of two handlers overwrites the first; the tests
  promise that a request is not decided twice.
* The walk for reporting cycles is not in the transaction that writes the
  manager.
* `api()` exempts every path under `/api/auth/` from refreshing, and the call a
  page makes when it opens is `/api/auth/me`. A page opened after the access
  cookie has run out shows the login screen, with a refresh cookie in the browser
  that would have renewed the session; the comment on `api()` says that a login
  redirect is seen only when the refresh fails as well.

The models show further promises that do not hold in full. They have no run of
their own; the properties that are checked say what does hold instead.

* The header of the approvals page says that it "asks the API for PENDING requests
  routed to this person". The queue goes by the manager alone
  (`leave.service.ts:443`); HR's shows besides only what was routed to nobody. What
  `resolveApprover` gave to a head of department is therefore in nobody's queue.
  `QueueFollowsTheLine` is what is left.
* `seed.ts:10` says "SAFE TO RE-RUN". After a job changed through the API the
  second run writes the old job on the employee row and is then refused by the
  index on open assignments; in a later year it is refused by the constraint on
  policies. `RefusedOnlyIfTouched` says that nothing else refuses it.
* `update()` answers 404 after a move it has saved, when the employee has left
  the caller's scope (`employees.service.ts:311`), and the edit page cannot empty
  a field (`|| undefined`). `EditorsAreTold` excepts both.
* The comment on `refresh()` has a refresh token usable at most once
  (`auth.service.ts:125-126`). The revocation does not look whether it revoked
  anything, so two refreshes that have both verified one cookie both issue a token. With one page that takes a lost answer: the handler goes on while the
  page refreshes again. `OneLiveTokenPerLogin` excepts the token nobody heard of.
* An outcome of an email may be rewritten. With two processes the one that holds
  an earlier attempt writes SENT or FAILED by id over what the other wrote; with
  one, a drain whose update to SENT was applied and whose answer was lost writes
  FAILED over it, or leaves the row SENT and counts a retry. `OutcomeIsFinal`
  excepts these two and says that the row is never open again.
* A save whose answer was lost may be applied after the retry of the same page was
  answered with success, and write over it. `EditorsAreTold` and `UntouchedStands`
  except it (`overtaken`, `stale`) as they except the save of another editor.
* A report assigned while `archive` is between its count and its write is left
  with an archived manager; `resolveApprover` passes such a manager over.
* Two pages of one browser, or a logout that meets a refresh, end a session that
  was in order; the comment on `refreshInFlight` is about one page.

## 4. Fairness

`LeaveRequests`: weak fairness of each submission's own steps. Node runs every
handler that is ready and PostgreSQL queues lock waiters, so none is left out for
ever; no decider, HR change or failure need ever happen. `SubmissionPool`: the
same, without any timeout. A released lock or connection could go to others
again and again only if submissions kept coming; here they are finite in number.
`NotificationOutbox`: weak fairness of each drain, justified by the poll timer
of `onModuleInit`, and of the passing of back-off. `Sessions`: weak fairness of the
answer to each call and of the refresh of each page, as the server answers and a
timer of the page fires; nobody need ever log in, log out or reload.
`NotificationCentre`: weak fairness of the poll, which is the bell's `setInterval`,
and of the answer to each call, which comes or fails; nobody need click. No
fairness on faults. The other modules state none and are checked for safety.

## 5. Proofs

Proved by TLAPS for every value of the constants, from the named assumptions in
the modules (types of the constants, finiteness of the submissions, null values
outside the sets they stand beside):

* `LeaveRequests_proofs`: `TypeCorrect`, `LockCorrect`, `NoDoubleBookingHolds`,
  `NoticesAreTrue`, `NoOverspendHolds`, `ClosedStays`, and for one handler of
  decisions at a time (`OneHandler`) the refinement `LedgerImplemented`. The
  inductive invariant says of the submission that holds a lock that nothing it has
  already checked can have changed: after `CheckOverlap` no active request clashes
  with its form (`ClearOfOthers`), because whoever would insert one needs the same
  lock, and a status only turns active again by a revival. It also says that what is not committed is absent,
  that decisions are about rows that exist, and that a notice is about a row.

  `ClosedStaysClosed` is checked for one handler and refuted for two
  (`LeaveDecidedTwice`). What holds for any number of them is `ClosedStays`: a
  closed request is written again, and a closed one approved, only by a handler
  that is `Late`, one whose row is no longer open to what it is about to write; and
  a handler becomes late only by the write of another handler to the row it had
  read (`ClosedButForARace`). A submission never makes one late, as it commits only
  a row that was not there. Only then does `NoDoubleBooking` make its exception.
  With one handler nobody is late (`CheckedStillOpen`), which is what the refinement
  needs.

  `NoOverspendHolds` needs a stronger statement than its own, because a withdrawal
  may take away the very request that was judged last: that every set of charged
  requests of a pot, not only the set of all of them, fits what one of its members
  was judged by (`EveryPartJudged`). A set with the request being booked fits
  because what `CheckBalance` found still holds at the commit (`FitsStill`: rows
  are added to a pot only under the lock); a set without it was judged before.
  Days are counted as the cardinality of a union of days, so that the facts about
  finite sets of the library (a part has no more, one more adds at most its own)
  take the place of an induction over sums. `LedgerImplemented` puts both
  together: `InsertAndCommit` is the ledger's `Book`, the write of an outcome its
  `Decide` or `Withdraw`, and every other step leaves the ledger alone.

  The module ends with the pool behind the same submissions, `SubmissionPool`, for
  any number of connections: `PoolTypeCorrect`, `ConnectionsHold`, `LockHolds`,
  `PoolNeverStarves`, `BusyIsTrue`. Starvation needs no induction of its own: if a
  row is locked, its holder owns a connection and is at work; if none is, whoever
  holds a connection can go on; if nobody does, one is free. That a 503 has saved
  nothing rests on `SavedGoOn`: whoever has committed is past every step that can
  still be answered 503.
* `NotificationOutbox_proofs`: for any number of processes `TypeCorrect`,
  `OneNotification` and `AttemptsClaimedOnce`. `AttemptsCounted` says that the
  count on a row is at least every attempt under way or delivered, so that a claim
  takes a number nobody has had; and that of two drains that hold the same row
  the numbers differ. `OutcomesStand` also holds for any number of processes: every
  write by id that may meet a closed row leaves it closed and its attempts alone.
  For one process (`OneDispatcher`) also `DuplicatesAreFaults` and `StatusIsTrue`. There the flag lets one drain be awake
  (`OneAwake`), so the row in hand is pending, every email that was accepted is
  either written as SENT, about to be, or paid for by a fault (`SendsPaidFor`),
  and nobody but the drain that claimed a pending row writes it.
* `ApprovalRouting_proofs`: `TypeCorrect`, `QueueDecidable`, `QueueFollows`,
  `AskedRecorded`, `NobodyAsked`, for every company, every combination of roles and
  every sequence of moves. The queue is decidable because no role grants
  `leave_request:read` beyond SELF at another scope than `leave_request:approve`,
  and widest scopes of equal grants are equal. Notices agree with the row because
  they are written from what was resolved before the insert and nothing writes
  `approverId` afterwards (`NoticesAgree`, the inductive part); nobody is asked
  about their own leave because `resolveApprover` passes over the employee and
  nobody comes to be their own manager.
* `Employment_proofs`, `LeavePolicies_proofs`: `TypeCorrect`, the tiling of
  careers and of policies, the agreement of the copy (`NoDrift`), and that what
  was recorded stands. Both rest on `SupersededTiles`, each about its own rows: a
  history that tiles the days still does after its open row is closed and the
  next one opened. The invariant adds that a writer's new row begins after
  the row it read; a writer whose row has been closed meanwhile is stopped by
  the index, and that is where the proof uses it.
  `NoCycle` holds for one change of job at a time (`OneChange`); `EmploymentCycle`
  shows that two may close a circle. A circle is a set of employees whose managers
  are all inside, so the argument needs no induction along the reporting line: a
  set that would be a circle once the change is written holds every cursor of the
  climb (`ClimbedTo`), which can therefore neither run out of managers nor come
  back to a cursor it has seen, as that would be a circle already.
  The entitlement of a year is a sum over as many versions as a type has:
  `PeriodsAddUp`, `RoundingStaysNear` and `EarlierYears`. What is needed about sums
  is shown by least counterexample: if a claim failed for a set, it would fail for
  a subset with no smaller one failing (`LeastSubset`, as strict inclusion between
  finite sets is well founded), and taking an element away from that one is a
  contradiction. So the recursive function behind `MapThenSumSet` exists, and the
  order in which it takes the elements makes no difference (`SumWithout`). Then
  the lengths of disjoint periods are the number of days they cover, and the days
  covered are those from the first version to the end of the year, because the
  versions tile; rounding moves each contribution by half a hundredth at most,
  and the total by no more than that for each (`RoundingAddsUp`); and a version
  from a later day at most closes a row of an earlier year on a day after that
  year, which changes neither its length there nor who is last (`EntitledAsBefore`).
* `Sessions_proofs`: `TypeCorrect` for any number of pages; `TokensRotate` and
  `PageKeepsSession` for any number of calls, logins and faults of one page (the
  hypothesis `OnePage`; with two pages both fail). `ChainHeld` says that a
  handler past `Verify` presented the only token of its login that may be live,
  and that past `Revoke` none is, but for tokens that went unheard: a handler that
  goes on when its answer is lost is bound by neither, and whatever it issues is in
  `Unheard` from that step on; `Healthy`, that as long as there was neither a
  fault nor a logout the cookie of a page that shows a user is a token of the
  database, live except while the page's own refresh replaces it.
* `Pages_proofs`: `TypeCorrect`, `DocumentsHeld`, `EditorsKnow`, `UntouchedFields`,
  for any number of requests in flight or given up on, notices, files, pages and
  jobs. The
  invariant has a part for each place, and a place that is not looked at keeps its
  own. For the documents, what is promised is not inductive: one upload is under
  way at a time and owns its file until there is a row (`Uploads`), whatever is
  listed, asked about or removed has a row (`RowsKnown`), a request that was told it
  may see confidential files saw the permission while it was under way (`Cleared`),
  and the list on the page, or the one about to be, shows nothing that was removed
  (`ListsFresh`, with the exceptions `RemovedIsGone` makes). For the bell, every
  notice listed, clicked or marked was sent, which bounds the number it shows. For
  the edit page `Told` follows a form: what was not typed in is as the record has
  it unless another request saved since, what was saved is as shown unless another
  saved after it was sent, an error comes only with an answer, and the job is
  written last, so an error leaves it alone.

* `Seeding_proofs`: `TypeCorrect`, `RunIsWhole`, `RefusalsExplained`, `CopyHolds`,
  `PoliciesStand`, for any number of runs, killed or refused wherever, any people
  and types that others change, and any years of four digits. Nothing is used of
  the company but what the assumptions of `SeedData` say, which TLC evaluates on the
  real one: the tables are finite, grants name permissions that exist, histories have one open entry, which is the last
  (`HistoriesInOrder`), managers come before their reports (`ManagersFirst`), and a
  department below has a parent that has none and one head at most
  (`DepartmentsInOrder`). So the theorems hold of every edit of `seed-data.ts` that
  keeps to these.

  The first half is about the script. `ScriptFollows` says that it is a list of
  exactly the lines of the tables, in which every line comes after those it refers
  to: a grant after its permission and role, a department after its parent, an
  entry after its person and manager. It is put together block by block
  (`RolesFollow`, `DepartmentsFollow`, ...), and rests on two facts about recursive
  definitions, that `Listed` lists a set and that `FlattenSeq` has the elements of
  its parts. Both are shown by least counterexample, a set or a prefix with no
  smaller one that fails. The second half is the invariant: what a line leaves
  (`Done`) is kept by every later line and by what others do, so at the end of a run
  the whole company is there (`LinesDone`), whatever state it began in. Only a
  changed job tells an entry apart: whoever was changed has an open row that starts
  after their last entry does (`CareerFits`), so the partial index refuses that entry
  and the run fails; in the first year the opening version of a type is found and
  left alone (`VersionsFit`), which is why nothing else can refuse a run.

Only model-checked: liveness (`EverySubmissionAnswered`, `EveryCallAnswered`,
`EveryEmailResolved`, `EveryCallSettles`, `BellSettles`) and anything that needs `ENABLED`, which the
prover does not treat. Every other property of a passing run is proved,
but for `ClosedStaysClosed`, which two handlers violate and in whose place
`ClosedButForARace` is proved.

## 6. Not modelled

* The operations of modelled components that are left out: archiving and restoring
  a leave type and amending a version's note; wrong passwords, the lockout after
  failed logins and users who are deactivated; the expiry of refresh tokens; the
  org chart, the drift report and the lists, which are reads of state that the
  invariants describe. A department head or a department never changes, because
  nothing in the API writes either.
* Composition that would multiply state without a new interaction: the policy of
  a request as state (`LeaveRequests` over `LeavePolicies`), and the approver of a
  request in `LeaveRequests` (a decider there may decide what it reads).
* Hazards that no module reaches for that reason: a process that dies between the
  commit of a request and the notice about it (`leave.service.ts:650`; the models
  have the step, and no promise is made about it), a leave type archived
  (`leave.service.ts:576`) or a policy superseded (`leave.service.ts:589`) between
  the check and the insert, the counter of failed logins (`auth.service.ts:106`), a
  logout between the steps of a refresh (`auth.service.ts:157`), and grants that
  were removed from the seed's tables and are never revoked (`seed.ts:426`).
* Email templates and the other web pages: presentation, or forms that send one
  call. Health, configuration and Redis: no protocol. The audit log: an append
  whose failure is swallowed.
* Security properties are out of scope.
