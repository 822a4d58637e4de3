# Verification of lms_V2

TLA+ models of the learning management system in this repository, the TLC
runs that check them and the proofs that TLAPS checks. The code is a Django
project on PostgreSQL with a redis queue; its own logic is in `src/apps`.

## 1. The system

Web workers serve requests in parallel (`ATOMIC_REQUESTS` is not set: a
request is not a transaction, only `transaction.atomic()` blocks are). The
database runs at PostgreSQL's default level, READ COMMITTED. Jobs queued
with `.delay()` run in queue workers, other processes (in the test settings
they run at once, inside the caller, which is why the tests do not meet most
of what follows).

| Component | State | Operations | Interacts with |
|---|---|---|---|
| Enrollment in a course offering (`learning/services/enrollment_service.py`, `learning/views/enrollment.py`) | `Enrollment` rows (`is_deleted`), `Course.capacity`, `Course.learners_count` | enroll, leave, recount in a `post_save` signal, staff saves of the course | groups, personal assignments, notifications |
| Review of a student's work (`personal_assignment_service.py`, review form, gradebook, CSV import, REST API, admin) | `StudentAssignment` row, its comments and solutions, `AssignmentScoreAuditLog`, `meta.stats` | review, gradebook save, import, solution, comment, whole-row saves, statistics job | queue, notifications, enrollment |
| Student groups and personal assignments (`student_group_service.py`, `assignment_service.py`) | `StudentGroup`, `AssignmentGroup`, `CourseClassGroup`, soft-deleted `StudentAssignment` rows | resolve, create, remove, transfer, cast to a manual group, create, edit and delete an assignment, sync | enrollment, queue |
| Notification delivery (`notification_service.py`, `notifications/tasks.py`) | `AssignmentNotification`, `CourseNewsNotification` (`is_unread`, `is_notified`) | create, queue, schedule, send, mark as read, clean up, delete on leave | queue, SMTP |
| JetBrains Academy progress (`jba_service.py`) | scheduled jobs, score and status, `meta` of the newest comment | poll, job at the deadline, button, review | review, queue, HTTP |
| Invitations and student profiles (`users/services.py`, `users/views.py`, `alumni/services.py`, `learning/invitation/views.py`) | `StudentProfile` (type, status, priority), `UserGroup` roles, `Invitation.enrolled_students` | apply, accept an invitation, promote, change the status, save, delete | authorisation, enrollment |
| Users, roles and authorisation (`learning/roles.py`, `auth/backends.py`, `*/permissions.py`) | roles of the account, registered permissions and relations | `has_perm`, the rule of each permission | every view |
| Final grades and imports (`update_enrollment_grade`, `gradebook/services.py`) | `Enrollment.grade`, `EnrollmentGradeLog` | gradebook, CSV, admin | enrollment |
| Task table and locks (`tasks/models.py`, `core/locks.py`) | `Task.locked_by/locked_at`, cache keys, redis locks | lock, complete, expire | nothing calls them |
| Content, files, static pages, staff reports, frontend | rows and files without a protocol | CRUD, exports | - |

What is hard: a decision taken on data read before the transaction or before
a lock (capacity, learners count, assignee, group, status rule); statements
that wait for a lock and go on with an older snapshot; different lock orders;
compare and set over two columns in two statements; several statements where
one was meant; whole-row saves; jobs queued before the data they need is
committed; jobs that overtake each other or die; a chain of jobs each of
which schedules the next; permissions that are decided by different rules in
different places. `PROJECT.json` lists each at its line, with the property
that watches it or the reason why none does.

Properties that make each component correct:

- Enrollment: a limited course is never overbooked; what a transaction
  checked still holds when it commits; the count is right; every request is
  answered.
- Review: nobody publishes over values he has not seen; the student's
  submission keeps what others stored; the audit log explains the score; the
  statistics catch up.
- Groups: no restriction is lost with a group; nobody active is moved with a
  removed group; a transfer and an enrollment give the work they should; one
  default group; the requests do not block each other for good.
- Notifications: nobody gets two emails about one record; a record called
  notified was emailed; who has read or left is not bothered; every record is
  settled.
- JBA: the polling chain goes on; an older answer of the service does not
  win; what is solved late does not count; what is solved in time is reported.
- Profiles and access: the profile that counts is one in studies; the roles
  follow the profiles; a further role takes nothing away; who may enter a
  course may see it, and is accepted.

## 2. Modules

| Module | Contents |
|---|---|
| `CourseSeats` | what enrollment promises: students join while a seat is free, and leave |
| `Enrollment` | the requests, transactions, locks and recounts |
| `ReviewedWork` | what reviewing promises: gradings with their audit record, submissions |
| `PersonalAssignment` | every writer of one `StudentAssignment` row, and the statistics job |
| `CourseGroups` | groups, enrollments, restrictions and work of one course as transactions of several workers |
| `Mailing` | what notification promises: notifications are announced or taken back, e-mailed, dealt with or given up, and settled once |
| `NotificationDelivery` | records, jobs, queue workers, readers |
| `JbaProgress` | overlapping updates of one assignment at an external service |
| `Permissions` | the registered roles, permissions and relations; `has_perm` |
| `CourseAccess` | profiles and roles of one person and what they allow in one course (extends `Permissions`) |
| `MC*` + `MC*.cfg` | TLC instances of the modules above |
| `EnrollmentProofs`, `PersonalAssignmentProofs`, `JbaProgressProofs`, `CourseGroupsProofs`, `NotificationDeliveryProofs`, `CourseAccessProofs` | proofs about the module of that name |
| `CourseGroupsKeys` | the foreign keys of `CourseGroups` (extends `CourseGroupsProofs`) |
| `MailingProofs` | that `NotificationDelivery` implements `Mailing` (extends `NotificationDeliveryProofs`) |

Operators whose comment starts with "Mutant" or "A variant" are not used by
any specification: each is a plausible mistake in the operator that follows
it, and the property it is meant for fails when it is put in its place.

### Enrollment

`row[s]` is the student's `Enrollment`: absent, left (`is_deleted`) or
active. A request `r` has a program counter `pc[r]`, the student `stu[r]`,
what its `Course` object said of the limit (`limited[r]`, never read again),
what its open transaction has written (`wrote[r]`) and the count its UPDATE
of `learners_count` has evaluated (`seen[r]`). Uncommitted writes stay in the
request: the tables change in `Commit` only, together with the release of
`courseLock` and `rowLock[s]`.

| Actions | Code |
|---|---|
| `BeginEnroll` | `CourseEnrollView`: load the course, permission on the cached count |
| `GetRow`, `CreateRow`, `AlreadyEnrolled` | `get_or_create`, `raise AlreadyEnrolled`; the unique index makes a second insertion wait |
| `LockCourse` | `select_for_update()`, for a limited course only |
| `Activate`, `CapacityFull`, `NothingToActivate` | the filtered UPDATE and what follows when no row matched |
| `BeginLeave`, `LeaveUpdate` | `CourseUnenrollView`, `EnrollmentService.leave` |
| `Recount`, `WriteCount` | `update_course_learners_count`: snapshot, then the lock on the course row, then the write |
| `Commit`, `Rollback`, `DeadlockAbort`, `Respond` | the end of the atomic block and of the request |
| `EditLoad`, `EditSave` | `CourseUpdateView`, `CourseAdmin`: `Model.save()` writes back every column |

Foreign keys need no lock of their own in the model: Django declares them
`DEFERRABLE INITIALLY DEFERRED`, so PostgreSQL takes their shared locks when
the transaction commits, which is one step here, and by then an enrollment
holds the course row itself.

A request that creates a row and one that finds an inactive row are both in
the model, so that enrolling for the first time and re-entering are covered.

### PersonalAssignment

`row` holds the columns the properties tell apart: score, status, assignee,
`trigger_auto_assign`, and the number of solutions in `meta.stats`. A
transaction's version of the row is `mine[c]`, the audit record it has yet to
make visible `owed[c]`; `rowLock` is the row's lock.

| Actions | Code |
|---|---|
| `ShowReview`, `PostReview`, `PostInvalid`, `CasScore`, `CasStatus`, `Conflict`, `PublishReview` | `StudentAssignmentDetailView`, `AssignmentReviewForm`, `create_personal_assignment_review` in one transaction |
| `ShowGradebook`, `PostScore`, `GradebookCas`, `GradebookConflict`, `LogScore` | `GradeBookView`, `BaseGradebookForm.save`: no transaction, so the score and its record are two commits |
| `BeginImport`, `GradebookCas`, `PassOver`, `LogScore` | `assignment_import_scores_from_csv`: the score in the file replaces the one loaded before the first row; a refused row is passed over |
| `BeginSolution`, `SubmitSolution`, `BeginComment`, `ReadAssignee`, `KeepTrigger`, `SaveAssignee`, `PublishSubmission` | `create_assignment_solution` (row lock), `create_assignment_comment` (none), `maybe_set_assignee_for_personal_assignment` |
| `LoadRow`, `ApiSaveScore`, `ApiSaveAssignee`, `AdminSave` | REST API and admin site |
| `CountSolutions`, `WriteStats` | `update_student_assignment_stats` in a queue worker |

### CourseGroups

The database `db` is one function from rows (groups, enrollments, assignments
with what they are restricted to, personal assignments, the class) to their
values. What an open transaction has written, and therefore locked, is
`delta[w]`; `See(w)` is what its statements see, `Write` waits for rows that
others have written, `Commit` moves `delta[w]` into `db` after the deferred
foreign keys and fails with them (`CommitFails`). `raced` remembers whose
request another one changed an assignment under.

| Actions | Code |
|---|---|
| `BeginEnroll`, `FindGroup`, `GroupMissing`, `TwoGroups`, `CleanGroup`, `NameTaken`, `InsertGroup` | `CourseEnrollView`, `StudentGroupService.resolve`, `get_or_create_default_group`, `StudentGroup.clean` |
| `Activate`, `AlreadyEnrolled`, `Recreate` | `EnrollmentService.enroll`, `recreate_assignments_for_student` |
| `BeginLeave`, `Leave`, `KeepRunGroup`, `NoRunGroup`, `RemoveRunGroup`, `CastToManual`, `CannotCast` | `EnrollmentService.leave`, `delete_program_run_student_group_if_needed` |
| `BeginNewGroup`, `BeginRemove`, `RefuseRemoval`, `CheckRemoval`, `FindLeft`, `MoveLeft`, `DeleteGroup`, `ProtectedError` | `StudentGroupCreateView`, `StudentGroupDeleteView`, `StudentGroupService.remove` |
| `CreateAssignment`, `UpdateAssignment`, `DeleteAssignment`, `EditClass` | the views of assignments and classes with `bulk_create_student_assignments`, `sync_student_assignments` |
| `BeginTransfer`, `MoveStudents`, `SomeNotMoved`, `FillWork`, `FillFails` | `StudentGroupTransferStudentsView`, `transfer_students` |

### NotificationDelivery

`rows[n]` is a record: pending until its transaction commits, then live or
deleted. `queue` is redis' default queue, `scheduled` what waits for the
assignment to open, `job[w]` the copies of the records a worker has loaded
and the one it is about to save. `sent`, `lost`, `quiet` are history.
`Status` reads from these what has become of each e-mail: it is the
refinement mapping to `Mailing`.

| Actions | Code |
|---|---|
| `NewSubmission`, `DeadlineChanged`, `AssignmentCreated`, `NewsCreated` | `generate_notifications_about_new_submission`, the signals of assignments and news, `bulk_create_student_assignments` |
| `Insert`, `InsertFails`, `Enqueue`, `Commit`, `Rollback` | the insertion of a batch and `.delay()`, both inside the request's transaction |
| `Due` | rq's scheduler |
| `Take`, `Send`, `SendFails`, `Save`, `SaveFails`, `Die` | `send_assignment_notifications`, `send_course_news_notifications`, `send_notification` |
| `Read`, `ReadStale`, `Cleanup`, `Leave`, `Enroll`, `Unpublish` | pages that mark as read, the two management commands, `remove_course_notifications_for_student`, deletion of a post |

### JbaProgress

An update is a record: what began it (the polling job, the job at the
deadline, the button), what it loaded (`rows`), the answer of the service
(`progress`) and whom it still has to serve (`todo`). `newest[s]` is the
published comment with the latest `created`, by what its `meta` holds.

| Actions | Code |
|---|---|
| `Poll`, `AtDeadline`, `Press` | `update_current_assignments_progress`, `update_jba_progress_at_deadline`, `UpdateJbaProgressView` |
| `Load`, `Fetch`, `Look`, `Write`, `Finish` | `update_assignment_progress`: the deadline and the scores, `get_course_progress`, the newest comment, the transaction of one student, the next polling job |
| `Fail`, `Raise` | a call of the service fails or the worker is killed; an exception ends the update |
| `Extend`, `Restart` | `schedule_jba_progress_update_at_deadline`, `LearningConfig.ready` |
| `Solve`, `PlainComment`, `Review`, `SetScore`, `Tick` | students, teachers, time |

### Permissions and CourseAccess

`Permissions` holds the tables of `learning/roles.py` and `HasPerm`, the
decision of `RBACPermissions._has_perm` for a given rule: roles are asked by
priority, the first that has the permission itself decides, a permission
related to it counts if its rule says yes. `CourseAccess` adds the rules
(`CourseRule`, `LearningRule`, `WorkRule`, `GroupRule`, `UserRule`,
`MaterialsRule`, `EnrollRule`, `LeaveRule`), the lookups of the course's
bindings and the life of one account.

| Actions | Code |
|---|---|
| `BeginRegister`, `Register` | `StudentApplicationView` |
| `AcceptInvitation`, `BeginInvite`, `Invite` | `InvitationView`, `create_student_profile` |
| `AdminCreate`, `AdminDelete`, `BeginStatus`, `UpdateStatus`, `CommitStatus` | `StudentProfileAdmin`, `update_student_status`, `assign_or_revoke_student_role`, `post_delete_student_profile` |
| `BeginSave`, `SaveProfile`, `BeginPromote`, `Promote` | `StudentIdUpdateView`, `UserProfileForm`, `promote_to_alumni` |
| `BeginEnroll`, `Enroll`, `EnrollFails`, `Leave`, `SendSolution` | the student's views and their permissions, `EnrollmentService.enroll` |
| `SetGrade`, `CloseEnrollment`, `CompleteCourse` | final grades and time |

## 3. What TLC checks

| Run | Instance | Shows |
|---|---|---|
| `limited` | 3 students, 3 requests, capacity 1 or 2, any initial enrollments | types, lock discipline, no overbooking, exact counts after an enrollment, refinement of `CourseSeats` |
| `edits` | 2 students, 2 requests, 1 editor, capacity 0 or 1 | no request exceeds the capacity in force; every request is answered |
| `leaves` (violated) | 3 students, 2 requests, capacity 2 | `learners_count` is stale after two concurrent leaves |
| `reviews` | 2 reviewers, 1 submitter, 1 worker, 2 submissions | types, refinement of `ReviewedWork`, the chain of audit records, statistics catch up |
| `writers` | a reviewer, a gradebook that also imports, a submitter, a whole-row saver | the audit log balances, no review or solution overwrites unseen values |
| `assignee` (violated) | a submitter and a whole-row saver | a comment replaces an assignee set meanwhile |
| `groups` | 2 students, 1 program run, 1 assignment, 2 workers, in a manual course (2 groups) and in one grouped by program runs (3) | types; one default group; restrictions outlive groups; only those who left are moved; transfers and enrollments give the work they should; no circular wait that PostgreSQL would not break |
| `notifications` | 2 students, 1 teacher, 2 requests, 2 queue workers, 2 records, batches of 1 | types; one email per record; notified means emailed; who has read is left alone; every record is settled; refinement of `Mailing` |
| `access` | 2 requests, 2 profiles, 2 program runs, bindings by program, invitation and for alumni, 2 changes of profiles | types; roles only add; the course page and the materials of its classes are for the same people; the profile that counts; roles follow profiles; a permission to enroll is honoured |
| `bindings` (violated) | 1 request, 1 profile, 1 program run, bindings of 2 programs | a student enrolls although enrollment for his program has ended |
| `jba` | 1 student, 1 queue worker, 1 request, 1 task, time up to 2, failures | types; the chain goes on; older answers lose; late tasks do not count; results solved in time are reported |
| `results` (violated) | 1 student, 1 queue worker, 1 task, time up to 1, no failure, nobody grades by hand | a plain comment ends the update |

Bounds. In `Enrollment` nothing is bounded but the sets. Three requests are
enough for one that holds the course, one that waits for it and one that
leaves; the last seat needs capacity 1, the seat before it 2. Capacity 0 is
"unlimited", and moving between 0 and 1 is what makes a loaded limit stale.
In `PersonalAssignment` the bounds are `MaxSubmissions` (2 in `reviews`, so
that a count can be stale), `MaxJobs` (jobs waiting when a request begins),
`MaxLog` (audit records when a score is posted; requests under way still add
theirs, so that two records meet in the log) and `MaxSaves`. One score
besides "no score" is enough to tell a change from none, two statuses to
tell a change of status. The properties compare values and never their
order, so that larger sets add no new case.

In `CourseGroups` the rows of groups are bounded by `MaxGroups` (ids are not
used twice): two in a manual course, the default group and one more, which is
what a removal, a transfer and a restriction need; three where groups come
and go with the students. `MaxClassGroups` is 1. Two workers are the most
that can wait for each other directly; a third would only add longer cycles
of the same waits. One assignment is enough, for no statement compares two.
In `NotificationDelivery` `MaxNotes` bounds the records ever created, two of
them so that one can fail while the other is sent and so that two batches
exist. In `CourseAccess` the primary keys are `1..MaxProfiles`, and
`MaxChanges` bounds the requests that change profiles, two of them so that
they may overlap; one failing and one passing grade are enough, for grades are
compared with the passing one only (the proofs take any integers).
`JbaProgress` has a clock up to `MaxTime`: 2 gives a time
before, at and after the first deadline and room to extend it.

Symmetry is used by `limited`, `writers`, `groups` and `access`, which check
no liveness property, over sets whose elements are compared for equality
only. `groups` checks action properties over the same symmetric quantifiers.

Fairness. `RequestsFinish` and `StatsCatchUp` assume strong fairness of each
request's own steps and of each queue worker. A worker process runs on; a
row lock is granted in the order of arrival, so a waiter is not overtaken
for ever; a deadlock is found and one transaction aborted, an action of the
model rather than an assumption. Nobody is assumed to send a request or to
fill in a form. `StatsCatchUp` is checked with one queue worker. With two, an
older count can be written last and stays until the next submission: a
comment in the code (`better to select_for_update`) says as much, and the
deployment does not fix the number of workers.
`EverybodyIsNotified` assumes weak fairness of the requests under way, of the
scheduler and of the queue workers; the mail server owes nothing, for a
refused or interrupted message counts as given up (`lost`).
`ResultsAreUpdated` and `ResultsOfEverybody` assume weak fairness of the
clock, of each worker's readiness to start a job that is due and of each
update under way; not of the service (`Fail`), nor of the restart that would
mend a broken chain.

Deadlock checking is off in `notifications`, `access`, `bindings` and
`results`, where the bounded records, changes or time may be used up with
nothing under way, and on in every other run.

### Where the code disagrees with its documents

1. `learners_count` after concurrent leaves (`leaves`): the recount's
   subquery is evaluated before its UPDATE waits for the course row. The
   permission to enroll uses the count, so a course may look full.
2. The automatic assignee (`assignee`): decided on a row read without a lock.
3. Two programs in one course (`bindings`): `student_can_enroll_from_program`
   chains two `filter()` calls, which are two joins, so that the program of
   one binding is combined with the end date of another
   (`courses/managers.py:102`).
4. Plain comments under JetBrains Academy work (`results`): their `meta` is
   NULL, `update_assignment_progress` looks a key up in it and raises; the
   update and the polling chain end (`jba_service.py:210`).

Met while modelling, and not in a run of their own:

- A second submission of the enroll form in a limited course is told that
  the course is full, where the comment wants a success
  (`enrollment_service.py:134`).
- Submitted work may be set back to "not submitted" while the statistics job
  is waiting (`learning/models.py:596`).
- `sync_student_assignments` skips a group of which one student has the work
  already (`assignment_service.py:189`, admitted in a comment); an assignment
  created while a student enrolls may be missed by both (`:89`).
- Two overlapping status changes may keep a role that should go, or drop the
  role of a profile still in studies (`users/services.py:201`); a form that
  saves the whole profile may bring back a status, or a deleted profile
  (`users/views.py:380`). `RolesFollowProfiles` and `MaterialsComeWithThePage`
  are stated for changes that do not overlap.
- An update by button after the deadline posts the solved tasks without a
  score; the job at the deadline then finds them reported and sets none
  (`jba_service.py:212`). A poll replaces the grade a teacher gave
  before the deadline.
- A CSV import counts a row that was refused as imported
  (`gradebook/services.py:61-70`; for final grades it reports the error too).
- The final grade `RE_CREDIT` is -1 and counts as failed, for
  `is_course_failed_by_student` compares numbers.

## 4. What TLAPS proves

For all sets of students, requests, editors and capacities:

- `EnrollmentProofs!TypeCorrect`, `LocksHold`, `NeverOverbooked`,
  `CountedExactly`: no further assumption.
- `Refinement` and `Capacity` assume `Editors = {}`: a staff request may
  lower the capacity below the number of students already enrolled.

The inductive invariant `IInv` is `TypeOK`, `WorkerState` (what a request has
written goes with its step) and `LockDiscipline`. The last one carries the
argument: a limited enrollment between its check and its commit holds the
course row, every other commit needs that row, so neither the number of
active students nor the capacity can change under it. Every table is written
by `Commit` and `EditSave` only (`TablesChange`), each needs the course free
or its own (`LockedTables`), so the step of another request leaves what was
checked alone (`LocalChange`). `Aware` adds that without editors the loaded
limit is the present one.

For all clients, scores, statuses and bounds of `PersonalAssignment`:

- `PersonalAssignmentProofs!TypeCorrect`, `NoLostReview`, `SolutionIsGentle`,
  `AuditAccounts`: no further assumption, whole-row saves, gradebooks and
  imports included.
- `Refinement` and `HistoryExplains` assume `Gradebooks = {}` and
  `RowSavers = {}`: a gradebook commits the score before its record, a
  whole-row save may write any status and no record.

Here `IInv` is `TypeOK` and `ClientState` of every client: who holds the row,
that the row still is what the form showed, and how the transaction's own
version differs from it. `Undisturbed` says what a client's state depends on,
`OthersUndisturbed` that the row lock keeps all other steps away from it,
`OwnStep` that the client's own steps keep it. `AuditAccounts` adds `OweOne`
(a gradebook owes one record at most, between its two statements) and follows
the books: `Ledger` sorts the steps into those that change nothing of the
score or the log, those that publish a score with its record, those that
leave a record owed and those that pay it, and each keeps the balance of the
two counts, whose sums are lemmas about cardinalities (`LogCounts`,
`OwedCounts`).

For all students, queue workers, requests, tasks and clocks of `JbaProgress`:

- `JbaProgressProofs!TypeCorrect`, `ChainGoesOn`, `OlderAnswersLose`,
  `DeadlineIsKept`: no further assumption, failures included.

Here `IInv` is the types, the chain itself (`PollingGoesOn`) and `Informed`:
what an update has loaded and fetched is not ahead of what the student has
solved, the scores it loaded are not ahead of the answer it got, and whether
it sets scores agrees with what it knew of the deadline (`Knows`). The order
in the code makes it inductive: scores are loaded before the service is
asked, and solved tasks stay solved (`WorldGoesOn`), so an update whose
answer is older than another's finds a score it has not loaded and is refused
(`OlderAnswersLose`). `WhoWritesScores` and `OneActor` reduce a step to the
one update that takes it.

For all students, program runs, groups, assignments and workers of
`CourseGroups`:

- `CourseGroupsProofs!TypeCorrect`, `DefaultGroupIsKept`, `RestrictionsLast`,
  `ActiveStudentsStay`, `TransfersLoseNothing`, `TransfersGiveWork`,
  `EnrollmentGivesWork`, `CourseGroupsKeys!ForeignKeysAreKept`: no further
  assumption.

`IInv` is the types, `Exclusive` (no two transactions have written the same
row), `FirstIsDefault` (group 1 of a manual course is its default group and
the only one) and `WorkerState` of every worker: which request may be at
which step (`Errand`, `ManualErrand`), what its open transaction may have
written (`Uncommitted`, which names for each row the requests that write it),
and what it relies on for the rest of its way (`Enrolls`, `Leaves`, `Removes`,
`Transfers`: for example that the groups a transfer has compared still have
these restrictions unless somebody edited an assignment, which `raced`
remembers). `Actor` classifies a step: inside a transaction it shows nothing to
others, outside one it writes only what harms nobody (`Harmless`), and a
commit shows what `Uncommitted` allows. What each request relies on survives
the other workers' steps of each class (`OthersKeepTheirState`), because
locks keep others from its rows and the remaining writes are of rows it has
no claim on; its own steps keep it action by action.

`ForeignKeysAreKept` is not among the runs' properties (TLC agrees with it on
the instance of `groups`). A commit checks the keys, so the statements outside
of any transaction carry the argument, and they rely on what was found steps
earlier. `Grounded` says what lasts: only a leave request writes groups in its
transaction, what it or a removal takes away is not, and never becomes, a
default group, and a removal sends those who left to a default group. Groups
change their types in one direction (`GroupsLast`, `Succeeds`), so a default
group found is there when the UPDATE runs; that PROTECT finds nobody in the
group and no assignment restricted to it, and that the collector takes it from
the class, makes the DELETE safe.

For all users, requests, queue workers and numbers of records of
`NotificationDelivery`:

- `NotificationDeliveryProofs!TypeCorrect`, `NobodyIsEmailedTwice`,
  `RecordIsTrue`, `ReadIsQuiet`, `MailingProofs!Refinement`,
  `NothingIsTriedAgain`: no further assumption; failures of the mail
  server, of workers and of jobs that run before their transaction commits
  included.

`IInv` is the shape of queue and jobs and, for every record, `Traced`: its id
is in one place only, a request, the queue, the schedule or one job (`Once`),
what was sent agrees with where it is (`Accounted`), and what was read or
deleted before a job loaded it is held by no job (`LeftAlone`). There
is no lock on `is_notified`; that an id is handed on and never copied is what
keeps the email from going out twice.

The refinement of `Mailing` needs one more fact, `Forgotten`: a record that was
given up waits in no request, queue or schedule, and no job holds it but one
that has sent it before it was interrupted. With it every step moves the
notifications it names from one status to the next and leaves the others as
they are: a commit announces, a rollback takes back, a worker's message is
`Email`, an exception or an early job `GiveUp`, a reader `DealWith`, and a
save, a queued job or a reloaded row is a stutter. `NothingIsTriedAgain` is
proved of `Mailing` and holds of the code through the mapping: a copy of a
record that a worker saves late revives nothing.

For all requests, numbers of profiles, program runs, bindings and staff of
`CourseAccess`, with the tables of `Permissions` as the code registers them:

- `CourseAccessProofs!TypeCorrect`, `PermissionIsKept`, `StudiesFirst`,
  `RolesAreEarned`, `PageBeforeItsButtons`, `MaterialsAfterThePage`,
  `RolesAreAdditive`, `MoreRolesAllowMore`: no further assumption. The last
  one is about every state, reachable or not, every permission and any two
  sets of roles, one within the other; `RolesAreAdditive` follows from it.

`IInv` is `TypeOK` with `Prioritized` (the priority column is the one its type
and status give), `Agreed` (all that is known of a profile's id, in the table
and in requests under way, agrees on its type and run), `NobodyRefused` (an
enrolling request has a binding to enroll through, whatever is known of its
profile) and `Orderly` (while no two changes of profiles have overlapped,
the roles are those of the profiles but for what a half-done request still
owes them). That the profile that counts is first by priority uses that a
non-empty set of ids has a least element (well-foundedness of `<`); the
theorems about permissions go through the registered tables case by case
(`MayViewCourse`, `WhoSeesCourses`).

The constants' assumptions are those named in the modules: the students of a
course, the users of a notification and the gradebooks open on one row are
finitely many; capacities, tasks and times are natural numbers; `NoOne` is
nobody, a client or an actor has one role; `not_submitted` and `on_checking`
are statuses of work, and a profile's status is none but `normal`, `expelled`
or `graduated`; a course has room for the two groups that a manual course may
start with, a person for one profile.

Only model-checked: the liveness properties (`RequestsFinish`, `StatsCatchUp`,
`EverybodyIsNotified`, `ResultsAreUpdated`) and `SomebodyGoesOn`, which is
about ENABLED; neither is within the prover's reach. `SomebodyGoesOn` is
checked with two workers and claimed for no more than that: should longer
rings of waits exist among three, PostgreSQL would abort one of them, as it
does for `Enrollment`. Every other property of a passing run is a theorem.

## 5. What is not modelled

- Enrollment: the whole-row save of `EnrollmentAdmin`; final grades
  (`update_enrollment_grade` is the compare-and-set of the scores again, with
  a log entry of its own).
- PersonalAssignment: drafts, penalties, execution time, attachments, the
  balancing modes of the automatic assignee (`SaveAssignee` takes any teacher
  the modes may return, or none), a student who is in a CSV file twice.
- CourseGroups: an edit of an assignment saves and synchronises in one step
  and then commits, and one that would meet the rows of another transaction
  waits or does nothing; the order in which one statement locks its rows;
  groups by program, renaming, assignees and buckets of groups, unsafe
  transfers with their score resets (no view asks for one).
- NotificationDelivery: requests that notify nobody; how old a term must be
  for the clean-up; the texts; the generic mailing of `notifications/models.py`,
  for which nothing creates records.
- JbaProgress: the rounding of scores, assignments without tasks, drafts,
  deleted comments, a deadline that moves back, what rq does with the id of a
  running job, the account name results are looked up by.
- CourseAccess: roles given by hand, new and anonymous accounts, the error of
  `CourseEnrollView` for a person without a profile, free seats, the opening
  time of an assignment, the time spent on it; the year of admission is
  ordered as the profiles are.
- Crashes of a web worker. A transaction that dies is a rollback; what is
  lost is a gradebook's record (`LogScore`) or the job of `on_commit`.
- A lost queue: redis is taken to keep its jobs.
- The components marked `not_modelled` in `PROJECT.json`. Nothing creates a
  `Task` and nothing but a command nobody schedules takes the redis lock.

Most lines of the repository are tests, migrations, templates, forms, admin
lists, exports and settings, which have no behaviour of this kind.

## 6. Plan

1. Enrollment, `CourseSeats`; PersonalAssignment, `ReviewedWork`: done, proved.
2. `JbaProgress`: done, its safety properties proved.
3. `CourseGroups`, `NotificationDelivery`, `CourseAccess`: done, their safety
   properties proved.
4. `Mailing` refined, the foreign keys of `CourseGroups`, more roles allow
   more: done, proved. What is left to proofs is out of the prover's reach
   (liveness, ENABLED).
5. To model: crashes of web workers in `PersonalAssignment`, final grades
   with their import, a composition of `Enrollment` and `CourseGroups` that
   leaves out neither the seats nor the groups.
