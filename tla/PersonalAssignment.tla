-------------------------- MODULE PersonalAssignment --------------------------
(***************************************************************************)
(* One StudentAssignment row and everybody who writes it at the same time: *)
(* teachers who publish a review, teachers who fill the gradebook, the     *)
(* student who submits solutions and comments, the REST API and the admin  *)
(* site that save the whole row, and the queue workers that recompute the  *)
(* row's statistics after a submission.                                    *)
(*                                                                         *)
(* The database is PostgreSQL at READ COMMITTED, as in Enrollment.tla: the *)
(* first write of a transaction locks the row until it ends.  What a       *)
(* transaction has written is in mine and owed until it commits.           *)
(***************************************************************************)
EXTENDS Integers, Sequences, FiniteSets

CONSTANTS
  Reviewers,      (* teachers with the review form open                    *)
  Gradebooks,     (* teachers with the gradebook, or a file of scores, open*)
  Submitters,     (* requests of the student                               *)
  RowSavers,      (* requests that save the whole row: REST API, admin site*)
  StatsWorkers,   (* workers of the default queue                          *)
  Scores,         (* the scores up to assignment.maximum_score             *)
  Statuses,       (* assignment.statuses                                   *)
  Teachers,       (* the course teachers                                   *)
  NoScore,        (* the score of work nobody has graded (NULL)            *)
  NoTeacher,      (* the assignee of work nobody is assigned to (NULL)     *)
  NoOne,          (* the holder of a free row lock                         *)
  MaxSubmissions, (* bound: solutions the student submits                  *)
  MaxJobs,        (* bound: statistics jobs waiting when one is added      *)
  MaxLog,         (* bound: audit records when a score is posted           *)
  MaxSaves        (* bound: saves of the whole row                         *)

Clients == Reviewers \union Gradebooks \union Submitters \union RowSavers

ASSUME ScoresAreKnown == NoScore \notin Scores
ASSUME StatusesAreKnown == {"not_submitted", "on_checking"} \subseteq Statuses
ASSUME NoOneIsNobody == NoOne \notin Clients
ASSUME RolesAreApart ==
  /\ Reviewers \intersect (Gradebooks \union Submitters \union RowSavers) = {}
  /\ Gradebooks \intersect (Submitters \union RowSavers) = {}
  /\ Submitters \intersect RowSavers = {}
ASSUME FiniteGradebooks == IsFiniteSet(Gradebooks)
ASSUME BoundsAreNat == {MaxSubmissions, MaxJobs, MaxLog, MaxSaves} \subseteq Nat

VARIABLES
  row,        (* the StudentAssignment row                                 *)
  log,        (* its AssignmentScoreAuditLog records, in order of insertion*)
  submitted,  (* its published solutions                                   *)
  jobs,       (* update_student_assignment_stats jobs in the queue         *)
  saves,      (* saves of the whole row so far                             *)
  rowLock,    (* the client whose transaction has locked the row           *)
  pc,         (* client -> its next step                                   *)
  form,       (* teacher -> the values of the form: shown and entered      *)
  loaded,     (* client -> the row as the request loaded it                *)
  mine,       (* client -> the row with what its transaction has written   *)
  owed,       (* client -> the audit record it has yet to make visible     *)
  isSolution, (* submitter -> a solution, not a comment                    *)
  seen        (* worker -> the solutions it counted, or none               *)

tables == <<row, log, submitted, jobs>>
txn    == <<rowLock, mine, owed>>
local  == <<form, loaded, isSolution>>
vars   == <<tables, saves, txn, pc, local, seen>>

Grades == Scores \union {NoScore}
Rows   == [score : Grades, status : Statuses, assignee : Teachers \union {NoTeacher},
           trigger : BOOLEAN, stats : Nat]
Forms  == [score_old : Grades, score : Grades,
           status_old : Statuses, status : Statuses]
Changes == [score_old : Grades, score_new : Grades]

(* A StudentAssignment as AssignmentService creates it.                    *)
NewRow == [score |-> NoScore, status |-> "not_submitted", assignee |-> NoTeacher,
           trigger |-> TRUE, stats |-> 0]

(* A form that shows, and would leave, what r's row holds.                 *)
FormOf(r) == [score_old |-> r.score, score |-> r.score,
              status_old |-> r.status, status |-> r.status]

NoForm == FormOf(NewRow)

-------------------------------------------------------------------------------
Go(c, from, to) ==
  /\ pc[c] = from
  /\ pc' = [pc EXCEPT ![c] = to]

RowFree(c) == rowLock \in {NoOne, c}

(* The row as a statement of c's transaction sees it.                      *)
Visible(c) == IF rowLock = c THEN mine[c] ELSE row

(* An UPDATE of c's transaction: the row stays locked until it ends.       *)
Write(c, r) ==
  /\ rowLock' = c
  /\ mine' = [mine EXCEPT ![c] = r]

(* The end of c's transaction.                                             *)
Release(c) ==
  /\ rowLock' = IF rowLock = c THEN NoOne ELSE rowLock
  /\ mine' = [mine EXCEPT ![c] = NewRow]
  /\ owed' = [owed EXCEPT ![c] = << >>]

(* Mutant: a record even of a score that stays.                            *)
RecordAlways(old, new) == << [score_old |-> old, score_new |-> new] >>

(* The audit record of a change; a score that stays is not recorded.       *)
Record(old, new) ==
  IF new = old THEN << >> ELSE << [score_old |-> old, score_new |-> new] >>

(* StudentAssignment.is_status_transition_allowed, on the row r: the       *)
(* solutions it knows of are those of its statistics.                      *)
TransitionAllowed(r, status) ==
  /\ status \in Statuses
  /\ ~ (status = "not_submitted" /\ r.stats > 0)

-------------------------------------------------------------------------------
Init ==
  /\ row = NewRow
  /\ log = << >>
  /\ submitted = 0
  /\ jobs = 0
  /\ saves = 0
  /\ rowLock = NoOne
  /\ pc = [c \in Clients |-> "idle"]
  /\ form = [c \in Reviewers \union Gradebooks |-> NoForm]
  /\ loaded = [c \in Clients |-> NewRow]
  /\ mine = [c \in Clients |-> NewRow]
  /\ owed = [c \in Clients |-> << >>]
  /\ isSolution = [s \in Submitters |-> FALSE]
  /\ seen = [w \in StatsWorkers |-> << >>]

(***************************************************************************)
(* The review form: StudentAssignmentDetailView.                           *)
(***************************************************************************)

(* GET, or the page shown again after a conflict (refresh_from_db): the    *)
(* hidden fields score_old and status_old hold what the teacher sees.      *)
ShowReview(c) ==
  /\ \/ Go(c, "idle", "form")
     \/ Go(c, "refresh", "form")
  /\ form' = [form EXCEPT ![c] = FormOf(row)]
  /\ UNCHANGED <<tables, saves, txn, loaded, isSolution, seen>>

(* POST of a published review.  form.clean asks for a valid transition     *)
(* from the row this request has just loaded.                              *)
PostReview(c, score, status) ==
  /\ Len(log) < MaxLog /\ jobs < MaxJobs
  /\ TransitionAllowed(row, status)
  /\ Go(c, "form", "cas_score")
  /\ form' = [form EXCEPT ![c].score = score, ![c].status = status]
  /\ UNCHANGED <<tables, saves, txn, loaded, isSolution, seen>>

(* POST of an invalid form (no change, a forbidden status): shown again.   *)
PostInvalid(c) ==
  /\ Go(c, "form", "refresh")
  /\ form' = [form EXCEPT ![c] = NoForm]
  /\ UNCHANGED <<tables, saves, txn, loaded, isSolution, seen>>

(* Mutant: the UPDATE does not compare the score.                          *)
CasScoreBlind(c) ==
  /\ RowFree(c)
  /\ Go(c, "cas_score", "cas_status")
  /\ Write(c, [row EXCEPT !.score = form[c].score])
  /\ owed' = [owed EXCEPT ![c] = Record(form[c].score_old, form[c].score)]
  /\ UNCHANGED <<tables, saves, local, seen>>

(* update_personal_assignment_score: UPDATE ... WHERE score = score_old.   *)
CasScore(c) ==
  /\ RowFree(c)
  /\ row.score = form[c].score_old
  /\ Go(c, "cas_score", "cas_status")
  /\ Write(c, [row EXCEPT !.score = form[c].score])
  /\ owed' = [owed EXCEPT ![c] = Record(form[c].score_old, form[c].score)]
  /\ UNCHANGED <<tables, saves, local, seen>>

(* Mutant: the UPDATE does not compare the status.                         *)
CasStatusBlind(c) ==
  /\ Go(c, "cas_status", "publish")
  /\ Write(c, [mine[c] EXCEPT !.status = form[c].status])
  /\ UNCHANGED <<tables, saves, owed, local, seen>>

(* update_personal_assignment_status: UPDATE ... WHERE status = status_old,*)
(* in the same transaction.                                                *)
CasStatus(c) ==
  /\ mine[c].status = form[c].status_old
  /\ Go(c, "cas_status", "publish")
  /\ Write(c, [mine[c] EXCEPT !.status = form[c].status])
  /\ UNCHANGED <<tables, saves, owed, local, seen>>

(* Either UPDATE matched no row: ValidationError "The score or status has  *)
(* been changed by someone", and the transaction is rolled back.           *)
Conflict(c) ==
  /\ \/ /\ Go(c, "cas_score", "refresh")
        /\ RowFree(c)
        /\ row.score # form[c].score_old
     \/ /\ Go(c, "cas_status", "refresh")
        /\ mine[c].status # form[c].status_old
  /\ Release(c)
  /\ form' = [form EXCEPT ![c] = NoForm]
  /\ UNCHANGED <<tables, saves, loaded, isSolution, seen>>

(* The comment is published (a teacher's comment assigns nobody) and the   *)
(* transaction commits; on commit a statistics job is queued.              *)
PublishReview(c) ==
  /\ Go(c, "publish", "idle")
  /\ row' = mine[c]
  /\ log' = log \o owed[c]
  /\ jobs' = jobs + 1
  /\ Release(c)
  /\ form' = [form EXCEPT ![c] = NoForm]
  /\ UNCHANGED <<submitted, saves, loaded, isSolution, seen>>

(***************************************************************************)
(* The gradebook and the import of scores into it: no transaction, each    *)
(* statement commits on its own.                                           *)
(***************************************************************************)

ShowGradebook(c) ==
  /\ Go(c, "idle", "form")
  /\ form' = [form EXCEPT ![c] = FormOf(row)]
  /\ UNCHANGED <<tables, saves, txn, loaded, isSolution, seen>>

(* POST of a changed score; the gradebook is loaded again.                 *)
PostScore(c, score) ==
  /\ Len(log) < MaxLog
  /\ score # form[c].score_old
  /\ Go(c, "form", "cas_score")
  /\ form' = [form EXCEPT ![c].score = score]
  /\ loaded' = [loaded EXCEPT ![c] = row]
  /\ UNCHANGED <<tables, saves, txn, isSolution, seen>>

(* Mutant: the UPDATE does not compare the score.                          *)
GradebookCasBlind(c) ==
  /\ RowFree(c)
  /\ Go(c, "cas_score", "log_score")
  /\ row' = [row EXCEPT !.score = form[c].score]
  /\ owed' = [owed EXCEPT ![c] = Record(form[c].score_old, form[c].score)]
  /\ UNCHANGED <<log, submitted, jobs, saves, rowLock, mine, local, seen>>

(* assignment_import_scores_from_csv: the score in the file is to replace  *)
(* the one the request loads with the course's work.                       *)
BeginImport(c, score) ==
  /\ Len(log) < MaxLog
  /\ Go(c, "idle", "cas_import")
  /\ form' = [form EXCEPT ![c] = [FormOf(row) EXCEPT !.score = score]]
  /\ UNCHANGED <<tables, saves, txn, loaded, isSolution, seen>>

(* The same UPDATE ... WHERE score = score_old, committed at once.         *)
GradebookCas(c) ==
  /\ RowFree(c)
  /\ row.score = form[c].score_old
  /\ \/ Go(c, "cas_score", "log_score")
     \/ Go(c, "cas_import", "log_score")
  /\ row' = [row EXCEPT !.score = form[c].score]
  /\ owed' = [owed EXCEPT ![c] = Record(form[c].score_old, form[c].score)]
  /\ UNCHANGED <<log, submitted, jobs, saves, rowLock, mine, local, seen>>

(* No row matched: the page is shown again, and its hidden score is the one*)
(* that the POST loaded.                                                   *)
GradebookConflict(c) ==
  /\ RowFree(c)
  /\ row.score # form[c].score_old
  /\ Go(c, "cas_score", "form")
  /\ form' = [form EXCEPT ![c] = FormOf(loaded[c])]
  /\ loaded' = [loaded EXCEPT ![c] = NewRow]
  /\ UNCHANGED <<tables, saves, txn, isSolution, seen>>

(* ...or the import goes on to its next row: nobody looks at the result.   *)
PassOver(c) ==
  /\ RowFree(c)
  /\ row.score # form[c].score_old
  /\ Go(c, "cas_import", "idle")
  /\ form' = [form EXCEPT ![c] = NoForm]
  /\ UNCHANGED <<tables, saves, txn, loaded, isSolution, seen>>

(* AssignmentScoreAuditLog.save(): a later statement.                      *)
LogScore(c) ==
  /\ Go(c, "log_score", "idle")
  /\ log' = log \o owed[c]
  /\ owed' = [owed EXCEPT ![c] = << >>]
  /\ form' = [form EXCEPT ![c] = NoForm]
  /\ loaded' = [loaded EXCEPT ![c] = NewRow]
  /\ UNCHANGED <<row, submitted, jobs, saves, rowLock, mine, isSolution, seen>>

(***************************************************************************)
(* The student: create_assignment_solution, create_assignment_comment and  *)
(* the maybe_set_assignee_for_personal_assignment they both end in.        *)
(***************************************************************************)

BeginSolution(c) ==
  /\ submitted < MaxSubmissions /\ jobs < MaxJobs
  /\ Go(c, "idle", "lock_row")
  /\ isSolution' = [isSolution EXCEPT ![c] = TRUE]
  /\ UNCHANGED <<tables, saves, txn, form, loaded, seen>>

BeginComment(c) ==
  /\ jobs < MaxJobs
  /\ Go(c, "idle", "read_assignee")
  /\ UNCHANGED <<tables, saves, txn, local, seen>>

(* Mutant: the status is read without a lock and written at once.          *)
SubmitUnlocked(c) ==
  /\ Go(c, "lock_row", "read_assignee")
  /\ mine' = [mine EXCEPT ![c] = [row EXCEPT !.status = "on_checking"]]
  /\ rowLock' = c
  /\ UNCHANGED <<tables, saves, owed, local, seen>>

(* select_for_update, then the status moves to ON_CHECKING from whatever   *)
(* the locked row holds.                                                   *)
SubmitSolution(c) ==
  /\ RowFree(c)
  /\ Go(c, "lock_row", "read_assignee")
  /\ Write(c, [row EXCEPT !.status = "on_checking"])
  /\ UNCHANGED <<tables, saves, owed, local, seen>>

(* The submission is saved; its row is read to see whether the student's   *)
(* activity should assign a teacher.                                       *)
ReadAssignee(c) ==
  /\ Go(c, "read_assignee",
        IF Visible(c).trigger THEN "save_assignee" ELSE "publish")
  /\ loaded' = [loaded EXCEPT ![c] = Visible(c)]
  /\ UNCHANGED <<tables, saves, txn, form, isSolution, seen>>

(* Enrollment.DoesNotExist: the student has left, the trigger stays.       *)
KeepTrigger(c) ==
  /\ loaded[c].assignee = NoTeacher
  /\ Go(c, "save_assignee", "publish")
  /\ UNCHANGED <<tables, saves, txn, local, seen>>

(* UPDATE of trigger_auto_assign, and of assignee when nobody was assigned *)
(* in the row read before and the candidates came to one teacher t.        *)
SaveAssignee(c, t) ==
  /\ RowFree(c)
  /\ Go(c, "save_assignee", "publish")
  /\ LET assigns == loaded[c].assignee = NoTeacher /\ t # NoTeacher
     IN  Write(c, [Visible(c) EXCEPT !.trigger = FALSE,
                                     !.assignee = IF assigns THEN t ELSE @])
  /\ UNCHANGED <<tables, saves, owed, local, seen>>

(* Mutant: no job is queued while a worker is running one.                 *)
PublishOnce(c) ==
  /\ Go(c, "publish", "idle")
  /\ row' = Visible(c)
  /\ submitted' = submitted + (IF isSolution[c] THEN 1 ELSE 0)
  /\ jobs' = IF \E w \in StatsWorkers : seen[w] # << >> THEN jobs ELSE jobs + 1
  /\ Release(c)
  /\ loaded' = [loaded EXCEPT ![c] = NewRow]
  /\ isSolution' = [isSolution EXCEPT ![c] = FALSE]
  /\ UNCHANGED <<log, saves, form, seen>>

(* The transaction commits; on commit a statistics job is queued.          *)
PublishSubmission(c) ==
  /\ Go(c, "publish", "idle")
  /\ row' = Visible(c)
  /\ submitted' = submitted + (IF isSolution[c] THEN 1 ELSE 0)
  /\ jobs' = jobs + 1
  /\ Release(c)
  /\ loaded' = [loaded EXCEPT ![c] = NewRow]
  /\ isSolution' = [isSolution EXCEPT ![c] = FALSE]
  /\ UNCHANGED <<log, saves, form, seen>>

(***************************************************************************)
(* Whole-row saves: StudentAssignmentUpdate, StudentAssignmentAssignee-    *)
(* Update (REST API) and StudentAssignmentAdmin.  Model.save() writes every*)
(* column, those it did not mean to change with the values it loaded.      *)
(***************************************************************************)

LoadRow(c) ==
  /\ saves < MaxSaves
  /\ Go(c, "idle", "save_row")
  /\ loaded' = [loaded EXCEPT ![c] = row]
  /\ UNCHANGED <<tables, saves, txn, form, isSolution, seen>>

SaveRow(c, r) ==
  /\ RowFree(c)
  /\ Go(c, "save_row", "idle")
  /\ row' = r
  /\ saves' = saves + 1
  /\ loaded' = [loaded EXCEPT ![c] = NewRow]
  /\ UNCHANGED <<submitted, jobs, txn, form, isSolution, seen>>

ApiSaveScore(c, score) ==
  /\ SaveRow(c, [loaded[c] EXCEPT !.score = score])
  /\ UNCHANGED log

ApiSaveAssignee(c, t) ==
  /\ SaveRow(c, [loaded[c] EXCEPT !.assignee = t])
  /\ UNCHANGED log

(* save_model saves the row with the score it loaded, then moves the score *)
(* with update_personal_assignment_score, in one transaction.              *)
AdminSave(c, score, status, t) ==
  /\ SaveRow(c, [loaded[c] EXCEPT !.score = score, !.status = status, !.assignee = t])
  /\ log' = log \o Record(loaded[c].score, score)

(***************************************************************************)
(* The queue: update_student_assignment_stats.                             *)
(***************************************************************************)

(* Mutant: the worker does not wait for a job.                             *)
CountUnasked(w) ==
  /\ seen[w] = << >>
  /\ jobs' = jobs - 1
  /\ seen' = [seen EXCEPT ![w] = <<submitted>>]
  /\ UNCHANGED <<row, log, submitted, saves, txn, pc, local>>

(* A job is taken and the published solutions are counted...               *)
CountSolutions(w) ==
  /\ jobs > 0
  /\ seen[w] = << >>
  /\ jobs' = jobs - 1
  /\ seen' = [seen EXCEPT ![w] = <<submitted>>]
  /\ UNCHANGED <<row, log, submitted, saves, txn, pc, local>>

(* ...and the count is written, whatever was published in between.         *)
WriteStats(w) ==
  /\ seen[w] # << >>
  /\ rowLock = NoOne
  /\ row' = [row EXCEPT !.stats = seen[w][1]]
  /\ seen' = [seen EXCEPT ![w] = << >>]
  /\ UNCHANGED <<log, submitted, jobs, saves, txn, pc, local>>

-------------------------------------------------------------------------------
Review(c) ==
  \/ ShowReview(c) \/ PostInvalid(c)
  \/ \E score \in Grades, status \in Statuses : PostReview(c, score, status)
  \/ CasScore(c) \/ CasStatus(c) \/ Conflict(c) \/ PublishReview(c)

FillGradebook(c) ==
  \/ ShowGradebook(c)
  \/ \E score \in Grades : PostScore(c, score) \/ BeginImport(c, score)
  \/ GradebookCas(c) \/ GradebookConflict(c) \/ PassOver(c) \/ LogScore(c)

Submit(c) ==
  \/ BeginSolution(c) \/ BeginComment(c)
  \/ SubmitSolution(c) \/ ReadAssignee(c) \/ KeepTrigger(c)
  \/ \E t \in Teachers \union {NoTeacher} : SaveAssignee(c, t)
  \/ PublishSubmission(c)

Save(c) ==
  \/ LoadRow(c)
  \/ \E score \in Grades : ApiSaveScore(c, score)
  \/ \E t \in Teachers \union {NoTeacher} : ApiSaveAssignee(c, t)
  \/ \E score \in Grades, status \in Statuses, t \in Teachers \union {NoTeacher} :
       AdminSave(c, score, status, t)

UpdateStats(w) == CountSolutions(w) \/ WriteStats(w)

Next ==
  \/ \E c \in Reviewers : Review(c)
  \/ \E c \in Gradebooks : FillGradebook(c)
  \/ \E c \in Submitters : Submit(c)
  \/ \E c \in RowSavers : Save(c)
  \/ \E w \in StatsWorkers : UpdateStats(w)

Spec == Init /\ [][Next]_vars

(* A request that has begun goes on to its answer, and PostgreSQL grants   *)
(* the row lock in the order of arrival; queue workers take jobs as long as*)
(* there are any.  Nobody has to send a request or fill a form.            *)
Answering(c) == pc[c] \notin {"idle", "form"}

Fairness ==
  /\ \A c \in Reviewers : SF_vars(Answering(c) /\ Review(c))
  /\ \A c \in Gradebooks : SF_vars(Answering(c) /\ FillGradebook(c))
  /\ \A c \in Submitters : SF_vars(Answering(c) /\ Submit(c))
  /\ \A c \in RowSavers : SF_vars(Answering(c) /\ Save(c))
  /\ \A w \in StatsWorkers : SF_vars(UpdateStats(w))

FairSpec == Spec /\ Fairness

-------------------------------------------------------------------------------
(* Every variable has its type.                                            *)
TypeOK ==
  /\ row \in Rows
  /\ log \in Seq(Changes)
  /\ {submitted, jobs, saves} \subseteq Nat
  /\ rowLock \in Clients \union {NoOne}
  /\ pc \in [Clients -> {"idle", "form", "cas_score", "cas_status", "refresh",
                         "publish", "cas_import", "log_score", "lock_row", "read_assignee",
                         "save_assignee", "save_row"}]
  /\ form \in [Reviewers \union Gradebooks -> Forms]
  /\ loaded \in [Clients -> Rows]
  /\ mine \in [Clients -> Rows]
  /\ owed \in [Clients -> Seq(Changes)]
  /\ isSolution \in [Submitters -> BOOLEAN]
  /\ seen \in [StatsWorkers -> Seq(Nat)]

(* A review that is published replaces the score and the status its author *)
(* saw, not values somebody stored meanwhile (personal_assignment_service: *)
(* "The score or status has been changed by someone").                     *)
ReviewReplacesWhatItShowed ==
  [][\A c \in Reviewers :
       pc[c] = "publish" /\ pc'[c] = "idle" =>
         /\ row.score = form[c].score_old
         /\ row.status = form[c].status_old]_vars

(* A solution puts the work on checking and keeps the score, the statistics*)
(* and an assignee that somebody has set, whatever is saved meanwhile.     *)
SolutionKeepsTheRest ==
  [][\A c \in Submitters :
       isSolution[c] /\ pc[c] = "publish" /\ pc'[c] = "idle" =>
         /\ row' = [row EXCEPT !.status = "on_checking", !.trigger = row'.trigger,
                               !.assignee = row'.assignee]
         /\ row.assignee \in {NoTeacher, row'.assignee}]_vars

(* The changes that left or reached a score, recorded or about to be.      *)
Moved(field, score) ==
  Cardinality({i \in DOMAIN log : log[i][field] = score}) +
  Cardinality({c \in Gradebooks :
                 owed[c] # << >> /\ owed[c][1][field] = score})

IsScore(actual, score) == IF actual = score THEN 1 ELSE 0

(* The audit log accounts for the score: as long as nobody saves the whole *)
(* row, every score is reached by one change more than it is left by       *)
(* exactly when it is the present score (the first one counts as reached). *)
AuditBalanced ==
  saves = 0 =>
    \A score \in Grades :
      Moved("score_new", score) + IsScore(NoScore, score) =
        Moved("score_old", score) + IsScore(row.score, score)

(* The transactions implement the one-step gradings and submissions of     *)
(* ReviewedWork.                                                           *)
Work == INSTANCE ReviewedWork
          WITH score <- row.score, status <- row.status, history <- log

ImplementsWork == Work!Spec

(* Reading the audit log from the first record to the last explains the    *)
(* present score: each record starts where the one before it ended (without*)
(* a gradebook, whose records may be inserted out of order, and without    *)
(* whole-row saves, which write none).                                     *)
HistoryExplainsWork == Work!HistoryExplainsScore

(* The statistics count every solution in the end: with one queue worker   *)
(* and no whole-row saves, no job is lost to an early count.               *)
StatsCatchUp ==
  \A n \in 1..MaxSubmissions : submitted >= n ~> row.stats >= n

(* An assignee that somebody has set is never replaced by the automatic one*)
(* (personal_assignment_service.py: "Do not overwrite assignee if someone  *)
(* already set the value.").                                               *)
AutoAssignKeepsAssignee ==
  [][\A c \in Submitters :
       pc[c] = "publish" /\ pc'[c] = "idle" =>
         row.assignee \in {NoTeacher, row'.assignee}]_vars
===============================================================================
