----------------------- MODULE PersonalAssignmentProofs -----------------------
(***************************************************************************)
(* Proofs, for any teachers, requests, scores and bounds, that reviews and *)
(* solutions are atomic, and that without a gradebook and whole-row saves  *)
(* PersonalAssignment.tla implements ReviewedWork.tla.                     *)
(***************************************************************************)
EXTENDS PersonalAssignment, SequenceTheorems, FiniteSetTheorems, TLAPS

-------------------------------------------------------------------------------
(* A row with some columns replaced, a form that shows a row and an audit  *)
(* record are of their types.                                              *)
LEMMA RecordsAreTyped ==
  /\ NewRow \in Rows
  /\ NoForm \in Forms
  /\ \A r \in Rows : FormOf(r) \in Forms
  /\ \A old, new \in Grades : Record(old, new) \in Seq(Changes)
<1>1. NewRow \in Rows
  BY StatusesAreKnown DEF NewRow, Rows, Grades
<1>2. \A r \in Rows : FormOf(r) \in Forms
  BY DEF FormOf, Rows, Forms
<1>3. NoForm \in Forms
  BY <1>1, <1>2 DEF NoForm
<1>4. \A old, new \in Grades : Record(old, new) \in Seq(Changes)
  <2> SUFFICES ASSUME NEW old \in Grades, NEW new \in Grades
               PROVE  Record(old, new) \in Seq(Changes)
    OBVIOUS
  <2>1. [score_old |-> old, score_new |-> new] \in Changes
    BY DEF Changes
  <2>2. << [score_old |-> old, score_new |-> new] >> \in Seq(Changes)
    BY <2>1
  <2>3. << >> \in Seq(Changes)
    OBVIOUS
  <2>4. QED
    BY <2>2, <2>3 DEF Record
<1>5. QED
  BY <1>1, <1>2, <1>3, <1>4

(* The initial state is well typed.                                        *)
LEMMA TypedInit == Init => TypeOK
  BY RecordsAreTyped, NoOneIsNobody, BoundsAreNat DEF Init, TypeOK

(* No step breaks a type.                                                  *)
LEMMA TypedNext == TypeOK /\ [Next]_vars => TypeOK'
<1> SUFFICES ASSUME TypeOK, [Next]_vars
             PROVE  TypeOK'
  OBVIOUS
<1> USE DEF TypeOK, tables, txn, local, Go, Clients
<1>1. ASSUME NEW c \in Reviewers, Review(c)
      PROVE  TypeOK'
  <2>1. CASE ShowReview(c)
    BY <2>1, RecordsAreTyped DEF ShowReview
  <2>2. CASE PostInvalid(c)
    BY <2>2, RecordsAreTyped DEF PostInvalid
  <2>3. ASSUME NEW score \in Grades, NEW status \in Statuses,
               PostReview(c, score, status)
        PROVE  TypeOK'
    <3>1. [form[c] EXCEPT !.score = score, !.status = status] \in Forms
      BY DEF Forms
    <3>2. QED
      BY <2>3, <3>1 DEF PostReview
  <2>4. CASE CasScore(c)
    <3>1. [row EXCEPT !.score = form[c].score] \in Rows
      BY DEF Rows, Forms
    <3>2. Record(form[c].score_old, form[c].score) \in Seq(Changes)
      BY RecordsAreTyped DEF Forms
    <3>3. QED
      BY <2>4, <3>1, <3>2 DEF CasScore, Write
  <2>5. CASE CasStatus(c)
    <3>1. [mine[c] EXCEPT !.status = form[c].status] \in Rows
      BY DEF Rows, Forms
    <3>2. QED
      BY <2>5, <3>1 DEF CasStatus, Write
  <2>6. CASE Conflict(c)
    <3>1. pc' = [pc EXCEPT ![c] = "refresh"]
      BY <2>6 DEF Conflict
    <3>2. /\ rowLock' \in Clients \union {NoOne}
          /\ mine' \in [Clients -> Rows]
          /\ owed' \in [Clients -> Seq(Changes)]
          /\ form' \in [Reviewers \union Gradebooks -> Forms]
      BY <2>6, RecordsAreTyped DEF Conflict, Release
    <3>3. UNCHANGED <<row, log, submitted, jobs, saves, loaded, isSolution, seen>>
      BY <2>6 DEF Conflict
    <3>4. QED
      BY <3>1, <3>2, <3>3
  <2>7. CASE PublishReview(c)
    <3>1. log \o owed[c] \in Seq(Changes)
      OBVIOUS
    <3>2. QED
      BY <2>7, <3>1, RecordsAreTyped DEF PublishReview, Release
  <2>8. QED
    BY <1>1, <2>1, <2>2, <2>3, <2>4, <2>5, <2>6, <2>7 DEF Review
<1>2. ASSUME NEW c \in Gradebooks, FillGradebook(c)
      PROVE  TypeOK'
  <2>1. CASE ShowGradebook(c)
    BY <2>1, RecordsAreTyped DEF ShowGradebook
  <2>2. ASSUME NEW score \in Grades, PostScore(c, score)
        PROVE  TypeOK'
    <3>1. [form[c] EXCEPT !.score = score] \in Forms
      BY DEF Forms
    <3>2. QED
      BY <2>2, <3>1 DEF PostScore
  <2>3. CASE GradebookCas(c)
    <3>1. [row EXCEPT !.score = form[c].score] \in Rows
      BY DEF Rows, Forms
    <3>2. Record(form[c].score_old, form[c].score) \in Seq(Changes)
      BY RecordsAreTyped DEF Forms
    <3>3. QED
      BY <2>3, <3>1, <3>2 DEF GradebookCas
  <2>4. CASE GradebookConflict(c)
    BY <2>4, RecordsAreTyped DEF GradebookConflict
  <2>5. CASE LogScore(c)
    BY <2>5, RecordsAreTyped DEF LogScore
  <2>6. ASSUME NEW score \in Grades, BeginImport(c, score)
        PROVE  TypeOK'
    <3>1. [FormOf(row) EXCEPT !.score = score] \in Forms
      BY DEF Forms, FormOf, Rows
    <3>2. QED
      BY <2>6, <3>1 DEF BeginImport
  <2>7. CASE PassOver(c)
    BY <2>7, RecordsAreTyped DEF PassOver
  <2>8. QED
    BY <1>2, <2>1, <2>2, <2>3, <2>4, <2>5, <2>6, <2>7 DEF FillGradebook
<1>3. ASSUME NEW c \in Submitters, Submit(c)
      PROVE  TypeOK'
  <2>0. Visible(c) \in Rows
    BY DEF Visible
  <2>1. CASE BeginSolution(c)
    BY <2>1 DEF BeginSolution
  <2>2. CASE BeginComment(c)
    BY <2>2 DEF BeginComment
  <2>3. CASE SubmitSolution(c)
    <3>1. [row EXCEPT !.status = "on_checking"] \in Rows
      BY StatusesAreKnown DEF Rows
    <3>2. QED
      BY <2>3, <3>1 DEF SubmitSolution, Write
  <2>4. CASE ReadAssignee(c)
    BY <2>0, <2>4 DEF ReadAssignee
  <2>5. CASE KeepTrigger(c)
    BY <2>5 DEF KeepTrigger
  <2>6. ASSUME NEW t \in Teachers \union {NoTeacher}, SaveAssignee(c, t)
        PROVE  TypeOK'
    <3>1. \A b \in BOOLEAN :
            [Visible(c) EXCEPT !.trigger = FALSE,
                               !.assignee = IF b THEN t ELSE @] \in Rows
      BY <2>0 DEF Rows
    <3>2. QED
      BY <2>6, <3>1 DEF SaveAssignee, Write
  <2>7. CASE PublishSubmission(c)
    BY <2>0, <2>7, RecordsAreTyped DEF PublishSubmission, Release
  <2>8. QED
    BY <1>3, <2>1, <2>2, <2>3, <2>4, <2>5, <2>6, <2>7 DEF Submit
<1>4. ASSUME NEW c \in RowSavers, Save(c)
      PROVE  TypeOK'
  <2>1. CASE LoadRow(c)
    BY <2>1 DEF LoadRow
  <2>2. ASSUME NEW r \in Rows, SaveRow(c, r), log' \in Seq(Changes)
        PROVE  TypeOK'
    BY <2>2, RecordsAreTyped DEF SaveRow
  <2>3. ASSUME NEW score \in Grades, ApiSaveScore(c, score)
        PROVE  TypeOK'
    <3>1. [loaded[c] EXCEPT !.score = score] \in Rows
      BY DEF Rows
    <3>2. QED
      BY <2>2, <2>3, <3>1 DEF ApiSaveScore
  <2>4. ASSUME NEW t \in Teachers \union {NoTeacher}, ApiSaveAssignee(c, t)
        PROVE  TypeOK'
    <3>1. [loaded[c] EXCEPT !.assignee = t] \in Rows
      BY DEF Rows
    <3>2. QED
      BY <2>2, <2>4, <3>1 DEF ApiSaveAssignee
  <2>5. ASSUME NEW score \in Grades, NEW status \in Statuses,
               NEW t \in Teachers \union {NoTeacher}, AdminSave(c, score, status, t)
        PROVE  TypeOK'
    <3>1. [loaded[c] EXCEPT !.score = score, !.status = status, !.assignee = t] \in Rows
      BY DEF Rows
    <3>2. Record(loaded[c].score, score) \in Seq(Changes)
      BY RecordsAreTyped DEF Rows
    <3>3. log' \in Seq(Changes)
      BY <2>5, <3>2 DEF AdminSave
    <3>4. QED
      BY <2>2, <2>5, <3>1, <3>3 DEF AdminSave
  <2>6. QED
    BY <1>4, <2>1, <2>3, <2>4, <2>5 DEF Save
<1>5. ASSUME NEW w \in StatsWorkers, UpdateStats(w)
      PROVE  TypeOK'
  <2>1. CASE CountSolutions(w)
    BY <2>1 DEF CountSolutions
  <2>2. CASE WriteStats(w)
    <3>1. seen[w][1] \in Nat
      BY <2>2 DEF WriteStats
    <3>2. [row EXCEPT !.stats = seen[w][1]] \in Rows
      BY <3>1 DEF Rows
    <3>3. QED
      BY <2>2, <3>2 DEF WriteStats
  <2>3. QED
    BY <1>5, <2>1, <2>2 DEF UpdateStats
<1>6. CASE UNCHANGED vars
  BY <1>6 DEF vars
<1>7. QED
  BY <1>1, <1>2, <1>3, <1>4, <1>5, <1>6 DEF Next

(* TypeOK holds in every state, for all values of the constants.           *)
THEOREM TypeCorrect == Spec => []TypeOK
  BY TypedInit, TypedNext, PTL DEF Spec

-------------------------------------------------------------------------------
(* The steps of a transaction that has written, or is about to.            *)
InReview(c) == c \in Reviewers /\ pc[c] \in {"cas_status", "publish"}

InSubmission(c) ==
  c \in Submitters /\ pc[c] \in {"read_assignee", "save_assignee", "publish"}

(* A review under way: it holds the row, the row still has what the form   *)
(* showed, and its own version of the row differs by what the form says.   *)
ReviewState(c) ==
  /\ rowLock = c
  /\ row.score = form[c].score_old
  /\ mine[c].score = form[c].score
  /\ mine[c].status = IF pc[c] = "publish" THEN form[c].status ELSE row.status
  /\ pc[c] = "publish" => row.status = form[c].status_old
  /\ owed[c] = Record(form[c].score_old, form[c].score)

(* A submission that holds the row: its version differs by the status of a *)
(* solution, and by an assignee where there was none.                      *)
SubmissionState(c) ==
  /\ mine[c].score = row.score /\ mine[c].stats = row.stats
  /\ mine[c].status = IF isSolution[c] THEN "on_checking" ELSE row.status
  /\ isSolution[c] =>
       /\ row.assignee \in {NoTeacher, mine[c].assignee}
       /\ pc[c] # "publish" => mine[c].assignee = row.assignee
       /\ pc[c] = "save_assignee" => loaded[c].assignee = row.assignee

ClientState(c) ==
  /\ rowLock = c => InReview(c) \/ InSubmission(c)
  /\ InReview(c) => ReviewState(c)
  /\ c \in Submitters =>
       /\ pc[c] = "idle" => ~isSolution[c]
       /\ pc[c] = "lock_row" => isSolution[c]
       /\ isSolution[c] /\ InSubmission(c) => rowLock = c
       /\ rowLock = c => SubmissionState(c)

IInv == TypeOK /\ \A c \in Clients : ClientState(c)

(* Nothing ClientState(c) speaks of changes in this step.                  *)
Undisturbed(c) ==
  /\ pc'[c] = pc[c] /\ mine'[c] = mine[c]
  /\ owed'[c] = owed[c] /\ loaded'[c] = loaded[c]
  /\ c \in Reviewers => form'[c] = form[c]
  /\ c \in Submitters => isSolution'[c] = isSolution[c]
  /\ rowLock' = c <=> rowLock = c
  /\ rowLock = c => row' = row

(* The initial state: no transaction is under way.                         *)
LEMMA InitialClients == Init => \A c \in Clients : ClientState(c)
  BY NoOneIsNobody DEF Init, ClientState, InReview, InSubmission, Clients

(* A client that a step leaves alone keeps its state.                      *)
LEMMA UndisturbedKeeps ==
  ASSUME NEW c \in Clients, ClientState(c), Undisturbed(c)
  PROVE  ClientState(c)'
<1>1. ReviewState(c) => ReviewState(c)' \/ ~InReview(c)
  BY DEF Undisturbed, ReviewState, InReview
<1>2. c \in Submitters /\ rowLock = c /\ SubmissionState(c) => SubmissionState(c)'
  BY DEF Undisturbed, SubmissionState
<1>3. QED
  BY <1>1, <1>2 DEF ClientState, Undisturbed, InReview, InSubmission

(* The lock keeps the others away: a step of one client (or of a worker,   *)
(* here any w that is no other client) leaves every other one alone.       *)
LEMMA OthersUndisturbed ==
  ASSUME TypeOK, \A c \in Clients : ClientState(c), NEW d \in Clients
  PROVE  /\ \A c \in Reviewers : c # d /\ Review(c) => Undisturbed(d)
         /\ \A c \in Gradebooks : c # d /\ FillGradebook(c) => Undisturbed(d)
         /\ \A c \in Submitters : c # d /\ Submit(c) => Undisturbed(d)
         /\ \A c \in RowSavers : c # d /\ Save(c) => Undisturbed(d)
         /\ \A w \in StatsWorkers : UpdateStats(w) => Undisturbed(d)
<1> USE NoOneIsNobody DEF TypeOK, tables, txn, local, Go, RowFree, Undisturbed
<1>1. ASSUME NEW c \in Reviewers, c # d, Review(c)
      PROVE  Undisturbed(d)
  <2>1. c \in Clients
    BY DEF Clients
  <2>2. CASE ShowReview(c)
    BY <1>1, <2>1, <2>2 DEF ShowReview
  <2>3. CASE PostInvalid(c)
    BY <1>1, <2>1, <2>3 DEF PostInvalid
  <2>4. ASSUME NEW score \in Grades, NEW status \in Statuses,
               PostReview(c, score, status)
        PROVE  Undisturbed(d)
    BY <1>1, <2>1, <2>4 DEF PostReview
  <2>5. CASE CasScore(c)
    BY <1>1, <2>1, <2>5 DEF CasScore, Write
  <2>6. CASE CasStatus(c)
    <3>1. rowLock = c
      BY <2>1, <2>6 DEF CasStatus, ClientState, InReview, ReviewState
    <3>2. QED
      BY <1>1, <2>1, <2>6, <3>1 DEF CasStatus, Write
  <2>7. CASE Conflict(c)
    <3>1. pc' = [pc EXCEPT ![c] = "refresh"]
      BY <2>7 DEF Conflict
    <3>2. QED
      BY <1>1, <2>1, <2>7, <3>1 DEF Conflict, Release
  <2>8. CASE PublishReview(c)
    <3>1. rowLock = c
      BY <2>1, <2>8 DEF PublishReview, ClientState, InReview, ReviewState
    <3>2. QED
      BY <1>1, <2>1, <2>8, <3>1 DEF PublishReview, Release
  <2>9. QED
    BY <1>1, <2>2, <2>3, <2>4, <2>5, <2>6, <2>7, <2>8 DEF Review
<1>2. ASSUME NEW c \in Gradebooks, c # d, FillGradebook(c)
      PROVE  Undisturbed(d)
  <2>1. c \in Clients /\ c \notin Reviewers /\ c \notin Submitters
    BY RolesAreApart DEF Clients
  <2>2. rowLock # c
    BY <2>1 DEF ClientState, InReview, InSubmission
  <2>3. CASE ShowGradebook(c)
    BY <1>2, <2>1, <2>3 DEF ShowGradebook
  <2>4. ASSUME NEW score \in Grades, PostScore(c, score)
        PROVE  Undisturbed(d)
    BY <1>2, <2>1, <2>4 DEF PostScore
  <2>5. CASE GradebookCas(c)
    BY <1>2, <2>1, <2>2, <2>5 DEF GradebookCas
  <2>6. CASE GradebookConflict(c)
    BY <1>2, <2>1, <2>6 DEF GradebookConflict
  <2>7. CASE LogScore(c)
    BY <1>2, <2>1, <2>7 DEF LogScore
  <2>8. ASSUME NEW score \in Grades, BeginImport(c, score)
        PROVE  Undisturbed(d)
    BY <1>2, <2>1, <2>8 DEF BeginImport
  <2>9. CASE PassOver(c)
    BY <1>2, <2>1, <2>9 DEF PassOver
  <2>10. QED
    BY <1>2, <2>3, <2>4, <2>5, <2>6, <2>7, <2>8, <2>9 DEF FillGradebook
<1>3. ASSUME NEW c \in Submitters, c # d, Submit(c)
      PROVE  Undisturbed(d)
  <2>1. c \in Clients /\ c \notin Reviewers
    BY RolesAreApart DEF Clients
  <2>2. CASE BeginSolution(c)
    BY <1>3, <2>1, <2>2 DEF BeginSolution
  <2>3. CASE BeginComment(c)
    BY <1>3, <2>1, <2>3 DEF BeginComment
  <2>4. CASE SubmitSolution(c)
    BY <1>3, <2>1, <2>4 DEF SubmitSolution, Write
  <2>5. CASE ReadAssignee(c)
    BY <1>3, <2>1, <2>5 DEF ReadAssignee
  <2>6. CASE KeepTrigger(c)
    BY <1>3, <2>1, <2>6 DEF KeepTrigger
  <2>7. ASSUME NEW t \in Teachers \union {NoTeacher}, SaveAssignee(c, t)
        PROVE  Undisturbed(d)
    BY <1>3, <2>1, <2>7 DEF SaveAssignee, Write
  <2>8. CASE PublishSubmission(c)
    <3>1. rowLock = d => row' = row
      BY <1>3, <2>8 DEF PublishSubmission, Visible
    <3>2. QED
      BY <1>3, <2>1, <2>8, <3>1 DEF PublishSubmission, Release
  <2>9. QED
    BY <1>3, <2>2, <2>3, <2>4, <2>5, <2>6, <2>7, <2>8 DEF Submit
<1>4. ASSUME NEW c \in RowSavers, c # d, Save(c)
      PROVE  Undisturbed(d)
  <2>1. c \in Clients /\ c \notin Reviewers /\ c \notin Submitters
    BY RolesAreApart DEF Clients
  <2>2. rowLock # c
    BY <2>1 DEF ClientState, InReview, InSubmission
  <2>3. CASE LoadRow(c)
    BY <1>4, <2>1, <2>3 DEF LoadRow
  <2>4. ASSUME NEW r, SaveRow(c, r)
        PROVE  Undisturbed(d)
    BY <1>4, <2>1, <2>2, <2>4 DEF SaveRow
  <2>5. QED
    BY <1>4, <2>3, <2>4 DEF Save, ApiSaveScore, ApiSaveAssignee, AdminSave
<1>5. ASSUME NEW w \in StatsWorkers, UpdateStats(w)
      PROVE  Undisturbed(d)
  BY <1>5 DEF UpdateStats, CountSolutions, WriteStats
<1>6. QED
  BY <1>1, <1>2, <1>3, <1>4, <1>5

(* A client's own step keeps its state.                                    *)
LEMMA OwnStep ==
  ASSUME TypeOK, \A c \in Clients : ClientState(c), NEW d \in Clients
  PROVE  /\ d \in Reviewers /\ Review(d) => ClientState(d)'
         /\ d \in Gradebooks /\ FillGradebook(d) => ClientState(d)'
         /\ d \in Submitters /\ Submit(d) => ClientState(d)'
         /\ d \in RowSavers /\ Save(d) => ClientState(d)'
<1> USE NoOneIsNobody DEF TypeOK, tables, txn, local, Go, RowFree
<1>0. ClientState(d)
  OBVIOUS
<1>1. ASSUME d \in Reviewers, Review(d)
      PROVE  ClientState(d)'
  <2>0. d \notin Submitters
    BY <1>1, RolesAreApart
  <2> USE <1>0, <1>1, <2>0 DEF ClientState, InReview, InSubmission
  <2>1. CASE ShowReview(d)
    BY <2>1 DEF ShowReview
  <2>2. CASE PostInvalid(d)
    BY <2>2 DEF PostInvalid
  <2>3. ASSUME NEW score \in Grades, NEW status \in Statuses,
               PostReview(d, score, status)
        PROVE  ClientState(d)'
    BY <2>3 DEF PostReview
  <2>4. CASE CasScore(d)
    BY <2>4 DEF CasScore, Write, ReviewState, Rows
  <2>5. CASE CasStatus(d)
    <3>1. ReviewState(d)
      BY <2>5 DEF CasStatus
    <3>2. mine'[d] = [mine[d] EXCEPT !.status = form[d].status]
      BY <2>5 DEF CasStatus, Write
    <3>3. QED
      BY <2>5, <3>1, <3>2 DEF CasStatus, Write, ReviewState, Rows
  <2>6. CASE Conflict(d)
    <3>1. pc' = [pc EXCEPT ![d] = "refresh"]
      BY <2>6 DEF Conflict
    <3>2. QED
      BY <2>6, <3>1 DEF Conflict, Release
  <2>7. CASE PublishReview(d)
    BY <2>7 DEF PublishReview, Release
  <2>8. QED
    BY <2>1, <2>2, <2>3, <2>4, <2>5, <2>6, <2>7 DEF Review
<1>2. ASSUME d \in Gradebooks, FillGradebook(d)
      PROVE  ClientState(d)'
  <2>1. d \notin Reviewers /\ d \notin Submitters /\ rowLock # d
    BY <1>0, <1>2, RolesAreApart DEF ClientState, InReview, InSubmission
  <2>2. rowLock' = rowLock
    BY <1>2 DEF FillGradebook, ShowGradebook, PostScore, GradebookCas,
                GradebookConflict, LogScore, BeginImport, PassOver
  <2>3. QED
    BY <2>1, <2>2 DEF ClientState, InReview, InSubmission
<1>3. ASSUME d \in Submitters, Submit(d)
      PROVE  ClientState(d)'
  <2>0. d \notin Reviewers
    BY <1>3, RolesAreApart
  <2> USE <1>0, <1>3, <2>0 DEF ClientState, InReview, InSubmission
  <2>1. CASE BeginSolution(d)
    BY <2>1 DEF BeginSolution
  <2>2. CASE BeginComment(d)
    BY <2>2 DEF BeginComment
  <2>3. CASE SubmitSolution(d)
    <3>1. mine'[d] = [row EXCEPT !.status = "on_checking"]
      BY <2>3 DEF SubmitSolution, Write
    <3>2. SubmissionState(d)'
      BY <2>3, <3>1 DEF SubmitSolution, SubmissionState, Rows
    <3>3. QED
      BY <2>3, <3>2 DEF SubmitSolution, Write
  <2>4. CASE ReadAssignee(d)
    <3>1. rowLock = d => loaded'[d] = mine[d]
      BY <2>4 DEF ReadAssignee, Visible
    <3>2. rowLock = d => SubmissionState(d)'
      BY <2>4, <3>1 DEF ReadAssignee, SubmissionState
    <3>3. QED
      BY <2>4, <3>2 DEF ReadAssignee
  <2>5. CASE KeepTrigger(d)
    BY <2>5 DEF KeepTrigger, SubmissionState
  <2>6. ASSUME NEW t \in Teachers \union {NoTeacher}, SaveAssignee(d, t)
        PROVE  ClientState(d)'
    <3>1. PICK a :
            /\ mine'[d] = [Visible(d) EXCEPT !.trigger = FALSE, !.assignee = a]
            /\ a # Visible(d).assignee => loaded[d].assignee = NoTeacher
      BY <2>6 DEF SaveAssignee, Write, Visible, Rows
    <3>2. Visible(d) \in Rows /\ row \in Rows
      BY DEF Visible
    <3>3. rowLock' = d /\ row' = row /\ isSolution' = isSolution /\ pc'[d] = "publish"
      BY <2>6 DEF SaveAssignee, Write
    <3>4. SubmissionState(d)'
      <4>1. /\ Visible(d).score = row.score /\ Visible(d).stats = row.stats
            /\ Visible(d).status = IF isSolution[d] THEN "on_checking" ELSE row.status
            /\ isSolution[d] => /\ Visible(d).assignee = row.assignee
                                /\ loaded[d].assignee = row.assignee
        <5>1. CASE rowLock = d
          BY <2>6, <5>1 DEF Visible, SubmissionState, SaveAssignee
        <5>2. CASE rowLock # d
          BY <2>6, <5>2, <3>2 DEF Visible, SaveAssignee
        <5>3. QED
          BY <5>1, <5>2
      <4>2. /\ mine'[d].score = Visible(d).score /\ mine'[d].stats = Visible(d).stats
            /\ mine'[d].status = Visible(d).status
            /\ mine'[d].assignee = a
        BY <3>1, <3>2 DEF Rows
      <4>3. isSolution[d] => row.assignee \in {NoTeacher, a}
        BY <3>1, <4>1
      <4>4. QED
        BY <3>3, <4>1, <4>2, <4>3 DEF SubmissionState
    <3>5. QED
      BY <2>6, <3>3, <3>4 DEF SaveAssignee
  <2>7. CASE PublishSubmission(d)
    BY <2>7 DEF PublishSubmission, Release
  <2>8. QED
    BY <2>1, <2>2, <2>3, <2>4, <2>5, <2>6, <2>7 DEF Submit
<1>4. ASSUME d \in RowSavers, Save(d)
      PROVE  ClientState(d)'
  <2>1. d \notin Reviewers /\ d \notin Submitters /\ rowLock # d
    BY <1>0, <1>4, RolesAreApart DEF ClientState, InReview, InSubmission
  <2>2. rowLock' = rowLock
    BY <1>4 DEF Save, LoadRow, ApiSaveScore, ApiSaveAssignee, AdminSave, SaveRow
  <2>3. QED
    BY <2>1, <2>2 DEF ClientState, InReview, InSubmission
<1>5. QED
  BY <1>1, <1>2, <1>3, <1>4

(* The inductive invariant: every transaction under way still sees what it *)
(* has compared.                                                           *)
LEMMA Invariant == Spec => []IInv
<1>1. Init => IInv
  BY TypedInit, InitialClients DEF IInv
<1>2. IInv /\ [Next]_vars => IInv'
  <2> SUFFICES ASSUME IInv, [Next]_vars, NEW d \in Clients
               PROVE  ClientState(d)'
    BY TypedNext DEF IInv
  <2>1. TypeOK /\ TypeOK' /\ \A c \in Clients : ClientState(c)
    BY TypedNext DEF IInv
  <2>2. CASE UNCHANGED vars
    BY <2>1, <2>2, UndisturbedKeeps
       DEF vars, tables, txn, local, Undisturbed
  <2>3. CASE Next
    BY <2>1, <2>3, UndisturbedKeeps, OthersUndisturbed, OwnStep, Zenon DEF Next
  <2>4. QED
    BY <2>1, <2>2, <2>3
<1>3. QED
  BY <1>1, <1>2, PTL DEF Spec

-------------------------------------------------------------------------------
(* A step that leaves the publish step of a client is its own commit.      *)
LEMMA PublishSteps ==
  ASSUME IInv, [Next]_vars
  PROVE  /\ \A c \in Reviewers :
              pc[c] = "publish" /\ pc'[c] = "idle" => PublishReview(c)
         /\ \A c \in Submitters :
              pc[c] = "publish" /\ pc'[c] = "idle" => PublishSubmission(c)
<1>1. ASSUME NEW d \in Clients, pc[d] = "publish", pc'[d] = "idle"
      PROVE  \/ d \in Reviewers /\ Review(d)
             \/ d \in Gradebooks /\ FillGradebook(d)
             \/ d \in Submitters /\ Submit(d)
             \/ d \in RowSavers /\ Save(d)
  <2>1. ~UNCHANGED vars
    BY <1>1 DEF vars
  <2>2. ~Undisturbed(d)
    BY <1>1 DEF Undisturbed
  <2>3. QED
    BY <2>1, <2>2, OthersUndisturbed, Zenon DEF Next, IInv
<1>2. ASSUME NEW c \in Reviewers, pc[c] = "publish", pc'[c] = "idle"
      PROVE  PublishReview(c)
  <2>1. Review(c)
    BY <1>1, <1>2, RolesAreApart DEF Clients
  <2>2. QED
    BY <1>2, <2>1 DEF Review, ShowReview, PostInvalid, PostReview, CasScore,
                      CasStatus, Conflict, Go, IInv, TypeOK, Clients
<1>3. ASSUME NEW c \in Submitters, pc[c] = "publish", pc'[c] = "idle"
      PROVE  PublishSubmission(c)
  <2>1. Submit(c)
    BY <1>1, <1>3, RolesAreApart DEF Clients
  <2>2. QED
    BY <1>3, <2>1 DEF Submit, BeginSolution, BeginComment, SubmitSolution,
                      ReadAssignee, KeepTrigger, SaveAssignee, Go
<1>4. QED
  BY <1>2, <1>3

(* No review is ever published over a score or a status its author did not *)
(* see, whoever else writes the row and however.                           *)
THEOREM NoLostReview == Spec => ReviewReplacesWhatItShowed
<1>1. IInv /\ [Next]_vars =>
        [\A c \in Reviewers :
           pc[c] = "publish" /\ pc'[c] = "idle" =>
             /\ row.score = form[c].score_old
             /\ row.status = form[c].status_old]_vars
  BY DEF IInv, ClientState, InReview, ReviewState, Clients
<1>2. QED
  BY <1>1, Invariant, PTL DEF Spec, ReviewReplacesWhatItShowed

(* A solution never drops a score, statistics or an assignee that somebody *)
(* has stored, whoever else writes the row and however.                    *)
THEOREM SolutionIsGentle == Spec => SolutionKeepsTheRest
<1>1. ASSUME IInv, [Next]_vars, NEW c \in Submitters,
             isSolution[c], pc[c] = "publish", pc'[c] = "idle"
      PROVE  /\ row' = [row EXCEPT !.status = "on_checking", !.trigger = row'.trigger,
                                   !.assignee = row'.assignee]
             /\ row.assignee \in {NoTeacher, row'.assignee}
  <2>1. rowLock = c /\ SubmissionState(c)
    BY <1>1 DEF IInv, ClientState, InSubmission, Clients
  <2>2. row' = mine[c]
    BY <1>1, <2>1, PublishSteps DEF PublishSubmission, Visible
  <2>3. row \in Rows /\ row' \in Rows
    BY <1>1, <2>2 DEF IInv, TypeOK, Clients
  <2>4. /\ row'.score = row.score /\ row'.stats = row.stats
        /\ row'.status = "on_checking"
        /\ row.assignee \in {NoTeacher, row'.assignee}
    BY <1>1, <2>1, <2>2 DEF SubmissionState
  <2>5. QED
    BY <2>3, <2>4 DEF Rows
<1>2. IInv /\ [Next]_vars =>
        [\A c \in Submitters :
           isSolution[c] /\ pc[c] = "publish" /\ pc'[c] = "idle" =>
             /\ row' = [row EXCEPT !.status = "on_checking", !.trigger = row'.trigger,
                                   !.assignee = row'.assignee]
             /\ row.assignee \in {NoTeacher, row'.assignee}]_vars
  BY <1>1
<1>3. QED
  BY <1>2, Invariant, PTL DEF Spec, SolutionKeepsTheRest
-------------------------------------------------------------------------------
(* The refinement: the commit of a review is a Grade, that of a solution a *)
(* Submit, and every other step stutters.                                  *)
LEMMA WorkNext ==
  ASSUME Gradebooks = {}, RowSavers = {}, IInv, [Next]_vars
  PROVE  [Work!Next]_Work!vars
<1> USE DEF IInv, TypeOK
<1> DEFINE Kept == row'.score = row.score /\ row'.status = row.status /\ log' = log
<1>1. Kept => [Work!Next]_Work!vars
  BY DEF Work!vars
<1>2. ASSUME NEW c \in Reviewers, Review(c)
      PROVE  [Work!Next]_Work!vars
  <2>1. CASE PublishReview(c)
    <3>1. c \in Clients /\ ReviewState(c) /\ pc[c] = "publish"
      BY <2>1 DEF PublishReview, Go, ClientState, InReview, Clients
    <3>2. /\ row' = mine[c]
          /\ log' = log \o Record(row.score, form[c].score)
          /\ mine[c].score = form[c].score
          /\ mine[c].status = form[c].status
      BY <2>1, <3>1 DEF PublishReview, ReviewState
    <3>3. form[c].score \in Scores \union {NoScore} /\ form[c].status \in Statuses
      BY DEF Forms, Grades
    <3>4. log' = IF form[c].score = row.score THEN log
                 ELSE Append(log, [score_old |-> row.score,
                                   score_new |-> form[c].score])
      <4>1. CASE form[c].score = row.score
        BY <3>2, <4>1, ConcatEmptySeq DEF Record
      <4>2. CASE form[c].score # row.score
        <5>1. [score_old |-> row.score, score_new |-> form[c].score] \in Changes
          BY DEF Changes, Rows, Forms
        <5>2. QED
          BY <3>2, <4>2, <5>1, AppendIsConcat DEF Record
      <4>3. QED
        BY <4>1, <4>2
    <3>5. Work!Grade(form[c].score, form[c].status)
      BY <3>2, <3>4 DEF Work!Grade
    <3>6. QED
      BY <3>3, <3>5 DEF Work!Next
  <2>2. CASE row' = row /\ log' = log
    BY <1>1, <2>2
  <2>3. QED
    BY <1>2, <2>1, <2>2
       DEF Review, ShowReview, PostInvalid, PostReview, CasScore, CasStatus,
           Conflict, tables
<1>3. ASSUME NEW c \in Submitters, Submit(c)
      PROVE  [Work!Next]_Work!vars
  <2>1. CASE PublishSubmission(c)
    <3>1. /\ c \in Clients /\ ClientState(c) /\ pc[c] = "publish"
          /\ row' = Visible(c) /\ log' = log
      BY <2>1 DEF PublishSubmission, Go, Clients
    <3>2. CASE rowLock # c
      BY <1>1, <3>1, <3>2 DEF Visible
    <3>3. CASE rowLock = c /\ isSolution[c]
      <4>1. Work!Submit
        BY <3>1, <3>3 DEF Visible, ClientState, SubmissionState, Work!Submit
      <4>2. QED
        BY <4>1 DEF Work!Next
    <3>4. CASE rowLock = c /\ ~isSolution[c]
      BY <1>1, <3>1, <3>4 DEF Visible, ClientState, SubmissionState
    <3>5. QED
      BY <3>2, <3>3, <3>4
  <2>2. CASE row' = row /\ log' = log
    BY <1>1, <2>2
  <2>3. QED
    BY <1>3, <2>1, <2>2
       DEF Submit, BeginSolution, BeginComment, SubmitSolution, ReadAssignee,
           KeepTrigger, SaveAssignee, tables
<1>4. ASSUME NEW w \in StatsWorkers, UpdateStats(w)
      PROVE  [Work!Next]_Work!vars
  BY <1>1, <1>4 DEF UpdateStats, CountSolutions, WriteStats, Rows
<1>5. CASE UNCHANGED vars
  BY <1>1, <1>5 DEF vars, tables
<1>6. QED
  BY <1>2, <1>3, <1>4, <1>5 DEF Next

(* Without a gradebook and without whole-row saves the transactions        *)
(* implement the one-step gradings and submissions of ReviewedWork: a score*)
(* and its audit record become visible together.                           *)
THEOREM Refinement ==
  ASSUME Gradebooks = {}, RowSavers = {}
  PROVE  Spec => ImplementsWork
<1>1. Init => Work!Init
  BY DEF Init, NewRow, Work!Init
<1>2. IInv /\ [Next]_vars => [Work!Next]_Work!vars
  BY WorkNext
<1>3. QED
  BY <1>1, <1>2, Invariant, PTL DEF Spec, ImplementsWork, Work!Spec

(* What the refinement gives the reader of the audit log: its records form *)
(* an unbroken chain from the ungraded work to the present score.          *)
THEOREM HistoryExplains ==
  ASSUME Gradebooks = {}, RowSavers = {}
  PROVE  Spec => []HistoryExplainsWork
<1>1. Init => Work!HistoryExplainsScore
  BY DEF Init, NewRow, Work!HistoryExplainsScore
<1>2. IInv /\ Work!HistoryExplainsScore /\ [Next]_vars
        => Work!HistoryExplainsScore'
  <2> SUFFICES ASSUME IInv, Work!HistoryExplainsScore, [Next]_vars
               PROVE  Work!HistoryExplainsScore'
    OBVIOUS
  <2>1. log \in Seq(Changes) /\ [Work!Next]_Work!vars
    BY WorkNext DEF IInv, TypeOK
  <2>2. CASE row'.score = row.score /\ log' = log
    BY <2>2 DEF Work!HistoryExplainsScore
  <2>3. ASSUME NEW s, row'.score = s,
               log' = Append(log, [score_old |-> row.score, score_new |-> s])
        PROVE  Work!HistoryExplainsScore'
    <3>1. /\ Len(log') = Len(log) + 1 /\ Len(log) \in Nat
          /\ \A i \in 1..Len(log) : log'[i] = log[i]
          /\ log'[Len(log) + 1] = [score_old |-> row.score, score_new |-> s]
      BY <2>1, <2>3
    <3>2. log = << >> <=> Len(log) = 0
      BY <2>1
    <3>3. \A i \in 1..(Len(log') - 1) : log'[i].score_new = log'[i + 1].score_old
      <4> SUFFICES ASSUME NEW i \in 1..(Len(log') - 1)
                   PROVE  log'[i].score_new = log'[i + 1].score_old
        OBVIOUS
      <4>1. CASE i = Len(log)
        BY <3>1, <3>2, <4>1 DEF Work!HistoryExplainsScore
      <4>2. CASE i \in 1..(Len(log) - 1)
        BY <3>1, <4>2 DEF Work!HistoryExplainsScore
      <4>3. QED
        BY <3>1, <4>1, <4>2
    <3>4. log'[1].score_old = NoScore /\ log' # << >>
      <4>1. CASE Len(log) = 0
        BY <2>3, <3>1, <3>2, <4>1 DEF Work!HistoryExplainsScore
      <4>2. CASE Len(log) > 0
        BY <2>1, <2>3, <3>1, <3>2, <4>2 DEF Work!HistoryExplainsScore
      <4>3. QED
        BY <3>1, <4>1, <4>2
    <3>5. log'[Len(log')].score_new = row'.score
      BY <2>3, <3>1
    <3>6. QED
      BY <3>3, <3>4, <3>5 DEF Work!HistoryExplainsScore
  <2>4. QED
    BY <2>1, <2>2, <2>3
       DEF Work!Next, Work!Grade, Work!Submit, Work!vars
<1>3. QED
  BY <1>1, <1>2, Invariant, PTL DEF Spec, HistoryExplainsWork
-------------------------------------------------------------------------------
(* The audit log as a balance.  A list of at most one change, as Record    *)
(* makes it, counts for a score it leaves or reaches.                      *)
Records == {<< >>} \union {<<e>> : e \in Changes}

Counts(r, field, score) == IF r # << >> /\ r[1][field] = score THEN 1 ELSE 0

(* The two sets of AuditBalanced, of any log and any owed records.         *)
Logged(l, field, score) == {i \in DOMAIN l : l[i][field] = score}

Owing(o, S, field, score) == {c \in S : o[c] # << >> /\ o[c][1][field] = score}

LEMMA RecordIsOne ==
  ASSUME NEW old \in Grades, NEW new \in Grades
  PROVE  Record(old, new) \in Records
<1>1. [score_old |-> old, score_new |-> new] \in Changes
  BY DEF Changes
<1>2. QED
  BY <1>1 DEF Record, Records

(* A change leaves one score and reaches another.                          *)
LEMMA RecordBalances ==
  ASSUME NEW old \in Grades, NEW new \in Grades, NEW score \in Grades
  PROVE  Counts(Record(old, new), "score_new", score) + IsScore(old, score) =
           Counts(Record(old, new), "score_old", score) + IsScore(new, score)
<1>1. CASE new = old
  BY <1>1 DEF Record, Counts
<1>2. CASE new # old
  <2>1. /\ Counts(Record(old, new), "score_new", score) = IsScore(new, score)
        /\ Counts(Record(old, new), "score_old", score) = IsScore(old, score)
    BY <1>2 DEF Record, Counts, IsScore
  <2>2. QED
    BY <2>1 DEF IsScore
<1>3. QED
  BY <1>1, <1>2

(* The changes of a log are finitely many.                                 *)
LEMMA LoggedIsFinite ==
  ASSUME NEW l \in Seq(Changes), NEW field, NEW score
  PROVE  /\ IsFiniteSet(Logged(l, field, score))
         /\ Cardinality(Logged(l, field, score)) \in Nat
<1>1. Len(l) \in Nat /\ DOMAIN l = 1..Len(l)
  OBVIOUS
<1>2. IsFiniteSet(1..Len(l))
  BY <1>1, FS_Interval
<1>3. Logged(l, field, score) \subseteq 1..Len(l)
  BY <1>1 DEF Logged
<1>4. QED
  BY <1>2, <1>3, FS_Subset, FS_CardinalityType

(* A record at the end of the log counts once.                             *)
LEMMA LogCounts ==
  ASSUME NEW l \in Seq(Changes), NEW r \in Records, NEW field, NEW score
  PROVE  Cardinality(Logged(l \o r, field, score)) =
           Cardinality(Logged(l, field, score)) + Counts(r, field, score)
<1> DEFINE old == Logged(l, field, score)
           new == Logged(l \o r, field, score)
<1>1. Len(l) \in Nat /\ DOMAIN l = 1..Len(l)
  OBVIOUS
<1>2. IsFiniteSet(old) /\ Cardinality(old) \in Nat
  BY LoggedIsFinite
<1>3. CASE r = << >>
  <2>1. l \o r = l
    BY <1>3, ConcatEmptySeq
  <2>2. QED
    BY <1>2, <1>3, <2>1 DEF Counts
<1>4. ASSUME NEW e \in Changes, r = <<e>>
      PROVE  Cardinality(new) = Cardinality(old) + Counts(r, field, score)
  <2>1. /\ DOMAIN (l \o r) = 1..(Len(l) + 1)
        /\ \A i \in 1..Len(l) : (l \o r)[i] = l[i]
        /\ (l \o r)[Len(l) + 1] = e
    BY <1>1, <1>4
  <2>2. r # << >> /\ r[1] = e
    BY <1>4
  <2>3. Len(l) + 1 \notin old
    BY <1>1 DEF Logged
  <2>4. CASE e[field] = score
    <3>1. new = old \union {Len(l) + 1}
      BY <1>1, <2>1, <2>4 DEF Logged
    <3>2. Cardinality(new) = Cardinality(old) + 1
      BY <1>2, <2>3, <3>1, FS_AddElement
    <3>3. QED
      BY <2>2, <2>4, <3>2 DEF Counts
  <2>5. CASE e[field] # score
    <3>1. new = old
      BY <1>1, <2>1, <2>5 DEF Logged
    <3>2. QED
      BY <1>2, <2>2, <2>5, <3>1 DEF Counts
  <2>6. QED
    BY <2>4, <2>5
<1>5. QED
  BY <1>3, <1>4 DEF Records

(* Who owes a record is counted apart from the others.                     *)
Apart(o, c, field, score) ==
  /\ Cardinality(Owing(o, Gradebooks, field, score)) =
       Cardinality(Owing(o, Gradebooks \ {c}, field, score)) + Counts(o[c], field, score)
  /\ Cardinality(Owing(o, Gradebooks \ {c}, field, score)) \in Nat

LEMMA OwedCounts ==
  ASSUME NEW o, NEW c \in Gradebooks, NEW field, NEW score
  PROVE  Apart(o, c, field, score)
<1> DEFINE all == Owing(o, Gradebooks, field, score)
           rest == Owing(o, Gradebooks \ {c}, field, score)
<1>1. rest \subseteq Gradebooks
  BY DEF Owing
<1>2. IsFiniteSet(rest) /\ Cardinality(rest) \in Nat
  BY <1>1, FiniteGradebooks, FS_Subset, FS_CardinalityType
<1>3. c \notin rest
  BY DEF Owing
<1>4. CASE o[c] # << >> /\ o[c][1][field] = score
  <2>1. all = rest \union {c}
    BY <1>4 DEF Owing
  <2>2. Cardinality(all) = Cardinality(rest) + 1
    BY <1>2, <1>3, <2>1, FS_AddElement
  <2>3. QED
    BY <1>2, <1>4, <2>2 DEF Counts, Apart
<1>5. CASE ~(o[c] # << >> /\ o[c][1][field] = score)
  <2>1. all = rest
    BY <1>5 DEF Owing
  <2>2. QED
    BY <1>2, <1>5, <2>1 DEF Counts, Apart
<1>6. QED
  BY <1>4, <1>5

(* Both counts of AuditBalanced are numbers.                               *)
LEMMA OwingIsFinite ==
  ASSUME NEW o, NEW field, NEW score
  PROVE  Cardinality(Owing(o, Gradebooks, field, score)) \in Nat
<1>1. Owing(o, Gradebooks, field, score) \subseteq Gradebooks
  BY DEF Owing
<1>2. QED
  BY <1>1, FiniteGradebooks, FS_Subset, FS_CardinalityType

(* AuditBalanced of any score, log and owed records.                       *)
Sum(l, o, field, score) ==
  Cardinality(Logged(l, field, score)) +
  Cardinality(Owing(o, Gradebooks, field, score))

Balanced(actual, l, o) ==
  \A score \in Grades :
    Sum(l, o, "score_new", score) + IsScore(NoScore, score) =
      Sum(l, o, "score_old", score) + IsScore(actual, score)

LEMMA AuditIsBalance ==
  /\ AuditBalanced <=> (saves = 0 => Balanced(row.score, log, owed))
  /\ AuditBalanced' <=> (saves' = 0 => Balanced(row'.score, log', owed'))
<1>1. \A field, score : Moved(field, score) = Sum(log, owed, field, score)
  BY DEF Moved, Sum, Logged, Owing
<1>2. \A field, score : Moved(field, score)' = Sum(log', owed', field, score)
  BY DEF Moved, Sum, Logged, Owing
<1>3. QED
  BY <1>1, <1>2 DEF AuditBalanced, Balanced

(* A score and its record that become visible together keep the balance.   *)
LEMMA PublishedBalances ==
  ASSUME NEW l \in Seq(Changes), NEW o, NEW old \in Grades, NEW new \in Grades,
         Balanced(old, l, o)
  PROVE  Balanced(new, l \o Record(old, new), o)
<1> DEFINE r == Record(old, new)
<1>1. r \in Records
  BY RecordIsOne
<1>2. ASSUME NEW field, NEW score
      PROVE  /\ Sum(l \o r, o, field, score) =
                  Sum(l, o, field, score) + Counts(r, field, score)
             /\ Sum(l, o, field, score) \in Nat
  BY <1>1, LogCounts, LoggedIsFinite, OwingIsFinite DEF Sum, Counts
<1> HIDE DEF r
<1>3. ASSUME NEW score \in Grades
      PROVE  Sum(l \o r, o, "score_new", score) + IsScore(NoScore, score) =
               Sum(l \o r, o, "score_old", score) + IsScore(new, score)
  <2>1. Counts(r, "score_new", score) + IsScore(old, score) =
          Counts(r, "score_old", score) + IsScore(new, score)
    BY RecordBalances DEF r
  <2>2. Sum(l, o, "score_new", score) + IsScore(NoScore, score) =
          Sum(l, o, "score_old", score) + IsScore(old, score)
    BY DEF Balanced
  <2>3. QED
    BY <1>2, <2>1, <2>2 DEF Counts, IsScore
<1>4. QED
  BY <1>3 DEF Balanced, r

(* A gradebook that owes its record keeps the balance...                   *)
LEMMA OwedBalances ==
  ASSUME NEW l \in Seq(Changes), NEW o, NEW o2, NEW c \in Gradebooks,
         NEW old \in Grades, NEW new \in Grades,
         Balanced(old, l, o), o[c] = << >>, o2[c] = Record(old, new),
         \A d \in Gradebooks \ {c} : o2[d] = o[d]
  PROVE  Balanced(new, l, o2)
<1> DEFINE r == Record(old, new)
<1>1. ASSUME NEW field, NEW score
      PROVE  /\ Sum(l, o2, field, score) =
                  Sum(l, o, field, score) + Counts(r, field, score)
             /\ Sum(l, o, field, score) \in Nat
  <2>1. Owing(o2, Gradebooks \ {c}, field, score) = Owing(o, Gradebooks \ {c}, field, score)
    BY DEF Owing
  <2>2. Counts(o[c], field, score) = 0
    BY DEF Counts
  <2>3. Apart(o, c, field, score) /\ Apart(o2, c, field, score)
    BY OwedCounts
  <2>4. Cardinality(Logged(l, field, score)) \in Nat
    BY LoggedIsFinite
  <2>5. Counts(r, field, score) \in Nat /\ o2[c] = r
    BY DEF Counts
  <2> HIDE DEF r
  <2>6. QED
    BY <2>1, <2>2, <2>3, <2>4, <2>5 DEF Sum, Apart
<1> HIDE DEF r
<1>2. ASSUME NEW score \in Grades
      PROVE  Sum(l, o2, "score_new", score) + IsScore(NoScore, score) =
               Sum(l, o2, "score_old", score) + IsScore(new, score)
  <2>1. Counts(r, "score_new", score) + IsScore(old, score) =
          Counts(r, "score_old", score) + IsScore(new, score)
    BY RecordBalances DEF r
  <2>2. Sum(l, o, "score_new", score) + IsScore(NoScore, score) =
          Sum(l, o, "score_old", score) + IsScore(old, score)
    BY DEF Balanced
  <2>3. QED
    BY <1>1, <2>1, <2>2 DEF Counts, IsScore
<1>3. QED
  BY <1>2 DEF Balanced

(* ...and so does one that pays it.                                        *)
LEMMA PaidBalances ==
  ASSUME NEW l \in Seq(Changes), NEW o, NEW o2, NEW c \in Gradebooks, NEW actual,
         Balanced(actual, l, o), o[c] \in Records, o2[c] = << >>,
         \A d \in Gradebooks \ {c} : o2[d] = o[d]
  PROVE  Balanced(actual, l \o o[c], o2)
<1>1. ASSUME NEW field, NEW score
      PROVE  Sum(l \o o[c], o2, field, score) = Sum(l, o, field, score)
  <2>1. Owing(o2, Gradebooks \ {c}, field, score) = Owing(o, Gradebooks \ {c}, field, score)
    BY DEF Owing
  <2>2. Counts(o2[c], field, score) = 0
    BY DEF Counts
  <2>3. Cardinality(Logged(l \o o[c], field, score)) =
          Cardinality(Logged(l, field, score)) + Counts(o[c], field, score)
    BY LogCounts
  <2>4. Apart(o, c, field, score) /\ Apart(o2, c, field, score)
    BY OwedCounts
  <2>5. Cardinality(Logged(l, field, score)) \in Nat
    BY LoggedIsFinite
  <2>6. Counts(o[c], field, score) \in Nat
    BY DEF Counts
  <2>7. QED
    BY <2>1, <2>2, <2>3, <2>4, <2>5, <2>6 DEF Sum, Apart
<1>2. QED
  BY <1>1 DEF Balanced

(* The balance reads nothing but the records that gradebooks owe.          *)
LEMMA SameBalance ==
  ASSUME NEW l, NEW o, NEW o2, NEW actual, Balanced(actual, l, o),
         \A d \in Gradebooks : o2[d] = o[d]
  PROVE  Balanced(actual, l, o2)
<1>1. \A field, score : Owing(o2, Gradebooks, field, score) = Owing(o, Gradebooks, field, score)
  BY DEF Owing
<1>2. QED
  BY <1>1 DEF Balanced, Sum

(* A gradebook owes one record at most, between its two statements.        *)
OweOne ==
  \A c \in Gradebooks :
    owed[c] # << >> => owed[c] \in Records /\ pc[c] = "log_score"

(* What a step that is no whole-row save does to the score, the log and the*)
(* records owed.                                                           *)
Quiet ==
  /\ row'.score = row.score
  /\ log' = log
  /\ \A d \in Gradebooks : owed'[d] = owed[d]

Published ==
  /\ row'.score \in Grades
  /\ log' = log \o Record(row.score, row'.score)
  /\ \A d \in Gradebooks : owed'[d] = owed[d]

Owes(c) ==
  /\ row'.score \in Grades
  /\ log' = log
  /\ pc[c] # "log_score"
  /\ owed'[c] = Record(row.score, row'.score)
  /\ \A d \in Gradebooks \ {c} : owed'[d] = owed[d]

Pays(c) ==
  /\ row'.score = row.score
  /\ pc[c] = "log_score"
  /\ log' = log \o owed[c]
  /\ owed'[c] = << >>
  /\ \A d \in Gradebooks \ {c} : owed'[d] = owed[d]

(* Every step is one of these, and only a gradebook moves to or from the   *)
(* statement that writes its record.                                       *)
LEMMA Ledger ==
  ASSUME IInv, [Next]_vars
  PROVE  \/ Quiet /\ \A d \in Gradebooks : pc[d] = "log_score" => pc'[d] = "log_score"
         \/ Published /\ \A d \in Gradebooks : pc'[d] = pc[d]
         \/ \E c \in Gradebooks :
              /\ Owes(c) /\ pc'[c] = "log_score"
              /\ \A d \in Gradebooks \ {c} : pc'[d] = pc[d]
         \/ \E c \in Gradebooks :
              Pays(c) /\ \A d \in Gradebooks \ {c} : pc'[d] = pc[d]
         \/ saves' = saves + 1 /\ \A d \in Gradebooks : pc'[d] = pc[d] /\ owed'[d] = owed[d]
<1> USE DEF IInv, TypeOK, tables, txn, local, Go
<1> DEFINE Goes == \A d \in Gradebooks : pc[d] = "log_score" => pc'[d] = "log_score"
<1>1. ASSUME NEW c \in Reviewers, Review(c)
      PROVE  \/ Quiet /\ Goes
             \/ Published /\ \A d \in Gradebooks : pc'[d] = pc[d]
  <2>1. c \in Clients /\ c \notin Gradebooks
    BY RolesAreApart DEF Clients
  <2>3. CASE ShowReview(c)
    BY <2>1, <2>3 DEF ShowReview, Quiet, Clients
  <2>4. CASE PostInvalid(c)
    BY <2>1, <2>4 DEF PostInvalid, Quiet, Clients
  <2>5. ASSUME NEW score \in Grades, NEW status \in Statuses, PostReview(c, score, status)
        PROVE  Quiet /\ Goes
    BY <2>1, <2>5 DEF PostReview, Quiet, Clients
  <2>6. CASE CasScore(c)
    BY <2>1, <2>6 DEF CasScore, Quiet, Clients
  <2>7. CASE CasStatus(c)
    BY <2>1, <2>7 DEF CasStatus, Quiet, Clients
  <2>8. CASE Conflict(c)
    <3>1. pc' = [pc EXCEPT ![c] = "refresh"]
      BY <2>8 DEF Conflict
    <3>2. QED
      BY <2>1, <2>8, <3>1 DEF Conflict, Release, Quiet, Clients
  <2>9. CASE PublishReview(c)
    <3>1. ReviewState(c)
      BY <2>1, <2>9 DEF PublishReview, ClientState, InReview
    <3>2. row' = mine[c] /\ log' = log \o owed[c] /\ row'.score \in Grades
      BY <2>1, <2>9 DEF PublishReview, Rows
    <3>3. log' = log \o Record(row.score, row'.score)
      BY <3>1, <3>2 DEF ReviewState
    <3>4. \A d \in Gradebooks : owed'[d] = owed[d] /\ pc'[d] = pc[d]
      BY <2>1, <2>9 DEF PublishReview, Release, Clients
    <3>5. QED
      BY <3>2, <3>3, <3>4 DEF Published
  <2>10. QED
    BY <1>1, <2>3, <2>4, <2>5, <2>6, <2>7, <2>8, <2>9, Zenon DEF Review
<1>2. ASSUME NEW c \in Gradebooks, FillGradebook(c)
      PROVE  \/ Quiet /\ Goes
             \/ /\ Owes(c) /\ pc'[c] = "log_score"
                /\ \A d \in Gradebooks \ {c} : pc'[d] = pc[d]
             \/ Pays(c) /\ \A d \in Gradebooks \ {c} : pc'[d] = pc[d]
  <2>1. c \in Clients /\ Gradebooks \subseteq Clients
    BY DEF Clients
  <2>2. CASE ShowGradebook(c)
    BY <2>1, <2>2 DEF ShowGradebook, Quiet
  <2>3. ASSUME NEW score \in Grades, PostScore(c, score)
        PROVE  Quiet /\ Goes
    BY <2>1, <2>3 DEF PostScore, Quiet
  <2>4. ASSUME NEW score \in Grades, BeginImport(c, score)
        PROVE  Quiet /\ Goes
    BY <2>1, <2>4 DEF BeginImport, Quiet
  <2>5. CASE GradebookCas(c)
    <3>1. /\ row' = [row EXCEPT !.score = form[c].score]
          /\ form[c].score \in Grades
          /\ row.score = form[c].score_old
      BY <2>5 DEF GradebookCas, Forms
    <3>2. row'.score = form[c].score
      BY <3>1 DEF Rows
    <3>3. /\ log' = log /\ pc[c] # "log_score" /\ pc'[c] = "log_score"
          /\ \A d \in Gradebooks \ {c} : pc'[d] = pc[d]
      BY <2>1, <2>5 DEF GradebookCas
    <3>4. /\ owed'[c] = Record(row.score, row'.score)
          /\ \A d \in Gradebooks \ {c} : owed'[d] = owed[d]
      BY <2>1, <2>5, <3>1, <3>2 DEF GradebookCas
    <3>5. QED
      BY <3>1, <3>2, <3>3, <3>4 DEF Owes
  <2>6. CASE GradebookConflict(c)
    BY <2>1, <2>6 DEF GradebookConflict, Quiet
  <2>7. CASE PassOver(c)
    BY <2>1, <2>7 DEF PassOver, Quiet
  <2>8. CASE LogScore(c)
    BY <2>1, <2>8 DEF LogScore, Pays
  <2>9. QED
    BY <1>2, <2>2, <2>3, <2>4, <2>5, <2>6, <2>7, <2>8 DEF FillGradebook
<1>3. ASSUME NEW c \in Submitters, Submit(c)
      PROVE  Quiet /\ Goes
  <2>1. c \in Clients /\ c \notin Gradebooks /\ c \notin Reviewers
    BY RolesAreApart DEF Clients
  <2>2. CASE PublishSubmission(c)
    <3>1. rowLock = c => SubmissionState(c)
      BY <2>1 DEF ClientState
    <3>2. row'.score = row.score
      BY <2>2, <3>1 DEF PublishSubmission, Visible, SubmissionState
    <3>3. QED
      BY <2>1, <2>2, <3>2 DEF PublishSubmission, Release, Quiet, Clients
  <2>3. CASE BeginSolution(c) \/ BeginComment(c)
    BY <2>1, <2>3 DEF BeginSolution, BeginComment, Quiet, Clients
  <2>4. CASE SubmitSolution(c) \/ ReadAssignee(c) \/ KeepTrigger(c)
    BY <2>1, <2>4 DEF SubmitSolution, ReadAssignee, KeepTrigger, Quiet, Clients
  <2>5. ASSUME NEW t \in Teachers \union {NoTeacher}, SaveAssignee(c, t)
        PROVE  Quiet /\ Goes
    BY <2>1, <2>5 DEF SaveAssignee, Quiet, Clients
  <2>6. QED
    BY <1>3, <2>2, <2>3, <2>4, <2>5 DEF Submit
<1>4. ASSUME NEW c \in RowSavers, Save(c)
      PROVE  \/ Quiet /\ Goes
             \/ saves' = saves + 1 /\ \A d \in Gradebooks : pc'[d] = pc[d] /\ owed'[d] = owed[d]
  <2>1. c \in Clients /\ c \notin Gradebooks
    BY RolesAreApart DEF Clients
  <2>2. CASE LoadRow(c)
    BY <2>1, <2>2 DEF LoadRow, Quiet, Clients
  <2>3. ASSUME NEW r, SaveRow(c, r)
        PROVE  saves' = saves + 1 /\ \A d \in Gradebooks : pc'[d] = pc[d] /\ owed'[d] = owed[d]
    BY <2>1, <2>3 DEF SaveRow, Clients
  <2>4. QED
    BY <1>4, <2>2, <2>3 DEF Save, ApiSaveScore, ApiSaveAssignee, AdminSave
<1>5. ASSUME NEW w \in StatsWorkers, UpdateStats(w)
      PROVE  Quiet /\ Goes
  BY <1>5 DEF UpdateStats, CountSolutions, WriteStats, Quiet, Rows
<1>6. CASE UNCHANGED vars
  BY <1>6 DEF vars, Quiet
<1>7. QED
  BY <1>1, <1>2, <1>3, <1>4, <1>5, <1>6, Zenon DEF Next

(* Whole-row saves are only counted up.                                    *)
LEMMA SavesGrow ==
  ASSUME IInv, [Next]_vars
  PROVE  saves' = saves \/ saves' = saves + 1
<1> USE DEF tables
<1>1. ASSUME NEW c \in Reviewers, Review(c)
      PROVE  saves' = saves
  BY <1>1 DEF Review, ShowReview, PostInvalid, PostReview, CasScore, CasStatus,
              Conflict, PublishReview
<1>2. ASSUME NEW c \in Gradebooks, FillGradebook(c)
      PROVE  saves' = saves
  BY <1>2 DEF FillGradebook, ShowGradebook, PostScore, BeginImport, GradebookCas,
              GradebookConflict, PassOver, LogScore
<1>3. ASSUME NEW c \in Submitters, Submit(c)
      PROVE  saves' = saves
  BY <1>3 DEF Submit, BeginSolution, BeginComment, SubmitSolution, ReadAssignee,
              KeepTrigger, SaveAssignee, PublishSubmission
<1>4. ASSUME NEW c \in RowSavers, Save(c)
      PROVE  saves' = saves \/ saves' = saves + 1
  BY <1>4 DEF Save, LoadRow, ApiSaveScore, ApiSaveAssignee, AdminSave, SaveRow
<1>5. ASSUME NEW w \in StatsWorkers, UpdateStats(w)
      PROVE  saves' = saves
  BY <1>5 DEF UpdateStats, CountSolutions, WriteStats
<1>6. CASE UNCHANGED vars
  BY <1>6 DEF vars
<1>7. QED
  BY <1>1, <1>2, <1>3, <1>4, <1>5, <1>6 DEF Next

(* The audit log, with the records gradebooks are about to write, accounts *)
(* for the present score as long as nobody saves the whole row: what       *)
(* update_personal_assignment_score compares is the score its record names.*)
THEOREM AuditAccounts == Spec => []AuditBalanced
<1>1. Init => OweOne /\ AuditBalanced
  <2> SUFFICES ASSUME Init
               PROVE  OweOne /\ AuditBalanced
    OBVIOUS
  <2>0. owed = [c \in Clients |-> << >>] /\ Gradebooks \subseteq Clients
    BY DEF Init, Clients
  <2>1. OweOne
    BY <2>0 DEF OweOne
  <2>2. row.score = NoScore /\ log = << >> /\ \A c \in Gradebooks : owed[c] = << >>
    BY <2>0 DEF Init, NewRow
  <2>3. \A field, score : Logged(log, field, score) = {}
    BY <2>2 DEF Logged
  <2>4. \A field, score : Owing(owed, Gradebooks, field, score) = {}
    BY <2>2 DEF Owing
  <2>5. Balanced(row.score, log, owed)
    BY <2>2, <2>3, <2>4 DEF Balanced, Sum
  <2>6. QED
    BY <2>1, <2>5, AuditIsBalance
<1>2. IInv /\ OweOne /\ AuditBalanced /\ [Next]_vars => OweOne' /\ AuditBalanced'
  <2> SUFFICES ASSUME IInv, OweOne, AuditBalanced, [Next]_vars
               PROVE  OweOne' /\ AuditBalanced'
    OBVIOUS
  <2>0. /\ row.score \in Grades /\ log \in Seq(Changes)
        /\ saves \in Nat /\ saves' \in Nat
    BY TypedNext DEF IInv, TypeOK, Rows
  <2>1. saves' = 0 => saves = 0
    BY <2>0, SavesGrow
  <2>2. saves' = 0 => Balanced(row.score, log, owed)
    BY <2>1, AuditIsBalance
  <2>3. (saves' = 0 => Balanced(row'.score, log', owed')) => AuditBalanced'
    BY AuditIsBalance
  <2>4. CASE Quiet /\ \A d \in Gradebooks : pc[d] = "log_score" => pc'[d] = "log_score"
    <3>1. OweOne'
      BY <2>4 DEF OweOne, Quiet
    <3>2. saves' = 0 => Balanced(row'.score, log', owed')
      BY <2>2, <2>4, SameBalance DEF Quiet
    <3>3. QED
      BY <2>3, <3>1, <3>2
  <2>5. CASE Published /\ \A d \in Gradebooks : pc'[d] = pc[d]
    <3>1. OweOne'
      BY <2>5 DEF OweOne, Published
    <3>2. ASSUME saves' = 0
          PROVE  Balanced(row'.score, log', owed')
      <4>1. Balanced(row'.score, log', owed)
        BY <2>0, <2>2, <2>5, <3>2, PublishedBalances DEF Published
      <4>2. QED
        BY <2>5, <4>1, SameBalance DEF Published
    <3>3. QED
      BY <2>3, <3>1, <3>2
  <2>6. ASSUME NEW c \in Gradebooks, Owes(c), pc'[c] = "log_score",
               \A d \in Gradebooks \ {c} : pc'[d] = pc[d]
        PROVE  OweOne' /\ AuditBalanced'
    <3>1. owed'[c] \in Records
      BY <2>0, <2>6, RecordIsOne DEF Owes
    <3>2. OweOne'
      BY <2>6, <3>1 DEF OweOne, Owes
    <3>3. owed[c] = << >>
      BY <2>6 DEF OweOne, Owes
    <3>4. saves' = 0 => Balanced(row'.score, log', owed')
      BY <2>0, <2>2, <2>6, <3>3, OwedBalances DEF Owes
    <3>5. QED
      BY <2>3, <3>2, <3>4
  <2>7. ASSUME NEW c \in Gradebooks, Pays(c),
               \A d \in Gradebooks \ {c} : pc'[d] = pc[d]
        PROVE  OweOne' /\ AuditBalanced'
    <3>1. << >> \in Records /\ (owed[c] = << >> \/ owed[c] \in Records)
      BY DEF OweOne, Records
    <3>2. OweOne'
      BY <2>7 DEF OweOne, Pays
    <3>3. saves' = 0 => Balanced(row'.score, log', owed')
      BY <2>0, <2>2, <2>7, <3>1, PaidBalances, Zenon DEF Pays
    <3>4. QED
      BY <2>3, <3>2, <3>3
  <2>8. CASE /\ saves' = saves + 1
             /\ \A d \in Gradebooks : pc'[d] = pc[d] /\ owed'[d] = owed[d]
    BY <2>0, <2>3, <2>8 DEF OweOne
  <2>9. QED
    BY <2>4, <2>5, <2>6, <2>7, <2>8, Ledger
<1>3. QED
  BY <1>1, <1>2, Invariant, PTL DEF Spec
===============================================================================
