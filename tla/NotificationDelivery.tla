-------------------------- MODULE NotificationDelivery --------------------------
(***************************************************************************)
(* Notifications of one course and their e-mails: the records a request    *)
(* creates in its transaction (notification_service.py, signals.py,        *)
(* assignment_service.py), the jobs it queues before that transaction      *)
(* commits, the queue workers that send the e-mails (notifications/        *)
(* tasks.py), and what users and commands do to the records meanwhile.     *)
(*                                                                         *)
(* The queue is Redis: a job is visible at once, its rows are not.  No job *)
(* is retried, and a job that dies loses what it had not sent.             *)
(***************************************************************************)
EXTENDS Integers, FiniteSets, Sequences, SequencesExt

CONSTANTS
  Students,   (* students of the course, each with a personal assignment   *)
  Teachers,   (* teachers of the course who want notifications             *)
  Requests,   (* web workers that create notifications                     *)
  Workers,    (* workers of the default queue                              *)
  BatchSize,  (* batch_size of bulk_create_student_assignments             *)
  MaxNotes    (* bound: notifications ever created                         *)

ASSUME DisjointUsers == Students \intersect Teachers = {}
ASSUME FiniteUsers == IsFiniteSet(Students) /\ IsFiniteSet(Teachers)
ASSUME SizesAreNat == BatchSize \in Nat \ {0} /\ MaxNotes \in Nat

Users    == Students \union Teachers
Posts    == {"assignment", "news"}
Subjects == Students \union {"news"}   (* a student's work, or the news    *)
Notes    == 1..MaxNotes

VARIABLES
  posts,      (* post -> is it to come, published or deleted               *)
  enrolled,   (* the active students                                       *)
  rows,       (* note -> its record                                        *)
  request,    (* web worker -> what it still has to create, queue, commit  *)
  queue,      (* the default queue: sequence of sets of notes              *)
  scheduled,  (* jobs that start when the assignment opens                 *)
  job,        (* queue worker -> the records it loaded, the one it saves   *)
  sent,       (* note -> e-mails sent about it                             *)
  lost,       (* history: notes a job gave up, or did not find             *)
  quiet       (* history: notes read or deleted before any job loaded them *)

vars == <<posts, enrolled, rows, request, queue, scheduled, job, sent, lost,
          quiet>>

-------------------------------------------------------------------------------
Unused == [state |-> "unused", user |-> "nobody", subject |-> "nothing",
           unread |-> FALSE, notified |-> FALSE]

(* is_unread and is_notified have these defaults.                          *)
NewRow(u, x) == [state |-> "pending", user |-> u, subject |-> x,
                 unread |-> TRUE, notified |-> FALSE]

Idle   == [kind |-> "none", to |-> {}, about |-> [u \in {} |-> "news"],
           unqueued |-> {}, mine |-> {}]
NoJob  == [copies |-> [n \in {} |-> Unused], saving |-> 0]

PostOf(x) == IF x = "news" THEN "news" ELSE "assignment"
Live(n)   == rows[n].state = "live"
Held      == UNION {DOMAIN job[w].copies : w \in Workers}
Fresh     == {n \in Notes : rows[n].state = "unused"}

Init ==
  /\ posts \in [Posts -> {"to_come", "published"}]
  /\ posts["news"] = "to_come"
  /\ enrolled = Students
  /\ rows = [n \in Notes |-> Unused]
  /\ request = [p \in Requests |-> Idle]
  /\ queue = <<>>
  /\ scheduled = {}
  /\ job = [w \in Workers |-> NoJob]
  /\ sent = [n \in Notes |-> 0]
  /\ lost = {}
  /\ quiet = {}

-------------------------------------------------------------------------------
(* Requests that notify users.                                             *)

(* Bound: a request starts when there are ids for everybody it notifies.   *)
Start(p, kind, about) ==
  /\ request[p] = Idle
  /\ DOMAIN about # {}
  /\ Cardinality(DOMAIN about) + Cardinality(UNION {request[q].to : q \in Requests})
       <= Cardinality(Fresh)
  /\ request' = [request EXCEPT ![p] =
                   [Idle EXCEPT !.kind = kind, !.to = DOMAIN about, !.about = about]]
  /\ UNCHANGED <<posts, enrolled, rows, queue, scheduled, job, sent, lost, quiet>>

OwnWork(users) == [s \in users |-> s]

(* generate_notifications_about_new_submission: the student if somebody    *)
(* else wrote, the assignees who want it if the student did.               *)
NewSubmission(p, s) ==
  /\ posts["assignment"] = "published"
  /\ \/ Start(p, "submission", OwnWork({s}))
     \/ \E assignees \in SUBSET Teachers :
          Start(p, "submission", [t \in assignees |-> s])

DeadlineChanged(p) ==
  /\ posts["assignment"] = "published"
  /\ Start(p, "deadline", OwnWork(enrolled))

(* A post is published once.                                               *)
Publishes(p, post) == /\ posts[post] = "to_come"
                      /\ \A q \in Requests : request[q].kind # post

AssignmentCreated(p) ==
  /\ Publishes(p, "assignment")
  /\ Start(p, "assignment", OwnWork(enrolled))

NewsCreated(p) ==
  /\ Publishes(p, "news")
  /\ Start(p, "news", [u \in enrolled \union Teachers |-> "news"])

(* An assignment's notifications are created in batches, the others at     *)
(* once.                                                                   *)
Batches(p) ==
  LET r == request[p]
      size == IF r.kind = "assignment" /\ BatchSize < Cardinality(r.to)
              THEN BatchSize ELSE Cardinality(r.to)
  IN {b \in SUBSET r.to : Cardinality(b) = size}

(* The post was deleted after the request had loaded it.                   *)
Gone(p) == \E u \in request[p].to : posts[PostOf(request[p].about[u])] = "deleted"

(* bulk_create, or save() one by one: in the transaction of the request.   *)
Insert(p) ==
  /\ request[p].unqueued = {}
  /\ request[p].to # {}
  /\ ~Gone(p)
  /\ \E batch \in Batches(p) :
       LET users == SetToSeq(batch)
           first == MaxNotes - Cardinality(Fresh)
           ids   == first + 1 .. first + Cardinality(batch)
       IN /\ Cardinality(batch) <= Cardinality(Fresh)
          /\ rows' = [n \in Notes |->
                        IF n \in ids
                        THEN NewRow(users[n - first], request[p].about[users[n - first]])
                        ELSE rows[n]]
          /\ request' = [request EXCEPT ![p].to = @ \ batch, ![p].unqueued = ids,
                                        ![p].mine = @ \union ids]
  /\ UNCHANGED <<posts, enrolled, queue, scheduled, job, sent, lost, quiet>>

(* A foreign key refers to nothing: IntegrityError.                        *)
InsertFails(p) ==
  /\ request[p].unqueued = {}
  /\ Gone(p)
  /\ request' = [request EXCEPT ![p] = Idle]
  /\ UNCHANGED <<posts, enrolled, rows, queue, scheduled, job, sent, lost, quiet>>

(* Mutant: the list of ids is not started anew for the next batch.         *)
JobIdsSoFar(p) == request[p].mine

(* The ids a job gets: those of the batch.                                 *)
JobIds(p) == request[p].unqueued

(* delay(), and enqueue_at(opens_at) for a new assignment.                 *)
Enqueue(p) ==
  /\ request[p].unqueued # {}
  /\ IF request[p].kind = "assignment"
     THEN /\ scheduled' = scheduled \union {JobIds(p)}
          /\ UNCHANGED queue
     ELSE /\ queue' = Append(queue, JobIds(p))
          /\ UNCHANGED scheduled
  /\ request' = [request EXCEPT ![p].unqueued = {}]
  /\ UNCHANGED <<posts, enrolled, rows, job, sent, lost, quiet>>

Ready(p) == request[p].mine # {} /\ request[p].to = {} /\ request[p].unqueued = {}

Commit(p) ==
  /\ Ready(p)
  /\ rows' = [n \in Notes |-> IF n \in request[p].mine
                              THEN [rows[n] EXCEPT !.state = "live"] ELSE rows[n]]
  /\ posts' = [x \in Posts |-> IF x = request[p].kind THEN "published" ELSE posts[x]]
  /\ request' = [request EXCEPT ![p] = Idle]
  /\ UNCHANGED <<enrolled, queue, scheduled, job, sent, lost, quiet>>

(* An exception: the rows are gone, the queued jobs are not.               *)
Rollback(p) ==
  /\ request[p].mine # {}
  /\ rows' = [n \in Notes |-> IF n \in request[p].mine
                              THEN [rows[n] EXCEPT !.state = "deleted"] ELSE rows[n]]
  /\ request' = [request EXCEPT ![p] = Idle]
  /\ UNCHANGED <<posts, enrolled, queue, scheduled, job, sent, lost, quiet>>

-------------------------------------------------------------------------------
(* The default queue and its workers.                                      *)

(* The assignment opens: its job joins the queue.                          *)
Due(ids) ==
  /\ ids \in scheduled
  /\ scheduled' = scheduled \ {ids}
  /\ queue' = Append(queue, ids)
  /\ UNCHANGED <<posts, enrolled, rows, request, job, sent, lost, quiet>>

(* Mutant: is_unread is not looked at.                                     *)
ToNotifyAnyway(ids) == {n \in ids : Live(n) /\ ~rows[n].notified}

(* filter(is_unread=True, is_notified=False, id__in=ids)                   *)
ToNotify(ids) == {n \in ids : Live(n) /\ rows[n].unread /\ ~rows[n].notified}

(* The job evaluates the query once and goes over the result.              *)
Take(w) ==
  /\ job[w] = NoJob
  /\ queue # <<>>
  /\ job' = [job EXCEPT ![w].copies = [n \in ToNotify(Head(queue)) |-> rows[n]]]
  /\ lost' = lost \union {n \in Head(queue) : rows[n].state = "pending"}
  /\ queue' = Tail(queue)
  /\ UNCHANGED <<posts, enrolled, rows, request, scheduled, sent, quiet>>

(* Mutant: the place of the loop is kept.                                  *)
WithoutMovingOn(w, n) ==
  [copies |-> [m \in DOMAIN job[w].copies \ {n} |-> job[w].copies[m]],
   saving |-> n]

Without(w, n) == [copies |-> [m \in DOMAIN job[w].copies \ {n} |-> job[w].copies[m]],
                  saving |-> 0]

(* msg.send()                                                              *)
Send(w, n) ==
  /\ job[w].saving = 0
  /\ n \in DOMAIN job[w].copies
  /\ sent' = [sent EXCEPT ![n] = @ + 1]
  /\ job' = [job EXCEPT ![w].saving = n]
  /\ UNCHANGED <<posts, enrolled, rows, request, queue, scheduled, lost, quiet>>

(* Mutant: the exception is not caught, and nobody noticed.                *)
SendFailsForAll(w, n) ==
  /\ job[w].saving = 0
  /\ n \in DOMAIN job[w].copies
  /\ job' = [job EXCEPT ![w] = NoJob]
  /\ lost' = lost \union {n}
  /\ UNCHANGED <<posts, enrolled, rows, request, queue, scheduled, sent, quiet>>

(* Mutant: the exception is logged and the notification marked as sent.    *)
SendFailsUnnoticed(w, n) ==
  /\ job[w].saving = 0
  /\ n \in DOMAIN job[w].copies
  /\ job' = [job EXCEPT ![w].saving = n]
  /\ lost' = lost \union {n}
  /\ UNCHANGED <<posts, enrolled, rows, request, queue, scheduled, sent, quiet>>


(* An SMTPException is logged: the next notification's turn.               *)
SendFails(w, n) ==
  /\ job[w].saving = 0
  /\ n \in DOMAIN job[w].copies
  /\ job' = [job EXCEPT ![w] = Without(w, n)]
  /\ lost' = lost \union {n}
  /\ UNCHANGED <<posts, enrolled, rows, request, queue, scheduled, sent, quiet>>

(* notification.save(): every column of the loaded record; if the row is   *)
(* gone it is inserted again.                                              *)
Save(w) ==
  LET n == job[w].saving
      copy == job[w].copies[n]
  IN /\ n # 0
     /\ posts[PostOf(copy.subject)] = "published"
     /\ rows' = [rows EXCEPT ![n] = [copy EXCEPT !.notified = TRUE]]
     /\ job' = [job EXCEPT ![w] = Without(w, n)]
     /\ UNCHANGED <<posts, enrolled, request, queue, scheduled, sent, lost, quiet>>

(* The job ends with what it has not sent: no retry.                       *)
Abandon(w) ==
  /\ job' = [job EXCEPT ![w] = NoJob]
  /\ lost' = lost \union DOMAIN job[w].copies
  /\ UNCHANGED <<posts, enrolled, rows, request, queue, scheduled, sent, quiet>>

(* The INSERT violates a foreign key: IntegrityError.                      *)
SaveFails(w) ==
  /\ job[w].saving # 0
  /\ posts[PostOf(job[w].copies[job[w].saving].subject)] = "deleted"
  /\ Abandon(w)

(* The mail server refuses the connection (no SMTPException), or the       *)
(* worker is killed.                                                       *)
Die(w) ==
  /\ job[w] # NoJob
  /\ Abandon(w)

-------------------------------------------------------------------------------
(* What happens to the records meanwhile.                                  *)

(* These live rows change to row(n).                                       *)
Change(notes, row(_)) ==
  /\ notes # {}
  /\ rows' = [n \in Notes |-> IF n \in notes THEN row(n) ELSE rows[n]]
  /\ quiet' = quiet \union {n \in notes \ Held : sent[n] = 0}
  /\ UNCHANGED <<request, queue, scheduled, job, sent, lost>>

AsRead(n)    == [rows[n] EXCEPT !.unread = FALSE]
AsDeleted(n) == [rows[n] EXCEPT !.state = "deleted"]

(* A user opens the page of a work, or closes the news.                    *)
Read(u, x) ==
  /\ Change({n \in Notes : /\ Live(n) /\ rows[n].unread
                           /\ rows[n].user = u /\ rows[n].subject = x}, AsRead)
  /\ UNCHANGED <<posts, enrolled>>

(* read_stale_notifications at the beginning of a term.                    *)
ReadStale(last) ==
  /\ Change({n \in 1..last : Live(n) /\ rows[n].unread}, AsRead)
  /\ UNCHANGED <<posts, enrolled>>

(* notification_cleanup: read, and created terms ago.                      *)
Cleanup(last) ==
  /\ Change({n \in (1..last) \ Held : Live(n) /\ ~rows[n].unread}, AsDeleted)
  /\ UNCHANGED <<posts, enrolled>>

(* remove_course_notifications_for_student, when s leaves the course.      *)
Leave(s) ==
  LET theirs == {n \in Notes : Live(n) /\ rows[n].user = s}
  IN /\ s \in enrolled
     /\ enrolled' = enrolled \ {s}
     /\ Change(theirs, AsDeleted) \/ (theirs = {} /\ UNCHANGED <<rows, request,
                                queue, scheduled, job, sent, lost, quiet>>)
     /\ UNCHANGED posts

Enroll(s) ==
  /\ s \notin enrolled
  /\ enrolled' = enrolled \union {s}
  /\ UNCHANGED <<posts, rows, request, queue, scheduled, job, sent, lost, quiet>>

(* Deleting the assignment or the news deletes what refers to it, and waits*)
(* for transactions that insert such rows.                                 *)
Unpublish(post) ==
  LET theirs == {n \in Notes : Live(n) /\ PostOf(rows[n].subject) = post}
  IN /\ posts[post] = "published"
     /\ \A n \in Notes :
          rows[n].state = "pending" => PostOf(rows[n].subject) # post
     /\ posts' = [posts EXCEPT ![post] = "deleted"]
     /\ Change(theirs, AsDeleted)
     /\ UNCHANGED enrolled

-------------------------------------------------------------------------------
Notify(p) ==
  \/ \E s \in enrolled : NewSubmission(p, s)
  \/ DeadlineChanged(p) \/ AssignmentCreated(p) \/ NewsCreated(p)

Serve(p) == Insert(p) \/ InsertFails(p) \/ Enqueue(p) \/ Commit(p)

Work(w) ==
  \/ Take(w) \/ Save(w) \/ SaveFails(w)
  \/ \E n \in Notes : Send(w, n) \/ SendFails(w, n)

Elsewhere ==
  \/ \E u \in Users, x \in Subjects : Read(u, x)
  \/ \E last \in Notes : ReadStale(last) \/ Cleanup(last)
  \/ \E s \in Students : Leave(s) \/ Enroll(s)
  \/ \E post \in Posts : Unpublish(post)

Next ==
  \/ \E p \in Requests : Notify(p) \/ Serve(p) \/ Rollback(p)
  \/ \E ids \in scheduled : Due(ids)
  \/ \E w \in Workers : Work(w) \/ Die(w)
  \/ Elsewhere

(* Requests finish, the scheduler and the queue workers run.               *)
Fairness ==
  /\ \A p \in Requests : WF_vars(Serve(p))
  /\ WF_vars(\E ids \in scheduled : Due(ids))
  /\ \A w \in Workers : WF_vars(Work(w))

Spec == Init /\ [][Next]_vars /\ Fairness

-------------------------------------------------------------------------------
RowType == [state : {"unused", "pending", "live", "deleted"},
            user : Users \union {"nobody"}, subject : Subjects \union {"nothing"},
            unread : BOOLEAN, notified : BOOLEAN]

(* Every variable keeps its type; what a request has not committed nobody  *)
(* has loaded.                                                             *)
TypeOK ==
  /\ posts \in [Posts -> {"to_come", "published", "deleted"}]
  /\ enrolled \subseteq Students
  /\ rows \in [Notes -> RowType]
  /\ \A p \in Requests : request[p].mine \subseteq Notes
  /\ \A i \in DOMAIN queue : queue[i] \subseteq Notes
  /\ scheduled \subseteq SUBSET Notes
  /\ \A w \in Workers : /\ job[w].saving \in DOMAIN job[w].copies \union {0}
                        /\ \A n \in DOMAIN job[w].copies : rows[n].state # "pending"
  /\ sent \in [Notes -> Nat]
  /\ lost \subseteq Notes /\ quiet \subseteq Notes

(* Nobody gets two e-mails about one notification, with any number of queue*)
(* workers: the ids of a record are in one job only (no lock protects      *)
(* is_notified between the query and the save of tasks.py).                *)
EmailedOnce == \A n \in Notes : sent[n] <= 1

(* is_notified says whether the e-mail went out, except while it is being  *)
(* saved and for a job that died in between, whoever deletes, restores or  *)
(* reads the record meanwhile (send_notification).                         *)
NotifiedIsTrue ==
  \A n \in Notes :
    Live(n) => /\ rows[n].notified => sent[n] = 1
               /\ sent[n] = 1 => \/ rows[n].notified
                                 \/ n \in lost
                                 \/ \E w \in Workers : job[w].saving = n

(* Who has read a notification, or left the course, before a job loaded the*)
(* record gets no e-mail about it, and the record never comes back (the    *)
(* filters of send_assignment_notifications).                              *)
ReadBeforeIsQuiet ==
  \A n \in quiet : sent[n] = 0 /\ ~(Live(n) /\ rows[n].unread)

(* Every notification is settled: e-mailed, read, deleted, or given up by a*)
(* job that failed on it or ran before its transaction had committed;      *)
(* another one's SMTP error does not keep it waiting.                      *)
EverybodyIsNotified ==
  \A n \in Notes :
    Live(n) ~> (sent[n] = 1 \/ ~rows[n].unread \/ ~Live(n) \/ n \in lost)

(* What has become of the e-mail about a notification.                     *)
Status == [n \in Notes |->
  IF sent[n] > 0 THEN "emailed"
  ELSE IF n \in lost THEN "lost"
  ELSE IF n \in quiet THEN "seen"
  ELSE IF rows[n].state \in {"unused", "pending"} THEN "none"
  ELSE IF rows[n].state = "live" \/ n \in Held THEN "due"
  ELSE "void"]

(* Requests, scheduler and queue workers, with what they lose and load too *)
(* early or too late, do no more than Mailing.tla says: a notification is  *)
(* e-mailed only once it is committed, and never after it was given up or  *)
(* dealt with (services/notification_service.py, notifications/tasks.py).  *)
Mail == INSTANCE Mailing WITH status <- Status

ImplementsMailing == Mail!Spec
===============================================================================
