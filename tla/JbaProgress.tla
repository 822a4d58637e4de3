---------------------------- MODULE JbaProgress ----------------------------
(***************************************************************************)
(* Results of a JetBrains Academy assignment (learning/services/            *)
(* jba_service.py): students solve tasks at an external service; a chain of *)
(* polling jobs, a job at the deadline and a button on the student's page   *)
(* fetch what has been solved, set scores and post comments.                *)
(*                                                                         *)
(* An update loads the personal assignments, asks the service, and then     *)
(* serves the students one after the other; each is a look at the newest    *)
(* comment and a transaction.  An exception ends the whole update: the      *)
(* polling job does not schedule its successor, the queue retries nothing.  *)
(* Tasks are counted, since what is solved stays solved; scores are in      *)
(* tasks.  Submissions for review are the subject of PersonalAssignment.    *)
(***************************************************************************)
EXTENDS Integers

CONSTANTS
    Students,    \* the students who have the assignment
    Workers,     \* queue workers
    Requests,    \* web workers that serve the "Update now" button
    Tasks,       \* how many tasks the course at the service has
    MaxTime,     \* bound: the clock stops here
    MayFail,     \* calls of the service may fail, and workers be killed
    Given        \* scores and statuses a teacher may give by hand, once a student

ASSUME TasksAssumption == Tasks \in Nat \ {0}
ASSUME TimeAssumption == MaxTime \in Nat \ {0}
ASSUME FailAssumption == MayFail \in BOOLEAN
ASSUME ActorsAssumption == Workers \intersect Requests = {}

NoScore == -1
Scores == {NoScore} \union 0..Tasks
Statuses == {"not_submitted", "on_checking", "completed"}
Row == [score : Scores, status : Statuses]
ASSUME GivenAssumption == Given \subseteq Row

VARIABLES
    now,
    deadline,   \* Assignment.deadline_at
    solved,     \* the tasks each student has solved at the service
    row,        \* score and status of the personal assignments
    newest,     \* the published comment of each with the latest `created`
    poll,       \* the job update_jba_progress is scheduled
    due,        \* when the job update_jba_progress_at_deadline is to run
    job,        \* what each worker is doing
    lost,       \* kinds of the queue's jobs that have ended with an exception
    graded      \* students whom a teacher has given a score or a status

vars == <<now, deadline, solved, row, newest, poll, due, job, lost, graded>>
calendar == <<now, deadline, due>>
work == <<row, newest, graded>>

Actors == Workers \union Requests
Times == 0..MaxTime
NotScheduled == -1
Fresh == [s \in Students |-> [score |-> NoScore, status |-> "not_submitted"]]

\* A comment by what its meta holds: nothing at all (NULL), the score and the
\* status of a review, or the solved tasks the service has reported as well.
Comment == [kind : {"none", "comment", "review", "jba"}, tasks : 0..Tasks, created : Times]
NoComment == [kind |-> "none", tasks |-> 0, created |-> 0]

Idle == [kind |-> "idle"]
NoTasks == [s \in Students |-> 0]
Running ==
    [kind : {"poll", "deadline", "button"}, phase : {"load", "fetch", "report", "write"},
     deadline : Times, late : BOOLEAN, scoring : BOOLEAN, rows : [Students -> Row],
     progress : [Students -> 0..Tasks], todo : SUBSET Students, at : SUBSET Students]
Job == {Idle} \union Running

Init ==
    /\ now = 0
    /\ deadline \in 1..MaxTime
    /\ solved = NoTasks
    /\ row = Fresh
    /\ newest = [s \in Students |-> NoComment]
    /\ poll = TRUE
    /\ due = deadline
    /\ job = [a \in Actors |-> Idle]
    /\ lost = {} /\ graded = {}

----------------------------------------------------------------------------
(* How an update begins; `late` remembers for the properties that it was after *)
(* the deadline. *)

Started(kind, who) ==
    [kind |-> kind, phase |-> "load", deadline |-> deadline, late |-> now > deadline,
     scoring |-> FALSE, rows |-> Fresh, progress |-> NoTasks, todo |-> who, at |-> {}]

\* update_current_assignments_progress: assignments with a future deadline.  A
\* run that finds the deadline passed changes nothing of this assignment.
Poll(w) ==
    /\ job[w] = Idle
    /\ poll /\ deadline > now
    /\ poll' = FALSE
    /\ job' = [job EXCEPT ![w] = Started("poll", Students)]
    /\ UNCHANGED <<calendar, solved, work, lost>>

AtDeadline(w) ==
    /\ job[w] = Idle
    /\ due # NotScheduled /\ due <= now
    /\ due' = NotScheduled
    /\ job' = [job EXCEPT ![w] = Started("deadline", Students)]
    /\ UNCHANGED <<now, deadline, solved, work, poll, lost>>

\* UpdateJbaProgressView.
Press(r, s) ==
    /\ job[r] = Idle
    /\ job' = [job EXCEPT ![r] = Started("button", {s})]
    /\ UNCHANGED <<calendar, solved, work, poll, lost>>

----------------------------------------------------------------------------
(* update_assignment_progress. *)

\* Mutant: scores are set whatever the time.
MaySetAnyway(a) == TRUE

\* The tasks of the course have been fetched: the rows are loaded, and the
\* time decides whether the update sets scores (and needs what was loaded).
MaySetScores(a) == now <= job[a].deadline \/ job[a].kind = "deadline"
Load(a) ==
    /\ job[a] # Idle /\ job[a].phase = "load"
    /\ job' = [job EXCEPT ![a].phase = "fetch", ![a].scoring = MaySetScores(a),
                          ![a].rows = IF MaySetScores(a) THEN row ELSE Fresh]
    /\ UNCHANGED <<calendar, solved, work, poll, lost>>

\* get_course_progress.
Fetch(a) ==
    /\ job[a] # Idle /\ job[a].phase = "fetch"
    /\ job' = [job EXCEPT ![a].phase = "report", ![a].progress = solved]
    /\ UNCHANGED <<calendar, solved, work, poll, lost>>

\* An exception: the rest of the students is not served, and a polling job
\* does not schedule the next one.
Raise(a) ==
    /\ job' = [job EXCEPT ![a] = Idle]
    /\ lost' = IF a \in Workers THEN lost \union {job[a].kind} ELSE lost

\* The service does not answer, or the worker is killed.
Fail(a) ==
    /\ job[a] # Idle
    /\ MayFail
    /\ Raise(a)
    /\ UNCHANGED <<calendar, solved, work, poll>>

Reported(a, s) == newest[s].kind = "jba" /\ newest[s].tasks = job[a].progress[s]

\* The newest comment says whether there is something to report.  The meta of
\* a plain comment is NULL and has no keys to look up.
Look(a, s) ==
    /\ job[a] # Idle /\ job[a].phase = "report"
    /\ s \in job[a].todo
    /\ CASE newest[s].kind = "comment" -> Raise(a)
         [] newest[s].kind # "comment" /\ Reported(a, s) ->
              job' = [job EXCEPT ![a].todo = @ \ {s}] /\ UNCHANGED lost
         [] OTHER ->
              job' = [job EXCEPT ![a].phase = "write", ![a].at = {s}] /\ UNCHANGED lost
    /\ UNCHANGED <<calendar, solved, work, poll>>

\* Mutant: the review does not compare what it replaces.
NoConflict(a, s) == FALSE

\* The transaction of one student: a review that replaces the score and the
\* status that were loaded, or a comment once the deadline is over.  A review
\* at the deadline is dated back to it; of two comments of one time either may
\* be the newest.
Conflict(a, s) == job[a].scoring /\ row[s] # job[a].rows[s]

\* Mutant: a theory task is counted among the solved ones.
ScoreWithTheory(a, s) == job[a].progress[s] + 1

\* Every solved task counts the same.
Score(a, s) == job[a].progress[s]

CreatedAt(a) == IF job[a].kind = "deadline" /\ job[a].scoring THEN job[a].deadline ELSE now

Post(s, comment) ==
    \/ /\ comment.created >= newest[s].created
       /\ newest' = [newest EXCEPT ![s] = comment]
    \/ /\ comment.created <= newest[s].created /\ comment.created < now
       /\ UNCHANGED newest

Write(a, s) ==
    /\ job[a] # Idle /\ job[a].phase = "write"
    /\ s \in job[a].at
    /\ IF Conflict(a, s)
       THEN Raise(a) /\ UNCHANGED <<row, newest>>
       ELSE /\ row' = IF job[a].scoring
                      THEN [row EXCEPT ![s] = [score |-> Score(a, s), status |-> "completed"]]
                      ELSE row
            /\ Post(s, [kind |-> "jba", tasks |-> job[a].progress[s], created |-> CreatedAt(a)])
            /\ job' = [job EXCEPT ![a].phase = "report", ![a].at = {}, ![a].todo = @ \ {s}]
            /\ UNCHANGED lost
    /\ UNCHANGED <<calendar, solved, poll, graded>>

\* Mutant: leaves the next job to a restart of the server.
FinishForGood(a) ==
    /\ job[a] # Idle /\ job[a].phase = "report" /\ job[a].todo = {}
    /\ job' = [job EXCEPT ![a] = Idle]
    /\ UNCHANGED <<calendar, solved, work, poll, lost>>

\* Everybody is served; a polling job schedules the next one under its own id.
Finish(a) ==
    /\ job[a] # Idle /\ job[a].phase = "report" /\ job[a].todo = {}
    /\ poll' = (poll \/ job[a].kind = "poll")
    /\ job' = [job EXCEPT ![a] = Idle]
    /\ UNCHANGED <<calendar, solved, work, lost>>

----------------------------------------------------------------------------
(* What goes on meanwhile. *)

\* A student solves a task, or writes a comment.
Solve(s) ==
    /\ solved[s] < Tasks
    /\ solved' = [solved EXCEPT ![s] = @ + 1]
    /\ UNCHANGED <<calendar, work, poll, job, lost>>

PlainComment(s) ==
    /\ newest' = [newest EXCEPT ![s] = [kind |-> "comment", tasks |-> 0, created |-> now]]
    /\ UNCHANGED <<calendar, solved, row, graded, poll, job, lost>>

\* A teacher's review, or a score in the gradebook.
Review(s) ==
    /\ s \notin graded
    /\ \E new \in Given : row' = [row EXCEPT ![s] = new]
    /\ newest' = [newest EXCEPT ![s] = [kind |-> "review", tasks |-> 0, created |-> now]]
    /\ graded' = graded \union {s}
    /\ UNCHANGED <<calendar, solved, poll, job, lost>>

SetScore(s) ==
    /\ s \notin graded
    /\ \E new \in Given : row' = [row EXCEPT ![s].score = new.score]
    /\ graded' = graded \union {s}
    /\ UNCHANGED <<calendar, solved, newest, poll, job, lost>>

\* Mutant: the job stays where it was.
ExtendOnly(d) ==
    /\ d > deadline /\ d > now
    /\ deadline' = d
    /\ UNCHANGED <<now, due, solved, work, poll, job, lost>>

\* A teacher extends the deadline; the assignment's post_save handler
\* schedules the job at the deadline anew.
Extend(d) ==
    /\ d > deadline /\ d > now
    /\ deadline' = d
    /\ due' = d
    /\ UNCHANGED <<now, solved, work, poll, job, lost>>

\* The server starts: LearningConfig.ready schedules the polling job.
Restart ==
    /\ ~poll
    /\ poll' = TRUE
    /\ UNCHANGED <<calendar, solved, work, job, lost>>

Tick ==
    /\ now < MaxTime
    /\ now' = now + 1
    /\ UNCHANGED <<deadline, due, solved, work, poll, job, lost>>

----------------------------------------------------------------------------
Update(a) ==
    \/ Load(a)
    \/ Fetch(a)
    \/ \E s \in Students : Look(a, s) \/ Write(a, s)
    \/ Finish(a)

Begin ==
    \/ \E w \in Workers : Poll(w) \/ AtDeadline(w)
    \/ \E r \in Requests, s \in Students : Press(r, s)

Meanwhile ==
    \/ \E s \in Students : Solve(s) \/ PlainComment(s) \/ Review(s) \/ SetScore(s)
    \/ \E d \in Times : Extend(d)
    \/ Restart
    \/ Tick

Next ==
    \/ Begin
    \/ \E a \in Actors : Update(a) \/ Fail(a)
    \/ Meanwhile

\* Time passes, the workers run what is due, and the service answers or the
\* call fails.
Fairness ==
    /\ WF_vars(Tick)
    /\ \A w \in Workers : WF_vars(Poll(w)) /\ WF_vars(AtDeadline(w))
    /\ \A a \in Actors : WF_vars(Update(a))

Spec == Init /\ [][Next]_vars
FairSpec == Spec /\ Fairness

----------------------------------------------------------------------------
\* Every variable has its type; no score exceeds what the tasks are worth.
TypeOK ==
    /\ now \in Times
    /\ deadline \in Times
    /\ solved \in [Students -> 0..Tasks]
    /\ row \in [Students -> Row]
    /\ newest \in [Students -> Comment]
    /\ poll \in BOOLEAN
    /\ due \in Times \union {NotScheduled}
    /\ job \in [Actors -> Job]
    /\ lost \subseteq {"poll", "deadline"}
    /\ graded \subseteq Students

\* Of two updates at a time the one with the older answer of the service does
\* not win: a score nobody but the service gives never decreases.
ScoresFollowProgress ==
    [][\A s \in Students \ graded' : row'[s].score >= row[s].score]_vars

\* Tasks solved too late: of the updates that begin after the deadline only
\* the job at the deadline sets scores, however the update goes on.
LateTasksDoNotCount ==
    [][row' # row /\ job' # job
       => \E a \in Actors :
            job'[a] # job[a] /\ (job[a].kind = "deadline" \/ ~job[a].late)]_vars

\* The chain of polling jobs goes on unless one of them has failed.
PollingGoesOn ==
    \/ poll
    \/ \E w \in Workers : job[w].kind = "poll"
    \/ "poll" \in lost

\* A result shows in the score, or in the newest comment under the work.
Shows(s, n) == row[s].score >= n \/ (newest[s].kind = "jba" /\ newest[s].tasks >= n)

\* What is solved before the deadline is reported, unless the job at the
\* deadline has failed.
ResultsAreUpdated ==
    \A s \in Students, n \in 1..Tasks :
      (solved[s] >= n /\ now < deadline) ~> (Shows(s, n) \/ "deadline" \in lost)

\* "Results are updated every few hours and at the time of the deadline." says
\* the page of the personal assignment: the same with no excuse, for a service
\* that always answers and a teacher who does not interfere.
ResultsOfEverybody ==
    \A s \in Students, n \in 1..Tasks : (solved[s] >= n /\ now < deadline) ~> Shows(s, n)
=============================================================================
