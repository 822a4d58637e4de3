------------------------- MODULE JbaProgressProofs -------------------------
(***************************************************************************)
(* Proofs about JbaProgress.tla for any number of students, queue workers, *)
(* requests and tasks: the chain of polling jobs, the newest answer of the *)
(* service and the deadline, under no more than the constants' assumptions. *)
(***************************************************************************)
EXTENDS JbaProgress, TLAPS

Busy(a) == job[a] # Idle

\* What an update remembers of the deadline goes with its decision to score.
KnowsDeadline(a) ==
    /\ job[a].late => now > job[a].deadline
    /\ job[a].scoring => job[a].kind = "deadline" \/ ~job[a].late

\* What an update has loaded and fetched is not ahead of the student, and the
\* scores it loaded are not ahead of the answer it got.
KnowsProgress(a, s) ==
    /\ job[a].progress[s] <= solved[s]
    /\ s \notin graded /\ job[a].scoring /\ job[a].phase = "fetch" =>
         job[a].rows[s].score <= solved[s]
    /\ s \notin graded /\ job[a].scoring /\ job[a].phase \in {"report", "write"} =>
         job[a].rows[s].score <= job[a].progress[s]

Knows(a) == KnowsDeadline(a) /\ \A s \in Students : KnowsProgress(a, s)

Informed ==
    /\ \A a \in Actors : Busy(a) => Knows(a)
    /\ \A s \in Students \ graded : row[s].score <= solved[s]

\* The button is pressed on a page, never by the queue.
RunByTheQueue == \A w \in Workers : job[w].kind # "button"

TypedState == TypeOK /\ RunByTheQueue
IInv == TypedState /\ PollingGoesOn /\ Informed

----------------------------------------------------------------------------
\* An update under way is one of the records of Running; an idle actor is not.
LEMMA JobsAreTyped ==
    ASSUME TypeOK
    PROVE  /\ \A a \in Actors : Busy(a) => job[a] \in Running
           /\ Idle \in Job
           /\ Running \subseteq Job
           /\ \A j \in Running : j # Idle /\ j.kind # "idle"
  BY DEF TypeOK, Job, Running, Busy, Idle

\* Work nobody has graded, and no answer of the service yet.
LEMMA ValuesAreTyped ==
    /\ Fresh \in [Students -> Row]
    /\ NoTasks \in [Students -> 0..Tasks]
    /\ NoComment \in Comment
  BY TasksAssumption, TimeAssumption
     DEF Fresh, Row, Scores, NoScore, Statuses, NoTasks, NoComment, Comment, Times

LEMMA StartIsTyped ==
    ASSUME TypeOK, NEW kind \in {"poll", "deadline", "button"}, NEW who \in SUBSET Students
    PROVE  Started(kind, who) \in Running
  BY ValuesAreTyped DEF TypeOK, Started, Running, Times

\* The initial state is well typed.
LEMMA TypedInit == Init => TypedState
  BY ValuesAreTyped, TasksAssumption, TimeAssumption
     DEF Init, TypedState, TypeOK, RunByTheQueue, Times, Job, Idle, Fresh, NoTasks,
         Actors

\* A step of one actor keeps the types of what actors do.
LEMMA JobStep ==
    ASSUME TypedState, NEW a \in Actors, NEW j \in Job,
           job' = [job EXCEPT ![a] = j], a \in Workers => j.kind # "button"
    PROVE  job' \in [Actors -> Job] /\ RunByTheQueue'
  BY ActorsAssumption DEF TypedState, TypeOK, RunByTheQueue, Actors

\* An exception leaves an idle actor, and is remembered of the queue's jobs.
LEMMA RaiseStep ==
    ASSUME TypedState, NEW a \in Actors, Busy(a), Raise(a)
    PROVE  /\ job' \in [Actors -> Job] /\ RunByTheQueue'
           /\ lost' \subseteq {"poll", "deadline"}
<1>1. Idle \in Job /\ Idle.kind # "button"
  BY DEF Job, Idle
<1>2. job[a] \in Running
  BY JobsAreTyped DEF TypedState
<1>3. a \in Workers => job[a].kind \in {"poll", "deadline"}
  BY <1>2 DEF Running, TypedState, RunByTheQueue
<1>4. QED
  BY <1>1, <1>3, JobStep DEF Raise, TypedState, TypeOK

\* The update of a goes on as j: it keeps what it knew from its beginning.
GoesOnAs(a, j) ==
    /\ j \in Running
    /\ job' = [job EXCEPT ![a] = j]
    /\ j.kind = job[a].kind /\ j.late = job[a].late /\ j.deadline = job[a].deadline
    /\ UNCHANGED <<poll, lost>>

SameAnswer(a, j) ==
    j.scoring = job[a].scoring /\ j.rows = job[a].rows /\ j.progress = job[a].progress

LEMMA LoadStep ==
    ASSUME TypedState, NEW a \in Actors, Load(a)
    PROVE  \E j \in Running :
             /\ GoesOnAs(a, j)
             /\ j.phase = "fetch" /\ j.scoring = MaySetScores(a)
             /\ j.scoring => j.rows = row
             /\ j.progress = job[a].progress
<1> DEFINE j == [job[a] EXCEPT !.phase = "fetch", !.scoring = MaySetScores(a),
                               !.rows = IF MaySetScores(a) THEN row ELSE Fresh]
<1>1. job[a] \in Running
  BY JobsAreTyped DEF Load, Busy, TypedState
<1>2. MaySetScores(a) \in BOOLEAN
  BY DEF MaySetScores
<1>3. /\ j \in Running
      /\ j.kind = job[a].kind /\ j.late = job[a].late /\ j.deadline = job[a].deadline
      /\ j.phase = "fetch" /\ j.scoring = MaySetScores(a)
      /\ j.scoring => j.rows = row
      /\ j.progress = job[a].progress
  BY <1>1, <1>2, ValuesAreTyped DEF TypedState, TypeOK, Running
<1>4. job' = [job EXCEPT ![a] = j] /\ UNCHANGED <<poll, lost>>
  BY DEF Load
<1>5. QED
  BY <1>3, <1>4 DEF GoesOnAs

LEMMA FetchStep ==
    ASSUME TypedState, NEW a \in Actors, Fetch(a)
    PROVE  \E j \in Running :
             /\ GoesOnAs(a, j)
             /\ j.phase = "report" /\ j.progress = solved
             /\ j.scoring = job[a].scoring /\ j.rows = job[a].rows
<1> DEFINE j == [job[a] EXCEPT !.phase = "report", !.progress = solved]
<1>1. job[a] \in Running
  BY JobsAreTyped DEF Fetch, Busy, TypedState
<1>2. /\ j \in Running
      /\ j.kind = job[a].kind /\ j.late = job[a].late /\ j.deadline = job[a].deadline
      /\ j.phase = "report" /\ j.progress = solved
      /\ j.scoring = job[a].scoring /\ j.rows = job[a].rows
  BY <1>1 DEF TypedState, TypeOK, Running
<1>3. job' = [job EXCEPT ![a] = j] /\ UNCHANGED <<poll, lost>>
  BY DEF Fetch
<1>4. QED
  BY <1>2, <1>3 DEF GoesOnAs

LEMMA LookStep ==
    ASSUME TypedState, NEW a \in Actors, NEW s \in Students, Look(a, s)
    PROVE  \/ Raise(a) /\ UNCHANGED poll
           \/ \E j \in Running : /\ GoesOnAs(a, j) /\ SameAnswer(a, j)
                                 /\ job[a].phase = "report"
                                 /\ j.phase \in {"report", "write"}
<1> DEFINE j == [job[a] EXCEPT !.todo = @ \ {s}]
           k == [job[a] EXCEPT !.phase = "write", !.at = {s}]
<1>1. job[a] \in Running /\ job[a].phase = "report" /\ UNCHANGED poll
  BY JobsAreTyped DEF Look, Busy, TypedState
<1>2. CASE Raise(a)
  BY <1>1, <1>2
<1>3. CASE job' = [job EXCEPT ![a].todo = @ \ {s}] /\ UNCHANGED lost
  <2>1. j \in Running /\ SameAnswer(a, j) /\ j.phase = "report"
    BY <1>1 DEF Running, SameAnswer
  <2>2. GoesOnAs(a, j)
    BY <1>1, <1>3, <2>1 DEF GoesOnAs, Running
  <2>3. QED
    BY <1>1, <2>1, <2>2
<1>4. CASE job' = [job EXCEPT ![a].phase = "write", ![a].at = {s}] /\ UNCHANGED lost
  <2>1. k \in Running /\ SameAnswer(a, k) /\ k.phase = "write"
    BY <1>1 DEF Running, SameAnswer
  <2>2. job' = [job EXCEPT ![a] = k]
    BY <1>4 DEF TypedState, TypeOK
  <2>3. GoesOnAs(a, k)
    BY <1>1, <1>4, <2>1, <2>2 DEF GoesOnAs, Running
  <2>4. QED
    BY <1>1, <2>1, <2>3
<1>5. QED
  BY <1>2, <1>3, <1>4 DEF Look

LEMMA WriteStep ==
    ASSUME TypedState, NEW a \in Actors, NEW s \in Students, Write(a, s)
    PROVE  \/ Raise(a) /\ UNCHANGED <<poll, row, newest>>
           \/ \E j \in Running : /\ GoesOnAs(a, j) /\ SameAnswer(a, j)
                                 /\ job[a].phase = "write"
                                 /\ j.phase = "report"
<1> DEFINE j == [job[a] EXCEPT !.phase = "report", !.at = {}, !.todo = @ \ {s}]
<1>1. job[a] \in Running /\ job[a].phase = "write" /\ UNCHANGED poll
  BY JobsAreTyped DEF Write, Busy, TypedState
<1>2. CASE Conflict(a, s)
  BY <1>1, <1>2 DEF Write
<1>3. CASE ~Conflict(a, s)
  <2>1. j \in Running /\ SameAnswer(a, j) /\ j.phase = "report"
    BY <1>1 DEF Running, SameAnswer
  <2>2. job' = [job EXCEPT ![a] = j] /\ UNCHANGED lost
    BY <1>3 DEF Write, TypedState, TypeOK
  <2>3. GoesOnAs(a, j)
    BY <1>1, <2>1, <2>2 DEF GoesOnAs, Running
  <2>4. QED
    BY <1>1, <2>1, <2>3
<1>4. QED
  BY <1>2, <1>3

\* Whatever an update does, it goes on, ends or raises.
LEMMA UpdateStep ==
    ASSUME TypedState, NEW a \in Actors, Update(a) \/ Fail(a)
    PROVE  \/ Raise(a) /\ UNCHANGED poll
           \/ Finish(a)
           \/ \E j \in Running : GoesOnAs(a, j)
<1>1. CASE Fail(a)
  BY <1>1 DEF Fail
<1>2. CASE Update(a)
  BY <1>2, LoadStep, FetchStep, LookStep, WriteStep DEF Update
<1>3. QED
  BY <1>1, <1>2

\* What an update does next keeps the types.
LEMMA TypedUpdate ==
    ASSUME TypedState, NEW a \in Actors, Update(a) \/ Fail(a)
    PROVE  TypedState'
<1>1. /\ Busy(a)
      /\ UNCHANGED <<now, deadline, due, solved, graded>>
  BY DEF Update, Load, Fetch, Look, Write, Finish, Fail, Busy, calendar, work
<1>2. job[a] \in Running /\ (a \in Workers => job[a].kind # "button")
  BY <1>1, JobsAreTyped DEF TypedState, RunByTheQueue
<1>3. /\ job' \in [Actors -> Job] /\ RunByTheQueue'
      /\ lost' \subseteq {"poll", "deadline"} /\ poll' \in BOOLEAN
  <2>1. CASE Raise(a) /\ UNCHANGED poll
    BY <1>1, <2>1, RaiseStep DEF TypedState, TypeOK
  <2>2. CASE Finish(a)
    <3>1. Idle \in Job /\ Idle.kind # "button"
      BY DEF Job, Idle
    <3>2. QED
      BY <2>2, <3>1, JobStep DEF Finish, TypedState, TypeOK
  <2>3. ASSUME NEW j \in Running, GoesOnAs(a, j)
        PROVE  /\ job' \in [Actors -> Job] /\ RunByTheQueue'
               /\ lost' \subseteq {"poll", "deadline"} /\ poll' \in BOOLEAN
    <3>1. j \in Job
      BY JobsAreTyped DEF TypedState
    <3>2. QED
      BY <1>2, <2>3, <3>1, JobStep DEF GoesOnAs, TypedState, TypeOK
  <2>4. QED
    BY <2>1, <2>2, <2>3, UpdateStep
<1>4. row' \in [Students -> Row] /\ newest' \in [Students -> Comment]
  <2>1. ASSUME NEW s \in Students, Write(a, s), ~Conflict(a, s)
        PROVE  row' \in [Students -> Row] /\ newest' \in [Students -> Comment]
    <3>1. [kind |-> "jba", tasks |-> job[a].progress[s], created |-> CreatedAt(a)] \in Comment
      BY <1>2 DEF Running, Comment, CreatedAt, TypedState, TypeOK
    <3>2. [score |-> Score(a, s), status |-> "completed"] \in Row
      BY <1>2 DEF Running, Score, Row, Scores, Statuses
    <3>3. QED
      BY <2>1, <3>1, <3>2 DEF Write, Post, TypedState, TypeOK
  <2>2. ASSUME ~ \E s \in Students : Write(a, s) /\ ~Conflict(a, s)
        PROVE  UNCHANGED <<row, newest>>
    BY <2>2 DEF Update, Load, Fetch, Look, Write, Finish, Fail, work
  <2>3. QED
    BY <2>1, <2>2 DEF TypedState, TypeOK
<1>5. QED
  BY <1>1, <1>3, <1>4 DEF TypedState, TypeOK

\* An update that begins, and what goes on meanwhile, keep the types.
LEMMA TypedRest ==
    ASSUME TypedState, Begin \/ Meanwhile
    PROVE  TypedState'
<1> USE DEF calendar, work
<1>1. ASSUME NEW a \in Actors, NEW kind \in {"poll", "deadline", "button"},
             NEW who \in SUBSET Students, a \in Workers => kind # "button",
             job' = [job EXCEPT ![a] = Started(kind, who)]
      PROVE  job' \in [Actors -> Job] /\ RunByTheQueue'
  <2>1. Started(kind, who) \in Job
    BY StartIsTyped, JobsAreTyped DEF TypedState
  <2>2. Started(kind, who).kind = kind
    BY DEF Started
  <2>3. QED
    BY <1>1, <2>1, <2>2, JobStep
<1>2. ASSUME NEW w \in Workers, Poll(w)
      PROVE  TypedState'
  <2>1. job' \in [Actors -> Job] /\ RunByTheQueue'
    BY <1>1, <1>2 DEF Poll, Actors
  <2>2. QED
    BY <1>2, <2>1 DEF Poll, TypedState, TypeOK
<1>3. ASSUME NEW w \in Workers, AtDeadline(w)
      PROVE  TypedState'
  <2>1. job' \in [Actors -> Job] /\ RunByTheQueue'
    BY <1>1, <1>3 DEF AtDeadline, Actors
  <2>2. QED
    BY <1>3, <2>1 DEF AtDeadline, TypedState, TypeOK
<1>4. ASSUME NEW r \in Requests, NEW s \in Students, Press(r, s)
      PROVE  TypedState'
  <2>0. r \in Actors /\ r \notin Workers /\ {s} \in SUBSET Students
    BY ActorsAssumption DEF Actors
  <2>1. job' \in [Actors -> Job] /\ RunByTheQueue'
    BY <1>1, <1>4, <2>0 DEF Press
  <2>2. QED
    BY <1>4, <2>1 DEF Press, TypedState, TypeOK
<1>5. ASSUME Meanwhile
      PROVE  TypedState'
  <2> USE DEF TypedState, TypeOK, RunByTheQueue
  <2>1. ASSUME NEW s \in Students, Solve(s)
        PROVE  TypedState'
    BY <2>1, TasksAssumption DEF Solve
  <2>2. ASSUME NEW s \in Students, PlainComment(s)
        PROVE  TypedState'
    BY <2>2, TasksAssumption DEF PlainComment, Comment
  <2>3. ASSUME NEW s \in Students, Review(s)
        PROVE  TypedState'
    BY <2>3, TasksAssumption, GivenAssumption DEF Review, Comment
  <2>4. ASSUME NEW s \in Students, SetScore(s)
        PROVE  TypedState'
    BY <2>4, GivenAssumption DEF SetScore, Row
  <2>5. ASSUME NEW d \in Times, Extend(d)
        PROVE  TypedState'
    BY <2>5 DEF Extend
  <2>6. CASE Restart
    BY <2>6 DEF Restart
  <2>7. CASE Tick
    BY <2>7, TimeAssumption DEF Tick, Times
  <2>8. QED
    BY <1>5, <2>1, <2>2, <2>3, <2>4, <2>5, <2>6, <2>7 DEF Meanwhile
<1>6. QED
  BY <1>2, <1>3, <1>4, <1>5 DEF Begin

\* No step breaks a type.
LEMMA TypedNext == TypedState /\ [Next]_vars => TypedState'
<1>1. TypedState /\ UNCHANGED vars => TypedState'
  BY DEF vars, calendar, work, TypedState, TypeOK, RunByTheQueue
<1>2. QED
  BY <1>1, TypedUpdate, TypedRest DEF Next

\* Every variable has its type.
THEOREM TypeCorrect == Spec => []TypeOK
<1>1. TypedState => TypeOK
  BY DEF TypedState
<1>2. QED
  BY <1>1, TypedInit, TypedNext, PTL DEF Spec

----------------------------------------------------------------------------
(* The chain of polling jobs. *)

\* A step that leaves the polling worker, the schedule and the failures alone,
\* or that only adds to them, keeps the chain.
LEMMA ChainKept ==
    ASSUME PollingGoesOn, poll => poll', lost \subseteq lost',
           \A w \in Workers : job[w].kind = "poll" =>
             job'[w].kind = "poll" \/ poll' \/ "poll" \in lost'
    PROVE  PollingGoesOn'
  BY DEF PollingGoesOn

LEMMA ChainNext == TypedState /\ PollingGoesOn /\ [Next]_vars => PollingGoesOn'
<1> SUFFICES ASSUME TypedState, PollingGoesOn, [Next]_vars
             PROVE  PollingGoesOn'
  OBVIOUS
<1> USE DEF calendar, work
<1>0. Idle.kind # "poll" /\ Idle.kind = "idle"
  BY DEF Idle
<1>1. ASSUME NEW w \in Workers, Poll(w)
      PROVE  PollingGoesOn'
  <2>1. job'[w] = Started("poll", Students)
    BY <1>1 DEF Poll, TypedState, TypeOK, Actors
  <2>2. QED
    BY <2>1 DEF Started, PollingGoesOn
<1>2. ASSUME NEW a \in Actors, NEW kind, NEW who, job[a] = Idle,
             job' = [job EXCEPT ![a] = Started(kind, who)], UNCHANGED <<poll, lost>>
      PROVE  PollingGoesOn'
  <2>1. \A w \in Workers : job[w].kind = "poll" => job'[w].kind = "poll"
    BY <1>0, <1>2 DEF TypedState, TypeOK, Actors
  <2>2. QED
    BY <1>2, <2>1, ChainKept
<1>3. ASSUME NEW w \in Workers, AtDeadline(w)
      PROVE  PollingGoesOn'
  BY <1>2, <1>3 DEF AtDeadline, Actors
<1>4. ASSUME NEW r \in Requests, NEW s \in Students, Press(r, s)
      PROVE  PollingGoesOn'
  BY <1>2, <1>4 DEF Press, Actors
<1>5. ASSUME NEW a \in Actors, Raise(a), UNCHANGED poll
      PROVE  PollingGoesOn'
  <2>1. \A w \in Workers : job[w].kind = "poll" =>
          job'[w].kind = "poll" \/ "poll" \in lost'
    BY <1>5 DEF Raise, TypedState, TypeOK, Actors
  <2>2. QED
    BY <1>5, <2>1, ChainKept DEF Raise
<1>6. ASSUME NEW a \in Actors, NEW j \in Running, GoesOnAs(a, j)
      PROVE  PollingGoesOn'
  <2>1. \A w \in Workers : job[w].kind = "poll" => job'[w].kind = "poll"
    BY <1>6 DEF GoesOnAs, TypedState, TypeOK, Actors
  <2>2. QED
    BY <1>6, <2>1, ChainKept DEF GoesOnAs
<1>7. ASSUME NEW a \in Actors, Finish(a)
      PROVE  PollingGoesOn'
  <2>1. \A w \in Workers : job[w].kind = "poll" => job'[w].kind = "poll" \/ poll'
    BY <1>7 DEF Finish, TypedState, TypeOK, Actors
  <2>2. (poll => poll') /\ UNCHANGED lost
    BY <1>7 DEF Finish
  <2>3. QED
    BY <2>1, <2>2, ChainKept
<1>8. CASE Meanwhile
  <2>1. UNCHANGED job /\ (poll => poll') /\ UNCHANGED lost
    BY <1>8 DEF Meanwhile, Solve, PlainComment, Review, SetScore, Extend, Restart, Tick
  <2>2. QED
    BY <2>1, ChainKept
<1>9. CASE UNCHANGED vars
  BY <1>9 DEF vars, PollingGoesOn
<1>10. QED
  BY <1>1, <1>3, <1>4, <1>5, <1>6, <1>7, <1>8, <1>9, UpdateStep DEF Next, Begin

\* The chain of polling jobs goes on unless one of them has failed, whatever
\* the button, the job at the deadline and the restarts of the server do.
THEOREM ChainGoesOn == Spec => []PollingGoesOn
<1>1. Init => PollingGoesOn
  BY DEF Init, PollingGoesOn
<1>2. QED
  BY <1>1, TypedInit, TypedNext, ChainNext, PTL DEF Spec

----------------------------------------------------------------------------
(* The newest answer and the deadline. *)

\* Time passes, and what is solved or graded stays so.
WorldGoesOn ==
    /\ now <= now'
    /\ \A s \in Students : solved[s] <= solved'[s]
    /\ graded \subseteq graded'

\* The numbers an update compares are integers.
LEMMA NumbersAreTyped ==
    ASSUME TypeOK, NEW j \in Running, NEW s \in Students
    PROVE  /\ j.deadline \in Int /\ j.rows[s].score \in Int /\ j.progress[s] \in Int
           /\ now \in Int /\ solved[s] \in Int /\ row[s].score \in Int
           /\ j.late \in BOOLEAN /\ j.scoring \in BOOLEAN
<1>1. Scores \subseteq Int /\ Times \subseteq Int /\ 0..Tasks \subseteq Int
  BY TasksAssumption, TimeAssumption DEF Scores, NoScore, Times
<1>2. QED
  BY <1>1 DEF TypeOK, Running, Row

LEMMA WorldNext == TypedState /\ [Next]_vars => WorldGoesOn
<1> SUFFICES ASSUME TypedState, [Next]_vars
             PROVE  WorldGoesOn
  OBVIOUS
<1> USE DEF calendar, work
<1>1. now \in Int /\ \A s \in Students : solved[s] \in Int
  BY TasksAssumption, TimeAssumption DEF TypedState, TypeOK, Times
<1>2. CASE UNCHANGED <<now, solved, graded>>
  BY <1>1, <1>2 DEF WorldGoesOn
<1>3. ASSUME NEW s \in Students, Solve(s)
      PROVE  WorldGoesOn
  BY <1>1, <1>3 DEF Solve, WorldGoesOn, TypedState, TypeOK
<1>4. ASSUME NEW s \in Students, Review(s) \/ SetScore(s)
      PROVE  WorldGoesOn
  BY <1>1, <1>4 DEF Review, SetScore, WorldGoesOn
<1>5. CASE Tick
  BY <1>1, <1>5 DEF Tick, WorldGoesOn
<1>6. CASE Meanwhile
  BY <1>2, <1>3, <1>4, <1>5, <1>6 DEF Meanwhile, PlainComment, Extend, Restart
<1>7. CASE Begin
  BY <1>2, <1>7 DEF Begin, Poll, AtDeadline, Press
<1>8. ASSUME NEW a \in Actors, Update(a) \/ Fail(a)
      PROVE  WorldGoesOn
  BY <1>2, <1>8 DEF Update, Load, Fetch, Look, Write, Finish, Fail
<1>9. CASE UNCHANGED vars
  BY <1>2, <1>9 DEF vars
<1>10. QED
  BY <1>6, <1>7, <1>8, <1>9 DEF Next

\* An update that does not take the step knows afterwards what it knew before.
LEMMA StillKnows ==
    ASSUME TypedState, TypedState', WorldGoesOn, NEW a \in Actors, Busy(a), Knows(a),
           job'[a] = job[a]
    PROVE  Knows(a)'
<1>1. job[a] \in Running /\ TypeOK /\ TypeOK'
  BY JobsAreTyped DEF TypedState
<1>2. now \in Int /\ now' \in Int /\ job[a].deadline \in Int
  BY <1>1, TimeAssumption DEF TypeOK, Running, Times
<1>3. KnowsDeadline(a)'
  BY <1>2 DEF Knows, KnowsDeadline, WorldGoesOn
<1>4. ASSUME NEW s \in Students
      PROVE  KnowsProgress(a, s)'
  <2>1. /\ job[a].rows[s].score \in Int /\ job[a].progress[s] \in Int
        /\ solved[s] \in Int
    BY <1>1, NumbersAreTyped
  <2>2. solved'[s] \in Int
    BY <1>1, TasksAssumption DEF TypeOK
  <2>3. QED
    BY <2>1, <2>2 DEF Knows, KnowsProgress, WorldGoesOn
<1>5. QED
  BY <1>3, <1>4 DEF Knows

\* An update that begins has loaded and fetched nothing.
LEMMA StartKnows ==
    ASSUME TypedState, TypedState', NEW a \in Actors, NEW kind, NEW who,
           job' = [job EXCEPT ![a] = Started(kind, who)],
           UNCHANGED <<now, deadline, solved>>
    PROVE  Knows(a)'
<1>1. job'[a] = Started(kind, who)
  BY DEF TypedState, TypeOK
<1>2. KnowsDeadline(a)'
  <2>1. (now > deadline) \in BOOLEAN
    OBVIOUS
  <2>2. /\ Started(kind, who).late = (now > deadline)
        /\ Started(kind, who).scoring = FALSE
        /\ Started(kind, who).deadline = deadline
    BY <2>1 DEF Started
  <2>3. QED
    BY <1>1, <2>2 DEF KnowsDeadline
<1>3. ASSUME NEW s \in Students
      PROVE  KnowsProgress(a, s)'
  <2>1. solved[s] \in 0..Tasks
    BY DEF TypedState, TypeOK
  <2>2. QED
    BY <1>1, <2>1, TasksAssumption DEF KnowsProgress, Started, NoTasks
<1>4. QED
  BY <1>2, <1>3 DEF Knows

\* The time decides whether scores are set, and they are those of this moment.
LEMMA LoadKnows ==
    ASSUME TypedState, Informed, NEW a \in Actors, Load(a)
    PROVE  Knows(a)'
<1>1. PICK j \in Running : /\ GoesOnAs(a, j)
                           /\ j.phase = "fetch" /\ j.scoring = MaySetScores(a)
                           /\ j.scoring => j.rows = row
                           /\ j.progress = job[a].progress
  BY LoadStep
<1>2. job'[a] = j
  BY <1>1 DEF GoesOnAs, TypedState, TypeOK
<1>3. Knows(a) /\ job[a] \in Running /\ UNCHANGED <<now, solved, graded>>
  BY JobsAreTyped DEF Load, Informed, Busy, TypedState, calendar, work
<1>4. KnowsDeadline(a)'
  <2>1. now \in Int /\ job[a].deadline \in Int
    BY <1>3, TimeAssumption DEF TypedState, TypeOK, Running, Times
  <2>2. j.scoring => now <= job[a].deadline \/ job[a].kind = "deadline"
    BY <1>1 DEF MaySetScores
  <2>3. job[a].late => now > job[a].deadline
    BY <1>3 DEF KnowsDeadline, Knows
  <2>4. j.kind = job[a].kind /\ j.late = job[a].late /\ j.deadline = job[a].deadline
    BY <1>1 DEF GoesOnAs
  <2>5. job[a].late \in BOOLEAN /\ j.scoring \in BOOLEAN
    BY <1>3 DEF Running
  <2>6. /\ j.late => now > j.deadline
        /\ j.scoring => j.kind = "deadline" \/ ~j.late
    BY <2>1, <2>2, <2>3, <2>4, <2>5
  <2>7. QED
    BY <1>2, <1>3, <2>6 DEF KnowsDeadline
<1>5. ASSUME NEW s \in Students
      PROVE  KnowsProgress(a, s)'
  BY <1>1, <1>2, <1>3 DEF KnowsProgress, Knows, Informed
<1>6. QED
  BY <1>4, <1>5 DEF Knows

\* The answer of the service is not behind the scores that were loaded.
LEMMA FetchKnows ==
    ASSUME TypedState, Informed, NEW a \in Actors, Fetch(a)
    PROVE  Knows(a)'
<1>1. PICK j \in Running : /\ GoesOnAs(a, j)
                           /\ j.phase = "report" /\ j.progress = solved
                           /\ j.scoring = job[a].scoring /\ j.rows = job[a].rows
  BY FetchStep
<1>2. job'[a] = j
  BY <1>1 DEF GoesOnAs, TypedState, TypeOK
<1>3. /\ Knows(a) /\ job[a] \in Running /\ job[a].phase = "fetch"
      /\ UNCHANGED <<now, solved, graded>>
  BY JobsAreTyped DEF Fetch, Informed, Busy, TypedState, calendar, work
<1>4. KnowsDeadline(a)'
  BY <1>1, <1>2, <1>3 DEF KnowsDeadline, Knows, GoesOnAs
<1>5. ASSUME NEW s \in Students
      PROVE  KnowsProgress(a, s)'
  <2>1. solved[s] \in Int
    BY <1>3, NumbersAreTyped DEF TypedState
  <2>2. QED
    BY <1>1, <1>2, <1>3, <2>1 DEF KnowsProgress, Knows
<1>6. QED
  BY <1>4, <1>5 DEF Knows

\* The student's turn changes nothing of what the update has learned.
LEMMA SameAnswerKnows ==
    ASSUME TypedState, Informed, NEW a \in Actors, Busy(a), NEW j \in Running,
           GoesOnAs(a, j), SameAnswer(a, j),
           job[a].phase \in {"report", "write"}, j.phase \in {"report", "write"},
           UNCHANGED <<now, solved, graded>>
    PROVE  Knows(a)'
<1>1. job'[a] = j /\ Knows(a)
  BY DEF GoesOnAs, TypedState, TypeOK, Informed
<1>2. KnowsDeadline(a)'
  BY <1>1 DEF KnowsDeadline, Knows, GoesOnAs, SameAnswer
<1>3. ASSUME NEW s \in Students
      PROVE  KnowsProgress(a, s)'
  BY <1>1 DEF KnowsProgress, Knows, SameAnswer
<1>4. QED
  BY <1>2, <1>3 DEF Knows

\* An update grades a student with the answer of the service, and in the place
\* of the score that was loaded.
Grades(a, s) ==
    /\ Busy(a)
    /\ job[a].scoring /\ job[a].phase = "write"
    /\ row[s] = job[a].rows[s]
    /\ row' = [row EXCEPT ![s] = [score |-> job[a].progress[s], status |-> "completed"]]
    /\ job'[a] # job[a]
    /\ UNCHANGED <<solved, graded>>

\* Scores are written by updates and by hand.
LEMMA WhoWritesScores ==
    ASSUME TypedState, [Next]_vars
    PROVE  \/ UNCHANGED row
           \/ \E a \in Actors, s \in Students : Grades(a, s)
           \/ /\ \A s \in Students \ graded' : row'[s] = row[s]
              /\ UNCHANGED job
<1> USE DEF calendar, work
<1>1. ASSUME NEW a \in Actors, NEW s \in Students, Write(a, s)
      PROVE  UNCHANGED row \/ Grades(a, s)
  <2>1. CASE Conflict(a, s) \/ ~job[a].scoring
    BY <1>1, <2>1 DEF Write
  <2>2. CASE ~Conflict(a, s) /\ job[a].scoring
    <3>1. row' = [row EXCEPT ![s] = [score |-> job[a].progress[s], status |-> "completed"]]
      BY <1>1, <2>2 DEF Write, Score
    <3>2. job'[a] # job[a]
      <4>1. job[a] \in Running /\ job[a].phase = "write"
        BY <1>1, JobsAreTyped DEF Write, Busy, TypedState
      <4>2. job'[a].phase = "report"
        BY <1>1, <2>2, <4>1 DEF Write, TypedState, TypeOK, Running
      <4>3. QED
        BY <4>1, <4>2
    <3>3. QED
      BY <1>1, <2>2, <3>1, <3>2 DEF Grades, Write, Conflict, Busy
  <2>3. QED
    BY <2>1, <2>2
<1>2. ASSUME NEW a \in Actors, Update(a) \/ Fail(a)
      PROVE  UNCHANGED row \/ \E s \in Students : Grades(a, s)
  BY <1>1, <1>2 DEF Update, Load, Fetch, Look, Finish, Fail
<1>3. CASE Begin
  BY <1>3 DEF Begin, Poll, AtDeadline, Press
<1>4. ASSUME NEW s \in Students, Review(s) \/ SetScore(s)
      PROVE  (\A t \in Students \ graded' : row'[t] = row[t]) /\ UNCHANGED job
  BY <1>4 DEF Review, SetScore, TypedState, TypeOK
<1>5. CASE Meanwhile
  BY <1>4, <1>5 DEF Meanwhile, Solve, PlainComment, Extend, Restart, Tick
<1>6. CASE UNCHANGED vars
  BY <1>6 DEF vars
<1>7. QED
  BY <1>2, <1>3, <1>5, <1>6 DEF Next

\* What the actor of a step knows, if the step leaves it busy.
LEMMA ActorKnows ==
    ASSUME TypedState, TypedState', Informed, NEW a \in Actors, Update(a) \/ Fail(a)
    PROVE  Busy(a)' => Knows(a)'
<1> USE DEF calendar, work
<1>1. ASSUME Raise(a) \/ Finish(a)
      PROVE  ~Busy(a)'
  BY <1>1 DEF Raise, Finish, Busy, TypedState, TypeOK
<1>2. ASSUME NEW s \in Students, Look(a, s)
      PROVE  Busy(a)' => Knows(a)'
  <2>1. Busy(a) /\ UNCHANGED <<now, solved, graded>>
    BY <1>2 DEF Look, Busy
  <2>2. QED
    BY <1>1, <1>2, <2>1, LookStep, SameAnswerKnows
<1>3. ASSUME NEW s \in Students, Write(a, s)
      PROVE  Busy(a)' => Knows(a)'
  <2>1. Busy(a) /\ UNCHANGED <<now, solved, graded>>
    BY <1>3 DEF Write, Busy
  <2>2. QED
    BY <1>1, <1>3, <2>1, WriteStep, SameAnswerKnows
<1>4. CASE Fail(a)
  BY <1>1, <1>4 DEF Fail
<1>5. QED
  BY <1>1, <1>2, <1>3, <1>4, LoadKnows, FetchKnows DEF Update

Starts(a) ==
    /\ \E kind, who : job' = [job EXCEPT ![a] = Started(kind, who)]
    /\ UNCHANGED <<now, deadline, solved>>

\* A step of one actor leaves the others as they are.
LEMMA OneActor ==
    ASSUME TypedState, [Next]_vars
    PROVE  \/ UNCHANGED job
           \/ \E a \in Actors :
                /\ \A b \in Actors \ {a} : job'[b] = job[b]
                /\ Update(a) \/ Fail(a) \/ Starts(a)
<1> USE DEF calendar, work
<1>1. ASSUME NEW a \in Actors, NEW j, job' = [job EXCEPT ![a] = j]
      PROVE  \A b \in Actors \ {a} : job'[b] = job[b]
  BY <1>1 DEF TypedState, TypeOK
<1>2. ASSUME NEW a \in Actors, Update(a) \/ Fail(a)
      PROVE  \A b \in Actors \ {a} : job'[b] = job[b]
  <2>1. CASE Raise(a)
    BY <1>1, <2>1 DEF Raise
  <2>2. CASE Finish(a)
    BY <1>1, <2>2 DEF Finish
  <2>3. ASSUME NEW j \in Running, GoesOnAs(a, j)
        PROVE  \A b \in Actors \ {a} : job'[b] = job[b]
    BY <1>1, <2>3 DEF GoesOnAs
  <2>4. QED
    BY <1>2, <2>1, <2>2, <2>3, UpdateStep
<1>3. ASSUME NEW w \in Workers, Poll(w) \/ AtDeadline(w)
      PROVE  w \in Actors /\ Starts(w)
  BY <1>3 DEF Poll, AtDeadline, Starts, Actors
<1>4. ASSUME NEW r \in Requests, NEW s \in Students, Press(r, s)
      PROVE  r \in Actors /\ Starts(r)
  BY <1>4 DEF Press, Starts, Actors
<1>5. ASSUME NEW a \in Actors, Starts(a)
      PROVE  \A b \in Actors \ {a} : job'[b] = job[b]
  BY <1>1, <1>5 DEF Starts
<1>6. CASE Begin
  BY <1>3, <1>4, <1>5, <1>6 DEF Begin
<1>7. CASE Meanwhile
  BY <1>7 DEF Meanwhile, Solve, PlainComment, Review, SetScore, Extend, Restart, Tick
<1>8. CASE UNCHANGED vars
  BY <1>8 DEF vars
<1>9. QED
  BY <1>2, <1>6, <1>7, <1>8 DEF Next

\* No score is ahead of the student, and no update ahead of what it has read.
LEMMA InformedNext == TypedState /\ Informed /\ [Next]_vars => Informed'
<1> SUFFICES ASSUME TypedState, Informed, [Next]_vars
             PROVE  Informed'
  OBVIOUS
<1>1. TypedState' /\ WorldGoesOn
  BY TypedNext, WorldNext
<1>2. ASSUME NEW a \in Actors, job'[a] = job[a], Busy(a)'
      PROVE  Knows(a)'
  BY <1>1, <1>2, StillKnows DEF Informed, Busy
<1>3. ASSUME NEW a \in Actors, Busy(a)'
      PROVE  Knows(a)'
  <2>1. CASE UNCHANGED job
    BY <1>2, <1>3, <2>1
  <2>2. ASSUME NEW b \in Actors, \A c \in Actors \ {b} : job'[c] = job[c],
               Update(b) \/ Fail(b)
        PROVE  Knows(a)'
    BY <1>1, <1>2, <1>3, <2>2, ActorKnows
  <2>3. ASSUME NEW b \in Actors, \A c \in Actors \ {b} : job'[c] = job[c], Starts(b)
        PROVE  Knows(a)'
    BY <1>1, <1>2, <1>3, <2>3, StartKnows DEF Starts
  <2>4. QED
    BY <2>1, <2>2, <2>3, OneActor
<1>4. ASSUME NEW s \in Students \ graded'
      PROVE  row'[s].score <= solved'[s]
  <2>1. /\ s \notin graded /\ row[s].score <= solved[s] /\ solved[s] <= solved'[s]
        /\ row[s].score \in Int /\ solved[s] \in Int /\ solved'[s] \in Int
    <3>1. row[s] \in Row /\ solved[s] \in 0..Tasks /\ solved'[s] \in 0..Tasks
      BY <1>1 DEF TypedState, TypeOK
    <3>2. QED
      BY <1>1, <3>1, TasksAssumption DEF Informed, WorldGoesOn, Row, Scores, NoScore
  <2>2. CASE row'[s] = row[s]
    BY <2>1, <2>2
  <2>3. ASSUME NEW a \in Actors, NEW t \in Students, Grades(a, t), row'[s] # row[s]
        PROVE  row'[s].score <= solved'[s]
    <3>1. s = t /\ row'[s].score = job[a].progress[s] /\ UNCHANGED solved
      BY <2>3 DEF Grades, TypedState, TypeOK
    <3>2. KnowsProgress(a, s)
      BY <2>3 DEF Grades, Informed, Knows
    <3>3. QED
      BY <3>1, <3>2 DEF KnowsProgress
  <2>4. QED
    BY <2>2, <2>3, WhoWritesScores
<1>5. QED
  BY <1>3, <1>4 DEF Informed

LEMMA InformedInit == Init => Informed
<1> SUFFICES ASSUME Init
             PROVE  Informed
  OBVIOUS
<1>1. \A a \in Actors : ~Busy(a)
  BY DEF Init, Busy
<1>2. \A s \in Students : row[s].score = NoScore /\ solved[s] = 0
  BY DEF Init, Fresh, NoTasks
<1>3. QED
  BY <1>1, <1>2 DEF Informed, NoScore

\* The inductive invariant.
LEMMA Invariance == Spec => []IInv
<1>1. Init => IInv
  BY TypedInit, InformedInit DEF IInv, Init, PollingGoesOn
<1>2. IInv /\ [Next]_vars => IInv'
  BY TypedNext, ChainNext, InformedNext DEF IInv
<1>3. QED
  BY <1>1, <1>2, PTL DEF Spec

\* Of overlapping updates the one with the older answer does not win: it has
\* loaded its score before it asked the service, and a score that was written
\* since is a conflict.
THEOREM OlderAnswersLose == Spec => ScoresFollowProgress
<1>1. ASSUME IInv, [Next]_vars, NEW s \in Students \ graded'
      PROVE  row'[s].score >= row[s].score
  <2>0. TypedState /\ Informed /\ row[s].score \in Int
    <3>1. TypedState /\ Informed /\ row[s] \in Row
      BY <1>1 DEF IInv, TypedState, TypeOK
    <3>2. QED
      BY <3>1, TasksAssumption DEF Row, Scores, NoScore
  <2>1. CASE row'[s] = row[s]
    BY <2>0, <2>1
  <2>2. ASSUME NEW a \in Actors, NEW t \in Students, Grades(a, t), row'[s] # row[s]
        PROVE  row'[s].score >= row[s].score
    <3>1. s = t /\ row'[s].score = job[a].progress[s] /\ row[s] = job[a].rows[s]
      BY <2>0, <2>2 DEF Grades, TypedState, TypeOK
    <3>2. job[a].rows[s].score <= job[a].progress[s]
      BY <1>1, <2>0, <2>2 DEF Grades, Informed, Knows, KnowsProgress
    <3>3. job[a].progress[s] \in Int
      BY <2>0, <2>2, JobsAreTyped, NumbersAreTyped DEF Grades, TypedState
    <3>4. QED
      BY <2>0, <3>1, <3>2, <3>3
  <2>3. QED
    BY <1>1, <2>0, <2>1, <2>2, WhoWritesScores
<1>2. IInv /\ [Next]_vars
      => [\A s \in Students \ graded' : row'[s].score >= row[s].score]_vars
  BY <1>1
<1>3. QED
  BY <1>2, Invariance, PTL DEF Spec, ScoresFollowProgress

\* What is solved after the deadline does not count: an update that has begun
\* late decides so when it loads the scores, and keeps to it.
THEOREM DeadlineIsKept == Spec => LateTasksDoNotCount
<1>1. ASSUME IInv, [Next]_vars, row' # row, job' # job
      PROVE  \E a \in Actors :
               job'[a] # job[a] /\ (job[a].kind = "deadline" \/ ~job[a].late)
  <2>1. PICK a \in Actors, s \in Students : Grades(a, s)
    BY <1>1, WhoWritesScores DEF IInv
  <2>2. KnowsDeadline(a) /\ job[a].scoring /\ job'[a] # job[a]
    BY <1>1, <2>1 DEF IInv, Informed, Knows, Grades
  <2>3. QED
    BY <2>2 DEF KnowsDeadline
<1>2. IInv /\ [Next]_vars
      => [row' # row /\ job' # job
          => \E a \in Actors :
               job'[a] # job[a] /\ (job[a].kind = "deadline" \/ ~job[a].late)]_vars
  BY <1>1
<1>3. QED
  BY <1>2, Invariance, PTL DEF Spec, LateTasksDoNotCount
=============================================================================
