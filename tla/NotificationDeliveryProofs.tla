------------------------ MODULE NotificationDeliveryProofs ------------------------
(***************************************************************************)
(* Proofs about NotificationDelivery.tla for any number of users, requests,*)
(* queue workers and notifications: where a notification's id may be, and  *)
(* what its record says of the e-mail, under no more than the constants'   *)
(* assumptions.                                                            *)
(***************************************************************************)
EXTENDS NotificationDelivery, TLAPS, FiniteSetTheorems, SequenceTheorems

(* The types of a request under way, of what a job has loaded.             *)
Kinds   == {"none", "submission", "deadline", "assignment", "news"}
Abouts  == UNION {[D -> Subjects] : D \in SUBSET Users}
Loaded  == {r \in RowType : r.state = "live" /\ r.unread /\ ~r.notified}
Copies  == UNION {[D -> Loaded] : D \in SUBSET Notes}
Request == [kind : Kinds, to : SUBSET Users, about : Abouts,
            unqueued : SUBSET Notes, mine : SUBSET Notes]
Job     == [copies : Copies, saving : Notes \union {0}]

Types ==
  /\ posts \in [Posts -> {"to_come", "published", "deleted"}]
  /\ enrolled \subseteq Students
  /\ rows \in [Notes -> RowType]
  /\ request \in [Requests -> Request]
  /\ queue \in Seq(SUBSET Notes)
  /\ scheduled \subseteq SUBSET Notes
  /\ job \in [Workers -> Job]
  /\ sent \in [Notes -> Nat]
  /\ lost \subseteq Notes /\ quiet \subseteq Notes

(* A request notifies users it knows the subject of.                       *)
AboutAll == \A p \in Requests : request[p].to \subseteq DOMAIN request[p].about

(* Ids are given in order: those above k are free.                         *)
NumberedTo(k) == \A n \in Notes : rows[n].state = "unused" <=> n > k
Numbered == \E k \in 0..MaxNotes : NumberedTo(k)

(* The rows of an open transaction are its own, and nobody has loaded them.*)
Uncommitted ==
  /\ \A p \in Requests : /\ request[p].unqueued \subseteq request[p].mine
                         /\ \A n \in request[p].mine : rows[n].state = "pending"
  /\ \A p, q \in Requests : p # q => request[p].mine \intersect request[q].mine = {}
  /\ \A w \in Workers : /\ job[w].saving \in DOMAIN job[w].copies \union {0}
                        /\ \A n \in DOMAIN job[w].copies : rows[n].state # "pending"

(* Where the id of a notification is: with the request that will queue it, *)
(* in jobs that wait, in jobs that run.                                    *)
Unqueued(n)  == {p \in Requests : n \in request[p].unqueued}
Queued(n)    == {i \in 1..Len(queue) : n \in queue[i]}
Scheduled(n) == {ids \in scheduled : n \in ids}
HeldBy(n)    == {w \in Workers : n \in DOMAIN job[w].copies}

AtMostOne(S) == \A x, y \in S : x = y
NotWaiting(n) == Unqueued(n) = {} /\ Queued(n) = {} /\ Scheduled(n) = {}

(* The id is in one place only.                                            *)
Once(n) ==
  /\ AtMostOne(Unqueued(n)) /\ AtMostOne(Queued(n))
  /\ AtMostOne(Scheduled(n)) /\ AtMostOne(HeldBy(n))
  /\ Unqueued(n) = {} \/ (Queued(n) = {} /\ Scheduled(n) = {})
  /\ Queued(n) = {} \/ Scheduled(n) = {}
  /\ HeldBy(n) = {} \/ NotWaiting(n)

(* What the record and the jobs know of the e-mail is true.                *)
Accounted(n) ==
  /\ sent[n] <= 1
  /\ rows[n].state = "unused" => sent[n] = 0 /\ NotWaiting(n) /\ HeldBy(n) = {}
  /\ sent[n] = 1 => NotWaiting(n) /\ \A w \in HeldBy(n) : job[w].saving = n
  /\ \A w \in Workers : job[w].saving = n => sent[n] = 1
  /\ rows[n].notified => sent[n] = 1
  /\ sent[n] = 1 => \/ rows[n].notified
                    \/ n \in lost
                    \/ \E w \in Workers : job[w].saving = n

(* What was read or deleted unseen by any job stays so, and unseen.        *)
LeftAlone(n) ==
  n \in quiet => /\ sent[n] = 0 /\ HeldBy(n) = {}
                 /\ rows[n].state \in {"live", "deleted"}
                 /\ ~(rows[n].state = "live" /\ rows[n].unread)

Traced(n) == Once(n) /\ Accounted(n) /\ LeftAlone(n)

Shape == Types /\ AboutAll /\ Numbered /\ Uncommitted
IInv == Shape /\ \A n \in Notes : Traced(n)

-------------------------------------------------------------------------------
(* Facts about the data.                                                   *)

LEMMA NotesAreNumbers == Notes \subseteq Nat \ {0}
  BY SizesAreNat DEF Notes

LEMMA CopiesAreFunctions ==
  /\ \A f \in Copies : /\ DOMAIN f \subseteq Notes
                       /\ f = [n \in DOMAIN f |-> f[n]]
                       /\ \A n \in DOMAIN f : f[n] \in Loaded
  /\ \A D \in SUBSET Notes : \A f \in [D -> Loaded] : f \in Copies
  BY DEF Copies

LEMMA AboutsAreFunctions ==
  /\ \A f \in Abouts : DOMAIN f \subseteq Users /\ \A u \in DOMAIN f : f[u] \in Subjects
  /\ \A D \in SUBSET Users : \A f \in [D -> Subjects] : f \in Abouts
  BY DEF Abouts

(* SetToSeq enumerates a finite set.                                       *)
LEMMA Enumerated ==
  ASSUME NEW S, IsFiniteSet(S)
  PROVE  /\ Cardinality(S) \in Nat
         /\ SetToSeq(S) \in [1..Cardinality(S) -> S]
<1>1. Cardinality(S) \in Nat /\ ExistsBijection(1..Cardinality(S), S)
  BY FS_CardinalityType
<1>2. \E f \in [1..Cardinality(S) -> S] : IsInjective(f)
  BY <1>1 DEF ExistsBijection, Bijection, Injection
<1>3. QED
  BY <1>1, <1>2 DEF SetToSeq

LEMMA UsersAreFinite == ASSUME NEW S \in SUBSET Users PROVE IsFiniteSet(S)
  BY FiniteUsers, FS_Union, FS_Subset DEF Users

(* An idle request, an idle worker, an unused row.                         *)
LEMMA NothingIsTyped == /\ Idle \in Request /\ NoJob \in Job /\ Unused \in RowType
                        /\ Idle.unqueued = {} /\ Idle.mine = {} /\ Idle.to = {}
                        /\ DOMAIN NoJob.copies = {} /\ NoJob.saving = 0
<1>1. [u \in {} |-> "news"] \in Abouts
  <2>1. {} \in SUBSET Users /\ [u \in {} |-> "news"] \in [{} -> Subjects]
    OBVIOUS
  <2>2. QED
    BY <2>1, AboutsAreFunctions
<1>2. [n \in {} |-> Unused] \in Copies
  <2>1. {} \in SUBSET Notes /\ [n \in {} |-> Unused] \in [{} -> Loaded]
    OBVIOUS
  <2>2. QED
    BY <2>1, CopiesAreFunctions
<1>3. QED
  BY <1>1, <1>2 DEF Idle, NoJob, Unused, Request, Job, RowType, Kinds

(* A job ends the list it was working on.                                  *)
LEMMA WithoutIsTyped ==
  ASSUME Types, NEW w \in Workers, NEW n
  PROVE  /\ Without(w, n) \in Job
         /\ DOMAIN Without(w, n).copies = DOMAIN job[w].copies \ {n}
         /\ Without(w, n).saving = 0
<1>1. job[w] \in Job /\ job[w].copies \in Copies
  BY DEF Types, Job
<1>2. [m \in DOMAIN job[w].copies \ {n} |-> job[w].copies[m]] \in Copies
  BY <1>1, CopiesAreFunctions
<1>3. QED
  BY <1>2 DEF Without, Job

-------------------------------------------------------------------------------
(* What a step does to one notification.                                   *)

(* Nothing, but that its id may be forgotten.                              *)
Untouched(n) ==
  /\ Unqueued(n)' \subseteq Unqueued(n) /\ Queued(n)' \subseteq Queued(n)
  /\ Scheduled(n)' \subseteq Scheduled(n) /\ HeldBy(n)' \subseteq HeldBy(n)
  /\ rows'[n] = rows[n] /\ sent'[n] = sent[n]
  /\ \A w \in Workers : job'[w].saving = n <=> job[w].saving = n
  /\ lost \subseteq lost' /\ (n \in quiet' => n \in quiet)

LEMMA UntouchedIsTraced ==
  ASSUME NEW n \in Notes, Traced(n), Untouched(n)
  PROVE  Traced(n)'
<1>1. Once(n)'
  BY DEF Traced, Once, Untouched, AtMostOne, NotWaiting
<1>2. Accounted(n)'
  <2>1. HeldBy(n) \subseteq Workers
    BY DEF HeldBy
  <2>2. QED
    BY <2>1 DEF Traced, Accounted, Untouched, NotWaiting
<1>3. LeftAlone(n)'
  BY DEF Traced, LeftAlone, Untouched
<1>4. QED
  BY <1>1, <1>2, <1>3 DEF Traced

(* A step of a request that leaves the queue and the jobs alone.           *)
Requested(p, r) ==
  /\ request' = [request EXCEPT ![p] = r]
  /\ UNCHANGED <<queue, scheduled, job, sent, lost, quiet>>

LEMMA RequestedPlaces ==
  ASSUME Types, NEW p \in Requests, NEW r, Requested(p, r), NEW n \in Notes
  PROVE  /\ Unqueued(n)' = IF n \in r.unqueued THEN Unqueued(n) \union {p}
                           ELSE Unqueued(n) \ {p}
         /\ Queued(n)' = Queued(n) /\ Scheduled(n)' = Scheduled(n)
         /\ HeldBy(n)' = HeldBy(n)
  BY DEF Types, Requested, Unqueued, Queued, Scheduled, HeldBy

(* The request starts, fails or ends, with rows it does not touch.         *)
LEMMA RequestRestarts ==
  ASSUME IInv, NEW p \in Requests, NEW r \in Request, Requested(p, r),
         UNCHANGED <<posts, enrolled, rows>>,
         r.to \subseteq DOMAIN r.about, r.unqueued = {}, r.mine = {}
  PROVE  IInv'
<1>1. Types'
  BY DEF IInv, Shape, Types, Requested
<1>2. AboutAll' /\ Numbered' /\ Uncommitted'
  <2>1. AboutAll'
    BY DEF IInv, Shape, Types, AboutAll, Requested
  <2>2. Numbered'
    BY DEF IInv, Shape, Numbered, NumberedTo
  <2>3. Uncommitted'
    BY DEF IInv, Shape, Types, Uncommitted, Requested
  <2>4. QED
    BY <2>1, <2>2, <2>3
<1>3. ASSUME NEW n \in Notes PROVE Traced(n)'
  <2>1. Untouched(n)
    BY <1>3, RequestedPlaces DEF IInv, Shape, Requested, Untouched
  <2>2. QED
    BY <2>1, UntouchedIsTraced DEF IInv
<1>4. QED
  BY <1>1, <1>2, <1>3 DEF IInv, Shape

LEMMA StartStep ==
  ASSUME IInv, NEW p \in Requests, NEW kind \in Kinds, NEW about \in Abouts,
         Start(p, kind, about)
  PROVE  IInv'
<1> DEFINE r == [Idle EXCEPT !.kind = kind, !.to = DOMAIN about, !.about = about]
<1>1. /\ r \in Request /\ r.to \subseteq DOMAIN r.about
      /\ r.unqueued = {} /\ r.mine = {}
  BY AboutsAreFunctions DEF Idle, Request
<1>2. Requested(p, r) /\ UNCHANGED <<posts, enrolled, rows>>
  BY DEF Start, Requested
<1>3. QED
  BY <1>1, <1>2, RequestRestarts

LEMMA InsertFailsStep ==
  ASSUME IInv, NEW p \in Requests, InsertFails(p)
  PROVE  IInv'
<1>1. Requested(p, Idle) /\ UNCHANGED <<posts, enrolled, rows>>
  BY DEF InsertFails, Requested
<1>2. QED
  BY <1>1, NothingIsTyped, RequestRestarts

(* Request p inserts c rows after the first k, and still has to notify to. *)
Inserts(p, k, c, to) ==
  /\ NumberedTo(k) /\ k + c <= MaxNotes
  /\ rows' \in [Notes -> RowType]
  /\ \A n \in Notes : IF n \in k + 1 .. k + c
                      THEN rows'[n].state = "pending" /\ ~rows'[n].notified
                      ELSE rows'[n] = rows[n]
  /\ Requested(p, [request[p] EXCEPT !.to = to, !.unqueued = k + 1 .. k + c,
                                     !.mine = @ \union (k + 1 .. k + c)])

(* The ids of a batch are the next free ones, its rows belong to users.    *)
LEMMA InsertEffect ==
  ASSUME IInv, NEW p \in Requests, Insert(p)
  PROVE  \E k \in 0..MaxNotes, c \in Nat, to \in SUBSET request[p].to :
           Inserts(p, k, c, to)
<1>1. /\ request[p] \in Request /\ request[p].to \subseteq DOMAIN request[p].about
      /\ request[p].to \subseteq Users
      /\ \A u \in request[p].to : request[p].about[u] \in Subjects
  BY AboutsAreFunctions DEF IInv, Shape, Types, AboutAll, Request
<1> DEFINE InsertedAs(b) ==
      LET users == SetToSeq(b)
          first == MaxNotes - Cardinality(Fresh)
          ids   == first + 1 .. first + Cardinality(b)
      IN /\ Cardinality(b) <= Cardinality(Fresh)
         /\ rows' = [n \in Notes |->
                       IF n \in ids
                       THEN NewRow(users[n - first], request[p].about[users[n - first]])
                       ELSE rows[n]]
         /\ request' = [request EXCEPT ![p].to = @ \ b, ![p].unqueued = ids,
                                       ![p].mine = @ \union ids]
<1>2. PICK batch \in SUBSET request[p].to : InsertedAs(batch)
  BY DEF Insert, Batches
<1>3. PICK k \in 0..MaxNotes : NumberedTo(k)
  BY DEF IInv, Shape, Numbered
<1>4. MaxNotes - Cardinality(Fresh) = k /\ Cardinality(Fresh) = MaxNotes - k
  <2>1. Fresh = k + 1 .. MaxNotes
    BY <1>3, SizesAreNat DEF Fresh, Notes, NumberedTo
  <2>2. k \in Nat /\ MaxNotes \in Nat /\ k <= MaxNotes
    BY SizesAreNat
  <2>3. Cardinality(k + 1 .. MaxNotes) =
          IF k + 1 > MaxNotes THEN 0 ELSE MaxNotes - (k + 1) + 1
    BY <2>2, FS_Interval
  <2>4. QED
    BY <2>1, <2>2, <2>3
<1> DEFINE c == Cardinality(batch)
           users == SetToSeq(batch)
<1>5. c \in Nat /\ users \in [1..c -> batch]
  BY <1>1, UsersAreFinite, Enumerated
<1>6. k + c <= MaxNotes
  BY <1>2, <1>4, <1>5, SizesAreNat
<1> DEFINE new(n) == NewRow(users[n - k], request[p].about[users[n - k]])
<1>7. rows' = [n \in Notes |-> IF n \in k + 1 .. k + c THEN new(n) ELSE rows[n]]
  BY <1>2, <1>4
<1>8. ASSUME NEW n \in k + 1 .. k + c
      PROVE  new(n) \in RowType /\ new(n).state = "pending" /\ ~new(n).notified
  <2>1. n - k \in 1..c
    BY <1>5
  <2>2. users[n - k] \in Users /\ request[p].about[users[n - k]] \in Subjects
    BY <1>1, <1>5, <2>1
  <2>3. QED
    BY <2>2 DEF NewRow, RowType
<1>9. Requested(p, [request[p] EXCEPT !.to = request[p].to \ batch,
                      !.unqueued = k + 1 .. k + c, !.mine = @ \union (k + 1 .. k + c)])
  <2>1. request' = [request EXCEPT ![p].to = @ \ batch, ![p].unqueued = k + 1 .. k + c,
                                   ![p].mine = @ \union (k + 1 .. k + c)]
    BY <1>2, <1>4
  <2>2. request \in [Requests -> Request]
    BY DEF IInv, Shape, Types
  <2>3. UNCHANGED <<queue, scheduled, job, sent, lost, quiet>>
    BY DEF Insert
  <2>4. QED
    BY <2>1, <2>2, <2>3 DEF Requested, Request
<1> HIDE DEF c, new
<1>10. request[p].to \ batch \in SUBSET request[p].to /\ rows' \in [Notes -> RowType]
  BY <1>7, <1>8 DEF IInv, Shape, Types
<1>11. \A n \in Notes : IF n \in k + 1 .. k + c
                         THEN rows'[n].state = "pending" /\ ~rows'[n].notified
                         ELSE rows'[n] = rows[n]
  BY <1>7, <1>8
<1>12. QED
  BY <1>3, <1>5, <1>6, <1>9, <1>10, <1>11 DEF c, Inserts

LEMMA InsertStep ==
  ASSUME IInv, NEW p \in Requests, Insert(p)
  PROVE  IInv'
<1>1. PICK k \in 0..MaxNotes, c \in Nat, to \in SUBSET request[p].to : Inserts(p, k, c, to)
  BY InsertEffect
<1> DEFINE ids == k + 1 .. k + c
           r == [request[p] EXCEPT !.to = to, !.unqueued = ids, !.mine = @ \union ids]
<1>2. Requested(p, r) /\ UNCHANGED <<posts, enrolled>>
  BY <1>1 DEF Inserts, Insert
<1>3. ids \subseteq Notes /\ \A n \in ids : rows[n].state = "unused"
  BY <1>1, SizesAreNat DEF Inserts, NumberedTo, Notes
<1> HIDE DEF ids
<1>4. /\ r \in Request /\ r.to \subseteq DOMAIN r.about
      /\ r.unqueued = ids /\ r.mine = request[p].mine \union ids
  <2>1. request[p] \in Request /\ request[p].to \subseteq DOMAIN request[p].about
    BY DEF IInv, Shape, Types, AboutAll
  <2>2. QED
    BY <1>3, <2>1 DEF Request
<1> HIDE DEF r
<1>5. /\ rows' \in [Notes -> RowType]
      /\ \A n \in ids : rows'[n].state = "pending" /\ ~rows'[n].notified
      /\ \A n \in Notes \ ids : rows'[n] = rows[n]
  BY <1>1, <1>3 DEF Inserts, ids
<1>6. Types' /\ AboutAll'
  <2>1. Types'
    BY <1>2, <1>4, <1>5 DEF IInv, Shape, Types, Requested
  <2>2. AboutAll'
    BY <1>2, <1>4 DEF IInv, Shape, Types, AboutAll, Requested
  <2>3. QED
    BY <2>1, <2>2
<1>7. Numbered'
  <2>1. k + c \in 0..MaxNotes
    BY <1>1, SizesAreNat DEF Inserts
  <2>2. ASSUME NEW n \in Notes PROVE rows'[n].state = "unused" <=> n > k + c
    BY <1>1, SizesAreNat DEF Inserts, NumberedTo, Notes
  <2>3. QED
    BY <2>1, <2>2 DEF Numbered, NumberedTo
<1>8. Uncommitted'
  <2>1. ASSUME NEW q \in Requests
        PROVE  /\ request'[q].unqueued \subseteq request'[q].mine
               /\ \A n \in request'[q].mine : rows'[n].state = "pending"
    <3>1. request'[q].mine \subseteq Notes
      BY <1>6 DEF Types, Request
    <3>2. QED
      BY <1>2, <1>3, <1>4, <1>5, <3>1 DEF IInv, Shape, Types, Uncommitted, Requested
  <2>2. ASSUME NEW q \in Requests, NEW v \in Requests, q # v
        PROVE  request'[q].mine \intersect request'[v].mine = {}
    BY <1>2, <1>3, <1>4, <2>2 DEF IInv, Shape, Types, Uncommitted, Requested
  <2>3. ASSUME NEW w \in Workers
        PROVE  /\ job'[w].saving \in DOMAIN job'[w].copies \union {0}
               /\ \A n \in DOMAIN job'[w].copies : rows'[n].state # "pending"
    <3>1. ASSUME NEW n \in DOMAIN job[w].copies PROVE n \notin ids /\ n \in Notes
      <4>1. n \in Notes /\ w \in HeldBy(n)
        BY <3>1, CopiesAreFunctions DEF IInv, Shape, Types, Job, HeldBy
      <4>2. QED
        BY <1>3, <4>1 DEF IInv, Traced, Accounted
    <3>2. QED
      BY <1>2, <1>5, <3>1 DEF IInv, Shape, Uncommitted, Requested
  <2>4. QED
    BY <2>1, <2>2, <2>3 DEF Uncommitted
<1>9. ASSUME NEW n \in Notes PROVE Traced(n)'
  <2>1. CASE n \notin ids
    <3>1. /\ Unqueued(n)' \subseteq Unqueued(n) /\ Queued(n)' = Queued(n)
          /\ Scheduled(n)' = Scheduled(n) /\ HeldBy(n)' = HeldBy(n)
      BY <1>2, <1>4, <2>1, RequestedPlaces DEF IInv, Shape
    <3>2. Untouched(n)
      BY <1>2, <1>5, <2>1, <3>1 DEF Requested, Untouched
    <3>3. QED
      BY <3>2, UntouchedIsTraced DEF IInv
  <2>2. CASE n \in ids
    <3>1. sent[n] = 0 /\ NotWaiting(n) /\ HeldBy(n) = {} /\ n \notin quiet
      BY <1>3, <2>2 DEF IInv, Traced, Accounted, LeftAlone
    <3>2. /\ Unqueued(n)' = {p} /\ Queued(n)' = {} /\ Scheduled(n)' = {} /\ HeldBy(n)' = {}
          /\ sent'[n] = 0 /\ n \notin quiet' /\ UNCHANGED <<job, lost>>
      BY <1>2, <1>4, <2>2, <3>1, RequestedPlaces
         DEF IInv, Shape, Requested, NotWaiting
    <3>3. rows'[n].state = "pending" /\ ~rows'[n].notified
      BY <1>5, <2>2
    <3>4. \A w \in Workers : job[w].saving # n
      BY <3>1 DEF IInv, Traced, Accounted
    <3>5. Once(n)' /\ LeftAlone(n)'
      BY <3>2 DEF Once, AtMostOne, NotWaiting, LeftAlone
    <3>6. Accounted(n)'
      BY <3>2, <3>3, <3>4 DEF Accounted
    <3>7. QED
      BY <3>5, <3>6 DEF Traced
  <2>3. QED
    BY <2>1, <2>2
<1>10. QED
  BY <1>6, <1>7, <1>8, <1>9 DEF IInv, Shape

(* What the queue holds after a job has joined or left it.                 *)
LEMMA AppendedPlaces ==
  ASSUME Types, NEW ids \in SUBSET Notes, queue' = Append(queue, ids), NEW n \in Notes
  PROVE  Queued(n)' = IF n \in ids THEN Queued(n) \union {Len(queue) + 1} ELSE Queued(n)
<1>1. /\ Len(queue) \in Nat
      /\ Len(queue') = Len(queue) + 1
      /\ \A i \in 1..Len(queue) : queue'[i] = queue[i]
      /\ queue'[Len(queue) + 1] = ids
  BY AppendProperties, LenProperties DEF Types
<1>2. ASSUME NEW i
      PROVE  i \in Queued(n)' <=>
               i \in Queued(n) \/ (n \in ids /\ i = Len(queue) + 1)
  BY <1>1 DEF Queued
<1>3. QED
  BY <1>2

LEMMA PoppedPlaces ==
  ASSUME Types, queue # <<>>, queue' = Tail(queue), NEW n \in Notes
  PROVE  /\ Queued(n)' # {} => Queued(n) # {}
         /\ n \in Head(queue) => Queued(n) # {}
         /\ AtMostOne(Queued(n)) =>
              AtMostOne(Queued(n)') /\ (n \in Head(queue) => Queued(n)' = {})
<1>1. /\ Len(queue) \in Nat \ {0}
      /\ Head(queue) = queue[1]
      /\ Len(queue') = Len(queue) - 1
      /\ \A i \in 1..Len(queue') : queue'[i] = queue[i + 1]
  BY HeadTailProperties, EmptySeq, LenProperties DEF Types
<1>2. \A i \in Queued(n)' : i \in Int /\ i >= 1 /\ i + 1 \in Queued(n)
  BY <1>1 DEF Queued
<1>3. n \in Head(queue) => 1 \in Queued(n)
  BY <1>1 DEF Queued
<1>4. QED
  BY <1>2, <1>3 DEF AtMostOne

(* A notification that moves from one queue to another.                    *)
LEMMA MovedIsTraced ==
  ASSUME NEW n \in Notes, Traced(n), ~NotWaiting(n), Once(n)',
         UNCHANGED <<rows, job, sent, lost, quiet>>
  PROVE  Traced(n)'
<1>1. /\ sent[n] # 1 /\ rows[n].state # "unused" /\ HeldBy(n)' = {}
      /\ \A w \in Workers : job'[w].saving # n
  BY DEF Traced, Once, Accounted, HeldBy
<1>2. Accounted(n)'
  BY <1>1 DEF Traced, Accounted
<1>3. LeftAlone(n)'
  BY <1>1 DEF Traced, LeftAlone
<1>4. QED
  BY <1>2, <1>3 DEF Traced

LEMMA EnqueueStep ==
  ASSUME IInv, NEW p \in Requests, Enqueue(p)
  PROVE  IInv'
<1> DEFINE ids == request[p].unqueued
           r == [request[p] EXCEPT !.unqueued = {}]
<1>1. /\ ids \in SUBSET Notes
      /\ r \in Request /\ r.to \subseteq DOMAIN r.about
      /\ r.unqueued = {} /\ r.mine = request[p].mine
  <2>1. request[p] \in Request /\ request[p].to \subseteq DOMAIN request[p].about
    BY DEF IInv, Shape, Types, AboutAll
  <2>2. QED
    BY <2>1 DEF Request
<1>2. /\ \/ scheduled' = scheduled \union {ids} /\ queue' = queue
         \/ queue' = Append(queue, ids) /\ scheduled' = scheduled
      /\ request' = [request EXCEPT ![p] = r]
      /\ UNCHANGED <<posts, enrolled, rows, job, sent, lost, quiet>>
  <2>1. request \in [Requests -> Request]
    BY DEF IInv, Shape, Types
  <2>2. QED
    BY <2>1 DEF Enqueue, JobIds, Request
<1>3. queue' \in Seq(SUBSET Notes)
  <2>1. queue \in Seq(SUBSET Notes)
    BY DEF IInv, Shape, Types
  <2>2. Append(queue, ids) \in Seq(SUBSET Notes)
    BY <1>1, <2>1, AppendProperties
  <2>3. QED
    BY <1>2, <2>1, <2>2
<1> HIDE DEF r
<1>4. Types' /\ AboutAll' /\ Numbered' /\ Uncommitted'
  <2>1. Types'
    BY <1>1, <1>2, <1>3 DEF IInv, Shape, Types
  <2>2. AboutAll'
    BY <1>1, <1>2 DEF IInv, Shape, Types, AboutAll
  <2>3. Numbered'
    BY <1>2 DEF IInv, Shape, Numbered, NumberedTo
  <2>4. Uncommitted'
    BY <1>1, <1>2 DEF IInv, Shape, Types, Uncommitted
  <2>5. QED
    BY <2>1, <2>2, <2>3, <2>4
<1>5. ASSUME NEW n \in Notes PROVE Traced(n)'
  <2>1. /\ Unqueued(n)' = Unqueued(n) \ {p} /\ HeldBy(n)' = HeldBy(n)
        /\ n \in ids <=> p \in Unqueued(n)
    BY <1>1, <1>2 DEF IInv, Shape, Types, Unqueued, HeldBy
  <2>2. CASE n \notin ids
    <3>1. Queued(n)' = Queued(n) /\ Scheduled(n)' = Scheduled(n)
      <4>1. CASE queue' = Append(queue, ids) /\ scheduled' = scheduled
        BY <1>1, <2>2, <4>1, AppendedPlaces DEF IInv, Shape, Scheduled
      <4>2. CASE queue' = queue /\ scheduled' = scheduled \union {ids}
        BY <2>2, <4>2 DEF Scheduled, Queued
      <4>3. QED
        BY <1>2, <4>1, <4>2
    <3>2. Untouched(n)
      BY <1>2, <2>1, <3>1 DEF Untouched
    <3>3. QED
      BY <3>2, UntouchedIsTraced DEF IInv
  <2>3. CASE n \in ids
    <3>1. /\ Unqueued(n)' = {} /\ Queued(n) = {} /\ Scheduled(n) = {} /\ HeldBy(n)' = {}
          /\ ~NotWaiting(n)
      BY <2>1, <2>3 DEF IInv, Traced, Once, AtMostOne, NotWaiting
    <3>2. \/ Queued(n)' = {Len(queue) + 1} /\ Scheduled(n)' = {}
          \/ Queued(n)' = {} /\ Scheduled(n)' = {ids}
      <4>1. CASE queue' = Append(queue, ids) /\ scheduled' = scheduled
        BY <1>1, <2>3, <3>1, <4>1, AppendedPlaces DEF IInv, Shape, Scheduled
      <4>2. CASE queue' = queue /\ scheduled' = scheduled \union {ids}
        BY <2>3, <3>1, <4>2 DEF Scheduled, Queued
      <4>3. QED
        BY <1>2, <4>1, <4>2
    <3>3. Once(n)'
      BY <3>1, <3>2 DEF Once, AtMostOne, NotWaiting
    <3>4. QED
      BY <1>2, <3>1, <3>3, MovedIsTraced DEF IInv
  <2>4. QED
    BY <2>2, <2>3
<1>6. QED
  BY <1>4, <1>5 DEF IInv, Shape

LEMMA DueStep ==
  ASSUME IInv, NEW ids \in scheduled, Due(ids)
  PROVE  IInv'
<1>1. /\ ids \in SUBSET Notes
      /\ scheduled' = scheduled \ {ids} /\ queue' = Append(queue, ids)
      /\ UNCHANGED <<posts, enrolled, rows, request, job, sent, lost, quiet>>
  BY DEF IInv, Shape, Types, Due
<1>2. queue' \in Seq(SUBSET Notes)
  BY <1>1, AppendProperties DEF IInv, Shape, Types
<1>3. Types' /\ AboutAll' /\ Numbered' /\ Uncommitted'
  BY <1>1, <1>2 DEF IInv, Shape, Types, AboutAll, Numbered, NumberedTo, Uncommitted
<1>4. ASSUME NEW n \in Notes PROVE Traced(n)'
  <2>1. /\ Unqueued(n)' = Unqueued(n) /\ HeldBy(n)' = HeldBy(n)
        /\ Scheduled(n)' = Scheduled(n) \ {ids}
        /\ n \in ids <=> ids \in Scheduled(n)
        /\ Queued(n)' = IF n \in ids THEN Queued(n) \union {Len(queue) + 1} ELSE Queued(n)
    BY <1>1, AppendedPlaces DEF IInv, Shape, Unqueued, HeldBy, Scheduled
  <2>2. CASE n \notin ids
    <3>1. Untouched(n)
      BY <1>1, <2>1, <2>2 DEF Untouched
    <3>2. QED
      BY <3>1, UntouchedIsTraced DEF IInv
  <2>3. CASE n \in ids
    <3>1. ~NotWaiting(n) /\ Once(n)'
      BY <2>1, <2>3 DEF IInv, Traced, Once, AtMostOne, NotWaiting
    <3>2. QED
      BY <1>1, <3>1, MovedIsTraced DEF IInv
  <2>4. QED
    BY <2>2, <2>3
<1>5. QED
  BY <1>3, <1>4 DEF IInv, Shape

(* The rows of a transaction are settled together, and the request is over.*)
LEMMA Settled ==
  ASSUME IInv, NEW p \in Requests, NEW state \in {"live", "deleted"},
         posts' \in [Posts -> {"to_come", "published", "deleted"}],
         rows' = [n \in Notes |-> IF n \in request[p].mine
                                  THEN [rows[n] EXCEPT !.state = state] ELSE rows[n]],
         Requested(p, Idle), UNCHANGED enrolled
  PROVE  IInv'
<1>1. /\ \A n \in request[p].mine : /\ n \in Notes /\ rows[n].state = "pending"
                                    /\ rows'[n] = [rows[n] EXCEPT !.state = state]
                                    /\ rows'[n] \in RowType /\ rows'[n].state = state
                                    /\ rows'[n].notified = rows[n].notified
      /\ \A n \in Notes \ request[p].mine : rows'[n] = rows[n]
  <2>1. request[p].mine \subseteq Notes
    BY DEF IInv, Shape, Types, Request
  <2>2. ASSUME NEW n \in request[p].mine
        PROVE  /\ n \in Notes /\ rows[n].state = "pending"
               /\ rows'[n] = [rows[n] EXCEPT !.state = state] /\ rows[n] \in RowType
    BY <2>1 DEF IInv, Shape, Types, Uncommitted
  <2>3. ASSUME NEW row \in RowType
        PROVE  LET new == [row EXCEPT !.state = state]
               IN new \in RowType /\ new.state = state /\ new.notified = row.notified
    BY DEF RowType
  <2>4. QED
    BY <2>1, <2>2, <2>3
<1>2. rows' \in [Notes -> RowType]
  BY <1>1 DEF IInv, Shape, Types
<1>3. Types' /\ AboutAll'
  BY <1>2, NothingIsTyped DEF IInv, Shape, Types, AboutAll, Requested
<1>4. Numbered'
  BY <1>1 DEF IInv, Shape, Numbered, NumberedTo
<1>5. Uncommitted'
  <2>1. ASSUME NEW q \in Requests
        PROVE  /\ request'[q].unqueued \subseteq request'[q].mine
               /\ \A n \in request'[q].mine : rows'[n].state = "pending"
    <3>1. CASE q = p
      BY <3>1, NothingIsTyped DEF IInv, Shape, Types, Requested
    <3>2. CASE q # p
      <4>1. request'[q] = request[q] /\ request[q].mine \subseteq Notes
        BY <3>2 DEF IInv, Shape, Types, Requested, Request
      <4>2. QED
        BY <1>1, <3>2, <4>1 DEF IInv, Shape, Uncommitted
    <3>3. QED
      BY <3>1, <3>2
  <2>2. ASSUME NEW q \in Requests, NEW v \in Requests, q # v
        PROVE  request'[q].mine \intersect request'[v].mine = {}
    BY <2>2, NothingIsTyped DEF IInv, Shape, Types, Uncommitted, Requested
  <2>3. ASSUME NEW w \in Workers
        PROVE  /\ job'[w].saving \in DOMAIN job'[w].copies \union {0}
               /\ \A n \in DOMAIN job'[w].copies : rows'[n].state # "pending"
    <3>1. DOMAIN job[w].copies \subseteq Notes
      BY CopiesAreFunctions DEF IInv, Shape, Types, Job
    <3>2. QED
      BY <1>1, <3>1 DEF IInv, Shape, Uncommitted, Requested
  <2>4. QED
    BY <2>1, <2>2, <2>3 DEF Uncommitted
<1>6. ASSUME NEW n \in Notes PROVE Traced(n)'
  <2>1. /\ Unqueued(n)' \subseteq Unqueued(n) /\ Queued(n)' = Queued(n)
        /\ Scheduled(n)' = Scheduled(n) /\ HeldBy(n)' = HeldBy(n)
        /\ UNCHANGED <<job, sent, lost, quiet>>
    BY NothingIsTyped, RequestedPlaces DEF IInv, Shape, Requested
  <2>2. CASE n \notin request[p].mine
    <3>1. Untouched(n)
      BY <1>1, <2>1, <2>2 DEF Untouched
    <3>2. QED
      BY <3>1, UntouchedIsTraced DEF IInv
  <2>3. CASE n \in request[p].mine
    <3>1. Once(n)'
      BY <2>1 DEF IInv, Traced, Once, AtMostOne, NotWaiting
    <3>2. Accounted(n)'
      BY <1>1, <2>1, <2>3 DEF IInv, Traced, Accounted, NotWaiting
    <3>3. LeftAlone(n)'
      BY <1>1, <2>1, <2>3 DEF IInv, Traced, LeftAlone
    <3>4. QED
      BY <3>1, <3>2, <3>3 DEF Traced
  <2>4. QED
    BY <2>2, <2>3
<1>7. QED
  BY <1>3, <1>4, <1>5, <1>6 DEF IInv, Shape

LEMMA CommitStep ==
  ASSUME IInv, NEW p \in Requests, Commit(p)
  PROVE  IInv'
<1>1. posts' \in [Posts -> {"to_come", "published", "deleted"}]
  BY DEF IInv, Shape, Types, Commit
<1>2. Requested(p, Idle)
  BY DEF Commit, Requested
<1>3. QED
  BY <1>1, <1>2, Settled DEF Commit

LEMMA RollbackStep ==
  ASSUME IInv, NEW p \in Requests, Rollback(p)
  PROVE  IInv'
<1>1. posts' \in [Posts -> {"to_come", "published", "deleted"}]
  BY DEF IInv, Shape, Types, Rollback
<1>2. Requested(p, Idle)
  BY DEF Rollback, Requested
<1>3. QED
  BY <1>1, <1>2, Settled DEF Rollback

(* The job of one worker goes on as j.                                     *)
Worked(w, j) ==
  /\ job' = [job EXCEPT ![w] = j]
  /\ UNCHANGED <<posts, enrolled, request, scheduled, quiet>>

LEMMA WorkedPlaces ==
  ASSUME Types, NEW w \in Workers, NEW j, Worked(w, j), NEW n \in Notes
  PROVE  /\ HeldBy(n)' = IF n \in DOMAIN j.copies THEN HeldBy(n) \union {w}
                         ELSE HeldBy(n) \ {w}
         /\ n \in DOMAIN job[w].copies <=> w \in HeldBy(n)
         /\ Unqueued(n)' = Unqueued(n) /\ Scheduled(n)' = Scheduled(n)
         /\ \A v \in Workers : job'[v] = IF v = w THEN j ELSE job[v]
  BY DEF Types, Worked, HeldBy, Unqueued, Scheduled

LEMMA TakeStep ==
  ASSUME IInv, NEW w \in Workers, Take(w)
  PROVE  IInv'
<1> DEFINE ids == Head(queue)
           found == ToNotify(ids)
           j == [NoJob EXCEPT !.copies = [n \in found |-> rows[n]]]
<1>1. /\ ids \in SUBSET Notes /\ queue' \in Seq(SUBSET Notes)
      /\ queue # <<>> /\ queue' = Tail(queue)
      /\ UNCHANGED <<posts, enrolled, rows, request, scheduled, sent, quiet>>
  BY HeadTailProperties DEF IInv, Shape, Types, Take
<1>2. found \subseteq ids /\ found \subseteq Notes
      /\ \A n \in found : rows[n] \in Loaded
  BY <1>1 DEF ToNotify, Live, Loaded, IInv, Shape, Types
<1>3. Worked(w, j) /\ job[w] = NoJob
  BY DEF Take, Worked, IInv, Shape, Types, Job
<1>4. j \in Job /\ DOMAIN j.copies = found /\ j.saving = 0
  <2>1. [n \in found |-> rows[n]] \in [found -> Loaded]
    BY <1>2
  <2>2. [n \in found |-> rows[n]] \in Copies
    BY <1>2, <2>1, CopiesAreFunctions
  <2>3. QED
    BY <2>2, NothingIsTyped DEF Job, NoJob
<1>5. lost' \subseteq Notes /\ lost \subseteq lost'
  BY <1>1 DEF Take, IInv, Shape, Types
<1> HIDE DEF j, found
<1>6. Types' /\ AboutAll' /\ Numbered'
  BY <1>1, <1>3, <1>4, <1>5
     DEF IInv, Shape, Types, AboutAll, Numbered, NumberedTo, Worked
<1>7. Uncommitted'
  <2>1. ASSUME NEW n \in found PROVE rows[n].state # "pending"
    BY <1>2 DEF Loaded
  <2>2. QED
    BY <1>1, <1>3, <1>4, <2>1 DEF IInv, Shape, Types, Uncommitted, Worked
<1>8. ASSUME NEW n \in Notes PROVE Traced(n)'
  <2>1. /\ HeldBy(n)' = IF n \in found THEN HeldBy(n) \union {w} ELSE HeldBy(n) \ {w}
        /\ w \notin HeldBy(n)
        /\ Unqueued(n)' = Unqueued(n) /\ Scheduled(n)' = Scheduled(n)
        /\ \A v \in Workers : job'[v].saving = job[v].saving
        /\ HeldBy(n) \subseteq Workers
    <3>1. /\ HeldBy(n)' = IF n \in found THEN HeldBy(n) \union {w} ELSE HeldBy(n) \ {w}
          /\ n \in DOMAIN job[w].copies <=> w \in HeldBy(n)
          /\ Unqueued(n)' = Unqueued(n) /\ Scheduled(n)' = Scheduled(n)
          /\ \A v \in Workers : job'[v] = IF v = w THEN j ELSE job[v]
      BY <1>3, <1>4, WorkedPlaces DEF IInv, Shape
    <3>2. QED
      BY <1>3, <1>4, <3>1, NothingIsTyped DEF HeldBy
  <2>2. /\ Queued(n)' # {} => Queued(n) # {}
        /\ n \in ids => Queued(n) # {}
        /\ AtMostOne(Queued(n)) =>
             AtMostOne(Queued(n)') /\ (n \in ids => Queued(n)' = {})
    BY <1>1, PoppedPlaces DEF IInv, Shape
  <2>3. CASE n \notin found
    <3>1. Once(n)'
      BY <2>1, <2>2, <2>3 DEF IInv, Traced, Once, AtMostOne, NotWaiting
    <3>2. Accounted(n)'
      BY <1>1, <1>5, <2>1, <2>2, <2>3 DEF IInv, Traced, Accounted, NotWaiting
    <3>3. LeftAlone(n)'
      BY <1>1, <2>1, <2>3 DEF IInv, Traced, LeftAlone
    <3>4. QED
      BY <3>1, <3>2, <3>3 DEF Traced
  <2>4. CASE n \in found
    <3>1. n \in ids /\ Queued(n) # {} /\ rows[n].state = "live" /\ rows[n].unread
      BY <1>2, <2>2, <2>4 DEF Loaded
    <3>2. /\ HeldBy(n) = {} /\ Unqueued(n) = {} /\ Scheduled(n) = {} /\ sent[n] # 1
          /\ Queued(n)' = {}
      BY <2>2, <3>1 DEF IInv, Traced, Once, Accounted, NotWaiting
    <3>3. Once(n)'
      BY <2>1, <2>4, <3>2 DEF Once, AtMostOne, NotWaiting
    <3>4. Accounted(n)'
      BY <1>1, <1>5, <2>1, <3>1, <3>2 DEF IInv, Traced, Accounted
    <3>5. LeftAlone(n)'
      BY <1>1, <3>1 DEF IInv, Traced, LeftAlone
    <3>6. QED
      BY <3>3, <3>4, <3>5 DEF Traced
  <2>5. QED
    BY <2>3, <2>4
<1>9. QED
  BY <1>6, <1>7, <1>8 DEF IInv, Shape

(* What a job knows of the records it loaded.                              *)
LEMMA JobsAreTyped ==
  ASSUME Types, NEW w \in Workers
  PROVE  /\ job[w] \in Job /\ DOMAIN job[w].copies \subseteq Notes
         /\ \A n \in DOMAIN job[w].copies : job[w].copies[n] \in Loaded
  BY CopiesAreFunctions DEF Types, Job

(* A worker goes on with a job, and the notifications it drops are lost, or*)
(* were saved.                                                             *)
LEMMA DropsAreTraced ==
  ASSUME Types, NEW w \in Workers, NEW j, Worked(w, j), NEW n \in Notes, Traced(n),
         DOMAIN j.copies \subseteq DOMAIN job[w].copies \ {job[w].saving}, j.saving = 0,
         UNCHANGED <<rows, queue, sent>>, lost \subseteq lost',
         n = job[w].saving => n \in lost'
  PROVE  Traced(n)'
<1>1. /\ HeldBy(n)' \subseteq HeldBy(n) /\ HeldBy(n) \subseteq Workers
      /\ Unqueued(n)' = Unqueued(n) /\ Scheduled(n)' = Scheduled(n)
      /\ Queued(n)' = Queued(n) /\ UNCHANGED quiet
      /\ \A v \in Workers : job'[v] = IF v = w THEN j ELSE job[v]
  <2>1. /\ HeldBy(n)' = IF n \in DOMAIN j.copies THEN HeldBy(n) \union {w}
                        ELSE HeldBy(n) \ {w}
        /\ n \in DOMAIN job[w].copies <=> w \in HeldBy(n)
        /\ Unqueued(n)' = Unqueued(n) /\ Scheduled(n)' = Scheduled(n)
        /\ \A v \in Workers : job'[v] = IF v = w THEN j ELSE job[v]
    BY WorkedPlaces
  <2>2. QED
    BY <2>1 DEF Worked, HeldBy, Queued
<1>2. n # 0
  BY NotesAreNumbers
<1>3. Once(n)'
  BY <1>1 DEF Traced, Once, AtMostOne, NotWaiting
<1>4. LeftAlone(n)'
  BY <1>1 DEF Traced, LeftAlone
<1>5. Accounted(n)'
  <2>1. /\ sent'[n] <= 1 /\ (rows'[n].notified => sent'[n] = 1)
        /\ rows'[n].state = "unused" => sent'[n] = 0 /\ NotWaiting(n)' /\ HeldBy(n)' = {}
        /\ sent'[n] = 1 => NotWaiting(n)'
        /\ \A v \in Workers : job'[v].saving = n => sent'[n] = 1
    BY <1>1, <1>2 DEF Traced, Accounted, NotWaiting
  <2>2. ASSUME sent'[n] = 1, NEW v \in HeldBy(n)' PROVE job'[v].saving = n
    <3>1. v \in HeldBy(n) /\ v \in Workers /\ job[v].saving = n /\ n \in Notes
      BY <1>1, <2>2 DEF Traced, Accounted
    <3>2. CASE v # w
      BY <1>1, <3>1, <3>2
    <3>3. CASE v = w
      <4>1. n \in DOMAIN j.copies
        BY <1>1, <2>2, <3>3 DEF HeldBy
      <4>2. QED
        BY <3>1, <3>3, <4>1
    <3>4. QED
      BY <3>2, <3>3
  <2>3. ASSUME sent'[n] = 1
        PROVE  \/ rows'[n].notified \/ n \in lost'
               \/ \E v \in Workers : job'[v].saving = n
    BY <1>1, <2>3 DEF Traced, Accounted
  <2>4. QED
    BY <2>1, <2>2, <2>3 DEF Accounted
<1>6. QED
  BY <1>3, <1>4, <1>5 DEF Traced

(* The rows do not change, and a job gets shorter.                         *)
LEMMA DropsStep ==
  ASSUME IInv, NEW w \in Workers, NEW j \in Job, Worked(w, j),
         DOMAIN j.copies \subseteq DOMAIN job[w].copies \ {job[w].saving}, j.saving = 0,
         UNCHANGED <<rows, queue, sent>>, lost \subseteq lost', lost' \subseteq Notes,
         job[w].saving \in lost' \union {0}
  PROVE  IInv'
<1>1. Types' /\ AboutAll' /\ Numbered' /\ Uncommitted'
  <2>1. Types' /\ AboutAll' /\ Numbered'
    BY DEF IInv, Shape, Types, AboutAll, Numbered, NumberedTo, Worked
  <2>2. Uncommitted'
    BY DEF IInv, Shape, Types, Uncommitted, Worked
  <2>3. QED
    BY <2>1, <2>2
<1>2. ASSUME NEW n \in Notes PROVE Traced(n)'
  <2>1. n = job[w].saving => n \in lost'
    BY NotesAreNumbers
  <2>2. Types /\ Traced(n)
    BY DEF IInv, Shape
  <2>3. QED
    BY <2>1, <2>2, DropsAreTraced
<1>3. QED
  BY <1>1, <1>2 DEF IInv, Shape

LEMMA SendFailsStep ==
  ASSUME IInv, NEW w \in Workers, NEW n \in Notes, SendFails(w, n)
  PROVE  IInv'
<1>1. /\ Without(w, n) \in Job /\ Without(w, n).saving = 0
      /\ DOMAIN Without(w, n).copies = DOMAIN job[w].copies \ {n}
  BY WithoutIsTyped DEF IInv, Shape
<1>2. /\ Worked(w, Without(w, n)) /\ UNCHANGED <<rows, queue, sent>>
      /\ job[w].saving = 0 /\ lost' = lost \union {n}
  BY DEF SendFails, Worked
<1>3. 0 \notin DOMAIN job[w].copies
  BY JobsAreTyped, NotesAreNumbers DEF IInv, Shape
<1>4. lost' \subseteq Notes
  BY <1>2 DEF IInv, Shape, Types
<1>5. QED
  BY <1>1, <1>2, <1>3, <1>4, DropsStep

LEMMA AbandonStep ==
  ASSUME IInv, NEW w \in Workers, Abandon(w)
  PROVE  IInv'
<1>1. /\ Worked(w, NoJob) /\ UNCHANGED <<rows, queue, sent>>
      /\ lost' = lost \union DOMAIN job[w].copies
  BY DEF Abandon, Worked
<1>2. /\ DOMAIN job[w].copies \subseteq Notes
      /\ job[w].saving \in DOMAIN job[w].copies \union {0}
  BY JobsAreTyped DEF IInv, Shape, Uncommitted
<1>3. lost' \subseteq Notes
  BY <1>1, <1>2 DEF IInv, Shape, Types
<1>4. QED
  BY <1>1, <1>2, <1>3, NothingIsTyped, DropsStep

LEMMA SendStep ==
  ASSUME IInv, NEW w \in Workers, NEW n \in Notes, Send(w, n)
  PROVE  IInv'
<1> DEFINE j == [job[w] EXCEPT !.saving = n]
<1>1. /\ j \in Job /\ j.copies = job[w].copies /\ j.saving = n
      /\ n \in DOMAIN job[w].copies /\ job[w].saving = 0
  BY JobsAreTyped DEF IInv, Shape, Job, Send
<1>2. Worked(w, j) /\ UNCHANGED <<rows, queue, lost>>
  <2>1. job' = [job EXCEPT ![w] = j]
    BY DEF Send, IInv, Shape, Types
  <2>2. QED
    BY <2>1 DEF Send, Worked
<1>3. sent' = [sent EXCEPT ![n] = sent[n] + 1] /\ sent' \in [Notes -> Nat]
  BY DEF Send, IInv, Shape, Types
<1> HIDE DEF j
<1>4. Types' /\ AboutAll' /\ Numbered' /\ Uncommitted'
  <2>1. Types' /\ AboutAll' /\ Numbered'
    BY <1>1, <1>2, <1>3 DEF IInv, Shape, Types, AboutAll, Numbered, NumberedTo, Worked
  <2>2. Uncommitted'
    BY <1>1, <1>2 DEF IInv, Shape, Types, Uncommitted, Worked
  <2>3. QED
    BY <2>1, <2>2
<1>5. w \in HeldBy(n)
  BY <1>1 DEF HeldBy
<1>6. sent[n] = 0
  BY <1>1, <1>5, NotesAreNumbers DEF IInv, Shape, Types, Traced, Accounted
<1>7. ASSUME NEW m \in Notes PROVE Traced(m)'
  <2>1. /\ HeldBy(m)' = IF m \in DOMAIN j.copies THEN HeldBy(m) \union {w}
                        ELSE HeldBy(m) \ {w}
        /\ m \in DOMAIN job[w].copies <=> w \in HeldBy(m)
        /\ Unqueued(m)' = Unqueued(m) /\ Scheduled(m)' = Scheduled(m)
        /\ \A v \in Workers : job'[v] = IF v = w THEN j ELSE job[v]
    BY <1>2, WorkedPlaces DEF IInv, Shape
  <2>2. /\ HeldBy(m)' = HeldBy(m) /\ Queued(m)' = Queued(m) /\ UNCHANGED quiet
        /\ HeldBy(m) \subseteq Workers
    BY <1>1, <1>2, <2>1 DEF Worked, Queued, HeldBy
  <2>3. CASE m # n
    <3>1. /\ sent'[m] = sent[m] /\ m # 0
          /\ \A v \in Workers : job'[v].saving = m <=> job[v].saving = m
      BY <1>1, <1>3, <2>1, <2>3, NotesAreNumbers DEF IInv, Shape, Types
    <3>2. Untouched(m)
      BY <1>2, <2>1, <2>2, <3>1 DEF Untouched
    <3>3. QED
      BY <3>2, UntouchedIsTraced DEF IInv
  <2>4. CASE m = n
    <3>1. sent'[m] = 1 /\ HeldBy(m) = {w} /\ NotWaiting(m) /\ m \notin quiet
      BY <1>3, <1>5, <1>6, <2>4
         DEF IInv, Shape, Types, Traced, Once, AtMostOne, LeftAlone
    <3>2. NotWaiting(m)' /\ Once(m)'
      BY <2>1, <2>2, <3>1 DEF NotWaiting, Once, AtMostOne
    <3>3. rows[m].state # "unused"
      BY <3>1 DEF IInv, Traced, Accounted
    <3>4. Accounted(m)'
      BY <1>1, <1>2, <2>1, <2>2, <2>4, <3>1, <3>2, <3>3 DEF Accounted
    <3>5. QED
      BY <2>2, <3>1, <3>2, <3>4 DEF Traced, LeftAlone
  <2>5. QED
    BY <2>3, <2>4
<1>8. QED
  BY <1>4, <1>7 DEF IInv, Shape

LEMMA SaveStep ==
  ASSUME IInv, NEW w \in Workers, Save(w)
  PROVE  IInv'
<1> DEFINE n == job[w].saving
           j == Without(w, n)
           row == [job[w].copies[n] EXCEPT !.notified = TRUE]
<1>1. n \in DOMAIN job[w].copies /\ n \in Notes /\ w \in HeldBy(n)
  BY JobsAreTyped DEF IInv, Shape, Uncommitted, Save, HeldBy
<1>2. /\ j \in Job /\ DOMAIN j.copies = DOMAIN job[w].copies \ {n} /\ j.saving = 0
      /\ Worked(w, j) /\ UNCHANGED <<queue, sent, lost>>
  BY WithoutIsTyped DEF Save, Worked, IInv, Shape
<1>3. rows' = [rows EXCEPT ![n] = row]
  BY DEF Save
<1>4. row \in RowType /\ row.state = "live" /\ row.notified
  <2>1. job[w].copies[n] \in Loaded
    BY <1>1, JobsAreTyped DEF IInv, Shape
  <2>2. QED
    BY <2>1 DEF Loaded, RowType
<1>5. rows[n].state \notin {"pending", "unused"} /\ n \notin quiet
  BY <1>1 DEF IInv, Shape, Uncommitted, Traced, Accounted, LeftAlone
<1> HIDE DEF j, row
<1>6. /\ rows' \in [Notes -> RowType] /\ rows'[n] = row
      /\ \A m \in Notes \ {n} : rows'[m] = rows[m]
  BY <1>1, <1>3, <1>4 DEF IInv, Shape, Types
<1>7. Types' /\ AboutAll' /\ Numbered' /\ Uncommitted'
  <2>1. Types' /\ AboutAll'
    BY <1>2, <1>6 DEF IInv, Shape, Types, AboutAll, Worked
  <2>2. Numbered'
    BY <1>4, <1>5, <1>6 DEF IInv, Shape, Numbered, NumberedTo
  <2>3. ASSUME NEW p \in Requests
        PROVE  /\ request'[p].unqueued \subseteq request'[p].mine
               /\ \A m \in request'[p].mine : rows'[m].state = "pending"
    <3>1. request[p].mine \subseteq Notes
      BY DEF IInv, Shape, Types, Request
    <3>2. QED
      BY <1>2, <1>5, <1>6, <3>1 DEF IInv, Shape, Uncommitted, Worked
  <2>4. ASSUME NEW v \in Workers
        PROVE  /\ job'[v].saving \in DOMAIN job'[v].copies \union {0}
               /\ \A m \in DOMAIN job'[v].copies : rows'[m].state # "pending"
    <3>1. DOMAIN job'[v].copies \subseteq DOMAIN job[v].copies
      BY <1>2 DEF IInv, Shape, Types, Worked
    <3>2. DOMAIN job[v].copies \subseteq Notes
      BY JobsAreTyped DEF IInv, Shape
    <3>3. \A m \in DOMAIN job'[v].copies : rows'[m].state # "pending"
      <4>1. ASSUME NEW m \in DOMAIN job'[v].copies PROVE rows'[m].state # "pending"
        <5>1. m \in Notes /\ rows[m].state # "pending"
          BY <3>1, <3>2 DEF IInv, Shape, Uncommitted
        <5>2. QED
          BY <1>4, <1>6, <5>1
      <4>2. QED
        BY <4>1
    <3>4. job'[v].saving \in DOMAIN job'[v].copies \union {0}
      BY <1>2 DEF IInv, Shape, Types, Uncommitted, Worked
    <3>5. QED
      BY <3>3, <3>4
  <2>5. Uncommitted'
    BY <1>2, <2>3, <2>4 DEF IInv, Shape, Uncommitted, Worked
  <2>6. QED
    BY <2>1, <2>2, <2>5
<1>8. ASSUME NEW m \in Notes PROVE Traced(m)'
  <2>1. /\ HeldBy(m)' = IF m \in DOMAIN j.copies THEN HeldBy(m) \union {w}
                        ELSE HeldBy(m) \ {w}
        /\ m \in DOMAIN job[w].copies <=> w \in HeldBy(m)
        /\ Unqueued(m)' = Unqueued(m) /\ Scheduled(m)' = Scheduled(m)
        /\ \A v \in Workers : job'[v] = IF v = w THEN j ELSE job[v]
    BY <1>2, WorkedPlaces DEF IInv, Shape
  <2>2. HeldBy(m)' \subseteq HeldBy(m) /\ Queued(m)' = Queued(m) /\ UNCHANGED quiet
    BY <1>2, <2>1 DEF Worked, Queued
  <2>3. CASE m # n
    <3>1. \A v \in Workers : job'[v].saving = m <=> job[v].saving = m
      BY <1>2, <2>1, <2>3, NotesAreNumbers
    <3>2. Untouched(m)
      BY <1>2, <1>6, <2>1, <2>2, <2>3, <3>1 DEF Untouched
    <3>3. QED
      BY <3>2, UntouchedIsTraced DEF IInv
  <2>4. CASE m = n
    <3>1. sent[m] = 1 /\ HeldBy(m)' = {} /\ NotWaiting(m)
      BY <1>1, <1>2, <2>1, <2>4 DEF IInv, Traced, Once, Accounted, AtMostOne
    <3>2. NotWaiting(m)' /\ Once(m)'
      BY <2>1, <2>2, <3>1 DEF NotWaiting, Once, AtMostOne
    <3>3. Accounted(m)'
      BY <1>2, <1>4, <1>6, <2>4, <3>1, <3>2 DEF Accounted
    <3>4. QED
      BY <1>5, <2>2, <2>4, <3>2, <3>3 DEF Traced, LeftAlone
  <2>5. QED
    BY <2>3, <2>4
<1>9. QED
  BY <1>7, <1>8 DEF IInv, Shape

(* Meanwhile live rows become read or deleted, and nothing else changes.   *)
Quietens(n) ==
  /\ Live(n) /\ rows'[n] \in RowType
  /\ rows'[n].notified = rows[n].notified
  /\ rows'[n].state = "deleted" \/ (rows'[n].state = "live" /\ ~rows'[n].unread)

Meanwhile ==
  /\ posts' \in [Posts -> {"to_come", "published", "deleted"}]
  /\ enrolled' \subseteq Students
  /\ rows' = [n \in Notes |-> rows'[n]]
  /\ \A n \in Notes : \/ rows'[n] = rows[n]
                      \/ Quietens(n) /\ (sent[n] = 0 /\ HeldBy(n) = {} => n \in quiet')
  /\ quiet \subseteq quiet' /\ quiet' \subseteq Notes
  /\ \A n \in quiet' \ quiet : Quietens(n) /\ sent[n] = 0 /\ HeldBy(n) = {}
  /\ UNCHANGED <<request, queue, scheduled, job, sent, lost>>

LEMMA MeanwhileStep == ASSUME IInv, Meanwhile PROVE IInv'
<1>1. Types' /\ AboutAll' /\ Numbered' /\ Uncommitted'
  <2>1. \A n \in Notes : rows'[n] \in RowType
    BY DEF IInv, Shape, Types, Meanwhile, Quietens
  <2>2. rows' \in [Notes -> RowType]
    BY <2>1 DEF Meanwhile
  <2>3. Types' /\ AboutAll'
    BY <2>2 DEF IInv, Shape, Types, AboutAll, Meanwhile
  <2>4. Numbered'
    BY DEF IInv, Shape, Numbered, NumberedTo, Meanwhile, Quietens, Live
  <2>5. ASSUME NEW p \in Requests, NEW n \in request[p].mine
        PROVE  rows'[n].state = "pending"
    <3>1. n \in Notes
      BY DEF IInv, Shape, Types, Request
    <3>2. QED
      BY <3>1 DEF IInv, Shape, Uncommitted, Meanwhile, Quietens, Live
  <2>6. ASSUME NEW w \in Workers, NEW n \in DOMAIN job[w].copies
        PROVE  rows'[n].state # "pending"
    <3>1. n \in Notes
      BY JobsAreTyped DEF IInv, Shape
    <3>2. QED
      BY <3>1 DEF IInv, Shape, Uncommitted, Meanwhile, Quietens, Live
  <2>7. Uncommitted'
    BY <2>5, <2>6 DEF IInv, Shape, Uncommitted, Meanwhile
  <2>8. QED
    BY <2>3, <2>4, <2>7
<1>2. ASSUME NEW n \in Notes PROVE Traced(n)'
  <2>1. /\ Unqueued(n)' = Unqueued(n) /\ Queued(n)' = Queued(n)
        /\ Scheduled(n)' = Scheduled(n) /\ HeldBy(n)' = HeldBy(n)
    BY DEF Meanwhile, Unqueued, Queued, Scheduled, HeldBy
  <2>2. Once(n)'
    BY <2>1 DEF IInv, Traced, Once, AtMostOne, NotWaiting
  <2>3. Accounted(n)'
    BY <2>1 DEF IInv, Traced, Accounted, NotWaiting, Meanwhile, Quietens, Live
  <2>4. LeftAlone(n)'
    BY <2>1 DEF IInv, Traced, LeftAlone, Meanwhile, Quietens, Live
  <2>5. QED
    BY <2>2, <2>3, <2>4 DEF Traced
<1>3. QED
  BY <1>1, <1>2 DEF IInv, Shape

(* Nobody holds what is not among the records the jobs have loaded.        *)
LEMMA NotHeld == ASSUME NEW n PROVE n \notin Held <=> HeldBy(n) = {}
  BY DEF Held, HeldBy

(* Reading and deleting these notes are such changes.                      *)
LEMMA Changes ==
  ASSUME Types, NEW notes \in SUBSET Notes, \A n \in notes : Live(n),
         posts' \in [Posts -> {"to_come", "published", "deleted"}],
         enrolled' \subseteq Students,
         Change(notes, AsRead) \/ Change(notes, AsDeleted)
  PROVE  Meanwhile
<1>1. /\ rows' = [n \in Notes |-> rows'[n]]
      /\ \A n \in Notes \ notes : rows'[n] = rows[n]
      /\ \A n \in notes : \/ rows'[n] = [rows[n] EXCEPT !.unread = FALSE]
                          \/ rows'[n] = [rows[n] EXCEPT !.state = "deleted"]
      /\ quiet' = quiet \union {n \in notes \ Held : sent[n] = 0}
      /\ UNCHANGED <<request, queue, scheduled, job, sent, lost>>
  <2>1. CASE Change(notes, AsRead)
    BY <2>1 DEF Change, AsRead
  <2>2. CASE Change(notes, AsDeleted)
    BY <2>2 DEF Change, AsDeleted
  <2>3. QED
    BY <2>1, <2>2
<1>2. ASSUME NEW n \in notes PROVE Quietens(n)
  <2>1. Live(n) /\ rows[n] \in RowType
    BY DEF Types
  <2>2. QED
    BY <1>1, <2>1 DEF Quietens, Live, RowType
<1>3. quiet \subseteq quiet' /\ quiet' \subseteq Notes
  BY <1>1 DEF Types
<1>4. \A n \in notes : sent[n] = 0 /\ HeldBy(n) = {} => n \in quiet'
  BY <1>1, NotHeld
<1>5. \A n \in quiet' \ quiet : n \in notes /\ sent[n] = 0 /\ HeldBy(n) = {}
  BY <1>1, NotHeld
<1>6. QED
  BY <1>1, <1>2, <1>3, <1>4, <1>5 DEF Meanwhile

(* Whatever users and commands do to the records is such a change.         *)
LEMMA ElsewhereIsMeanwhile == ASSUME IInv, Elsewhere PROVE Meanwhile
<1>0. Types
  BY DEF IInv, Shape
<1>1. ASSUME NEW u, NEW x, Read(u, x) PROVE Meanwhile
  <2> DEFINE theirs == {n \in Notes : /\ Live(n) /\ rows[n].unread
                                      /\ rows[n].user = u /\ rows[n].subject = x}
  <2>1. theirs \in SUBSET Notes /\ \A n \in theirs : Live(n)
    OBVIOUS
  <2>2. Change(theirs, AsRead) /\ UNCHANGED <<posts, enrolled>>
    BY <1>1 DEF Read
  <2>3. QED
    BY <1>0, <2>1, <2>2, Changes DEF Types
<1>2. ASSUME NEW last \in Notes, ReadStale(last) \/ Cleanup(last) PROVE Meanwhile
  <2>1. 1..last \subseteq Notes
    BY SizesAreNat DEF Notes
  <2>2. CASE ReadStale(last)
    <3> DEFINE stale == {n \in 1..last : Live(n) /\ rows[n].unread}
    <3>1. stale \in SUBSET Notes /\ \A n \in stale : Live(n)
      BY <2>1
    <3>2. Change(stale, AsRead) /\ UNCHANGED <<posts, enrolled>>
      BY <2>2 DEF ReadStale
    <3>3. QED
      BY <1>0, <3>1, <3>2, Changes DEF Types
  <2>3. CASE Cleanup(last)
    <3> DEFINE old == {n \in (1..last) \ Held : Live(n) /\ ~rows[n].unread}
    <3>1. old \in SUBSET Notes /\ \A n \in old : Live(n)
      BY <2>1
    <3>2. Change(old, AsDeleted) /\ UNCHANGED <<posts, enrolled>>
      BY <2>3 DEF Cleanup
    <3>3. QED
      BY <1>0, <3>1, <3>2, Changes DEF Types
  <2>4. QED
    BY <1>2, <2>2, <2>3
<1>3. ASSUME NEW s \in Students, Leave(s) PROVE Meanwhile
  <2> DEFINE theirs == {n \in Notes : Live(n) /\ rows[n].user = s}
  <2>1. enrolled' \subseteq Students /\ UNCHANGED posts
    BY <1>0, <1>3 DEF Leave, Types
  <2>2. CASE Change(theirs, AsDeleted)
    <3>1. theirs \in SUBSET Notes /\ \A n \in theirs : Live(n)
      OBVIOUS
    <3>2. QED
      BY <1>0, <2>1, <2>2, <3>1, Changes DEF Types
  <2>3. CASE UNCHANGED <<rows, request, queue, scheduled, job, sent, lost, quiet>>
    BY <1>0, <2>1, <2>3 DEF Meanwhile, Types
  <2>4. QED
    BY <1>3, <2>2, <2>3 DEF Leave
<1>4. ASSUME NEW s \in Students, Enroll(s) PROVE Meanwhile
  BY <1>0, <1>4 DEF Enroll, Meanwhile, Types
<1>5. ASSUME NEW post \in Posts, Unpublish(post) PROVE Meanwhile
  <2> DEFINE theirs == {n \in Notes : Live(n) /\ PostOf(rows[n].subject) = post}
  <2>1. posts' \in [Posts -> {"to_come", "published", "deleted"}]
    BY <1>0, <1>5 DEF Unpublish, Types
  <2>2. Change(theirs, AsDeleted) /\ UNCHANGED enrolled
    BY <1>5 DEF Unpublish
  <2>3. QED
    BY <1>0, <2>1, <2>2, Changes DEF Types
<1>6. QED
  BY <1>1, <1>2, <1>3, <1>4, <1>5 DEF Elsewhere

LEMMA ElsewhereStep == ASSUME IInv, Elsewhere PROVE IInv'
  BY ElsewhereIsMeanwhile, MeanwhileStep

-------------------------------------------------------------------------------
LEMMA InvariantInit == Init => IInv
<1> SUFFICES ASSUME Init PROVE IInv
  OBVIOUS
<1>1. Types /\ AboutAll
  BY NothingIsTyped, EmptySeq DEF Init, Types, AboutAll
<1>2. Numbered
  <2>1. NumberedTo(0)
    BY NotesAreNumbers DEF NumberedTo, Init, Unused
  <2>2. QED
    BY <2>1, SizesAreNat DEF Numbered
<1>3. Uncommitted
  BY NothingIsTyped DEF Init, Uncommitted
<1>4. ASSUME NEW n \in Notes PROVE Traced(n)
  <2>1. n # 0 /\ Unqueued(n) = {} /\ Queued(n) = {} /\ Scheduled(n) = {} /\ HeldBy(n) = {}
    BY NothingIsTyped, NotesAreNumbers, EmptySeq
       DEF Init, Unqueued, Queued, Scheduled, HeldBy
  <2>2. QED
    BY <2>1, NothingIsTyped
       DEF Init, Traced, Once, AtMostOne, NotWaiting, Accounted, LeftAlone, Unused
<1>5. QED
  BY <1>1, <1>2, <1>3, <1>4 DEF IInv, Shape

LEMMA NotifyStep == ASSUME IInv, NEW p \in Requests, Notify(p) PROVE IInv'
<1>0. enrolled \subseteq Students
  BY DEF IInv, Shape, Types
<1>1. ASSUME NEW users \in SUBSET Students PROVE OwnWork(users) \in Abouts
  <2>1. users \in SUBSET Users /\ OwnWork(users) \in [users -> Subjects]
    BY DEF OwnWork, Users, Subjects
  <2>2. QED
    BY <2>1, AboutsAreFunctions
<1>2. ASSUME NEW users \in SUBSET Users, NEW x \in Subjects
      PROVE  [u \in users |-> x] \in Abouts
  <2>1. [u \in users |-> x] \in [users -> Subjects]
    OBVIOUS
  <2>2. QED
    BY <2>1, AboutsAreFunctions
<1>3. ASSUME NEW s \in enrolled, NewSubmission(p, s) PROVE IInv'
  <2>1. CASE Start(p, "submission", OwnWork({s}))
    BY <1>0, <1>1, <2>1, StartStep DEF Kinds
  <2>2. ASSUME NEW assignees \in SUBSET Teachers,
               Start(p, "submission", [t \in assignees |-> s])
        PROVE  IInv'
    <3>1. assignees \in SUBSET Users /\ s \in Subjects
      BY <1>0 DEF Users, Subjects
    <3>2. [t \in assignees |-> s] \in Abouts
      BY <1>2, <3>1
    <3>3. QED
      BY <2>2, <3>2, StartStep DEF Kinds
  <2>3. QED
    BY <1>3, <2>1, <2>2 DEF NewSubmission
<1>4. CASE DeadlineChanged(p)
  BY <1>0, <1>1, <1>4, StartStep DEF DeadlineChanged, Kinds
<1>5. CASE AssignmentCreated(p)
  BY <1>0, <1>1, <1>5, StartStep DEF AssignmentCreated, Kinds
<1>6. CASE NewsCreated(p)
  <2>1. enrolled \union Teachers \in SUBSET Users /\ "news" \in Subjects
    BY <1>0 DEF Users, Subjects
  <2>2. [u \in enrolled \union Teachers |-> "news"] \in Abouts
    BY <1>2, <2>1
  <2>3. QED
    BY <1>6, <2>2, StartStep DEF NewsCreated, Kinds
<1>7. QED
  BY <1>3, <1>4, <1>5, <1>6 DEF Notify

LEMMA WorkStep == ASSUME IInv, NEW w \in Workers, Work(w) \/ Die(w) PROVE IInv'
<1>1. CASE Take(w)
  BY <1>1, TakeStep
<1>2. CASE Save(w)
  BY <1>2, SaveStep
<1>3. CASE SaveFails(w) \/ Die(w)
  BY <1>3, AbandonStep DEF SaveFails, Die
<1>4. ASSUME NEW n \in Notes, Send(w, n) PROVE IInv'
  BY <1>4, SendStep
<1>5. ASSUME NEW n \in Notes, SendFails(w, n) PROVE IInv'
  BY <1>5, SendFailsStep
<1>6. QED
  BY <1>1, <1>2, <1>3, <1>4, <1>5 DEF Work

LEMMA InvariantNext == ASSUME IInv, [Next]_vars PROVE IInv'
<1>1. ASSUME NEW p \in Requests, Notify(p) \/ Serve(p) \/ Rollback(p) PROVE IInv'
  BY <1>1, NotifyStep, InsertStep, InsertFailsStep, EnqueueStep, CommitStep, RollbackStep
     DEF Serve
<1>2. ASSUME NEW ids \in scheduled, Due(ids) PROVE IInv'
  BY <1>2, DueStep
<1>3. ASSUME NEW w \in Workers, Work(w) \/ Die(w) PROVE IInv'
  BY <1>3, WorkStep
<1>4. CASE Elsewhere
  BY <1>4, ElsewhereStep
<1>5. CASE UNCHANGED vars
  <2>1. Shape'
    BY <1>5 DEF vars, IInv, Shape, Types, AboutAll, Numbered, NumberedTo, Uncommitted
  <2>2. ASSUME NEW n \in Notes PROVE Traced(n)'
    <3>1. Untouched(n)
      BY <1>5 DEF vars, Untouched, Unqueued, Queued, Scheduled, HeldBy
    <3>2. QED
      BY <3>1, UntouchedIsTraced DEF IInv
  <2>3. QED
    BY <2>1, <2>2 DEF IInv
<1>6. QED
  BY <1>1, <1>2, <1>3, <1>4, <1>5 DEF Next

(* The inductive invariant.                                                *)
LEMMA Invariance == Spec => []IInv
  BY InvariantInit, InvariantNext, PTL DEF Spec

(* Every variable keeps its type, and no job loads a record before its     *)
(* transaction has committed (NotificationDelivery!TypeOK).                *)
THEOREM TypeCorrect == Spec => []TypeOK
<1>1. IInv => TypeOK
  <2> SUFFICES ASSUME IInv PROVE TypeOK
    OBVIOUS
  <2>1. \A p \in Requests : request[p].mine \subseteq Notes
    BY DEF IInv, Shape, Types, Request
  <2>2. \A i \in DOMAIN queue : queue[i] \subseteq Notes
    BY ElementOfSeq, LenProperties DEF IInv, Shape, Types
  <2>3. QED
    BY <2>1, <2>2 DEF IInv, Shape, Types, Uncommitted, TypeOK
<1>2. QED
  BY <1>1, Invariance, PTL

(* With any number of requests and queue workers, jobs lost or failed, and *)
(* no lock on is_notified, nobody gets two e-mails about one notification. *)
THEOREM NobodyIsEmailedTwice == Spec => []EmailedOnce
<1>1. IInv => EmailedOnce
  BY DEF IInv, Traced, Accounted, EmailedOnce
<1>2. QED
  BY <1>1, Invariance, PTL

(* is_notified tells whether the e-mail went out, whatever becomes of the  *)
(* record between the query of a job and its save.                         *)
THEOREM RecordIsTrue == Spec => []NotifiedIsTrue
<1>1. IInv => NotifiedIsTrue
  BY DEF IInv, Traced, Accounted, NotifiedIsTrue
<1>2. QED
  BY <1>1, Invariance, PTL

(* What a user has read or lost before a job loaded it is never e-mailed,  *)
(* and no late save brings it back.                                        *)
THEOREM ReadIsQuiet == Spec => []ReadBeforeIsQuiet
<1>1. IInv => ReadBeforeIsQuiet
  BY DEF IInv, Shape, Types, Traced, LeftAlone, ReadBeforeIsQuiet, Live
<1>2. QED
  BY <1>1, Invariance, PTL
===============================================================================
