----------------------------- MODULE MailingProofs -----------------------------
(***************************************************************************)
(* NotificationDelivery.tla implements Mailing.tla, for any number of      *)
(* users, requests, queue workers and notifications: each of its steps is  *)
(* one step of the abstract specification or changes no status.            *)
(***************************************************************************)
EXTENDS NotificationDeliveryProofs

(* What was given up waits nowhere, and no job holds it but one that has   *)
(* sent it.                                                                *)
Forgotten(n) ==
  n \in lost => /\ rows[n].state # "unused" /\ NotWaiting(n)
                /\ sent[n] = 0 => HeldBy(n) = {}

RInv == IInv /\ \A n \in Notes : Forgotten(n)

-------------------------------------------------------------------------------
(* When the status of one notification stays as it was.                    *)
New(n) == rows[n].state \in {"unused", "pending"}
Kept(n) == rows[n].state = "live" \/ HeldBy(n) # {}

LEMMA StatusIs ==
  /\ \A n \in Notes : Status[n] = IF sent[n] > 0 THEN "emailed"
                                  ELSE IF n \in lost THEN "lost"
                                  ELSE IF n \in quiet THEN "seen"
                                  ELSE IF New(n) THEN "none"
                                  ELSE IF Kept(n) THEN "due" ELSE "void"
  /\ \A n \in Notes : Status'[n] = IF sent'[n] > 0 THEN "emailed"
                                   ELSE IF n \in lost' THEN "lost"
                                   ELSE IF n \in quiet' THEN "seen"
                                   ELSE IF New(n)' THEN "none"
                                   ELSE IF Kept(n)' THEN "due" ELSE "void"
<1>1. \A n \in Notes : /\ n \in Held <=> HeldBy(n) # {}
                       /\ (n \in Held)' <=> HeldBy(n)' # {}
  BY DEF Held, HeldBy
<1>2. QED
  BY <1>1 DEF Status, New, Kept

(* No e-mail, nothing lost or dealt with, and the record as new, as live or*)
(* held as before.                                                         *)
Alike(n) ==
  /\ sent'[n] = sent[n]
  /\ n \in lost' <=> n \in lost
  /\ n \in quiet' <=> n \in quiet
  /\ New(n)' <=> New(n)
  /\ Kept(n)' <=> Kept(n)

LEMMA AlikeIsSame == \A n \in Notes : Alike(n) => Status'[n] = Status[n]
  BY StatusIs DEF Alike

(* These notes move from one status to another, and no others do.          *)
LEMMA Moved ==
  ASSUME NEW N, NEW from, NEW to,
         \A n \in N : n \in Notes /\ Status[n] \in from /\ Status'[n] = to,
         \A n \in Notes \ N : Status'[n] = Status[n]
  PROVE  Mail!Move(N, from, to)
<1>1. Status' = [n \in Notes |-> Status'[n]]
  BY DEF Status
<1>2. \A n \in Notes : Status'[n] = IF n \in N THEN to ELSE Status[n]
  OBVIOUS
<1>3. [n \in Notes |-> Status'[n]] = [n \in Notes |-> IF n \in N THEN to ELSE Status[n]]
  BY <1>2
<1>4. QED
  BY <1>1, <1>3 DEF Mail!Move

LEMMA NobodyMoved ==
  ASSUME \A n \in Notes : Status'[n] = Status[n]
  PROVE  UNCHANGED Status
<1>1. Status = [n \in Notes |-> Status[n]] /\ Status' = [n \in Notes |-> Status'[n]]
  BY DEF Status
<1>2. [n \in Notes |-> Status'[n]] = [n \in Notes |-> Status[n]]
  OBVIOUS
<1>3. QED
  BY <1>1, <1>2

(* A step of the abstract specification, or none.                          *)
MailStep == [Mail!Next]_Status

-------------------------------------------------------------------------------
(* What the steps do to what was given up.                                 *)

(* Nothing new is lost, and nothing lost comes back.                       *)
NotRecalled(n) ==
  /\ n \in lost' => n \in lost
  /\ rows'[n].state = "unused" => rows[n].state = "unused"
  /\ n \in lost => /\ Unqueued(n)' \subseteq Unqueued(n)
                   /\ Queued(n)' \subseteq Queued(n)
                   /\ Scheduled(n)' \subseteq Scheduled(n)
                   /\ HeldBy(n)' \subseteq HeldBy(n)
                   /\ sent'[n] = 0 => sent[n] = 0

LEMMA NotRecalledIsForgotten ==
  ASSUME NEW n \in Notes, Forgotten(n), NotRecalled(n)
  PROVE  Forgotten(n)'
  BY DEF Forgotten, NotRecalled, NotWaiting

(* A request's step that creates no row.                                   *)
LEMMA RequestedIsForgotten ==
  ASSUME RInv, NEW p \in Requests, NEW r, Requested(p, r), r.unqueued = {},
         NEW n \in Notes, rows'[n].state = "unused" => rows[n].state = "unused"
  PROVE  Forgotten(n)'
<1>1. /\ Unqueued(n)' = Unqueued(n) \ {p} /\ Queued(n)' = Queued(n)
      /\ Scheduled(n)' = Scheduled(n) /\ HeldBy(n)' = HeldBy(n)
  BY RequestedPlaces DEF RInv, IInv, Shape
<1>2. NotRecalled(n)
  BY <1>1 DEF Requested, NotRecalled
<1>3. QED
  BY <1>2, NotRecalledIsForgotten DEF RInv

(* A request starts or fails before it created a row.                      *)
LEMMA RestartMails ==
  ASSUME RInv, NEW p \in Requests, NEW r, Requested(p, r), r.unqueued = {},
         UNCHANGED rows
  PROVE  (\A n \in Notes : Forgotten(n)') /\ MailStep
<1>1. \A n \in Notes : Forgotten(n)'
  BY RequestedIsForgotten
<1>2. ASSUME NEW n \in Notes PROVE Alike(n)
  <2>1. HeldBy(n)' = HeldBy(n)
    BY RequestedPlaces DEF RInv, IInv, Shape
  <2>2. QED
    BY <2>1 DEF Requested, Alike, New, Kept
<1>3. UNCHANGED Status
  BY <1>2, AlikeIsSame, NobodyMoved
<1>4. QED
  BY <1>1, <1>3 DEF MailStep

LEMMA StartMails ==
  ASSUME RInv, NEW p \in Requests, NEW kind, NEW about, Start(p, kind, about)
  PROVE  (\A n \in Notes : Forgotten(n)') /\ MailStep
<1> DEFINE r == [Idle EXCEPT !.kind = kind, !.to = DOMAIN about, !.about = about]
<1>1. r.unqueued = {} /\ Requested(p, r) /\ UNCHANGED rows
  BY DEF Start, Requested, Idle
<1>2. QED
  BY <1>1, RestartMails

LEMMA NotifyMails ==
  ASSUME RInv, NEW p \in Requests, Notify(p) \/ InsertFails(p)
  PROVE  (\A n \in Notes : Forgotten(n)') /\ MailStep
<1>1. CASE InsertFails(p)
  <2>1. Requested(p, Idle) /\ UNCHANGED rows
    BY <1>1 DEF InsertFails, Requested
  <2>2. QED
    BY <2>1, NothingIsTyped, RestartMails
<1>2. CASE Notify(p)
  BY <1>2, StartMails
     DEF Notify, NewSubmission, DeadlineChanged, AssignmentCreated, NewsCreated
<1>3. QED
  BY <1>1, <1>2


LEMMA InsertMails ==
  ASSUME RInv, NEW p \in Requests, Insert(p)
  PROVE  (\A n \in Notes : Forgotten(n)') /\ MailStep
<1>1. PICK k \in 0..MaxNotes, c \in Nat, to \in SUBSET request[p].to : Inserts(p, k, c, to)
  BY InsertEffect DEF RInv
<1> DEFINE ids == k + 1 .. k + c
           r == [request[p] EXCEPT !.to = to, !.unqueued = ids, !.mine = @ \union ids]
<1>2. Requested(p, r) /\ \A n \in ids : n \in Notes => rows[n].state = "unused"
  BY <1>1, NotesAreNumbers DEF Inserts, NumberedTo
<1>3. /\ \A n \in Notes \intersect ids : rows'[n].state = "pending"
      /\ \A n \in Notes \ ids : rows'[n] = rows[n]
  BY <1>1 DEF Inserts
<1>4. r.unqueued = ids
  BY DEF RInv, IInv, Shape, Types, Request
<1> HIDE DEF ids, r
<1>5. ASSUME NEW n \in Notes
      PROVE  /\ Unqueued(n)' = IF n \in ids THEN Unqueued(n) \union {p}
                               ELSE Unqueued(n) \ {p}
             /\ Queued(n)' = Queued(n) /\ Scheduled(n)' = Scheduled(n)
             /\ HeldBy(n)' = HeldBy(n)
             /\ UNCHANGED <<sent, lost, quiet>>
  BY <1>2, <1>4, RequestedPlaces DEF RInv, IInv, Shape, Requested
<1>6. ASSUME NEW n \in Notes PROVE Forgotten(n)'
  <2>1. CASE n \in ids
    BY <1>2, <1>5, <2>1 DEF RInv, Forgotten
  <2>2. CASE n \notin ids
    <3>1. NotRecalled(n)
      BY <1>3, <1>5, <2>2 DEF NotRecalled
    <3>2. QED
      BY <3>1, NotRecalledIsForgotten DEF RInv
  <2>3. QED
    BY <2>1, <2>2
<1>7. ASSUME NEW n \in Notes PROVE Alike(n)
  BY <1>2, <1>3, <1>5 DEF Alike, New, Kept
<1>8. UNCHANGED Status
  BY <1>7, AlikeIsSame, NobodyMoved
<1>9. QED
  BY <1>6, <1>8 DEF MailStep

(* The ids of a job go from one queue to another.                          *)
LEMMA PassedOnMails ==
  ASSUME RInv, UNCHANGED <<rows, job, sent, lost, quiet>>,
         \A n \in Notes : n \in lost => NotWaiting(n)'
  PROVE  (\A n \in Notes : Forgotten(n)') /\ MailStep
<1>1. ASSUME NEW n \in Notes PROVE Forgotten(n)' /\ Alike(n)
  <2>1. HeldBy(n)' = HeldBy(n)
    BY DEF HeldBy
  <2>2. QED
    BY <2>1 DEF RInv, Forgotten, Alike, New, Kept
<1>2. UNCHANGED Status
  BY <1>1, AlikeIsSame, NobodyMoved
<1>3. QED
  BY <1>1, <1>2 DEF MailStep

LEMMA EnqueueMails ==
  ASSUME RInv, NEW p \in Requests, Enqueue(p)
  PROVE  (\A n \in Notes : Forgotten(n)') /\ MailStep
<1> DEFINE ids == request[p].unqueued
<1>1. /\ \/ scheduled' = scheduled \union {ids} /\ queue' = queue
         \/ queue' = Append(queue, ids) /\ scheduled' = scheduled
      /\ request' = [request EXCEPT ![p].unqueued = {}]
      /\ UNCHANGED <<rows, job, sent, lost, quiet>>
  BY DEF Enqueue, JobIds
<1>2. ids \in SUBSET Notes /\ \A q \in Requests : request'[q].unqueued \subseteq request[q].unqueued
  BY <1>1 DEF RInv, IInv, Shape, Types, Request
<1>3. ASSUME NEW n \in Notes, n \in lost PROVE NotWaiting(n)'
  <2>1. NotWaiting(n) /\ Unqueued(n)' = {} /\ n \notin ids
    BY <1>2, <1>3 DEF RInv, Forgotten, NotWaiting, Unqueued
  <2>2. Scheduled(n)' = {}
    BY <1>1, <2>1 DEF NotWaiting, Scheduled
  <2>3. Queued(n)' = Queued(n)
    <3>1. CASE queue' = Append(queue, ids)
      BY <1>2, <2>1, <3>1, AppendedPlaces DEF RInv, IInv, Shape
    <3>2. CASE queue' = queue
      BY <3>2 DEF Queued
    <3>3. QED
      BY <1>1, <3>1, <3>2
  <2>4. QED
    BY <2>1, <2>2, <2>3 DEF NotWaiting
<1>4. QED
  BY <1>1, <1>3, PassedOnMails

LEMMA DueMails ==
  ASSUME RInv, NEW ids \in scheduled, Due(ids)
  PROVE  (\A n \in Notes : Forgotten(n)') /\ MailStep
<1>1. /\ ids \in SUBSET Notes
      /\ scheduled' = scheduled \ {ids} /\ queue' = Append(queue, ids)
      /\ UNCHANGED <<rows, request, job, sent, lost, quiet>>
  BY DEF RInv, IInv, Shape, Types, Due
<1>2. ASSUME NEW n \in Notes, n \in lost PROVE NotWaiting(n)'
  <2>1. NotWaiting(n) /\ Unqueued(n)' = {} /\ Scheduled(n)' = {} /\ n \notin ids
    BY <1>1, <1>2 DEF RInv, Forgotten, NotWaiting, Unqueued, Scheduled
  <2>2. Queued(n)' = Queued(n)
    BY <1>1, <2>1, AppendedPlaces DEF RInv, IInv, Shape
  <2>3. QED
    BY <2>1, <2>2 DEF NotWaiting
<1>3. QED
  BY <1>1, <1>2, PassedOnMails

(* What a request created becomes due together, or is taken back together: *)
(* all of it but what a job has already missed.                            *)
LEMMA SettledMails ==
  ASSUME RInv, NEW p \in Requests, NEW state \in {"live", "deleted"},
         rows' = [n \in Notes |-> IF n \in request[p].mine
                                  THEN [rows[n] EXCEPT !.state = state] ELSE rows[n]],
         Requested(p, Idle)
  PROVE  /\ \A n \in Notes : Forgotten(n)'
         /\ \E N \in SUBSET Notes :
              Mail!Move(N, {"none"}, IF state = "live" THEN "due" ELSE "void")
<1> DEFINE mine == request[p].mine
           N == {n \in mine : Status[n] = "none"}
           to == IF state = "live" THEN "due" ELSE "void"
<1>1. /\ mine \subseteq Notes
      /\ \A n \in mine : rows[n].state = "pending" /\ HeldBy(n) = {} /\ n \notin quiet
      /\ \A n \in mine : rows'[n].state = state
      /\ \A n \in Notes \ mine : rows'[n] = rows[n]
  <2>1. mine \subseteq Notes /\ \A n \in mine : rows[n].state = "pending"
    BY DEF RInv, IInv, Shape, Types, Uncommitted, Request
  <2>2. \A n \in mine : HeldBy(n) = {} /\ n \notin quiet
    BY <2>1 DEF RInv, IInv, Shape, Uncommitted, Traced, LeftAlone, HeldBy
  <2>3. \A n \in mine : rows'[n].state = state
    BY <2>1 DEF RInv, IInv, Shape, Types, RowType
  <2>4. QED
    BY <2>1, <2>2, <2>3
<1>2. /\ \A n \in Notes : HeldBy(n)' = HeldBy(n)
      /\ UNCHANGED <<sent, lost, quiet>>
  BY RequestedPlaces DEF RInv, IInv, Shape, Requested
<1> HIDE DEF mine
<1>3. ASSUME NEW n \in Notes PROVE Forgotten(n)'
  <2>1. rows'[n].state = "unused" => rows[n].state = "unused"
    BY <1>1
  <2>2. QED
    BY <2>1, NothingIsTyped, RequestedIsForgotten
<1>4. ASSUME NEW n \in N PROVE Status'[n] = to
  <2>1. /\ n \in mine /\ n \in Notes /\ rows'[n].state = state
        /\ n \notin quiet /\ HeldBy(n)' = {} /\ ~(sent[n] > 0) /\ n \notin lost
    BY <1>1, <1>2, <1>4, StatusIs
  <2>2. QED
    BY <1>2, <2>1, StatusIs DEF New, Kept
<1>5. ASSUME NEW n \in Notes \ N PROVE Status'[n] = Status[n]
  <2>1. CASE n \in mine
    BY <1>1, <1>2, <1>5, <2>1, StatusIs DEF New
  <2>2. CASE n \notin mine
    BY <1>1, <1>2, <1>5, <2>2, AlikeIsSame DEF Alike, New, Kept
  <2>3. QED
    BY <2>1, <2>2
<1>6. Mail!Move(N, {"none"}, to)
  BY <1>1, <1>4, <1>5, Moved
<1>7. N \in SUBSET Notes
  BY <1>1
<1>8. QED
  BY <1>3, <1>6, <1>7

LEMMA CommitMails ==
  ASSUME RInv, NEW p \in Requests, Commit(p) \/ Rollback(p)
  PROVE  (\A n \in Notes : Forgotten(n)') /\ MailStep
<1>1. Requested(p, Idle)
  BY DEF Commit, Rollback, Requested
<1>2. CASE Commit(p)
  <2>1. /\ \A n \in Notes : Forgotten(n)'
        /\ \E N \in SUBSET Notes : Mail!Move(N, {"none"}, "due")
    BY <1>1, <1>2, SettledMails DEF Commit
  <2>2. QED
    BY <2>1 DEF MailStep, Mail!Next, Mail!Announce
<1>3. CASE Rollback(p)
  <2>1. /\ \A n \in Notes : Forgotten(n)'
        /\ \E N \in SUBSET Notes : Mail!Move(N, {"none"}, "void")
    BY <1>1, <1>3, SettledMails DEF Rollback
  <2>2. QED
    BY <2>1 DEF MailStep, Mail!Next, Mail!TakeBack
<1>4. QED
  BY <1>2, <1>3

-------------------------------------------------------------------------------
(* The queue workers.                                                      *)

(* What a job does not find yet is given up, what it finds stays due.      *)
LEMMA TakeMails ==
  ASSUME RInv, NEW w \in Workers, Take(w)
  PROVE  (\A n \in Notes : Forgotten(n)') /\ MailStep
<1> DEFINE ids == Head(queue)
           missed == {n \in ids : rows[n].state = "pending"}
           N == {n \in missed : Status[n] = "none"}
<1>1. /\ ids \subseteq Notes /\ queue # <<>> /\ queue' = Tail(queue)
      /\ lost' = lost \union missed
      /\ UNCHANGED <<rows, request, scheduled, sent, quiet>>
  BY HeadTailProperties DEF RInv, IInv, Shape, Types, Take
<1>2. job[w] = NoJob /\ job' = [job EXCEPT ![w].copies = [n \in ToNotify(ids) |-> rows[n]]]
  BY DEF Take
<1>3. ASSUME NEW n \in Notes
      PROVE  /\ HeldBy(n) \subseteq HeldBy(n)'
             /\ n \notin ToNotify(ids) => HeldBy(n)' = HeldBy(n)
  BY <1>2, NothingIsTyped DEF RInv, IInv, Shape, Types, Job, HeldBy
<1>4. \A n \in ToNotify(ids) : n \in ids /\ rows[n].state = "live"
  BY DEF ToNotify, Live
<1> HIDE DEF ids
<1>5. ASSUME NEW n \in Notes
      PROVE  /\ Unqueued(n)' = Unqueued(n) /\ Scheduled(n)' = Scheduled(n)
             /\ Queued(n)' # {} => Queued(n) # {}
             /\ n \in ids => Queued(n) # {}
             /\ n \in ids => Queued(n)' = {}
  <2>1. /\ Queued(n)' # {} => Queued(n) # {}
        /\ n \in ids => Queued(n) # {}
        /\ AtMostOne(Queued(n)) => (n \in ids => Queued(n)' = {})
    BY <1>1, PoppedPlaces DEF RInv, IInv, Shape, ids
  <2>2. AtMostOne(Queued(n))
    BY DEF RInv, IInv, Traced, Once
  <2>3. QED
    BY <1>1, <2>1, <2>2 DEF Unqueued, Scheduled
<1>6. ASSUME NEW n \in Notes, n \in lost' PROVE Forgotten(n)'
  <2>1. CASE n \in lost
    <3>1. n \notin ids
      BY <1>5, <2>1 DEF RInv, Forgotten, NotWaiting
    <3>2. QED
      BY <1>1, <1>3, <1>4, <1>5, <2>1, <3>1 DEF RInv, Forgotten, NotWaiting
  <2>2. CASE n \in missed
    <3>1. n \in ids /\ rows[n].state = "pending" /\ n \notin ToNotify(ids)
      BY <1>4, <2>2
    <3>2. HeldBy(n)' = {}
      BY <1>3, <3>1 DEF RInv, IInv, Shape, Uncommitted, HeldBy
    <3>3. Unqueued(n) = {} /\ Scheduled(n) = {}
      BY <1>5, <3>1 DEF RInv, IInv, Traced, Once
    <3>4. NotWaiting(n)'
      BY <1>5, <3>1, <3>3 DEF NotWaiting
    <3>5. QED
      BY <1>1, <3>1, <3>2, <3>4 DEF Forgotten
  <2>3. QED
    BY <1>1, <1>6, <2>1, <2>2
<1>7. ASSUME NEW n \in N PROVE Status'[n] = "lost"
  <2>1. n \in Notes /\ n \in missed /\ ~(sent[n] > 0)
    BY <1>1, StatusIs
  <2>2. QED
    BY <1>1, <2>1, StatusIs
<1>8. ASSUME NEW n \in Notes \ N PROVE Status'[n] = Status[n]
  <2>1. CASE n \in missed
    <3>1. rows[n].state = "pending" /\ n \notin quiet
      BY <2>1 DEF RInv, IInv, Traced, LeftAlone
    <3>2. QED
      BY <1>1, <1>8, <2>1, <3>1, StatusIs DEF New
  <2>2. CASE n \notin missed
    <3>1. Kept(n)' <=> Kept(n)
      BY <1>1, <1>3, <1>4 DEF Kept
    <3>2. QED
      BY <1>1, <2>2, <3>1, AlikeIsSame DEF Alike, New
  <2>3. QED
    BY <2>1, <2>2
<1>9. Mail!Move(N, {"none", "due"}, "lost")
  BY <1>1, <1>7, <1>8, Moved
<1>10. N \in SUBSET Notes
  BY <1>1
<1>11. \A n \in Notes : Forgotten(n)'
  BY <1>6 DEF Forgotten
<1>12. QED
  BY <1>9, <1>10, <1>11 DEF MailStep, Mail!Next, Mail!GiveUp

(* What a job holds and has not sent is due.                               *)
LEMMA HeldIsDue ==
  ASSUME RInv, NEW w \in Workers, NEW n \in DOMAIN job[w].copies
  PROVE  /\ n \in Notes /\ w \in HeldBy(n) /\ HeldBy(n) \subseteq {w}
         /\ n \notin quiet /\ NotWaiting(n)
         /\ rows[n].state \notin {"unused", "pending"}
         /\ sent[n] \in {0, 1}
         /\ sent[n] = 0 => n \notin lost /\ Status[n] = "due" /\ job[w].saving # n
         /\ sent[n] = 1 => job[w].saving = n
<1>1. n \in Notes /\ w \in HeldBy(n)
  BY JobsAreTyped DEF RInv, IInv, Shape, HeldBy
<1>2. HeldBy(n) \subseteq {w} /\ n \notin quiet /\ NotWaiting(n)
  BY <1>1 DEF RInv, IInv, Traced, Once, AtMostOne, LeftAlone
<1>3. rows[n].state \notin {"unused", "pending"}
  BY <1>1 DEF RInv, IInv, Shape, Uncommitted, Traced, Accounted
<1>4. /\ sent[n] \in {0, 1}
      /\ job[w].saving = n => sent[n] = 1
      /\ sent[n] = 1 => job[w].saving = n
  <2>1. Accounted(n) /\ sent[n] \in Nat
    BY <1>1 DEF RInv, IInv, Shape, Types, Traced
  <2>2. QED
    BY <1>1, <2>1 DEF Accounted
<1>5. sent[n] = 0 => n \notin lost
  BY <1>1 DEF RInv, Forgotten
<1>6. sent[n] = 0 => Status[n] = "due"
  BY <1>1, <1>2, <1>3, <1>5, StatusIs DEF New, Kept
<1>7. QED
  BY <1>1, <1>2, <1>3, <1>4, <1>5, <1>6

LEMMA SendMails ==
  ASSUME RInv, NEW w \in Workers, NEW n \in Notes, Send(w, n)
  PROVE  (\A m \in Notes : Forgotten(m)') /\ MailStep
<1>1. /\ n \in DOMAIN job[w].copies /\ job[w].saving = 0
      /\ sent' = [sent EXCEPT ![n] = @ + 1] /\ job' = [job EXCEPT ![w].saving = n]
      /\ UNCHANGED <<rows, request, queue, scheduled, lost, quiet>>
  BY DEF Send
<1>2. sent[n] = 0 /\ Status[n] = "due" /\ n \notin lost
  BY <1>1, HeldIsDue, NotesAreNumbers
<1>3. ASSUME NEW m \in Notes
      PROVE  /\ HeldBy(m)' = HeldBy(m) /\ Unqueued(m)' = Unqueued(m)
             /\ Queued(m)' = Queued(m) /\ Scheduled(m)' = Scheduled(m)
             /\ m # n => sent'[m] = sent[m]
             /\ sent'[n] = 1
  BY <1>1, <1>2 DEF RInv, IInv, Shape, Types, Job, HeldBy, Unqueued, Queued, Scheduled
<1>4. ASSUME NEW m \in Notes PROVE Forgotten(m)'
  BY <1>1, <1>2, <1>3 DEF RInv, Forgotten, NotWaiting
<1>5. Status'[n] = "emailed"
  BY <1>3, StatusIs
<1>6. ASSUME NEW m \in Notes \ {n} PROVE Status'[m] = Status[m]
  BY <1>1, <1>3, AlikeIsSame DEF Alike, New, Kept
<1>7. Mail!Move({n}, {"due"}, "emailed")
  BY <1>2, <1>5, <1>6, Moved
<1>8. QED
  BY <1>4, <1>7 DEF MailStep, Mail!Next, Mail!Email

(* A job drops some of what it holds: what it had not sent is given up.    *)
LEMMA DropsMails ==
  ASSUME RInv, NEW w \in Workers, NEW j, Worked(w, j),
         NEW D \in SUBSET DOMAIN job[w].copies,
         DOMAIN j.copies = DOMAIN job[w].copies \ D,
         UNCHANGED <<rows, queue, sent>>, lost' = lost \union D
  PROVE  (\A n \in Notes : Forgotten(n)') /\ MailStep
<1> DEFINE N == {n \in D : sent[n] = 0}
<1>1. ASSUME NEW n \in Notes
      PROVE  /\ HeldBy(n)' = IF n \in D THEN HeldBy(n) \ {w} ELSE HeldBy(n)
             /\ Unqueued(n)' = Unqueued(n) /\ Queued(n)' = Queued(n)
             /\ Scheduled(n)' = Scheduled(n) /\ UNCHANGED quiet
  <2>1. /\ HeldBy(n)' = IF n \in DOMAIN j.copies THEN HeldBy(n) \union {w}
                        ELSE HeldBy(n) \ {w}
        /\ n \in DOMAIN job[w].copies <=> w \in HeldBy(n)
        /\ Unqueued(n)' = Unqueued(n) /\ Scheduled(n)' = Scheduled(n)
    BY WorkedPlaces DEF RInv, IInv, Shape
  <2>2. QED
    BY <2>1 DEF Worked, Queued
<1>2. ASSUME NEW n \in D
      PROVE  /\ n \in Notes /\ HeldBy(n)' = {} /\ NotWaiting(n)
             /\ rows[n].state # "unused" /\ n \notin quiet /\ sent[n] \in {0, 1}
             /\ sent[n] = 0 => Status[n] = "due"
  BY <1>1, HeldIsDue
<1>3. ASSUME NEW n \in Notes PROVE Forgotten(n)'
  <2>1. CASE n \in D
    BY <1>1, <1>2, <2>1 DEF Forgotten, NotWaiting
  <2>2. CASE n \notin D
    BY <1>1, <2>2 DEF RInv, Forgotten, NotWaiting
  <2>3. QED
    BY <2>1, <2>2
<1>4. ASSUME NEW n \in N PROVE n \in Notes /\ Status[n] = "due" /\ Status'[n] = "lost"
  BY <1>2, StatusIs
<1>5. ASSUME NEW n \in Notes \ N PROVE Status'[n] = Status[n]
  <2>1. CASE n \in D
    BY <1>2, <1>5, <2>1, StatusIs
  <2>2. CASE n \notin D
    BY <1>1, <2>2, AlikeIsSame DEF Alike, New, Kept
  <2>3. QED
    BY <2>1, <2>2
<1>6. Mail!Move(N, {"none", "due"}, "lost")
  BY <1>4, <1>5, Moved
<1>7. N \in SUBSET Notes
  BY <1>2
<1>8. QED
  BY <1>3, <1>6, <1>7 DEF MailStep, Mail!Next, Mail!GiveUp

LEMMA SendFailsMails ==
  ASSUME RInv, NEW w \in Workers, NEW n \in Notes, SendFails(w, n)
  PROVE  (\A m \in Notes : Forgotten(m)') /\ MailStep
<1>1. DOMAIN Without(w, n).copies = DOMAIN job[w].copies \ {n}
  BY WithoutIsTyped DEF RInv, IInv, Shape
<1>2. /\ Worked(w, Without(w, n)) /\ UNCHANGED <<rows, queue, sent>>
      /\ {n} \in SUBSET DOMAIN job[w].copies /\ lost' = lost \union {n}
  BY DEF SendFails, Worked
<1>3. QED
  BY <1>1, <1>2, DropsMails

LEMMA AbandonMails ==
  ASSUME RInv, NEW w \in Workers, Abandon(w)
  PROVE  (\A m \in Notes : Forgotten(m)') /\ MailStep
<1> DEFINE D == DOMAIN job[w].copies
<1>1. /\ Worked(w, NoJob) /\ UNCHANGED <<rows, queue, sent>> /\ lost' = lost \union D
  BY DEF Abandon, Worked
<1>2. DOMAIN NoJob.copies = D \ D
  BY NothingIsTyped
<1>3. QED
  BY <1>1, <1>2, DropsMails

(* What is saved was sent: it is e-mailed whatever the record says.        *)
LEMMA SaveMails ==
  ASSUME RInv, NEW w \in Workers, Save(w)
  PROVE  (\A m \in Notes : Forgotten(m)') /\ MailStep
<1> DEFINE n == job[w].saving
           row == [job[w].copies[n] EXCEPT !.notified = TRUE]
<1>1. n \in DOMAIN job[w].copies /\ n \in Notes
  BY JobsAreTyped DEF RInv, IInv, Shape, Uncommitted, Save
<1>2. /\ DOMAIN Without(w, n).copies = DOMAIN job[w].copies \ {n}
      /\ Worked(w, Without(w, n)) /\ UNCHANGED <<queue, sent, lost>>
      /\ rows' = [rows EXCEPT ![n] = row]
  BY WithoutIsTyped DEF Save, Worked, RInv, IInv, Shape
<1>3. row.state = "live" /\ sent[n] = 1
  <2>1. job[w].copies[n] \in Loaded
    BY <1>1, JobsAreTyped DEF RInv, IInv, Shape
  <2>2. QED
    BY <1>1, <2>1, HeldIsDue DEF Loaded, RowType
<1> HIDE DEF row
<1>4. /\ rows'[n].state = "live"
      /\ \A m \in Notes \ {n} : rows'[m] = rows[m]
  BY <1>1, <1>2, <1>3 DEF RInv, IInv, Shape, Types
<1>5. ASSUME NEW m \in Notes
      PROVE  /\ HeldBy(m)' \subseteq HeldBy(m) /\ (m # n => HeldBy(m)' = HeldBy(m))
             /\ Unqueued(m)' = Unqueued(m) /\ Queued(m)' = Queued(m)
             /\ Scheduled(m)' = Scheduled(m) /\ UNCHANGED quiet
  <2>1. /\ HeldBy(m)' = IF m \in DOMAIN Without(w, n).copies THEN HeldBy(m) \union {w}
                        ELSE HeldBy(m) \ {w}
        /\ m \in DOMAIN job[w].copies <=> w \in HeldBy(m)
        /\ Unqueued(m)' = Unqueued(m) /\ Scheduled(m)' = Scheduled(m)
    BY <1>2, WorkedPlaces DEF RInv, IInv, Shape
  <2>2. QED
    BY <1>2, <2>1 DEF Worked, Queued
<1>6. ASSUME NEW m \in Notes PROVE Forgotten(m)'
  <2>1. NotRecalled(m)
    BY <1>2, <1>4, <1>5 DEF NotRecalled
  <2>2. QED
    BY <2>1, NotRecalledIsForgotten DEF RInv
<1>7. ASSUME NEW m \in Notes PROVE Status'[m] = Status[m]
  <2>1. CASE m = n
    BY <1>2, <1>3, <2>1, StatusIs
  <2>2. CASE m # n
    BY <1>2, <1>4, <1>5, <2>2, AlikeIsSame DEF Alike, New, Kept
  <2>3. QED
    BY <2>1, <2>2
<1>8. UNCHANGED Status
  BY <1>7, NobodyMoved
<1>9. QED
  BY <1>6, <1>8 DEF MailStep

-------------------------------------------------------------------------------
(* What is read or deleted before a job loads it is dealt with.            *)
LEMMA MeanwhileMails ==
  ASSUME RInv, Meanwhile
  PROVE  (\A n \in Notes : Forgotten(n)') /\ MailStep
<1> DEFINE N == {n \in quiet' \ quiet : n \notin lost}
<1>1. ASSUME NEW n \in Notes
      PROVE  /\ Unqueued(n)' = Unqueued(n) /\ Queued(n)' = Queued(n)
             /\ Scheduled(n)' = Scheduled(n) /\ HeldBy(n)' = HeldBy(n)
             /\ UNCHANGED <<sent, lost>>
  BY DEF Meanwhile, Unqueued, Queued, Scheduled, HeldBy
<1>2. ASSUME NEW n \in Notes
      PROVE  /\ \/ rows'[n] = rows[n]
                \/ /\ rows[n].state = "live" /\ rows'[n].state \in {"live", "deleted"}
                   /\ sent[n] = 0 /\ HeldBy(n) = {} => n \in quiet'
             /\ n \in quiet' \ quiet => /\ rows[n].state = "live" /\ sent[n] = 0
                                        /\ HeldBy(n) = {}
  BY DEF Meanwhile, Quietens, Live
<1>3. quiet \subseteq quiet' /\ quiet' \subseteq Notes
  BY DEF Meanwhile
<1>4. ASSUME NEW n \in Notes PROVE Forgotten(n)'
  <2>1. NotRecalled(n)
    BY <1>1, <1>2 DEF NotRecalled
  <2>2. QED
    BY <2>1, NotRecalledIsForgotten DEF RInv
<1>5. ASSUME NEW n \in N PROVE n \in Notes /\ Status[n] = "due" /\ Status'[n] = "seen"
  <2>1. n \in Notes /\ rows[n].state = "live" /\ sent[n] = 0 /\ n \notin lost
    BY <1>2, <1>3
  <2>2. QED
    BY <1>1, <1>3, <2>1, StatusIs DEF New, Kept
<1>6. ASSUME NEW n \in Notes \ N PROVE Status'[n] = Status[n]
  <2>1. sent[n] \in Nat
    BY DEF RInv, IInv, Shape, Types
  <2>2. CASE sent[n] > 0 \/ n \in lost \/ n \in quiet
    BY <1>1, <1>3, <1>6, <2>2, StatusIs
  <2>3. CASE ~(sent[n] > 0) /\ n \notin lost /\ n \notin quiet
    <3>1. n \notin quiet' /\ sent[n] = 0
      BY <1>6, <2>1, <2>3
    <3>2. rows'[n] = rows[n] \/ (rows[n].state = "live" /\ HeldBy(n) # {}
                                 /\ rows'[n].state \in {"live", "deleted"})
      BY <1>2, <3>1
    <3>3. Alike(n)
      BY <1>1, <2>3, <3>1, <3>2 DEF Alike, New, Kept
    <3>4. QED
      BY <3>3, AlikeIsSame
  <2>4. QED
    BY <2>2, <2>3
<1>7. Mail!Move(N, {"due"}, "seen")
  BY <1>5, <1>6, Moved
<1>8. N \in SUBSET Notes
  BY <1>3
<1>9. QED
  BY <1>4, <1>7, <1>8 DEF MailStep, Mail!Next, Mail!DealWith

LEMMA StepMails ==
  ASSUME RInv, [Next]_vars
  PROVE  (\A n \in Notes : Forgotten(n)') /\ MailStep
<1>1. ASSUME NEW p \in Requests, Notify(p) \/ Serve(p) \/ Rollback(p)
      PROVE  (\A n \in Notes : Forgotten(n)') /\ MailStep
  BY <1>1, NotifyMails, InsertMails, EnqueueMails, CommitMails DEF Serve
<1>2. ASSUME NEW ids \in scheduled, Due(ids)
      PROVE  (\A n \in Notes : Forgotten(n)') /\ MailStep
  BY <1>2, DueMails
<1>3. ASSUME NEW w \in Workers, Work(w) \/ Die(w)
      PROVE  (\A n \in Notes : Forgotten(n)') /\ MailStep
  BY <1>3, TakeMails, SendMails, SendFailsMails, AbandonMails, SaveMails
     DEF Work, SaveFails, Die
<1>4. CASE Elsewhere
  BY <1>4, ElsewhereIsMeanwhile, MeanwhileMails DEF RInv
<1>5. CASE UNCHANGED vars
  <2>1. UNCHANGED <<rows, job, sent, lost, quiet>> /\ UNCHANGED <<request, queue, scheduled>>
    BY <1>5 DEF vars
  <2>2. \A n \in Notes : n \in lost => NotWaiting(n)'
    BY <2>1 DEF RInv, Forgotten, NotWaiting, Unqueued, Queued, Scheduled
  <2>3. QED
    BY <2>1, <2>2, PassedOnMails
<1>6. QED
  BY <1>1, <1>2, <1>3, <1>4, <1>5 DEF Next

LEMMA NextMails == ASSUME RInv, [Next]_vars PROVE RInv' /\ MailStep
<1>1. IInv'
  BY InvariantNext DEF RInv
<1>2. QED
  BY <1>1, StepMails DEF RInv

LEMMA InitMails == Init => RInv /\ Mail!Init
<1> SUFFICES ASSUME Init PROVE RInv /\ Mail!Init
  OBVIOUS
<1>1. RInv
  BY InvariantInit DEF RInv, Forgotten, Init
<1>2. \A n \in Notes : Status[n] = "none"
  BY StatusIs DEF Init, New, Unused
<1>3. QED
  BY <1>1, <1>2 DEF Mail!Init, Status

(* Requests, the scheduler and any number of queue workers do to each      *)
(* e-mail what Mailing.tla says: committed first, then sent once, or given *)
(* up, or dealt with by its user, and nothing after that.                  *)
THEOREM Refinement == Spec => ImplementsMailing
<1>1. Init => RInv /\ Mail!Init
  BY InitMails
<1>2. RInv /\ [Next]_vars => RInv' /\ [Mail!Next]_Status
  BY NextMails DEF MailStep
<1>3. QED
  BY <1>1, <1>2, PTL DEF Spec, ImplementsMailing, Mail!Spec

(* Nothing is tried again: an e-mail that was given up, sent, read in time *)
(* or taken back stays so for ever, in the jobs as they run                *)
(* (Mailing!SettledIsFinal, through the refinement).                       *)
THEOREM NothingIsTriedAgain == Spec => Mail!SettledIsFinal
<1>1. [Mail!Next]_Status =>
        [\A n \in Notes : Status[n] \notin {"none", "due"} => Status'[n] = Status[n]]_Status
  <2> SUFFICES ASSUME Mail!Next, NEW n \in Notes, Status[n] \notin {"none", "due"}
               PROVE  Status'[n] = Status[n]
    OBVIOUS
  <2>1. ASSUME NEW N, NEW from \in SUBSET {"none", "due"}, NEW to, Mail!Move(N, from, to)
        PROVE  Status'[n] = Status[n]
    BY <2>1 DEF Mail!Move
  <2>2. QED
    BY <2>1 DEF Mail!Next, Mail!Announce, Mail!TakeBack, Mail!DealWith, Mail!GiveUp,
                Mail!Email
<1>2. QED
  BY <1>1, Refinement, PTL DEF ImplementsMailing, Mail!Spec, Mail!SettledIsFinal
===============================================================================
