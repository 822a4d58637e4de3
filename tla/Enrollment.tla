------------------------------ MODULE Enrollment ------------------------------
(***************************************************************************)
(* Concurrent enrollment in one course offering: the requests of           *)
(* CourseEnrollView and CourseUnenrollView, the transactions of            *)
(* EnrollmentService.enroll and .leave, the recount of                     *)
(* Course.learners_count in their post_save signal, and the staff requests *)
(* that save the whole Course row.                                         *)
(*                                                                         *)
(* The database is PostgreSQL at READ COMMITTED: a statement sees what was *)
(* committed when it started plus its own transaction's writes, a row that *)
(* a transaction wrote or selected FOR UPDATE is locked until it ends, and *)
(* a transaction found in a cycle of lock waits is aborted.  Uncommitted   *)
(* writes live in the request (wrote, seen) and reach the tables in        *)
(* Commit.                                                                 *)
(***************************************************************************)
EXTENDS Integers, FiniteSets

CONSTANTS
  Students,    (* students who may enroll in the course                    *)
  Requests,    (* web workers serving a student's enroll or leave request  *)
  Editors,     (* web workers serving a staff request that saves the course*)
  Capacities,  (* capacities the course has, or staff may give it          *)
  NoOne        (* the holder of a free lock, the student of an idle worker  *)

ASSUME StudentsFinite == IsFiniteSet(Students)
ASSUME CapacitiesAreNat == Capacities \subseteq Nat
ASSUME NoOneIsNobody == NoOne \notin Requests \union Students

VARIABLES
  row,             (* student -> the Enrollment row: "absent", "left"
                      (is_deleted=True) or "active" (is_deleted=False)     *)
  capacity,        (* Course.capacity                                      *)
  learners_count,  (* Course.learners_count                                *)
  courseLock,      (* the request whose transaction locked the Course row  *)
  rowLock,         (* student -> the request that locked the row, or that
                      inserted it and holds its unique index entry         *)
  pc,              (* request -> its next step, or its outcome             *)
  stu,             (* request -> the student it is about                   *)
  limited,         (* request -> is_capacity_limited of the Course object
                      it loaded when it began                              *)
  wrote,           (* request -> what its open transaction wrote to stu's
                      row                                                  *)
  seen,            (* request -> the count its UPDATE of learners_count
                      took from the statement's snapshot                   *)
  edit             (* editor -> the Course columns it loaded               *)

tables == <<row, capacity, learners_count>>
locks  == <<courseLock, rowLock>>
local  == <<stu, limited>>
vars   == <<tables, locks, pc, local, wrote, seen, edit>>

RowStates == {"absent", "left", "active"}
Steps     == {"get_or_create", "lock_course", "activate", "leave_update",
              "recount", "write_count", "commit"}
Outcomes  == {"no_places", "already", "full", "done", "not_found", "aborted"}
Counts    == 0..Cardinality(Students)
Loaded    == [capacity : Nat, learners_count : Counts, open : BOOLEAN]
NoEdit    == [capacity |-> 0, learners_count |-> 0, open |-> FALSE]

-------------------------------------------------------------------------------
(* The rows with is_deleted=False that a new statement of anybody sees.    *)
Active == {s \in Students : row[s] = "active"}

(* Mutant: the count is taken outside the transaction.                     *)
ActiveSeenFromOutside(r) == Active

(* The same, seen from inside r's transaction: with its own write.         *)
ActiveSeenBy(r) ==
  CASE wrote[r] = "active" -> Active \union {stu[r]}
    [] wrote[r] = "left"   -> Active \ {stu[r]}
    [] OTHER               -> Active

Go(r, from, to) ==
  /\ pc[r] = from
  /\ pc' = [pc EXCEPT ![r] = to]

(* The end of r's transaction: every lock it holds is free again.          *)
Release(r) ==
  /\ courseLock' = IF courseLock = r THEN NoOne ELSE courseLock
  /\ rowLock' = [s \in Students |-> IF rowLock[s] = r THEN NoOne ELSE rowLock[s]]
  /\ wrote' = [wrote EXCEPT ![r] = "nothing"]
  /\ seen' = [seen EXCEPT ![r] = 0]

(* Mutant: the exception is caught inside the atomic block, which stays    *)
(* open.                                                                   *)
RollbackForgotten(r, from, outcome) ==
  /\ Go(r, from, outcome)
  /\ UNCHANGED <<tables, locks, wrote, seen, local, edit>>

(* An exception leaves the atomic block: nothing r wrote survives.         *)
Rollback(r, from, outcome) ==
  /\ Go(r, from, outcome)
  /\ Release(r)
  /\ UNCHANGED <<tables, local, edit>>

RowFreeFor(r) == rowLock[stu[r]] \in {NoOne, r}

LockRow(r) == rowLock' = [rowLock EXCEPT ![stu[r]] = r]

-------------------------------------------------------------------------------
(* Initially nobody is served, the course is not overbooked and the count  *)
(* is right.                                                               *)
Init ==
  /\ row \in [Students -> RowStates]
  /\ capacity \in Capacities
  /\ capacity > 0 => Cardinality(Active) <= capacity
  /\ learners_count = Cardinality(Active)
  /\ courseLock = NoOne
  /\ rowLock = [s \in Students |-> NoOne]
  /\ pc = [r \in Requests |-> "idle"]
  /\ stu = [r \in Requests |-> NoOne]
  /\ limited = [r \in Requests |-> FALSE]
  /\ wrote = [r \in Requests |-> "nothing"]
  /\ seen = [r \in Requests |-> 0]
  /\ edit = [e \in Editors |-> NoEdit]

(***************************************************************************)
(* The enroll request.                                                     *)
(***************************************************************************)

(* Course.places_left of the Course object the view has just loaded.       *)
NoPlacesLeft == capacity > 0 /\ learners_count >= capacity

(* The view loads the course and checks the enroll_in_course permission on *)
(* the cached learners_count.                                              *)
BeginEnroll(r, s) ==
  /\ Go(r, "idle", IF NoPlacesLeft THEN "no_places" ELSE "get_or_create")
  /\ stu' = [stu EXCEPT ![r] = s]
  /\ limited' = [limited EXCEPT ![r] = capacity > 0]
  /\ UNCHANGED <<tables, locks, wrote, seen, edit>>

(* Mutant: the course is never locked.                                     *)
NeverLock(r) == "activate"

(* What follows get_or_create: the course lock only for a limited course.  *)
AfterGet(r) == IF limited[r] THEN "lock_course" ELSE "activate"

(* The row exists and is inactive: nothing is written or locked yet.       *)
GetRow(r) ==
  /\ Go(r, "get_or_create", AfterGet(r))
  /\ row[stu[r]] = "left"
  /\ UNCHANGED <<tables, locks, local, wrote, seen, edit>>

(* No row: INSERT with is_deleted=True.  The unique index makes a second   *)
(* INSERT for the student wait until the first transaction ends.           *)
CreateRow(r) ==
  /\ Go(r, "get_or_create", AfterGet(r))
  /\ row[stu[r]] = "absent"
  /\ RowFreeFor(r)
  /\ LockRow(r)
  /\ wrote' = [wrote EXCEPT ![r] = "left"]
  /\ UNCHANGED <<tables, courseLock, local, seen, edit>>

(* if not enrollment.is_deleted: raise AlreadyEnrolled                     *)
AlreadyEnrolled(r) ==
  /\ Rollback(r, "get_or_create", "already")
  /\ row[stu[r]] = "active"

(* Mutant: a lock that several transactions may hold (FOR SHARE).          *)
LockCourseShared(r) ==
  /\ Go(r, "lock_course", "activate")
  /\ courseLock' = r
  /\ UNCHANGED <<tables, rowLock, local, wrote, seen, edit>>

(* Course.objects.select_for_update()                                      *)
LockCourse(r) ==
  /\ courseLock = NoOne
  /\ Go(r, "lock_course", "activate")
  /\ courseLock' = r
  /\ UNCHANGED <<tables, rowLock, local, wrote, seen, edit>>

(* Mutant: capacity >= learners_count.                                     *)
CanActivateOneMore(r) ==
  /\ row[stu[r]] # "active"
  /\ limited[r] => capacity >= Cardinality(Active)

(* The filters of the UPDATE that activates the row.                       *)
CanActivate(r) ==
  /\ row[stu[r]] # "active"
  /\ limited[r] => capacity > Cardinality(Active)

Activate(r) ==
  /\ Go(r, "activate", "recount")
  /\ RowFreeFor(r)
  /\ CanActivate(r)
  /\ LockRow(r)
  /\ wrote' = [wrote EXCEPT ![r] = "active"]
  /\ UNCHANGED <<tables, courseLock, local, seen, edit>>

(* No row matched (a statement waits for a row only if it matches) and the *)
(* course is limited: raise CourseCapacityFull.                            *)
CapacityFull(r) ==
  /\ Rollback(r, "activate", "full")
  /\ ~CanActivate(r)
  /\ limited[r]

(* No row matched on an unlimited course: a concurrent request enrolled    *)
(* the student; enroll() returns as if it had succeeded.                   *)
NothingToActivate(r) ==
  /\ Rollback(r, "activate", "done")
  /\ ~CanActivate(r)
  /\ ~limited[r]

(***************************************************************************)
(* The leave request.                                                      *)
(***************************************************************************)

(* get_object_or_404(Enrollment.active...), outside any transaction.       *)
BeginLeave(r, s) ==
  /\ Go(r, "idle", IF row[s] = "active" THEN "leave_update" ELSE "not_found")
  /\ stu' = [stu EXCEPT ![r] = s]
  /\ UNCHANGED <<tables, locks, limited, wrote, seen, edit>>

(* enrollment.save(update_fields=['is_deleted', ...]): an UPDATE by primary*)
(* key, whatever the row has become since it was loaded.                   *)
LeaveUpdate(r) ==
  /\ Go(r, "leave_update", "recount")
  /\ RowFreeFor(r)
  /\ LockRow(r)
  /\ wrote' = [wrote EXCEPT ![r] = "left"]
  /\ UNCHANGED <<tables, courseLock, local, seen, edit>>

(***************************************************************************)
(* The post_save signal compute_course_learners_count and the commit.      *)
(***************************************************************************)

(* UPDATE courses_course SET learners_count = (SELECT count...): the       *)
(* subquery is evaluated on the snapshot taken when the statement starts...*)
Recount(r) ==
  /\ Go(r, "recount", "write_count")
  /\ seen' = [seen EXCEPT ![r] = Cardinality(ActiveSeenBy(r))]
  /\ UNCHANGED <<tables, locks, local, wrote, edit>>

(* ...and written once the Course row is free, however long that takes.    *)
WriteCount(r) ==
  /\ courseLock \in {NoOne, r}
  /\ Go(r, "write_count", "commit")
  /\ courseLock' = r
  /\ UNCHANGED <<tables, rowLock, local, wrote, seen, edit>>

(* Mutant: learners_count = F('learners_count') +/- 1.                     *)
CommitByIncrement(r) ==
  /\ Go(r, "commit", "done")
  /\ row' = [row EXCEPT ![stu[r]] = wrote[r]]
  /\ learners_count' = IF wrote[r] = "active" THEN learners_count + 1
                                             ELSE learners_count - 1
  /\ Release(r)
  /\ UNCHANGED <<capacity, local, edit>>

Commit(r) ==
  /\ Go(r, "commit", "done")
  /\ row' = [row EXCEPT ![stu[r]] = wrote[r]]
  /\ learners_count' = seen[r]
  /\ Release(r)
  /\ UNCHANGED <<capacity, local, edit>>

(* The HTTP response; the worker is free for another request.              *)
Respond(r) ==
  /\ pc[r] \in Outcomes
  /\ pc' = [pc EXCEPT ![r] = "idle"]
  /\ stu' = [stu EXCEPT ![r] = NoOne]
  /\ limited' = [limited EXCEPT ![r] = FALSE]
  /\ UNCHANGED <<tables, locks, wrote, seen, edit>>

(***************************************************************************)
(* Lock waits.                                                             *)
(***************************************************************************)
WaitsForCourse(r) ==
  /\ pc[r] \in {"lock_course", "write_count"}
  /\ courseLock \notin {NoOne, r}

WaitsForRow(r) ==
  /\ \/ pc[r] = "leave_update"
     \/ pc[r] = "activate" /\ CanActivate(r)
     \/ pc[r] = "get_or_create" /\ row[stu[r]] = "absent"
  /\ rowLock[stu[r]] \notin {NoOne, r}

(* enroll locks the course and then the row, leave the row and then the    *)
(* course: each can hold what the other waits for.                         *)
Deadlocked(r, q) ==
  /\ WaitsForRow(r) /\ rowLock[stu[r]] = q
  /\ WaitsForCourse(q) /\ courseLock = r

(* PostgreSQL aborts one transaction of the cycle, either of the two.      *)
DeadlockAbort(r) ==
  /\ \E q \in Requests : Deadlocked(r, q) \/ Deadlocked(q, r)
  /\ Rollback(r, pc[r], "aborted")

(***************************************************************************)
(* Staff requests: CourseUpdateView and CourseAdmin load a Course object,  *)
(* then Course.save() writes every column of it.                           *)
(***************************************************************************)
EditLoad(e) ==
  /\ ~edit[e].open
  /\ edit' = [edit EXCEPT ![e] = [capacity |-> capacity,
                                  learners_count |-> learners_count,
                                  open |-> TRUE]]
  /\ UNCHANGED <<tables, locks, pc, local, wrote, seen>>

(* A teacher's form leaves capacity as loaded, an administrator's sets it. *)
EditSave(e, c) ==
  /\ edit[e].open
  /\ courseLock = NoOne
  /\ capacity' = c
  /\ learners_count' = edit[e].learners_count
  /\ edit' = [edit EXCEPT ![e] = NoEdit]
  /\ UNCHANGED <<row, locks, pc, local, wrote, seen>>

-------------------------------------------------------------------------------
EnrollStep(r) ==
  \/ GetRow(r) \/ CreateRow(r) \/ AlreadyEnrolled(r)
  \/ LockCourse(r)
  \/ Activate(r) \/ CapacityFull(r) \/ NothingToActivate(r)

ServeStep(r) ==
  \/ EnrollStep(r) \/ LeaveUpdate(r)
  \/ Recount(r) \/ WriteCount(r) \/ Commit(r)
  \/ DeadlockAbort(r) \/ Respond(r)

Edit(e) ==
  \/ EditLoad(e)
  \/ \E c \in Capacities \union {edit[e].capacity} : EditSave(e, c)

Next ==
  \/ \E r \in Requests :
       \/ \E s \in Students : BeginEnroll(r, s) \/ BeginLeave(r, s)
       \/ ServeStep(r)
  \/ \E e \in Editors : Edit(e)

Spec == Init /\ [][Next]_vars

(* A worker goes on with its request while it can, and PostgreSQL grants a *)
(* row lock in the order of arrival, so that no waiter is overtaken for    *)
(* ever: each request is served under strong fairness.  Nobody has to send *)
(* a request.                                                              *)
Fairness == \A r \in Requests : SF_vars(ServeStep(r))

FairSpec == Spec /\ Fairness

-------------------------------------------------------------------------------
(* Every variable has its type.                                            *)
TypeOK ==
  /\ row \in [Students -> RowStates]
  /\ capacity \in Nat
  /\ learners_count \in Counts
  /\ courseLock \in Requests \union {NoOne}
  /\ rowLock \in [Students -> Requests \union {NoOne}]
  /\ pc \in [Requests -> {"idle"} \union Steps \union Outcomes]
  /\ stu \in [Requests -> Students \union {NoOne}]
  /\ limited \in [Requests -> BOOLEAN]
  /\ wrote \in [Requests -> {"nothing", "left", "active"}]
  /\ seen \in [Requests -> Counts]
  /\ edit \in [Editors -> Loaded]

(* The requests whose transaction must hold the Course row.                *)
HoldsCourse(r) ==
  \/ pc[r] = "commit"
  \/ limited[r] /\ pc[r] \in {"activate", "recount", "write_count"}

(* A transaction that changed its row owns it, and the course as well      *)
(* before it commits.                                                      *)
OwnsLocks(r) ==
  /\ HoldsCourse(r) => courseLock = r
  /\ wrote[r] # "nothing" => rowLock[stu[r]] = r
  /\ wrote[r] = "active" => row[stu[r]] # "active"

(* What a limited enrollment checked...                                    *)
SeatStillFree(r) ==
  limited[r] /\ wrote[r] = "active" => capacity > Cardinality(Active)

(* ...and counted still holds when it commits.                             *)
CountStillExact(r) ==
  limited[r] /\ pc[r] \in {"write_count", "commit"} =>
    seen[r] = Cardinality(ActiveSeenBy(r))

(* What the locks buy: nothing that a limited enrollment has read under    *)
(* the course lock is changed by another transaction before it commits     *)
(* (enrollment_service.py: "Use sharable lock ... to control participants  *)
(* number").                                                               *)
LockDiscipline ==
  \A r \in Requests : OwnsLocks(r) /\ SeatStillFree(r) /\ CountStillExact(r)

(* The active enrollments never outnumber the capacity of a limited course *)
(* (as long as no staff request changes that capacity).                    *)
CapacityRespected == capacity > 0 => Cardinality(Active) <= capacity

(* Whatever staff do to the capacity meanwhile, a request that knew the    *)
(* course was limited never commits an enrollment above the capacity in    *)
(* force at that moment.                                                   *)
NoOverbooking ==
  [][\A r \in Requests :
       pc[r] = "commit" /\ pc'[r] = "done" /\ limited[r] /\ wrote[r] = "active"
         => Cardinality(Active') <= capacity']_vars

(* An enrollment in a limited course commits the exact count of active     *)
(* enrollments, itself included (a leave, or an enrollment in an unlimited *)
(* course, may not: see CountAgreesWhenIdle).                              *)
EnrollRecountExact ==
  [][\A r \in Requests :
       pc[r] = "commit" /\ pc'[r] = "done" /\ limited[r] /\ wrote[r] = "active"
         => learners_count' = Cardinality(Active')]_vars

(* The transactions implement the one-step joins and leaves of CourseSeats.*)
Seats == INSTANCE CourseSeats WITH enrolled <- Active

ImplementsSeats == Seats!Spec

(* Every request is answered: no lock wait is for ever.                    *)
RequestsFinish ==
  \A r \in Requests : pc[r] \in Steps ~> pc[r] \in Outcomes

(* Course.learners_count is the number of active enrollments when no       *)
(* request is in progress (courses/models.py: "Calculate this value with   *)
(* external signal on adding new learner").                                *)
CountAgreesWhenIdle ==
  (\A r \in Requests : pc[r] \notin Steps) =>
    learners_count = Cardinality(Active)
===============================================================================
