--------------------------- MODULE EnrollmentProofs ---------------------------
(***************************************************************************)
(* Proofs, for any students, requests, editors and capacities, that the    *)
(* transactions of Enrollment.tla never overbook a course.                 *)
(***************************************************************************)
EXTENDS Enrollment, FiniteSetTheorems, TLAPS

Writing == {"recount", "write_count", "commit"}

(* What a request has written goes with its step.                          *)
WorkerState ==
  \A r \in Requests :
    /\ pc[r] \in Steps => stu[r] \in Students
    /\ wrote[r] # "nothing" => pc[r] \in Steps
    /\ wrote[r] = "active" => pc[r] \in Writing
    /\ pc[r] \in Writing => wrote[r] # "nothing"
    /\ pc[r] \in {"idle", "leave_update"} => ~limited[r]

TypedState == TypeOK /\ WorkerState

IInv == TypedState /\ LockDiscipline

-------------------------------------------------------------------------------
(* The enrollments anybody can count are among the students: a count never *)
(* exceeds their number.                                                   *)
LEMMA CountInRange ==
  ASSUME NEW A, A \subseteq Students
  PROVE  /\ IsFiniteSet(A)
         /\ Cardinality(A) \in Counts
         /\ Cardinality(A) \in Nat
  BY StudentsFinite, FS_Subset, FS_CardinalityType DEF Counts

(* One more student takes one seat.                                        *)
LEMMA OneMoreSeat ==
  ASSUME NEW A, A \subseteq Students, NEW s \in Students
  PROVE  Cardinality(A \union {s}) <= Cardinality(A) + 1
<1>1. IsFiniteSet(A) /\ Cardinality(A) \in Nat
  BY CountInRange
<1>2. CASE s \in A
  <2>1. A \union {s} = A
    BY <1>2
  <2>2. QED
    BY <2>1, <1>1
<1>3. CASE s \notin A
  <2>1. Cardinality(A \union {s}) = Cardinality(A) + 1
    BY <1>1, <1>3, FS_AddElement, Zenon
  <2>2. QED
    BY <1>1, <2>1
<1>4. QED
  BY <1>2, <1>3

-------------------------------------------------------------------------------
(* The initial state is well typed and no request has written anything.   *)
LEMMA TypedInit == Init => TypedState
<1>1. ASSUME Init
      PROVE  Cardinality(Active) \in Counts /\ 0 \in Counts
  BY CountInRange, FS_EmptySet DEF Active, Counts
<1>2. QED
  BY <1>1, CapacitiesAreNat, NoOneIsNobody
     DEF Init, TypedState, TypeOK, WorkerState, Loaded, NoEdit, RowStates,
         Steps, Writing

(* No step breaks a type, or leaves a write behind its step.               *)
LEMMA TypedNext == TypedState /\ [Next]_vars => TypedState'
<1> SUFFICES ASSUME TypedState, [Next]_vars
             PROVE  TypedState'
  OBVIOUS
<1> USE DEF TypedState, TypeOK, WorkerState, tables, locks, local, Steps,
            Outcomes, Writing, RowStates, Go
<1>0. 0 \in Counts
  BY StudentsFinite, FS_CardinalityType DEF Counts
<1>1. ASSUME NEW r \in Requests, NEW s \in Students, BeginEnroll(r, s)
      PROVE  TypedState'
  BY <1>1 DEF BeginEnroll
<1>2. ASSUME NEW r \in Requests, NEW s \in Students, BeginLeave(r, s)
      PROVE  TypedState'
  BY <1>2 DEF BeginLeave
<1>3. ASSUME NEW r \in Requests, GetRow(r)
      PROVE  TypedState'
  BY <1>3 DEF GetRow, AfterGet
<1>4. ASSUME NEW r \in Requests, CreateRow(r)
      PROVE  TypedState'
  BY <1>4 DEF CreateRow, AfterGet, LockRow
<1>5. ASSUME NEW r \in Requests, NEW from, NEW outcome \in Outcomes,
             Rollback(r, from, outcome)
      PROVE  TypedState'
  BY <1>0, <1>5 DEF Rollback, Release
<1>6. ASSUME NEW r \in Requests, LockCourse(r)
      PROVE  TypedState'
  BY <1>6 DEF LockCourse
<1>7. ASSUME NEW r \in Requests, Activate(r)
      PROVE  TypedState'
  BY <1>7 DEF Activate, LockRow
<1>8. ASSUME NEW r \in Requests, LeaveUpdate(r)
      PROVE  TypedState'
  BY <1>8 DEF LeaveUpdate, LockRow
<1>9. ASSUME NEW r \in Requests, Recount(r)
      PROVE  TypedState'
  <2>1. ActiveSeenBy(r) \subseteq Students
    BY <1>9 DEF ActiveSeenBy, Active, Recount
  <2>2. Cardinality(ActiveSeenBy(r)) \in Counts
    BY <2>1, CountInRange
  <2>3. QED
    BY <1>9, <2>2 DEF Recount
<1>10. ASSUME NEW r \in Requests, WriteCount(r)
       PROVE  TypedState'
  BY <1>10 DEF WriteCount
<1>11. ASSUME NEW r \in Requests, Commit(r)
       PROVE  TypedState'
  BY <1>0, <1>11 DEF Commit, Release
<1>12. ASSUME NEW r \in Requests, Respond(r)
       PROVE  TypedState'
  BY <1>12 DEF Respond
<1>13. ASSUME NEW e \in Editors, Edit(e)
       PROVE  TypedState'
  <2>1. CASE EditLoad(e)
    BY <2>1 DEF EditLoad, Loaded
  <2>2. ASSUME NEW c \in Capacities \union {edit[e].capacity}, EditSave(e, c)
        PROVE  TypedState'
    <3>1. /\ edit[e].capacity \in Nat
          /\ edit[e].learners_count \in Counts
          /\ NoEdit \in Loaded
      BY <1>0 DEF Loaded, NoEdit
    <3>2. c \in Nat
      BY <3>1, CapacitiesAreNat
    <3>3. QED
      BY <2>2, <3>1, <3>2 DEF EditSave
  <2>3. QED
    BY <1>13, <2>1, <2>2 DEF Edit
<1>14. CASE UNCHANGED vars
  BY <1>14 DEF vars
<1>15. QED
  BY <1>1, <1>2, <1>3, <1>4, <1>5, <1>6, <1>7, <1>8, <1>9, <1>10, <1>11,
     <1>12, <1>13, <1>14
     DEF Next, ServeStep, EnrollStep, AlreadyEnrolled, CapacityFull,
         NothingToActivate, DeadlockAbort

(* TypeOK holds in every state, for all values of the constants.           *)
THEOREM TypeCorrect == Spec => []TypeOK
<1>1. Spec => []TypedState
  BY TypedInit, TypedNext, PTL DEF Spec
<1>2. TypedState => TypeOK
  BY DEF TypedState
<1>3. QED
  BY <1>1, <1>2, PTL

-------------------------------------------------------------------------------
(* Only Commit and EditSave change the tables, and both need the course    *)
(* lock or wait until nobody has it: what a limited request read under the *)
(* lock is still there.                                                    *)
LEMMA LocksInit == Init => LockDiscipline
  BY DEF Init, LockDiscipline, OwnsLocks, SeatStillFree, CountStillExact,
         HoldsCourse

(* Two transactions never own the course, or one row, at the same time.    *)
LEMMA OwnsNext ==
  ASSUME TypedState, TypedState', LockDiscipline, [Next]_vars
  PROVE  \A q \in Requests : OwnsLocks(q)'
<1> DEFINE Owned == \A q \in Requests : OwnsLocks(q)
<1>0. Owned
  BY DEF LockDiscipline
<1> HIDE DEF Owned
<1> SUFFICES Owned'
  BY DEF Owned
<1> USE <1>0, NoOneIsNobody
    DEF Owned, TypedState, TypeOK, WorkerState, OwnsLocks, HoldsCourse, tables,
        locks, local, Steps, Outcomes, Writing, Go
<1>1. ASSUME NEW r \in Requests, NEW s \in Students, BeginEnroll(r, s)
      PROVE  Owned'
  BY <1>1 DEF BeginEnroll
<1>2. ASSUME NEW r \in Requests, NEW s \in Students, BeginLeave(r, s)
      PROVE  Owned'
  BY <1>2 DEF BeginLeave
<1>3. ASSUME NEW r \in Requests, GetRow(r)
      PROVE  Owned'
  BY <1>3 DEF GetRow, AfterGet
<1>4. ASSUME NEW r \in Requests, CreateRow(r)
      PROVE  Owned'
  BY <1>4 DEF CreateRow, AfterGet, LockRow, RowFreeFor
<1>5. ASSUME NEW r \in Requests, NEW from, NEW outcome \in Outcomes,
             Rollback(r, from, outcome)
      PROVE  Owned'
  BY <1>5 DEF Rollback, Release
<1>6. ASSUME NEW r \in Requests, LockCourse(r)
      PROVE  Owned'
  BY <1>6 DEF LockCourse
<1>7. ASSUME NEW r \in Requests, Activate(r)
      PROVE  Owned'
  BY <1>7 DEF Activate, CanActivate, LockRow, RowFreeFor
<1>8. ASSUME NEW r \in Requests, LeaveUpdate(r)
      PROVE  Owned'
  BY <1>8 DEF LeaveUpdate, LockRow, RowFreeFor
<1>9. ASSUME NEW r \in Requests, Recount(r)
      PROVE  Owned'
  BY <1>9 DEF Recount
<1>10. ASSUME NEW r \in Requests, WriteCount(r)
       PROVE  Owned'
  BY <1>10 DEF WriteCount
<1>11. ASSUME NEW r \in Requests, Commit(r)
       PROVE  Owned'
  BY <1>11 DEF Commit, Release
<1>12. ASSUME NEW r \in Requests, Respond(r)
       PROVE  Owned'
  BY <1>12 DEF Respond
<1>13. ASSUME NEW e \in Editors, Edit(e)
       PROVE  Owned'
  BY <1>13 DEF Edit, EditLoad, EditSave
<1>14. CASE UNCHANGED vars
  BY <1>14 DEF vars
<1>15. QED
  BY <1>1, <1>2, <1>3, <1>4, <1>5, <1>6, <1>7, <1>8, <1>9, <1>10, <1>11,
     <1>12, <1>13, <1>14
     DEF Next, ServeStep, EnrollStep, AlreadyEnrolled, CapacityFull,
         NothingToActivate, DeadlockAbort

(* The tables change only in a commit, which owns the course, or in an     *)
(* editor's save, which finds it free.                                     *)
LEMMA TablesChange ==
  ASSUME [Next]_vars
  PROVE  \/ UNCHANGED <<row, capacity>>
         \/ \E r \in Requests : Commit(r)
         \/ courseLock = NoOne /\ UNCHANGED <<row, pc, limited, wrote, stu, seen>>
  BY DEF Next, vars, tables, locks, local, BeginEnroll, BeginLeave, ServeStep,
         EnrollStep, GetRow, CreateRow, AlreadyEnrolled, CapacityFull, Rollback,
         NothingToActivate, DeadlockAbort, LockCourse, Activate, LeaveUpdate,
         Recount, WriteCount, Respond, Edit, EditLoad, EditSave

(* So nothing changes under a request that holds the course, unless it is  *)
(* the one to commit.                                                      *)
LEMMA LockedTables ==
  ASSUME TypedState, LockDiscipline, [Next]_vars,
         NEW q \in Requests, courseLock = q
  PROVE  Commit(q) \/ UNCHANGED <<row, capacity>>
<1>1. ASSUME NEW r \in Requests, Commit(r)
      PROVE  r = q
  BY <1>1 DEF Commit, Go, LockDiscipline, OwnsLocks, HoldsCourse
<1>2. q # NoOne
  BY NoOneIsNobody
<1>3. QED
  BY <1>1, <1>2, TablesChange

(* The step that brings r to where SeatStillFree or CountStillExact speaks *)
(* of it, or leaves it there.                                              *)
LEMMA LocalChange ==
  ASSUME TypedState, [Next]_vars, NEW q \in Requests
  PROVE  /\ limited'[q] /\ wrote'[q] = "active" =>
              \/ Activate(q)
              \/ limited[q] /\ wrote[q] = "active"
         /\ limited'[q] /\ pc'[q] \in {"write_count", "commit"} =>
              \/ Recount(q) /\ limited[q]
              \/ /\ limited[q] /\ pc[q] \in {"write_count", "commit"}
                 /\ seen'[q] = seen[q] /\ wrote'[q] = wrote[q] /\ stu'[q] = stu[q]
<1> DEFINE Goal ==
      /\ limited'[q] /\ wrote'[q] = "active" =>
           \/ Activate(q)
           \/ limited[q] /\ wrote[q] = "active"
      /\ limited'[q] /\ pc'[q] \in {"write_count", "commit"} =>
           \/ Recount(q) /\ limited[q]
           \/ /\ limited[q] /\ pc[q] \in {"write_count", "commit"}
              /\ seen'[q] = seen[q] /\ wrote'[q] = wrote[q] /\ stu'[q] = stu[q]
<1> USE DEF TypedState, TypeOK, WorkerState, tables, locks, local, Steps,
            Outcomes, Writing, Go
<1>1. ASSUME NEW r \in Requests, NEW s \in Students,
             BeginEnroll(r, s) \/ BeginLeave(r, s)
      PROVE  Goal
  BY <1>1 DEF BeginEnroll, BeginLeave
<1>2. ASSUME NEW r \in Requests, GetRow(r) \/ CreateRow(r)
      PROVE  Goal
  BY <1>2 DEF GetRow, CreateRow, AfterGet
<1>3. ASSUME NEW r \in Requests, NEW from, NEW outcome \in Outcomes,
             Rollback(r, from, outcome)
      PROVE  Goal
  BY <1>3 DEF Rollback, Release
<1>4. ASSUME NEW r \in Requests, LockCourse(r) \/ LeaveUpdate(r)
      PROVE  Goal
  BY <1>4 DEF LockCourse, LeaveUpdate
<1>5. ASSUME NEW r \in Requests, Activate(r)
      PROVE  Goal
  <2>1. CASE r = q
    BY <1>5, <2>1 DEF Activate
  <2>2. CASE r # q
    BY <1>5, <2>2 DEF Activate
  <2>3. QED
    BY <2>1, <2>2
<1>6. ASSUME NEW r \in Requests, Recount(r)
      PROVE  Goal
  <2>1. CASE r = q
    BY <1>6, <2>1 DEF Recount
  <2>2. CASE r # q
    BY <1>6, <2>2 DEF Recount
  <2>3. QED
    BY <2>1, <2>2
<1>7. ASSUME NEW r \in Requests, WriteCount(r) \/ Respond(r)
      PROVE  Goal
  BY <1>7 DEF WriteCount, Respond
<1>8. ASSUME NEW r \in Requests, Commit(r)
      PROVE  Goal
  BY <1>8 DEF Commit, Release
<1>9. ASSUME NEW e \in Editors, Edit(e)
      PROVE  Goal
  BY <1>9 DEF Edit, EditLoad, EditSave
<1>10. CASE UNCHANGED vars
  BY <1>10 DEF vars
<1>11. QED
  BY <1>1, <1>2, <1>3, <1>4, <1>5, <1>6, <1>7, <1>8, <1>9, <1>10
     DEF Next, ServeStep, EnrollStep, AlreadyEnrolled, CapacityFull,
         NothingToActivate, DeadlockAbort

(* No step breaks the lock discipline: the commit by what its owner holds, *)
(* the others because they leave the tables alone.                         *)
LEMMA LocksNext == IInv /\ TypedState' /\ [Next]_vars => LockDiscipline'
<1> SUFFICES ASSUME TypedState, LockDiscipline, TypedState', [Next]_vars,
                    NEW q \in Requests
             PROVE  (OwnsLocks(q) /\ SeatStillFree(q) /\ CountStillExact(q))'
  BY DEF IInv, LockDiscipline
<1>1. OwnsLocks(q)'
  BY OwnsNext
<1>2. row' = row => Active' = Active
  BY DEF Active
<1>3. HoldsCourse(q) => Commit(q) \/ UNCHANGED <<row, capacity>>
  BY LockedTables DEF LockDiscipline, OwnsLocks
<1>4. SeatStillFree(q)'
  <2> SUFFICES ASSUME limited'[q], wrote'[q] = "active"
               PROVE  capacity' > Cardinality(Active')
    BY DEF SeatStillFree
  <2>1. CASE Activate(q)
    <3>1. limited[q] /\ UNCHANGED <<row, capacity>>
      BY <2>1 DEF Activate, local, tables
    <3>2. capacity > Cardinality(Active)
      BY <2>1, <3>1 DEF Activate, CanActivate
    <3>3. QED
      BY <3>1, <3>2, <1>2
  <2>2. CASE limited[q] /\ wrote[q] = "active"
    <3>1. HoldsCourse(q)
      BY <2>2 DEF HoldsCourse, TypedState, WorkerState, Writing
    <3>2. ~Commit(q)
      BY DEF Commit, Release, TypedState, TypeOK
    <3>3. UNCHANGED <<row, capacity>>
      BY <1>3, <3>1, <3>2
    <3>4. capacity > Cardinality(Active)
      BY <2>2 DEF LockDiscipline, SeatStillFree
    <3>5. QED
      BY <3>3, <3>4, <1>2
  <2>3. QED
    BY <2>1, <2>2, LocalChange
<1>5. CountStillExact(q)'
  <2> SUFFICES ASSUME limited'[q], pc'[q] \in {"write_count", "commit"}
               PROVE  seen'[q] = Cardinality(ActiveSeenBy(q)')
    BY DEF CountStillExact
  <2>1. ASSUME wrote'[q] = wrote[q], stu'[q] = stu[q], row' = row
        PROVE  ActiveSeenBy(q)' = ActiveSeenBy(q)
    BY <1>2, <2>1 DEF ActiveSeenBy
  <2>2. CASE Recount(q)
    <3>1. ActiveSeenBy(q)' = ActiveSeenBy(q)
      BY <2>1, <2>2 DEF Recount, tables, local
    <3>2. seen'[q] = Cardinality(ActiveSeenBy(q))
      BY <2>2 DEF Recount, TypedState, TypeOK
    <3>3. QED
      BY <3>1, <3>2
  <2>3. CASE /\ limited[q] /\ pc[q] \in {"write_count", "commit"}
             /\ seen'[q] = seen[q] /\ wrote'[q] = wrote[q] /\ stu'[q] = stu[q]
    <3>1. HoldsCourse(q)
      BY <2>3 DEF HoldsCourse
    <3>2. ~Commit(q)
      BY DEF Commit, Go, TypedState, TypeOK
    <3>3. ActiveSeenBy(q)' = ActiveSeenBy(q)
      BY <1>3, <2>1, <2>3, <3>1, <3>2
    <3>4. QED
      BY <2>3, <3>3 DEF LockDiscipline, CountStillExact
  <2>4. QED
    BY <2>2, <2>3, LocalChange
<1>6. QED
  BY <1>1, <1>4, <1>5

(* The inductive invariant holds in every state.                           *)
LEMMA Invariant == Spec => []IInv
<1>1. Init => IInv
  BY TypedInit, LocksInit DEF IInv
<1>2. IInv /\ [Next]_vars => IInv'
  BY TypedNext, LocksNext DEF IInv
<1>3. QED
  BY <1>1, <1>2, PTL DEF Spec

(* Whoever holds the locks that enroll() takes may rely on what it checked.*)
THEOREM LocksHold == Spec => []LockDiscipline
<1>1. IInv => LockDiscipline
  BY DEF IInv
<1>2. QED
  BY <1>1, Invariant, PTL

(* What a commit of an enrollment in a limited course does to the counts.  *)
LEMMA EnrollCommit ==
  ASSUME IInv, NEW r \in Requests, Commit(r), limited[r], wrote[r] = "active"
  PROVE  /\ Active' = Active \union {stu[r]}
         /\ Cardinality(Active') <= capacity'
         /\ learners_count' = Cardinality(Active')
<1> USE DEF IInv, TypedState, TypeOK
<1>1. pc[r] = "commit" /\ stu[r] \in Students
  BY DEF Commit, Go, WorkerState, Steps
<1>2. Active' = Active \union {stu[r]}
  BY <1>1 DEF Commit, Active
<1>3. capacity' = capacity /\ capacity > Cardinality(Active)
  BY DEF Commit, LockDiscipline, SeatStillFree
<1>4. Active \subseteq Students
  BY DEF Active
<1>5. Cardinality(Active') <= capacity'
  <2>1. Cardinality(Active \union {stu[r]}) <= Cardinality(Active) + 1
    BY <1>1, <1>4, OneMoreSeat
  <2>2. Cardinality(Active) \in Nat /\ Cardinality(Active \union {stu[r]}) \in Nat
    BY <1>1, <1>4, CountInRange
  <2> HIDE DEF IInv
  <2>3. capacity \in Nat
    BY DEF IInv
  <2>4. QED
    BY <1>2, <1>3, <2>1, <2>2, <2>3
<1>6. learners_count' = Cardinality(Active')
  <2>1. learners_count' = seen[r] /\ ActiveSeenBy(r) = Active \union {stu[r]}
    BY DEF Commit, ActiveSeenBy
  <2>2. seen[r] = Cardinality(ActiveSeenBy(r))
    BY <1>1 DEF LockDiscipline, CountStillExact
  <2>3. QED
    BY <1>2, <2>1, <2>2
<1>7. QED
  BY <1>2, <1>5, <1>6

(* A step to "done" from "commit" is the request's own Commit.             *)
LEMMA DoneByCommit ==
  ASSUME IInv, [Next]_vars, NEW r \in Requests,
         pc[r] = "commit", pc'[r] = "done"
  PROVE  Commit(r)
<1> USE DEF IInv, TypedState, TypeOK, tables, locks, local, Go
<1>1. ASSUME NEW q \in Requests, NEW s \in Students,
             BeginEnroll(q, s) \/ BeginLeave(q, s)
      PROVE  Commit(r)
  BY <1>1 DEF BeginEnroll, BeginLeave
<1>2. ASSUME NEW q \in Requests, EnrollStep(q) \/ LeaveUpdate(q)
      PROVE  Commit(r)
  BY <1>2 DEF EnrollStep, GetRow, CreateRow, AfterGet, AlreadyEnrolled,
              LockCourse, Activate, CapacityFull, NothingToActivate, Rollback,
              LeaveUpdate
<1>3. ASSUME NEW q \in Requests, Recount(q) \/ WriteCount(q) \/ Respond(q)
      PROVE  Commit(r)
  BY <1>3 DEF Recount, WriteCount, Respond
<1>4. ASSUME NEW q \in Requests, DeadlockAbort(q)
      PROVE  Commit(r)
  BY <1>4 DEF DeadlockAbort, Rollback
<1>5. ASSUME NEW q \in Requests, Commit(q)
      PROVE  Commit(r)
  BY <1>5 DEF Commit
<1>6. ASSUME NEW e \in Editors, Edit(e)
      PROVE  Commit(r)
  BY <1>6 DEF Edit, EditLoad, EditSave
<1>7. CASE UNCHANGED vars
  BY <1>7 DEF vars
<1>8. QED
  BY <1>1, <1>2, <1>3, <1>4, <1>5, <1>6, <1>7 DEF Next, ServeStep

(* No request that knew of the limit ever commits above it, whatever staff *)
(* and the other requests do.                                              *)
THEOREM NeverOverbooked == Spec => NoOverbooking
<1>1. IInv /\ [Next]_vars =>
        [\A r \in Requests :
           pc[r] = "commit" /\ pc'[r] = "done" /\ limited[r] /\ wrote[r] = "active"
             => Cardinality(Active') <= capacity']_vars
  BY DoneByCommit, EnrollCommit
<1>2. QED
  BY <1>1, Invariant, PTL DEF Spec, NoOverbooking

(* The count that such a request commits is exact.                         *)
THEOREM CountedExactly == Spec => EnrollRecountExact
<1>1. IInv /\ [Next]_vars =>
        [\A r \in Requests :
           pc[r] = "commit" /\ pc'[r] = "done" /\ limited[r] /\ wrote[r] = "active"
             => learners_count' = Cardinality(Active')]_vars
  BY DoneByCommit, EnrollCommit
<1>2. QED
  BY <1>1, Invariant, PTL DEF Spec, EnrollRecountExact

-------------------------------------------------------------------------------
(* Without staff edits the capacity is fixed, so that every enroll request *)
(* knows whether the course is limited.                                    *)
Aware ==
  \A r \in Requests :
    pc[r] \in {"get_or_create", "lock_course", "activate"} \/ wrote[r] = "active"
      => limited[r] = (capacity > 0)

(* Without editors the capacity, and what requests know of it, stay.       *)
LEMMA AwareNext ==
  ASSUME Editors = {}, IInv, Aware, [Next]_vars
  PROVE  Aware' /\ UNCHANGED capacity
<1> DEFINE Goal == Aware' /\ UNCHANGED capacity
<1> USE DEF IInv, TypedState, TypeOK, WorkerState, Aware, tables, locks, local,
            Steps, Outcomes, Writing, Go
<1>1. ASSUME NEW r \in Requests, NEW s \in Students,
             BeginEnroll(r, s) \/ BeginLeave(r, s)
      PROVE  Goal
  BY <1>1 DEF BeginEnroll, BeginLeave
<1>2. ASSUME NEW r \in Requests, GetRow(r) \/ CreateRow(r)
      PROVE  Goal
  BY <1>2 DEF GetRow, CreateRow, AfterGet
<1>3. ASSUME NEW r \in Requests, NEW from, NEW outcome \in Outcomes,
             Rollback(r, from, outcome)
      PROVE  Goal
  BY <1>3 DEF Rollback, Release
<1>4. ASSUME NEW r \in Requests,
             LockCourse(r) \/ Activate(r) \/ LeaveUpdate(r)
      PROVE  Goal
  BY <1>4 DEF LockCourse, Activate, LeaveUpdate
<1>5. ASSUME NEW r \in Requests,
             Recount(r) \/ WriteCount(r) \/ Respond(r)
      PROVE  Goal
  BY <1>5 DEF Recount, WriteCount, Respond
<1>6. ASSUME NEW r \in Requests, Commit(r)
      PROVE  Goal
  BY <1>6 DEF Commit, Release
<1>7. CASE UNCHANGED vars
  BY <1>7 DEF vars
<1>8. QED
  BY <1>1, <1>2, <1>3, <1>4, <1>5, <1>6, <1>7
     DEF Next, ServeStep, EnrollStep, AlreadyEnrolled, CapacityFull,
         NothingToActivate, DeadlockAbort

(* The instance brings its own name for the cardinality of a set.          *)
LEMMA SameCardinality == \A A : Seats!Cardinality(A) = Cardinality(A)
  BY DEF Seats!Cardinality, Cardinality, Seats!IsFiniteSet, IsFiniteSet

(* Each step joins one student, lets one leave, or stutters.               *)
LEMMA SeatsNext ==
  ASSUME Editors = {}, IInv, Aware, [Next]_vars
  PROVE  [Seats!Next]_Seats!vars
<1> USE DEF IInv, TypedState, TypeOK
<1>1. UNCHANGED capacity
  BY AwareNext
<1>2. CASE row' = row
  <2>1. Active' = Active
    BY <1>2 DEF Active
  <2>2. QED
    BY <1>1, <2>1 DEF Seats!vars
<1>3. ASSUME NEW r \in Requests, Commit(r)
      PROVE  [Seats!Next]_Seats!vars
  <2>1. /\ stu[r] \in Students /\ wrote[r] \in {"left", "active"}
        /\ row' = [row EXCEPT ![stu[r]] = wrote[r]]
    BY <1>3 DEF Commit, Go, WorkerState, Steps, Writing
  <2>2. CASE wrote[r] = "active"
    <3>1. stu[r] \notin Active
      BY <2>2 DEF Active, LockDiscipline, OwnsLocks
    <3>2. Active' = Active \union {stu[r]}
      BY <2>1, <2>2 DEF Active
    <3>3. Seats!SeatFree
      BY <2>2, SameCardinality
         DEF Seats!SeatFree, Seats!Limited, Aware, LockDiscipline, SeatStillFree
    <3>4. Seats!Join(stu[r])
      BY <1>1, <3>1, <3>2, <3>3 DEF Seats!Join
    <3>5. QED
      BY <2>1, <3>4 DEF Seats!Next
  <2>3. CASE wrote[r] = "left"
    <3>1. Active' = Active \ {stu[r]}
      BY <2>1, <2>3 DEF Active
    <3>2. CASE stu[r] \in Active
      <4>1. Seats!Leave(stu[r])
        BY <1>1, <3>1, <3>2 DEF Seats!Leave
      <4>2. QED
        BY <2>1, <4>1 DEF Seats!Next
    <3>3. CASE stu[r] \notin Active
      BY <1>1, <3>1, <3>3 DEF Seats!vars
    <3>4. QED
      BY <3>2, <3>3
  <2>4. QED
    BY <2>1, <2>2, <2>3
<1>4. QED
  BY <1>2, <1>3, TablesChange, NoOneIsNobody

(* The enrollment transactions implement the abstract seats.               *)
THEOREM Refinement ==
  ASSUME Editors = {}
  PROVE  Spec => ImplementsSeats
<1>1. Init => Seats!Init
  BY CapacitiesAreNat, SameCardinality
     DEF Init, Active, Seats!Init, Seats!Limited
<1>2. Init => Aware
  BY DEF Init, Aware
<1>3. IInv /\ Aware /\ [Next]_vars => Aware' /\ [Seats!Next]_Seats!vars
  BY AwareNext, SeatsNext
<1>4. QED
  BY <1>1, <1>2, <1>3, Invariant, PTL DEF Spec, ImplementsSeats, Seats!Spec

(* A limited course never has more active enrollments than its capacity.   *)
THEOREM Capacity ==
  ASSUME Editors = {}
  PROVE  Spec => []CapacityRespected
<1>1. Init => Aware /\ CapacityRespected
  BY DEF Init, Aware, CapacityRespected
<1>2. IInv /\ Aware /\ CapacityRespected /\ [Next]_vars
        => Aware' /\ CapacityRespected'
  <2> SUFFICES ASSUME IInv, Aware, CapacityRespected, [Next]_vars
               PROVE  Aware' /\ CapacityRespected'
    OBVIOUS
  <2>1. Aware' /\ capacity' = capacity
    BY AwareNext
  <2>2. Active \subseteq Students /\ capacity \in Nat
    BY DEF Active, IInv, TypedState, TypeOK
  <2>3. CASE row' = row
    <3>1. Active' = Active
      BY <2>3 DEF Active
    <3>2. QED
      BY <2>1, <3>1 DEF CapacityRespected
  <2>4. ASSUME NEW r \in Requests, Commit(r), wrote[r] = "active"
        PROVE  CapacityRespected'
    <3>1. limited[r] = (capacity > 0)
      BY <2>4 DEF Aware
    <3>2. CASE limited[r]
      BY <2>4, <3>2, EnrollCommit DEF CapacityRespected
    <3>3. CASE ~limited[r]
      BY <2>1, <3>1, <3>3 DEF CapacityRespected
    <3>4. QED
      BY <3>2, <3>3
  <2>5. ASSUME NEW r \in Requests, Commit(r), wrote[r] # "active"
        PROVE  CapacityRespected'
    <3>1. Active' \subseteq Active
      BY <2>5 DEF Commit, Active, IInv, TypedState, TypeOK
    <3>2. Cardinality(Active') <= Cardinality(Active)
      BY <2>2, <3>1, CountInRange, FS_Subset
    <3>3. Cardinality(Active') \in Nat /\ Cardinality(Active) \in Nat
      BY <2>2, <3>1, CountInRange
    <3>4. QED
      BY <2>1, <2>2, <3>2, <3>3 DEF CapacityRespected
  <2>6. QED
    BY <2>1, <2>3, <2>4, <2>5, TablesChange, NoOneIsNobody
<1>3. QED
  BY <1>1, <1>2, Invariant, PTL DEF Spec
===============================================================================
