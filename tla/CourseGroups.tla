----------------------------- MODULE CourseGroups -----------------------------
(***************************************************************************)
(* Student groups of one course offering and the personal assignments that *)
(* follow from them: StudentGroupService, AssignmentService (who gets,     *)
(* regains and loses a StudentAssignment), the group side of               *)
(* EnrollmentService and of the signals, and the views that call them.     *)
(*                                                                         *)
(* The database is PostgreSQL at READ COMMITTED.  It is one function from  *)
(* rows to values, db; an open transaction's uncommitted writes are a      *)
(* partial function over the same rows, delta[w], which locks them.        *)
(* Foreign keys are deferred: they are checked when a transaction commits. *)
(***************************************************************************)
EXTENDS Integers, FiniteSets

CONSTANTS
  Students,     (* students of the course                                  *)
  Runs,         (* academic program runs, the names of their groups        *)
  Titles,       (* names a curator or a teacher gives a group              *)
  Assignments,  (* ids of Assignment rows                                  *)
  Workers,      (* web workers                                             *)
  Modes,        (* the group modes the course may have                     *)
  Operations,   (* mode -> the requests of this instance                   *)
  MaxGroups,    (* bound, mode -> StudentGroup rows ever created           *)
  MaxClassGroups, (* bound: groups a class is restricted to at a time      *)
  Nobody        (* no group, no assignment, no run                         *)

ASSUME ModesKnown == Modes \subseteq {"manual", "program_run"}
ASSUME OperationsKnown ==
  Operations \in [Modes -> SUBSET {"enroll", "leave", "remove", "new_group",
                                   "edit", "delete", "transfer", "edit_class"}]
(* There is room for the two groups a manual course may start with.        *)
ASSUME BoundsAreNat ==
  MaxGroups \in [Modes -> Nat \ {0, 1}] /\ MaxClassGroups \in Nat

(* Ids come from the table's sequence; a removed one is not used again.    *)
Groups == UNION {1..MaxGroups[m] : m \in Modes}

ASSUME NobodyIsNothing ==
  Nobody \notin Groups \union Assignments \union Runs \union Titles

VARIABLES
  mode,   (* Course.group_mode                                             *)
  run,    (* student -> StudentProfile.academic_program_enrollment         *)
  db,     (* row -> its committed value                                    *)
  delta,  (* worker -> the rows its open transaction wrote                 *)
  pc,     (* worker -> the next step of its request                        *)
  job,    (* worker -> what its request is about                           *)
  raced   (* history: the workers during whose request another one changed
             an assignment of the course                                   *)

vars == <<mode, run, db, delta, pc, job, raced>>

-------------------------------------------------------------------------------
(* Rows and their values.                                                  *)
grp(g)   == <<"StudentGroup", g>>
enr(s)   == <<"Enrollment", s>>
asg(a)   == <<"Assignment", a>>
sa(a, s) == <<"StudentAssignment", a, s>>
cls      == <<"CourseClass">>

GroupRows == {grp(g) : g \in Groups}
WorkRows  == {sa(a, s) : a \in Assignments, s \in Students}
Rows      == GroupRows \union {enr(s) : s \in Students}
               \union {asg(a) : a \in Assignments} \union WorkRows \union {cls}

Unused  == [type |-> "unused", name |-> Nobody, run |-> Nobody]
Removed == [Unused EXCEPT !.type = "removed"]
Default == [type |-> "system", name |-> "Others", run |-> Nobody]
Manual(name) == [type |-> "manual", name |-> name, run |-> Nobody]
RunGroup(r)  == [type |-> "program_run", name |-> r, run |-> r]

NeverEnrolled == [state |-> "absent", group |-> Nobody]
NoAssignment  == [exists |-> FALSE, restricted_to |-> {}]

GroupValues == {Unused, Removed, Default}
                 \union {Manual(n) : n \in Runs \union Titles}
                 \union {RunGroup(r) : r \in Runs}
EnrollmentValues == {NeverEnrolled}
                      \union [state : {"left", "active"}, group : Groups]
AssignmentValues == [exists : BOOLEAN, restricted_to : SUBSET Groups]

Holds(row, value) ==
  CASE row \in GroupRows          -> value \in GroupValues
    [] row[1] = "Enrollment"      -> value \in EnrollmentValues
    [] row[1] = "Assignment"      -> value \in AssignmentValues
    [] row \in WorkRows           -> value \in {"none", "live", "trash"}
    [] row = cls                  -> value \in SUBSET Groups

(* What rows hold once the writes w are applied to them.                   *)
Over(w, t) == [k \in DOMAIN t \union DOMAIN w |->
                 IF k \in DOMAIN w THEN w[k] ELSE t[k]]
NoWrites   == [k \in {} |-> Nobody]
Set(k, v)  == [x \in {k} |-> v]

-------------------------------------------------------------------------------
(* Queries; t is the database as the statement sees it.                    *)
Existing(t)    == {g \in Groups : t[grp(g)].type \notin {"unused", "removed"}}
InGroup(t, g)  == {s \in Students : t[enr(s)].group = g}
Left(t)        == {s \in Students : t[enr(s)].state = "left"}
Active(t)      == {s \in Students : t[enr(s)].state = "active"}
CourseAssignments(t)  == {a \in Assignments : t[asg(a)].exists}
Restricts(t, g) == {a \in CourseAssignments(t) : g \in t[asg(a)].restricted_to}

(* Assignment.restricted_to is empty or names the group.                   *)
OpenTo(t, a, g) ==
  t[asg(a)].restricted_to = {} \/ g \in t[asg(a)].restricted_to
AvailableTo(t, g) == {a \in CourseAssignments(t) : OpenTo(t, a, g)}

(* StudentGroup.clean: no other group of the course with the same name,    *)
(* program and program run.                                                *)
Clean(t, g, value) ==
  \A h \in Existing(t) \ {g} :
    t[grp(h)].name # value.name \/ t[grp(h)].run # value.run

(* Every foreign key of the database refers to a row that exists.          *)
ForeignKeysHold(t) ==
  /\ \A s \in Students : t[enr(s)].group \in Existing(t) \union {Nobody}
  /\ \A a \in CourseAssignments(t) : t[asg(a)].restricted_to \subseteq Existing(t)
  /\ \A a \in Assignments, s \in Students :
       t[sa(a, s)] # "none" => a \in CourseAssignments(t)
  /\ t[cls] \subseteq Existing(t)

-------------------------------------------------------------------------------
(* Statements of a worker.                                                 *)
See(w) == [k \in Rows |-> IF k \in DOMAIN delta[w] THEN delta[w][k] ELSE db[k]]

(* No other transaction has written these rows.                            *)
Free(w, rows) == \A v \in Workers \ {w} : rows \intersect DOMAIN delta[v] = {}

NoJob == [op |-> "none", who |-> {}, group |-> Nobody, to |-> Nobody,
          asg |-> Nobody, name |-> Nobody]

(* The next step of w, and what it knows by then.                          *)
GoWith(w, from, to, known) ==
  /\ pc[w] = from
  /\ pc' = [pc EXCEPT ![w] = to]
  /\ job' = [job EXCEPT ![w] = IF to = "idle" THEN NoJob ELSE known]

Go(w, from, to) == GoWith(w, from, to, job[w])

(* What w commits edits an assignment under the other requests.            *)
Disturb(w) ==
  raced' = IF job[w].op = "edit" \/ \E a \in Assignments : db'[asg(a)] # db[asg(a)]
           THEN {v \in Workers \ {w} : pc[v] # "idle"}
           ELSE raced \ {v \in Workers : pc'[v] = "idle"}

(* A write in the open transaction of w.                                   *)
Write(w, writes) ==
  /\ Free(w, DOMAIN writes)
  /\ delta' = [delta EXCEPT ![w] = Over(writes, @)]
  /\ UNCHANGED <<db, raced>>

(* A statement that is a transaction of its own.                           *)
AutoCommit(w, writes) ==
  /\ Free(w, DOMAIN writes)
  /\ db' = Over(writes, db)
  /\ Disturb(w)
  /\ UNCHANGED delta

(* The leave request works on groups inside its transaction; the requests  *)
(* that enroll a student and that remove a group do not.                   *)
Put(w, writes) ==
  IF job[w].op = "leave" THEN Write(w, writes) ELSE AutoCommit(w, writes)

(* Mutant: the transaction is left open.                                   *)
FailLeavesOpen(w, from) ==
  /\ Go(w, from, "idle")
  /\ raced' = raced \ {w}
  /\ UNCHANGED <<mode, run, db, delta>>

(* The request ends with an exception: what its transaction wrote is gone. *)
Fail(w, from) ==
  /\ Go(w, from, "idle")
  /\ delta' = [delta EXCEPT ![w] = NoWrites]
  /\ raced' = raced \ {w}
  /\ UNCHANGED <<mode, run, db>>

(* Nothing but the step of w and what it noted changes.                    *)
Quiet == UNCHANGED <<mode, run, db, delta, raced>>
Fixed == UNCHANGED <<mode, run>>

(* COMMIT waits for a transaction that is deleting a group a written row   *)
(* refers to, and checks the deferred foreign keys.                        *)
BeingRemoved(w) ==
  {g \in Groups : \E v \in Workers \ {w} :
     grp(g) \in DOMAIN delta[v] /\ delta[v][grp(g)] = Removed}
Refers(w) ==
  {g \in Groups :
     \/ \E s \in Students : enr(s) \in DOMAIN delta[w] /\ See(w)[enr(s)].group = g
     \/ \E a \in Assignments :
          asg(a) \in DOMAIN delta[w] /\ g \in See(w)[asg(a)].restricted_to}
CanCommit(w) == Refers(w) \intersect BeingRemoved(w) = {}

Commit(w) ==
  /\ Go(w, "commit", "idle")
  /\ CanCommit(w)
  /\ ForeignKeysHold(See(w))
  /\ db' = See(w)
  /\ delta' = [delta EXCEPT ![w] = NoWrites]
  /\ Disturb(w)
  /\ Fixed

CommitFails(w) ==
  /\ Fail(w, "commit")
  /\ CanCommit(w)
  /\ ~ForeignKeysHold(See(w))

-------------------------------------------------------------------------------
EmptyCourse ==
  [k \in Rows |-> CASE k \in GroupRows           -> Unused
                    [] k[1] = "Enrollment"       -> NeverEnrolled
                    [] k[1] = "Assignment"       -> NoAssignment
                    [] k \in WorkRows            -> "none"
                    [] k = cls                   -> {}]

(* Nobody has enrolled yet.  A manual course has its default group         *)
(* (signals.py); staff may have given the course assignments for all, and  *)
(* a manual one a second group.                                            *)
Init ==
  /\ mode \in Modes
  /\ run \in [Students -> Runs]
  /\ \E given \in SUBSET Assignments,
        groups \in IF mode = "manual"
                   THEN {<<Default>>} \union {<<Default, Manual(n)>> : n \in Titles}
                   ELSE {<<>>} :
       db = Over([k \in {grp(g) : g \in DOMAIN groups} |-> groups[k[2]]],
                 Over([k \in {asg(a) : a \in given} |->
                         [exists |-> TRUE, restricted_to |-> {}]],
                      EmptyCourse))
  /\ delta = [w \in Workers |-> NoWrites]
  /\ pc = [w \in Workers |-> "idle"]
  /\ job = [w \in Workers |-> NoJob]
  /\ raced = {}

(* A worker starts serving a request.                                      *)
Serve(w, first, request) ==
  /\ request.op \in Operations[mode]
  /\ GoWith(w, "idle", first, request)
  /\ Quiet

(***************************************************************************)
(* Finding or creating a group: get_or_create of the default group and of  *)
(* a run's group, and StudentGroupService.create of a manual one.          *)
(***************************************************************************)

Wanted(w) ==
  CASE job[w].op = "new_group" -> Manual(job[w].name)
    [] job[w].op = "enroll" /\ mode = "program_run" ->
         RunGroup(run[CHOOSE s \in Students : s \in job[w].who])
    [] OTHER -> Default

(* What get_or_create looks for: the type and the run, never the name.     *)
Matches(t, value) == {g \in Existing(t) : t[grp(g)].type = value.type
                                          /\ t[grp(g)].run = value.run}

AfterGroup(w) ==
  CASE job[w].op = "enroll"    -> "activate"
    [] job[w].op = "new_group" -> "idle"
    [] OTHER                   -> "move"

FindGroup(w) ==
  /\ \E g \in Groups :
       /\ GoWith(w, "get_group", AfterGroup(w), [job[w] EXCEPT !.to = g])
       /\ Matches(See(w), Wanted(w)) = {g}
  /\ Quiet

GroupMissing(w) ==
  /\ Go(w, "get_group", "clean_group")
  /\ Matches(See(w), Wanted(w)) = {}
  /\ Quiet

(* No constraint forbids a second group: MultipleObjectsReturned.          *)
TwoGroups(w) ==
  /\ Fail(w, "get_group")
  /\ Cardinality(Matches(See(w), Wanted(w))) > 1

(* full_clean() queries for a group of the same name before the INSERT.    *)
CleanGroup(w) ==
  /\ Go(w, "clean_group", "insert_group")
  /\ Clean(See(w), Nobody, Wanted(w))
  /\ Quiet

NameTaken(w) ==
  /\ Fail(w, "clean_group")
  /\ ~Clean(See(w), Nobody, Wanted(w))

(* The ids nobody has used, committed or not.                              *)
FreeIds == {g \in 1..MaxGroups[mode] :
              /\ db[grp(g)] = Unused
              /\ \A v \in Workers : grp(g) \notin DOMAIN delta[v]}

InsertGroup(w) ==
  /\ \E g \in FreeIds :
       /\ GoWith(w, "insert_group", AfterGroup(w), [job[w] EXCEPT !.to = g])
       /\ \A h \in FreeIds : g <= h
       /\ Put(w, Set(grp(g), Wanted(w)))
  /\ Fixed

(* Bound: the instance is out of ids, the request is given up.             *)
OutOfIds(w) ==
  /\ Fail(w, "insert_group")
  /\ FreeIds = {}

(***************************************************************************)
(* Enrollment: the view resolves the group in a transaction of its own,    *)
(* then EnrollmentService.enroll works in one transaction.                 *)
(***************************************************************************)

BeginEnroll(w, s) ==
  /\ db[enr(s)].state # "active"
  /\ Serve(w, "get_group", [NoJob EXCEPT !.op = "enroll", !.who = {s}])

BeginNewGroup(w, n) ==
  Serve(w, "clean_group", [NoJob EXCEPT !.op = "new_group", !.name = n])

(* The row is created or updated: active, in the resolved group.           *)
Activate(w) ==
  /\ Go(w, "activate", "recreate")
  /\ \E s \in job[w].who :
       /\ See(w)[enr(s)].state # "active"
       /\ Write(w, Set(enr(s), [state |-> "active", group |-> job[w].to]))
  /\ Fixed

AlreadyEnrolled(w) ==
  /\ Fail(w, "activate")
  /\ \E s \in job[w].who : See(w)[enr(s)].state = "active"

(* Mutant: only assignments restricted to the group are created.           *)
RecreatedOnlyRestricted(t, s) ==
  {sa(a, s) : a \in Restricts(t, t[enr(s)].group)}

(* create_or_restore_student_assignment, for each assignment of the course.*)
Recreated(t, s) ==
  {sa(a, s) : a \in AvailableTo(t, t[enr(s)].group)}

Recreate(w) ==
  /\ Go(w, "recreate", "commit")
  /\ \E s \in job[w].who :
       Write(w, [k \in Recreated(See(w), s) |-> "live"])
  /\ Fixed

(***************************************************************************)
(* Leaving: EnrollmentService.leave and the post_save signal, in one       *)
(* transaction.                                                            *)
(***************************************************************************)

BeginLeave(w, s) ==
  /\ db[enr(s)].state = "active"
  /\ Serve(w, "leave", [NoJob EXCEPT !.op = "leave", !.who = {s}])

(* save(update_fields=['is_deleted']) by primary key.                      *)
Leave(w) ==
  /\ Go(w, "leave", IF mode = "program_run" THEN "run_group" ELSE "commit")
  /\ \E s \in job[w].who :
       Write(w, Set(enr(s), [See(w)[enr(s)] EXCEPT !.state = "left"]))
  /\ Fixed

(* any_enrollment_for_program_run_left: rows of students who left count.   *)
RunStillUsed(w) ==
  \E s \in job[w].who, u \in Students :
    u # s /\ run[u] = run[s] /\ See(w)[enr(u)].state # "absent"

KeepRunGroup(w) ==
  /\ Go(w, "run_group", "commit")
  /\ RunStillUsed(w)
  /\ Quiet

RunGroups(w) ==
  UNION {Matches(See(w), RunGroup(run[s])) : s \in job[w].who}

(* remove(None): AttributeError.                                           *)
NoRunGroup(w) ==
  /\ Fail(w, "run_group")
  /\ ~RunStillUsed(w)
  /\ RunGroups(w) = {}

InUse(t, g) ==
  \/ InGroup(t, g) \intersect Active(t) # {}
  \/ Restricts(t, g) # {}
  \/ g \in t[cls]

(* A group in use becomes a manual one; full_clean() checks its name.      *)
CastToManual(w) ==
  /\ Go(w, "run_group", "commit")
  /\ ~RunStillUsed(w)
  /\ \E g \in RunGroups(w) :
       LET manual == Manual(See(w)[grp(g)].name)
       IN /\ InUse(See(w), g)
          /\ Clean(See(w), g, manual)
          /\ Write(w, Set(grp(g), manual))
  /\ Fixed

CannotCast(w) ==
  /\ Fail(w, "run_group")
  /\ ~RunStillUsed(w)
  /\ \E g \in RunGroups(w) :
       /\ InUse(See(w), g)
       /\ ~Clean(See(w), g, Manual(See(w)[grp(g)].name))

RemoveRunGroup(w) ==
  /\ \E g \in Groups :
       /\ GoWith(w, "run_group", "find_left", [job[w] EXCEPT !.group = g])
       /\ g \in RunGroups(w)
       /\ ~InUse(See(w), g)
  /\ ~RunStillUsed(w)
  /\ Quiet

(***************************************************************************)
(* Removing a group: StudentGroupDeleteView (no transaction around it),    *)
(* and the rest of a leave request that removes its run's group.           *)
(***************************************************************************)

(* Mutant: any group may be removed.                                       *)
MayDeleteAny(g) == g \in Existing(db)

(* DeleteStudentGroup: only manual groups.                                 *)
MayDelete(g) == db[grp(g)].type = "manual"

BeginRemove(w, g) ==
  /\ MayDelete(g)
  /\ Serve(w, "check", [NoJob EXCEPT !.op = "remove", !.group = g])

(* The three refusals of remove(); the page shows the message.             *)
RefuseRemoval(w) ==
  /\ Fail(w, "check")
  /\ InUse(See(w), job[w].group)

CheckRemoval(w) ==
  /\ Go(w, "check", "find_left")
  /\ ~InUse(See(w), job[w].group)
  /\ Quiet

(* Mutant: the filter is_deleted=True is dropped.                          *)
ToMoveEverybody(t, g) == InGroup(t, g)

(* _move_unenrolled_students_to_default_group                              *)
ToMove(t, g) == InGroup(t, g) \intersect Left(t)

FindLeft(w) ==
  /\ Go(w, "find_left",
        IF ToMove(See(w), job[w].group) = {} THEN "delete_group" ELSE "get_group")
  /\ Quiet

(* The UPDATE repeats the filter when it runs.                             *)
MoveLeft(w) ==
  /\ Go(w, "move", "delete_group")
  /\ Put(w, [k \in {enr(s) : s \in ToMove(See(w), job[w].group)} |->
               [See(w)[k] EXCEPT !.group = job[w].to]])
  /\ Fixed

(* on_delete=PROTECT of Enrollment and AssignmentGroup.                    *)
Protected(t, g) == InGroup(t, g) # {} \/ Restricts(t, g) # {}

(* What the collector deletes with the group: its class restrictions.      *)
Deletion(t, g) ==
  Over(Set(grp(g), Removed), [k \in {cls} |-> t[cls] \ {g}])

(* Mutant: on_delete=CASCADE of AssignmentGroup.                           *)
DeleteGroupAndRestrictions(w) ==
  /\ Go(w, "delete_group", IF job[w].op = "leave" THEN "commit" ELSE "idle")
  /\ LET t == See(w)
         g == job[w].group
     IN /\ InGroup(t, g) = {}
        /\ Put(w, Over([k \in {asg(x) : x \in Restricts(t, g)} |->
                         [t[k] EXCEPT !.restricted_to = @ \ {g}]],
                       Deletion(t, g)))
  /\ Fixed

DeleteGroup(w) ==
  /\ Go(w, "delete_group", IF job[w].op = "leave" THEN "commit" ELSE "idle")
  /\ ~Protected(See(w), job[w].group)
  /\ Put(w, Deletion(See(w), job[w].group))
  /\ Fixed

ProtectedError(w) ==
  /\ Fail(w, "delete_group")
  /\ Protected(See(w), job[w].group)

(***************************************************************************)
(* Assignments: AssignmentCreateView, AssignmentUpdateView (each in one    *)
(* transaction) and AssignmentDeleteView.                                  *)
(***************************************************************************)

(* bulk_create_student_assignments: the work of the active students of     *)
(* these groups, created or restored.                                      *)
Given(t, a, groups) ==
  [k \in {sa(a, s) : s \in {u \in Active(t) : t[enr(u)].group \in groups
                                              /\ t[sa(a, u)] # "live"}}
     |-> "live"]

(* bulk_remove_student_assignments: of everybody in these groups.          *)
Taken(t, a, groups) ==
  [k \in {sa(a, s) : s \in {u \in Students : t[enr(u)].group \in groups
                                             /\ t[sa(a, u)] = "live"}}
     |-> "trash"]

(* The form of an assignment, validated, is saved in a transaction.        *)
Save(w, a, only, writes(_)) ==
  LET new == Set(asg(a), [exists |-> TRUE, restricted_to |-> only])
  IN /\ "edit" \in Operations[mode]
     /\ GoWith(w, "idle", "commit", [NoJob EXCEPT !.op = "edit", !.asg = a])
     /\ Write(w, Over(new, writes(Over(new, See(w)))))
     /\ Fixed

CreateAssignment(w, a, only) ==
  LET Works(t) == Given(t, a, {g \in Groups : OpenTo(t, a, g)})
  IN /\ ~db[asg(a)].exists
     /\ Save(w, a, only, Works)

(* sync_student_assignments: a group one of whose students, active or not, *)
(* has the work counts as a group that has it.                             *)
Holding(t, a) ==
  {t[enr(s)].group : s \in {u \in Students : t[sa(a, u)] = "live"}}

Target(t, a) ==
  IF t[asg(a)].restricted_to = {} THEN Existing(t) ELSE t[asg(a)].restricted_to

SyncWrites(t, a) ==
  Over(Given(t, a, Target(t, a) \ Holding(t, a)),
       Taken(t, a, Holding(t, a) \ Target(t, a)))

UpdateAssignment(w, a, only) ==
  LET Works(t) == SyncWrites(t, a)
  IN /\ db[asg(a)].exists
     /\ Save(w, a, only, Works)

DeleteAssignment(w, a) ==
  /\ "delete" \in Operations[mode]
  /\ Go(w, "idle", "idle")
  /\ db[asg(a)].exists
  /\ AutoCommit(w, Over(Set(asg(a), NoAssignment),
                        [k \in {sa(a, s) : s \in {u \in Students :
                                                    db[sa(a, u)] # "none"}}
                           |-> "none"]))
  /\ Fixed

(* Saving a class's form sets its groups.                                  *)
EditClass(w, only) ==
  /\ "edit_class" \in Operations[mode]
  /\ Go(w, "idle", "idle")
  /\ only \intersect BeingRemoved(w) = {}
  /\ Cardinality(only) <= MaxClassGroups
  /\ AutoCommit(w, Set(cls, only))
  /\ Fixed

(***************************************************************************)
(* StudentGroupTransferStudentsView: transfer_students(safe=True) in one   *)
(* transaction.                                                            *)
(***************************************************************************)

(* Mutant: only assignments restricted to other groups are looked at.      *)
SafeTargetsReversed(t, g) ==
  {h \in Existing(t) \ {g} :
     \A a \in CourseAssignments(t) \ Restricts(t, g) : OpenTo(t, a, h)}

(* get_groups_for_safe_transfer                                            *)
SafeTargets(t, g) ==
  {h \in Existing(t) \ {g} : Restricts(t, g) \subseteq Restricts(t, h)}

BeginTransfer(w, who, g, h) ==
  /\ who # {}
  /\ h \in SafeTargets(db, g)
  /\ Serve(w, "move_students",
           [NoJob EXCEPT !.op = "transfer", !.who = who, !.group = g, !.to = h])

MoveStudents(w) ==
  /\ Go(w, "move_students", "fill")
  /\ job[w].who \subseteq InGroup(See(w), job[w].group)
  /\ Write(w, [k \in {enr(s) : s \in job[w].who} |->
                 [See(w)[k] EXCEPT !.group = job[w].to]])
  /\ Fixed

SomeNotMoved(w) ==
  /\ Fail(w, "move_students")
  /\ ~(job[w].who \subseteq InGroup(See(w), job[w].group))

(* Mutant: the difference the other way round.                             *)
InSourceOnly(t, g, h) == AvailableTo(t, g) \ AvailableTo(t, h)

InTargetOnly(t, g, h) == AvailableTo(t, h) \ AvailableTo(t, g)

FillWork(w) ==
  /\ Go(w, "fill", "commit")
  /\ LET t == See(w)
         g == job[w].group
         h == job[w].to
     IN Write(w, [k \in UNION {DOMAIN Given(t, a, {h}) : a \in InTargetOnly(t, g, h)}
                    |-> "live"])
  /\ Fixed

(* bulk_create waits for another transaction that inserted the same        *)
(* student's work, and fails if that one commits: IntegrityError.          *)
FillFails(w) ==
  /\ Fail(w, "fill")
  /\ \E a \in InTargetOnly(See(w), job[w].group, job[w].to),
        s \in InGroup(See(w), job[w].to), v \in Workers \ {w} :
       See(w)[sa(a, s)] = "none" /\ sa(a, s) \in DOMAIN delta[v]

-------------------------------------------------------------------------------
Begin(w) ==
  /\ pc[w] = "idle"
  /\ \/ \E s \in Students : BeginEnroll(w, s) \/ BeginLeave(w, s)
     \/ \E n \in Titles : BeginNewGroup(w, n)
     \/ \E g \in Existing(db) : BeginRemove(w, g)
     \/ \E a \in Assignments : DeleteAssignment(w, a)
     \/ \E a \in Assignments, only \in SUBSET Existing(db) :
          CreateAssignment(w, a, only) \/ UpdateAssignment(w, a, only)
     \/ \E only \in SUBSET Existing(db) : EditClass(w, only)
     \/ \E g, h \in Existing(db) :
          \E who \in SUBSET InGroup(db, g) : BeginTransfer(w, who, g, h)

Continue(w) ==
  \/ FindGroup(w) \/ GroupMissing(w) \/ TwoGroups(w)
  \/ CleanGroup(w) \/ NameTaken(w) \/ InsertGroup(w) \/ OutOfIds(w)
  \/ Activate(w) \/ AlreadyEnrolled(w) \/ Recreate(w)
  \/ Leave(w) \/ KeepRunGroup(w) \/ NoRunGroup(w)
  \/ CastToManual(w) \/ CannotCast(w) \/ RemoveRunGroup(w)
  \/ RefuseRemoval(w) \/ CheckRemoval(w) \/ FindLeft(w) \/ MoveLeft(w)
  \/ DeleteGroup(w) \/ ProtectedError(w)
  \/ MoveStudents(w) \/ SomeNotMoved(w) \/ FillWork(w) \/ FillFails(w)
  \/ Commit(w) \/ CommitFails(w)

Next == \E w \in Workers : Begin(w) \/ Continue(w)

Spec == Init /\ [][Next]_vars

-------------------------------------------------------------------------------
Steps == {"idle", "get_group", "clean_group", "insert_group", "activate",
          "recreate", "leave", "run_group", "check", "find_left", "move",
          "delete_group", "move_students", "fill", "commit"}

(* Rows hold values of their tables, in the database and in transactions;  *)
(* an idle worker has no open transaction.                                 *)
TypeOK ==
  /\ mode \in Modes
  /\ run \in [Students -> Runs]
  /\ DOMAIN db = Rows
  /\ \A k \in Rows : Holds(k, db[k])
  /\ DOMAIN delta = Workers
  /\ \A w \in Workers : /\ DOMAIN delta[w] \subseteq Rows
                        /\ \A k \in DOMAIN delta[w] : Holds(k, delta[w][k])
                        /\ pc[w] = "idle" => delta[w] = NoWrites
  /\ pc \in [Workers -> Steps]
  /\ raced \subseteq Workers

(* A manual course has one default group for ever, so get_or_create never  *)
(* raises MultipleObjectsReturned there, although no constraint says so    *)
(* ("FIXME: add constraint", learning/models.py).                          *)
OneDefaultGroup ==
  mode = "manual" =>
    Cardinality({g \in Existing(db) : db[grp(g)].type = "system"}) = 1

(* Removing a group never opens an assignment to everybody: only staff who *)
(* edit the assignment change what it is restricted to                     *)
(* (StudentGroupService.remove, AssignmentGroup.group on_delete=PROTECT).  *)
RestrictionsOutliveGroups ==
  [][\A a \in Assignments :
       LET before == db[asg(a)]
           after  == db'[asg(a)]
       IN (before.exists /\ after.exists /\ before # after) =>
            \E w \in Workers : /\ Commit(w)
                               /\ job[w].op = "edit"
                               /\ job[w].asg = a]_vars

(* _move_unenrolled_students_to_default_group moves nobody who is active   *)
(* when it runs, whatever happened since the removal was checked: an active*)
(* student changes groups only in a transfer that names him.               *)
OnlyThoseWhoLeftAreMoved ==
  [][\A s \in Students :
       LET before == db[enr(s)]
           after  == db'[enr(s)]
       IN (before.state = "active" /\ after.state = "active" /\ before # after) =>
            \E w \in Workers : /\ Commit(w)
                               /\ job[w].op = "transfer"
                               /\ s \in job[w].who]_vars

Completes(w, op) == Commit(w) /\ job[w].op = op /\ w \notin raced

(* A transfer during which nobody else changed the assignments loses no    *)
(* progress: what a moved student has and his old group may see, his new   *)
(* group may see (get_groups_for_safe_transfer).                           *)
TransferKeepsWork ==
  [][\A w \in Workers : Completes(w, "transfer") =>
       \A s \in job[w].who, a \in CourseAssignments(db') :
         (db'[sa(a, s)] = "live" /\ OpenTo(db', a, job[w].group))
            => OpenTo(db', a, job[w].to)]_vars

(* ... and gives an active student the work of every assignment that his   *)
(* new group may see and his old one may not (transfer_students).          *)
TransferGivesWork ==
  [][\A w \in Workers : Completes(w, "transfer") =>
       \A s \in job[w].who \intersect Active(db') :
         \A a \in AvailableTo(db', job[w].to) \ AvailableTo(db', job[w].group) :
           db'[sa(a, s)] = "live"]_vars

(* A student who has enrolled while nobody changed the assignments has the *)
(* work of every assignment open to his group, however he left before      *)
(* (recreate_assignments_for_student).                                     *)
EnrolledHasWork ==
  [][\A w \in Workers : Completes(w, "enroll") =>
       \A s \in job[w].who, a \in AvailableTo(db', job[w].to) :
         db'[sa(a, s)] = "live"]_vars

(* The waits for rows of other requests never form a cycle: while requests *)
(* are served, one of them can go on.                                      *)
SomebodyGoesOn ==
  (\E w \in Workers : pc[w] # "idle") => \E w \in Workers : ENABLED Continue(w)
===============================================================================
