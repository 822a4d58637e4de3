---------------------------- MODULE CourseAccess ----------------------------
(***************************************************************************)
(* One person, the student profiles and permission roles of the account,    *)
(* and what these let the person do in one course: see it, enter it, leave  *)
(* it, send solutions (learning/permissions.py, users/services.py,          *)
(* alumni/services.py, learning/views/enrollment.py).                       *)
(*                                                                         *)
(* Workers serve the requests that change profiles and enrollments.  A      *)
(* request loads a profile, and writes later what it computed from it; a    *)
(* form of the admin site is one transaction, the other requests commit     *)
(* each statement.  Free seats and the rows of enrollments and personal     *)
(* assignments are the subject of Enrollment and CourseGroups.              *)
(***************************************************************************)
EXTENDS Permissions, Integers, FiniteSets

CONSTANTS
    Requests,    \* workers that serve a request at a time
    MaxProfiles, \* profiles are numbered in the order of their creation
    Runs,        \* academic program runs, records [program, year]
    Bindings,    \* CourseProgramBinding rows of the course
    Statuses,    \* the statuses staff give, of normal, expelled, graduated
    Grades,      \* final grades, 0 when not graded, -1 for a re-credit
    PassFrom,    \* the lowest passing grade
    Staff,       \* parts the person may have in the staff, records [curator, teaches]
    MaxChanges,  \* bound: requests that change the profiles
    NoRun

ASSUME MaxProfilesAssumption == MaxProfiles \in Nat \ {0} /\ MaxChanges \in Nat
ASSUME RunsAssumption == NoRun \notin Runs
ASSUME StatusesAssumption == Statuses \subseteq {"normal", "expelled", "graduated"}
ASSUME GradesAssumption == Grades \subseteq Int /\ 0 \in Grades /\ PassFrom \in Nat \ {0}
\* The part in the staff, of this course or of others, does not change what
\* becomes of the person as a student.
ASSUME StaffAssumption ==
    Staff \subseteq [curator : BOOLEAN, teaches : {"never", "elsewhere", "spectator", "actual"}]
\* The unique constraints of CourseProgramBinding: one per program, one for
\* alumni; a single invitation is modelled.
ASSUME BindingsAssumption ==
    \A a, b \in Bindings : a.kind = b.kind /\ a.program = b.program => a = b

VARIABLES
    prof,       \* StudentProfile rows of the person
    roles,      \* student roles of the account (UserGroup rows)
    invited,    \* profiles that used the invitation (Invitation.enrolled_students)
    enr,        \* the Enrollment row of the person, if any
    work,       \* the person's work on the assignment of the course
    completed,  \* Course.is_completed
    open,       \* bindings whose enrollment_end_date is ahead
    job,        \* what each worker is doing
    tangled,    \* two requests that change the profiles have overlapped
    changes     \* how many such requests there have been

vars == <<prof, roles, invited, enr, work, completed, open, job, tangled, changes>>
account == <<prof, roles, invited>>
course == <<enr, work, completed, open>>

Ids == 1..MaxProfiles
NoProfile == [type |-> "none"]
ProfileTypes == {"regular", "invited", "alumni"}
NoEnrollment == [active |-> FALSE, profile |-> 0]
Idle == [op |-> "idle"]

RoleOf(type) ==
    CASE type = "regular" -> "STUDENT"
      [] type = "invited" -> "INVITED"
      [] type = "alumni" -> "ALUMNI"

----------------------------------------------------------------------------
(* Student profiles. *)

IsActive(p) == p.status # "expelled"

\* get_student_profile_priority: the less the value the higher the priority.
ProfilePriority(type, status) ==
    CASE status \in {"expelled", "graduated"} -> 1200
      [] status = "normal" /\ type = "regular" -> 200
      [] OTHER -> 1000

\* A variant: the priority is computed when the profile is created.
SavedAsItWas(row) == row

\* StudentProfile.save computes the priority of the row it writes.
Saved(row) == [row EXCEPT !.priority = ProfilePriority(row.type, row.status)]

NewProfile(type, run, status) ==
    [type |-> type, status |-> status, run |-> run,
     priority |-> ProfilePriority(type, status)]

Existing == {i \in Ids : prof[i] # NoProfile}
OfType(type) == {i \in Existing : prof[i].type = type}

\* The primary key of the next profile; a request may hold a deleted one.
NextId == LET later == {i \in Ids : (\A j \in Existing : j < i) /\
                            \A r \in Requests : job[r].op # "idle" => job[r].id # i}
          IN  {i \in later : \A k \in later : i <= k}

\* The unique constraints and StudentProfile.clean.
Unique(type, run) ==
    /\ type = "regular" => \A i \in OfType("regular") : prof[i].run # run
    /\ type = "alumni" => OfType("alumni") = {}
    /\ (type = "regular") = (run # NoRun)

\* get_student_profile: by priority, then the latest one.
Before(i, j) ==
    \/ prof[i].priority < prof[j].priority
    \/ prof[i].priority = prof[j].priority /\ i > j
MainProfile ==
    IF Existing = {} THEN 0
    ELSE CHOOSE i \in Existing : \A j \in Existing \ {i} : Before(i, j)

----------------------------------------------------------------------------
(* Who may enter the course. *)

InvitationBindings == {b \in Bindings : b.kind = "invitation"}
ProgramBindings == {b \in Bindings : b.kind = "program"}
AlumniBindings == {b \in Bindings : b.kind = "alumni"}

\* CourseProgramBindingQuerySet.student_can_enroll_by_invitation.
ByInvitation(i) == i \in invited /\ InvitationBindings \intersect open # {}

InProgram(run) == \E b \in ProgramBindings : b.program = run.program

\* CourseQuerySet.student_can_enroll_from_program: two filter() calls, hence
\* two joins of the bindings.
FromProgram(run) ==
    /\ InProgram(run)
    /\ \E b \in ProgramBindings \intersect open : run.year \in b.years

CanEnrollOrLeave(i) ==
    /\ i # 0
    /\ ~completed
    /\ \/ ByInvitation(i)
       \/ prof[i].type = "alumni" /\ AlumniBindings \intersect open # {}
       \/ prof[i].type # "alumni" /\ prof[i].run # NoRun /\ FromProgram(prof[i].run)

\* A variant: enroll looks for an open binding once more.
OpenBindingsFor(i, byInvitation) ==
    open \intersect
      CASE byInvitation -> InvitationBindings
        [] ~byInvitation /\ prof[i].type = "regular" ->
             {b \in ProgramBindings : b.program = prof[i].run.program}
        [] ~byInvitation /\ prof[i].type = "alumni" -> AlumniBindings
        [] OTHER -> {}

\* The binding EnrollmentService.enroll gives to the enrollment.
BindingsFor(i, byInvitation) ==
    CASE byInvitation -> InvitationBindings
      [] ~byInvitation /\ prof[i].type = "regular" ->
           {b \in ProgramBindings : b.program = prof[i].run.program}
      [] ~byInvitation /\ prof[i].type = "alumni" -> AlumniBindings
      [] OTHER -> {}

----------------------------------------------------------------------------
(* What the rules of the permissions say of the person. *)

IsFailed == completed /\ enr.grade < PassFrom

\* Course.teachers, and CourseTeacher without the spectator flag.
Teaches(s) == s.teaches \in {"spectator", "actual"}
IsActualTeacher(s) == s.teaches = "actual"

RegularAccess == enr.active /\ ~IsFailed /\ IsActive(prof[enr.profile])

\* course_access_role: a teacher has a higher precedence than a student.
CourseRole(s) ==
    CASE s.curator -> "CURATOR"
      [] ~s.curator /\ Teaches(s) -> "TEACHER"
      [] OTHER ->
           CASE RegularAccess -> "STUDENT_REGULAR"
             [] enr.active /\ ~RegularAccess -> "STUDENT_RESTRICT"
             [] OTHER -> IF CanEnrollOrLeave(MainProfile)
                         THEN "STUDENT_CAN_ENROLL" ELSE "NO_ROLE"

\* A variant: only those who have entered the course may see it.
CanViewCourseInside(s) == CourseRole(s) \notin {"NO_ROLE", "STUDENT_CAN_ENROLL"}

\* can_view_course.
CanViewCourse(s) ==
    CourseRole(s) \in {"TEACHER", "CURATOR", "STUDENT_REGULAR", "STUDENT_RESTRICT",
                    "STUDENT_CAN_ENROLL"}

HasActiveStatus(s) == s.curator \/ (MainProfile # 0 /\ IsActive(prof[MainProfile]))

\* learner_has_access_to_the_assignment, for the person's own open assignment.
HasAccessToTheAssignment == work # "none" /\ enr.active /\ (RegularAccess \/ work = "touched")

\* Objects: something of the course that is or is not the person's own (an
\* account, an enrollment, a personal assignment), the course itself by its
\* group mode, a student group, a class by who may see its materials.
Own == [mine |-> TRUE]
SomebodyElses == [mine |-> FALSE]
Courses == [mode : {"manual", "program_run", "no_groups"}]
Groups == [manual : BOOLEAN, restricted : BOOLEAN, occupied : BOOLEAN]
Classes == [materials : {"participants", "course_participants"}]

\* courses/permissions.py.  Some rules ask whether the person teaches the
\* course, spectators included, most for an actual teacher.
CourseRule(s, p) ==
    CASE p = "ViewCourse" -> CanViewCourse(s)
      [] p \in {"ViewCourseInternalDescriptionAsTeacher", "ViewCourseContactsAsTeacher",
                "ViewOwnAssignment"} -> Teaches(s)
      [] p \in {"EditOwnCourse", "CreateOwnAssignment", "EditOwnAssignment",
                "DeleteOwnAssignment", "DeleteAssignmentAttachmentAsTeacher",
                "CreateOwnCourseClass", "EditOwnCourseClass", "DeleteOwnCourseClass"} ->
           IsActualTeacher(s)
      [] p = "ViewCourseContactsAsLearner" -> enr.active
      [] p = "ViewCourseInternalDescriptionAsLearner" -> RegularAccess
CoursePermissions ==
    {"ViewCourse", "ViewCourseInternalDescriptionAsTeacher", "ViewCourseContactsAsTeacher",
     "ViewOwnAssignment", "EditOwnCourse", "CreateOwnAssignment", "EditOwnAssignment",
     "DeleteOwnAssignment", "DeleteAssignmentAttachmentAsTeacher", "CreateOwnCourseClass",
     "EditOwnCourseClass", "DeleteOwnCourseClass", "ViewCourseContactsAsLearner",
     "ViewCourseInternalDescriptionAsLearner"}

\* News, reviews, enrollments and the pages of an active student.
LearningRule(s, p, o) ==
    CASE p = "ViewCourseNews" ->
           CourseRole(s) \notin {"NO_ROLE", "STUDENT_RESTRICT", "STUDENT_CAN_ENROLL"}
      [] p \in {"CreateOwnCourseNews", "EditOwnCourseNews", "DeleteOwnCourseNews",
                "ViewCourseEnrollments", "ViewCourseEnrollment"} -> IsActualTeacher(s)
      [] p = "ViewCourseReviews" -> ~completed
      [] p = "ViewOwnEnrollment" -> o.mine
      [] p \in {"ViewOwnEnrollments", "ViewLibrary", "ViewOwnStudentAssignments",
                "ViewSchedule", "ViewCourses"} -> HasActiveStatus(s)
LearningPermissions ==
    {"ViewCourseNews", "CreateOwnCourseNews", "EditOwnCourseNews", "DeleteOwnCourseNews",
     "ViewCourseEnrollments", "ViewCourseEnrollment", "ViewCourseReviews",
     "ViewOwnEnrollment", "ViewOwnEnrollments", "ViewLibrary", "ViewOwnStudentAssignments",
     "ViewSchedule", "ViewCourses"}

\* Personal assignments, their comments and attachments, the gradebook.
WorkRule(s, p, o) ==
    CASE p \in {"ViewRelatedStudentAssignment", "EditOwnStudentAssignment",
                "EditOwnGradebook", "CreateAssignmentCommentAsTeacher",
                "ViewAssignmentCommentAttachmentAsTeacher"} -> IsActualTeacher(s)
      [] p \in {"ViewOwnGradebook", "ViewAssignmentAttachmentAsTeacher"} -> Teaches(s)
      [] p \in {"ViewOwnStudentAssignment", "ViewAssignmentAttachmentAsLearner",
                "ViewAssignmentCommentAttachmentAsLearner"} ->
           o.mine /\ HasAccessToTheAssignment
      [] p \in {"CreateAssignmentCommentAsLearner", "CreateOwnAssignmentSolution"} ->
           o.mine /\ MainProfile # 0 /\ IsActive(prof[MainProfile])
WorkPermissions ==
    {"ViewRelatedStudentAssignment", "EditOwnStudentAssignment", "EditOwnGradebook",
     "CreateAssignmentCommentAsTeacher", "ViewAssignmentCommentAttachmentAsTeacher",
     "ViewOwnGradebook", "ViewAssignmentAttachmentAsTeacher", "ViewOwnStudentAssignment",
     "ViewAssignmentAttachmentAsLearner", "ViewAssignmentCommentAttachmentAsLearner",
     "CreateAssignmentCommentAsLearner", "CreateOwnAssignmentSolution"}

\* Student groups: o is the course or the group.
GroupRule(s, p, o) ==
    CASE p = "CreateStudentGroup" -> o.mode # "no_groups"
      [] p = "CreateStudentGroupAsTeacher" -> o.mode = "manual" /\ IsActualTeacher(s)
      [] p = "ViewStudentGroupAsTeacher" -> Teaches(s)
      [] p = "UpdateStudentGroupAsTeacher" -> o.manual /\ IsActualTeacher(s)
      [] p = "DeleteStudentGroup" -> o.manual
      [] p = "DeleteStudentGroupAsTeacher" ->
           o.manual /\ IsActualTeacher(s) /\ ~o.restricted /\ ~o.occupied
GroupPermissions ==
    {"CreateStudentGroup", "CreateStudentGroupAsTeacher", "ViewStudentGroupAsTeacher",
     "UpdateStudentGroupAsTeacher", "DeleteStudentGroup", "DeleteStudentGroupAsTeacher"}

\* users/permissions.py: accounts and profiles.
UserRule(s, p, o) ==
    CASE p \in {"ViewOwnProfile", "ViewOwnAccountConnectedServiceProvider"} -> o.mine
      [] p = "ViewLearnerProfile" -> IsActualTeacher(s) /\ (o.mine => enr.active)
      [] p = "UpdateStudentProfileStudentId" -> s.curator \/ o.mine
UserPermissions ==
    {"ViewOwnProfile", "ViewOwnAccountConnectedServiceProvider", "ViewLearnerProfile",
     "UpdateStudentProfileStudentId"}

\* The roles RBACPermissions.has_perm asks, of an authenticated user.
StaffRoles(s) == (IF s.curator THEN {"CURATOR"} ELSE {}) \union
                 (IF s.teaches # "never" THEN {"TEACHER"} ELSE {})
Held(s) == roles \union StaffRoles(s) \union {"AUTHENTICATED", "ANONYMOUS"}

\* ViewCourseClassMaterials, which everybody has: the materials are for those
\* who may open the course page (no relation implies ViewCourse), or for those
\* who take part in the course.
ViewsCourse(s) == CanViewCourse(s) /\ \E r \in Held(s) : "ViewCourse" \in Granted[r]
MaterialsRule(s, o) ==
    IF o.materials = "participants" THEN ViewsCourse(s)
    ELSE CourseRole(s) \in {"TEACHER", "CURATOR", "STUDENT_REGULAR"}

\* EnrollInCourse and LeaveCourse, for the profile of the permission object.
EnrollRule(i) == i # 0 /\ IsActive(prof[i]) /\ CanEnrollOrLeave(i)
LeaveRule(i) == enr.active /\ CanEnrollOrLeave(i)

\* Permission.rule of permission p on an object; by default it says yes.  The
\* time spent on an assignment is not asked for.
Rule(s, p, o) ==
    CASE p \in CoursePermissions -> CourseRule(s, p)
      [] p \in LearningPermissions -> LearningRule(s, p, o)
      [] p \in WorkPermissions -> WorkRule(s, p, o)
      [] p \in GroupPermissions -> GroupRule(s, p, o)
      [] p \in UserPermissions -> UserRule(s, p, o)
      [] p = "ViewCourseClassMaterials" /\ o \in Classes -> MaterialsRule(s, o)
      [] p = "EnrollInCourse" -> EnrollRule(MainProfile)
      [] p = "LeaveCourse" -> LeaveRule(MainProfile)
      [] OTHER -> TRUE

Allows(s, asked, p, o) == HasPerm([q \in Permissions |-> Rule(s, q, o)], asked, p)
MayDo(s, p, o) == Allows(s, Held(s), p, o)

\* A student who is not on the staff.
JustStudent == [curator |-> FALSE, teaches |-> "never"]

----------------------------------------------------------------------------
(* The state. *)

ProfileRows(type, status, run) ==
    [type : type, status : status, run : run, priority : {200, 1000, 1200}]
Profiles ==
    ProfileRows({"regular"}, {"normal", "expelled", "graduated"}, Runs) \union
    ProfileRows({"invited", "alumni"}, {"normal", "expelled", "graduated"}, {NoRun})

JobTypes ==
    {Idle} \union
    [op : {"save", "promote"}, id : Ids, row : Profiles] \union
    [op : {"status", "status_saved"}, id : Ids, row : Profiles,
     new : {"normal", "expelled", "graduated"}, role : {"assign", "revoke", "keep"}] \union
    [op : {"register"}, id : {0}, run : Runs] \union
    [op : {"invite"}, id : Ids] \union
    [op : {"enroll", "refused"}, id : Ids, invitation : BOOLEAN]

\* A new account, or one whose application has been accepted.
Init ==
    /\ \/ prof = [i \in Ids |-> NoProfile] /\ roles = {}
       \/ \E run \in Runs :
            /\ prof = [i \in Ids |-> IF i = 1 THEN NewProfile("regular", run, "normal")
                                              ELSE NoProfile]
            /\ roles = {"STUDENT"}
    /\ invited = {}
    /\ enr = NoEnrollment
    /\ work = "none"
    /\ completed = FALSE
    /\ open = Bindings
    /\ job = [r \in Requests |-> Idle]
    /\ tangled = FALSE
    /\ changes = 0

\* The transaction of an admin form has written the row and not committed.
Locked(i) == \E r \in Requests : job[r].op = "status_saved" /\ job[r].id = i

ChangesProfiles(j) == j.op \notin {"idle", "enroll", "refused"}
Tangles(r) == \E q \in Requests \ {r} : ChangesProfiles(job[q])

Begin(r, j) ==
    /\ job[r] = Idle
    /\ job' = [job EXCEPT ![r] = j]
Counted(r) ==
    /\ changes < MaxChanges
    /\ changes' = changes + 1
    /\ tangled' = (tangled \/ Tangles(r))
Uncounted == UNCHANGED <<tangled, changes>>
Done(r) == job' = [job EXCEPT ![r] = Idle] /\ Uncounted

----------------------------------------------------------------------------
(* Profiles come into being. *)

\* StudentApplicationView.dispatch and the first statement of form_valid.
BeginRegister(r, run) ==
    /\ \A i \in OfType("regular") : prof[i].run # run
    /\ roles' = roles \union {"STUDENT"}
    /\ Begin(r, [op |-> "register", id |-> 0, run |-> run])
    /\ Counted(r)
    /\ UNCHANGED <<prof, invited, course>>

\* profile.save(): the constraints refuse the profile of a second submission.
Register(r) ==
    /\ job[r].op = "register"
    /\ IF Unique("regular", job[r].run)
       THEN \E i \in NextId :
              prof' = [prof EXCEPT ![i] = NewProfile("regular", job[r].run, "normal")]
       ELSE UNCHANGED prof
    /\ Done(r)
    /\ UNCHANGED <<roles, invited, course>>

\* is_student_profile_valid: an invited profile counts in its term only.
InvitationReuses(i, sameTerm) ==
    i # 0 /\ IsActive(prof[i]) /\ (prof[i].type = "invited" => sameTerm)

\* InvitationView.form_valid with a valid profile.
AcceptInvitation(r) ==
    /\ job[r] = Idle
    /\ invited = {}
    /\ \E sameTerm \in BOOLEAN : InvitationReuses(MainProfile, sameTerm)
    /\ invited' = {MainProfile}
    /\ UNCHANGED <<prof, roles, course, job, tangled, changes>>

\* The same without one: create_student_profile saves an invited profile ...
BeginInvite(r) ==
    /\ invited = {}
    /\ \E sameTerm \in BOOLEAN : ~InvitationReuses(MainProfile, sameTerm)
    /\ \E i \in NextId :
         /\ prof' = [prof EXCEPT ![i] = NewProfile("invited", NoRun, "normal")]
         /\ Begin(r, [op |-> "invite", id |-> i])
    /\ Counted(r)
    /\ UNCHANGED <<roles, invited, course>>

\* ... assigns the role, and the view remembers who used the invitation.  The
\* profile may have been deleted: the foreign key refuses the last statement.
Invite(r) ==
    /\ job[r].op = "invite"
    /\ roles' = roles \union {"INVITED"}
    /\ invited' = IF job[r].id \in Existing THEN invited \union {job[r].id} ELSE invited
    /\ Done(r)
    /\ UNCHANGED <<prof, course>>

\* StudentProfileAdmin.save_model of a new profile, one transaction.
AdminCreate(r, type, run, status) ==
    /\ job[r] = Idle
    /\ Unique(type, run)
    /\ \E i \in NextId : prof' = [prof EXCEPT ![i] = NewProfile(type, run, status)]
    /\ roles' = IF status # "expelled" THEN roles \union {RoleOf(type)} ELSE roles
    /\ Counted(r)
    /\ UNCHANGED <<invited, course, job>>

----------------------------------------------------------------------------
(* Profiles change. *)

\* A request loads a profile: a student number, a consent or a status is about
\* to be saved, or a student of those the promotion page offers is promoted.
BeginSave(r, i) ==
    /\ i \in Existing
    /\ Begin(r, [op |-> "save", id |-> i, row |-> prof[i]])
    /\ Counted(r)
    /\ UNCHANGED <<account, course>>

BeginPromote(r, i) ==
    /\ i \in OfType("regular") /\ prof[i].status = "normal"
    /\ Begin(r, [op |-> "promote", id |-> i, row |-> prof[i]])
    /\ Counted(r)
    /\ UNCHANGED <<account, course>>

BeginStatus(r, i, new) ==
    /\ i \in Existing
    /\ new # prof[i].status
    /\ Begin(r, [op |-> "status", id |-> i, row |-> prof[i], new |-> new, role |-> "keep"])
    /\ Counted(r)
    /\ UNCHANGED <<account, course>>

\* StudentProfile.save() writes every column; a row deleted meanwhile comes back.
MayBeSaved(r) ==
    /\ ~Locked(job[r].id)
    /\ job[r].row.type = "alumni" => OfType("alumni") \subseteq {job[r].id}
    /\ job[r].row.type = "regular" =>
         \A i \in OfType("regular") \ {job[r].id} : prof[i].run # job[r].row.run

SaveProfile(r) ==
    /\ job[r].op = "save"
    /\ MayBeSaved(r)
    /\ prof' = [prof EXCEPT ![job[r].id] = Saved(job[r].row)]
    /\ Done(r)
    /\ UNCHANGED <<roles, invited, course>>

\* promote_to_alumni, one transaction.
Promote(r) ==
    /\ job[r].op = "promote"
    /\ MayBeSaved(r)
    /\ LET graduated == [prof EXCEPT ![job[r].id] =
                             Saved([job[r].row EXCEPT !.status = "graduated"])]
       IN  IF OfType("alumni") = {}
           THEN /\ \E i \in NextId :
                     prof' = [graduated EXCEPT ![i] = NewProfile("alumni", NoRun, "normal")]
                /\ roles' = roles \union {"ALUMNI"}
           ELSE prof' = graduated /\ UNCHANGED roles
    /\ Done(r)
    /\ UNCHANGED <<invited, course>>

\* A variant: the other profiles do not count.
WhateverTheOthers(i, type) == TRUE

\* A variant: the profiles are looked at before the new status is written.
NoneActiveYet(i, type) == \A k \in OfType(type) : ~IsActive(prof[k])

\* No profile of the type but i is active: maybe_unassign_student_role.
NoneActiveBut(i, type) == \A k \in OfType(type) \ {i} : ~IsActive(prof[k])

\* StudentStatusTransition.resolve and assign_or_revoke_student_role.
RoleChange(type, i, old, new) ==
    CASE old # "expelled" /\ new = "expelled" /\ NoneActiveBut(i, type) -> "revoke"
      [] old = "expelled" /\ new # "expelled" /\ RoleOf(type) \notin roles -> "assign"
      [] OTHER -> "keep"

\* update_student_status in the transaction of the admin form: the row is
\* written and the role decided on what the others have committed.  The row
\* must still be there, for the first save() names its columns.
UpdateStatus(r) ==
    /\ job[r].op = "status"
    /\ ~Locked(job[r].id)
    /\ IF job[r].id \in Existing
       THEN /\ job' = [job EXCEPT ![r].op = "status_saved",
                ![r].role = RoleChange(job[r].row.type, job[r].id, job[r].row.status, job[r].new)]
            /\ Uncounted
       ELSE Done(r)
    /\ UNCHANGED <<account, course>>

\* The commit, after save_model has written the whole row once more.
CommitStatus(r) ==
    /\ job[r].op = "status_saved"
    /\ prof' = [prof EXCEPT ![job[r].id] = Saved([job[r].row EXCEPT !.status = job[r].new])]
    /\ roles' = CASE job[r].role = "assign" -> roles \union {RoleOf(job[r].row.type)}
                  [] job[r].role = "revoke" -> roles \ {RoleOf(job[r].row.type)}
                  [] OTHER -> roles
    /\ Done(r)
    /\ UNCHANGED <<invited, course>>

\* A variant: the enrollment stays when its profile is deleted.
AdminDeleteProfileOnly(r, i) ==
    /\ job[r] = Idle
    /\ i \in Existing /\ ~Locked(i)
    /\ prof' = [prof EXCEPT ![i] = NoProfile]
    /\ invited' = invited \ {i}
    /\ roles' = IF NoneActiveBut(i, prof[i].type)
                THEN roles \ {RoleOf(prof[i].type)} ELSE roles
    /\ Counted(r)
    /\ UNCHANGED <<course, job>>

\* Deletion in the admin site: the enrollment goes with the profile, and
\* post_delete_student_profile looks at the profiles that are left.
AdminDelete(r, i) ==
    /\ job[r] = Idle
    /\ i \in Existing /\ ~Locked(i)
    /\ prof' = [prof EXCEPT ![i] = NoProfile]
    /\ invited' = invited \ {i}
    /\ enr' = IF enr.profile = i THEN NoEnrollment ELSE enr
    /\ roles' = IF NoneActiveBut(i, prof[i].type)
                THEN roles \ {RoleOf(prof[i].type)} ELSE roles
    /\ Counted(r)
    /\ UNCHANGED <<work, completed, open, job>>

----------------------------------------------------------------------------
(* The course. *)

\* CourseEnrollView: the profile and the invitation are loaded, the permission
\* is checked.
BeginEnroll(r) ==
    /\ MayDo(JustStudent, "EnrollInCourse", Own)
    /\ Begin(r, [op |-> "enroll", id |-> MainProfile, invitation |-> ByInvitation(MainProfile)])
    /\ Uncounted
    /\ UNCHANGED <<account, course>>

\* EnrollmentService.enroll: no binding for the profile is a ValidationError
\* nobody catches, an active enrollment is left alone.  The grade outlives a
\* leave, and so does work that has comments.
Enroll(r) ==
    /\ job[r].op = "enroll"
    /\ job[r].id \in Existing
    /\ LET found == BindingsFor(job[r].id, job[r].invitation) # {}
       IN  /\ IF found THEN Done(r)
              ELSE job' = [job EXCEPT ![r].op = "refused"] /\ Uncounted
           /\ IF ~found \/ enr.active
              THEN UNCHANGED <<enr, work>>
              ELSE /\ enr' = [active |-> TRUE, profile |-> job[r].id,
                              grade |-> IF enr = NoEnrollment THEN 0 ELSE enr.grade]
                   /\ work' = IF work = "none" THEN "untouched" ELSE work
    /\ UNCHANGED <<account, completed, open>>

\* A profile deleted meanwhile fails on the foreign key of the enrollment.
EnrollFails(r) ==
    /\ job[r].op = "enroll"
    /\ job[r].id \notin Existing
    /\ Done(r)
    /\ UNCHANGED <<account, course>>

\* CourseUnenrollView.
Leave(r) ==
    /\ job[r] = Idle
    /\ MayDo(JustStudent, "LeaveCourse", Own)
    /\ enr' = [enr EXCEPT !.active = FALSE]
    /\ UNCHANGED <<account, work, completed, open, job, tangled, changes>>

\* The person sends a solution or a comment.
SendSolution(r) ==
    /\ job[r] = Idle
    /\ work = "untouched"
    /\ MayDo(JustStudent, "CreateAssignmentSolution", Own)
    /\ work' = "touched"
    /\ UNCHANGED <<account, enr, completed, open, job, tangled, changes>>

\* A teacher gives the final grade.
SetGrade(g) ==
    /\ enr # NoEnrollment /\ enr.active
    /\ g # enr.grade
    /\ enr' = [enr EXCEPT !.grade = g]
    /\ UNCHANGED <<account, work, completed, open, job, tangled, changes>>

\* Time passes: enrollment through a binding ends, the course is completed and
\* nobody asks for its bindings any more.
CloseEnrollment(b) ==
    /\ b \in open
    /\ open' = open \ {b}
    /\ UNCHANGED <<account, enr, work, completed, job, tangled, changes>>

CompleteCourse ==
    /\ ~completed
    /\ completed' = TRUE
    /\ open' = {}
    /\ UNCHANGED <<account, enr, work, job, tangled, changes>>

----------------------------------------------------------------------------
Create(r) ==
    \/ \E run \in Runs : BeginRegister(r, run)
    \/ Register(r)
    \/ AcceptInvitation(r)
    \/ BeginInvite(r)
    \/ Invite(r)
    \/ \E type \in ProfileTypes, run \in Runs \union {NoRun}, status \in Statuses :
         AdminCreate(r, type, run, status)

Change(r) ==
    \/ \E i \in Ids : BeginSave(r, i) \/ BeginPromote(r, i) \/ AdminDelete(r, i)
    \/ \E i \in Ids, new \in Statuses : BeginStatus(r, i, new)
    \/ SaveProfile(r)
    \/ Promote(r)
    \/ UpdateStatus(r)
    \/ CommitStatus(r)

Study(r) ==
    \/ BeginEnroll(r)
    \/ Enroll(r)
    \/ EnrollFails(r)
    \/ Leave(r)
    \/ SendSolution(r)

Next ==
    \/ \E r \in Requests : Create(r) \/ Change(r) \/ Study(r)
    \/ \E g \in Grades : SetGrade(g)
    \/ \E b \in Bindings : CloseEnrollment(b)
    \/ CompleteCourse

Spec == Init /\ [][Next]_vars

----------------------------------------------------------------------------
\* Every variable has its type, and what refers to a profile refers to one that
\* exists: the enrollment and the invitation go with it.
TypeOK ==
    /\ prof \in [Ids -> Profiles \union {NoProfile}]
    /\ roles \subseteq StudentRoles
    /\ invited \subseteq Existing
    /\ enr \in {NoEnrollment} \union [active : BOOLEAN, profile : Existing, grade : Grades]
    /\ work \in {"none", "untouched", "touched"}
    /\ completed \in BOOLEAN
    /\ open \subseteq Bindings
    /\ job \in [Requests -> JobTypes]
    /\ tangled \in BOOLEAN
    /\ changes \in 0..MaxChanges

\* "Don't terminate access check here since less priority role still could
\* have a permission relation that returns positive result": whatever one of
\* a user's roles allows, all of them together allow, on every object.
ObjectsOf(p) ==
    CASE p = "CreateStudentGroup" -> Courses
      [] p \in {"UpdateStudentGroup", "DeleteStudentGroup"} -> Groups
      [] p \in DOMAIN StudentRelations -> {Own, SomebodyElses}
      [] OTHER -> {Own}
GivenBy == [p \in SharedPermissions |->
               {r \in DOMAIN Granted : p \in Granted[r] \/ Related(r, p) # {}}]
Contested == [held \in SUBSET DOMAIN Granted |->
                 {p \in SharedPermissions : Cardinality(GivenBy[p] \intersect held) > 1}]
RolesOnlyAdd ==
    \A s \in Staff :
      LET held == Held(s)
      IN  \A p \in Contested[held] : \A o \in ObjectsOf(p) :
            ~Allows(s, held, p, o) =>
              \A r \in GivenBy[p] \intersect held : ~Allows(s, {r}, p, o)

\* Everything the course page offers, the enroll and leave buttons included,
\* is offered to somebody who may open the page.
OnCoursePage ==
    {"EnrollInCourse", "LeaveCourse", "ViewCourseNews", "ViewCourseContacts",
     "ViewCourseInternalDescription", "ViewStudentGroup", "CreateAssignment", "EditCourse"}
CoursePageIsReachable ==
    \A s \in Staff :
      (\E p \in OnCoursePage : MayDo(s, p, Own)) => MayDo(s, "ViewCourse", Own)

\* The profile everything is decided on is one of a student who studies, if
\* there is one, and of a regular student rather than of a guest: the priority
\* column is never older than the status it was computed from.
MainProfileStudies ==
    /\ (\E i \in Existing : prof[i].status = "normal")
       => prof[MainProfile].status = "normal"
    /\ (\E i \in OfType("regular") : prof[i].status = "normal")
       => prof[MainProfile].type = "regular"

NothingOverlapped == (\A r \in Requests : ~ChangesProfiles(job[r])) /\ ~tangled

\* The materials of a class are seen by nobody who may not open the page that
\* lists them: the rule asks for a part in the course, which the enrollment and
\* its profile give, the page for a role of the account.
MaterialsComeWithThePage ==
    NothingOverlapped =>
      \A s \in Staff, o \in Classes :
        MayDo(s, "ViewCourseClassMaterials", o) => MayDo(s, "ViewCourse", Own)

\* When no two requests have changed the profiles at the same time: a student
\* role is held while a profile of its type is not expelled, and only then.
RolesFollowProfiles ==
    NothingOverlapped =>
      \A type \in ProfileTypes :
        RoleOf(type) \in roles <=> \E i \in OfType(type) : IsActive(prof[i])

\* Who passed the permission check finds a binding to enroll through: the two
\* look for it in different ways, and enrollment may end in between.
PermittedIsAccepted == \A r \in Requests : job[r].op # "refused"

\* "Adding another course program binding shouldn't affect existing ones": a
\* student enrolls from a program while the binding of that program is open.
EnrollsThroughOwnBinding ==
    [][\A r \in Requests :
         job'[r].op = "enroll" /\ job[r].op # "enroll" /\ ~job'[r].invitation
           /\ prof[job'[r].id].type = "regular" =>
           \E b \in ProgramBindings \intersect open :
             b.program = prof[job'[r].id].run.program
               /\ prof[job'[r].id].run.year \in b.years]_vars
=============================================================================
