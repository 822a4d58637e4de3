---------------------------- MODULE Permissions ----------------------------
(***************************************************************************)
(* Role-based access control of the LMS: which permissions each role has,   *)
(* which permission implies which on an object, and how a user's roles are  *)
(* combined (auth/backends.py).  A permission is named by its class; the    *)
(* rules, which depend on the state of the application, are a function given *)
(* to HasPerm.                                                              *)
(***************************************************************************)
EXTENDS Naturals

StudentRoles == {"STUDENT", "INVITED", "ALUMNI"}

\* The less the value the earlier a role is asked.
Priority ==
    [CURATOR |-> 0, TEACHER |-> 30, STUDENT |-> 50, INVITED |-> 100,
     ALUMNI |-> 100, AUTHENTICATED |-> 900, ANONYMOUS |-> 1000]

CuratorPermissions ==
    {"ViewProfile", "AccessTeacherSection", "ViewAccountConnectedServiceProvider",
     "ViewCourse", "ViewCourseInternalDescription", "EditCourse",
     "CreateCertificateOfParticipation", "ViewCertificateOfParticipation",
     "EditMetaCourse", "CreateAssignment", "EditAssignment", "ViewAssignment",
     "DeleteAssignment", "ViewCourseContacts", "ViewCourseAssignments",
     "ViewStudentAssignment", "ViewStudentAssignmentList", "EditStudentAssignment",
     "CreateCourseClass", "EditCourseClass", "DeleteCourseClass", "ViewCourseNews",
     "CreateCourseNews", "EditCourseNews", "DeleteCourseNews", "ViewCourseReviews",
     "ViewLibrary", "ViewEnrollments", "ViewEnrollment",
     "CreateAssignmentCommentAsTeacher", "ViewGradebook", "EditGradebook",
     "CreateAssignmentComment", "CreateAssignmentSolution",
     "DownloadAssignmentSolutions", "ViewAssignmentAttachment",
     "DeleteAssignmentAttachment", "ViewAssignmentCommentAttachment",
     "ViewStudentGroup", "UpdateStudentGroup", "DeleteStudentGroup",
     "CreateStudentGroup", "UpdateStudentProfileStudentId", "ViewAlumniMenu"}

TeacherPermissions ==
    {"ViewOwnProfile", "ViewLearnerProfile", "ViewTeachingMenu",
     "AccessTeacherSection", "ViewCourse", "ViewCourseInternalDescriptionAsTeacher",
     "EditOwnCourse", "ViewCourseContactsAsTeacher", "ViewCourseNews",
     "CreateOwnCourseNews", "EditOwnCourseNews", "DeleteOwnCourseNews",
     "CreateOwnAssignment", "EditOwnAssignment", "ViewOwnAssignment",
     "DeleteOwnAssignment", "ViewCourseAssignments", "ViewRelatedStudentAssignment",
     "ViewStudentAssignmentList", "EditOwnStudentAssignment", "CreateOwnCourseClass",
     "EditOwnCourseClass", "DeleteOwnCourseClass", "ViewCourseEnrollments",
     "ViewCourseEnrollment", "ViewAssignmentAttachmentAsTeacher",
     "CreateAssignmentCommentAsTeacher", "ViewAssignmentCommentAttachmentAsTeacher",
     "DeleteAssignmentAttachmentAsTeacher", "ViewOwnGradebook", "EditOwnGradebook",
     "ViewStudentGroupAsTeacher", "UpdateStudentGroupAsTeacher",
     "DeleteStudentGroupAsTeacher", "CreateStudentGroupAsTeacher"}

CommonStudentPermissions ==
    {"ViewOwnProfile", "ViewCourse", "ViewCourseInternalDescriptionAsLearner",
     "ViewStudyMenu", "ViewCourseContactsAsLearner", "ViewCourseAssignments",
     "ViewCourseNews", "ViewCourseReviews", "ViewOwnEnrollments", "ViewOwnEnrollment",
     "ViewOwnStudentAssignments", "ViewOwnStudentAssignment",
     "ViewAssignmentAttachmentAsLearner", "CreateAssignmentCommentAsLearner",
     "CreateOwnAssignmentSolution", "ViewAssignmentCommentAttachmentAsLearner",
     "EditOwnAssignmentExecutionTime", "ViewCourses", "ViewSchedule", "ViewLibrary",
     "EnrollInCourse", "LeaveCourse"}

\* Role.permissions of every registered role.
Granted ==
    [CURATOR |-> CuratorPermissions,
     TEACHER |-> TeacherPermissions,
     STUDENT |-> CommonStudentPermissions \union {"UpdateStudentProfileStudentId"},
     INVITED |-> CommonStudentPermissions,
     ALUMNI |-> CommonStudentPermissions \union {"ViewAlumniMenu"},
     AUTHENTICATED |-> {"ViewOwnAccountConnectedServiceProvider"},
     ANONYMOUS |-> {"ViewCourseClassMaterials"}]

\* The permissions that imply permission p on an object, for a teacher.
TeacherRelations ==
    [ViewProfile |-> {"ViewOwnProfile", "ViewLearnerProfile"},
     ViewCourseContacts |-> {"ViewCourseContactsAsTeacher"},
     ViewCourseInternalDescription |-> {"ViewCourseInternalDescriptionAsTeacher"},
     EditCourse |-> {"EditOwnCourse"},
     ViewAssignmentAttachment |-> {"ViewAssignmentAttachmentAsTeacher"},
     DeleteAssignmentAttachment |-> {"DeleteAssignmentAttachmentAsTeacher"},
     CreateAssignmentComment |-> {"CreateAssignmentCommentAsTeacher"},
     ViewAssignmentCommentAttachment |-> {"ViewAssignmentCommentAttachmentAsTeacher"},
     ViewStudentAssignment |-> {"ViewRelatedStudentAssignment"},
     EditStudentAssignment |-> {"EditOwnStudentAssignment"},
     CreateCourseClass |-> {"CreateOwnCourseClass"},
     EditCourseClass |-> {"EditOwnCourseClass"},
     DeleteCourseClass |-> {"DeleteOwnCourseClass"},
     CreateCourseNews |-> {"CreateOwnCourseNews"},
     EditCourseNews |-> {"EditOwnCourseNews"},
     DeleteCourseNews |-> {"DeleteOwnCourseNews"},
     CreateAssignment |-> {"CreateOwnAssignment"},
     EditAssignment |-> {"EditOwnAssignment"},
     ViewAssignment |-> {"ViewOwnAssignment"},
     DeleteAssignment |-> {"DeleteOwnAssignment"},
     ViewEnrollments |-> {"ViewCourseEnrollments"},
     ViewEnrollment |-> {"ViewCourseEnrollment"},
     ViewGradebook |-> {"ViewOwnGradebook"},
     EditGradebook |-> {"EditOwnGradebook"},
     ViewStudentGroup |-> {"ViewStudentGroupAsTeacher"},
     CreateStudentGroup |-> {"CreateStudentGroupAsTeacher"},
     DeleteStudentGroup |-> {"DeleteStudentGroupAsTeacher"},
     UpdateStudentGroup |-> {"UpdateStudentGroupAsTeacher"}]

StudentRelations ==
    [ViewProfile |-> {"ViewOwnProfile"},
     ViewAssignmentAttachment |-> {"ViewAssignmentAttachmentAsLearner"},
     ViewCourseContacts |-> {"ViewCourseContactsAsLearner"},
     ViewCourseInternalDescription |-> {"ViewCourseInternalDescriptionAsLearner"},
     CreateAssignmentComment |-> {"CreateAssignmentCommentAsLearner"},
     CreateAssignmentSolution |-> {"CreateOwnAssignmentSolution"},
     ViewAssignmentCommentAttachment |-> {"ViewAssignmentCommentAttachmentAsLearner"},
     ViewEnrollment |-> {"ViewOwnEnrollment"}]

Implied(table, p) == IF p \in DOMAIN table THEN table[p] ELSE {}

\* Role.relations of role r: what implies permission p on an object.
Related(r, p) ==
    CASE r = "TEACHER" -> Implied(TeacherRelations, p)
      [] r \in StudentRoles -> Implied(StudentRelations, p)
      [] r = "AUTHENTICATED" /\ p = "ViewAccountConnectedServiceProvider" ->
           {"ViewOwnAccountConnectedServiceProvider"}
      [] OTHER -> {}

Permissions ==
    (UNION {Granted[r] : r \in DOMAIN Granted})
      \union (UNION {TeacherRelations[p] : p \in DOMAIN TeacherRelations})
      \union (UNION {StudentRelations[p] : p \in DOMAIN StudentRelations})

\* The permissions several roles give in different ways.
SharedPermissions == DOMAIN TeacherRelations \union DOMAIN StudentRelations

\* A variant of AskedFirst: the first role that says anything of p decides.
FirstToSay(r, roles, p) ==
    \A d \in roles \ {r} : p \in Granted[d] \/ Related(d, p) # {} => Priority[r] < Priority[d]

\* Role r is asked before any role that has p itself.
AskedFirst(r, roles, p) == \A d \in roles : p \in Granted[d] => Priority[r] < Priority[d]

\* A related permission is tried on an object; a negative answer does not end
\* the search, for a role asked later may give a positive one.  rule[q] is what
\* the rule of permission q says of the object.
ThroughRelation(rule, roles, p) ==
    \E r \in roles : \E q \in Related(r, p) : AskedFirst(r, roles, p) /\ rule[q]

\* RBACPermissions._has_perm: the first role that has p itself decides.
HasPerm(rule, roles, p) ==
    \/ \E r \in roles : p \in Granted[r] /\ rule[p]
    \/ ThroughRelation(rule, roles, p)
=============================================================================
