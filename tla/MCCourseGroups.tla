---------------------------- MODULE MCCourseGroups ----------------------------
(* CourseGroups on small sets, for TLC.                                    *)
EXTENDS CourseGroups, TLC

(* Ids are only compared for equality.                                     *)
Symmetry == Permutations(Workers) \union Permutations(Students)

(* A manual course with everything staff do to its groups and assignments; *)
(* a course by program runs whose groups come and go with the students.    *)
MCOperations ==
  [manual      |-> {"enroll", "leave", "remove", "new_group", "edit",
                    "delete", "transfer"},
   program_run |-> {"enroll", "leave", "edit_class", "delete"}]
MCMaxGroups == [manual |-> 2, program_run |-> 3]
===============================================================================
