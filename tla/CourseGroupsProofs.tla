-------------------------- MODULE CourseGroupsProofs --------------------------
(***************************************************************************)
(* Proofs about CourseGroups.tla for any students, program runs, groups,   *)
(* assignments and workers, under no more than the constants' assumptions: *)
(* what a request has written and still knows when it commits, and what    *)
(* the other requests can have changed by then.                            *)
(***************************************************************************)
EXTENDS CourseGroups, FiniteSetTheorems, TLAPS

Ops == {"none", "enroll", "leave", "remove", "new_group", "edit", "transfer"}

Job == [op : Ops, who : SUBSET Students,
        group : Groups \union {Nobody}, to : Groups \union {Nobody},
        asg : Assignments \union {Nobody}, name : Titles \union {Nobody}]

(* A request and its step fit together, and it knows what the step needs.  *)
GroupFor(w, first, later) ==
  /\ pc[w] \in first \union {"get_group", "clean_group", "insert_group"} \union later
  /\ pc[w] \in later => job[w].to \in Groups

Errand(w) ==
  \/ pc[w] = "idle" /\ job[w] = NoJob
  \/ /\ job[w].op = "enroll"
     /\ GroupFor(w, {}, {"activate", "recreate", "commit"})
     /\ \E s \in Students : job[w].who = {s}
  \/ /\ job[w].op = "leave"
     /\ pc[w] \in {"leave", "run_group", "commit"} \/
          (GroupFor(w, {"find_left", "delete_group"}, {"move"}) /\ job[w].group \in Groups)
     /\ \E s \in Students : job[w].who = {s}
  \/ /\ job[w].op = "remove"
     /\ GroupFor(w, {"check", "find_left", "delete_group"}, {"move"})
     /\ job[w].group \in Groups
  \/ /\ job[w].op = "new_group"
     /\ pc[w] \in {"clean_group", "insert_group"}
     /\ job[w].name \in Titles
  \/ /\ job[w].op = "edit"
     /\ pc[w] = "commit"
     /\ job[w].asg \in Assignments
  \/ /\ job[w].op = "transfer"
     /\ pc[w] \in {"move_students", "fill", "commit"}
     /\ job[w].group \in Groups /\ job[w].to \in Groups

(* In a manual course only staff create groups, and leaving removes none.  *)
ManualErrand(w) ==
  mode = "manual" =>
    /\ pc[w] \in {"clean_group", "insert_group"} => job[w].op = "new_group"
    /\ job[w].op = "leave" => pc[w] \in {"leave", "commit"}

(* A request that has not begun its transaction has written nothing.       *)
Opened(w) ==
  (\/ job[w].op \in {"none", "remove", "new_group"}
   \/ job[w].op = "enroll" /\ pc[w] \notin {"recreate", "commit"})
     => delta[w] = NoWrites

(* What the open transaction of w may have written to a row.               *)
EntryFor(w, s, value) ==
  \/ /\ job[w].op = "enroll" /\ s \in job[w].who
     /\ value = [state |-> "active", group |-> job[w].to]
     /\ db[enr(s)].state # "active"
  \/ job[w].op = "leave" /\ value.state = "left"
  \/ /\ job[w].op = "transfer" /\ s \in job[w].who
     /\ value.state # "absent" /\ value.group = job[w].to

Uncommitted(w) ==
  /\ \A g \in Groups : grp(g) \in DOMAIN delta[w] => mode # "manual"
  /\ \A s \in Students :
       enr(s) \in DOMAIN delta[w] => EntryFor(w, s, delta[w][enr(s)])
  /\ \A a \in Assignments :
       asg(a) \in DOMAIN delta[w] => job[w].op = "edit" /\ job[w].asg = a
  /\ \A a \in Assignments, s \in Students :
       sa(a, s) \in DOMAIN delta[w] =>
         \/ job[w].op = "edit"
         \/ job[w].op \in {"enroll", "transfer"} /\ delta[w][sa(a, s)] = "live"

(* What a request has found in the database, and relies on.                *)
Enrolls(w) ==
  job[w].op = "enroll" =>
    /\ pc[w] \in {"recreate", "commit"} =>
         \A s \in job[w].who : enr(s) \in DOMAIN delta[w]
    /\ (pc[w] = "commit" /\ w \notin raced) =>
         \A s \in job[w].who, a \in AvailableTo(db, job[w].to) :
           sa(a, s) \in DOMAIN delta[w]

Leaves(w) ==
  job[w].op = "leave" => \A s \in job[w].who : db[enr(s)].state # "absent"

Removes(w) ==
  (job[w].op = "remove" /\ mode = "manual") =>
    db[grp(job[w].group)].type \in {"manual", "removed"}

SafeTransfer(g, h) ==
  \A a \in CourseAssignments(db) : OpenTo(db, a, g) => OpenTo(db, a, h)

Transfers(w) ==
  job[w].op = "transfer" =>
    /\ pc[w] \in {"fill", "commit"} =>
         \A s \in job[w].who : enr(s) \in DOMAIN delta[w]
    /\ w \notin raced => SafeTransfer(job[w].group, job[w].to)
    /\ (pc[w] = "commit" /\ w \notin raced) =>
         \A s \in job[w].who,
            a \in AvailableTo(db, job[w].to) \ AvailableTo(db, job[w].group) :
           delta[w][enr(s)].state = "active" => See(w)[sa(a, s)] = "live"

WorkerState(w) ==
  /\ Errand(w) /\ ManualErrand(w) /\ Opened(w) /\ Uncommitted(w)
  /\ Enrolls(w) /\ Leaves(w) /\ Removes(w) /\ Transfers(w)

(* A row is written by one open transaction at a time.                     *)
Exclusive ==
  \A v, w \in Workers : v # w => DOMAIN delta[v] \intersect DOMAIN delta[w] = {}

(* The default group of a manual course is the one it was created with.    *)
FirstIsDefault ==
  mode = "manual" => \A g \in Groups : db[grp(g)].type = "system" <=> g = 1

IInv ==
  /\ TypeOK /\ job \in [Workers -> Job]
  /\ Exclusive /\ FirstIsDefault
  /\ \A w \in Workers : WorkerState(w)

-------------------------------------------------------------------------------
(* Rows.                                                                   *)

(* Different rows have different names.                                    *)
LEMMA RowsDiffer ==
  /\ \A g, s : grp(g) # enr(s)
  /\ \A g, a : grp(g) # asg(a)
  /\ \A g, a, s : grp(g) # sa(a, s)
  /\ \A g : grp(g) # cls
  /\ \A s, a : enr(s) # asg(a)
  /\ \A s, a, u : enr(s) # sa(a, u)
  /\ \A s : enr(s) # cls
  /\ \A a, b, s : asg(a) # sa(b, s)
  /\ \A a : asg(a) # cls
  /\ \A a, s : sa(a, s) # cls
<1>1. /\ \A g : grp(g)[1] = "StudentGroup"
      /\ \A s : enr(s)[1] = "Enrollment"
      /\ \A a : asg(a)[1] = "Assignment"
      /\ \A a, s : sa(a, s)[1] = "StudentAssignment"
      /\ cls[1] = "CourseClass"
  BY DEF grp, enr, asg, sa, cls
<1> HIDE DEF grp, enr, asg, sa, cls
<1>2. QED
  BY <1>1

(* ... and different things have different rows.                           *)
LEMMA RowsNameThings ==
  /\ \A g, h : grp(g) = grp(h) => g = h
  /\ \A s, u : enr(s) = enr(u) => s = u
  /\ \A a, b : asg(a) = asg(b) => a = b
  /\ \A a, b, s, u : sa(a, s) = sa(b, u) => a = b /\ s = u
BY DEF grp, enr, asg, sa

(* The values of each table, as Holds types them.                          *)
LEMMA Tables ==
  /\ \A g \in Groups : grp(g) \in GroupRows /\ grp(g) \in Rows
  /\ \A s \in Students : enr(s) \in Rows
  /\ \A a \in Assignments : asg(a) \in Rows
  /\ \A a \in Assignments, s \in Students : sa(a, s) \in WorkRows /\ sa(a, s) \in Rows
  /\ cls \in Rows
BY DEF GroupRows, WorkRows, Rows

LEMMA TableValues ==
  ASSUME NEW value
  PROVE  /\ \A g \in Groups : Holds(grp(g), value) <=> value \in GroupValues
         /\ \A s \in Students : Holds(enr(s), value) <=> value \in EnrollmentValues
         /\ \A a \in Assignments : Holds(asg(a), value) <=> value \in AssignmentValues
         /\ \A a \in Assignments, s \in Students :
              Holds(sa(a, s), value) <=> value \in {"none", "live", "trash"}
         /\ Holds(cls, value) <=> value \in SUBSET Groups
<1>1. /\ \A g : grp(g)[1] = "StudentGroup"
      /\ \A s : enr(s)[1] = "Enrollment"
      /\ \A a : asg(a)[1] = "Assignment"
      /\ \A a, s : sa(a, s)[1] = "StudentAssignment"
      /\ cls[1] = "CourseClass"
  BY DEF grp, enr, asg, sa, cls
<1>2. \A k \in GroupRows : k[1] = "StudentGroup"
  BY <1>1 DEF GroupRows
<1>3. \A k \in WorkRows : k[1] = "StudentAssignment"
  BY <1>1 DEF WorkRows
<1>4. ASSUME NEW g \in Groups PROVE Holds(grp(g), value) <=> value \in GroupValues
  <2>1. grp(g) \in GroupRows
    BY Tables
  <2>2. grp(g)[1] # "Enrollment" /\ grp(g)[1] # "Assignment"
    BY <1>1
  <2>3. grp(g) \notin WorkRows /\ grp(g) # cls
    BY <1>1, <1>3
  <2>4. QED
    BY <2>1, <2>2, <2>3 DEF Holds
<1>5. ASSUME NEW s \in Students
      PROVE  Holds(enr(s), value) <=> value \in EnrollmentValues
  <2>1. enr(s) \notin GroupRows /\ enr(s) \notin WorkRows /\ enr(s) # cls
    BY <1>1, <1>2, <1>3
  <2>2. enr(s)[1] = "Enrollment" /\ enr(s)[1] # "Assignment"
    BY <1>1
  <2>3. QED
    BY <2>1, <2>2 DEF Holds
<1>6. ASSUME NEW a \in Assignments
      PROVE  Holds(asg(a), value) <=> value \in AssignmentValues
  <2>1. asg(a) \notin GroupRows /\ asg(a) \notin WorkRows /\ asg(a) # cls
    BY <1>1, <1>2, <1>3
  <2>2. asg(a)[1] = "Assignment" /\ asg(a)[1] # "Enrollment"
    BY <1>1
  <2>3. QED
    BY <2>1, <2>2 DEF Holds
<1>7. ASSUME NEW a \in Assignments, NEW s \in Students
      PROVE  Holds(sa(a, s), value) <=> value \in {"none", "live", "trash"}
  <2>1. sa(a, s) \notin GroupRows /\ sa(a, s) \in WorkRows /\ sa(a, s) # cls
    BY <1>1, <1>2, Tables
  <2>2. sa(a, s)[1] # "Assignment" /\ sa(a, s)[1] # "Enrollment"
    BY <1>1
  <2>3. QED
    BY <2>1, <2>2 DEF Holds
<1>8. Holds(cls, value) <=> value \in SUBSET Groups
  <2>1. cls \notin GroupRows /\ cls \notin WorkRows
    BY <1>1, <1>2, <1>3
  <2>2. cls[1] # "Assignment" /\ cls[1] # "Enrollment"
    BY <1>1
  <2>3. QED
    BY <2>1, <2>2 DEF Holds
<1>9. QED
  BY <1>4, <1>5, <1>6, <1>7, <1>8

(* Writes on top of writes.                                                *)
LEMMA OverOf ==
  ASSUME NEW x, NEW y
  PROVE  /\ DOMAIN Over(x, y) = DOMAIN x \union DOMAIN y
         /\ \A k \in DOMAIN x : Over(x, y)[k] = x[k]
         /\ \A k \in DOMAIN y \ DOMAIN x : Over(x, y)[k] = y[k]
BY DEF Over

LEMMA SetOf ==
  ASSUME NEW k, NEW v
  PROVE  DOMAIN Set(k, v) = {k} /\ Set(k, v)[k] = v
BY DEF Set

LEMMA NothingWritten == DOMAIN NoWrites = {}
BY DEF NoWrites

(* Rows that exist, with the values of their tables.                       *)
Typed(x) == DOMAIN x \subseteq Rows /\ \A k \in DOMAIN x : Holds(k, x[k])

LEMMA OverTyped ==
  ASSUME NEW x, NEW y, Typed(x), Typed(y)
  PROVE  Typed(Over(x, y))
<1> DEFINE z == Over(x, y)
<1>1. /\ DOMAIN z = DOMAIN x \union DOMAIN y
      /\ \A k \in DOMAIN x : z[k] = x[k]
      /\ \A k \in DOMAIN y \ DOMAIN x : z[k] = y[k]
  BY OverOf
<1> HIDE DEF z
<1>2. Typed(z)
  BY <1>1 DEF Typed
<1>3. QED
  BY <1>2 DEF z

LEMMA SetTyped ==
  ASSUME NEW k \in Rows, NEW v, Holds(k, v)
  PROVE  Typed(Set(k, v))
<1> DEFINE z == Set(k, v)
<1>1. DOMAIN z = {k} /\ z[k] = v
  BY SetOf
<1> HIDE DEF z
<1>2. Typed(z)
  BY <1>1 DEF Typed
<1>3. QED
  BY <1>2 DEF z

(* The values of a group: what it was made as, and what follows from that. *)
LEMMA GroupsAre ==
  /\ Unused \in GroupValues /\ Unused.type = "unused"
  /\ Removed \in GroupValues /\ Removed.type = "removed"
  /\ Default \in GroupValues /\ Default.type = "system" /\ Default.run = Nobody
  /\ \A n \in Runs \union Titles : Manual(n) \in GroupValues
  /\ \A n : Manual(n).type = "manual"
  /\ \A r \in Runs : RunGroup(r) \in GroupValues
  /\ \A r : RunGroup(r).type = "program_run"
  /\ \A v \in GroupValues : /\ v.type = "system" => v = Default
                            /\ v.type = "program_run" => v.name \in Runs
<1>1. /\ Unused \in GroupValues /\ Unused.type = "unused"
      /\ Removed \in GroupValues /\ Removed.type = "removed"
      /\ Default \in GroupValues /\ Default.type = "system" /\ Default.run = Nobody
  BY DEF GroupValues, Unused, Removed, Default
<1>2. /\ \A n \in Runs \union Titles : Manual(n) \in GroupValues
      /\ \A r \in Runs : RunGroup(r) \in GroupValues
  BY DEF GroupValues
<1>3. \A n : Manual(n).type = "manual"
  BY DEF Manual
<1>4. \A r : RunGroup(r).type = "program_run" /\ RunGroup(r).name = r
  BY DEF RunGroup
<1>5. ASSUME NEW v \in GroupValues
      PROVE  /\ v.type = "system" => v = Default
             /\ v.type = "program_run" => v.name \in Runs
  <2>1. CASE v \in {Unused, Removed, Default}
    BY <1>1, <2>1
  <2>2. CASE \E n \in Runs \union Titles : v = Manual(n)
    BY <1>3, <2>2
  <2>3. CASE \E r \in Runs : v = RunGroup(r)
    BY <1>4, <2>3
  <2>4. QED
    BY <1>5, <2>1, <2>2, <2>3 DEF GroupValues
<1>6. QED
  BY <1>1, <1>2, <1>3, <1>4, <1>5

(* The values of an enrollment.                                            *)
LEMMA EnrollmentsAre ==
  ASSUME NEW v \in EnrollmentValues
  PROVE  /\ v.state \in {"absent", "left", "active"}
         /\ v.state # "absent" <=> v.group \in Groups
         /\ v.state # "absent" =>
              /\ v = [state |-> v.state, group |-> v.group]
              /\ [v EXCEPT !.state = "left"] \in EnrollmentValues
              /\ [v EXCEPT !.state = "left"].state = "left"
              /\ \A g \in Groups : /\ [v EXCEPT !.group = g] \in EnrollmentValues
                                   /\ [v EXCEPT !.group = g].state = v.state
                                   /\ [v EXCEPT !.group = g].group = g
<1>1. CASE v = NeverEnrolled
  BY <1>1, NobodyIsNothing DEF NeverEnrolled
<1>2. CASE v \in [state : {"left", "active"}, group : Groups]
  BY <1>2 DEF EnrollmentValues
<1>3. QED
  BY <1>1, <1>2 DEF EnrollmentValues

LEMMA AssignmentsAre ==
  /\ NoAssignment \in AssignmentValues /\ ~NoAssignment.exists
  /\ \A only \in SUBSET Groups :
       [exists |-> TRUE, restricted_to |-> only] \in AssignmentValues
BY DEF NoAssignment, AssignmentValues

-------------------------------------------------------------------------------
(* What a request sees.                                                    *)

LEMMA SeeOf ==
  ASSUME NEW w
  PROVE  /\ DOMAIN See(w) = Rows
         /\ \A k \in Rows : /\ k \in DOMAIN delta[w] => See(w)[k] = delta[w][k]
                            /\ k \notin DOMAIN delta[w] => See(w)[k] = db[k]
BY DEF See

LEMMA SeeTyped ==
  ASSUME TypeOK, NEW w \in Workers
  PROVE  Typed(See(w)) /\ DOMAIN See(w) = Rows
<1>1. \A k \in Rows : Holds(k, db[k])
  BY DEF TypeOK
<1>2. \A k \in DOMAIN delta[w] : Holds(k, delta[w][k])
  BY DEF TypeOK
<1>3. DOMAIN See(w) = Rows /\ \A k \in Rows : See(w)[k] = delta[w][k] \/ See(w)[k] = db[k]
  BY SeeOf
<1>4. ASSUME NEW k \in Rows PROVE Holds(k, See(w)[k])
  <2>1. CASE k \in DOMAIN delta[w]
    BY <1>2, <2>1, SeeOf
  <2>2. CASE k \notin DOMAIN delta[w]
    BY <1>1, <2>2, SeeOf
  <2>3. QED
    BY <2>1, <2>2
<1>5. QED
  BY <1>3, <1>4 DEF Typed

(* The rows of each table, as t has them.                                  *)
LEMMA WholeTables ==
  ASSUME NEW t, Typed(t), DOMAIN t = Rows
  PROVE  /\ \A g \in Groups : t[grp(g)] \in GroupValues
         /\ \A s \in Students : t[enr(s)] \in EnrollmentValues
         /\ \A a \in Assignments : t[asg(a)] \in AssignmentValues
         /\ \A a \in Assignments, s \in Students :
              t[sa(a, s)] \in {"none", "live", "trash"}
         /\ t[cls] \in SUBSET Groups
<1>1. \A k \in Rows : Holds(k, t[k])
  BY DEF Typed
<1>2. QED
  BY <1>1, Tables, TableValues

LEMMA DbTyped ==
  ASSUME TypeOK
  PROVE  Typed(db) /\ DOMAIN db = Rows
BY DEF TypeOK, Typed

-------------------------------------------------------------------------------
(* Steps.                                                                  *)

(* What a request knows, by what it does and how far it is.                *)
LEMMA ErrandOf ==
  ASSUME NEW w, Errand(w)
  PROVE  /\ job[w].op = "none" <=> pc[w] = "idle"
         /\ pc[w] = "idle" => job[w] = NoJob
         /\ job[w].op \in {"enroll", "leave"} => \E s \in Students : job[w].who = {s}
         /\ job[w].op \in {"remove", "transfer"} => job[w].group \in Groups
         /\ job[w].op = "transfer" => job[w].to \in Groups
         /\ pc[w] \in {"check", "find_left", "delete_group"} =>
              job[w].op \in {"leave", "remove"} /\ job[w].group \in Groups
         /\ pc[w] = "get_group" => job[w].op \in {"enroll", "leave", "remove"}
         /\ pc[w] \in {"clean_group", "insert_group"} =>
              job[w].op \in {"enroll", "leave", "remove", "new_group"}
         /\ pc[w] \in {"get_group", "clean_group", "insert_group"} =>
              (job[w].op \in {"leave", "remove"} => job[w].group \in Groups)
         /\ pc[w] \in {"activate", "recreate"} =>
              job[w].op = "enroll" /\ job[w].to \in Groups
         /\ pc[w] \in {"leave", "run_group"} => job[w].op = "leave"
         /\ pc[w] = "check" => job[w].op = "remove"
         /\ pc[w] = "move" =>
              /\ job[w].op \in {"leave", "remove"}
              /\ job[w].group \in Groups /\ job[w].to \in Groups
         /\ pc[w] \in {"move_students", "fill"} => job[w].op = "transfer"
         /\ pc[w] = "commit" => job[w].op \in {"enroll", "leave", "edit", "transfer"}
         /\ job[w].op = "new_group" => job[w].name \in Titles
BY DEF Errand, GroupFor, NoJob

LEMMA Moved ==
  ASSUME IInv, NEW w \in Workers, NEW from, NEW to \in Steps, NEW known \in Job,
         GoWith(w, from, to, known)
  PROVE  /\ pc[w] = from /\ pc'[w] = to
         /\ job'[w] = IF to = "idle" THEN NoJob ELSE known
         /\ pc' \in [Workers -> Steps] /\ job' \in [Workers -> Job]
         /\ \A v \in Workers \ {w} : pc'[v] = pc[v] /\ job'[v] = job[v]
<1>1. pc \in [Workers -> Steps] /\ job \in [Workers -> Job]
  BY DEF IInv, TypeOK
<1>2. NoJob \in Job
  BY DEF NoJob, Job, Ops
<1>3. (IF to = "idle" THEN NoJob ELSE known) \in Job
  BY <1>2
<1>4. QED
  BY <1>1, <1>3 DEF GoWith

(* What a step of w leaves of the other requests, whatever else it does.   *)
Alone(w) ==
  /\ UNCHANGED <<mode, run>>
  /\ pc' \in [Workers -> Steps] /\ job' \in [Workers -> Job]
  /\ DOMAIN delta' = Workers
  /\ \A v \in Workers \ {w} : pc'[v] = pc[v] /\ job'[v] = job[v] /\ delta'[v] = delta[v]
  /\ Typed(delta'[w])
  /\ pc'[w] = "idle" => delta'[w] = NoWrites
  /\ \A v \in Workers \ {w} : DOMAIN delta'[w] \intersect DOMAIN delta[v] = {}
  /\ raced' \subseteq Workers

(* A step inside a transaction, or between two of them.                    *)
Private(w) == Alone(w) /\ db' = db /\ raced \ {w} \subseteq raced'

(* The statements outside of any transaction: groups other than the default*)
(* group are created and removed, those who left are moved, an assignment  *)
(* is deleted with its work, a class is edited.                            *)
Harmless(x) ==
  /\ Typed(x)
  /\ mode = "manual" =>
       \A g \in Groups : grp(g) \in DOMAIN x =>
         db[grp(g)].type # "system" /\ x[grp(g)].type \in {"manual", "removed"}
  /\ \A s \in Students : enr(s) \in DOMAIN x =>
       db[enr(s)].state = "left" /\ x[enr(s)].state = "left"
  /\ \A a \in Assignments : asg(a) \in DOMAIN x =>
       db[asg(a)].exists /\ x[asg(a)] = NoAssignment
  /\ \A a \in Assignments, s \in Students :
       sa(a, s) \in DOMAIN x => asg(a) \in DOMAIN x

Public(w) == Alone(w) /\ \E x : AutoCommit(w, x) /\ Harmless(x)

Actor(w) == Private(w) \/ Public(w) \/ (Alone(w) /\ Commit(w))

(* What stays true of the database.                                        *)
Lasting ==
  /\ \A s \in Students : db[enr(s)].state # "absent" => db'[enr(s)].state # "absent"
  /\ mode = "manual" =>
       \A g \in Groups : db[grp(g)].type \in {"manual", "removed"} =>
                           db'[grp(g)].type \in {"manual", "removed"}

(* Nobody has changed an assignment, or taken work from a student.         *)
Undisturbed ==
  /\ \A a \in Assignments : db'[asg(a)] = db[asg(a)]
  /\ \A a \in Assignments, s \in Students :
       db[sa(a, s)] = "live" => db'[sa(a, s)] = "live"

(* What the rest of the system leaves to v.                                *)
Untouched(v) ==
  /\ mode' = mode /\ pc'[v] = pc[v] /\ job'[v] = job[v] /\ delta'[v] = delta[v]
  /\ \A k \in DOMAIN delta[v] : db'[k] = db[k]
  /\ (pc[v] # "idle" /\ v \notin raced') => v \notin raced /\ Undisturbed
  /\ Lasting

(* Undisturbed assignments are open to the same groups.                    *)
LEMMA SameAssignments ==
  ASSUME \A a \in Assignments : db'[asg(a)] = db[asg(a)]
  PROVE  /\ \A g : AvailableTo(db', g) = AvailableTo(db, g)
         /\ CourseAssignments(db') = CourseAssignments(db)
         /\ \A a \in Assignments : \A g : OpenTo(db', a, g) <=> OpenTo(db, a, g)
<1>1. \A t : CourseAssignments(t) \subseteq Assignments
  BY DEF CourseAssignments
<1>2. CourseAssignments(db') = CourseAssignments(db)
  BY DEF CourseAssignments
<1>3. \A a \in Assignments : \A g : OpenTo(db', a, g) <=> OpenTo(db, a, g)
  BY DEF OpenTo
<1>4. QED
  BY <1>1, <1>2, <1>3 DEF AvailableTo

(* The state of a request outlives the steps of the others.                *)
LEMMA OthersUntouched ==
  ASSUME TypeOK, NEW v \in Workers, job[v] \in Job, WorkerState(v), Untouched(v)
  PROVE  WorkerState(v)'
<1> USE DEF WorkerState, Untouched
<1>1. Errand(v)' /\ ManualErrand(v)' /\ Opened(v)'
  BY DEF Errand, GroupFor, ManualErrand, Opened
<1>2. Uncommitted(v)'
  <2>1. \A s \in Students : enr(s) \in DOMAIN delta[v] => db'[enr(s)] = db[enr(s)]
    OBVIOUS
  <2>2. ASSUME NEW s \in Students, enr(s) \in DOMAIN delta'[v]
        PROVE  EntryFor(v, s, delta[v][enr(s)])'
    BY <2>1, <2>2 DEF Uncommitted, EntryFor
  <2>3. QED
    BY <2>2 DEF Uncommitted
<1>3. Leaves(v)'
  <2>1. job[v].op = "leave" => \E s \in Students : job[v].who = {s}
    BY DEF Errand, NoJob
  <2>2. QED
    BY <2>1 DEF Leaves, Lasting
<1>4. Removes(v)'
  <2>1. job[v].op = "remove" => job[v].group \in Groups
    BY DEF Errand, NoJob
  <2>2. QED
    BY <2>1 DEF Removes, Lasting
<1>5. (v \notin raced' /\ job[v].op # "none") => v \notin raced /\ Undisturbed
  <2>1. job[v].op # "none" => pc[v] # "idle"
    BY ErrandOf
  <2>2. QED
    BY <2>1
<1>6. Enrolls(v)'
  BY <1>5, SameAssignments DEF Enrolls, Undisturbed
<1>7. Transfers(v)'
  <2> SUFFICES ASSUME job[v].op = "transfer"
               PROVE  Transfers(v)'
    BY DEF Transfers
  <2>1. pc[v] \in {"fill", "commit"} => \A s \in job[v].who : enr(s) \in DOMAIN delta[v]
    BY DEF Transfers
  <2>2. ASSUME v \notin raced'
        PROVE  SafeTransfer(job[v].group, job[v].to)'
    BY <1>5, <2>2, SameAssignments DEF Transfers, SafeTransfer, Undisturbed, CourseAssignments
  <2>3. ASSUME pc[v] = "commit", v \notin raced',
               NEW s \in job[v].who,
               NEW a \in AvailableTo(db', job[v].to) \ AvailableTo(db', job[v].group),
               delta[v][enr(s)].state = "active"
        PROVE  See(v)'[sa(a, s)] = "live"
    <3>1. v \notin raced /\ Undisturbed
      BY <1>5, <2>3
    <3>2. a \in AvailableTo(db, job[v].to) \ AvailableTo(db, job[v].group)
      BY <2>3, <3>1, SameAssignments DEF Undisturbed
    <3>3. See(v)[sa(a, s)] = "live"
      BY <2>3, <3>1, <3>2 DEF Transfers
    <3>4. a \in Assignments /\ s \in Students
      <4>1. a \in Assignments
        BY <3>2 DEF AvailableTo, CourseAssignments
      <4>2. job[v].who \subseteq Students
        BY DEF Job
      <4>3. QED
        BY <4>1, <4>2, <2>3
    <3>5. sa(a, s) \in Rows
      BY <3>4, Tables
    <3>6. QED
      BY <3>1, <3>3, <3>4, <3>5 DEF See, Undisturbed
  <2>4. QED
    BY <2>1, <2>2, <2>3 DEF Transfers
<1>8. QED
  BY <1>1, <1>2, <1>3, <1>4, <1>6, <1>7

-------------------------------------------------------------------------------
(* What a step leaves to the others.                                       *)

(* db' after a statement that is a transaction of its own.                 *)
LEMMA AfterAutoCommit ==
  ASSUME IInv, NEW w \in Workers, NEW x, AutoCommit(w, x), Harmless(x)
  PROVE  /\ Typed(db') /\ DOMAIN db' = Rows
         /\ \A k \in DOMAIN x : db'[k] = x[k]
         /\ \A k \in Rows \ DOMAIN x : db'[k] = db[k]
         /\ delta' = delta
<1>1. db' = Over(x, db) /\ delta' = delta
  BY DEF AutoCommit
<1>2. Typed(db) /\ DOMAIN db = Rows /\ Typed(x)
  BY DbTyped DEF IInv, Harmless
<1>3. DOMAIN x \subseteq Rows
  BY <1>2 DEF Typed
<1>4. /\ DOMAIN Over(x, db) = DOMAIN x \union DOMAIN db
      /\ \A k \in DOMAIN x : Over(x, db)[k] = x[k]
      /\ \A k \in DOMAIN db \ DOMAIN x : Over(x, db)[k] = db[k]
  BY OverOf
<1>5. Typed(Over(x, db))
  BY <1>2, OverTyped
<1>6. Typed(db')
  BY <1>1, <1>5
<1>7. QED
  BY <1>1, <1>2, <1>3, <1>4, <1>6

(* ... and after a commit.                                                 *)
LEMMA AfterCommit ==
  ASSUME IInv, NEW w \in Workers, Commit(w)
  PROVE  /\ Typed(db') /\ DOMAIN db' = Rows
         /\ db' = See(w)
         /\ \A k \in DOMAIN delta[w] : k \in Rows /\ db'[k] = delta[w][k]
         /\ \A k \in Rows \ DOMAIN delta[w] : db'[k] = db[k]
         /\ delta'[w] = NoWrites
         /\ pc[w] = "commit"
<1>1. db' = See(w)
  BY DEF Commit
<1>2. DOMAIN delta[w] \subseteq Rows /\ DOMAIN delta = Workers
  BY DEF IInv, TypeOK
<1>3. delta'[w] = NoWrites /\ pc[w] = "commit"
  BY <1>2 DEF Commit, Go, GoWith
<1>4. \A k \in Rows : /\ k \in DOMAIN delta[w] => See(w)[k] = delta[w][k]
                      /\ k \notin DOMAIN delta[w] => See(w)[k] = db[k]
  BY SeeOf
<1>5. Typed(See(w)) /\ DOMAIN See(w) = Rows
  BY SeeTyped DEF IInv
<1>6. Typed(db') /\ DOMAIN db' = Rows
  BY <1>1, <1>5
<1>7. QED
  BY <1>1, <1>2, <1>3, <1>4, <1>6

(* Enrollments last, and so do groups made by hand, as removed ones.       *)
LEMMA ThingsLast ==
  ASSUME IInv, NEW w \in Workers, Actor(w)
  PROVE  Lasting
<1>1. CASE Private(w)
  BY <1>1 DEF Private, Lasting
<1>2. CASE Public(w)
  <2>1. PICK x : AutoCommit(w, x) /\ Harmless(x)
    BY <1>2 DEF Public
  <2>2. ASSUME NEW s \in Students, db[enr(s)].state # "absent"
        PROVE  db'[enr(s)].state # "absent"
    <3>1. CASE enr(s) \in DOMAIN x
      <4>1. x[enr(s)].state = "left"
        BY <2>1, <3>1 DEF Harmless
      <4>2. QED
        BY <2>1, <3>1, <4>1, AfterAutoCommit
    <3>2. CASE enr(s) \notin DOMAIN x
      BY <2>1, <2>2, <3>2, AfterAutoCommit, Tables
    <3>3. QED
      BY <3>1, <3>2
  <2>3. ASSUME mode = "manual", NEW g \in Groups, db[grp(g)].type \in {"manual", "removed"}
        PROVE  db'[grp(g)].type \in {"manual", "removed"}
    <3>1. CASE grp(g) \in DOMAIN x
      <4>1. x[grp(g)].type \in {"manual", "removed"}
        BY <2>1, <2>3, <3>1 DEF Harmless
      <4>2. QED
        BY <2>1, <3>1, <4>1, AfterAutoCommit
    <3>2. CASE grp(g) \notin DOMAIN x
      BY <2>1, <2>3, <3>2, AfterAutoCommit, Tables
    <3>3. QED
      BY <3>1, <3>2
  <2>4. QED
    BY <2>2, <2>3 DEF Lasting
<1>3. CASE Commit(w)
  <2>1. Uncommitted(w)
    BY DEF IInv, WorkerState
  <2>2. ASSUME NEW s \in Students, db[enr(s)].state # "absent"
        PROVE  db'[enr(s)].state # "absent"
    <3>1. CASE enr(s) \in DOMAIN delta[w]
      <4>1. EntryFor(w, s, delta[w][enr(s)])
        BY <2>1, <3>1 DEF Uncommitted
      <4>2. delta[w][enr(s)].state # "absent"
        BY <4>1 DEF EntryFor
      <4>3. QED
        BY <1>3, <3>1, <4>2, AfterCommit
    <3>2. CASE enr(s) \notin DOMAIN delta[w]
      BY <1>3, <2>2, <3>2, AfterCommit, Tables
    <3>3. QED
      BY <3>1, <3>2
  <2>3. ASSUME mode = "manual", NEW g \in Groups
        PROVE  db'[grp(g)] = db[grp(g)]
    <3>1. grp(g) \notin DOMAIN delta[w]
      BY <2>1, <2>3 DEF Uncommitted
    <3>2. QED
      BY <1>3, <3>1, AfterCommit, Tables
  <2>4. QED
    BY <2>2, <2>3 DEF Lasting
<1>4. QED
  BY <1>1, <1>2, <1>3 DEF Actor

(* A request that notices nothing has met nothing.                         *)
LEMMA Noticed ==
  ASSUME IInv, NEW w \in Workers, NEW v \in Workers \ {w}, Actor(w),
         pc[v] # "idle", v \notin raced'
  PROVE  v \notin raced /\ Undisturbed
<1>1. CASE Private(w)
  BY <1>1 DEF Private, Undisturbed
<1>2. ASSUME Alone(w), Disturb(w)
      PROVE  /\ v \notin raced /\ job[w].op # "edit"
             /\ \A a \in Assignments : db'[asg(a)] = db[asg(a)]
  <2>1. pc'[v] # "idle"
    BY <1>2 DEF Alone
  <2>2. QED
    BY <1>2, <2>1 DEF Disturb
<1>3. CASE Public(w)
  <2>1. PICK x : AutoCommit(w, x) /\ Harmless(x)
    BY <1>3 DEF Public
  <2>2. /\ v \notin raced
        /\ \A a \in Assignments : db'[asg(a)] = db[asg(a)]
    BY <1>2, <1>3, <2>1 DEF Public, AutoCommit
  <2>3. ASSUME NEW a \in Assignments PROVE asg(a) \notin DOMAIN x
    <3>1. SUFFICES ASSUME asg(a) \in DOMAIN x PROVE FALSE
      OBVIOUS
    <3>2. db[asg(a)].exists /\ x[asg(a)] = NoAssignment
      BY <2>1, <3>1 DEF Harmless
    <3>3. db'[asg(a)] = NoAssignment
      BY <2>1, <3>1, <3>2, AfterAutoCommit
    <3>4. QED
      BY <2>2, <3>2, <3>3, AssignmentsAre
  <2>4. ASSUME NEW a \in Assignments, NEW s \in Students
        PROVE  db'[sa(a, s)] = db[sa(a, s)]
    <3>1. sa(a, s) \notin DOMAIN x
      BY <2>1, <2>3 DEF Harmless
    <3>2. QED
      BY <2>1, <3>1, AfterAutoCommit, Tables
  <2>5. QED
    BY <2>2, <2>4 DEF Undisturbed
<1>4. CASE Alone(w) /\ Commit(w)
  <2>1. /\ v \notin raced /\ job[w].op # "edit"
        /\ \A a \in Assignments : db'[asg(a)] = db[asg(a)]
    BY <1>2, <1>4 DEF Commit
  <2>2. ASSUME NEW a \in Assignments, NEW s \in Students, db[sa(a, s)] = "live"
        PROVE  db'[sa(a, s)] = "live"
    <3>1. CASE sa(a, s) \in DOMAIN delta[w]
      <4>1. delta[w][sa(a, s)] = "live"
        BY <2>1, <3>1 DEF IInv, WorkerState, Uncommitted
      <4>2. QED
        BY <1>4, <3>1, <4>1, AfterCommit
    <3>2. CASE sa(a, s) \notin DOMAIN delta[w]
      BY <1>4, <2>2, <3>2, AfterCommit, Tables
    <3>3. QED
      BY <3>1, <3>2
  <2>3. QED
    BY <2>1, <2>2 DEF Undisturbed
<1>5. QED
  BY <1>1, <1>3, <1>4 DEF Actor

(* Rows locked by v are left alone.                                        *)
LEMMA LocksHold ==
  ASSUME IInv, NEW w \in Workers, NEW v \in Workers \ {w}, Actor(w),
         NEW k \in DOMAIN delta[v]
  PROVE  db'[k] = db[k]
<1>1. k \in Rows
  BY DEF IInv, TypeOK
<1>2. CASE Private(w)
  BY <1>2 DEF Private
<1>3. CASE Public(w)
  <2>1. PICK x : AutoCommit(w, x) /\ Harmless(x)
    BY <1>3 DEF Public
  <2>2. k \notin DOMAIN x
    BY <2>1 DEF AutoCommit, Free
  <2>3. QED
    BY <1>1, <2>1, <2>2, AfterAutoCommit
<1>4. CASE Commit(w)
  <2>1. k \notin DOMAIN delta[w]
    BY DEF IInv, Exclusive
  <2>2. QED
    BY <1>1, <1>4, <2>1, AfterCommit
<1>5. QED
  BY <1>2, <1>3, <1>4 DEF Actor

(* So every other request keeps its state.                                 *)
LEMMA OthersKeepTheirState ==
  ASSUME IInv, NEW w \in Workers, NEW v \in Workers \ {w}, Actor(w)
  PROVE  WorkerState(v)'
<1>1. Alone(w)
  BY DEF Actor, Private, Public
<1>2. Untouched(v)
  BY <1>1, ThingsLast, Noticed, LocksHold DEF Untouched, Alone
<1>3. TypeOK /\ WorkerState(v) /\ job[v] \in Job
  BY DEF IInv
<1>4. QED
  BY <1>2, <1>3, OthersUntouched


(* The default group of a manual course stays, and stays the only one.     *)
LEMMA DefaultStays ==
  ASSUME IInv, NEW w \in Workers, Actor(w)
  PROVE  FirstIsDefault'
<1> SUFFICES ASSUME mode = "manual"
             PROVE  \A g \in Groups : db'[grp(g)].type = "system" <=> g = 1
  BY DEF FirstIsDefault, Actor, Private, Public, Alone
<1>1. \A g \in Groups : db[grp(g)].type = "system" <=> g = 1
  BY DEF IInv, FirstIsDefault
<1>2. CASE Private(w)
  BY <1>1, <1>2 DEF Private
<1>3. CASE Public(w)
  <2>1. PICK x : AutoCommit(w, x) /\ Harmless(x)
    BY <1>3 DEF Public
  <2>2. ASSUME NEW g \in Groups
        PROVE  db'[grp(g)].type = "system" <=> db[grp(g)].type = "system"
    <3>1. CASE grp(g) \in DOMAIN x
      <4>1. db[grp(g)].type # "system" /\ x[grp(g)].type # "system"
        BY <2>1, <3>1 DEF Harmless
      <4>2. QED
        BY <2>1, <3>1, <4>1, AfterAutoCommit
    <3>2. CASE grp(g) \notin DOMAIN x
      BY <2>1, <3>2, AfterAutoCommit, Tables
    <3>3. QED
      BY <3>1, <3>2
  <2>3. QED
    BY <1>1, <2>2
<1>4. CASE Commit(w)
  <2>1. \A g \in Groups : grp(g) \notin DOMAIN delta[w]
    BY DEF IInv, WorkerState, Uncommitted
  <2>2. QED
    BY <1>1, <1>4, <2>1, AfterCommit, Tables
<1>5. QED
  BY <1>2, <1>3, <1>4 DEF Actor

LEMMA TypesStay ==
  ASSUME IInv, NEW w \in Workers, Actor(w)
  PROVE  TypeOK'
<1>1. Alone(w)
  BY DEF Actor, Private, Public
<1>2. TypeOK
  BY DEF IInv
<1>3. Typed(db') /\ DOMAIN db' = Rows
  <2>1. CASE Private(w)
    BY <1>2, <2>1, DbTyped DEF Private
  <2>2. CASE Public(w)
    BY <2>2, AfterAutoCommit DEF Public
  <2>3. CASE Commit(w)
    BY <2>3, AfterCommit
  <2>4. QED
    BY <2>1, <2>2, <2>3 DEF Actor
<1>4. \A k \in Rows : Holds(k, db'[k])
  BY <1>3 DEF Typed
<1>5. ASSUME NEW v \in Workers
      PROVE  /\ DOMAIN delta'[v] \subseteq Rows
             /\ \A k \in DOMAIN delta'[v] : Holds(k, delta'[v][k])
             /\ pc'[v] = "idle" => delta'[v] = NoWrites
  <2>1. CASE v = w
    BY <1>1, <2>1 DEF Alone, Typed
  <2>2. CASE v # w
    BY <1>1, <1>2, <2>2 DEF Alone, TypeOK
  <2>3. QED
    BY <2>1, <2>2
<1>6. /\ mode' \in Modes /\ run' \in [Students -> Runs]
      /\ DOMAIN delta' = Workers /\ pc' \in [Workers -> Steps]
      /\ raced' \subseteq Workers
  BY <1>1, <1>2 DEF Alone, TypeOK
<1>7. QED
  BY <1>3, <1>4, <1>5, <1>6 DEF TypeOK

LEMMA LocksStayExclusive ==
  ASSUME IInv, NEW w \in Workers, Actor(w)
  PROVE  Exclusive'
<1>1. Alone(w)
  BY DEF Actor, Private, Public
<1>2. ASSUME NEW u \in Workers, NEW v \in Workers, u # v
      PROVE  DOMAIN delta'[u] \intersect DOMAIN delta'[v] = {}
  <2>1. CASE u = w
    BY <1>1, <1>2, <2>1 DEF Alone
  <2>2. CASE v = w
    BY <1>1, <1>2, <2>2 DEF Alone
  <2>3. CASE u # w /\ v # w
    BY <1>1, <1>2, <2>3 DEF Alone, IInv, Exclusive
  <2>4. QED
    BY <2>1, <2>2, <2>3
<1>3. QED
  BY <1>2 DEF Exclusive

(* A step keeps the invariant if it keeps the state of its own request.    *)
LEMMA ActorKeeps ==
  ASSUME IInv, NEW w \in Workers, Actor(w), WorkerState(w)'
  PROVE  IInv'
<1>1. job' \in [Workers -> Job]
  BY DEF Actor, Private, Public, Alone
<1>2. \A v \in Workers : WorkerState(v)'
  BY OthersKeepTheirState
<1>3. QED
  BY <1>1, <1>2, TypesStay, LocksStayExclusive, DefaultStays DEF IInv

-------------------------------------------------------------------------------
(* The steps of a request, by what they write.                             *)

(* A request that ends keeps nothing.                                      *)
LEMMA Rests ==
  ASSUME NEW w \in Workers, pc'[w] = "idle", job'[w] = NoJob, delta'[w] = NoWrites
  PROVE  WorkerState(w)'
<1>1. job'[w].op = "none" /\ DOMAIN delta'[w] = {}
  BY NothingWritten DEF NoJob
<1>2. Errand(w)' /\ ManualErrand(w)' /\ Opened(w)'
  BY <1>1 DEF Errand, ManualErrand, Opened
<1>3. Uncommitted(w)' /\ Enrolls(w)' /\ Leaves(w)' /\ Removes(w)' /\ Transfers(w)'
  BY <1>1 DEF Uncommitted, Enrolls, Leaves, Removes, Transfers
<1>4. QED
  BY <1>2, <1>3 DEF WorkerState

LEMMA NoWritesTyped == Typed(NoWrites)
BY NothingWritten DEF Typed

(* An exception.                                                           *)
LEMMA Failing ==
  ASSUME IInv, NEW w \in Workers, NEW from, Fail(w, from)
  PROVE  Actor(w) /\ WorkerState(w)'
<1>1. GoWith(w, from, "idle", job[w]) /\ job[w] \in Job /\ "idle" \in Steps
  BY DEF Fail, Go, IInv, Steps
<1>2. /\ pc'[w] = "idle" /\ job'[w] = NoJob
      /\ pc' \in [Workers -> Steps] /\ job' \in [Workers -> Job]
      /\ \A v \in Workers \ {w} : pc'[v] = pc[v] /\ job'[v] = job[v]
  BY <1>1, Moved
<1>3. DOMAIN delta = Workers
  BY DEF IInv, TypeOK
<1>4. /\ DOMAIN delta' = Workers /\ delta'[w] = NoWrites
      /\ \A v \in Workers \ {w} : delta'[v] = delta[v]
      /\ UNCHANGED <<mode, run, db>> /\ raced' = raced \ {w}
  BY <1>3 DEF Fail
<1>5. raced' \subseteq Workers
  BY <1>4 DEF IInv, TypeOK
<1>6. Alone(w)
  BY <1>2, <1>4, <1>5, NoWritesTyped, NothingWritten DEF Alone
<1>7. Private(w)
  BY <1>4, <1>6 DEF Private
<1>8. QED
  BY <1>2, <1>4, <1>7, Rests DEF Actor

(* A commit.                                                               *)
LEMMA Committing ==
  ASSUME IInv, NEW w \in Workers, Commit(w)
  PROVE  Actor(w) /\ WorkerState(w)'
<1>1. GoWith(w, "commit", "idle", job[w]) /\ job[w] \in Job /\ "idle" \in Steps
  BY DEF Commit, Go, IInv, Steps
<1>2. /\ pc'[w] = "idle" /\ job'[w] = NoJob
      /\ pc' \in [Workers -> Steps] /\ job' \in [Workers -> Job]
      /\ \A v \in Workers \ {w} : pc'[v] = pc[v] /\ job'[v] = job[v]
  BY <1>1, Moved
<1>3. DOMAIN delta = Workers
  BY DEF IInv, TypeOK
<1>4. /\ DOMAIN delta' = Workers /\ delta'[w] = NoWrites
      /\ \A v \in Workers \ {w} : delta'[v] = delta[v]
      /\ UNCHANGED <<mode, run>>
  BY <1>3 DEF Commit, Fixed
<1>5. raced' \subseteq Workers
  BY DEF Commit, Disturb, IInv, TypeOK
<1>6. Alone(w)
  BY <1>2, <1>4, <1>5, NoWritesTyped, NothingWritten DEF Alone
<1>7. QED
  BY <1>2, <1>4, <1>6, Rests DEF Actor


(* A step that writes nothing.                                             *)
LEMMA Reading ==
  ASSUME IInv, NEW w \in Workers, NEW from, NEW to \in Steps \ {"idle"},
         NEW known \in Job, GoWith(w, from, to, known), Quiet
  PROVE  /\ Actor(w)
         /\ pc[w] = from /\ pc'[w] = to /\ job'[w] = known
         /\ UNCHANGED <<mode, run, db, delta, raced>>
<1>1. /\ pc[w] = from /\ pc'[w] = to /\ job'[w] = known
      /\ pc' \in [Workers -> Steps] /\ job' \in [Workers -> Job]
      /\ \A v \in Workers \ {w} : pc'[v] = pc[v] /\ job'[v] = job[v]
  BY Moved
<1>2. UNCHANGED <<mode, run, db, delta, raced>>
  BY DEF Quiet
<1>3. /\ DOMAIN delta = Workers /\ Typed(delta[w]) /\ raced \subseteq Workers
      /\ \A v \in Workers \ {w} : DOMAIN delta[w] \intersect DOMAIN delta[v] = {}
  BY DEF IInv, TypeOK, Typed, Exclusive
<1>4. Alone(w)
  BY <1>1, <1>2, <1>3 DEF Alone
<1>5. QED
  BY <1>1, <1>2, <1>4 DEF Private, Actor

(* What a write in the open transaction of w changes.                      *)
Wrote(w, x) ==
  /\ UNCHANGED <<mode, run, db, raced>>
  /\ DOMAIN delta'[w] = DOMAIN x \union DOMAIN delta[w]
  /\ \A k \in DOMAIN x : delta'[w][k] = x[k]
  /\ \A k \in DOMAIN delta[w] \ DOMAIN x : delta'[w][k] = delta[w][k]
  /\ \A v \in Workers \ {w} : DOMAIN x \intersect DOMAIN delta[v] = {}

LEMMA Writing ==
  ASSUME IInv, NEW w \in Workers, NEW from, NEW to \in Steps \ {"idle"},
         NEW known \in Job, GoWith(w, from, to, known), Fixed,
         NEW x, Typed(x), Write(w, x)
  PROVE  /\ Actor(w)
         /\ pc[w] = from /\ pc'[w] = to /\ job'[w] = known
         /\ Wrote(w, x)
<1>1. /\ pc[w] = from /\ pc'[w] = to /\ job'[w] = known
      /\ pc' \in [Workers -> Steps] /\ job' \in [Workers -> Job]
      /\ \A v \in Workers \ {w} : pc'[v] = pc[v] /\ job'[v] = job[v]
  BY Moved
<1>2. /\ DOMAIN delta = Workers /\ Typed(delta[w]) /\ raced \subseteq Workers
      /\ \A v \in Workers \ {w} : DOMAIN delta[w] \intersect DOMAIN delta[v] = {}
  BY DEF IInv, TypeOK, Typed, Exclusive
<1>3. /\ UNCHANGED <<mode, run, db, raced>>
      /\ DOMAIN delta' = Workers /\ delta'[w] = Over(x, delta[w])
      /\ \A v \in Workers \ {w} : delta'[v] = delta[v]
  BY <1>2 DEF Write, Fixed
<1>4. /\ DOMAIN Over(x, delta[w]) = DOMAIN x \union DOMAIN delta[w]
      /\ \A k \in DOMAIN x : Over(x, delta[w])[k] = x[k]
      /\ \A k \in DOMAIN delta[w] \ DOMAIN x : Over(x, delta[w])[k] = delta[w][k]
  BY OverOf
<1>5. Typed(Over(x, delta[w]))
  BY <1>2, OverTyped
<1>6. Typed(delta'[w])
  BY <1>3, <1>5
<1>7. \A v \in Workers \ {w} : DOMAIN x \intersect DOMAIN delta[v] = {}
  BY DEF Write, Free
<1>8. \A v \in Workers \ {w} : DOMAIN delta'[w] \intersect DOMAIN delta[v] = {}
  BY <1>2, <1>3, <1>4, <1>7
<1>9. Alone(w)
  BY <1>1, <1>2, <1>3, <1>6, <1>8 DEF Alone
<1>10. QED
  BY <1>1, <1>3, <1>4, <1>7, <1>9 DEF Private, Actor, Wrote

(* A statement outside of any transaction.                                 *)
LEMMA Publishing ==
  ASSUME IInv, NEW w \in Workers, NEW from, NEW to \in Steps, NEW known \in Job,
         GoWith(w, from, to, known), Fixed, delta[w] = NoWrites,
         NEW x, Harmless(x), AutoCommit(w, x)
  PROVE  /\ Actor(w)
         /\ pc[w] = from /\ pc'[w] = to
         /\ job'[w] = IF to = "idle" THEN NoJob ELSE known
         /\ UNCHANGED <<mode, run, delta>>
<1>1. /\ pc[w] = from /\ pc'[w] = to
      /\ job'[w] = IF to = "idle" THEN NoJob ELSE known
      /\ pc' \in [Workers -> Steps] /\ job' \in [Workers -> Job]
      /\ \A v \in Workers \ {w} : pc'[v] = pc[v] /\ job'[v] = job[v]
  BY Moved
<1>2. UNCHANGED <<mode, run, delta>>
  BY DEF AutoCommit, Fixed
<1>3. DOMAIN delta = Workers
  BY DEF IInv, TypeOK
<1>4. raced' \subseteq Workers
  BY DEF AutoCommit, Disturb, IInv, TypeOK
<1>5. Alone(w)
  BY <1>1, <1>2, <1>3, <1>4, NoWritesTyped, NothingWritten DEF Alone
<1>6. QED
  BY <1>1, <1>2, <1>5 DEF Public, Actor

(* Between two steps outside of a transaction a request has only to keep   *)
(* what it is about.                                                       *)
LEMMA NotYetOpen ==
  ASSUME NEW w \in Workers, delta'[w] = NoWrites, Errand(w)', ManualErrand(w)',
         job'[w].op \in {"enroll", "remove", "new_group"},
         job'[w].op = "enroll" => pc'[w] \notin {"recreate", "commit"},
         Removes(w)'
  PROVE  WorkerState(w)'
<1>1. DOMAIN delta'[w] = {}
  BY NothingWritten
<1>2. Opened(w)'
  BY DEF Opened
<1>3. Uncommitted(w)' /\ Enrolls(w)' /\ Leaves(w)' /\ Transfers(w)'
  BY <1>1 DEF Uncommitted, Enrolls, Leaves, Transfers
<1>4. QED
  BY <1>2, <1>3 DEF WorkerState

(* A leave request, inside its transaction.                                *)
LEMMA StillLeaving ==
  ASSUME IInv, NEW w \in Workers, Errand(w)', ManualErrand(w)', Leaves(w)',
         job'[w].op = "leave",
         \A g \in Groups : grp(g) \in DOMAIN delta'[w] => mode' # "manual",
         \A s \in Students : enr(s) \in DOMAIN delta'[w] =>
                               delta'[w][enr(s)].state = "left",
         \A a \in Assignments : asg(a) \notin DOMAIN delta'[w],
         \A a \in Assignments, s \in Students : sa(a, s) \notin DOMAIN delta'[w]
  PROVE  WorkerState(w)'
<1>1. Opened(w)' /\ Enrolls(w)' /\ Removes(w)' /\ Transfers(w)'
  BY DEF Opened, Enrolls, Removes, Transfers
<1>2. Uncommitted(w)'
  BY DEF Uncommitted, EntryFor
<1>3. QED
  BY <1>1, <1>2 DEF WorkerState


LEMMA LeavingReads ==
  ASSUME IInv, NEW w \in Workers, job[w].op = "leave",
         job'[w].op = "leave", job'[w].who = job[w].who,
         UNCHANGED <<mode, db, delta>>, Errand(w)', ManualErrand(w)'
  PROVE  WorkerState(w)'
<1>1. Uncommitted(w) /\ Leaves(w)
  BY DEF IInv, WorkerState
<1>2. Leaves(w)'
  BY <1>1 DEF Leaves
<1>3. /\ \A g \in Groups : grp(g) \in DOMAIN delta'[w] => mode' # "manual"
      /\ \A s \in Students : enr(s) \in DOMAIN delta'[w] =>
                               delta'[w][enr(s)].state = "left"
      /\ \A a \in Assignments : asg(a) \notin DOMAIN delta'[w]
  BY <1>1 DEF Uncommitted, EntryFor
<1>4. \A a \in Assignments, s \in Students : sa(a, s) \notin DOMAIN delta'[w]
  BY <1>1 DEF Uncommitted
<1>5. QED
  BY <1>2, <1>3, <1>4, StillLeaving


LEMMA LeavingWrites ==
  ASSUME IInv, NEW w \in Workers, job[w].op = "leave",
         job'[w].op = "leave", job'[w].who = job[w].who,
         Errand(w)', ManualErrand(w)', NEW x, Wrote(w, x),
         \A g \in Groups : grp(g) \in DOMAIN x => mode # "manual",
         \A s \in Students : enr(s) \in DOMAIN x => x[enr(s)].state = "left",
         \A a \in Assignments : asg(a) \notin DOMAIN x,
         \A a \in Assignments, s \in Students : sa(a, s) \notin DOMAIN x
  PROVE  WorkerState(w)'
<1> USE DEF Wrote
<1>1. Uncommitted(w) /\ Leaves(w)
  BY DEF IInv, WorkerState
<1>2. Leaves(w)'
  BY <1>1 DEF Leaves
<1>3. \A g \in Groups : grp(g) \in DOMAIN delta'[w] => mode' # "manual"
  BY <1>1 DEF Uncommitted
<1>4. ASSUME NEW s \in Students, enr(s) \in DOMAIN delta'[w]
      PROVE  delta'[w][enr(s)].state = "left"
  <2>1. CASE enr(s) \in DOMAIN x
    BY <2>1
  <2>2. CASE enr(s) \in DOMAIN delta[w] \ DOMAIN x
    BY <1>1, <2>2 DEF Uncommitted, EntryFor
  <2>3. QED
    BY <1>4, <2>1, <2>2
<1>5. \A a \in Assignments : asg(a) \notin DOMAIN delta'[w]
  BY <1>1 DEF Uncommitted
<1>6. \A a \in Assignments, s \in Students : sa(a, s) \notin DOMAIN delta'[w]
  BY <1>1 DEF Uncommitted
<1>7. QED
  BY <1>2, <1>3, <1>4, <1>5, <1>6, StillLeaving

-------------------------------------------------------------------------------
(* Each step of a request.                                                 *)

(* The default group of a manual course can be seen by everybody.          *)
LEMMA DefaultIsFound ==
  ASSUME IInv, NEW w \in Workers, mode = "manual"
  PROVE  /\ 1 \in Groups /\ db[grp(1)] = Default
         /\ 1 \in Matches(See(w), Default)
<1>1. mode \in Modes
  BY DEF IInv, TypeOK
<1>2. 1 \in 1..MaxGroups[mode]
  BY <1>1, BoundsAreNat
<1>3. 1 \in Groups
  BY <1>1, <1>2 DEF Groups
<1>4. db[grp(1)].type = "system"
  BY <1>3 DEF IInv, FirstIsDefault
<1>5. db[grp(1)] = Default
  BY <1>3, <1>4, GroupsAre, DbTyped, WholeTables DEF IInv
<1>6. grp(1) \notin DOMAIN delta[w]
  BY <1>3 DEF IInv, WorkerState, Uncommitted
<1>7. See(w)[grp(1)] = Default
  BY <1>3, <1>5, <1>6, SeeOf, Tables
<1>8. QED
  BY <1>3, <1>5, <1>7, GroupsAre DEF Matches, Existing

LEMMA WantedIs ==
  ASSUME IInv, NEW w \in Workers, job[w].op \in {"enroll", "leave", "remove", "new_group"}
  PROVE  /\ Wanted(w) \in GroupValues
         /\ job[w].op = "new_group" => Wanted(w).type = "manual"
         /\ (mode = "manual" /\ job[w].op # "new_group") => Wanted(w) = Default
<1>0. Errand(w) /\ run \in [Students -> Runs]
  BY DEF IInv, WorkerState, TypeOK
<1>1. CASE job[w].op = "new_group"
  <2>1. job[w].name \in Titles
    BY <1>0, <1>1, ErrandOf
  <2>2. Wanted(w) = Manual(job[w].name)
    BY <1>1 DEF Wanted
  <2>3. QED
    BY <1>1, <2>1, <2>2, GroupsAre
<1>2. CASE job[w].op = "enroll" /\ mode = "program_run"
  <2>1. PICK s \in Students : job[w].who = {s}
    BY <1>0, <1>2, ErrandOf
  <2>2. (CHOOSE u \in Students : u \in job[w].who) \in Students
    BY <2>1
  <2>3. Wanted(w) = RunGroup(run[CHOOSE u \in Students : u \in job[w].who])
    BY <1>2 DEF Wanted
  <2>4. QED
    BY <1>0, <1>2, <2>2, <2>3, GroupsAre
<1>3. CASE job[w].op # "new_group" /\ ~(job[w].op = "enroll" /\ mode = "program_run")
  <2>1. Wanted(w) = Default
    BY <1>3 DEF Wanted
  <2>2. QED
    BY <1>3, <2>1, GroupsAre
<1>4. QED
  BY <1>1, <1>2, <1>3

(* The request's job with another group in it.                             *)
LEMMA KnowsMore ==
  ASSUME IInv, NEW w \in Workers, NEW g \in Groups
  PROVE  /\ job[w] \in Job
         /\ [job[w] EXCEPT !.to = g] \in Job
         /\ [job[w] EXCEPT !.to = g].to = g
         /\ [job[w] EXCEPT !.to = g].op = job[w].op
         /\ [job[w] EXCEPT !.to = g].who = job[w].who
         /\ [job[w] EXCEPT !.to = g].group = job[w].group
         /\ [job[w] EXCEPT !.group = g] \in Job
         /\ [job[w] EXCEPT !.group = g].group = g
         /\ [job[w] EXCEPT !.group = g].op = job[w].op
         /\ [job[w] EXCEPT !.group = g].who = job[w].who
BY DEF IInv, Job

LEMMA FindGroupStep ==
  ASSUME IInv, NEW w \in Workers, FindGroup(w)
  PROVE  Actor(w) /\ WorkerState(w)'
<1>1. PICK g \in Groups :
        GoWith(w, "get_group", AfterGroup(w), [job[w] EXCEPT !.to = g])
  BY DEF FindGroup
<1>2. pc[w] = "get_group" /\ Quiet
  BY <1>1 DEF GoWith, FindGroup
<1>3. Errand(w) /\ ManualErrand(w) /\ Opened(w) /\ Removes(w)
  BY DEF IInv, WorkerState
<1>4. job[w].op \in {"enroll", "leave", "remove"}
  BY <1>2, <1>3, ErrandOf
<1>5. AfterGroup(w) = IF job[w].op = "enroll" THEN "activate" ELSE "move"
  BY <1>4 DEF AfterGroup
<1>6. AfterGroup(w) \in Steps \ {"idle"}
  BY <1>5 DEF Steps
<1> DEFINE known == [job[w] EXCEPT !.to = g]
<1>7a. /\ known \in Job /\ known.op = job[w].op /\ known.who = job[w].who
       /\ known.group = job[w].group /\ known.to = g
  BY KnowsMore
<1>7b. GoWith(w, "get_group", AfterGroup(w), known)
  BY <1>1
<1> HIDE DEF known
<1>7. /\ Actor(w) /\ pc'[w] = AfterGroup(w) /\ job'[w] = known
      /\ UNCHANGED <<mode, run, db, delta, raced>>
  BY <1>2, <1>6, <1>7a, <1>7b, Reading
<1>8. /\ job'[w].op = job[w].op /\ job'[w].who = job[w].who
      /\ job'[w].group = job[w].group /\ job'[w].to \in Groups
  BY <1>7, <1>7a
<1>9. ManualErrand(w)'
  BY <1>2, <1>3, <1>5, <1>7, <1>8 DEF ManualErrand
<1>10. Errand(w)'
  BY <1>2, <1>3, <1>4, <1>5, <1>7, <1>8, ErrandOf DEF Errand, GroupFor
<1>11. CASE job[w].op = "leave"
  BY <1>7, <1>8, <1>9, <1>10, <1>11, LeavingReads
<1>12. CASE job[w].op # "leave"
  <2>1. delta'[w] = NoWrites
    BY <1>2, <1>3, <1>4, <1>7, <1>12 DEF Opened
  <2>2. Removes(w)'
    BY <1>3, <1>7, <1>8 DEF Removes
  <2>3. QED
    BY <1>4, <1>5, <1>7, <1>8, <1>9, <1>10, <1>12, <2>1, <2>2, NotYetOpen
<1>13. QED
  BY <1>7, <1>11, <1>12

LEMMA GroupMissingStep ==
  ASSUME IInv, NEW w \in Workers, GroupMissing(w)
  PROVE  Actor(w) /\ WorkerState(w)'
<1>1. GoWith(w, "get_group", "clean_group", job[w]) /\ Quiet /\ pc[w] = "get_group"
  BY DEF GroupMissing, Go, GoWith
<1>2. Errand(w) /\ ManualErrand(w) /\ Opened(w) /\ Removes(w) /\ job[w] \in Job
  BY DEF IInv, WorkerState
<1>3. job[w].op \in {"enroll", "leave", "remove"}
  BY <1>1, <1>2, ErrandOf
<1>4. /\ Actor(w) /\ pc'[w] = "clean_group" /\ job'[w] = job[w]
      /\ UNCHANGED <<mode, run, db, delta, raced>>
  BY <1>1, <1>2, Reading DEF Steps
<1>5. mode # "manual"
  <2>1. Matches(See(w), Wanted(w)) = {}
    BY DEF GroupMissing
  <2>2. QED
    BY <1>3, <2>1, WantedIs, DefaultIsFound
<1>6. ManualErrand(w)'
  BY <1>4, <1>5 DEF ManualErrand
<1>7. Errand(w)'
  BY <1>1, <1>2, <1>3, <1>4 DEF Errand, GroupFor
<1>8. CASE job[w].op = "leave"
  BY <1>4, <1>6, <1>7, <1>8, LeavingReads
<1>9. CASE job[w].op # "leave"
  <2>1. delta'[w] = NoWrites
    BY <1>1, <1>2, <1>3, <1>4, <1>9 DEF Opened
  <2>2. Removes(w)'
    BY <1>2, <1>4 DEF Removes
  <2>3. QED
    BY <1>3, <1>4, <1>6, <1>7, <1>9, <2>1, <2>2, NotYetOpen
<1>10. QED
  BY <1>4, <1>8, <1>9

LEMMA CleanGroupStep ==
  ASSUME IInv, NEW w \in Workers, CleanGroup(w)
  PROVE  Actor(w) /\ WorkerState(w)'
<1>1. GoWith(w, "clean_group", "insert_group", job[w]) /\ Quiet /\ pc[w] = "clean_group"
  BY DEF CleanGroup, Go, GoWith
<1>2. Errand(w) /\ ManualErrand(w) /\ Opened(w) /\ Removes(w) /\ job[w] \in Job
  BY DEF IInv, WorkerState
<1>3. job[w].op \in {"enroll", "leave", "remove", "new_group"}
  BY <1>1, <1>2, ErrandOf
<1>4. /\ Actor(w) /\ pc'[w] = "insert_group" /\ job'[w] = job[w]
      /\ UNCHANGED <<mode, run, db, delta, raced>>
  BY <1>1, <1>2, Reading DEF Steps
<1>5. ManualErrand(w)'
  BY <1>1, <1>2, <1>4 DEF ManualErrand
<1>6. Errand(w)'
  BY <1>1, <1>2, <1>3, <1>4 DEF Errand, GroupFor
<1>7. CASE job[w].op = "leave"
  BY <1>4, <1>5, <1>6, <1>7, LeavingReads
<1>8. CASE job[w].op # "leave"
  <2>1. delta'[w] = NoWrites
    BY <1>1, <1>2, <1>3, <1>4, <1>8 DEF Opened
  <2>2. Removes(w)'
    BY <1>2, <1>4 DEF Removes
  <2>3. QED
    BY <1>3, <1>4, <1>5, <1>6, <1>8, <2>1, <2>2, NotYetOpen
<1>9. QED
  BY <1>4, <1>7, <1>8


LEMMA InsertGroupStep ==
  ASSUME IInv, NEW w \in Workers, InsertGroup(w)
  PROVE  Actor(w) /\ WorkerState(w)'
<1>1. PICK g \in FreeIds :
        /\ GoWith(w, "insert_group", AfterGroup(w), [job[w] EXCEPT !.to = g])
        /\ Put(w, Set(grp(g), Wanted(w)))
  BY DEF InsertGroup
<1>2. pc[w] = "insert_group" /\ Fixed
  BY <1>1 DEF GoWith, InsertGroup
<1>3. Errand(w) /\ ManualErrand(w) /\ Opened(w) /\ Removes(w) /\ mode \in Modes
  BY DEF IInv, WorkerState, TypeOK
<1>4. job[w].op \in {"enroll", "leave", "remove", "new_group"}
  BY <1>2, <1>3, ErrandOf
<1>5. g \in Groups /\ db[grp(g)] = Unused
  BY <1>1, <1>3 DEF FreeIds, Groups
<1>6. AfterGroup(w) = CASE job[w].op = "enroll"    -> "activate"
                        [] job[w].op = "new_group" -> "idle"
                        [] OTHER                   -> "move"
  BY DEF AfterGroup
<1>7. AfterGroup(w) \in Steps
  BY <1>4, <1>6 DEF Steps
<1> DEFINE x == Set(grp(g), Wanted(w))
           known == [job[w] EXCEPT !.to = g]
<1>8. DOMAIN x = {grp(g)} /\ x[grp(g)] = Wanted(w)
  BY SetOf
<1>9. Typed(x)
  <2>1. Holds(grp(g), Wanted(w))
    BY <1>4, <1>5, WantedIs, TableValues
  <2>2. QED
    BY <1>5, <2>1, Tables, SetTyped
<1>10. /\ known \in Job /\ known.op = job[w].op /\ known.who = job[w].who
       /\ known.group = job[w].group /\ known.to = g
  BY <1>5, KnowsMore
<1>11. GoWith(w, "insert_group", AfterGroup(w), known) /\ Put(w, x)
  BY <1>1
<1> HIDE DEF x, known
<1>12. CASE job[w].op = "leave"
  <2>1. AfterGroup(w) = "move" /\ Write(w, x)
    BY <1>6, <1>11, <1>12 DEF Put
  <2>2. /\ Actor(w) /\ pc'[w] = "move" /\ job'[w] = known
        /\ Wrote(w, x)
    <3>1. GoWith(w, "insert_group", "move", known) /\ "move" \in Steps \ {"idle"}
      BY <1>11, <2>1 DEF Steps
    <3>2. QED
      BY <1>2, <1>9, <1>10, <2>1, <3>1, Writing
  <2>3. mode # "manual"
    BY <1>2, <1>3, <1>12 DEF ManualErrand
  <2>4. ManualErrand(w)'
    BY <2>2, <2>3 DEF ManualErrand, Wrote
  <2>5. Errand(w)'
    BY <1>2, <1>3, <1>5, <1>10, <1>12, <2>2, ErrandOf DEF Errand, GroupFor
  <2>6. /\ \A s \in Students : enr(s) \notin DOMAIN x
        /\ \A a \in Assignments : asg(a) \notin DOMAIN x
        /\ \A a \in Assignments, s \in Students : sa(a, s) \notin DOMAIN x
    BY <1>8, RowsDiffer
  <2>7. WorkerState(w)'
    BY <1>10, <1>12, <2>2, <2>3, <2>4, <2>5, <2>6, LeavingWrites
  <2>8. QED
    BY <2>2, <2>7
<1>13. CASE job[w].op # "leave"
  <2>1. AutoCommit(w, x)
    BY <1>11, <1>13 DEF Put
  <2>2. delta[w] = NoWrites
    BY <1>2, <1>3, <1>4, <1>13 DEF Opened
  <2>3. Harmless(x)
    <3>1. mode = "manual" => job[w].op = "new_group"
      BY <1>2, <1>3 DEF ManualErrand
    <3>2. mode = "manual" => Wanted(w).type = "manual"
      BY <1>4, <3>1, WantedIs
    <3>3. mode = "manual" =>
            \A h \in Groups : grp(h) \in DOMAIN x =>
              db[grp(h)].type # "system" /\ x[grp(h)].type \in {"manual", "removed"}
      BY <1>5, <1>8, <3>2, RowsNameThings, GroupsAre
    <3>4. /\ \A s \in Students : enr(s) \notin DOMAIN x
          /\ \A a \in Assignments : asg(a) \notin DOMAIN x
          /\ \A a \in Assignments, s \in Students : sa(a, s) \notin DOMAIN x
      BY <1>8, RowsDiffer
    <3>5. QED
      BY <1>9, <3>3, <3>4 DEF Harmless
  <2>4. /\ Actor(w) /\ pc'[w] = AfterGroup(w)
        /\ job'[w] = IF AfterGroup(w) = "idle" THEN NoJob ELSE known
        /\ UNCHANGED <<mode, run, delta>>
    BY <1>2, <1>7, <1>10, <1>11, <2>1, <2>2, <2>3, Publishing
  <2>5. CASE job[w].op = "new_group"
    <3>1. pc'[w] = "idle" /\ job'[w] = NoJob /\ delta'[w] = NoWrites
      BY <1>6, <2>2, <2>4, <2>5
    <3>2. QED
      BY <2>4, <3>1, Rests
  <2>6. CASE job[w].op # "new_group"
    <3>1. /\ pc'[w] = IF job[w].op = "enroll" THEN "activate" ELSE "move"
          /\ job'[w] = known /\ delta'[w] = NoWrites
      BY <1>4, <1>6, <1>13, <2>2, <2>4, <2>6
    <3>2. mode # "manual"
      BY <1>2, <1>3, <2>6 DEF ManualErrand
    <3>3. ManualErrand(w)' /\ Removes(w)'
      BY <2>4, <3>2 DEF ManualErrand, Removes
    <3>4. Errand(w)'
      BY <1>2, <1>3, <1>4, <1>5, <1>10, <1>13, <2>6, <3>1, ErrandOf
         DEF Errand, GroupFor
    <3>5. QED
      BY <1>4, <1>10, <1>13, <2>4, <2>6, <3>1, <3>3, <3>4, NotYetOpen
  <2>7. QED
    BY <2>5, <2>6
<1>14. QED
  BY <1>12, <1>13


(* A request begins.                                                       *)
LEMMA Serving ==
  ASSUME IInv, NEW w \in Workers, NEW first \in Steps \ {"idle"},
         NEW request \in Job, Serve(w, first, request)
  PROVE  /\ Actor(w) /\ pc'[w] = first /\ job'[w] = request
         /\ UNCHANGED <<mode, run, db, delta, raced>>
         /\ delta'[w] = NoWrites
<1>1. GoWith(w, "idle", first, request) /\ Quiet
  BY DEF Serve
<1>2. /\ Actor(w) /\ pc[w] = "idle" /\ pc'[w] = first /\ job'[w] = request
      /\ UNCHANGED <<mode, run, db, delta, raced>>
  BY <1>1, Reading
<1>3. delta[w] = NoWrites
  BY <1>2 DEF IInv, TypeOK
<1>4. QED
  BY <1>2, <1>3

LEMMA BeginEnrollStep ==
  ASSUME IInv, NEW w \in Workers, NEW s \in Students, BeginEnroll(w, s)
  PROVE  Actor(w) /\ WorkerState(w)'
<1> DEFINE request == [NoJob EXCEPT !.op = "enroll", !.who = {s}]
<1>1. request \in Job /\ request.op = "enroll" /\ request.who = {s}
  BY DEF NoJob, Job, Ops
<1>2. Serve(w, "get_group", request)
  BY DEF BeginEnroll
<1> HIDE DEF request
<1>3. "get_group" \in Steps \ {"idle"}
  BY DEF Steps
<1>4. /\ Actor(w) /\ pc'[w] = "get_group" /\ job'[w] = request
      /\ delta'[w] = NoWrites
  BY <1>1, <1>2, <1>3, Serving
<1>5. Errand(w)' /\ ManualErrand(w)' /\ Removes(w)'
  BY <1>1, <1>4 DEF Errand, GroupFor, ManualErrand, Removes
<1>6. QED
  BY <1>1, <1>4, <1>5, NotYetOpen

LEMMA BeginNewGroupStep ==
  ASSUME IInv, NEW w \in Workers, NEW n \in Titles, BeginNewGroup(w, n)
  PROVE  Actor(w) /\ WorkerState(w)'
<1> DEFINE request == [NoJob EXCEPT !.op = "new_group", !.name = n]
<1>1. request \in Job /\ request.op = "new_group" /\ request.name = n
  BY DEF NoJob, Job, Ops
<1>2. Serve(w, "clean_group", request)
  BY DEF BeginNewGroup
<1> HIDE DEF request
<1>3. "clean_group" \in Steps \ {"idle"}
  BY DEF Steps
<1>4. /\ Actor(w) /\ pc'[w] = "clean_group" /\ job'[w] = request
      /\ delta'[w] = NoWrites
  BY <1>1, <1>2, <1>3, Serving
<1>5. Errand(w)' /\ ManualErrand(w)' /\ Removes(w)'
  BY <1>1, <1>4 DEF Errand, GroupFor, ManualErrand, Removes
<1>6. QED
  BY <1>1, <1>4, <1>5, NotYetOpen

LEMMA BeginRemoveStep ==
  ASSUME IInv, NEW w \in Workers, NEW g \in Groups, BeginRemove(w, g)
  PROVE  Actor(w) /\ WorkerState(w)'
<1> DEFINE request == [NoJob EXCEPT !.op = "remove", !.group = g]
<1>1. request \in Job /\ request.op = "remove" /\ request.group = g
  BY DEF NoJob, Job, Ops
<1>2. Serve(w, "check", request) /\ db[grp(g)].type = "manual"
  BY DEF BeginRemove, MayDelete
<1> HIDE DEF request
<1>3. "check" \in Steps \ {"idle"}
  BY DEF Steps
<1>4. /\ Actor(w) /\ pc'[w] = "check" /\ job'[w] = request
      /\ delta'[w] = NoWrites /\ db' = db
  BY <1>1, <1>2, <1>3, Serving
<1>5. Errand(w)' /\ ManualErrand(w)' /\ Removes(w)'
  BY <1>1, <1>2, <1>4 DEF Errand, GroupFor, ManualErrand, Removes
<1>6. QED
  BY <1>1, <1>4, <1>5, NotYetOpen

LEMMA BeginLeaveStep ==
  ASSUME IInv, NEW w \in Workers, NEW s \in Students, BeginLeave(w, s)
  PROVE  Actor(w) /\ WorkerState(w)'
<1> DEFINE request == [NoJob EXCEPT !.op = "leave", !.who = {s}]
<1>1. request \in Job /\ request.op = "leave" /\ request.who = {s}
  BY DEF NoJob, Job, Ops
<1>2. Serve(w, "leave", request) /\ db[enr(s)].state = "active"
  BY DEF BeginLeave
<1> HIDE DEF request
<1>3. "leave" \in Steps \ {"idle"}
  BY DEF Steps
<1>4. /\ Actor(w) /\ pc'[w] = "leave" /\ job'[w] = request
      /\ delta'[w] = NoWrites /\ db' = db
  BY <1>1, <1>2, <1>3, Serving
<1>5. Errand(w)' /\ ManualErrand(w)' /\ Leaves(w)'
  BY <1>1, <1>2, <1>4 DEF Errand, ManualErrand, Leaves
<1>6. DOMAIN delta'[w] = {}
  BY <1>4, NothingWritten
<1>7. QED
  BY <1>1, <1>4, <1>5, <1>6, StillLeaving

LEMMA BeginTransferStep ==
  ASSUME IInv, NEW w \in Workers, NEW g \in Groups, NEW h \in Groups,
         NEW who \in SUBSET Students, BeginTransfer(w, who, g, h)
  PROVE  Actor(w) /\ WorkerState(w)'
<1> DEFINE request ==
      [NoJob EXCEPT !.op = "transfer", !.who = who, !.group = g, !.to = h]
<1>1. /\ request \in Job /\ request.op = "transfer" /\ request.who = who
      /\ request.group = g /\ request.to = h
  BY DEF NoJob, Job, Ops
<1>2. Serve(w, "move_students", request) /\ h \in SafeTargets(db, g)
  BY DEF BeginTransfer
<1> HIDE DEF request
<1>3. "move_students" \in Steps \ {"idle"}
  BY DEF Steps
<1>4. /\ Actor(w) /\ pc'[w] = "move_students" /\ job'[w] = request
      /\ delta'[w] = NoWrites /\ db' = db
  BY <1>1, <1>2, <1>3, Serving
<1>5. Errand(w)' /\ ManualErrand(w)'
  BY <1>1, <1>4 DEF Errand, ManualErrand
<1>6. SafeTransfer(g, h)
  <2>1. Restricts(db, g) \subseteq Restricts(db, h)
    BY <1>2 DEF SafeTargets
  <2>2. QED
    BY <2>1 DEF SafeTransfer, OpenTo, Restricts
<1>7. SafeTransfer(g, h)'
  BY <1>4, <1>6 DEF SafeTransfer, CourseAssignments, OpenTo
<1>8. DOMAIN delta'[w] = {}
  BY <1>4, NothingWritten
<1>9. Transfers(w)'
  BY <1>1, <1>4, <1>7 DEF Transfers
<1>10. /\ Opened(w)' /\ Uncommitted(w)' /\ Enrolls(w)' /\ Leaves(w)' /\ Removes(w)'
  BY <1>1, <1>4, <1>8 DEF Opened, Uncommitted, Enrolls, Leaves, Removes
<1>11. QED
  BY <1>4, <1>5, <1>9, <1>10 DEF WorkerState


(* Only a request that edits an assignment sees another one than the rest. *)
LEMMA SeesAssignments ==
  ASSUME IInv, NEW w \in Workers, job[w].op # "edit"
  PROVE  /\ \A a \in Assignments : asg(a) \notin DOMAIN delta[w]
         /\ \A a \in Assignments : See(w)[asg(a)] = db[asg(a)]
         /\ CourseAssignments(See(w)) = CourseAssignments(db)
         /\ \A g : AvailableTo(See(w), g) = AvailableTo(db, g)
<1>1. \A a \in Assignments : asg(a) \notin DOMAIN delta[w]
  BY DEF IInv, WorkerState, Uncommitted
<1>2. \A a \in Assignments : See(w)[asg(a)] = db[asg(a)]
  BY <1>1, SeeOf, Tables
<1>3. CourseAssignments(See(w)) = CourseAssignments(db)
  BY <1>2 DEF CourseAssignments
<1>4. CourseAssignments(db) \subseteq Assignments
  BY DEF CourseAssignments
<1>5. \A g : AvailableTo(See(w), g) = AvailableTo(db, g)
  BY <1>2, <1>3, <1>4 DEF AvailableTo, OpenTo
<1>6. QED
  BY <1>1, <1>2, <1>3, <1>5

(* Writes to personal assignments only.                                    *)
LEMMA WorkTyped ==
  ASSUME NEW x, DOMAIN x \subseteq WorkRows,
         \A k \in DOMAIN x : x[k] \in {"none", "live", "trash"}
  PROVE  /\ Typed(x)
         /\ \A g \in Groups : grp(g) \notin DOMAIN x
         /\ \A s \in Students : enr(s) \notin DOMAIN x
         /\ \A a \in Assignments : asg(a) \notin DOMAIN x
<1>1. \A k \in WorkRows : \E a \in Assignments, s \in Students : k = sa(a, s)
  BY DEF WorkRows
<1>2. \A k \in DOMAIN x : k \in Rows /\ Holds(k, x[k])
  BY <1>1, TableValues, Tables
<1>3. QED
  BY <1>1, <1>2, RowsDiffer DEF Typed

LEMMA ActivateStep ==
  ASSUME IInv, NEW w \in Workers, Activate(w)
  PROVE  Actor(w) /\ WorkerState(w)'
<1>1. GoWith(w, "activate", "recreate", job[w]) /\ Fixed /\ pc[w] = "activate"
  BY DEF Activate, Go, GoWith
<1>2. Errand(w) /\ Opened(w) /\ job[w] \in Job
  BY DEF IInv, WorkerState
<1>3. job[w].op = "enroll" /\ job[w].to \in Groups
  BY <1>1, <1>2, ErrandOf
<1>4. delta[w] = NoWrites /\ DOMAIN delta[w] = {}
  BY <1>1, <1>2, <1>3, NothingWritten DEF Opened
<1> DEFINE entry == [state |-> "active", group |-> job[w].to]
<1>5. PICK s \in job[w].who :
        See(w)[enr(s)].state # "active" /\ Write(w, Set(enr(s), entry))
  BY DEF Activate
<1>6. s \in Students /\ job[w].who = {s}
  BY <1>2, <1>3, <1>5, ErrandOf
<1>7. db[enr(s)].state # "active"
  BY <1>4, <1>5, <1>6, SeeOf, Tables
<1>8. entry \in EnrollmentValues /\ entry.state = "active" /\ entry.group = job[w].to
  BY <1>3 DEF EnrollmentValues
<1> HIDE DEF entry
<1> DEFINE x == Set(enr(s), entry)
<1>9. DOMAIN x = {enr(s)} /\ x[enr(s)] = entry
  BY SetOf
<1>10. Typed(x)
  BY <1>6, <1>8, Tables, TableValues, SetTyped
<1>11. Write(w, x) /\ "recreate" \in Steps \ {"idle"}
  BY <1>5 DEF Steps
<1> HIDE DEF x
<1>12. /\ Actor(w) /\ pc'[w] = "recreate" /\ job'[w] = job[w] /\ Wrote(w, x)
  BY <1>1, <1>2, <1>10, <1>11, Writing
<1>13. db' = db /\ DOMAIN delta'[w] = {enr(s)} /\ delta'[w][enr(s)] = entry
  BY <1>4, <1>9, <1>12 DEF Wrote
<1>14. Errand(w)' /\ ManualErrand(w)' /\ Opened(w)'
  BY <1>3, <1>6, <1>12 DEF Errand, GroupFor, ManualErrand, Opened
<1>15. Uncommitted(w)'
  <2>1. ASSUME NEW u \in Students, enr(u) \in DOMAIN delta'[w]
        PROVE  EntryFor(w, u, delta[w][enr(u)])'
    <3>1. u = s
      BY <1>13, <2>1, RowsNameThings
    <3>2. QED
      BY <1>3, <1>5, <1>7, <1>12, <1>13, <3>1 DEF EntryFor, entry
  <2>2. /\ \A g \in Groups : grp(g) \notin DOMAIN delta'[w]
        /\ \A a \in Assignments : asg(a) \notin DOMAIN delta'[w]
        /\ \A a \in Assignments, u \in Students : sa(a, u) \notin DOMAIN delta'[w]
    BY <1>13, RowsDiffer
  <2>3. QED
    BY <2>1, <2>2 DEF Uncommitted
<1>16. Enrolls(w)' /\ Leaves(w)' /\ Removes(w)' /\ Transfers(w)'
  BY <1>3, <1>6, <1>12, <1>13 DEF Enrolls, Leaves, Removes, Transfers
<1>17. QED
  BY <1>12, <1>14, <1>15, <1>16 DEF WorkerState

LEMMA RecreateStep ==
  ASSUME IInv, NEW w \in Workers, Recreate(w)
  PROVE  Actor(w) /\ WorkerState(w)'
<1>1. GoWith(w, "recreate", "commit", job[w]) /\ Fixed /\ pc[w] = "recreate"
  BY DEF Recreate, Go, GoWith
<1>2. Errand(w) /\ Opened(w) /\ Uncommitted(w) /\ Enrolls(w) /\ job[w] \in Job
  BY DEF IInv, WorkerState
<1>3. job[w].op = "enroll" /\ job[w].to \in Groups
  BY <1>1, <1>2, ErrandOf
<1>4. PICK s \in job[w].who : Write(w, [k \in Recreated(See(w), s) |-> "live"])
  BY DEF Recreate
<1>5. s \in Students /\ job[w].who = {s}
  BY <1>2, <1>3, <1>4, ErrandOf
<1>6. enr(s) \in DOMAIN delta[w] /\ delta[w][enr(s)].group = job[w].to
  BY <1>1, <1>2, <1>3, <1>4, <1>5 DEF Enrolls, Uncommitted, EntryFor
<1>7. See(w)[enr(s)].group = job[w].to
  BY <1>5, <1>6, SeeOf, Tables
<1>8. Recreated(See(w), s) = {sa(a, s) : a \in AvailableTo(db, job[w].to)}
  BY <1>3, <1>7, SeesAssignments DEF Recreated
<1>9. AvailableTo(db, job[w].to) \subseteq Assignments
  BY DEF AvailableTo, CourseAssignments
<1> DEFINE x == [k \in Recreated(See(w), s) |-> "live"]
<1>10. /\ DOMAIN x = {sa(a, s) : a \in AvailableTo(db, job[w].to)}
       /\ \A k \in DOMAIN x : x[k] = "live"
  BY <1>8
<1>11. Write(w, x) /\ "commit" \in Steps \ {"idle"}
  BY <1>4 DEF Steps
<1> HIDE DEF x
<1>12. DOMAIN x \subseteq WorkRows
  BY <1>5, <1>9, <1>10, Tables
<1>13. /\ Typed(x)
       /\ \A g \in Groups : grp(g) \notin DOMAIN x
       /\ \A u \in Students : enr(u) \notin DOMAIN x
       /\ \A a \in Assignments : asg(a) \notin DOMAIN x
  BY <1>10, <1>12, WorkTyped
<1>14. /\ Actor(w) /\ pc'[w] = "commit" /\ job'[w] = job[w] /\ Wrote(w, x)
  BY <1>1, <1>2, <1>11, <1>13, Writing
<1> USE DEF Wrote
<1>15. Errand(w)' /\ ManualErrand(w)' /\ Opened(w)'
  BY <1>3, <1>5, <1>14 DEF Errand, GroupFor, ManualErrand, Opened
<1>16. Uncommitted(w)'
  <2>1. ASSUME NEW u \in Students, enr(u) \in DOMAIN delta'[w]
        PROVE  EntryFor(w, u, delta[w][enr(u)])'
    <3>1. enr(u) \in DOMAIN delta[w] /\ delta'[w][enr(u)] = delta[w][enr(u)]
      BY <1>13, <1>14, <2>1
    <3>2. QED
      BY <1>2, <1>14, <3>1 DEF Uncommitted, EntryFor
  <2>2. /\ \A g \in Groups : grp(g) \in DOMAIN delta'[w] => mode' # "manual"
        /\ \A a \in Assignments : asg(a) \notin DOMAIN delta'[w]
    BY <1>2, <1>3, <1>13, <1>14 DEF Uncommitted
  <2>3. ASSUME NEW a \in Assignments, NEW u \in Students, sa(a, u) \in DOMAIN delta'[w]
        PROVE  delta'[w][sa(a, u)] = "live"
    <3>1. CASE sa(a, u) \in DOMAIN x
      BY <1>10, <1>14, <3>1
    <3>2. CASE sa(a, u) \in DOMAIN delta[w] \ DOMAIN x
      BY <1>2, <1>3, <1>14, <3>2 DEF Uncommitted
    <3>3. QED
      BY <1>14, <2>3, <3>1, <3>2
  <2>4. QED
    BY <1>3, <1>14, <2>1, <2>2, <2>3 DEF Uncommitted
<1>17. Enrolls(w)'
  <2>1. enr(s) \in DOMAIN delta'[w]
    BY <1>6, <1>14
  <2>2. \A a \in AvailableTo(db, job[w].to) : sa(a, s) \in DOMAIN delta'[w]
    BY <1>10, <1>14
  <2>3. QED
    BY <1>5, <1>14, <2>1, <2>2 DEF Enrolls
<1>18. Leaves(w)' /\ Removes(w)' /\ Transfers(w)'
  BY <1>3, <1>14 DEF Leaves, Removes, Transfers
<1>19. QED
  BY <1>14, <1>15, <1>16, <1>17, <1>18 DEF WorkerState


LEMMA LeaveStep ==
  ASSUME IInv, NEW w \in Workers, Leave(w)
  PROVE  Actor(w) /\ WorkerState(w)'
<1> DEFINE to == IF mode = "program_run" THEN "run_group" ELSE "commit"
<1>1. GoWith(w, "leave", to, job[w]) /\ Fixed /\ pc[w] = "leave"
  BY DEF Leave, Go, GoWith
<1>2. Errand(w) /\ Leaves(w) /\ job[w] \in Job /\ mode \in Modes
  BY DEF IInv, WorkerState, TypeOK
<1>3. job[w].op = "leave"
  BY <1>1, <1>2, ErrandOf
<1>4. PICK s \in job[w].who :
        Write(w, Set(enr(s), [See(w)[enr(s)] EXCEPT !.state = "left"]))
  BY DEF Leave
<1>5. s \in Students /\ job[w].who = {s}
  BY <1>2, <1>3, <1>4, ErrandOf
<1>6. See(w)[enr(s)].state # "absent"
  <2>1. CASE enr(s) \in DOMAIN delta[w]
    <3>1. EntryFor(w, s, delta[w][enr(s)])
      BY <1>5, <2>1 DEF IInv, WorkerState, Uncommitted
    <3>2. QED
      BY <1>3, <1>5, <2>1, <3>1, SeeOf, Tables DEF EntryFor
  <2>2. CASE enr(s) \notin DOMAIN delta[w]
    BY <1>2, <1>3, <1>5, <2>2, SeeOf, Tables DEF Leaves
  <2>3. QED
    BY <2>1, <2>2
<1>7. See(w)[enr(s)] \in EnrollmentValues
  BY <1>5, SeeTyped, WholeTables DEF IInv
<1> DEFINE entry == [See(w)[enr(s)] EXCEPT !.state = "left"]
<1>8. entry \in EnrollmentValues /\ entry.state = "left"
  BY <1>6, <1>7, EnrollmentsAre
<1>9. Write(w, Set(enr(s), entry))
  BY <1>4
<1> HIDE DEF entry
<1> DEFINE x == Set(enr(s), entry)
<1>10. DOMAIN x = {enr(s)} /\ x[enr(s)] = entry
  BY SetOf
<1>11. Typed(x)
  BY <1>5, <1>8, Tables, TableValues, SetTyped
<1>12. Write(w, x) /\ to \in Steps \ {"idle"}
  BY <1>9 DEF Steps
<1> HIDE DEF x, to
<1>13. /\ Actor(w) /\ pc'[w] = to /\ job'[w] = job[w] /\ Wrote(w, x)
  BY <1>1, <1>2, <1>11, <1>12, Writing
<1>14. to \in {"run_group", "commit"} /\ (mode = "manual" => to = "commit")
  BY DEF to
<1>15. Errand(w)' /\ ManualErrand(w)'
  BY <1>3, <1>5, <1>13, <1>14 DEF Errand, ManualErrand, Wrote
<1>16. /\ \A g \in Groups : grp(g) \notin DOMAIN x
       /\ \A u \in Students : enr(u) \in DOMAIN x => x[enr(u)].state = "left"
       /\ \A a \in Assignments : asg(a) \notin DOMAIN x
       /\ \A a \in Assignments, u \in Students : sa(a, u) \notin DOMAIN x
  BY <1>8, <1>10, RowsDiffer
<1>17. QED
  BY <1>3, <1>13, <1>15, <1>16, LeavingWrites

LEMMA KeepRunGroupStep ==
  ASSUME IInv, NEW w \in Workers, KeepRunGroup(w)
  PROVE  Actor(w) /\ WorkerState(w)'
<1>1. GoWith(w, "run_group", "commit", job[w]) /\ Quiet /\ pc[w] = "run_group"
  BY DEF KeepRunGroup, Go, GoWith
<1>2. Errand(w) /\ job[w] \in Job
  BY DEF IInv, WorkerState
<1>3. job[w].op = "leave"
  BY <1>1, <1>2, ErrandOf
<1>4. /\ Actor(w) /\ pc'[w] = "commit" /\ job'[w] = job[w]
      /\ UNCHANGED <<mode, run, db, delta, raced>>
  BY <1>1, <1>2, Reading DEF Steps
<1>5. \E s \in Students : job[w].who = {s}
  BY <1>2, <1>3, ErrandOf
<1>6. Errand(w)' /\ ManualErrand(w)'
  BY <1>3, <1>4, <1>5 DEF Errand, ManualErrand
<1>7. QED
  BY <1>3, <1>4, <1>6, LeavingReads

LEMMA RemoveRunGroupStep ==
  ASSUME IInv, NEW w \in Workers, RemoveRunGroup(w)
  PROVE  Actor(w) /\ WorkerState(w)'
<1>1. PICK g \in Groups :
        GoWith(w, "run_group", "find_left", [job[w] EXCEPT !.group = g])
  BY DEF RemoveRunGroup
<1> DEFINE known == [job[w] EXCEPT !.group = g]
<1>2. known \in Job /\ known.op = job[w].op /\ known.who = job[w].who /\ known.group = g
  BY KnowsMore
<1>3. GoWith(w, "run_group", "find_left", known) /\ Quiet /\ pc[w] = "run_group"
  BY <1>1 DEF RemoveRunGroup, GoWith
<1> HIDE DEF known
<1>4. Errand(w) /\ ManualErrand(w)
  BY DEF IInv, WorkerState
<1>5. job[w].op = "leave" /\ mode # "manual" /\ \E s \in Students : job[w].who = {s}
  BY <1>3, <1>4, ErrandOf DEF ManualErrand
<1>6. /\ Actor(w) /\ pc'[w] = "find_left" /\ job'[w] = known
      /\ UNCHANGED <<mode, run, db, delta, raced>>
  BY <1>2, <1>3, Reading DEF Steps
<1>7. Errand(w)' /\ ManualErrand(w)'
  BY <1>2, <1>5, <1>6 DEF Errand, GroupFor, ManualErrand
<1>8. QED
  BY <1>2, <1>5, <1>6, <1>7, LeavingReads

(* A row of a group, written in a leave request.                           *)
LEMMA CastToManualStep ==
  ASSUME IInv, NEW w \in Workers, CastToManual(w)
  PROVE  Actor(w) /\ WorkerState(w)'
<1>1. GoWith(w, "run_group", "commit", job[w]) /\ Fixed /\ pc[w] = "run_group"
  BY DEF CastToManual, Go, GoWith
<1>2. Errand(w) /\ ManualErrand(w) /\ job[w] \in Job
  BY DEF IInv, WorkerState
<1>3. job[w].op = "leave" /\ mode # "manual" /\ \E s \in Students : job[w].who = {s}
  BY <1>1, <1>2, ErrandOf DEF ManualErrand
<1>4. PICK g \in RunGroups(w) : Write(w, Set(grp(g), Manual(See(w)[grp(g)].name)))
  BY DEF CastToManual
<1>5. g \in Groups /\ See(w)[grp(g)].type = "program_run"
  BY <1>4, GroupsAre DEF RunGroups, Matches, Existing
<1>6. See(w)[grp(g)] \in GroupValues
  BY <1>5, SeeTyped, WholeTables DEF IInv
<1> DEFINE value == Manual(See(w)[grp(g)].name)
<1>7. value \in GroupValues
  BY <1>5, <1>6, GroupsAre
<1>8. Write(w, Set(grp(g), value))
  BY <1>4
<1> HIDE DEF value
<1> DEFINE x == Set(grp(g), value)
<1>9. DOMAIN x = {grp(g)}
  BY SetOf
<1>10. Typed(x)
  BY <1>5, <1>7, Tables, TableValues, SetTyped
<1>11. Write(w, x) /\ "commit" \in Steps \ {"idle"}
  BY <1>8 DEF Steps
<1> HIDE DEF x
<1>12. /\ Actor(w) /\ pc'[w] = "commit" /\ job'[w] = job[w] /\ Wrote(w, x)
  BY <1>1, <1>2, <1>10, <1>11, Writing
<1>13. Errand(w)' /\ ManualErrand(w)'
  BY <1>3, <1>12 DEF Errand, ManualErrand
<1>14. /\ \A s \in Students : enr(s) \notin DOMAIN x
       /\ \A a \in Assignments : asg(a) \notin DOMAIN x
       /\ \A a \in Assignments, s \in Students : sa(a, s) \notin DOMAIN x
  BY <1>9, RowsDiffer
<1>15. QED
  BY <1>3, <1>12, <1>13, <1>14, LeavingWrites

LEMMA CheckRemovalStep ==
  ASSUME IInv, NEW w \in Workers, CheckRemoval(w)
  PROVE  Actor(w) /\ WorkerState(w)'
<1>1. GoWith(w, "check", "find_left", job[w]) /\ Quiet /\ pc[w] = "check"
  BY DEF CheckRemoval, Go, GoWith
<1>2. Errand(w) /\ Opened(w) /\ Removes(w) /\ job[w] \in Job
  BY DEF IInv, WorkerState
<1>3. job[w].op = "remove" /\ job[w].group \in Groups
  BY <1>1, <1>2, ErrandOf
<1>4. /\ Actor(w) /\ pc'[w] = "find_left" /\ job'[w] = job[w]
      /\ UNCHANGED <<mode, run, db, delta, raced>>
  BY <1>1, <1>2, Reading DEF Steps
<1>5. Errand(w)' /\ ManualErrand(w)' /\ Removes(w)'
  BY <1>2, <1>3, <1>4 DEF Errand, GroupFor, ManualErrand, Removes
<1>6. delta'[w] = NoWrites
  BY <1>2, <1>3, <1>4 DEF Opened
<1>7. QED
  BY <1>3, <1>4, <1>5, <1>6, NotYetOpen

LEMMA FindLeftStep ==
  ASSUME IInv, NEW w \in Workers, FindLeft(w)
  PROVE  Actor(w) /\ WorkerState(w)'
<1> DEFINE to == IF ToMove(See(w), job[w].group) = {} THEN "delete_group" ELSE "get_group"
<1>1. GoWith(w, "find_left", to, job[w]) /\ Quiet /\ pc[w] = "find_left"
  BY DEF FindLeft, Go, GoWith
<1>2. to \in {"delete_group", "get_group"} /\ to \in Steps \ {"idle"}
  BY DEF Steps
<1> HIDE DEF to
<1>3. Errand(w) /\ ManualErrand(w) /\ Opened(w) /\ Removes(w) /\ job[w] \in Job
  BY DEF IInv, WorkerState
<1>4. job[w].op \in {"leave", "remove"} /\ job[w].group \in Groups
  BY <1>1, <1>3, ErrandOf
<1>5. job[w].op = "leave" => mode # "manual" /\ \E s \in Students : job[w].who = {s}
  BY <1>1, <1>3, ErrandOf DEF ManualErrand
<1>6. /\ Actor(w) /\ pc'[w] = to /\ job'[w] = job[w]
      /\ UNCHANGED <<mode, run, db, delta, raced>>
  BY <1>1, <1>2, <1>3, Reading
<1>7. Errand(w)' /\ ManualErrand(w)'
  BY <1>2, <1>4, <1>5, <1>6 DEF Errand, GroupFor, ManualErrand
<1>8. CASE job[w].op = "leave"
  BY <1>6, <1>7, <1>8, LeavingReads
<1>9. CASE job[w].op = "remove"
  <2>1. delta'[w] = NoWrites /\ Removes(w)'
    BY <1>3, <1>6, <1>9 DEF Opened, Removes
  <2>2. QED
    BY <1>6, <1>7, <1>9, <2>1, NotYetOpen
<1>10. QED
  BY <1>4, <1>8, <1>9


(* What _move_unenrolled_students_to_default_group writes.                 *)
LEMMA MoveWrites ==
  ASSUME IInv, NEW w \in Workers, NEW g \in Groups, NEW h \in Groups, NEW x,
         x = [k \in {enr(s) : s \in ToMove(See(w), g)} |->
                [See(w)[k] EXCEPT !.group = h]]
  PROVE  /\ Typed(x)
         /\ \A s \in Students : enr(s) \in DOMAIN x =>
              x[enr(s)].state = "left" /\ See(w)[enr(s)].state = "left"
         /\ \A e \in Groups : grp(e) \notin DOMAIN x
         /\ \A a \in Assignments : asg(a) \notin DOMAIN x
         /\ \A a \in Assignments, s \in Students : sa(a, s) \notin DOMAIN x
<1>1. ASSUME NEW k \in DOMAIN x
      PROVE  \E s \in ToMove(See(w), g) : k = enr(s)
  BY <1>1
<1>2. ASSUME NEW s \in ToMove(See(w), g)
      PROVE  /\ s \in Students /\ See(w)[enr(s)].state = "left"
             /\ enr(s) \in Rows /\ Holds(enr(s), x[enr(s)])
             /\ x[enr(s)].state = "left"
  <2>1. s \in Students /\ See(w)[enr(s)].state = "left"
    BY DEF ToMove, InGroup, Left
  <2>2. See(w)[enr(s)] \in EnrollmentValues
    BY <2>1, SeeTyped, WholeTables DEF IInv
  <2>3. x[enr(s)] = [See(w)[enr(s)] EXCEPT !.group = h]
    OBVIOUS
  <2>4. x[enr(s)] \in EnrollmentValues /\ x[enr(s)].state = "left"
    BY <2>1, <2>2, <2>3, EnrollmentsAre
  <2>5. QED
    BY <2>1, <2>4, Tables, TableValues
<1>3. Typed(x)
  BY <1>1, <1>2 DEF Typed
<1>4. \A s \in Students : enr(s) \in DOMAIN x =>
        x[enr(s)].state = "left" /\ See(w)[enr(s)].state = "left"
  BY <1>1, <1>2
<1>5. /\ \A e \in Groups : grp(e) \notin DOMAIN x
      /\ \A a \in Assignments : asg(a) \notin DOMAIN x
      /\ \A a \in Assignments, s \in Students : sa(a, s) \notin DOMAIN x
  BY <1>1, RowsDiffer
<1>6. QED
  BY <1>3, <1>4, <1>5

LEMMA MoveLeftStep ==
  ASSUME IInv, NEW w \in Workers, MoveLeft(w)
  PROVE  Actor(w) /\ WorkerState(w)'
<1> DEFINE x == [k \in {enr(s) : s \in ToMove(See(w), job[w].group)} |->
                   [See(w)[k] EXCEPT !.group = job[w].to]]
<1>1. /\ GoWith(w, "move", "delete_group", job[w]) /\ Fixed /\ pc[w] = "move"
      /\ Put(w, x) /\ "delete_group" \in Steps \ {"idle"}
  BY DEF MoveLeft, Go, GoWith, Steps
<1>2. Errand(w) /\ ManualErrand(w) /\ Opened(w) /\ Removes(w) /\ job[w] \in Job
  BY DEF IInv, WorkerState
<1>3. job[w].op \in {"leave", "remove"} /\ job[w].group \in Groups /\ job[w].to \in Groups
  BY <1>1, <1>2, ErrandOf
<1>4. /\ Typed(x)
      /\ \A s \in Students : enr(s) \in DOMAIN x =>
           x[enr(s)].state = "left" /\ See(w)[enr(s)].state = "left"
      /\ \A e \in Groups : grp(e) \notin DOMAIN x
      /\ \A a \in Assignments : asg(a) \notin DOMAIN x
      /\ \A a \in Assignments, s \in Students : sa(a, s) \notin DOMAIN x
  BY <1>3, MoveWrites
<1> HIDE DEF x
<1>5. CASE job[w].op = "leave"
  <2>1. Write(w, x)
    BY <1>1, <1>5 DEF Put
  <2>2. /\ Actor(w) /\ pc'[w] = "delete_group" /\ job'[w] = job[w] /\ Wrote(w, x)
    BY <1>1, <1>2, <1>4, <2>1, Writing
  <2>3. mode # "manual" /\ \E s \in Students : job[w].who = {s}
    BY <1>1, <1>2, <1>5, ErrandOf DEF ManualErrand
  <2>4. Errand(w)' /\ ManualErrand(w)'
    BY <1>3, <1>5, <2>2, <2>3 DEF Errand, GroupFor, ManualErrand, Wrote
  <2>5. QED
    BY <1>4, <1>5, <2>2, <2>4, LeavingWrites
<1>6. CASE job[w].op = "remove"
  <2>1. AutoCommit(w, x) /\ delta[w] = NoWrites /\ DOMAIN delta[w] = {}
    BY <1>1, <1>2, <1>6, NothingWritten DEF Put, Opened
  <2>2. \A s \in Students : See(w)[enr(s)] = db[enr(s)]
    BY <2>1, SeeOf, Tables
  <2>3. Harmless(x)
    BY <1>4, <2>2 DEF Harmless
  <2>4. /\ Actor(w) /\ pc'[w] = "delete_group" /\ job'[w] = job[w]
        /\ UNCHANGED <<mode, run, delta>>
    BY <1>1, <1>2, <2>1, <2>3, Publishing
  <2>5. Removes(w)'
    <3>1. Lasting
      BY <2>4, ThingsLast
    <3>2. QED
      BY <1>2, <1>3, <2>4, <3>1 DEF Removes, Lasting
  <2>6. Errand(w)' /\ ManualErrand(w)'
    BY <1>3, <1>6, <2>4 DEF Errand, GroupFor, ManualErrand
  <2>7. QED
    BY <1>6, <2>1, <2>4, <2>5, <2>6, NotYetOpen
<1>7. QED
  BY <1>3, <1>5, <1>6

(* What the collector writes.                                              *)
LEMMA DeletionWrites ==
  ASSUME IInv, NEW w \in Workers, NEW g \in Groups, NEW x,
         x = Deletion(See(w), g)
  PROVE  /\ Typed(x)
         /\ \A h \in Groups : grp(h) \in DOMAIN x => h = g /\ x[grp(h)] = Removed
         /\ \A s \in Students : enr(s) \notin DOMAIN x
         /\ \A a \in Assignments : asg(a) \notin DOMAIN x
         /\ \A a \in Assignments, s \in Students : sa(a, s) \notin DOMAIN x
<1> DEFINE y == Set(grp(g), Removed)
           z == [k \in {cls} |-> See(w)[cls] \ {g}]
<1>1. DOMAIN y = {grp(g)} /\ y[grp(g)] = Removed
  BY SetOf
<1>2. DOMAIN z = {cls} /\ z[cls] = See(w)[cls] \ {g}
  OBVIOUS
<1>3. Typed(y)
  BY GroupsAre, Tables, TableValues, SetTyped
<1>4. Typed(z)
  <2>1. See(w)[cls] \in SUBSET Groups
    BY SeeTyped, WholeTables DEF IInv
  <2>2. Holds(cls, z[cls]) /\ cls \in Rows
    BY <1>2, <2>1, Tables, TableValues
  <2>3. QED
    BY <1>2, <2>2 DEF Typed
<1>5. x = Over(y, z)
  BY DEF Deletion
<1> HIDE DEF y, z
<1>6. Typed(x)
  BY <1>3, <1>4, <1>5, OverTyped
<1>7. DOMAIN x = {grp(g), cls} /\ x[grp(g)] = Removed
  <2>1. /\ DOMAIN Over(y, z) = DOMAIN y \union DOMAIN z
        /\ \A k \in DOMAIN y : Over(y, z)[k] = y[k]
    BY OverOf
  <2>2. QED
    BY <1>1, <1>2, <1>5, <2>1
<1>8. \A h \in Groups : grp(h) \in DOMAIN x => h = g /\ x[grp(h)] = Removed
  BY <1>7, RowsDiffer, RowsNameThings
<1>9. QED
  BY <1>6, <1>7, <1>8, RowsDiffer

LEMMA DeleteGroupStep ==
  ASSUME IInv, NEW w \in Workers, DeleteGroup(w)
  PROVE  Actor(w) /\ WorkerState(w)'
<1> DEFINE x == Deletion(See(w), job[w].group)
           to == IF job[w].op = "leave" THEN "commit" ELSE "idle"
<1>1. /\ GoWith(w, "delete_group", to, job[w]) /\ Fixed /\ pc[w] = "delete_group"
      /\ Put(w, x)
  BY DEF DeleteGroup, Go, GoWith
<1>2. Errand(w) /\ ManualErrand(w) /\ Opened(w) /\ Removes(w) /\ job[w] \in Job
  BY DEF IInv, WorkerState
<1>3. job[w].op \in {"leave", "remove"} /\ job[w].group \in Groups
  BY <1>1, <1>2, ErrandOf
<1>4. /\ Typed(x)
      /\ \A h \in Groups : grp(h) \in DOMAIN x =>
           h = job[w].group /\ x[grp(h)] = Removed
      /\ \A s \in Students : enr(s) \notin DOMAIN x
      /\ \A a \in Assignments : asg(a) \notin DOMAIN x
      /\ \A a \in Assignments, s \in Students : sa(a, s) \notin DOMAIN x
  BY <1>3, DeletionWrites
<1> HIDE DEF x
<1>5. CASE job[w].op = "leave"
  <2>1. /\ Write(w, x) /\ GoWith(w, "delete_group", "commit", job[w])
        /\ "commit" \in Steps \ {"idle"}
    BY <1>1, <1>5 DEF Put, Steps
  <2>2. /\ Actor(w) /\ pc'[w] = "commit" /\ job'[w] = job[w] /\ Wrote(w, x)
    BY <1>1, <1>2, <1>4, <2>1, Writing
  <2>3. mode # "manual" /\ \E s \in Students : job[w].who = {s}
    BY <1>1, <1>2, <1>5, ErrandOf DEF ManualErrand
  <2>4. Errand(w)' /\ ManualErrand(w)'
    BY <1>5, <2>2, <2>3 DEF Errand, ManualErrand, Wrote
  <2>5. QED
    BY <1>4, <1>5, <2>2, <2>3, <2>4, LeavingWrites
<1>6. CASE job[w].op = "remove"
  <2>1. /\ AutoCommit(w, x) /\ GoWith(w, "delete_group", "idle", job[w])
        /\ "idle" \in Steps /\ delta[w] = NoWrites
    BY <1>1, <1>2, <1>6 DEF Put, Steps, Opened
  <2>2. mode = "manual" => db[grp(job[w].group)].type \in {"manual", "removed"}
    BY <1>2, <1>6 DEF Removes
  <2>3. Harmless(x)
    BY <1>4, <2>2, GroupsAre DEF Harmless
  <2>4. /\ Actor(w) /\ pc'[w] = "idle" /\ job'[w] = NoJob
        /\ UNCHANGED <<mode, run, delta>>
    BY <1>1, <1>2, <2>1, <2>3, Publishing
  <2>5. QED
    BY <2>1, <2>4, Rests
<1>7. QED
  BY <1>3, <1>5, <1>6


(* What creating, restoring and taking away work writes.                   *)
WorkOnly(x) ==
  DOMAIN x \subseteq WorkRows /\ \A k \in DOMAIN x : x[k] \in {"live", "trash"}

LEMMA GivenAndTaken ==
  ASSUME NEW t, NEW a \in Assignments, NEW groups
  PROVE  /\ WorkOnly(Given(t, a, groups)) /\ WorkOnly(Taken(t, a, groups))
         /\ \A k \in DOMAIN Given(t, a, groups) : Given(t, a, groups)[k] = "live"
<1>1. \A u \in Active(t) : sa(a, u) \in WorkRows
  BY DEF Active, WorkRows
<1>2. \A u \in Students : sa(a, u) \in WorkRows
  BY DEF WorkRows
<1>3. DOMAIN Given(t, a, groups) \subseteq WorkRows
  BY <1>1 DEF Given
<1>4. DOMAIN Taken(t, a, groups) \subseteq WorkRows
  BY <1>2 DEF Taken
<1>5. /\ \A k \in DOMAIN Given(t, a, groups) : Given(t, a, groups)[k] = "live"
      /\ \A k \in DOMAIN Taken(t, a, groups) : Taken(t, a, groups)[k] = "trash"
  BY DEF Given, Taken
<1>6. QED
  BY <1>3, <1>4, <1>5 DEF WorkOnly

LEMMA SyncsWork ==
  ASSUME NEW t, NEW a \in Assignments
  PROVE  WorkOnly(SyncWrites(t, a))
<1> DEFINE x == Given(t, a, Target(t, a) \ Holding(t, a))
           y == Taken(t, a, Holding(t, a) \ Target(t, a))
<1>1. WorkOnly(x) /\ WorkOnly(y)
  BY GivenAndTaken
<1>2. SyncWrites(t, a) = Over(x, y)
  BY DEF SyncWrites
<1> HIDE DEF x, y
<1>3. /\ DOMAIN Over(x, y) = DOMAIN x \union DOMAIN y
      /\ \A k \in DOMAIN x : Over(x, y)[k] = x[k]
      /\ \A k \in DOMAIN y \ DOMAIN x : Over(x, y)[k] = y[k]
  BY OverOf
<1>4. QED
  BY <1>1, <1>2, <1>3 DEF WorkOnly

(* Staff save an assignment.                                               *)
LEMMA Saving ==
  ASSUME IInv, NEW w \in Workers, NEW a \in Assignments, NEW only \in SUBSET Groups,
         NEW y, WorkOnly(y), Fixed,
         GoWith(w, "idle", "commit", [NoJob EXCEPT !.op = "edit", !.asg = a]),
         Write(w, Over(Set(asg(a), [exists |-> TRUE, restricted_to |-> only]), y))
  PROVE  Actor(w) /\ WorkerState(w)'
<1> DEFINE known == [NoJob EXCEPT !.op = "edit", !.asg = a]
           value == [exists |-> TRUE, restricted_to |-> only]
<1>1. known \in Job /\ known.op = "edit" /\ known.asg = a
  BY DEF NoJob, Job, Ops
<1>2. value \in AssignmentValues
  BY AssignmentsAre
<1>3. GoWith(w, "idle", "commit", known) /\ Write(w, Over(Set(asg(a), value), y))
  OBVIOUS
<1> HIDE DEF known, value
<1> DEFINE new == Set(asg(a), value)
<1>4. DOMAIN new = {asg(a)}
  BY SetOf
<1>5. Typed(new)
  BY <1>2, Tables, TableValues, SetTyped
<1>6. Write(w, Over(new, y))
  BY <1>3
<1> HIDE DEF new
<1>7. /\ Typed(y)
      /\ \A g \in Groups : grp(g) \notin DOMAIN y
      /\ \A s \in Students : enr(s) \notin DOMAIN y
      /\ \A b \in Assignments : asg(b) \notin DOMAIN y
  BY WorkTyped DEF WorkOnly
<1> DEFINE x == Over(new, y)
<1>8. Typed(x)
  BY <1>5, <1>7, OverTyped
<1>9. DOMAIN x = {asg(a)} \union DOMAIN y
  BY <1>4, OverOf
<1>10. Write(w, x) /\ "commit" \in Steps \ {"idle"}
  BY <1>6 DEF Steps
<1> HIDE DEF x
<1>11. /\ Actor(w) /\ pc[w] = "idle" /\ pc'[w] = "commit" /\ job'[w] = known
       /\ Wrote(w, x)
  BY <1>1, <1>3, <1>8, <1>10, Writing
<1>12. DOMAIN delta'[w] = {asg(a)} \union DOMAIN y
  <2>1. delta[w] = NoWrites
    BY <1>11 DEF IInv, TypeOK
  <2>2. QED
    BY <1>9, <1>11, <2>1, NothingWritten DEF Wrote
<1>13. Errand(w)' /\ ManualErrand(w)' /\ Opened(w)'
  BY <1>1, <1>11 DEF Errand, ManualErrand, Opened
<1>14. Uncommitted(w)'
  <2>1. /\ \A g \in Groups : grp(g) \notin DOMAIN delta'[w]
        /\ \A s \in Students : enr(s) \notin DOMAIN delta'[w]
    BY <1>7, <1>12, RowsDiffer
  <2>2. \A b \in Assignments : asg(b) \in DOMAIN delta'[w] => b = a
    BY <1>7, <1>12, RowsNameThings
  <2>3. QED
    BY <1>1, <1>11, <2>1, <2>2 DEF Uncommitted
<1>15. Enrolls(w)' /\ Leaves(w)' /\ Removes(w)' /\ Transfers(w)'
  BY <1>1, <1>11 DEF Enrolls, Leaves, Removes, Transfers
<1>16. QED
  BY <1>11, <1>13, <1>14, <1>15 DEF WorkerState

LEMMA CreateAssignmentStep ==
  ASSUME IInv, NEW w \in Workers, NEW a \in Assignments, NEW only \in SUBSET Groups,
         CreateAssignment(w, a, only)
  PROVE  Actor(w) /\ WorkerState(w)'
<1> DEFINE new == Set(asg(a), [exists |-> TRUE, restricted_to |-> only])
           t == Over(new, See(w))
           y == Given(t, a, {g \in Groups : OpenTo(t, a, g)})
<1>1. /\ GoWith(w, "idle", "commit", [NoJob EXCEPT !.op = "edit", !.asg = a])
      /\ Write(w, Over(new, y)) /\ Fixed
  BY DEF CreateAssignment, Save
<1>2. WorkOnly(y)
  BY GivenAndTaken
<1> HIDE DEF y
<1>3. QED
  BY <1>1, <1>2, Saving

LEMMA UpdateAssignmentStep ==
  ASSUME IInv, NEW w \in Workers, NEW a \in Assignments, NEW only \in SUBSET Groups,
         UpdateAssignment(w, a, only)
  PROVE  Actor(w) /\ WorkerState(w)'
<1> DEFINE new == Set(asg(a), [exists |-> TRUE, restricted_to |-> only])
           y == SyncWrites(Over(new, See(w)), a)
<1>1. /\ GoWith(w, "idle", "commit", [NoJob EXCEPT !.op = "edit", !.asg = a])
      /\ Write(w, Over(new, y)) /\ Fixed
  BY DEF UpdateAssignment, Save
<1>2. WorkOnly(y)
  BY SyncsWork
<1> HIDE DEF y
<1>3. QED
  BY <1>1, <1>2, Saving

LEMMA DeleteAssignmentStep ==
  ASSUME IInv, NEW w \in Workers, NEW a \in Assignments, DeleteAssignment(w, a)
  PROVE  Actor(w) /\ WorkerState(w)'
<1> DEFINE y == Set(asg(a), NoAssignment)
           z == [k \in {sa(a, s) : s \in {u \in Students : db[sa(a, u)] # "none"}}
                   |-> "none"]
           x == Over(y, z)
<1>1. /\ GoWith(w, "idle", "idle", job[w]) /\ Fixed /\ pc[w] = "idle"
      /\ AutoCommit(w, x) /\ db[asg(a)].exists /\ "idle" \in Steps
  BY DEF DeleteAssignment, Go, GoWith, Steps
<1>2. job[w] \in Job /\ delta[w] = NoWrites
  BY <1>1 DEF IInv, TypeOK
<1>3. DOMAIN y = {asg(a)} /\ y[asg(a)] = NoAssignment
  BY SetOf
<1>4. Typed(y)
  BY AssignmentsAre, Tables, TableValues, SetTyped
<1>5. /\ \A k \in DOMAIN z : \E s \in Students : k = sa(a, s)
      /\ \A k \in DOMAIN z : z[k] = "none"
  OBVIOUS
<1> HIDE DEF y, z
<1>6. DOMAIN z \subseteq WorkRows
  BY <1>5, Tables
<1>7. /\ Typed(z)
      /\ \A g \in Groups : grp(g) \notin DOMAIN z
      /\ \A s \in Students : enr(s) \notin DOMAIN z
      /\ \A b \in Assignments : asg(b) \notin DOMAIN z
  BY <1>5, <1>6, WorkTyped
<1>8. Typed(x)
  BY <1>4, <1>7, OverTyped
<1>9. DOMAIN x = {asg(a)} \union DOMAIN z /\ x[asg(a)] = NoAssignment
  <2>1. /\ DOMAIN Over(y, z) = DOMAIN y \union DOMAIN z
        /\ \A k \in DOMAIN y : Over(y, z)[k] = y[k]
    BY OverOf
  <2>2. QED
    BY <1>3, <2>1
<1> HIDE DEF x
<1>10. Harmless(x)
  <2>1. /\ \A g \in Groups : grp(g) \notin DOMAIN x
        /\ \A s \in Students : enr(s) \notin DOMAIN x
    BY <1>7, <1>9, RowsDiffer
  <2>2. \A b \in Assignments : asg(b) \in DOMAIN x => b = a
    BY <1>7, <1>9, RowsNameThings
  <2>3. \A b \in Assignments, s \in Students : sa(b, s) \in DOMAIN x => b = a
    BY <1>5, <1>9, RowsDiffer, RowsNameThings
  <2>4. QED
    BY <1>1, <1>8, <1>9, <2>1, <2>2, <2>3 DEF Harmless
<1>11. /\ Actor(w) /\ pc'[w] = "idle" /\ job'[w] = NoJob
       /\ UNCHANGED <<mode, run, delta>>
  BY <1>1, <1>2, <1>10, Publishing
<1>12. QED
  BY <1>2, <1>11, Rests

LEMMA EditClassStep ==
  ASSUME IInv, NEW w \in Workers, NEW only \in SUBSET Groups, EditClass(w, only)
  PROVE  Actor(w) /\ WorkerState(w)'
<1> DEFINE x == Set(cls, only)
<1>1. /\ GoWith(w, "idle", "idle", job[w]) /\ Fixed /\ pc[w] = "idle"
      /\ AutoCommit(w, x) /\ "idle" \in Steps
  BY DEF EditClass, Go, GoWith, Steps
<1>2. job[w] \in Job /\ delta[w] = NoWrites
  BY <1>1 DEF IInv, TypeOK
<1>3. DOMAIN x = {cls}
  BY SetOf
<1>4. Typed(x)
  BY Tables, TableValues, SetTyped
<1> HIDE DEF x
<1>5. Harmless(x)
  BY <1>3, <1>4, RowsDiffer DEF Harmless
<1>6. /\ Actor(w) /\ pc'[w] = "idle" /\ job'[w] = NoJob
      /\ UNCHANGED <<mode, run, delta>>
  BY <1>1, <1>2, <1>5, Publishing
<1>7. QED
  BY <1>2, <1>6, Rests


LEMMA MoveStudentsStep ==
  ASSUME IInv, NEW w \in Workers, MoveStudents(w)
  PROVE  Actor(w) /\ WorkerState(w)'
<1> DEFINE who == job[w].who
           g   == job[w].group
           h   == job[w].to
           x   == [k \in {enr(s) : s \in who} |-> [See(w)[k] EXCEPT !.group = h]]
<1>1. /\ GoWith(w, "move_students", "fill", job[w]) /\ Fixed /\ pc[w] = "move_students"
      /\ Write(w, x) /\ "fill" \in Steps \ {"idle"}
      /\ who \subseteq InGroup(See(w), g)
  BY DEF MoveStudents, Go, GoWith, Steps
<1>2. Errand(w) /\ Uncommitted(w) /\ Transfers(w) /\ job[w] \in Job
  BY DEF IInv, WorkerState
<1>3. job[w].op = "transfer" /\ g \in Groups /\ h \in Groups
  BY <1>1, <1>2, ErrandOf
<1>4. \A k \in DOMAIN x : \E s \in who : k = enr(s)
  OBVIOUS
<1>5. ASSUME NEW s \in who
      PROVE  /\ s \in Students /\ enr(s) \in DOMAIN x
             /\ enr(s) \in Rows /\ Holds(enr(s), x[enr(s)])
             /\ x[enr(s)].state # "absent" /\ x[enr(s)].group = h
  <2>1. s \in Students /\ See(w)[enr(s)].group = g
    BY <1>1 DEF InGroup
  <2>2. See(w)[enr(s)] \in EnrollmentValues
    BY <2>1, SeeTyped, WholeTables DEF IInv
  <2>3. See(w)[enr(s)].state # "absent"
    BY <1>3, <2>1, <2>2, EnrollmentsAre
  <2>4. x[enr(s)] = [See(w)[enr(s)] EXCEPT !.group = h]
    OBVIOUS
  <2>5. /\ x[enr(s)] \in EnrollmentValues /\ x[enr(s)].state # "absent"
        /\ x[enr(s)].group = h
    BY <1>3, <2>2, <2>3, <2>4, EnrollmentsAre
  <2>6. QED
    BY <2>1, <2>5, Tables, TableValues
<1> HIDE DEF x
<1>6. Typed(x)
  BY <1>4, <1>5 DEF Typed
<1>7. /\ \A e \in Groups : grp(e) \notin DOMAIN x
      /\ \A a \in Assignments : asg(a) \notin DOMAIN x
      /\ \A a \in Assignments, s \in Students : sa(a, s) \notin DOMAIN x
  BY <1>4, RowsDiffer
<1>8. /\ Actor(w) /\ pc'[w] = "fill" /\ job'[w] = job[w] /\ Wrote(w, x)
  BY <1>1, <1>2, <1>6, Writing
<1>9. Errand(w)' /\ ManualErrand(w)' /\ Opened(w)'
  BY <1>3, <1>8 DEF Errand, ManualErrand, Opened
<1>10. Uncommitted(w)'
  <2>1. ASSUME NEW u \in Students, enr(u) \in DOMAIN delta'[w]
        PROVE  EntryFor(w, u, delta[w][enr(u)])'
    <3>1. CASE enr(u) \in DOMAIN x
      <4>1. PICK s \in who : enr(u) = enr(s)
        BY <1>4, <3>1
      <4>2. u = s
        BY <4>1, RowsNameThings
      <4>3. delta'[w][enr(u)] = x[enr(u)]
        BY <1>8, <3>1 DEF Wrote
      <4>4. QED
        BY <1>3, <1>5, <1>8, <4>2, <4>3 DEF EntryFor
    <3>2. CASE enr(u) \in DOMAIN delta[w] \ DOMAIN x
      BY <1>2, <1>3, <1>8, <3>2 DEF Uncommitted, EntryFor, Wrote
    <3>3. QED
      BY <1>8, <2>1, <3>1, <3>2 DEF Wrote
  <2>2. /\ \A e \in Groups : grp(e) \in DOMAIN delta'[w] => mode' # "manual"
        /\ \A a \in Assignments : asg(a) \notin DOMAIN delta'[w]
    BY <1>2, <1>3, <1>7, <1>8 DEF Uncommitted, Wrote
  <2>3. \A a \in Assignments, u \in Students :
          sa(a, u) \in DOMAIN delta'[w] => delta'[w][sa(a, u)] = "live"
    BY <1>2, <1>3, <1>7, <1>8 DEF Uncommitted, Wrote
  <2>4. QED
    BY <1>3, <1>8, <2>1, <2>2, <2>3 DEF Uncommitted
<1>11. Transfers(w)'
  <2>1. \A s \in who : enr(s) \in DOMAIN delta'[w]
    BY <1>5, <1>8 DEF Wrote
  <2>2. w \notin raced' => SafeTransfer(g, h)
    BY <1>2, <1>3, <1>8 DEF Transfers, Wrote
  <2>3. SafeTransfer(g, h) => SafeTransfer(g, h)'
    BY <1>8 DEF SafeTransfer, CourseAssignments, OpenTo, Wrote
  <2>4. QED
    BY <1>8, <2>1, <2>2, <2>3 DEF Transfers
<1>12. Enrolls(w)' /\ Leaves(w)' /\ Removes(w)'
  BY <1>3, <1>8 DEF Enrolls, Leaves, Removes
<1>13. QED
  BY <1>8, <1>9, <1>10, <1>11, <1>12 DEF WorkerState

LEMMA FillWorkStep ==
  ASSUME IInv, NEW w \in Workers, FillWork(w)
  PROVE  Actor(w) /\ WorkerState(w)'
<1> DEFINE t == See(w)
           g == job[w].group
           h == job[w].to
           news == InTargetOnly(t, g, h)
           x == [k \in UNION {DOMAIN Given(t, a, {h}) : a \in news} |-> "live"]
<1>1. /\ GoWith(w, "fill", "commit", job[w]) /\ Fixed /\ pc[w] = "fill"
      /\ Write(w, x) /\ "commit" \in Steps \ {"idle"}
  BY DEF FillWork, Go, GoWith, Steps
<1>2. Errand(w) /\ Uncommitted(w) /\ Transfers(w) /\ job[w] \in Job
  BY DEF IInv, WorkerState
<1>3. job[w].op = "transfer" /\ g \in Groups /\ h \in Groups
  BY <1>1, <1>2, ErrandOf
<1>4. news = AvailableTo(db, h) \ AvailableTo(db, g)
  BY <1>3, SeesAssignments DEF InTargetOnly
<1>5. news \subseteq Assignments
  BY <1>4 DEF AvailableTo, CourseAssignments
<1>6. \A a \in news : DOMAIN Given(t, a, {h}) \subseteq WorkRows
  BY <1>5, GivenAndTaken DEF WorkOnly
<1>7. \A k \in DOMAIN x : k \in WorkRows /\ x[k] = "live"
  BY <1>6
<1>8. \A a \in news : DOMAIN Given(t, a, {h}) \subseteq DOMAIN x
  OBVIOUS
<1> HIDE DEF x
<1>9. /\ Typed(x)
      /\ \A e \in Groups : grp(e) \notin DOMAIN x
      /\ \A u \in Students : enr(u) \notin DOMAIN x
      /\ \A a \in Assignments : asg(a) \notin DOMAIN x
  BY <1>7, WorkTyped
<1>10. /\ Actor(w) /\ pc'[w] = "commit" /\ job'[w] = job[w] /\ Wrote(w, x)
  BY <1>1, <1>2, <1>9, Writing
<1>11. Errand(w)' /\ ManualErrand(w)' /\ Opened(w)'
  BY <1>3, <1>10 DEF Errand, ManualErrand, Opened
<1>12. Uncommitted(w)'
  <2>1. ASSUME NEW u \in Students, enr(u) \in DOMAIN delta'[w]
        PROVE  EntryFor(w, u, delta[w][enr(u)])'
    <3>1. enr(u) \in DOMAIN delta[w] /\ delta'[w][enr(u)] = delta[w][enr(u)]
      BY <1>9, <1>10, <2>1 DEF Wrote
    <3>2. QED
      BY <1>2, <1>3, <1>10, <3>1 DEF Uncommitted, EntryFor
  <2>2. /\ \A e \in Groups : grp(e) \in DOMAIN delta'[w] => mode' # "manual"
        /\ \A a \in Assignments : asg(a) \notin DOMAIN delta'[w]
    BY <1>2, <1>3, <1>9, <1>10 DEF Uncommitted, Wrote
  <2>3. ASSUME NEW a \in Assignments, NEW u \in Students, sa(a, u) \in DOMAIN delta'[w]
        PROVE  delta'[w][sa(a, u)] = "live"
    <3>1. CASE sa(a, u) \in DOMAIN x
      BY <1>7, <1>10, <3>1 DEF Wrote
    <3>2. CASE sa(a, u) \in DOMAIN delta[w] \ DOMAIN x
      BY <1>2, <1>3, <1>10, <3>2 DEF Uncommitted, Wrote
    <3>3. QED
      BY <1>10, <2>3, <3>1, <3>2 DEF Wrote
  <2>4. QED
    BY <1>3, <1>10, <2>1, <2>2, <2>3 DEF Uncommitted
<1>13. ASSUME NEW s \in job[w].who, NEW a \in news, delta'[w][enr(s)].state = "active"
       PROVE  See(w)'[sa(a, s)] = "live"
  <2>1. s \in Students /\ a \in Assignments /\ sa(a, s) \in Rows /\ enr(s) \in Rows
    BY <1>2, <1>5, Tables DEF Job
  <2>2. enr(s) \in DOMAIN delta[w]
    BY <1>1, <1>2, <1>3 DEF Transfers
  <2>3. delta'[w][enr(s)] = delta[w][enr(s)]
    BY <1>9, <1>10, <2>1, <2>2 DEF Wrote
  <2>4. delta[w][enr(s)].group = h
    BY <1>2, <1>3, <2>1, <2>2 DEF Uncommitted, EntryFor
  <2>5. t[enr(s)].state = "active" /\ t[enr(s)].group = h
    BY <1>13, <2>1, <2>2, <2>3, <2>4, SeeOf
  <2>6. CASE sa(a, s) \in DOMAIN x
    <3>1. sa(a, s) \in DOMAIN delta'[w] /\ delta'[w][sa(a, s)] = "live"
      BY <1>7, <1>10, <2>6 DEF Wrote
    <3>2. QED
      BY <2>1, <3>1 DEF See
  <2>7. CASE sa(a, s) \notin DOMAIN x
    <3>1. sa(a, s) \notin DOMAIN Given(t, a, {h})
      BY <1>8, <2>7
    <3>2. t[sa(a, s)] = "live"
      BY <2>1, <2>5, <3>1 DEF Given, Active
    <3>3. See(w)'[sa(a, s)] = t[sa(a, s)]
      BY <1>10, <2>1, <2>7 DEF Wrote, See
    <3>4. QED
      BY <3>2, <3>3
  <2>8. QED
    BY <2>6, <2>7
<1>14. Transfers(w)'
  <2>1. \A s \in job[w].who : enr(s) \in DOMAIN delta'[w]
    BY <1>1, <1>2, <1>3, <1>10 DEF Transfers, Wrote
  <2>2. w \notin raced' => SafeTransfer(g, h)
    BY <1>2, <1>3, <1>10 DEF Transfers, Wrote
  <2>3. db' = db
    BY <1>10 DEF Wrote
  <2>4. SafeTransfer(g, h) => SafeTransfer(g, h)'
    BY <1>10, <2>3 DEF SafeTransfer, CourseAssignments, OpenTo
  <2>5. AvailableTo(db', job'[w].to) \ AvailableTo(db', job'[w].group) = news
    BY <1>4, <1>10, <2>3
  <2>6. QED
    BY <1>10, <1>13, <2>1, <2>2, <2>4, <2>5 DEF Transfers
<1>15. Enrolls(w)' /\ Leaves(w)' /\ Removes(w)'
  BY <1>3, <1>10 DEF Enrolls, Leaves, Removes
<1>16. QED
  BY <1>10, <1>11, <1>12, <1>14, <1>15 DEF WorkerState


-------------------------------------------------------------------------------
(* The invariant.                                                          *)

LEMMA EmptyTables ==
  /\ DOMAIN EmptyCourse = Rows
  /\ \A g \in Groups : EmptyCourse[grp(g)] = Unused
  /\ \A s \in Students : EmptyCourse[enr(s)] = NeverEnrolled
  /\ \A a \in Assignments : EmptyCourse[asg(a)] = NoAssignment
  /\ \A a \in Assignments, s \in Students : EmptyCourse[sa(a, s)] = "none"
  /\ EmptyCourse[cls] = {}
<1>1. /\ \A g : grp(g)[1] = "StudentGroup"
      /\ \A s : enr(s)[1] = "Enrollment"
      /\ \A a : asg(a)[1] = "Assignment"
      /\ \A a, s : sa(a, s)[1] = "StudentAssignment"
      /\ cls[1] = "CourseClass"
  BY DEF grp, enr, asg, sa, cls
<1>2. \A k \in GroupRows : k[1] = "StudentGroup"
  BY <1>1 DEF GroupRows
<1>3. \A k \in WorkRows : k[1] = "StudentAssignment"
  BY <1>1 DEF WorkRows
<1>4. ASSUME NEW g \in Groups PROVE EmptyCourse[grp(g)] = Unused
  <2>1. grp(g) \in GroupRows /\ grp(g) \in Rows
    BY Tables
  <2>2. grp(g)[1] # "Enrollment" /\ grp(g)[1] # "Assignment"
    BY <1>1
  <2>3. grp(g) \notin WorkRows /\ grp(g) # cls
    BY <1>1, <1>3
  <2>4. QED
    BY <2>1, <2>2, <2>3 DEF EmptyCourse
<1>5. ASSUME NEW s \in Students PROVE EmptyCourse[enr(s)] = NeverEnrolled
  <2>1. enr(s) \notin GroupRows /\ enr(s) \notin WorkRows /\ enr(s) # cls
    BY <1>1, <1>2, <1>3
  <2>2. enr(s)[1] = "Enrollment" /\ enr(s)[1] # "Assignment" /\ enr(s) \in Rows
    BY <1>1, Tables
  <2>3. QED
    BY <2>1, <2>2 DEF EmptyCourse
<1>6. ASSUME NEW a \in Assignments PROVE EmptyCourse[asg(a)] = NoAssignment
  <2>1. asg(a) \notin GroupRows /\ asg(a) \notin WorkRows /\ asg(a) # cls
    BY <1>1, <1>2, <1>3
  <2>2. asg(a)[1] = "Assignment" /\ asg(a)[1] # "Enrollment" /\ asg(a) \in Rows
    BY <1>1, Tables
  <2>3. QED
    BY <2>1, <2>2 DEF EmptyCourse
<1>7. ASSUME NEW a \in Assignments, NEW s \in Students
      PROVE  EmptyCourse[sa(a, s)] = "none"
  <2>1. /\ sa(a, s) \notin GroupRows /\ sa(a, s) \in WorkRows /\ sa(a, s) # cls
        /\ sa(a, s) \in Rows
    BY <1>1, <1>2, Tables
  <2>2. sa(a, s)[1] # "Assignment" /\ sa(a, s)[1] # "Enrollment"
    BY <1>1
  <2>3. QED
    BY <2>1, <2>2 DEF EmptyCourse
<1>8. EmptyCourse[cls] = {}
  <2>1. cls \notin GroupRows /\ cls \notin WorkRows /\ cls \in Rows
    BY <1>1, <1>2, <1>3, Tables
  <2>2. cls[1] # "Assignment" /\ cls[1] # "Enrollment"
    BY <1>1
  <2>3. QED
    BY <2>1, <2>2 DEF EmptyCourse
<1>9. DOMAIN EmptyCourse = Rows
  BY DEF EmptyCourse
<1>10. QED
  BY <1>4, <1>5, <1>6, <1>7, <1>8, <1>9

LEMMA EmptyTyped == Typed(EmptyCourse)
<1>1. NeverEnrolled \in EnrollmentValues
  BY DEF EnrollmentValues
<1>2. /\ \A g \in Groups : Holds(grp(g), EmptyCourse[grp(g)])
      /\ \A s \in Students : Holds(enr(s), EmptyCourse[enr(s)])
      /\ \A a \in Assignments : Holds(asg(a), EmptyCourse[asg(a)])
      /\ \A a \in Assignments, s \in Students : Holds(sa(a, s), EmptyCourse[sa(a, s)])
      /\ Holds(cls, EmptyCourse[cls])
  BY <1>1, EmptyTables, TableValues, GroupsAre, AssignmentsAre
<1>3. \A k \in Rows : Holds(k, EmptyCourse[k])
  BY <1>2 DEF Rows, GroupRows, WorkRows
<1>4. QED
  BY <1>3, EmptyTables DEF Typed


(* The groups a course starts with.                                        *)
LEMMA FirstGroups ==
  ASSUME mode \in Modes,
         NEW groups \in IF mode = "manual"
                        THEN {<<Default>>} \union {<<Default, Manual(n)>> : n \in Titles}
                        ELSE {<<>>}
  PROVE  /\ DOMAIN groups \subseteq Groups
         /\ \A g \in DOMAIN groups : groups[g] \in GroupValues
         /\ mode = "manual" =>
              /\ 1 \in DOMAIN groups /\ groups[1] = Default
              /\ \A g \in DOMAIN groups : g # 1 => groups[g].type = "manual"
<1>1. CASE mode = "manual"
  <2>1. 1 \in 1..MaxGroups[mode] /\ 2 \in 1..MaxGroups[mode]
    BY BoundsAreNat
  <2>2. 1 \in Groups /\ 2 \in Groups
    BY <2>1 DEF Groups
  <2>3. CASE groups = <<Default>>
    <3>1. DOMAIN groups = {1} /\ groups[1] = Default
      BY <2>3
    <3>2. QED
      BY <2>2, <3>1, GroupsAre
  <2>4. ASSUME NEW n \in Titles, groups = <<Default, Manual(n)>>
        PROVE  /\ DOMAIN groups \subseteq Groups
               /\ \A g \in DOMAIN groups : groups[g] \in GroupValues
               /\ 1 \in DOMAIN groups /\ groups[1] = Default
               /\ \A g \in DOMAIN groups : g # 1 => groups[g].type = "manual"
    <3>1. DOMAIN groups = {1, 2} /\ groups[1] = Default /\ groups[2] = Manual(n)
      BY <2>4
    <3>2. QED
      BY <2>2, <3>1, GroupsAre
  <2>5. QED
    BY <1>1, <2>3, <2>4
<1>2. CASE mode # "manual"
  <2>1. groups = <<>> /\ DOMAIN groups = {}
    BY <1>2
  <2>2. QED
    BY <1>2, <2>1
<1>3. QED
  BY <1>1, <1>2

LEMMA DbInit ==
  ASSUME Init
  PROVE  /\ Typed(db) /\ DOMAIN db = Rows
         /\ FirstIsDefault
<1>1. PICK given \in SUBSET Assignments,
           groups \in IF mode = "manual"
                      THEN {<<Default>>} \union {<<Default, Manual(n)>> : n \in Titles}
                      ELSE {<<>>} :
        db = Over([k \in {grp(g) : g \in DOMAIN groups} |-> groups[k[2]]],
                  Over([k \in {asg(a) : a \in given} |->
                          [exists |-> TRUE, restricted_to |-> {}]],
                       EmptyCourse))
  BY DEF Init
<1>2. mode \in Modes
  BY DEF Init
<1>3. /\ DOMAIN groups \subseteq Groups
      /\ \A g \in DOMAIN groups : groups[g] \in GroupValues
      /\ mode = "manual" =>
           /\ 1 \in DOMAIN groups /\ groups[1] = Default
           /\ \A g \in DOMAIN groups : g # 1 => groups[g].type = "manual"
  BY <1>2, FirstGroups
<1> DEFINE x == [k \in {grp(g) : g \in DOMAIN groups} |-> groups[k[2]]]
           open == [exists |-> TRUE, restricted_to |-> {}]
           y == [k \in {asg(a) : a \in given} |-> open]
           z == Over(y, EmptyCourse)
<1>4. \A g : grp(g)[2] = g
  BY DEF grp
<1>5. /\ DOMAIN x = {grp(g) : g \in DOMAIN groups}
      /\ \A g \in DOMAIN groups : x[grp(g)] = groups[g]
  BY <1>4
<1>6. /\ DOMAIN y = {asg(a) : a \in given} /\ \A k \in DOMAIN y : y[k] = open
      /\ open \in AssignmentValues
  BY AssignmentsAre
<1>7. db = Over(x, z)
  BY <1>1
<1> HIDE DEF x, y, open
<1>8. Typed(x)
  BY <1>3, <1>5, Tables, TableValues DEF Typed
<1>9. Typed(y)
  BY <1>6, Tables, TableValues DEF Typed
<1>10. Typed(z)
  BY <1>9, EmptyTyped, OverTyped
<1>11. DOMAIN z = Rows /\ \A g \in Groups : z[grp(g)] = Unused
  <2>1. /\ DOMAIN Over(y, EmptyCourse) = DOMAIN y \union DOMAIN EmptyCourse
        /\ \A k \in DOMAIN EmptyCourse \ DOMAIN y :
             Over(y, EmptyCourse)[k] = EmptyCourse[k]
    BY OverOf
  <2>2. DOMAIN y \subseteq Rows
    BY <1>9 DEF Typed
  <2>3. \A g \in Groups : grp(g) \notin DOMAIN y
    BY <1>6, RowsDiffer
  <2>4. QED
    BY <2>1, <2>2, <2>3, EmptyTables, Tables
<1> HIDE DEF z
<1>12. /\ DOMAIN Over(x, z) = DOMAIN x \union DOMAIN z
       /\ \A k \in DOMAIN x : Over(x, z)[k] = x[k]
       /\ \A k \in DOMAIN z \ DOMAIN x : Over(x, z)[k] = z[k]
  BY OverOf
<1>13. DOMAIN x \subseteq Rows
  BY <1>8 DEF Typed
<1>14. Typed(db) /\ DOMAIN db = Rows
  BY <1>7, <1>8, <1>10, <1>11, <1>12, <1>13, OverTyped
<1>15. ASSUME mode = "manual", NEW g \in Groups
       PROVE  db[grp(g)].type = "system" <=> g = 1
  <2>1. CASE g \in DOMAIN groups
    <3>1. db[grp(g)] = groups[g]
      BY <1>5, <1>7, <1>12, <2>1
    <3>2. QED
      BY <1>3, <1>15, <2>1, <3>1, GroupsAre
  <2>2. CASE g \notin DOMAIN groups
    <3>1. grp(g) \notin DOMAIN x
      BY <1>5, <2>2, RowsNameThings
    <3>2. db[grp(g)] = Unused
      BY <1>7, <1>11, <1>12, <3>1, Tables
    <3>3. QED
      BY <1>3, <1>15, <2>2, <3>2, GroupsAre
  <2>3. QED
    BY <2>1, <2>2
<1>16. QED
  BY <1>14, <1>15 DEF FirstIsDefault

LEMMA InvInit == Init => IInv
<1> SUFFICES ASSUME Init PROVE IInv
  OBVIOUS
<1>1. /\ mode \in Modes /\ run \in [Students -> Runs]
      /\ delta = [w \in Workers |-> NoWrites]
      /\ pc = [w \in Workers |-> "idle"]
      /\ job = [w \in Workers |-> NoJob]
      /\ raced = {}
  BY DEF Init
<1>2. Typed(db) /\ DOMAIN db = Rows /\ FirstIsDefault
  BY DbInit
<1>3. TypeOK
  BY <1>1, <1>2, NothingWritten DEF TypeOK, Typed, Steps
<1>4. job \in [Workers -> Job]
  BY <1>1 DEF NoJob, Job, Ops
<1>5. Exclusive
  BY <1>1, NothingWritten DEF Exclusive
<1>6. ASSUME NEW w \in Workers PROVE WorkerState(w)
  <2>1. /\ pc[w] = "idle" /\ job[w] = NoJob /\ job[w].op = "none"
        /\ delta[w] = NoWrites /\ DOMAIN delta[w] = {}
    BY <1>1, NothingWritten DEF NoJob
  <2>2. Errand(w) /\ ManualErrand(w) /\ Opened(w) /\ Uncommitted(w)
    BY <2>1 DEF Errand, ManualErrand, Opened, Uncommitted
  <2>3. Enrolls(w) /\ Leaves(w) /\ Removes(w) /\ Transfers(w)
    BY <2>1 DEF Enrolls, Leaves, Removes, Transfers
  <2>4. QED
    BY <2>2, <2>3 DEF WorkerState
<1>7. QED
  BY <1>2, <1>3, <1>4, <1>5, <1>6 DEF IInv

(* The step of a request, whichever it is.                                 *)
LEMMA RequestSteps ==
  ASSUME IInv, NEW w \in Workers, Begin(w) \/ Continue(w)
  PROVE  Actor(w) /\ WorkerState(w)'
<1>1. CASE Begin(w)
  <2>1. Existing(db) \subseteq Groups /\ \A g : InGroup(db, g) \subseteq Students
    BY DEF Existing, InGroup
  <2>2. QED
    BY <1>1, <2>1, BeginEnrollStep, BeginLeaveStep, BeginNewGroupStep,
       BeginRemoveStep, DeleteAssignmentStep, CreateAssignmentStep,
       UpdateAssignmentStep, EditClassStep, BeginTransferStep DEF Begin
<1>2. CASE Continue(w)
  <2>1. CASE \/ GroupMissing(w) \/ FindGroup(w) \/ CleanGroup(w) \/ InsertGroup(w)
             \/ Activate(w) \/ Recreate(w) \/ Leave(w) \/ KeepRunGroup(w)
             \/ CastToManual(w) \/ RemoveRunGroup(w) \/ CheckRemoval(w)
             \/ FindLeft(w) \/ MoveLeft(w) \/ DeleteGroup(w)
             \/ MoveStudents(w) \/ FillWork(w) \/ Commit(w)
    BY <2>1, GroupMissingStep, FindGroupStep, CleanGroupStep, InsertGroupStep,
       ActivateStep, RecreateStep, LeaveStep, KeepRunGroupStep, CastToManualStep,
       RemoveRunGroupStep, CheckRemovalStep, FindLeftStep, MoveLeftStep,
       DeleteGroupStep, MoveStudentsStep, FillWorkStep, Committing
  <2>2. CASE \E from : Fail(w, from)
    BY <2>2, Failing
  <2>3. QED
    BY <1>2, <2>1, <2>2
       DEF Continue, TwoGroups, NameTaken, OutOfIds, AlreadyEnrolled, NoRunGroup,
           CannotCast, RefuseRemoval, ProtectedError, SomeNotMoved, FillFails,
           CommitFails
<1>3. QED
  BY <1>1, <1>2

LEMMA InvStutter == IInv /\ UNCHANGED vars => IInv'
BY DEF IInv, vars, TypeOK, Exclusive, FirstIsDefault, WorkerState, Errand, GroupFor,
       ManualErrand, Opened, Uncommitted, EntryFor, Enrolls, Leaves, Removes,
       Transfers, SafeTransfer, See, AvailableTo, CourseAssignments, OpenTo

LEMMA InvNext == IInv /\ [Next]_vars => IInv'
<1> SUFFICES ASSUME IInv, [Next]_vars PROVE IInv'
  OBVIOUS
<1>1. ASSUME NEW w \in Workers, Begin(w) \/ Continue(w) PROVE IInv'
  BY <1>1, RequestSteps, ActorKeeps
<1>2. CASE UNCHANGED vars
  BY <1>2, InvStutter
<1>3. QED
  BY <1>1, <1>2 DEF Next

LEMMA Invariant == Spec => []IInv
BY InvInit, InvNext, PTL DEF Spec


-------------------------------------------------------------------------------
(* The theorems.                                                           *)

(* Every row holds a value of its table, committed or not, and a worker    *)
(* that serves nothing has no open transaction.                            *)
THEOREM TypeCorrect == Spec => []TypeOK
<1>1. IInv => TypeOK
  BY DEF IInv
<1>2. QED
  BY <1>1, Invariant, PTL

(* A manual course keeps the one default group it was created with:        *)
(* get_or_create finds it, the delete view refuses it, and leaving removes *)
(* no group there.                                                         *)
THEOREM DefaultGroupIsKept == Spec => []OneDefaultGroup
<1>1. IInv => OneDefaultGroup
  <2> SUFFICES ASSUME IInv, mode = "manual"
               PROVE  Cardinality({g \in Existing(db) : db[grp(g)].type = "system"}) = 1
    BY DEF OneDefaultGroup
  <2>1. mode \in Modes /\ \A g \in Groups : db[grp(g)].type = "system" <=> g = 1
    BY DEF IInv, TypeOK, FirstIsDefault
  <2>2. 1 \in 1..MaxGroups[mode]
    BY <2>1, BoundsAreNat
  <2>3. 1 \in Groups
    BY <2>1, <2>2 DEF Groups
  <2>4. {g \in Existing(db) : db[grp(g)].type = "system"} = {1}
    BY <2>1, <2>3 DEF Existing
  <2>5. QED
    BY <2>4, FS_Singleton
<1>2. QED
  BY <1>1, Invariant, PTL

(* The row of an assignment that stays is changed by nobody but staff who  *)
(* save that assignment: a group cannot be removed while the assignment is *)
(* restricted to it, and a removal touches no AssignmentGroup.             *)
LEMMA AssignmentsAreEdited ==
  ASSUME IInv, NEW w \in Workers, Actor(w), NEW a \in Assignments,
         db[asg(a)].exists, db'[asg(a)].exists, db[asg(a)] # db'[asg(a)]
  PROVE  Commit(w) /\ job[w].op = "edit" /\ job[w].asg = a
<1>1. CASE Private(w)
  BY <1>1 DEF Private
<1>2. CASE Public(w)
  <2>1. PICK x : AutoCommit(w, x) /\ Harmless(x)
    BY <1>2 DEF Public
  <2>2. CASE asg(a) \in DOMAIN x
    <3>1. x[asg(a)] = NoAssignment
      BY <2>1, <2>2 DEF Harmless
    <3>2. db'[asg(a)] = NoAssignment
      BY <2>1, <2>2, <3>1, AfterAutoCommit
    <3>3. QED
      BY <3>2, AssignmentsAre
  <2>3. CASE asg(a) \notin DOMAIN x
    BY <2>1, <2>3, AfterAutoCommit, Tables
  <2>4. QED
    BY <2>2, <2>3
<1>3. CASE Commit(w)
  <2>1. asg(a) \in DOMAIN delta[w]
    BY <1>3, AfterCommit, Tables
  <2>2. QED
    BY <1>3, <2>1 DEF IInv, WorkerState, Uncommitted
<1>4. QED
  BY <1>1, <1>2, <1>3 DEF Actor

(* Removing a group opens no assignment to everybody: with any number of   *)
(* workers, an assignment that stays changes its groups only when a request*)
(* that edits it commits.                                                  *)
THEOREM RestrictionsLast == Spec => RestrictionsOutliveGroups
<1> DEFINE A == \A a \in Assignments :
                  LET before == db[asg(a)]
                      after  == db'[asg(a)]
                  IN (before.exists /\ after.exists /\ before # after) =>
                       \E w \in Workers : /\ Commit(w)
                                          /\ job[w].op = "edit"
                                          /\ job[w].asg = a
<1>1. IInv /\ [Next]_vars => [A]_vars
  <2> SUFFICES ASSUME IInv, Next PROVE A
    OBVIOUS
  <2>1. PICK w \in Workers : Begin(w) \/ Continue(w)
    BY DEF Next
  <2>2. Actor(w)
    BY <2>1, RequestSteps
  <2>3. QED
    BY <2>2, AssignmentsAreEdited
<1>2. QED
  BY <1>1, Invariant, PTL DEF Spec, RestrictionsOutliveGroups

(* An active student who stays active changes groups in a transfer that    *)
(* names him, whatever happened since a removal was checked.               *)
LEMMA StudentsAreTransferred ==
  ASSUME IInv, NEW w \in Workers, Actor(w), NEW s \in Students,
         db[enr(s)].state = "active", db'[enr(s)].state = "active",
         db[enr(s)] # db'[enr(s)]
  PROVE  Commit(w) /\ job[w].op = "transfer" /\ s \in job[w].who
<1>1. CASE Private(w)
  BY <1>1 DEF Private
<1>2. CASE Public(w)
  <2>1. PICK x : AutoCommit(w, x) /\ Harmless(x)
    BY <1>2 DEF Public
  <2>2. enr(s) \notin DOMAIN x
    BY <2>1 DEF Harmless
  <2>3. QED
    BY <2>1, <2>2, AfterAutoCommit, Tables
<1>3. CASE Commit(w)
  <2>1. enr(s) \in DOMAIN delta[w]
    BY <1>3, AfterCommit, Tables
  <2>2. db'[enr(s)] = delta[w][enr(s)]
    BY <1>3, <2>1, AfterCommit
  <2>3. EntryFor(w, s, delta[w][enr(s)])
    BY <2>1 DEF IInv, WorkerState, Uncommitted
  <2>4. QED
    BY <1>3, <2>2, <2>3 DEF EntryFor
<1>4. QED
  BY <1>1, <1>2, <1>3 DEF Actor

(* Removing a group moves nobody who is active when the UPDATE runs.       *)
THEOREM ActiveStudentsStay == Spec => OnlyThoseWhoLeftAreMoved
<1> DEFINE A == \A s \in Students :
                  LET before == db[enr(s)]
                      after  == db'[enr(s)]
                  IN (before.state = "active" /\ after.state = "active"
                        /\ before # after) =>
                       \E w \in Workers : /\ Commit(w)
                                          /\ job[w].op = "transfer"
                                          /\ s \in job[w].who
<1>1. IInv /\ [Next]_vars => [A]_vars
  <2> SUFFICES ASSUME IInv, Next PROVE A
    OBVIOUS
  <2>1. PICK w \in Workers : Begin(w) \/ Continue(w)
    BY DEF Next
  <2>2. Actor(w)
    BY <2>1, RequestSteps
  <2>3. QED
    BY <2>2, StudentsAreTransferred
<1>2. QED
  BY <1>1, Invariant, PTL DEF Spec, OnlyThoseWhoLeftAreMoved


(* A commit that edits no assignment leaves them all as they were.         *)
LEMMA CommitKeepsAssignments ==
  ASSUME IInv, NEW w \in Workers, Commit(w), job[w].op # "edit"
  PROVE  /\ CourseAssignments(db') = CourseAssignments(db)
         /\ \A g : AvailableTo(db', g) = AvailableTo(db, g)
         /\ \A a \in Assignments : \A g : OpenTo(db', a, g) <=> OpenTo(db, a, g)
<1>1. \A a \in Assignments : db'[asg(a)] = db[asg(a)]
  BY SeesAssignments, AfterCommit
<1>2. QED
  BY <1>1, SameAssignments

(* A transfer that nobody disturbed moves students to a group that may see *)
(* all that the old group might.                                           *)
THEOREM TransfersLoseNothing == Spec => TransferKeepsWork
<1> DEFINE A == \A w \in Workers : Completes(w, "transfer") =>
                  \A s \in job[w].who, a \in CourseAssignments(db') :
                    (db'[sa(a, s)] = "live" /\ OpenTo(db', a, job[w].group))
                       => OpenTo(db', a, job[w].to)
<1>1. IInv => A
  <2> SUFFICES ASSUME IInv, NEW w \in Workers, Completes(w, "transfer"),
                      NEW a \in CourseAssignments(db'),
                      OpenTo(db', a, job[w].group)
               PROVE  OpenTo(db', a, job[w].to)
    OBVIOUS
  <2>1. Commit(w) /\ job[w].op = "transfer" /\ w \notin raced
    BY DEF Completes
  <2>2. SafeTransfer(job[w].group, job[w].to)
    BY <2>1 DEF IInv, WorkerState, Transfers
  <2>3. a \in CourseAssignments(db) /\ a \in Assignments
    BY <2>1, CommitKeepsAssignments DEF CourseAssignments
  <2>4. QED
    BY <2>1, <2>2, <2>3, CommitKeepsAssignments DEF SafeTransfer
<1>2. IInv /\ [Next]_vars => [A]_vars
  BY <1>1
<1>3. QED
  BY <1>2, Invariant, PTL DEF Spec, TransferKeepsWork

(* ... and gives the active ones what only the new group may see.          *)
THEOREM TransfersGiveWork == Spec => TransferGivesWork
<1> DEFINE A == \A w \in Workers : Completes(w, "transfer") =>
                  \A s \in job[w].who \intersect Active(db') :
                    \A a \in AvailableTo(db', job[w].to)
                               \ AvailableTo(db', job[w].group) :
                      db'[sa(a, s)] = "live"
<1>1. IInv => A
  <2> SUFFICES ASSUME IInv, NEW w \in Workers, Completes(w, "transfer"),
                      NEW s \in job[w].who \intersect Active(db'),
                      NEW a \in AvailableTo(db', job[w].to)
                                  \ AvailableTo(db', job[w].group)
               PROVE  db'[sa(a, s)] = "live"
    OBVIOUS
  <2>1. Commit(w) /\ job[w].op = "transfer" /\ w \notin raced
    BY DEF Completes
  <2>2. pc[w] = "commit" /\ db' = See(w)
    BY <2>1, AfterCommit
  <2>3. Transfers(w)
    BY DEF IInv, WorkerState
  <2>4. enr(s) \in DOMAIN delta[w]
    BY <2>1, <2>2, <2>3 DEF Transfers
  <2>5. delta[w][enr(s)].state = "active"
    BY <2>1, <2>4, AfterCommit DEF Active
  <2>6. a \in AvailableTo(db, job[w].to) \ AvailableTo(db, job[w].group)
    BY <2>1, CommitKeepsAssignments
  <2>7. See(w)[sa(a, s)] = "live"
    BY <2>1, <2>2, <2>3, <2>5, <2>6 DEF Transfers
  <2>8. QED
    BY <2>2, <2>7
<1>2. IInv /\ [Next]_vars => [A]_vars
  BY <1>1
<1>3. QED
  BY <1>2, Invariant, PTL DEF Spec, TransferGivesWork

(* Who has enrolled undisturbed has the work of every assignment open to   *)
(* the group he was put in.                                                *)
THEOREM EnrollmentGivesWork == Spec => EnrolledHasWork
<1> DEFINE A == \A w \in Workers : Completes(w, "enroll") =>
                  \A s \in job[w].who, a \in AvailableTo(db', job[w].to) :
                    db'[sa(a, s)] = "live"
<1>1. IInv => A
  <2> SUFFICES ASSUME IInv, NEW w \in Workers, Completes(w, "enroll"),
                      NEW s \in job[w].who, NEW a \in AvailableTo(db', job[w].to)
               PROVE  db'[sa(a, s)] = "live"
    OBVIOUS
  <2>1. Commit(w) /\ job[w].op = "enroll" /\ w \notin raced
    BY DEF Completes
  <2>2. pc[w] = "commit" /\ Enrolls(w) /\ Uncommitted(w) /\ job[w] \in Job
    BY <2>1, AfterCommit DEF IInv, WorkerState
  <2>3. a \in AvailableTo(db, job[w].to)
    BY <2>1, CommitKeepsAssignments
  <2>4. sa(a, s) \in DOMAIN delta[w]
    BY <2>1, <2>2, <2>3 DEF Enrolls
  <2>5. a \in Assignments /\ s \in Students
    BY <2>2, <2>3 DEF AvailableTo, CourseAssignments, Job
  <2>6. delta[w][sa(a, s)] = "live"
    BY <2>1, <2>2, <2>4, <2>5 DEF Uncommitted
  <2>7. QED
    BY <2>1, <2>4, <2>6, AfterCommit
<1>2. IInv /\ [Next]_vars => [A]_vars
  BY <1>1
<1>3. QED
  BY <1>2, Invariant, PTL DEF Spec, EnrolledHasWork
===============================================================================
