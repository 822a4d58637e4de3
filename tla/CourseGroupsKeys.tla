--------------------------- MODULE CourseGroupsKeys ---------------------------
(***************************************************************************)
(* The foreign keys of CourseGroups.tla, for any students, runs, groups,   *)
(* assignments and workers.  A commit checks them; the statements outside  *)
(* of any transaction keep them by what the code checked before, however   *)
(* long ago: the group that receives those who left is still there, and a  *)
(* group that goes has nobody left.                                        *)
(***************************************************************************)
EXTENDS CourseGroupsProofs

KeysHold == ForeignKeysHold(db)

(* A group with students of its own, there or no longer.                   *)
Removable == {"manual", "program_run", "removed"}

(* A default group is for ever, and no other group becomes one.            *)
Succeeds(before, after) ==
  /\ before # "system"
  /\ before \in Removable => after \in Removable

(* What w has written to groups, and what it knows of them: only a leave   *)
(* request writes them in its transaction, what a request removes is no    *)
(* default group, and a removal moves those who left to one.               *)
Grounded(w) ==
  /\ \A g \in Groups : grp(g) \in DOMAIN delta[w] =>
       /\ job[w].op = "leave" /\ pc[w] \notin {"idle", "leave", "run_group"}
       /\ Succeeds(db[grp(g)].type, delta[w][grp(g)].type)
  /\ (job[w].op \in {"remove", "leave"} /\ job[w].group \in Groups) =>
       db[grp(job[w].group)].type \in Removable
  /\ (job[w].op = "remove" /\ pc[w] = "move") => db[grp(job[w].to)].type = "system"

KInv == IInv /\ KeysHold /\ \A w \in Workers : Grounded(w)

-------------------------------------------------------------------------------
(* What a step has to show.                                                *)

GroupsLast ==
  \A g \in Groups :
    /\ db[grp(g)].type = "system" => db'[grp(g)].type = "system"
    /\ db[grp(g)].type \in Removable => db'[grp(g)].type \in Removable

StaysSound(w) == Grounded(w)' /\ KeysHold' /\ GroupsLast

LEMMA Goes ==
  ASSUME IInv, NEW w \in Workers, NEW from, NEW to, NEW known, GoWith(w, from, to, known)
  PROVE  /\ pc[w] = from /\ pc'[w] = to
         /\ job'[w] = IF to = "idle" THEN NoJob ELSE known
  BY DEF IInv, TypeOK, GoWith

(* The step of w keeps it grounded.                                        *)
LEMMA Grounds ==
  ASSUME IInv, NEW w \in Workers, NEW from, NEW to, NEW known, GoWith(w, from, to, known),
         \A g \in Groups : grp(g) \in DOMAIN delta'[w] =>
           /\ known.op = "leave" /\ to \notin {"idle", "leave", "run_group"}
           /\ Succeeds(db'[grp(g)].type, delta'[w][grp(g)].type),
         (to # "idle" /\ known.op \in {"remove", "leave"} /\ known.group \in Groups) =>
           db'[grp(known.group)].type \in Removable,
         (to = "move" /\ known.op = "remove") => db'[grp(known.to)].type = "system"
  PROVE  Grounded(w)'
<1>1. pc'[w] = to /\ job'[w] = IF to = "idle" THEN NoJob ELSE known
  BY Goes
<1>2. NoJob.op = "none"
  BY DEF NoJob
<1>3. QED
  BY <1>1, <1>2 DEF Grounded

(* The other requests stay grounded: groups last.                          *)
LEMMA OthersStayGrounded ==
  ASSUME KInv, NEW w \in Workers, Actor(w), GroupsLast, NEW v \in Workers \ {w}
  PROVE  Grounded(v)'
<1>1. /\ pc'[v] = pc[v] /\ job'[v] = job[v] /\ delta'[v] = delta[v]
      /\ \A k \in DOMAIN delta[v] : db'[k] = db[k]
  <2>1. Alone(w)
    BY DEF Actor, Private, Public
  <2>2. \A k \in DOMAIN delta[v] : db'[k] = db[k]
    BY LocksHold DEF KInv
  <2>3. QED
    BY <2>1, <2>2 DEF Alone
<1>2. job[v] \in Job
  BY DEF KInv, IInv
<1>3. (job[v].op = "remove" /\ pc[v] = "move") => job[v].to \in Groups
  BY ErrandOf DEF KInv, IInv, WorkerState
<1>4. QED
  BY <1>1, <1>2, <1>3 DEF KInv, Grounded, GroupsLast

(* A step that leaves the database alone.                                  *)
LEMMA SameDatabase ==
  ASSUME KInv, db' = db
  PROVE  KeysHold' /\ GroupsLast
BY DEF KInv, KeysHold, ForeignKeysHold, GroupsLast, Existing, CourseAssignments

LEMMA Fails ==
  ASSUME KInv, NEW w \in Workers, NEW from, Fail(w, from)
  PROVE  StaysSound(w)
<1>1. db' = db
  BY DEF Fail
<1>2. delta'[w] = NoWrites
  BY DEF Fail, KInv, IInv, TypeOK
<1>3. \A g \in Groups : grp(g) \notin DOMAIN delta'[w]
  BY <1>2, NothingWritten
<1>4. Grounded(w)'
  <2>1. pc'[w] = "idle" /\ job'[w] = NoJob
    BY Goes DEF Fail, Go, KInv
  <2>2. job'[w].op = "none"
    BY <2>1 DEF NoJob
  <2>3. QED
    BY <1>3, <2>2 DEF Grounded
<1>5. QED
  BY <1>1, <1>4, SameDatabase DEF StaysSound

(* COMMIT checks the keys, and what was written to groups succeeds.        *)
LEMMA Commits ==
  ASSUME KInv, NEW w \in Workers, Commit(w)
  PROVE  StaysSound(w)
<1>1. /\ db' = See(w) /\ delta'[w] = NoWrites
      /\ \A k \in DOMAIN delta[w] : db'[k] = delta[w][k]
      /\ \A k \in Rows \ DOMAIN delta[w] : db'[k] = db[k]
  BY AfterCommit DEF KInv
<1>2. KeysHold'
  <2>1. ForeignKeysHold(See(w))
    BY DEF Commit
  <2>2. ForeignKeysHold(db')
    BY <1>1, <2>1
  <2>3. QED
    BY <2>2 DEF KeysHold, ForeignKeysHold, Existing, CourseAssignments
<1>3. GroupsLast
  <2>1. SUFFICES ASSUME NEW g \in Groups
                 PROVE  /\ db[grp(g)].type = "system" => db'[grp(g)].type = "system"
                        /\ db[grp(g)].type \in Removable => db'[grp(g)].type \in Removable
    BY DEF GroupsLast
  <2>2. CASE grp(g) \in DOMAIN delta[w]
    <3>1. Succeeds(db[grp(g)].type, delta[w][grp(g)].type)
      BY <2>2 DEF KInv, Grounded
    <3>2. QED
      BY <1>1, <2>2, <3>1 DEF Succeeds
  <2>3. CASE grp(g) \notin DOMAIN delta[w]
    BY <1>1, <2>3, Tables
  <2>4. QED
    BY <2>2, <2>3
<1>4. Grounded(w)'
  <2>1. job'[w] = NoJob
    BY Goes DEF Commit, Go, KInv
  <2>2. job'[w].op = "none"
    BY <2>1 DEF NoJob
  <2>3. \A g \in Groups : grp(g) \notin DOMAIN delta'[w]
    BY <1>1, NothingWritten
  <2>4. QED
    BY <2>2, <2>3 DEF Grounded
<1>5. QED
  BY <1>2, <1>3, <1>4 DEF StaysSound

(* What a request knew of the group it removes stays true.                 *)
LEMMA StillRemovable ==
  ASSUME KInv, NEW w \in Workers, GroupsLast,
         job[w].op \in {"remove", "leave"}, job[w].group \in Groups
  PROVE  db'[grp(job[w].group)].type \in Removable
BY DEF KInv, Grounded, GroupsLast

(* A step that leaves the database and the writes of w alone.              *)
LEMMA ReadsOn ==
  ASSUME KInv, NEW w \in Workers, NEW from, NEW to, NEW known,
         GoWith(w, from, to, known), UNCHANGED <<db, delta>>,
         to \in {"idle", "leave", "run_group"} =>
           \A g \in Groups : grp(g) \notin DOMAIN delta[w],
         known.op = job[w].op,
         (known.op \in {"remove", "leave"} /\ known.group \in Groups) =>
           known.group = job[w].group \/ db[grp(known.group)].type \in Removable,
         (to = "move" /\ known.op = "remove") => db[grp(known.to)].type = "system"
  PROVE  StaysSound(w)
<1>1. KeysHold' /\ GroupsLast
  BY SameDatabase
<1>2. \A g \in Groups : grp(g) \in DOMAIN delta'[w] =>
        /\ known.op = "leave" /\ to \notin {"idle", "leave", "run_group"}
        /\ Succeeds(db'[grp(g)].type, delta'[w][grp(g)].type)
  BY DEF KInv, Grounded
<1>3. (to # "idle" /\ known.op \in {"remove", "leave"} /\ known.group \in Groups) =>
        db'[grp(known.group)].type \in Removable
  BY <1>1, StillRemovable
<1>4. Grounded(w)'
  BY <1>2, <1>3, Grounds DEF KInv
<1>5. QED
  BY <1>1, <1>4 DEF StaysSound

(* A request is served: its worker had written nothing.                    *)
LEMMA Serves ==
  ASSUME KInv, NEW w \in Workers, NEW first, NEW request, Serve(w, first, request),
         first # "move",
         (request.op \in {"remove", "leave"} /\ request.group \in Groups) =>
           db[grp(request.group)].type \in Removable
  PROVE  StaysSound(w)
<1>1. GoWith(w, "idle", first, request) /\ UNCHANGED <<db, delta>>
  BY DEF Serve, Quiet
<1>2. \A g \in Groups : grp(g) \notin DOMAIN delta'[w]
  <2>1. delta[w] = NoWrites
    BY <1>1, Goes DEF KInv, IInv, TypeOK
  <2>2. QED
    BY <1>1, <2>1, NothingWritten
<1>3. KeysHold' /\ GroupsLast
  BY <1>1, SameDatabase
<1>4. Grounded(w)'
  BY <1>1, <1>2, Grounds DEF KInv
<1>5. QED
  BY <1>3, <1>4 DEF StaysSound

-------------------------------------------------------------------------------
(* Steps that read.                                                        *)

LEMMA BeginsSoundly ==
  ASSUME KInv, NEW w \in Workers
  PROVE  /\ \A s \in Students : BeginEnroll(w, s) \/ BeginLeave(w, s) => StaysSound(w)
         /\ \A n \in Titles : BeginNewGroup(w, n) => StaysSound(w)
         /\ \A g \in Groups : BeginRemove(w, g) => StaysSound(w)
         /\ \A g \in Groups : \A h \in Groups : \A who :
              BeginTransfer(w, who, g, h) => StaysSound(w)
<1>1. ASSUME NEW s, BeginEnroll(w, s) PROVE StaysSound(w)
  <2> DEFINE request == [NoJob EXCEPT !.op = "enroll", !.who = {s}]
  <2>1. Serve(w, "get_group", request)
    BY <1>1 DEF BeginEnroll
  <2>2. request.op = "enroll"
    BY DEF NoJob
  <2> HIDE DEF request
  <2>3. QED
    BY <2>1, <2>2, Serves
<1>2. ASSUME NEW s, BeginLeave(w, s) PROVE StaysSound(w)
  <2> DEFINE request == [NoJob EXCEPT !.op = "leave", !.who = {s}]
  <2>1. Serve(w, "leave", request)
    BY <1>2 DEF BeginLeave
  <2>2. request.group \notin Groups
    BY NobodyIsNothing DEF NoJob
  <2> HIDE DEF request
  <2>3. QED
    BY <2>1, <2>2, Serves
<1>3. ASSUME NEW n, BeginNewGroup(w, n) PROVE StaysSound(w)
  <2> DEFINE request == [NoJob EXCEPT !.op = "new_group", !.name = n]
  <2>1. Serve(w, "clean_group", request)
    BY <1>3 DEF BeginNewGroup
  <2>2. request.op = "new_group"
    BY DEF NoJob
  <2> HIDE DEF request
  <2>3. QED
    BY <2>1, <2>2, Serves
<1>4. ASSUME NEW g \in Groups, BeginRemove(w, g) PROVE StaysSound(w)
  <2> DEFINE request == [NoJob EXCEPT !.op = "remove", !.group = g]
  <2>1. Serve(w, "check", request) /\ db[grp(g)].type = "manual"
    BY <1>4 DEF BeginRemove, MayDelete
  <2>2. request.group = g
    BY DEF NoJob
  <2> HIDE DEF request
  <2>3. db[grp(request.group)].type \in Removable
    BY <2>1, <2>2 DEF Removable
  <2>4. QED
    BY <2>1, <2>3, Serves
<1>5. ASSUME NEW g, NEW h, NEW who, BeginTransfer(w, who, g, h) PROVE StaysSound(w)
  <2> DEFINE request ==
        [NoJob EXCEPT !.op = "transfer", !.who = who, !.group = g, !.to = h]
  <2>1. Serve(w, "move_students", request)
    BY <1>5 DEF BeginTransfer
  <2>2. request.op = "transfer"
    BY DEF NoJob
  <2> HIDE DEF request
  <2>3. QED
    BY <2>1, <2>2, Serves
<1>6. QED
  BY <1>1, <1>2, <1>3, <1>4, <1>5

(* A request in its transaction has written no group at first.             *)
LEMMA NoGroupsYet ==
  ASSUME KInv, NEW w \in Workers,
         job[w].op # "leave" \/ pc[w] \in {"idle", "leave", "run_group"}
  PROVE  \A g \in Groups : grp(g) \notin DOMAIN delta[w]
BY DEF KInv, Grounded

(* Outside of any transaction a request sees the database.                 *)
LEMMA SeesDatabase ==
  ASSUME IInv, NEW w \in Workers, Opened(w),
         \/ job[w].op \in {"remove", "new_group"}
         \/ job[w].op = "enroll" /\ pc[w] = "insert_group"
  PROVE  delta[w] = NoWrites /\ \A k \in Rows : See(w)[k] = db[k]
<1>1. delta[w] = NoWrites
  BY DEF Opened
<1>2. QED
  BY <1>1, NothingWritten, SeeOf

(* The default group is found for those who left.                          *)
LEMMA FindsGroupSoundly ==
  ASSUME KInv, NEW w \in Workers, FindGroup(w)
  PROVE  StaysSound(w)
<1>1. PICK g \in Groups :
        /\ GoWith(w, "get_group", AfterGroup(w), [job[w] EXCEPT !.to = g])
        /\ Matches(See(w), Wanted(w)) = {g}
  BY DEF FindGroup
<1>2. pc[w] = "get_group" /\ UNCHANGED <<db, delta>>
  BY <1>1 DEF GoWith, FindGroup, Quiet
<1>3. Errand(w) /\ Opened(w)
  BY DEF KInv, IInv, WorkerState
<1>4. job[w].op \in {"enroll", "leave", "remove"}
  BY <1>2, <1>3, ErrandOf
<1>5. AfterGroup(w) \in {"activate", "move"}
  BY <1>4 DEF AfterGroup
<1> DEFINE known == [job[w] EXCEPT !.to = g]
<1>6. known.op = job[w].op /\ known.group = job[w].group /\ known.to = g
  BY KnowsMore DEF KInv
<1>7. GoWith(w, "get_group", AfterGroup(w), known)
  BY <1>1
<1> HIDE DEF known
<1>8. job[w].op = "remove" => db[grp(g)].type = "system"
  <2>1. SUFFICES ASSUME job[w].op = "remove" PROVE db[grp(g)].type = "system"
    OBVIOUS
  <2>2. Wanted(w) = Default
    BY <2>1 DEF Wanted
  <2>3. See(w)[grp(g)].type = "system"
    BY <1>1, <2>2, GroupsAre DEF Matches
  <2>4. QED
    BY <1>3, <2>1, <2>3, SeesDatabase, Tables DEF KInv
<1>9. QED
  BY <1>2, <1>5, <1>6, <1>7, <1>8, ReadsOn

LEMMA ReadsSoundly ==
  ASSUME KInv, NEW w \in Workers,
         \/ GroupMissing(w) \/ CleanGroup(w) \/ KeepRunGroup(w)
         \/ CheckRemoval(w) \/ FindLeft(w)
  PROVE  StaysSound(w)
<1>1. PICK from, to :
        /\ Go(w, from, to) /\ UNCHANGED <<db, delta>>
        /\ to \notin {"idle", "leave", "run_group", "move"}
  <2>1. CASE GroupMissing(w)
    BY <2>1 DEF GroupMissing, Quiet
  <2>2. CASE CleanGroup(w)
    BY <2>2 DEF CleanGroup, Quiet
  <2>3. CASE KeepRunGroup(w)
    BY <2>3 DEF KeepRunGroup, Quiet
  <2>4. CASE CheckRemoval(w)
    BY <2>4 DEF CheckRemoval, Quiet
  <2>5. CASE FindLeft(w)
    <3> DEFINE to == IF ToMove(See(w), job[w].group) = {} THEN "delete_group" ELSE "get_group"
    <3>1. Go(w, "find_left", to) /\ UNCHANGED <<db, delta>>
      BY <2>5 DEF FindLeft, Quiet
    <3>2. to \in {"delete_group", "get_group"}
      OBVIOUS
    <3> HIDE DEF to
    <3>3. QED
      BY <3>1, <3>2
  <2>6. QED
    BY <2>1, <2>2, <2>3, <2>4, <2>5
<1>2. GoWith(w, from, to, job[w])
  BY <1>1 DEF Go
<1>3. QED
  BY <1>1, <1>2, ReadsOn

(* The group of a run is nobody's default group.                           *)
LEMMA RunGroupIs ==
  ASSUME KInv, NEW w \in Workers, NEW g \in RunGroups(w), pc[w] = "run_group"
  PROVE  g \in Groups /\ db[grp(g)].type = "program_run"
<1>1. g \in Groups /\ See(w)[grp(g)].type = "program_run"
  BY GroupsAre DEF RunGroups, Matches, Existing
<1>2. grp(g) \notin DOMAIN delta[w]
  BY <1>1, NoGroupsYet
<1>3. QED
  BY <1>1, <1>2, SeeOf, Tables

LEMMA FindsRunGroupSoundly ==
  ASSUME KInv, NEW w \in Workers, RemoveRunGroup(w)
  PROVE  StaysSound(w)
<1>1. PICK g \in Groups :
        /\ GoWith(w, "run_group", "find_left", [job[w] EXCEPT !.group = g])
        /\ g \in RunGroups(w)
  BY DEF RemoveRunGroup
<1> DEFINE known == [job[w] EXCEPT !.group = g]
<1>2. known.op = job[w].op /\ known.group = g
  BY KnowsMore DEF KInv
<1>3. GoWith(w, "run_group", "find_left", known) /\ pc[w] = "run_group"
  BY <1>1 DEF GoWith
<1> HIDE DEF known
<1>4. UNCHANGED <<db, delta>>
  BY DEF RemoveRunGroup, Quiet
<1>5. db[grp(g)].type \in Removable
  BY <1>1, <1>3, RunGroupIs DEF Removable
<1>6. QED
  BY <1>2, <1>3, <1>4, <1>5, ReadsOn

-------------------------------------------------------------------------------
(* Steps that write in a transaction.                                      *)

LEMMA WritesOn ==
  ASSUME KInv, NEW w \in Workers, NEW from, NEW to, NEW known,
         GoWith(w, from, to, known), NEW x, Write(w, x),
         known.op # "remove", to # "idle",
         known.op = "leave" => job[w].op = "leave" /\ known.group = job[w].group,
         \A g \in Groups : grp(g) \in DOMAIN x =>
           known.op = "leave" /\ Succeeds(db[grp(g)].type, x[grp(g)].type),
         known.op # job[w].op => pc[w] = "idle",
         to \in {"leave", "run_group"} =>
           \A g \in Groups : grp(g) \notin DOMAIN x \union DOMAIN delta[w]
  PROVE  StaysSound(w)
<1>1. db' = db /\ delta'[w] = Over(x, delta[w])
  BY DEF Write, KInv, IInv, TypeOK
<1>2. /\ DOMAIN delta'[w] = DOMAIN x \union DOMAIN delta[w]
      /\ \A k \in DOMAIN x : delta'[w][k] = x[k]
      /\ \A k \in DOMAIN delta[w] \ DOMAIN x : delta'[w][k] = delta[w][k]
  <2>1. /\ DOMAIN Over(x, delta[w]) = DOMAIN x \union DOMAIN delta[w]
        /\ \A k \in DOMAIN x : Over(x, delta[w])[k] = x[k]
        /\ \A k \in DOMAIN delta[w] \ DOMAIN x : Over(x, delta[w])[k] = delta[w][k]
    BY OverOf
  <2>2. QED
    BY <1>1, <2>1
<1>3. KeysHold' /\ GroupsLast
  BY <1>1, SameDatabase
<1>4. ASSUME NEW g \in Groups, grp(g) \in DOMAIN delta'[w]
      PROVE  /\ known.op = "leave" /\ to \notin {"idle", "leave", "run_group"}
             /\ Succeeds(db'[grp(g)].type, delta'[w][grp(g)].type)
  <2>1. CASE grp(g) \in DOMAIN x
    BY <1>1, <1>2, <2>1
  <2>2. CASE grp(g) \in DOMAIN delta[w] \ DOMAIN x
    <3>1. /\ job[w].op = "leave" /\ pc[w] # "idle"
          /\ Succeeds(db[grp(g)].type, delta[w][grp(g)].type)
      BY <2>2 DEF KInv, Grounded
    <3>2. QED
      BY <1>1, <1>2, <2>2, <3>1
  <2>3. QED
    BY <1>2, <1>4, <2>1, <2>2
<1>5. (known.op = "leave" /\ known.group \in Groups) =>
        db'[grp(known.group)].type \in Removable
  BY <1>3, StillRemovable
<1>6. Grounded(w)'
  BY <1>4, <1>5, Grounds DEF KInv
<1>7. QED
  BY <1>3, <1>6 DEF StaysSound

(* A write that names no group.                                            *)
LEMMA WritesBeside ==
  ASSUME KInv, NEW w \in Workers, NEW from, NEW to \in {"recreate", "commit", "fill", "delete_group"},
         GoWith(w, from, to, job[w]), NEW x, Write(w, x),
         job[w].op # "remove",
         \A g \in Groups : grp(g) \notin DOMAIN x
  PROVE  StaysSound(w)
BY WritesOn

LEMMA EnrollsSoundly ==
  ASSUME KInv, NEW w \in Workers, Activate(w) \/ Recreate(w)
  PROVE  StaysSound(w)
<1>1. pc[w] \in {"activate", "recreate"}
  BY DEF Activate, Recreate, Go, GoWith
<1>2. job[w].op = "enroll"
  BY <1>1, ErrandOf DEF KInv, IInv, WorkerState
<1>3. CASE Activate(w)
  <2>1. PICK s \in job[w].who :
          Write(w, Set(enr(s), [state |-> "active", group |-> job[w].to]))
    BY <1>3 DEF Activate
  <2> DEFINE x == Set(enr(s), [state |-> "active", group |-> job[w].to])
  <2>2. DOMAIN x = {enr(s)}
    BY SetOf
  <2>3. Write(w, x) /\ GoWith(w, "activate", "recreate", job[w])
    BY <1>3, <2>1 DEF Activate, Go
  <2> HIDE DEF x
  <2>4. \A g \in Groups : grp(g) \notin DOMAIN x
    BY <2>2, RowsDiffer
  <2>5. QED
    BY <1>2, <2>3, <2>4, WritesBeside
<1>4. CASE Recreate(w)
  <2>1. PICK s \in job[w].who : Write(w, [k \in Recreated(See(w), s) |-> "live"])
    BY <1>4 DEF Recreate
  <2> DEFINE x == [k \in Recreated(See(w), s) |-> "live"]
  <2>2. \A k \in DOMAIN x : \E a : k = sa(a, s)
    BY DEF Recreated
  <2>3. Write(w, x) /\ GoWith(w, "recreate", "commit", job[w])
    BY <1>4, <2>1 DEF Recreate, Go
  <2> HIDE DEF x
  <2>4. \A g \in Groups : grp(g) \notin DOMAIN x
    BY <2>2, RowsDiffer
  <2>5. QED
    BY <1>2, <2>3, <2>4, WritesBeside
<1>5. QED
  BY <1>3, <1>4

LEMMA LeavesSoundly ==
  ASSUME KInv, NEW w \in Workers, Leave(w)
  PROVE  StaysSound(w)
<1> DEFINE to == IF mode = "program_run" THEN "run_group" ELSE "commit"
<1>1. GoWith(w, "leave", to, job[w]) /\ pc[w] = "leave"
  BY DEF Leave, Go, GoWith
<1>2. job[w].op = "leave"
  BY <1>1, ErrandOf DEF KInv, IInv, WorkerState
<1>3. PICK s \in job[w].who :
        Write(w, Set(enr(s), [See(w)[enr(s)] EXCEPT !.state = "left"]))
  BY DEF Leave
<1> DEFINE x == Set(enr(s), [See(w)[enr(s)] EXCEPT !.state = "left"])
<1>4. DOMAIN x = {enr(s)}
  BY SetOf
<1>5. Write(w, x) /\ to # "idle"
  BY <1>3
<1> HIDE DEF x, to
<1>6. \A g \in Groups : grp(g) \notin DOMAIN x \union DOMAIN delta[w]
  BY <1>1, <1>4, NoGroupsYet, RowsDiffer
<1>7. QED
  BY <1>1, <1>2, <1>5, <1>6, WritesOn

LEMMA CastsSoundly ==
  ASSUME KInv, NEW w \in Workers, CastToManual(w)
  PROVE  StaysSound(w)
<1>1. GoWith(w, "run_group", "commit", job[w]) /\ pc[w] = "run_group"
  BY DEF CastToManual, Go, GoWith
<1>2. job[w].op = "leave"
  BY <1>1, ErrandOf DEF KInv, IInv, WorkerState
<1>3. PICK g \in RunGroups(w) : Write(w, Set(grp(g), Manual(See(w)[grp(g)].name)))
  BY DEF CastToManual
<1>4. g \in Groups /\ db[grp(g)].type = "program_run"
  BY <1>1, RunGroupIs
<1> DEFINE value == Manual(See(w)[grp(g)].name)
<1>5. Write(w, Set(grp(g), value)) /\ value.type = "manual"
  BY <1>3, GroupsAre
<1> HIDE DEF value
<1> DEFINE x == Set(grp(g), value)
<1>6. Write(w, x) /\ DOMAIN x = {grp(g)} /\ x[grp(g)] = value
  BY <1>5, SetOf
<1> HIDE DEF x
<1>7. \A h \in Groups : grp(h) \in DOMAIN x => Succeeds(db[grp(h)].type, x[grp(h)].type)
  BY <1>4, <1>5, <1>6, RowsNameThings DEF Succeeds, Removable
<1>8. QED
  BY <1>1, <1>2, <1>6, <1>7, WritesOn

LEMMA TransfersSoundly ==
  ASSUME KInv, NEW w \in Workers, MoveStudents(w) \/ FillWork(w)
  PROVE  StaysSound(w)
<1>1. pc[w] \in {"move_students", "fill"}
  BY DEF MoveStudents, FillWork, Go, GoWith
<1>2. job[w].op = "transfer"
  BY <1>1, ErrandOf DEF KInv, IInv, WorkerState
<1>3. CASE MoveStudents(w)
  <2> DEFINE x == [k \in {enr(s) : s \in job[w].who} |->
                     [See(w)[k] EXCEPT !.group = job[w].to]]
  <2>1. Write(w, x) /\ GoWith(w, "move_students", "fill", job[w])
    BY <1>3 DEF MoveStudents, Go
  <2>2. \A k \in DOMAIN x : \E s : k = enr(s)
    OBVIOUS
  <2> HIDE DEF x
  <2>3. \A g \in Groups : grp(g) \notin DOMAIN x
    BY <2>2, RowsDiffer
  <2>4. QED
    BY <1>2, <2>1, <2>3, WritesBeside
<1>4. CASE FillWork(w)
  <2> DEFINE news == InTargetOnly(See(w), job[w].group, job[w].to)
             x == [k \in UNION {DOMAIN Given(See(w), a, {job[w].to}) : a \in news} |-> "live"]
  <2>1. Write(w, x) /\ GoWith(w, "fill", "commit", job[w])
    BY <1>4 DEF FillWork, Go
  <2>2. \A a : \A k \in DOMAIN Given(See(w), a, {job[w].to}) : \E s : k = sa(a, s)
    BY DEF Given
  <2>3. \A k \in DOMAIN x : \E a, s : k = sa(a, s)
    BY <2>2
  <2> HIDE DEF x
  <2>4. \A g \in Groups : grp(g) \notin DOMAIN x
    BY <2>3, RowsDiffer
  <2>5. QED
    BY <1>2, <2>1, <2>4, WritesBeside
<1>5. QED
  BY <1>3, <1>4

(* The form of an assignment is saved.                                     *)
LEMMA SavesSoundly ==
  ASSUME KInv, NEW w \in Workers, NEW a \in Assignments, NEW only \in SUBSET Groups,
         CreateAssignment(w, a, only) \/ UpdateAssignment(w, a, only)
  PROVE  StaysSound(w)
<1> DEFINE known == [NoJob EXCEPT !.op = "edit", !.asg = a]
           new == Set(asg(a), [exists |-> TRUE, restricted_to |-> only])
           t == Over(new, See(w))
<1>1. PICK y : WorkOnly(y) /\ GoWith(w, "idle", "commit", known) /\ Write(w, Over(new, y))
  <2>1. CASE CreateAssignment(w, a, only)
    <3> DEFINE y == Given(t, a, {g \in Groups : OpenTo(t, a, g)})
    <3>1. GoWith(w, "idle", "commit", known) /\ Write(w, Over(new, y))
      BY <2>1 DEF CreateAssignment, Save
    <3>2. WorkOnly(y)
      BY GivenAndTaken
    <3> HIDE DEF y, known, new
    <3>3. QED
      BY <3>1, <3>2
  <2>2. CASE UpdateAssignment(w, a, only)
    <3> DEFINE y == SyncWrites(t, a)
    <3>1. GoWith(w, "idle", "commit", known) /\ Write(w, Over(new, y))
      BY <2>2 DEF UpdateAssignment, Save
    <3>2. WorkOnly(y)
      BY SyncsWork
    <3> HIDE DEF y, known, new
    <3>3. QED
      BY <3>1, <3>2
  <2>3. QED
    BY <2>1, <2>2
<1>2. known.op = "edit"
  BY DEF NoJob
<1>3. DOMAIN new = {asg(a)}
  BY SetOf
<1> HIDE DEF known, new
<1>4. \A g \in Groups : grp(g) \notin DOMAIN y
  BY <1>1, WorkTyped DEF WorkOnly
<1>5. \A g \in Groups : grp(g) \notin DOMAIN Over(new, y)
  BY <1>3, <1>4, OverOf, RowsDiffer
<1>6. pc[w] = "idle"
  BY <1>1 DEF GoWith
<1>7. QED
  BY <1>1, <1>2, <1>5, <1>6, WritesOn

-------------------------------------------------------------------------------
(* Statements outside of any transaction.                                  *)

LEMMA Published ==
  ASSUME IInv, NEW w \in Workers, NEW x, AutoCommit(w, x)
  PROVE  /\ \A k \in DOMAIN x : db'[k] = x[k]
         /\ \A k \in Rows \ DOMAIN x : db'[k] = db[k]
         /\ delta' = delta
<1>1. db' = Over(x, db) /\ delta' = delta /\ DOMAIN db = Rows
  BY DEF AutoCommit, IInv, TypeOK
<1>2. /\ \A k \in DOMAIN x : Over(x, db)[k] = x[k]
      /\ \A k \in DOMAIN db \ DOMAIN x : Over(x, db)[k] = db[k]
  BY OverOf
<1>3. QED
  BY <1>1, <1>2

LEMMA PublishesOn ==
  ASSUME KInv, NEW w \in Workers, NEW from, NEW to, NEW known,
         GoWith(w, from, to, known), NEW x, AutoCommit(w, x), delta[w] = NoWrites,
         KeysHold', GroupsLast,
         known.op = job[w].op, known.group = job[w].group,
         (to = "move" /\ known.op = "remove") => db'[grp(known.to)].type = "system"
  PROVE  StaysSound(w)
<1>1. \A g \in Groups : grp(g) \notin DOMAIN delta'[w]
  BY Published, NothingWritten DEF KInv
<1>2. (known.op \in {"remove", "leave"} /\ known.group \in Groups) =>
        db'[grp(known.group)].type \in Removable
  BY StillRemovable
<1>3. Grounded(w)'
  BY <1>1, <1>2, Grounds DEF KInv
<1>4. QED
  BY <1>3 DEF StaysSound

(* References to groups that stay, and work that goes with its assignment. *)
LEMMA KeysStay ==
  ASSUME KInv, Existing(db) \subseteq Existing(db'),
         \A s \in Students : db'[enr(s)].group \in {db[enr(s)].group} \union Existing(db'),
         \A a \in Assignments :
           \/ db'[asg(a)] = db[asg(a)] /\ \A s \in Students : db'[sa(a, s)] = db[sa(a, s)]
           \/ db'[asg(a)] = NoAssignment /\ \A s \in Students : db'[sa(a, s)] = "none",
         db'[cls] \subseteq Existing(db')
  PROVE  KeysHold'
<1>1. ForeignKeysHold(db)
  BY DEF KInv, KeysHold
<1>2. \A s \in Students : db'[enr(s)].group \in Existing(db') \union {Nobody}
  BY <1>1 DEF ForeignKeysHold
<1>3. ASSUME NEW a \in Assignments
      PROVE  /\ db'[asg(a)].exists => db'[asg(a)].restricted_to \subseteq Existing(db')
             /\ \A s \in Students : db'[sa(a, s)] # "none" => db'[asg(a)].exists
  <2>1. CASE db'[asg(a)] = NoAssignment /\ \A s \in Students : db'[sa(a, s)] = "none"
    BY <2>1, AssignmentsAre
  <2>2. CASE db'[asg(a)] = db[asg(a)] /\ \A s \in Students : db'[sa(a, s)] = db[sa(a, s)]
    BY <1>1, <2>2 DEF ForeignKeysHold, CourseAssignments
  <2>3. QED
    BY <2>1, <2>2
<1>4. ForeignKeysHold(db')
  BY <1>2, <1>3 DEF ForeignKeysHold, CourseAssignments
<1>5. QED
  BY <1>4 DEF KeysHold, ForeignKeysHold, Existing, CourseAssignments

(* What an existing group is.                                              *)
LEMMA GroupsStay ==
  ASSUME \A g \in Groups : db'[grp(g)] = db[grp(g)]
  PROVE  GroupsLast /\ Existing(db') = Existing(db)
BY DEF GroupsLast, Existing

LEMMA InsertsSoundly ==
  ASSUME KInv, NEW w \in Workers, InsertGroup(w)
  PROVE  StaysSound(w)
<1>1. PICK g \in FreeIds :
        /\ GoWith(w, "insert_group", AfterGroup(w), [job[w] EXCEPT !.to = g])
        /\ Put(w, Set(grp(g), Wanted(w)))
  BY DEF InsertGroup
<1>2. pc[w] = "insert_group"
  BY <1>1 DEF GoWith
<1>3. Errand(w) /\ Opened(w) /\ mode \in Modes
  BY DEF KInv, IInv, WorkerState, TypeOK
<1>4. job[w].op \in {"enroll", "leave", "remove", "new_group"}
  BY <1>2, <1>3, ErrandOf
<1>5. g \in Groups /\ db[grp(g)].type = "unused"
  BY <1>1, <1>3, GroupsAre DEF FreeIds, Groups
<1> DEFINE x == Set(grp(g), Wanted(w))
           known == [job[w] EXCEPT !.to = g]
<1>6. DOMAIN x = {grp(g)} /\ x[grp(g)] = Wanted(w)
  BY SetOf
<1>7. known.op = job[w].op /\ known.group = job[w].group /\ known.to = g
  BY <1>5, KnowsMore DEF KInv
<1>8. GoWith(w, "insert_group", AfterGroup(w), known) /\ Put(w, x)
  BY <1>1
<1> HIDE DEF x, known
<1>9. CASE job[w].op = "leave"
  <2>1. Write(w, x) /\ AfterGroup(w) = "move"
    BY <1>8, <1>9 DEF Put, AfterGroup
  <2>2. \A h \in Groups : grp(h) \in DOMAIN x => Succeeds(db[grp(h)].type, x[grp(h)].type)
    BY <1>5, <1>6, RowsNameThings DEF Succeeds, Removable
  <2>3. QED
    BY <1>7, <1>8, <1>9, <2>1, <2>2, WritesOn
<1>10. CASE job[w].op # "leave"
  <2>1. AutoCommit(w, x)
    BY <1>8, <1>10 DEF Put
  <2>2. delta[w] = NoWrites
    BY <1>2, <1>3, <1>4, <1>10 DEF Opened
  <2>3. /\ db'[grp(g)] = Wanted(w)
        /\ \A k \in Rows \ {grp(g)} : db'[k] = db[k]
    BY <1>6, <2>1, Published DEF KInv
  <2>4. \A h \in Groups : h = g \/ db'[grp(h)] = db[grp(h)]
    BY <2>3, Tables, RowsNameThings
  <2>5. GroupsLast /\ Existing(db) \subseteq Existing(db')
    BY <1>5, <2>4 DEF GroupsLast, Existing, Removable
  <2>6. KeysHold'
    <3>1. /\ \A s \in Students : db'[enr(s)] = db[enr(s)]
          /\ \A a \in Assignments : db'[asg(a)] = db[asg(a)]
          /\ \A a \in Assignments, s \in Students : db'[sa(a, s)] = db[sa(a, s)]
          /\ db'[cls] = db[cls]
      BY <2>3, Tables, RowsDiffer
    <3>2. db[cls] \subseteq Existing(db)
      BY DEF KInv, KeysHold, ForeignKeysHold
    <3>3. QED
      BY <2>5, <3>1, <3>2, KeysStay
  <2>7. job[w].op = "remove" => db'[grp(g)].type = "system"
    <3>1. job[w].op = "remove" => Wanted(w) = Default
      BY DEF Wanted
    <3>2. QED
      BY <2>3, <3>1, GroupsAre
  <2>8. QED
    BY <1>7, <1>8, <2>1, <2>2, <2>5, <2>6, <2>7, PublishesOn
<1>11. QED
  BY <1>9, <1>10

(* Those who left move to the default group, which exists for ever.        *)
LEMMA MovesSoundly ==
  ASSUME KInv, NEW w \in Workers, MoveLeft(w)
  PROVE  StaysSound(w)
<1> DEFINE x == [k \in {enr(s) : s \in ToMove(See(w), job[w].group)} |->
                   [See(w)[k] EXCEPT !.group = job[w].to]]
<1>1. /\ GoWith(w, "move", "delete_group", job[w]) /\ Put(w, x) /\ pc[w] = "move"
  BY DEF MoveLeft, Go, GoWith
<1>2. Errand(w) /\ Opened(w)
  BY DEF KInv, IInv, WorkerState
<1>3. job[w].op \in {"leave", "remove"} /\ job[w].group \in Groups /\ job[w].to \in Groups
  BY <1>1, <1>2, ErrandOf
<1>4. \A k \in DOMAIN x : \E s \in Students : k = enr(s)
  BY DEF ToMove, InGroup
<1>5. ASSUME NEW s \in Students, enr(s) \in DOMAIN x
      PROVE  x[enr(s)].group = job[w].to
  <2>1. PICK u \in ToMove(See(w), job[w].group) : enr(s) = enr(u)
    BY <1>5
  <2>2. s \in ToMove(See(w), job[w].group)
    BY <2>1, RowsNameThings
  <2>3. See(w)[enr(s)].state = "left" /\ See(w)[enr(s)] \in EnrollmentValues
    BY <2>2, SeeTyped, WholeTables DEF ToMove, Left, KInv, IInv
  <2>4. x[enr(s)] = [See(w)[enr(s)] EXCEPT !.group = job[w].to]
    BY <1>5
  <2> HIDE DEF x
  <2>5. QED
    BY <1>3, <2>3, <2>4, EnrollmentsAre
<1> HIDE DEF x
<1>6. \A g \in Groups : grp(g) \notin DOMAIN x
  BY <1>4, RowsDiffer
<1>7. CASE job[w].op = "leave"
  <2>1. Write(w, x)
    BY <1>1, <1>7 DEF Put
  <2>2. QED
    BY <1>1, <1>6, <1>7, <2>1, WritesBeside
<1>8. CASE job[w].op = "remove"
  <2>1. AutoCommit(w, x) /\ delta[w] = NoWrites
    BY <1>1, <1>2, <1>8 DEF Put, Opened
  <2>2. /\ \A k \in DOMAIN x : db'[k] = x[k]
        /\ \A k \in Rows \ DOMAIN x : db'[k] = db[k]
    BY <2>1, Published DEF KInv
  <2>3. /\ \A g \in Groups : db'[grp(g)] = db[grp(g)]
        /\ \A a \in Assignments : db'[asg(a)] = db[asg(a)]
        /\ \A a \in Assignments, s \in Students : db'[sa(a, s)] = db[sa(a, s)]
        /\ db'[cls] = db[cls]
    BY <1>4, <2>2, Tables, RowsDiffer
  <2>4. GroupsLast /\ Existing(db') = Existing(db)
    BY <2>3, GroupsStay
  <2>5. job[w].to \in Existing(db)
    BY <1>1, <1>3, <1>8 DEF KInv, Grounded, Existing
  <2>6. \A s \in Students : db'[enr(s)].group \in {db[enr(s)].group} \union Existing(db')
    BY <1>5, <2>2, <2>4, <2>5, Tables
  <2>7. db[cls] \subseteq Existing(db)
    BY DEF KInv, KeysHold, ForeignKeysHold
  <2>8. KeysHold'
    BY <2>3, <2>4, <2>6, <2>7, KeysStay
  <2>9. QED
    BY <1>1, <2>1, <2>4, <2>8, PublishesOn
<1>9. QED
  BY <1>3, <1>7, <1>8

(* The group that goes has nobody in it and restricts no assignment.       *)
LEMMA DeletesSoundly ==
  ASSUME KInv, NEW w \in Workers, DeleteGroup(w)
  PROVE  StaysSound(w)
<1> DEFINE g == job[w].group
           x == Deletion(See(w), g)
           to == IF job[w].op = "leave" THEN "commit" ELSE "idle"
<1>1. /\ GoWith(w, "delete_group", to, job[w]) /\ pc[w] = "delete_group"
      /\ Put(w, x) /\ ~Protected(See(w), g)
  BY DEF DeleteGroup, Go, GoWith
<1>2. Errand(w) /\ Opened(w)
  BY DEF KInv, IInv, WorkerState
<1>3. job[w].op \in {"leave", "remove"} /\ g \in Groups
  BY <1>1, <1>2, ErrandOf
<1>4. db[grp(g)].type \in Removable
  BY <1>3 DEF KInv, Grounded
<1>5. /\ DOMAIN x = {grp(g), cls} /\ x[grp(g)].type = "removed"
      /\ x[cls] = See(w)[cls] \ {g}
  <2> DEFINE y == Set(grp(g), Removed)
             z == [k \in {cls} |-> See(w)[cls] \ {g}]
  <2>1. DOMAIN y = {grp(g)} /\ y[grp(g)] = Removed
    BY SetOf
  <2>2. DOMAIN z = {cls} /\ z[cls] = See(w)[cls] \ {g}
    OBVIOUS
  <2>3. x = Over(y, z)
    BY DEF Deletion
  <2> HIDE DEF x, y, z
  <2>4. /\ DOMAIN Over(y, z) = DOMAIN y \union DOMAIN z
        /\ \A k \in DOMAIN y : Over(y, z)[k] = y[k]
        /\ \A k \in DOMAIN z \ DOMAIN y : Over(y, z)[k] = z[k]
    BY OverOf
  <2>5. QED
    BY <2>1, <2>2, <2>3, <2>4, GroupsAre, RowsDiffer
<1> HIDE DEF x
<1>6. \A h \in Groups : grp(h) \in DOMAIN x => h = g
  BY <1>5, RowsDiffer, RowsNameThings
<1>7. CASE job[w].op = "leave"
  <2>1. Write(w, x) /\ to = "commit"
    BY <1>1, <1>7 DEF Put
  <2>2. \A h \in Groups : grp(h) \in DOMAIN x => Succeeds(db[grp(h)].type, x[grp(h)].type)
    BY <1>4, <1>5, <1>6 DEF Succeeds, Removable
  <2>3. QED
    BY <1>1, <1>7, <2>1, <2>2, WritesOn
<1>8. CASE job[w].op = "remove"
  <2>1. AutoCommit(w, x) /\ delta[w] = NoWrites /\ to = "idle"
    BY <1>1, <1>2, <1>8 DEF Put, Opened
  <2>2. \A k \in Rows : See(w)[k] = db[k]
    BY <1>2, <1>8, SeesDatabase DEF KInv
  <2>3. /\ db'[grp(g)].type = "removed" /\ db'[cls] = db[cls] \ {g}
        /\ \A k \in Rows \ {grp(g), cls} : db'[k] = db[k]
    BY <1>5, <2>1, <2>2, Published, Tables DEF KInv
  <2>4. \A h \in Groups \ {g} : db'[grp(h)] = db[grp(h)]
    BY <2>3, Tables, RowsDiffer, RowsNameThings
  <2>5. GroupsLast /\ Existing(db') = Existing(db) \ {g}
    BY <1>3, <1>4, <2>3, <2>4 DEF GroupsLast, Existing, Removable
  <2>6. /\ \A s \in Students : db'[enr(s)] = db[enr(s)] /\ db[enr(s)].group # g
        /\ \A a \in Assignments :
             db'[asg(a)] = db[asg(a)] /\ (db[asg(a)].exists => g \notin db[asg(a)].restricted_to)
        /\ \A a \in Assignments, s \in Students : db'[sa(a, s)] = db[sa(a, s)]
    <3>1. InGroup(See(w), g) = {} /\ Restricts(See(w), g) = {}
      BY <1>1 DEF Protected
    <3>2. \A s \in Students : db[enr(s)].group # g
      BY <2>2, <3>1, Tables DEF InGroup
    <3>3. \A a \in Assignments : db[asg(a)].exists => g \notin db[asg(a)].restricted_to
      BY <2>2, <3>1, Tables DEF Restricts, CourseAssignments
    <3>4. QED
      BY <2>3, <3>2, <3>3, Tables, RowsDiffer
  <2>7. KeysHold'
    <3>1. ForeignKeysHold(db)
      BY DEF KInv, KeysHold
    <3>2. ForeignKeysHold(db')
      BY <2>3, <2>5, <2>6, <3>1 DEF ForeignKeysHold, CourseAssignments
    <3>3. QED
      BY <3>2 DEF KeysHold, ForeignKeysHold, Existing, CourseAssignments
  <2>8. QED
    BY <1>1, <2>1, <2>5, <2>7, PublishesOn
<1>9. QED
  BY <1>3, <1>7, <1>8

LEMMA DropsSoundly ==
  ASSUME KInv, NEW w \in Workers, NEW a \in Assignments, DeleteAssignment(w, a)
  PROVE  StaysSound(w)
<1> DEFINE y == Set(asg(a), NoAssignment)
           z == [k \in {sa(a, s) : s \in {u \in Students : db[sa(a, u)] # "none"}}
                   |-> "none"]
           x == Over(y, z)
<1>1. GoWith(w, "idle", "idle", job[w]) /\ AutoCommit(w, x) /\ pc[w] = "idle"
  BY DEF DeleteAssignment, Go, GoWith
<1>2. delta[w] = NoWrites
  BY <1>1 DEF KInv, IInv, TypeOK
<1>3. DOMAIN y = {asg(a)} /\ y[asg(a)] = NoAssignment
  BY SetOf
<1>4. /\ DOMAIN z = {sa(a, s) : s \in {u \in Students : db[sa(a, u)] # "none"}}
      /\ \A k \in DOMAIN z : z[k] = "none"
  OBVIOUS
<1> HIDE DEF y, z
<1>5. /\ DOMAIN x = DOMAIN y \union DOMAIN z
      /\ \A k \in DOMAIN y : x[k] = y[k]
      /\ \A k \in DOMAIN z \ DOMAIN y : x[k] = z[k]
  BY OverOf
<1> HIDE DEF x
<1>6. /\ \A k \in DOMAIN x : db'[k] = x[k]
      /\ \A k \in Rows \ DOMAIN x : db'[k] = db[k]
  BY <1>1, Published DEF KInv
<1>7. \A k \in DOMAIN x : k = asg(a) \/ \E s \in Students : k = sa(a, s)
  BY <1>3, <1>4, <1>5
<1>8. /\ \A g \in Groups : db'[grp(g)] = db[grp(g)]
      /\ \A s \in Students : db'[enr(s)] = db[enr(s)]
      /\ db'[cls] = db[cls]
  BY <1>6, <1>7, Tables, RowsDiffer
<1>9. \A b \in Assignments \ {a} :
        db'[asg(b)] = db[asg(b)] /\ \A s \in Students : db'[sa(b, s)] = db[sa(b, s)]
  BY <1>6, <1>7, Tables, RowsDiffer, RowsNameThings
<1>10. db'[asg(a)] = NoAssignment
  BY <1>3, <1>5, <1>6
<1>11. ASSUME NEW s \in Students PROVE db'[sa(a, s)] = "none"
  <2>1. CASE sa(a, s) \in DOMAIN z
    <3>1. sa(a, s) \notin DOMAIN y
      BY <1>3, RowsDiffer
    <3>2. QED
      BY <1>4, <1>5, <1>6, <2>1, <3>1
  <2>2. CASE sa(a, s) \notin DOMAIN z
    <3>1. db[sa(a, s)] = "none"
      BY <1>4, <2>2
    <3>2. sa(a, s) \in Rows \ DOMAIN x
      BY <1>3, <1>5, <2>2, Tables, RowsDiffer
    <3>3. QED
      BY <1>6, <3>1, <3>2
  <2>3. QED
    BY <2>1, <2>2
<1>12. GroupsLast /\ Existing(db') = Existing(db)
  BY <1>8, GroupsStay
<1>13. db[cls] \subseteq Existing(db)
  BY DEF KInv, KeysHold, ForeignKeysHold
<1>14. KeysHold'
  BY <1>8, <1>9, <1>10, <1>11, <1>12, <1>13, KeysStay
<1>15. QED
  BY <1>1, <1>2, <1>12, <1>14, PublishesOn

(* The form of a class offers the groups that exist.                       *)
LEMMA EditsClassSoundly ==
  ASSUME KInv, NEW w \in Workers, NEW only \in SUBSET Existing(db), EditClass(w, only)
  PROVE  StaysSound(w)
<1> DEFINE x == Set(cls, only)
<1>1. GoWith(w, "idle", "idle", job[w]) /\ AutoCommit(w, x) /\ pc[w] = "idle"
  BY DEF EditClass, Go, GoWith
<1>2. delta[w] = NoWrites
  BY <1>1 DEF KInv, IInv, TypeOK
<1>3. DOMAIN x = {cls} /\ x[cls] = only
  BY SetOf
<1> HIDE DEF x
<1>4. db'[cls] = only /\ \A k \in Rows \ {cls} : db'[k] = db[k]
  BY <1>1, <1>3, Published DEF KInv
<1>5. /\ \A g \in Groups : db'[grp(g)] = db[grp(g)]
      /\ \A s \in Students : db'[enr(s)] = db[enr(s)]
      /\ \A a \in Assignments : db'[asg(a)] = db[asg(a)]
      /\ \A a \in Assignments, s \in Students : db'[sa(a, s)] = db[sa(a, s)]
  BY <1>4, Tables, RowsDiffer
<1>6. GroupsLast /\ Existing(db') = Existing(db)
  BY <1>5, GroupsStay
<1>7. KeysHold'
  BY <1>4, <1>5, <1>6, KeysStay
<1>8. QED
  BY <1>1, <1>2, <1>6, <1>7, PublishesOn

-------------------------------------------------------------------------------
(* The invariant.                                                          *)

LEMMA StepsAreSound ==
  ASSUME KInv, NEW w \in Workers, Begin(w) \/ Continue(w)
  PROVE  StaysSound(w)
<1>1. CASE Begin(w)
  <2>1. Existing(db) \subseteq Groups
    BY DEF Existing
  <2>2. QED
    BY <1>1, <2>1, BeginsSoundly, DropsSoundly, SavesSoundly, EditsClassSoundly DEF Begin
<1>2. CASE Continue(w)
  <2>1. CASE \/ FindGroup(w) \/ GroupMissing(w) \/ CleanGroup(w) \/ InsertGroup(w)
             \/ Activate(w) \/ Recreate(w) \/ Leave(w) \/ KeepRunGroup(w)
             \/ CastToManual(w) \/ RemoveRunGroup(w) \/ CheckRemoval(w)
             \/ FindLeft(w) \/ MoveLeft(w) \/ DeleteGroup(w)
             \/ MoveStudents(w) \/ FillWork(w) \/ Commit(w)
    BY <2>1, FindsGroupSoundly, ReadsSoundly, InsertsSoundly, EnrollsSoundly,
       LeavesSoundly, CastsSoundly, FindsRunGroupSoundly, MovesSoundly,
       DeletesSoundly, TransfersSoundly, Commits
  <2>2. CASE \E from : Fail(w, from)
    BY <2>2, Fails
  <2>3. QED
    BY <1>2, <2>1, <2>2
       DEF Continue, TwoGroups, NameTaken, OutOfIds, AlreadyEnrolled, NoRunGroup,
           CannotCast, RefuseRemoval, ProtectedError, SomeNotMoved, FillFails,
           CommitFails
<1>3. QED
  BY <1>1, <1>2

LEMMA KeysInit == Init => KInv
<1> SUFFICES ASSUME Init PROVE KInv
  OBVIOUS
<1>1. IInv
  BY InvInit
<1>2. PICK given \in SUBSET Assignments,
           groups \in IF mode = "manual"
                      THEN {<<Default>>} \union {<<Default, Manual(n)>> : n \in Titles}
                      ELSE {<<>>} :
        db = Over([k \in {grp(g) : g \in DOMAIN groups} |-> groups[k[2]]],
                  Over([k \in {asg(a) : a \in given} |->
                          [exists |-> TRUE, restricted_to |-> {}]],
                       EmptyCourse))
  BY DEF Init
<1> DEFINE x == [k \in {grp(g) : g \in DOMAIN groups} |-> groups[k[2]]]
           y == [k \in {asg(a) : a \in given} |-> [exists |-> TRUE, restricted_to |-> {}]]
           z == Over(y, EmptyCourse)
<1>3. /\ \A k \in DOMAIN x : \E g : k = grp(g)
      /\ \A k \in DOMAIN y : \E a : k = asg(a)
      /\ \A k \in DOMAIN y : y[k].exists /\ y[k].restricted_to = {}
  OBVIOUS
<1>4. db = Over(x, z)
  BY <1>2
<1> HIDE DEF x, y
<1>5. /\ DOMAIN z = DOMAIN y \union Rows
      /\ \A k \in DOMAIN y : z[k] = y[k]
      /\ \A k \in Rows \ DOMAIN y : z[k] = EmptyCourse[k]
  BY OverOf, EmptyTables
<1> HIDE DEF z
<1>6. \A k \in DOMAIN z \ DOMAIN x : db[k] = z[k]
  <2>1. \A k \in DOMAIN z \ DOMAIN x : Over(x, z)[k] = z[k]
    BY OverOf
  <2>2. QED
    BY <1>4, <2>1
<1>7. /\ \A s \in Students : db[enr(s)] = NeverEnrolled
      /\ \A a \in Assignments, s \in Students : db[sa(a, s)] = "none"
      /\ db[cls] = {}
  BY <1>3, <1>5, <1>6, EmptyTables, Tables, RowsDiffer
<1>8. ASSUME NEW a \in Assignments, db[asg(a)].exists
      PROVE  db[asg(a)].restricted_to = {}
  <2>1. db[asg(a)] = z[asg(a)]
    BY <1>3, <1>5, <1>6, Tables, RowsDiffer
  <2>2. CASE asg(a) \in DOMAIN y
    BY <1>3, <1>5, <2>1, <2>2
  <2>3. CASE asg(a) \notin DOMAIN y
    BY <1>5, <1>8, <2>1, <2>3, EmptyTables, Tables, AssignmentsAre
  <2>4. QED
    BY <2>2, <2>3
<1>9. KeysHold
  BY <1>7, <1>8 DEF KeysHold, ForeignKeysHold, CourseAssignments, NeverEnrolled
<1>10. ASSUME NEW w \in Workers PROVE Grounded(w)
  <2>1. delta[w] = NoWrites /\ job[w] = NoJob
    BY DEF Init
  <2>2. job[w].op = "none"
    BY <2>1 DEF NoJob
  <2>3. QED
    BY <2>1, <2>2, NothingWritten DEF Grounded
<1>11. QED
  BY <1>1, <1>9, <1>10 DEF KInv

LEMMA KeysNext == KInv /\ [Next]_vars => KInv'
<1> SUFFICES ASSUME KInv, [Next]_vars PROVE KInv'
  OBVIOUS
<1>1. ASSUME NEW w \in Workers, Begin(w) \/ Continue(w) PROVE KInv'
  <2>1. IInv' /\ Actor(w)
    BY <1>1, RequestSteps, ActorKeeps DEF KInv
  <2>2. Grounded(w)' /\ KeysHold' /\ GroupsLast
    BY <1>1, StepsAreSound DEF StaysSound
  <2>3. \A v \in Workers \ {w} : Grounded(v)'
    BY <2>1, <2>2, OthersStayGrounded
  <2>4. QED
    BY <2>1, <2>2, <2>3 DEF KInv
<1>2. CASE UNCHANGED vars
  <2>1. IInv'
    BY <1>2, InvStutter DEF KInv
  <2>2. KeysHold'
    BY <1>2, SameDatabase DEF vars
  <2>3. \A w \in Workers : Grounded(w)'
    BY <1>2 DEF vars, KInv, Grounded
  <2>4. QED
    BY <2>1, <2>2, <2>3 DEF KInv
<1>3. QED
  BY <1>1, <1>2 DEF Next

(* No committed row refers to a group or an assignment that is gone:       *)
(* students are in groups that exist, assignments and the class are        *)
(* restricted to groups that exist, work belongs to assignments that exist.*)
(* The statements that run outside of any transaction check no key and do  *)
(* not fail: removing a group moves those who left to a default group that *)
(* nobody removes, and PROTECT and the collector leave nothing behind      *)
(* (StudentGroupService.remove, AssignmentDeleteView).                     *)
THEOREM ForeignKeysAreKept == Spec => []ForeignKeysHold(db)
<1>1. KInv => ForeignKeysHold(db)
  BY DEF KInv, KeysHold
<1>2. QED
  BY <1>1, KeysInit, KeysNext, PTL DEF Spec
===============================================================================
