--------------------------- MODULE CourseAccessProofs ---------------------------
(***************************************************************************)
(* Proofs about CourseAccess.tla for any number of requests, profiles,     *)
(* program runs and bindings: what the account keeps true of its profiles, *)
(* roles and enrollment whatever the order of the requests, and what the    *)
(* tables of Permissions.tla make of it.                                   *)
(***************************************************************************)
EXTENDS CourseAccess, TLAPS, WellFoundedInduction

(* The priority column is never older than the status beside it.           *)
Prioritized ==
  \A i \in Existing : prof[i].priority = ProfilePriority(prof[i].type, prof[i].status)

(* A request that holds the row of a profile, as it was when loaded.       *)
HasRow(r) == job[r].op \in {"save", "promote", "status", "status_saved"}

(* What is known of profile i: its row, and the copies requests hold.      *)
Known(i, p) ==
  \/ i \in Existing /\ p = prof[i]
  \/ \E r \in Requests : HasRow(r) /\ job[r].id = i /\ p = job[r].row

(* No status change turns one profile into another.                        *)
Alike(p, q) == p.type = q.type /\ p.run = q.run
Agreed == \A i \in Ids : \A p, q : Known(i, p) /\ Known(i, q) => Alike(p, q)

(* A binding of the course for the profile.                                *)
Bound(p) ==
  \/ p.type = "regular" /\ \E b \in ProgramBindings : b.program = p.run.program
  \/ p.type = "alumni" /\ AlumniBindings # {}

(* Who enrolls has a binding to enroll through, whatever is known of the   *)
(* profile.                                                                *)
Welcome(r) ==
  IF job[r].invitation THEN InvitationBindings # {}
  ELSE \A p : Known(job[r].id, p) => Bound(p)

NobodyRefused ==
  \A r \in Requests : /\ job[r].op # "refused"
                      /\ job[r].op = "enroll" => Welcome(r)

(* A role is held while a profile of its type is not expelled.             *)
Follows(type) == RoleOf(type) \in roles <=> \E i \in OfType(type) : IsActive(prof[i])
AllFollow == \A type \in ProfileTypes : Follows(type)

(* The same in the middle of a request nothing has overlapped with.        *)
Registering(j) ==
  /\ "STUDENT" \in roles
  /\ \A i \in OfType("regular") : prof[i].run # j.run
  /\ Follows("invited") /\ Follows("alumni")
Inviting(j) ==
  /\ j.id \in OfType("invited") /\ IsActive(prof[j.id])
  /\ Follows("regular") /\ Follows("alumni")
Holding(j) ==
  /\ j.id \in Existing /\ prof[j.id] = j.row /\ AllFollow
  /\ j.op = "promote" => j.row.type = "regular" /\ j.row.status = "normal"
  /\ j.op = "status_saved" => j.role = RoleChange(j.row.type, j.id, j.row.status, j.new)
Midway(j) ==
  CASE j.op = "register" -> Registering(j)
    [] j.op = "invite" -> Inviting(j)
    [] OTHER -> Holding(j)

Changing(r) == ChangesProfiles(job[r])
Orderly ==
  ~tangled => /\ \A q, r \in Requests : Changing(q) /\ Changing(r) => q = r
              /\ \A r \in Requests : Changing(r) => Midway(job[r])
              /\ (\A r \in Requests : ~Changing(r)) => AllFollow

IInv == TypeOK /\ Prioritized /\ Agreed /\ NobodyRefused /\ Orderly

-------------------------------------------------------------------------------
(* Facts about the data.                                                   *)

LEMMA IdsAreNumbers == Ids \subseteq Nat \ {0}
  BY MaxProfilesAssumption DEF Ids

LEMMA ProfilesHaveTypes ==
  \A p \in Profiles :
    /\ p # NoProfile
    /\ p.type \in ProfileTypes /\ p.status \in {"normal", "expelled", "graduated"}
    /\ p.priority \in {200, 1000, 1200}
    /\ p.type = "regular" => p.run \in Runs /\ p.run # NoRun
    /\ p.type # "regular" => p.run = NoRun
  BY RunsAssumption DEF Profiles, ProfileRows, ProfileTypes, NoProfile

LEMMA NewProfileIsTyped ==
  ASSUME NEW type \in ProfileTypes, NEW run \in Runs \union {NoRun},
         NEW status \in {"normal", "expelled", "graduated"},
         (type = "regular") = (run # NoRun)
  PROVE  /\ NewProfile(type, run, status) \in Profiles
         /\ NewProfile(type, run, status).type = type
         /\ NewProfile(type, run, status).run = run
         /\ NewProfile(type, run, status).status = status
         /\ NewProfile(type, run, status).priority = ProfilePriority(type, status)
<1>1. ProfilePriority(type, status) \in {200, 1000, 1200}
  BY DEF ProfilePriority, ProfileTypes
<1>2. QED
  BY <1>1 DEF NewProfile, Profiles, ProfileRows, ProfileTypes

(* A row goes back to its table with another status, or with the same one. *)
Rewritten(p, q, status) ==
  /\ q \in Profiles
  /\ q.type = p.type /\ q.run = p.run /\ q.status = status
  /\ q.priority = ProfilePriority(p.type, status)

LEMMA SavedIsTyped ==
  ASSUME NEW p \in Profiles
  PROVE  /\ Rewritten(p, Saved(p), p.status)
         /\ \A status \in {"normal", "expelled", "graduated"} :
              Rewritten(p, Saved([p EXCEPT !.status = status]), status)
<1>1. ASSUME NEW q \in Profiles
      PROVE  Rewritten(q, Saved(q), q.status)
  <2>1. ProfilePriority(q.type, q.status) \in {200, 1000, 1200}
    BY ProfilesHaveTypes DEF ProfilePriority, ProfileTypes
  <2>2. QED
    BY <2>1 DEF Rewritten, Saved, Profiles, ProfileRows
<1>2. ASSUME NEW status \in {"normal", "expelled", "graduated"}
      PROVE  Rewritten(p, Saved([p EXCEPT !.status = status]), status)
  <2> DEFINE q == [p EXCEPT !.status = status]
  <2>1. q \in Profiles /\ q.type = p.type /\ q.run = p.run /\ q.status = status
    BY DEF Profiles, ProfileRows
  <2>2. Rewritten(q, Saved(q), status)
    BY <2>1, <1>1
  <2>3. QED
    BY <2>1, <2>2 DEF Rewritten
<1>3. QED
  BY <1>1, <1>2

LEMMA ExistingAreTyped ==
  ASSUME TypeOK
  PROVE  /\ Existing \subseteq Ids
         /\ \A i \in Existing : prof[i] \in Profiles
         /\ \A i \in Ids : i \in Existing <=> prof[i] # NoProfile
  BY DEF TypeOK, Existing

(* What each job holds.                                                    *)
LEMMA JobsAreTyped ==
  ASSUME TypeOK, NEW r \in Requests
  PROVE  /\ job[r] = Idle <=> job[r].op = "idle"
         /\ job[r].op \in {"idle", "save", "promote", "status", "status_saved",
                           "register", "invite", "enroll", "refused"}
         /\ job[r].op \in {"save", "promote", "status", "status_saved"} =>
              job[r].id \in Ids /\ job[r].row \in Profiles
         /\ job[r].op \in {"status", "status_saved"} =>
              job[r].new \in {"normal", "expelled", "graduated"}
         /\ job[r].op = "register" => job[r].id = 0 /\ job[r].run \in Runs
         /\ job[r].op \in {"invite", "enroll", "refused"} => job[r].id \in Ids
         /\ job[r].op \in {"enroll", "refused"} => job[r].invitation \in BOOLEAN
  BY DEF TypeOK, JobTypes, Idle

LEMMA Least == \A T \in SUBSET Nat : T # {} => \E m \in T : \A k \in T : m <= k
<1> SUFFICES ASSUME NEW T \in SUBSET Nat, T # {} PROVE \E m \in T : \A k \in T : m <= k
  OBVIOUS
<1> DEFINE R == {ss \in Nat \X Nat : ss[1] < ss[2]}
<1>1. OpToRel(<, Nat) = R
  BY DEF OpToRel
<1>2. IsWellFoundedOn(R, Nat)
  BY <1>1, NatLessThanWellFounded
<1> HIDE DEF R
<1>3. PICK m \in T : \A k \in T : ~ (<<k, m>> \in R)
  BY <1>2, WFMin
<1>4. ASSUME NEW k \in T
      PROVE  m <= k
  <2>1. ~ (k < m)
    BY <1>3 DEF R
  <2>2. QED
    BY <2>1
<1>5. QED
  BY <1>4

(* The profile everything is decided on comes before every other one.      *)
LEMMA MainIsFirst ==
  ASSUME TypeOK
  PROVE  /\ Existing = {} <=> MainProfile = 0
         /\ Existing # {} => /\ MainProfile \in Existing
                             /\ \A j \in Existing \ {MainProfile} : Before(MainProfile, j)
<1>1. CASE Existing = {}
  BY <1>1 DEF MainProfile
<1>2. CASE Existing # {}
  <2> DEFINE P == {prof[i].priority : i \in Existing}
  <2>1. P \in SUBSET Nat /\ P # {}
    BY <1>2, ExistingAreTyped, ProfilesHaveTypes
  <2>2. PICK m \in P : \A k \in P : m <= k
    BY <2>1, Least
  <2> DEFINE First == {i \in Existing : prof[i].priority = m}
             D == {MaxProfiles - i : i \in First}
  <2>3. D \in SUBSET Nat /\ D # {}
    BY <2>2, ExistingAreTyped, MaxProfilesAssumption DEF Ids
  <2>4. PICK d \in D : \A k \in D : d <= k
    BY <2>3, Least
  <2>5. PICK i \in First : d = MaxProfiles - i
    BY <2>4
  <2>6. ASSUME NEW j \in Existing \ {i}
        PROVE  Before(i, j)
    <3>1. prof[i].priority = m /\ m <= prof[j].priority /\ m \in Nat /\ prof[j].priority \in Nat
      BY <2>1, <2>2, <2>5, ExistingAreTyped, ProfilesHaveTypes
    <3>2. i \in Ids /\ j \in Ids /\ Ids \subseteq Nat /\ MaxProfiles \in Nat
      BY <2>5, ExistingAreTyped, IdsAreNumbers, MaxProfilesAssumption
    <3>3. CASE prof[j].priority = m
      <4>1. j \in First
        BY <3>3
      <4>2. MaxProfiles - i <= MaxProfiles - j
        BY <4>1, <2>4, <2>5
      <4>3. i > j
        BY <4>2, <3>2
      <4>4. QED
        BY <4>3, <3>1, <3>3 DEF Before
    <3>4. CASE prof[j].priority # m
      BY <3>4, <3>1 DEF Before
    <3>5. QED
      BY <3>3, <3>4
  <2>7. i \in Existing /\ \A j \in Existing \ {i} : Before(i, j)
    BY <2>5, <2>6
  <2>8. MainProfile = CHOOSE k \in Existing : \A j \in Existing \ {k} : Before(k, j)
    BY <1>2 DEF MainProfile
  <2>9. MainProfile \in Existing /\ \A j \in Existing \ {MainProfile} : Before(MainProfile, j)
    BY <2>7, <2>8
  <2>10. QED
    BY <2>9, <1>2, ExistingAreTyped, IdsAreNumbers
<1>3. QED
  BY <1>1, <1>2


-------------------------------------------------------------------------------
(* Types.                                                                  *)

(* Row p of the table of profiles is written at i.                         *)
Wrote(i, p) == i \in Ids /\ p \in Profiles /\ prof' = [prof EXCEPT ![i] = p]

LEMMA WritingAdds ==
  ASSUME TypeOK, NEW i, NEW p, Wrote(i, p)
  PROVE  /\ prof' \in [Ids -> Profiles \union {NoProfile}]
         /\ Existing' = Existing \union {i}
         /\ prof'[i] = p
         /\ \A k \in Ids \ {i} : prof'[k] = prof[k]
<1>1. prof \in [Ids -> Profiles \union {NoProfile}]
  BY DEF TypeOK
<1>2. prof' \in [Ids -> Profiles \union {NoProfile}] /\ prof'[i] = p
        /\ \A k \in Ids \ {i} : prof'[k] = prof[k]
  BY <1>1 DEF Wrote
<1>3. p # NoProfile
  BY ProfilesHaveTypes DEF Wrote
<1>4. Existing' = Existing \union {i}
  BY <1>1, <1>2, <1>3 DEF Existing, Wrote
<1>5. QED
  BY <1>2, <1>4

LEMMA NextIdIsFree ==
  ASSUME TypeOK, NEW i \in NextId
  PROVE  /\ i \in Ids /\ i \notin Existing
         /\ \A j \in Existing : j < i
         /\ \A r \in Requests : job[r].op # "idle" => job[r].id # i
<1>1. \A j \in Existing : j < i
  BY DEF NextId
<1>2. i \in Ids /\ \A r \in Requests : job[r].op # "idle" => job[r].id # i
  BY DEF NextId
<1>3. i \notin Existing
  BY <1>1, <1>2, IdsAreNumbers
<1>4. QED
  BY <1>1, <1>2, <1>3

(* What the conjuncts of TypeOK say beside the profiles.                   *)
AccountTyped ==
  /\ prof \in [Ids -> Profiles \union {NoProfile}]
  /\ roles \subseteq StudentRoles
  /\ invited \subseteq Existing
  /\ enr \in {NoEnrollment} \union [active : BOOLEAN, profile : Existing, grade : Grades]
CourseTyped ==
  /\ work \in {"none", "untouched", "touched"}
  /\ completed \in BOOLEAN
  /\ open \subseteq Bindings
JobsTyped ==
  /\ job \in [Requests -> JobTypes]
  /\ tangled \in BOOLEAN
  /\ changes \in 0..MaxChanges

LEMMA TypesTogether == AccountTyped' /\ CourseTyped' /\ JobsTyped' => TypeOK'
  BY DEF TypeOK, AccountTyped, CourseTyped, JobsTyped

LEMMA RolesAreStudents ==
  \A type \in ProfileTypes : RoleOf(type) \in StudentRoles
  BY DEF RoleOf, ProfileTypes, StudentRoles

LEMMA CountedIsTyped ==
  ASSUME TypeOK, NEW r, Counted(r)
  PROVE  tangled' \in BOOLEAN /\ changes' \in 0..MaxChanges
<1>1. tangled' \in BOOLEAN
  BY Zenon DEF Counted
<1>2. changes' \in 0..MaxChanges
  BY MaxProfilesAssumption DEF TypeOK, Counted
<1>3. QED
  BY <1>1, <1>2

LEMMA JobsStayTyped ==
  ASSUME TypeOK, NEW r \in Requests
  PROVE  /\ Done(r) => JobsTyped'
         /\ \A j \in JobTypes : Begin(r, j) /\ Counted(r) => JobsTyped'
         /\ \A j \in JobTypes : Begin(r, j) /\ Uncounted => JobsTyped'
         /\ UNCHANGED job /\ Counted(r) => JobsTyped'
         /\ UNCHANGED job /\ Uncounted => JobsTyped'
<1>1. Idle \in JobTypes
  BY DEF JobTypes
<1>2. ASSUME Uncounted PROVE tangled' \in BOOLEAN /\ changes' \in 0..MaxChanges
  BY <1>2 DEF TypeOK, Uncounted
<1>3. ASSUME Counted(r) PROVE tangled' \in BOOLEAN /\ changes' \in 0..MaxChanges
  BY <1>3, CountedIsTyped
<1>4. job \in [Requests -> JobTypes]
  BY DEF TypeOK
<1>5. \A j \in JobTypes : Begin(r, j) => job' \in [Requests -> JobTypes]
  BY <1>4 DEF Begin
<1>6. Done(r) => job' \in [Requests -> JobTypes] /\ Uncounted
  BY <1>1, <1>4 DEF Done
<1>7. QED
  BY <1>2, <1>3, <1>4, <1>5, <1>6 DEF JobsTyped

(* An enrollment refers to a profile that stays.                           *)
LEMMA AccountStaysTyped ==
  ASSUME TypeOK, prof' \in [Ids -> Profiles \union {NoProfile}], Existing \subseteq Existing',
         roles' \subseteq StudentRoles, invited' \subseteq Existing', enr' = enr
  PROVE  AccountTyped'
<1>1. ASSUME NEW S, NEW T, S \subseteq T,
             NEW e \in [active : BOOLEAN, profile : S, grade : Grades]
      PROVE  e \in [active : BOOLEAN, profile : T, grade : Grades]
  BY <1>1
<1>2. enr \in {NoEnrollment} \union [active : BOOLEAN, profile : Existing, grade : Grades]
  BY DEF TypeOK
<1>3. enr' \in {NoEnrollment} \union [active : BOOLEAN, profile : Existing', grade : Grades]
  BY <1>1, <1>2
<1>4. QED
  BY <1>3 DEF AccountTyped

LEMMA AccountUntouchedTyped ==
  ASSUME TypeOK, UNCHANGED prof, UNCHANGED invited, UNCHANGED enr,
         roles' \subseteq StudentRoles
  PROVE  AccountTyped'
<1>1. Existing' = Existing
  BY DEF Existing
<1>2. QED
  BY <1>1 DEF TypeOK, AccountTyped

LEMMA RegisterTyped ==
  ASSUME TypeOK, NEW r \in Requests
  PROVE  /\ \A run \in Runs : BeginRegister(r, run) => TypeOK'
         /\ Register(r) => TypeOK'
<1>1. ASSUME NEW run \in Runs, BeginRegister(r, run)
      PROVE  TypeOK'
  <2>1. [op |-> "register", id |-> 0, run |-> run] \in JobTypes
    BY DEF JobTypes
  <2>2. JobsTyped'
    BY <1>1, <2>1, JobsStayTyped DEF BeginRegister
  <2>3. roles' \subseteq StudentRoles /\ UNCHANGED <<prof, invited, enr>> /\ CourseTyped'
    BY <1>1 DEF TypeOK, CourseTyped, BeginRegister, course, StudentRoles
  <2>4. QED
    BY <2>2, <2>3, AccountUntouchedTyped, TypesTogether
<1>2. ASSUME Register(r)
      PROVE  TypeOK'
  <2>1. JobsTyped'
    BY <1>2, JobsStayTyped DEF Register
  <2>2. CourseTyped'
    BY <1>2 DEF TypeOK, CourseTyped, Register, course
  <2>3. CASE UNCHANGED prof
    <3>1. AccountTyped'
      BY <1>2, <2>3, AccountUntouchedTyped DEF TypeOK, Register, course
    <3>2. QED
      BY <2>1, <2>2, <3>1, TypesTogether
  <2>4. CASE \E i \in NextId : Wrote(i, NewProfile("regular", job[r].run, "normal"))
    <3>1. PICK i \in NextId : Wrote(i, NewProfile("regular", job[r].run, "normal"))
      BY <2>4
    <3>2. prof' \in [Ids -> Profiles \union {NoProfile}] /\ Existing \subseteq Existing'
      BY <3>1, WritingAdds
    <3>3. AccountTyped'
      BY <1>2, <3>2, AccountStaysTyped DEF TypeOK, Register, course
    <3>4. QED
      BY <2>1, <2>2, <3>3, TypesTogether
  <2>5. job[r].run \in Runs /\ job[r].run # NoRun
    BY <1>2, JobsAreTyped, RunsAssumption DEF Register
  <2>6. NewProfile("regular", job[r].run, "normal") \in Profiles
    BY <2>5, NewProfileIsTyped DEF ProfileTypes
  <2>7. QED
    BY <1>2, <2>3, <2>4, <2>6, NextIdIsFree DEF Register, Wrote
<1>3. QED
  BY <1>1, <1>2


LEMMA InviteTyped ==
  ASSUME TypeOK, NEW r \in Requests
  PROVE  /\ AcceptInvitation(r) => TypeOK'
         /\ BeginInvite(r) => TypeOK'
         /\ Invite(r) => TypeOK'
<1>1. ASSUME AcceptInvitation(r)
      PROVE  TypeOK'
  <2>1. MainProfile # 0
    BY <1>1 DEF AcceptInvitation, InvitationReuses
  <2>2. MainProfile \in Existing
    BY <2>1, MainIsFirst
  <2>3. JobsTyped'
    BY <1>1, JobsStayTyped DEF AcceptInvitation, Uncounted
  <2>4. CourseTyped' /\ Existing' = Existing /\ AccountTyped'
    BY <1>1, <2>2 DEF TypeOK, CourseTyped, AccountTyped, AcceptInvitation, course, Existing
  <2>5. QED
    BY <2>3, <2>4, TypesTogether
<1>2. ASSUME BeginInvite(r)
      PROVE  TypeOK'
  <2>1. PICK i \in NextId :
          /\ prof' = [prof EXCEPT ![i] = NewProfile("invited", NoRun, "normal")]
          /\ Begin(r, [op |-> "invite", id |-> i])
    BY <1>2 DEF BeginInvite
  <2>2. i \in Ids /\ NewProfile("invited", NoRun, "normal") \in Profiles
    BY NextIdIsFree, NewProfileIsTyped DEF ProfileTypes
  <2>3. [op |-> "invite", id |-> i] \in JobTypes
    BY <2>2 DEF JobTypes
  <2>4. JobsTyped'
    BY <1>2, <2>1, <2>3, JobsStayTyped DEF BeginInvite
  <2>5. Wrote(i, NewProfile("invited", NoRun, "normal"))
    BY <2>1, <2>2 DEF Wrote
  <2>6. prof' \in [Ids -> Profiles \union {NoProfile}] /\ Existing \subseteq Existing'
    BY <2>5, WritingAdds
  <2>7. AccountTyped'
    BY <1>2, <2>6, AccountStaysTyped DEF TypeOK, BeginInvite, course
  <2>8. CourseTyped'
    BY <1>2 DEF TypeOK, CourseTyped, BeginInvite, course
  <2>9. QED
    BY <2>4, <2>7, <2>8, TypesTogether
<1>3. ASSUME Invite(r)
      PROVE  TypeOK'
  <2>1. JobsTyped'
    BY <1>3, JobsStayTyped DEF Invite
  <2>2. CourseTyped' /\ Existing' = Existing
    BY <1>3 DEF TypeOK, CourseTyped, Invite, course, Existing
  <2>3. AccountTyped'
    BY <1>3, <2>2, AccountStaysTyped DEF TypeOK, Invite, course, StudentRoles
  <2>4. QED
    BY <2>1, <2>2, <2>3, TypesTogether
<1>4. QED
  BY <1>1, <1>2, <1>3

LEMMA AdminCreateTyped ==
  ASSUME TypeOK, NEW r \in Requests, NEW type \in ProfileTypes,
         NEW run \in Runs \union {NoRun}, NEW status \in Statuses,
         AdminCreate(r, type, run, status)
  PROVE  /\ TypeOK'
         /\ \E i \in NextId : Wrote(i, NewProfile(type, run, status))
<1>1. NewProfile(type, run, status) \in Profiles
  BY NewProfileIsTyped, StatusesAssumption DEF AdminCreate, Unique
<1>2. PICK i \in NextId : Wrote(i, NewProfile(type, run, status))
  BY <1>1, NextIdIsFree DEF AdminCreate, Wrote
<1>3. prof' \in [Ids -> Profiles \union {NoProfile}] /\ Existing \subseteq Existing'
  BY <1>2, WritingAdds
<1>4. roles' \subseteq StudentRoles
  BY RolesAreStudents DEF AdminCreate, TypeOK
<1>5. invited' = invited /\ enr' = enr /\ CourseTyped'
  BY DEF AdminCreate, TypeOK, CourseTyped, course
<1>6. AccountTyped'
  BY <1>3, <1>4, <1>5, AccountStaysTyped DEF TypeOK
<1>7. JobsTyped'
  BY JobsStayTyped DEF AdminCreate
<1>8. QED
  BY <1>2, <1>5, <1>6, <1>7, TypesTogether

LEMMA BeginChangeTyped ==
  ASSUME TypeOK, NEW r \in Requests, NEW i \in Ids
  PROVE  /\ BeginSave(r, i) => TypeOK'
         /\ BeginPromote(r, i) => TypeOK'
         /\ \A new \in Statuses : BeginStatus(r, i, new) => TypeOK'
<1>1. ASSUME UNCHANGED <<account, course>>
      PROVE  AccountTyped' /\ CourseTyped'
  <2>1. UNCHANGED <<prof, roles, invited, enr, work, completed, open>>
    BY <1>1 DEF account, course
  <2>2. AccountTyped'
    BY <2>1, AccountUntouchedTyped DEF TypeOK
  <2>3. CourseTyped'
    BY <2>1 DEF TypeOK, CourseTyped
  <2>4. QED
    BY <2>2, <2>3
<1>2. ASSUME BeginSave(r, i)
      PROVE  TypeOK'
  <2>1. [op |-> "save", id |-> i, row |-> prof[i]] \in JobTypes
    BY <1>2, ExistingAreTyped DEF JobTypes, BeginSave
  <2>2. JobsTyped'
    BY <1>2, <2>1, JobsStayTyped DEF BeginSave
  <2>3. QED
    BY <1>2, <1>1, <2>2, TypesTogether DEF BeginSave
<1>3. ASSUME BeginPromote(r, i)
      PROVE  TypeOK'
  <2>1. [op |-> "promote", id |-> i, row |-> prof[i]] \in JobTypes
    BY <1>3, ExistingAreTyped DEF JobTypes, BeginPromote, OfType
  <2>2. JobsTyped'
    BY <1>3, <2>1, JobsStayTyped DEF BeginPromote
  <2>3. QED
    BY <1>3, <1>1, <2>2, TypesTogether DEF BeginPromote
<1>4. ASSUME NEW new \in Statuses, BeginStatus(r, i, new)
      PROVE  TypeOK'
  <2>1. [op |-> "status", id |-> i, row |-> prof[i], new |-> new, role |-> "keep"]
          \in JobTypes
    BY <1>4, ExistingAreTyped, StatusesAssumption DEF JobTypes, BeginStatus
  <2>2. JobsTyped'
    BY <1>4, <2>1, JobsStayTyped DEF BeginStatus
  <2>3. QED
    BY <1>4, <1>1, <2>2, TypesTogether DEF BeginStatus
<1>5. QED
  BY <1>2, <1>3, <1>4


(* What a request is about to write.                                       *)
LEMMA HeldRowIsTyped ==
  ASSUME TypeOK, NEW r \in Requests, HasRow(r)
  PROVE  /\ job[r].id \in Ids /\ job[r].row \in Profiles
         /\ Rewritten(job[r].row, Saved(job[r].row), job[r].row.status)
         /\ Rewritten(job[r].row, Saved([job[r].row EXCEPT !.status = "graduated"]), "graduated")
         /\ job[r].op = "status_saved" =>
              Rewritten(job[r].row, Saved([job[r].row EXCEPT !.status = job[r].new]), job[r].new)
<1>1. job[r].id \in Ids /\ job[r].row \in Profiles
  BY JobsAreTyped DEF HasRow
<1>2. job[r].op = "status_saved" => job[r].new \in {"normal", "expelled", "graduated"}
  BY JobsAreTyped
<1>3. QED
  BY <1>1, <1>2, SavedIsTyped

LEMMA SaveWrites ==
  ASSUME TypeOK, NEW r \in Requests, SaveProfile(r)
  PROVE  HasRow(r) /\ Wrote(job[r].id, Saved(job[r].row))
<1>1. HasRow(r)
  BY DEF SaveProfile, HasRow
<1>2. QED
  BY <1>1, HeldRowIsTyped DEF SaveProfile, Wrote, Rewritten

LEMMA CommitWrites ==
  ASSUME TypeOK, NEW r \in Requests, CommitStatus(r)
  PROVE  HasRow(r) /\ Wrote(job[r].id, Saved([job[r].row EXCEPT !.status = job[r].new]))
<1>1. HasRow(r) /\ job[r].op = "status_saved"
  BY DEF CommitStatus, HasRow
<1>2. QED
  BY <1>1, HeldRowIsTyped DEF CommitStatus, Wrote, Rewritten

LEMMA SaveTyped ==
  ASSUME TypeOK, NEW r \in Requests
  PROVE  /\ SaveProfile(r) => TypeOK'
         /\ CommitStatus(r) => TypeOK'
<1>1. ASSUME NEW i, NEW p, Wrote(i, p), Done(r), UNCHANGED <<invited, course>>,
             roles' \subseteq StudentRoles
      PROVE  TypeOK'
  <2>1. prof' \in [Ids -> Profiles \union {NoProfile}] /\ Existing \subseteq Existing'
    BY <1>1, WritingAdds
  <2>2. AccountTyped'
    BY <1>1, <2>1, AccountStaysTyped DEF TypeOK, course
  <2>3. CourseTyped'
    BY <1>1 DEF TypeOK, CourseTyped, course
  <2>4. QED
    BY <1>1, <2>2, <2>3, JobsStayTyped, TypesTogether
<1>2. ASSUME SaveProfile(r)
      PROVE  TypeOK'
  <2>1. Done(r) /\ UNCHANGED <<invited, course>> /\ roles' \subseteq StudentRoles
    BY <1>2 DEF SaveProfile, TypeOK
  <2>2. QED
    BY <1>1, <1>2, <2>1, SaveWrites
<1>3. ASSUME CommitStatus(r)
      PROVE  TypeOK'
  <2>1. Done(r) /\ UNCHANGED <<invited, course>>
    BY <1>3 DEF CommitStatus
  <2>2. job[r].row \in Profiles
    BY <1>3, CommitWrites, HeldRowIsTyped
  <2>3. RoleOf(job[r].row.type) \in StudentRoles /\ roles \subseteq StudentRoles
    BY <2>2, ProfilesHaveTypes, RolesAreStudents DEF TypeOK
  <2>4. roles' \subseteq StudentRoles
    BY <1>3, <2>3 DEF CommitStatus
  <2>5. QED
    BY <1>1, <1>3, <2>1, <2>4, CommitWrites
<1>4. QED
  BY <1>2, <1>3

(* A promotion writes the row, and a new alumni profile if there is none.  *)
Graduates(r) ==
  [prof EXCEPT ![job[r].id] = Saved([job[r].row EXCEPT !.status = "graduated"])]
PromotedOnly(r) == prof' = Graduates(r) /\ OfType("alumni") # {} /\ roles' = roles
PromotedTo(r, i) ==
  /\ prof' = [Graduates(r) EXCEPT ![i] = NewProfile("alumni", NoRun, "normal")]
  /\ OfType("alumni") = {} /\ roles' = roles \union {"ALUMNI"}

LEMMA PromotionWrites ==
  ASSUME TypeOK, NEW r \in Requests, Promote(r)
  PROVE  /\ HasRow(r) /\ job[r].op = "promote"
         /\ \/ PromotedOnly(r)
            \/ \E i \in NextId : PromotedTo(r, i)
         /\ MayBeSaved(r) /\ Done(r) /\ UNCHANGED <<invited, course>>
BY DEF Promote, HasRow, PromotedOnly, PromotedTo, Graduates

(* What the table is after the promotion.                                  *)
LEMMA PromotedProfiles ==
  ASSUME TypeOK, NEW r \in Requests, Promote(r),
         NEW g, g = Saved([job[r].row EXCEPT !.status = "graduated"])
  PROVE  /\ PromotedOnly(r) => Wrote(job[r].id, g)
         /\ \A i \in NextId : PromotedTo(r, i) =>
              /\ i # job[r].id
              /\ prof' \in [Ids -> Profiles \union {NoProfile}]
              /\ Existing' = Existing \union {job[r].id, i}
              /\ prof'[job[r].id] = g
              /\ prof'[i] = NewProfile("alumni", NoRun, "normal")
              /\ \A k \in Ids \ {i, job[r].id} : prof'[k] = prof[k]
<1>1. job[r].id \in Ids /\ g \in Profiles /\ job[r].op = "promote"
  BY PromotionWrites, HeldRowIsTyped DEF Rewritten
<1>2. prof \in [Ids -> Profiles \union {NoProfile}]
  BY DEF TypeOK
<1>3. PromotedOnly(r) => Wrote(job[r].id, g)
  BY <1>1 DEF PromotedOnly, Graduates, Wrote
<1>4. ASSUME NEW i \in NextId, PromotedTo(r, i)
      PROVE  /\ i # job[r].id
             /\ prof' \in [Ids -> Profiles \union {NoProfile}]
             /\ Existing' = Existing \union {job[r].id, i}
             /\ prof'[job[r].id] = g
             /\ prof'[i] = NewProfile("alumni", NoRun, "normal")
             /\ \A k \in Ids \ {i, job[r].id} : prof'[k] = prof[k]
  <2> DEFINE a == NewProfile("alumni", NoRun, "normal")
  <2>1. i \in Ids /\ i # job[r].id
    BY <1>1, NextIdIsFree
  <2>2. a \in Profiles
    BY NewProfileIsTyped DEF ProfileTypes
  <2>3. a # NoProfile /\ g # NoProfile
    BY <1>1, <2>2, ProfilesHaveTypes
  <2> HIDE DEF a
  <2>4. prof' = [[prof EXCEPT ![job[r].id] = g] EXCEPT ![i] = a]
    BY <1>4 DEF PromotedTo, Graduates, a
  <2>5. /\ prof' \in [Ids -> Profiles \union {NoProfile}]
        /\ prof'[job[r].id] = g /\ prof'[i] = a
        /\ \A k \in Ids \ {i, job[r].id} : prof'[k] = prof[k]
    BY <1>1, <1>2, <2>1, <2>2, <2>4
  <2>6. Existing' = Existing \union {job[r].id, i}
    BY <1>1, <1>2, <2>1, <2>3, <2>5 DEF Existing
  <2>7. QED
    BY <2>1, <2>5, <2>6 DEF a
<1>5. QED
  BY <1>3, <1>4

LEMMA PromoteTyped ==
  ASSUME TypeOK, NEW r \in Requests, Promote(r)
  PROVE  TypeOK'
<1>1. prof' \in [Ids -> Profiles \union {NoProfile}] /\ Existing \subseteq Existing'
  <2>1. CASE PromotedOnly(r)
    BY <2>1, PromotedProfiles, WritingAdds
  <2>2. CASE \E i \in NextId : PromotedTo(r, i)
    BY <2>2, PromotedProfiles
  <2>3. QED
    BY <2>1, <2>2, PromotionWrites
<1>2. roles' \subseteq StudentRoles
  BY PromotionWrites DEF PromotedOnly, PromotedTo, TypeOK, StudentRoles
<1>3. UNCHANGED <<invited, course>> /\ Done(r)
  BY PromotionWrites
<1>4. AccountTyped'
  BY <1>1, <1>2, <1>3, AccountStaysTyped DEF TypeOK, course
<1>5. CourseTyped'
  BY <1>3 DEF TypeOK, CourseTyped, course
<1>6. QED
  BY <1>3, <1>4, <1>5, JobsStayTyped, TypesTogether


-------------------------------------------------------------------------------
(* What the tables of the permissions say.                                 *)

AllRoles == StudentRoles \union {"CURATOR", "TEACHER", "AUTHENTICATED", "ANONYMOUS"}

LEMMA RolesOfTables ==
  /\ DOMAIN Granted = AllRoles
  /\ Granted["CURATOR"] = CuratorPermissions
  /\ Granted["TEACHER"] = TeacherPermissions
  /\ Granted["STUDENT"] = CommonStudentPermissions \union {"UpdateStudentProfileStudentId"}
  /\ Granted["INVITED"] = CommonStudentPermissions
  /\ Granted["ALUMNI"] = CommonStudentPermissions \union {"ViewAlumniMenu"}
  /\ Granted["AUTHENTICATED"] = {"ViewOwnAccountConnectedServiceProvider"}
  /\ Granted["ANONYMOUS"] = {"ViewCourseClassMaterials"}
  BY DEF Granted, AllRoles, StudentRoles

LEMMA GrantedArePermissions ==
  ASSUME NEW r \in AllRoles
  PROVE  Granted[r] \subseteq Permissions
  BY RolesOfTables DEF Permissions

LEMMA RelatedArePermissions ==
  ASSUME NEW r, NEW p
  PROVE  Related(r, p) \subseteq Permissions
<1>1. Implied(TeacherRelations, p) \subseteq Permissions
  <2>1. CASE p \in DOMAIN TeacherRelations
    <3>1. TeacherRelations[p] \subseteq UNION {TeacherRelations[k] : k \in DOMAIN TeacherRelations}
      BY <2>1, Zenon
    <3>2. UNION {TeacherRelations[k] : k \in DOMAIN TeacherRelations} \subseteq Permissions
      BY Zenon DEF Permissions
    <3>3. Implied(TeacherRelations, p) = TeacherRelations[p]
      BY <2>1, Zenon DEF Implied
    <3>4. QED
      BY <3>1, <3>2, <3>3
  <2>2. CASE p \notin DOMAIN TeacherRelations
    BY <2>2 DEF Implied
  <2>3. QED
    BY <2>1, <2>2
<1>2. Implied(StudentRelations, p) \subseteq Permissions
  <2>1. CASE p \in DOMAIN StudentRelations
    <3>1. StudentRelations[p] \subseteq UNION {StudentRelations[k] : k \in DOMAIN StudentRelations}
      BY <2>1, Zenon
    <3>2. UNION {StudentRelations[k] : k \in DOMAIN StudentRelations} \subseteq Permissions
      BY Zenon DEF Permissions
    <3>3. Implied(StudentRelations, p) = StudentRelations[p]
      BY <2>1, Zenon DEF Implied
    <3>4. QED
      BY <3>1, <3>2, <3>3
  <2>2. CASE p \notin DOMAIN StudentRelations
    BY <2>2 DEF Implied
  <2>3. QED
    BY <2>1, <2>2
<1>3. "ViewOwnAccountConnectedServiceProvider" \in Permissions
  <2>1. "AUTHENTICATED" \in AllRoles
    BY DEF AllRoles
  <2>2. "ViewOwnAccountConnectedServiceProvider" \in Granted["AUTHENTICATED"]
    BY RolesOfTables
  <2>3. QED
    BY <2>1, <2>2, GrantedArePermissions
<1>4. QED
  BY <1>1, <1>2, <1>3 DEF Related

(* How the rules of the permissions decide.                                *)
LEMMA AllowsMeans ==
  ASSUME NEW s, NEW asked \in SUBSET AllRoles, NEW p, NEW o
  PROVE  Allows(s, asked, p, o) <=>
           \/ \E r \in asked : p \in Granted[r] /\ Rule(s, p, o)
           \/ \E r \in asked : \E q \in Related(r, p) : AskedFirst(r, asked, p) /\ Rule(s, q, o)
<1> DEFINE rule == [q \in Permissions |-> Rule(s, q, o)]
<1>1. \A q \in Permissions : rule[q] = Rule(s, q, o)
  OBVIOUS
<1>2. Allows(s, asked, p, o) = HasPerm(rule, asked, p)
  BY DEF Allows
<1> HIDE DEF rule
<1>3. QED
  BY <1>1, <1>2, GrantedArePermissions, RelatedArePermissions DEF HasPerm, ThroughRelation

(* A user's roles.                                                         *)
LEMMA HeldAre ==
  ASSUME TypeOK, NEW s
  PROVE  /\ Held(s) \in SUBSET AllRoles
         /\ "ANONYMOUS" \in Held(s)
         /\ "CURATOR" \in Held(s) <=> s.curator
         /\ "TEACHER" \in Held(s) <=> s.teaches # "never"
         /\ \A r \in StudentRoles : r \in Held(s) <=> r \in roles
  BY DEF Held, StaffRoles, AllRoles, StudentRoles, TypeOK

LEMMA NotRelated ==
  ASSUME NEW r, NEW p, p \notin SharedPermissions,
         p # "ViewAccountConnectedServiceProvider"
  PROVE  Related(r, p) = {}
  BY DEF SharedPermissions, Related, Implied

LEMMA MayEnroll ==
  ASSUME TypeOK, NEW s, NEW o, MayDo(s, "EnrollInCourse", o)
  PROVE  EnrollRule(MainProfile) /\ \E r \in Held(s) : "EnrollInCourse" \in Granted[r]
<1> DEFINE p == "EnrollInCourse"
<1>1. p \notin SharedPermissions
  BY DEF SharedPermissions, TeacherRelations, StudentRelations
<1>2. Rule(s, p, o) => EnrollRule(MainProfile)
  BY DEF Rule, CoursePermissions, LearningPermissions, WorkPermissions, GroupPermissions,
         UserPermissions
<1>3. \A r \in Held(s) : Related(r, p) = {}
  BY <1>1, NotRelated
<1> HIDE DEF p
<1>4. \E r \in Held(s) : p \in Granted[r] /\ Rule(s, p, o)
  BY <1>3, AllowsMeans, HeldAre DEF MayDo, p
<1>5. QED
  BY <1>2, <1>4 DEF p

-------------------------------------------------------------------------------
(* Types, continued.                                                       *)

LEMMA DeleteRemoves ==
  ASSUME TypeOK, NEW r \in Requests, NEW i \in Ids, AdminDelete(r, i)
  PROVE  /\ TypeOK'
         /\ i \in Existing /\ Existing' = Existing \ {i}
         /\ \A k \in Ids \ {i} : prof'[k] = prof[k]
<1>1. prof \in [Ids -> Profiles \union {NoProfile}] /\ prof' = [prof EXCEPT ![i] = NoProfile]
  BY DEF TypeOK, AdminDelete
<1>2. /\ prof' \in [Ids -> Profiles \union {NoProfile}]
      /\ prof'[i] = NoProfile /\ \A k \in Ids \ {i} : prof'[k] = prof[k]
  BY <1>1
<1>3. i \in Existing /\ Existing' = Existing \ {i}
  BY <1>1, <1>2 DEF Existing, AdminDelete
<1>4. roles' \subseteq StudentRoles /\ invited' \subseteq Existing'
  BY <1>3 DEF TypeOK, AdminDelete
<1>5. enr' \in {NoEnrollment} \union [active : BOOLEAN, profile : Existing', grade : Grades]
  <2>1. CASE enr = NoEnrollment
    BY <2>1 DEF AdminDelete
  <2>2. CASE enr # NoEnrollment
    <3>1. enr \in [active : BOOLEAN, profile : Existing, grade : Grades]
      BY <2>2 DEF TypeOK
    <3>2. QED
      BY <1>3, <3>1 DEF AdminDelete
  <2>3. QED
    BY <2>1, <2>2
<1>6. AccountTyped'
  BY <1>2, <1>4, <1>5 DEF AccountTyped
<1>7. JobsTyped'
  BY JobsStayTyped DEF AdminDelete
<1>8. CourseTyped'
  BY DEF AdminDelete, CourseTyped, TypeOK
<1>9. QED
  BY <1>2, <1>3, <1>6, <1>7, <1>8, TypesTogether

LEMMA UpdateTyped ==
  ASSUME TypeOK, NEW r \in Requests, UpdateStatus(r)
  PROVE  TypeOK'
<1>1. AccountTyped' /\ CourseTyped'
  <2>1. UNCHANGED <<prof, roles, invited, enr, work, completed, open>>
    BY DEF UpdateStatus, account, course
  <2>2. QED
    BY <2>1, AccountUntouchedTyped DEF TypeOK, CourseTyped
<1>2. JobsTyped'
  <2>1. CASE Done(r)
    BY <2>1, JobsStayTyped
  <2>2. CASE ~Done(r)
    <3> DEFINE role == RoleChange(job[r].row.type, job[r].id, job[r].row.status, job[r].new)
               j == [job[r] EXCEPT !.op = "status_saved", !.role = role]
    <3>1. /\ job[r].op = "status"
          /\ job' = [job EXCEPT ![r].op = "status_saved", ![r].role = role]
          /\ Uncounted
      BY <2>2 DEF UpdateStatus
    <3>2. job[r] \in [op : {"status", "status_saved"}, id : Ids, row : Profiles,
                      new : {"normal", "expelled", "graduated"},
                      role : {"assign", "revoke", "keep"}]
      BY <3>1 DEF TypeOK, JobTypes, Idle
    <3>3. role \in {"assign", "revoke", "keep"}
      BY DEF RoleChange
    <3> HIDE DEF role
    <3>4. j \in JobTypes
      BY <3>2, <3>3 DEF JobTypes
    <3>5. job' = [job EXCEPT ![r] = j]
      BY <3>1 DEF TypeOK
    <3> HIDE DEF j
    <3>6. job' \in [Requests -> JobTypes]
      BY <3>4, <3>5 DEF TypeOK
    <3>7. QED
      BY <3>1, <3>6 DEF JobsTyped, Uncounted, TypeOK
  <2>3. QED
    BY <2>1, <2>2
<1>3. QED
  BY <1>1, <1>2, TypesTogether

LEMMA EnrollTyped ==
  ASSUME TypeOK, NEW r \in Requests
  PROVE  /\ BeginEnroll(r) => TypeOK'
         /\ Enroll(r) => TypeOK'
         /\ EnrollFails(r) => TypeOK'
<1>1. ASSUME UNCHANGED <<account, course>>
      PROVE  AccountTyped' /\ CourseTyped'
  <2>1. UNCHANGED <<prof, roles, invited, enr, work, completed, open>>
    BY <1>1 DEF account, course
  <2>2. QED
    BY <2>1, AccountUntouchedTyped DEF TypeOK, CourseTyped
<1>2. ASSUME BeginEnroll(r)
      PROVE  TypeOK'
  <2>1. MainProfile # 0
    BY <1>2, MayEnroll DEF BeginEnroll, EnrollRule
  <2>2. MainProfile \in Ids
    BY <2>1, MainIsFirst, ExistingAreTyped
  <2>3. ByInvitation(MainProfile) \in BOOLEAN
    BY DEF ByInvitation
  <2>4. [op |-> "enroll", id |-> MainProfile, invitation |-> ByInvitation(MainProfile)]
          \in JobTypes
    BY <2>2, <2>3 DEF JobTypes
  <2>5. JobsTyped'
    BY <1>2, <2>4, JobsStayTyped DEF BeginEnroll
  <2>6. QED
    BY <1>1, <1>2, <2>5, TypesTogether DEF BeginEnroll
<1>3. ASSUME Enroll(r)
      PROVE  TypeOK'
  <2>1. job[r] \in [op : {"enroll", "refused"}, id : Ids, invitation : BOOLEAN]
    BY <1>3 DEF Enroll, TypeOK, JobTypes, Idle
  <2>2. JobsTyped'
    <3>1. CASE Done(r)
      BY <3>1, JobsStayTyped
    <3>2. CASE ~Done(r)
      <4>1. job' = [job EXCEPT ![r].op = "refused"] /\ Uncounted
        BY <1>3, <3>2 DEF Enroll
      <4> DEFINE j == [job[r] EXCEPT !.op = "refused"]
      <4>2. j \in JobTypes
        BY <2>1 DEF JobTypes
      <4>3. job' = [job EXCEPT ![r] = j]
        BY <4>1
      <4> HIDE DEF j
      <4>4. job' \in [Requests -> JobTypes]
        BY <4>2, <4>3 DEF TypeOK
      <4>5. QED
        BY <4>1, <4>4 DEF JobsTyped, Uncounted, TypeOK
    <3>3. QED
      BY <3>1, <3>2
  <2>3. UNCHANGED <<prof, roles, invited, completed, open>> /\ Existing' = Existing
    BY <1>3 DEF Enroll, account, Existing
  <2>4. CourseTyped'
    BY <1>3, <2>3 DEF Enroll, CourseTyped, TypeOK
  <2>5. enr' \in {NoEnrollment} \union [active : BOOLEAN, profile : Existing, grade : Grades]
    <3>1. CASE UNCHANGED enr
      BY <3>1 DEF TypeOK
    <3>2. CASE ~UNCHANGED enr
      <4>1. /\ job[r].id \in Existing
            /\ enr' = [active |-> TRUE, profile |-> job[r].id,
                       grade |-> IF enr = NoEnrollment THEN 0 ELSE enr.grade]
        BY <1>3, <3>2 DEF Enroll
      <4>2. enr # NoEnrollment => enr.grade \in Grades
        BY DEF TypeOK
      <4>3. QED
        BY <4>1, <4>2, GradesAssumption
    <3>3. QED
      BY <3>1, <3>2
  <2>6. AccountTyped'
    BY <2>3, <2>5 DEF AccountTyped, TypeOK
  <2>7. QED
    BY <2>2, <2>4, <2>6, TypesTogether
<1>4. ASSUME EnrollFails(r)
      PROVE  TypeOK'
  <2>1. JobsTyped'
    BY <1>4, JobsStayTyped DEF EnrollFails
  <2>2. QED
    BY <1>1, <1>4, <2>1, TypesTogether DEF EnrollFails
<1>5. QED
  BY <1>2, <1>3, <1>4


LEMMA StudyTyped ==
  ASSUME TypeOK
  PROVE  /\ \A r \in Requests : Leave(r) \/ SendSolution(r) => TypeOK'
         /\ \A g \in Grades : SetGrade(g) => TypeOK'
         /\ \A b \in Bindings : CloseEnrollment(b) => TypeOK'
         /\ CompleteCourse => TypeOK'
<1>1. ASSUME UNCHANGED <<account, job, tangled, changes>>, CourseTyped',
             enr' \in {NoEnrollment}
                        \union [active : BOOLEAN, profile : Existing, grade : Grades]
      PROVE  TypeOK'
  <2>1. UNCHANGED <<prof, roles, invited>> /\ Existing' = Existing
    BY <1>1 DEF account, Existing
  <2>2. AccountTyped'
    BY <1>1, <2>1 DEF AccountTyped, TypeOK
  <2>3. JobsTyped'
    BY <1>1 DEF JobsTyped, TypeOK
  <2>4. QED
    BY <1>1, <2>2, <2>3, TypesTogether
<1>2. enr \in {NoEnrollment} \union [active : BOOLEAN, profile : Existing, grade : Grades]
  BY DEF TypeOK
<1>3. ASSUME NEW r \in Requests, Leave(r)
      PROVE  TypeOK'
  <2>1. enr' \in {NoEnrollment} \union [active : BOOLEAN, profile : Existing, grade : Grades]
    <3>1. enr' = [enr EXCEPT !.active = FALSE]
      BY <1>3 DEF Leave
    <3>2. CASE enr = NoEnrollment
      BY <3>1, <3>2 DEF NoEnrollment
    <3>3. CASE enr \in [active : BOOLEAN, profile : Existing, grade : Grades]
      BY <3>1, <3>3
    <3>4. QED
      BY <1>2, <3>2, <3>3
  <2>2. CourseTyped' /\ UNCHANGED <<account, job, tangled, changes>>
    BY <1>3 DEF Leave, CourseTyped, TypeOK
  <2>3. QED
    BY <1>1, <2>1, <2>2
<1>4. ASSUME NEW r \in Requests, SendSolution(r)
      PROVE  TypeOK'
  BY <1>1, <1>2, <1>4 DEF SendSolution, CourseTyped, TypeOK
<1>5. ASSUME NEW g \in Grades, SetGrade(g)
      PROVE  TypeOK'
  <2>1. enr' \in {NoEnrollment} \union [active : BOOLEAN, profile : Existing, grade : Grades]
    BY <1>2, <1>5 DEF SetGrade
  <2>2. CourseTyped' /\ UNCHANGED <<account, job, tangled, changes>>
    BY <1>5 DEF SetGrade, CourseTyped, TypeOK
  <2>3. QED
    BY <1>1, <2>1, <2>2
<1>6. ASSUME NEW b \in Bindings, CloseEnrollment(b)
      PROVE  TypeOK'
  BY <1>1, <1>2, <1>6 DEF CloseEnrollment, CourseTyped, TypeOK
<1>7. ASSUME CompleteCourse
      PROVE  TypeOK'
  BY <1>1, <1>2, <1>7 DEF CompleteCourse, CourseTyped, TypeOK
<1>8. QED
  BY <1>3, <1>4, <1>5, <1>6, <1>7

(* A step of the person's course leaves profiles, roles and invitation be. *)
InCourse ==
  \/ \E r \in Requests : Leave(r) \/ SendSolution(r)
  \/ \E g \in Grades : SetGrade(g)
  \/ \E b \in Bindings : CloseEnrollment(b)
  \/ CompleteCourse

LEMMA InCourseLeavesAccount ==
  InCourse => UNCHANGED <<prof, roles, invited, job, tangled>>
  BY DEF InCourse, Leave, SendSolution, SetGrade, CloseEnrollment, CompleteCourse, account

LEMMA InitTyped == Init => TypeOK
<1> SUFFICES ASSUME Init PROVE TypeOK
  OBVIOUS
<1>1. job \in [Requests -> JobTypes] /\ changes \in 0..MaxChanges /\ tangled \in BOOLEAN
  <2>1. Idle \in JobTypes
    BY DEF JobTypes
  <2>2. job \in [Requests -> JobTypes]
    BY <2>1 DEF Init
  <2>3. changes \in 0..MaxChanges
    BY MaxProfilesAssumption DEF Init
  <2>4. tangled \in BOOLEAN
    BY Zenon DEF Init
  <2>5. QED
    BY <2>2, <2>3, <2>4
<1>2. prof \in [Ids -> Profiles \union {NoProfile}] /\ roles \subseteq StudentRoles
  <2>1. CASE prof = [i \in Ids |-> NoProfile] /\ roles = {}
    BY <2>1
  <2>2. CASE \E run \in Runs :
               /\ prof = [i \in Ids |-> IF i = 1 THEN NewProfile("regular", run, "normal")
                                                 ELSE NoProfile]
               /\ roles = {"STUDENT"}
    <3>1. \A run \in Runs : NewProfile("regular", run, "normal") \in Profiles
      BY NewProfileIsTyped, RunsAssumption DEF ProfileTypes
    <3>2. QED
      BY <2>2, <3>1 DEF StudentRoles
  <2>3. QED
    BY <2>1, <2>2 DEF Init
<1>3. QED
  BY <1>1, <1>2 DEF Init, TypeOK

(* Every step preserves the types, one lemma per group of actions.         *)
LEMMA NextTyped ==
  ASSUME TypeOK, [Next]_vars
  PROVE  TypeOK'
<1>1. ASSUME NEW r \in Requests, Create(r)
      PROVE  TypeOK'
  BY <1>1, RegisterTyped, InviteTyped, AdminCreateTyped DEF Create
<1>2. ASSUME NEW r \in Requests, Change(r)
      PROVE  TypeOK'
  BY <1>2, BeginChangeTyped, DeleteRemoves, SaveTyped, PromoteTyped, UpdateTyped DEF Change
<1>3. ASSUME NEW r \in Requests, Study(r)
      PROVE  TypeOK'
  BY <1>3, EnrollTyped, StudyTyped DEF Study
<1>4. ASSUME UNCHANGED vars
      PROVE  TypeOK'
  BY <1>4 DEF vars, TypeOK, Existing
<1>5. QED
  BY <1>1, <1>2, <1>3, <1>4, StudyTyped DEF Next

(* CourseAccess: every variable keeps its type, and the enrollment and the *)
(* invitation refer to profiles that exist, whatever is deleted, saved or  *)
(* promoted meanwhile.                                                     *)
THEOREM TypeCorrect == Spec => []TypeOK
  BY InitTyped, NextTyped, PTL DEF Spec


-------------------------------------------------------------------------------
(* Where rows come from.                                                   *)

(* The copy request q holds after the step, it held before or has loaded.  *)
RowKept(q) == HasRow(q) /\ job'[q].id = job[q].id /\ job'[q].row = job[q].row
RowLoaded(q) == job'[q].id \in Existing /\ job'[q].row = prof[job'[q].id]

(* Profile k after the step: untouched, written over by a request that had *)
(* loaded it, or new.                                                      *)
Untouched(k) == k \in Existing /\ prof'[k] = prof[k]
Restored(k) == \E r \in Requests : HasRow(r) /\ job[r].id = k /\ Alike(prof'[k], job[r].row)
Computed(k) == prof'[k].priority = ProfilePriority(prof'[k].type, prof'[k].status)

LEMMA JobSteps ==
  ASSUME TypeOK, NEW r \in Requests
  PROVE  /\ Done(r) => job'[r] = Idle /\ \A q \in Requests \ {r} : job'[q] = job[q]
         /\ \A j : Begin(r, j) => /\ job[r] = Idle /\ job'[r] = j
                                  /\ \A q \in Requests \ {r} : job'[q] = job[q]
  BY DEF TypeOK, Done, Begin

LEMMA StartsOfRequests ==
  ASSUME TypeOK, NEW r \in Requests
  PROVE  /\ \A run \in Runs : BeginRegister(r, run) =>
              Begin(r, [op |-> "register", id |-> 0, run |-> run])
         /\ BeginInvite(r) => \E i \in NextId : Begin(r, [op |-> "invite", id |-> i])
         /\ \A i \in Ids :
              /\ BeginSave(r, i) => Begin(r, [op |-> "save", id |-> i, row |-> prof[i]])
              /\ BeginPromote(r, i) => Begin(r, [op |-> "promote", id |-> i, row |-> prof[i]])
              /\ \A new \in Statuses : BeginStatus(r, i, new) =>
                   Begin(r, [op |-> "status", id |-> i, row |-> prof[i], new |-> new,
                             role |-> "keep"])
         /\ BeginEnroll(r) =>
              Begin(r, [op |-> "enroll", id |-> MainProfile,
                        invitation |-> ByInvitation(MainProfile)])
  BY DEF BeginRegister, BeginInvite, BeginSave, BeginPromote, BeginStatus, BeginEnroll

LEMMA RowsAreKept ==
  ASSUME TypeOK, [Next]_vars, NEW q \in Requests, HasRow(q)'
  PROVE  RowKept(q) \/ RowLoaded(q)
<1>1. CASE job'[q] = job[q]
  BY <1>1 DEF HasRow, RowKept
<1>2. ASSUME NEW r \in Requests, Done(r)
      PROVE  RowKept(q)
  <2>1. q # r
    BY <1>2, JobSteps DEF HasRow, Idle
  <2>2. QED
    BY <1>2, <2>1, JobSteps DEF HasRow, RowKept
<1>3. ASSUME NEW r \in Requests, NEW j, Begin(r, j), j.op \in {"register", "invite", "enroll"}
      PROVE  RowKept(q)
  <2>1. q # r
    BY <1>3, JobSteps DEF HasRow
  <2>2. QED
    BY <1>3, <2>1, JobSteps DEF HasRow, RowKept
<1>4. ASSUME NEW r \in Requests, NEW j, Begin(r, j), j.id \in Existing, j.row = prof[j.id]
      PROVE  RowKept(q) \/ RowLoaded(q)
  <2>1. CASE q = r
    BY <1>4, <2>1, JobSteps DEF RowLoaded
  <2>2. CASE q # r
    BY <1>4, <2>2, JobSteps DEF HasRow, RowKept
  <2>3. QED
    BY <2>1, <2>2
<1>5. ASSUME NEW r \in Requests, Create(r)
      PROVE  RowKept(q) \/ RowLoaded(q)
  <2>1. CASE \E run \in Runs : BeginRegister(r, run)
    BY <2>1, <1>3, StartsOfRequests
  <2>2. CASE Register(r) \/ Invite(r)
    BY <2>2, <1>2 DEF Register, Invite
  <2>3. CASE AcceptInvitation(r)
    BY <2>3, <1>1 DEF AcceptInvitation
  <2>4. CASE BeginInvite(r)
    BY <2>4, <1>3, StartsOfRequests
  <2>5. CASE \E type \in ProfileTypes, run \in Runs \union {NoRun}, status \in Statuses :
               AdminCreate(r, type, run, status)
    BY <2>5, <1>1 DEF AdminCreate
  <2>6. QED
    BY <1>5, <2>1, <2>2, <2>3, <2>4, <2>5 DEF Create
<1>6. ASSUME NEW r \in Requests, Change(r)
      PROVE  RowKept(q) \/ RowLoaded(q)
  <2>1. CASE \E i \in Ids : BeginSave(r, i)
    <3>1. PICK i \in Ids : BeginSave(r, i)
      BY <2>1
    <3>2. i \in Existing /\ Begin(r, [op |-> "save", id |-> i, row |-> prof[i]])
      BY <3>1 DEF BeginSave
    <3>3. QED
      BY <3>2, <1>4
  <2>2. CASE \E i \in Ids : BeginPromote(r, i)
    <3>1. PICK i \in Ids : BeginPromote(r, i)
      BY <2>2
    <3>2. i \in Existing /\ Begin(r, [op |-> "promote", id |-> i, row |-> prof[i]])
      BY <3>1 DEF BeginPromote, OfType
    <3>3. QED
      BY <3>2, <1>4
  <2>3. CASE \E i \in Ids, new \in Statuses : BeginStatus(r, i, new)
    <3>1. PICK i \in Ids, new \in Statuses : BeginStatus(r, i, new)
      BY <2>3
    <3>2. i \in Existing /\ Begin(r, [op |-> "status", id |-> i, row |-> prof[i],
                                      new |-> new, role |-> "keep"])
      BY <3>1 DEF BeginStatus
    <3>3. QED
      BY <3>2, <1>4
  <2>4. CASE \E i \in Ids : AdminDelete(r, i)
    BY <2>4, <1>1 DEF AdminDelete
  <2>5. CASE SaveProfile(r) \/ Promote(r) \/ CommitStatus(r)
    BY <2>5, <1>2 DEF SaveProfile, Promote, CommitStatus
  <2>6. CASE UpdateStatus(r)
    <3>1. CASE Done(r)
      BY <3>1, <1>2
    <3>2. CASE ~Done(r)
      <4>1. PICK role : job' = [job EXCEPT ![r].op = "status_saved", ![r].role = role]
        BY <2>6, <3>2 DEF UpdateStatus
      <4>2. CASE q = r
        <5>1. job[r].op = "status"
          BY <2>6 DEF UpdateStatus
        <5>2. job[r] \in [op : {"status", "status_saved"}, id : Ids, row : Profiles,
                          new : {"normal", "expelled", "graduated"},
                          role : {"assign", "revoke", "keep"}]
          BY <5>1 DEF TypeOK, JobTypes, Idle
        <5>3. job'[r] = [job[r] EXCEPT !.op = "status_saved", !.role = role]
          BY <4>1 DEF TypeOK
        <5>4. job'[r].id = job[r].id /\ job'[r].row = job[r].row
          BY <5>2, <5>3
        <5>5. QED
          BY <4>2, <5>1, <5>4 DEF RowKept, HasRow
      <4>3. CASE q # r
        BY <1>1, <4>1, <4>3 DEF TypeOK
      <4>4. QED
        BY <4>2, <4>3
    <3>3. QED
      BY <3>1, <3>2
  <2>7. QED
    BY <1>6, <2>1, <2>2, <2>3, <2>4, <2>5, <2>6 DEF Change
<1>7. ASSUME NEW r \in Requests, Study(r)
      PROVE  RowKept(q) \/ RowLoaded(q)
  <2>1. CASE BeginEnroll(r)
    BY <2>1, <1>3, StartsOfRequests
  <2>2. CASE Enroll(r)
    <3>1. CASE Done(r)
      BY <3>1, <1>2
    <3>2. CASE ~Done(r)
      <4>1. job' = [job EXCEPT ![r].op = "refused"]
        BY <2>2, <3>2 DEF Enroll
      <4>2. job[r] \in [op : {"enroll", "refused"}, id : Ids, invitation : BOOLEAN]
        BY <2>2 DEF Enroll, TypeOK, JobTypes, Idle
      <4>3. job'[r].op = "refused" /\ \A k \in Requests \ {r} : job'[k] = job[k]
        BY <4>1, <4>2 DEF TypeOK
      <4>4. QED
        BY <1>1, <4>3 DEF HasRow
    <3>3. QED
      BY <3>1, <3>2
  <2>3. CASE EnrollFails(r)
    BY <2>3, <1>2 DEF EnrollFails
  <2>4. CASE Leave(r) \/ SendSolution(r)
    BY <2>4, <1>1 DEF Leave, SendSolution
  <2>5. QED
    BY <1>7, <2>1, <2>2, <2>3, <2>4 DEF Study
<1>8. CASE UNCHANGED job
  BY <1>8, <1>1
<1>9. QED
  BY <1>5, <1>6, <1>7, <1>8 DEF Next, SetGrade, CloseEnrollment, CompleteCourse, vars


LEMMA WritingRestores ==
  ASSUME TypeOK, NEW r \in Requests, HasRow(r), NEW p, NEW status,
         Rewritten(job[r].row, p, status), Wrote(job[r].id, p)
  PROVE  \A k \in Existing' : Untouched(k) \/ (Restored(k) /\ Computed(k))
<1> SUFFICES ASSUME NEW k \in Existing' PROVE Untouched(k) \/ (Restored(k) /\ Computed(k))
  OBVIOUS
<1>1. CASE k = job[r].id
  <2>1. prof'[k] = p
    BY <1>1, WritingAdds
  <2>2. QED
    BY <1>1, <2>1 DEF Rewritten, Restored, Computed, Alike
<1>2. CASE k # job[r].id
  BY <1>2, WritingAdds, ExistingAreTyped DEF Untouched
<1>3. QED
  BY <1>1, <1>2

LEMMA CreatingAdds ==
  ASSUME TypeOK, NEW i \in NextId, NEW p, Wrote(i, p),
         p.priority = ProfilePriority(p.type, p.status)
  PROVE  \A k \in Existing' : Untouched(k) \/ (k \in NextId /\ Computed(k))
  BY WritingAdds, ExistingAreTyped DEF Untouched, Computed

LEMMA ProfilesCome ==
  ASSUME TypeOK, [Next]_vars, NEW k \in Existing'
  PROVE  Untouched(k) \/ (Computed(k) /\ (Restored(k) \/ k \in NextId))
<1>1. CASE UNCHANGED prof
  BY <1>1 DEF Untouched, Existing
<1>2. ASSUME NEW r \in Requests, Create(r)
      PROVE  Untouched(k) \/ (k \in NextId /\ Computed(k))
  <2>1. CASE Register(r)
    <3>1. CASE UNCHANGED prof
      BY <1>1, <3>1 DEF Untouched, Existing
    <3>2. CASE ~UNCHANGED prof
      <4> DEFINE p == NewProfile("regular", job[r].run, "normal")
      <4>1. PICK i \in NextId : prof' = [prof EXCEPT ![i] = p]
        BY <2>1, <3>2 DEF Register
      <4>2. job[r].run \in Runs /\ job[r].run # NoRun
        BY <2>1, JobsAreTyped, RunsAssumption DEF Register
      <4>3. p \in Profiles /\ p.priority = ProfilePriority(p.type, p.status)
        BY <4>2, NewProfileIsTyped DEF ProfileTypes
      <4> HIDE DEF p
      <4>4. Wrote(i, p)
        BY <4>1, <4>3, NextIdIsFree DEF Wrote
      <4>5. QED
        BY <4>3, <4>4, CreatingAdds
    <3>3. QED
      BY <3>1, <3>2
  <2>2. CASE BeginInvite(r)
    <3> DEFINE p == NewProfile("invited", NoRun, "normal")
    <3>1. PICK i \in NextId : prof' = [prof EXCEPT ![i] = p]
      BY <2>2 DEF BeginInvite
    <3>2. p \in Profiles /\ p.priority = ProfilePriority(p.type, p.status)
      BY NewProfileIsTyped DEF ProfileTypes
    <3> HIDE DEF p
    <3>3. Wrote(i, p)
      BY <3>1, <3>2, NextIdIsFree DEF Wrote
    <3>4. QED
      BY <3>2, <3>3, CreatingAdds
  <2>3. ASSUME NEW type \in ProfileTypes, NEW run \in Runs \union {NoRun},
               NEW status \in Statuses, AdminCreate(r, type, run, status)
        PROVE  Untouched(k) \/ (k \in NextId /\ Computed(k))
    <3> DEFINE p == NewProfile(type, run, status)
    <3>1. PICK i \in NextId : Wrote(i, p)
      BY <2>3, AdminCreateTyped
    <3>2. p.priority = ProfilePriority(p.type, p.status)
      BY DEF NewProfile
    <3> HIDE DEF p
    <3>3. QED
      BY <3>1, <3>2, CreatingAdds
  <2>4. CASE \/ \E run \in Runs : BeginRegister(r, run)
             \/ AcceptInvitation(r) \/ Invite(r)
    BY <1>1, <2>4 DEF Untouched, Existing, BeginRegister, AcceptInvitation, Invite
  <2>5. QED
    BY <1>2, <2>1, <2>2, <2>3, <2>4 DEF Create
<1>3. ASSUME NEW r \in Requests, Change(r)
      PROVE  Untouched(k) \/ (Computed(k) /\ (Restored(k) \/ k \in NextId))
  <2>1. CASE \E i \in Ids : AdminDelete(r, i)
    BY <2>1, DeleteRemoves, ExistingAreTyped DEF Untouched
  <2>2. CASE SaveProfile(r)
    BY <2>2, SaveWrites, HeldRowIsTyped, WritingRestores
  <2>3. CASE CommitStatus(r)
    <3>1. job[r].op = "status_saved"
      BY <2>3 DEF CommitStatus
    <3>2. QED
      BY <2>3, <3>1, CommitWrites, HeldRowIsTyped, WritingRestores
  <2>4. CASE Promote(r)
    <3> DEFINE g == Saved([job[r].row EXCEPT !.status = "graduated"])
               a == NewProfile("alumni", NoRun, "normal")
    <3>1. HasRow(r) /\ Rewritten(job[r].row, g, "graduated")
      BY <2>4, PromotionWrites, HeldRowIsTyped
    <3>2. a.priority = ProfilePriority(a.type, a.status)
      BY NewProfileIsTyped DEF ProfileTypes
    <3>3. CASE PromotedOnly(r)
      <4>1. Wrote(job[r].id, g)
        BY <2>4, <3>3, PromotedProfiles
      <4> HIDE DEF g
      <4>2. QED
        BY <3>1, <4>1, WritingRestores
    <3>4. ASSUME NEW i \in NextId, PromotedTo(r, i)
          PROVE  Untouched(k) \/ (Computed(k) /\ (Restored(k) \/ k \in NextId))
      <4>1. /\ Existing' = Existing \union {job[r].id, i}
            /\ prof'[job[r].id] = g /\ prof'[i] = a
            /\ \A j \in Ids \ {i, job[r].id} : prof'[j] = prof[j]
        BY <2>4, <3>4, PromotedProfiles
      <4> HIDE DEF a, g
      <4>2. CASE k = job[r].id
        BY <3>1, <4>1, <4>2 DEF Rewritten, Restored, Computed, Alike
      <4>3. CASE k = i
        BY <3>2, <4>1, <4>3 DEF Computed
      <4>4. CASE k \notin {i, job[r].id}
        BY <4>1, <4>4, ExistingAreTyped DEF Untouched
      <4>5. QED
        BY <4>2, <4>3, <4>4
    <3>5. QED
      BY <2>4, <3>3, <3>4, PromotionWrites
  <2>5. CASE \/ \E i \in Ids : BeginSave(r, i) \/ BeginPromote(r, i)
             \/ \E i \in Ids, new \in Statuses : BeginStatus(r, i, new)
             \/ UpdateStatus(r)
    BY <1>1, <2>5 DEF Untouched, Existing, BeginSave, BeginPromote, BeginStatus, UpdateStatus,
                  account
  <2>6. QED
    BY <1>3, <2>1, <2>2, <2>3, <2>4, <2>5 DEF Change
<1>4. ASSUME NEW r \in Requests, Study(r)
      PROVE  UNCHANGED prof
  BY <1>4 DEF Study, BeginEnroll, Enroll, EnrollFails, Leave, SendSolution, account
<1>5. CASE UNCHANGED vars \/ CompleteCourse \/ (\E g \in Grades : SetGrade(g))
             \/ (\E b \in Bindings : CloseEnrollment(b))
  BY <1>1, <1>5 DEF vars, CompleteCourse, SetGrade, CloseEnrollment, account
<1>6. QED
  BY <1>1, <1>2, <1>3, <1>4, <1>5 DEF Next


(* Whatever is known of a profile after a step was known before, but for   *)
(* the status; or the profile is new, and nobody knew its id.              *)
LEMMA KnownBefore ==
  ASSUME TypeOK, [Next]_vars, NEW i, NEW p, Known(i, p)'
  PROVE  \/ \E q : Known(i, q) /\ Alike(p, q)
         \/ i \in NextId /\ p = prof'[i]
<1>1. CASE i \in Existing' /\ p = prof'[i]
  <2>1. CASE Untouched(i)
    BY <1>1, <2>1 DEF Untouched, Known, Alike
  <2>2. CASE Restored(i)
    BY <1>1, <2>2 DEF Restored, Known
  <2>3. QED
    BY <1>1, <2>1, <2>2, ProfilesCome
<1>2. ASSUME NEW r \in Requests, HasRow(r)', job'[r].id = i, p = job'[r].row
      PROVE  \E q : Known(i, q) /\ Alike(p, q)
  <2>1. RowKept(r) \/ RowLoaded(r)
    BY <1>2, RowsAreKept
  <2>2. Known(i, p)
    BY <1>2, <2>1 DEF RowKept, RowLoaded, Known
  <2>3. QED
    BY <2>2 DEF Alike
<1>3. QED
  BY <1>1, <1>2 DEF Known

LEMMA NothingKnownOfNext ==
  ASSUME TypeOK, NEW i \in NextId, NEW q
  PROVE  ~Known(i, q)
<1>1. \A r \in Requests : HasRow(r) => job[r].id # i
  BY NextIdIsFree DEF HasRow
<1>2. QED
  BY <1>1, NextIdIsFree DEF Known

LEMMA NextPrioritized ==
  ASSUME TypeOK, Prioritized, [Next]_vars
  PROVE  Prioritized'
<1>1. ASSUME NEW i \in Existing'
      PROVE  prof'[i].priority = ProfilePriority(prof'[i].type, prof'[i].status)
  BY ProfilesCome DEF Prioritized, Untouched, Computed
<1>2. QED
  BY <1>1 DEF Prioritized

LEMMA NextAgreed ==
  ASSUME TypeOK, Agreed, [Next]_vars
  PROVE  Agreed'
<1> SUFFICES ASSUME NEW i \in Ids, NEW p, NEW q, Known(i, p)', Known(i, q)'
             PROVE  Alike(p, q)
  BY DEF Agreed
<1>1. CASE i \in NextId
  <2>1. p = prof'[i] /\ q = prof'[i]
    BY <1>1, KnownBefore, NothingKnownOfNext
  <2>2. QED
    BY <2>1 DEF Alike
<1>2. CASE i \notin NextId
  <2>1. PICK p0 : Known(i, p0) /\ Alike(p, p0)
    BY <1>2, KnownBefore
  <2>2. PICK q0 : Known(i, q0) /\ Alike(q, q0)
    BY <1>2, KnownBefore
  <2>3. Alike(p0, q0)
    BY <2>1, <2>2 DEF Agreed
  <2>4. QED
    BY <2>1, <2>2, <2>3 DEF Alike
<1>3. QED
  BY <1>1, <1>2

(* Who passes the check of the permission finds a binding.                 *)
LEMMA WelcomeAtFirst ==
  ASSUME TypeOK, Agreed, NEW r \in Requests, BeginEnroll(r)
  PROVE  Welcome(r)'
<1>1. EnrollRule(MainProfile)
  BY MayEnroll DEF BeginEnroll
<1>2. PICK m \in Ids : m = MainProfile /\ m \in Existing /\ CanEnrollOrLeave(m)
  BY <1>1, MainIsFirst, ExistingAreTyped DEF EnrollRule
<1>3. m \in Ids /\ prof[m] \in Profiles
  BY <1>2, ExistingAreTyped
<1>4. job'[r] = [op |-> "enroll", id |-> m, invitation |-> ByInvitation(m)]
  BY <1>2, StartsOfRequests, JobSteps
<1>5. CASE ByInvitation(m)
  <2>1. InvitationBindings # {}
    BY <1>5 DEF ByInvitation
  <2>2. QED
    BY <1>4, <1>5, <2>1 DEF Welcome
<1>6. CASE ~ByInvitation(m)
  <2>1. Bound(prof[m])
    <3>1. CASE prof[m].type = "alumni"
      BY <1>2, <1>6, <3>1 DEF CanEnrollOrLeave, Bound
    <3>2. CASE prof[m].type # "alumni"
      <4>1. prof[m].run # NoRun /\ FromProgram(prof[m].run)
        BY <1>2, <1>6, <3>2 DEF CanEnrollOrLeave
      <4>2. prof[m].type = "regular"
        BY <1>3, <4>1, ProfilesHaveTypes
      <4>3. QED
        BY <4>1, <4>2 DEF FromProgram, InProgram, Bound
    <3>3. QED
      BY <3>1, <3>2
  <2>2. ASSUME NEW p, Known(m, p)'
        PROVE  Bound(p)
    <3>1. m \notin NextId
      BY <1>2, NextIdIsFree
    <3>2. [Next]_vars
      BY DEF Next, Study
    <3>3. PICK q : Known(m, q) /\ Alike(p, q)
      BY <2>2, <3>1, <3>2, KnownBefore
    <3>4. Alike(prof[m], q)
      BY <1>2, <1>3, <3>3 DEF Agreed, Known
    <3>5. QED
      BY <2>1, <3>3, <3>4 DEF Alike, Bound
  <2>3. job'[r].id = m /\ ~job'[r].invitation
    BY <1>4, <1>6
  <2>4. QED
    BY <2>2, <2>3 DEF Welcome
<1>7. QED
  BY <1>5, <1>6

LEMMA WelcomeStays ==
  ASSUME TypeOK, [Next]_vars, NEW r \in Requests, job[r].op = "enroll", Welcome(r),
         job'[r] = job[r]
  PROVE  Welcome(r)'
<1>1. CASE job[r].invitation
  BY <1>1 DEF Welcome
<1>2. CASE ~job[r].invitation
  <2>1. ASSUME NEW p, Known(job[r].id, p)'
        PROVE  Bound(p)
    <3>1. job[r].id \notin NextId
      BY NextIdIsFree
    <3>2. PICK q : Known(job[r].id, q) /\ Alike(p, q)
      BY <2>1, <3>1, KnownBefore
    <3>3. QED
      BY <1>2, <3>2 DEF Welcome, Alike, Bound
  <2>2. QED
    BY <1>2, <2>1 DEF Welcome
<1>3. QED
  BY <1>1, <1>2

(* The enrollment of a welcome request goes through.                       *)
LEMMA WelcomeFinds ==
  ASSUME TypeOK, NEW r \in Requests, Welcome(r), Enroll(r)
  PROVE  Done(r)
<1>1. job[r].id \in Existing
  BY DEF Enroll
<1>2. BindingsFor(job[r].id, job[r].invitation) # {}
  <2>1. CASE job[r].invitation
    BY <2>1 DEF Welcome, BindingsFor
  <2>2. CASE ~job[r].invitation
    <3>1. Bound(prof[job[r].id])
      BY <1>1, <2>2 DEF Welcome, Known
    <3>2. QED
      BY <2>2, <3>1 DEF Bound, BindingsFor
  <2>3. QED
    BY <2>1, <2>2
<1>3. QED
  BY <1>2 DEF Enroll

LEMMA NextNobodyRefused ==
  ASSUME TypeOK, Agreed, NobodyRefused, [Next]_vars
  PROVE  NobodyRefused'
<1> SUFFICES ASSUME NEW q \in Requests
             PROVE  job'[q].op # "refused" /\ (job'[q].op = "enroll" => Welcome(q)')
  BY DEF NobodyRefused
<1>1. CASE job'[q] = job[q]
  BY <1>1, WelcomeStays DEF NobodyRefused
<1>2. ASSUME NEW r \in Requests, Done(r)
      PROVE  job'[q] = job[q] \/ job'[q] = Idle
  BY <1>2, JobSteps
<1>3. CASE job'[q].op \notin {"refused", "enroll"}
  BY <1>3
<1>4. ASSUME NEW r \in Requests, NEW j, Begin(r, j), j.op \notin {"refused", "enroll"}
      PROVE  job'[q] = job[q] \/ job'[q].op \notin {"refused", "enroll"}
  BY <1>4, JobSteps
<1>5. ASSUME NEW r \in Requests, Create(r)
      PROVE  job'[q] = job[q] \/ job'[q].op \notin {"refused", "enroll"}
  <2>1. CASE Register(r) \/ Invite(r)
    BY <2>1, <1>2 DEF Register, Invite, Idle
  <2>2. CASE (\E run \in Runs : BeginRegister(r, run)) \/ BeginInvite(r)
    BY <2>2, <1>4, StartsOfRequests
  <2>3. CASE \/ AcceptInvitation(r)
             \/ \E type \in ProfileTypes, run \in Runs \union {NoRun}, status \in Statuses :
                  AdminCreate(r, type, run, status)
    BY <2>3 DEF AcceptInvitation, AdminCreate
  <2>4. QED
    BY <1>5, <2>1, <2>2, <2>3 DEF Create
<1>6. ASSUME NEW r \in Requests, Change(r)
      PROVE  job'[q] = job[q] \/ job'[q].op \notin {"refused", "enroll"}
  <2>1. CASE SaveProfile(r) \/ Promote(r) \/ CommitStatus(r)
    BY <2>1, <1>2 DEF SaveProfile, Promote, CommitStatus, Idle
  <2>2. CASE \E i \in Ids : AdminDelete(r, i)
    BY <2>2 DEF AdminDelete
  <2>3. CASE \/ \E i \in Ids : BeginSave(r, i) \/ BeginPromote(r, i)
             \/ \E i \in Ids, new \in Statuses : BeginStatus(r, i, new)
    BY <2>3, <1>4, StartsOfRequests
  <2>4. CASE UpdateStatus(r)
    <3>1. CASE Done(r)
      BY <3>1, <1>2 DEF Idle
    <3>2. CASE ~Done(r)
      <4>1. PICK role : job' = [job EXCEPT ![r].op = "status_saved", ![r].role = role]
        BY <2>4, <3>2 DEF UpdateStatus
      <4>2. job[r] \in [op : {"status", "status_saved"}, id : Ids, row : Profiles,
                        new : {"normal", "expelled", "graduated"},
                        role : {"assign", "revoke", "keep"}]
        BY <2>4 DEF UpdateStatus, TypeOK, JobTypes, Idle
      <4>3. job'[r].op = "status_saved" /\ \A k \in Requests \ {r} : job'[k] = job[k]
        BY <4>1, <4>2 DEF TypeOK
      <4>4. QED
        BY <4>3
    <3>3. QED
      BY <3>1, <3>2
  <2>5. QED
    BY <1>6, <2>1, <2>2, <2>3, <2>4 DEF Change
<1>7. ASSUME NEW r \in Requests, Study(r)
      PROVE  job'[q].op # "refused" /\ (job'[q].op = "enroll" => Welcome(q)')
  <2>1. CASE BeginEnroll(r)
    <3>1. CASE q = r
      <4>1. job'[q].op = "enroll"
        BY <2>1, <3>1, StartsOfRequests, JobSteps
      <4>2. QED
        BY <2>1, <3>1, <4>1, WelcomeAtFirst
    <3>2. CASE q # r
      BY <1>1, <2>1, <3>2, StartsOfRequests, JobSteps
    <3>3. QED
      BY <3>1, <3>2
  <2>2. CASE Enroll(r)
    <3>1. Welcome(r)
      BY <2>2 DEF Enroll, NobodyRefused
    <3>2. Done(r)
      BY <2>2, <3>1, WelcomeFinds
    <3>3. QED
      BY <3>2, <1>1, <1>2, <1>3 DEF Idle
  <2>3. CASE EnrollFails(r)
    BY <2>3, <1>1, <1>2, <1>3 DEF Idle, EnrollFails
  <2>4. CASE Leave(r) \/ SendSolution(r)
    BY <2>4, <1>1 DEF Leave, SendSolution
  <2>5. QED
    BY <1>7, <2>1, <2>2, <2>3, <2>4 DEF Study
<1>8. CASE UNCHANGED job
  BY <1>8, <1>1
<1>9. QED
  BY <1>1, <1>3, <1>5, <1>6, <1>7, <1>8 DEF Next, SetGrade, CloseEnrollment, CompleteCourse, vars


-------------------------------------------------------------------------------
(* Roles follow profiles.                                                  *)

Studied(type) == \E i \in OfType(type) : IsActive(prof[i])

LEMMA RolesAreDistinct ==
  /\ RoleOf("regular") = "STUDENT" /\ RoleOf("invited") = "INVITED"
  /\ RoleOf("alumni") = "ALUMNI"
  /\ \A s, t \in ProfileTypes : RoleOf(s) = RoleOf(t) => s = t
  BY DEF RoleOf, ProfileTypes

LEMMA TypesOfExisting ==
  ASSUME TypeOK
  PROVE  /\ \A i \in Existing : prof[i].type \in ProfileTypes
         /\ \A type, i : i \in OfType(type) <=> i \in Existing /\ prof[i].type = type
  BY ExistingAreTyped, ProfilesHaveTypes DEF OfType

LEMMA StudiedBut ==
  ASSUME TypeOK, NEW i, NEW type
  PROVE  Studied(type) <=> (i \in OfType(type) /\ IsActive(prof[i])) \/ ~NoneActiveBut(i, type)
  BY DEF Studied, NoneActiveBut

(* A row written where there was none, or one of the same type.            *)
LEMMA StudiedAfterWriting ==
  ASSUME TypeOK, NEW i, NEW p, Wrote(i, p), i \in Existing => prof[i].type = p.type
  PROVE  /\ \A type : type # p.type => (Studied(type)' <=> Studied(type))
         /\ Studied(p.type)' <=> IsActive(p) \/ ~NoneActiveBut(i, p.type)
<1>1. /\ Existing' = Existing \union {i} /\ prof'[i] = p
      /\ \A k \in Existing \ {i} : prof'[k] = prof[k]
  BY WritingAdds, ExistingAreTyped
<1>2. ASSUME NEW type, type # p.type
      PROVE  Studied(type)' <=> Studied(type)
  <2>1. OfType(type)' = OfType(type) /\ \A k \in OfType(type) : prof'[k] = prof[k]
    BY <1>1, <1>2 DEF OfType
  <2>2. QED
    BY <2>1 DEF Studied
<1>3. Studied(p.type)' <=> IsActive(p) \/ ~NoneActiveBut(i, p.type)
  <2>1. \A k : k \in OfType(p.type)' <=> k = i \/ k \in OfType(p.type)
    BY <1>1 DEF OfType
  <2>2. \A k \in OfType(p.type) \ {i} : prof'[k] = prof[k]
    BY <1>1 DEF OfType
  <2>3. QED
    BY <1>1, <2>1, <2>2 DEF Studied, NoneActiveBut
<1>4. QED
  BY <1>2, <1>3

LEMMA SameProfilesSameStory ==
  ASSUME UNCHANGED <<prof, roles>>, NEW j
  PROVE  Midway(j)' = Midway(j) /\ AllFollow' = AllFollow
<1>1. Existing' = Existing
  BY DEF Existing
<1>2. \A type : OfType(type)' = OfType(type)
  BY <1>1 DEF OfType
<1>3. \A type : Follows(type)' = Follows(type)
  BY <1>2 DEF Follows
<1>4. AllFollow' = AllFollow
  BY <1>3 DEF AllFollow
<1>5. \A type, i, old, new : RoleChange(type, i, old, new)' = RoleChange(type, i, old, new)
  BY <1>2 DEF RoleChange, NoneActiveBut
<1>6. Registering(j)' = Registering(j) /\ Inviting(j)' = Inviting(j) /\ Holding(j)' = Holding(j)
  BY <1>1, <1>2, <1>3, <1>4, <1>5 DEF Registering, Inviting, Holding
<1>7. QED
  BY <1>4, <1>6 DEF Midway

(* What the order of the requests says when nothing has overlapped.        *)
InOrder ==
  /\ \A q, r \in Requests : Changing(q) /\ Changing(r) => q = r
  /\ \A r \in Requests : Changing(r) => Midway(job[r])
  /\ (\A r \in Requests : ~Changing(r)) => AllFollow

LEMMA OrderlyMeans == /\ Orderly <=> (~tangled => InOrder)
                      /\ Orderly' <=> (~tangled' => InOrder')
  BY DEF Orderly, InOrder

(* Requests that do not change the profiles.                               *)
LEMMA QuietSteps ==
  ASSUME TypeOK, Orderly, UNCHANGED <<prof, roles, tangled>>,
         \A q \in Requests : job'[q] = job[q] \/ (~Changing(q) /\ ~Changing(q)')
  PROVE  Orderly'
<1> SUFFICES ASSUME ~tangled, InOrder PROVE InOrder'
  BY OrderlyMeans
<1>1. \A q \in Requests : Changing(q)' <=> Changing(q)
  BY DEF Changing
<1>2. ASSUME NEW q \in Requests, Changing(q)'
      PROVE  Midway(job[q])'
  <2>1. job'[q] = job[q] /\ Changing(q)
    BY <1>1, <1>2
  <2>2. PICK j : j = job[q]
    OBVIOUS
  <2>3. Midway(j)
    BY <2>1, <2>2 DEF InOrder
  <2>4. Midway(j)'
    BY <2>3, SameProfilesSameStory
  <2>5. QED
    BY <2>1, <2>2, <2>4
<1>3. AllFollow' = AllFollow
  BY SameProfilesSameStory
<1>4. QED
  BY <1>1, <1>2, <1>3 DEF InOrder

(* A request that changes the profiles begins alone, ...                   *)
LEMMA NobodyElse ==
  ASSUME TypeOK, Orderly, NEW r \in Requests, Counted(r), ~tangled'
  PROVE  /\ ~tangled /\ InOrder
         /\ \A q \in Requests \ {r} : ~Changing(q)
         /\ job[r] = Idle => AllFollow
<1>1. ~tangled /\ ~Tangles(r)
  BY DEF Counted
<1>2. InOrder /\ \A q \in Requests \ {r} : ~Changing(q)
  BY <1>1, OrderlyMeans DEF Tangles, Changing
<1>3. job[r] = Idle => ~Changing(r)
  BY DEF Changing, ChangesProfiles, Idle
<1>4. QED
  BY <1>1, <1>2, <1>3 DEF InOrder

LEMMA AfterTheFirstStep ==
  ASSUME TypeOK, NEW r \in Requests, NEW j, Begin(r, j), ChangesProfiles(j), Midway(j)',
         \A q \in Requests \ {r} : ~Changing(q)
  PROVE  InOrder'
<1>1. job'[r] = j /\ \A q \in Requests \ {r} : job'[q] = job[q]
  BY JobSteps
<1>2. \A q \in Requests : Changing(q)' <=> q = r
  BY <1>1 DEF Changing
<1>3. Midway(job[r])'
  BY <1>1
<1>4. QED
  BY <1>2, <1>3 DEF InOrder

(* ... and one that ends in order leaves the roles in order.               *)
LEMMA AfterTheLastStep ==
  ASSUME TypeOK, NEW r \in Requests, Done(r), InOrder, Changing(r), AllFollow'
  PROVE  InOrder'
<1>1. job'[r] = Idle /\ \A q \in Requests \ {r} : job'[q] = job[q]
  BY JobSteps
<1>2. \A q \in Requests \ {r} : ~Changing(q)
  BY DEF InOrder
<1>3. \A q \in Requests : ~Changing(q)'
  BY <1>1, <1>2 DEF Changing, ChangesProfiles, Idle
<1>4. QED
  BY <1>3 DEF InOrder

LEMMA AfterTheOnlyStep ==
  ASSUME TypeOK, NEW r \in Requests, job[r] = Idle, UNCHANGED job, AllFollow',
         \A q \in Requests \ {r} : ~Changing(q)
  PROVE  InOrder'
<1>1. \A q \in Requests : ~Changing(q)'
  BY DEF Changing, ChangesProfiles, Idle
<1>2. QED
  BY <1>1 DEF InOrder


LEMMA FollowsMeans == /\ \A type : Follows(type) <=> (RoleOf(type) \in roles <=> Studied(type))
                      /\ \A type : Follows(type)' <=> (RoleOf(type) \in roles' <=> Studied(type)')
  BY DEF Follows, Studied

(* The roles follow the profiles after a row is written, if they did for   *)
(* the other types and do for this one.                                    *)
LEMMA FollowsAfterWriting ==
  ASSUME TypeOK, NEW i, NEW p, Wrote(i, p), i \in Existing => prof[i].type = p.type,
         p.type \in ProfileTypes,
         \A type \in ProfileTypes \ {p.type} :
           Follows(type) /\ (RoleOf(type) \in roles' <=> RoleOf(type) \in roles),
         RoleOf(p.type) \in roles' <=> IsActive(p) \/ ~NoneActiveBut(i, p.type)
  PROVE  AllFollow'
<1>1. ASSUME NEW type \in ProfileTypes, type # p.type
      PROVE  Follows(type)'
  BY <1>1, StudiedAfterWriting, FollowsMeans
<1>2. Follows(p.type)'
  BY StudiedAfterWriting, FollowsMeans
<1>3. ASSUME NEW type \in ProfileTypes
      PROVE  Follows(type)'
  BY <1>1, <1>2
<1>4. QED
  BY <1>3 DEF AllFollow

LEMMA RegisterOrderly ==
  ASSUME TypeOK, Orderly, NEW r \in Requests
  PROVE  /\ \A run \in Runs : BeginRegister(r, run) => Orderly'
         /\ Register(r) => Orderly'
<1>1. ASSUME NEW run \in Runs, BeginRegister(r, run), ~tangled'
      PROVE  InOrder'
  <2> DEFINE j == [op |-> "register", id |-> 0, run |-> run]
  <2>1. Begin(r, j) /\ Counted(r) /\ job[r] = Idle
    BY <1>1 DEF BeginRegister, Begin
  <2>2. AllFollow /\ \A q \in Requests \ {r} : ~Changing(q)
    BY <1>1, <2>1, NobodyElse
  <2>3. UNCHANGED prof /\ roles' = roles \union {"STUDENT"}
          /\ \A i \in OfType("regular") : prof[i].run # run
    BY <1>1 DEF BeginRegister
  <2>4. Existing' = Existing
    BY <2>3 DEF Existing
  <2>5. \A type : OfType(type)' = OfType(type)
    BY <2>3, <2>4 DEF OfType
  <2>6. Follows("invited")' /\ Follows("alumni")'
    <3>1. Follows("invited") /\ Follows("alumni")
      BY <2>2 DEF AllFollow, ProfileTypes
    <3>2. \A type : Studied(type)' <=> Studied(type)
      BY <2>3, <2>5 DEF Studied
    <3>3. QED
      BY <2>3, <3>1, <3>2, FollowsMeans, RolesAreDistinct
  <2>7. Registering(j)'
    BY <2>3, <2>5, <2>6 DEF Registering
  <2>8. Midway(j)' /\ ChangesProfiles(j)
    BY <2>7 DEF Midway, ChangesProfiles
  <2> HIDE DEF j
  <2>9. QED
    BY <2>1, <2>2, <2>8, AfterTheFirstStep
<1>2. ASSUME Register(r), ~tangled'
      PROVE  InOrder'
  <2>1. job[r].op = "register" /\ Done(r) /\ ~tangled /\ roles' = roles
    BY <1>2 DEF Register, Done, Uncounted
  <2>2. Changing(r) /\ InOrder
    BY <2>1, OrderlyMeans DEF Changing, ChangesProfiles
  <2>3. Registering(job[r])
    BY <2>1, <2>2 DEF InOrder, Midway
  <2>4. job[r].run \in Runs /\ job[r].run # NoRun
    BY <2>1, JobsAreTyped, RunsAssumption
  <2> DEFINE p == NewProfile("regular", job[r].run, "normal")
  <2>5. Unique("regular", job[r].run)
    BY <2>3, <2>4 DEF Registering, Unique
  <2>6. PICK i \in NextId : prof' = [prof EXCEPT ![i] = p]
    BY <1>2, <2>5 DEF Register
  <2>7. p \in Profiles /\ p.type = "regular" /\ p.status = "normal"
    BY <2>4, NewProfileIsTyped DEF ProfileTypes
  <2> HIDE DEF p
  <2>8. Wrote(i, p) /\ i \notin Existing /\ IsActive(p)
    BY <2>6, <2>7, NextIdIsFree DEF Wrote, IsActive
  <2>9. \A type \in ProfileTypes \ {"regular"} : Follows(type)
    BY <2>3 DEF Registering, ProfileTypes
  <2>10. RoleOf("regular") \in roles'
    BY <2>1, <2>3, RolesAreDistinct DEF Registering
  <2>11. AllFollow'
    BY <2>1, <2>7, <2>8, <2>9, <2>10, FollowsAfterWriting DEF ProfileTypes
  <2>12. QED
    BY <2>1, <2>2, <2>11, AfterTheLastStep
<1>3. QED
  BY <1>1, <1>2, OrderlyMeans

LEMMA InviteOrderly ==
  ASSUME TypeOK, Orderly, NEW r \in Requests
  PROVE  /\ AcceptInvitation(r) => Orderly'
         /\ BeginInvite(r) => Orderly'
         /\ Invite(r) => Orderly'
<1>1. ASSUME AcceptInvitation(r)
      PROVE  Orderly'
  BY <1>1, QuietSteps DEF AcceptInvitation
<1>2. ASSUME BeginInvite(r), ~tangled'
      PROVE  InOrder'
  <2> DEFINE p == NewProfile("invited", NoRun, "normal")
  <2>1. PICK i \in NextId : prof' = [prof EXCEPT ![i] = p]
                              /\ Begin(r, [op |-> "invite", id |-> i])
    BY <1>2 DEF BeginInvite
  <2> DEFINE j == [op |-> "invite", id |-> i]
  <2>2. p \in Profiles /\ p.type = "invited" /\ p.status = "normal"
    BY NewProfileIsTyped DEF ProfileTypes
  <2> HIDE DEF p
  <2>3. Wrote(i, p) /\ i \notin Existing /\ IsActive(p) /\ i \in Ids
    BY <2>1, <2>2, NextIdIsFree DEF Wrote, IsActive
  <2>4. Begin(r, j) /\ Counted(r) /\ job[r] = Idle /\ roles' = roles
    BY <1>2, <2>1 DEF BeginInvite, Begin
  <2>5. AllFollow /\ \A q \in Requests \ {r} : ~Changing(q)
    BY <1>2, <2>4, NobodyElse
  <2>6. Follows("regular")' /\ Follows("alumni")'
    <3>1. Follows("regular") /\ Follows("alumni")
      BY <2>5 DEF AllFollow, ProfileTypes
    <3>2. QED
      BY <2>2, <2>3, <2>4, <3>1, StudiedAfterWriting, FollowsMeans
  <2>7. i \in OfType("invited")' /\ prof'[i] = p
    BY <2>2, <2>3, WritingAdds DEF OfType
  <2>8. Inviting(j)'
    BY <2>3, <2>6, <2>7 DEF Inviting, IsActive
  <2>9. Midway(j)' /\ ChangesProfiles(j)
    BY <2>8 DEF Midway, ChangesProfiles
  <2> HIDE DEF j
  <2>10. QED
    BY <2>4, <2>5, <2>9, AfterTheFirstStep
<1>3. ASSUME Invite(r), ~tangled'
      PROVE  InOrder'
  <2>1. job[r].op = "invite" /\ Done(r) /\ ~tangled
    BY <1>3 DEF Invite, Done, Uncounted
  <2>2. UNCHANGED prof /\ roles' = roles \union {"INVITED"}
    BY <1>3 DEF Invite
  <2>3. Changing(r) /\ InOrder
    BY <2>1, OrderlyMeans DEF Changing, ChangesProfiles
  <2>4. Inviting(job[r])
    BY <2>1, <2>3 DEF InOrder, Midway
  <2>5. Existing' = Existing
    BY <2>2 DEF Existing
  <2>6. \A type : OfType(type)' = OfType(type)
    BY <2>2, <2>5 DEF OfType
  <2>7. \A type : Studied(type)' <=> Studied(type)
    BY <2>2, <2>6 DEF Studied
  <2>8. Studied("invited")
    BY <2>4 DEF Inviting, Studied
  <2>9. Follows("invited")'
    BY <2>2, <2>7, <2>8, FollowsMeans, RolesAreDistinct
  <2>10. Follows("regular")' /\ Follows("alumni")'
    BY <2>2, <2>4, <2>7, FollowsMeans, RolesAreDistinct DEF Inviting
  <2>11. AllFollow'
    BY <2>9, <2>10 DEF AllFollow, ProfileTypes
  <2>12. QED
    BY <2>1, <2>3, <2>11, AfterTheLastStep
<1>4. QED
  BY <1>1, <1>2, <1>3, OrderlyMeans

LEMMA AdminCreateOrderly ==
  ASSUME TypeOK, Orderly, NEW r \in Requests, NEW type \in ProfileTypes,
         NEW run \in Runs \union {NoRun}, NEW status \in Statuses,
         AdminCreate(r, type, run, status)
  PROVE  Orderly'
<1> SUFFICES ASSUME ~tangled' PROVE InOrder'
  BY OrderlyMeans
<1> DEFINE p == NewProfile(type, run, status)
<1>1. PICK i \in NextId : Wrote(i, p)
  BY AdminCreateTyped
<1>2. i \notin Existing /\ p.type = type /\ p.status = status
  BY NextIdIsFree DEF NewProfile
<1> HIDE DEF p
<1>3. job[r] = Idle /\ UNCHANGED job /\ Counted(r)
  BY DEF AdminCreate
<1>4. AllFollow /\ \A q \in Requests \ {r} : ~Changing(q)
  BY <1>3, NobodyElse
<1>5. IsActive(p) <=> status # "expelled"
  BY <1>2 DEF IsActive
<1>6. roles' = IF IsActive(p) THEN roles \union {RoleOf(type)} ELSE roles
  BY <1>5 DEF AdminCreate
<1>7. \A other \in ProfileTypes \ {type} :
        Follows(other) /\ (RoleOf(other) \in roles' <=> RoleOf(other) \in roles)
  BY <1>4, <1>6, RolesAreDistinct DEF AllFollow
<1>8. RoleOf(type) \in roles' <=> IsActive(p) \/ ~NoneActiveBut(i, type)
  <2>1. RoleOf(type) \in roles <=> ~NoneActiveBut(i, type)
    BY <1>2, <1>4, FollowsMeans, StudiedBut DEF AllFollow, OfType
  <2>2. QED
    BY <1>6, <2>1
<1>9. AllFollow'
  BY <1>1, <1>2, <1>7, <1>8, FollowsAfterWriting
<1>10. QED
  BY <1>3, <1>4, <1>9, AfterTheOnlyStep


LEMMA BeginChangeOrderly ==
  ASSUME TypeOK, Orderly, NEW r \in Requests, NEW i \in Ids
  PROVE  /\ BeginSave(r, i) => Orderly'
         /\ BeginPromote(r, i) => Orderly'
         /\ \A new \in Statuses : BeginStatus(r, i, new) => Orderly'
<1>1. ASSUME NEW j, Begin(r, j), Counted(r), UNCHANGED <<account, course>>, ~tangled',
             j.op \in {"save", "promote", "status"}, j.id \in Existing, j.row = prof[j.id],
             j.op = "promote" => j.row.type = "regular" /\ j.row.status = "normal"
      PROVE  InOrder'
  <2>1. job[r] = Idle
    BY <1>1 DEF Begin
  <2>2. AllFollow /\ \A q \in Requests \ {r} : ~Changing(q)
    BY <1>1, <2>1, NobodyElse
  <2>3. Midway(j)
    BY <1>1, <2>2 DEF Midway, Holding
  <2>4. UNCHANGED <<prof, roles>>
    BY <1>1 DEF account
  <2>5. Midway(j)' /\ ChangesProfiles(j)
    BY <1>1, <2>3, <2>4, SameProfilesSameStory DEF ChangesProfiles
  <2>6. QED
    BY <1>1, <2>2, <2>5, AfterTheFirstStep
<1>2. ASSUME BeginSave(r, i), ~tangled'
      PROVE  InOrder'
  <2> DEFINE j == [op |-> "save", id |-> i, row |-> prof[i]]
  <2>1. Begin(r, j) /\ j.op = "save" /\ j.id \in Existing /\ j.row = prof[j.id]
    BY <1>2 DEF BeginSave
  <2> HIDE DEF j
  <2>2. QED
    BY <1>1, <1>2, <2>1 DEF BeginSave
<1>3. ASSUME BeginPromote(r, i), ~tangled'
      PROVE  InOrder'
  <2> DEFINE j == [op |-> "promote", id |-> i, row |-> prof[i]]
  <2>1. /\ Begin(r, j) /\ j.op = "promote" /\ j.id \in Existing /\ j.row = prof[j.id]
        /\ j.row.type = "regular" /\ j.row.status = "normal"
    BY <1>3 DEF BeginPromote, OfType
  <2> HIDE DEF j
  <2>2. QED
    BY <1>1, <1>3, <2>1 DEF BeginPromote
<1>4. ASSUME NEW new \in Statuses, BeginStatus(r, i, new), ~tangled'
      PROVE  InOrder'
  <2> DEFINE j == [op |-> "status", id |-> i, row |-> prof[i], new |-> new, role |-> "keep"]
  <2>1. Begin(r, j) /\ j.op = "status" /\ j.id \in Existing /\ j.row = prof[j.id]
    BY <1>4 DEF BeginStatus
  <2> HIDE DEF j
  <2>2. QED
    BY <1>1, <1>4, <2>1 DEF BeginStatus
<1>5. QED
  BY <1>2, <1>3, <1>4, OrderlyMeans

(* The request that changes profiles holds the row as it is.               *)
LEMMA HolderIsUpToDate ==
  ASSUME TypeOK, InOrder, NEW r \in Requests, HasRow(r)
  PROVE  /\ Changing(r) /\ Holding(job[r]) /\ AllFollow
         /\ job[r].id \in Existing /\ prof[job[r].id] = job[r].row
         /\ job[r].row.type \in ProfileTypes
<1>1. Changing(r) /\ job[r].op \notin {"register", "invite"}
  BY DEF HasRow, Changing, ChangesProfiles
<1>2. Holding(job[r])
  BY <1>1 DEF InOrder, Midway
<1>3. job[r].row.type \in ProfileTypes
  BY JobsAreTyped, ProfilesHaveTypes DEF HasRow
<1>4. QED
  BY <1>1, <1>2, <1>3 DEF Holding

LEMMA SaveOrderly ==
  ASSUME TypeOK, Orderly, NEW r \in Requests, SaveProfile(r)
  PROVE  Orderly'
<1> SUFFICES ASSUME ~tangled' PROVE InOrder'
  BY OrderlyMeans
<1>1. Done(r) /\ ~tangled /\ roles' = roles
  BY DEF SaveProfile, Done, Uncounted
<1>2. InOrder /\ HasRow(r)
  BY <1>1, SaveWrites, OrderlyMeans
<1> DEFINE p == Saved(job[r].row)
<1>3. Wrote(job[r].id, p) /\ Rewritten(job[r].row, p, job[r].row.status)
  BY <1>2, SaveWrites, HeldRowIsTyped
<1> HIDE DEF p
<1>4. /\ Changing(r) /\ AllFollow /\ job[r].id \in OfType(p.type)
      /\ p.type = prof[job[r].id].type /\ p.type \in ProfileTypes
      /\ IsActive(p) <=> IsActive(prof[job[r].id])
  BY <1>2, <1>3, HolderIsUpToDate DEF Rewritten, IsActive, OfType
<1>5. RoleOf(p.type) \in roles' <=> IsActive(p) \/ ~NoneActiveBut(job[r].id, p.type)
  BY <1>1, <1>4, StudiedBut, FollowsMeans DEF AllFollow
<1>6. AllFollow'
  BY <1>1, <1>3, <1>4, <1>5, FollowsAfterWriting DEF AllFollow
<1>7. QED
  BY <1>1, <1>2, <1>4, <1>6, AfterTheLastStep

LEMMA CommitOrderly ==
  ASSUME TypeOK, Orderly, NEW r \in Requests, CommitStatus(r)
  PROVE  Orderly'
<1> SUFFICES ASSUME ~tangled' PROVE InOrder'
  BY OrderlyMeans
<1>1. Done(r) /\ ~tangled /\ job[r].op = "status_saved"
  BY DEF CommitStatus, Done, Uncounted
<1>2. InOrder /\ HasRow(r)
  BY <1>1, CommitWrites, OrderlyMeans
<1> DEFINE p == Saved([job[r].row EXCEPT !.status = job[r].new])
           role == RoleChange(job[r].row.type, job[r].id, job[r].row.status, job[r].new)
<1>3. Wrote(job[r].id, p) /\ Rewritten(job[r].row, p, job[r].new)
  BY <1>1, <1>2, CommitWrites, HeldRowIsTyped
<1> HIDE DEF p
<1>4. Holding(job[r]) /\ job[r].id \in Existing /\ prof[job[r].id] = job[r].row
        /\ job[r].row.type \in ProfileTypes /\ AllFollow
  BY <1>2, HolderIsUpToDate
<1>5. /\ Changing(r) /\ job[r].id \in OfType(p.type)
      /\ p.type = job[r].row.type /\ p.type \in ProfileTypes
      /\ IsActive(p) <=> job[r].new # "expelled"
      /\ IsActive(prof[job[r].id]) <=> job[r].row.status # "expelled"
  BY <1>2, <1>3, <1>4, HolderIsUpToDate DEF Rewritten, IsActive, OfType
<1>6. job[r].role = role
  BY <1>1, <1>4 DEF Holding
<1>7. roles' = CASE role = "assign" -> roles \union {RoleOf(p.type)}
                 [] role = "revoke" -> roles \ {RoleOf(p.type)}
                 [] OTHER -> roles
  BY <1>5, <1>6 DEF CommitStatus
<1>8. RoleOf(p.type) \in roles <=>
        job[r].row.status # "expelled" \/ ~NoneActiveBut(job[r].id, p.type)
  BY <1>4, <1>5, StudiedBut, FollowsMeans DEF AllFollow
<1>9. RoleOf(p.type) \in roles' <=> IsActive(p) \/ ~NoneActiveBut(job[r].id, p.type)
  BY <1>5, <1>7, <1>8 DEF RoleChange
<1> HIDE DEF role
<1>10. \A other \in ProfileTypes \ {p.type} :
         Follows(other) /\ (RoleOf(other) \in roles' <=> RoleOf(other) \in roles)
  BY <1>4, <1>5, <1>7, RolesAreDistinct DEF AllFollow
<1>11. AllFollow'
  BY <1>3, <1>4, <1>5, <1>9, <1>10, FollowsAfterWriting
<1>12. QED
  BY <1>1, <1>2, <1>5, <1>11, AfterTheLastStep

LEMMA PromoteOrderly ==
  ASSUME TypeOK, Orderly, NEW r \in Requests, Promote(r)
  PROVE  Orderly'
<1> SUFFICES ASSUME ~tangled' PROVE InOrder'
  BY OrderlyMeans
<1> DEFINE g == Saved([job[r].row EXCEPT !.status = "graduated"])
           id == job[r].id
<1>1. Done(r) /\ ~tangled /\ job[r].op = "promote" /\ HasRow(r)
  BY PromotionWrites DEF Done, Uncounted
<1>2. InOrder
  BY <1>1, OrderlyMeans
<1>3. /\ Holding(job[r]) /\ Changing(r) /\ AllFollow
      /\ id \in Existing /\ prof[id] = job[r].row
  BY <1>1, <1>2, HolderIsUpToDate
<1>4. /\ prof[id].type = "regular" /\ prof[id].status = "normal"
      /\ id \in OfType("regular") /\ IsActive(prof[id])
  BY <1>1, <1>3 DEF Holding, OfType, IsActive
<1>5. g \in Profiles /\ g.type = "regular" /\ IsActive(g)
  BY <1>1, <1>3, <1>4, HeldRowIsTyped DEF Rewritten, IsActive
<1> HIDE DEF g
<1>6. "STUDENT" \in roles
  BY <1>3, <1>4, StudiedBut, FollowsMeans, RolesAreDistinct DEF AllFollow, ProfileTypes
<1>7. CASE PromotedOnly(r)
  <2>1. Wrote(id, g) /\ roles' = roles
    BY <1>7, PromotedProfiles DEF PromotedOnly, g
  <2>2. RoleOf(g.type) \in roles' <=> IsActive(g) \/ ~NoneActiveBut(id, g.type)
    BY <1>5, <1>6, <2>1, RolesAreDistinct
  <2>3. \A type \in ProfileTypes : Follows(type)
    BY <1>3 DEF AllFollow
  <2>4. AllFollow'
    BY <1>4, <1>5, <2>1, <2>2, <2>3, FollowsAfterWriting DEF ProfileTypes
  <2>5. QED
    BY <1>1, <1>2, <1>3, <2>4, AfterTheLastStep
<1>8. ASSUME NEW i \in NextId, PromotedTo(r, i)
      PROVE  InOrder'
  <2> DEFINE a == NewProfile("alumni", NoRun, "normal")
  <2>1. /\ i # id /\ i \in Ids /\ i \notin Existing
        /\ Existing' = Existing \union {id, i}
        /\ prof'[id] = g /\ prof'[i] = a
        /\ \A k \in Existing \ {id} : prof'[k] = prof[k]
    BY <1>8, PromotedProfiles, NextIdIsFree, ExistingAreTyped DEF g
  <2>2. a.type = "alumni" /\ IsActive(a)
    BY DEF NewProfile, IsActive
  <2> HIDE DEF a
  <2>3. roles' = roles \union {"ALUMNI"}
    BY <1>8 DEF PromotedTo
  <2>4. Studied("regular")'
    BY <1>5, <2>1 DEF Studied, OfType
  <2>5. Studied("alumni")'
    BY <2>1, <2>2 DEF Studied, OfType
  <2>6. Studied("invited")' <=> Studied("invited")
    <3>1. OfType("invited")' = OfType("invited")
      BY <1>3, <1>4, <1>5, <2>1, <2>2 DEF OfType
    <3>2. \A k \in OfType("invited") : prof'[k] = prof[k]
      BY <1>4, <2>1 DEF OfType
    <3>3. QED
      BY <3>1, <3>2 DEF Studied
  <2>7. Follows("regular")' /\ Follows("alumni")' /\ Follows("invited")'
    <3>1. Follows("invited")
      BY <1>3 DEF AllFollow, ProfileTypes
    <3>2. QED
      BY <1>6, <2>3, <2>4, <2>5, <2>6, <3>1, FollowsMeans, RolesAreDistinct
  <2>8. AllFollow'
    BY <2>7 DEF AllFollow, ProfileTypes
  <2>9. QED
    BY <1>1, <1>2, <1>3, <2>8, AfterTheLastStep
<1>9. QED
  BY <1>7, <1>8, PromotionWrites

LEMMA UpdateOrderly ==
  ASSUME TypeOK, Orderly, NEW r \in Requests, UpdateStatus(r)
  PROVE  Orderly'
<1> SUFFICES ASSUME ~tangled' PROVE InOrder'
  BY OrderlyMeans
<1>1. job[r].op = "status" /\ HasRow(r) /\ UNCHANGED <<prof, roles>>
  BY DEF UpdateStatus, account, HasRow
<1>2. ~tangled
  BY DEF UpdateStatus, Done, Uncounted
<1>3. InOrder
  BY <1>2, OrderlyMeans
<1>4. /\ Changing(r) /\ Holding(job[r]) /\ AllFollow
      /\ job[r].id \in Existing /\ prof[job[r].id] = job[r].row
  BY <1>1, <1>3, HolderIsUpToDate
<1>5. job[r] \in [op : {"status", "status_saved"}, id : Ids, row : Profiles,
                  new : {"normal", "expelled", "graduated"},
                  role : {"assign", "revoke", "keep"}]
  BY <1>1 DEF TypeOK, JobTypes, Idle
<1>6. PICK role : /\ role = RoleChange(job[r].row.type, job[r].id, job[r].row.status, job[r].new)
                  /\ job' = [job EXCEPT ![r].op = "status_saved", ![r].role = role]
  BY <1>4 DEF UpdateStatus
<1>7. PICK j : j = [job[r] EXCEPT !.op = "status_saved", !.role = role]
  OBVIOUS
<1>8. /\ j.op = "status_saved" /\ j.id = job[r].id /\ j.row = job[r].row
      /\ j.new = job[r].new /\ j.role = role
  BY <1>5, <1>7
<1>9. job'[r] = j /\ \A q \in Requests \ {r} : job'[q] = job[q]
  BY <1>6, <1>7 DEF TypeOK
<1>10. Midway(j)
  BY <1>4, <1>6, <1>8 DEF Midway, Holding
<1>11. Midway(j)'
  BY <1>1, <1>10, SameProfilesSameStory
<1>12. \A q \in Requests \ {r} : ~Changing(q)
  BY <1>3, <1>4 DEF InOrder
<1>13. \A q \in Requests : Changing(q)' <=> q = r
  BY <1>8, <1>9, <1>12 DEF Changing, ChangesProfiles
<1>14. Midway(job[r])'
  BY <1>9, <1>11
<1>15. QED
  BY <1>13, <1>14 DEF InOrder

LEMMA DeleteOrderly ==
  ASSUME TypeOK, Orderly, NEW r \in Requests, NEW i \in Ids, AdminDelete(r, i)
  PROVE  Orderly'
<1> SUFFICES ASSUME ~tangled' PROVE InOrder'
  BY OrderlyMeans
<1>1. job[r] = Idle /\ UNCHANGED job /\ Counted(r)
  BY DEF AdminDelete
<1>2. AllFollow /\ \A q \in Requests \ {r} : ~Changing(q)
  BY <1>1, NobodyElse
<1>3. /\ i \in Existing /\ Existing' = Existing \ {i}
      /\ \A k \in Existing \ {i} : prof'[k] = prof[k]
  BY DeleteRemoves, ExistingAreTyped
<1>4. roles' = IF NoneActiveBut(i, prof[i].type) THEN roles \ {RoleOf(prof[i].type)} ELSE roles
  BY DEF AdminDelete
<1>5. \A type : OfType(type)' = OfType(type) \ {i}
  BY <1>3 DEF OfType
<1>6. \A type : Studied(type)' <=> ~NoneActiveBut(i, type)
  BY <1>3, <1>5 DEF Studied, NoneActiveBut, OfType
<1>7. prof[i].type \in ProfileTypes
  BY <1>3, TypesOfExisting
<1>8. ASSUME NEW type \in ProfileTypes
      PROVE  Follows(type)'
  <2>1. RoleOf(type) \in roles <=> Studied(type)
    BY <1>2, FollowsMeans DEF AllFollow
  <2>2. CASE type = prof[i].type
    <3>1. ~NoneActiveBut(i, type) => Studied(type)
      BY StudiedBut
    <3>2. QED
      BY <1>4, <1>6, <2>1, <2>2, <3>1, FollowsMeans
  <2>3. CASE type # prof[i].type
    <3>1. Studied(type) <=> ~NoneActiveBut(i, type)
      BY <2>3, StudiedBut, TypesOfExisting
    <3>2. RoleOf(type) # RoleOf(prof[i].type)
      BY <1>7, <2>3, RolesAreDistinct
    <3>3. QED
      BY <1>4, <1>6, <2>1, <3>1, <3>2, FollowsMeans
  <2>4. QED
    BY <2>2, <2>3
<1>9. AllFollow'
  BY <1>8 DEF AllFollow
<1>10. QED
  BY <1>1, <1>2, <1>9, AfterTheOnlyStep


LEMMA StudyOrderly ==
  ASSUME TypeOK, Orderly, NEW r \in Requests, Study(r)
  PROVE  Orderly'
<1>1. CASE BeginEnroll(r)
  <2> DEFINE j == [op |-> "enroll", id |-> MainProfile, invitation |-> ByInvitation(MainProfile)]
  <2>1. job[r] = Idle /\ job'[r].op = "enroll" /\ \A q \in Requests \ {r} : job'[q] = job[q]
    BY <1>1, StartsOfRequests, JobSteps
  <2>2. UNCHANGED <<prof, roles, tangled>>
    BY <1>1 DEF BeginEnroll, account, Uncounted
  <2>3. QED
    BY <2>1, <2>2, QuietSteps DEF Changing, ChangesProfiles, Idle
<1>2. CASE Enroll(r)
  <2>1. job[r].op = "enroll" /\ UNCHANGED <<prof, roles, tangled>>
    BY <1>2 DEF Enroll, account, Done, Uncounted
  <2>2. job'[r].op \in {"idle", "refused"} /\ \A q \in Requests \ {r} : job'[q] = job[q]
    <3>1. CASE Done(r)
      BY <3>1, JobSteps DEF Idle
    <3>2. CASE ~Done(r)
      <4>1. job' = [job EXCEPT ![r].op = "refused"]
        BY <1>2, <3>2 DEF Enroll
      <4>2. job[r] \in [op : {"enroll", "refused"}, id : Ids, invitation : BOOLEAN]
        BY <2>1 DEF TypeOK, JobTypes, Idle
      <4>3. QED
        BY <4>1, <4>2 DEF TypeOK
    <3>3. QED
      BY <3>1, <3>2
  <2>3. QED
    BY <2>1, <2>2, QuietSteps DEF Changing, ChangesProfiles
<1>3. CASE EnrollFails(r)
  <2>1. job[r].op = "enroll" /\ Done(r) /\ UNCHANGED <<prof, roles, tangled>>
    BY <1>3 DEF EnrollFails, account, Done, Uncounted
  <2>2. job'[r] = Idle /\ \A q \in Requests \ {r} : job'[q] = job[q]
    BY <2>1, JobSteps
  <2>3. QED
    BY <2>1, <2>2, QuietSteps DEF Changing, ChangesProfiles, Idle
<1>4. CASE Leave(r) \/ SendSolution(r)
  <2>1. UNCHANGED <<prof, roles, job, tangled>>
    BY <1>4, InCourseLeavesAccount DEF InCourse
  <2>2. QED
    BY <2>1, QuietSteps
<1>5. QED
  BY <1>1, <1>2, <1>3, <1>4 DEF Study

LEMMA NextOrderly ==
  ASSUME TypeOK, Orderly, [Next]_vars
  PROVE  Orderly'
<1>1. ASSUME NEW r \in Requests, Create(r)
      PROVE  Orderly'
  BY <1>1, RegisterOrderly, InviteOrderly, AdminCreateOrderly DEF Create
<1>2. ASSUME NEW r \in Requests, Change(r)
      PROVE  Orderly'
  BY <1>2, BeginChangeOrderly, SaveOrderly, PromoteOrderly, UpdateOrderly, CommitOrderly,
     DeleteOrderly DEF Change
<1>3. ASSUME UNCHANGED <<prof, roles, job, tangled>>
      PROVE  Orderly'
  BY <1>3, QuietSteps
<1>4. CASE \/ UNCHANGED vars \/ CompleteCourse \/ (\E g \in Grades : SetGrade(g))
           \/ (\E b \in Bindings : CloseEnrollment(b))
  BY <1>3, <1>4, InCourseLeavesAccount DEF InCourse, vars
<1>5. QED
  BY <1>1, <1>2, <1>4, StudyOrderly DEF Next

-------------------------------------------------------------------------------
(* The inductive invariant.                                                *)

LEMMA InitOrderly == Init => Prioritized /\ Agreed /\ NobodyRefused /\ Orderly
<1> SUFFICES ASSUME Init PROVE Prioritized /\ Agreed /\ NobodyRefused /\ Orderly
  OBVIOUS
<1>1. TypeOK /\ \A r \in Requests : job[r].op = "idle" /\ ~HasRow(r) /\ ~Changing(r)
  BY InitTyped DEF Init, Idle, HasRow, Changing, ChangesProfiles
<1>2. NobodyRefused
  BY <1>1 DEF NobodyRefused
<1>3. Agreed
  BY <1>1 DEF Agreed, Known, Alike
<1>4. CASE prof = [i \in Ids |-> NoProfile] /\ roles = {}
  <2>1. Existing = {}
    BY <1>4 DEF Existing
  <2>2. Prioritized
    BY <2>1 DEF Prioritized
  <2>3. AllFollow
    BY <1>4, <2>1 DEF AllFollow, Follows, OfType
  <2>4. Orderly
    BY <1>1, <2>3 DEF Orderly
  <2>5. QED
    BY <1>2, <1>3, <2>2, <2>4
<1>5. ASSUME NEW run \in Runs,
             prof = [i \in Ids |-> IF i = 1 THEN NewProfile("regular", run, "normal")
                                            ELSE NoProfile],
             roles = {"STUDENT"}
      PROVE  Prioritized /\ Orderly
  <2> DEFINE p == NewProfile("regular", run, "normal")
  <2>1. /\ p \in Profiles /\ p.type = "regular" /\ p.status = "normal"
        /\ p.priority = ProfilePriority(p.type, p.status)
    BY NewProfileIsTyped, RunsAssumption DEF ProfileTypes
  <2> HIDE DEF p
  <2>2. \A i \in Existing : i = 1 /\ prof[i] = p
    BY <1>5 DEF Existing, p
  <2>3. Prioritized
    BY <2>1, <2>2 DEF Prioritized
  <2>4. Orderly
    <3>1. 1 \in Ids
      BY MaxProfilesAssumption DEF Ids
    <3>2. 1 \in Existing /\ prof[1] = p
      BY <1>5, <2>1, <3>1, ProfilesHaveTypes DEF Existing, p
    <3>3. /\ Studied("regular")
          /\ \A type : type # "regular" => ~Studied(type)
      BY <2>1, <2>2, <3>2 DEF Studied, OfType, IsActive
    <3>4. AllFollow
      BY <1>5, <3>3, FollowsMeans, RolesAreDistinct DEF AllFollow, ProfileTypes
    <3>5. QED
      BY <1>1, <3>4 DEF Orderly
  <2>5. QED
    BY <2>3, <2>4
<1>6. QED
  BY <1>2, <1>3, <1>4, <1>5 DEF Init


LEMMA Invariance == Spec => []IInv
<1>1. Init => IInv
  BY InitTyped, InitOrderly DEF IInv
<1>2. IInv /\ [Next]_vars => IInv'
  BY NextTyped, NextPrioritized, NextAgreed, NextNobodyRefused, NextOrderly DEF IInv
<1>3. QED
  BY <1>1, <1>2, PTL DEF Spec

(* Nobody whom the enroll button was offered to gets the ValidationError   *)
(* nobody catches, whatever is deleted, restored or promoted between the   *)
(* check of the permission and EnrollmentService.enroll, and though the    *)
(* two look for the binding in different ways.                             *)
THEOREM PermissionIsKept == Spec => []PermittedIsAccepted
<1>1. IInv => PermittedIsAccepted
  BY DEF IInv, NobodyRefused, PermittedIsAccepted
<1>2. QED
  BY <1>1, Invariance, PTL

(* With the priority column in step with the status, get_student_profile   *)
(* answers with a profile of a student who studies as long as there is     *)
(* one, and with a regular one before a guest's.                           *)
LEMMA FirstStudies ==
  ASSUME TypeOK, Prioritized
  PROVE  MainProfileStudies
<1>1. ASSUME NEW i \in Existing
      PROVE  /\ MainProfile \in Existing
             /\ prof[MainProfile].priority <= prof[i].priority
  <2>1. MainProfile \in Existing /\ (i = MainProfile \/ Before(MainProfile, i))
    BY MainIsFirst
  <2>2. prof[MainProfile].priority \in Nat /\ prof[i].priority \in Nat
    BY <2>1, ExistingAreTyped, ProfilesHaveTypes
  <2>3. QED
    BY <2>1, <2>2 DEF Before
<1>2. ASSUME NEW i \in Existing
      PROVE  /\ prof[i].priority = ProfilePriority(prof[i].type, prof[i].status)
             /\ prof[i].type \in ProfileTypes
             /\ prof[i].status \in {"normal", "expelled", "graduated"}
  BY ExistingAreTyped, ProfilesHaveTypes DEF Prioritized
<1>3. ASSUME NEW i \in Existing, prof[i].status = "normal"
      PROVE  prof[MainProfile].status = "normal"
  <2>1. prof[i].priority \in {200, 1000}
    BY <1>2, <1>3 DEF ProfilePriority
  <2>2. prof[MainProfile].priority <= 1000
    BY <1>1, <2>1, ExistingAreTyped, ProfilesHaveTypes
  <2>3. QED
    BY <1>1, <1>2, <2>2 DEF ProfilePriority
<1>4. ASSUME NEW i \in OfType("regular"), prof[i].status = "normal"
      PROVE  prof[MainProfile].type = "regular"
  <2>1. i \in Existing /\ prof[i].priority = 200
    BY <1>2, <1>4 DEF OfType, ProfilePriority
  <2>2. prof[MainProfile].priority <= 200
    BY <1>1, <2>1
  <2>3. QED
    BY <1>1, <1>2, <2>1, <2>2 DEF ProfilePriority
<1>5. QED
  BY <1>3, <1>4 DEF MainProfileStudies

(* MainProfileStudies in every state.                                      *)
THEOREM StudiesFirst == Spec => []MainProfileStudies
<1>1. IInv => MainProfileStudies
  BY FirstStudies DEF IInv
<1>2. QED
  BY <1>1, Invariance, PTL

LEMMA RolesInOrder ==
  ASSUME Orderly
  PROVE  RolesFollowProfiles
<1> SUFFICES ASSUME NothingOverlapped PROVE AllFollow
  BY DEF RolesFollowProfiles, AllFollow, Follows
<1>1. QED
  BY DEF NothingOverlapped, Orderly, Changing

(* Without overlapping requests the roles of an account are those of its   *)
(* profiles that are not expelled, after any number of applications,       *)
(* invitations, promotions, changes of status and deletions.               *)
THEOREM RolesAreEarned == Spec => []RolesFollowProfiles
<1>1. IInv => RolesFollowProfiles
  BY RolesInOrder DEF IInv
<1>2. QED
  BY <1>1, Invariance, PTL


-------------------------------------------------------------------------------
(* The course page.                                                        *)

Participants == StudentRoles \union {"CURATOR", "TEACHER"}

LEMMA WhoSeesCourses ==
  /\ \A r \in Participants : "ViewCourse" \in Granted[r]
  /\ Participants \subseteq AllRoles
  BY RolesOfTables DEF Participants, StudentRoles, CuratorPermissions, TeacherPermissions,
     CommonStudentPermissions, AllRoles

LEMMA WhoMayView ==
  ASSUME NEW s
  PROVE  CanViewCourse(s) <=>
           s.curator \/ Teaches(s) \/ enr.active \/ CanEnrollOrLeave(MainProfile)
<1>1. CanViewCourse(s) <=> CourseRole(s) \notin {"NO_ROLE"}
  BY DEF CanViewCourse, CourseRole
<1>2. CourseRole(s) = "NO_ROLE" <=>
        ~s.curator /\ ~Teaches(s) /\ ~enr.active /\ ~CanEnrollOrLeave(MainProfile)
  BY DEF CourseRole, RegularAccess
<1>3. QED
  BY <1>1, <1>2

(* ViewCourse is given by the roles alone, no relation implies it.         *)
LEMMA MayViewCourse ==
  ASSUME TypeOK, NEW s, NEW o
  PROVE  MayDo(s, "ViewCourse", o) <=> ViewsCourse(s)
<1> DEFINE p == "ViewCourse"
<1>1. p \notin SharedPermissions
  BY DEF SharedPermissions, TeacherRelations, StudentRelations
<1>2. Rule(s, p, o) <=> CanViewCourse(s)
  BY DEF Rule, CoursePermissions, LearningPermissions, WorkPermissions, GroupPermissions,
         UserPermissions, CourseRule
<1>3. \A r \in Held(s) : Related(r, p) = {}
  BY <1>1, NotRelated
<1> HIDE DEF p
<1>4. MayDo(s, p, o) <=> \E r \in Held(s) : p \in Granted[r] /\ Rule(s, p, o)
  BY <1>3, AllowsMeans, HeldAre DEF MayDo
<1>5. QED
  BY <1>2, <1>4 DEF ViewsCourse, p

(* What the rules of the page's permissions ask for.                       *)
LEMMA RulesOfThePage ==
  ASSUME NEW s, NEW o
  PROVE  /\ Rule(s, "EnrollInCourse", o) => CanEnrollOrLeave(MainProfile)
         /\ Rule(s, "LeaveCourse", o) => enr.active
         /\ Rule(s, "ViewCourseNews", o) => CanViewCourse(s)
         /\ \A q \in {"ViewCourseContactsAsTeacher", "ViewCourseInternalDescriptionAsTeacher",
                      "ViewStudentGroupAsTeacher", "CreateOwnAssignment", "EditOwnCourse"} :
              Rule(s, q, o) => Teaches(s)
         /\ \A q \in {"ViewCourseContactsAsLearner", "ViewCourseInternalDescriptionAsLearner"} :
              Rule(s, q, o) => enr.active
<1> USE DEF Rule, CoursePermissions, LearningPermissions, WorkPermissions, GroupPermissions,
            UserPermissions
<1>1. Rule(s, "EnrollInCourse", o) => CanEnrollOrLeave(MainProfile)
  BY DEF EnrollRule
<1>2. Rule(s, "LeaveCourse", o) => enr.active
  BY DEF LeaveRule
<1>3. Rule(s, "ViewCourseNews", o) => CanViewCourse(s)
  BY DEF LearningRule, CanViewCourse, CourseRole
<1>4. /\ Rule(s, "ViewCourseContactsAsTeacher", o) => Teaches(s)
      /\ Rule(s, "ViewCourseInternalDescriptionAsTeacher", o) => Teaches(s)
      /\ Rule(s, "CreateOwnAssignment", o) => Teaches(s)
      /\ Rule(s, "EditOwnCourse", o) => Teaches(s)
  BY DEF CourseRule, Teaches, IsActualTeacher
<1>5. Rule(s, "ViewStudentGroupAsTeacher", o) => Teaches(s)
  BY DEF GroupRule
<1>6. /\ Rule(s, "ViewCourseContactsAsLearner", o) => enr.active
      /\ Rule(s, "ViewCourseInternalDescriptionAsLearner", o) => enr.active
  BY DEF CourseRule, RegularAccess
<1>7. QED
  BY <1>1, <1>2, <1>3, <1>4, <1>5, <1>6

(* Who is given them.                                                      *)
LEMMA GrantsOfThePage ==
  ASSUME NEW r \in AllRoles, NEW p \in OnCoursePage
  PROVE  /\ p \in Granted[r] =>
              /\ r \in Participants
              /\ r = "CURATOR" \/ p \in {"EnrollInCourse", "LeaveCourse", "ViewCourseNews"}
         /\ \A q \in Related(r, p) :
              /\ r \in Participants
              /\ q \in {"ViewCourseContactsAsTeacher", "ViewCourseInternalDescriptionAsTeacher",
                        "ViewStudentGroupAsTeacher", "CreateOwnAssignment", "EditOwnCourse",
                        "ViewCourseContactsAsLearner", "ViewCourseInternalDescriptionAsLearner"}
<1>1. CASE r = "CURATOR"
  BY <1>1 DEF Related, StudentRoles, Participants
<1>2. CASE r = "TEACHER"
  <2>1. r \in Participants
    BY <1>2 DEF Participants
  <2>2. p \in TeacherPermissions => p = "ViewCourseNews"
    BY DEF TeacherPermissions, OnCoursePage
  <2>3. \A q \in Implied(TeacherRelations, p) :
          q \in {"ViewCourseContactsAsTeacher", "ViewCourseInternalDescriptionAsTeacher",
                 "ViewStudentGroupAsTeacher", "CreateOwnAssignment", "EditOwnCourse"}
    BY DEF Implied, TeacherRelations, OnCoursePage
  <2>4. Related(r, p) = Implied(TeacherRelations, p)
    BY <1>2 DEF Related, StudentRoles
  <2>5. QED
    BY <1>2, <2>1, <2>2, <2>3, <2>4, RolesOfTables
<1>3. CASE r \in StudentRoles
  <2>1. r \in Participants
    BY <1>3 DEF Participants
  <2>2. p \in Granted[r] => p \in {"EnrollInCourse", "LeaveCourse", "ViewCourseNews"}
    BY <1>3, RolesOfTables DEF CommonStudentPermissions, OnCoursePage, StudentRoles
  <2>3. \A q \in Implied(StudentRelations, p) :
          q \in {"ViewCourseContactsAsLearner", "ViewCourseInternalDescriptionAsLearner"}
    BY DEF Implied, StudentRelations, OnCoursePage
  <2>4. Related(r, p) = Implied(StudentRelations, p)
    BY <1>3 DEF Related, StudentRoles
  <2>5. QED
    BY <2>1, <2>2, <2>3, <2>4
<1>4. CASE r \in {"AUTHENTICATED", "ANONYMOUS"}
  <2>1. p \notin Granted[r]
    BY <1>4, RolesOfTables DEF OnCoursePage
  <2>2. Related(r, p) = {}
    BY <1>4 DEF Related, StudentRoles, OnCoursePage
  <2>3. QED
    BY <2>1, <2>2
<1>5. QED
  BY <1>1, <1>2, <1>3, <1>4 DEF AllRoles

LEMMA PageIsReachable ==
  ASSUME TypeOK
  PROVE  CoursePageIsReachable
<1> SUFFICES ASSUME NEW s \in Staff, NEW p \in OnCoursePage, MayDo(s, p, Own)
             PROVE  MayDo(s, "ViewCourse", Own)
  BY DEF CoursePageIsReachable
<1>1. Held(s) \in SUBSET AllRoles /\ Allows(s, Held(s), p, Own)
  BY HeldAre DEF MayDo
<1>2. \/ \E r \in Held(s) : p \in Granted[r] /\ Rule(s, p, Own)
      \/ \E r \in Held(s) : \E q \in Related(r, p) : Rule(s, q, Own)
  BY <1>1, AllowsMeans
<1>3. CASE \E r \in Held(s) : p \in Granted[r] /\ Rule(s, p, Own)
  <2>1. PICK r \in Held(s) : p \in Granted[r] /\ Rule(s, p, Own)
    BY <1>3
  <2>2. r \in Participants
    BY <1>1, <2>1, GrantsOfThePage
  <2>3. CanViewCourse(s)
    <3>1. CASE r = "CURATOR"
      BY <2>1, <3>1, HeldAre, WhoMayView
    <3>2. CASE p \in {"EnrollInCourse", "LeaveCourse", "ViewCourseNews"}
      BY <2>1, <3>2, RulesOfThePage, WhoMayView
    <3>3. QED
      BY <1>1, <2>1, <3>1, <3>2, GrantsOfThePage
  <2>4. QED
    BY <2>1, <2>2, <2>3, WhoSeesCourses, MayViewCourse DEF ViewsCourse
<1>4. CASE \E r \in Held(s) : \E q \in Related(r, p) : Rule(s, q, Own)
  <2>1. PICK r \in Held(s) : \E q \in Related(r, p) : Rule(s, q, Own)
    BY <1>4
  <2>2. r \in Participants
    BY <1>1, <2>1, GrantsOfThePage
  <2>3. CanViewCourse(s)
    BY <1>1, <2>1, GrantsOfThePage, RulesOfThePage, WhoMayView
  <2>4. QED
    BY <2>1, <2>2, <2>3, WhoSeesCourses, MayViewCourse DEF ViewsCourse
<1>5. QED
  BY <1>2, <1>3, <1>4

(* Whoever is offered a button or a tab of the course page may open the    *)
(* page, whatever part the person has in the staff and in the course.      *)
THEOREM PageBeforeItsButtons == Spec => []CoursePageIsReachable
<1>1. IInv => CoursePageIsReachable
  BY PageIsReachable DEF IInv
<1>2. QED
  BY <1>1, Invariance, PTL


(* The materials of a class: what an enrollment gives, a role gives too.   *)
LEMMA MaterialsAreReachable ==
  ASSUME TypeOK, Orderly
  PROVE  MaterialsComeWithThePage
<1> SUFFICES ASSUME NothingOverlapped, NEW s \in Staff, NEW o \in Classes,
                    MayDo(s, "ViewCourseClassMaterials", o)
             PROVE  MayDo(s, "ViewCourse", Own)
  BY DEF MaterialsComeWithThePage
<1>1. MaterialsRule(s, o)
  <2> DEFINE p == "ViewCourseClassMaterials"
  <2>1. p \notin SharedPermissions
    BY DEF SharedPermissions, TeacherRelations, StudentRelations
  <2>2. Rule(s, p, o) <=> MaterialsRule(s, o)
    BY DEF Rule, CoursePermissions, LearningPermissions, WorkPermissions, GroupPermissions,
           UserPermissions
  <2>3. \A r \in Held(s) : Related(r, p) = {}
    BY <2>1, NotRelated
  <2> HIDE DEF p
  <2>4. Rule(s, p, o)
    BY <2>3, AllowsMeans, HeldAre DEF MayDo, p
  <2>5. QED
    BY <2>2, <2>4
<1>2. CASE ViewsCourse(s)
  BY <1>2, MayViewCourse
<1>3. CASE CourseRole(s) \in {"TEACHER", "CURATOR", "STUDENT_REGULAR"}
  <2>1. CanViewCourse(s)
    BY <1>3 DEF CanViewCourse
  <2>2. \E r \in Held(s) : r \in Participants
    <3>1. CASE s.curator
      BY <3>1, HeldAre DEF Participants
    <3>2. CASE Teaches(s)
      BY <3>2, HeldAre DEF Participants, Teaches
    <3>3. CASE ~s.curator /\ ~Teaches(s)
      <4>1. RegularAccess
        BY <1>3, <3>3 DEF CourseRole
      <4>2. enr.active /\ IsActive(prof[enr.profile])
        BY <4>1 DEF RegularAccess
      <4>3. enr.profile \in Existing
        BY <4>2 DEF TypeOK, NoEnrollment
      <4>4. prof[enr.profile].type \in ProfileTypes
        BY <4>3, TypesOfExisting
      <4>5. RoleOf(prof[enr.profile].type) \in roles
        BY <4>2, <4>3, <4>4, RolesInOrder DEF RolesFollowProfiles, OfType
      <4>6. RoleOf(prof[enr.profile].type) \in StudentRoles
        BY <4>4, RolesAreStudents
      <4>7. QED
        BY <4>5, <4>6, HeldAre DEF Participants
    <3>4. QED
      BY <3>1, <3>2, <3>3
  <2>3. QED
    BY <2>1, <2>2, WhoSeesCourses, MayViewCourse DEF ViewsCourse
<1>4. QED
  BY <1>1, <1>2, <1>3 DEF MaterialsRule

(* MaterialsComeWithThePage in every state.                                *)
THEOREM MaterialsAfterThePage == Spec => []MaterialsComeWithThePage
<1>1. IInv => MaterialsComeWithThePage
  BY MaterialsAreReachable DEF IInv
<1>2. QED
  BY <1>1, Invariance, PTL

(* Where a relation of a role implies a permission another role has, the   *)
(* rule of that permission asks for no more.                               *)
LEMMA RelatedRulesAreStronger ==
  ASSUME NEW s, NEW o, NEW r, NEW p \in SharedPermissions, NEW q \in Related(r, p),
         Rule(s, q, o)
  PROVE  Rule(s, p, o)
<1>1. CASE p = "CreateStudentGroup"
  <2>1. q = "CreateStudentGroupAsTeacher"
    BY <1>1 DEF Related, Implied, TeacherRelations, StudentRelations, StudentRoles
  <2>2. o.mode = "manual"
    BY <2>1 DEF Rule, CoursePermissions, LearningPermissions, WorkPermissions,
                GroupPermissions, UserPermissions, GroupRule
  <2>3. QED
    BY <1>1, <2>2 DEF Rule, CoursePermissions, LearningPermissions, WorkPermissions,
                      GroupPermissions, UserPermissions, GroupRule
<1>2. CASE p = "DeleteStudentGroup"
  <2>1. q = "DeleteStudentGroupAsTeacher"
    BY <1>2 DEF Related, Implied, TeacherRelations, StudentRelations, StudentRoles
  <2>2. o.manual
    BY <2>1 DEF Rule, CoursePermissions, LearningPermissions, WorkPermissions,
                GroupPermissions, UserPermissions, GroupRule
  <2>3. QED
    BY <1>2, <2>2 DEF Rule, CoursePermissions, LearningPermissions, WorkPermissions,
                      GroupPermissions, UserPermissions, GroupRule
<1>3. CASE p \notin {"CreateStudentGroup", "DeleteStudentGroup"}
  <2>1. p \notin CoursePermissions /\ p \notin LearningPermissions
    BY <1>3 DEF SharedPermissions, TeacherRelations, StudentRelations, CoursePermissions,
                LearningPermissions
  <2>2. p \notin WorkPermissions /\ p \notin GroupPermissions /\ p \notin UserPermissions
    BY <1>3 DEF SharedPermissions, TeacherRelations, StudentRelations, WorkPermissions,
                GroupPermissions, UserPermissions
  <2>3. p \notin {"ViewCourseClassMaterials", "EnrollInCourse", "LeaveCourse"}
    BY <1>3 DEF SharedPermissions, TeacherRelations, StudentRelations
  <2>4. QED
    BY <2>1, <2>2, <2>3 DEF Rule
<1>4. QED
  BY <1>1, <1>2, <1>3

(* RBACPermissions._has_perm is monotone in the roles it asks, for every   *)
(* permission and object, in every state and whatever part the person has: *)
(* the order of the roles, and that the first one to have a permission     *)
(* decides, never turn a yes into a no, although the code cuts the search  *)
(* short there.                                                            *)
THEOREM MoreRolesAllowMore ==
  ASSUME NEW s, NEW held \in SUBSET AllRoles, NEW asked \in SUBSET held, NEW p, NEW o,
         Allows(s, asked, p, o)
  PROVE  Allows(s, held, p, o)
<1>1. \/ \E r \in asked : p \in Granted[r] /\ Rule(s, p, o)
      \/ \E r \in asked : \E q \in Related(r, p) : Rule(s, q, o)
  BY AllowsMeans
<1>2. CASE \E r \in asked : p \in Granted[r] /\ Rule(s, p, o)
  BY <1>2, AllowsMeans
<1>3. ASSUME NEW r \in asked, NEW q \in Related(r, p), Rule(s, q, o)
      PROVE  Allows(s, held, p, o)
  <2>1. CASE AskedFirst(r, held, p)
    BY <1>3, <2>1, AllowsMeans
  <2>2. CASE ~AskedFirst(r, held, p)
    <3>1. PICK d \in held : p \in Granted[d]
      BY <2>2 DEF AskedFirst
    <3>2. Rule(s, p, o)
      <4>1. CASE p \in SharedPermissions
        BY <1>3, <4>1, RelatedRulesAreStronger
      <4>2. CASE p = "ViewAccountConnectedServiceProvider"
        BY <4>2 DEF Rule, CoursePermissions, LearningPermissions, WorkPermissions,
                    GroupPermissions, UserPermissions
      <4>3. QED
        BY <1>3, <4>1, <4>2, NotRelated
    <3>3. QED
      BY <3>1, <3>2, AllowsMeans
  <2>3. QED
    BY <2>1, <2>2
<1>4. QED
  BY <1>1, <1>2, <1>3

LEMMA RolesAdd ==
  ASSUME TypeOK
  PROVE  RolesOnlyAdd
<1> SUFFICES ASSUME NEW s \in Staff, NEW p, NEW o, NEW r \in Held(s),
                    Allows(s, {r}, p, o)
             PROVE  Allows(s, Held(s), p, o)
  BY DEF RolesOnlyAdd
<1>1. Held(s) \in SUBSET AllRoles /\ {r} \in SUBSET Held(s)
  BY HeldAre
<1>2. QED
  BY <1>1, MoreRolesAllowMore

(* A role more never takes a permission away: a role asked earlier that    *)
(* has the permission itself ends the search of RBACPermissions._has_perm, *)
(* but then its rule allows whatever the relations of later roles allow.   *)
THEOREM RolesAreAdditive == Spec => []RolesOnlyAdd
<1>1. IInv => RolesOnlyAdd
  BY RolesAdd DEF IInv
<1>2. QED
  BY <1>1, Invariance, PTL

===============================================================================
