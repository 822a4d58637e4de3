\* Two workers serve the requests of two students and of the staff.
SPECIFICATION Spec
CONSTANTS
  Students = {s1, s2}
  Runs = {r1}
  Titles = {t1}
  Assignments = {a1}
  Workers = {w1, w2}
  Modes = {"manual", "program_run"}
  Operations <- MCOperations
  MaxGroups <- MCMaxGroups
  MaxClassGroups = 1
  Nobody = Nobody
INVARIANTS
  TypeOK
  OneDefaultGroup
  SomebodyGoesOn
PROPERTIES
  RestrictionsOutliveGroups
  OnlyThoseWhoLeftAreMoved
  TransferKeepsWork
  TransferGivesWork
  EnrolledHasWork
SYMMETRY Symmetry
