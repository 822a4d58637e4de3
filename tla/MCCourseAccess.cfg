\* The life of one account: profiles come and go while the person studies.
SPECIFICATION Spec
CONSTANTS
  Requests = {r1, r2}
  MaxProfiles = 2
  Runs <- MCRuns
  Bindings <- MCBindings
  Statuses = {"normal", "expelled"}
  Grades = {0, 3}
  PassFrom = 3
  NoRun = NoRun
  Staff <- MCStaff
  MaxChanges = 2
SYMMETRY Symmetry
INVARIANTS
  TypeOK
  RolesOnlyAdd
  CoursePageIsReachable
  MainProfileStudies
  
  MaterialsComeWithThePage
  
CHECK_DEADLOCK FALSE
