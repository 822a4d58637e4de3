\* A course open to two programs, one of which closes before the other.
SPECIFICATION Spec
CONSTANTS
  Requests = {r1}
  MaxProfiles = 1
  Runs <- MCOneRun
  Bindings <- MCTwoPrograms
  Statuses = {"normal", "expelled"}
  Grades = {0}
  PassFrom = 3
  NoRun = NoRun
  Staff <- MCStaff
  MaxChanges = 1
PROPERTY EnrollsThroughOwnBinding
CHECK_DEADLOCK FALSE
