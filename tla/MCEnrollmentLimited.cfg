\* A course of one or two seats, three students and three requests at a time.
SPECIFICATION Spec
CONSTANTS
  Students = {s1, s2, s3}
  Requests = {r1, r2, r3}
  Editors = {}
  Capacities = {1, 2}
  NoOne = NoOne
SYMMETRY Symmetry
INVARIANTS
  TypeOK
  LockDiscipline
  CapacityRespected
PROPERTIES
  ImplementsSeats
  EnrollRecountExact
