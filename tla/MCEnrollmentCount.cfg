\* Two students leave a course at the same time.
SPECIFICATION Spec
CONSTANTS
  Students = {s1, s2, s3}
  Requests = {r1, r2}
  Editors = {}
  Capacities = {2}
  NoOne = NoOne
INVARIANT CountAgreesWhenIdle
