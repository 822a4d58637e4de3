\* Staff edit the course (capacity 0 is unlimited) while two workers serve
\* students. No symmetry: a liveness property is checked.
SPECIFICATION FairSpec
CONSTANTS
  Students = {s1, s2}
  Requests = {r1, r2}
  Editors = {e1}
  Capacities = {0, 1}
  NoOne = NoOne
PROPERTIES
  NoOverbooking
  RequestsFinish
