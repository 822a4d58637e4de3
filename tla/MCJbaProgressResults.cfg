\* A comment without meta ends the update at the deadline: no failures of the
\* service, nobody graded by hand, one update at a time.
SPECIFICATION FairSpec
CONSTANTS
  Students = {s1}
  Workers = {w1}
  Requests = {}
  Tasks = 1
  MaxTime = 1
  MayFail = FALSE
  Given <- MCNobody
PROPERTY
  ResultsOfEverybody
CHECK_DEADLOCK FALSE
