\* One worker of the queue and the button of one student, graded by hand too.
SPECIFICATION FairSpec
CONSTANTS
  Students = {s1}
  Workers = {w1}
  Requests = {r1}
  Tasks = 1
  MaxTime = 2
  MayFail = TRUE
  Given <- MCGiven
INVARIANTS
  TypeOK
  PollingGoesOn
PROPERTIES
  ScoresFollowProgress
  
  ResultsAreUpdated
