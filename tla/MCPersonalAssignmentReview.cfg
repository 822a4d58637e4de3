\* Two teachers review while the student submits and one queue worker counts.
\* No symmetry: a liveness property is checked.
SPECIFICATION FairSpec
CONSTANTS
  Reviewers = {v1, v2}
  Gradebooks = {}
  Submitters = {s1}
  RowSavers = {}
  StatsWorkers = {w1}
  Scores = {1}
  Statuses = {"not_submitted", "on_checking"}
  Teachers = {}
  NoScore = NoScore
  NoTeacher = NoTeacher
  NoOne = NoOne
  MaxSubmissions = 2
  MaxJobs = 1
  MaxLog = 1
  MaxSaves = 0
INVARIANTS
  TypeOK
  HistoryExplainsWork
PROPERTIES
  ImplementsWork
  StatsCatchUp
