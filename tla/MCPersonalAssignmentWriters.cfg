\* Every kind of writer at once: a gradebook, a review, the student and a
\* whole-row save. The queue worker, which touches none of this, is left out.
SPECIFICATION Spec
CONSTANTS
  Reviewers = {v1}
  Gradebooks = {g1}
  Submitters = {s1}
  RowSavers = {a1}
  StatsWorkers = {}
  Scores = {1}
  Statuses = {"not_submitted", "on_checking"}
  Teachers = {t1, t2}
  NoScore = NoScore
  NoTeacher = NoTeacher
  NoOne = NoOne
  MaxSubmissions = 1
  MaxJobs = 2
  MaxLog = 1
  MaxSaves = 1
SYMMETRY Symmetry
INVARIANTS
  AuditBalanced
PROPERTIES
  ReviewReplacesWhatItShowed
  SolutionKeepsTheRest
