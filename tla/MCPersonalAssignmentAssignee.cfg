\* The student comments while somebody assigns a teacher through the API.
SPECIFICATION Spec
CONSTANTS
  Reviewers = {}
  Gradebooks = {}
  Submitters = {s1}
  RowSavers = {a1}
  StatsWorkers = {}
  Scores = {}
  Statuses = {"not_submitted", "on_checking"}
  Teachers = {t1, t2}
  NoScore = NoScore
  NoTeacher = NoTeacher
  NoOne = NoOne
  MaxSubmissions = 1
  MaxJobs = 1
  MaxLog = 0
  MaxSaves = 1
PROPERTY AutoAssignKeepsAssignee
