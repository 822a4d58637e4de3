\* Two requests notify students and a teacher; two queue workers.
SPECIFICATION Spec
CONSTANTS
  Students = {s1, s2}
  Teachers = {t1}
  Requests = {p1, p2}
  Workers = {w1, w2}
  BatchSize = 1
  MaxNotes = 2
CHECK_DEADLOCK FALSE
INVARIANTS
  TypeOK
  EmailedOnce
  NotifiedIsTrue
  ReadBeforeIsQuiet
PROPERTIES
  EverybodyIsNotified
  ImplementsMailing
