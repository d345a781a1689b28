SPECIFICATION Spec
CONSTANTS
  t1 = t1
  t2 = t2
  Threads = {t1, t2}
  Kinds <- MCKinds
  MaxQueries = 2
  MaxCanned = 2
  MaxParts = 3
INVARIANTS ResourcesReturned AnswersTrue
PROPERTIES ThreadsReturn ChildrenReaped
\* A thread that is done does nothing more, and two queries may block each other.
CHECK_DEADLOCK FALSE
