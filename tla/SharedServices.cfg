\* Three tasks and a table of two slots: a full table refuses the third, and the
\* task behind a removed one moves under the background thread's pointer.
SPECIFICATION Spec
CONSTANTS
  Tasks = {t1, t2, t3}
  MaxTasks = 2
  None = None
INVARIANTS
  TypeOK
  NoDuplicates
  StoppedIsQuiet
PROPERTIES
  StopReturns
  EveryTaskRuns
