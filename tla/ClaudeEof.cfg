SPECIFICATION Spec
CONSTANTS
  t1 = t1
  t2 = t2
  Threads = {t1, t2}
  Kinds <- MCPair
  MaxQueries = 1
  MaxCanned = 2
  MaxParts = 1
PROPERTIES EofReachesClaude
\* A thread that is done does nothing more.
CHECK_DEADLOCK FALSE
