\* The process may end before its pid is in the registry.
SPECIFICATION FairSpec
CONSTANTS
  Threads = {t1}
  Workflows = {w1}
  Nodes = {n1}
  Null = Null
  MaxPid = 2
  MaxStarts = 1
  MaxRetries = 1
  QueueLen = 1
  Ops = {"abandon"}
PROPERTY CompletionDetected
