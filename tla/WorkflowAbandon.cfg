\* One workflow, started, abandoned, given input, timed out and retried by two
\* connection threads and the services thread; three processes are one more than
\* the retries allow.  With pause requests AbandonedNeverRetried does not hold.
SPECIFICATION FairSpec
CONSTANTS
  Threads = {t1, t2}
  Workflows = {w1}
  Nodes = {n1}
  Null = Null
  MaxPid = 3
  MaxStarts = 1
  MaxRetries = 1
  QueueLen = 1
  Ops = {"abandon", "timeout", "input"}
PROPERTIES
  AbandonedNeverRetried
  ExitIsActedOn
