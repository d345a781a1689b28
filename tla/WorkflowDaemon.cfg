\* Requests and faults on one workflow id.  Two starts and two nodes: a node freed
\* by one workflow is given to the next while requests still hold it, and two
\* updates of the list may overlap.
SPECIFICATION Spec
CONSTANTS
  Threads = {t1, t2}
  Workflows = {w1}
  Nodes = {n1, n2}
  Null = Null
  MaxPid = 2
  MaxStarts = 2
  MaxRetries = 1
  QueueLen = 1
  Ops = {"abandon", "pause", "resume", "timeout", "crash"}
SYMMETRY Symmetry
INVARIANTS
  TypeOK
  NoUnownedProcess
  OneProcessPerStart
CONSTRAINT RacedBound
