SPECIFICATION Spec
CONSTANTS
  c1 = c1
  c2 = c2
  Clients <- MCClients
  Commands <- MCCommands
  Daemons = {d1, d2}
  Flows = {w1, w2}
  Named = {w1}
  None = None
  MaxPolls = 2
  MaxLines <- MCMaxLines
  MaxLate = 1
INVARIANT StartedOnce
PROPERTIES ServiceKept CommandsEnd StartersDecide
CHECK_DEADLOCK FALSE
