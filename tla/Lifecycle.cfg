\* Two CIs and one port for each role: the second CI of a role takes the port of
\* the first or is refused.
SPECIFICATION Spec
CONSTANTS
  Names = {c1, c2}
  builder = builder
  analysis = analysis
  Roles <- MCRoles
  Offset <- MCOffset
  BasePort = 9000
  PortsPerRole = 1
  MaxCIs = 2
  Tasks = {task}
  MaxMissed = 2
  None = None
SYMMETRY Symmetry
INVARIANTS
  TypeOK
  PortsUnique
  StatusAgrees
PROPERTIES
  ActiveKeepsPort
