\* One run of start_workflow.sh and designs with at most one component.
SPECIFICATION Spec
CONSTANTS
  Builders = {b1}
  MaxStarts = 1
  StartScript = StartScript
  Editor = Editor
  Empty = Empty
  None = None
INVARIANTS
  TypeOK
  NoWorkDiscarded
PROPERTIES
  FinishedMeansMerged
  RelayCompletes
  ExitsOnSignal
