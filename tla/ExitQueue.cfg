\* One handler thread, as the header of the queue assumes, a queue of three
\* slots and four children: the ring wraps around and overflows.
SPECIFICATION FairSpec
CONSTANTS
  c1 = c1
  c2 = c2
  c3 = c3
  c4 = c4
  Size = 3
  Handlers = {h1}
  Children <- MCChildren
  Status <- MCStatus
  NoChild = NoChild
INVARIANTS
  TypeOK
  PopFindsValidEntry
  NothingLostInOrder
PROPERTIES
  ImplementsFifo
  EveryExitIsHandled
