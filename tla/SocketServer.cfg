SPECIFICATION Spec
CONSTANTS
  c1 = c1
  c2 = c2
  c3 = c3
  Clients <- MCClients
  CIs = {ci}
  Messages = {ci}
  None = None
  Listener = Listener
  MaxFds = 4
  MaxRequests = 2
  MaxSent = 3
  MaxBusy = 4
  MaxInbox <- MCMaxInbox
INVARIANTS TypeOK TableAgrees RequestsOnce
PROPERTIES ClientsServed RequestsEnd
