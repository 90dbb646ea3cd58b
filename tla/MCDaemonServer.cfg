\* Two clients, one of which may fall silent or not read its reply, and room for one of them in the queue.
SPECIFICATION FairSpec
CONSTANTS
  Clients = {c1, c2}
  NoClient = NoClient
  Silent = {c2}
  Deaf = {c2}
  Requests = {"query", "shutdown", "oversized"}
  Backlog = 0
  IdleTimeout = 1
INVARIANTS
  StopsOrderly
  ConnectionsAccounted
  SocketFiles
PROPERTIES
  ConnectionsEnd
  IdleStops
CHECK_DEADLOCK FALSE
