SPECIFICATION FairSpec
CONSTANTS
  NoOne = NoOne
  Ping = Ping
  Kinds = {"cmd", "restart"}
  Handlers = {h1, h2}
  Requests = {a, b}
  MaxGen = 2
INVARIANTS
  OneCommandInFlight
  ManagedHasReader
PROPERTIES
  HandlerComesBack
VIEW Present
CHECK_DEADLOCK FALSE
