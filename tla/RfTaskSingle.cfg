SPECIFICATION Spec
CONSTANTS
  NoOne = NoOne
  Ping = Ping
  Kinds = {"cmd", "hw", "restart", "detach", "plt"}
  Handlers = {h1}
  Requests = {a, b}
  MaxGen = 3
INVARIANTS
  BoundedResend
  NoOutputAcrossRestart
  OneClient
  DeathWakesWaiter
SYMMETRY Symmetric
CHECK_DEADLOCK FALSE
