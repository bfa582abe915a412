CONSTANTS
  w1 = w1
  w2 = w2
  backend = backend
  cli = cli
  Watchers = {w1, w2}
  None = None
  Procs = {backend, cli}
  Backend = backend
  Mortal = {}
  Parent0 = w1
  Statuses = {"active", "asking"}
  MaxEvents = 3
  MaxCalls = 2
  MaxEnds = 1
  MaxFaults = 0
SPECIFICATION Spec
CHECK_DEADLOCK FALSE
INVARIANTS
  NothingMissed
