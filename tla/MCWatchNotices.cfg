CONSTANTS
  w1 = w1
  w2 = w2
  backend = backend
  cli = cli
  Watchers = {w1, w2}
  None = None
  Procs = {backend, cli}
  Backend = backend
  Mortal = {backend}
  Parent0 = w1
  Statuses = {"active", "asking"}
  MaxEvents = 3
  MaxCalls = 1
  MaxEnds = 1
  MaxFaults = 1
SPECIFICATION FairSpec
CHECK_DEADLOCK FALSE
INVARIANTS
  NoticeOnce
  ToldInOrder
  NothingSkipped
  EventOwed
PROPERTIES
  FollowsLedger
  AllFollowed
