CONSTANTS
  p1 = p1
  p2 = p2
  i1 = i1
  Tasks = {p1, p2}
  Pids = {p1, p2}
  PidOf <- Own
  Mortal = {p1}
  NoPid = NoPid
  Absent = Absent
  Handoff = TRUE
  First = p1
  Wakes = {"broadcast", "resume", "close"}
  Inboxes = {i1}
  MaxSends = 2
  MaxBinds = 2
  MaxFaults = 1
SPECIFICATION Spec
CHECK_DEADLOCK FALSE
INVARIANTS
  NothingDropped
  InOrder
  FileInHand
  NoWakeLost
