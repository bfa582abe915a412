CONSTANTS
  p1 = p1
  p2 = p2
  i1 = i1
  Tasks = {p1, p2}
  Pids = {p1, p2}
  PidOf <- Own
  Mortal = {}
  NoPid = NoPid
  Absent = Absent
  Handoff = FALSE
  First = p1
  Wakes = {"send"}
  Inboxes = {i1}
  MaxSends = 2
  MaxBinds = 1
  MaxFaults = 0
SPECIFICATION Spec
CHECK_DEADLOCK FALSE
INVARIANT GivenOut
