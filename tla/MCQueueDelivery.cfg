CONSTANTS
  p1 = p1
  p2 = p2
  i1 = i1
  Tasks = {p1, p2}
  Pids = {p1, p2}
  PidOf <- Own
  Mortal = {p1}
  NoPid = NoPid
  Absent = Absent
  Handoff = FALSE
  First = p1
  Wakes = {"send", "bind", "recover"}
  Inboxes = {}
  MaxSends = 2
  MaxBinds = 2
  MaxFaults = 1
SPECIFICATION FairSpec
CHECK_DEADLOCK FALSE
INVARIANTS
  Exclusion
  DebtNoted
PROPERTIES
  UsesMailbox
  DebtIsPaid
