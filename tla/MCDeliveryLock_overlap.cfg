CONSTANTS
  t1 = t1
  t2 = t2
  t3 = t3
  p1 = p1
  p2 = p2
  p3 = p3
  Tasks = {t1, t2, t3}
  Pids = {p1, p2, p3}
  PidOf <- EachItsOwn
  Mortal = {p3}
  NoPid = NoPid
  Absent = Absent
SPECIFICATION LockSpec
INVARIANT OneHolder
