CONSTANTS
  NumSessions = 2
  Cap = 1
  Broken = {}
  MaxFaults = 1
SPECIFICATION FairSpec
INVARIANTS BootsWithinCap SlotsKept
PROPERTIES StaysDown QueueServed
