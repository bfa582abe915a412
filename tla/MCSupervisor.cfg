CONSTANTS
  Nobody = Nobody
  MaxEdits = 4
  MaxFaults = 4
SPECIFICATION FairSpec
CHECK_DEADLOCK FALSE
INVARIANTS
  RestartOwed
  NoticedIsOwed
PROPERTIES
  ServesAgain
  NoticedIsBuilt
