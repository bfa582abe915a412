CONSTANTS
  Sessions = {s1, s2, s3}
  None = None
  Statuses = {active, parked}
  Parent = "parent"
  Channels = {"watch:manual"}
  Keys = {k1}
  MaxEvents = 3
  MaxMail = 2
  MaxTotal = 3
  MaxFollows = 2
SPECIFICATION AppSpec
CONSTRAINT Small
SYMMETRY Symmetry
INVARIANTS
  Acyclic
  ParentAgrees
  ReplayAgrees
  ToldOnce
PROPERTIES
  ImplementsLedger
