CONSTANTS
  Sessions = {a}
  NoBoard = NoBoard
  MaxTopo = 1
  MaxRow = 1
  MaxFailures = 1
SPECIFICATION FairSpec
CHECK_DEADLOCK FALSE
INVARIANTS
  AnchorHonest
  StructureCarriedOrOwed
PROPERTIES
  TopologyForward
  RowsForward
  BoardConverges
