SPECIFICATION FairSpec
CONSTANTS
  Procs = {p, q}
  NumDirs = 2
  Trees <- SomeTrees
  NoStore = NoStore
  MaxCreates = 2
  MaxFaults = 2
INVARIANTS NothingLost NeverAmbiguous 
PROPERTIES StoreGrows Settles
