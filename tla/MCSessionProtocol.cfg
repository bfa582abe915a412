CONSTANTS
  Sessions = {s1, s2}
  Handles = {h1, h2}
  NoHandle = NoHandle
  Keys = {k1}
  NoKey = NoKey
  Contents = {c1, c2}
  MaxMessages = 3
SPECIFICATION Spec
SYMMETRY Symmetry
INVARIANTS
  RepliesHold
PROPERTIES
  TransactionAtomic
  ImplementsMailbox
