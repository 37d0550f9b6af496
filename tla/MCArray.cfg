SPECIFICATION Spec
CONSTANTS
  Handle = {d1, d2}
  Item = {a, b, c, d}
  Junk = Junk
  Blocks <- MCBlocks
  MinCapacity = 2
  MaxCapacity = 6
  HasDfree = TRUE
SYMMETRY MCSymmetry
VIEW MCView
INVARIANTS
  TypeOK
  OwnershipInv
PROPERTIES
  CallsKeepPromise
