SPECIFICATION Spec
CONSTANTS
  Handle = {d1}
  Item = {a,b,c}
  Junk = Junk
  MinCapacity = 4
  MaxCapacity = 4
  HasDfree = TRUE
INVARIANT OwnershipInv
