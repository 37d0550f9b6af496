SPECIFICATION Spec
CONSTANTS
  Handle = {d1}
  Item = {a, b}
  Junk = Junk
  MinCapacity = 4
  MaxCapacity = 8
  HasDfree = FALSE
SYMMETRY ItemSymmetry
VIEW MCView
INVARIANTS
  TypeOK
  RingInv
  NoJunkInv
  AccessInv
PROPERTIES
  CallsKeepPromise
