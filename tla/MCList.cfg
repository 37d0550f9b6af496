SPECIFICATION Spec
CONSTANTS
  Handle = {l1, l2}
  Item = {1, 2, 3, 4, 5}
  Key <- MCKey
  NULL = NULL
  Junk = Junk
  AnyRange = FALSE
SYMMETRY MCSymmetry
VIEW MCView
INVARIANTS
  TypeOK
  LinksInv
  PartitionInv
PROPERTIES
  CallsKeepPromise
