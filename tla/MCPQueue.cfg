SPECIFICATION Spec
CONSTANTS
  Handle = {q1, q2}
  Item = {1, 2, 3, 4, 5, 6}
  Key <- MCKey
  NULL = NULL
  Junk = Junk
  Kinds = {"heap", "pairing", "binomial"}
  Owning = {"pairing", "binomial"}
SYMMETRY MCSymmetry
VIEW MCView
INVARIANTS
  
  PartitionInv
  OwnershipInv
PROPERTIES
  CallsKeepPromise
