SPECIFICATION Spec
CONSTANTS
  Handle = {l1, l2}
  Item = {1, 2, 3}
  Key <- MCKey
  NULL = NULL
  Junk = Junk
  AnyRange = TRUE
PROPERTIES
  SpliceMovesRange
