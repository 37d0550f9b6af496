SPECIFICATION Spec
CONSTANTS
  Handle = {q1, q2}
  Item = {1, 2, 3, 4, 5, 6}
  Key <- MCKey
  NULL = NULL
  Junk = Junk
  Kinds = {"binomial"}
  Owning = {}
SYMMETRY MCSymmetry
VIEW MCView
PROPERTIES
  PopTakesTheTop
