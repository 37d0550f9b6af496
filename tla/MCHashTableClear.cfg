SPECIFICATION Spec
CONSTANTS
  k0 = k0
  k1 = k1
  k2 = k2
  k8 = k8
  k9 = k9
  Handle = {h1}
  Key = {k0, k1, k2, k8, k9}
  Value = {v}
  Hash <- MCHash
  NullKey = k0
  Nil = Nil
  Null = Null
  Dangling = Dangling
  MinBuckets = 8
  MaxBuckets = 16
  LoadNum = 3
  LoadDen = 8
INVARIANTS
  NoUseAfterFree
