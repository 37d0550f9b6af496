SPECIFICATION Spec
CONSTANTS
  m1 = m1
  m2 = m2
  k0 = k0
  k1 = k1
  k2 = k2
  k8 = k8
  k9 = k9
  Handle = {m1, m2}
  Container = {c1, c2}
  Setups <- MCSetups
  Node = {1, 2, 3, 4, 5, 6, 7}
  Null = Null
  Priority = {1, 2, 3}
  Hash <- MCHash
  NullKey = k0
  Nil = Nil
  Dangling = Dangling
  MinBuckets = 8
  MaxBuckets = 16
  LoadNum = 3
  LoadDen = 8
VIEW MCView
INVARIANTS
  SharingInv
  ListInv
  LookupInv
  LoadInv
  TreeInv
  BalanceInv
  IterationInv
  IteratorInv
PROPERTIES
  CallsKeepPromise
