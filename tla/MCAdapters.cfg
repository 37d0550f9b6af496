SPECIFICATION ASpec
CONSTANTS
  User = {d1, d2}
  Handle = {d1, d2}
  AdapterId = {p, q}
  Item = {a, b, c}
  Given = Given
  ClientInfo = {Given}
  NoInfo = NoInfo
  NoHandle = NoHandle
  NULL = NULL
  Junk = Junk
  MinCapacity = 2
  MaxCapacity = 4
  MaxLost = 1
  Clients <- MCClients
  ArgLists <- MCArgLists
SYMMETRY MCSymmetry
VIEW MCView
INVARIANTS
  OwnershipInv
  NoSharingInv
  InfoInv
  CountInv
PROPERTIES
  CallsKeepPromise
  PopTakesWhatIsShown
