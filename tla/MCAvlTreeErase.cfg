SPECIFICATION Spec
CONSTANTS
  N = 4
  Node <- MCKey
  Null = Null
  Handle = {h1}
  Key <- MCKey
  Pair <- MCPair
VIEW MCView
PROPERTIES
  EraseRemovesOne
