CONSTANTS
  TagUniverse <- PairingUniverse
  MaxTags = 2
  FakeNames = {}
  NULL = NULL
SPECIFICATION Spec
INVARIANT EveryTagInTree
