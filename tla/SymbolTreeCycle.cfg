CONSTANTS
  TagUniverse <- CycleUniverse
  MaxTags = 4
  FakeNames = {}
  NULL = NULL
SPECIFICATION Spec
INVARIANT NoNameAmongAncestors
