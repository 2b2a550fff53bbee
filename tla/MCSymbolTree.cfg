CONSTANTS
  TagUniverse <- PairingUniverse
  MaxTags = 3
  FakeNames = {}
  NULL = NULL
SPECIFICATION Spec
INVARIANT TypeOK
INVARIANT PairedIfMatching
INVARIANT ComparatorIsTotalPreorder
