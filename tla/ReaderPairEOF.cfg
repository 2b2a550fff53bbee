CONSTANTS
  LineDirectives = TRUE
  IncludeFileNames = TRUE
  IgnoredNames <- MCIgnored
  OpenName <- MCOpenName
  Frags <- PairFrags
  LastTerms <- AnyEnd
INIT PairInit
NEXT PairNext
INVARIANT SameResults
