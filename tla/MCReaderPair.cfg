CONSTANTS
  LineDirectives = TRUE
  IncludeFileNames = TRUE
  IgnoredNames <- MCIgnored
  OpenName <- MCOpenName
  Frags <- PairFrags
  LastTerms <- EndsInLF
INIT PairInit
NEXT PairNext
INVARIANT SameResults FileLinesMatchReference
