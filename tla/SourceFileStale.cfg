CONSTANTS
  LineDirectives = TRUE
  IncludeFileNames = FALSE
  IgnoredNames <- MCIgnored
  OpenName <- MCOpenName
  LangOf = "c"
  ParserKind = "parser2"
  HasParent = TRUE
  Texts <- MCTexts
  Buffers <- MCBuffers
  MaxClock = 2
SPECIFICATION FileSpec
INVARIANT UpToDateTagsAreCurrent
