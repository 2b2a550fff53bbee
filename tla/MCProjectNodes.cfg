CONSTANTS
  N = 4
  UNKNOWN = UNKNOWN
  Kinds <- MCKinds
  RootKind <- MCRootKind
  CanHold <- MCCanHold
  Queries <- MCQueries
  Packages <- MCPackages
  Texts <- MCTexts
  DefaultText <- MCDefaultText
  MaxSelected = 2
SPECIFICATION MCSpec
INVARIANT NodeAllIsPreorder ChildQueriesAgree EntryFollowsSingleSelection TypedModuleKept
