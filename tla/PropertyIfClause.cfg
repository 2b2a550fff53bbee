CONSTANTS
  LineBufLen = 4
  FileBufLen = 9
  Files <- MCFiles
  Imports <- MCImports
  MaxSets = 2
  MaxDepth = 2
SPECIFICATION MCSpec

PROPERTY IfClauseEndsAtNonIndentedLine
