SPECIFICATION DirSpec
CONSTANTS
  Archives <- MCArchives
  BLOCK = 8
  ENTRIES = 20
  INTMAX = 2147483647
  NotFound = 999
  Paths <- MCPaths
  Programs <- MCPrograms
  NameLen <- MCNameLen
  DotSlash = 1
  Exit = 4
CHECK_DEADLOCK FALSE
INVARIANTS
    LsShowsChildren
    ExecFindsFile
PROPERTIES
    CdReaches
    OpenFinds
