SPECIFICATION WriteSpec
CONSTANTS
  Files <- MCFiles
  Base = 1
INVARIANTS
  LinesKept
  InTable
