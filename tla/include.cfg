SPECIFICATION Spec
CONSTANTS
  Header <- MCHeader
  Project <- MCProject
  NoIndex = NoIndex
INVARIANTS
  EachOnce
  Resolves
  IncludersFirst
