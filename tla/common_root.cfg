SPECIFICATION Spec
CONSTANTS
  File <- MCFile
  Projects <- MCProjects
  Sep = "/"
  Cwd <- MCCwd
  Begins <- MCBegins
  MaxDepth = 5
INVARIANTS
  ImplsOfCommonRoot
