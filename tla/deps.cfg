SPECIFICATION Spec
CONSTANTS
  Dep <- MCDep
  Path <- MCPath
  Std = {"c"}
  C = "c"
  CNames = {"c", "lib/c"}
  HasCfg = {"p", "q", "r"}
  Pubs <- MCPubs
  Defines <- MCDefines
  Graph <- MCGraph
  Root = "root"
  MaxStack = 5
INVARIANTS
  RegisteredAll
  PubsVisible
  DependencyWins
PROPERTIES
  Terminates
