SPECIFICATION Spec
CONSTANTS
  Projects <- MCProjects
  ParentMod = FALSE
INVARIANTS
  BindingsCurrent
  TableSound
  OthersWritten
