SPECIFICATION ParseSpec
CONSTANTS
  TagName <- MCTagName
  TypedefName <- MCTypedefName
  AnonNesting = TRUE
  MaxCursor = 3
  Nil = Nil
  Bad = Bad
INVARIANTS
  DefinedOnce
