SPECIFICATION ParseSpec
CONSTANTS
  TagName <- MCTagName
  TypedefName <- MCTypedefName
  AnonNesting = FALSE
  MaxCursor = 4
  Nil = Nil
  Bad = Bad
INVARIANTS
  DefinedOnce
  EnumsKept
  ContentsFirst
  Received
