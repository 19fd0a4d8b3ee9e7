SPECIFICATION Spec
CONSTANTS
  Symbol = {"lib_open", "open", "close", "foo_close", "foo_end", "log", "dbg", "Foo1", "Foo2", "FooD"}
  CName <- MCCName
  GoOf <- MCGoOf
  SuffixCount <- MCSuffixCount
  Cursor <- MCCursor
  CurPkg = {"a.h", "b.h"}
  SymMap <- MCSymMap
  LibNames <- MCLibNames
  Paths <- MCPaths
  NmList <- MCNmList
  MaxCursor = 3
  NoName = ""
INVARIANTS
  NamesDistinct
  CustomGiven
  NamedByRank
  TableLinks
