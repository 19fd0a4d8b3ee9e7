SPECIFICATION Spec
CONSTANTS
  CName <- AllCName
  TypeGo <- AllGo
  ConstGo <- AllGo
  FuncGo <- AllFunc
  SuffixCount <- MCSuffixCount
  Private = {"_u"}
  Tag = {"s_t", "sT", "_u", "tt", "lib_x"}
  DepName = {"size_t", "FILE"}
  FileType <- MCFileType
  Autogen = "autogen"
  Macros <- NamesMacros
  Decls <- AllDecls
  MaxInput = 5
  NoName = ""
  NoNode = NoNode
INVARIANTS
  TrackedExactly
  TypedefAfterReferent
  InitInOwnFile
  AllDefinedOnce
  NoPanic
  RefsResolve
  OneGoType
  PubsTruthful
PROPERTIES
  TypesLive
  BindingsStable
