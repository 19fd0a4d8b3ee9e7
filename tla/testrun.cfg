SPECIFICATION Spec
CONSTANTS
  Entry = {"lua", "zlib", "sqlite", "doc", "ssl"}
  Conf <- MCConf
  Example <- MCExample
  NoDemo = NoDemo
  Pkg = {p, q, r}
  NoPkg = NoPkg
INVARIANTS
  AllWaited
  OneInDir
  DemosJudged
  TempRemoved
PROPERTIES
  Ends
