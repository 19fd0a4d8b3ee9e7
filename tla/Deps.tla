-------------------------------- MODULE Deps -------------------------------
(***************************************************************************)
(* The dependency packages of a conversion                                 *)
(* (cl/internal/convert.PkgDepLoader).  InitDeps first imports the deps of *)
(* llcppg.cfg and, through the llcppg.cfg of each, theirs; then it puts    *)
(* the types their llcppg.pub files publish into the scope of the package  *)
(* under conversion (the names Convert!Fresh starts from).  Both passes    *)
(* recurse, so each is a stack of frames here: a frame is a package and    *)
(* what its loop has left to do.                                           *)
(***************************************************************************)
EXTENDS Integers, Sequences

CONSTANTS
  Dep,      \* spellings of a dependency: alias "c", with "@version", plain
  Path,     \* [Dep -> package]: IsDepStd and splitPkgPath
  Std,      \* the spellings with an alias of the standard C library
  C,        \* the alias of the package every package depends on
  CNames,   \* the spellings NewPackage recognises that package by
  HasCfg,   \* packages with an llcppg.cfg
  Pubs,     \* [package -> [C name -> Go name]]: llcppg.pub
  Defines,  \* [package -> Go names its Go files declare]
  Graph,    \* deps of llcppg.cfg files to explore: [HasCfg \cup {Root} -> Seq(Dep)]
  Root,     \* the package under conversion
  MaxStack  \* bound: nested calls before the stack overflows

Pkg == {Path[d] : d \in Dep}

ASSUME DepsAssumption ==
  /\ DOMAIN Path = Dep /\ Root \notin Pkg /\ HasCfg \subseteq Pkg
  /\ C \in Std /\ Std \subseteq Dep /\ \A d \in Std : Path[d] \notin HasCfg
  /\ C \in CNames /\ \A d \in CNames : d \in Dep /\ Path[d] = Path[C]
  /\ DOMAIN Pubs = Pkg /\ DOMAIN Defines = Pkg
  /\ Graph \subseteq [HasCfg \cup {Root} -> Seq(Dep)]
  /\ MaxStack \in Nat

VARIABLES
  graph,    \* what the llcppg.cfg files say
  phase,    \* "import", "register", then "done", "failed" or "overflow"
  pkgCache, \* packages whose import has begun
  cfgDeps,  \* PkgBase.Deps: package -> what the llcppg.cfg read for it lists
  deps,     \* PkgInfo.Deps: package -> packages, empty until they are imported
  stack,    \* frames [pkg, todo] of Import / Imports, then of RegisterDep(s)
  regCache, \* packages whose registration has begun
  scope     \* C name -> [pkg, go] it was first bound to

vars == <<graph, phase, pkgCache, cfgDeps, deps, stack, regCache, scope>>

-----------------------------------------------------------------------------
Frame(pkg, todo) == [pkg |-> pkg, todo |-> todo]
Top == stack[Len(stack)]
Pop == SubSeq(stack, 1, Len(stack) - 1)
(* The loop of the top frame goes on to its next element ... *)
Advance == Append(Pop, Frame(Top.pkg, Tail(Top.todo)))
(* ... or calls itself for the element first. *)
Call(pkg, todo) == Append(Advance, Frame(pkg, todo))
Deeper == Len(stack) < MaxStack

(* NewPackage: the standard C library is a dependency of every package.    *)
WithC(ds) ==
  IF \E i \in DOMAIN ds : ds[i] \in CNames THEN ds ELSE <<C>> \o ds

(* An llcppg.cfg is read unless the alias of the C library was used.       *)
DepsOf(d) == IF d \in Std THEN <<>> ELSE graph[Path[d]]

Init ==
  /\ graph \in Graph /\ phase = "import"
  /\ pkgCache = {} /\ regCache = {} /\ scope = [c \in {} |-> Root]
  /\ cfgDeps = [pkg \in Pkg \cup {Root} |-> IF pkg = Root THEN WithC(graph[Root]) ELSE <<>>]
  /\ deps = [pkg \in Pkg \cup {Root} |-> <<>>]
  /\ stack = <<Frame(Root, cfgDeps[Root])>>

-----------------------------------------------------------------------------
(* Import: the package is cached before its own dependencies are imported. *)
(* Fault: it is not cached.                                                *)
NotCached(pkg) == pkgCache
Cached(pkg) == pkgCache \cup {pkg}

(* One iteration of Imports; "go list" may have no directory for a         *)
(* package, and its llcppg.pub or llcppg.cfg may be malformed.             *)
ImportNext(readable) ==
  /\ phase = "import" /\ Top.todo # <<>>
  /\ LET d == Head(Top.todo)
     IN  IF Path[d] \in pkgCache
         THEN stack' = Advance /\ UNCHANGED <<phase, pkgCache, cfgDeps>>
         ELSE IF ~readable \/ (d \notin Std /\ Path[d] \notin HasCfg)
         THEN phase' = "failed" /\ UNCHANGED <<pkgCache, cfgDeps, stack>>
         ELSE IF Deeper
         THEN /\ pkgCache' = Cached(Path[d]) /\ cfgDeps' = [cfgDeps EXCEPT ![Path[d]] = DepsOf(d)]
              /\ stack' = Call(Path[d], DepsOf(d))
              /\ UNCHANGED phase
         ELSE phase' = "overflow" /\ UNCHANGED <<pkgCache, cfgDeps, stack>>
  /\ UNCHANGED <<graph, deps, regCache, scope>>

(* Fault: only the first of the dependencies is kept.                      *)
FirstPath(ds) == [i \in (DOMAIN ds) \cap {1} |-> Path[ds[i]]]
Paths(ds) == [i \in DOMAIN ds |-> Path[ds[i]]]

(* Imports returns; when the root's does, RegisterDeps begins.             *)
ImportReturn ==
  LET pkg == Top.pkg
      imported == Paths(cfgDeps[pkg])
  IN  /\ phase = "import" /\ Top.todo = <<>>
      /\ deps' = [deps EXCEPT ![pkg] = imported]
      /\ IF pkg = Root
         THEN phase' = "register" /\ stack' = <<Frame(Root, imported)>>
         ELSE stack' = Pop /\ UNCHANGED phase
      /\ UNCHANGED <<graph, pkgCache, cfgDeps, regCache, scope>>

-----------------------------------------------------------------------------
(* The types a package publishes and declares, inserted in the scope; a    *)
(* name that is there already stays as it is.  Fault: every published type *)
(* is inserted under its Go name.                                          *)
InsertGoNames(pkg) ==
  LET new == ({Pubs[pkg][c] : c \in DOMAIN Pubs[pkg]} \cap Defines[pkg]) \ DOMAIN scope
  IN  [c \in DOMAIN scope \cup new |->
         IF c \in new THEN [pkg |-> pkg, go |-> c] ELSE scope[c]]
InsertPubs(pkg) ==
  LET new == {c \in DOMAIN Pubs[pkg] : Pubs[pkg][c] \in Defines[pkg]} \ DOMAIN scope
  IN  [c \in DOMAIN scope \cup new |->
         IF c \in new THEN [pkg |-> pkg, go |-> Pubs[pkg][c]] ELSE scope[c]]

(* RegisterDep: the scope when a package's registration begins, and when   *)
(* its dependencies have been registered.  Fault: its own types come       *)
(* first.                                                                  *)
OwnFirst(pkg) == InsertPubs(pkg)
OnEntry(pkg) == scope
OnReturn(pkg) == IF pkg = Root THEN scope ELSE InsertPubs(pkg)

RegisterNext ==
  /\ phase = "register" /\ Top.todo # <<>>
  /\ LET pkg == Head(Top.todo)
     IN  IF pkg \in regCache
         THEN stack' = Advance /\ UNCHANGED <<phase, regCache, scope>>
         ELSE IF Deeper
         THEN /\ regCache' = regCache \cup {pkg} /\ stack' = Call(pkg, deps[pkg])
              /\ scope' = OnEntry(pkg) /\ UNCHANGED phase
         ELSE phase' = "overflow" /\ UNCHANGED <<stack, regCache, scope>>
  /\ UNCHANGED <<graph, pkgCache, cfgDeps, deps>>

RegisterReturn ==
  /\ phase = "register" /\ Top.todo = <<>>
  /\ scope' = OnReturn(Top.pkg)
  /\ IF Top.pkg = Root THEN phase' = "done" /\ UNCHANGED stack
                       ELSE stack' = Pop /\ UNCHANGED phase
  /\ UNCHANGED <<graph, pkgCache, cfgDeps, deps, regCache>>

Terminated == phase \in {"done", "failed", "overflow"} /\ UNCHANGED vars

Next ==
  \/ \E readable \in BOOLEAN : ImportNext(readable)
  \/ ImportReturn
  \/ RegisterNext
  \/ RegisterReturn
  \/ Terminated

(* InitDeps runs on one goroutine, which nothing else blocks.              *)
Spec == Init /\ [][Next]_vars /\ WF_vars(Next)
=============================================================================
