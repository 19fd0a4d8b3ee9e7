-------------------------------- MODULE Symg -------------------------------
(***************************************************************************)
(* llcppsymg: the symbol table of a C library (_xtool/symg).  The function *)
(* declarations of the headers are collected while the translation unit is *)
(* visited, then named in a second pass that takes the customised ones     *)
(* first, and the result is intersected with what the libraries export.    *)
(***************************************************************************)
EXTENDS Integers, Sequences, FiniteSets

CONSTANTS
  Symbol,            \* mangled names
  CName,             \* C names of functions, classes and types
  GoOf,              \* [CName -> Go name]: name.GoName with the trimmed prefixes
  SuffixCount(_, _), \* AddSuffix: the name for the k-th user of a Go name
  Cursor,            \* the function cursors a translation unit may have
  CurPkg,            \* curPkgFiles: the headers of this package
  SymMap,            \* llcppg.cfg symMap: symbol -> [form, name]
  LibNames, Paths,   \* -l names, and the search path: -L first, then the linker's
  NmList,            \* [library file -> symbols nm lists]
  MaxCursor,         \* bound: cursors in a translation unit
  NoName             \* the empty string

(* A library file is a directory of the search path and a -l name. *)
LibFile == {Paths[i] : i \in DOMAIN Paths} \X {LibNames[i] : i \in DOMAIN LibNames}

ASSUME SymgAssumption ==
  /\ DOMAIN GoOf = CName /\ NoName \notin CName
  /\ \A d \in Cursor :
        /\ d.sym \in Symbol /\ d.name \in CName
        /\ d.kind \in {"func", "static", "method", "private", "ctor", "dtor"}
        /\ d.scope \in {"top", "namespace", "class", "other"}
        /\ d.class \in CName \cup {NoName}
        /\ d.arg.how \in {"none", "value", "ptr", "deep"}
        /\ d.arg.type \in CName
        /\ d.variadic \in BOOLEAN
  /\ DOMAIN SymMap \subseteq Symbol
  /\ \A s \in DOMAIN SymMap : SymMap[s].form \in {"func", "method", "ignore"}
  /\ LibNames \in Seq({LibNames[i] : i \in DOMAIN LibNames})
  /\ Paths \in Seq({Paths[i] : i \in DOMAIN Paths})
  /\ DOMAIN NmList = LibFile
  /\ MaxCursor \in Nat

VARIABLES
  phase,      \* where Do is
  headerOnly, \* llcppg.cfg headerOnly
  visited,    \* number of cursors visited
  symbolMap,  \* SymbolProcessor.symbolMap: symbol -> its Go name, Unnamed at first
  queue,      \* collectQueue: the cursors to name
  found,      \* ghost: the queue in the order of the source
  at,         \* the entry of the queue processCollect is at
  nameCounts, \* Go name -> users
  disk,       \* ghost: the library files there are when they are looked for
  libFiles,   \* library files left to list
  symbols,    \* symbols listed so far
  table       \* the symbol table: symbol -> Go name

vars == <<phase, headerOnly, visited, symbolMap, queue, found, at, nameCounts,
          disk, libFiles, symbols, table>>
libVars == <<disk, libFiles, symbols, table>>
nameVars == <<headerOnly, visited, symbolMap, queue, found, at, nameCounts>>

-----------------------------------------------------------------------------
Bind(f, k, v) == [x \in DOMAIN f \cup {k} |-> IF x = k THEN v ELSE f[x]]
Empty == [x \in {} |-> NoName]

(* A function, or a method of a class by value or by pointer. *)
GoFunc(recv, class, name) == [recv |-> recv, class |-> class, name |-> name]
Plain(name) == GoFunc("none", NoName, name)
Ignored == Plain("-")
Unnamed == Plain(NoName)

Custom(s) == s \in DOMAIN SymMap

(* visitTop enters namespaces and classes only.  The access of             *)
(* constructors and destructors is not asked for ("&&" binds tighter than  *)
(* "||" in isPublicMethod).                                                *)
Collected(d) ==
  /\ d.scope # "other" /\ d.file \in CurPkg
  /\ d.kind \in {"func", "method", "ctor", "dtor"}

GenMethodName(class, name, isDestructor, recv) ==
  GoFunc(recv, class, IF isDestructor THEN "Dispose" ELSE IF class = name THEN "Init" ELSE name)

(* beRecv: a type of this package, by value or behind a single pointer.    *)
BeRecv(d) == d.arg.how \in {"value", "ptr"} /\ d.arg.file \in CurPkg /\ ~d.variadic

(* genGoName before AddSuffix. *)
Wanted(d) ==
  LET name == IF Custom(d.sym) THEN SymMap[d.sym].name ELSE GoOf[d.name]
      toFunc == Custom(d.sym) /\ SymMap[d.sym].form = "func"
  IN  IF d.class # NoName
      THEN GenMethodName(GoOf[d.class], name, d.kind = "dtor", "ptr")
      ELSE IF BeRecv(d) /\ ~toFunc
      THEN GenMethodName(GoOf[d.arg.type], name, d.kind = "dtor", d.arg.how)
      ELSE Plain(name)

Ignore(s) == Custom(s) /\ SymMap[s].form = "ignore"

Users(g) == IF g \in DOMAIN nameCounts THEN nameCounts[g] ELSE 0

(* AddSuffix *)
Numbered(g, k) == [g EXCEPT !.name = SuffixCount(@, k)]

(* The orders the sort of processCollect may put a queue in: r[i] is the   *)
(* entry that comes i-th.  Fault: the sort is not stable.                  *)
Orders(q) ==
  {r \in [DOMAIN q -> DOMAIN q] : \A k \in DOMAIN q : \E i \in DOMAIN q : r[i] = k}
UnstableOrder(q) ==
  {r \in Orders(q) :
     \A i, j \in DOMAIN q : (i < j /\ Custom(q[r[j]].sym)) => Custom(q[r[i]].sym)}
CustomFirst(q) ==
  {r \in Orders(q) :
     \A i, j \in DOMAIN q : i < j =>
        \/ Custom(q[r[i]].sym) /\ ~Custom(q[r[j]].sym)
        \/ (Custom(q[r[i]].sym) <=> Custom(q[r[j]].sym)) /\ r[i] < r[j]}

-----------------------------------------------------------------------------
Init ==
  /\ phase = "visit" /\ headerOnly \in BOOLEAN /\ visited = 0
  /\ symbolMap = Empty /\ queue = <<>> /\ found = <<>> /\ at = 1 /\ nameCounts = Empty
  /\ disk = {} /\ libFiles = {} /\ symbols = {} /\ table = Empty

(* visitTop and collectFuncInfo: the first declaration of a symbol counts. *)
Visit(d) ==
  /\ phase = "visit" /\ visited < MaxCursor
  /\ visited' = visited + 1
  /\ IF Collected(d) /\ d.sym \notin DOMAIN symbolMap
     THEN /\ symbolMap' = Bind(symbolMap, d.sym, Unnamed)
          /\ queue' = Append(queue, d)
          /\ found' = Append(found, d)
     ELSE UNCHANGED <<symbolMap, queue, found>>
  /\ UNCHANGED <<phase, headerOnly, at, nameCounts, libVars>>

(* processCollect sorts the queue ... *)
EndVisit ==
  /\ phase = "visit" /\ phase' = "name"
  /\ \E r \in CustomFirst(queue) : queue' = [i \in DOMAIN queue |-> queue[r[i]]]
  /\ UNCHANGED <<headerOnly, visited, symbolMap, found, at, nameCounts, libVars>>

(* ... and names its entries.                                              *)
(* Fault: an ignored symbol goes through AddSuffix like the others.        *)
NameAll(d) ==
  LET g == IF Ignore(d.sym) THEN Ignored ELSE Wanted(d)
  IN  /\ nameCounts' = Bind(nameCounts, g, Users(g) + 1)
      /\ symbolMap' = Bind(symbolMap, d.sym, Numbered(g, Users(g) + 1))
(* Fault: the count is not remembered.                                     *)
NameUncounted(d) ==
  /\ symbolMap' = Bind(symbolMap, d.sym,
                       IF Ignore(d.sym) THEN Ignored ELSE Numbered(Wanted(d), Users(Wanted(d)) + 1))
  /\ UNCHANGED nameCounts
NameIt(d) ==
  IF Ignore(d.sym)
  THEN symbolMap' = Bind(symbolMap, d.sym, Ignored) /\ UNCHANGED nameCounts
  ELSE LET k == Users(Wanted(d)) + 1
       IN  /\ nameCounts' = Bind(nameCounts, Wanted(d), k)
           /\ symbolMap' = Bind(symbolMap, d.sym, Numbered(Wanted(d), k))

NameNext ==
  /\ phase = "name" /\ at <= Len(queue)
  /\ at' = at + 1
  /\ NameIt(queue[at])
  /\ UNCHANGED <<phase, headerOnly, visited, queue, found, libVars>>

(* A header-only table is the map itself; otherwise the libraries are read. *)
EndNames ==
  /\ phase = "name" /\ at > Len(queue)
  /\ IF headerOnly THEN phase' = "done" /\ table' = symbolMap
                   ELSE phase' = "find" /\ UNCHANGED table
  /\ UNCHANGED <<nameVars, disk, libFiles, symbols>>

-----------------------------------------------------------------------------
(* Libs.Files: for each name, the first directory that has it; an error    *)
(* only when no library is found.  Fault: the last directory that has it.  *)
LastDir(present, lib) ==
  LET hit == {i \in DOMAIN Paths : <<Paths[i], lib>> \in present}
  IN  Paths[CHOOSE i \in hit : \A j \in hit : i >= j]
FirstDir(present, lib) ==
  LET hit == {i \in DOMAIN Paths : <<Paths[i], lib>> \in present}
  IN  Paths[CHOOSE i \in hit : \A j \in hit : i <= j]

Files(present) ==
  LET Found(lib) == \E i \in DOMAIN Paths : <<Paths[i], lib>> \in present
  IN  {<<FirstDir(present, LibNames[k]), LibNames[k]>> : k \in {k \in DOMAIN LibNames : Found(LibNames[k])}}

FindLibs(present) ==
  /\ phase = "find"
  /\ disk' = present /\ libFiles' = Files(present)
  /\ phase' = IF libFiles' = {} THEN "failed" ELSE "list"
  /\ UNCHANGED <<nameVars, symbols, table>>

(* nm on a library; one that cannot be listed is passed over.  The order  *)
(* of the libraries makes no difference, and is left open.                 *)
ListLib(f, listed) ==
  /\ phase = "list" /\ f \in libFiles
  /\ libFiles' = libFiles \ {f}
  /\ symbols' = IF listed THEN symbols \cup NmList[f] ELSE symbols
  /\ UNCHANGED <<phase, nameVars, disk, table>>

(* GetCommonSymbols.                                                       *)
CommonSymbols == [s \in DOMAIN symbolMap \cap symbols |-> symbolMap[s]]

Intersect ==
  /\ phase = "list" /\ libFiles = {}
  /\ IF symbols = {} THEN phase' = "failed" /\ UNCHANGED table
                     ELSE phase' = "done" /\ table' = CommonSymbols
  /\ UNCHANGED <<nameVars, disk, libFiles, symbols>>

Terminated == phase \in {"done", "failed"} /\ UNCHANGED vars

Next ==
  \/ \E d \in Cursor : Visit(d)
  \/ EndVisit
  \/ NameNext
  \/ EndNames
  \/ \E present \in SUBSET LibFile : FindLibs(present)
  \/ \E f \in libFiles, listed \in BOOLEAN : ListLib(f, listed)
  \/ Intersect
  \/ Terminated

Spec == Init /\ [][Next]_vars
=============================================================================
