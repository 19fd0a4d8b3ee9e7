------------------------------ MODULE Convert ------------------------------
(***************************************************************************)
(* The conversion of one C package into one Go package:                    *)
(* cl/internal/convert.Converter drives Package (package.go) over the      *)
(* macros and the declarations llcppsigfetch parsed, with the node         *)
(* converter of cl/nc/ncimpl deciding names, files and what is skipped.    *)
(*                                                                         *)
(* The methods of Package call each other, so each is an operator from a   *)
(* package record to a package record; one action of the specification is  *)
(* one iteration of the loops of Converter.Process and of                  *)
(* Package.deferTypeBuild, with everything that iteration calls.           *)
(***************************************************************************)
EXTENDS Integers, Sequences

CONSTANTS
  CName,             \* C identifiers
  TypeGo,            \* [CName -> Go name]: ConvDecl / ConvTagExpr of a type name
  ConstGo,           \* [CName -> Go name]: ConvMacro / ConvEnumItem of a name
  FuncGo,            \* [CName -> [fn, form]]: GoFuncSpec of a function's table entry
  SuffixCount(_, _), \* internal/name.SuffixCount: the k-th user of a Go name
  Private,           \* C names IsPublic refuses (a leading underscore)
  Tag,               \* struct, union and class tags: may be used before declared
  DepName,           \* C type names the dependency packages already define
  FileType,          \* [header -> "inter" | "impl" | "third"]: llcppg's FileMap
  Autogen,           \* the Go file that collects every implementation header
  Macros, Decls,     \* AST nodes the input is made of
  MaxInput,          \* bound: number of AST nodes of the input
  NoName,            \* the empty string
  NoNode             \* a nil *types.Named

Kind == {"Func", "Type", "Typedef", "Enum", "Item", "Macro", "Dep"}
Node == [name : CName \cup {NoName}, kind : Kind]
File == DOMAIN FileType
GoFile == {f \in File : FileType[f] = "inter"} \cup {Autogen}

ASSUME ConvertAssumption ==
  /\ DOMAIN TypeGo = CName /\ DOMAIN ConstGo = CName /\ DOMAIN FuncGo = CName
  /\ \A c \in CName : FuncGo[c].form \in {"func", "method", "ignore", "absent"}
  /\ Private \subseteq CName /\ Tag \subseteq CName /\ DepName \subseteq CName
  /\ FileType \in [File -> {"inter", "impl", "third"}]
  /\ NoName \notin CName /\ NoNode \notin Node /\ Autogen \notin File
  /\ MaxInput \in Nat
  /\ \A d \in Decls : /\ d.name \in CName \cup {NoName}
                      /\ d.name = NoName => d.kind = "Enum"
                      /\ d.kind \in {"Func", "Type", "Typedef", "Enum"}
                      /\ d.file \in File /\ d.full \in BOOLEAN
                      /\ DOMAIN d.refs \in {{}, {1}, {1, 2}}
                      /\ \A i \in DOMAIN d.refs : d.refs[i] \in CName
                      /\ d.direct \in BOOLEAN /\ d.direct => DOMAIN d.refs = {1}
                      /\ d.kind = "Type" /\ ~d.full => DOMAIN d.refs = {}
                      /\ d.kind = "Func" /\ FuncGo[d.name].form = "method" => 1 \in DOMAIN d.refs
  /\ \A m \in Macros : m.name \in CName /\ m.file \in File /\ m.form \in {"none", "bad", "ok"}

VARIABLES
  p,       \* the Package: see Fresh
  locMap,  \* ncimpl.ThirdTypeLoc.locMap: names declared by third-party headers
  phase,   \* where Converter.Convert is
  input,   \* number of AST nodes consumed
  seen,    \* C names a declaration of the input has mentioned so far
  next     \* deferTypeBuild: [i, last], the entry to build and the end of the range

vars == <<p, locMap, phase, input, seen, next>>

-----------------------------------------------------------------------------
(* Maps of Go, as functions whose domain is the set of keys. *)
Bind(f, k, v) == [x \in DOMAIN f \cup {k} |-> IF x = k THEN v ELSE f[x]]
Unbind(f, k) == [x \in DOMAIN f \ {k} |-> f[x]]
Empty == [x \in {} |-> NoName]

(* A package before any declaration: dependencies have put their C names   *)
(* into the scope (RegisterDep), nothing else is there.                    *)
Fresh ==
  [ info    |-> Empty,   \* ProcessSymbol.info: Node -> Go name
    count   |-> Empty,   \* ProcessSymbol.count: Go name -> users
    scope   |-> [c \in DepName |-> [node |-> [name |-> c, kind |-> "Dep"], how |-> "subst"]],
    types   |-> Empty,   \* Node -> the gogen.TypeDecl made for it
    methods |-> {},      \* <<receiver node, method name>> pairs
    incs    |-> <<>>,    \* IncompleteTypes.types
    tracked |-> Empty,   \* IncompleteTypes.typesMap: C name -> Node
    pubs    |-> Empty,   \* PkgInfo.Pubs
    cur     |-> Autogen, \* gogen's current file
    uses    |-> {},      \* ghost: every [name, node] a type reference resolved to
    err     |-> "none" ]

Failed(s) == s.err # "none"
Fail(s, e) == [s EXCEPT !.err = e]

-----------------------------------------------------------------------------
(* Names: ProcessSymbol and RegisterNode. *)

Users(s, g) == IF g \in DOMAIN s.count THEN s.count[g] ELSE 0

Register(s, node, g) ==
  LET k == Users(s, g) + 1
  IN  [s EXCEPT !.count = Bind(@, g, k), !.info = Bind(@, node, SuffixCount(g, k))]

(* A name is taken when the scope has it; lookupOrigin also asks for the   *)
(* C name, lookupPub does not.                                             *)
(* Faults: nothing is ever taken; only the Go name is asked for.           *)
NeverTaken(s, node, g, origin) == FALSE
PubOnly(s, node, g, origin) == g \in DOMAIN s.scope
Taken(s, node, g, origin) ==
  g \in DOMAIN s.scope \/ (origin /\ node.name \in DOMAIN s.scope)

(* The package after RegisterNode, the public name, whether the node was   *)
(* already registered, and whether the registration is an error.           *)
RegisterNode(s, node, g, origin) ==
  IF node \in DOMAIN s.info
  THEN [pkg |-> s, name |-> s.info[node], exist |-> TRUE, bad |-> FALSE]
  ELSE LET q == Register(s, node, g)
           nm == q.info[node]
           bad == Taken(q, node, nm, origin)
       IN  [pkg |-> q, name |-> IF bad THEN NoName ELSE nm, exist |-> FALSE, bad |-> bad]

(* Fault: the name before the suffix is recorded.                          *)
CollectBaseName(s, c, nm) ==
  IF c \in Private THEN s ELSE [s EXCEPT !.pubs = Bind(@, c, TypeGo[c])]
CollectNameMapping(s, c, nm) ==
  IF c \in Private THEN s
  ELSE [s EXCEPT !.pubs = Bind(@, c, IF c = nm THEN NoName ELSE nm)]

-----------------------------------------------------------------------------
(* The Go package gogen builds: its scope and its type declarations. *)

(* gogen inserts an object under a new name, and panics on a known one. *)
Insert(s, nm, node) ==
  IF nm \in DOMAIN s.scope THEN Fail(s, "redeclared")
  ELSE [s EXCEPT !.scope = Bind(@, nm, [node |-> node, how |-> "decl"])]

(* substObj: the C name becomes another name of a declared Go type. *)
SubstObj(s, c, node) ==
  IF Failed(s) THEN s
  ELSE IF c \in DOMAIN s.scope /\ s.scope[c].how = "decl" THEN Fail(s, "redefined")
  ELSE [s EXCEPT !.scope = Bind(@, c, [node |-> node, how |-> "subst"])]

(* TypeDefs.NewType: a named type without an underlying type yet. *)
EmptyTypeDecl(s, nm, node) ==
  LET q == Insert(s, nm, node)
  IN  IF Failed(q) THEN q
      ELSE [q EXCEPT !.types = Bind(@, node, [go |-> nm, file |-> s.cur, def |-> "undef",
                                              inits |-> 0, of |-> NoNode, at |-> s.cur])]

(* TypeDecl.InitType: imports the type needs go to the current file. *)
InitType(s, node, def, of) ==
  LET t == s.types[node]
  IN  IF Failed(s) THEN s
      ELSE [s EXCEPT !.types = Bind(@, node, [go |-> t.go, file |-> t.file, def |-> def,
                                              inits |-> t.inits + 1, of |-> of, at |-> s.cur])]

(* RestoreCurFile(inc.file): go back to the file that declares the type.   *)
(* Fault: the file is left as it is.                                       *)
StayInFile(s, node) == s
RestoreFile(s, node) == [s EXCEPT !.cur = s.types[node].file]

(* IncompleteTypes.Add *)
AddIncomplete(s, node, ref) ==
  IF Failed(s) THEN s
  ELSE [s EXCEPT !.incs = Append(@, [node |-> node, ref |-> ref]),
                 !.tracked = Bind(@, node.name, node)]

-----------------------------------------------------------------------------
(* References: TypeConv.handleIdentRefer / handleTagExpr through lookupType. *)

TypeNode(c) == [name |-> c, kind |-> "Type"]

ImplicitForwardDecl(s, c) ==
  IF c \in DOMAIN s.tracked THEN s
  ELSE LET r == RegisterNode(s, TypeNode(c), TypeGo[c], TRUE)  \* its error is dropped
       IN  AddIncomplete(EmptyTypeDecl(r.pkg, r.name, TypeNode(c)), TypeNode(c), NoName)

(* Fault: the scope is asked for the Go name.                              *)
TargetByGo(s, c) ==
  IF TypeGo[c] \in DOMAIN s.scope THEN s.scope[TypeGo[c]].node
  ELSE IF c \in DOMAIN s.scope THEN s.scope[c].node ELSE s.tracked[c]
Target(s, c) == IF c \in DOMAIN s.scope THEN s.scope[c].node ELSE s.tracked[c]

(* The object a reference to c gets; third is the third-party location map. *)
LookupType(s, c, third) ==
  LET q == IF c \in DOMAIN s.scope THEN s
           ELSE IF c \in third THEN Fail(s, "third")
           ELSE ImplicitForwardDecl(s, c)
  IN  IF Failed(s) THEN s
      ELSE IF Failed(q) THEN q
      ELSE [q EXCEPT !.uses = @ \cup {[name |-> c, node |-> Target(q, c)]}]

(* The references of a declaration are converted left to right, at most two. *)
ConvertRefs(s, refs, third) ==
  CASE DOMAIN refs = {}  -> s
    [] DOMAIN refs = {1} -> LookupType(s, refs[1], third)
    [] OTHER -> LookupType(LookupType(s, refs[1], third), refs[2], third)

-----------------------------------------------------------------------------
(* Record types. *)

(* The deferred IncompleteTypes.Complete.  Fault: it is forgotten.         *)
NotComplete(s, c) == s
Complete(s, c) == [s EXCEPT !.tracked = Unbind(@, c)]

(* handleCompleteType: the type is completed in the file that declares it, *)
(* and stops being incomplete whether or not that succeeds.                *)
CompleteType(s, node, refs, c, third) ==
  IF Failed(s) THEN s
  ELSE LET q == ConvertRefs(RestoreFile(s, node), refs, third)
           t == InitType(q, node, "struct", NoNode)
       IN  Complete([t EXCEPT !.cur = s.cur], c)

NewTypeDecl(s, d, third) ==
  LET c == d.name
      r == RegisterNode(s, TypeNode(c), TypeGo[c], TRUE)
      isIncom == c \in DOMAIN r.pkg.tracked
      mapped == CollectNameMapping(r.pkg, c, r.name)
      declared == IF isIncom THEN mapped
                  ELSE AddIncomplete(EmptyTypeDecl(mapped, r.name, TypeNode(c)), TypeNode(c), NoName)
      incom == declared.tracked[c]
      named == IF r.name # c THEN SubstObj(declared, c, incom) ELSE declared
  IN  IF r.bad THEN Fail(r.pkg, "defined")
      ELSE IF r.exist /\ (~d.full \/ ~isIncom) THEN s
      ELSE IF Failed(declared) THEN declared
      ELSE IF d.full THEN CompleteType(named, incom, d.refs, c, third)
      ELSE named

-----------------------------------------------------------------------------
(* Typedefs. *)

(* handleTyperefIncomplete: a typedef that names an incomplete type waits. *)
(* Fault: it never waits.                                                  *)
NeverDeferred(s, d) == FALSE
Deferred(s, d) == d.direct /\ d.refs[1] \in DOMAIN s.tracked

NewTypedefDecl(s, d, third) ==
  LET c == d.name
      node == [name |-> c, kind |-> "Typedef"]
      r == RegisterNode(s, node, TypeGo[c], TRUE)
      declared == EmptyTypeDecl(CollectNameMapping(r.pkg, c, r.name), r.name, node)
      named == IF r.name # c THEN SubstObj(declared, c, node) ELSE declared
      converted == ConvertRefs(named, d.refs, third)
  IN  IF r.bad THEN Fail(r.pkg, "defined")
      ELSE IF r.exist THEN s
      ELSE IF Failed(named) THEN named
      ELSE IF Deferred(named, d) THEN AddIncomplete(named, node, d.refs[1])
      ELSE IF Failed(converted) THEN converted
      ELSE InitType(converted, node, "alias",
                    IF d.direct THEN Target(converted, d.refs[1]) ELSE NoNode)

-----------------------------------------------------------------------------
(* Enums and macros: values, so the C name is never bound in the scope. *)

NewConst(s, c, kind, emit) ==
  LET node == [name |-> c, kind |-> kind]
      r == RegisterNode(s, node, ConstGo[c], FALSE)
  IN  IF Failed(s) \/ r.exist THEN s
      ELSE IF r.bad THEN Fail(r.pkg, "defined")
      ELSE IF emit THEN Insert(r.pkg, r.name, node)
      ELSE r.pkg

EnumItems(s, items) ==
  CASE DOMAIN items = {}  -> s
    [] DOMAIN items = {1} -> NewConst(s, items[1], "Item", TRUE)
    [] OTHER -> NewConst(NewConst(s, items[1], "Item", TRUE), items[2], "Item", TRUE)

NewEnumTypeDecl(s, d) ==
  LET c == d.name
      node == [name |-> c, kind |-> "Enum"]
      r == RegisterNode(s, node, TypeGo[c], TRUE)
      declared == InitType(EmptyTypeDecl(CollectNameMapping(r.pkg, c, r.name), r.name, node),
                           node, "enum", NoNode)
      named == IF r.name # c THEN SubstObj(declared, c, node) ELSE declared
  IN  IF c = NoName THEN EnumItems(s, d.refs)
      ELSE IF r.bad THEN Fail(r.pkg, "defined")
      ELSE IF r.exist THEN s
      ELSE EnumItems(named, d.refs)

(* Only "#define NAME literal" is converted; a literal Go cannot represent *)
(* is registered and not emitted.                                          *)
NewMacro(s, m) ==
  IF m.form = "none" THEN s ELSE NewConst(s, m.name, "Macro", m.form = "ok")

-----------------------------------------------------------------------------
(* Functions and methods. *)

(* Fault: a function is declared without asking the scope.                 *)
FuncNeverTaken(s, fn) == FALSE
FuncTaken(s, fn) == fn \in DOMAIN s.scope

(* For a method, bodyStart converts the result once more, to return a zero *)
(* value of it: it finds what the signature's conversion has found, so     *)
(* nothing changes, and the step is left out with the value.               *)
NewFuncDecl(s, d, third) ==
  LET fn == FuncGo[d.name].fn
      node == [name |-> d.name, kind |-> "Func"]
      isMethod == FuncGo[d.name].form = "method"
      recv == IF isMethod THEN LookupType(s, d.refs[1], third) ELSE s
      method == <<Target(recv, d.refs[1]), fn>>
      dup == IF isMethod THEN method \in recv.methods ELSE FuncTaken(s, fn)
      sig == ConvertRefs(Register(recv, node, fn), d.refs, third)
  IN  IF FuncGo[d.name].form = "ignore" \/ node \in DOMAIN s.info THEN s
      ELSE IF Failed(recv) THEN recv
      ELSE IF dup THEN Fail(recv, IF isMethod THEN "method" ELSE "func")
      ELSE IF Failed(sig) THEN sig
      ELSE IF isMethod THEN [sig EXCEPT !.methods = @ \cup {method}]
      ELSE Insert(sig, fn, node)

-----------------------------------------------------------------------------
(* The node converter: which file a node goes to, and what is skipped. *)

InCurPkg(f) == FileType[f] \in {"inter", "impl"}
ToGoFile(f) == IF FileType[f] = "inter" THEN f ELSE Autogen
SetGoFile(s, f) == [s EXCEPT !.cur = ToGoFile(f)]

Skipped(d) == \/ ~InCurPkg(d.file)
              \/ d.kind = "Func" /\ FuncGo[d.name].form = "absent"

NewDecl(s, d, third) ==
  CASE d.kind = "Type"    -> NewTypeDecl(s, d, third)
    [] d.kind = "Enum"    -> NewEnumTypeDecl(s, d)
    [] d.kind = "Typedef" -> NewTypedefDecl(s, d, third)
    [] d.kind = "Func"    -> NewFuncDecl(s, d, third)

(* The C names of types a node declares and mentions. *)
Declares(d) == IF d.kind = "Func" THEN {} ELSE {d.name}
Mentions(d) ==
  Declares(d) \cup (IF d.kind = "Enum" THEN {} ELSE {d.refs[i] : i \in DOMAIN d.refs})

(* C: only a tag may be used before its declaration, and a typedef names a *)
(* type, tag or not, that the translation unit has mentioned before.       *)
Nameable(d) ==
  \A i \in DOMAIN d.refs :
     d.kind # "Enum" /\ (d.direct \/ d.refs[i] \notin Tag) => d.refs[i] \in seen \cup DepName

-----------------------------------------------------------------------------
Init ==
  /\ p = Fresh /\ locMap = {} /\ phase = "macros" /\ input = 0 /\ seen = {}
  /\ next = [i |-> 1, last |-> 0]

ProcessMacro(m) ==
  /\ phase = "macros" /\ input < MaxInput
  /\ input' = input + 1
  /\ p' = IF InCurPkg(m.file) THEN NewMacro(SetGoFile(p, m.file), m) ELSE p
  /\ phase' = IF Failed(p') THEN "failed" ELSE "macros"
  /\ UNCHANGED <<locMap, seen, next>>

EndMacros ==
  /\ phase = "macros" /\ phase' = "decls"
  /\ UNCHANGED <<p, locMap, input, seen, next>>

ProcessDecl(d) ==
  /\ phase = "decls" /\ input < MaxInput /\ Nameable(d)
  /\ input' = input + 1
  /\ seen' = seen \cup (Mentions(d) \ {NoName})
  /\ locMap' = IF FileType[d.file] = "third" /\ d.name # NoName
               THEN locMap \cup {d.name} ELSE locMap
  /\ p' = IF Skipped(d) THEN p ELSE NewDecl(SetGoFile(p, d.file), d, locMap')
  /\ phase' = IF Failed(p') THEN "failed" ELSE "decls"
  /\ UNCHANGED next

(* Package.Complete begins: the range of IterateIncomplete is evaluated    *)
(* once.  Fault: the last entry is left out.                               *)
EndDeclsShort ==
  /\ phase = "decls" /\ phase' = "build"
  /\ next' = [i |-> 1, last |-> IF p.incs = <<>> THEN 0 ELSE Len(p.incs) - 1]
  /\ UNCHANGED <<p, locMap, input, seen>>
EndDecls ==
  /\ phase = "decls" /\ phase' = "build"
  /\ next' = [i |-> 1, last |-> Len(p.incs)]
  /\ UNCHANGED <<p, locMap, input, seen>>

(* deferTypeBuild for one entry that is still incomplete. *)
BuildType(s, e, third) ==
  LET here == RestoreFile(s, e.node)
      q == LookupType(here, e.ref, third)
  IN  IF e.ref = NoName THEN InitType(here, e.node, "opaque", NoNode)
      ELSE IF Failed(q) THEN q
      ELSE InitType(q, e.node, "alias", Target(q, e.ref))

(* A type completed by its definition is skipped.  Fault: it is not.       *)
AnyEntry(s, e) == TRUE
StillIncomplete(s, e) == e.node.name \in DOMAIN s.tracked

Clear(s) == [s EXCEPT !.incs = <<>>, !.tracked = Empty]

BuildNext ==
  LET e == p.incs[next.i]
      q == IF StillIncomplete(p, e) THEN BuildType(p, e, locMap) ELSE p
  IN  /\ phase = "build" /\ next.i <= next.last
      /\ p' = IF Failed(q) THEN Clear(q) ELSE q
      /\ phase' = IF Failed(q) THEN "failed" ELSE "build"
      /\ next' = [next EXCEPT !.i = @ + 1]
      /\ UNCHANGED <<locMap, input, seen>>

EndBuild ==
  /\ phase = "build" /\ next.i > next.last
  /\ p' = Clear(p) /\ phase' = "done"
  /\ UNCHANGED <<locMap, input, seen, next>>

Terminated == phase \in {"done", "failed"} /\ UNCHANGED vars

Next ==
  \/ \E m \in Macros : ProcessMacro(m)
  \/ EndMacros
  \/ \E d \in Decls : ProcessDecl(d)
  \/ EndDecls
  \/ BuildNext
  \/ EndBuild
  \/ Terminated

Spec == Init /\ [][Next]_vars
=============================================================================
