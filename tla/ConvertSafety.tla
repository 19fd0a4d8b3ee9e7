--------------------------- MODULE ConvertSafety ---------------------------
(***************************************************************************)
(* What must hold of Convert: the properties its runs check.               *)
(***************************************************************************)
EXTENDS Convert

(* A hypothesis of the theorems on types, about C and the parser: a record *)
(* type is known by a tag, and a tag is not the name of a typedef or of an *)
(* enum (the parser drops "typedef struct A A", whose two names are one    *)
(* type).                                                                  *)
TypeKind == {"Type", "Typedef", "Enum"}
CSpaces == \A d \in Decls : d.kind \in TypeKind => (d.kind = "Type" <=> d.name \in Tag)

(* A second hypothesis, of the theorems on Go names, about internal/name   *)
(* and the tables of llcppg.cfg.  GoBase are the names Go objects ask for, *)
(* before the suffix; K are the ranks the suffix may count.  Two objects   *)
(* are only given the same name if they ask for the same name at the same  *)
(* rank; what a tag is given in Go is no type of a dependency and no C     *)
(* type that goes by another name in Go; and nothing else is given, in Go, *)
(* the name a tag has in C.                                                *)
TypeName == Tag \cup ({d.name : d \in {e \in Decls : e.kind \in TypeKind}} \ {NoName})
ConstName ==
  {m.name : m \in Macros}
    \cup UNION {{e.refs[i] : i \in DOMAIN e.refs} : e \in {d \in Decls : d.kind = "Enum"}}
FuncGoName ==
  {FuncGo[d.name].fn : d \in {e \in Decls : e.kind = "Func" /\ FuncGo[e.name].form = "func"}}
GoBase == {TypeGo[c] : c \in TypeName} \cup {ConstGo[c] : c \in ConstName} \cup FuncGoName
GoSpaces(K) ==
  /\ \A b \in GoBase : SuffixCount(b, 1) = b /\ \A k \in K : SuffixCount(b, k) # NoName
  /\ \A a, b \in GoBase : \A j, k \in K : SuffixCount(a, j) = SuffixCount(b, k) => a = b /\ j = k
  /\ \A c \in Tag : \A k \in K :
        /\ SuffixCount(TypeGo[c], k) \notin DepName
        /\ \A e \in TypeName \ {c} : /\ SuffixCount(TypeGo[c], k) = e => TypeGo[e] = e
                                     /\ SuffixCount(TypeGo[e], k) # c
        /\ \A e \in ConstName : SuffixCount(ConstGo[e], k) # c
  /\ FuncGoName \cap Tag = {}

(* A third hypothesis, of the theorem on the order of definitions, about   *)
(* the types that typedefs name directly.  Unless a dependency defines     *)
(* such a type, or it is a tag that the declaration makes known as one of  *)
(* a third party, no declaration that mentions it is left out, by its file *)
(* or by the function table; and two declarations of one thing mention the *)
(* same of these types.                                                    *)
Referent == {d.refs[1] : d \in {e \in Decls : e.kind = "Typedef" /\ e.direct /\ ~Skipped(e)}}
Converted(d) == ~Skipped(d) /\ (d.kind = "Func" => FuncGo[d.name].form # "ignore")
Foreign(d) == IF FileType[d.file] = "third" THEN {d.name} \cap Tag ELSE {}
Referents ==
  /\ \A d \in Decls :
        Mentions(d) \cap Referent \subseteq DepName \cup Foreign(d) \/ Converted(d)
  /\ \A d, e \in Decls :
        d.name = e.name /\ d.kind = e.kind /\ (d.kind = "Type" => d.full = e.full) =>
          Mentions(d) \cap Referent = Mentions(e) \cap Referent

Inited(s, n) == n.kind = "Dep" \/ s.types[n].inits > 0

(* Types of every part of the package: what each map is keyed by and holds. *)
TypeOK ==
  /\ DOMAIN p.info \subseteq Node
  /\ \A g \in DOMAIN p.count : p.count[g] \in Nat \ {0}
  /\ \A g \in DOMAIN p.scope : p.scope[g].node \in Node /\ p.scope[g].how \in {"decl", "subst"}
  /\ DOMAIN p.types \subseteq Node
  /\ \A n \in DOMAIN p.types :
        /\ p.types[n].file \in GoFile /\ p.types[n].at \in GoFile
        /\ p.types[n].def \in {"undef", "struct", "opaque", "alias", "enum"}
        /\ p.types[n].inits \in Nat
        /\ p.types[n].of \in Node \cup {NoNode}
  /\ \A i \in DOMAIN p.incs : p.incs[i].node \in DOMAIN p.types
  /\ DOMAIN p.tracked \subseteq CName
  /\ \A c \in DOMAIN p.tracked : p.tracked[c] \in DOMAIN p.types
  /\ DOMAIN p.pubs \subseteq CName
  /\ p.cur \in GoFile
  /\ p.err \in {"none", "defined", "func", "method", "third", "redeclared", "redefined"}
  /\ locMap \subseteq CName /\ seen \subseteq CName
  /\ phase \in {"macros", "decls", "build", "done", "failed"}
  /\ input \in 0..MaxInput /\ next.i \in 1..next.last + 1

(* The converter's own checks (RegisterNode, funcIsDefined) come before    *)
(* every insertion, so neither gogen's "redeclared" panic nor substObj's   *)
(* "redefined" panic is ever reached.                                      *)
NoPanic == p.err \notin {"redeclared", "redefined"}

(* A reference to a C name is given a Go type made for that C name, or for *)
(* the object whose Go name it is: the scope mixes C names with Go names,  *)
(* and lookupType asks it for a C name.                                    *)
RefsResolve ==
  \A u \in p.uses :
     \/ u.node.name = u.name
     \/ u.name \in DOMAIN p.scope /\ p.scope[u.name].how = "decl"

(* No two types of the package have the same Go name.                      *)
GoNamesApart == \A m, n \in DOMAIN p.types : p.types[m].go = p.types[n].go => m = n

(* A C name becomes one Go type, whichever of a reference, a forward       *)
(* declaration or a definition the converter met first, and in whatever    *)
(* order (NewTypeDecl and handleImplicitForwardDecl share the TypeDecl     *)
(* node so that a forward declaration is completed, not duplicated).       *)
OneGoType == \A m, n \in DOMAIN p.types : m.name = n.name => m = n

(* A type is tracked as incomplete exactly while it has no underlying      *)
(* type, through forward declarations, deferred typedefs, completions and  *)
(* repeated declarations (IncompleteTypes against TypeDecl.InitType).      *)
TrackedExactly ==
  phase \in {"macros", "decls"} =>
    \A n \in DOMAIN p.types :
       (p.types[n].inits = 0) <=> (n.name \in DOMAIN p.tracked /\ p.tracked[n.name] = n)

(* "type A B" needs the underlying type of B's right-hand side: whenever a *)
(* typedef has been initialised, the type it names has been as well.       *)
TypedefAfterReferent ==
  \A n \in DOMAIN p.types :
     (p.types[n].inits > 0 /\ p.types[n].of # NoNode) => Inited(p, p.types[n].of)

(* A type is initialised while the current Go file is the file that        *)
(* declares it, wherever its completion was found, so that the imports its *)
(* fields need land in that file.                                          *)
InitInOwnFile ==
  \A n \in DOMAIN p.types : p.types[n].inits > 0 => p.types[n].at = p.types[n].file

(* When conversion succeeds every Go type has been initialised, and only   *)
(* once (gogen writes an uninitialised one as a type without a body).      *)
AllDefinedOnce ==
  /\ \A n \in DOMAIN p.types : p.types[n].inits <= 1
  /\ phase = "done" => \A n \in DOMAIN p.types : p.types[n].inits = 1

(* llcppg.pub tells dependents the Go name of a C type: the recorded name  *)
(* is the name of a type of the package made for that C name.              *)
PubsTruthful ==
  ~Failed(p) => \A c \in DOMAIN p.pubs :
     \E n \in DOMAIN p.types :
        n.name = c /\ p.types[n].go = IF p.pubs[c] = NoName THEN c ELSE p.pubs[c]

(* The converter implements the life of a type of module TypeLife.         *)
Life == INSTANCE TypeLife WITH
          CDecl <- Node,
          name <- [n \in DOMAIN p.types |-> p.types[n].go],
          defined <- {n \in DOMAIN p.types : p.types[n].inits > 0},
          status <- CASE phase = "done" -> "written"
                      [] phase = "failed" -> "abandoned"
                      [] OTHER -> "open"
TypesLive == Life!Spec

(* Once a C name has been bound to a Go type, later declarations never     *)
(* bind it to another one: what has been converted stays right.            *)
BindingsStable ==
  [][\A g \in DOMAIN p.scope : g \in DOMAIN p'.scope /\ p'.scope[g].node = p.scope[g].node]_p
=============================================================================
