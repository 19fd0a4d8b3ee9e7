-------------------------------- MODULE Wire -------------------------------
(***************************************************************************)
(* How an AST crosses from llcppsigfetch to gogensig (XMarshalASTFile of   *)
(* _xtool/internal/parser, internal/unmarshal).  A node is a record with a *)
(* field kind, the "_Type" of its JSON object, and the fields of its Go    *)
(* struct; Flags stands for the booleans and the access of a node.  A JSON *)
(* value has the same shape; Nil is both the nil of Go and JSON's null.    *)
(***************************************************************************)
EXTENDS Naturals, Sequences

CONSTANTS
  Nil,     \* nil and null
  Bad,     \* an unmarshaler's error
  MaxDepth \* bound: how deep nodes are inside each other

(* Nodes that hold no other node, or only what encoding/json copies.       *)
Leaf == {"Ident", "BasicLit", "BuiltinType", "Variadic", "Location", "CommentGroup", "Macro", "Include"}
Lists == {"decls", "includes", "macros", "List", "Items", "Methods", "Names"}
Scalars == {"kind", "Tag", "Flags", "MangledName"}

Expr == {"EnumType", "EnumItem", "RecordType", "FuncType", "FieldList", "Field", "Variadic",
         "Ident", "TagExpr", "BasicLit", "LvalueRefType", "RvalueRefType", "PointerType",
         "BlockPointerType", "ArrayType", "BuiltinType", "ScopingExpr"}
Decl == {"EnumTypeDecl", "TypedefDecl", "FuncDecl", "TypeDecl"}

(* XMarshalObject and the cases of XMarshalASTDecl and XMarshalASTExpr:    *)
(* the fields each kind of node is written with.  Mutant: no scope.        *)
Unscoped == {"Loc", "Doc", "Name"}
Object == {"Loc", "Doc", "Parent", "Name"}
Written ==
  [ File |-> {"decls", "includes", "macros"},
    EnumTypeDecl |-> Object \cup {"Type"},
    TypedefDecl |-> Object \cup {"Type"},
    TypeDecl |-> Object \cup {"Type"},
    FuncDecl |-> Object \cup {"MangledName", "Type", "Flags"},
    EnumType |-> {"Items"}, EnumItem |-> {"Name", "Value"},
    RecordType |-> {"Tag", "Fields", "Methods"}, FuncType |-> {"Params", "Ret"},
    FieldList |-> {"List"}, Field |-> {"Type", "Doc", "Comment", "Flags", "Names"},
    TagExpr |-> {"Name", "Tag"}, ScopingExpr |-> {"X", "Parent"},
    LvalueRefType |-> {"X"}, RvalueRefType |-> {"X"}, PointerType |-> {"X"},
    BlockPointerType |-> {"X"}, ArrayType |-> {"Elt", "Len"} ]

(* What a node, or its JSON, holds directly and k levels down: the calls   *)
(* that XMarshalASTFile and unmarshal.File make.                           *)
Elements(s) == IF s = Nil THEN {} ELSE {s[i] : i \in DOMAIN s}
Parts(x) ==
  IF x = Nil \/ x.kind \in Leaf THEN {}
  ELSE {x[f] : f \in DOMAIN x \ (Scalars \cup Lists)}
         \cup UNION {Elements(x[f]) : f \in DOMAIN x \cap Lists}
Down(reach) == LET new == UNION {Parts(y) : y \in reach.last} IN [all |-> reach.all \cup new, last |-> new]
Reach(x) == LET reach[k \in Nat] == IF k = 0 THEN [all |-> {x}, last |-> {x}] ELSE Down(reach[k - 1]) IN reach
Inside(x) == Reach(x)[MaxDepth].all

(* A list that is nil or empty is a nil slice, hence null.                 *)
MarshalList(m, s) == IF s = <<>> THEN Nil ELSE [i \in DOMAIN s |-> m[s[i]]]
MarshalWith(m, n) ==
  IF n = Nil \/ n.kind \in Leaf THEN n
  ELSE [f \in Written[n.kind] \cup {"kind"} |->
          IF f \in Scalars THEN n[f]
          ELSE IF f \in Lists THEN MarshalList(m, n[f]) ELSE m[n[f]]]
Marshal(n) == LET m[x \in Inside(n)] == MarshalWith(m, x) IN m[n]

-----------------------------------------------------------------------------
(* The keys of nodeUnmarshalers; File is read by a function of its own.    *)
nodeUnmarshalers ==
  {"Macro", "Include", "BasicLit", "BuiltinType", "Ident", "Variadic", "PointerType",
   "LvalueRefType", "RvalueRefType", "BlockPointerType", "ArrayType", "Field", "FieldList",
   "ScopingExpr", "TagExpr", "EnumItem", "EnumType", "FuncType", "RecordType"} \cup Decl

(* A field that encoding/json decodes into its Go type.                    *)
Plain == {}

(* declBase and the unmarshaler of each kind: the fields it sets, and the  *)
(* kinds of node it accepts there.                                         *)
Base(accepted) == [Loc |-> Plain, Doc |-> Plain, Name |-> Plain, Parent |-> Expr, Type |-> accepted]
TypeReads ==
  [ LvalueRefType |-> [X |-> Expr], RvalueRefType |-> [X |-> Expr], PointerType |-> [X |-> Expr],
    BlockPointerType |-> [X |-> {"FuncType"}], ArrayType |-> [Elt |-> Expr, Len |-> Expr] ]
FieldReads ==
  [ Field |-> [Type |-> Expr, Doc |-> Plain, Comment |-> Plain, Flags |-> Plain, Names |-> Plain],
    FieldList |-> [List |-> {"Field"}] ]
NameReads ==
  [ TagExpr |-> [Tag |-> Plain, Name |-> Expr], ScopingExpr |-> [Parent |-> Expr, X |-> Plain] ]
EnumReads == [ EnumItem |-> [Name |-> Plain, Value |-> Expr], EnumType |-> [Items |-> {"EnumItem"}] ]
RecordReads ==
  [ RecordType |-> [Tag |-> Plain, Fields |-> {"FieldList"}, Methods |-> {"FuncDecl"}],
    FuncType |-> [Params |-> {"FieldList"}, Ret |-> Expr] ]
DeclReads ==
  [ FuncDecl |-> [Loc |-> Plain, Doc |-> Plain, Name |-> Plain, Parent |-> Expr, Type |-> {"FuncType"},
                  MangledName |-> Plain, Flags |-> Plain],
    TypeDecl |-> Base({"RecordType"}), TypedefDecl |-> Base(Expr), EnumTypeDecl |-> Base({"EnumType"}) ]
FileReads == [ File |-> [decls |-> Decl, includes |-> Plain, macros |-> Plain] ]
Reads(kind) ==
  CASE kind \in DOMAIN TypeReads   -> TypeReads[kind]
    [] kind \in DOMAIN FieldReads  -> FieldReads[kind]
    [] kind \in DOMAIN NameReads   -> NameReads[kind]
    [] kind \in DOMAIN EnumReads   -> EnumReads[kind]
    [] kind \in DOMAIN RecordReads -> RecordReads[kind]
    [] kind \in DOMAIN DeclReads   -> DeclReads[kind]
    [] kind \in DOMAIN FileReads   -> FileReads[kind]

Copy(f, v) == IF f \in Lists /\ v = Nil THEN <<>> ELSE v

(* Node, of which r has the results for what is inside, then the type      *)
(* assertion on its result.                                                *)
Accept(r, j, accepted) == LET x == r[j] IN IF x = Bad \/ x.kind \notin accepted THEN Bad ELSE x
NodeList(r, j, accepted) ==
  IF j = Nil THEN <<>>
  ELSE LET s == [i \in DOMAIN j |-> Accept(r, j[i], accepted)]
       IN IF \E i \in DOMAIN s : s[i] = Bad THEN Bad ELSE s
(* A node field that is not null is decoded, one that is not there too.    *)
NodeField(r, j, f, accepted) ==
  IF f \notin DOMAIN j
  THEN IF accepted = Plain \/ f \in Lists THEN Copy(f, Nil) ELSE Bad
  ELSE IF accepted = Plain THEN Copy(f, j[f])
  ELSE IF f \in Lists THEN NodeList(r, j[f], accepted)
  ELSE IF j[f] = Nil THEN Nil ELSE Accept(r, j[f], accepted)
Struct(r, j) ==
  LET reads == Reads(j.kind)
      v == [f \in DOMAIN reads |-> NodeField(r, j, f, reads[f])]
  IN IF \E f \in DOMAIN v : v[f] = Bad THEN Bad
     ELSE [f \in DOMAIN v \cup {"kind"} |-> IF f = "kind" THEN j.kind ELSE v[f]]
NodeWith(r, j) ==
  IF j = Nil \/ j.kind \notin nodeUnmarshalers THEN Bad
  ELSE IF j.kind \in Leaf THEN j ELSE Struct(r, j)
File(j) == LET node[x \in Inside(j)] == NodeWith(node, x) IN Struct(node, j)
=============================================================================
