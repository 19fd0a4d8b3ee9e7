------------------------------- MODULE Parser ------------------------------
(***************************************************************************)
(* llcppsigfetch's walk over a C translation unit, and what gogensig reads *)
(* of it (_xtool/internal/parser, parse.OutputPkg, gogensig's unmarshal).  *)
(* libclang's cursors, in source order, are the sequence unit; the source  *)
(* is any C program of a few declarations.  A struct cursor stands for a   *)
(* union too, each nested record or enum is the type of a field, and each  *)
(* record, typedef and function uses at most one other type.               *)
(***************************************************************************)
EXTENDS Integers, Sequences

CONSTANTS
  Nil,         \* nil
  Bad,         \* an error of gogensig's unmarshaler
  TagName,     \* names of structs and enums
  TypedefName, \* names of typedefs
  AnonNesting, \* may a named record or an enum be inside an anonymous record?
  MaxCursor    \* bound: declarations of a unit

Anon == ""
BuiltIn == "<built-in>"
FuncName == "f"

ASSUME ParserAssumption ==
  /\ Anon \notin TagName \cup TypedefName /\ FuncName \notin TagName \cup TypedefName
  /\ AnonNesting \in BOOLEAN /\ MaxCursor \in Nat

VARIABLES
  phase,   \* "source": the unit is being written; "visit", "parsed", "done" or "panic"
  unit,    \* the cursors libclang reports
  at,      \* the next cursor
  file,    \* Converter.file
  received \* the ast.File gogensig has

(* A nested record is three nodes below the one around it.                 *)
W == INSTANCE Wire WITH MaxDepth <- 3 * MaxCursor + 4

parseVars == <<phase, unit, at, file, received>>

-----------------------------------------------------------------------------
(* Cursors: kind, name, the file they are in, the record they are in (0:   *)
(* none), whether they are the definition, and the type they use: the      *)
(* cursor that declares it (0: int) and how.                               *)
Cursors(kind, names, paths, ups, defs, tos, shapes) ==
  [kind : {kind}, name : names, path : paths, up : ups, def : defs, to : tos, shape : shapes]

IsTag(c) == c.kind \in {"struct", "enum"}
IsAnonymous(c) == IsTag(c) /\ c.name = Anon

(* Record i has not ended where cursor j is; cursors are in source order.  *)
Spans(i, j) == \A k \in (i + 1)..j : unit[k].up >= i
Enclosing(i) == {d \in 1..i : Spans(d, i)}

(* VisitChildren: the first cursor in a record and the one after another   *)
(* in the same record, 0 if there is none.                                 *)
FirstChild(i) == IF i < Len(unit) /\ unit[i + 1].up = i THEN i + 1 ELSE 0
NextChild(j) ==
  LET later == {k \in (j + 1)..Len(unit) : unit[k].up = unit[j].up}
  IN IF later = {} THEN 0 ELSE CHOOSE k \in later : \A m \in later : k <= m

(* Where a chain of typedefs of plain type names ends: at a cursor of      *)
(* another kind, at a typedef of another type, or at 0.                    *)
ChainEnd(f, i) == IF i # 0 /\ unit[i].kind = "typedef" /\ unit[i].shape = "value" THEN f[unit[i].to] ELSE i
Resolved[i \in 0..Len(unit)] == ChainEnd(Resolved, i)
IsTypedef(i) == i # 0 /\ unit[i].kind = "typedef"

(* getActualTypeCursor: 0 where a typedef is not of a plain type name.     *)
getActualTypeCursor(i) == IF IsTypedef(Resolved[i]) THEN 0 ELSE Resolved[i]
ActualName(i) == IF getActualTypeCursor(i) = 0 THEN Anon ELSE unit[getActualTypeCursor(i)].name

-----------------------------------------------------------------------------
(* What a C compiler accepts as the next declaration.                      *)
Complete(i, c) ==
  LET e == getActualTypeCursor(i)
  IN e # 0 => \E d \in 1..Len(unit) \ Enclosing(c.up) :
                IsTag(unit[d]) /\ unit[d].name = unit[e].name /\ unit[d].def

FunctionType(i) == IsTypedef(i) /\ unit[i].shape = "fn"

LegalUse(c) ==
  CASE c.shape \in {"value", "array"} -> Complete(c.to, c) /\ ~FunctionType(c.to)
    [] c.shape = "named" -> FunctionType(c.to)
    [] OTHER -> TRUE

LegalTag(c) ==
  /\ \A j \in 1..Len(unit) : IsTag(unit[j]) /\ unit[j].name = c.name /\ c.name # Anon =>
       unit[j].kind = c.kind /\ ~(unit[j].def /\ c.def)
  /\ c.kind = "enum" => c.def
  /\ c.name = Anon => c.def /\ (c.up = 0 => c.kind = "enum")
  /\ ~AnonNesting /\ c.up # 0 /\ unit[c.up].name = Anon => c.kind = "struct" /\ c.name = Anon

(* A typedef has the name of a tag only when it is another name for it.    *)
LegalTypedef(c) ==
  /\ \A j \in 1..Len(unit) : ~(unit[j].kind \in {"typedef", "func"} /\ unit[j].name = c.name)
  /\ c.name \in TagName => c.shape = "value" /\ c.to # 0 /\ ActualName(c.to) = c.name

(* libclang reports the preprocessor's cursors before all others; one of   *)
(* each kind is enough.                                                    *)
Preprocessor(c) == c.kind \in {"macro", "include"}

Legal(c) ==
  /\ c.up # 0 => /\ unit[c.up].kind = "struct" /\ unit[c.up].def /\ Spans(c.up, Len(unit))
  /\ c.to # 0 => unit[c.to].kind \in {"struct", "enum", "typedef"} /\ ~IsAnonymous(unit[c.to])
  /\ LegalUse(c)
  /\ IsTag(c) => LegalTag(c)
  /\ c.kind = "typedef" => LegalTypedef(c)
  /\ c.kind = "func" => \A j \in 1..Len(unit) : unit[j].kind # "func"
  /\ Preprocessor(c) => \A j \in 1..Len(unit) : Preprocessor(unit[j]) /\ unit[j].kind # c.kind

(* Cursors that can come next.                                             *)
Candidates ==
  LET Earlier == 0..Len(unit)
      C(kind, names, ups, defs, tos, shapes) == Cursors(kind, names, {"a.h"}, ups, defs, tos, shapes)
  IN C("struct", TagName \cup {Anon}, Earlier, {TRUE}, 1..Len(unit), {"value", "ptr"})
     \cup C("struct", TagName \cup {Anon}, Earlier, {TRUE}, {0}, {"none", "array"})
     \cup C("struct", TagName, Earlier, {FALSE}, {0}, {"none"})
     \cup C("enum", TagName \cup {Anon}, Earlier, {TRUE}, {0}, {"none"})
     \cup C("typedef", TypedefName, {0}, {TRUE}, Earlier, {"value", "ptr", "fn"})
     \cup C("func", {FuncName}, {0}, {TRUE}, Earlier, {"ptr", "named"})
     \cup Cursors("macro", {"M"}, {"a.h", BuiltIn}, {0}, {TRUE}, {0}, {"none"})
     \cup C("include", {"i.h"}, {0}, BOOLEAN, {0}, {"none"})

-----------------------------------------------------------------------------
Ident(name) == [kind |-> "Ident", Name |-> name]
CInt == [kind |-> "BuiltinType", Kind |-> "Int", Flags |-> {}]
CVoid == [kind |-> "BuiltinType", Kind |-> "Void", Flags |-> {}]
PointerType(x) == [kind |-> "PointerType", X |-> x]
FieldOf(names, type) ==
  [kind |-> "Field", Type |-> type, Doc |-> Nil, Comment |-> Nil, Flags |-> {}, Names |-> names]
FieldList(list) == [kind |-> "FieldList", List |-> list]
FuncType(fields) == [kind |-> "FuncType", Params |-> FieldList(fields), Ret |-> CVoid]
ArrayType(elt) ==
  [kind |-> "ArrayType", Elt |-> elt, Len |-> [kind |-> "BasicLit", Kind |-> "IntLit", Value |-> "2"]]

(* BuildScopingExpr of the semantic parent: C puts a named tag in the      *)
(* scope of the unit, an unnamed one in that of its record.                *)
Parent(i) ==
  IF IsAnonymous(unit[i]) /\ unit[i].up # 0 THEN Ident(unit[unit[i].up].name) ELSE Nil

(* CreateObject.                                                           *)
DeclOf(kind, i, name, type) ==
  [kind |-> kind, Loc |-> [kind |-> "Location", File |-> unit[i].path], Doc |-> Nil,
   Parent |-> Parent(i), Name |-> name, Type |-> type]

ProcessEnumType(i) ==
  [kind |-> "EnumType",
   Items |-> <<[kind |-> "EnumItem", Name |-> Ident("item"),
                Value |-> [kind |-> "BasicLit", Kind |-> "IntLit", Value |-> "0"]]>>]

(* ProcessRecordType; f has the fields of nested cursors.  The field that  *)
(* uses another type comes first.                                          *)
RecordType(f, own, i) ==
  [kind |-> "RecordType", Tag |-> "struct", Methods |-> <<>>,
   Fields |-> IF unit[i].def THEN FieldList(own \o f[FirstChild(i)]) ELSE Nil]

(* ProcessElaboratedType of a type that has a name, ProcessTypeDefType.    *)
NamedType(i) ==
  CASE i = 0 -> CInt
    [] i # 0 /\ IsTag(unit[i]) -> [kind |-> "TagExpr", Tag |-> unit[i].kind, Name |-> Ident(unit[i].name)]
    [] OTHER -> Ident(unit[i].name)
ProcessType(i, shape) ==
  CASE shape = "value" -> NamedType(i)
    [] shape = "ptr"   -> PointerType(NamedType(i))
    [] shape = "array" -> ArrayType(NamedType(i))
    [] shape = "fn"    -> FuncType(<<FieldOf(<<>>, PointerType(NamedType(i)))>>)
OwnFields(i) ==
  IF unit[i].shape = "none" THEN <<>>
  ELSE <<FieldOf(<<Ident("x")>>, ProcessType(unit[i].to, unit[i].shape))>>

(* ProcessElaboratedType of a type inside a record: an unnamed record is   *)
(* written out where it is used, an unnamed enum is an int.                *)
NestedType(f, i) ==
  IF ~IsAnonymous(unit[i]) THEN ProcessType(i, IF unit[i].def THEN "value" ELSE "ptr")
  ELSE IF unit[i].kind = "enum" THEN CInt ELSE RecordType(f, OwnFields(i), i)

(* ProcessFieldList: a field for each type that is declared in a record,   *)
(* from cursor i on.                                                       *)
FieldsFrom(f, i) ==
  IF i = 0 THEN <<>> ELSE <<FieldOf(<<Ident("y")>>, NestedType(f, i))>> \o f[NextChild(i)]
NestedFields[i \in 0..Len(unit)] == FieldsFrom(NestedFields, i)
ProcessRecordType(i) == RecordType(NestedFields, OwnFields(i), i)

-----------------------------------------------------------------------------
(* PostOrderVisitChildren with the condition of ProcessRecordDecl, from    *)
(* cursor i on; a nested record that is only declared is left out.         *)
(* Mutant: enums are collected like records.                               *)
CollectNamed(i) == ~IsAnonymous(unit[i])
Collect(i) == unit[i].kind = "enum" \/ ~IsAnonymous(unit[i])
HasType(i) == unit[i].kind = "enum" \/ unit[i].def
CollectFrom(f, i) ==
  IF i = 0 THEN <<>>
  ELSE (IF Collect(i) THEN f[FirstChild(i)] \o (IF HasType(i) THEN <<i>> ELSE <<>>) ELSE <<>>)
       \o f[NextChild(i)]
PostOrder[i \in 0..Len(unit)] == CollectFrom(PostOrder, i)

NameOf(i) == IF IsAnonymous(unit[i]) THEN Nil ELSE Ident(unit[i].name)
ProcessEnumDecl(i) == DeclOf("EnumTypeDecl", i, NameOf(i), ProcessEnumType(i))
TypeDecl(i) == DeclOf("TypeDecl", i, NameOf(i), ProcessRecordType(i))

NestedDecl(i) == IF unit[i].kind = "enum" THEN ProcessEnumDecl(i) ELSE TypeDecl(i)
NestedDecls(i) == LET s == PostOrder[FirstChild(i)] IN [k \in DOMAIN s |-> NestedDecl(s[k])]

(* Mutant: records before what is nested in them.                          *)
OuterFirst(i) == <<TypeDecl(i)>> \o NestedDecls(i)
ProcessRecordDecl(i) == Append(NestedDecls(i), TypeDecl(i))

(* ProcessUnderlyingType: nothing for a typedef of its own name.  Mutant:  *)
(* only the named type is looked at, not where its typedefs lead.          *)
DirectSelfReference(i) ==
  unit[i].shape = "value" /\ unit[i].to # 0 /\ unit[unit[i].to].name = unit[i].name
SelfReference(i) == unit[i].shape = "value" /\ unit[i].to # 0 /\ ActualName(unit[i].to) = unit[i].name
ProcessTypeDefDecl(i) ==
  IF SelfReference(i) THEN <<>>
  ELSE <<DeclOf("TypedefDecl", i, Ident(unit[i].name), ProcessType(unit[i].to, unit[i].shape))>>

(* getActualType, through typedefs and nothing else.                       *)
getActualType(i) ==
  IF IsTypedef(Resolved[i]) THEN ProcessType(unit[Resolved[i]].to, unit[Resolved[i]].shape)
  ELSE NamedType(Resolved[i])

(* The type of a function is written out or a typedef's; parameters have   *)
(* names only in the first case.  Nothing when it is no function type.     *)
FuncTypeOf(i) ==
  IF unit[i].shape = "named" THEN getActualType(unit[i].to)
  ELSE FuncType(<<FieldOf(<<Ident("p")>>, ProcessType(unit[i].to, unit[i].shape))>>)
ProcessFuncDecl(i) ==
  IF FuncTypeOf(i).kind # "FuncType" THEN <<>>
  ELSE <<[kind |-> "FuncDecl", Loc |-> [kind |-> "Location", File |-> unit[i].path], Doc |-> Nil,
          Parent |-> Parent(i), Name |-> Ident(unit[i].name), Type |-> FuncTypeOf(i),
          MangledName |-> unit[i].name, Flags |-> {}]>>

-----------------------------------------------------------------------------
ParseInit ==
  /\ phase = "source" /\ unit = <<>> /\ at = 1 /\ received = Nil
  /\ file = [kind |-> "File", decls |-> <<>>, includes |-> <<>>, macros |-> <<>>]

Declare ==
  /\ phase = "source" /\ Len(unit) < MaxCursor
  /\ \E c \in Candidates : Legal(c) /\ unit' = Append(unit, c)
  /\ UNCHANGED <<phase, at, file, received>>

EndSource ==
  /\ phase = "source" /\ unit # <<>>
  /\ phase' = "visit"
  /\ UNCHANGED <<unit, at, file, received>>

InFile(c) == c.path # BuiltIn
AddDecls(ds) == file' = [file EXCEPT !.decls = @ \o ds]

(* visitTop; the cursors inside a record are not reported to it, and it    *)
(* passes over those that are in no file.                                  *)
Move == phase = "visit" /\ at <= Len(unit) /\ at' = at + 1 /\ UNCHANGED <<unit, received>>
Reported(c) == c.up = 0 /\ InFile(c)
VisitTop(kinds) == Move /\ Reported(unit[at]) /\ unit[at].kind \in kinds
PassOver == Move /\ ~Reported(unit[at]) /\ UNCHANGED <<phase, file>>

VisitEnum == VisitTop({"enum"}) /\ AddDecls(<<ProcessEnumDecl(at)>>) /\ UNCHANGED phase
VisitStruct == VisitTop({"struct"}) /\ AddDecls(ProcessRecordDecl(at)) /\ UNCHANGED phase

(* A self-reference yields no declaration.                                 *)
VisitTypedef ==
  /\ VisitTop({"typedef"})
  /\ AddDecls(ProcessTypeDefDecl(at))
  /\ UNCHANGED phase

(* visitTop reads the name of the declaration it got, if only to log it.   *)
VisitFunc ==
  /\ VisitTop({"func"})
  /\ AddDecls(ProcessFuncDecl(at))
  /\ phase' = IF ProcessFuncDecl(at) = <<>> THEN "panic" ELSE phase

VisitMacro ==
  /\ VisitTop({"macro"})
  /\ file' = [file EXCEPT !.macros = Append(@, [kind |-> "Macro", Name |-> unit[at].name])]
  /\ UNCHANGED phase

(* ProcessInclude fails when libclang has no path for the included file.   *)
VisitInclude ==
  /\ VisitTop({"include"})
  /\ file' = IF ~unit[at].def THEN file
             ELSE [file EXCEPT !.includes = Append(@, [kind |-> "Include", Path |-> unit[at].name])]
  /\ UNCHANGED phase

EndVisit ==
  /\ phase = "visit" /\ at > Len(unit)
  /\ phase' = "parsed"
  /\ UNCHANGED <<unit, at, file, received>>

(* OutputPkg writes the file to standard output; gogensig reads it.        *)
Send ==
  /\ phase = "parsed"
  /\ phase' = "done" /\ received' = W!File(W!Marshal(file))
  /\ UNCHANGED <<unit, at, file>>

Terminated == phase \in {"done", "panic"} /\ UNCHANGED parseVars

ParseNext ==
  \/ Declare \/ EndSource \/ PassOver \/ VisitEnum \/ VisitStruct \/ VisitTypedef
  \/ VisitFunc \/ VisitMacro \/ VisitInclude \/ EndVisit \/ Send \/ Terminated

ParseSpec == ParseInit /\ [][ParseNext]_parseVars
=============================================================================
