---------------------------- MODULE ParserSafety ---------------------------
(***************************************************************************)
(* What the walk over a translation unit promises the converter.           *)
(***************************************************************************)
EXTENDS Parser, FiniteSets

Parsed == phase \in {"parsed", "done"}
decls == file.decls

(* Declarations that are more than a forward declaration.                  *)
Full(d) == ~(d.kind = "TypeDecl" /\ d.Type.Fields = Nil)
Defining(n) == {i \in DOMAIN decls : Full(decls[i]) /\ decls[i].Name = Ident(n)}

(* Names the unit gives a meaning: of a defined tag, of a typedef of       *)
(* something else, of a function.                                          *)
Means(i, n) ==
  /\ unit[i].name = n /\ unit[i].def
  /\ \/ IsTag(unit[i]) \/ unit[i].kind = "func"
     \/ unit[i].kind = "typedef" /\ ActualName(i) # n
Names == {unit[i].name : i \in DOMAIN unit} \ {Anon}
DeclNames == {n \in Names : \E i \in DOMAIN unit : Means(i, n)}

(* Named nested structs and enums get "separate type declarations"         *)
(* (llcppg.md:179), a typedef of its own tag none (parser.go:404): each    *)
(* name is defined by exactly one declaration, wherever in the unit it is  *)
(* defined and however long the chain of typedefs that leads back to it.   *)
DefinedOnce ==
  Parsed => \A n \in Names : Cardinality(Defining(n)) = IF n \in DeclNames THEN 1 ELSE 0

(* Every enum of the unit, unnamed ones inside records too, is declared,   *)
(* so that no enumerator is lost (ProcessRecordDecl).                      *)
EnumsKept ==
  Parsed => Cardinality({i \in DOMAIN decls : decls[i].kind = "EnumTypeDecl"})
              = Cardinality({i \in DOMAIN unit : unit[i].kind = "enum"})

(* The types that a type holds by value, and what these hold in turn: they *)
(* are nested no deeper than the unit has cursors.                         *)
Holds(t) ==
  CASE t.kind = "ArrayType" -> {t.Elt}
    [] t.kind = "RecordType" /\ t.Fields # Nil ->
         {t.Fields.List[k].Type : k \in DOMAIN t.Fields.List}
    [] OTHER -> {}
Held(t) ==
  LET level[k \in 0..MaxCursor + 1] == IF k = 0 THEN {t} ELSE UNION {Holds(x) : x \in level[k - 1]}
  IN UNION {level[k] : k \in 0..MaxCursor + 1}
(* Names a type needs the definition of.                                   *)
ByValue(t) ==
  {x.Name : x \in {y \in Held(t) : y.kind = "Ident"}}
    \cup {x.Name.Name : x \in {y \in Held(t) : y.kind = "TagExpr"}}

(* "keep type order" (Convert): whatever a record contains is declared     *)
(* before it, although nested records come out of the records around them. *)
ContentsFirst ==
  \A i \in DOMAIN decls :
     decls[i].kind = "TypeDecl" =>
       \A n \in ByValue(decls[i].Type) : \E k \in Defining(n) : k < i

(* The AST that llcppsigfetch has is the one gogensig gets: the walk does  *)
(* not end in a panic, and what XMarshalASTFile writes unmarshal.File      *)
(* reads back, forward declarations still apart from empty records.        *)
Received == phase # "panic" /\ (phase = "done" => received = file)
=============================================================================
