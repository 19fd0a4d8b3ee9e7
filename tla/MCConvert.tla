------------------------------ MODULE MCConvert ----------------------------
(***************************************************************************)
(* Instance of Convert.  Names are strings so that SuffixCount can append *)
(* its "__n"; the Go names are what internal/name makes of the C names.    *)
(***************************************************************************)
EXTENDS ConvertSafety, TLC

MCSuffixCount(g, k) == IF k = 1 THEN g ELSE g \o "__" \o ToString(k - 1)

MCFileType == ("a.h" :> "inter") @@ ("b.h" :> "inter") @@ ("c.h" :> "impl") @@ ("t.h" :> "third")

Node0(kind, c, f, full, refs, direct) ==
  [kind |-> kind, name |-> c, file |-> f, full |-> full, refs |-> refs, direct |-> direct]
Fwd(c, f) == Node0("Type", c, f, FALSE, <<>>, FALSE)
Struct(c, f, refs) == Node0("Type", c, f, TRUE, refs, FALSE)
Alias(c, f, r) == Node0("Typedef", c, f, TRUE, <<r>>, TRUE)
PtrAlias(c, f, refs) == Node0("Typedef", c, f, TRUE, refs, FALSE)
Func(c, f, refs) == Node0("Func", c, f, TRUE, refs, FALSE)
Enum(c, f, items) == Node0("Enum", c, f, TRUE, items, FALSE)
Macro(c, f, form) == [name |-> c, file |-> f, form |-> form]

NoFunc == [fn |-> "", form |-> "absent"]

(* Types: two structs that refer to each other, whose Go names share a     *)
(* base ("ST"), a chain of typedefs, a third-party struct and its user.    *)
TypesCName == {"s_t", "sT", "ref", "ref2", "ptr", "tt", "_u"}
TypesGo == ("s_t" :> "ST") @@ ("sT" :> "ST") @@ ("ref" :> "Ref") @@ ("ref2" :> "Ref2")
           @@ ("ptr" :> "Ptr") @@ ("tt" :> "Tt") @@ ("_u" :> "X_u")
TypesFunc == [c \in TypesCName |-> NoFunc]
TypesDecls ==
  { Fwd("s_t", "a.h"), Struct("s_t", "b.h", <<"sT">>), Struct("sT", "a.h", <<"s_t", "sT">>),
    Alias("ref", "a.h", "s_t"), Alias("ref2", "b.h", "ref"), PtrAlias("ptr", "c.h", <<"sT">>),
    Fwd("tt", "t.h"), Struct("_u", "c.h", <<"tt", "sT">>) }

(* Names: a struct, a function and a method that all want the Go name "X", *)
(* a macro and enum items that want "MAX", a name a dependency defines, an *)
(* enum tag and a typedef that share a name.                               *)
NamesCName == {"lib_x", "x", "y_x", "x_y", "en", "MAX", "A", "size_t", "FILE", "LIB_FILE"}
NamesGo == ("lib_x" :> "X") @@ ("x" :> "X") @@ ("y_x" :> "X") @@ ("x_y" :> "XY")
           @@ ("en" :> "En") @@ ("MAX" :> "MAX") @@ ("A" :> "A") @@ ("size_t" :> "SizeT")
           @@ ("FILE" :> "FILE") @@ ("LIB_FILE" :> "FILE")
NamesFunc == [c \in NamesCName |->
                CASE c = "x"   -> [fn |-> "X", form |-> "func"]
                  [] c = "y_x" -> [fn |-> "X", form |-> "method"]
                  [] c = "x_y" -> [fn |-> "XY", form |-> "ignore"]
                  [] OTHER     -> NoFunc]
NamesMacros == {Macro("LIB_FILE", "b.h", "ok"), Macro("MAX", "a.h", "ok"), Macro("A", "a.h", "bad"), Macro("en", "t.h", "ok"),
                Macro("en", "b.h", "none")}
NamesDecls ==
  { Fwd("lib_x", "a.h"), Struct("lib_x", "c.h", <<"size_t">>), Func("x", "a.h", <<"lib_x", "en">>),
    Func("y_x", "b.h", <<"lib_x", "size_t">>), Func("x_y", "b.h", <<"lib_x">>),
    Func("A", "b.h", <<"lib_x">>), Enum("en", "a.h", <<"MAX", "A">>), Enum("", "b.h", <<"A">>),
    PtrAlias("size_t", "t.h", <<>>), PtrAlias("size_t", "a.h", <<>>), PtrAlias("en", "b.h", <<>>) }

AllCName == TypesCName \cup NamesCName
AllGo == TypesGo @@ NamesGo
AllFunc == TypesFunc @@ NamesFunc
AllDecls == TypesDecls \cup NamesDecls

(* The hypotheses of the theorems of ConvertProofs hold here, the second   *)
(* for the suffixes that a run with five macros and declarations can need. *)
ASSUME NameSpaces == CSpaces
ASSUME NamedTypes == Referents
ASSUME GoNameSpaces == GoSpaces(1..16)
=============================================================================
