----------------------------- MODULE MCInclude -----------------------------
(***************************************************************************)
(* Instance of IncludeList: /inc with a.h, /inc/foo with a.h, b.h and c.h, *)
(* /lib with a.h; any three flags of these directories and another; some   *)
(* include graphs, headers clang rejects and names that are no headers.    *)
(***************************************************************************)
EXTENDS IncludeSafety, TLC

MCHeader == {"ia", "fa", "fb", "fc", "la"}
MCDirs == {"inc", "inc/foo", "lib"}
Below == ("inc" :> {"ia", "fa", "fb", "fc"}) @@ ("inc/foo" :> {"fa", "fb", "fc"}) @@ ("lib" :> {"la"})
InFoo == ("fa" :> "a.h") @@ ("fb" :> "b.h") @@ ("fc" :> "c.h")
Rels == ("inc" :> (("ia" :> "a.h") @@ [h \in {"fa", "fb", "fc"} |-> "foo/" \o InFoo[h]]))
        @@ ("inc/foo" :> InFoo) @@ ("lib" :> ("la" :> "a.h"))
Tops == [Rels EXCEPT !["inc"] = ("ia" :> "a.h") @@ [h \in {"fa", "fb", "fc"} |-> "foo"]]

(* A set of directives that is closed: what a header includes, includes.   *)
Graph(E) == [h \in MCHeader |-> {g \in MCHeader : <<h, g>> \in E}]
Graphs == {Graph({}), Graph({<<"fa", "fb">>, <<"fa", "fc">>, <<"fb", "fc">>}),
           Graph({<<"fb", "fa">>, <<"fa", "fb">>, <<"fc", "fa">>, <<"fc", "fb">>}),
           Graph({<<"fc", "fb">>, <<"ia", "la">>, <<"ia", "fb">>})}
Names == {[h \in MCHeader |-> "ok"], [h \in MCHeader |-> IF h = "fc" THEN "other" ELSE "ok"],
          [h \in MCHeader |-> IF h = "fc" THEN "colon" ELSE "ok"]}

MCProject ==
  [flags : UNION {[1..n -> MCDirs \cup {"other"}] : n \in 0..3}, below : {Below}, rel : {Rels},
   top : {Tops}, name : Names, valid : {MCHeader, MCHeader \ {"ia"}, MCHeader \ {"fb"}},
   deps : Graphs, excludes : {{}, {"foo"}}]
=============================================================================
