------------------------------- MODULE MCDeps ------------------------------
(***************************************************************************)
(* Instances of Deps: every graph of at most two dependencies for each of  *)
(* three packages, with self-dependencies, cycles, diamonds, and one       *)
(* spelling with a version; q may also depend on the C library by its path.*)
(***************************************************************************)
EXTENDS DepsSafety, TLC

MCDep == {"c", "lib/c", "p", "q", "r", "q@v2"}
MCPath == ("c" :> "lib/c") @@ ("lib/c" :> "lib/c") @@ ("p" :> "p") @@ ("q" :> "q")
       @@ ("r" :> "r") @@ ("q@v2" :> "q")
MCPubs == ("lib/c" :> [size_t |-> "SizeT", FILE |-> "FILE"])
       @@ ("p" :> [size_t |-> "SizeT", a |-> "A"])
       @@ ("q" :> [a |-> "A", b |-> "B", gone |-> "Gone"])
       @@ ("r" :> [b |-> "B", a |-> "ARec", d |-> "d"])
MCDefines == ("lib/c" :> {"SizeT", "FILE"}) @@ ("p" :> {"SizeT", "A"})
          @@ ("q" :> {"A", "B"}) @@ ("r" :> {"B", "ARec", "d"})

Lists == {<<>>} \cup {<<x>> : x \in {"p", "q", "r"}}
         \cup {s \in {<<x, y>> : x, y \in {"p", "q", "r"}} : s[1] # s[2]}
RootLists == {<<>>, <<"p">>, <<"q@v2", "p">>, <<"r", "c", "q">>, <<"p", "lib/c">>}
MCGraph == {g \in [{"p", "q", "r", "root"} -> Lists \cup RootLists \cup {<<"lib/c">>}] :
              g["root"] \in RootLists /\ \A x \in {"p", "q", "r"} : g[x] \in Lists
              \/ (x = "q" /\ g[x] = <<"lib/c">>)}
=============================================================================
