------------------------------ MODULE MCHeader -----------------------------
(***************************************************************************)
(* Instances of Header: two possible interface headers a and b, a header i *)
(* next to a, a header s of a directory whose name begins like theirs, and *)
(* a system header t, laid out in four ways, with every include graph over *)
(* six directives, two of which make a cycle.                              *)
(***************************************************************************)
EXTENDS HeaderSafety

MCFile == {"a", "b", "i", "s", "t"}
Usr == <<"/", "usr", "t.h">>
Layouts == {
  [a |-> <<"inc", "a.h">>, b |-> <<"inc", "b.h">>, i |-> <<"inc", "i.h">>,
   s |-> <<"include", "s.h">>, t |-> Usr],
  [a |-> <<"inc", "x", "a.h">>, b |-> <<"inc", "y", "b.h">>, i |-> <<"inc", "x", "i.h">>,
   s |-> <<"include", "s.h">>, t |-> Usr],
  [a |-> <<"/", "opt", "inc", "a.h">>, b |-> <<"/", "opt", "inc", "b.h">>,
   i |-> <<"/", "opt", "inc", "i.h">>, s |-> <<"/", "opt", "include", "s.h">>, t |-> Usr],
  [a |-> <<"/", "opt", "x", "a.h">>, b |-> <<"/", "opt", "y", "b.h">>,
   i |-> <<"/", "opt", "x", "i.h">>, s |-> <<"s.h">>, t |-> Usr]}

Edges == {<<"a", "b">>, <<"a", "i">>, <<"i", "t">>, <<"b", "s">>, <<"b", "a">>, <<"i", "s">>}
Order == <<"a", "b", "i", "s", "t">>
Graphs == {[f \in MCFile |-> SelectSeq(Order, LAMBDA g : <<f, g>> \in E)] : E \in SUBSET Edges}

MCProjects ==
  [path : Layouts, incl : Graphs, once : {MCFile, MCFile \ {"i", "s"}},
   includes : {<<"a">>, <<"a", "b">>, <<"b", "a">>}, mix : BOOLEAN]
MCBegins == {<<"inc", "include">>}
MCCwd == <<"/", "home">>

(* The hypothesis of the theorem LocalImpls of HeaderProofs holds here. *)
ASSUME LaidOut == CleanPaths
=============================================================================
