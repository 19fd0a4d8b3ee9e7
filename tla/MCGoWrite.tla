----------------------------- MODULE MCGoWrite -----------------------------
(***************************************************************************)
(* Instance of GoWrite: files of at most three declarations, with comments *)
(* of one and of three lines, nil comments and empty interfaces.           *)
(***************************************************************************)
EXTENDS GoWrite

Docs == {<<>>, <<3, 1>>, <<0, 1>>}
MCDecls ==
  {[kind |-> "func", doc |-> c, type |-> TRUE, body |-> b, ifaces |-> i] :
     c \in Docs, b \in BOOLEAN, i \in {<<>>, <<FALSE, TRUE>>}} \cup
  {[kind |-> "func", doc |-> <<1>>, type |-> FALSE, body |-> FALSE, ifaces |-> <<>>]} \cup
  {[kind |-> "gen", doc |-> c, type |-> TRUE, body |-> FALSE, ifaces |-> i] :
     c \in Docs, i \in {<<>>, <<TRUE>>}}
MCFiles ==
  [doc : {<<>>, <<2>>}, decls : UNION {[1..n -> MCDecls] : n \in 0..2}]
=============================================================================
