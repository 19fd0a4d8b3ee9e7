------------------------------ MODULE MCParser -----------------------------
(***************************************************************************)
(* Instances of Parser: every C unit of up to four declarations over two   *)
(* tags, one of which a typedef may share, another typedef, a function, a  *)
(* macro and an include directive.                                         *)
(***************************************************************************)
EXTENDS ParserSafety

MCTagName == {"a", "b"}
MCTypedefName == {"a", "t"}
=============================================================================
