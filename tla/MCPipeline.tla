----------------------------- MODULE MCPipeline ----------------------------
(***************************************************************************)
(* An instance of Pipeline: two projects that share a Go file, one of      *)
(* which publishes no type.                                                *)
(***************************************************************************)
EXTENDS PipelineSafety

MCProjects == {[goFiles |-> {"a.go", "b.go"}, public |-> TRUE],
               [goFiles |-> {"a.go"}, public |-> FALSE]}
=============================================================================
