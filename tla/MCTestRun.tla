----------------------------- MODULE MCTestRun -----------------------------
(***************************************************************************)
(* Instance of TestRun: three packages; demos with two examples and with   *)
(* none, with an llcppg.cfg that cannot be read or, in "ssl", not even     *)
(* found although it is there, and a directory without one.                *)
(***************************************************************************)
EXTENDS TestRunSafety, TLC

MCConf == ("lua" :> "ok") @@ ("zlib" :> "ok") @@ ("sqlite" :> "unreadable") @@ ("doc" :> "absent") @@
          ("ssl" :> "hidden")
MCExample == ("lua" :> {"coroutine", "table"}) @@ ("zlib" :> {}) @@ ("sqlite" :> {"open"}) @@ ("doc" :> {}) @@
             ("ssl" :> {"get"})
=============================================================================
