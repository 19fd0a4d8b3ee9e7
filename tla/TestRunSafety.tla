--------------------------- MODULE TestRunSafety ---------------------------
(***************************************************************************)
(* What must hold of TestRun: the properties its run checks.               *)
(***************************************************************************)
EXTENDS TestRun

TypeOK ==
  /\ mode \in {"selected", "rand", "all", "demos", "demo"}
  /\ pc \in {"start", "list", "next", "llcppcfg", "wait", "demos", "demo", "examples",
             "ok", "failed", "panic"}
  /\ lister \in {"none", "running", "failing", "ended"} /\ eof \in BOOLEAN
  /\ listed \subseteq Pkg /\ todo \subseteq Pkg /\ runs \subseteq Pkg /\ pkg \in Pkg \cup {NoPkg}
  /\ wg \in Nat /\ gen \in [Pkg -> {"none", "started", "running", "ended"}]
  /\ child \subseteq {"llcppcfg", "llcppg"} \X Pkg

(* "finished!" is printed, in the package modes, only when every llcppg    *)
(* that was started has ended, its process too, and llcppcfg and llcppg    *)
(* have run for all packages that were listed: all that pkg-config lists,  *)
(* or a panic is still to come because it failed.                          *)
AllWaited ==
  pc = "ok" /\ mode \in {"selected", "rand", "all"} =>
    /\ \A p \in runs : gen[p] = "ended" /\ <<"llcppg", p>> \notin child
    /\ mode = "all" => runs = listed /\ (listed = Pkg \/ lister = "failing")

(* llcppcfg and llcppg of one package share its directory, and the second  *)
(* reads what the first writes: they never run at the same time.           *)
OneInDir == \A p \in Pkg : Cardinality({c \in child : c[2] = p}) <= 1

(* Whatever fails, the program ends: nothing waits for a pipe nobody       *)
(* closes or for a goroutine that never calls Done.                        *)
Ends == <>Ended

Commands(d) == {log[d][i] : i \in DOMAIN log[d]}
Passed(d) == Commands(d) = {<<c, TRUE>> : c \in Command \cup Example[d]}
(* The verdict on the demos: success means that every demo with an         *)
(* llcppg.cfg, or the one demo asked for, ran all its commands and         *)
(* examples; a failure neither hides behind a later success nor keeps the  *)
(* other demos from being run; a demo ends at its first failed command.    *)
DemosJudged ==
  /\ \A d \in Entry : \A i \in 1..Len(log[d]) - 1 : log[d][i][2]
  /\ mode = "demo" /\ pc = "ok" => Passed(cur)
  /\ mode = "demos" /\ pc = "ok" => Found # {} /\ \A d \in Found : Passed(d)
  /\ mode = "demos" /\ pc = "failed" /\ cur # NoDemo =>
       demos = {} /\ \A d \in Found \ failedDemos : Passed(d)

(* Only the demo that is run has its output and its copy of the examples   *)
(* on the disk, whichever step of an earlier one failed.  The directory    *)
(* for llgo's own files is never removed.                                  *)
TempRemoved ==
  \A t \in temp : t[2] # "rundir" => t[1] = cur /\ pc \in {"demo", "examples"}
=============================================================================
